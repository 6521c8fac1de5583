SPECIFICATION Spec
CONSTANTS
    Request = {r1, r2, r3}
    Limit = 2
    Window = 2
    NoExpiry = NoExpiry
PROPERTIES BlockedEnds
