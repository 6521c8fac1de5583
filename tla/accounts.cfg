CONSTANTS
    b0 = b0
    acme = acme
    globex = globex
    e1 = e1
    e2 = e2
    c1 = c1
    c2 = c2
    n1 = n1
    n2 = n2
    None = None
    r1 = r1
    r2 = r2
    r3 = r3
    Req = {r1, r2, r3}
    Base = b0
    Slug = {acme, globex}
    BaseSlug = acme
    Email = {e1, e2}
    OwnerEmail = e1
    CodeIndex = {c1, c2}
    RoleName <- MCRoleName
    Permission <- MCPermission
    OwnerPermissions <- MCOwner
    Payload <- MCPayload
SPECIFICATION Spec
INVARIANTS
    TypeOK
    NamesHeldApart
    RolesComplete
    TokensWithinGrants
    RotationKeepsOne
    FactorSoundAlone
    DeadlockNeedsDisorder
SYMMETRY Symmetry
CHECK_DEADLOCK FALSE
