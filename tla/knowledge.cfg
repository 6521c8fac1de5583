CONSTANTS
    None = None
    MaxChars = 3
    Overlap = 1
    NoText <- MCNoText
    Corpora <- MCCorpora
    MaxLoads = 2
    Writer = {w1, w2}
    Bodies <- MCBodies
    TopK = 2
    Passages = {p1, p2, p3}
    MaxEvidence = 3
    Requests = {None, "nano", "ultra"}
    DefaultModel = "super"
    FallbackModels <- MCFallbackModels
SPECIFICATION Spec
INVARIANTS
    TypeOK
    Findable
    AnswerBacked
PROPERTIES
    EditUnmarks
    Ends
CHECK_DEADLOCK FALSE
