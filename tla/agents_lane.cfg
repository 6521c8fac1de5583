CONSTANTS
    None = None
    Client = {c1}
    Foreign = {}
    Cases <- MCPolicies
SPECIFICATION Spec
INVARIANTS
    ApprovalTimeBoxed
CHECK_DEADLOCK FALSE
