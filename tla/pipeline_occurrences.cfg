SPECIFICATION Spec
CONSTANTS
    t1 = t1
    s1 = s1
    n1 = n1
    k1 = k1
    None = None
    NoKey = NoKey
    Upload = {u1, u2, u3}
    Manual = {}
    Tenant = {t1}
    Source = {s1}
    Nonce = {n1, n2, n3}
    Timestamp = {1}
    Key = {k1}
    TenantOf <- MCTenantOf
    File <- MCOneRow
    DirectEvent = {}
    AnalystStatus = {}
    AnalystSeverity = {}
    RuleSeverity = {"high"}
    AlertWindow = 1
    IncidentWindow = 1
    MaxClock = 0
INVARIANTS OccurrencesExact
CHECK_DEADLOCK FALSE
