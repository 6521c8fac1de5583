SPECIFICATION Spec
CONSTANTS
    t1 = t1
    s1 = s1
    n1 = n1
    k1 = k1
    None = None
    NoKey = NoKey
    Upload = {u1, u2, u3, u4}
    Manual = {m1}
    Tenant = {t1, t2}
    Source = {s1, s2, s3}
    Nonce = {n1, n2}
    Timestamp = {1}
    Key = {k1}
    TenantOf <- MCTenantOf
    File <- MCOneRow
    DirectEvent = {}
    AnalystStatus = {}
    AnalystSeverity = {}
    RuleSeverity = {"high"}
    AlertWindow = 0
    IncidentWindow = 1
    MaxClock = 0
INVARIANTS HeldApart CreditedOnce OccurrencesBacked
PROPERTIES ImplementsLedger GroupsApart
CHECK_DEADLOCK FALSE
SYMMETRY Symmetry
