SPECIFICATION Spec
CONSTANTS
    t1 = t1
    s1 = s1
    n1 = n1
    k1 = k1
    None = None
    NoKey = NoKey
    Upload = {u1, u2}
    Manual = {m1}
    Tenant = {t1, t2}
    Source = {s1, s2}
    Nonce = {n1}
    Timestamp = {1, 2}
    Key = {k1, k2}
    TenantOf <- MCTenantOf
    File <- MCFiles
    DirectEvent <- MCDirect
    AnalystStatus = {"closed"}
    AnalystSeverity = {"medium"}
    RuleSeverity = {"medium", "high"}
    AlertWindow = 0
    IncidentWindow = 1
    MaxClock = 1
INVARIANTS TypeOK EvidenceUnique CreditsApart LocalsStillTrue DoneMeansStored
PROPERTIES AnalystDecides UploadAnswered
CHECK_DEADLOCK FALSE
