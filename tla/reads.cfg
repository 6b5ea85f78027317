SPECIFICATION MCSpec
CONSTANTS
    p = p  q = q  c1 = c1  c2 = c2  a = a  b = b  v1 = v1  v2 = v2  r1 = r1  r2 = r2  r3 = r3
    Procs = {p, q}
    Calls = {c1, c2}
    ProcOf <- MCApart
    Texts = {a, b}
    Requests <- MCRequests
    None = None
    TTL = 2
    BatchSize = 2
    Faults = {"redis", "sqlite", "service", "short", "restart", "evict"}
    MaxTime = 0
    Payloads = {a}  Versions = {v1, v2}  Default = v1
    ResultTTL = 1
    ResultTime = 3
    Rules = {r1, r2, r3}
    SqlOf <- MCSqlOf
    Limit = 2
    SummaryLimit = 3
    ExportLimit = 2
    MaxStamp = 2
    MaxChanges = 2
CHECK_DEADLOCK FALSE
INVARIANT ReadsTypeOK OwnVector AgeBounded ResultOfOwnVersion ResultFresh ReadsMissNothing
