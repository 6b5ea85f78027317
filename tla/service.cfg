SPECIFICATION MCSpec
CONSTANTS
    s1 = s1  s2 = s2  q1 = q1  q2 = q2  k1 = k1  k2 = k2  x = x  y = y  low = low  high = high
    Procs = {s1, s2}
    Clients = {k1, k2}
    RateLimit = 2
    Window = 2
    WafLimit = 1
    UseRedis = TRUE
    RedisFails = TRUE
    Calls = {q1, q2}
    ProcOf <- OneProc
    ApiKeys = {k1}
    Texts = {x, y}
    Requests <- MCRequests
    Thresholds = {low, high}
    Key <- MCKey
    Suspicious = {y}
    IdempotencyTTL = 1
    FailureThreshold = 2
    Timeout = 1
    CollectTraining = TRUE
    PipelineFails = TRUE
    None = None
    MaxEdits = 3
    Soft = TRUE
    Locks = TRUE
    t1 = t1  t2 = t2  t3 = t3  t4 = t4
    i1 = i1  i2 = i2  i3 = i3
    c1 = c1  c2 = c2  c3 = c3  c4 = c4
    Tasks = {t1, t2, t3, t4}
    Instances = {i1, i2, i3}
    Conns = {c1, c2, c3, c4}
    InstanceOf <- TwoAndOne
    PoolOf <- TwoAndOnePools
    Tokens = {l1, l2, l3}
    NoToken = NoToken
    NoTask = NoTask
    NoConn = NoConn
    LockTimeout = 3
    HeartbeatInterval = 2
    MaxHolds = 2
    Locking = {i1, i2}
    Backends = {"redis"}
    Faults = {"redis_error", "crash"}
    p1 = p1  p2 = p2  m1 = m1  n1 = n1  n2 = n2
    Rules = {1, 2}
    PromotionTasks = {p1, m1, n1}
    KindOf <- MCKindOf
    Evals <- AllKinds
    Profile <- balanced
    NoHolder = NoHolder
    NoEval = NoEval
INVARIANT RequestTypeOK TypeOK PromotionTypeOK
INVARIANT FailuresBounded AdmittedBounded Exclusion HolderKeepsLease ActiveWasEvaluated
PROPERTY AnswerKept BreakersRecover ConfigConverges
PROPERTY ImplementsLock OrphanLeaseEnds NoPromotionOfDegraded DegradedRuleLeaves
CHECK_DEADLOCK FALSE
