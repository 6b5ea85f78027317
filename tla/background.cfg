SPECIFICATION MCSpec
CONSTANTS
    Messages = {1, 2, 3, 4}
    Stamp <- MCStamp
    FeatureOf <- MCFeatureOf
    Features = {"shop", "loan"}
    MiningTasks = {m1, m2}
    ChunkSize = 1
    Parallel = 3
    BatchSize = 2
    MinSpam = 2
    MinCount = 2
    ListLimit = 4
    MaxRuns = 2
    MiningFaults = {"stop", "save_error"}
    t1 = t1  t2 = t2  t3 = t3  t4 = t4
    i1 = i1  i2 = i2  i3 = i3
    c1 = c1  c2 = c2  c3 = c3  c4 = c4
    Tasks = {t1, t2, t3}
    Instances = {i1, i2, i3}
    Conns = {c1, c2, c3}
    InstanceOf <- OneEachOfThree
    PoolOf <- OneEachOfThreePools
    Tokens = {k1, k2, k3}
    NoToken = NoToken
    NoTask = NoTask
    NoConn = NoConn
    LockTimeout = 3
    HeartbeatInterval = 2
    MaxHolds = 2
    Locking = {i1, i2}
    Backends = {"redis", "pg"}
    Faults = {"redis_error", "refresh_error", "late_heartbeat", "pg_error", "crash", "close", "commit_in_body"}
INVARIANT MiningTypeOK MiningCountsOnce SavedIsPrefix DuplicatesBounded
PROPERTY LeaseEndsByTTL
SYMMETRY TaskSymmetry
CHECK_DEADLOCK FALSE
