SPECIFICATION Spec
CONSTANTS
    t1 = t1  t2 = t2  t3 = t3  t4 = t4
    i1 = i1  i2 = i2  i3 = i3
    c1 = c1  c2 = c2  c3 = c3  c4 = c4
    Tasks = {t1, t2}
    Instances = {i1}
    Conns = {c1, c2}
    InstanceOf <- OneProcess
    PoolOf <- OneProcessPools
    Tokens = {k1}
    NoToken = NoToken
    NoTask = NoTask
    NoConn = NoConn
    LockTimeout = 3
    HeartbeatInterval = 2
    MaxHolds = 2
    Locking = {i1}
    Backends = {"pg"}
    Faults = {}
INVARIANT NoLeakedLock
