SPECIFICATION MiningSpec
CONSTANTS
    Messages = {1, 2, 3, 4}
    Stamp <- MCStamp
    FeatureOf <- MCFeatureOf
    Features = {"shop", "loan"}
    MiningTasks = {t1}
    ChunkSize = 1
    Parallel = 3
    BatchSize = 2
    MinSpam = 2
    MinCount = 2
    ListLimit = 4
    MaxRuns = 2
    MiningFaults = {"stop", "save_error"}
CHECK_DEADLOCK FALSE
INVARIANT ResumeCountsOnce
