SPECIFICATION AnalysisSpec
CONSTANTS
    a1 = a1  a2 = a2  b = b  bare = bare  z = z  odd = odd  junk = junk  old = old
    t1 = t1  t2 = t2  k1 = k1  r1 = r1  r2 = r2  r3 = r3
    Nothing = Nothing
    NoId = NoId
    Items <- MCItems
    Ext <- MCExt
    Bad = {z}
    Broken = {odd}
    Junk = {junk}
    Old = {old}
    Storages <- MCStorages
    Batches <- MCBatches
    Calls = {c1, c2}
    MaxRetries = 2
    Endpoints = 2
    Rounds = 2
    Faults = {"bulk_error", "lost_ack"}
    Sqls <- MCSqls
    Counts <- MCCounts
    Tasks = {t1, t2}
    Checkpoints = {k1}
    Finds = {0, 1}
    Rules = {r1, r2, r3}
    SqlOf <- MCSqlOf
    Mode = "regex"
    Qualities = {30, 90}
    MaxRules = 2
    Workers = 3
    Urls <- MCUrls
    Keywords <- MCKeywords
    Signatures <- MCSignatures
    Proposals <- MCProposals
    Standalone <- MCStandalone
    Clusters <- MCClusters
    Concepts <- MCConcepts
    Total = 200
    MinUrl = 5
    MinKeyword = 10
    UrlLimit = 2
    KeywordLimit = 2
    WordLimit = 1
    SpamThreshold = 40
    MaxDiscoveries = 2
CHECK_DEADLOCK FALSE
INVARIANT AnalysisTypeOK NothingLost CountedIsStored StoredOnce
INVARIANT AutoSafeAgrees TierMonotone CompletedMeansBoth SelectionCovers
INVARIANT DangerousIsDisarmed ReportedIsStored InsightHasNoRule
PROPERTY CallReturns
