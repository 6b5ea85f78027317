SPECIFICATION Spec
CONSTANTS
    a = a  bare = bare
    NoId = NoId
    Items = {a, bare}
    Ext <- MCExt
    Bad = {}
    Broken = {}
    Junk = {}
    Old = {}
    Storages = {}
    Batches <- MCBatches
    Calls = {c1, c2}
    MaxRetries = 1
    Endpoints = 1
    Rounds = 2
    Faults = {}
CHECK_DEADLOCK FALSE
INVARIANT CountedIsInserted
