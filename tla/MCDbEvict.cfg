\* One caller and a memory limit, three keys in two shards, no active eviction.
CONSTANTS
    t1 = t1
    t2 = t2
    k1 = k1
    k2 = k2
    k3 = k3
    v1 = v1
    v2 = v2
    None = None
    Threads = {t1}
    Keys = {k1, k2, k3}
    Values = {v1, v2}
    ShardCount = 2
    ShardOf <- TwoShards
    KeyLen <- KeyLens
    ValLen <- ValLens
    EntryOverhead = 1
    MaxSize = 2
    Ttls = {1}
    MaxMemory = 3
    LruSample = 5
    TtlSample = 0
    UsizeMod = 7
    MaxTime = 1
SPECIFICATION KeysSpec
INVARIANT Accurate
INVARIANT MemoryCap
INVARIANT KeysBracketed
PROPERTY EvictsLeastRecentlyUsed
SYMMETRY KeySymmetry
CONSTRAINT Undecided
