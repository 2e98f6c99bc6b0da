\* Two callers and a memory limit.
CONSTANTS
    t1 = t1
    t2 = t2
    k1 = k1
    k2 = k2
    k3 = k3
    v1 = v1
    v2 = v2
    None = None
    Threads = {t1, t2}
    Keys = {k1, k2, k3}
    Values = {v1, v2}
    ShardCount = 1
    ShardOf <- OneShard
    KeyLen <- KeyLens
    ValLen <- ValLens
    EntryOverhead = 1
    MaxSize = 2
    Ttls = {}
    MaxMemory = 2
    LruSample = 5
    TtlSample = 0
    UsizeMod = 7
    MaxTime = 0
SPECIFICATION Spec
INVARIANT MemoryCap
SYMMETRY Symmetry
