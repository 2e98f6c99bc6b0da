\* A caller and the TTL task on one key.
CONSTANTS
    t1 = t1
    t2 = t2
    k1 = k1
    k2 = k2
    k3 = k3
    v1 = v1
    v2 = v2
    None = None
    Threads = {t1}
    Keys = {k1}
    Values = {v1, v2}
    ShardCount = 1
    ShardOf <- OneShard
    KeyLen <- KeyLens
    ValLen <- ValLens
    EntryOverhead = 1
    MaxSize = 2
    Ttls = {1}
    MaxMemory = 0
    LruSample = 5
    TtlSample = 2
    UsizeMod = 5
    MaxTime = 1
SPECIFICATION Spec
PROPERTY PurgesOnlyExpired
