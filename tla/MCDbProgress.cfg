\* Two callers at the memory limit and the TTL task.  An entry set with a TTL of 0 has expired
\* at once, and the counter can wrap.
CONSTANTS
    t1 = t1
    t2 = t2
    k1 = k1
    k2 = k2
    k3 = k3
    v1 = v1
    v2 = v2
    None = None
    Threads = {t1, t2}
    Keys = {k1}
    Values = {v1, v2}
    ShardCount = 1
    ShardOf <- OneShard
    KeyLen <- KeyLens
    ValLen <- ValLens
    EntryOverhead = 1
    MaxSize = 2
    Ttls = {0}
    MaxMemory = 1
    LruSample = 5
    TtlSample = 1
    UsizeMod = 3
    MaxTime = 0
SPECIFICATION FairSpec
PROPERTIES CallsReturn ExpiredIsPurged
