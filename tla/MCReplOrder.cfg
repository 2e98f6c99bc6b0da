SPECIFICATION Spec
CONSTANTS
    c1 = c1  c2 = c2  k1 = k1  k2 = k2  k3 = k3  v1 = v1  v2 = v2  r1 = r1  r2 = r2
    None = None
    Clients = {c1, c2}
    Keys = {k1}
    Values = {v1, v2}
    ClientKeys <- SharedKey
    MaxDelKeys = 1
    Replicas = {r1}
    Starts <- AllNew
    MasterAuth = FALSE
    CmdLen = 2
    RdbLen = 2
    MasterForgets = FALSE
    ReplicaKeys = {}
    Faults = FALSE
    GetAcks = FALSE
    MaxLog = 2
    MaxSent = 0
CHECK_DEADLOCK FALSE
INVARIANTS Converges
