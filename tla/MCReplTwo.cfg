SPECIFICATION Spec
CONSTANTS
    c1 = c1  c2 = c2  k1 = k1  k2 = k2  k3 = k3  v1 = v1  v2 = v2  r1 = r1  r2 = r2
    None = None
    Clients = {c1, c2}
    Keys = {k1, k2, k3}
    Values = {v1}
    ClientKeys <- OneWriter
    MaxDelKeys = 2
    Replicas = {r1, r2}
    Starts <- OneOrTwo
    MasterAuth = FALSE
    CmdLen = 1
    RdbLen = 1
    MasterForgets = FALSE
    ReplicaKeys = {k1}
    Faults = TRUE
    GetAcks = FALSE
    MaxLog = 2
    MaxSent = 0
CHECK_DEADLOCK FALSE
INVARIANTS StreamIntact Converges
