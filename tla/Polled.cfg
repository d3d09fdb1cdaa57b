SPECIFICATION PolledSpec
CONSTANTS
    Nodes = {n1, n2}
    CallsPerNode = 1
    MaxRows = 3
    Settings <- Plain
    Limit = 1
    Window = 1
    Processes = {h1, h2}
    Workers = {k1, k2}
    MaxInflight = 1
    MaxQps = 2
    TTL = 2
    Faults <- Failing
    NItems = 2
    Accounts = {a1, a2}
    Requests = {q1, q2, q3}
    Ops <- InTurn
    PublishAccounts = {o1}
    AppUids = {x1}
    Logins = {l1}
    MaxEvents = 2
    MaxQueue = 3
    MaxDrops = 2
    Activities = {g1, g2}
    Replicas = {z1, z2}
    Home = z1
    StreamFaults <- EveryStreamFault
CHECK_DEADLOCK FALSE
INVARIANTS
    
    TailShownOnce
PROPERTIES
    CircuitRecovers
    CapacityComesBack
    StreamsEnd
    EveryEventPublished
