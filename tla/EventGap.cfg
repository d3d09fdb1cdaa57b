SPECIFICATION FairStreamSpec
CONSTANTS
    MaxEvents = 2
    MaxQueue = 8
    MaxDrops = 0
    Activities = {w1}
    Replicas = {p1, p2}
    Home = p1
    StreamFaults <- NoFaults
CHECK_DEADLOCK FALSE
PROPERTIES
    EveryEventArrives
