SPECIFICATION BatchSpec
CONSTANTS
    NItems = 2
    Accounts = {a1}
    Requests = {q1, q2}
    Ops <- Selecting

CHECK_DEADLOCK FALSE
PROPERTIES
    FailsFast
