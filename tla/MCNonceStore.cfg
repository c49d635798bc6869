\* Copies of requests, logouts, culls and faults, in every order.
SPECIFICATION Spec
CONSTANTS
    Procs = {p1, p2}
    Nonces = {n1, n2, n3}
    MaxNonces = 2
    CullSize = 1
    MaxCount = 2
    MaxRequests = 4
    FaultKinds = {"crash", "statement", "commit"}
    MaxFaults = 1
    None = None
INVARIANTS
    TypeOK
    TableBounded
PROPERTIES
    CountsIncrease
    LetThroughOnlyIfStored
    RefusedOnlyIfOvertaken
    EveryRequestEnds
CHECK_DEADLOCK FALSE
