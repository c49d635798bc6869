\* Every kind of request, a crash or a failed statement; no symmetry, for liveness.
SPECIFICATION Spec
CONSTANTS
    Clients = {c1, c2}
    Urls = {cal}
    Names = {r1}
    Fields = {name}
    Values = {v0}
    Default = v0
    Methods = {"put", "delete", "delcoln", "get", "propfind", "proppatch", "json_newcoln", "json_delcoln", "json_setcolnprops"}
    Arc4Random = TRUE
    MaxColn = 4
    MaxRequests = 3
    FaultKinds = {"crash", "statement"}
    MaxFaults = 1
    None = None
PROPERTIES
    EveryRequestEnds
    ImplementsAtomicStore
CHECK_DEADLOCK FALSE
