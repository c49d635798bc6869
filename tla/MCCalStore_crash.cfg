\* A process dies between a write and its ctag update.
SPECIFICATION Spec
CONSTANTS
    Clients = {c1, c2}
    Urls = {cal}
    Names = {r1}
    Fields = {}
    Values = {v0}
    Default = v0
    Methods = {"put", "delete", "propfind"}
    Arc4Random = TRUE
    MaxColn = 1
    MaxRequests = 3
    FaultKinds = {"crash", "statement"}
    MaxFaults = 1
    None = None
INVARIANTS CtagFollowsEveryChange
CHECK_DEADLOCK FALSE
