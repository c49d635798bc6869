\* Collections removed and created under requests in flight.
SPECIFICATION Spec
CONSTANTS
    Clients = {c1, c2}
    Urls = {cal, work}
    Names = {r1}
    Fields = {}
    Values = {v0}
    Default = v0
    Methods = {"put", "get", "delcoln", "json_newcoln", "json_delcoln"}
    Arc4Random = TRUE
    MaxColn = 3
    MaxRequests = 4
    FaultKinds = {"crash", "statement", "commit", "listing"}
    MaxFaults = 1
    None = None
SYMMETRY Symmetry
INVARIANTS
    EtagIdentifiesBody
    NoStrayResources
    IInv
PROPERTIES
    NoMisdirectedWrite
CHECK_DEADLOCK FALSE
