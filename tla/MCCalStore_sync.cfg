\* Resources of one collection: writers, readers and faults.
SPECIFICATION Spec
CONSTANTS
    Clients = {c1, c2, c3}
    Urls = {cal}
    Names = {r1}
    Fields = {}
    Values = {v0}
    Default = v0
    Methods = {"put", "delete", "propfind"}
    Arc4Random = TRUE
    MaxColn = 1
    MaxRequests = 4
    FaultKinds = {"crash", "listing"}
    MaxFaults = 1
    None = None
SYMMETRY Symmetry
INVARIANTS
    TypeOK
    UnchangedCtagMeansUnchanged
PROPERTIES
    NoLostUpdate
CHECK_DEADLOCK FALSE
