\* A conditional DELETE of another version answers success.
SPECIFICATION Spec
CONSTANTS
    Clients = {c1}
    Urls = {cal}
    Names = {r1}
    Fields = {}
    Values = {v0}
    Default = v0
    Methods = {"put", "delete"}
    Arc4Random = TRUE
    MaxColn = 1
    MaxRequests = 3
    FaultKinds = {"crash", "statement", "commit", "listing"}
    MaxFaults = 0
    None = None
PROPERTIES DeletedMeansGone
CHECK_DEADLOCK FALSE
