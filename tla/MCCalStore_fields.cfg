\* Two property pages at once.
SPECIFICATION Spec
CONSTANTS
    Clients = {c1, c2}
    Urls = {cal}
    Names = {r1}
    Fields = {name, colour}
    Values = {v0, v1}
    Default = v0
    Methods = {"json_setcolnprops"}
    Arc4Random = TRUE
    MaxColn = 1
    MaxRequests = 3
    FaultKinds = {"crash", "statement", "commit", "listing"}
    MaxFaults = 0
    None = None
PROPERTIES UnsetFieldsKept
CHECK_DEADLOCK FALSE
