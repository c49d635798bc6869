SPECIFICATION Spec
CONSTANTS
    Procs = {p1, p2}
    Uids = {root, alice}
    Root = root
    Users = {u1, u2}
    Mails = {m1, m2, m3}
    Hashes = {h1, h2}
    MaxIds = 2
    MaxJobs = 2
    FaultKinds = {"crash", "statement", "busy"}
    MaxFaults = 1
    None = None
SYMMETRY Alike
INVARIANTS TypeOK AccountsSound
PROPERTIES OnlyOwnerCreates OnlyHolderChanges ProxyActsWithRight RightsGivenByOwner
CHECK_DEADLOCK FALSE
