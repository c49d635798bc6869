\* One request of every kind among changes by others and one fault.
SPECIFICATION Spec
CONSTANTS
    Users <- SmallUsers
    Urls <- SmallUrls
    Names <- SmallNames
    Databases <- SmallDatabases
    Requests <- SmallRequests
    MaxChanges <- Changes
    MaxFaults = 1
    None = None
INVARIANTS
    RequestSound AnswersWereTrue MultigetAnswersEach OnlyTheEntitled
    HrefsResolve PrivilegesAreTrue MembershipIsMutual
CHECK_DEADLOCK FALSE
