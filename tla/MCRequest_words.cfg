\* A link with a "+" in its collection is not found again.
SPECIFICATION Spec
CONSTANTS
    Users <- SmallUsers
    Urls <- SmallUrls
    Names <- SmallNames
    Databases <- SmallDatabases
    Requests <- SmallRequests
    MaxChanges <- Changes
    MaxFaults = 0
    None = None
INVARIANTS ListedIsFetched
CHECK_DEADLOCK FALSE
