SPECIFICATION JournalSpec
CONSTANTS
    None = None
    Ids <- ThreeIds
    Owners = {o1, o2}
    MaxRowsPerOwner = 1
    MaxTotalRows = 2
    MaxInFlightPerOwner = 1
    MaxInFlightTotal = 2
    Retention = 1
    MaxClock = 1
    Batches = {}
    Classes = {"unknown"}
    Accounts = {}
    Faulty = {}
SYMMETRY OwnerSymmetry
INVARIANT ActiveWithinQuota
INVARIANT HistoryIsBounded
PROPERTY RefinesLedger
