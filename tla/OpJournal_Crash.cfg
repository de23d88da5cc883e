SPECIFICATION JournalSpec
CONSTANTS
    None = None
    Ids = {1, 2}
    Owners = {o1}
    MaxRowsPerOwner = 1
    MaxTotalRows = 2
    MaxInFlightPerOwner = 2
    MaxInFlightTotal = 2
    Retention = 1
    MaxClock = 1
    Batches <- SmallBatches
    Classes = {"applying"}
    Accounts = {"applied"}
    Faulty = {}
SYMMETRY OwnerSymmetry
INVARIANT CrashAfterDispatchIsVisible
