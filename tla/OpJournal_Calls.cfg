SPECIFICATION FairJournalSpec
CONSTANTS
    None = None
    Ids = {1, 2}
    Owners = {o1}
    MaxRowsPerOwner = 1
    MaxTotalRows = 2
    MaxInFlightPerOwner = 2
    MaxInFlightTotal = 2
    Retention = 1
    MaxClock = 0
    Batches <- DirtyBatches
    Classes = {"read", "applying", "unknown"}
    Accounts = {"applied"}
    Faulty = {1}
INVARIANT JournalTypeOK
INVARIANT HonestReceipt
INVARIANT SlotEndsWithItsGuard
INVARIANT RecoveredBeforeServed
PROPERTY EveryWaitEnds
