SPECIFICATION Spec
CONSTANTS
    None = None
    Spent = Spent
    g1 = g1 t1 = t1
    o1 = o1 o2 = o2 o3 = o3 b1 = b1 b2 = b2 w1 = w1 w2 = w2
    Obs = {o1, o2, o3}
    Blobs = {b1, b2}
    Content <- SharedContent
    Owners = {w1, w2}
    OwnerOf <- TwoOwners
    GrantIds = {g1}
    Tokens = {t1}
    Ttl = 1
    PinTtls = {2}
    TombstoneTtl = 1
    MaxClock = 1
    MaxCrashes = 1
    Faulty = {o2}
    MaxOwnerBytes = 2
    MaxTotalBytes = 3
    MaxPinnedBytes = 1
    MaxOwnerObservations = 2
    MaxTotalObservations = 2
    MaxGrantsPerEvidence = 1
    MaxCursorsPerOwner = 1
    u1 = u1 u2 = u2 u3 = u3 u4 = u4
    Exports = {1, 2, 3}
    Policy <- SomeReplace
    UserFiles = {u1, u2, u3, u4}
    Present = u1
    MaxLosses = 2
    FaultyExports = {1, 2, 3}
    a = a k1 = k1 k2 = k2
    Toxes = {a}
    Callers = {k1, k2}
    AutoIgnoreAfter = 2
    MaxTorn = 1
    id = id bin = bin port = port image = image r1 = r1
    Fields = {id, bin, port, image}
    Identity = id
    Binary = bin
    Unsaved = {image}
    RestartOnly = {id, bin, port}
    Values = {1, 2}
    Bad = Bad
    Broken = Broken
    Requests = {r1}
    Edits <- SomeEdits
    MaxRestarts = 1
    MaxEdits = 1
    Spawns = {l1, l2}
    Kills = {x1}
    CreateIfMissing = {l1, l2}
    Numbers = {1}
    MaxOthers = 1
CHECK_DEADLOCK FALSE
INVARIANT CleanStoreHasDestination
