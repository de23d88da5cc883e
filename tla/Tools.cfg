SPECIFICATION Spec
CONSTANTS
    None = None
    o1 = o1 o2 = o2 o3 = o3
    Names = {o1, o2, o3}
    Asked <- TwoAndOneInside
    Scenes <- SomeScenes
    MaxSteps = 3
    x1 = x1 x2 = x2 pd = pd pt = pt m1 = m1
    Unpacks = {x1, x2}
    Overwrites <- MayReplace
    Priors <- PriorPair
    Written = {m1}
    MaxIoFaults = 1
    TapMax = 1
    BatchMax = 1
    OutMax = 1
    ChannelMax = 1
    PostMax = 1
    RingCapacity = 2
    FetchLimit = 1
    RenderCap = 2
    MaxRecords = 4
    MaxReloads = 1
    MaxFilters = 1
    Torn = Torn
    MaxIncrement = 1
    MaxSibling = 2
    MaxVersion = 2
    MaxSnapshots = 3
    MaxExits = 1
    Broken = Broken
    BridgeDats = {boot, exec}
    Installs = {u1, u2}
    Wanted <- BothWays
    FirstProject <- SomeProjects
    MaxWork = 2
    MaxSecond = 1
    MaxBroken = 1
    Custom = Custom
    v1 = v1 v2 = v2 v3 = v3 n1 = n1 n2 = n2
    Builds = {v1, v2, v3}
    VersionOf <- VersionsOf
    TemplateOf <- TemplatesOf
    Installers = {n1, n2}
    Commands <- SomeCommands
    Shipments = {v1, None}
    MaxMishaps = 1
    MaxHalts = 1
    h = h s1 = s1 k1 = k1 q1 = q1 q2 = q2
    Home = h
    Slaves = {s1}
    Clients = {k1}
    Calls = {q1, q2}
    CallerOf <- SessionOf
    MayAsk <- BatchAndInspect
    MayName <- NamedOrNot
    Replies <- PlainReplies
    MaxUpsets = 1
    Documents <- SomeDocuments
    UnsafeKeys = {"__proto__"}
    StringCost = 3
    HeaderCost = 1
    MaxDepth = 5
    MaxValues = 20
    MaxTransforms = 2
    MaxRosterPaths = 3
    MaxPathsPerTransform = 2
    MaxSegments = 4
    MaxBytes = 64
    Sources = {src}
    ScriptTargets = {dep}
    MaxSources = 1
    MaxNesting = 2
    MaxPrints = 2
    MaxRuns = 2
    MaxBridgeReloads = 1
    p1 = p1 p2 = p2 g1 = g1 g2 = g2 i1 = i1 i2 = i2
    PageNames = {p1, p2}
    ParNames = {g1, g2}
    ItemLists <- SomeItems
    NoItems <- EmptyMenu
    MaxItems = 1
    MaxDefs = 3
    SomeBatches <- SomePanels
    MaxApplies = 2
    MaxPanelEdits = 1
    NaN = NaN
    Inf = Inf
    MaxPointSamples = 2
    MaxRegionValues = 4
    MaxChannels = 2
    MaxScalars = 4
    SomeReads <- SomeSamples
    Contexts = {"c"}
    PathNames = {"x"}
    Fields = {"f", "g"}
    Raws <- SixValues
    MaxNodes = 2
    MaxFields = 2
    SomeRequests <- Projections
    MaxSceneEdits = 2
    MaxCompares = 2
CHECK_DEADLOCK FALSE
INVARIANTS EditsAreTold UnpackIsAllOrNothing TailIsInOrder SnapshotIsSafe BridgeInstallIsSafe InstallKeepsItsWord RoutedCallIsTold ReadingsAreTrue
