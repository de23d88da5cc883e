SPECIFICATION Spec
CONSTANTS
    None = None
    Sessions = {1, 2}
    Requests = {r1, r2}
    MaxDeaths = 1
    MaxClicks = 2
    Jobs = {1, 2}
    Kind <- RecordThenCapture
    After <- RestoreThenPause
    LastSample <- TwoSamples
    Warmups = {0, 1}
    MaxJobs = 1
    MaxTouches = 1
CHECK_DEADLOCK FALSE
INVARIANTS QueuedIsAwaited JobsAreOrderly
PROPERTIES ComesBack ProcessIsGivenBack
