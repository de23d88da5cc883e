SPECIFICATION Spec
CONSTANTS
    None = None
    c1 = c1 c2 = c2
    Calls = {c1, c2}
    Launches = {c2}
    Watcher = W
    MaxDeaths = 1
    e1 = e1 e2 = e2 d0 = d0 d1 = d1 d2 = d2
    Ensurers = {e1, e2}
    TrayEnsurers = {e1}
    Daemons = {d0, d1, d2}
    Elder = d0
    Ghost = Ghost
    MaxKills = 1
    s1 = s1 p1 = p1
    Slaves = {s1}
    RemotePids = {p1}
    MaxRoles = 2
    MaxFaults = 1
    MaxMoves = 2
    main = main dlg = dlg next = next aide = aide k1 = k1
    Windows = {main, dlg, next, aide}
    Looks <- TwoPlatforms
    Buttons <- OkOrNo
    Modal = {dlg, next}
    AtStart = {main, dlg, aide}
    Sweeper = Sweeper
    Gates = {g1}
    Dismissers = {k1}
    Together = {{g1}, {k1}}
    Target <- TheDialog
    Wanted <- SayNo
    MaxTimeouts = 1
    MaxTurns = 1
CHECK_DEADLOCK FALSE
INVARIANTS OneReconnectPerFailure LockNamesAnOwner
PROPERTIES MarkedLinkRecovers ReporterIsListed DialogsFollowTheScreen
