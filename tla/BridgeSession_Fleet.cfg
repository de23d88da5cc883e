CONSTANTS
  None = None
  Ping = Ping
  p1 = p1 p2 = p2 c1 = c1 c2 = c2 c3 = c3 k1 = k1 k2 = k2 k3 = k3 s1 = s1 s2 = s2
  T1 = T1 T2 = T2 I1 = I1
  Pids = {p1, p2}
  Conns = {c1, c2}
  Tasks = {}
  Prints <- TwoPrints
  Spawns = {s1, s2}
  MailboxCapacity = 1
  MaxInbox = 1
  EventKinds = {}
  PeerAnswers = {"error"}
  Heartbeat = TRUE
  Droppable = {}
  Impatient = {}
SPECIFICATION Spec
CHECK_DEADLOCK FALSE
SYMMETRY ConnSymmetry
INVARIANTS ConnectedIsBacked
PROPERTY StartingRowIsOwned
