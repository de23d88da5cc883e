-------------------------- MODULE PidRegistryProofs --------------------------
(* What the registry operations preserve.  Every operation maps a registry   *)
(* to a registry; only a handshake makes a row Connected, and only an        *)
(* observation of the connection the row is at puts identity into it.  The   *)
(* queue of a row only drains but for enqueue, the record of a spawn stays   *)
(* with its row, and a trace of cancelled tasks goes only with a success.    *)
EXTENDS PidRegistry, SequenceTheorems, TLAPS

Registry == [Pids -> Entry]

\* A row that was not connected is not connected afterwards, and whatever
\* identity it carries it carried before, at the same generation.
RowKeeps(old, new) ==
    /\ new.bridge = "Connected" => old.bridge = "Connected"
    /\ \A d \in Conns : d \in {new.ready, new.pump} =>
         d \in {old.ready, old.pump} /\ new.generation = old.generation

Keeps(reg, new) == \A q \in Pids : RowKeeps(reg[q], new[q])

\* As Keeps, and connection c of generation g may add its identity to row p.
Observes(reg, new, p, g, c) ==
    \A q \in Pids :
        /\ new[q].bridge = "Connected" => reg[q].bridge = "Connected"
        /\ \A d \in Conns : d \in {new[q].ready, new[q].pump} =>
             /\ new[q].generation = reg[q].generation
             /\ d \in {reg[q].ready, reg[q].pump} \/ (d = c /\ q = p /\ reg[q].generation = g)

-----------------------------------------------------------------------------
(* Queues and rows                                                           *)

\* The queue operations map queues to queues.
LEMMA QueueOps ==
    ASSUME NEW q \in TaskQueue(Tasks), NEW t \in Tasks
    PROVE  PushTask(q, t) \in TaskQueue(Tasks)
<1>1. q.pending \in Seq(Tasks) /\ q.inFlight \in Tasks \cup {None}
  BY DEF TaskQueue
<1> QED
  BY <1>1 DEF PushTask, TaskQueue

\* Promotion and completion map queues to queues.
LEMMA QueueSteps ==
    ASSUME NEW q \in TaskQueue(Tasks)
    PROVE  /\ StartNextTask(q) \in TaskQueue(Tasks)
           /\ CompleteInFlight(q) \in TaskQueue(Tasks)
           /\ CancelledBy(q) \in Seq(Tasks)
<1>1. q.pending \in Seq(Tasks) /\ q.inFlight \in Tasks \cup {None}
  BY DEF TaskQueue
<1>2. StartNextTask(q) \in TaskQueue(Tasks)
  BY <1>1 DEF StartNextTask, TaskQueue
<1>3. CompleteInFlight(q) \in TaskQueue(Tasks)
  BY <1>1 DEF CompleteInFlight, TaskQueue
<1>4. CancelledBy(q) \in Seq(Tasks)
  BY <1>1 DEF CancelledBy
<1> QED
  BY <1>2, <1>3, <1>4

\* The empty queue is a queue.
LEMMA NewQueueType == NewQueue \in TaskQueue(Tasks)
BY DEF NewQueue, TaskQueue

\* The absent row is a row, disconnected and without identity.
LEMMA AbsentIsEntry ==
    /\ AbsentEntry \in Entry
    /\ AbsentEntry.bridge = "Absent"
    /\ AbsentEntry.ready = None /\ AbsentEntry.pump = None
BY NewQueueType DEF AbsentEntry, Entry, BridgeStatus

\* Any row may become absent.
LEMMA AbsentKeeps ==
    ASSUME NEW old
    PROVE  RowKeeps(old, AbsentEntry)
BY AbsentIsEntry, NoneAssumption DEF RowKeeps

\* A new queue value in a row.
LEMMA QueueUpdate ==
    ASSUME NEW e \in Entry, NEW q \in TaskQueue(Tasks)
    PROVE  [e EXCEPT !.queue = q] \in Entry /\ RowKeeps(e, [e EXCEPT !.queue = q])
BY DEF Entry, RowKeeps

\* A new trace in a row.
LEMMA TraceUpdate ==
    ASSUME NEW e \in Entry, NEW s \in Seq(Tasks), NEW b \in BOOLEAN,
           NEW c \in Conns \cup {None}
    PROVE  LET f == [e EXCEPT !.cancelled = s, !.resurrected = b, !.lastDisconnect = c]
           IN  f \in Entry /\ RowKeeps(e, f) /\ f.bridge = e.bridge
BY DEF Entry, RowKeeps

\* Clearing the trace of a row.
LEMMA ClearedIsEntry ==
    ASSUME NEW e \in Entry
    PROVE  /\ ClearResurrection(e) \in Entry
           /\ ClearResurrection(e).bridge = e.bridge
           /\ RowKeeps(e, ClearResurrection(e))
<1>1. <<>> \in Seq(Tasks) /\ FALSE \in BOOLEAN
  OBVIOUS
<1> QED
  BY <1>1, TraceUpdate DEF ClearResurrection

\* A row that lost its queue and its provenance.
LEMMA ForgetfulIsEntry ==
    ASSUME NEW e \in Entry
    PROVE  /\ [e EXCEPT !.queue = NewQueue, !.spawn = None] \in Entry
           /\ [e EXCEPT !.queue = NewQueue, !.spawn = None].bridge = e.bridge
BY NewQueueType DEF Entry

\* A handshake makes a row Connected whatever it was before.
LEMMA HandshakeEntryType ==
    ASSUME NEW e \in Entry, NEW f \in Prints
    PROVE  HandshakeEntry(e, f) \in Entry /\ HandshakeEntry(e, f).bridge = "Connected"
<1> DEFINE connected == [e EXCEPT !.bridge = "Connected", !.print = f]
<1>1. connected \in Entry /\ connected.bridge = "Connected"
  BY DEF Entry, BridgeStatus
<1>2. /\ [AbsentEntry EXCEPT !.bridge = "Connected", !.print = f] \in Entry
      /\ [AbsentEntry EXCEPT !.bridge = "Connected", !.print = f].bridge = "Connected"
  BY AbsentIsEntry DEF Entry, BridgeStatus
<1>3. /\ [connected EXCEPT !.resurrected = TRUE] \in Entry
      /\ [connected EXCEPT !.resurrected = TRUE].bridge = "Connected"
  <2> HIDE DEF connected
  <2> QED  BY <1>1 DEF Entry
<1>4. /\ [ClearResurrection(connected) EXCEPT !.queue = NewQueue, !.spawn = None] \in Entry
      /\ [ClearResurrection(connected) EXCEPT !.queue = NewQueue, !.spawn = None].bridge
           = "Connected"
  <2> HIDE DEF connected
  <2> QED  BY <1>1, ClearedIsEntry, ForgetfulIsEntry
<1>5. e.bridge \in BridgeStatus
  BY DEF Entry
<1> QED
  BY <1>1, <1>2, <1>3, <1>4, <1>5 DEF HandshakeEntry, BridgeStatus

-----------------------------------------------------------------------------
(* Operations of the registry                                                *)

\* Replacing one row by one that keeps what it has to keep.
LEMMA RowUpdate ==
    ASSUME NEW reg \in Registry, NEW p \in Pids, NEW e \in Entry, RowKeeps(reg[p], e)
    PROVE  /\ [reg EXCEPT ![p] = e] \in Registry
           /\ Keeps(reg, [reg EXCEPT ![p] = e])
BY DEF Registry, Keeps, RowKeeps

\* Doing nothing keeps everything.
LEMMA SameKeeps == ASSUME NEW reg PROVE Keeps(reg, reg)
BY DEF Keeps, RowKeeps

\* Queue operations of a registered pid (enqueue, start_next,
\* cancel_queue_keep_connected).
LEMMA QueueOpsKeep ==
    ASSUME NEW reg \in Registry, NEW p \in Pids, NEW t \in Tasks
    PROVE  Enqueue(reg, p, t) \in Registry /\ Keeps(reg, Enqueue(reg, p, t))
<1>1. reg[p] \in Entry /\ reg[p].queue \in TaskQueue(Tasks)
  BY DEF Registry, Entry
<1> DEFINE e == [reg[p] EXCEPT !.queue = PushTask(@, t)]
<1>2. e \in Entry /\ RowKeeps(reg[p], e)
  BY <1>1, QueueOps, QueueUpdate
<1>3. Enqueue(reg, p, t) = [reg EXCEPT ![p] = e]
  BY DEF Enqueue
<1> HIDE DEF e
<1> QED
  BY <1>2, <1>3, RowUpdate

\* Promotion and clearing of a queue.
LEMMA QueueStepsKeep ==
    ASSUME NEW reg \in Registry, NEW p \in Pids
    PROVE  /\ StartNext(reg, p) \in Registry /\ Keeps(reg, StartNext(reg, p))
           /\ CancelQueueKeepConnected(reg, p) \in Registry
           /\ Keeps(reg, CancelQueueKeepConnected(reg, p))
<1>1. reg[p] \in Entry /\ reg[p].queue \in TaskQueue(Tasks)
  BY DEF Registry, Entry
<1>2. StartNext(reg, p) \in Registry /\ Keeps(reg, StartNext(reg, p))
  <2> DEFINE e == [reg[p] EXCEPT !.queue = StartNextTask(@)]
  <2>1. e \in Entry /\ RowKeeps(reg[p], e)
    BY <1>1, QueueSteps, QueueUpdate
  <2>2. StartNext(reg, p) = [reg EXCEPT ![p] = e]
    BY DEF StartNext
  <2> HIDE DEF e
  <2> QED
    BY <2>1, <2>2, RowUpdate
<1>3. /\ CancelQueueKeepConnected(reg, p) \in Registry
      /\ Keeps(reg, CancelQueueKeepConnected(reg, p))
  BY <1>1, NewQueueType, QueueUpdate, RowUpdate DEF CancelQueueKeepConnected
<1> QED
  BY <1>2, <1>3

\* Completion of a task, with the trace told of the outcome.
LEMMA CompleteTaskKeeps ==
    ASSUME NEW reg \in Registry, NEW p \in Pids, NEW ok \in BOOLEAN
    PROVE  CompleteTask(reg, p, ok) \in Registry /\ Keeps(reg, CompleteTask(reg, p, ok))
<1>1. reg[p] \in Entry /\ reg[p].queue \in TaskQueue(Tasks)
  BY DEF Registry, Entry
<1> DEFINE e == [reg[p] EXCEPT !.queue = CompleteInFlight(@)]
<1>2. e \in Entry /\ RowKeeps(reg[p], e)
  BY <1>1, QueueSteps, QueueUpdate
<1> HIDE DEF e
<1>3. OnTaskOutcome(e, ok) \in Entry /\ RowKeeps(e, OnTaskOutcome(e, ok))
  BY <1>2, ClearedIsEntry DEF OnTaskOutcome, RowKeeps
<1>4. RowKeeps(reg[p], OnTaskOutcome(e, ok))
  BY <1>2, <1>3 DEF RowKeeps
<1>5. [reg EXCEPT ![p] = OnTaskOutcome(e, ok)] \in Registry
        /\ Keeps(reg, [reg EXCEPT ![p] = OnTaskOutcome(e, ok)])
  BY <1>3, <1>4, RowUpdate
<1>6. \/ CompleteTask(reg, p, ok) = reg
      \/ CompleteTask(reg, p, ok) = [reg EXCEPT ![p] = OnTaskOutcome(e, ok)]
  BY DEF CompleteTask, e
<1> QED
  BY <1>5, <1>6, SameKeeps

\* Removal of rows.
LEMMA RemovalKeeps ==
    ASSUME NEW reg \in Registry, NEW p \in Pids
    PROVE  /\ EvictIfDisconnected(reg, p) \in Registry
           /\ Keeps(reg, EvictIfDisconnected(reg, p))
           /\ RemoveStarting(reg, p) \in Registry
           /\ Keeps(reg, RemoveStarting(reg, p))
<1>1. [reg EXCEPT ![p] = AbsentEntry] \in Registry
        /\ Keeps(reg, [reg EXCEPT ![p] = AbsentEntry])
  BY AbsentIsEntry, AbsentKeeps, RowUpdate
<1> QED
  BY <1>1, SameKeeps DEF EvictIfDisconnected, RemoveStarting

\* Registration of a spawned child.
LEMMA RegisterStartingKeeps ==
    ASSUME NEW reg \in Registry, NEW p \in Pids, NEW s \in Spawns
    PROVE  /\ RegisterStarting(reg, p, s) \in Registry
           /\ Keeps(reg, RegisterStarting(reg, p, s))
<1> DEFINE e == [AbsentEntry EXCEPT !.bridge = "Starting", !.spawn = s]
<1>1. e \in Entry /\ RowKeeps(reg[p], e)
  BY AbsentIsEntry, NoneAssumption DEF Entry, BridgeStatus, RowKeeps
<1> HIDE DEF e
<1>2. [reg EXCEPT ![p] = e] \in Registry /\ Keeps(reg, [reg EXCEPT ![p] = e])
  BY <1>1, RowUpdate
<1> QED
  BY <1>2, SameKeeps DEF RegisterStarting, e

\* A loss disconnects the row.
LEMMA OnBridgeLostKeeps ==
    ASSUME NEW reg \in Registry, NEW p \in Pids, NEW c \in Conns
    PROVE  /\ OnBridgeLost(reg, p, c) \in Registry
           /\ Keeps(reg, OnBridgeLost(reg, p, c))
           /\ OnBridgeLost(reg, p, c)[p].bridge # "Connected"
<1>1. /\ reg[p] \in Entry
      /\ reg[p].queue \in TaskQueue(Tasks)
      /\ reg[p].cancelled \in Seq(Tasks)
  BY DEF Registry, Entry
<1>2. reg[p].cancelled \o CancelledBy(reg[p].queue) \in Seq(Tasks)
  BY <1>1, QueueSteps
<1> DEFINE s == reg[p].cancelled \o CancelledBy(reg[p].queue)
           e == [reg[p] EXCEPT !.bridge = "Disconnected", !.queue = NewQueue,
                               !.cancelled = s, !.resurrected = FALSE,
                               !.lastDisconnect = c]
<1> HIDE DEF s
<1>3. e \in Entry /\ RowKeeps(reg[p], e) /\ e.bridge # "Connected"
  BY <1>1, <1>2, NewQueueType DEF Entry, BridgeStatus, RowKeeps, s
<1> HIDE DEF e
<1>4. [reg EXCEPT ![p] = e] \in Registry /\ Keeps(reg, [reg EXCEPT ![p] = e])
  BY <1>3, RowUpdate
<1>5. CASE reg[p].bridge = "Absent"
  BY <1>5, SameKeeps DEF OnBridgeLost
<1>6. CASE reg[p].bridge # "Absent"
  <2>1. OnBridgeLost(reg, p, c) = [reg EXCEPT ![p] = e]
    BY <1>6 DEF OnBridgeLost, e, s
  <2> QED
    BY <1>3, <1>4, <2>1 DEF Registry
<1> QED
  BY <1>5, <1>6

\* A handshake connects its own row, empties its identity, and only removes
\* other rows.
LEMMA HandshakeConnects ==
    ASSUME NEW reg \in Registry, NEW p \in Pids, NEW f \in Prints, NEW g \in Nat
    PROVE  /\ Handshake(reg, p, f, g) \in Registry
           /\ \A d \in Conns : d \notin {Handshake(reg, p, f, g)[p].ready,
                                         Handshake(reg, p, f, g)[p].pump}
           /\ \A q \in Pids \ {p} : RowKeeps(reg[q], Handshake(reg, p, f, g)[q])
<1>1. reg[p] \in Entry
  BY DEF Registry
<1> DEFINE h == HandshakeEntry(reg[p], f)
           e == BeginConnection(h, g)
<1>2. h \in Entry /\ h.bridge = "Connected"
  BY <1>1, HandshakeEntryType
<1> HIDE DEF h
<1>3. e \in Entry /\ e.bridge = "Connected" /\ e.ready = None /\ e.pump = None
  BY <1>2 DEF BeginConnection, Entry
<1> HIDE DEF e
<1> DEFINE r == [reg EXCEPT ![p] = e]
<1>4. r \in Registry /\ r[p] = e /\ \A q \in Pids \ {p} : r[q] = reg[q]
  BY <1>3 DEF Registry
<1> HIDE DEF r
<1>5. /\ EvictAllDisconnected(r, p) \in Registry
      /\ EvictAllDisconnected(r, p)[p] = e
      /\ \A q \in Pids \ {p} : EvictAllDisconnected(r, p)[q] \in {reg[q], AbsentEntry}
  BY <1>4, AbsentIsEntry DEF EvictAllDisconnected, Registry
<1>6. \A q \in Pids \ {p} : RowKeeps(reg[q], EvictAllDisconnected(r, p)[q])
  <2> SUFFICES ASSUME NEW q \in Pids \ {p}
               PROVE  RowKeeps(reg[q], EvictAllDisconnected(r, p)[q])
    OBVIOUS
  <2>1. RowKeeps(reg[q], reg[q])
    BY DEF RowKeeps
  <2> QED
    BY <2>1, <1>5, AbsentKeeps
<1>7. Handshake(reg, p, f, g) = EvictAllDisconnected(r, p)
  BY DEF Handshake, r, e, h
<1> QED
  BY <1>3, <1>5, <1>6, <1>7, NoneAssumption

\* An observation adds the identity of its own connection, and only to a row
\* that is at that connection.
LEMMA ObservationsObserve ==
    ASSUME NEW reg \in Registry, NEW p \in Pids, NEW g \in Nat, NEW c \in Conns,
           NEW b \in BOOLEAN
    PROVE  /\ ObserveBridgeReady(reg, p, g, c, b) \in Registry
           /\ Observes(reg, ObserveBridgeReady(reg, p, g, c, b), p, g, c)
           /\ ObserveBridgeHeartbeat(reg, p, g, c, b) \in Registry
           /\ Observes(reg, ObserveBridgeHeartbeat(reg, p, g, c, b), p, g, c)
<1>1. reg[p] \in Entry
  BY DEF Registry
<1>2. Observes(reg, reg, p, g, c)
  BY DEF Observes
<1>3. ASSUME NEW x \in Conns \cup {None}, ConnectedGeneration(reg, p, g), x \in {c, None}
      PROVE  LET r == [reg EXCEPT ![p] = [@ EXCEPT !.ready = c, !.pump = x]]
             IN  r \in Registry /\ Observes(reg, r, p, g, c)
  <2> DEFINE e == [reg[p] EXCEPT !.ready = c, !.pump = x]
  <2>1. /\ e \in Entry /\ e.bridge = reg[p].bridge /\ e.generation = reg[p].generation
        /\ e.ready = c /\ e.pump = x
    BY <1>1 DEF Entry
  <2> HIDE DEF e
  <2>2. [reg EXCEPT ![p] = e] \in Registry /\ Observes(reg, [reg EXCEPT ![p] = e], p, g, c)
    BY <1>3, <2>1, NoneAssumption DEF Registry, Observes, ConnectedGeneration
  <2> QED
    BY <2>2 DEF e
<1>4. ASSUME ConnectedGeneration(reg, p, g)
      PROVE  LET r == [reg EXCEPT ![p] = [@ EXCEPT !.pump = c]]
             IN  r \in Registry /\ Observes(reg, r, p, g, c)
  <2> DEFINE e == [reg[p] EXCEPT !.pump = c]
  <2>1. /\ e \in Entry /\ e.bridge = reg[p].bridge /\ e.generation = reg[p].generation
        /\ e.ready = reg[p].ready /\ e.pump = c
    BY <1>1 DEF Entry
  <2> HIDE DEF e
  <2>2. [reg EXCEPT ![p] = e] \in Registry /\ Observes(reg, [reg EXCEPT ![p] = e], p, g, c)
    BY <1>4, <2>1 DEF Registry, Observes, ConnectedGeneration
  <2> QED
    BY <2>2 DEF e
<1>5. /\ ObserveBridgeReady(reg, p, g, c, b) \in Registry
      /\ Observes(reg, ObserveBridgeReady(reg, p, g, c, b), p, g, c)
  <2> DEFINE x == IF b THEN c ELSE None
  <2>1. x \in Conns \cup {None} /\ x \in {c, None}
    OBVIOUS
  <2> HIDE DEF x
  <2>2. ObserveBridgeReady(reg, p, g, c, b) =
          IF ConnectedGeneration(reg, p, g)
          THEN [reg EXCEPT ![p] = [@ EXCEPT !.ready = c, !.pump = x]] ELSE reg
    BY DEF ObserveBridgeReady, x
  <2> QED
    BY <1>2, <1>3, <2>1, <2>2
<1>6. /\ ObserveBridgeHeartbeat(reg, p, g, c, b) \in Registry
      /\ Observes(reg, ObserveBridgeHeartbeat(reg, p, g, c, b), p, g, c)
  BY <1>2, <1>4 DEF ObserveBridgeHeartbeat
<1> QED
  BY <1>5, <1>6

-----------------------------------------------------------------------------
(* Slots, spawn records and traces                                           *)

Pending(q) == {q.pending[i] : i \in 1..Len(q.pending)}

\* A queue serves one call at a time.
Single(q) == q.pending = <<>> \/ (q.inFlight = None /\ Len(q.pending) = 1)

\* A pid that is not a key of the map has nothing.
Sound(e) == Single(e.queue) /\ (e.bridge = "Absent" => e = AbsentEntry)

\* No slot appears, and none goes back from in flight to pending.
Drains(e, f) ==
    Sound(f) /\ Slots(f.queue) \subseteq Slots(e.queue) /\ Pending(f.queue) \subseteq Pending(e.queue)

\* A Starting row stays the one of its spawn until its handshake, and after it.
StaysOwned(e, f) ==
    /\ f.bridge = "Starting" => e.bridge = "Starting"
    /\ e.bridge = "Starting" => f.spawn = e.spawn

\* The trace of cancelled tasks goes only with the row or its process.
Remembers(e, f) ==
    e.cancelled # <<>> /\ f.cancelled = <<>> =>
        f.bridge \in {"Absent", "Starting"} \/ ~Matches(e.print, f.print)

Goes(reg, new) ==
    \A p \in Pids : /\ Drains(reg[p], new[p])
                    /\ StaysOwned(reg[p], new[p]) /\ Remembers(reg[p], new[p])

AllSound(reg) == \A p \in Pids : Sound(reg[p])

\* The new queue holds nothing.
LEMMA NewQueueIsEmpty ==
    Slots(NewQueue) = {} /\ Pending(NewQueue) = {} /\ Single(NewQueue) /\ Sound(AbsentEntry)
<1>1. AbsentEntry.queue = NewQueue
  BY DEF AbsentEntry
<1> QED
  BY <1>1 DEF NewQueue, Slots, Pending, Single, Sound

\* Promotion moves a slot, completion frees one.
LEMMA QueueDrains ==
    ASSUME NEW q \in TaskQueue(Tasks), Single(q)
    PROVE  /\ Single(StartNextTask(q)) /\ Slots(StartNextTask(q)) \subseteq Slots(q)
           /\ Pending(StartNextTask(q)) = {}
           /\ Single(CompleteInFlight(q)) /\ Slots(CompleteInFlight(q)) \subseteq Slots(q)
           /\ Pending(CompleteInFlight(q)) = Pending(q)
           /\ Slots(CompleteInFlight(q)) = Pending(q)
           /\ q.inFlight = None => Slots(q) = Pending(q)
<1>1. q.pending \in Seq(Tasks) /\ q.inFlight \in Tasks \cup {None}
  BY DEF TaskQueue
<1>2. /\ Single(CompleteInFlight(q)) /\ Slots(CompleteInFlight(q)) \subseteq Slots(q)
      /\ Pending(CompleteInFlight(q)) = Pending(q) /\ Slots(CompleteInFlight(q)) = Pending(q)
      /\ q.inFlight = None => Slots(q) = Pending(q)
  <2>1. CompleteInFlight(q).pending = q.pending /\ CompleteInFlight(q).inFlight = None
    BY DEF CompleteInFlight, TaskQueue
  <2> QED
    BY <1>1, <2>1 DEF Slots, Pending, Single
<1>3. CASE q.pending = <<>>
  <2>1. StartNextTask(q) = q
    BY <1>3 DEF StartNextTask
  <2>2. Pending(q) = {}
    BY <1>3 DEF Pending
  <2>3. Single(q) /\ Slots(q) \subseteq Slots(q)
    OBVIOUS
  <2> QED
    BY <1>2, <2>1, <2>2, <2>3
<1>4. CASE q.pending # <<>>
  <2>1. q.inFlight = None /\ Len(q.pending) = 1
    BY <1>4 DEF Single
  <2>2. StartNextTask(q) = [pending |-> Tail(q.pending), inFlight |-> Head(q.pending)]
    BY <1>4, <2>1 DEF StartNextTask
  <2>3. Len(Tail(q.pending)) = 0 /\ Head(q.pending) = q.pending[1] /\ 1 \in 1..Len(q.pending)
    <3> DEFINE s == q.pending
    <3>1. s \in Seq(Tasks) /\ s # <<>> /\ Len(s) = 1
      BY <1>1, <1>4, <2>1
    <3> HIDE DEF s
    <3>2. Tail(s) \in Seq(Tasks) /\ Len(Tail(s)) = Len(s) - 1 
      BY <3>1, HeadTailProperties
    <3>4. Head(s) = s[1]
      BY <3>1
    <3>3. Len(Tail(s)) = 0 /\ 1 \in 1..Len(s)
      BY <3>1, <3>2
    <3> QED
      BY <3>2, <3>3, <3>4 DEF s
  <2>4. Tail(q.pending) = <<>>
    <3>1. Tail(q.pending) \in Seq(Tasks)
      BY <1>1, <1>4, HeadTailProperties
    <3> QED
      BY <2>3, <3>1, EmptySeq
  <2>5. StartNextTask(q).pending = <<>> /\ StartNextTask(q).inFlight = q.pending[1]
    BY <2>2, <2>3, <2>4
  <2>6. Pending(StartNextTask(q)) = {} /\ Single(StartNextTask(q))
    BY <2>5 DEF Pending, Single
  <2>7. Slots(StartNextTask(q)) \subseteq Slots(q)
    <3> DEFINE r == StartNextTask(q)
    <3>1. r.pending = <<>> /\ r.inFlight = q.pending[1] /\ Len(<<>>) = 0
      BY <2>5
    <3> HIDE DEF r
    <3>2. Slots(r) \subseteq {q.pending[1]}
      BY <3>1 DEF Slots
    <3>3. q.pending[1] \in Slots(q)
      BY <2>3 DEF Slots
    <3> QED
      BY <3>2, <3>3 DEF r
  <2> QED
    BY <1>2, <2>6, <2>7
<1> QED
  BY <1>3, <1>4

\* Pushing to an empty queue takes its only slot.
LEMMA PushIsSingle ==
    ASSUME NEW q \in TaskQueue(Tasks), NEW t \in Tasks, QueueEmpty(q)
    PROVE  /\ Single(PushTask(q, t)) /\ Slots(PushTask(q, t)) = {t}
           /\ Pending(PushTask(q, t)) = {t}
<1>1. q.pending \in Seq(Tasks) /\ q.inFlight \in Tasks \cup {None}
  BY DEF TaskQueue
<1>2. q.pending = <<>> /\ q.inFlight = None
  <2>1. Len(q.pending) \in Nat
    BY <1>1
  <2> DEFINE n == Len(q.pending)
  <2>2. n + (IF q.inFlight = None THEN 0 ELSE 1) = 0
    BY DEF QueueEmpty, QueueLen
  <2>3. n \in Nat
    BY <2>1
  <2> HIDE DEF n
  <2>4. n = 0 /\ q.inFlight = None
    BY <2>2, <2>3
  <2> QED
    BY <1>1, <2>4, EmptySeq DEF n
<1>3. PushTask(q, t).pending = Append(q.pending, t) /\ PushTask(q, t).inFlight = None
  BY <1>2 DEF PushTask, TaskQueue
<1>4. Append(<<>>, t) = <<t>> /\ Append(q.pending, t) = Append(<<>>, t)
  BY <1>2
<1> DEFINE r == PushTask(q, t)
<1>5. r.pending = <<t>> /\ r.inFlight = None /\ Len(<<t>>) = 1 /\ <<t>>[1] = t
  BY <1>3, <1>4
<1> HIDE DEF r
<1>6. 1..Len(r.pending) = {1} /\ r.pending[1] = t
  BY <1>5
<1>7. Pending(r) = {t}
  BY <1>6 DEF Pending
<1>8. Slots(r) = {t}
  BY <1>5, <1>6 DEF Slots
<1>9. Single(r)
  BY <1>5 DEF Single
<1> QED
  BY <1>7, <1>8, <1>9 DEF r

\* A row whose queue drained and which else only changed its identity or status.
LEMMA RowGoesOn ==
    ASSUME NEW e, NEW f, Sound(e), Single(f.queue), Slots(f.queue) \subseteq Slots(e.queue),
           Pending(f.queue) \subseteq Pending(e.queue), f.bridge # "Absent",
           e.bridge = "Starting" => f.spawn = e.spawn,
           f.bridge = "Starting" => e.bridge = "Starting",
           f.cancelled = <<>> => e.cancelled = <<>> \/ ~Matches(e.print, f.print)
    PROVE  Drains(e, f) /\ StaysOwned(e, f) /\ Remembers(e, f)
BY DEF Drains, Sound, StaysOwned, Remembers

\* A row that stays or that is dropped.
LEMMA RowStaysOrGoes ==
    ASSUME NEW e, Sound(e)
    PROVE  /\ Drains(e, e) /\ StaysOwned(e, e) /\ Remembers(e, e)
           /\ Drains(e, AbsentEntry) /\ Remembers(e, AbsentEntry)
           /\ e.bridge # "Starting" => StaysOwned(e, AbsentEntry)
<1>1. AbsentEntry.queue = NewQueue /\ AbsentEntry.bridge = "Absent"
  BY DEF AbsentEntry
<1> QED
  BY <1>1, NewQueueIsEmpty DEF Drains, StaysOwned, Remembers

\* One row goes on.
LEMMA OneRowGoes ==
    ASSUME NEW reg \in Registry, NEW p \in Pids, NEW f, AllSound(reg), Drains(reg[p], f),
           StaysOwned(reg[p], f), Remembers(reg[p], f)
    PROVE  Goes(reg, [reg EXCEPT ![p] = f]) /\ Goes(reg, reg)
BY RowStaysOrGoes DEF Goes, AllSound, Registry

\* start_next and cancel_queue_keep_connected.
LEMMA QueueStepsGo ==
    ASSUME NEW reg \in Registry, NEW p \in Pids, AllSound(reg)
    PROVE  /\ Goes(reg, StartNext(reg, p))
           /\ Pending(StartNext(reg, p)[p].queue) = {}
           /\ Goes(reg, CancelQueueKeepConnected(reg, p))
           /\ Slots(CancelQueueKeepConnected(reg, p)[p].queue) = {}
<1>1. reg[p] \in Entry /\ reg[p].queue \in TaskQueue(Tasks) /\ Sound(reg[p]) /\ Single(reg[p].queue)
  BY DEF Registry, Entry, AllSound, Sound
<1>2. ASSUME NEW q \in TaskQueue(Tasks), Single(q), Slots(q) \subseteq Slots(reg[p].queue),
             Pending(q) \subseteq Pending(reg[p].queue), reg[p].bridge = "Absent" => q = NewQueue
      PROVE  LET f == [reg[p] EXCEPT !.queue = q]
             IN  /\ Goes(reg, [reg EXCEPT ![p] = f]) /\ [reg EXCEPT ![p] = f][p].queue = q
  <2> DEFINE f == [reg[p] EXCEPT !.queue = q]
  <2>1. /\ f.queue = q /\ f.bridge = reg[p].bridge /\ f.spawn = reg[p].spawn
        /\ f.cancelled = reg[p].cancelled /\ f.print = reg[p].print
    BY <1>1 DEF Entry
  <2>2. f.bridge = "Absent" => f = AbsentEntry
    <3>1. reg[p].bridge = "Absent" => reg[p] = AbsentEntry /\ AbsentEntry.queue = NewQueue
      BY <1>1 DEF Sound, AbsentEntry
    <3>2. q = reg[p].queue => f = reg[p]
      BY <1>1 DEF Entry
    <3> QED
      BY <1>2, <2>1, <3>1, <3>2
  <2> HIDE DEF f
  <2>3. Drains(reg[p], f) /\ StaysOwned(reg[p], f) /\ Remembers(reg[p], f)
    BY <1>2, <2>1, <2>2 DEF Drains, Sound, StaysOwned, Remembers
  <2>4. Goes(reg, [reg EXCEPT ![p] = f])
    BY <2>3, OneRowGoes
  <2>5. [reg EXCEPT ![p] = f][p].queue = q
    BY <2>1 DEF Registry
  <2> QED
    BY <2>4, <2>5 DEF f
<1>3. Goes(reg, StartNext(reg, p)) /\ Pending(StartNext(reg, p)[p].queue) = {}
  <2> DEFINE q == StartNextTask(reg[p].queue)
  <2>1. /\ q \in TaskQueue(Tasks) /\ Single(q) /\ Slots(q) \subseteq Slots(reg[p].queue)
        /\ Pending(q) = {}
    BY <1>1, QueueSteps, QueueDrains
  <2>2. reg[p].bridge = "Absent" => q = NewQueue
    <3>1. reg[p].bridge = "Absent" => reg[p].queue = NewQueue
      BY <1>1 DEF Sound, AbsentEntry
    <3> QED
      BY <3>1 DEF StartNextTask, NewQueue
  <2>3. StartNext(reg, p) = [reg EXCEPT ![p] = [reg[p] EXCEPT !.queue = q]]
    BY DEF StartNext, Registry
  <2> HIDE DEF q
  <2> QED
    BY <1>2, <2>1, <2>2, <2>3
<1>4. /\ Goes(reg, CancelQueueKeepConnected(reg, p))
      /\ Slots(CancelQueueKeepConnected(reg, p)[p].queue) = {}
  <2>1. CancelQueueKeepConnected(reg, p) = [reg EXCEPT ![p] = [reg[p] EXCEPT !.queue = NewQueue]]
    BY DEF CancelQueueKeepConnected, Registry
  <2> QED
    BY <1>2, <2>1, NewQueueType, NewQueueIsEmpty
<1> QED
  BY <1>3, <1>4

\* complete_task: nothing is in flight afterwards, and only a success drops the trace.
LEMMA CompletionGoes ==
    ASSUME NEW reg \in Registry, NEW p \in Pids, NEW ok \in BOOLEAN, AllSound(reg)
    PROVE  LET new == CompleteTask(reg, p, ok)
           IN  /\ \A q \in Pids : Drains(reg[q], new[q]) /\ StaysOwned(reg[q], new[q])
               /\ \A q \in Pids : q # p \/ ~ok => Remembers(reg[q], new[q])
               /\ Slots(new[p].queue) = Pending(reg[p].queue)
<1>1. reg[p] \in Entry /\ reg[p].queue \in TaskQueue(Tasks) /\ Sound(reg[p]) /\ Single(reg[p].queue)
  BY DEF Registry, Entry, AllSound, Sound
<1> DEFINE new == CompleteTask(reg, p, ok)
<1>2. CASE reg[p].queue.inFlight = None
  <2>1. new = reg
    BY <1>2 DEF CompleteTask
  <2>2. Slots(reg[p].queue) = Pending(reg[p].queue)
    BY <1>1, <1>2, QueueDrains
  <2>3. \A q \in Pids : Drains(reg[q], reg[q]) /\ StaysOwned(reg[q], reg[q]) /\ Remembers(reg[q], reg[q])
    BY RowStaysOrGoes DEF AllSound
  <2> HIDE DEF new
  <2> QED
    BY <2>1, <2>2, <2>3 DEF new
<1>3. CASE reg[p].queue.inFlight # None
  <2> DEFINE e == [reg[p] EXCEPT !.queue = CompleteInFlight(reg[p].queue)]
             f == OnTaskOutcome(e, ok)
  <2>1. /\ e.queue = CompleteInFlight(reg[p].queue) /\ e.bridge = reg[p].bridge
        /\ e.spawn = reg[p].spawn /\ e.cancelled = reg[p].cancelled /\ e.print = reg[p].print
        /\ e \in Entry
    BY <1>1, QueueSteps DEF Entry
  <2>2. /\ ClearResurrection(e).queue = e.queue /\ ClearResurrection(e).bridge = e.bridge
        /\ ClearResurrection(e).spawn = e.spawn /\ ClearResurrection(e).print = e.print
    BY <2>1 DEF ClearResurrection, Entry
  <2>3. f = e \/ (ok /\ f = ClearResurrection(e))
    BY DEF OnTaskOutcome
  <2>4. reg[p].bridge # "Absent"
    <3>1. AbsentEntry.queue.inFlight = None
      BY DEF AbsentEntry, NewQueue
    <3> QED
      BY <1>1, <1>3, <3>1 DEF Sound
  <2> HIDE DEF e
  <2>5. /\ f.queue = CompleteInFlight(reg[p].queue) /\ f.bridge = reg[p].bridge
        /\ f.spawn = reg[p].spawn /\ f.print = reg[p].print
        /\ ~ok => f.cancelled = reg[p].cancelled
    BY <2>1, <2>2, <2>3
  <2>6. new = [reg EXCEPT ![p] = f]
    BY <1>3 DEF CompleteTask, e, Registry
  <2> HIDE DEF f, new
  <2>7. /\ Single(f.queue) /\ Slots(f.queue) \subseteq Slots(reg[p].queue)
        /\ Slots(f.queue) = Pending(reg[p].queue) /\ Pending(f.queue) = Pending(reg[p].queue)
    BY <1>1, <2>5, QueueDrains
  <2>8. /\ Drains(reg[p], f) /\ StaysOwned(reg[p], f)
        /\ ~ok => Remembers(reg[p], f)
    BY <2>4, <2>5, <2>7 DEF Drains, Sound, StaysOwned, Remembers
  <2>9. \A q \in Pids : new[q] = IF q = p THEN f ELSE reg[q]
    BY <2>6 DEF Registry
  <2>10. \A q \in Pids : Drains(reg[q], reg[q]) /\ StaysOwned(reg[q], reg[q]) /\ Remembers(reg[q], reg[q])
    BY RowStaysOrGoes DEF AllSound
  <2> QED
    BY <2>7, <2>8, <2>9, <2>10 DEF new
<1> QED
  BY <1>2, <1>3

\* enqueue: the call takes the only slot.
LEMMA EnqueueTakesSlot ==
    ASSUME NEW reg \in Registry, NEW p \in Pids, NEW t \in Tasks, AllSound(reg), CanEnqueue(reg, p)
    PROVE  LET new == Enqueue(reg, p, t)
           IN  /\ AllSound(new)
               /\ Slots(new[p].queue) = {t} /\ Pending(new[p].queue) = {t}
               /\ \A q \in Pids : q # p => new[q] = reg[q]
               /\ \A q \in Pids : /\ new[q].bridge = reg[q].bridge /\ new[q].spawn = reg[q].spawn
                                  /\ new[q].cancelled = reg[q].cancelled
<1> DEFINE r == PushTask(reg[p].queue, t)
           f == [reg[p] EXCEPT !.queue = r]
           new == Enqueue(reg, p, t)
<1>1. reg[p] \in Entry /\ reg[p].queue \in TaskQueue(Tasks) /\ QueueEmpty(reg[p].queue)
      /\ reg[p].bridge = "Connected"
  BY DEF Registry, Entry, CanEnqueue, CanEnqueueExclusive
<1>2. Single(r) /\ Slots(r) = {t} /\ Pending(r) = {t}
  BY <1>1, PushIsSingle
<1>3. new = [reg EXCEPT ![p] = f]
  BY DEF Enqueue, Registry
<1> HIDE DEF r
<1>4. /\ f.queue = r /\ f.bridge = reg[p].bridge /\ f.spawn = reg[p].spawn
      /\ f.cancelled = reg[p].cancelled
  BY <1>1 DEF Entry
<1> HIDE DEF f, new
<1>5. \A q \in Pids : new[q] = IF q = p THEN f ELSE reg[q]
  BY <1>3 DEF Registry
<1>6. Sound(f)
  BY <1>1, <1>2, <1>4 DEF Sound
<1> QED
  BY <1>2, <1>4, <1>5, <1>6 DEF AllSound, new

\* Removing a row: only RemoveStarting takes a Starting one.
LEMMA RemovalGoes ==
    ASSUME NEW reg \in Registry, NEW p \in Pids, AllSound(reg)
    PROVE  /\ Goes(reg, EvictIfDisconnected(reg, p))
           /\ LET new == RemoveStarting(reg, p)
              IN  /\ \A q \in Pids : Drains(reg[q], new[q]) /\ Remembers(reg[q], new[q])
                  /\ \A q \in Pids : q # p => new[q] = reg[q]
                  /\ new[p].bridge # "Starting"
                  /\ reg[p].bridge # "Starting" => new = reg
<1>1. Sound(reg[p])
  BY DEF AllSound
<1>2. Goes(reg, EvictIfDisconnected(reg, p))
  BY <1>1, RowStaysOrGoes, OneRowGoes DEF EvictIfDisconnected
<1> DEFINE new == RemoveStarting(reg, p)
<1>3. AbsentEntry.bridge = "Absent"
  BY DEF AbsentEntry
<1>4. /\ \A q \in Pids : new[q] = reg[q] \/ (q = p /\ new[q] = AbsentEntry)
      /\ new[p].bridge # "Starting" /\ (reg[p].bridge # "Starting" => new = reg)
  BY <1>3 DEF RemoveStarting, Registry
<1> HIDE DEF new
<1>5. \A q \in Pids : Drains(reg[q], new[q]) /\ Remembers(reg[q], new[q])
  BY <1>4, RowStaysOrGoes DEF AllSound
<1> QED
  BY <1>2, <1>4, <1>5 DEF new

\* register_starting replaces a row that is not connected.
LEMMA RegistrationGoes ==
    ASSUME NEW reg \in Registry, NEW p \in Pids, NEW s \in Spawns, AllSound(reg)
    PROVE  LET new == RegisterStarting(reg, p, s)
           IN  /\ \A q \in Pids : Drains(reg[q], new[q]) /\ Remembers(reg[q], new[q])
               /\ \A q \in Pids : q # p => new[q] = reg[q]
               /\ new[p].bridge = "Starting" => new[p].spawn = s
<1> DEFINE f == [AbsentEntry EXCEPT !.bridge = "Starting", !.spawn = s]
           new == RegisterStarting(reg, p, s)
<1>1. f.bridge = "Starting" /\ f.spawn = s /\ f.queue = NewQueue
  BY DEF AbsentEntry
<1>2. new = IF reg[p].bridge = "Connected" THEN reg ELSE [reg EXCEPT ![p] = f]
  BY DEF RegisterStarting
<1> HIDE DEF f, new
<1>3. Drains(reg[p], f) /\ Remembers(reg[p], f)
  BY <1>1, NewQueueIsEmpty DEF Drains, Sound, Remembers
<1>4. /\ \A q \in Pids : new[q] = reg[q] \/ (q = p /\ new[q] = f)
      /\ new[p].bridge = "Starting" => new[p] = f
  BY <1>2 DEF Registry
<1>5. \A q \in Pids : Drains(reg[q], new[q]) /\ Remembers(reg[q], new[q])
  BY <1>3, <1>4, RowStaysOrGoes DEF AllSound
<1> QED
  BY <1>1, <1>4, <1>5 DEF new

\* on_bridge_lost empties the queue and lengthens the trace.
LEMMA LossGoes ==
    ASSUME NEW reg \in Registry, NEW p \in Pids, NEW c \in Conns, AllSound(reg)
    PROVE  Goes(reg, OnBridgeLost(reg, p, c))
<1>1. reg[p] \in Entry /\ Sound(reg[p]) /\ reg[p].queue \in TaskQueue(Tasks)
  BY DEF Registry, AllSound, Entry
<1> DEFINE x == reg[p].cancelled \o CancelledBy(reg[p].queue)
           f == [reg[p] EXCEPT !.bridge = "Disconnected", !.queue = NewQueue, !.cancelled = x,
                               !.resurrected = FALSE, !.lastDisconnect = c]
<1>2. x = <<>> => reg[p].cancelled = <<>>
  <2>1. reg[p].cancelled \in Seq(Tasks) /\ CancelledBy(reg[p].queue) \in Seq(Tasks)
    BY <1>1, QueueSteps DEF Entry
  <2> QED
    BY <2>1, EmptySeq, ConcatProperties
<1> HIDE DEF x
<1>3. /\ f.queue = NewQueue /\ f.bridge = "Disconnected" /\ f.spawn = reg[p].spawn
      /\ f.cancelled = x
  BY <1>1 DEF Entry
<1>4. OnBridgeLost(reg, p, c) = IF reg[p].bridge = "Absent" THEN reg ELSE [reg EXCEPT ![p] = f]
  BY DEF OnBridgeLost, Registry, x
<1> HIDE DEF f
<1>5. Drains(reg[p], f) /\ StaysOwned(reg[p], f) /\ Remembers(reg[p], f)
  BY <1>1, <1>2, <1>3, NewQueueIsEmpty, RowGoesOn
<1> QED
  BY <1>4, <1>5, OneRowGoes

\* Observations touch the identity of one row.
LEMMA ObservationsGo ==
    ASSUME NEW reg \in Registry, NEW p \in Pids, NEW g, NEW c, NEW b, AllSound(reg)
    PROVE  /\ Goes(reg, ObserveBridgeReady(reg, p, g, c, b))
           /\ Goes(reg, ObserveBridgeHeartbeat(reg, p, g, c, b))
<1>1. reg[p] \in Entry /\ Sound(reg[p]) /\ Single(reg[p].queue)
  BY DEF Registry, AllSound, Sound
<1>2. ASSUME NEW x, NEW y, reg[p].bridge = "Connected"
      PROVE  Goes(reg, [reg EXCEPT ![p] = [reg[p] EXCEPT !.ready = x, !.pump = y]])
  <2> DEFINE f == [reg[p] EXCEPT !.ready = x, !.pump = y]
  <2>1. /\ f.queue = reg[p].queue /\ f.bridge = reg[p].bridge /\ f.spawn = reg[p].spawn
        /\ f.cancelled = reg[p].cancelled
    BY <1>1 DEF Entry
  <2> HIDE DEF f
  <2>2. Drains(reg[p], f) /\ StaysOwned(reg[p], f) /\ Remembers(reg[p], f)
    BY <1>1, <1>2, <2>1, RowGoesOn
  <2> QED
    BY <2>2, OneRowGoes DEF f
<1>3. ASSUME NEW y, reg[p].bridge = "Connected"
      PROVE  Goes(reg, [reg EXCEPT ![p] = [reg[p] EXCEPT !.pump = y]])
  <2>1. [reg[p] EXCEPT !.pump = y] = [reg[p] EXCEPT !.ready = reg[p].ready, !.pump = y]
    BY <1>1 DEF Entry
  <2> QED
    BY <1>2, <1>3, <2>1
<1>4. Goes(reg, reg)
  BY RowStaysOrGoes DEF Goes, AllSound
<1>5. Goes(reg, ObserveBridgeReady(reg, p, g, c, b))
  <2> DEFINE y == IF b THEN c ELSE None
  <2>1. ObserveBridgeReady(reg, p, g, c, b) =
          IF ConnectedGeneration(reg, p, g)
          THEN [reg EXCEPT ![p] = [reg[p] EXCEPT !.ready = c, !.pump = y]] ELSE reg
    BY DEF ObserveBridgeReady, Registry
  <2>2. CASE ConnectedGeneration(reg, p, g)
    <3>1. Goes(reg, [reg EXCEPT ![p] = [reg[p] EXCEPT !.ready = c, !.pump = y]])
      BY <1>2, <2>2 DEF ConnectedGeneration
    <3> QED
      BY <2>1, <2>2, <3>1
  <2>3. CASE ~ConnectedGeneration(reg, p, g)
    BY <1>4, <2>1, <2>3
  <2> QED
    BY <2>2, <2>3
<1>6. Goes(reg, ObserveBridgeHeartbeat(reg, p, g, c, b))
  <2>1. \/ /\ ConnectedGeneration(reg, p, g)
           /\ ObserveBridgeHeartbeat(reg, p, g, c, b)
                = [reg EXCEPT ![p] = [reg[p] EXCEPT !.pump = c]]
        \/ ObserveBridgeHeartbeat(reg, p, g, c, b) = reg
    BY DEF ObserveBridgeHeartbeat, Registry
  <2> QED
    BY <1>3, <1>4, <2>1 DEF ConnectedGeneration
<1> QED
  BY <1>5, <1>6

\* What a handshake makes of its row.
LEMMA HandshakeRowGoes ==
    ASSUME NEW e \in Entry, NEW f \in Prints, NEW g \in Nat, Sound(e)
    PROVE  LET h == BeginConnection(HandshakeEntry(e, f), g)
           IN  Drains(e, h) /\ StaysOwned(e, h) /\ Remembers(e, h)
<1> DEFINE k == HandshakeEntry(e, f)
           h == BeginConnection(k, g)
           connected == [e EXCEPT !.bridge = "Connected", !.print = f]
<1>1. /\ connected \in Entry /\ connected.bridge = "Connected" /\ connected.print = f
      /\ connected.queue = e.queue /\ connected.cancelled = e.cancelled
      /\ connected.spawn = e.spawn
  BY DEF Entry, BridgeStatus
<1>2. Single(e.queue) /\ (e.bridge = "Absent" => e = AbsentEntry)
  BY DEF Sound
<1> HIDE DEF connected
<1>3. /\ k \in Entry /\ k.bridge = "Connected"
      /\ Single(k.queue) /\ Slots(k.queue) \subseteq Slots(e.queue)
      /\ Pending(k.queue) \subseteq Pending(e.queue)
      /\ e.bridge = "Starting" => k.spawn = e.spawn
      /\ k.cancelled = <<>> => e.cancelled = <<>> \/ ~Matches(e.print, k.print)
  <2>1. k \in Entry /\ k.bridge = "Connected"
    BY HandshakeEntryType
  <2>2. CASE e.bridge = "Absent"
    <3>1. k = [AbsentEntry EXCEPT !.bridge = "Connected", !.print = f]
      BY <2>2 DEF HandshakeEntry
    <3>2. k.queue = NewQueue
      BY <3>1 DEF AbsentEntry
    <3>3. e.cancelled = <<>>
      BY <1>2, <2>2 DEF AbsentEntry
    <3> QED
      BY <2>1, <2>2, <3>2, <3>3, NewQueueIsEmpty
  <2>3. CASE e.bridge = "Starting"
    <3>1. k = connected
      BY <2>3 DEF HandshakeEntry, connected
    <3> QED
      BY <1>1, <1>2, <2>1, <3>1
  <2>4. CASE e.bridge \in {"Connected", "Disconnected"} /\ ~Matches(e.print, f)
    <3>1. k = [ClearResurrection(connected) EXCEPT !.queue = NewQueue, !.spawn = None]
      BY <2>4 DEF HandshakeEntry, connected
    <3>2. ClearResurrection(connected).print = f /\ ClearResurrection(connected) \in Entry
      BY <1>1, ClearedIsEntry DEF ClearResurrection, Entry
    <3>3. k.queue = NewQueue /\ k.print = f
      BY <3>1, <3>2 DEF Entry
    <3> QED
      BY <2>1, <2>4, <3>3, NewQueueIsEmpty
  <2>5. CASE e.bridge = "Connected" /\ Matches(e.print, f)
    <3>1. k = connected
      BY <2>5 DEF HandshakeEntry, connected
    <3> QED
      BY <1>1, <1>2, <2>1, <2>5, <3>1
  <2>6. CASE e.bridge = "Disconnected" /\ Matches(e.print, f)
    <3>1. k = [connected EXCEPT !.resurrected = TRUE]
      BY <2>6 DEF HandshakeEntry, connected
    <3>2. k.queue = e.queue /\ k.cancelled = e.cancelled
      BY <1>1, <3>1 DEF Entry
    <3> QED
      BY <1>2, <2>1, <2>6, <3>2
  <2> QED
    BY <2>2, <2>3, <2>4, <2>5, <2>6 DEF Entry, BridgeStatus
<1> HIDE DEF k
<1>4. /\ h.bridge = k.bridge /\ h.queue = k.queue /\ h.spawn = k.spawn
      /\ h.cancelled = k.cancelled /\ h.print = k.print
  BY <1>3 DEF BeginConnection, Entry
<1> HIDE DEF h
<1>5. Drains(e, h) /\ StaysOwned(e, h) /\ Remembers(e, h)
  BY <1>3, <1>4, RowGoesOn
<1> QED
  BY <1>5 DEF h, k

\* A handshake: its row goes on, rows of disconnected pids are evicted.
LEMMA HandshakeGoes ==
    ASSUME NEW reg \in Registry, NEW p \in Pids, NEW f \in Prints, NEW g \in Nat, AllSound(reg)
    PROVE  Goes(reg, Handshake(reg, p, f, g))
<1> DEFINE h == BeginConnection(HandshakeEntry(reg[p], f), g)
           new == Handshake(reg, p, f, g)
<1>1. \A q \in Pids : reg[q] \in Entry /\ Sound(reg[q])
  BY DEF Registry, AllSound
<1>2. Drains(reg[p], h) /\ StaysOwned(reg[p], h) /\ Remembers(reg[p], h)
  BY <1>1, HandshakeRowGoes
<1> HIDE DEF h
<1>3. \A q \in Pids : \/ q = p /\ new[q] = h
                      \/ q # p /\ new[q] = reg[q]
                      \/ q # p /\ new[q] = AbsentEntry /\ reg[q].bridge = "Disconnected"
  BY DEF Handshake, EvictAllDisconnected, h, Registry
<1> HIDE DEF new
<1>4. Goes(reg, new)
  BY <1>1, <1>2, <1>3, RowStaysOrGoes DEF Goes
<1> QED
  BY <1>4 DEF new
=============================================================================
