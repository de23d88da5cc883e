---------------------------- MODULE PidRegistry ----------------------------
(* The pid registry of tdmcp-core (registry.rs, with resurrection.rs,       *)
(* fingerprint.rs and the connection part of bridge_identity.rs).           *)
(*                                                                          *)
(* The registry is a plain map behind one async mutex: every operation is a *)
(* function from registry to registry, and the modules that share the map   *)
(* apply one operation per lock acquisition.  A pid that is not a key of    *)
(* the map is AbsentEntry.  Timestamps are abstracted to what they          *)
(* identify: lastDisconnect is the connection whose loss was recorded, and  *)
(* ready / pump the connection whose frame they came from.                  *)
EXTENDS TaskQueue

CONSTANTS Pids,       \* OS process ids
          Conns,      \* accepted bridge connections
          Tasks,      \* tool calls that ask for a queue slot
          Prints,     \* process fingerprints a handshake can carry
          Spawns      \* processes launched by spawn_td

ASSUME NoneAssumption == /\ None \notin Conns
                         /\ None \notin Tasks
                         /\ None \notin Spawns
                         /\ None \notin Pids

NoPrint == [title |-> None, image |-> None, startTime |-> None]

BridgeStatus == {"Absent", "Starting", "Connected", "Disconnected"}

Entry == [bridge        : BridgeStatus,
          print         : Prints \cup {NoPrint},
          queue         : TaskQueue(Tasks),
          cancelled     : Seq(Tasks),
          resurrected   : BOOLEAN,
          lastDisconnect: Conns \cup {None},
          generation    : Nat,
          ready         : Conns \cup {None},
          pump          : Conns \cup {None},
          spawn         : Spawns \cup {None}]

AbsentEntry == [bridge |-> "Absent", print |-> NoPrint, queue |-> NewQueue,
                cancelled |-> <<>>, resurrected |-> FALSE,
                lastDisconnect |-> None, generation |-> 0, ready |-> None,
                pump |-> None, spawn |-> None]

-----------------------------------------------------------------------------
(* Fingerprints: best-effort "same process" test.                          *)

FieldOk(a, b) == a # None /\ b # None => a = b

PositiveMatch(a, b) == a # None /\ a = b

Matches(f, g) ==
    /\ FieldOk(f.title, g.title)
    /\ FieldOk(f.image, g.image)
    /\ FieldOk(f.startTime, g.startTime)
    /\ f.startTime = None /\ g.startTime = None
         => PositiveMatch(f.title, g.title) \/ PositiveMatch(f.image, g.image)

-----------------------------------------------------------------------------
(* Resurrection state of an entry.                                         *)

ClearResurrection(e) ==
    [e EXCEPT !.cancelled = <<>>, !.resurrected = FALSE,
              !.lastDisconnect = None]

\* Mutant: any outcome clears the trace.
OnAnyOutcome(e, success) ==
    IF e.resurrected \/ e.cancelled # <<>> THEN ClearResurrection(e) ELSE e

OnTaskOutcome(e, success) ==
    IF success /\ (e.resurrected \/ e.cancelled # <<>>)
    THEN ClearResurrection(e)
    ELSE e

-----------------------------------------------------------------------------
(* Registry operations.                                                    *)

EvictAllDisconnected(reg, except) ==
    [q \in Pids |-> IF q # except /\ reg[q].bridge = "Disconnected"
                    THEN AbsentEntry ELSE reg[q]]

\* The row of a pid after a handshake, before the new generation is stamped.
\* A Starting row keeps its spawn record and queue; a row of another process
\* (pid reuse) loses its queue, traces and provenance; a Disconnected row of
\* the same process is resurrected with its traces.
HandshakeEntry(e, f) ==
    LET connected == [e EXCEPT !.bridge = "Connected", !.print = f]
    IN  CASE e.bridge = "Absent" ->
               [AbsentEntry EXCEPT !.bridge = "Connected", !.print = f]
          [] e.bridge = "Starting" -> connected
          [] e.bridge \in {"Connected", "Disconnected"}
               /\ ~Matches(e.print, f) ->
               [ClearResurrection(connected) EXCEPT
                  !.queue = NewQueue, !.spawn = None]
          [] e.bridge = "Connected" /\ Matches(e.print, f) -> connected
          [] e.bridge = "Disconnected" /\ Matches(e.print, f) ->
               [connected EXCEPT !.resurrected = TRUE]

BeginConnection(e, g) ==
    [e EXCEPT !.generation = g, !.ready = None, !.pump = None]

Handshake(reg, p, f, g) ==
    EvictAllDisconnected(
        [reg EXCEPT ![p] = BeginConnection(HandshakeEntry(reg[p], f), g)], p)

\* Mutant: any connected row accepts an observation.
ConnectedAtAll(reg, p, g) == reg[p].bridge = "Connected"

\* Observations are accepted only for the exact connected generation.
ConnectedGeneration(reg, p, g) ==
    reg[p].bridge = "Connected" /\ reg[p].generation = g

\* hasAge: the ready event reports the age of the main-thread pump.
ObserveBridgeReady(reg, p, g, c, hasAge) ==
    IF ConnectedGeneration(reg, p, g)
    THEN [reg EXCEPT ![p] = [@ EXCEPT !.ready = c,
                                      !.pump = IF hasAge THEN c ELSE None]]
    ELSE reg

\* sameLoad: the heartbeat carries the load generation of the ready event.
ObserveBridgeHeartbeat(reg, p, g, c, sameLoad) ==
    IF ConnectedGeneration(reg, p, g) /\ reg[p].ready # None /\ sameLoad
    THEN [reg EXCEPT ![p] = [@ EXCEPT !.pump = c]]
    ELSE reg

\* Refused over a live Connected row; any other row is replaced.
RegisterStarting(reg, p, s) ==
    IF reg[p].bridge = "Connected"
    THEN reg
    ELSE [reg EXCEPT ![p] = [AbsentEntry EXCEPT !.bridge = "Starting",
                                                !.spawn = s]]

RemoveStarting(reg, p) ==
    IF reg[p].bridge = "Starting" THEN [reg EXCEPT ![p] = AbsentEntry] ELSE reg

\* Mutant: the row is not marked.
LostButConnected(reg, p, c) ==
    IF reg[p].bridge = "Absent"
    THEN reg
    ELSE [reg EXCEPT ![p] = [@ EXCEPT !.queue = NewQueue,
                                      !.lastDisconnect = c]]

\* IPC lost: disconnect, cancel every slot, stack the cancelled tasks.
OnBridgeLost(reg, p, c) ==
    IF reg[p].bridge = "Absent"
    THEN reg
    ELSE [reg EXCEPT ![p] =
            [@ EXCEPT !.bridge = "Disconnected",
                      !.queue = NewQueue,
                      !.cancelled = reg[p].cancelled \o CancelledBy(reg[p].queue),
                      !.resurrected = FALSE,
                      !.lastDisconnect = c]]

CancelQueueKeepConnected(reg, p) ==
    [reg EXCEPT ![p].queue = NewQueue]

EvictIfDisconnected(reg, p) ==
    IF reg[p].bridge = "Disconnected" THEN [reg EXCEPT ![p] = AbsentEntry]
                                      ELSE reg

CanEnqueue(reg, p) ==
    reg[p].bridge = "Connected" /\ CanEnqueueExclusive(reg[p].queue)

Enqueue(reg, p, t) ==
    [reg EXCEPT ![p].queue = PushTask(@, t)]

StartNext(reg, p) ==
    [reg EXCEPT ![p].queue = StartNextTask(@)]

\* Mutant: a failed task keeps its slot.
CompleteOnSuccess(reg, p, success) ==
    IF reg[p].queue.inFlight = None \/ ~success
    THEN reg
    ELSE [reg EXCEPT ![p] =
            OnTaskOutcome([@ EXCEPT !.queue = CompleteInFlight(reg[p].queue)], success)]

\* The resurrection trace is only told about the outcome of a task that was
\* really in flight.
CompleteTask(reg, p, success) ==
    IF reg[p].queue.inFlight = None
    THEN reg
    ELSE [reg EXCEPT ![p] =
            OnTaskOutcome([@ EXCEPT !.queue = CompleteInFlight(reg[p].queue)], success)]
=============================================================================
