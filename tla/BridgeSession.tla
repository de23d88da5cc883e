--------------------------- MODULE BridgeSession ---------------------------
(* Per-pid bridge sessions: the accept tasks, session actors and teardown   *)
(* timers of tdmcp-daemon/src/bridge.rs, and the callers that reach them    *)
(* through enqueue_and_call (tdmcp-mcp/src/tools.rs).  They share the pid   *)
(* registry and the map of session handles, each behind its own mutex.      *)
(*                                                                          *)
(* One action is one critical section or one await point of one task.  Time *)
(* is abstract: a deadline may pass whenever the code is waiting for it.    *)
(* Every accepted connection c runs through                                 *)
(*   new - accepted - inserted - loop <-> {sending, wire, reply, ping}      *)
(*   - teardown - {lost, superseded} - dead                                 *)
(* and its identity stands for the actor generation (SESSION_GENERATION).   *)
EXTENDS PidRegistry, FiniteSets

CONSTANTS MailboxCapacity,  \* JOB_CHANNEL_CAPACITY
          MaxInbox,         \* bound: frames in transit from a peer
          EventKinds,       \* frames a peer may send unprompted
          PeerAnswers,      \* kinds of response a peer may give
          Heartbeat,        \* HeartbeatConfig.enabled
          Impatient,        \* calls whose outer MCP wait may end first
          Droppable         \* calls whose client may go away mid-request

Calls == Tasks

ASSUME BoundsAssumption == /\ MailboxCapacity \in Nat \ {0}
                           /\ MaxInbox \in Nat \ {0}
                           /\ EventKinds \subseteq {"ready", "noise", "request"}
                           /\ PeerAnswers \subseteq {"ok", "notOk", "error"}
                           /\ Heartbeat \in BOOLEAN
                           /\ Droppable \subseteq Calls
                           /\ Impatient \subseteq Calls

CONSTANT Ping      \* the wire id of the heartbeat request

ASSUME PingAssumption == Ping \notin Calls /\ Ping # None

VARIABLES
    registry,   \* PidRegistry
    nextGen,    \* next_connection_generation
    sessions,   \* pid -> connection whose handle is in the session map
    pc,         \* where the task of a connection is
    connPid,    \* pid a connection's handshake named
    gen,        \* connection generation the registry gave it
    prev,       \* handle displaced by this connection's insert
    cancelled,  \* connections whose cancel token fired
    mailbox,    \* job channel of each actor
    job,        \* call the actor is running
    outcome,    \* what the actor observed for it, before it records it
    open,       \* the peer has not closed the stream
    toPeer,     \* requests the peer has received and not answered
    inbox,      \* frames from the peer not yet read by the actor
    timers,     \* connections whose disconnected-TTL timer is running
    cpc,        \* where a call is
    cpid,       \* pid it addresses
    handle,     \* session handle it cloned
    reply,      \* content of its oneshot channel
    result,     \* how it ended
    spawned,    \* spawn -> pid of the launched child
    spc         \* where the owner of that child is

connVars == <<pc, connPid, gen, prev, cancelled>>
jobVars  == <<mailbox, job, outcome>>
wireVars == <<open, toPeer, inbox>>
spawnVars == <<spawned, spc>>
callVars == <<cpc, cpid, handle, reply, result>>
vars == <<registry, nextGen, sessions, connVars, jobVars, wireVars, timers,
          callVars, spawnVars>>

-----------------------------------------------------------------------------
ReplyKinds == {"ok", "bridgeError", "timeout", "disconnected"}

\* What a caller is told; "from" is the wire id of the response it rests on.
Reply == [kind : ReplyKinds, from : Calls \cup {Ping, None}]

ResultKinds == ReplyKinds \cup {"busy", "notConnected", "unknown",
                                "receiptUnavailable"}

Results == [kind : ResultKinds, from : Calls \cup {Ping, None}]

NoReply == [kind |-> "none", from |-> None]

Plain(kind) == [kind |-> kind, from |-> None]

\* A response is "ok" unless its payload says "ok": false ("notOk") or it
\* carries an error object instead of a result ("error").
Frames == [kind : {"response"}, id : Calls \cup {Ping}, answer : PeerAnswers]
            \cup [kind : EventKinds]

ActorPcs == {"loop", "sending", "wire", "reply", "ping"}

ConnPcs == {"new", "accepted", "inserted", "teardown", "lost", "superseded",
            "dead"} \cup ActorPcs

CallPcs == {"idle", "lookup", "noHandle", "send", "waiting", "clear", "done",
            "abandoned"}

TypeOK ==
    /\ registry \in [Pids -> Entry]
    /\ nextGen \in Nat
    /\ sessions \in [Pids -> Conns \cup {None}]
    /\ pc \in [Conns -> ConnPcs]
    /\ connPid \in [Conns -> Pids \cup {None}]
    /\ gen \in [Conns -> Nat]
    /\ prev \in [Conns -> Conns \cup {None}]
    /\ cancelled \in SUBSET Conns
    /\ mailbox \in [Conns -> Seq(Calls)]
    /\ job \in [Conns -> Calls \cup {None}]
    /\ outcome \in [Conns -> Reply \cup {NoReply}]
    /\ open \in [Conns -> BOOLEAN]
    /\ toPeer \in [Conns -> SUBSET (Calls \cup {Ping})]
    /\ inbox \in [Conns -> Seq(Frames)]
    /\ timers \in SUBSET Conns
    /\ cpc \in [Calls -> CallPcs]
    /\ cpid \in [Calls -> Pids \cup {None}]
    /\ handle \in [Calls -> Conns \cup {None}]
    /\ reply \in [Calls -> Reply \cup {NoReply}]
    /\ result \in [Calls -> Results \cup {NoReply}]
    /\ spawned \in [Spawns -> Pids \cup {None}]
    /\ spc \in [Spawns -> {"unused", "running", "exited", "reaped"}]
    /\ \A c \in Conns : pc[c] # "new" => connPid[c] \in Pids
    /\ \A k \in Calls : cpc[k] \notin {"idle"} => cpid[k] \in Pids
    /\ \A k \in Calls : cpc[k] = "send" => handle[k] \in Conns
    /\ \A c \in Conns : pc[c] \in {"sending", "wire", "reply"}
                          => job[c] \in Calls

Init ==
    /\ registry = [p \in Pids |-> AbsentEntry]
    /\ nextGen = 0
    /\ sessions = [p \in Pids |-> None]
    /\ pc = [c \in Conns |-> "new"]
    /\ connPid = [c \in Conns |-> None]
    /\ gen = [c \in Conns |-> 0]
    /\ prev = [c \in Conns |-> None]
    /\ cancelled = {}
    /\ mailbox = [c \in Conns |-> <<>>]
    /\ job = [c \in Conns |-> None]
    /\ outcome = [c \in Conns |-> NoReply]
    /\ open = [c \in Conns |-> TRUE]
    /\ toPeer = [c \in Conns |-> {}]
    /\ inbox = [c \in Conns |-> <<>>]
    /\ timers = {}
    /\ cpc = [k \in Calls |-> "idle"]
    /\ cpid = [k \in Calls |-> None]
    /\ handle = [k \in Calls |-> None]
    /\ reply = [k \in Calls |-> NoReply]
    /\ result = [k \in Calls |-> NoReply]
    /\ spawned = [s \in Spawns |-> None]
    /\ spc = [s \in Spawns |-> "unused"]

Goto(c, label) == pc' = [pc EXCEPT ![c] = label]

-----------------------------------------------------------------------------
(* Accepting a connection: the registry learns of it under one lock, the    *)
(* session map under another, and the actor it displaces is cancelled last. *)

AcceptHandshake(c, p, f) ==
    /\ pc[c] = "new"
    /\ nextGen' = nextGen + 1
    /\ registry' = Handshake(registry, p, f, nextGen + 1)
    /\ connPid' = [connPid EXCEPT ![c] = p]
    /\ gen' = [gen EXCEPT ![c] = nextGen + 1]
    /\ Goto(c, "accepted")
    /\ UNCHANGED <<sessions, prev, cancelled, jobVars, wireVars, timers,
                   callVars, spawnVars>>

SpawnInsert(c) ==
    /\ pc[c] = "accepted"
    /\ prev' = [prev EXCEPT ![c] = sessions[connPid[c]]]
    /\ sessions' = [sessions EXCEPT ![connPid[c]] = c]
    /\ Goto(c, "inserted")
    /\ UNCHANGED <<registry, nextGen, connPid, gen, cancelled, jobVars,
                   wireVars, timers, callVars, spawnVars>>

\* Mutant: the displaced actor is not cancelled.
SpawnCancelPreviousForgotten(c) ==
    /\ pc[c] = "inserted"
    /\ Goto(c, "loop")
    /\ UNCHANGED <<registry, nextGen, sessions, connPid, gen, prev, cancelled,
                   jobVars, wireVars, timers, callVars, spawnVars>>

SpawnCancelPrevious(c) ==
    /\ pc[c] = "inserted"
    /\ cancelled' = cancelled \cup ({prev[c]} \ {None})
    /\ Goto(c, "loop")
    /\ UNCHANGED <<registry, nextGen, sessions, connPid, gen, prev, jobVars,
                   wireVars, timers, callVars, spawnVars>>

-----------------------------------------------------------------------------
(* The session actor.  Its select is biased: cancellation, then a job, then *)
(* the idle-dead deadline, then the heartbeat tick.                         *)

ActorCancelled(c) ==
    /\ pc[c] = "loop"
    /\ c \in cancelled
    /\ Goto(c, "teardown")
    /\ UNCHANGED <<registry, nextGen, sessions, connPid, gen, prev, cancelled,
                   jobVars, wireVars, timers, callVars, spawnVars>>

\* Receives a job and promotes the head of the registry queue, whichever
\* call that slot belongs to.
ActorTakeJob(c) ==
    /\ pc[c] = "loop"
    /\ c \notin cancelled
    /\ mailbox[c] # <<>>
    /\ job' = [job EXCEPT ![c] = Head(mailbox[c])]
    /\ mailbox' = [mailbox EXCEPT ![c] = Tail(@)]
    /\ registry' = StartNext(registry, connPid[c])
    /\ Goto(c, "sending")
    /\ UNCHANGED <<nextGen, sessions, connPid, gen, prev, cancelled, outcome,
                   wireVars, timers, callVars, spawnVars>>

\* The channel is full only if the caller is gone or has its answer already;
\* a reply to a call that stopped waiting is dropped with its receiver.
Answer(calls, r) ==
    reply' = [k \in Calls |-> IF k \in calls /\ cpc[k] = "waiting"
                              THEN r ELSE reply[k]]

\* The job fails with a disconnect and the actor leaves its loop; a heartbeat
\* has no caller to answer.
Disconnect(c) ==
    /\ Answer({job[c]} \ {None}, Plain("disconnected"))
    /\ job' = [job EXCEPT ![c] = None]
    /\ Goto(c, "teardown")
    /\ UNCHANGED <<cpc, cpid, handle, result>>

\* Enter, or go round, the wait for a response: the token is looked at first.
KeepWaiting(c, label) ==
    IF c \in cancelled
    THEN Disconnect(c)
    ELSE /\ Goto(c, label)
         /\ UNCHANGED <<job, callVars>>

\* A send to a peer that has gone may still succeed; the bytes are then lost.
WriteRequest(c, id) ==
    toPeer' = IF open[c] THEN [toPeer EXCEPT ![c] = @ \cup {id}] ELSE toPeer

ActorSend(c) ==
    /\ pc[c] = "sending"
    /\ WriteRequest(c, job[c])
    /\ KeepWaiting(c, "wire")
    /\ UNCHANGED <<registry, nextGen, sessions, connPid, gen, prev, cancelled,
                   mailbox, outcome, open, inbox, timers, spawnVars>>

ActorSendFail(c) ==
    /\ pc[c] = "sending"
    /\ ~open[c]
    /\ Disconnect(c)
    /\ UNCHANGED <<registry, nextGen, sessions, connPid, gen, prev, cancelled,
                   mailbox, outcome, wireVars, timers, spawnVars>>

ActorPing(c) ==
    /\ Heartbeat
    /\ pc[c] = "loop"
    /\ c \notin cancelled
    /\ mailbox[c] = <<>>
    /\ \/ WriteRequest(c, Ping) /\ Goto(c, "ping")
       \/ ~open[c] /\ Goto(c, "teardown") /\ UNCHANGED toPeer
    /\ UNCHANGED <<registry, nextGen, sessions, connPid, gen, prev, cancelled,
                   jobVars, open, inbox, timers, callVars, spawnVars>>

ActorIdleDead(c) ==
    /\ Heartbeat
    /\ pc[c] = "loop"
    /\ c \notin cancelled
    /\ mailbox[c] = <<>>
    /\ Goto(c, "teardown")
    /\ UNCHANGED <<registry, nextGen, sessions, connPid, gen, prev, cancelled,
                   jobVars, wireVars, timers, callVars, spawnVars>>

-----------------------------------------------------------------------------
(* Reading the peer's frames while waiting for one id.                      *)

WantId(c) == IF pc[c] = "ping" THEN Ping ELSE job[c]

Awaiting(c) == pc[c] \in {"wire", "ping"}

\* Mutant: any response ends the wait.
IsAnyResponse(c, m) == m.kind = "response"

IsWanted(c, m) == m.kind = "response" /\ m.id = WantId(c)

Receive(c) ==
    /\ Awaiting(c)
    /\ inbox[c] # <<>>
    /\ inbox' = [inbox EXCEPT ![c] = Tail(@)]
    /\ UNCHANGED <<nextGen, sessions, connPid, gen, prev, cancelled, mailbox,
                   open, toPeer, timers, spawnVars>>

\* Mutant: the answer is passed on without being mapped to an outcome.
ReplyUnmapped(m) == [kind |-> m.answer, from |-> m.id]

ReplyFor(m) ==
    [kind |-> IF m.answer = "error" THEN "bridgeError" ELSE "ok",
     from |-> m.id]

\* The answer to the running job: record it, then complete the task.  An
\* "ok": false payload is delivered as a value but completes as Failed.
ActorMatched(c) ==
    /\ Receive(c)
    /\ pc[c] = "wire"
    /\ IsWanted(c, Head(inbox[c]))
    /\ outcome' = [outcome EXCEPT ![c] = ReplyFor(Head(inbox[c]))]
    /\ registry' = CompleteTask(registry, connPid[c],
                                Head(inbox[c]).answer = "ok")
    /\ Goto(c, "reply")
    /\ UNCHANGED <<job, callVars>>

\* The pong: an error or a not-ok pong ends the session.
ActorPong(c) ==
    /\ Receive(c)
    /\ pc[c] = "ping"
    /\ IsWanted(c, Head(inbox[c]))
    /\ IF Head(inbox[c]).answer = "error"
       THEN UNCHANGED registry
       ELSE \E sameLoad \in BOOLEAN :
              registry' = ObserveBridgeHeartbeat(registry, connPid[c], gen[c],
                                                 c, sameLoad)
    /\ Goto(c, IF Head(inbox[c]).answer = "ok" THEN "loop" ELSE "teardown")
    /\ UNCHANGED <<job, outcome, callVars>>

\* A leftover of an earlier call, or an event: dropped, and the wait goes on.
ActorDiscard(c) ==
    /\ Receive(c)
    /\ Head(inbox[c]).kind \in {"response", "noise"}
    /\ ~IsWanted(c, Head(inbox[c]))
    /\ KeepWaiting(c, pc[c])
    /\ UNCHANGED <<registry, outcome>>

ActorReady(c) ==
    /\ Receive(c)
    /\ Head(inbox[c]).kind = "ready"
    /\ \E hasAge \in BOOLEAN :
         registry' = ObserveBridgeReady(registry, connPid[c], gen[c], c, hasAge)
    /\ KeepWaiting(c, pc[c])
    /\ UNCHANGED outcome

\* The peer must not send requests: the session ends.
ActorUnexpectedRequest(c) ==
    /\ Receive(c)
    /\ Head(inbox[c]).kind = "request"
    /\ Disconnect(c)
    /\ UNCHANGED <<registry, outcome>>

\* Cancellation or end of stream while waiting.
ActorWaitDisconnected(c) ==
    /\ Awaiting(c)
    /\ c \in cancelled \/ ~open[c]
    /\ Disconnect(c)
    /\ UNCHANGED <<registry, nextGen, sessions, connPid, gen, prev, cancelled,
                   mailbox, outcome, wireVars, timers, spawnVars>>

\* The budget of the call, or of the pong, has passed.
ActorTimedOut(c) ==
    /\ Awaiting(c)
    /\ IF pc[c] = "ping"
       THEN Goto(c, "teardown") /\ UNCHANGED <<registry, outcome>>
       ELSE /\ outcome' = [outcome EXCEPT ![c] = Plain("timeout")]
            /\ registry' = CompleteTask(registry, connPid[c], FALSE)
            /\ Goto(c, "reply")
    /\ UNCHANGED <<nextGen, sessions, connPid, gen, prev, cancelled, mailbox,
                   job, wireVars, timers, callVars, spawnVars>>

\* The reply is sent after the registry lock is released, so the slot is
\* already free for another call when the caller learns of the outcome.
ActorReply(c) ==
    /\ pc[c] = "reply"
    /\ Answer({job[c]}, outcome[c])
    /\ job' = [job EXCEPT ![c] = None]
    /\ outcome' = [outcome EXCEPT ![c] = NoReply]
    /\ Goto(c, "loop")
    /\ UNCHANGED <<registry, nextGen, sessions, connPid, gen, prev, cancelled,
                   mailbox, wireVars, timers, cpc, cpid, handle, result,
                   spawnVars>>

-----------------------------------------------------------------------------
(* Teardown: the session map under its lock, then the registry under its    *)
(* own.  When the actor ends, its stream and its job channel are dropped,   *)
(* and with the channel the reply senders of the jobs still in it.          *)

TeardownSession(c) ==
    /\ pc[c] = "teardown"
    /\ IF sessions[connPid[c]] = c
       THEN /\ sessions' = [sessions EXCEPT ![connPid[c]] = None]
            /\ Goto(c, "lost")
       ELSE /\ Goto(c, "superseded")
            /\ UNCHANGED sessions
    /\ UNCHANGED <<registry, nextGen, connPid, gen, prev, cancelled, jobVars,
                   wireVars, timers, callVars, spawnVars>>

\* Mutant: the jobs left in the channel are forgotten without an answer.
DropSessionSilently(c) ==
    /\ open' = [open EXCEPT ![c] = FALSE]
    /\ toPeer' = [toPeer EXCEPT ![c] = {}]
    /\ inbox' = [inbox EXCEPT ![c] = <<>>]
    /\ mailbox' = [mailbox EXCEPT ![c] = <<>>]
    /\ UNCHANGED <<job, outcome, callVars>>

\* Everything the channel still holds is answered by its drop; the stream is
\* closed with it.
DropSession(c) ==
    /\ open' = [open EXCEPT ![c] = FALSE]
    /\ toPeer' = [toPeer EXCEPT ![c] = {}]
    /\ inbox' = [inbox EXCEPT ![c] = <<>>]
    /\ Answer({mailbox[c][i] : i \in 1..Len(mailbox[c])},
              Plain("disconnected"))
    /\ mailbox' = [mailbox EXCEPT ![c] = <<>>]
    /\ UNCHANGED <<job, outcome, cpc, cpid, handle, result>>

TeardownLost(c) ==
    /\ pc[c] = "lost"
    /\ registry' = OnBridgeLost(registry, connPid[c], c)
    /\ timers' = timers \cup {c}
    /\ DropSession(c)
    /\ Goto(c, "dead")
    /\ UNCHANGED <<nextGen, sessions, connPid, gen, prev, cancelled, spawnVars>>

TeardownSuperseded(c) ==
    /\ pc[c] = "superseded"
    /\ registry' = CancelQueueKeepConnected(registry, connPid[c])
    /\ DropSession(c)
    /\ Goto(c, "dead")
    /\ UNCHANGED <<nextGen, sessions, connPid, gen, prev, cancelled, timers,
                   spawnVars>>

\* DISCONNECTED_TTL after the loss, whatever happened to the pid since.
TtlElapsed(c) ==
    /\ c \in timers
    /\ registry' = EvictIfDisconnected(registry, connPid[c])
    /\ timers' = timers \ {c}
    /\ UNCHANGED <<nextGen, sessions, connVars, jobVars, wireVars, callVars,
                   spawnVars>>

-----------------------------------------------------------------------------
(* The bridge inside TouchDesigner (external): answers requests in any      *)
(* order, sends events, and may close the stream or die at any moment.      *)

PeerUp(c) == pc[c] # "new" /\ open[c]

PeerSend(c, m) ==
    /\ PeerUp(c)
    /\ Len(inbox[c]) < MaxInbox
    /\ inbox' = [inbox EXCEPT ![c] = Append(@, m)]
    /\ UNCHANGED <<registry, nextGen, sessions, connVars, jobVars, open,
                   timers, callVars, spawnVars>>

PeerAnswer(c, id, a) ==
    /\ id \in toPeer[c]
    /\ toPeer' = [toPeer EXCEPT ![c] = @ \ {id}]
    /\ PeerSend(c, [kind |-> "response", id |-> id, answer |-> a])

PeerEvent(c, kind) ==
    /\ PeerSend(c, [kind |-> kind])
    /\ UNCHANGED toPeer

PeerClose(c) ==
    /\ PeerUp(c)
    /\ open' = [open EXCEPT ![c] = FALSE]
    /\ UNCHANGED <<registry, nextGen, sessions, connVars, jobVars, toPeer,
                   inbox, timers, callVars, spawnVars>>

-----------------------------------------------------------------------------
(* A tool call: enqueue_and_call around BridgeSessions::call.               *)

CallGoto(k, label) == cpc' = [cpc EXCEPT ![k] = label]

\* The call's future ends: its handle and reply receiver are dropped.
Drop(k, label) ==
    /\ CallGoto(k, label)
    /\ handle' = [handle EXCEPT ![k] = None]
    /\ reply' = [reply EXCEPT ![k] = NoReply]

Told(k, r) == result' = [result EXCEPT ![k] = r]

CallUnchanged == UNCHANGED <<nextGen, sessions, connVars, job, outcome,
                             wireVars, timers, spawnVars>>

\* The slot is taken under the registry lock; then the receipt is opened,
\* and a receipt that cannot be opened refuses the call.
CallEnqueue(k, p) ==
    /\ cpc[k] = "idle"
    /\ cpid' = [cpid EXCEPT ![k] = p]
    /\ \/ /\ ~CanEnqueue(registry, p)
          /\ CallGoto(k, "done")
          /\ Told(k, Plain(IF registry[p].bridge = "Connected"
                           THEN "busy" ELSE "notConnected"))
          /\ UNCHANGED registry
       \/ /\ CanEnqueue(registry, p)
          /\ registry' = Enqueue(registry, p, k)
          /\ CallGoto(k, "lookup")
          /\ UNCHANGED result
       \/ /\ CanEnqueue(registry, p)
          /\ registry' = Enqueue(registry, p, k)
          /\ CallGoto(k, "clear")
          /\ Told(k, Plain("receiptUnavailable"))
    /\ UNCHANGED <<handle, reply, mailbox>>
    /\ CallUnchanged

CallLookup(k) ==
    /\ cpc[k] = "lookup"
    /\ handle' = [handle EXCEPT ![k] = sessions[cpid[k]]]
    /\ CallGoto(k, IF sessions[cpid[k]] = None THEN "noHandle" ELSE "send")
    /\ UNCHANGED <<registry, cpid, reply, result, mailbox>>
    /\ CallUnchanged

\* No session: a pid the registry still knows is NotConnected, and the queue
\* is cleared; an unknown pid is reported as such and nothing is cleared.
CallNoHandle(k) ==
    /\ cpc[k] = "noHandle"
    /\ IF registry[cpid[k]].bridge = "Absent"
       THEN CallGoto(k, "done") /\ Told(k, Plain("unknown"))
       ELSE CallGoto(k, "clear") /\ Told(k, Plain("notConnected"))
    /\ UNCHANGED <<registry, cpid, handle, reply, mailbox>>
    /\ CallUnchanged

\* The cloned handle may by now belong to an actor that is gone, or about to
\* go; a full channel makes the caller wait.
CallSend(k) ==
    /\ cpc[k] = "send"
    /\ \/ /\ pc[handle[k]] = "dead"
          /\ Drop(k, "clear")
          /\ Told(k, Plain("disconnected"))
          /\ UNCHANGED mailbox
       \/ /\ pc[handle[k]] # "dead"
          /\ Len(mailbox[handle[k]]) < MailboxCapacity
          /\ mailbox' = [mailbox EXCEPT ![handle[k]] = Append(@, k)]
          /\ CallGoto(k, "waiting")
          /\ UNCHANGED <<result, handle, reply>>
    /\ UNCHANGED <<registry, cpid>>
    /\ CallUnchanged

\* Only a disconnect clears the queue: any other answer was given by an actor
\* that completed the task.
CallReceive(k) ==
    /\ cpc[k] = "waiting"
    /\ reply[k] # NoReply
    /\ Told(k, reply[k])
    /\ Drop(k, IF reply[k].kind = "disconnected" THEN "clear" ELSE "done")
    /\ UNCHANGED <<registry, cpid, mailbox>>
    /\ CallUnchanged

\* The outer MCP wait expires: the call future is dropped where it stands,
\* and a job already handed over stays with the actor.
CallOuterTimeout(k) ==
    /\ k \in Impatient
    /\ cpc[k] \in {"lookup", "noHandle", "send", "waiting"}
    /\ reply[k] = NoReply
    /\ Drop(k, "clear")
    /\ Told(k, Plain("timeout"))
    /\ UNCHANGED <<registry, cpid, mailbox>>
    /\ CallUnchanged

\* The whole queue of the pid is cleared, not only this call's slot.
CallClear(k) ==
    /\ cpc[k] = "clear"
    /\ registry' = CancelQueueKeepConnected(registry, cpid[k])
    /\ CallGoto(k, "done")
    /\ UNCHANGED <<cpid, handle, reply, result, mailbox>>
    /\ CallUnchanged

\* The client goes away and its request future is dropped at an await.
CallAbandon(k) ==
    /\ k \in Droppable
    /\ cpc[k] \in {"lookup", "noHandle", "send", "waiting", "clear"}
    /\ Drop(k, "abandoned")
    /\ Told(k, NoReply)
    /\ UNCHANGED <<registry, cpid, mailbox>>
    /\ CallUnchanged

-----------------------------------------------------------------------------
(* spawn_td and the reaper that owns the child until it exits.  The OS does *)
(* not reuse the pid of a child before its owner has collected it.          *)

SpawnTd(s, p) ==
    /\ spc[s] = "unused"
    /\ \A t \in Spawns : spawned[t] = p => spc[t] # "running"
    /\ spawned' = [spawned EXCEPT ![s] = p]
    /\ spc' = [spc EXCEPT ![s] = "running"]
    /\ registry' = RegisterStarting(registry, p, s)
    /\ UNCHANGED <<nextGen, sessions, connVars, jobVars, wireVars, timers,
                   callVars>>

\* try_wait collects the exit status; the registry lock comes after it.
ChildExit(s) ==
    /\ spc[s] = "running"
    /\ spc' = [spc EXCEPT ![s] = "exited"]
    /\ UNCHANGED <<registry, nextGen, sessions, connVars, jobVars, wireVars,
                   timers, callVars, spawned>>

\* Mutant: the row is removed by pid alone.
ReapByPid(s) ==
    /\ spc[s] = "exited"
    /\ spc' = [spc EXCEPT ![s] = "reaped"]
    /\ registry' = RemoveStarting(registry, spawned[s])
    /\ UNCHANGED <<nextGen, sessions, connVars, jobVars, wireVars, timers,
                   callVars, spawned>>

\* Only a Starting row that carries this spawn's own record is removed.
ReapChild(s) ==
    /\ spc[s] = "exited"
    /\ spc' = [spc EXCEPT ![s] = "reaped"]
    /\ registry' = IF registry[spawned[s]].spawn = s
                   THEN RemoveStarting(registry, spawned[s])
                   ELSE registry
    /\ UNCHANGED <<nextGen, sessions, connVars, jobVars, wireVars, timers,
                   callVars, spawned>>

-----------------------------------------------------------------------------
Accept(c) ==
    \/ \E p \in Pids, f \in Prints : AcceptHandshake(c, p, f)
    \/ SpawnInsert(c)
    \/ SpawnCancelPrevious(c)

ActorStep(c) ==
    \/ ActorCancelled(c)
    \/ ActorTakeJob(c)
    \/ ActorSend(c)
    \/ ActorSendFail(c)
    \/ ActorMatched(c)
    \/ ActorPong(c)
    \/ ActorDiscard(c)
    \/ ActorReady(c)
    \/ ActorUnexpectedRequest(c)
    \/ ActorWaitDisconnected(c)
    \/ ActorTimedOut(c)
    \/ ActorReply(c)

ActorIdle(c) == ActorPing(c) \/ ActorIdleDead(c)

Teardown(c) ==
    \/ TeardownSession(c)
    \/ TeardownLost(c)
    \/ TeardownSuperseded(c)

Peer(c) ==
    \/ \E id \in Calls \cup {Ping}, a \in PeerAnswers : PeerAnswer(c, id, a)
    \/ \E kind \in EventKinds : PeerEvent(c, kind)
    \/ PeerClose(c)

CallStep(k) ==
    \/ CallLookup(k)
    \/ CallNoHandle(k)
    \/ CallSend(k)
    \/ CallReceive(k)
    \/ CallClear(k)

CallChoice(k) ==
    \/ \E p \in Pids : CallEnqueue(k, p)
    \/ CallOuterTimeout(k)
    \/ CallAbandon(k)

Lifecycle(s) ==
    \/ \E p \in Pids : SpawnTd(s, p)
    \/ ChildExit(s)
    \/ ReapChild(s)

Next ==
    \/ \E c \in Conns : \/ Accept(c) \/ ActorStep(c) \/ ActorIdle(c)
                        \/ Teardown(c) \/ TtlElapsed(c) \/ Peer(c)
    \/ \E k \in Calls : CallStep(k) \/ CallChoice(k)
    \/ \E s \in Spawns : Lifecycle(s)

Spec == Init /\ [][Next]_vars

(* Fairness.  Tasks that are ready are run by the async runtime and every   *)
(* deadline the code sets passes: accept tasks, actors (their select always *)
(* has an enabled branch, and a wait ends by its budget at the latest),     *)
(* teardown, timers and callers make progress.  Nothing is assumed of the   *)
(* peer, of clients that start or drop calls, of the outer MCP wait or of   *)
(* idle probes.                                                             *)
Fairness ==
    /\ \A c \in Conns : /\ WF_vars(SpawnInsert(c) \/ SpawnCancelPrevious(c))
                        /\ WF_vars(ActorStep(c))
                        /\ WF_vars(ActorTimedOut(c))
                        /\ WF_vars(Teardown(c))
                        /\ WF_vars(TtlElapsed(c))
    /\ \A k \in Calls : WF_vars(CallStep(k))

FairSpec == Spec /\ Fairness

-----------------------------------------------------------------------------
(* Properties.                                                             *)

\* A Connected row of the registry (bridge: "connected" in fleet, the only
\* state in which enqueue admits a call) is never left without somebody who
\* will serve or retract it: an accept task about to insert its session, the
\* session in the map, or a teardown that still has to mark the loss.
ConnectedIsBacked ==
    \A p \in Pids : registry[p].bridge = "Connected" =>
        \E c \in Conns : /\ connPid[c] = p
                         /\ \/ pc[c] \in {"accepted", "lost"}
                            \/ sessions[p] = c

\* Supersede: of all actors of one pid at most the one in the session map
\* runs on; any other has been cancelled, or is the displaced handle of an
\* insert whose next step cancels it.
OneActorDrivesPid ==
    \A c \in Conns : pc[c] \in ActorPcs =>
        \/ sessions[connPid[c]] = c
        \/ c \in cancelled
        \/ \E d \in Conns : pc[d] = "inserted" /\ prev[d] = c

\* A caller that is told a result was told the response to its own request,
\* never the late answer of an earlier timed-out call on the same wire.
ReplyIsOwnResponse ==
    \A k \in Calls : result[k].kind \in {"ok", "bridgeError"}
                       => result[k].from = k

\* Ready and heartbeat metadata shown for a row came from the connection the
\* row is at, not from a superseded actor that is still reading frames.
IdentityIsCurrent ==
    \A p \in Pids, c \in Conns :
        c \in {registry[p].ready, registry[p].pump}
          => connPid[c] = p /\ gen[c] = registry[p].generation

\* The job of a call is still with an actor that will run or drop it.
JobPending(k) ==
    \E c \in Conns : \/ job[c] = k
                     \/ \E i \in 1..Len(mailbox[c]) : mailbox[c][i] = k

\* No finished call leaves a queue slot behind, whatever queue clears, job
\* mix-ups, supersedes and losses came between: the slot of a call is gone
\* before its caller returns.
NoSlotOutlivesItsCall ==
    \A p \in Pids : \A k \in Slots(registry[p].queue) :
        cpc[k] # "done"

\* The trace of cancelled tasks of a row is dropped only by a successful task
\* of that pid, or together with the row or the process it belongs to.
TraceKeptUntilSuccess ==
    [][\A p \in Pids :
         LET e == registry[p]
             e2 == registry'[p]
         IN  e.cancelled # <<>> /\ e2.cancelled = <<>> =>
               \/ e2.bridge \in {"Absent", "Starting"}
               \/ ~Matches(e.print, e2.print)
               \/ \E c \in Conns : /\ connPid[c] = p
                                    /\ pc[c] = "wire" /\ pc'[c] = "reply"
                                    /\ outcome'[c].kind = "ok"]_vars

\* Nobody waits for ever.  A call that handed its job to an actor is answered without
\* help from the outer wait: the actor runs it, fails it, or drops it with its channel.
\* A superseded actor ends even when it is blocked on its peer.  A disconnected row
\* does not stay in the fleet: it is evicted or comes back.
SessionsSettle ==
    /\ \A k \in Calls : cpc[k] = "waiting" ~> cpc[k] # "waiting"
    /\ \A c \in Conns : c \in cancelled ~> pc[c] = "dead"
    /\ \A p \in Pids : registry[p].bridge = "Disconnected"
                          ~> registry[p].bridge # "Disconnected"

\* A row that spawn_td registered is taken out before its handshake only by
\* the owner of that very child, even when the pid was handed out again.
StartingRowIsOwned ==
    [][\A p \in Pids :
         LET e == registry[p]
         IN  e.bridge = "Starting" /\ registry'[p].spawn # e.spawn
               => spc[e.spawn] = "exited"]_vars

-----------------------------------------------------------------------------
(* What the documentation says and the code does not keep.                 *)

\* bridge.rs: "Session generations prevent a superseded actor's teardown from
\* clobbering a newer connection for the same pid."
SessionIsConnected ==
    \A p \in Pids : \A c \in Conns :
        sessions[p] = c /\ pc[c] \in ActorPcs => registry[p].bridge = "Connected"

\* tools.rs: the queue is cleared "so a zombie slot cannot wedge exclusive
\* callers": no slot whose call has ended one way or another and whose job no
\* actor holds.
NoZombieSlot ==
    \A p \in Pids : \A k \in Slots(registry[p].queue) :
        cpc[k] \notin {"done", "abandoned"} \/ JobPending(k)

\* docs/CONTRACT.md: "Hard sequential use of TD for bridged tools: a second
\* concurrent call fails fast": two callers never wait on unfinished jobs of
\* one pid at the same time.
SequentialUse ==
    LET Unfinished(k) == /\ cpc[k] = "waiting"
                         /\ reply[k] = NoReply
                         /\ JobPending(k)
                         /\ \A c \in Conns : job[c] = k => pc[c] # "reply"
    IN  \A k, l \in Calls :
          Unfinished(k) /\ Unfinished(l) /\ cpid[k] = cpid[l] => k = l
=============================================================================
