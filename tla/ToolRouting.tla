----------------------------- MODULE ToolRouting ---------------------------
(***************************************************************************)
(* A bridged tool call from the client to its answer (tools.rs,            *)
(* outcomes.rs): checks of the arguments, the choice between this daemon   *)
(* and the slaves that report to it, the dialog gate, the session's slot,  *)
(* the pid queue, the receipt, TouchDesigner, and how the result is mapped *)
(* to what the client is told.  A proxied call goes through the same       *)
(* dispatch again on the slave, without a session and without a claim.     *)
(*                                                                         *)
(* All calls are about one pid, a number that processes of several hosts   *)
(* may share.  What happens between the pid queue and TouchDesigner is     *)
(* BridgeSession's; here a call that was sent may be run at any time, also *)
(* after everybody stopped waiting for it.                                 *)
(***************************************************************************)
EXTENDS Absent, Naturals, FiniteSets

CONSTANTS
    Home,         \* the daemon that the clients are connected to
    Slaves,       \* the daemons that report to it
    Clients,      \* MCP sessions
    Calls,
    CallerOf,     \* CallerOf[c]: the session of call c
    MayAsk,       \* MayAsk[c]: the tools call c may be of
    MayName,      \* MayName[c]: the daemons it may name, or None
    Replies,      \* the envelopes TouchDesigner may answer with
    MaxUpsets     \* bound on what happens around the calls

Daemons == Slaves \cup {Home}

VARIABLES
    bridge,    \* bridge[d]: the bridge of the pid on daemon d: [up, generation]
    table,     \* table[s]: what the coordinator knows of s: [reach, has], or None
    modal,     \* modal[d]: whether d believes that a dialog is open on the pid
    ask,       \* ask[c]: [tool, names] once the call has come in
    pc,        \* pc[c]: where the coordinator stands with it
    known,     \* known[c]: whether the registry had a row of the pid when it looked
    aim,       \* aim[c]: the daemon the call is dispatched on
    work,      \* work[c]: where that daemon stands with it
    outcome,   \* outcome[c]: what that daemon's dispatch came to
    slots,     \* the sessions' slots that are taken: <<session, scope>>
    queue,     \* queue[d]: the call in the pid queue of d
    sent,      \* the calls TouchDesigner has been sent and has not run
    ran,       \* ran[c]: the connections it was run on: <<daemon, generation>>
    receipts,  \* the calls with a receipt
    reply,     \* reply[c]: the answer
    gone,      \* sessions that were released
    upsets

callVars == <<ask, pc, known, aim, work, outcome, slots, queue, sent, ran, receipts, reply>>
worldVars == <<bridge, table, modal, gone, upsets>>
routeVars == <<callVars, worldVars>>

-----------------------------------------------------------------------------
(* The tools: what is refused before the call is routed, and how the       *)
(* bridge's envelope is mapped.                                            *)

Tool(name, needs, maps) == [name |-> name, needs |-> needs, maps |-> maps]

ExecutePython == Tool("execute_python", "nothing", "script")
Capture == Tool("capture", "fields", "perception")
CaptureJob == Tool("capture", "fields", "timing")
SampleData == Tool("sample_data", "nothing", "catalog")
ScriptSource == Tool("script_source", "nothing", "script")
ParamInterface == Tool("param_interface", "nothing", "script")
CompareNodes == Tool("compare_nodes", "nothing", "catalog")
ProjectSnapshotTool == Tool("project_snapshot", "nothing", "script")
Record == Tool("record", "nothing", "timing")
Inspect == Tool("inspect", "fields", "inspect")
MutateNodes == Tool("mutate_nodes", "palette", "mutate")
ApiHelp == Tool("api_help", "fields", "help")
EditorContext == Tool("editor_context", "nothing", "editor")

BridgedTools ==
    {ExecutePython, Capture, CaptureJob, SampleData, ScriptSource, ParamInterface,
     CompareNodes, ProjectSnapshotTool, Record, Inspect, MutateNodes, ApiHelp, EditorContext}

\* An envelope: its code is one of the tool's own, another of the catalog, or none.
Envelopes == [ok : BOOLEAN, code : {"own", "other", "none"}]

\* map_script_outcome and its kin: a code the mapping does not list becomes its default.
Listed(env) == IF env.code = "own" THEN "own" ELSE "default"

\* map_sample_data_outcome and map_compare_nodes_outcome let the bridge's code through.
InCatalog(env) == IF env.code = "none" THEN "default" ELSE env.code

MapScript(env) == [code |-> Listed(env), data |-> FALSE]
MapPerception(env) == [code |-> Listed(env), data |-> FALSE]
MapTiming(env) == [code |-> Listed(env), data |-> TRUE]
MapInspect(env) == [code |-> Listed(env), data |-> FALSE]
MapEditor(env) == [code |-> Listed(env), data |-> FALSE]
MapHelp(env) == [code |-> Listed(env), data |-> FALSE]
MapCatalog(env) == [code |-> InCatalog(env), data |-> FALSE]

\* The code is that of the first step that failed; the steps go with it.
MapMutate(env) == [code |-> Listed(env), data |-> TRUE]

MapFailure(tool, env) ==
    CASE tool.maps = "script" -> MapScript(env)
      [] tool.maps = "perception" -> MapPerception(env)
      [] tool.maps = "timing" -> MapTiming(env)
      [] tool.maps = "inspect" -> MapInspect(env)
      [] tool.maps = "editor" -> MapEditor(env)
      [] tool.maps = "help" -> MapHelp(env)
      [] tool.maps = "catalog" -> MapCatalog(env)
      [] tool.maps = "mutate" -> MapMutate(env)

Plain(kind) == [kind |-> kind, code |-> "none", data |-> FALSE, routed |-> FALSE,
                  generation |-> 0]

Mapped(tool, env) ==
    IF env.ok THEN Plain("ok")
    ELSE LET m == MapFailure(tool, env)
         IN [Plain("failed") EXCEPT !.code = m.code, !.data = m.data]

\* What ends a call before TouchDesigner gets it.
Refusals == {"args", "palette", "ambiguous", "session_busy", "dialog", "queue_busy",
             "receipt"}
AnswerKinds == Refusals \cup {"unreachable", "lost", "timeout", "ok", "failed"}
AnswerSet == [kind : AnswerKinds, code : {"own", "other", "default", "none"}, data : BOOLEAN,
              routed : BOOLEAN, generation : 0 .. MaxUpsets + 1]

-----------------------------------------------------------------------------
ASSUME RoutingAssumption ==
    /\ Home \notin Slaves /\ None \notin Daemons \cup Calls
    /\ CallerOf \in [Calls -> Clients] /\ MayAsk \in [Calls -> SUBSET BridgedTools]
    /\ MayName \in [Calls -> SUBSET (Daemons \cup {None})]
    /\ Replies \subseteq Envelopes
    /\ MaxUpsets \in Nat

RoutingTypeOK ==
    /\ bridge \in [Daemons -> [up : BOOLEAN, generation : 1 .. MaxUpsets + 1]]
    /\ table \in [Slaves -> [reach : BOOLEAN, has : BOOLEAN] \cup {None}]
    /\ modal \in [Daemons -> BOOLEAN]
    /\ \A c \in Calls : ask[c] # None => /\ ask[c].tool \in MayAsk[c]
                                         /\ ask[c].names \in Daemons \cup {None}
    /\ pc \in [Calls -> {"new", "resolve", "entry", "here", "flight", "end"}]
    /\ known \in [Calls -> BOOLEAN]
    /\ aim \in [Calls -> Daemons \cup {None}]
    /\ work \in [Calls -> {"none", "begin", "enqueue", "call", "answer"}]
    /\ outcome \in [Calls -> AnswerSet \cup {None}]
    /\ slots \subseteq Clients \X Daemons
    /\ queue \in [Daemons -> Calls \cup {None}]
    /\ sent \subseteq Calls /\ receipts \subseteq Calls
    /\ \A c \in Calls : ran[c] \subseteq Daemons \X (1 .. MaxUpsets + 1)
    /\ reply \in [Calls -> AnswerSet \cup {None}]
    /\ gone \subseteq Clients
    /\ upsets \in 0 .. MaxUpsets

\* The slaves have reported what they have, or not yet registered.
RoutingInit ==
    /\ bridge \in [Daemons -> [up : BOOLEAN, generation : {1}]]
    /\ table \in [Slaves -> {None} \cup [reach : {TRUE}, has : BOOLEAN]]
    /\ \A s \in Slaves : table[s] # None => table[s].has = bridge[s].up
    /\ modal = [d \in Daemons |-> FALSE]
    /\ ask = [c \in Calls |-> None]
    /\ pc = [c \in Calls |-> "new"]
    /\ known = [c \in Calls |-> FALSE]
    /\ aim = [c \in Calls |-> None]
    /\ work = [c \in Calls |-> "none"]
    /\ outcome = [c \in Calls |-> None]
    /\ slots = {}
    /\ queue = [d \in Daemons |-> None]
    /\ sent = {}
    /\ ran = [c \in Calls |-> {}]
    /\ receipts = {}
    /\ reply = [c \in Calls |-> None]
    /\ gone = {}
    /\ upsets = 0

-----------------------------------------------------------------------------
(* The answer to the client.                                               *)

Slot(c) == <<CallerOf[c], aim[c]>>

\* The guard of the slot is dropped with the call.
GiveReply(c, answer) ==
    /\ reply' = [reply EXCEPT ![c] = answer]
    /\ pc' = [pc EXCEPT ![c] = "end"]

Refuse(c, kind) == GiveReply(c, Plain(kind))

-----------------------------------------------------------------------------
(* dispatch_tool_inner on the coordinator, up to the choice of a daemon.   *)

\* parse_args and the checks of the tool's own; place steps are resolved against the
\* palette of this daemon, whichever daemon will run them.  A row outlives its bridge.
Come(c) ==
    /\ pc[c] = "new" /\ CallerOf[c] \notin gone
    /\ \E tool \in MayAsk[c], names \in MayName[c] :
         /\ ask' = [ask EXCEPT ![c] = [tool |-> tool, names |-> names]]
         /\ \/ tool.needs = "fields" /\ Refuse(c, "args") /\ UNCHANGED <<known, aim>>
            \/ tool.needs = "palette" /\ Refuse(c, "palette") /\ UNCHANGED <<known, aim>>
            \/ /\ names = None
               /\ pc' = [pc EXCEPT ![c] = "resolve"]
               /\ \E has \in {TRUE, bridge[Home].up} : known' = [known EXCEPT ![c] = has]
               /\ UNCHANGED <<aim, reply>>
            \/ /\ names # None
               /\ pc' = [pc EXCEPT ![c] = IF names = Home THEN "here" ELSE "entry"]
               /\ aim' = [aim EXCEPT ![c] = names]
               /\ UNCHANGED <<known, reply>>
    /\ UNCHANGED <<work, outcome, slots, queue, sent, ran, receipts, worldVars>>

Reachable(s) == table[s] # None /\ table[s].reach

\* resolve_pid: the slaves that list the pid and may be there.
Hits == {s \in Slaves : Reachable(s) /\ table[s].has}

\* maybe_proxy_bridged without a daemonId: the registry was read before the table,
\* and what it said is not looked at again.
Resolve(c) ==
    /\ pc[c] = "resolve"
    /\ \/ /\ Cardinality(Hits) + (IF known[c] THEN 1 ELSE 0) > 1
          /\ Refuse(c, "ambiguous") /\ UNCHANGED aim
       \/ /\ ~known[c] /\ Cardinality(Hits) = 1
          /\ pc' = [pc EXCEPT ![c] = "entry"]
          /\ aim' = [aim EXCEPT ![c] = CHOOSE s \in Hits : TRUE]
          /\ UNCHANGED reply
       \/ /\ Hits = {}
          /\ pc' = [pc EXCEPT ![c] = "here"]
          /\ aim' = [aim EXCEPT ![c] = Home]
          /\ UNCHANGED reply
    /\ known' = [known EXCEPT ![c] = FALSE]
    /\ UNCHANGED <<ask, work, outcome, slots, queue, sent, ran, receipts, worldVars>>

-----------------------------------------------------------------------------
(* begin_session_slot, and the way to the slave.                           *)

\* Mutant: the guard is not kept, and the slot is free again at once.
DropSlotAtOnce(c) == slots' = slots

TakeSlot(c) == slots' = slots \cup {Slot(c)}

\* try_begin_bridge_call.
BeginSlot(c) == Slot(c) \notin slots /\ TakeSlot(c)

\* The dialog gate asks about the pid here, although the process is elsewhere.
SendToSlave(c) ==
    /\ pc[c] = "entry"
    /\ \/ /\ ~Reachable(aim[c])
          /\ Refuse(c, "unreachable") /\ UNCHANGED <<slots, work>>
       \/ /\ Reachable(aim[c]) /\ modal[Home]
          /\ Refuse(c, "dialog") /\ UNCHANGED <<slots, work>>
       \/ /\ Reachable(aim[c]) /\ ~modal[Home] /\ Slot(c) \in slots
          /\ Refuse(c, "session_busy") /\ UNCHANGED <<slots, work>>
       \/ /\ Reachable(aim[c]) /\ ~modal[Home] /\ BeginSlot(c)
          /\ pc' = [pc EXCEPT ![c] = "flight"]
          /\ work' \in {work, [work EXCEPT ![c] = "begin"]}
          /\ UNCHANGED reply
    /\ UNCHANGED <<ask, known, aim, outcome, queue, sent, ran, receipts, worldVars>>

\* The same call without a slave between.
StartHere(c) ==
    /\ pc[c] = "here" /\ work[c] = "none"
    /\ \/ modal[Home] /\ Refuse(c, "dialog") /\ UNCHANGED <<slots, work>>
       \/ ~modal[Home] /\ Slot(c) \in slots /\ Refuse(c, "session_busy")
          /\ UNCHANGED <<slots, work>>
       \/ /\ ~modal[Home] /\ BeginSlot(c)
          /\ work' = [work EXCEPT ![c] = "enqueue"]
          /\ UNCHANGED <<pc, reply>>
    /\ UNCHANGED <<ask, known, aim, outcome, queue, sent, ran, receipts, worldVars>>

-----------------------------------------------------------------------------
(* The dispatch on the daemon the call is aimed at.                        *)

Comes(c, answer) ==
    /\ outcome' = [outcome EXCEPT ![c] = answer]
    /\ work' = [work EXCEPT ![c] = "answer"]

\* The slave parses and checks again, against its own palette and its own dialogs; it
\* has no slaves, and the JSON route no session.
StartThere(c) ==
    /\ work[c] = "begin"
    /\ \/ ask[c].tool.needs = "palette" /\ Comes(c, Plain("palette"))
       \/ modal[aim[c]] /\ Comes(c, Plain("dialog"))
       \/ ~modal[aim[c]] /\ work' = [work EXCEPT ![c] = "enqueue"] /\ UNCHANGED outcome
    /\ UNCHANGED <<ask, pc, known, aim, slots, queue, sent, ran, receipts, reply, worldVars>>

\* Mutant: the call goes out all the same.
SendUnrecorded(c) ==
    /\ Comes(c, Plain("receipt"))
    /\ sent' = sent \cup {c} /\ UNCHANGED queue

\* begin fails: "refuse the call rather than perform an unrecordable one".
RefuseUnrecorded(c) == Comes(c, Plain("receipt")) /\ UNCHANGED <<queue, sent>>

\* enqueue_and_call: no process, a queue in use, a receipt that cannot be opened, or the
\* request goes out.  A proxied call carries no claim, and has no receipt.
Enqueue(c) ==
    LET d == aim[c]
    IN /\ work[c] = "enqueue"
       /\ \/ ~bridge[d].up /\ Comes(c, Plain("lost")) /\ UNCHANGED <<queue, sent, receipts>>
          \/ /\ bridge[d].up /\ queue[d] # None
             /\ Comes(c, Plain("queue_busy")) /\ UNCHANGED <<queue, sent, receipts>>
          \/ /\ bridge[d].up /\ queue[d] = None /\ d = Home
             /\ RefuseUnrecorded(c) /\ UNCHANGED receipts
          \/ /\ bridge[d].up /\ queue[d] = None
             /\ queue' = [queue EXCEPT ![d] = c]
             /\ sent' = sent \cup {c}
             /\ receipts' = receipts \cup (IF d = Home THEN {c} ELSE {})
             /\ work' = [work EXCEPT ![c] = "call"] /\ UNCHANGED outcome
       /\ UNCHANGED <<ask, pc, known, aim, slots, ran, reply, worldVars>>

\* TouchDesigner runs what it was sent, whoever still waits.
Runs(c) ==
    /\ c \in sent /\ bridge[aim[c]].up
    /\ sent' = sent \ {c}
    /\ ran' = [ran EXCEPT ![c] = @ \cup {<<aim[c], bridge[aim[c]].generation>>}]
    /\ UNCHANGED <<ask, pc, known, aim, work, outcome, slots, queue, receipts, reply, worldVars>>

\* The actor completes the task and the answer is mapped; inspect then reads whose
\* answer it was.
Answered(c) ==
    /\ work[c] = "call" /\ ran[c] # {}
    /\ \E env \in Replies : Comes(c, Mapped(ask[c].tool, env))
    /\ queue' = [queue EXCEPT ![aim[c]] = None]
    /\ UNCHANGED <<ask, pc, known, aim, slots, sent, ran, receipts, reply, worldVars>>

\* The connection is lost or the time is up: the pid queue is cleared.
CallFails(c) ==
    /\ work[c] = "call"
    /\ \E kind \in {"lost", "timeout"} : Comes(c, Plain(kind))
    /\ queue' = [queue EXCEPT ![aim[c]] = None]
    /\ UNCHANGED <<ask, pc, known, aim, slots, sent, ran, receipts, reply, worldVars>>

-----------------------------------------------------------------------------
(* Back to the client.                                                     *)

FreeSlot(c) == slots' = slots \ {Slot(c)}
Done(c) == work' = [work EXCEPT ![c] = "none"] /\ outcome' = [outcome EXCEPT ![c] = None]

\* An inspect reports the connection that is there by now.
ReturnHere(c) ==
    /\ pc[c] = "here" /\ work[c] = "answer"
    /\ GiveReply(c, [outcome[c] EXCEPT !.generation =
                  IF ask[c].tool = Inspect /\ @ = 0 /\ outcome[c].kind = "ok"
                    THEN bridge[Home].generation ELSE 0])
    /\ FreeSlot(c)
    /\ Done(c)
    /\ UNCHANGED <<ask, known, aim, queue, sent, ran, receipts, worldVars>>

\* inject_routed and proxy_slave_tool_failed.
ReturnRouted(c) ==
    /\ pc[c] = "flight" /\ work[c] = "answer"
    /\ GiveReply(c, [outcome[c] EXCEPT !.routed = outcome[c].kind = "ok",
                                  !.data = @ \/ outcome[c].kind # "ok"])
    /\ FreeSlot(c)
    /\ Done(c)
    /\ UNCHANGED <<ask, known, aim, queue, sent, ran, receipts, worldVars>>

\* The POST fails, is answered with an error, or takes too long, wherever the slave is
\* with it; a slave that loses its client drops the dispatch, and not what was sent.
ProxyFails(c) ==
    /\ pc[c] = "flight"
    /\ Refuse(c, "unreachable")
    /\ FreeSlot(c)
    /\ \/ UNCHANGED <<work, queue>>
       \/ /\ work' = [work EXCEPT ![c] = "none"]
          /\ queue' = [d \in Daemons |-> IF queue[d] = c THEN None ELSE queue[d]]
    /\ UNCHANGED <<ask, known, aim, outcome, sent, ran, receipts, worldVars>>

-----------------------------------------------------------------------------
(* Around the calls.                                                       *)

Upset == upsets < MaxUpsets /\ upsets' = upsets + 1

\* The session's lease is released: its slots go, its calls run on.
Release(k) ==
    /\ k \notin gone /\ Upset
    /\ gone' = gone \cup {k}
    /\ slots' = {s \in slots : s[1] # k}
    /\ UNCHANGED <<bridge, table, modal, ask, pc, known, aim, work, outcome, queue, sent, ran,
                   receipts, reply>>

Disconnect(d) ==
    /\ bridge[d].up /\ Upset
    /\ bridge' = [bridge EXCEPT ![d].up = FALSE]
    /\ sent' = {c \in sent : aim[c] # d}
    /\ UNCHANGED <<table, modal, gone, ask, pc, known, aim, work, outcome, slots, queue, ran,
                   receipts, reply>>

Connect(d) ==
    /\ ~bridge[d].up /\ bridge[d].generation <= upsets
    /\ bridge' = [bridge EXCEPT ![d] = [up |-> TRUE, generation |-> @.generation + 1]]
    /\ UNCHANGED <<table, modal, gone, upsets, callVars>>

\* A fleet push, and the silence after which a slave counts as unreachable.
Report(s) ==
    /\ table[s] # [reach |-> TRUE, has |-> bridge[s].up]
    /\ table' = [table EXCEPT ![s] = [reach |-> TRUE, has |-> bridge[s].up]]
    /\ UNCHANGED <<bridge, modal, gone, upsets, callVars>>

Expire(s) ==
    /\ Reachable(s) /\ Upset
    /\ table' = [table EXCEPT ![s].reach = FALSE]
    /\ UNCHANGED <<bridge, modal, gone, callVars>>

\* The watcher's snapshots of a daemon show a dialog.
Opens(d) ==
    /\ ~modal[d] /\ Upset
    /\ modal' = [modal EXCEPT ![d] = TRUE]
    /\ UNCHANGED <<bridge, table, gone, callVars>>

RoutingNext ==
    \/ \E c \in Calls :
         \/ Come(c) \/ Resolve(c) \/ SendToSlave(c) \/ StartHere(c)
         \/ StartThere(c) \/ Enqueue(c) \/ Runs(c) \/ Answered(c) \/ CallFails(c)
         \/ ReturnHere(c) \/ ReturnRouted(c) \/ ProxyFails(c)
    \/ \E k \in Clients : Release(k)
    \/ \E d \in Daemons : Connect(d) \/ Disconnect(d) \/ Opens(d)
    \/ \E s \in Slaves : Report(s) \/ Expire(s)

RoutingSpec == RoutingInit /\ [][RoutingNext]_routeVars

-----------------------------------------------------------------------------
(* Properties.                                                             *)

InFlight(c) == pc[c] = "flight" \/ (pc[c] = "here" /\ work[c] # "none")

\* A session has one call at a time on a process, and a slot is taken exactly as long
\* as its call is under way: neither a refusal nor a lost answer leaves one behind.
OneCallPerSlot ==
    /\ RoutingTypeOK
    /\ \A c, d \in Calls :
         InFlight(c) /\ InFlight(d) /\ Slot(c) = Slot(d) /\ CallerOf[c] \notin gone => c = d
    /\ \A s \in slots : \E c \in Calls : InFlight(c) /\ Slot(c) = s

\* A call runs at most once, and only on the daemon that was named or found; a client
\* who is told that the call was refused may repeat it, because it did not run and will
\* not; one who is told of a result has had it run, there if it says routed and here if
\* it does not.
AnswerIsTrue ==
    \A c \in Calls :
      /\ Cardinality(ran[c]) <= 1
      /\ \A r \in ran[c] : r[1] = aim[c] /\ ask[c].names \in {None, r[1]}
      /\ c \in sent => ran[c] = {}
      /\ reply[c] # None =>
           /\ reply[c].kind \in Refusals => ran[c] = {} /\ c \notin sent
           /\ reply[c].kind \in {"ok", "failed"} => ran[c] # {}
           /\ reply[c].kind = "ok" => (reply[c].routed <=> aim[c] # Home)

\* However a call was routed, it has its slot to itself and its caller is told the truth.
RoutedCallIsTold == OneCallPerSlot /\ AnswerIsTrue

-----------------------------------------------------------------------------
(* What does not hold (README, Findings).                                  *)

\* An inspect names the connection that gave the answer.
ObservationIsItsConnections ==
    \A c \in Calls : reply[c] # None /\ reply[c].generation # 0 =>
        <<Home, reply[c].generation>> \in ran[c]

\* A call that a daemon refuses as unreachable was not run.
UnreachableNeverRan ==
    \A c \in Calls : reply[c] # None /\ reply[c].kind = "unreachable" => ran[c] = {}

\* Whatever was run has a receipt.
EffectsHaveReceipts == \A c \in Calls : ran[c] # {} => c \in receipts
=============================================================================
