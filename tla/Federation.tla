----------------------------- MODULE Federation ----------------------------
(***************************************************************************)
(* The coordinator's registry of the daemons that report to it             *)
(* (tdmcp-core federation.rs), its HTTP handlers and the task that follows *)
(* its role (tdmcp-daemon federation.rs), and the loop in every reporting  *)
(* daemon that registers and then pushes its processes.  The handlers read *)
(* the role before they take the registry's lock.  An entry's age is what  *)
(* the code tells apart: fresh, 6 s or 10 s since the last push.           *)
(***************************************************************************)
EXTENDS Absent, Naturals, FiniteSets

CONSTANTS
    Slaves,      \* daemons that report
    RemotePids,  \* processes they may have
    MaxRoles,    \* bound on changes of the coordinator's role
    MaxFaults,   \* bound on lost requests and answers, and on coordinator restarts
    MaxMoves     \* bound on changes of a slave: its processes, its address

ASSUME FederationAssumption ==
    /\ MaxRoles \in Nat /\ MaxFaults \in Nat /\ MaxMoves \in Nat
    /\ None \notin Slaves

VARIABLES
    role,     \* settings.current().federation.role, "master" or "local"
    seen,     \* the role the loop of spawn_slave_loop runs with
    lpc,      \* where that loop stands
    reg,      \* reg[s]: the entry of s, or None
    spc,      \* spc[s]: where the connection loop of s stands
    body,     \* body[s]: the processes in the push under way
    fleet,    \* fleet[s]: the processes s has
    url,      \* url[s]: the address s reports from
    roles, faults, moves

coordinator == <<role, seen, lpc, roles>>
reporters == <<spc, body, fleet, url, moves>>
fedVars == <<coordinator, reg, reporters, faults>>

Entry == [url : {0, 1}, age : {"fresh", "old", "expired"},
          reach : {"reachable", "disconnected", "unreachable"}, procs : SUBSET RemotePids]

FederationTypeOK ==
    /\ role \in {"master", "local"} /\ seen \in {"master", "local"}
    /\ lpc \in {"watch", "stop", "clear"}
    /\ reg \in [Slaves -> Entry \cup {None}]
    /\ spc \in [Slaves -> {"start", "registering", "registerChecked", "push", "pushing",
                           "pushChecked"}]
    /\ body \in [Slaves -> SUBSET RemotePids] /\ fleet \in [Slaves -> SUBSET RemotePids]
    /\ url \in [Slaves -> {0, 1}]
    /\ roles \in 0 .. MaxRoles /\ faults \in 0 .. MaxFaults /\ moves \in 0 .. MaxMoves

FederationInit ==
    /\ role \in {"master", "local"} /\ seen = role /\ lpc = "watch"
    /\ reg = [s \in Slaves |-> None]
    /\ spc = [s \in Slaves |-> "start"]
    /\ body = [s \in Slaves |-> {}] /\ fleet = [s \in Slaves |-> {}]
    /\ url = [s \in Slaves |-> 0]
    /\ roles = 0 /\ faults = 0 /\ moves = 0

-----------------------------------------------------------------------------
(* The coordinator follows its settings.                                   *)

SetRole ==
    /\ roles < MaxRoles
    /\ role' = IF role = "master" THEN "local" ELSE "master"
    /\ roles' = roles + 1
    /\ UNCHANGED <<seen, lpc, reg, reporters, faults>>

\* A change that is undone before the loop looks is no change.
LoopNotices ==
    /\ lpc = "watch" /\ role # seen
    /\ lpc' = "stop"
    /\ UNCHANGED <<role, seen, roles, reg, reporters, faults>>

LoopStops ==
    /\ lpc = "stop"
    /\ \/ role = "master" /\ lpc' = "watch" /\ seen' = role
       \/ role # "master" /\ lpc' = "clear" /\ seen' = seen
    /\ UNCHANGED <<role, roles, reg, reporters, faults>>

LoopClears ==
    /\ lpc = "clear"
    /\ reg' = [s \in Slaves |-> None]
    /\ lpc' = "watch" /\ seen' = role
    /\ UNCHANGED <<role, roles, reporters, faults>>

Follow == LoopNotices \/ LoopStops \/ LoopClears

Aging(e) ==
    [e EXCEPT !.age = CASE @ = "fresh" -> "old" [] OTHER -> "expired"]

Passes(s) ==
    /\ reg[s] # None /\ reg[s].age # "expired"
    /\ reg' = [reg EXCEPT ![s] = Aging(@)]
    /\ UNCHANGED <<coordinator, reporters, faults>>

Reachability(e) ==
    CASE e.age = "fresh" -> e.reach
      [] e.age = "old" -> "disconnected"
      [] e.age = "expired" -> "unreachable"

\* tick_stale, whenever slaves or the fleet are listed.
TickStale ==
    /\ reg' = [s \in Slaves |->
                 IF reg[s] = None THEN None ELSE [reg[s] EXCEPT !.reach = Reachability(reg[s])]]
    /\ UNCHANGED <<coordinator, reporters, faults>>

-----------------------------------------------------------------------------
(* The connection loop of s, and the two handlers it talks to.             *)

At(s, l) == spc[s] = l
To(s, l) == spc' = [spc EXCEPT ![s] = l]

SendRegister(s) ==
    /\ At(s, "start") /\ To(s, "registering")
    /\ UNCHANGED <<coordinator, reg, body, fleet, url, moves, faults>>

\* federation_register: the role first ...
CheckRegister(s) ==
    /\ At(s, "registering")
    /\ To(s, IF role = "master" THEN "registerChecked" ELSE "start")
    /\ UNCHANGED <<coordinator, reg, body, fleet, url, moves, faults>>

Conflict(s) == reg[s] # None /\ reg[s].url # url[s]

\* ... then the entry, which starts without processes.  Another address under the same
\* id is refused.
ApplyRegister(s) ==
    /\ At(s, "registerChecked")
    /\ \/ Conflict(s) /\ reg' = reg /\ To(s, "start")
       \/ /\ ~Conflict(s)
          /\ reg' = [reg EXCEPT ![s] =
                       [url |-> url[s], age |-> "fresh", reach |-> "reachable", procs |-> {}]]
          /\ To(s, "push")
    /\ UNCHANGED <<coordinator, body, fleet, url, moves, faults>>

SendPush(s) ==
    /\ At(s, "push") /\ To(s, "pushing")
    /\ body' = [body EXCEPT ![s] = fleet[s]]
    /\ UNCHANGED <<coordinator, reg, fleet, url, moves, faults>>

\* federation_fleet_push; a slave that is turned away for the role stays registered.
CheckPush(s) ==
    /\ At(s, "pushing")
    /\ To(s, IF role = "master" THEN "pushChecked" ELSE "push")
    /\ UNCHANGED <<coordinator, reg, body, fleet, url, moves, faults>>

Updated(s) == [reg[s] EXCEPT !.procs = body[s], !.age = "fresh", !.reach = "reachable"]

ApplyPushOnly(s) ==
    /\ At(s, "pushChecked")
    /\ \/ reg[s] = None /\ reg' = reg
       \/ reg[s] # None /\ reg' = [reg EXCEPT ![s] = Updated(s)]
    /\ To(s, "push")
    /\ UNCHANGED <<coordinator, body, fleet, url, moves, faults>>

\* update_fleet; 404 makes the slave register again.
ApplyPush(s) ==
    /\ At(s, "pushChecked")
    /\ \/ reg[s] = None /\ reg' = reg /\ To(s, "start")
       \/ reg[s] # None /\ reg' = [reg EXCEPT ![s] = Updated(s)] /\ To(s, "push")
    /\ UNCHANGED <<coordinator, body, fleet, url, moves, faults>>

Report(s) ==
    \/ SendRegister(s) \/ CheckRegister(s) \/ ApplyRegister(s)
    \/ SendPush(s) \/ CheckPush(s) \/ ApplyPush(s)

\* A transport error, before the handler or after it: the slave registers again.
Fault(s) ==
    /\ faults < MaxFaults /\ faults' = faults + 1
    /\ spc[s] \notin {"start", "push"}
    /\ \/ To(s, "start") /\ UNCHANGED reg
       \/ /\ At(s, "registerChecked") /\ ~Conflict(s) /\ To(s, "start")
          /\ reg' = [reg EXCEPT ![s] =
                       [url |-> url[s], age |-> "fresh", reach |-> "reachable", procs |-> {}]]
       \/ /\ At(s, "pushChecked") /\ reg[s] # None /\ To(s, "start")
          /\ reg' = [reg EXCEPT ![s] = Updated(s)]
    /\ UNCHANGED <<coordinator, body, fleet, url, moves>>

CoordinatorRestarts ==
    /\ faults < MaxFaults /\ faults' = faults + 1
    /\ reg' = [s \in Slaves |-> None]
    /\ lpc' = "watch" /\ seen' = role
    /\ spc' = [s \in Slaves |-> IF spc[s] = "push" THEN "push" ELSE "start"]
    /\ UNCHANGED <<role, roles, body, fleet, url, moves>>

\* Processes of s start and end; s itself restarts, at the same or another address.
FleetChanges(s) ==
    /\ moves < MaxMoves /\ moves' = moves + 1
    /\ \E ps \in SUBSET RemotePids : ps # fleet[s] /\ fleet' = [fleet EXCEPT ![s] = ps]
    /\ UNCHANGED <<coordinator, reg, spc, body, url, faults>>

SlaveRestarts(s) ==
    /\ moves < MaxMoves /\ moves' = moves + 1
    /\ To(s, "start")
    /\ \E u \in {0, 1} : url' = [url EXCEPT ![s] = u]
    /\ fleet' = [fleet EXCEPT ![s] = {}]
    /\ UNCHANGED <<coordinator, reg, body, faults>>

-----------------------------------------------------------------------------
FederationNext ==
    \/ SetRole \/ Follow \/ TickStale \/ CoordinatorRestarts
    \/ \E s \in Slaves : Passes(s) \/ Report(s) \/ Fault(s) \/ FleetChanges(s) \/ SlaveRestarts(s)

FederationSpec == FederationInit /\ [][FederationNext]_fedVars

-----------------------------------------------------------------------------
(* Properties.                                                             *)

\* Whatever was lost, restarted or switched, a daemon that reports from the address it
\* is known by is again and again listed as reachable, with the processes it has: 404,
\* and any transport error, send it back to registration.
ReporterIsListed ==
    /\ []FederationTypeOK
    /\ \A s \in Slaves :
        []<>(role = "local" \/ Conflict(s)
             \/ (reg[s] # None /\ reg[s].reach = "reachable" /\ reg[s].procs = fleet[s]))

-----------------------------------------------------------------------------
(* What a comment promises and the code does not keep (README, Findings).  *)

\* "A former coordinator must not continue forwarding stale routes": once its loop has
\* taken in the role, a daemon that is no coordinator has no entry left.
RoutesGoWithTheRole ==
    lpc = "watch" /\ role = "local" /\ seen = role => \A s \in Slaves : reg[s] = None
=============================================================================
