---------------------------- MODULE TdLifecycle ----------------------------
(* spawn_td and kill_td: a project made from the template when it is not   *)
(* there, the launch, the registry row, the waiter that tells the caller   *)
(* how it went and owns the child until it exits; and the kill of a        *)
(* process that is named by its number, while numbers are used again.      *)
(*                                                                         *)
(* All calls name one project.  What the bridge session does to a registry *)
(* row (BridgeSession) is Handshake, BridgeLost and Evict here.            *)
EXTENDS Naturals, FiniteSets, Absent

CONSTANTS
    Spawns, Kills,
    CreateIfMissing,    \* the spawns that may make the project
    Numbers,            \* process numbers
    MaxOthers           \* bound: processes of other programs that take a number

VARIABLES
    project,    \* the file at the project's path: who made it, or None
    staged,     \* staged[s]: the temporary file of a spawn: None, "part" or "whole"
    at, told,   \* where a spawn is, and what its caller was told
    child,      \* child[s]: the number of its process, until it is reaped
    proc,       \* proc[n]: the process with that number: of a spawn or "other", alive
                \* or a corpse that keeps the number until it is reaped
    rows,       \* the registry: bridge status and the spawn recorded in the row
    shaken,     \* history: spawns whose process shook hands
    launched,   \* history: spawns whose process was started
    kill,       \* kill[k]: where a kill is, whom it names and what it struck
    others

lifeVars == <<project, staged, at, told, child, proc, rows, shaken, launched, kill, others>>

Running(n) == proc[n] # None /\ proc[n].alive
\* A child that ended is a corpse until it is reaped.
Ended(n) == [proc EXCEPT ![n] = IF @.of = "other" THEN None ELSE [@ EXCEPT !.alive = FALSE]]
Connected(n) == rows[n] # None /\ rows[n].bridge = "connected"
Own(s, n) == rows[n] # None /\ rows[n].spawn = s

LifeInit ==
    /\ project = None
    /\ staged = [s \in Spawns |-> None]
    /\ at = [s \in Spawns |-> "check"] /\ told = [s \in Spawns |-> None]
    /\ child = [s \in Spawns |-> None]
    /\ proc = [n \in Numbers |-> None] /\ rows = [n \in Numbers |-> None]
    /\ shaken = {} /\ launched = {}
    /\ kill = [k \in Kills |-> [pc |-> "idle", num |-> None, struck |-> None]]
    /\ others = 0

SpawnPCs == {"check", "stage", "copy", "publish", "clean", "sync", "launch", "register",
             "wait", "look", "reap", "unlist", "done"}
\* How it ends when no complete installation is found or the system does not start it.
LaunchRefusals == {"exe_incomplete", "spawn_failed"}

Refusals == {"target_not_found", "template_not_found", "template_invalid", "create_failed"}
                \cup LaunchRefusals
Outcomes == Refusals \cup {"conflict", "connected", "exited_early", "timeout_alive", "timeout_dead"}

Process == [of : Spawns \cup {"other"}, alive : BOOLEAN]
Listed == [bridge : {"starting", "connected", "disconnected"}, spawn : Spawns \cup {None}]

ASSUME LifeAssumption ==
    /\ {"user", "other"} \cap Spawns = {}
    /\ None \notin Spawns /\ None \notin Numbers
    /\ None \notin Outcomes \cup {"user", "part", "whole"}
    /\ None \notin Process /\ None \notin Listed

LifeTypeOK ==
    /\ project \in Spawns \cup {"user", None}
    /\ staged \in [Spawns -> {None, "part", "whole"}]
    /\ at \in [Spawns -> SpawnPCs] /\ told \in [Spawns -> Outcomes \cup {None}]
    /\ child \in [Spawns -> Numbers \cup {None}]
    /\ proc \in [Numbers -> {None} \cup Process]
    /\ rows \in [Numbers -> {None} \cup Listed]

Go(s, next) == at' = [at EXCEPT ![s] = next]
Tell(s, what) == told' = [told EXCEPT ![s] = what]
Decline(s, what) == Go(s, "done") /\ Tell(s, what)

files == <<project, staged>>
world == <<child, proc, rows, shaken, launched, kill, others>>

-----------------------------------------------------------------------------
(* ensure_project_from_template.                                           *)

\* The project is there, or it may be made if the template is there.
CheckTarget(s) ==
    /\ at[s] = "check"
    /\ \/ project # None /\ Go(s, "launch") /\ UNCHANGED told
       \/ project = None /\ s \notin CreateIfMissing /\ Decline(s, "target_not_found")
       \/ /\ project = None /\ s \in CreateIfMissing
          /\ \/ \E what \in {"template_not_found", "template_invalid"} : Decline(s, what)
             \/ Go(s, "stage") /\ UNCHANGED told
    /\ UNCHANGED <<files, world>>

\* A temporary file of its own, under a name nobody else has.
StageProject(s) ==
    /\ at[s] = "stage"
    /\ \/ /\ staged' = [staged EXCEPT ![s] = "part"]
          /\ Go(s, "copy") /\ UNCHANGED told
       \/ Decline(s, "create_failed") /\ UNCHANGED staged
    /\ UNCHANGED <<project, world>>

CopyTemplate(s) ==
    /\ at[s] = "copy"
    /\ \/ staged' = [staged EXCEPT ![s] = "whole"] /\ Go(s, "publish")
       \/ Go(s, "clean") /\ UNCHANGED staged
    /\ UNCHANGED <<project, told, world>>

\* With a rename that replaces.
PublishReplacing(s) ==
    /\ at[s] = "publish"
    /\ project' = s /\ staged' = [staged EXCEPT ![s] = None] /\ Go(s, "sync")
    /\ UNCHANGED <<told, world>>

\* rename_noreplace: whoever put a project there in the meantime keeps it.
PublishProject(s) ==
    /\ at[s] = "publish"
    /\ \/ /\ project = None
          /\ project' = s /\ staged' = [staged EXCEPT ![s] = None]
          /\ Go(s, "sync")
       \/ Go(s, "clean") /\ UNCHANGED files
    /\ UNCHANGED <<told, world>>

\* The staged file is removed, or the message says where it stays.
CleanStage(s) ==
    /\ at[s] = "clean"
    /\ \/ staged' = [staged EXCEPT ![s] = None]
       \/ UNCHANGED staged
    /\ Decline(s, "create_failed")
    /\ UNCHANGED <<project, world>>

\* A directory that cannot be synced ends the call although the project is there.
SyncDirectory(s) ==
    /\ at[s] = "sync"
    /\ \/ Go(s, "launch") /\ UNCHANGED told
       \/ Decline(s, "create_failed")
    /\ UNCHANGED <<files, world>>

(* The launch.                                                             *)

\* The installation is found and complete, and the operating system starts it.
Launch(s) ==
    /\ at[s] = "launch"
    /\ \/ \E what \in LaunchRefusals :
            Decline(s, what) /\ UNCHANGED <<child, proc, launched>>
       \/ \E n \in Numbers :
            /\ proc[n] = None
            /\ proc' = [proc EXCEPT ![n] = [of |-> s, alive |-> TRUE]]
            /\ child' = [child EXCEPT ![s] = n]
            /\ launched' = launched \cup {s}
            /\ Go(s, "register") /\ UNCHANGED told
    /\ UNCHANGED <<files, rows, shaken, kill, others>>

\* register_starting refuses a number whose row is connected: the caller is told so, and
\* the child is owned all the same.
RegisterSpawn(s) ==
    /\ at[s] = "register"
    /\ LET n == child[s]
       IN  IF Connected(n)
             THEN Tell(s, "conflict") /\ Go(s, "reap") /\ UNCHANGED rows
             ELSE /\ rows' = [rows EXCEPT ![n] = [bridge |-> "starting", spawn |-> s]]
                  /\ Go(s, "wait") /\ UNCHANGED told
    /\ UNCHANGED <<files, child, proc, shaken, launched, kill, others>>

(* The waiter.                                                             *)

\* try_wait takes the corpse away and frees its number.
Reaped(s) ==
    /\ ~Running(child[s])
    /\ proc' = [proc EXCEPT ![child[s]] = None]

WaitTick(s) ==
    /\ at[s] = "wait"
    /\ \/ Reaped(s) /\ Go(s, "unlist")
       \/ Running(child[s]) /\ Go(s, "look") /\ UNCHANGED proc
    /\ UNCHANGED <<files, told, child, rows, shaken, launched, kill, others>>

StillAlive(s) == IF Running(child[s]) THEN "timeout_alive" ELSE "timeout_dead"

\* Its own row is connected; or there is no row any more or the wait is over; or not yet.
LookAtRow(s) ==
    /\ at[s] = "look"
    /\ LET mine == Connected(child[s]) /\ Own(s, child[s])
       IN  \/ mine /\ Tell(s, "connected") /\ Go(s, "reap")
           \/ ~mine /\ Tell(s, StillAlive(s)) /\ Go(s, "reap")
           \/ rows[child[s]] # None /\ ~mine /\ Go(s, "wait") /\ UNCHANGED told
    /\ UNCHANGED <<files, child, proc, rows, shaken, launched, kill, others>>

\* reap_owned_child goes on until the process has exited, ...
ReapTick(s) ==
    /\ at[s] = "reap"
    /\ Reaped(s) /\ Go(s, "unlist")
    /\ UNCHANGED <<files, told, child, rows, shaken, launched, kill, others>>

\* ... and then removes the row if it is still its own and starting.  A caller who still
\* waits hears that it exited early.
Unlist(s) ==
    /\ at[s] = "unlist"
    /\ LET n == child[s]
       IN  rows' = IF Own(s, n) /\ rows[n].bridge = "starting"
                     THEN [rows EXCEPT ![n] = None] ELSE rows
    /\ told' = IF told[s] = None THEN [told EXCEPT ![s] = "exited_early"] ELSE told
    /\ child' = [child EXCEPT ![s] = None]
    /\ Go(s, "done")
    /\ UNCHANGED <<files, proc, shaken, launched, kill, others>>

(* kill_td.                                                                *)

\* A number is known if the registry lists it or TouchDesigner runs under it.
KillCheck(k) ==
    /\ kill[k].pc = "idle"
    /\ \E n \in Numbers :
         kill' = [kill EXCEPT ![k].num = n,
                              ![k].pc = IF rows[n] # None \/ (Running(n) /\ proc[n].of # "other")
                                          THEN "known" ELSE "done"]
    /\ UNCHANGED <<files, at, told, child, proc, rows, shaken, launched, others>>

\* Whoever has the number now is terminated, or asked to close and may stay.
KillStrike(k) ==
    /\ kill[k].pc = "known"
    /\ LET n == kill[k].num
       IN  /\ kill' = [kill EXCEPT ![k] = [pc |-> "done", num |-> None,
                                          struck |-> IF Running(n) THEN proc[n].of ELSE None]]
           /\ proc' \in {proc, IF Running(n) THEN Ended(n) ELSE proc}
    /\ UNCHANGED <<files, at, told, child, rows, shaken, launched, others>>

(* The rest of the machine.                                                *)

UserMakesProject ==
    /\ project = None
    /\ project' = "user"
    /\ UNCHANGED <<staged, at, told, world>>

Exit(n) ==
    /\ Running(n)
    /\ proc' = Ended(n)
    /\ UNCHANGED <<files, at, told, child, rows, shaken, launched, kill, others>>

OtherStarts(n) ==
    /\ proc[n] = None /\ others < MaxOthers
    /\ proc' = [proc EXCEPT ![n] = [of |-> "other", alive |-> TRUE]]
    /\ others' = others + 1
    /\ UNCHANGED <<files, at, told, child, rows, shaken, launched, kill>>

Handshake(n) ==
    /\ Running(n) /\ proc[n].of # "other"
    /\ ~Connected(n)
    /\ rows' = [rows EXCEPT ![n] = [bridge |-> "connected",
                                    spawn |-> IF @ = None THEN None ELSE @.spawn]]
    /\ shaken' = shaken \cup {proc[n].of}
    /\ UNCHANGED <<files, at, told, child, proc, launched, kill, others>>

BridgeLost(n) ==
    /\ Connected(n)
    /\ rows' = [rows EXCEPT ![n].bridge = "disconnected"]
    /\ UNCHANGED <<files, at, told, child, proc, shaken, launched, kill, others>>

Evict(n) ==
    /\ rows[n] # None /\ rows[n].bridge = "disconnected"
    /\ rows' = [rows EXCEPT ![n] = None]
    /\ UNCHANGED <<files, at, told, child, proc, shaken, launched, kill, others>>

LifeNext ==
    \/ \E s \in Spawns :
         \/ CheckTarget(s) \/ StageProject(s) \/ CopyTemplate(s) \/ PublishProject(s)
         \/ CleanStage(s) \/ SyncDirectory(s) \/ Launch(s) \/ RegisterSpawn(s)
         \/ WaitTick(s) \/ LookAtRow(s) \/ ReapTick(s) \/ Unlist(s)
    \/ \E k \in Kills : KillCheck(k) \/ KillStrike(k)
    \/ \E n \in Numbers : Exit(n) \/ OtherStarts(n) \/ Handshake(n) \/ BridgeLost(n) \/ Evict(n)
    \/ UserMakesProject

LifeSpec == LifeInit /\ [][LifeNext]_lifeVars

-----------------------------------------------------------------------------
(* Properties.                                                             *)

\* What the caller of spawn_td hears is so: a refusal means that nothing was started,
\* "connected" that this very process shook hands, "exited_early" and a timeout without
\* stillAlive that it is gone; TouchDesigner is only started on a project that is there;
\* a project that is there, from whomever, is never replaced, nor is half of one ever
\* seen; and a row of a process that was reaped does not stay starting.
LaunchIsTold ==
    /\ []LifeTypeOK
    /\ [](\A s \in Spawns :
            /\ told[s] \in Refusals <=> told[s] # None /\ s \notin launched
            /\ told[s] = "connected" => s \in shaken
            /\ told[s] \in {"exited_early", "timeout_dead"} => ~\E n \in Numbers : Running(n) /\ proc[n].of = s
            /\ s \in launched => project # None
            /\ at[s] = "done" /\ s \in launched =>
                 ~\E n \in Numbers : Own(s, n) /\ rows[n].bridge = "starting")
    /\ [][project # None => project' = project]_project
    /\ [][\A s \in Spawns : project # s /\ project' = s => staged[s] = "whole"]_project

-----------------------------------------------------------------------------
(* What the docs promise and the code does not keep (README, Findings).    *)

\* "kill for a known TouchDesigner pid": no other program is struck.
OnlyTouchDesignerIsKilled == \A k \in Kills : kill[k].struck # "other"

\* "exited_early": the process ended without ever having been connected.
EarlyMeansNeverConnected == \A s \in Spawns : told[s] = "exited_early" => s \notin shaken
=============================================================================
