---------------------------- MODULE BridgeInstall --------------------------
(***************************************************************************)
(* project_install_bridge (project_install.rs): the bridge inside a packed *)
(* project is installed or brought up to date.  The file is copied to a    *)
(* private stage, expanded, changed, collapsed, expanded again and         *)
(* compared; only then is the original backed up and overwritten.          *)
(*                                                                         *)
(* What happens in the stage touches nobody else and is one step; what is  *)
(* read from and written to the target are steps of their own, because     *)
(* TouchDesigner or another install may write it meanwhile.  A project is  *)
(* the user's work and the COMPs that look like a bridge.  The tools that  *)
(* expand and collapse are external, and may fail or return a file that is *)
(* not what went in.                                                       *)
(***************************************************************************)
EXTENDS Absent, Naturals, FiniteSets, Sequences

CONSTANTS
    Broken,        \* a file whose writer did not finish
    BridgeDats,    \* BRIDGE_DATS
    Installs,      \* calls on one target
    Wanted,        \* what the calls may ask for: functions to [force, backup]
    FirstProject,  \* the projects the target may hold at the start
    MaxWork,       \* bound on saves by the user
    MaxSecond,     \* bound on the clock the backups are named after
    MaxBroken      \* bound on deaths of the daemon while it publishes

\* A COMP that could be a bridge: canonical when it is called tdmcp_rs.
DatStates == {"missing", "foreign", "marked", "current"}
Comps == [canonical : BOOLEAN, node : BOOLEAN, dats : [BridgeDats -> DatStates]]

\* host: there is one unambiguous COMP to install into, and nothing in the way there.
ProjectsOf(trees) == [work : 0 .. MaxWork, host : BOOLEAN, comps : trees]

ASSUME BridgeInstallAssumption ==
    /\ Wanted \subseteq [Installs -> [force : BOOLEAN, backup : BOOLEAN]]
    /\ FirstProject \subseteq ProjectsOf(SUBSET Comps)
    /\ {None, Broken} \cap ProjectsOf(SUBSET Comps) = {}
    /\ MaxWork \in Nat /\ MaxSecond \in Nat /\ MaxBroken \in Nat

VARIABLES
    wanted,     \* the arguments of the calls
    target,     \* what is at target_path
    copied,     \* copied[i]: the working copy of i
    packed,     \* packed[i]: what i will publish
    told,       \* told[i]: where the call stands and, at the end, its answer
    backups,    \* backups[s]: the .bak file named after second s
    second,
    undisturbed, \* undisturbed[i]: nobody else wrote target or backup since i copied it
    brokenEnds

bridgeVars ==
    <<wanted, target, copied, packed, told, backups, second, undisturbed, brokenEnds>>

Running == {"start", "staged", "verified", "backedUp"}
Answers == {"refused", "current", "updated", "failed", "died"}

\* A project is recognised by having work; model values for a broken and a missing file.
IsProject(p) == p \notin {None, Broken}

BridgeTypeOK ==
    /\ wanted \in Wanted
    /\ told \in [Installs -> Running \cup Answers]
    /\ second \in 0 .. MaxSecond /\ brokenEnds \in 0 .. MaxBroken
    /\ undisturbed \in [Installs -> BOOLEAN]
    /\ \A p \in {target} \cup {copied[i] : i \in Installs} \cup {packed[i] : i \in Installs}
                   \cup {backups[s] : s \in 0 .. MaxSecond} :
         IsProject(p) => p.work \in 0 .. MaxWork /\ p.host \in BOOLEAN
                         /\ \A c \in p.comps : c.dats \in [BridgeDats -> DatStates]

BridgeInit ==
    /\ wanted \in Wanted
    /\ target \in FirstProject
    /\ copied = [i \in Installs |-> None]
    /\ packed = [i \in Installs |-> None]
    /\ told = [i \in Installs |-> "start"]
    /\ backups = [s \in 0 .. MaxSecond |-> None]
    /\ second = 0
    /\ undisturbed = [i \in Installs |-> TRUE]
    /\ brokenEnds = 0

-----------------------------------------------------------------------------
(* Which COMP is the bridge.                                               *)

Marked(c) == {d \in BridgeDats : c.dats[d] \in {"marked", "current"}}

\* A renamed bridge has to prove itself in every DAT, the canonical name is enough.
Complete(c) ==
    /\ c.node
    /\ \A d \in BridgeDats : c.dats[d] # "missing"
    /\ c.canonical \/ Marked(c) = BridgeDats

\* Something of a bridge: the name is reserved, and a marker is no accident.
Partial(c) == ~Complete(c) /\ (c.canonical \/ Marked(c) # {})

\* find_subtree: the only bridge, if there is exactly one and nothing that is half of one.
Bridges(p) == {c \in p.comps : Complete(c)}
Unsafe(p) == (\E c, d \in Bridges(p) : c # d) \/ \E c \in p.comps : Partial(c)
TheBridge(p) == CHOOSE c \in p.comps : Complete(c)

-----------------------------------------------------------------------------
(* What the project should look like.                                      *)

\* create_subtree and materialize_donor: the bridge of the shipped tox, in the host.
Donor == [canonical |-> TRUE, node |-> TRUE, dats |-> [d \in BridgeDats |-> "marked"]]

AllCurrent == [d \in BridgeDats |-> "current"]

\* The bodies that are rewritten: all of them, unless ensure finds one up to date.
Changed(i, c, created) ==
    {d \in BridgeDats : created \/ wanted[i].force \/ c.dats[d] # "current"}

Rewritten(p, c) ==
    [p EXCEPT !.comps = (@ \ {c}) \cup {[c EXCEPT !.dats = AllCurrent]}]

\* What collapse may make of it: the project, a file that lost the last save, one whose
\* bridge has an old body, moved, or is gone, and one where another COMP changed.
Collapsed(p, c) ==
    LET without == p.comps \ {c}
    IN {p}
       \cup {[p EXCEPT !.work = w] : w \in 0 .. p.work}
       \cup {[p EXCEPT !.comps = without \cup {[c EXCEPT !.dats[d] = "marked"]}] :
               d \in BridgeDats}
       \cup {[p EXCEPT !.comps = without \cup {[c EXCEPT !.canonical = ~@]}],
             [p EXCEPT !.comps = without],
             [p EXCEPT !.comps = {c}]}

\* Mutant: the bridge is verified and the rest taken on trust.
BridgeVerified(p, c, after) ==
    ~Unsafe(after) /\ Bridges(after) # {} /\ TheBridge(after) = c

\* verify: the same bridge at the same place, the same manifest, every other entry
\* unchanged, and all bodies as embedded.
Verified(p, c, after) ==
    /\ ~Unsafe(after) /\ Bridges(after) # {}
    /\ TheBridge(after).canonical = c.canonical
    /\ after.work = p.work /\ after.comps \ {TheBridge(after)} = p.comps \ {c}
    /\ TheBridge(after).dats = AllCurrent

-----------------------------------------------------------------------------
(* run_with_runner.                                                        *)

Answer(i, a) == told' = [told EXCEPT ![i] = a]

\* The target is copied to the stage; a broken one cannot be expanded.
StageTarget(i) ==
    /\ told[i] = "start"
    /\ \/ /\ IsProject(target)
          /\ copied' = [copied EXCEPT ![i] = target]
          /\ Answer(i, "staged")
       \/ Answer(i, "refused") /\ UNCHANGED copied
    /\ undisturbed' = [undisturbed EXCEPT ![i] = TRUE]
    /\ UNCHANGED <<wanted, target, packed, backups, second, brokenEnds>>

\* A tool fails, a layout is unsafe, there is no host, or the result is not what it
\* should be: the stage is removed and the target was never touched.
PrepareFails(i) ==
    /\ told[i] = "staged"
    /\ Answer(i, "refused")
    /\ UNCHANGED <<wanted, target, copied, packed, backups, second, undisturbed, brokenEnds>>

Prepare(i) ==
    LET p == copied[i]
        created == Bridges(p) = {}
        bridge == IF created THEN Donor ELSE TheBridge(p)
        grown == IF created THEN [p EXCEPT !.comps = @ \cup {Donor}] ELSE p
        expected == Rewritten(grown, bridge)
        kept == [bridge EXCEPT !.dats = AllCurrent]
    IN /\ told[i] = "staged" /\ ~Unsafe(p)
       /\ created => p.host
       /\ \/ /\ Changed(i, bridge, created) = {}
             /\ Answer(i, "current") /\ UNCHANGED packed
          \/ /\ Changed(i, bridge, created) # {}
             /\ \E after \in Collapsed(expected, kept) :
                  /\ Verified(expected, kept, after)
                  /\ packed' = [packed EXCEPT ![i] = after]
             /\ Answer(i, "verified")
       /\ UNCHANGED <<wanted, target, copied, backups, second, undisturbed, brokenEnds>>

\* Whoever else works from the target has been overtaken.
Disturbs(who) == undisturbed' = [i \in Installs |-> undisturbed[i] /\ i \in who]

\* The backup is named after the second; one of the same second is written over.
Backup(i) ==
    /\ told[i] = "verified"
    /\ \/ /\ wanted[i].backup
          /\ backups' = [backups EXCEPT ![second] = target]
          /\ Answer(i, "backedUp")
       \/ ~wanted[i].backup /\ Answer(i, "backedUp") /\ UNCHANGED backups
       \/ /\ wanted[i].backup
          /\ backups' \in {backups, [backups EXCEPT ![second] = Broken]}
          /\ Answer(i, "failed")
    /\ Disturbs({i})
    /\ UNCHANGED <<wanted, target, copied, packed, second, brokenEnds>>

\* A plain copy over the target: it may end early, with an error or with the process.
PublishProject(i) ==
    /\ told[i] = "backedUp"
    /\ \/ target' = packed[i] /\ Answer(i, "updated") /\ UNCHANGED brokenEnds
       \/ target' \in {target, Broken} /\ Answer(i, "failed") /\ UNCHANGED brokenEnds
       \/ /\ brokenEnds < MaxBroken /\ brokenEnds' = brokenEnds + 1
          /\ target' = Broken /\ Answer(i, "died")
    /\ Disturbs({i})
    /\ UNCHANGED <<wanted, copied, packed, backups, second>>

\* TouchDesigner saves the project the user works on.
UserSaves ==
    /\ IsProject(target) /\ target.work < MaxWork
    /\ target' = [target EXCEPT !.work = @ + 1]
    /\ Disturbs({})
    /\ UNCHANGED <<wanted, copied, packed, told, backups, second, brokenEnds>>

NextSecond ==
    /\ second < MaxSecond /\ second' = second + 1
    /\ UNCHANGED <<wanted, target, copied, packed, told, backups, undisturbed, brokenEnds>>

BridgeInstallNext ==
    \/ \E i \in Installs : StageTarget(i) \/ PrepareFails(i) \/ Prepare(i) \/ Backup(i)
                           \/ PublishProject(i)
    \/ UserSaves \/ NextSecond

BridgeInstallSpec == BridgeInit /\ [][BridgeInstallNext]_bridgeVars

-----------------------------------------------------------------------------
(* Properties.                                                             *)

\* What is published is the project that was copied, with a bridge that is up to date
\* and nothing else changed.
OnlyTheBridgeChanges ==
    \A i \in Installs : told[i] = "updated" =>
      /\ packed[i].work = copied[i].work
      /\ TheBridge(packed[i]).dats = AllCurrent
      /\ packed[i].comps \ {TheBridge(packed[i])} = copied[i].comps \ Bridges(copied[i])

\* The work of the user is at the target or in a backup, if the caller wanted one and
\* nobody else wrote the target or a backup in between.
WorkIsKept ==
    \A i \in Installs :
      /\ told[i] \notin {"start", "refused"}
      /\ wanted[i].backup /\ undisturbed[i]
      => \E p \in {target} \cup {backups[s] : s \in 0 .. MaxSecond} :
           IsProject(p) /\ p.work = copied[i].work

\* project_install_bridge changes the bridge and never costs the user the project
\* (project_install.rs:4-11, the whole of run_with_runner).
BridgeInstallIsSafe == BridgeTypeOK /\ OnlyTheBridgeChanges /\ WorkIsKept

\* Not so with a user who saves meanwhile: the save is overwritten by the older project.
SavesSurvive ==
    [][\A i \in Installs : PublishProject(i) /\ IsProject(target) /\ told'[i] = "updated" =>
         \E p \in {target'} \cup {backups'[s] : s \in 0 .. MaxSecond} :
           IsProject(p) /\ p.work = target.work]_bridgeVars
=============================================================================
