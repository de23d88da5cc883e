---------------------------- MODULE Installation ---------------------------
(***************************************************************************)
(* Installing the assets a build carries and its own binary (install.rs):  *)
(* ensure_installed, which every daemon runs when it starts, and the       *)
(* install command, which goes on to replace the binary in bin/.           *)
(*                                                                         *)
(* The assets are published one after the other under an operating system  *)
(* lock, which a dead process does not hold; the binary is replaced        *)
(* without it.  An asset is the build it comes from.  The assets fall into *)
(* those whose bytes assets_current compares ("bridge"), those it looks    *)
(* for ("skills"), those it does not ("starter": bootstrap.py), the        *)
(* template, which the user may replace, and the stamp.  The compared ones *)
(* that follow the skills are the same in all builds.                      *)
(***************************************************************************)
EXTENDS Absent, Naturals, Sequences, FiniteSets

CONSTANTS
    Custom,        \* a template the user made
    Builds,
    VersionOf,     \* VersionOf[b]: the version of build b
    Installers,    \* processes
    TemplateOf,    \* TemplateOf[b]: the first build with the same template as b
    Commands,      \* what they may be run as: functions to [build, force, binary, inPlace]
    Shipments,     \* the builds that may be installed at the start, or None
    MaxMishaps,    \* bound on file operations that fail
    MaxHalts       \* bound on processes that die

ASSUME InstallationAssumption ==
    /\ Commands \subseteq [Installers -> [build : Builds, force : BOOLEAN,
                                          binary : BOOLEAN, inPlace : BOOLEAN]]
    /\ Shipments \subseteq Builds \cup {None}
    /\ TemplateOf \in [Builds -> Builds]
    /\ None \notin Builds \cup Installers \cup {Custom} /\ Custom \notin Builds
    /\ MaxMishaps \in Nat /\ MaxHalts \in Nat

\* names, in the order in which they are published.
Always == <<"bridge", "skills", "starter", "stamp">>
WithTemplate == <<"bridge", "skills", "starter", "template", "stamp">>
Assets == {"bridge", "skills", "starter", "template", "stamp"}

VARIABLES
    command,   \* command[i]: what process i is run as
    shipped,   \* the build that was installed at the start, or None
    data,      \* data[n]: the asset at its place in the data directory
    holder,    \* the process that holds install.lock
    standing,  \* standing[i]: where the process stands
    names,     \* names[i]: what it publishes
    next,      \* next[i]: the name it is at
    stock,     \* stock[i]: the assets in its stage
    kept,      \* kept[i]: the assets in its backup directory
    found,     \* found[i]: what the data directory held when it took the lock
    ending,    \* ending[i]: how its ensure_installed ended
    bin,       \* the daemon binary at its place
    olds,      \* the binaries that were renamed aside, by who did it
    crowded,   \* two processes have replaced the binary at the same time
    mishaps, halts

installVars == <<command, shipped, data, holder, standing, names, next, stock, kept, found,
                 ending, bin, olds, crowded, mishaps, halts>>

Ensuring == {"lock", "look", "backup", "publish", "undo", "release"}
Replacing == {"sweep", "stage", "aside", "swap", "putBack", "swapOver", "tidy", "verify"}

Nowhere == [n \in Assets |-> None]
AssetFiles == [Assets -> Builds \cup {None, Custom}]

InstallTypeOK ==
    /\ command \in Commands /\ shipped \in Shipments
    /\ data \in AssetFiles
    /\ holder \in Installers \cup {None}
    /\ standing \in [Installers -> Ensuring \cup Replacing \cup {"end", "dead"}]
    /\ names \in [Installers -> {Always, WithTemplate}]
    /\ next \in [Installers -> 0 .. 6]
    /\ \A f \in {stock, kept, found} : f \in [Installers -> AssetFiles]
    /\ ending \in [Installers -> {"none", "current", "extracted", "restored",
                                   "incomplete"}]
    /\ bin \in Builds \cup {None}
    /\ olds \subseteq Installers \X Builds
    /\ crowded \in BOOLEAN /\ mishaps \in 0 .. MaxMishaps /\ halts \in 0 .. MaxHalts

AssetsOf(b) == [n \in Assets |-> IF n = "template" THEN TemplateOf[b] ELSE b]

InstallInit ==
    /\ command \in Commands /\ shipped \in Shipments
    /\ data = IF shipped = None THEN Nowhere ELSE AssetsOf(shipped)
    /\ holder = None
    /\ standing = [i \in Installers |-> "lock"]
    /\ names = [i \in Installers |-> Always]
    /\ next = [i \in Installers |-> 1]
    /\ stock = [i \in Installers |-> Nowhere]
    /\ kept = [i \in Installers |-> Nowhere]
    /\ found = [i \in Installers |-> Nowhere]
    /\ ending = [i \in Installers |-> "none"]
    /\ bin = shipped
    /\ olds = {}
    /\ crowded = FALSE
    /\ mishaps = 0
    /\ halts = 0

Build(i) == command[i].build

Mishap == mishaps < MaxMishaps /\ mishaps' = mishaps + 1
Does(i, what) == standing' = [standing EXCEPT ![i] = what]
Finds(i, v) == ending' = [ending EXCEPT ![i] = v] /\ Does(i, "release")

given == <<command, shipped>>
binaryVars == <<bin, olds, crowded>>

-----------------------------------------------------------------------------
(* ensure_installed.                                                       *)

TakeInstallLock(i) ==
    /\ standing[i] = "lock" /\ holder = None
    /\ holder' = i
    /\ found' = [found EXCEPT ![i] = data]
    /\ Does(i, "look")
    /\ UNCHANGED <<given, data, names, next, stock, kept, ending, binaryVars, mishaps,
                   halts>>

\* Mutant: the stamp alone is taken for evidence.
StampMatches(b) == data["stamp"] # None /\ VersionOf[data["stamp"]] = VersionOf[b]

\* installed_asset_digest: it covers the template and no skill.
DigestMatches(b) == data["bridge"] = b /\ data["template"] = TemplateOf[b]

\* assets_current: the stamp, the marker files and the digest.
AssetsCurrent(b) ==
    /\ data["stamp"] # None /\ VersionOf[data["stamp"]] = VersionOf[b]
    /\ DigestMatches(b)
    /\ data["skills"] # None

\* What is there is left alone unless it is forced; otherwise everything is extracted
\* to a stage, and a template only where there is none.
LookAtAssets(i) ==
    /\ standing[i] = "look"
    /\ \/ /\ ~command[i].force /\ AssetsCurrent(Build(i))
          /\ Finds(i, "current")
          /\ UNCHANGED <<names, next, stock, mishaps>>
       \/ /\ command[i].force \/ ~AssetsCurrent(Build(i))
          /\ stock' = [stock EXCEPT ![i] = AssetsOf(Build(i))]
          /\ names' = [names EXCEPT ![i] = IF data["template"] = None THEN WithTemplate
                                                                      ELSE Always]
          /\ next' = [next EXCEPT ![i] = 1]
          /\ Does(i, "backup") /\ UNCHANGED <<ending, mishaps>>
       \/ Mishap /\ Finds(i, "restored") /\ UNCHANGED <<names, next, stock>>
    /\ UNCHANGED <<given, data, holder, kept, found, binaryVars, halts>>

-----------------------------------------------------------------------------
(* publish_assets.                                                         *)

Name(i) == names[i][next[i]]

\* A failure undoes what was moved, the last one first; the name whose backup failed
\* is not among them.
BackUp(i) ==
    /\ standing[i] = "backup"
    /\ \/ /\ kept' = [kept EXCEPT ![i][Name(i)] = data[Name(i)]]
          /\ data' = [data EXCEPT ![Name(i)] = None]
          /\ Does(i, "publish") /\ UNCHANGED <<next, mishaps>>
       \/ /\ data[Name(i)] # None /\ Mishap
          /\ Does(i, "undo") /\ next' = [next EXCEPT ![i] = @ - 1]
          /\ UNCHANGED <<data, kept>>
    /\ UNCHANGED <<given, holder, names, stock, found, ending, binaryVars, halts>>

\* With the last name published the backup goes with its directory.
PublishAsset(i) ==
    /\ standing[i] = "publish"
    /\ \/ /\ data' = [data EXCEPT ![Name(i)] = stock[i][Name(i)]]
          /\ stock' = [stock EXCEPT ![i][Name(i)] = None]
          /\ IF next[i] < Len(names[i])
               THEN /\ Does(i, "backup") /\ next' = [next EXCEPT ![i] = @ + 1]
                    /\ UNCHANGED <<kept, ending>>
               ELSE /\ Finds(i, "extracted") /\ kept' = [kept EXCEPT ![i] = Nowhere]
                    /\ UNCHANGED next
          /\ UNCHANGED mishaps
       \/ /\ Mishap /\ Does(i, "undo")
          /\ UNCHANGED <<data, stock, kept, next, ending>>
    /\ UNCHANGED <<given, holder, names, found, binaryVars, halts>>

\* One asset back: the new one to the stage, the old one to its place.  Either rename
\* may fail, and the backup directory is then kept for the user; where the second fails,
\* the place of the asset is left empty.
UndoOne(i) ==
    /\ standing[i] = "undo" /\ next[i] > 0
    /\ next' = [next EXCEPT ![i] = @ - 1]
    /\ LET n == Name(i)
       IN \/ /\ stock' = [stock EXCEPT ![i][n] = IF data[n] = None THEN @ ELSE data[n]]
             /\ data' = [data EXCEPT ![n] = kept[i][n]]
             /\ kept' = [kept EXCEPT ![i][n] = None]
             /\ UNCHANGED <<ending, mishaps>>
          \/ /\ Mishap /\ {data[n], kept[i][n]} # {None}
             /\ ending' = [ending EXCEPT ![i] = "incomplete"]
             /\ \/ UNCHANGED <<data, stock>>
                \/ /\ None \notin {data[n], kept[i][n]}
                   /\ stock' = [stock EXCEPT ![i][n] = data[n]]
                   /\ data' = [data EXCEPT ![n] = None]
             /\ UNCHANGED kept
    /\ UNCHANGED <<given, holder, standing, names, found, binaryVars, halts>>

UndoEnds(i) ==
    /\ standing[i] = "undo" /\ next[i] = 0
    /\ Finds(i, IF ending[i] = "incomplete" THEN "incomplete" ELSE "restored")
    /\ UNCHANGED <<given, data, holder, names, next, stock, kept, found, binaryVars, mishaps,
                   halts>>

\* A daemon starts, the install command goes on to the binary, an error ends both.
ReleaseInstallLock(i) ==
    LET goesOn == ending[i] \in {"current", "extracted"} /\ command[i].binary
    IN /\ standing[i] = "release"
       /\ holder' = None
       /\ Does(i, CASE goesOn /\ command[i].inPlace -> "verify"
                    [] goesOn /\ ~command[i].inPlace -> "sweep"
                    [] OTHER -> "end")
       /\ crowded' = (crowded \/ (goesOn /\ \E j \in Installers : standing[j] \in Replacing))
       /\ UNCHANGED <<given, data, names, next, stock, kept, found, ending, bin, olds,
                      mishaps, halts>>

-----------------------------------------------------------------------------
(* copy_daemon_binary, replace_binary and verify_installed_version.        *)

assetVars == <<given, data, holder, names, next, stock, kept, found, ending>>

\* sweep_old_backups: whatever is not in use.
Sweep(i) ==
    /\ standing[i] = "sweep"
    /\ olds' \in SUBSET olds
    /\ Does(i, "stage")
    /\ UNCHANGED <<assetVars, bin, crowded, mishaps, halts>>

CopyToStage(i) ==
    /\ standing[i] = "stage"
    /\ \/ Does(i, "aside") /\ UNCHANGED mishaps
       \/ Mishap /\ Does(i, "end")
    /\ UNCHANGED <<assetVars, binaryVars, halts>>

\* The binary may be running: it is renamed, not overwritten.
MoveAside(i) ==
    /\ standing[i] = "aside"
    /\ \/ /\ bin # None
          /\ olds' = olds \cup {<<i, bin>>} /\ bin' = None
          /\ Does(i, "swap") /\ UNCHANGED mishaps
       \/ bin = None /\ Does(i, "swapOver") /\ UNCHANGED <<bin, olds, mishaps>>
       \/ bin # None /\ Mishap /\ Does(i, "end") /\ UNCHANGED <<bin, olds>>
    /\ UNCHANGED <<assetVars, crowded, halts>>

SwapIn(i) ==
    /\ standing[i] = "swap"
    /\ \/ bin' = Build(i) /\ Does(i, "tidy") /\ UNCHANGED mishaps
       \/ Mishap /\ Does(i, "putBack") /\ UNCHANGED bin
    /\ UNCHANGED <<assetVars, olds, crowded, halts>>

\* The new one cannot be put in place: the old one is put back, if it is still there.
PutBack(i) ==
    LET aside == {o \in olds : o[1] = i}
    IN /\ standing[i] = "putBack"
       /\ Does(i, "end")
       /\ \/ /\ aside # {} /\ UNCHANGED mishaps
             /\ bin' = (CHOOSE o \in aside : TRUE)[2] /\ olds' = olds \ aside
          \/ aside # {} /\ Mishap /\ UNCHANGED <<bin, olds>>
          \/ aside = {} /\ UNCHANGED <<bin, olds, mishaps>>
       /\ UNCHANGED <<assetVars, crowded, halts>>

\* Nothing was there to be moved.
SwapOver(i) ==
    /\ standing[i] = "swapOver"
    /\ \/ bin' = Build(i) /\ Does(i, "verify") /\ UNCHANGED mishaps
       \/ Mishap /\ Does(i, "end") /\ UNCHANGED bin
    /\ UNCHANGED <<assetVars, olds, crowded, halts>>

\* The old one may still be running, and is left for a later sweep.
Tidy(i) ==
    /\ standing[i] = "tidy"
    /\ olds' \in {olds, {o \in olds : o[1] # i}}
    /\ Does(i, "verify")
    /\ UNCHANGED <<assetVars, bin, crowded, mishaps, halts>>

\* The binary in place is asked for its version; the answer changes nothing.
VerifyVersion(i) ==
    /\ standing[i] = "verify"
    /\ Does(i, "end")
    /\ UNCHANGED <<assetVars, binaryVars, mishaps, halts>>

-----------------------------------------------------------------------------
(* Around it.                                                              *)

\* The user saves a template of their own.
UserSavesTemplate ==
    /\ data["template"] # Custom
    /\ data' = [data EXCEPT !["template"] = Custom]
    /\ UNCHANGED <<given, holder, standing, names, next, stock, kept, found, ending,
                   binaryVars, mishaps, halts>>

\* A process dies: its lock is free, its stage and its backup stay where they are.
Halt(i) ==
    /\ standing[i] \notin {"lock", "end", "dead"} /\ halts < MaxHalts
    /\ halts' = halts + 1
    /\ Does(i, "dead")
    /\ holder' = IF holder = i THEN None ELSE holder
    /\ UNCHANGED <<given, data, names, next, stock, kept, found, ending, binaryVars,
                   mishaps>>

InstallNext ==
    \/ \E i \in Installers :
         \/ TakeInstallLock(i) \/ LookAtAssets(i) \/ BackUp(i) \/ PublishAsset(i)
         \/ UndoOne(i) \/ UndoEnds(i) \/ ReleaseInstallLock(i)
         \/ Sweep(i) \/ CopyToStage(i) \/ MoveAside(i) \/ SwapIn(i) \/ PutBack(i)
         \/ SwapOver(i) \/ Tidy(i) \/ VerifyVersion(i) \/ Halt(i)
    \/ UserSavesTemplate

InstallSpec == InstallInit /\ [][InstallNext]_installVars

-----------------------------------------------------------------------------
(* Properties.                                                             *)

\* When ensure_installed returns, the bridge TouchDesigner will import is that of the
\* build that asked and a template is there, whatever died before; when it says that
\* the previous assets are restored, they are.
EnsuredAssetsAreRight ==
    \A i \in Installers : standing[i] = "release" =>
      /\ ending[i] \in {"current", "extracted"} =>
           /\ data["bridge"] = Build(i) /\ VersionOf[data["stamp"]] = VersionOf[Build(i)]
           /\ data["skills"] # None /\ data["template"] # None
      /\ ending[i] = "restored" =>
           \A n \in Assets : data[n] \in {found[i][n], Custom}

\* Installing never leaves the user without a binary, at its place or renamed aside, if
\* one operation fails, nobody dies and nobody else installs at the same time.
BinaryIsKept ==
    shipped # None /\ mishaps < 2 /\ halts = 0 /\ ~crowded => bin # None \/ olds # {}

\* What the installer promises (install.rs:128-133, 229, 592).
InstallKeepsItsWord == InstallTypeOK /\ EnsuredAssetsAreRight /\ BinaryIsKept

\* Not so after a crash or beside another installer: the renamed binary is swept before
\* its successor is in place (install.rs:592 "so install never leaves a gap").
BinaryIsNeverLost == shipped # None => bin # None \/ olds # {}

\* Not so either: what the digest leaves out stays as a dead install left it
\* (install.rs:306 "every embedded runtime asset").
AllAssetsAreTheBuilds ==
    \A i \in Installers : standing[i] = "release" /\ ending[i] \in {"current", "extracted"} =>
      \A n \in Assets \ {"template"} : data[n] = Build(i)

\* Nor is a template safe that is saved while the first one is being installed
\* (install.rs:459 "Never erase their project").
TemplateIsKept == [][data["template"] = Custom => data'["template"] = Custom]_installVars
=============================================================================
