--------------------------- MODULE ProjectSnapshot -------------------------
(***************************************************************************)
(* project_snapshot (project_snapshot.py): TouchDesigner saves a component *)
(* or the whole project to a path the caller names, and the handler tells  *)
(* the caller what was written.  A component that replaces a file first    *)
(* copies it aside and copies it back when the save did not land; a        *)
(* project is saved without that, and what TouchDesigner wrote has to be   *)
(* found among the target and its numbered siblings.                       *)
(*                                                                         *)
(* One target.  A file is its bytes: a version of the scene, or torn when  *)
(* the writer did not finish.  A file that is there may fail to be read at *)
(* any step, and the handler then takes it for one that is not.  What save *)
(* and loadTox do is TouchDesigner's affair and external; TouchDesigner    *)
(* may also die at any step, with what it was writing half done or done.   *)
(***************************************************************************)
EXTENDS Absent, Naturals, FiniteSetsExt

CONSTANTS
    Torn,          \* the bytes of a file whose writer did not finish
    MaxIncrement,  \* SNAPSHOT_MAX_INCREMENT: siblings that are looked at
    MaxSibling,    \* bound on the number TouchDesigner counts a sibling up to
    MaxVersion,    \* bound on edits of the scene
    MaxSnapshots,  \* bound on calls
    MaxExits       \* bound on deaths of TouchDesigner

ASSUME SnapshotAssumption ==
    /\ MaxIncrement \in Nat /\ MaxSibling \in Nat /\ MaxVersion \in Nat
    /\ MaxSnapshots \in Nat /\ MaxExits \in Nat
    /\ {None, Torn} \cap Nat = {} /\ None # Torn

VARIABLES
    files,     \* files[f]: the bytes of the target, of its .replaced copy, of a sibling
    version,   \* the scene that is open
    children,  \* scenes that were loaded as components
    saving,    \* the call on the main thread, or None
    receipt,   \* what the last call told its caller, or None
    displaced, \* the bytes at the target that the last save set out to keep, or None
    snapshots, exits

snapshotVars == <<files, version, children, saving, receipt, displaced, snapshots, exits>>

Siblings == 1 .. MaxSibling
Target == 0
Replaced == MaxSibling + 1
Files == {Target, Replaced} \cup Siblings
Bytes == 0 .. MaxVersion \cup {Torn}

\* before and numbered are read when the call begins; alone: nothing was there then at the
\* target or the names that are looked at, readable or not.  stashed is
\* recovery["stashed"], failing the outcome that is told once the displaced file is back.
Saves == [kind : {"component", "project"}, step : {"stash", "save", "restore"},
          before : Bytes \cup {None}, numbered : [Siblings -> Bytes \cup {None}],
          alone : BOOLEAN, stashed : BOOLEAN, failing : {"none", "failed", "unknown"}]

\* made is what the save wrote, if anything; the caller does not see it.
Receipts == [kind : {"component", "project", "load"},
             outcome : {"refused", "declined", "failed", "unknown", "written", "loaded"},
             before : Bytes \cup {None}, alone : BOOLEAN, restored : BOOLEAN,
             artifact : Bytes \cup {None}, made : Bytes \cup {None}]

SnapshotTypeOK ==
    /\ files \in [Files -> Bytes \cup {None}]
    /\ version \in 0 .. MaxVersion
    /\ children \subseteq Bytes
    /\ saving \in Saves \cup {None}
    /\ receipt \in Receipts \cup {None}
    /\ displaced \in Bytes \cup {None}
    /\ snapshots \in 0 .. MaxSnapshots /\ exits \in 0 .. MaxExits

\* The target may hold what an earlier session saved, and so may its first sibling.
SnapshotInit ==
    /\ files \in {f \in [Files -> {0, None}] : \A x \in Files \ {Target, 1} : f[x] = None}
    /\ version = 0
    /\ children = {}
    /\ saving = None
    /\ receipt = None
    /\ displaced = None
    /\ snapshots = 0
    /\ exits = 0

-----------------------------------------------------------------------------
(* What the handler sees, and its answer.                                  *)

\* A sibling of the names the handler looks at.
Watched == {n \in Siblings : n <= MaxIncrement}

\* _stat_of: a file that cannot be read is reported as one that is not there.
StatOf(fs, hidden) == [f \in Files |-> IF f \in hidden THEN None ELSE fs[f]]
Unreadable == SUBSET ({Target} \cup Watched)

Alone == files[Target] = None /\ \A n \in Watched : files[n] = None

Told(call, outcome) ==
    [kind |-> call.kind, outcome |-> outcome, before |-> call.before,
     alone |-> call.alone, restored |-> FALSE, artifact |-> None, made |-> None]

Ends(told) == receipt' = told /\ saving' = None
Proceeds(call) == saving' = call /\ UNCHANGED receipt

-----------------------------------------------------------------------------
(* handle_project_snapshot, up to the first file operation.                *)

Begun(kind, seen) ==
    [kind |-> kind, step |-> "save", before |-> seen[Target],
     numbered |-> [n \in Siblings |-> seen[n]], alone |-> Alone,
     stashed |-> FALSE, failing |-> "none"]

\* A destination that is seen to be occupied is refused unless the caller asked to replace
\* it; a component then sets it aside before anything is written.
StartSave(kind, overwrite) ==
    /\ saving = None /\ snapshots < MaxSnapshots
    /\ snapshots' = snapshots + 1
    /\ \E hidden \in Unreadable :
         LET begun == Begun(kind, StatOf(files, hidden))
         IN \/ /\ begun.before # None /\ overwrite = "fail"
               /\ Ends(Told(begun, "refused"))
               /\ UNCHANGED displaced
            \/ /\ begun.before # None /\ overwrite = "replace" /\ kind = "component"
               /\ saving' = [begun EXCEPT !.step = "stash"] /\ receipt' = None
               /\ displaced' = begun.before
            \/ /\ begun.before = None \/ (overwrite = "replace" /\ kind = "project")
               /\ saving' = begun /\ receipt' = None
               /\ displaced' = None
    /\ UNCHANGED <<files, version, children, exits>>

-----------------------------------------------------------------------------
(* _stash and _restore.                                                    *)

\* A copy that ends early leaves what it had written, or nothing.
CopyOver(from, to, good) ==
    IF good THEN files' = [files EXCEPT ![to] = files[from]]
            ELSE \E b \in {files[to], Torn} : files' = [files EXCEPT ![to] = b]

\* Mutant: the copy is trusted without reading it back.
SetAsideUnverified ==
    /\ saving # None /\ saving.step = "stash"
    /\ \E good \in BOOLEAN : CopyOver(Target, Replaced, good)
    /\ Proceeds([saving EXCEPT !.step = "save", !.stashed = TRUE])
    /\ UNCHANGED <<version, children, displaced, snapshots, exits>>

\* The copy is read back: one that is not the original, or cannot be read, stops the save.
SetAside ==
    /\ saving # None /\ saving.step = "stash"
    /\ \E good, readable \in BOOLEAN :
         /\ CopyOver(Target, Replaced, good)
         /\ IF readable /\ files'[Replaced] = files[Target]
              THEN Proceeds([saving EXCEPT !.step = "save", !.stashed = TRUE])
              ELSE Ends(Told(saving, "declined"))
    /\ UNCHANGED <<version, children, displaced, snapshots, exits>>

\* So is the restored file, whose digest was taken when it was set aside.
PutTargetBack ==
    /\ saving # None /\ saving.step = "restore"
    /\ \E good, readable \in BOOLEAN :
         /\ CopyOver(Replaced, Target, good)
         /\ Ends([Told(saving, saving.failing) EXCEPT
                   !.restored = readable /\ files'[Target] = saving.before])
    /\ UNCHANGED <<version, children, displaced, snapshots, exits>>

\* _recover: only what was set aside can be put back.
Fails(outcome) ==
    IF saving.stashed
      THEN Proceeds([saving EXCEPT !.step = "restore", !.failing = outcome])
      ELSE Ends(Told(saving, outcome))

-----------------------------------------------------------------------------
(* The save of a component.                                                *)

WrittenTo(f) == [Told(saving, "written") EXCEPT !.artifact = files'[f], !.made = version]

AtSave(kind) == saving # None /\ saving.step = "save" /\ saving.kind = kind

ComponentSaved ==
    /\ AtSave("component")
    /\ files' = [files EXCEPT ![Target] = version]
    /\ Ends(WrittenTo(Target))
    /\ UNCHANGED <<version, children, displaced, snapshots, exits>>

\* save raised, at whatever point of the write.
ComponentRaised ==
    /\ AtSave("component")
    /\ \E b \in {files[Target], Torn, version} : files' = [files EXCEPT ![Target] = b]
    /\ Fails("failed")
    /\ UNCHANGED <<version, children, displaced, snapshots, exits>>

\* It returned no path, or one where nothing is or can be read.
ComponentUnaccounted ==
    /\ AtSave("component")
    /\ \E b \in {files[Target], None, Torn, version} : files' = [files EXCEPT ![Target] = b]
    /\ Fails("unknown")
    /\ UNCHANGED <<version, children, displaced, snapshots, exits>>

-----------------------------------------------------------------------------
(* The save of the project: a Boolean comes back, not a path.              *)

\* The name after the last one in use.
NextSibling == Max({0} \cup {n \in Siblings : files[n] # None}) + 1

\* What is written is the target or, where that is occupied, the next sibling.
SaveTargets == {Target} \cup {n \in Siblings : files[Target] # None /\ n = NextSibling}

SaveOutcomes == {[files EXCEPT ![f] = version] : f \in SaveTargets}

\* A save that got nowhere, stopped in the middle, or was done all the same.
PartOutcomes == {files} \cup SaveOutcomes \cup {[files EXCEPT ![f] = Torn] : f \in SaveTargets}

\* _find_written: the target if there is one, then a sibling that changed, then any.
FindWritten(call, after) ==
    LET changed == {n \in Watched : /\ call.numbered[n] # None
                                    /\ after[n] \notin {None, call.numbered[n]}}
        present == {n \in Watched : after[n] # None}
    IN IF after[Target] # None THEN Target
       ELSE IF changed # {} THEN Min(changed)
       ELSE IF present # {} THEN Min(present)
       ELSE None

\* It said yes, and wrote a file or not.  The file that is found is read once more for
\* the receipt.
ProjectSaved ==
    /\ AtSave("project")
    /\ \E after \in SaveOutcomes \cup {files}, hidden \in Unreadable, readable \in BOOLEAN :
         LET found == FindWritten(saving, StatOf(after, hidden))
         IN /\ files' = after
            /\ Ends(IF found = None THEN Told(saving, "unknown")
                    ELSE [Told(saving, "written") EXCEPT
                            !.artifact = IF readable THEN after[found] ELSE None,
                            !.made = IF after = files THEN None ELSE version])
    /\ UNCHANGED <<version, children, displaced, snapshots, exits>>

\* It raised, before or after writing.
ProjectRaised ==
    /\ AtSave("project")
    /\ files' \in PartOutcomes
    /\ Ends(Told(saving, "unknown"))
    /\ UNCHANGED <<version, children, displaced, snapshots, exits>>

\* It said no, which "does not mean nothing was written".
ProjectDeclined ==
    /\ AtSave("project")
    /\ files' \in PartOutcomes
    /\ Ends(Told(saving, "declined"))
    /\ UNCHANGED <<version, children, displaced, snapshots, exits>>

-----------------------------------------------------------------------------
(* _load_component: a copy of the file becomes a child of the host.        *)

LoadComponent ==
    /\ saving = None /\ snapshots < MaxSnapshots
    /\ snapshots' = snapshots + 1
    /\ \E hidden \in SUBSET {Target} :
         LET seen == StatOf(files, hidden)
             told(outcome) == [Told(Begun("load", seen), outcome) EXCEPT !.artifact = seen[Target]]
         IN \/ seen[Target] = None /\ Ends(told("refused")) /\ UNCHANGED children
            \/ /\ seen[Target] \notin {None, Torn} /\ Ends(told("loaded"))
               /\ children' = children \cup {files[Target]}
            \/ /\ seen[Target] # None
               /\ \E outcome \in {"failed", "unknown"} : Ends(told(outcome))
               /\ children' \in {children, children \cup {files[Target]}}
    /\ UNCHANGED <<files, version, displaced, exits>>

-----------------------------------------------------------------------------
(* The user and the process.                                               *)

EditScene ==
    /\ saving = None /\ version < MaxVersion
    /\ version' = version + 1
    /\ UNCHANGED <<files, children, saving, receipt, displaced, snapshots, exits>>

\* Nobody is told anything, and the file that was being written stays as it is.
TouchDesignerDies ==
    /\ saving # None /\ exits < MaxExits
    /\ exits' = exits + 1
    /\ \/ saving.step = "stash" /\ \E good \in BOOLEAN : CopyOver(Target, Replaced, good)
       \/ saving.step = "restore" /\ \E good \in BOOLEAN : CopyOver(Replaced, Target, good)
       \/ /\ saving.step = "save" /\ saving.kind = "component"
          /\ \E b \in {files[Target], Torn, version} : files' = [files EXCEPT ![Target] = b]
       \/ saving.step = "save" /\ saving.kind = "project" /\ files' \in PartOutcomes
    /\ saving' = None
    /\ UNCHANGED <<version, children, receipt, displaced, snapshots>>

SnapshotNext ==
    \/ \E kind \in {"component", "project"}, o \in {"fail", "replace"} : StartSave(kind, o)
    \/ SetAside \/ PutTargetBack
    \/ ComponentSaved \/ ComponentRaised \/ ComponentUnaccounted
    \/ ProjectSaved \/ ProjectRaised \/ ProjectDeclined
    \/ LoadComponent
    \/ EditScene \/ TouchDesignerDies

SnapshotSpec == SnapshotInit /\ [][SnapshotNext]_snapshotVars

-----------------------------------------------------------------------------
(* Properties.                                                             *)

\* Whatever fails, a file that a component saw it was to replace is at the target or
\* beside it, until a later call writes the target.
DisplacedSurvives == displaced # None => displaced \in {files[Target], files[Replaced]}

\* A caller who is told that a file was written, by a save that found nothing in its way
\* or of a component, is given the bytes of this save, if the receipt names any.  One who
\* is told that the save was refused, that the old file could not be set aside, or that
\* it is back, finds the old file.  Of a project save that TouchDesigner declined nothing
\* is promised.
ReceiptIsTrue ==
    receipt # None /\ saving = None =>
      /\ /\ receipt.outcome = "written"
         /\ receipt.kind = "component" \/ receipt.alone
         => /\ receipt.made # None
            /\ \/ receipt.artifact = receipt.made
               \/ receipt.kind = "project" /\ receipt.artifact = None
      /\ /\ receipt.kind # "load"
         /\ \/ receipt.outcome = "refused" \/ receipt.restored
            \/ receipt.outcome = "declined" /\ receipt.kind = "component"
         => files[Target] = receipt.before

\* What project_snapshot promises a caller whose file it touches (_stash, _restore and
\* the receipts): the displaced bytes survive, and the receipt is true.
SnapshotIsSafe == SnapshotTypeOK /\ DisplacedSurvives /\ ReceiptIsTrue

-----------------------------------------------------------------------------
(* What the code says and does not keep (README, Findings).                *)

HasGoodCopy == \E f \in {Target, Replaced} : files[f] \notin {None, Torn}

\* Not so over repeated calls: when a save and its restore both failed, the next replace
\* sets the half-written target aside, over the only good copy (project_snapshot.py:256
\* refuses a save that "would destroy the only good copy").
GoodCopyIsKept == [][SetAside /\ HasGoodCopy => HasGoodCopy']_snapshotVars

\* Nor this, which the answer to a declined save says: "the file exists and was not
\* replaced, or the save was declined" (project_snapshot.py:551-552).
DeclinedIsUntouched == [][ProjectDeclined => files' = files]_snapshotVars

\* Nor this: "a caller who did not ask to replace someone's file must not have it
\* replaced" (project_snapshot.py:344-345).  A file that cannot be read is taken
\* for none: it is written over, and with "replace" without being set aside.
UnaskedIsRefused ==
    [][\A kind \in {"component", "project"} :
         StartSave(kind, "fail") /\ files[Target] # None => saving' = None]_snapshotVars
=============================================================================
