--------------------------- MODULE EvidenceExport --------------------------
(***************************************************************************)
(* Exporting evidence to a file of the user (Store::export and the export  *)
(* journals of DiskBlobs, evidence_store.rs).  The artifact is staged next *)
(* to the destination, a journal is written, the user's file is renamed    *)
(* aside when the policy says so, the artifact is renamed into place, the  *)
(* directory is synced and the journal cleared.  Opening the store repairs *)
(* what a dead process left, from the journals.                            *)
(*                                                                         *)
(* All exports go to one destination.  The directory of the destination is *)
(* synced by one step only, so a power loss may bring back any directory   *)
(* since the last sync; journals are synced whenever they are written.     *)
(***************************************************************************)
EXTENDS Absent, Naturals, FiniteSets

CONSTANTS
    Exports,     \* exports, in the order of their journal ids
    Policy,      \* Policy[x]: "NoOverwrite" or "BackupAndReplace"
    UserFiles,   \* files the user may put at the destination
    Present,     \* the file at the destination at the start, or None
    MaxLosses,   \* bound on deaths of the daemon and power losses
    FaultyExports  \* exports whose file operations may fail

ASSUME ExportAssumption ==
    /\ Exports \subseteq Nat
    /\ Policy \in [Exports -> {"NoOverwrite", "BackupAndReplace"}]
    /\ FaultyExports \subseteq Exports /\ MaxLosses \in Nat
    /\ None \notin Exports \cup UserFiles /\ UserFiles \cap Exports = {}
    /\ Present \in UserFiles \cup {None}

VARIABLES
    dir,      \* the user's directory: destination, staged files, backups
    disk,     \* the directories a power loss may bring back
    journal,  \* journal[x]: state of the export journal of x, or "none"
    running,  \* the export that holds the filesystem gate
    stage,    \* where it stands
    outcome,  \* outcome[x]: what the caller of export was told
    made,     \* user files that were put at the destination
    open,     \* the store is open
    losses

exportVars == <<dir, disk, journal, running, stage, outcome, made, open, losses>>

Contents == Exports \cup UserFiles \cup {None}
Directory == [dest : Contents, temp : SUBSET Exports, backup : [Exports -> Contents]]

ExportTypeOK ==
    /\ dir \in Directory
    /\ disk \subseteq Directory /\ dir \in disk
    /\ journal \in [Exports -> {"none", "Prepared", "DestinationBackedUp", "Published"}]
    /\ running \in Exports \cup {None}
    /\ stage \in {"idle", "staged", "prepared", "displaced", "replace", "renamed",
               "published", "synced"}
    /\ (running = None) <=> (stage = "idle")
    /\ outcome \in [Exports -> {"pending", "ok", "error", "uncertain", "lost"}]
    /\ made \subseteq UserFiles
    /\ open \in BOOLEAN /\ losses \in 0 .. MaxLosses

ExportInit ==
    /\ dir = [dest |-> Present, temp |-> {}, backup |-> [x \in Exports |-> None]]
    /\ disk = {dir}
    /\ journal = [x \in Exports |-> "none"]
    /\ running = None
    /\ stage = "idle"
    /\ outcome = [x \in Exports |-> "pending"]
    /\ made = {Present} \ {None}
    /\ open = TRUE
    /\ losses = 0

-----------------------------------------------------------------------------
(* The files.                                                              *)

\* An operation on the directory, not synced yet.
Change(d) == dir' = d /\ disk' = disk \cup {d}

Staged(x) == [dir EXCEPT !.temp = dir.temp \cup {x}]
Unstaged(x) == [dir EXCEPT !.temp = dir.temp \ {x}]

\* rename_noreplace of the staged file, the user's file and the backup of x.
Published(x) == [dir EXCEPT !.temp = dir.temp \ {x}, !.dest = x]
Displaced(x) == [dir EXCEPT !.backup = [dir.backup EXCEPT ![x] = dir.dest], !.dest = None]
Restored(x) == [dir EXCEPT !.dest = dir.backup[x],
                           !.backup = [dir.backup EXCEPT ![x] = None]]

\* journal_export and clear_export_journal: a replacing rename or a removal, synced.
Journal(x, s) == journal' = [journal EXCEPT ![x] = s]

\* A journal write that reports an error may have reached the file or not.
JournalMaybe(x, s) == journal' \in {journal, [journal EXCEPT ![x] = s]}

\* export returns, and the filesystem gate is dropped.
ExportReturns(x, o) ==
    /\ outcome' = [outcome EXCEPT ![x] = o]
    /\ running' = None
    /\ stage' = "idle"

ExportGoes(l) == stage' = l /\ UNCHANGED <<running, outcome>>

ExportAt(x, l) == open /\ running = x /\ stage = l
ExportFails(x) == x \in FaultyExports

-----------------------------------------------------------------------------
(* export, under the filesystem gate.                                      *)

\* The artifact is written to a staged file and checked against the manifest.
Stage(x) ==
    /\ open /\ running = None /\ outcome[x] = "pending"
    /\ \/ /\ Change(Staged(x))
          /\ running' = x /\ stage' = "staged" /\ UNCHANGED outcome
       \/ /\ ExportFails(x)
          /\ ExportReturns(x, "error") /\ UNCHANGED <<dir, disk>>
    /\ UNCHANGED <<journal, made, open, losses>>

\* The journal is written before any rename.
Prepare(x) ==
    /\ ExportAt(x, "staged")
    /\ \/ Journal(x, "Prepared") /\ ExportGoes("prepared") /\ UNCHANGED <<dir, disk>>
       \/ ExportFails(x) /\ JournalMaybe(x, "Prepared") /\ Change(Unstaged(x)) /\ ExportReturns(x, "error")
    /\ UNCHANGED <<made, open, losses>>

\* NoOverwrite: publish, or give everything back.
PublishNew(x) ==
    /\ ExportAt(x, "prepared") /\ Policy[x] = "NoOverwrite"
    /\ \/ /\ dir.dest = None
          /\ Change(Published(x)) /\ ExportGoes("renamed") /\ UNCHANGED journal
       \/ /\ dir.dest # None \/ ExportFails(x)
          /\ Change(Unstaged(x)) /\ ExportReturns(x, "error")
          /\ \/ Journal(x, "none")
             \/ ExportFails(x) /\ UNCHANGED journal
    /\ UNCHANGED <<made, open, losses>>

\* BackupAndReplace: the user's file is renamed aside.
Displace(x) ==
    /\ ExportAt(x, "prepared") /\ Policy[x] = "BackupAndReplace"
    /\ \/ dir.dest # None /\ Change(Displaced(x)) /\ ExportGoes("displaced")
       \/ dir.dest = None /\ ExportGoes("replace") /\ UNCHANGED <<dir, disk>>
       \/ dir.dest # None /\ ExportFails(x) /\ ExportReturns(x, "error") /\ UNCHANGED <<dir, disk>>
    /\ UNCHANGED <<journal, made, open, losses>>

\* The journal learns of the backup.
RecordBackup(x) ==
    /\ ExportAt(x, "displaced")
    /\ \/ Journal(x, "DestinationBackedUp") /\ ExportGoes("replace")
       \/ ExportFails(x) /\ JournalMaybe(x, "DestinationBackedUp") /\ ExportReturns(x, "uncertain")
    /\ UNCHANGED <<dir, disk, made, open, losses>>

\* The artifact takes the place of the user's file; if it cannot, the file goes back.
Replace(x) ==
    /\ ExportAt(x, "replace")
    /\ \/ /\ dir.dest = None
          /\ Change(Published(x)) /\ ExportGoes("renamed") /\ UNCHANGED journal
       \/ /\ dir.dest # None \/ ExportFails(x)
          /\ \/ /\ dir.backup[x] = None
                /\ Change(Unstaged(x))
                /\ \/ Journal(x, "none")
                   \/ ExportFails(x) /\ UNCHANGED journal
                /\ ExportReturns(x, "error")
             \/ /\ dir.backup[x] # None /\ dir.dest = None
                /\ Change([Restored(x) EXCEPT !.temp = dir.temp \ {x}])
                /\ \/ Journal(x, "none")
                   \/ ExportFails(x) /\ UNCHANGED journal
                /\ ExportReturns(x, "error")
             \/ /\ dir.backup[x] # None /\ (dir.dest # None \/ ExportFails(x))
                /\ Change(Unstaged(x)) /\ UNCHANGED journal
                /\ ExportReturns(x, "uncertain")
    /\ UNCHANGED <<made, open, losses>>

RecordPublished(x) ==
    /\ ExportAt(x, "renamed")
    /\ \/ Journal(x, "Published") /\ ExportGoes("published")
       \/ ExportFails(x) /\ JournalMaybe(x, "Published") /\ ExportReturns(x, "error")
    /\ UNCHANGED <<dir, disk, made, open, losses>>

\* sync_directory of the parent: only now does a power loss find the artifact.
SyncParent(x) ==
    /\ ExportAt(x, "published")
    /\ \/ disk' = {dir} /\ ExportGoes("synced")
       \/ ExportFails(x) /\ disk' = disk /\ ExportReturns(x, "uncertain")
    /\ UNCHANGED <<dir, journal, made, open, losses>>

\* The journal goes, and the receipt is returned.
ClearJournal(x) ==
    /\ ExportAt(x, "synced")
    /\ \/ Journal(x, "none") /\ ExportReturns(x, "ok")
       \/ ExportFails(x) /\ JournalMaybe(x, "none") /\ ExportReturns(x, "error")
    /\ UNCHANGED <<dir, disk, made, open, losses>>

-----------------------------------------------------------------------------
(* The user, and the death of the daemon or of the machine.                *)

\* The user saves a file at the free destination; it is on disk when she is told.
UserSaves(u) ==
    /\ dir.dest = None /\ u \notin made
    /\ dir' = [dir EXCEPT !.dest = u]
    /\ disk' = {dir'}
    /\ made' = made \cup {u}
    /\ UNCHANGED <<journal, running, stage, outcome, open, losses>>

\* A crash of the daemon keeps the directory, a power loss one since the last sync.
Die(left) ==
    /\ losses < MaxLosses
    /\ losses' = losses + 1
    /\ open' = FALSE
    /\ running' = None /\ stage' = "idle"
    /\ outcome' = [x \in Exports |-> IF running = x THEN "lost" ELSE outcome[x]]
    /\ dir' = left
    /\ UNCHANGED <<journal, made>>

DaemonCrash == Die(dir) /\ UNCHANGED disk
PowerLoss == \E d \in disk : Die(d) /\ disk' = {d}

-----------------------------------------------------------------------------
(* resolve_export_journal for each journal, in order of ids; a journal it  *)
(* cannot prove anything about keeps the store closed.                     *)

FirstJournal(x) ==
    /\ ~open /\ journal[x] # "none"
    /\ \A y \in Exports : y < x => journal[y] = "none"

HasContent(x) == x \in dir.temp

\* A change that publish_staged or the restore syncs before the journal goes.
Repair(x, d) == dir' = d /\ disk' = {d} /\ Journal(x, "none")

ResolvePrepared(x) ==
    /\ FirstJournal(x) /\ journal[x] = "Prepared"
    /\ Change(Unstaged(x))
    /\ Journal(x, "none")
    /\ UNCHANGED <<running, stage, outcome, made, open, losses>>

ResolvePublished(x) ==
    /\ FirstJournal(x) /\ journal[x] = "Published"
    /\ \/ dir.dest = x /\ Change(Unstaged(x)) /\ Journal(x, "none")
       \/ dir.dest = None /\ HasContent(x) /\ Repair(x, Published(x))
    /\ UNCHANGED <<running, stage, outcome, made, open, losses>>

ResolveOverwriting(x) ==
    /\ FirstJournal(x) /\ journal[x] = "DestinationBackedUp"
    /\ \/ HasContent(x) /\ Repair(x, Published(x))
       \/ ~HasContent(x) /\ dir.backup[x] # None /\ Repair(x, Restored(x))
    /\ UNCHANGED <<running, stage, outcome, made, open, losses>>

ResolveBackedUp(x) ==
    /\ FirstJournal(x) /\ journal[x] = "DestinationBackedUp"
    /\ dir.dest = None
    /\ \/ HasContent(x) /\ Repair(x, Published(x))
       \/ ~HasContent(x) /\ dir.backup[x] # None /\ Repair(x, Restored(x))
    /\ UNCHANGED <<running, stage, outcome, made, open, losses>>

\* reconcile_exports is done: the store opens.
ExportsReconciled ==
    /\ ~open /\ \A x \in Exports : journal[x] = "none"
    /\ open' = TRUE
    /\ UNCHANGED <<dir, disk, journal, running, stage, outcome, made, losses>>

-----------------------------------------------------------------------------
Export(x) ==
    \/ Stage(x) \/ Prepare(x) \/ PublishNew(x) \/ Displace(x) \/ RecordBackup(x)
    \/ Replace(x) \/ RecordPublished(x) \/ SyncParent(x) \/ ClearJournal(x)

Resolve(x) == ResolvePrepared(x) \/ ResolvePublished(x) \/ ResolveBackedUp(x)

ExportNext ==
    \/ \E x \in Exports : Export(x) \/ Resolve(x)
    \/ \E u \in UserFiles : UserSaves(u)
    \/ DaemonCrash
    \/ PowerLoss
    \/ ExportsReconciled

ExportSpec == ExportInit /\ [][ExportNext]_exportVars

-----------------------------------------------------------------------------
(* Properties.                                                             *)

Files(d) == {d.dest} \cup {d.backup[x] : x \in Exports}

\* No file is lost, now and after any power loss.  What the user had at the destination
\* is there or in a backup: publication, rollback and the repair at start-up rename
\* without replacing, so neither a file saved in the middle of an export nor the
\* displaced one is overwritten.  An export whose caller holds a receipt is at the
\* destination too, or in the backup of a later one.
NoFileLost ==
    /\ ExportTypeOK
    /\ \A d \in disk : /\ made \subseteq Files(d)
                      /\ {x \in Exports : outcome[x] = "ok"} \subseteq Files(d)

\* "An interruption at any later point is repairable instead of being mistaken for
\* 'the export never ran'" and "Never leave the destination missing": an open store
\* without a journal has a file at the destination that once had one.
CleanStoreHasDestination ==
    open /\ running = None /\ made # {} /\ (\A x \in Exports : journal[x] = "none") =>
        dir.dest # None
=============================================================================
