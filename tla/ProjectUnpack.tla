---------------------------- MODULE ProjectUnpack --------------------------
(***************************************************************************)
(* project_unpack (project_unpack.rs): a packed project is expanded into a *)
(* private stage, and the two results, a directory and its toc, are        *)
(* published together.  What is at the destinations is renamed into the    *)
(* stage, the new artifacts are renamed out of it, and a failure undoes    *)
(* the renames in reverse; the stage is deleted at the end unless undoing  *)
(* failed.                                                                 *)
(*                                                                         *)
(* Every call on a destination is a step, because other unpacks and other  *)
(* programs work there at the same time; the stage has a random name and   *)
(* nobody else writes it, so a rename into it and the look at what arrived *)
(* are one step.  An entry is its identity (device and inode), which is    *)
(* not used again while the behaviour lasts.                               *)
(***************************************************************************)
EXTENDS Absent, Naturals, FiniteSets

CONSTANTS
    Unpacks,       \* calls of project_unpack with the same destination
    Overwrites,    \* what the calls may ask for, in [Unpacks -> {"fail", "replace"}]
    Priors,        \* Priors[k]: the entry at destination k at the start, or None
    Written,       \* entries another program may put at a destination
    MaxIoFaults    \* bound on file operations that fail for reasons of their own

Kinds == {"dir", "toc"}

VARIABLES
    overwrite, \* overwrite[u]: what u does about an occupied destination
    dest,      \* dest[k]: the entry at the destination of kind k
    staged,    \* staged[u][k]: the new artifact while it is in the stage of u
    stash,     \* stash[u][k]: what u moved from the destination into its stage
    initial,   \* initial[u][k]: prior_identity, found before the expansion
    moved,     \* moved[u][k]: stashed_identity, read after the move
    published, \* published[u]: the kinds u has renamed into place
    at,        \* at[u]: the next step of u and the kind it is about
    undoFailed,      \* undoFailed[u]: there were rollback errors, or retain_stage is set
    verdict,   \* verdict[u]: what the caller of u was told
    deleted,   \* deleted[u]: the entries that went with the stage of u
    meddled,   \* what the other program has used up
    faults

unpackVars == <<overwrite, dest, staged, stash, initial, moved, published, at, undoFailed,
                verdict, deleted, meddled, faults>>

New(u, k) == <<u, k>>
Entries == (Unpacks \X Kinds) \cup Written \cup ({Priors[k] : k \in Kinds} \ {None})
Slots == [Kinds -> Entries \cup {None}]
Nothing == [k \in Kinds |-> None]

UnpackPhases == {"probe", "expand", "check", "look", "stash", "publish", "confirm", "find",
                 "unpublish", "restore", "verify", "undone", "clean", "end"}

ASSUME UnpackAssumption ==
    /\ Overwrites \subseteq [Unpacks -> {"fail", "replace"}]
    /\ MaxIoFaults \in Nat
    /\ None \notin (Unpacks \X Kinds) \cup Written
    /\ (Unpacks \X Kinds) \cap (Written \cup {Priors[k] : k \in Kinds}) = {}

UnpackTypeOK ==
    /\ overwrite \in Overwrites
    /\ dest \in Slots
    /\ \A slot \in {staged, stash, initial, moved} : slot \in [Unpacks -> Slots]
    /\ published \in [Unpacks -> SUBSET Kinds]
    /\ at \in [Unpacks -> UnpackPhases \X Kinds]
    /\ undoFailed \in [Unpacks -> BOOLEAN]
    /\ verdict \in [Unpacks -> {"none", "ok", "exists", "failed", "restored", "retained",
                                "uncleaned"}]
    /\ deleted \in [Unpacks -> SUBSET Entries]
    /\ meddled \subseteq Written /\ faults \in 0 .. MaxIoFaults
    /\ \A u \in Unpacks : (verdict[u] # "none") <=> (at[u][1] \in {"clean", "end"})

UnpackInit ==
    /\ overwrite \in Overwrites
    /\ dest \in {d \in Slots : \A k \in Kinds : d[k] \in {Priors[k], None}}
    /\ staged = [u \in Unpacks |-> Nothing]
    /\ stash = [u \in Unpacks |-> Nothing]
    /\ initial = [u \in Unpacks |-> Nothing]
    /\ moved = [u \in Unpacks |-> Nothing]
    /\ published = [u \in Unpacks |-> {}]
    /\ at = [u \in Unpacks |-> <<"probe", "dir">>]
    /\ undoFailed = [u \in Unpacks |-> FALSE]
    /\ verdict = [u \in Unpacks |-> "none"]
    /\ deleted = [u \in Unpacks |-> {}]
    /\ meddled = {}
    /\ faults = 0

-----------------------------------------------------------------------------
(* Where a call goes next.                                                 *)

UnpackAt(u, phase, k) == at[u] = <<phase, k>>
UnpackGoes(u, phase, k) == at' = [at EXCEPT ![u] = <<phase, k>>] /\ UNCHANGED verdict

\* The loops: forward over the artifacts, and reverse while undoing.
Forth(u, k, phase, after) ==
    IF k = "dir" THEN UnpackGoes(u, phase, "toc") ELSE UnpackGoes(u, after, "dir")
Back(u, k, phase, after) ==
    IF k = "toc" THEN UnpackGoes(u, phase, "dir") ELSE UnpackGoes(u, after, "toc")

Tell(u, phase, v) ==
    /\ at' = [at EXCEPT ![u] = <<phase, "dir">>]
    /\ verdict' = [verdict EXCEPT ![u] = v]

\* rollback_failure begins with what was published last.
Undo(u) == UnpackGoes(u, "find", "toc")

Fault == faults < MaxIoFaults /\ faults' = faults + 1
UndoFails(u) == undoFailed' = [undoFailed EXCEPT ![u] = TRUE]

-----------------------------------------------------------------------------
(* unpack_with, up to the transaction.                                     *)

\* identity_if_present of the two destinations; without overwrite they must be free.
Probe(u, k) ==
    /\ UnpackAt(u, "probe", k)
    /\ \/ /\ initial' = [initial EXCEPT ![u][k] = dest[k]]
          /\ IF k = "toc" /\ overwrite[u] = "fail" /\ initial'[u] # Nothing
               THEN Tell(u, "end", "exists")
               ELSE Forth(u, k, "probe", "expand")
          /\ UNCHANGED faults
       \/ Fault /\ Tell(u, "end", "failed") /\ UNCHANGED initial
    /\ UNCHANGED <<dest, staged, stash, moved, published, undoFailed, deleted, meddled>>

\* The stage is made and the official tool runs in it; whatever fails here has
\* touched nothing but the stage.
Expand(u) ==
    /\ UnpackAt(u, "expand", "dir")
    /\ staged' = [staged EXCEPT ![u] = [k \in Kinds |-> New(u, k)]]
    /\ \/ overwrite[u] = "fail" /\ UnpackGoes(u, "check", "dir")
       \/ overwrite[u] = "replace" /\ UnpackGoes(u, "look", "dir")
       \/ Tell(u, "clean", "failed")
    /\ UNCHANGED <<dest, stash, initial, moved, published, undoFailed, deleted,
                   meddled, faults>>

\* path_present once more, after the tool has run.
CheckFree(u, k) ==
    /\ UnpackAt(u, "check", k)
    /\ \/ dest[k] = None /\ Forth(u, k, "check", "look") /\ UNCHANGED faults
       \/ dest[k] # None /\ Tell(u, "clean", "exists") /\ UNCHANGED faults
       \/ Fault /\ Tell(u, "clean", "failed")
    /\ UNCHANGED <<dest, staged, stash, initial, moved, published, undoFailed, deleted,
                   meddled>>

-----------------------------------------------------------------------------
(* publish_transaction.                                                    *)

\* A destination is stashed only if it still is what was found before the expansion.
Look(u, k) ==
    /\ UnpackAt(u, "look", k)
    /\ \/ /\ dest[k] = initial[u][k]
          /\ IF dest[k] = None THEN Forth(u, k, "look", "publish")
                              ELSE UnpackGoes(u, "stash", k)
          /\ UNCHANGED faults
       \/ dest[k] # initial[u][k] /\ Undo(u) /\ UNCHANGED faults
       \/ Fault /\ Undo(u)
    /\ UNCHANGED <<dest, staged, stash, initial, moved, published, undoFailed, deleted,
                   meddled>>

StashIt(u, k) ==
    /\ dest[k] # None
    /\ stash' = [stash EXCEPT ![u][k] = dest[k]]
    /\ dest' = [dest EXCEPT ![k] = None]

StashUnverified(u, k) ==
    /\ UnpackAt(u, "stash", k)
    /\ \/ /\ StashIt(u, k)
          /\ moved' = [moved EXCEPT ![u][k] = dest[k]]
          /\ Forth(u, k, "look", "publish") /\ UNCHANGED faults
       \/ Fault /\ Undo(u) /\ UNCHANGED <<dest, stash, moved>>
    /\ UNCHANGED <<staged, initial, published, undoFailed, deleted, meddled>>

\* The rename takes what is there now; identity of the stash tells what that was.
Stash(u, k) ==
    /\ UnpackAt(u, "stash", k)
    /\ \/ /\ StashIt(u, k)
          /\ moved' = [moved EXCEPT ![u][k] = dest[k]]
          /\ IF dest[k] = initial[u][k] THEN Forth(u, k, "look", "publish") ELSE Undo(u)
          /\ UNCHANGED faults
       \/ StashIt(u, k) /\ Fault /\ Undo(u) /\ UNCHANGED moved
       \/ dest[k] = None /\ Undo(u) /\ UNCHANGED <<dest, stash, moved, faults>>
       \/ Fault /\ Undo(u) /\ UNCHANGED <<dest, stash, moved>>
    /\ UNCHANGED <<staged, initial, published, undoFailed, deleted, meddled>>

\* rename_noreplace of the new artifact into place.
Publish(u, k) ==
    /\ UnpackAt(u, "publish", k)
    /\ \/ /\ dest[k] = None
          /\ dest' = [dest EXCEPT ![k] = staged[u][k]]
          /\ staged' = [staged EXCEPT ![u][k] = None]
          /\ published' = [published EXCEPT ![u] = @ \cup {k}]
          /\ UnpackGoes(u, "confirm", k) /\ UNCHANGED faults
       \/ dest[k] # None /\ Undo(u) /\ UNCHANGED <<dest, staged, published, faults>>
       \/ Fault /\ Undo(u) /\ UNCHANGED <<dest, staged, published>>
    /\ UNCHANGED <<stash, initial, moved, undoFailed, deleted, meddled>>

\* If it is not the new artifact that is there now, everything is kept.
Confirm(u, k) ==
    /\ UnpackAt(u, "confirm", k)
    /\ \/ /\ dest[k] = New(u, k)
          /\ IF k = "dir" THEN UnpackGoes(u, "publish", "toc") ELSE Tell(u, "clean", "ok")
          /\ UNCHANGED <<undoFailed, faults>>
       \/ dest[k] # New(u, k) /\ UndoFails(u) /\ Undo(u) /\ UNCHANGED faults
       \/ Fault /\ UndoFails(u) /\ Undo(u)
    /\ UNCHANGED <<dest, staged, stash, initial, moved, published, deleted, meddled>>

-----------------------------------------------------------------------------
(* rollback_failure: every artifact is tried, whatever happened to others. *)

\* A published artifact is taken back only if it still is the new one.
Find(u, k) ==
    /\ UnpackAt(u, "find", k)
    /\ \/ /\ k \notin published[u]
          /\ Back(u, k, "find", "restore") /\ UNCHANGED <<undoFailed, faults>>
       \/ /\ k \in published[u] /\ dest[k] = New(u, k)
          /\ UnpackGoes(u, "unpublish", k) /\ UNCHANGED <<undoFailed, faults>>
       \/ /\ k \in published[u] /\ UndoFails(u) /\ Back(u, k, "find", "restore")
          /\ \/ dest[k] # New(u, k) /\ UNCHANGED faults
             \/ Fault
    /\ UNCHANGED <<dest, staged, stash, initial, moved, published, deleted, meddled>>

Unpublish(u, k) ==
    /\ UnpackAt(u, "unpublish", k)
    /\ Back(u, k, "find", "restore")
    /\ \/ /\ dest[k] # None
          /\ staged' = [staged EXCEPT ![u][k] = dest[k]]
          /\ dest' = [dest EXCEPT ![k] = None]
          /\ published' = [published EXCEPT ![u] = @ \ {k}]
          /\ \/ dest[k] = New(u, k) /\ UNCHANGED <<undoFailed, faults>>
             \/ dest[k] # New(u, k) /\ UndoFails(u) /\ UNCHANGED faults
             \/ Fault /\ UndoFails(u)
       \/ /\ UndoFails(u) /\ UNCHANGED <<dest, staged, published>>
          /\ \/ dest[k] = None /\ UNCHANGED faults
             \/ Fault
    /\ UNCHANGED <<stash, initial, moved, deleted, meddled>>

\* What was stashed, and was identified, goes back without replacing anything.
Restore(u, k) ==
    /\ UnpackAt(u, "restore", k)
    /\ \/ /\ stash[u][k] = None
          /\ Back(u, k, "restore", "undone") /\ UNCHANGED <<dest, stash, undoFailed,
                                                            faults>>
       \/ /\ stash[u][k] # None /\ moved[u][k] # None /\ dest[k] = None
          /\ dest' = [dest EXCEPT ![k] = stash[u][k]]
          /\ stash' = [stash EXCEPT ![u][k] = None]
          /\ UnpackGoes(u, "verify", k) /\ UNCHANGED <<undoFailed, faults>>
       \/ /\ stash[u][k] # None
          /\ UndoFails(u) /\ Back(u, k, "restore", "undone") /\ UNCHANGED <<dest, stash>>
          /\ \/ (moved[u][k] = None \/ dest[k] # None) /\ UNCHANGED faults
             \/ Fault
    /\ UNCHANGED <<staged, initial, moved, published, deleted, meddled>>

VerifyRestored(u, k) ==
    /\ UnpackAt(u, "verify", k)
    /\ Back(u, k, "restore", "undone")
    /\ \/ dest[k] = moved[u][k] /\ UNCHANGED <<undoFailed, faults>>
       \/ dest[k] # moved[u][k] /\ UndoFails(u) /\ UNCHANGED faults
       \/ Fault /\ UndoFails(u)
    /\ UNCHANGED <<dest, staged, stash, initial, moved, published, deleted, meddled>>

\* The stage is retained after any rollback error; otherwise it goes.
Undone(u) ==
    /\ UnpackAt(u, "undone", "toc")
    /\ IF undoFailed[u] THEN Tell(u, "end", "retained") ELSE Tell(u, "clean", "restored")
    /\ UNCHANGED <<dest, staged, stash, initial, moved, published, undoFailed, deleted,
                   meddled,
                   faults>>

-----------------------------------------------------------------------------
(* The end of the stage, and everybody else.                               *)

InStage(u) == {staged[u][k] : k \in Kinds} \cup {stash[u][k] : k \in Kinds}

\* cleanup_stage: remove_dir_all, which may give up half-way.
CleanStage(u) ==
    /\ UnpackAt(u, "clean", "dir")
    /\ \/ /\ deleted' = [deleted EXCEPT ![u] = InStage(u) \ {None}]
          /\ Tell(u, "end", verdict[u]) /\ UNCHANGED faults
       \/ /\ Fault
          /\ \E gone \in SUBSET (InStage(u) \ {None}) :
                deleted' = [deleted EXCEPT ![u] = gone]
          /\ Tell(u, "end", IF verdict[u] = "ok" THEN "uncleaned" ELSE verdict[u])
    /\ LET left(slot) == [k \in Kinds |-> IF slot[k] \in deleted'[u] THEN None ELSE slot[k]]
       IN  /\ staged' = [staged EXCEPT ![u] = left(@)]
           /\ stash' = [stash EXCEPT ![u] = left(@)]
    /\ UNCHANGED <<dest, initial, moved, published, undoFailed, meddled>>

\* Another program puts an entry of its own at a destination, or removes what is there.
Meddle(e, k) ==
    /\ e \notin meddled
    /\ meddled' = meddled \cup {e}
    /\ dest' \in {[dest EXCEPT ![k] = e], [dest EXCEPT ![k] = None]}
    /\ UNCHANGED <<staged, stash, initial, moved, published, at, undoFailed, verdict,
                   deleted,
                   faults>>

UnpackStep(u) ==
    \/ \E k \in Kinds :
          \/ Probe(u, k) \/ CheckFree(u, k) \/ Look(u, k) \/ Stash(u, k)
          \/ Publish(u, k) \/ Confirm(u, k)
          \/ Find(u, k) \/ Unpublish(u, k) \/ Restore(u, k) \/ VerifyRestored(u, k)
    \/ Expand(u) \/ Undone(u) \/ CleanStage(u)

UnpackNext ==
    /\ \/ \E u \in Unpacks : UnpackStep(u)
       \/ \E e \in Written, k \in Kinds : Meddle(e, k)
    /\ UNCHANGED overwrite

UnpackSpec == UnpackInit /\ [][UnpackNext]_unpackVars

-----------------------------------------------------------------------------
(* Properties.                                                             *)

\* With its stage an unpack deletes its own artifacts and, once both of them are
\* published, the entries it had found before the expansion; never an entry that
\* another program or another unpack put there, however the renames interleave.
ForeignEntriesAreKept ==
    \A u \in Unpacks : \A e \in deleted[u] :
        \/ \E k \in Kinds : e = New(u, k)
        \/ published[u] = Kinds /\ \E k \in Kinds : e = initial[u][k]

\* "destination state restored" is true: nothing this unpack made is at a
\* destination, and nothing it took from one is left in its stage.
RestoredIsRestored ==
    \A u \in Unpacks : verdict[u] = "restored" =>
        /\ \A k \in Kinds : dest[k] # New(u, k)
        /\ stash[u] = Nothing

\* Directory and toc are of one expansion: when every unpack has ended, none with
\* artifacts to recover by hand, nobody else meddled and somebody succeeded, both
\* destinations hold the artifacts of one unpack.
PairStaysTogether ==
    (/\ \A u \in Unpacks : at[u][1] = "end" /\ verdict[u] # "retained"
     /\ meddled = {}
     /\ \E u \in Unpacks : verdict[u] \in {"ok", "uncleaned"})
    => \E u \in Unpacks : \A k \in Kinds : dest[k] = New(u, k)

\* project_unpack publishes both artifacts or puts everything back, and deletes nothing
\* that is not its own to delete.
UnpackIsAllOrNothing ==
    UnpackTypeOK /\ ForeignEntriesAreKept /\ RestoredIsRestored /\ PairStaysTogether
=============================================================================
