---------------------------- MODULE StorageProofs --------------------------
(***************************************************************************)
(* What the daemon keeps in files and in its process table, for every      *)
(* number of components, calls, exports, user files, spawns and clients:   *)
(* the blacklist of the palette index, the files that exports put aside,   *)
(* what a launch is told, and the settings.                                *)
(***************************************************************************)
EXTENDS PaletteStore, EvidenceExport, TdLifecycle, Settings, TLAPS

-----------------------------------------------------------------------------
(* The palette index.                                                      *)

\* An index a call may work on: only an entry has failures, and one that used up its
\* failures is blacklisted.
SoundIndex(i) ==
    /\ i \in Index
    /\ \A t \in Toxes : /\ i.fails[t] > 0 => t \in i.known
                        /\ i.fails[t] >= AutoIgnoreAfter => t \in i.ignored

\* The count of a component in an index is that of the failures in a row reported of it,
\* unless the component is in C.
Counts(i, C) == \A t \in Toxes \ C : i.fails[t] = strikes[t]

\* The file can be read, or was when a call that is about to save loaded it.
Readable == index # None \/ \E k \in Callers : ppc[k] \in Saving

\* Calls overwrite each other's edits, but each saves what is sound given what it loaded,
\* and what it loaded has the right counts where it is still what the file says.
PaletteInv ==
    /\ PaletteTypeOK
    /\ Readable => SoundIndex(index) /\ Counts(index, clobbered)
    /\ \A k \in Callers : SoundIndex(copy[k])

\* A first index is sound.
LEMMA EmptyIndexIsSound == SoundIndex(EmptyIndex)
BY PaletteAssumption DEF SoundIndex, EmptyIndex, Index

\* Every edit of an index keeps it sound.
LEMMA ScannedIsSound ==
    ASSUME NEW i, SoundIndex(i)
    PROVE  SoundIndex(Scanned(i))
BY DEF SoundIndex, Scanned, ScanInto, Index

\* Forgetting a component keeps an index sound.
LEMMA WithoutIsSound ==
    ASSUME NEW i, SoundIndex(i), NEW ts \in SUBSET Toxes
    PROVE  SoundIndex(Without(i, ts))
<1> DEFINE fails == [t \in Toxes |-> IF t \in ts THEN 0 ELSE i.fails[t]]
<1>1. i \in Index /\ fails \in [Toxes -> 0 .. AutoIgnoreAfter]
  BY PaletteAssumption DEF SoundIndex, Index
<1>2. Without(i, ts) = [i EXCEPT !.known = @ \ ts, !.suspect = @ \ ts,
                               !.ignored = @ \ ts, !.fails = fails]
  BY DEF Without
<1>3. \A t \in Toxes : /\ fails[t] > 0 => t \in i.known \ ts
                       /\ fails[t] >= AutoIgnoreAfter => t \in i.ignored \ ts
  BY PaletteAssumption DEF SoundIndex, Index
<1> HIDE DEF fails
<1> QED
  BY <1>1, <1>2, <1>3 DEF SoundIndex, Index

\* unignore of a component that has no entry leaves its count, which is 0.
LEMMA UnignoredIsSound ==
    ASSUME NEW i, SoundIndex(i), NEW t \in Toxes
    PROVE  SoundIndex(Unignored(i, t))
<1> DEFINE fails == [i.fails EXCEPT ![t] = IF t \in i.known THEN 0 ELSE @]
<1>1. i \in Index /\ fails \in [Toxes -> 0 .. AutoIgnoreAfter]
  BY PaletteAssumption DEF SoundIndex, Index
<1>2. Unignored(i, t) = [i EXCEPT !.patterns = @ \ {t}, !.ignored = @ \ {t},
                                !.fails = fails]
  BY <1>1 DEF Unignored, Index
<1>3. \A u \in Toxes : /\ fails[u] > 0 => u \in i.known
                       /\ fails[u] >= AutoIgnoreAfter => u \in i.ignored \ {t}
  BY PaletteAssumption DEF SoundIndex, Index
<1> HIDE DEF fails
<1> QED
  BY <1>1, <1>2, <1>3 DEF SoundIndex, Index

\* record_load_success and record_load_failure keep an index sound.
LEMMA RecordedIsSound ==
    ASSUME NEW i, SoundIndex(i), NEW ts \in SUBSET Toxes, NEW bad \in SUBSET ts
    PROVE  SoundIndex(Recorded(i, ts, bad))
<1> DEFINE struck == Struck(i, bad)
           fails == [t \in Toxes |-> IF t \in (ts \ bad) \cap i.known THEN 0 ELSE struck[t]]
<1>1. struck \in [Toxes -> 0 .. AutoIgnoreAfter]
  BY PaletteAssumption DEF SoundIndex, Struck, Index
<1>2. fails \in [Toxes -> 0 .. AutoIgnoreAfter]
  BY <1>1, PaletteAssumption
<1>3. \A t \in Toxes : fails[t] > 0 => t \in i.known
  BY PaletteAssumption DEF SoundIndex, Struck, Index
<1>4. \A t \in Toxes : fails[t] >= AutoIgnoreAfter =>
          t \in i.ignored \/ (t \in bad \cap i.known)
  BY PaletteAssumption DEF SoundIndex, Struck, Index
<1> HIDE DEF struck
<1>5. Recorded(i, ts, bad) =
        [i EXCEPT !.inflight = {}, !.suspect = @ \ ts, !.fails = fails,
                  !.ignored = @ \cup {t \in bad \cap i.known : fails[t] >= AutoIgnoreAfter}]
  BY DEF Recorded, struck
<1> HIDE DEF fails
<1>6. /\ Recorded(i, ts, bad) \in Index
      /\ Recorded(i, ts, bad).fails = fails /\ Recorded(i, ts, bad).known = i.known
      /\ Recorded(i, ts, bad).ignored =
           i.ignored \cup {t \in bad \cap i.known : fails[t] >= AutoIgnoreAfter}
  BY <1>2, <1>5 DEF SoundIndex, Index
<1> QED
  BY <1>2, <1>3, <1>4, <1>6 DEF SoundIndex

\* The palette starts with an index of no component.
LEMMA PaletteInitSound == PaletteInit => PaletteInv
<1> SUFFICES ASSUME PaletteInit PROVE PaletteInv
  OBVIOUS
<1>1. \A t \in Toxes : EmptyIndex.fails[t] = 0 /\ strikes[t] = 0
  BY DEF EmptyIndex, PaletteInit
<1>2. SoundIndex(index) /\ Counts(index, clobbered)
  BY <1>1, EmptyIndexIsSound DEF PaletteInit, Counts
<1>3. \A k \in Callers : SoundIndex(copy[k])
  BY EmptyIndexIsSound DEF PaletteInit
<1>4. PaletteTypeOK
  BY EmptyIndexIsSound, PaletteAssumption DEF PaletteInit, PaletteTypeOK, SoundIndex
<1> QED
  BY <1>2, <1>3, <1>4 DEF PaletteInv

\* A save tallies the failures in bad and the counts it clears as it writes them: what it
\* writes is right given that what it loaded is what the file says.
LEMMA SavedCounts ==
    ASSUME PaletteInv, NEW k \in Callers, ppc[k] \in Saving, NEW i \in Index,
           NEW bad \in SUBSET Toxes, NEW cleared \in SUBSET Toxes,
           Tally(k, bad, cleared), bad \cap cleared = {},
           \A t \in cleared : i.fails[t] = 0,
           \A t \in Toxes \ (bad \cup cleared) : i.fails[t] = copy[k].fails[t],
           \A t \in bad : i.fails[t] = Struck(copy[k], bad)[t]
    PROVE  /\ strikes' \in [Toxes -> 0 .. AutoIgnoreAfter] /\ clobbered' \in SUBSET Toxes
           /\ \A t \in Toxes \ clobbered' : i.fails[t] = strikes'[t]
<1>1. /\ SoundIndex(index) /\ Counts(index, clobbered) /\ SoundIndex(copy[k])
      /\ strikes \in [Toxes -> 0 .. AutoIgnoreAfter] /\ clobbered \in SUBSET Toxes
  BY DEF PaletteInv, PaletteTypeOK, Readable
<1>2. strikes' \in [Toxes -> 0 .. AutoIgnoreAfter] /\ clobbered' \in SUBSET Toxes
  BY <1>1, PaletteAssumption DEF Tally
<1>3. ASSUME NEW t \in Toxes \ clobbered' PROVE i.fails[t] = strikes'[t]
  <2>1. CASE t \in cleared
    BY <2>1 DEF Tally
  <2>2. CASE t \notin cleared
    <3>1. t \notin clobbered /\ UpToDate(k, t)
      BY <2>2, <1>3 DEF Tally
    <3>2. /\ copy[k].fails[t] = strikes[t]
          /\ t \in index.known <=> t \in copy[k].known
      BY <3>1, <1>1 DEF UpToDate, Counts
    <3>3. CASE t \in bad
      BY <2>2, <3>2, <3>3 DEF Tally, Struck
    <3>4. CASE t \notin bad
      BY <2>2, <3>2, <3>4 DEF Tally
    <3> QED
      BY <3>3, <3>4
  <2> QED
    BY <2>1, <2>2
<1> QED
  BY <1>2, <1>3

\* A save that tallies what it writes keeps the palette sound.
LEMMA SaveKeepsSound ==
    ASSUME PaletteInv, NEW k \in Callers, ppc[k] \in Saving,
           NEW i, SoundIndex(i), NEW l \in {"idle", "planned"}, Save(k, i, l),
           NEW bad \in SUBSET Toxes, NEW cleared \in SUBSET Toxes,
           Tally(k, bad, cleared), bad \cap cleared = {},
           \A t \in cleared : i.fails[t] = 0,
           \A t \in Toxes \ (bad \cup cleared) : i.fails[t] = copy[k].fails[t],
           \A t \in bad : i.fails[t] = Struck(copy[k], bad)[t],
           batch' \in [Callers -> SUBSET Toxes], UNCHANGED <<sent, torn>>
    PROVE  PaletteInv'
<1>1. i \in Index
  BY DEF SoundIndex
<1>2. /\ strikes' \in [Toxes -> 0 .. AutoIgnoreAfter] /\ clobbered' \in SUBSET Toxes
      /\ \A t \in Toxes \ clobbered' : i.fails[t] = strikes'[t]
  BY <1>1, SavedCounts
<1>3. index' = i /\ ppc' = [ppc EXCEPT ![k] = l] /\ copy' = [copy EXCEPT ![k] = EmptyIndex]
  BY DEF Save, CallTo
<1>4. PaletteTypeOK'
  BY <1>1, <1>2, <1>3, EmptyIndexIsSound DEF PaletteInv, PaletteTypeOK, SoundIndex
<1>5. SoundIndex(index)' /\ Counts(index, clobbered)'
  BY <1>1, <1>2, <1>3 DEF Counts, SoundIndex
<1>6. \A j \in Callers : SoundIndex(copy[j])'
  BY <1>3, EmptyIndexIsSound DEF PaletteInv, PaletteTypeOK, SoundIndex
<1> QED
  BY <1>4, <1>5, <1>6 DEF PaletteInv, SoundIndex

\* Every load, edit and save of the palette keeps the file sound.
LEMMA PaletteStepSound == PaletteInv /\ [PaletteNext]_paletteVars => PaletteInv'
<1> SUFFICES ASSUME PaletteInv, [PaletteNext]_paletteVars PROVE PaletteInv'
  OBVIOUS
<1> USE DEF PaletteInv, PaletteTypeOK, CallAt, CallTo, Load, Counts, Readable, tallies
<1>0. CASE UNCHANGED paletteVars
  BY <1>0 DEF paletteVars, SoundIndex, Saving
<1>1. ASSUME NEW k \in Callers, CallLoads(k) PROVE PaletteInv'
  BY <1>1 DEF CallLoads, SoundIndex, Saving
<1>2. ASSUME NEW k \in Callers, Edit(k) PROVE PaletteInv'
  <2>1. ASSUME NEW i, SoundIndex(i), i.fails = copy[k].fails, SaveRest(k, i, "idle"),
               ppc[k] \in Saving
        PROVE  PaletteInv'
    <3> HIDE DEF PaletteInv
    <3>1. batch' \in [Callers -> SUBSET Toxes] /\ UNCHANGED <<sent, torn>>
      BY <1>2 DEF Edit, PaletteInv
    <3> QED
      BY <2>1, <3>1, SaveKeepsSound DEF SaveRest
  <2>2. SoundIndex(copy[k])
    OBVIOUS
  <2>0. ppc[k] \in Saving
    BY <1>2 DEF Edit, Saving
  <2>3. CASE SaveRest(k, Scanned(copy[k]), "idle")
    <3>1. Scanned(copy[k]).fails = copy[k].fails
      BY <2>2 DEF Scanned, ScanInto, SoundIndex, Index
    <3> QED
      BY <2>0, <2>1, <2>2, <2>3, <3>1, ScannedIsSound
  <2>4. CASE SaveRest(k, copy[k], "idle")
    BY <2>0, <2>1, <2>2, <2>4
  <2>5. ASSUME NEW t \in Toxes,
               SaveRest(k, [copy[k] EXCEPT !.patterns = @ \cup {t}], "idle")
        PROVE  PaletteInv'
    <3> DEFINE i == [copy[k] EXCEPT !.patterns = @ \cup {t}]
    <3>1. SoundIndex(i) /\ i.fails = copy[k].fails
      BY <2>2 DEF SoundIndex, Index
    <3> HIDE DEF i
    <3>2. SaveRest(k, i, "idle")
      BY <2>5 DEF i
    <3> QED
      BY <2>0, <2>1, <3>1, <3>2
  <2>6. ASSUME NEW t \in Toxes,
               Save(k, Unignored(copy[k], t), "idle"), Tally(k, {}, {t})
        PROVE  PaletteInv'
    <3>1. /\ Unignored(copy[k], t).fails[t] = 0
          /\ \A u \in Toxes \ {t} : Unignored(copy[k], t).fails[u] = copy[k].fails[u]
      BY <2>2, PaletteAssumption DEF Unignored, SoundIndex, Index
    <3>2. batch' \in [Callers -> SUBSET Toxes] /\ UNCHANGED <<sent, torn>>
      BY <1>2 DEF Edit
    <3> HIDE DEF PaletteInv
    <3> QED
      BY <2>0, <2>2, <2>6, <3>1, <3>2, UnignoredIsSound, SaveKeepsSound
  <2>7. ASSUME NEW ts \in SUBSET copy[k].known,
               Save(k, Without(copy[k], ts), "idle"), Tally(k, {}, ts)
        PROVE  PaletteInv'
    <3>1. ts \in SUBSET Toxes
      BY <2>2, <2>7 DEF SoundIndex, Index
    <3>2. /\ \A t \in ts : Without(copy[k], ts).fails[t] = 0
          /\ \A t \in Toxes \ ts : Without(copy[k], ts).fails[t] = copy[k].fails[t]
      BY <2>2, <3>1 DEF Without, SoundIndex, Index
    <3>3. batch' \in [Callers -> SUBSET Toxes] /\ UNCHANGED <<sent, torn>>
      BY <1>2 DEF Edit
    <3> HIDE DEF PaletteInv
    <3> QED
      BY <2>0, <2>2, <2>7, <3>1, <3>2, <3>3, WithoutIsSound, SaveKeepsSound
  <2> HIDE DEF PaletteInv
  <2> QED
    BY <1>2, <2>3, <2>4, <2>5, <2>6, <2>7 DEF Edit
<1>3. ASSUME NEW k \in Callers, CallRefused(k) PROVE PaletteInv'
  BY <1>3, EmptyIndexIsSound DEF CallRefused, SoundIndex, Saving
<1>4. ASSUME NEW k \in Callers, Plan(k) PROVE PaletteInv'
  <2>1. PICK ts \in SUBSET copy[k].known, forced \in BOOLEAN :
          LET chosen == {t \in ts : forced \/ ~IsIgnored(copy[k], t)}
          IN /\ batch' = [batch EXCEPT ![k] = chosen]
             /\ SaveRest(k, [copy[k] EXCEPT !.inflight = chosen],
                         IF chosen = {} THEN "idle" ELSE "planned")
    BY <1>4 DEF Plan
  <2> DEFINE chosen == {t \in ts : forced \/ ~IsIgnored(copy[k], t)}
  <2>2. chosen \in SUBSET Toxes /\ SoundIndex(copy[k])
    BY DEF SoundIndex, Index
  <2> DEFINE i == [copy[k] EXCEPT !.inflight = chosen]
             l == IF chosen = {} THEN "idle" ELSE "planned"
  <2>3. SoundIndex(i) /\ i.fails = copy[k].fails /\ l \in {"idle", "planned"}
    BY <2>2 DEF SoundIndex, Index
  <2>4. /\ Save(k, i, l) /\ Tally(k, {}, {}) /\ ppc[k] \in Saving
        /\ batch' = [batch EXCEPT ![k] = chosen]
        /\ UNCHANGED <<sent, torn>>
    BY <1>4, <2>1 DEF Plan, SaveRest, Saving
  <2>5. batch' \in [Callers -> SUBSET Toxes]
    BY <2>2, <2>4
  <2> HIDE DEF i, l, chosen, PaletteInv
  <2> QED
    BY <2>3, <2>4, <2>5, SaveKeepsSound
<1>5. ASSUME NEW k \in Callers, SlotRefused(k) PROVE PaletteInv'
  BY <1>5 DEF SlotRefused, SoundIndex, Saving
<1>6. ASSUME NEW k \in Callers, Dispatch(k) PROVE PaletteInv'
  BY <1>6 DEF Dispatch, SoundIndex, Saving
<1>7. ASSUME NEW k \in Callers, ProbeLost(k) PROVE PaletteInv'
  BY <1>7 DEF ProbeLost, SoundIndex, Saving
<1>8. ASSUME NEW k \in Callers, ReloadIndex(k) PROVE PaletteInv'
  BY <1>8 DEF ReloadIndex, SoundIndex, Saving
<1>9. ASSUME NEW k \in Callers, FoldBack(k) PROVE PaletteInv'
  <2>1. /\ batch' \in [Callers -> SUBSET Toxes] /\ UNCHANGED <<sent, torn>>
        /\ ppc[k] \in Saving
    BY <1>9 DEF FoldBack, Saving
  <2>2. SoundIndex(copy[k]) /\ batch[k] \in SUBSET Toxes
    OBVIOUS
  <2>3. SoundIndex([copy[k] EXCEPT !.inflight = {}])
    BY <2>2 DEF SoundIndex, Index
  <2>4. ASSUME NEW bad \in SUBSET batch[k],
               Save(k, Recorded(copy[k], batch[k], bad), "idle"),
               Tally(k, bad, batch[k] \ bad)
        PROVE  PaletteInv'
    <3> DEFINE i == Recorded(copy[k], batch[k], bad)
    <3>1. i.fails = [t \in Toxes |-> IF t \in (batch[k] \ bad) \cap copy[k].known THEN 0
                                     ELSE Struck(copy[k], bad)[t]]
      BY <2>2 DEF Recorded, SoundIndex, Index
    <3>2. /\ \A t \in batch[k] \ bad : i.fails[t] = 0
          /\ \A t \in Toxes \ (bad \cup (batch[k] \ bad)) : i.fails[t] = copy[k].fails[t]
          /\ \A t \in bad : i.fails[t] = Struck(copy[k], bad)[t]
      BY <2>2, <3>1, PaletteAssumption DEF Struck, SoundIndex, Index
    <3>3. SoundIndex(i)
      BY <2>2, RecordedIsSound
    <3>4. bad \in SUBSET Toxes /\ batch[k] \ bad \in SUBSET Toxes
      BY <2>2
    <3>5. Save(k, i, "idle") /\ Tally(k, bad, batch[k] \ bad)
      BY <2>4
    <3> HIDE DEF i, PaletteInv
    <3> QED
      BY <2>1, <3>2, <3>3, <3>4, <3>5, SaveKeepsSound
  <2>5. CASE SaveRest(k, [copy[k] EXCEPT !.inflight = {}], "idle")
    <3> DEFINE i == [copy[k] EXCEPT !.inflight = {}]
    <3>1. SoundIndex(i) /\ i.fails = copy[k].fails
      BY <2>2, <2>3 DEF SoundIndex, Index
    <3>2. Save(k, i, "idle") /\ Tally(k, {}, {})
      BY <2>5 DEF SaveRest
    <3> HIDE DEF i, PaletteInv
    <3> QED
      BY <2>1, <3>1, <3>2, SaveKeepsSound
  <2>6. CASE /\ CallTo(k, "idle") /\ UNCHANGED <<index, tallies>>
             /\ copy' = [copy EXCEPT ![k] = EmptyIndex]
    BY <2>1, <2>6, EmptyIndexIsSound DEF SoundIndex, Saving
  <2> HIDE DEF PaletteInv
  <2> QED
    BY <1>9, <2>4, <2>5, <2>6 DEF FoldBack
<1>10. ASSUME NEW k \in Callers, FoldBackFails(k) PROVE PaletteInv'
  BY <1>10 DEF FoldBackFails, SoundIndex, Saving
<1>11. CASE PaletteCrash
  BY <1>11, EmptyIndexIsSound, PaletteAssumption DEF PaletteCrash, SoundIndex, Saving
<1> QED
  BY <1>0, <1>1, <1>2, <1>3, <1>4, <1>5, <1>6, <1>7, <1>8, <1>9, <1>10, <1>11
     DEF PaletteNext

\* Whichever calls run, interleave and die: in every index.json that can be read, a
\* component whose count no save took back has as many failures as were reported of it in
\* a row, and is blacklisted when they are AutoIgnoreAfter.
THEOREM RepeatOffendersAreIgnored == PaletteSpec => []RepeatOffenderIsIgnored
<1>1. PaletteInv => RepeatOffenderIsIgnored
  BY DEF PaletteInv, RepeatOffenderIsIgnored, SoundIndex, Counts, Readable
<1> QED
  BY <1>1, PaletteInitSound, PaletteStepSound, PTL DEF PaletteSpec

-----------------------------------------------------------------------------
(* The user's directory under exports.                                     *)

\* Exports whose caller holds a receipt.
Received == {x \in Exports : outcome[x] = "ok"}

\* An export that has not touched the destination yet: its backup is still to be made.
Untouched(x) == outcome[x] = "pending" /\ (running = x => stage \in {"staged", "prepared"})

\* Every directory a power loss may bring back has the user's files and the received
\* exports, and room for the backup of each export that may still need it; the export
\* that was renamed into place is there, and on disk once the parent is synced.
DiskKeeps ==
    \A d \in disk : /\ made \subseteq Files(d)
                   /\ Received \subseteq Files(d)
                   /\ \A x \in Exports : Untouched(x) => d.backup[x] = None

ExportInv ==
    /\ ExportTypeOK
    /\ DiskKeeps
    /\ running # None => open /\ outcome[running] = "pending"
    /\ stage \in {"renamed", "published"} => running \in Files(dir)
    /\ stage = "synced" => \A d \in disk : running \in Files(d)

\* e has every file of d, and no backup d has not, but perhaps that of an export in X.
Succeeds(d, e, X) ==
    /\ e \in Directory
    /\ Files(d) \ {None} \subseteq Files(e)
    /\ \A y \in Exports \ X : d.backup[y] = None => e.backup[y] = None

\* Staging an export, whatever a power loss may bring back of its directory.
LEMMA StagingSucceeds ==
    ASSUME dir \in Directory, NEW x \in Exports
    PROVE  Succeeds(dir, Staged(x), {}) /\ Succeeds(dir, Unstaged(x), {})
BY DEF Succeeds, Staged, Unstaged, Files, Directory

\* Nothing is overwritten: the three renames find their place free.
LEMMA PublishingSucceeds ==
    ASSUME dir \in Directory, NEW x \in Exports, dir.dest = None
    PROVE  Succeeds(dir, Published(x), {}) /\ x \in Files(Published(x))
BY DEF Succeeds, Published, Files, Directory, Contents

\* Setting the user's file aside loses neither it nor an earlier one.
LEMMA DisplacingSucceeds ==
    ASSUME dir \in Directory, NEW x \in Exports, dir.backup[x] = None
    PROVE  Succeeds(dir, Displaced(x), {x})
<1> DEFINE b == [dir.backup EXCEPT ![x] = dir.dest]
<1>1. b \in [Exports -> Contents] /\ dir.dest \in Contents /\ None \in Contents
  BY DEF Directory, Contents
<1>2. Displaced(x) = [dir EXCEPT !.backup = b, !.dest = None]
  BY DEF Displaced
<1>3. \A y \in Exports : b[y] = IF y = x THEN dir.dest ELSE dir.backup[y]
  BY DEF Directory
<1> HIDE DEF b
<1>4. Displaced(x) \in Directory /\ Displaced(x).backup = b /\ Displaced(x).dest = None
  BY <1>1, <1>2 DEF Directory
<1> QED
  BY <1>3, <1>4 DEF Succeeds, Files

\* Putting the user's file back after a publish that failed.
LEMMA RestoringSucceeds ==
    ASSUME dir \in Directory, NEW x \in Exports, dir.dest = None, NEW ts \in SUBSET Exports
    PROVE  /\ Succeeds(dir, Restored(x), {})
           /\ Succeeds(dir, [Restored(x) EXCEPT !.temp = ts], {})
<1> DEFINE b == [dir.backup EXCEPT ![x] = None]
           r == [dir EXCEPT !.dest = dir.backup[x], !.backup = b]
           s == [r EXCEPT !.temp = ts]
<1>1. b \in [Exports -> Contents] /\ dir.backup[x] \in Contents
  BY DEF Directory, Contents
<1>2. \A y \in Exports : b[y] = IF y = x THEN None ELSE dir.backup[y]
  BY DEF Directory
<1>3. Restored(x) = r /\ [Restored(x) EXCEPT !.temp = ts] = s
  BY DEF Restored
<1> HIDE DEF b
<1>4. r \in Directory /\ r.backup = b /\ r.dest = dir.backup[x]
  BY <1>1 DEF Directory
<1>5. s \in Directory /\ s.backup = b /\ s.dest = dir.backup[x]
  BY <1>1 DEF Directory
<1> HIDE DEF r, s
<1>6. \A e : e.backup = b /\ e.dest = dir.backup[x] => Files(dir) \ {None} \subseteq Files(e)
  BY <1>2 DEF Files
<1>7. \A y \in Exports : dir.backup[y] = None => b[y] = None
  BY <1>2
<1> QED
  BY <1>3, <1>4, <1>5, <1>6, <1>7 DEF Succeeds

\* A directory that succeeds the current one keeps what the disk keeps, as long as no
\* receipt is given and every export that may still need a backup has none.
LEMMA DiskFollows ==
    ASSUME ExportInv, NEW X \in SUBSET Exports, Succeeds(dir, dir', X),
           disk' \subseteq disk \cup {dir'}, dir' \in disk',
           made' = made, Received' \subseteq Received,
           \A y \in Exports : Untouched(y)' => Untouched(y) /\ y \notin X
    PROVE  DiskKeeps' /\ disk' \subseteq Directory
<1>1. dir \in disk /\ disk \subseteq Directory /\ made \subseteq UserFiles /\ DiskKeeps
  BY DEF ExportInv, ExportTypeOK
<1>2. None \notin made /\ None \notin Received
  BY <1>1, ExportAssumption DEF Received
<1>3. ASSUME NEW d \in disk'
      PROVE  /\ made' \subseteq Files(d) /\ Received' \subseteq Files(d)
             /\ \A y \in Exports : Untouched(y)' => d.backup[y] = None
  <2>1. CASE d \in disk
    BY <1>1, <2>1 DEF DiskKeeps
  <2>2. CASE d = dir'
    BY <1>1, <1>2, <2>2 DEF DiskKeeps, Succeeds
  <2> QED
    BY <1>3, <2>1, <2>2
<1> QED
  BY <1>1, <1>3 DEF DiskKeeps, Succeeds

\* A step of an export that leaves the directory alone.
LEMMA NothingMovedSucceeds ==
    ASSUME dir \in Directory PROVE Succeeds(dir, dir, {})
BY DEF Succeeds

\* Before any export, the directory holds what the user put there.
LEMMA ExportInitInv == ExportInit => ExportInv
<1> SUFFICES ASSUME ExportInit PROVE ExportInv
  OBVIOUS
<1>1. dir \in Directory /\ disk = {dir} /\ dir.dest = Present
      /\ \A x \in Exports : dir.backup[x] = None
  BY ExportAssumption DEF ExportInit, Directory, Contents
<1>2. ExportTypeOK
  BY <1>1, ExportAssumption DEF ExportInit, ExportTypeOK
<1>3. DiskKeeps
  BY <1>1 DEF ExportInit, DiskKeeps, Received, Files
<1> QED
  BY <1>2, <1>3 DEF ExportInit, ExportInv

\* The steps of an export.
LEMMA ExportKeepsInv ==
    ASSUME ExportInv, NEW x \in Exports, Export(x)
    PROVE  ExportInv'
<1> USE ExportAssumption
    DEF ExportTypeOK, ExportAt, ExportReturns, ExportGoes, Change, Journal, JournalMaybe
<1>1. dir \in Directory /\ x # None /\ ExportTypeOK
  BY DEF ExportInv
<1>2. Succeeds(dir, dir, {}) /\ Succeeds(dir, Staged(x), {}) /\ Succeeds(dir, Unstaged(x), {})
  BY <1>1, NothingMovedSucceeds, StagingSucceeds
<1>3. CASE Stage(x)
  <2>1. Succeeds(dir, dir', {})
    BY <1>2, <1>3 DEF Stage
  <2>0. Received' \subseteq Received /\ \A y \in Exports : Untouched(y)' => Untouched(y)
    BY <1>1, <1>3 DEF Stage, Received, Untouched
  <2>2. DiskKeeps' /\ disk' \subseteq Directory
    BY <1>1, <1>3, <2>1, <2>0, DiskFollows DEF Stage
  <2> QED
    BY <1>1, <1>3, <2>1, <2>2 DEF Stage, ExportInv, Succeeds
<1>4. CASE Prepare(x)
  <2>1. Succeeds(dir, dir', {})
    BY <1>2, <1>4 DEF Prepare
  <2>0. Received' \subseteq Received /\ \A y \in Exports : Untouched(y)' => Untouched(y)
    BY <1>1, <1>4 DEF Prepare, Received, Untouched
  <2>2. DiskKeeps' /\ disk' \subseteq Directory
    BY <1>1, <1>4, <2>1, <2>0, DiskFollows DEF Prepare
  <2> QED
    BY <1>1, <1>4, <2>1, <2>2 DEF Prepare, ExportInv, Succeeds
<1>5. CASE PublishNew(x)
  <2>1. Succeeds(dir, dir', {}) /\ (stage' = "renamed" => x \in Files(dir'))
    BY <1>1, <1>2, <1>5, PublishingSucceeds DEF PublishNew
  <2>0. Received' \subseteq Received /\ \A y \in Exports : Untouched(y)' => Untouched(y)
    BY <1>1, <1>5 DEF PublishNew, Received, Untouched
  <2>2. DiskKeeps' /\ disk' \subseteq Directory
    BY <1>1, <1>5, <2>1, <2>0, DiskFollows DEF PublishNew
  <2> QED
    BY <1>1, <1>5, <2>1, <2>2 DEF PublishNew, ExportInv, Succeeds
<1>6. CASE Displace(x)
  <2>1. dir.backup[x] = None
    BY <1>1, <1>6 DEF Displace, ExportInv, DiskKeeps, Untouched
  <2>2. Succeeds(dir, dir', {x})
    BY <1>1, <1>2, <1>6, <2>1, DisplacingSucceeds DEF Displace, Succeeds
  <2>0. Received' \subseteq Received /\ \A y \in Exports : Untouched(y)' => Untouched(y) /\ y # x
    BY <1>1, <1>6 DEF Displace, Received, Untouched
  <2>3. DiskKeeps' /\ disk' \subseteq Directory
    BY <1>1, <1>6, <2>2, <2>0, DiskFollows DEF Displace
  <2> QED
    BY <1>1, <1>6, <2>2, <2>3 DEF Displace, ExportInv, Succeeds
<1>7. CASE RecordBackup(x)
  <2>0. Received' \subseteq Received /\ \A y \in Exports : Untouched(y)' => Untouched(y)
    BY <1>1, <1>7 DEF RecordBackup, Received, Untouched
  <2>1. DiskKeeps' /\ disk' \subseteq Directory
    BY <1>1, <1>2, <1>7, <2>0, DiskFollows DEF RecordBackup
  <2> QED
    BY <1>1, <1>7, <2>1 DEF RecordBackup, ExportInv
<1>8. CASE Replace(x)
  <2>1. Succeeds(dir, dir', {}) /\ (stage' = "renamed" => x \in Files(dir'))
    <3>1. dir.dest = None =>
            Succeeds(dir, [Restored(x) EXCEPT !.temp = dir.temp \ {x}], {})
      BY <1>1, RestoringSucceeds DEF Directory
    <3> QED
      BY <1>1, <1>2, <1>8, <3>1, PublishingSucceeds DEF Replace
  <2>0. Received' \subseteq Received /\ \A y \in Exports : Untouched(y)' => Untouched(y)
    BY <1>1, <1>8 DEF Replace, Received, Untouched
  <2>2. DiskKeeps' /\ disk' \subseteq Directory
    BY <1>1, <1>8, <2>1, <2>0, DiskFollows DEF Replace
  <2> QED
    BY <1>1, <1>8, <2>1, <2>2 DEF Replace, ExportInv, Succeeds
<1>9. CASE RecordPublished(x)
  <2>0. Received' \subseteq Received /\ \A y \in Exports : Untouched(y)' => Untouched(y)
    BY <1>1, <1>9 DEF RecordPublished, Received, Untouched
  <2>1. DiskKeeps' /\ disk' \subseteq Directory
    BY <1>1, <1>2, <1>9, <2>0, DiskFollows DEF RecordPublished
  <2> QED
    BY <1>1, <1>9, <2>1 DEF RecordPublished, ExportInv
<1>10. CASE SyncParent(x)
  <2>0. Received' \subseteq Received /\ \A y \in Exports : Untouched(y)' => Untouched(y)
    BY <1>1, <1>10 DEF SyncParent, Received, Untouched
  <2>1. DiskKeeps' /\ disk' \subseteq Directory
    BY <1>1, <1>2, <1>10, <2>0, DiskFollows DEF SyncParent
  <2> QED
    BY <1>1, <1>10, <2>1 DEF SyncParent, ExportInv
<1>11. CASE ClearJournal(x)
  <2>1. \A d \in disk : x \in Files(d)
    BY <1>11 DEF ClearJournal, ExportInv
  <2>2. Received' \subseteq Received \cup {x}
    BY <1>1, <1>11 DEF ClearJournal, Received
  <2>3. \A y \in Exports : Untouched(y)' => Untouched(y)
    BY <1>1, <1>11 DEF ClearJournal, Untouched
  <2>4. DiskKeeps'
    BY <1>11, <2>1, <2>2, <2>3 DEF ClearJournal, ExportInv, DiskKeeps
  <2> QED
    BY <1>1, <1>11, <2>4 DEF ClearJournal, ExportInv
<1> QED
  BY <1>3, <1>4, <1>5, <1>6, <1>7, <1>8, <1>9, <1>10, <1>11 DEF Export

\* The repair of what a dead process left.
LEMMA ResolveKeepsInv ==
    ASSUME ExportInv, NEW x \in Exports, Resolve(x)
    PROVE  ExportInv'
<1> USE ExportAssumption DEF Change, Journal, Repair
<1>1. dir \in Directory /\ ExportTypeOK
  BY DEF ExportInv, ExportTypeOK
<1>2. UNCHANGED <<running, stage, outcome, made, open, losses>> /\ ~open
  BY DEF Resolve, ResolvePrepared, ResolvePublished, ResolveBackedUp, FirstJournal
<1>3. /\ Succeeds(dir, dir', {}) /\ dir' \in disk' /\ disk' \subseteq disk \cup {dir'}
      /\ journal' = [journal EXCEPT ![x] = "none"]
  <2>1. CASE ResolvePrepared(x)
    BY <1>1, <2>1, StagingSucceeds DEF ResolvePrepared
  <2>2. CASE ResolvePublished(x)
    BY <1>1, <2>2, StagingSucceeds, PublishingSucceeds DEF ResolvePublished
  <2>3. CASE ResolveBackedUp(x)
    <3>1. Succeeds(dir, Restored(x), {})
      BY <1>1, <2>3, RestoringSucceeds DEF ResolveBackedUp, Directory
    <3> QED
      BY <1>1, <2>3, <3>1, PublishingSucceeds DEF ResolveBackedUp
  <2> QED
    BY <2>1, <2>2, <2>3 DEF Resolve
<1>4. DiskKeeps' /\ disk' \subseteq Directory
  <2>1. Received' = Received /\ \A y \in Exports : Untouched(y)' => Untouched(y)
    BY <1>2 DEF Received, Untouched
  <2> QED
    BY <1>2, <1>3, <2>1, DiskFollows
<1>5. stage = "idle"
  BY <1>1, <1>2 DEF ExportInv, ExportTypeOK
<1> QED
  BY <1>1, <1>2, <1>3, <1>4, <1>5 DEF ExportInv, ExportTypeOK, Succeeds
-----------------------------------------------------------------------------
\* The user saves at the free destination, and what she saves is on disk.
LEMMA UserSavesKeepsInv ==
    ASSUME ExportInv, NEW u \in UserFiles, UserSaves(u)
    PROVE  ExportInv'
<1>1. dir \in Directory /\ dir \in disk /\ ExportTypeOK /\ u # None
  BY ExportAssumption DEF ExportInv, ExportTypeOK
<1>2. dir' \in Directory /\ dir'.dest = u /\ dir'.backup = dir.backup /\ disk' = {dir'}
  BY <1>1 DEF UserSaves, Directory, Contents
<1>3. (Files(dir) \ {None}) \cup {u} \subseteq Files(dir')
  BY <1>1, <1>2 DEF Files, UserSaves
<1>4. Received' = Received /\ \A y \in Exports : Untouched(y)' => Untouched(y)
  BY DEF Received, Untouched, UserSaves
<1>5. None \notin made /\ None \notin Received
  BY <1>1, ExportAssumption DEF Received, ExportTypeOK
<1>6. DiskKeeps'
  BY <1>1, <1>2, <1>3, <1>4, <1>5 DEF DiskKeeps, ExportInv, UserSaves
<1>7. ASSUME running \in Files(dir), running # None PROVE running' \in Files(dir')
  BY <1>3, <1>7 DEF UserSaves
<1>8. ASSUME stage' \in {"renamed", "published", "synced"} PROVE running' \in Files(dir')
  BY <1>1, <1>7, <1>8 DEF ExportInv, ExportTypeOK, UserSaves
<1> QED
  BY <1>1, <1>2, <1>6, <1>8 DEF ExportInv, ExportTypeOK, UserSaves

\* The daemon dies, and the machine with it or not.
LEMMA DeathKeepsInv ==
    ASSUME ExportInv, DaemonCrash \/ PowerLoss
    PROVE  ExportInv'
<1>1. dir \in disk /\ disk \subseteq Directory /\ ExportTypeOK
  BY DEF ExportInv, ExportTypeOK
<1>2. /\ dir' \in disk' /\ disk' \subseteq disk
      /\ losses < MaxLosses /\ losses' = losses + 1
      /\ open' = FALSE /\ running' = None /\ stage' = "idle"
      /\ outcome' = [x \in Exports |-> IF running = x THEN "lost" ELSE outcome[x]]
      /\ UNCHANGED <<journal, made>>
  BY <1>1 DEF DaemonCrash, PowerLoss, Die
<1>3. Received' \subseteq Received /\ \A y \in Exports : Untouched(y)' => Untouched(y)
  BY <1>2 DEF Received, Untouched
<1>4. DiskKeeps'
  BY <1>2, <1>3 DEF DiskKeeps, ExportInv
<1>5. outcome' \in [Exports -> {"pending", "ok", "error", "uncertain", "lost"}]
  BY <1>1, <1>2 DEF ExportTypeOK
<1>6. losses' \in 0 .. MaxLosses
  BY <1>1, <1>2, ExportAssumption DEF ExportTypeOK
<1> QED
  BY <1>1, <1>2, <1>4, <1>5, <1>6, ExportAssumption DEF ExportInv, ExportTypeOK

\* Every step of an export, every restart and power loss keeps the user's files.
LEMMA ExportStepInv == ExportInv /\ [ExportNext]_exportVars => ExportInv'
<1>1. ASSUME ExportInv, UNCHANGED exportVars PROVE ExportInv'
  BY <1>1 DEF exportVars, ExportInv, ExportTypeOK, DiskKeeps, Received, Untouched
<1>2. ASSUME ExportInv, ExportsReconciled PROVE ExportInv'
  BY <1>2 DEF ExportsReconciled, ExportInv, ExportTypeOK, DiskKeeps, Received, Untouched
<1> QED
  BY <1>1, <1>2, ExportKeepsInv, ResolveKeepsInv, UserSavesKeepsInv, DeathKeepsInv
     DEF ExportNext

\* Whatever fails, dies or is saved in the middle of however many exports, no power loss
\* can bring back a directory without a user's file or an export with a receipt.
THEOREM NoExportLosesAFile == ExportSpec => []NoFileLost
<1>1. ExportInv => NoFileLost
  BY DEF ExportInv, NoFileLost, DiskKeeps, Received
<1> QED
  BY <1>1, ExportInitInv, ExportStepInv, PTL DEF ExportSpec

-----------------------------------------------------------------------------
(* TouchDesigner, its project and its number.                              *)

Before == {"check", "stage", "copy", "publish", "clean", "sync", "launch"}

\* The process of the spawn was started and not reaped.
Owning == {"register", "wait", "look", "reap"}

ToldOK(s) ==
    /\ at[s] \in Before => s \notin launched /\ told[s] = None
    /\ at[s] \in {"register", "wait", "look"} => told[s] = None
    /\ at[s] \in {"reap", "done"} => told[s] # None
    /\ told[s] # None => (told[s] \in Refusals <=> s \notin launched)
    /\ told[s] = "connected" => s \in shaken
    /\ told[s] \in {"exited_early", "timeout_dead"} =>
           \A n \in Numbers : proc[n] # None /\ proc[n].of = s => proc[n].alive = FALSE

\* A number that was given to a spawn is its child's until it is reaped, as a process or
\* as a corpse, and the row that names the spawn is the row of that number.
ChildOK(s) ==
    /\ at[s] \in Owning \cup {"unlist"} => s \in launched /\ child[s] \in Numbers
    /\ at[s] \in Owning => proc[child[s]] # None /\ proc[child[s]].of = s
    /\ \A n \in Numbers : proc[n] # None /\ proc[n].of = s => at[s] \in Owning /\ child[s] = n
    /\ \A n \in Numbers : Own(s, n) =>
          /\ at[s] \in {"wait", "look", "reap", "unlist", "done"}
          /\ at[s] # "done" => child[s] = n
          /\ rows[n].bridge = "connected" /\ at[s] \in {"wait", "look"} => s \in shaken
          /\ rows[n].bridge = "starting" => at[s] # "done"

ProjectOK(s) ==
    /\ at[s] \in {"sync", "launch"} \/ s \in launched => project # None
    /\ at[s] = "publish" => staged[s] = "whole"

SpawnOK(s) == ToldOK(s) /\ ChildOK(s) /\ ProjectOK(s)

LifeInv == LifeTypeOK /\ \A s \in Spawns : SpawnOK(s)

\* A process that ends leaves a corpse, or nothing if nobody owns it.
Ends(m) ==
    \/ proc'[m] = proc[m]
    \/ proc[m] # None /\ proc[m].of = "other" /\ proc'[m] = None
    \/ /\ proc[m] # None /\ proc'[m] # None
       /\ proc'[m].of = proc[m].of /\ proc'[m].alive = FALSE

\* A TouchDesigner that ends keeps its number until it is reaped.
LEMMA EndingLeavesACorpse ==
    ASSUME LifeTypeOK, NEW n, Running(n), proc' = Ended(n)
    PROVE  proc' \in [Numbers -> {None} \cup Process] /\ \A m \in Numbers : Ends(m)
<1>1. \A p \in Process : [p EXCEPT !.alive = FALSE] \in Process
                         /\ [p EXCEPT !.alive = FALSE].of = p.of
                         /\ [p EXCEPT !.alive = FALSE].alive = FALSE
  BY DEF Process
<1>2. proc \in [Numbers -> {None} \cup Process] /\ proc[n] # None /\ None \notin Process
  BY LifeAssumption DEF LifeTypeOK, Running
<1>3. CASE n \in Numbers
  <2>1. proc[n] \in Process
    BY <1>2, <1>3
  <2>2. proc' = [proc EXCEPT ![n] = IF proc[n].of = "other" THEN None
                                    ELSE [proc[n] EXCEPT !.alive = FALSE]]
    BY DEF Ended
  <2>3. \A m \in Numbers : proc'[m] = IF m = n THEN IF proc[n].of = "other" THEN None
                                                    ELSE [proc[n] EXCEPT !.alive = FALSE]
                                      ELSE proc[m]
    BY <1>2, <2>2
  <2>4. \A m \in Numbers : Ends(m)
    BY <1>1, <1>2, <2>1, <2>3 DEF Ends
  <2>5. proc' \in [Numbers -> {None} \cup Process]
    BY <1>1, <1>2, <2>1, <2>2
  <2> QED
    BY <2>4, <2>5
<1>4. CASE n \notin Numbers
  <2>1. proc' = proc
    BY <1>2, <1>4 DEF Ended
  <2> QED
    BY <1>2, <2>1 DEF Ends
<1> QED
  BY <1>3, <1>4

\* The steps of others leave a spawn alone: they may end its process, publish a project,
\* and report its handshake.
LEMMA ApartKeeps ==
    ASSUME NEW t \in Spawns, LifeTypeOK, SpawnOK(t),
           at'[t] = at[t], told'[t] = told[t], child'[t] = child[t],
           at[t] = "publish" => staged'[t] = staged[t],
           t \in launched' <=> t \in launched, shaken \subseteq shaken',
           project # None => project' # None,
           \A n \in Numbers : Ends(n) \/ /\ proc[n] # None => proc[n].of # t
                                         /\ proc'[n] # None => proc'[n].of # t,
           \A n \in Numbers : Own(t, n)' =>
               /\ Own(t, n)
               /\ rows'[n].bridge = "starting" => rows[n].bridge = "starting"
               /\ rows'[n].bridge = "connected" /\ at[t] \in {"wait", "look"} => t \in shaken'
    PROVE  SpawnOK(t)'
<1>1. t # "other"
  BY LifeAssumption
<1>2. ToldOK(t)'
  BY <1>1 DEF SpawnOK, ToldOK, ChildOK, Ends
<1>3. ChildOK(t)'
  <2>1. at'[t] \in Owning => proc'[child'[t]] # None /\ proc'[child'[t]].of = t
    BY <1>1 DEF SpawnOK, ChildOK, Ends
  <2>2. \A n \in Numbers : proc'[n] # None /\ proc'[n].of = t => at'[t] \in Owning /\ child'[t] = n
    BY <1>1 DEF SpawnOK, ChildOK, Ends
  <2>3. \A n \in Numbers : Own(t, n)' =>
          /\ at'[t] \in {"wait", "look", "reap", "unlist", "done"}
          /\ at'[t] # "done" => child'[t] = n
          /\ rows'[n].bridge = "connected" /\ at'[t] \in {"wait", "look"} => t \in shaken'
          /\ rows'[n].bridge = "starting" => at'[t] # "done"
    BY DEF SpawnOK, ChildOK
  <2> QED
    BY <2>1, <2>2, <2>3 DEF SpawnOK, ChildOK
<1>4. ProjectOK(t)'
  BY DEF SpawnOK, ProjectOK
<1> QED
  BY <1>2, <1>3, <1>4 DEF SpawnOK

\* The project is made.
Making(s) ==
    CheckTarget(s) \/ StageProject(s) \/ CopyTemplate(s) \/ PublishProject(s) \/ CleanStage(s)
        \/ SyncDirectory(s)

\* The steps of project creation keep the invariant.
LEMMA MakingKeeps ==
    ASSUME LifeInv, NEW s \in Spawns, Making(s)
    PROVE  LifeInv'
<1> USE DEF Go, Tell, Decline, files, world
<1>1. LifeTypeOK /\ SpawnOK(s) /\ None \notin Outcomes
      /\ at \in [Spawns -> SpawnPCs] /\ told \in [Spawns -> Outcomes \cup {None}]
      /\ staged \in [Spawns -> {None, "part", "whole"}]
      /\ s # None /\ None # "user"
  BY LifeAssumption DEF LifeInv, LifeTypeOK
<1>2. /\ UNCHANGED world /\ at[s] \in Before /\ s \notin launched /\ told[s] = None
      /\ \A t \in Spawns \ {s} : at'[t] = at[t] /\ told'[t] = told[t] /\ staged'[t] = staged[t]
      /\ project' = project \/ (project = None /\ project' = s)
  BY <1>1 DEF Making, CheckTarget, StageProject, CopyTemplate, PublishProject, CleanStage,
              SyncDirectory, SpawnOK, ToldOK, Before
<1>3. /\ at' \in [Spawns -> SpawnPCs] /\ told' \in [Spawns -> Outcomes \cup {None}]
      /\ staged' \in [Spawns -> {None, "part", "whole"}]
  <2>1. Refusals \subseteq Outcomes
    BY DEF Outcomes
  <2>2. /\ "stage" \in SpawnPCs /\ "copy" \in SpawnPCs /\ "publish" \in SpawnPCs
        /\ "clean" \in SpawnPCs /\ "sync" \in SpawnPCs /\ "launch" \in SpawnPCs
        /\ "done" \in SpawnPCs
    BY DEF SpawnPCs
  <2>3. /\ "target_not_found" \in Refusals /\ "template_not_found" \in Refusals
        /\ "template_invalid" \in Refusals /\ "create_failed" \in Refusals
    BY DEF Refusals
  <2> QED
    BY <1>1, <2>1, <2>2, <2>3
       DEF Making, CheckTarget, StageProject, CopyTemplate, PublishProject, CleanStage,
           SyncDirectory
<1>4. LifeTypeOK'
  BY <1>1, <1>2, <1>3 DEF LifeTypeOK
<1>5. /\ \/ at'[s] \in Before \ {"check"} /\ told'[s] = None
         \/ at'[s] = "done" /\ told'[s] \in Refusals
      /\ at'[s] \in {"sync", "launch"} => project' # None
      /\ at'[s] = "publish" => staged'[s] = "whole"
  <2>1. CASE CheckTarget(s)
    BY <1>1, <1>2, <2>1 DEF CheckTarget, Before, Refusals
  <2>2. CASE StageProject(s)
    BY <1>1, <1>2, <2>2 DEF StageProject, Before, Refusals
  <2>3. CASE CopyTemplate(s)
    BY <1>1, <1>2, <2>3 DEF CopyTemplate, Before, Refusals
  <2>4. CASE PublishProject(s)
    BY <1>1, <1>2, <2>4 DEF PublishProject, Before, Refusals
  <2>5. CASE CleanStage(s)
    BY <1>1, <1>2, <2>5 DEF CleanStage, Before, Refusals
  <2>6. CASE SyncDirectory(s)
    BY <1>1, <1>2, <2>6 DEF SyncDirectory, Before, Refusals, SpawnOK, ProjectOK
  <2> QED
    BY <2>1, <2>2, <2>3, <2>4, <2>5, <2>6 DEF Making
<1>6. SpawnOK(s)'
  <2>2. /\ \A n \in Numbers : ~(proc[n] # None /\ proc[n].of = s)
        /\ \A n \in Numbers : ~Own(s, n)
    BY <1>1, <1>2 DEF Before, Owning, SpawnOK, ChildOK
  <2>3. ToldOK(s)'
    BY <1>1, <1>2, <1>5, <2>2 DEF ToldOK, Before, Refusals, LaunchRefusals, Outcomes
  <2>4. ChildOK(s)'
    BY <1>2, <1>5, <2>2 DEF ChildOK, Before, Owning, Own
  <2>5. ProjectOK(s)'
    BY <1>2, <1>5 DEF ProjectOK
  <2> QED
    BY <2>3, <2>4, <2>5 DEF SpawnOK
<1>7. ASSUME NEW t \in Spawns, t # s PROVE SpawnOK(t)'
  <2>1. SpawnOK(t)
    BY DEF LifeInv
  <2>2. \A n \in Numbers : Ends(n)
    BY <1>2 DEF Ends
  <2>3. \A n \in Numbers : Own(t, n)' => /\ Own(t, n) /\ rows'[n] = rows[n]
                                         /\ rows'[n].bridge = "connected" /\ at[t] \in {"wait", "look"} => t \in shaken'
    BY <1>2, <2>1 DEF Own, SpawnOK, ChildOK
  <2> QED
    BY <1>1, <1>2, <1>7, <2>1, <2>2, <2>3, ApartKeeps
<1> QED
  BY <1>4, <1>6, <1>7 DEF LifeInv

\* The steps of a spawn keep the invariant.
LEMMA LaunchKeeps ==
    ASSUME LifeInv, NEW s \in Spawns, Launch(s)
    PROVE  LifeInv'
<1> USE DEF Go, Tell, Decline, files
<1>1. /\ LifeTypeOK /\ SpawnOK(s) /\ None \notin Outcomes /\ None \notin Process
      /\ at \in [Spawns -> SpawnPCs] /\ told \in [Spawns -> Outcomes \cup {None}]
      /\ child \in [Spawns -> Numbers \cup {None}] /\ proc \in [Numbers -> {None} \cup Process]
      /\ at[s] = "launch" /\ s # "other"
  BY LifeAssumption DEF LifeInv, LifeTypeOK, Launch
<1>2. /\ s \notin launched /\ told[s] = None /\ project # None
      /\ \A n \in Numbers : ~(proc[n] # None /\ proc[n].of = s)
      /\ \A n \in Numbers : ~Own(s, n)
  BY <1>1 DEF SpawnOK, ToldOK, ChildOK, ProjectOK, Before, Owning
<1>3. /\ UNCHANGED <<project, staged, rows, shaken, kill, others>>
      /\ \A t \in Spawns \ {s} : at'[t] = at[t] /\ told'[t] = told[t]
  BY <1>1 DEF Launch
<1>4. ASSUME NEW t \in Spawns, t # s, child'[t] = child[t], t \in launched' <=> t \in launched,
             \A n \in Numbers : \/ proc'[n] = proc[n]
                                \/ proc[n] = None /\ proc'[n] # None /\ proc'[n].of = s
      PROVE  SpawnOK(t)'
  <2>1. SpawnOK(t)
    BY DEF LifeInv
  <2>2. \A n \in Numbers : Ends(n) \/ /\ proc[n] # None => proc[n].of # t
                                      /\ proc'[n] # None => proc'[n].of # t
    BY <1>4 DEF Ends
  <2>3. \A n \in Numbers : Own(t, n)' => /\ Own(t, n) /\ rows'[n] = rows[n]
                                         /\ rows'[n].bridge = "connected" /\ at[t] \in {"wait", "look"} => t \in shaken'
    BY <1>3, <2>1 DEF Own, SpawnOK, ChildOK
  <2> QED
    BY <1>1, <1>3, <1>4, <2>1, <2>2, <2>3, ApartKeeps
<1>5. ASSUME NEW what \in LaunchRefusals, Decline(s, what), UNCHANGED <<child, proc, launched>>
      PROVE  LifeInv'
  <2>1. what \in Refusals /\ what \in Outcomes /\ "done" \in SpawnPCs
    BY <1>5 DEF Refusals, Outcomes, SpawnPCs
  <2>2. LifeTypeOK'
    BY <1>1, <1>3, <1>5, <2>1 DEF LifeTypeOK
  <2>3. ToldOK(s)'
    BY <1>1, <1>2, <1>3, <1>5, <2>1 DEF ToldOK, Before, LaunchRefusals
  <2>4. ChildOK(s)' /\ ProjectOK(s)'
    BY <1>1, <1>2, <1>3, <1>5 DEF ChildOK, ProjectOK, Owning, Own
  <2>5. \A t \in Spawns : t # s => SpawnOK(t)'
    BY <1>4, <1>5
  <2> QED
    BY <2>2, <2>3, <2>4, <2>5 DEF LifeInv, SpawnOK
<1>6. ASSUME NEW n \in Numbers, proc[n] = None,
             proc' = [proc EXCEPT ![n] = [of |-> s, alive |-> TRUE]],
             child' = [child EXCEPT ![s] = n], launched' = launched \cup {s},
             Go(s, "register"), told' = told
      PROVE  LifeInv'
  <2> DEFINE p == [of |-> s, alive |-> TRUE]
  <2>1. p \in Process /\ p # None /\ p.of = s
    <3>1. s \in Spawns \cup {"other"} /\ TRUE \in BOOLEAN
      OBVIOUS
    <3>2. p \in Process
      BY <3>1, Zenon DEF Process
    <3> QED
      BY <1>1, <3>2
  <2> HIDE DEF p
  <2>2. /\ \A m \in Numbers : proc'[m] = IF m = n THEN p ELSE proc[m]
        /\ proc' \in [Numbers -> {None} \cup Process] /\ child' \in [Spawns -> Numbers \cup {None}]
        /\ child'[s] = n /\ \A t \in Spawns \ {s} : child'[t] = child[t]
        /\ at' \in [Spawns -> SpawnPCs] /\ at'[s] = "register"
    BY <1>1, <1>6, <2>1 DEF p, SpawnPCs
  <2>3. LifeTypeOK'
    BY <1>1, <1>3, <1>6, <2>2 DEF LifeTypeOK
  <2>4. ToldOK(s)'
    BY <1>1, <1>2, <1>6, <2>2 DEF ToldOK, Before, Outcomes
  <2>5. ChildOK(s)' /\ ProjectOK(s)'
    BY <1>2, <1>3, <1>6, <2>1, <2>2 DEF ChildOK, ProjectOK, Owning, Own
  <2>6. \A t \in Spawns : t # s => SpawnOK(t)'
    BY <1>4, <1>6, <2>1, <2>2
  <2> QED
    BY <2>3, <2>4, <2>5, <2>6 DEF LifeInv, SpawnOK
<1> QED
  BY <1>5, <1>6 DEF Launch

\* A row that is put into the table or changes its status keeps it.
LEMMA RegisterKeeps ==
    ASSUME LifeInv, NEW s \in Spawns, RegisterSpawn(s)
    PROVE  LifeInv'
<1> USE DEF Go, Tell, files
<1>1. /\ LifeTypeOK /\ SpawnOK(s) /\ None \notin Outcomes /\ None \notin Listed
      /\ at \in [Spawns -> SpawnPCs] /\ told \in [Spawns -> Outcomes \cup {None}]
      /\ rows \in [Numbers -> {None} \cup Listed]
      /\ at[s] = "register" /\ s # "other" /\ s # None
  BY LifeAssumption DEF LifeInv, LifeTypeOK, RegisterSpawn
<1>2. /\ s \in launched /\ child[s] \in Numbers /\ told[s] = None /\ project # None
      /\ proc[child[s]] # None /\ proc[child[s]].of = s
      /\ \A n \in Numbers : proc[n] # None /\ proc[n].of = s => child[s] = n
      /\ \A n \in Numbers : ~Own(s, n)
  BY <1>1 DEF SpawnOK, ToldOK, ChildOK, ProjectOK, Owning
<1>3. /\ UNCHANGED <<project, staged, child, proc, shaken, launched, kill, others>>
      /\ \A t \in Spawns \ {s} : at'[t] = at[t] /\ told'[t] = told[t]
  BY <1>1 DEF RegisterSpawn
<1> DEFINE r == [bridge |-> "starting", spawn |-> s]
<1>4. r \in Listed /\ r # None /\ r.spawn = s /\ r.bridge = "starting"
  BY <1>1 DEF Listed
<1>5. \/ rows' = rows /\ at'[s] = "reap" /\ told'[s] = "conflict"
      \/ rows' = [rows EXCEPT ![child[s]] = r] /\ at'[s] = "wait" /\ told' = told
  BY <1>1 DEF RegisterSpawn
<1> HIDE DEF r
<1>6. \A n \in Numbers : rows'[n] = rows[n] \/ (n = child[s] /\ rows'[n] = r /\ at'[s] = "wait")
  BY <1>1, <1>2, <1>5
<1>7. LifeTypeOK'
  <2>1. at' \in [Spawns -> SpawnPCs] /\ told' \in [Spawns -> Outcomes \cup {None}]
    BY <1>1 DEF RegisterSpawn, SpawnPCs, Outcomes
  <2>2. rows' \in [Numbers -> {None} \cup Listed]
    BY <1>1, <1>4, <1>5
  <2> QED
    BY <1>1, <1>3, <2>1, <2>2 DEF LifeTypeOK
<1>8. ToldOK(s)'
  BY <1>1, <1>2, <1>3, <1>5 DEF ToldOK, Before, Refusals, LaunchRefusals, Outcomes
<1>9. ChildOK(s)' /\ ProjectOK(s)'
  <2>1. \A n \in Numbers : Own(s, n)' => n = child[s] /\ at'[s] = "wait" /\ rows'[n].bridge = "starting"
    BY <1>2, <1>4, <1>6 DEF Own
  <2> QED
    BY <1>2, <1>3, <1>5, <2>1 DEF ChildOK, ProjectOK, Owning
<1>10. ASSUME NEW t \in Spawns, t # s PROVE SpawnOK(t)'
  <2>1. SpawnOK(t)
    BY DEF LifeInv
  <2>2. \A n \in Numbers : Ends(n)
    BY <1>3 DEF Ends
  <2>3. \A n \in Numbers : Own(t, n)' => /\ Own(t, n) /\ rows'[n] = rows[n]
                                         /\ rows'[n].bridge = "connected" /\ at[t] \in {"wait", "look"} => t \in shaken'
    BY <1>3, <1>4, <1>6, <1>10, <2>1 DEF Own, SpawnOK, ChildOK
  <2> QED
    BY <1>1, <1>3, <1>10, <2>1, <2>2, <2>3, ApartKeeps
<1> QED
  BY <1>7, <1>8, <1>9, <1>10 DEF LifeInv, SpawnOK

\* try_wait takes the corpse away.
LEMMA ReapingKeeps ==
    ASSUME LifeInv, NEW s \in Spawns, at[s] \in {"wait", "reap"}, Reaped(s), Go(s, "unlist"),
           UNCHANGED <<files, told, child, rows, shaken, launched, kill, others>>
    PROVE  LifeInv'
<1> USE DEF Go, files
<1>1. /\ LifeTypeOK /\ SpawnOK(s) /\ None \notin Outcomes
      /\ at \in [Spawns -> SpawnPCs] /\ proc \in [Numbers -> {None} \cup Process]
  BY LifeAssumption DEF LifeInv, LifeTypeOK
<1>2. /\ s \in launched /\ child[s] \in Numbers /\ project # None
      /\ proc[child[s]] # None /\ proc[child[s]].of = s
      /\ \A n \in Numbers : proc[n] # None /\ proc[n].of = s => child[s] = n
      /\ told[s] # None => (told[s] \in Refusals <=> s \notin launched)
      /\ told[s] = "connected" => s \in shaken
      /\ \A n \in Numbers : Own(s, n) => child[s] = n
  BY <1>1 DEF SpawnOK, ToldOK, ChildOK, ProjectOK, Owning
<1>3. /\ proc' \in [Numbers -> {None} \cup Process]
      /\ at' \in [Spawns -> SpawnPCs] /\ at'[s] = "unlist"
      /\ \A t \in Spawns \ {s} : at'[t] = at[t]
      /\ \A n \in Numbers : proc'[n] = IF n = child[s] THEN None ELSE proc[n]
  BY <1>1, <1>2 DEF Reaped, SpawnPCs
<1>4. LifeTypeOK'
  BY <1>1, <1>3 DEF LifeTypeOK
<1>5. \A n \in Numbers : ~(proc'[n] # None /\ proc'[n].of = s)
  BY <1>2, <1>3
<1>6. ToldOK(s)'
  BY <1>1, <1>2, <1>3, <1>5 DEF ToldOK, Before
<1>7. ChildOK(s)' /\ ProjectOK(s)'
  BY <1>2, <1>3, <1>5 DEF ChildOK, ProjectOK, Owning, Own
<1>8. ASSUME NEW t \in Spawns, t # s PROVE SpawnOK(t)'
  <2>1. SpawnOK(t)
    BY DEF LifeInv
  <2>2. \A n \in Numbers : Ends(n) \/ /\ proc[n] # None => proc[n].of # t
                                      /\ proc'[n] # None => proc'[n].of # t
    BY <1>2, <1>3, <1>8 DEF Ends
  <2>3. \A n \in Numbers : Own(t, n)' => /\ Own(t, n) /\ rows'[n] = rows[n]
                                         /\ rows'[n].bridge = "connected" /\ at[t] \in {"wait", "look"} => t \in shaken'
    BY <2>1 DEF Own, SpawnOK, ChildOK
  <2> QED
    BY <1>1, <1>3, <1>8, <2>1, <2>2, <2>3, ApartKeeps
<1> QED
  BY <1>4, <1>6, <1>7, <1>8 DEF LifeInv, SpawnOK

\* The waiter looks at the process and at the row, and answers.
LEMMA WaitingKeeps ==
    ASSUME LifeInv, NEW s \in Spawns, WaitTick(s) \/ LookAtRow(s) \/ ReapTick(s)
    PROVE  LifeInv'
<1> USE DEF Go, Tell, files
<1>1. /\ LifeTypeOK /\ SpawnOK(s) /\ None \notin Outcomes
      /\ at \in [Spawns -> SpawnPCs] /\ told \in [Spawns -> Outcomes \cup {None}]
      /\ proc \in [Numbers -> {None} \cup Process] /\ None \notin Process
  BY LifeAssumption DEF LifeInv, LifeTypeOK
\* Only the waiter's own place and answer change.
<1>2. ASSUME UNCHANGED <<files, child, proc, rows, shaken, launched, kill, others>>,
             \A t \in Spawns \ {s} : at'[t] = at[t] /\ told'[t] = told[t],
             at' \in [Spawns -> SpawnPCs], told' \in [Spawns -> Outcomes \cup {None}],
             at[s] \in {"wait", "look"},
             \/ at'[s] \in {"wait", "look"} /\ told'[s] = None
             \/ at'[s] = "reap" /\ ToldOK(s)'
      PROVE  LifeInv'
  <2>1. LifeTypeOK'
    BY <1>1, <1>2 DEF LifeTypeOK
  <2>2. ToldOK(s)'
    BY <1>1, <1>2 DEF ToldOK, Before, Outcomes
  <2>3. ChildOK(s)' /\ ProjectOK(s)'
    BY <1>1, <1>2 DEF SpawnOK, ChildOK, ProjectOK, Owning, Own
  <2>4. ASSUME NEW t \in Spawns, t # s PROVE SpawnOK(t)'
    <3>1. SpawnOK(t)
      BY DEF LifeInv
    <3>2. \A n \in Numbers : Ends(n)
      BY <1>2 DEF Ends
    <3>3. \A n \in Numbers : Own(t, n)' => /\ Own(t, n) /\ rows'[n] = rows[n]
                                           /\ rows'[n].bridge = "connected" /\ at[t] \in {"wait", "look"} => t \in shaken'
      BY <1>2, <3>1 DEF Own, SpawnOK, ChildOK
    <3> QED
      BY <1>1, <1>2, <2>4, <3>1, <3>2, <3>3, ApartKeeps
  <2> QED
    BY <2>1, <2>2, <2>3, <2>4 DEF LifeInv, SpawnOK
<1>3. CASE WaitTick(s)
  <2>1. told[s] = None
    BY <1>1, <1>3 DEF WaitTick, SpawnOK, ToldOK
  <2>2. CASE Go(s, "look") /\ UNCHANGED proc
    BY <1>1, <1>2, <1>3, <2>1, <2>2 DEF WaitTick, SpawnPCs
  <2> QED
    BY <1>3, <2>2, ReapingKeeps DEF WaitTick
<1>4. CASE LookAtRow(s)
  <2>1. /\ told[s] = None /\ at[s] = "look" /\ s \in launched /\ child[s] \in Numbers
        /\ proc[child[s]] # None /\ proc[child[s]].of = s
        /\ \A n \in Numbers : proc[n] # None /\ proc[n].of = s => child[s] = n
        /\ Own(s, child[s]) /\ rows[child[s]].bridge = "connected" => s \in shaken
    BY <1>1, <1>4 DEF LookAtRow, SpawnOK, ToldOK, ChildOK, Owning
  <2>2. /\ at' \in [Spawns -> SpawnPCs] /\ told' \in [Spawns -> Outcomes \cup {None}]
        /\ \A t \in Spawns \ {s} : at'[t] = at[t] /\ told'[t] = told[t]
        /\ UNCHANGED <<files, child, proc, rows, shaken, launched, kill, others>>
    BY <1>1, <1>4 DEF LookAtRow, SpawnPCs, Outcomes, StillAlive
  <2>3. CASE told' = told /\ at'[s] = "wait"
    BY <1>2, <2>1, <2>2, <2>3
  <2>4. CASE told'[s] = "connected" /\ at'[s] = "reap" /\ s \in shaken
    <3>1. ToldOK(s)'
      BY <1>1, <2>1, <2>2, <2>4 DEF ToldOK, Before, Refusals, LaunchRefusals, Outcomes
    <3> QED
      BY <1>2, <2>1, <2>2, <2>4, <3>1
  <2>5. CASE told'[s] = StillAlive(s) /\ at'[s] = "reap"
    <3>1. \/ told'[s] = "timeout_alive"
          \/ told'[s] = "timeout_dead" /\ ~Running(child[s])
      BY <2>5 DEF StillAlive
    <3>2. proc[child[s]].alive \in BOOLEAN
      BY <1>1, <2>1 DEF Process
    <3>3. told'[s] = "timeout_dead" => proc[child[s]].alive = FALSE
      BY <2>1, <3>1, <3>2 DEF Running
    <3>4. ToldOK(s)'
      BY <1>1, <2>1, <2>2, <2>5, <3>1, <3>3
         DEF ToldOK, Before, Refusals, LaunchRefusals, Outcomes
    <3> QED
      BY <1>2, <2>1, <2>2, <2>5, <3>4
  <2>6. \/ told' = told /\ at'[s] = "wait"
        \/ told'[s] = "connected" /\ at'[s] = "reap" /\ Connected(child[s]) /\ Own(s, child[s])
        \/ told'[s] = StillAlive(s) /\ at'[s] = "reap"
    BY <1>1, <1>4 DEF LookAtRow
  <2> QED
    BY <2>1, <2>3, <2>4, <2>5, <2>6 DEF Connected
<1>5. CASE ReapTick(s)
  BY <1>5, ReapingKeeps DEF ReapTick
<1> QED
  BY <1>3, <1>4, <1>5

\* A row that leaves the table keeps it.
LEMMA UnlistKeeps ==
    ASSUME LifeInv, NEW s \in Spawns, Unlist(s)
    PROVE  LifeInv'
<1> USE DEF Go, files
<1>1. /\ LifeTypeOK /\ SpawnOK(s) /\ None \notin Outcomes /\ None \notin Listed /\ s # None
      /\ at \in [Spawns -> SpawnPCs] /\ told \in [Spawns -> Outcomes \cup {None}]
      /\ child \in [Spawns -> Numbers \cup {None}] /\ rows \in [Numbers -> {None} \cup Listed]
      /\ at[s] = "unlist"
  BY LifeAssumption DEF LifeInv, LifeTypeOK, Unlist
<1>2. /\ s \in launched /\ child[s] \in Numbers /\ project # None
      /\ \A n \in Numbers : ~(proc[n] # None /\ proc[n].of = s)
      /\ told[s] # None => (told[s] \in Refusals <=> s \notin launched)
      /\ told[s] = "connected" => s \in shaken
      /\ \A n \in Numbers : Own(s, n) => child[s] = n
  BY <1>1 DEF SpawnOK, ToldOK, ChildOK, ProjectOK, Owning
<1>3. /\ UNCHANGED <<project, staged, proc, shaken, launched, kill, others>>
      /\ \A t \in Spawns \ {s} : at'[t] = at[t] /\ told'[t] = told[t] /\ child'[t] = child[t]
      /\ at'[s] = "done" /\ told'[s] = IF told[s] = None THEN "exited_early" ELSE told[s]
  BY <1>1 DEF Unlist
<1>4. \A n \in Numbers : \/ rows'[n] = rows[n] /\ ~(Own(s, n) /\ rows[n].bridge = "starting")
                         \/ rows'[n] = None
  BY <1>1, <1>2 DEF Unlist
<1>5. LifeTypeOK'
  <2>1. /\ at' \in [Spawns -> SpawnPCs] /\ told' \in [Spawns -> Outcomes \cup {None}]
        /\ child' \in [Spawns -> Numbers \cup {None}]
    BY <1>1 DEF Unlist, SpawnPCs, Outcomes
  <2>2. rows' \in [Numbers -> {None} \cup Listed]
    BY <1>1 DEF Unlist
  <2> QED
    BY <1>1, <1>3, <2>1, <2>2 DEF LifeTypeOK
<1>6. ToldOK(s)'
  BY <1>1, <1>2, <1>3 DEF ToldOK, Before, Refusals, LaunchRefusals, Outcomes
<1>7. ChildOK(s)' /\ ProjectOK(s)'
  BY <1>2, <1>3, <1>4 DEF ChildOK, ProjectOK, Owning, Own
<1>8. ASSUME NEW t \in Spawns, t # s PROVE SpawnOK(t)'
  <2>1. SpawnOK(t)
    BY DEF LifeInv
  <2>2. \A n \in Numbers : Ends(n)
    BY <1>3 DEF Ends
  <2>3. \A n \in Numbers : Own(t, n)' => /\ Own(t, n) /\ rows'[n] = rows[n]
                                         /\ rows'[n].bridge = "connected" /\ at[t] \in {"wait", "look"} => t \in shaken'
    BY <1>3, <1>4, <2>1 DEF Own, SpawnOK, ChildOK
  <2> QED
    BY <1>1, <1>3, <1>8, <2>1, <2>2, <2>3, ApartKeeps
<1> QED
  BY <1>5, <1>6, <1>7, <1>8 DEF LifeInv, SpawnOK

\* Whatever else runs on the machine, and the kills.
Around ==
    \/ \E k \in Kills : KillCheck(k) \/ KillStrike(k)
    \/ \E n \in Numbers : Exit(n) \/ OtherStarts(n) \/ Handshake(n) \/ BridgeLost(n) \/ Evict(n)
    \/ UserMakesProject

\* What happens around the spawns: other processes, files and sessions.
LEMMA AroundKeeps ==
    ASSUME LifeInv, Around
    PROVE  LifeInv'
<1> USE DEF files, world
<1>1. /\ LifeTypeOK /\ \A t \in Spawns : SpawnOK(t) /\ t # "other" /\ t # "user" /\ t # None
      /\ None \notin Listed /\ None \notin Process /\ None # "user"
      /\ proc \in [Numbers -> {None} \cup Process] /\ rows \in [Numbers -> {None} \cup Listed]
  BY LifeAssumption DEF LifeInv, LifeTypeOK
\* No row changes, and the processes that were there end or stay.
<1>2. ASSUME UNCHANGED <<staged, at, told, child, rows, shaken, launched>>,
             project' = project \/ (project = None /\ project' = "user"),
             proc' \in [Numbers -> {None} \cup Process],
             \A m \in Numbers : Ends(m) \/ /\ proc[m] = None
                                           /\ proc'[m] # None => proc'[m].of = "other"
      PROVE  LifeInv'
  <2>1. LifeTypeOK'
    BY <1>1, <1>2 DEF LifeTypeOK
  <2>2. ASSUME NEW t \in Spawns PROVE SpawnOK(t)'
    <3>1. \A m \in Numbers : Ends(m) \/ /\ proc[m] # None => proc[m].of # t
                                        /\ proc'[m] # None => proc'[m].of # t
      BY <1>1, <1>2
    <3>2. \A m \in Numbers : Own(t, m)' => /\ Own(t, m) /\ rows'[m] = rows[m]
                                           /\ rows'[m].bridge = "connected" /\ at[t] \in {"wait", "look"} => t \in shaken'
      BY <1>1, <1>2 DEF Own, SpawnOK, ChildOK
    <3> QED
      BY <1>1, <1>2, <3>1, <3>2, ApartKeeps
  <2> QED
    BY <2>1, <2>2 DEF LifeInv
<1>3. ASSUME NEW k \in Kills, KillCheck(k) PROVE LifeInv'
  <2>1. UNCHANGED <<files, at, told, child, proc, rows, shaken, launched>>
    BY <1>3 DEF KillCheck
  <2> QED
    BY <1>1, <1>2, <2>1 DEF Ends
<1>4. ASSUME NEW n, Running(n), proc' = Ended(n),
             UNCHANGED <<files, at, told, child, rows, shaken, launched>>
      PROVE  LifeInv'
  BY <1>1, <1>2, <1>4, EndingLeavesACorpse
<1>5. ASSUME NEW k \in Kills, KillStrike(k) PROVE LifeInv'
  <2>1. UNCHANGED <<files, at, told, child, rows, shaken, launched>>
    BY <1>5 DEF KillStrike
  <2>2. CASE proc' = proc
    BY <1>1, <1>2, <2>1, <2>2 DEF Ends
  <2>3. CASE Running(kill[k].num) /\ proc' = Ended(kill[k].num)
    BY <1>4, <2>1, <2>3
  <2> QED
    BY <1>5, <2>2, <2>3 DEF KillStrike
<1>6. ASSUME NEW n \in Numbers, Exit(n) PROVE LifeInv'
  BY <1>4, <1>6 DEF Exit
<1>7. ASSUME NEW n \in Numbers, OtherStarts(n) PROVE LifeInv'
  <2> DEFINE p == [of |-> "other", alive |-> TRUE]
  <2>1. p \in Process /\ p.of = "other"
    <3>1. "other" \in Spawns \cup {"other"} /\ TRUE \in BOOLEAN
      OBVIOUS
    <3> QED
      BY <3>1, Zenon DEF Process
  <2> HIDE DEF p
  <2>2. /\ proc[n] = None /\ proc' = [proc EXCEPT ![n] = p]
        /\ UNCHANGED <<files, at, told, child, rows, shaken, launched>>
    BY <1>7 DEF OtherStarts, p
  <2>3. \A m \in Numbers : proc'[m] = IF m = n THEN p ELSE proc[m]
    BY <1>1, <2>2
  <2>4. proc' \in [Numbers -> {None} \cup Process]
    BY <1>1, <2>1, <2>2
  <2> QED
    BY <1>1, <1>2, <2>1, <2>2, <2>3, <2>4 DEF Ends
\* One row changes.
<1>8. ASSUME NEW n \in Numbers, NEW r \in {None} \cup Listed, rows' = [rows EXCEPT ![n] = r],
             r # None => /\ r.spawn # None => rows[n] # None /\ rows[n].spawn = r.spawn
                         /\ r.bridge # "starting",
             r # None /\ r.bridge = "connected" => proc[n] # None /\ proc[n].of \in shaken',
             shaken \subseteq shaken',
             UNCHANGED <<files, at, told, child, proc, launched>>
      PROVE  LifeInv'
  <2>1. LifeTypeOK'
    BY <1>1, <1>8 DEF LifeTypeOK
  <2>2. ASSUME NEW t \in Spawns PROVE SpawnOK(t)'
    <3>1. \A m \in Numbers : Ends(m)
      BY <1>8 DEF Ends
    <3>2. \A m \in Numbers : rows'[m] = IF m = n THEN r ELSE rows[m]
      BY <1>1, <1>8
    <3>3. ASSUME NEW m \in Numbers, Own(t, m)'
          PROVE  /\ Own(t, m)
                 /\ rows'[m].bridge = "starting" => rows[m].bridge = "starting"
                 /\ rows'[m].bridge = "connected" /\ at[t] \in {"wait", "look"} => t \in shaken'
      <4>1. CASE m # n
        BY <1>1, <1>8, <3>2, <3>3, <4>1 DEF Own, SpawnOK, ChildOK
      <4>2. CASE m = n
        <5>1. Own(t, n) /\ r # None
          BY <1>1, <1>8, <3>2, <3>3, <4>2 DEF Own
        <5>2. at[t] \in {"wait", "look"} => proc[n].of = t
          BY <1>1, <5>1 DEF SpawnOK, ChildOK, Owning
        <5> QED
          BY <1>8, <3>2, <4>2, <5>1, <5>2
      <4> QED
        BY <4>1, <4>2
    <3> QED
      BY <1>1, <1>8, <3>1, <3>3, ApartKeeps
  <2> QED
    BY <2>1, <2>2 DEF LifeInv
<1>9. ASSUME NEW n \in Numbers, Handshake(n) PROVE LifeInv'
  <2> DEFINE r == [bridge |-> "connected", spawn |-> IF rows[n] = None THEN None ELSE rows[n].spawn]
  <2>1. r \in Listed /\ r.bridge = "connected"
        /\ (r.spawn # None => rows[n] # None /\ rows[n].spawn = r.spawn)
    BY <1>1 DEF Listed
  <2>2. /\ rows' = [rows EXCEPT ![n] = r] /\ shaken' = shaken \cup {proc[n].of} /\ proc[n] # None
        /\ UNCHANGED <<files, at, told, child, proc, launched>>
    BY <1>9 DEF Handshake, Running
  <2> HIDE DEF r
  <2> QED
    BY <1>8, <2>1, <2>2
<1>10. ASSUME NEW n \in Numbers, BridgeLost(n) PROVE LifeInv'
  <2> DEFINE r == [rows[n] EXCEPT !.bridge = "disconnected"]
  <2>1. r \in Listed /\ r.bridge = "disconnected" /\ rows[n] # None /\ rows[n].spawn = r.spawn
    BY <1>1, <1>10 DEF BridgeLost, Connected, Listed
  <2>2. /\ rows' = [rows EXCEPT ![n] = r]
        /\ UNCHANGED <<files, at, told, child, proc, launched, shaken>>
    BY <1>10 DEF BridgeLost
  <2> HIDE DEF r
  <2> QED
    BY <1>8, <2>1, <2>2
<1>11. ASSUME NEW n \in Numbers, Evict(n) PROVE LifeInv'
  BY <1>8, <1>11 DEF Evict
<1>12. CASE UserMakesProject
  BY <1>1, <1>2, <1>12 DEF UserMakesProject, Ends
<1> QED
  BY <1>3, <1>5, <1>6, <1>7, <1>9, <1>10, <1>11, <1>12 DEF Around

\* Nothing is spawned at first.
LEMMA LifeInitKeeps == LifeInit => LifeInv
<1> SUFFICES ASSUME LifeInit PROVE LifeInv
  OBVIOUS
<1>1. LifeTypeOK
  BY DEF LifeInit, LifeTypeOK, SpawnPCs
<1>2. \A s \in Spawns : SpawnOK(s)
  BY LifeAssumption
     DEF LifeInit, SpawnOK, ToldOK, ChildOK, ProjectOK, Before, Owning, Own, Outcomes
<1> QED
  BY <1>1, <1>2 DEF LifeInv

\* Every step of the lifecycle keeps the invariant.
LEMMA LifeStepKeeps == LifeInv /\ [LifeNext]_lifeVars => LifeInv'
<1>1. ASSUME LifeInv, UNCHANGED lifeVars PROVE LifeInv'
  BY <1>1 DEF LifeInv, lifeVars, LifeTypeOK, SpawnOK, ToldOK, ChildOK, ProjectOK, Own
<1>2. ASSUME LifeInv, NEW s \in Spawns,
             \/ Making(s) \/ Launch(s) \/ RegisterSpawn(s)
             \/ WaitTick(s) \/ LookAtRow(s) \/ ReapTick(s) \/ Unlist(s)
      PROVE  LifeInv'
  BY <1>2, MakingKeeps, LaunchKeeps, RegisterKeeps, WaitingKeeps, UnlistKeeps
<1>3. ASSUME LifeInv, Around PROVE LifeInv'
  BY <1>3, AroundKeeps
<1> QED
  BY <1>1, <1>2, <1>3 DEF LifeNext, Making, Around

\* Only a project that nobody made yet is made, and from a file that is whole.
LEMMA ProjectStep ==
    LifeInv /\ [LifeNext]_lifeVars =>
        /\ [project # None => project' = project]_project
        /\ [\A s \in Spawns : project # s /\ project' = s => staged[s] = "whole"]_project
<1> SUFFICES ASSUME LifeInv, LifeNext, project' # project
             PROVE  /\ project = None
                    /\ \A s \in Spawns : project' = s => staged[s] = "whole"
  BY DEF lifeVars
<1>1. (\E s \in Spawns : PublishProject(s)) \/ UserMakesProject
  BY DEF LifeNext, files, world, CheckTarget, StageProject, CopyTemplate, CleanStage, SyncDirectory,
         Launch, RegisterSpawn, WaitTick, LookAtRow, ReapTick, Unlist, KillCheck, KillStrike,
         Exit, OtherStarts, Handshake, BridgeLost, Evict
<1>2. CASE UserMakesProject
  BY <1>2, LifeAssumption DEF UserMakesProject
<1>3. ASSUME NEW s \in Spawns, PublishProject(s)
      PROVE  project = None /\ \A t \in Spawns : project' = t => staged[t] = "whole"
  BY <1>3 DEF PublishProject, files, LifeInv, SpawnOK, ProjectOK
<1> QED
  BY <1>1, <1>2, <1>3

\* What spawn_td tells its caller is so, its project is made at most once and whole, and no
\* reaped process stays in the registry as starting, whoever else publishes a project,
\* starts, ends, is killed or takes over a process number meanwhile.
THEOREM LaunchesAreTold == LifeSpec => LaunchIsTold
<1>1. LifeInv => \A s \in Spawns :
        /\ told[s] \in Refusals <=> told[s] # None /\ s \notin launched
        /\ told[s] = "connected" => s \in shaken
        /\ told[s] \in {"exited_early", "timeout_dead"} =>
               ~\E n \in Numbers : Running(n) /\ proc[n].of = s
        /\ s \in launched => project # None
        /\ at[s] = "done" /\ s \in launched =>
             ~\E n \in Numbers : Own(s, n) /\ rows[n].bridge = "starting"
  <2> SUFFICES ASSUME LifeInv, NEW s \in Spawns
      PROVE  /\ told[s] \in Refusals <=> told[s] # None /\ s \notin launched
             /\ told[s] = "connected" => s \in shaken
             /\ told[s] \in {"exited_early", "timeout_dead"} =>
                    ~\E n \in Numbers : Running(n) /\ proc[n].of = s
             /\ s \in launched => project # None
             /\ at[s] = "done" /\ s \in launched =>
                  ~\E n \in Numbers : Own(s, n) /\ rows[n].bridge = "starting"
    OBVIOUS
  <2>1. SpawnOK(s) /\ None \notin Refusals
    BY LifeAssumption DEF LifeInv, Outcomes
  <2>2. told[s] \in Refusals <=> told[s] # None /\ s \notin launched
    BY <2>1 DEF SpawnOK, ToldOK
  <2>3. told[s] \in {"exited_early", "timeout_dead"} =>
            ~\E n \in Numbers : Running(n) /\ proc[n].of = s
    BY <2>1 DEF SpawnOK, ToldOK, Running
  <2> QED
    BY <2>1, <2>2, <2>3 DEF SpawnOK, ToldOK, ChildOK, ProjectOK
<1>2. LifeInv => LifeTypeOK
  BY DEF LifeInv
<1> QED
  BY <1>1, <1>2, LifeInitKeeps, LifeStepKeeps, ProjectStep, PTL DEF LifeSpec, LaunchIsTold

-----------------------------------------------------------------------------
(* The settings.                                                           *)

Stages == {"idle", "wait", "load", "save", "publish", "done", "refused"}
Value == Values \cup {Bad, None}
Partials == UNION {[S -> Value] : S \in SUBSET Fields}
PatchRow == [at : Stages, edits : Partials, config : Configs \cup {None}, held : BOOLEAN,
             meant : SUBSET Fields]
View == [loaded : Configs, draft : Configs, saving : BOOLEAN, online : BOOLEAN]
Strays == {None, "dropped", "offline", "install", "hand"}

SettingsTyped ==
    /\ file \in Configs \cup {Broken}
    /\ live \in Configs /\ startup \in Configs /\ wanted \in Configs
    /\ patching \in Patches \cup {None}
    /\ patch \in [Patches -> PatchRow]
    /\ view \in View
    /\ install \in Configs \cup {None}
    /\ stray \in Strays
    /\ restarts \in 0 .. MaxRestarts /\ edited \in 0 .. MaxEdits
    /\ \A p \in Patches : /\ DOMAIN patch[p].edits = patch[p].meant
                          /\ patch[p].at \in {"save", "publish", "done"} => patch[p].config \in Configs

Writing(p) == patch[p].at \in {"load", "save", "publish"}

\* What a patch makes of what the daemon serves.
Takes(p) ==
    \A f \in Saved :
        patch[p].config[f] = IF f \in patch[p].meant THEN patch[p].edits[f] ELSE live[f]

\* Nobody has written without the lock: the file is what the daemon serves, but for the
\* patch that has saved and not published yet.
SettingsMatch ==
    /\ install = None /\ file # Broken /\ file[Identity] # None
    /\ \A p \in Patches : Writing(p) => patching = p /\ patch[p].held = TRUE
    /\ \A f \in Saved : live[f] = wanted[f]
    /\ (\A p \in Patches : patch[p].at # "publish") => \A f \in Saved : file[f] = live[f]
    /\ \A p \in Patches : patch[p].at = "save" =>
           Takes(p) /\ patch[p].config[Identity] = file[Identity]
    /\ \A p \in Patches : patch[p].at = "publish" =>
           Takes(p) /\ \A f \in Saved : file[f] = patch[p].config[f]

SettingsInv == SettingsTyped /\ (stray = None => SettingsMatch)

\* What the settings' constants amount to.
LEMMA FieldFacts ==
    /\ Identity \in Fields /\ Binary \in Fields /\ None \notin Patches /\ Identity \in Saved /\ Saved \subseteq Fields
    /\ None \notin Values /\ Bad # None /\ Broken \notin Configs /\ Window \in Patches
    /\ Values \subseteq Value /\ Bad \in Value /\ None \in Value
    /\ Default \in Configs
<1>1. Default \in Configs
  <2>1. (CHOOSE v \in Values : TRUE) \in Values
    BY SettingsAssumption
  <2> QED
    BY <2>1 DEF Default, Configs
<1> QED
  BY <1>1, SettingsAssumption DEF Saved, Patches, Value

\* No patch is a patch.
LEMMA IdleIsAPatch ==
    /\ Idle \in PatchRow /\ Idle.at = "idle" /\ DOMAIN Idle.edits = Idle.meant
<1>1. NoEdits \in [{} -> Value] /\ DOMAIN NoEdits = {}
  BY DEF NoEdits
<1>2. NoEdits \in Partials
  BY <1>1 DEF Partials
<1>3. FALSE \in BOOLEAN
  OBVIOUS
<1> QED
  BY <1>1, <1>2, <1>3 DEF Idle, PatchRow, Stages

\* One patch takes a step.
LEMMA PatchMoves ==
    ASSUME SettingsTyped, NEW p \in Patches, NEW r \in PatchRow,
           DOMAIN r.edits = r.meant, r.at \in {"save", "publish", "done"} => r.config \in Configs,
           patch' = [patch EXCEPT ![p] = r]
    PROVE  /\ patch' \in [Patches -> PatchRow]
           /\ \A q \in Patches : patch'[q] = IF q = p THEN r ELSE patch[q]
           /\ \A q \in Patches :
                /\ DOMAIN patch'[q].edits = patch'[q].meant
                /\ patch'[q].at \in {"save", "publish", "done"} => patch'[q].config \in Configs
<1>1. patch \in [Patches -> PatchRow]
  BY DEF SettingsTyped
<1>2. \A q \in Patches : patch'[q] = IF q = p THEN r ELSE patch[q]
  BY <1>1
<1> QED
  BY <1>1, <1>2 DEF SettingsTyped

\* The edits of a patch's row keep it a row.
LEMMA RowChanges ==
    ASSUME NEW r \in PatchRow, NEW s \in Stages, NEW c \in Configs \cup {None}
    PROVE  /\ [r EXCEPT !.at = s] \in PatchRow
           /\ [r EXCEPT !.held = FALSE] \in PatchRow
           /\ [r EXCEPT !.at = s, !.held = TRUE] \in PatchRow
           /\ [r EXCEPT !.at = s, !.held = FALSE] \in PatchRow
           /\ [r EXCEPT !.at = s, !.config = c] \in PatchRow
<1>1. TRUE \in BOOLEAN /\ FALSE \in BOOLEAN
  OBVIOUS
<1> QED
  BY <1>1, Zenon DEF PatchRow

\* Edits laid over a configuration make a configuration.
LEMMA OverIsConfig ==
    ASSUME NEW e \in Partials, NEW c \in Configs
    PROVE  Over(e, c) \in Configs
<1>1. PICK S \in SUBSET Fields : e \in [S -> Value]
  BY DEF Partials
<1> QED
  BY <1>1 DEF Over, Configs, Value

\* Only the view moves.
Viewing ==
    \/ \E f \in Saved \ {Identity}, v \in Values \cup {Bad} : EditDraft(f, v)
    \/ OpenSettings \/ discard_settings \/ reset_settings \/ StatusPoll

\* The Settings view, apart from its save, touches only itself.
LEMMA ViewingKeeps ==
    ASSUME SettingsInv, Viewing
    PROVE  SettingsInv'
<1>1. SettingsTyped /\ view \in View /\ file \in Configs \cup {Broken} /\ edited \in 0 .. MaxEdits
      /\ MaxEdits \in Nat
  BY SettingsAssumption DEF SettingsInv, SettingsTyped
<1>2. /\ view.loaded \in Configs /\ view.draft \in Configs
      /\ view.saving \in BOOLEAN /\ view.online \in BOOLEAN
  BY <1>1 DEF View
<1>3. UNCHANGED <<file, live, startup, patching, patch, install, wanted, stray, restarts>>
  BY DEF Viewing, EditDraft, OpenSettings, discard_settings, reset_settings, StatusPoll
<1>4. ASSUME NEW d \in Configs
      PROVE  /\ [view EXCEPT !.draft = d] \in View
             /\ \A l \in Configs : [view EXCEPT !.loaded = l, !.draft = d] \in View
  BY <1>1, Zenon DEF View
<1>5. view' \in View /\ edited' \in 0 .. MaxEdits
  <2>1. ASSUME NEW f \in Saved \ {Identity}, NEW v \in Values \cup {Bad}, EditDraft(f, v)
        PROVE  view' \in View /\ edited' \in 0 .. MaxEdits
    <3>1. [view.draft EXCEPT ![f] = v] \in Configs
      BY <1>2, FieldFacts DEF Configs
    <3>2. view' = [view EXCEPT !.draft = [view.draft EXCEPT ![f] = v]]
      BY <2>1 DEF EditDraft
    <3>3. edited' \in 0 .. MaxEdits
      BY <1>1, <2>1 DEF EditDraft
    <3> QED
      BY <1>4, <3>1, <3>2, <3>3
  <2>2. CASE OpenSettings
    BY <1>1, <1>4, <2>2 DEF OpenSettings
  <2>3. CASE discard_settings
    BY <1>1, <1>2, <1>4, <2>3 DEF discard_settings
  <2>4. CASE reset_settings
    <3> DEFINE d == [Default EXCEPT ![Identity] = view.draft[Identity],
                                    ![Binary] = view.draft[Binary]]
    <3>1. d \in Configs
      BY <1>2, FieldFacts DEF Configs
    <3>2. view' = [view EXCEPT !.draft = d]
      BY <2>4 DEF reset_settings
    <3>3. edited' \in 0 .. MaxEdits
      BY <1>1, <2>4 DEF reset_settings
    <3> HIDE DEF d
    <3> QED
      BY <1>4, <3>1, <3>2, <3>3
  <2>5. CASE StatusPoll
    <3>1. [view EXCEPT !.online = ~view.online] \in View
      BY <1>1, Zenon DEF View
    <3> QED
      BY <1>1, <2>5, <3>1 DEF StatusPoll
  <2> QED
    BY <2>1, <2>2, <2>3, <2>4, <2>5 DEF Viewing
<1>6. SettingsTyped'
  BY <1>1, <1>3, <1>5 DEF SettingsTyped
<1>7. (stray = None => SettingsMatch)'
  BY <1>3 DEF SettingsInv, SettingsMatch, Takes, Writing
<1> QED
  BY <1>6, <1>7 DEF SettingsInv

\* A patch moves, and neither the file nor what the daemon serves does.
LEMMA PatchStepKeeps ==
    ASSUME SettingsInv, NEW p \in Patches, NEW r \in PatchRow, patch' = [patch EXCEPT ![p] = r],
           DOMAIN r.edits = r.meant, r.at \in {"save", "publish", "done"} => r.config \in Configs,
           UNCHANGED <<file, live, startup, install, wanted, restarts, edited>>,
           view' \in View, patching' \in Patches \cup {None}, stray' \in Strays,
           stray' = None => stray = None,
           stray' = None =>
               /\ patch[p].at # "publish" /\ r.at # "publish"
               /\ r.at \in {"load", "save"} => patching' = p /\ r.held = TRUE
               /\ r.at = "save" =>
                    /\ r.config[Identity] = file[Identity]
                    /\ \A f \in Saved :
                         r.config[f] = IF f \in r.meant THEN r.edits[f] ELSE live[f]
               /\ \A q \in Patches \ {p} : Writing(q) => patching' = patching
    PROVE  SettingsInv'
<1>1. SettingsTyped
  BY DEF SettingsInv
<1>2. /\ patch' \in [Patches -> PatchRow]
      /\ \A q \in Patches : patch'[q] = IF q = p THEN r ELSE patch[q]
      /\ \A q \in Patches : /\ DOMAIN patch'[q].edits = patch'[q].meant
                            /\ patch'[q].at \in {"save", "publish", "done"} => patch'[q].config \in Configs
  BY <1>1, PatchMoves
<1>3. SettingsTyped'
  BY <1>1, <1>2 DEF SettingsTyped
<1>4. ASSUME stray' = None PROVE SettingsMatch'
  <2>1. SettingsMatch
    BY <1>4 DEF SettingsInv
  <2>2. \A q \in Patches : Writing(q)' => patching' = q /\ patch'[q].held = TRUE
    BY <1>2, <1>4, <2>1 DEF SettingsMatch, Writing
  <2>3. \A q \in Patches : patch'[q].at = "publish" => patch[q].at = "publish"
    BY <1>2, <1>4
  <2>4. (\A q \in Patches : patch'[q].at # "publish") => \A q \in Patches : patch[q].at # "publish"
    BY <1>2, <1>4
  <2>5. \A q \in Patches : patch'[q].at = "save" =>
           Takes(q)' /\ patch'[q].config[Identity] = file'[Identity]
    BY <1>2, <1>4, <2>1 DEF SettingsMatch, Takes
  <2>6. \A q \in Patches : patch'[q].at = "publish" =>
           Takes(q)' /\ \A f \in Saved : file'[f] = patch'[q].config[f]
    BY <1>2, <1>4, <2>1 DEF SettingsMatch, Takes
  <2> QED
    BY <2>1, <2>2, <2>4, <2>5, <2>6 DEF SettingsMatch
<1> QED
  BY <1>3, <1>4 DEF SettingsInv

\* A client asks for a patch.
LEMMA AskingKeeps ==
    ASSUME SettingsInv, NEW r \in Requests, Ask(r)
    PROVE  SettingsInv'
<1>1. SettingsTyped /\ r \in Patches /\ FALSE \in BOOLEAN /\ "wait" \in Stages
      /\ patch[r].at = "idle"
  BY DEF SettingsInv, Patches, Stages, Ask
<1>2. PICK e \in Edits[r] : patch' = [patch EXCEPT ![r] = [Idle EXCEPT !.at = "wait", !.edits = e,
                                                                       !.meant = DOMAIN e]]
  BY DEF Ask
<1> DEFINE n == [Idle EXCEPT !.at = "wait", !.edits = e, !.meant = DOMAIN e]
<1>3. e \in Partials /\ DOMAIN e \in SUBSET Fields
  <2>1. DOMAIN e \in SUBSET Fields /\ e \in [DOMAIN e -> Values \cup {Bad}]
    BY SettingsAssumption
  <2> DEFINE S == DOMAIN e
  <2>2. S \in SUBSET Fields /\ e \in [S -> Values \cup {Bad}]
    BY <2>1
  <2> HIDE DEF S
  <2>3. e \in [S -> Value]
    BY <2>2 DEF Value
  <2> QED
    BY <2>1, <2>2, <2>3 DEF Partials
<1>4. n \in PatchRow
  BY <1>1, <1>3, IdleIsAPatch, Zenon DEF PatchRow
<1>5. n.at = "wait" /\ DOMAIN n.edits = n.meant
  BY IdleIsAPatch DEF PatchRow
<1>6. patch' = [patch EXCEPT ![r] = n]
  BY <1>2
<1> HIDE DEF n
<1>7. UNCHANGED <<file, live, startup, patching, view, install, wanted, stray, restarts, edited>>
  BY DEF Ask
<1>8. view' \in View /\ patching' \in Patches \cup {None} /\ stray' \in Strays
  BY <1>1, <1>7 DEF SettingsTyped
<1> QED
  BY <1>1, <1>4, <1>5, <1>6, <1>7, <1>8, PatchStepKeeps

\* A patch takes the writer lock: nobody else is writing then.
LEMMA LockingKeeps ==
    ASSUME SettingsInv, NEW p \in Patches, Lock(p)
    PROVE  SettingsInv'
<1> DEFINE n == [patch[p] EXCEPT !.at = "load", !.held = TRUE]
<1>1. /\ SettingsTyped /\ patch[p] \in PatchRow /\ patch[p].at = "wait" /\ "load" \in Stages
      /\ None \in Configs \cup {None} /\ DOMAIN patch[p].edits = patch[p].meant
  BY DEF SettingsInv, SettingsTyped, Stages, Lock
<1>2. n \in PatchRow
  BY <1>1, RowChanges
<1>3. n.at = "load" /\ n.held = TRUE /\ DOMAIN n.edits = n.meant
  BY <1>1 DEF PatchRow
<1>4. patch' = [patch EXCEPT ![p] = n]
  BY <1>1 DEF Lock, SettingsTyped
<1> HIDE DEF n
<1>5. /\ patching = None /\ patching' = p
      /\ UNCHANGED <<file, live, startup, view, install, wanted, stray, restarts, edited>>
  BY DEF Lock
<1>6. view' \in View /\ patching' \in Patches \cup {None} /\ stray' \in Strays /\ p # None
  BY <1>1, <1>5, FieldFacts DEF SettingsTyped
<1>7. stray' = None => \A q \in Patches : ~Writing(q)
  BY <1>5, FieldFacts DEF SettingsInv, SettingsMatch
<1> QED
  BY <1>1, <1>2, <1>3, <1>4, <1>5, <1>6, <1>7, PatchStepKeeps

\* A request that ends without an answer leaves everything but itself and the lock.
LEMMA RefusingKeeps ==
    ASSUME SettingsInv, NEW p \in Patches, Refuse(p), patch[p].at \in {"load", "save"},
           UNCHANGED <<file, live, startup, view, install, wanted, stray, restarts, edited>>
    PROVE  SettingsInv'
<1> DEFINE n == [patch[p] EXCEPT !.at = "refused", !.held = FALSE]
<1>1. /\ SettingsTyped /\ patch[p] \in PatchRow /\ "refused" \in Stages
      /\ None \in Configs \cup {None} /\ DOMAIN patch[p].edits = patch[p].meant
  BY DEF SettingsInv, SettingsTyped, Stages
<1>2. n \in PatchRow
  BY <1>1, RowChanges
<1>3. n.at = "refused" /\ DOMAIN n.edits = n.meant
  BY <1>1 DEF PatchRow
<1>4. patch' = [patch EXCEPT ![p] = n]
  BY <1>1 DEF Refuse, SettingsTyped
<1> HIDE DEF n
<1>5. view' \in View /\ patching' \in Patches \cup {None} /\ stray' \in Strays
  BY <1>1 DEF SettingsTyped, Refuse, Free
<1>6. stray' = None => \A q \in Patches \ {p} : Writing(q) => patching' = patching
  BY FieldFacts DEF SettingsInv, SettingsMatch, Writing, Refuse, Free
<1> QED
  BY <1>1, <1>2, <1>3, <1>4, <1>5, <1>6, PatchStepKeeps

\* A patch loads the file and merges its edits into what the daemon serves.
LEMMA MergingKeeps ==
    ASSUME SettingsInv, NEW p \in Patches, LoadAndMerge(p)
    PROVE  SettingsInv'
<1>1. /\ SettingsTyped /\ patch[p] \in PatchRow /\ patch[p].at = "load" /\ "save" \in Stages
      /\ DOMAIN patch[p].edits = patch[p].meant /\ file \in Configs \cup {Broken}
      /\ patch[p].edits \in Partials
  BY DEF SettingsInv, SettingsTyped, Stages, LoadAndMerge, PatchRow
<1>2. UNCHANGED <<file, live, startup, view, install, wanted, stray, restarts, edited>>
  BY DEF LoadAndMerge
<1>3. CASE Refuse(p)
  BY <1>1, <1>2, <1>3, RefusingKeeps
<1>4. CASE ~Refuse(p)
  <2> DEFINE c == Over(patch[p].edits, file)
             n == [patch[p] EXCEPT !.at = "save", !.config = c]
  <2>1. /\ file \in Configs /\ c[Identity] = file[Identity]
        /\ patch' = [patch EXCEPT ![p].at = "save", ![p].config = c]
        /\ UNCHANGED patching
    BY <1>1, <1>4 DEF LoadAndMerge
  <2>2. c \in Configs
    BY <1>1, <2>1, OverIsConfig
  <2>3. \A f \in Saved : c[f] = IF f \in patch[p].meant THEN patch[p].edits[f] ELSE file[f]
    BY <1>1, FieldFacts DEF Over
  <2>4. patch' = [patch EXCEPT ![p] = n]
    BY <1>1, <2>1 DEF SettingsTyped
  <2> HIDE DEF c
  <2>5. n \in PatchRow
    BY <1>1, <2>2, RowChanges
  <2>6. /\ n.at = "save" /\ n.config = c /\ n.held = patch[p].held
        /\ n.edits = patch[p].edits /\ n.meant = patch[p].meant
    BY <1>1 DEF PatchRow
  <2> HIDE DEF n
  <2>7. ASSUME stray' = None
        PROVE  /\ patching = p /\ patch[p].held = TRUE
               /\ \A f \in Saved : file[f] = live[f]
    <3>1. SettingsMatch /\ Writing(p)
      BY <1>1, <1>2, <2>7 DEF SettingsInv, Writing
    <3>2. \A q \in Patches : patch[q].at # "publish"
      BY <1>1, <3>1 DEF SettingsMatch, Writing
    <3> QED
      BY <3>1, <3>2 DEF SettingsMatch
  <2>8. view' \in View /\ patching' \in Patches \cup {None} /\ stray' \in Strays
    BY <1>1, <1>2, <2>1 DEF SettingsTyped
  <2>9. n \in PatchRow /\ n.at # "publish" /\ DOMAIN n.edits = n.meant /\ n.config \in Configs
    BY <1>1, <2>2, <2>5, <2>6
  <2>10. ASSUME stray' = None
         PROVE  /\ patch[p].at # "publish" /\ patching' = p /\ n.held = TRUE
                /\ n.config[Identity] = file[Identity]
                /\ \A f \in Saved : n.config[f] = IF f \in n.meant THEN n.edits[f] ELSE live[f]
                /\ patching' = patching
    <3>1. patching = p /\ n.held = TRUE /\ \A f \in Saved : file[f] = live[f]
      BY <2>6, <2>7, <2>10
    <3> QED
      BY <1>1, <2>1, <2>3, <2>6, <3>1
  <2> QED
    BY <1>2, <2>4, <2>8, <2>9, <2>10, PatchStepKeeps
<1> QED
  BY <1>3, <1>4

\* A dropped request only writes on as a stray.
LEMMA DroppingKeeps ==
    ASSUME SettingsInv, NEW r \in Requests, Drop(r)
    PROVE  SettingsInv'
<1>1. /\ SettingsTyped /\ r \in Patches /\ patch[r] \in PatchRow /\ "refused" \in Stages
      /\ None \in Configs \cup {None} /\ DOMAIN patch[r].edits = patch[r].meant
      /\ patch[r].at \in {"save", "publish", "done"} => patch[r].config \in Configs
  BY DEF SettingsInv, SettingsTyped, Stages, Patches
<1>2. UNCHANGED <<file, live, startup, view, install, wanted, restarts, edited>>
  BY DEF Drop
<1>3. CASE patch[r].at = "wait"
  <2> DEFINE n == [patch[r] EXCEPT !.at = "refused"]
  <2>1. n \in PatchRow
    BY <1>1, RowChanges
  <2>2. n.at = "refused" /\ DOMAIN n.edits = n.meant
    BY <1>1 DEF PatchRow
  <2>3. patch' = [patch EXCEPT ![r] = n] /\ UNCHANGED <<patching, stray>>
    BY <1>1, <1>3 DEF Drop, SettingsTyped
  <2> HIDE DEF n
  <2>4. view' \in View /\ patching' \in Patches \cup {None} /\ stray' \in Strays
    BY <1>1, <1>2, <2>3 DEF SettingsTyped
  <2> QED
    BY <1>1, <1>2, <1>3, <2>1, <2>2, <2>3, <2>4, PatchStepKeeps
<1>4. CASE patch[r].at # "wait"
  <2> DEFINE n == [patch[r] EXCEPT !.held = FALSE]
  <2>1. n \in PatchRow
    BY <1>1, RowChanges
  <2>2. n.at = patch[r].at /\ n.config = patch[r].config /\ DOMAIN n.edits = n.meant
    BY <1>1 DEF PatchRow
  <2>3. patch' = [patch EXCEPT ![r] = n] /\ stray' = "dropped" /\ Free(r)
    BY <1>1, <1>4 DEF Drop, SettingsTyped
  <2> HIDE DEF n
  <2>4. /\ view' \in View /\ patching' \in Patches \cup {None} /\ stray' \in Strays
        /\ stray' # None
    BY <1>1, <1>2, <2>3, SettingsAssumption DEF SettingsTyped, Strays, Free
  <2> QED
    BY <1>1, <1>2, <1>4, <2>1, <2>2, <2>3, <2>4, PatchStepKeeps
<1> QED
  BY <1>3, <1>4

\* A saved patch is in the file before the daemon serves it.
LEMMA SavingKeeps ==
    ASSUME SettingsInv, NEW p \in Patches, SavePatch(p)
    PROVE  SettingsInv'
<1>1. /\ SettingsTyped /\ patch[p] \in PatchRow /\ patch[p].at = "save" /\ "publish" \in Stages
      /\ DOMAIN patch[p].edits = patch[p].meant /\ file \in Configs \cup {Broken}
      /\ patch[p].config \in Configs
  BY DEF SettingsInv, SettingsTyped, Stages, SavePatch, PatchRow
<1>2. UNCHANGED <<live, startup, view, install, wanted, stray, restarts, edited>>
  BY DEF SavePatch
<1>3. CASE Refuse(p) /\ UNCHANGED file
  BY <1>1, <1>2, <1>3, RefusingKeeps
<1>4. CASE /\ SaveFile(patch[p].config)
           /\ patch' = [patch EXCEPT ![p].at = "publish"]
           /\ UNCHANGED patching
  <2> DEFINE n == [patch[p] EXCEPT !.at = "publish"]
  <2>1. n \in PatchRow
    BY <1>1, RowChanges
  <2>2. /\ n.at = "publish" /\ n.config = patch[p].config /\ n.held = patch[p].held
        /\ n.edits = patch[p].edits /\ n.meant = patch[p].meant
    BY <1>1 DEF PatchRow
  <2>3. patch' = [patch EXCEPT ![p] = n]
    BY <1>1, <1>4 DEF SettingsTyped
  <2> HIDE DEF n
  <2>4. /\ patch' \in [Patches -> PatchRow]
        /\ \A q \in Patches : patch'[q] = IF q = p THEN n ELSE patch[q]
        /\ \A q \in Patches : /\ DOMAIN patch'[q].edits = patch'[q].meant
                              /\ patch'[q].at \in {"save", "publish", "done"}
                                   => patch'[q].config \in Configs
    BY <1>1, <2>1, <2>2, <2>3, PatchMoves
  <2>5. /\ file' \in Configs
        /\ \A f \in Saved : file'[f] = patch[p].config[f]
    BY <1>1, <1>4, FieldFacts DEF SaveFile, Configs
  <2>6. SettingsTyped'
    BY <1>1, <1>2, <1>4, <2>4, <2>5 DEF SettingsTyped
  <2>7. ASSUME stray' = None PROVE SettingsMatch'
    <3>1. SettingsMatch /\ Takes(p) /\ Writing(p)
      BY <1>1, <1>2, <2>7 DEF SettingsInv, SettingsMatch, Writing
    <3>2. patching = p /\ \A q \in Patches \ {p} : ~Writing(q)
      BY <3>1 DEF SettingsMatch
    <3>3. \A q \in Patches : Writing(q)' => q = p
      BY <2>4, <3>2 DEF Writing
    <3>4. Takes(p)'
      BY <1>2, <2>2, <2>4, <3>1 DEF Takes
    <3>5. patch'[p].held = TRUE
      BY <2>2, <2>4, <3>1 DEF SettingsMatch
    <3>6. file' # Broken /\ file'[Identity] # None
      BY <1>1, <2>5, <3>1, FieldFacts DEF SettingsMatch
    <3>7. \A q \in Patches : patch'[q].at # "save"
      BY <2>2, <2>4, <3>3 DEF Writing
    <3>8. \A q \in Patches : patch'[q].at = "publish" => q = p
      BY <3>3 DEF Writing
    <3>9. patch'[p].at = "publish" /\ patch'[p].config = patch[p].config
      BY <2>2, <2>4
    <3> QED
      BY <1>2, <1>4, <2>5, <3>1, <3>2, <3>3, <3>4, <3>5, <3>6, <3>7, <3>8, <3>9
      DEF SettingsMatch
  <2> QED
    BY <2>6, <2>7 DEF SettingsInv
<1> QED
  BY <1>3, <1>4 DEF SavePatch

\* A published patch is served and acknowledged at once.
LEMMA PublishingKeeps ==
    ASSUME SettingsInv, NEW p \in Patches, Publish(p)
    PROVE  SettingsInv'
<1> DEFINE n == [patch[p] EXCEPT !.at = "done", !.held = FALSE]
<1>1. /\ SettingsTyped /\ patch[p] \in PatchRow /\ patch[p].at = "publish" /\ "done" \in Stages
      /\ None \in Configs \cup {None}
      /\ DOMAIN patch[p].edits = patch[p].meant /\ patch[p].config \in Configs
      /\ patch[p].edits \in Partials /\ patch[p].meant \in SUBSET Fields
  BY DEF SettingsInv, SettingsTyped, Stages, Publish, PatchRow
<1>2. n \in PatchRow
  BY <1>1, RowChanges
<1>3. n.at = "done" /\ n.config = patch[p].config /\ DOMAIN n.edits = n.meant
  BY <1>1 DEF PatchRow
<1>4. patch' = [patch EXCEPT ![p] = n]
  BY <1>1 DEF Publish, SettingsTyped
<1> HIDE DEF n
<1>5. /\ patch' \in [Patches -> PatchRow]
      /\ \A q \in Patches : patch'[q] = IF q = p THEN n ELSE patch[q]
      /\ \A q \in Patches : /\ DOMAIN patch'[q].edits = patch'[q].meant
                            /\ patch'[q].at \in {"save", "publish", "done"}
                                 => patch'[q].config \in Configs
  BY <1>1, <1>2, <1>3, <1>4, PatchMoves
<1>6. UNCHANGED <<file, startup, view, install, stray, restarts, edited>> /\ Free(p)
  BY DEF Publish
<1>7. wanted' \in Configs /\ live' \in Configs
  <2> DEFINE w == [f \in Fields |-> IF f \in patch[p].meant THEN patch[p].edits[f] ELSE wanted[f]]
  <2>1. w \in Configs
    <3>1. wanted \in Configs
      BY <1>1 DEF SettingsTyped
    <3>2. w = Over(patch[p].edits, wanted)
      BY <1>1 DEF Over
    <3> QED
      BY <1>1, <3>1, <3>2, OverIsConfig
  <2>2. (wanted' = w /\ live' = patch[p].config) \/ (wanted' = wanted /\ live' = live)
    BY DEF Publish
  <2> QED
    BY <1>1, <2>1, <2>2 DEF SettingsTyped
<1>8. patching' \in Patches \cup {None}
  BY <1>1, <1>6 DEF SettingsTyped, Free
<1>9. SettingsTyped'
  BY <1>1, <1>5, <1>6, <1>7, <1>8 DEF SettingsTyped
<1>10. ASSUME stray' = None PROVE SettingsMatch'
  <2>1. SettingsMatch /\ Takes(p) /\ Writing(p)
    BY <1>1, <1>6, <1>10 DEF SettingsInv, SettingsMatch, Writing
  <2>2. patch[p].held = TRUE /\ \A q \in Patches \ {p} : ~Writing(q)
    BY <2>1 DEF SettingsMatch
  <2>3. \A q \in Patches : ~Writing(q)'
    BY <1>3, <1>5, <2>2 DEF Writing
  <2>4. /\ live' = patch[p].config
        /\ wanted' = [f \in Fields |-> IF f \in patch[p].meant THEN patch[p].edits[f]
                                        ELSE wanted[f]]
    BY <2>2 DEF Publish
  <2>5. \A f \in Saved : live'[f] = wanted'[f]
    BY <2>1, <2>4, FieldFacts DEF SettingsMatch, Takes
  <2>6. \A f \in Saved : file'[f] = live'[f]
    BY <1>1, <1>6, <2>1, <2>4 DEF SettingsMatch
  <2>7. \A q \in Patches : patch'[q].at # "save" /\ patch'[q].at # "publish"
    BY <2>3 DEF Writing
  <2>8. install' = None /\ file' # Broken /\ file'[Identity] # None
    BY <1>6, <2>1 DEF SettingsMatch
  <2> QED
    BY <2>3, <2>5, <2>6, <2>7, <2>8 DEF SettingsMatch
<1> QED
  BY <1>9, <1>10 DEF SettingsInv

\* The view asks for its patch, and takes over the answer.
LEMMA SavingViewKeeps ==
    ASSUME SettingsInv, SaveThroughDaemon \/ FinishSave
    PROVE  SettingsInv'
<1>1. /\ SettingsTyped /\ Window \in Patches /\ patch[Window] \in PatchRow /\ view \in View
      /\ view.loaded \in Configs /\ view.draft \in Configs
      /\ patch[Window].at = "done" => patch[Window].config \in Configs
  BY FieldFacts DEF SettingsInv, SettingsTyped, View
<1>2. UNCHANGED <<file, live, startup, patching, install, wanted, stray, restarts, edited>>
  BY DEF SaveThroughDaemon, FinishSave
<1>3. patching' \in Patches \cup {None} /\ stray' \in Strays
  BY <1>1, <1>2 DEF SettingsTyped
<1>4. /\ [view EXCEPT !.saving = TRUE] \in View /\ [view EXCEPT !.saving = FALSE] \in View
      /\ \A c \in Configs :
           [view EXCEPT !.saving = FALSE, !.draft = c, !.loaded = c] \in View
  <2>1. TRUE \in BOOLEAN /\ FALSE \in BOOLEAN
    OBVIOUS
  <2> QED
    BY <1>1, <2>1, Zenon DEF View
<1>5. CASE SaveThroughDaemon
  <2> DEFINE e == Diff(view.loaded, view.draft)
             S == {f \in Fields : view.draft[f] # view.loaded[f]}
             n == [Idle EXCEPT !.at = "wait", !.edits = e, !.meant = S]
  <2>1. patch' = [patch EXCEPT ![Window] = n] /\ view' = [view EXCEPT !.saving = TRUE]
        /\ patch[Window].at = "idle"
    BY <1>5 DEF SaveThroughDaemon
  <2>2. S \in SUBSET Fields /\ DOMAIN e = S /\ e \in [S -> Value]
    BY <1>1 DEF Diff, Configs, Value
  <2> HIDE DEF e, S
  <2>3. e \in Partials /\ "wait" \in Stages
    BY <2>2 DEF Partials, Stages
  <2>4. n \in PatchRow
    BY <2>2, <2>3, IdleIsAPatch, Zenon DEF PatchRow
  <2>5. n.at = "wait" /\ DOMAIN n.edits = n.meant
    BY <2>2, IdleIsAPatch DEF PatchRow
  <2> HIDE DEF n
  <2>6. view' \in View
    BY <1>4, <2>1
  <2> QED
    BY <1>1, <1>2, <1>3, <2>1, <2>4, <2>5, <2>6, PatchStepKeeps
<1>6. CASE FinishSave
  <2>1. patch' = [patch EXCEPT ![Window] = Idle] /\ patch[Window].at \in {"done", "refused"}
    BY <1>6 DEF FinishSave
  <2>2. view' \in View
    <3>1. CASE patch[Window].at = "done"
      BY <1>1, <1>4, <1>6, <3>1 DEF FinishSave
    <3>2. CASE patch[Window].at # "done"
      BY <1>4, <1>6, <3>2 DEF FinishSave
    <3> QED
      BY <3>1, <3>2
  <2> QED
    BY <1>1, <1>2, <1>3, <2>1, <2>2, IdleIsAPatch, PatchStepKeeps
<1> QED
  BY <1>5, <1>6

\* Those who write without the lock say so, and what they write is a configuration.
Outsiders == SaveOffline \/ InstallLoads \/ InstallSaves \/ UserBreaksFile \/ UserStartsAgain

\* Who writes without the lock is a stray.
LEMMA OutsidersKeep ==
    ASSUME SettingsInv, Outsiders
    PROVE  SettingsInv'
<1>1. /\ SettingsTyped /\ file \in Configs \cup {Broken} /\ install \in Configs \cup {None}
      /\ view \in View /\ view.draft \in Configs
  BY DEF SettingsInv, SettingsTyped, View
<1>2. ASSUME NEW c \in Configs, SaveFile(c) PROVE file' \in Configs
  BY <1>1, <1>2 DEF SaveFile, Configs
<1>3. UNCHANGED <<live, startup, patching, patch, wanted, restarts, edited>>
  BY DEF Outsiders, SaveOffline, InstallLoads, InstallSaves, UserBreaksFile, UserStartsAgain
<1>4. stray' \in Strays /\ stray' # None
  <2>1. CASE SaveOffline \/ InstallLoads \/ UserBreaksFile
    BY <2>1, SettingsAssumption DEF SaveOffline, InstallLoads, UserBreaksFile, Strays
  <2>2. CASE InstallSaves \/ UserStartsAgain
    BY <2>2 DEF InstallSaves, UserStartsAgain, SettingsInv, SettingsMatch, SettingsTyped
  <2> QED
    BY <2>1, <2>2 DEF Outsiders
<1>5. file' \in Configs \cup {Broken} /\ install' \in Configs \cup {None} /\ view' \in View
  <2>1. CASE SaveOffline
    BY <1>1, <1>2, <2>1, Zenon DEF SaveOffline, View
  <2>2. CASE InstallLoads
    <3>1. PICK v \in Values : install' = [file EXCEPT ![Binary] = v]
      BY <2>2 DEF InstallLoads
    <3>2. install' \in Configs
      BY <1>1, <2>2, <3>1, FieldFacts DEF InstallLoads, Configs
    <3> QED
      BY <1>1, <2>2, <3>2 DEF InstallLoads
  <2>3. CASE InstallSaves
    BY <1>1, <1>2, <2>3 DEF InstallSaves
  <2>4. CASE UserBreaksFile
    BY <1>1, <2>4 DEF UserBreaksFile
  <2>5. CASE UserStartsAgain
    BY <1>1, <2>5, FieldFacts DEF UserStartsAgain
  <2> QED
    BY <2>1, <2>2, <2>3, <2>4, <2>5 DEF Outsiders
<1>6. SettingsTyped'
  BY <1>1, <1>3, <1>4, <1>5 DEF SettingsTyped
<1> QED
  BY <1>4, <1>6 DEF SettingsInv

\* A daemon that starts serves what is saved: the patch that had reached the file counts
\* as acknowledged, one that had not leaves nothing.
LEMMA RestartingKeeps ==
    ASSUME SettingsInv, DaemonRestarts
    PROVE  SettingsInv'
<1>1. SettingsTyped /\ file \in Configs
  BY DEF SettingsInv, SettingsTyped, DaemonRestarts
<1> DEFINE Told == {f \in Fields : \E p \in Patches : /\ patch[p].at \in {"save", "publish"}
                                                     /\ f \in patch[p].meant}
<1>2. PICK id \in Values :
        LET config == IF file[Identity] = None THEN [file EXCEPT ![Identity] = id] ELSE file
        IN /\ file' = config /\ live' = config /\ startup' = config
           /\ wanted' = [f \in Fields |->
                           IF \E p \in Patches : /\ patch[p].at \in {"save", "publish"}
                                                 /\ f \in patch[p].meant
                             THEN config[f] ELSE wanted[f]]
  BY Zenon DEF DaemonRestarts
<1> DEFINE c == IF file[Identity] = None THEN [file EXCEPT ![Identity] = id] ELSE file
<1>3. /\ file' = c /\ live' = c /\ startup' = c
      /\ wanted' = [f \in Fields |-> IF f \in Told THEN c[f] ELSE wanted[f]]
  BY <1>2
<1>4. c \in Configs
  BY <1>1, FieldFacts DEF Configs
<1>5. file[Identity] # None => c = file
  OBVIOUS
<1> HIDE DEF c, Told
<1>6. /\ patching' = None /\ restarts' = restarts + 1 /\ restarts < MaxRestarts
      /\ UNCHANGED <<view, install, stray, edited>>
      /\ patch' = [p \in Patches |->
                     IF patch[p].at \in {"wait", "load", "save", "publish"}
                       THEN [patch[p] EXCEPT !.at = "refused", !.held = FALSE] ELSE patch[p]]
  BY DEF DaemonRestarts
<1>7. \A p \in Patches :
        /\ patch'[p] \in PatchRow /\ DOMAIN patch'[p].edits = patch'[p].meant
        /\ patch'[p].at \in {"save", "publish", "done"} => patch'[p].config \in Configs
        /\ ~Writing(p)'
  <2> SUFFICES ASSUME NEW p \in Patches
               PROVE  /\ patch'[p] \in PatchRow /\ DOMAIN patch'[p].edits = patch'[p].meant
                      /\ patch'[p].at \in {"save", "publish", "done"} => patch'[p].config \in Configs
                      /\ ~Writing(p)'
    OBVIOUS
  <2> DEFINE n == [patch[p] EXCEPT !.at = "refused", !.held = FALSE]
  <2>1. /\ patch[p] \in PatchRow /\ DOMAIN patch[p].edits = patch[p].meant
        /\ patch[p].at \in {"save", "publish", "done"} => patch[p].config \in Configs
        /\ "refused" \in Stages /\ None \in Configs \cup {None}
    BY <1>1 DEF SettingsTyped, Stages
  <2>2. n \in PatchRow
    BY <2>1, RowChanges
  <2>3. n.at = "refused" /\ DOMAIN n.edits = n.meant
    BY <2>1 DEF PatchRow
  <2>4. patch'[p] = IF patch[p].at \in {"wait", "load", "save", "publish"} THEN n ELSE patch[p]
    BY <1>6
  <2> HIDE DEF n
  <2> QED
    BY <2>1, <2>2, <2>3, <2>4 DEF Writing
<1>8. wanted' \in Configs
  BY <1>1, <1>3, <1>4 DEF SettingsTyped, Configs
<1>9. restarts' \in 0 .. MaxRestarts
  <2>1. restarts \in 0 .. MaxRestarts /\ MaxRestarts \in Nat
    BY <1>1, SettingsAssumption DEF SettingsTyped
  <2>2. restarts' = restarts + 1 /\ restarts < MaxRestarts
    BY DEF DaemonRestarts
  <2> QED
    BY <2>1, <2>2
<1>10. patch' \in [Patches -> PatchRow]
  BY <1>6, <1>7
<1>11. SettingsTyped'
  BY <1>1, <1>3, <1>4, <1>6, <1>7, <1>8, <1>9, <1>10 DEF SettingsTyped
<1>12. ASSUME stray' = None PROVE SettingsMatch'
  <2>1. SettingsMatch /\ file[Identity] # None
    BY <1>6, <1>12 DEF SettingsInv, SettingsMatch
  <2>2. c = file
    BY <1>5, <2>1
  <2>3. \A f \in Saved : f \notin Told => file[f] = live[f]
    <3>1. CASE \E p \in Patches : patch[p].at = "publish"
      BY <2>1, <3>1, FieldFacts DEF SettingsMatch, Takes, Told
    <3>2. CASE \A p \in Patches : patch[p].at # "publish"
      BY <2>1, <3>2 DEF SettingsMatch
    <3> QED
      BY <3>1, <3>2
  <2>4. \A f \in Saved : live'[f] = wanted'[f]
    BY <1>3, <2>1, <2>2, <2>3, FieldFacts DEF SettingsMatch
  <2>5. \A f \in Saved : file'[f] = live'[f]
    BY <1>3
  <2>6. \A p \in Patches : patch'[p].at # "save" /\ patch'[p].at # "publish"
    BY <1>7 DEF Writing
  <2>7. install' = None /\ file' # Broken /\ file'[Identity] # None
    BY <1>3, <1>6, <2>1, <2>2 DEF SettingsMatch
  <2> QED
    BY <1>7, <2>4, <2>5, <2>6, <2>7 DEF SettingsMatch
<1> QED
  BY <1>11, <1>12 DEF SettingsInv

\* The daemon starts on the file it wrote.
LEMMA SettingsBegin == SettingsInit => SettingsInv
<1> SUFFICES ASSUME SettingsInit PROVE SettingsInv
  OBVIOUS
<1>1. PICK id \in Values :
        LET config == [Default EXCEPT ![Identity] = id]
        IN /\ file = config /\ live = config /\ startup = config /\ wanted = config
           /\ view = [loaded |-> config, draft |-> config, saving |-> FALSE, online |-> TRUE]
  BY DEF SettingsInit
<1> DEFINE c == [Default EXCEPT ![Identity] = id]
<1>2. /\ file = c /\ live = c /\ startup = c /\ wanted = c
      /\ view = [loaded |-> c, draft |-> c, saving |-> FALSE, online |-> TRUE]
  BY <1>1
<1>3. c \in Configs /\ c[Identity] # None
  BY FieldFacts DEF Configs
<1> HIDE DEF c
<1>4. /\ patching = None /\ patch = [p \in Patches |-> Idle] /\ restarts = 0 /\ edited = 0
      /\ (install = None /\ stray = None) \/ (install = Default /\ stray = "install")
  BY DEF SettingsInit
<1>5. view \in View
  BY <1>2, <1>3, Zenon DEF View
<1>6. 0 \in 0 .. MaxRestarts /\ 0 \in 0 .. MaxEdits
  BY SettingsAssumption
<1>7. patch \in [Patches -> PatchRow] /\ \A p \in Patches : patch[p] = Idle
  BY <1>4, IdleIsAPatch
<1>8. SettingsTyped
  BY <1>2, <1>3, <1>4, <1>5, <1>6, <1>7, IdleIsAPatch, FieldFacts DEF SettingsTyped, Strays
<1>9. stray = None => SettingsMatch
  <2>1. stray = None => install = None
    BY <1>4, SettingsAssumption
  <2> QED
    BY <1>2, <1>3, <1>4, <1>7, <2>1, IdleIsAPatch, FieldFacts DEF SettingsMatch, Writing
<1> QED
  BY <1>8, <1>9 DEF SettingsInv

\* Every step keeps the file and the daemon together.
LEMMA SettingsStep == SettingsInv /\ [SettingsNext]_settingsVars => SettingsInv'
<1> SUFFICES ASSUME SettingsInv, [SettingsNext]_settingsVars PROVE SettingsInv'
  OBVIOUS
<1>1. CASE \E r \in Requests : Ask(r) \/ Drop(r)
  BY <1>1, AskingKeeps, DroppingKeeps
<1>2. CASE \E p \in Patches : Lock(p) \/ LoadAndMerge(p) \/ SavePatch(p) \/ Publish(p)
  BY <1>2, LockingKeeps, MergingKeeps, SavingKeeps, PublishingKeeps
<1>3. CASE Viewing
  BY <1>3, ViewingKeeps
<1>4. CASE SaveThroughDaemon \/ FinishSave
  BY <1>4, SavingViewKeeps
<1>5. CASE Outsiders
  BY <1>5, OutsidersKeep
<1>6. CASE DaemonRestarts
  BY <1>6, RestartingKeeps
<1>7. CASE UNCHANGED settingsVars
  BY <1>7 DEF settingsVars, SettingsInv, SettingsTyped, SettingsMatch, Takes, Writing
<1> QED
  BY <1>1, <1>2, <1>3, <1>4, <1>5, <1>6, <1>7 DEF SettingsNext, Viewing, Outsiders

\* Whatever the clients, the Settings view and the restarts interleave to, as long as nobody
\* writes without the lock: the file, what the running daemon serves and the acknowledged
\* edits agree field by field (settings.rs, Settings::patch).
THEOREM SettingsAlwaysAgree == SettingsSpec => []SettingsAgree
<1>1. SettingsInv => SettingsAgree
  <2> SUFFICES ASSUME SettingsInv PROVE SettingsAgree
    OBVIOUS
  <2>1. SettingsTyped
    BY DEF SettingsInv
  <2>2. \A p \in Patches : /\ patch[p].at \in Stages /\ patch[p].meant \subseteq Fields
                           /\ patch[p].config \in Configs \cup {None}
                           /\ DOMAIN patch[p].edits = patch[p].meant
    BY <2>1 DEF SettingsTyped, PatchRow
  <2>3. \A p \in Patches : patch[p].held \in BOOLEAN
    BY <2>1, Zenon DEF SettingsTyped, PatchRow
  <2>4. view.loaded \in Configs /\ view.draft \in Configs
    BY <2>1 DEF SettingsTyped, View
  <2>5. view.saving \in BOOLEAN /\ view.online \in BOOLEAN
    BY <2>1, Zenon DEF SettingsTyped, View
  <2>6. SettingsTypeOK
    BY <2>1, <2>2, <2>3, <2>4, <2>5 DEF SettingsTypeOK, SettingsTyped, Stages, Strays
  <2>7. ASSUME stray = None
        PROVE  /\ \A f \in Saved : live[f] = wanted[f]
               /\ ~PatchUnderWay => \A f \in Saved : file[f] = live[f]
    BY <2>7 DEF SettingsInv, SettingsMatch, PatchUnderWay
  <2>8. ASSUME stray = None
        PROVE  RestartRequired \cap Saved =
                 {f \in RestartOnly \cap Saved : startup[f] # wanted[f]}
    BY <2>7, <2>8 DEF RestartRequired
  <2> QED
    BY <2>6, <2>7, <2>8 DEF SettingsAgree
<1> QED
  BY <1>1, SettingsBegin, SettingsStep, PTL DEF SettingsSpec
=============================================================================
