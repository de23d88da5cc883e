------------------------ MODULE EvidenceStoreProofs ------------------------
(* The evidence store, for every number of captures, blobs, owners, grants *)
(* and cursors: retained evidence is kept, and leases and quotas add up.   *)
EXTENDS EvidenceStore, FiniteSetTheorems, TLAPS

-----------------------------------------------------------------------------
(* The invariants.                                                         *)

Row == [status : Statuses, expires : Clock, pinned : BOOLEAN, finalized : BOOLEAN, have : Nat]

\* Who may hold the filesystem gate: the capture that is about to write its chunk row, or
\* the operation whose orphans are swept.  A store that is not up sweeps to be opened.
GateInv ==
    /\ \A o \in Obs : pc[o] = "row" => gate = o
    /\ \A o \in Obs : pc[o] = "sweep" => row[o].status # "uploading"
    /\ sweep # "off" => /\ gate # None
                        /\ gate \in Obs => pc[gate] = "sweep"
                        /\ up \/ gate = "startup"
    /\ gate = "startup" => ~up

\* How far the row of a capture may have come.
RowOK(o) ==
    /\ pc[o] = "idle" => row[o].status = "absent"
    /\ pc[o] \in {"write", "row"} => row[o].have < Bytes(o) /\ row[o].finalized = FALSE
    /\ row[o].status \in {"uploading", "complete"} /\ row[o].finalized = TRUE =>
           row[o].have = Bytes(o)
    /\ row[o].status = "complete" => row[o].finalized = TRUE
    /\ row[o].status = "uploading" => row[o].pinned = FALSE

RowInv == \A o \in Obs : RowOK(o)

\* Chunk rows have their blobs, so has the row that is about to be written, and a sweep
\* that has selected keeps what any row needs.
ChunkInv ==
    /\ \A o \in Obs : \A i \in 1 .. row[o].have : i <= Bytes(o) /\ Content[o][i] \in blobs
    /\ \A o \in Obs : pc[o] = "row" => Content[o][row[o].have + 1] \in blobs
    /\ sweep = "remove" => Referenced(row) \subseteq keep

PromiseInv ==
    \A o \in Obs : pc[o] = "retained" /\ now < promise[o] /\ o \notin released =>
        row[o].status = "complete" /\ row[o].expires >= promise[o]

KeepInv == StoreTypeOK /\ GateInv /\ RowInv /\ ChunkInv /\ PromiseInv

-----------------------------------------------------------------------------
(* What expiry makes of a row.                                             *)

\* e is r, or what is left of it: no chunk rows that were not there, no life that was
\* over, and a lease that runs is left alone.
Fades(r, e) ==
    /\ e \in Row
    /\ e = r \/ e.status \in {"absent", "expired", "released"}
    /\ e.have \in {0, r.have} /\ (e.finalized = FALSE \/ e.finalized = r.finalized)
    /\ e.status # "absent" => r.status # "absent"
    /\ r.status = "complete" /\ r.expires > now => e = r
    /\ e.status = "complete" => e.expires > now

\* An absent row is a row of the table.
LEMMA NoRowIsRow == NoRow \in Row
BY DEF NoRow, Row, Statuses, Clock

\* What expire_rows makes of one row.
LEMMA ExpiredRowFades ==
    ASSUME NEW r \in Row, now \in Nat
    PROVE  Fades(r, ExpiredRow(r))
<1> DEFINE x == [r EXCEPT !.status = "expired", !.pinned = FALSE, !.have = 0]
           e == IF r.status = "complete" /\ r.expires <= now THEN x ELSE r
<1>1. /\ x \in Row /\ x.status = "expired" /\ x.have = 0 /\ x.finalized = r.finalized
      /\ NoRow \in Row /\ NoRow.status = "absent" /\ NoRow.have = 0 /\ NoRow.finalized = FALSE
  BY NoRowIsRow DEF Row, Statuses, NoRow
<1>2. r.expires \in Nat /\ r.have \in Nat
  BY DEF Row, Clock
<1>3. ExpiredRow(r) = IF r.status = "uploading" /\ r.expires <= now THEN NoRow
                      ELSE IF e.status \in {"expired", "released"} /\ e.expires + TombstoneTtl <= now
                           THEN NoRow ELSE e
  BY DEF ExpiredRow
<1> HIDE DEF x
<1> QED
  BY <1>1, <1>2, <1>3 DEF Fades

\* What expire_rows makes of the table.
LEMMA ExpireRowsFade ==
    ASSUME NEW rows \in [Obs -> Row], now \in Nat
    PROVE  /\ ExpireRows(rows) \in [Obs -> Row]
           /\ \A o \in Obs : Fades(rows[o], ExpireRows(rows)[o])
<1>1. \A o \in Obs : Fades(rows[o], ExpiredRow(rows[o]))
  BY ExpiredRowFades
<1> QED
  BY <1>1 DEF ExpireRows, Fades

-----------------------------------------------------------------------------
(* The types of the tables.                                                *)

GrantRow == [of : Obs, by : Owners, to : Owners, expires : Clock]
CursorRow == [of : Obs, reader : Owners, grant : GrantIds \cup {None}, at : Nat]

GrantsOK(table) == table \in [GrantIds -> {None, Spent} \cup GrantRow]
CursorsOK(table) == table \in [Tokens -> {None, Spent} \cup CursorRow]

\* Pruned tables hold rows that were there, or none.
LEMMA PrunedTablesAreTyped ==
    ASSUME StoreTypeOK, NEW rows, NEW kept
    PROVE  GrantsOK(PruneGrants(rows)) /\ CursorsOK(PruneCursors(rows, kept))
BY DEF StoreTypeOK, GrantsOK, CursorsOK, GrantRow, CursorRow, PruneGrants, PruneCursors

TablesOK ==
    /\ row \in [Obs -> Row] /\ GrantsOK(grants) /\ CursorsOK(cursors)
    /\ blobs \subseteq Blobs /\ pc \in [Obs -> PCs] /\ promise \in [Obs -> Clock]
    /\ gate \in Obs \cup {None, "release", "startup"} /\ sweep \in {"off", "select", "remove"}
    /\ keep \subseteq Blobs /\ released \subseteq Obs
    /\ now \in 0 .. MaxClock /\ up \in BOOLEAN /\ crashes \in 0 .. MaxCrashes

\* The type invariant, with the tables named.
LEMMA StoreTypes == (StoreTypeOK <=> TablesOK) /\ (StoreTypeOK' <=> TablesOK')
BY DEF StoreTypeOK, TablesOK, Row, GrantsOK, CursorsOK, GrantRow, CursorRow

\* The steps of a capture.
LEMMA CaptureKeepsType ==
    ASSUME StoreTypeOK, NEW o \in Obs, Capture(o), pc[o] = "write" => row[o].have < Bytes(o)
    PROVE  StoreTypeOK'
<1> USE DEF Goto, PCs, Unfinished
<1>1. /\ row \in [Obs -> Row] /\ row[o] \in Row /\ pc \in [Obs -> PCs]
      /\ promise \in [Obs -> Clock] /\ now \in Nat /\ Ttl \in Nat
      /\ Bytes(o) \in Nat /\ \A i \in 1 .. Bytes(o) : Content[o][i] \in Blobs
  BY StoreTypes, StoreAssumption DEF Bytes, TablesOK
<1>2. CASE Reserve(o)
  <2> DEFINE rows == ExpireRows(row)
             new == [NoRow EXCEPT !.status = "uploading", !.expires = now + Ttl]
  <2>1. rows \in [Obs -> Row] /\ new \in Row
    <3>1. rows \in [Obs -> Row]
      BY <1>1, ExpireRowsFade
    <3>2. now + Ttl \in Nat /\ NoRow \in Row
      BY <1>1, NoRowIsRow
    <3> QED
      BY <3>1, <3>2 DEF Row, Statuses, Clock
  <2>2. row' \in [Obs -> Row]
    BY <1>1, <1>2, <2>1 DEF Reserve
  <2>3. GrantsOK(grants') /\ CursorsOK(cursors')
    BY <1>2, PrunedTablesAreTyped, StoreTypes DEF TablesOK, Reserve
  <2>4. pc' \in [Obs -> PCs]
    BY <1>1, <1>2 DEF Reserve
  <2> QED
    BY <1>2, <2>2, <2>3, <2>4, StoreTypes DEF TablesOK, Reserve
<1>3. CASE AppendPut(o)
  <2>1. Content[o][row[o].have + 1] \in Blobs
    BY <1>1, <1>3 DEF AppendPut, Row
  <2> QED
    BY <2>1, <1>1, <1>3, StoreTypes DEF TablesOK, AppendPut
<1>4. CASE AppendRow(o)
  <2>1. row' \in [Obs -> Row]
    <3>1. [row[o] EXCEPT !.have = row[o].have + 1] \in Row
      BY <1>1 DEF Row
    <3>2. row' \in {row, [row EXCEPT ![o] = [row[o] EXCEPT !.have = row[o].have + 1]]}
      BY <1>1, <1>4 DEF AppendRow
    <3> QED
      BY <1>1, <3>1, <3>2
  <2> QED
    BY <1>1, <1>4, <2>1, StoreTypes DEF TablesOK, AppendRow
<1>5. CASE FinalizePart(o)
  <2>1. row' \in [Obs -> Row]
    <3>1. [row[o] EXCEPT !.finalized = TRUE] \in Row
      BY <1>1 DEF Row
    <3>2. row' \in {row, [row EXCEPT ![o] = [row[o] EXCEPT !.finalized = TRUE]]}
      BY <1>1, <1>5 DEF FinalizePart
    <3> QED
      BY <1>1, <3>1, <3>2
  <2> QED
    BY <1>1, <1>5, <2>1, StoreTypes DEF TablesOK, FinalizePart
<1>6. CASE CommitCheck(o)
  BY <1>1, <1>6, StoreTypes DEF TablesOK, CommitCheck
<1>7. CASE CommitTransaction(o)
  <2>1. [row EXCEPT ![o].status = "complete"] \in [Obs -> Row]
    BY <1>1 DEF Row, Statuses
  <2>2. row' \in [Obs -> Row] /\ pc' \in [Obs -> PCs]
    BY <1>1, <1>7, <2>1 DEF CommitTransaction
  <2> QED
    BY <1>7, <2>2, StoreTypes DEF TablesOK, CommitTransaction
<1>8. CASE ReconcileCommit(o)
  BY <1>1, <1>8, StoreTypes DEF TablesOK, ReconcileCommit
<1>9. CASE Inspect(o)
  <2>1. promise' \in [Obs -> Clock]
    BY <1>1, <1>9 DEF Inspect, Row
  <2> QED
    BY <1>1, <1>9, <2>1, StoreTypes DEF TablesOK, Inspect
<1>10. CASE Abort(o)
  <2>1. row' \in [Obs -> Row]
    BY <1>1, <1>10, NoRowIsRow DEF Abort
  <2> QED
    BY <1>1, <1>10, <2>1, StoreTypes DEF TablesOK, Abort
<1> QED
  BY <1>2, <1>3, <1>4, <1>5, <1>6, <1>7, <1>8, <1>9, <1>10 DEF Capture

\* Everything that is no step of a capture.
Elsewhere ==
    \/ SweepSelect \/ SweepRemove
    \/ \E o \in Obs : Release(o)
    \/ \E o \in Obs, ttl \in PinTtls : Pin(o, ttl)
    \/ \E g \in GrantIds, o \in Obs, w, to \in Owners : Grant(g, w, o, to)
    \/ \E g \in GrantIds : RevokeGrant(g)
    \/ \E w \in Owners, o \in Obs, from \in Tokens \cup {None}, to \in Tokens : Read(w, o, from, to)
    \/ Tick \/ Crash \/ Open

\* What release and pin make of a row.
ReleasedRow(r) == [r EXCEPT !.status = "released", !.pinned = FALSE, !.expires = now, !.have = 0]
PinnedRow(r, ttl) == [r EXCEPT !.pinned = TRUE, !.expires = PinnedExpiry(r.expires, now + ttl)]

\* Release and pin leave a row a row; a pin never shortens a lease.
LEMMA LeaseRows ==
    ASSUME NEW r \in Row, now \in Nat, NEW ttl \in Nat
    PROVE  /\ ReleasedRow(r) \in Row /\ ReleasedRow(r).status = "released"
           /\ ReleasedRow(r).have = 0
           /\ PinnedRow(r, ttl) \in Row /\ PinnedRow(r, ttl).expires >= r.expires
           /\ PinnedRow(r, ttl).status = r.status /\ PinnedRow(r, ttl).have = r.have
           /\ PinnedRow(r, ttl).finalized = r.finalized
<1>1. now + ttl \in Nat /\ r.expires \in Nat
  BY DEF Row, Clock
<1>2. PinnedExpiry(r.expires, now + ttl) \in Nat /\ PinnedExpiry(r.expires, now + ttl) >= r.expires
  BY <1>1 DEF PinnedExpiry
<1> QED
  BY <1>1, <1>2 DEF Row, Statuses, Clock, ReleasedRow, PinnedRow

\* Opening the store ends every upload and lets the other rows fade.
LEMMA OpenedRowsFade ==
    ASSUME row \in [Obs -> Row], now \in Nat, Open
    PROVE  /\ row' \in [Obs -> Row]
           /\ \A o \in Obs : Fades(row[o], row'[o]) /\ row'[o].status # "uploading"
<1> DEFINE kept == [o \in Obs |-> IF row[o].status = "uploading" THEN NoRow ELSE row[o]]
<1>1. kept \in [Obs -> Row] /\ row' = ExpireRows(kept)
  BY NoRowIsRow DEF Open
<1>2. \A o \in Obs :
         \/ kept[o] = row[o] /\ row[o].status # "uploading"
         \/ /\ row[o].status = "uploading"
            /\ kept[o].status = "absent" /\ kept[o].have = 0 /\ kept[o].finalized = FALSE
  BY DEF NoRow
<1> HIDE DEF kept
<1>3. row' \in [Obs -> Row] /\ \A o \in Obs : Fades(kept[o], row'[o])
  BY <1>1, ExpireRowsFade
<1>4. ASSUME NEW o \in Obs PROVE Fades(row[o], row'[o]) /\ row'[o].status # "uploading"
  <2>1. CASE kept[o] = row[o] /\ row[o].status # "uploading"
    BY <1>3, <2>1 DEF Fades
  <2>2. CASE row[o].status = "uploading"
    <3>1. row'[o].status = "absent" /\ row'[o].have = 0 /\ row'[o].finalized = FALSE
      BY <1>2, <1>3, <2>2 DEF Fades
    <3> QED
      BY <1>3, <2>2, <3>1 DEF Fades
  <2> QED
    BY <1>2, <2>1, <2>2
<1> QED
  BY <1>3, <1>4

\* The type invariant, outside the captures.
LEMMA ElsewhereKeepsType ==
    ASSUME StoreTypeOK, Elsewhere
    PROVE  StoreTypeOK'
<1>1. TablesOK /\ now \in Nat /\ Ttl \in Nat /\ PinTtls \subseteq Nat
  BY StoreTypes, StoreAssumption DEF TablesOK
<1>2. CASE SweepSelect
  BY <1>1, <1>2, StoreTypes DEF TablesOK, SweepSelect, Referenced
<1>3. CASE SweepRemove
  <2>1. pc' \in [Obs -> PCs]
    BY <1>1, <1>3 DEF SweepRemove, TablesOK, PCs
  <2>2. up' \in BOOLEAN
    BY <1>3, Zenon DEF SweepRemove
  <2>3. blobs' \subseteq Blobs /\ UNCHANGED <<row, grants, cursors, promise, released, now, crashes>>
        /\ sweep' = "off" /\ keep' = {} /\ gate' = None
    BY <1>1, <1>3 DEF SweepRemove, TablesOK
  <2> QED
    BY <1>1, <2>1, <2>2, <2>3, StoreTypes DEF TablesOK
<1>4. ASSUME NEW o \in Obs, Release(o) PROVE StoreTypeOK'
  <2>1. row' = [row EXCEPT ![o] = ReleasedRow(row[o])]
    BY <1>4 DEF Release, ReleasedRow
  <2>2. row' \in [Obs -> Row]
    BY <1>1, <2>1, LeaseRows DEF TablesOK
  <2>3. GrantsOK(grants') /\ CursorsOK(cursors')
    BY <1>1, <1>4 DEF Release, TablesOK, GrantsOK, CursorsOK
  <2> QED
    BY <1>1, <1>4, <2>2, <2>3, StoreTypes DEF TablesOK, Release
<1>5. ASSUME NEW o \in Obs, NEW ttl \in PinTtls, Pin(o, ttl) PROVE StoreTypeOK'
  <2>1. row' = [row EXCEPT ![o] = PinnedRow(row[o], ttl)]
    BY <1>5 DEF Pin, PinnedRow
  <2>2. row' \in [Obs -> Row]
    BY <1>1, <2>1, LeaseRows DEF TablesOK
  <2> QED
    BY <1>1, <1>5, <2>2, StoreTypes DEF TablesOK, Pin
<1>6. ASSUME NEW g \in GrantIds, NEW o \in Obs, NEW w \in Owners, NEW to \in Owners,
             Grant(g, w, o, to)
      PROVE  StoreTypeOK'
  <2> DEFINE spent == [h \in GrantIds |-> IF ActiveGrant(h) /\ grants[h].expires <= now
                                          THEN Spent ELSE grants[h]]
             lease == IF now + Ttl < row[o].expires THEN now + Ttl ELSE row[o].expires
  <2>1. lease \in Nat
    BY <1>1 DEF TablesOK, Row, Clock
  <2>2. grants' = [spent EXCEPT ![g] = [of |-> o, by |-> w, to |-> to, expires |-> lease]]
    BY <1>6 DEF Grant
  <2> HIDE DEF lease
  <2>3. GrantsOK(grants')
    BY <1>1, <2>1, <2>2 DEF TablesOK, GrantsOK, GrantRow, Clock
  <2>4. CursorsOK(cursors')
    BY <1>6, PrunedTablesAreTyped DEF Grant
  <2> QED
    BY <1>1, <1>6, <2>3, <2>4, StoreTypes DEF TablesOK, Grant
<1>7. ASSUME NEW g \in GrantIds, RevokeGrant(g) PROVE StoreTypeOK'
  <2>1. GrantsOK(grants') /\ CursorsOK(cursors')
    BY <1>1, <1>7, PrunedTablesAreTyped DEF RevokeGrant, TablesOK, GrantsOK
  <2> QED
    BY <1>1, <1>7, <2>1, StoreTypes DEF TablesOK, RevokeGrant
<1>8. ASSUME NEW w \in Owners, NEW o \in Obs, NEW from \in Tokens \cup {None},
             NEW to \in Tokens, Read(w, o, from, to)
      PROVE  StoreTypeOK'
  <2> DEFINE at == IF from = None THEN 1 ELSE cursors[from].at + 1
  <2>1. PICK g \in AccessOf(w, o) :
          /\ from # None => ActiveCursor(from) /\ from \in Tokens
          /\ cursors' = [cursors EXCEPT ![to] =
                           [of |-> o, reader |-> w, grant |-> g, at |-> at]]
    BY <1>8 DEF Read
  <2>2. g \in GrantIds \cup {None} /\ at \in Nat
    BY <1>1, <2>1 DEF AccessOf, TablesOK, CursorsOK, CursorRow, ActiveCursor
  <2>3. CursorsOK(cursors')
    BY <1>1, <2>1, <2>2 DEF TablesOK, CursorsOK, CursorRow
  <2> QED
    BY <1>1, <1>8, <2>3, StoreTypes DEF TablesOK, Read
<1>9. CASE Tick
  BY <1>1, <1>9, StoreTypes, StoreAssumption DEF TablesOK, Tick
<1>10. CASE Crash
  <2>1. pc' \in [Obs -> PCs]
    BY <1>1, <1>10 DEF TablesOK, Crash, PCs, Unfinished
  <2>2. crashes' \in 0 .. MaxCrashes
    BY <1>1, <1>10, StoreAssumption DEF TablesOK, Crash
  <2>3. /\ up' = FALSE /\ gate' = None /\ sweep' = "off" /\ keep' = {}
        /\ UNCHANGED <<row, blobs, grants, cursors, promise, released, now>>
    BY <1>10 DEF Crash
  <2> QED
    BY <1>1, <2>1, <2>2, <2>3, StoreTypes DEF TablesOK
<1>11. CASE Open
  <2>1. row' \in [Obs -> Row]
    BY <1>1, <1>11, OpenedRowsFade DEF TablesOK
  <2>2. GrantsOK(grants') /\ CursorsOK(cursors')
    BY <1>11, PrunedTablesAreTyped DEF Open
  <2> QED
    BY <1>1, <1>11, <2>1, <2>2, StoreTypes DEF TablesOK, Open
<1> QED
  BY <1>2, <1>3, <1>4, <1>5, <1>6, <1>7, <1>8, <1>9, <1>10, <1>11 DEF Elsewhere

-----------------------------------------------------------------------------
(* Retained evidence is kept.                                              *)

\* A reservation takes one row over; the others fade.
LEMMA ReservedRows ==
    ASSUME row \in [Obs -> Row], now \in Nat, NEW o \in Obs,
           row' = [ExpireRows(row) EXCEPT
                     ![o] = [NoRow EXCEPT !.status = "uploading", !.expires = now + Ttl]]
    PROVE  /\ row' \in [Obs -> Row]
           /\ \A p \in Obs \ {o} : Fades(row[p], row'[p])
           /\ row'[o].status = "uploading" /\ row'[o].have = 0
           /\ row'[o].finalized = FALSE /\ row'[o].pinned = FALSE
<1> DEFINE rows == ExpireRows(row)
           new == [NoRow EXCEPT !.status = "uploading", !.expires = now + Ttl]
<1>1. rows \in [Obs -> Row] /\ \A p \in Obs : Fades(row[p], rows[p])
  BY ExpireRowsFade
<1>2. row' = [rows EXCEPT ![o] = new]
  OBVIOUS
<1>3. NoRow \in Row /\ NoRow.have = 0 /\ NoRow.finalized = FALSE /\ NoRow.pinned = FALSE
  BY NoRowIsRow DEF NoRow
<1>4. now + Ttl \in Nat
  BY StoreAssumption
<1>5. /\ new \in Row /\ new.status = "uploading" /\ new.have = 0
      /\ new.finalized = FALSE /\ new.pinned = FALSE
  BY <1>3, <1>4 DEF Row, Statuses, Clock
<1> HIDE DEF rows, new
<1> QED
  BY <1>1, <1>2, <1>5

\* Rows that fade, or are taken over, take nothing from the others.
LEMMA FadingKeeps ==
    ASSUME KeepInv, row' \in [Obs -> Row], NEW X \in SUBSET Obs,
           \A p \in Obs \ X : Fades(row[p], row'[p]),
           \A p \in X : row'[p].have = 0 /\ row'[p].status # "complete"
                          /\ (row'[p].status = "uploading" =>
                                 row'[p].finalized = FALSE /\ row'[p].pinned = FALSE),
           \A p \in X : pc'[p] # "retained" /\ pc'[p] # "row"
                          /\ (pc'[p] = "idle" => row'[p].status = "absent")
                          /\ (pc'[p] = "write" => Bytes(p) > 0 /\ row'[p].finalized = FALSE),
           \A p \in Obs \ X : pc'[p] = pc[p], gate = None, sweep = "off",
           blobs' = blobs, promise' = promise, released' = released, now' = now,
           sweep' # "remove"
    PROVE  RowInv' /\ ChunkInv' /\ PromiseInv'
<1>1. TablesOK /\ now \in Nat /\ \A p \in Obs : Bytes(p) \in Nat
  BY StoreTypes, StoreAssumption DEF KeepInv, TablesOK, Bytes
<1>2. \A p \in Obs : row[p].have \in Nat /\ promise[p] \in Nat /\ pc[p] # "row"
  BY <1>1, StoreAssumption DEF KeepInv, TablesOK, Row, Clock, GateInv
<1>3. RowInv'
  <2> SUFFICES ASSUME NEW p \in Obs PROVE RowOK(p)'
    BY DEF RowInv
  <2>1. RowOK(p)
    BY DEF KeepInv, RowInv
  <2>2. CASE p \in X
    BY <1>1, <2>2 DEF RowOK, Bytes
  <2>3. CASE p \notin X
    BY <1>1, <1>2, <2>1, <2>3 DEF RowOK, Fades, Row, Bytes
  <2> QED
    BY <2>2, <2>3
<1>4. ChunkInv'
  BY <1>1, <1>2 DEF KeepInv, ChunkInv, Fades, Bytes
<1>5. PromiseInv'
  BY <1>1, <1>2 DEF TablesOK, KeepInv, PromiseInv, Fades, Row, Clock
<1> QED
  BY <1>3, <1>4, <1>5

\* The steps of a capture.
LEMMA CaptureKeepsInv ==
    ASSUME KeepInv, NEW o \in Obs, Capture(o)
    PROVE  GateInv' /\ RowInv' /\ ChunkInv' /\ PromiseInv'
<1> USE DEF Goto
<1>1. TablesOK /\ now \in Nat /\ GateInv /\ RowInv /\ ChunkInv /\ PromiseInv
      /\ \A p \in Obs : RowOK(p)
  BY StoreTypes DEF KeepInv, TablesOK, RowInv
<1>2. /\ \A p \in Obs : row[p] \in Row /\ row[p].have \in Nat /\ row[p].expires \in Nat
      /\ \A p \in Obs : Bytes(p) \in Nat /\ promise[p] \in Nat
      /\ None \notin Obs /\ "startup" \notin Obs /\ "release" \notin Obs
      /\ None # "startup" /\ None # "release"
  BY <1>1, StoreAssumption DEF TablesOK, Row, Clock, Bytes
<1>3. CASE Reserve(o)
  <2> DEFINE new == [NoRow EXCEPT !.status = "uploading", !.expires = now + Ttl]
  <2>1. /\ pc[o] = "idle" /\ gate = None /\ sweep = "off" /\ up
        /\ UNCHANGED <<blobs, promise, gate, sweep, keep, released, now, up>>
    BY <1>1, <1>3 DEF Reserve, GateInv
  <2>2. CASE row' = row /\ Goto(o, "failed")
    BY <1>1, <1>2, <2>1, <2>2
       DEF TablesOK, GateInv, RowInv, RowOK, ChunkInv, PromiseInv, Referenced
  <2>3. CASE /\ row' = [ExpireRows(row) EXCEPT ![o] = new]
             /\ Goto(o, IF Bytes(o) = 0 THEN "finalize" ELSE "write")
    <3>1. /\ row' \in [Obs -> Row]
          /\ \A p \in Obs \ {o} : Fades(row[p], row'[p])
          /\ row'[o].status = "uploading" /\ row'[o].have = 0
          /\ row'[o].finalized = FALSE /\ row'[o].pinned = FALSE
      BY <1>1, <2>3, ReservedRows DEF TablesOK
    <3>2. /\ \A p \in Obs \ {o} : pc'[p] = pc[p]
          /\ pc'[o] \in {"write", "finalize"} /\ (pc'[o] = "write" => Bytes(o) > 0)
      BY <1>1, <1>2, <2>3 DEF TablesOK
    <3>3. RowInv' /\ ChunkInv' /\ PromiseInv'
      BY <2>1, <3>1, <3>2, FadingKeeps
    <3>4. GateInv'
      BY <1>1, <1>2, <2>1, <3>1, <3>2 DEF GateInv, Fades
    <3> QED
      BY <3>3, <3>4
  <2> QED
    BY <1>3, <2>2, <2>3 DEF Reserve
<1>4. CASE AppendPut(o)
  <2>1. gate = None /\ sweep = "off" /\ pc[o] = "write" /\ row' = row
        /\ UNCHANGED <<sweep, keep, promise, released, now, up>>
    BY <1>1, <1>4 DEF AppendPut, GateInv
  <2>2. GateInv'
    BY <1>1, <1>2, <1>4, <2>1 DEF AppendPut, GateInv, TablesOK
  <2>3. RowInv'
    BY <1>1, <1>2, <1>4, <2>1 DEF AppendPut, RowInv, RowOK, TablesOK
  <2>4. ChunkInv'
    BY <1>1, <1>2, <1>4, <2>1 DEF AppendPut, ChunkInv, TablesOK, GateInv
  <2>5. PromiseInv'
    BY <1>1, <1>4, <2>1 DEF AppendPut, PromiseInv, TablesOK
  <2> QED
    BY <2>2, <2>3, <2>4, <2>5
<1>5. CASE AppendRow(o)
  <2>1. /\ gate = o /\ gate' = None /\ sweep = "off" /\ pc[o] = "row"
        /\ UNCHANGED <<blobs, sweep, keep, promise, released, now, up>>
        /\ row[o].have < Bytes(o) /\ row[o].finalized = FALSE
        /\ Content[o][row[o].have + 1] \in blobs
    BY <1>1, <1>2, <1>5 DEF AppendRow, GateInv, RowOK, ChunkInv
  <2>2. CASE row' = row /\ Goto(o, "abort")
    <3>1. GateInv'
      BY <1>1, <1>2, <2>1, <2>2 DEF TablesOK, GateInv
    <3>2. RowInv' /\ PromiseInv'
      BY <1>1, <1>2, <2>1, <2>2 DEF TablesOK, RowInv, RowOK, PromiseInv
    <3>3. ChunkInv'
      BY <1>1, <1>2, <2>1, <2>2 DEF TablesOK, ChunkInv
    <3> QED
      BY <3>1, <3>2, <3>3
  <2>3. CASE /\ row' = [row EXCEPT ![o].have = row[o].have + 1] /\ row[o].status = "uploading"
             /\ Goto(o, IF row[o].have + 1 = Bytes(o) THEN "finalize" ELSE "write")
    <3>1. /\ \A p \in Obs \ {o} : row'[p] = row[p] /\ pc'[p] = pc[p]
          /\ row'[o].have = row[o].have + 1 /\ row'[o].status = "uploading"
          /\ row'[o].finalized = FALSE /\ row'[o].pinned = row[o].pinned
          /\ pc'[o] \in {"finalize", "write"}
          /\ pc'[o] = "write" => row'[o].have < Bytes(o)
      BY <1>1, <1>2, <2>1, <2>3 DEF TablesOK, Row
    <3>2. GateInv'
      BY <1>1, <1>2, <2>1, <3>1 DEF GateInv
    <3>3. RowInv'
      BY <1>1, <1>2, <2>1, <2>3, <3>1 DEF RowInv, RowOK, Bytes
    <3>4. ChunkInv'
      <4>1. \A p \in Obs : pc'[p] # "row"
        BY <1>1, <2>1, <3>1 DEF GateInv
      <4>2. ASSUME NEW p \in Obs, NEW i \in 1 .. row'[p].have
            PROVE  i <= Bytes(p) /\ Content[p][i] \in blobs
        <5>1. CASE p = o /\ i = row[o].have + 1
          BY <1>2, <2>1, <5>1
        <5>2. CASE ~(p = o /\ i = row[o].have + 1)
          BY <1>1, <1>2, <3>1, <5>2 DEF ChunkInv
        <5> QED
          BY <5>1, <5>2
      <4> QED
        BY <2>1, <4>1, <4>2 DEF ChunkInv, Bytes
    <3>5. PromiseInv'
      BY <1>1, <2>1, <3>1 DEF PromiseInv
    <3> QED
      BY <3>2, <3>3, <3>4, <3>5
  <2> QED
    BY <1>5, <2>2, <2>3 DEF AppendRow
<1>6. CASE FinalizePart(o)
  <2>1. /\ pc[o] = "finalize" /\ pc' = [pc EXCEPT ![o] = IF row' = row THEN pc'[o] ELSE "commit"]
        /\ pc'[o] \in {"commit", "abort"}
        /\ UNCHANGED <<blobs, gate, sweep, keep, promise, released, now, up>>
    BY <1>1, <1>6 DEF FinalizePart, TablesOK
  <2>2. /\ \A p \in Obs \ {o} : row'[p] = row[p] /\ pc'[p] = pc[p]
        /\ row'[o].have = row[o].have /\ row'[o].status = row[o].status
        /\ row'[o].expires = row[o].expires /\ row'[o].pinned = row[o].pinned
        /\ row'[o].finalized = row[o].finalized \/ row[o].have = Bytes(o)
        /\ row[o].finalized = TRUE => row'[o].finalized = TRUE
    BY <1>1, <1>2, <1>6 DEF FinalizePart, TablesOK, Row
  <2>3. GateInv'
    BY <1>1, <1>2, <2>1, <2>2 DEF GateInv
  <2>4. RowInv'
    BY <1>1, <1>2, <2>1, <2>2 DEF RowInv, RowOK, Bytes
  <2>5. ChunkInv'
    BY <1>1, <1>2, <2>1, <2>2 DEF ChunkInv, Bytes, Referenced
  <2>6. PromiseInv'
    BY <1>1, <2>1, <2>2 DEF PromiseInv
  <2> QED
    BY <2>3, <2>4, <2>5, <2>6
<1>7. CASE CommitCheck(o)
  BY <1>1, <1>2, <1>7
     DEF CommitCheck, TablesOK, GateInv, RowInv, RowOK, ChunkInv, PromiseInv, Referenced
<1>8. CASE CommitTransaction(o)
  <2>1. /\ pc[o] = "committing" /\ pc'[o] \in {"inspect", "reconcile", "abort"}
        /\ \A p \in Obs \ {o} : row'[p] = row[p] /\ pc'[p] = pc[p]
        /\ row'[o].have = row[o].have /\ row'[o].finalized = row[o].finalized
        /\ row'[o].expires = row[o].expires /\ row'[o].pinned = row[o].pinned
        /\ \/ row'[o].status = row[o].status
           \/ row[o].status = "uploading" /\ row[o].finalized = TRUE /\ row'[o].status = "complete"
        /\ UNCHANGED <<blobs, gate, sweep, keep, promise, released, now, up>>
    BY <1>1, <1>2, <1>8 DEF CommitTransaction, TablesOK, Row
  <2>2. GateInv'
    BY <1>1, <1>2, <2>1 DEF GateInv
  <2>3. RowInv'
    BY <1>1, <1>2, <2>1 DEF RowInv, RowOK, Bytes
  <2>4. ChunkInv'
    BY <1>1, <1>2, <2>1 DEF ChunkInv, Bytes, Referenced
  <2>5. PromiseInv'
    BY <1>1, <2>1 DEF PromiseInv
  <2> QED
    BY <2>2, <2>3, <2>4, <2>5
<1>9. CASE ReconcileCommit(o)
  BY <1>1, <1>2, <1>9
     DEF ReconcileCommit, TablesOK, GateInv, RowInv, RowOK, ChunkInv, PromiseInv, Referenced
<1>10. CASE Inspect(o)
  <2>1. row' = row /\ UNCHANGED <<blobs, gate, sweep, keep, released, now, up>>
        /\ pc[o] = "inspect"
    BY <1>10 DEF Inspect
  <2>2. GateInv' /\ RowInv' /\ ChunkInv'
    BY <1>1, <1>2, <1>10, <2>1
       DEF Inspect, TablesOK, GateInv, RowInv, RowOK, ChunkInv, Referenced
  <2>3. PromiseInv'
    BY <1>1, <1>2, <1>10, <2>1 DEF Inspect, TablesOK, PromiseInv, Readable
  <2> QED
    BY <2>2, <2>3
<1>11. CASE Abort(o)
  <2>1. gate = None /\ sweep = "off" /\ pc[o] = "abort" /\ up
        /\ UNCHANGED <<blobs, promise, keep, released, now, up>>
    BY <1>1, <1>11 DEF Abort, GateInv
  <2>2. CASE UNCHANGED <<row, gate, sweep>> /\ Goto(o, "failed")
    BY <1>1, <1>2, <2>1, <2>2
       DEF TablesOK, GateInv, RowInv, RowOK, ChunkInv, PromiseInv, Referenced
  <2>3. CASE /\ row' = [row EXCEPT ![o] = NoRow] /\ gate' = o /\ sweep' = "select"
             /\ Goto(o, "sweep")
    <3>1. /\ row' \in [Obs -> Row] /\ \A p \in Obs \ {o} : row'[p] = row[p] /\ pc'[p] = pc[p]
          /\ row'[o].status = "absent" /\ row'[o].have = 0 /\ pc'[o] = "sweep"
      BY <1>1, <2>3, NoRowIsRow DEF TablesOK, NoRow
    <3>2. RowInv' /\ ChunkInv' /\ PromiseInv'
      BY <1>1, <1>2, <2>1, <2>3, <3>1
         DEF RowInv, RowOK, ChunkInv, PromiseInv, GateInv, Bytes
    <3>3. GateInv'
      BY <1>1, <1>2, <2>1, <2>3, <3>1 DEF GateInv
    <3> QED
      BY <3>2, <3>3
  <2> QED
    BY <1>11, <2>2, <2>3 DEF Abort
<1> QED
  BY <1>3, <1>4, <1>5, <1>6, <1>7, <1>8, <1>9, <1>10, <1>11 DEF Capture

\* Sweeps, releases, pins, the clock, and the death and the opening of the store.
LEMMA ElsewhereKeepsInv ==
    ASSUME KeepInv, Elsewhere
    PROVE  GateInv' /\ RowInv' /\ ChunkInv' /\ PromiseInv'
<1>1. TablesOK /\ now \in Nat /\ GateInv /\ RowInv /\ ChunkInv /\ PromiseInv
      /\ \A p \in Obs : RowOK(p)
  BY StoreTypes DEF KeepInv, TablesOK, RowInv
<1>2. /\ \A p \in Obs : row[p] \in Row /\ row[p].have \in Nat /\ row[p].expires \in Nat
      /\ \A p \in Obs : Bytes(p) \in Nat /\ promise[p] \in Nat
      /\ None \notin Obs /\ "startup" \notin Obs /\ "release" \notin Obs
      /\ None # "startup" /\ None # "release"
  BY <1>1, StoreAssumption DEF TablesOK, Row, Clock, Bytes
\* Only grants and cursors move.
<1>3. ASSUME UNCHANGED <<row, blobs, pc, promise, gate, sweep, keep, released, now, up, crashes>>
      PROVE  GateInv' /\ RowInv' /\ ChunkInv' /\ PromiseInv'
  BY <1>1, <1>3 DEF GateInv, RowInv, RowOK, ChunkInv, PromiseInv, Referenced
<1>4. CASE SweepSelect
  BY <1>1, <1>4 DEF SweepSelect, GateInv, RowInv, RowOK, ChunkInv, PromiseInv, Referenced
<1>5. CASE SweepRemove
  <2>1. /\ sweep = "remove" /\ gate # None /\ (gate \in Obs => pc[gate] = "sweep")
        /\ \A p \in Obs : pc[p] # "row" /\ pc'[p] = IF gate = p THEN "failed" ELSE pc[p]
        /\ blobs \cap keep \subseteq blobs' /\ Referenced(row) \subseteq keep
        /\ sweep' = "off" /\ gate' = None
        /\ UNCHANGED <<row, promise, released, now>>
    BY <1>1, <1>5 DEF SweepRemove, GateInv, ChunkInv, TablesOK
  <2>2. GateInv'
    BY <1>1, <1>2, <2>1 DEF GateInv
  <2>3. RowInv' /\ PromiseInv'
    BY <1>1, <1>2, <2>1 DEF RowInv, RowOK, PromiseInv, Bytes
  <2>4. ASSUME NEW p \in Obs, NEW i \in 1 .. row[p].have
        PROVE  i <= Bytes(p) /\ Content[p][i] \in blobs'
    <3>1. i <= Bytes(p) /\ Content[p][i] \in blobs
      BY <1>1 DEF ChunkInv
    <3>2. Content[p][i] \in Referenced(row)
      BY <1>1, <3>1 DEF Referenced, TablesOK
    <3> QED
      BY <2>1, <3>1, <3>2
  <2>5. ChunkInv'
    BY <2>1, <2>4 DEF ChunkInv, Bytes
  <2> QED
    BY <2>2, <2>3, <2>5
<1>6. ASSUME NEW o \in Obs, Release(o)
      PROVE  GateInv' /\ RowInv' /\ ChunkInv' /\ PromiseInv'
  <2>1. /\ gate = None /\ sweep = "off" /\ up /\ row[o].status = "complete"
        /\ gate' = "release" /\ sweep' = "select" /\ released' = released \cup {o}
        /\ UNCHANGED <<blobs, pc, promise, keep, now, up>>
        /\ row' = [row EXCEPT ![o] = ReleasedRow(row[o])]
    BY <1>1, <1>6 DEF Release, GateInv, Readable, ReleasedRow
  <2>2. /\ \A p \in Obs \ {o} : row'[p] = row[p]
        /\ row'[o].status = "released" /\ row'[o].have = 0
    BY <1>1, <1>2, <2>1, LeaseRows DEF TablesOK
  <2>3. pc[o] \notin {"idle", "write", "row"} /\ \A p \in Obs : pc[p] # "row"
    BY <1>1, <1>2, <2>1 DEF GateInv, RowOK
  <2>4. GateInv'
    BY <1>1, <1>2, <2>1, <2>2 DEF GateInv
  <2>5. RowInv'
    BY <1>1, <1>2, <2>1, <2>2, <2>3 DEF RowInv, RowOK, Bytes
  <2>6. ChunkInv'
    BY <1>1, <1>2, <2>1, <2>2, <2>3 DEF ChunkInv, Bytes
  <2>7. PromiseInv'
    BY <1>1, <1>2, <2>1, <2>2 DEF PromiseInv
  <2> QED
    BY <2>4, <2>5, <2>6, <2>7
<1>7. ASSUME NEW o \in Obs, NEW ttl \in PinTtls, Pin(o, ttl)
      PROVE  GateInv' /\ RowInv' /\ ChunkInv' /\ PromiseInv'
  <2>1. /\ row[o].status = "complete" /\ row' = [row EXCEPT ![o] = PinnedRow(row[o], ttl)]
        /\ UNCHANGED <<blobs, pc, promise, gate, sweep, keep, released, now, up>>
    BY <1>7 DEF Pin, Readable, PinnedRow
  <2>2. /\ \A p \in Obs \ {o} : row'[p] = row[p]
        /\ row'[o].status = "complete" /\ row'[o].have = row[o].have
        /\ row'[o].finalized = row[o].finalized /\ row'[o].expires >= row[o].expires
        /\ row'[o].expires \in Nat
    <3>1. ttl \in Nat /\ row[o] \in Row
      BY <1>2, StoreAssumption
    <3>2. /\ row'[o] = PinnedRow(row[o], ttl)
          /\ \A p \in Obs \ {o} : row'[p] = row[p]
      BY <1>1, <2>1 DEF TablesOK
    <3>3. PinnedRow(row[o], ttl).expires \in Nat
      BY <1>1, <3>1, LeaseRows DEF Row, Clock
    <3>4. /\ PinnedRow(row[o], ttl).expires >= row[o].expires
          /\ PinnedRow(row[o], ttl).status = row[o].status
          /\ PinnedRow(row[o], ttl).have = row[o].have
      BY <1>1, <3>1, LeaseRows
    <3>5. PinnedRow(row[o], ttl).finalized = row[o].finalized
      BY <1>1, <3>1, LeaseRows
    <3> QED
      BY <2>1, <3>2, <3>3, <3>4, <3>5
  <2>3. GateInv'
    BY <1>1, <1>2, <2>1, <2>2 DEF GateInv
  <2>4. RowInv'
    BY <1>1, <1>2, <2>1, <2>2 DEF RowInv, RowOK, Bytes
  <2>5. ChunkInv'
    BY <1>1, <1>2, <2>1, <2>2 DEF ChunkInv, Bytes, Referenced
  <2>6. PromiseInv'
    BY <1>1, <1>2, <2>1, <2>2 DEF PromiseInv
  <2> QED
    BY <2>3, <2>4, <2>5, <2>6
<1>8. ASSUME NEW g \in GrantIds, NEW o \in Obs, NEW w \in Owners, NEW to \in Owners,
             Grant(g, w, o, to)
      PROVE  GateInv' /\ RowInv' /\ ChunkInv' /\ PromiseInv'
  BY <1>3, <1>8 DEF Grant
<1>9. ASSUME NEW g \in GrantIds, RevokeGrant(g)
      PROVE  GateInv' /\ RowInv' /\ ChunkInv' /\ PromiseInv'
  BY <1>3, <1>9 DEF RevokeGrant
<1>10. ASSUME NEW w \in Owners, NEW o \in Obs, NEW from \in Tokens \cup {None},
              NEW to \in Tokens, Read(w, o, from, to)
       PROVE  GateInv' /\ RowInv' /\ ChunkInv' /\ PromiseInv'
  BY <1>3, <1>10 DEF Read
<1>11. CASE Tick
  BY <1>1, <1>2, <1>11
     DEF Tick, GateInv, RowInv, RowOK, ChunkInv, PromiseInv, Referenced
<1>12. CASE Crash
  <2>1. /\ up' = FALSE /\ gate' = None /\ sweep' = "off"
        /\ \A p \in Obs : pc'[p] = IF pc[p] \in Unfinished THEN "lost" ELSE pc[p]
        /\ UNCHANGED <<row, blobs, promise, released, now>>
    BY <1>12 DEF Crash
  <2>2. GateInv' /\ RowInv'
    BY <1>1, <1>2, <2>1 DEF GateInv, RowInv, RowOK, Bytes, Unfinished
  <2>3. ChunkInv' /\ PromiseInv'
    BY <1>1, <1>2, <2>1 DEF ChunkInv, PromiseInv, Unfinished
  <2> QED
    BY <2>2, <2>3
<1>13. CASE Open
  <2>1. /\ row' \in [Obs -> Row]
        /\ \A p \in Obs : Fades(row[p], row'[p]) /\ row'[p].status # "uploading"
    BY <1>1, <1>13, OpenedRowsFade DEF TablesOK
  <2>2. /\ gate = None /\ sweep = "off" /\ ~up /\ gate' = "startup" /\ sweep' = "select"
        /\ UNCHANGED <<blobs, pc, promise, keep, released, now, up>>
    BY <1>1, <1>13 DEF Open, GateInv
  <2>3. RowInv' /\ ChunkInv' /\ PromiseInv'
    <3> DEFINE none == {}
    <3>1. none \in SUBSET Obs /\ \A p : p \notin none
      OBVIOUS
    <3> HIDE DEF none
    <3>2. \A p \in Obs \ none : Fades(row[p], row'[p]) /\ pc'[p] = pc[p]
      BY <2>1, <2>2
    <3> QED
      BY <2>1, <2>2, <3>1, <3>2, FadingKeeps
  <2>4. GateInv'
    BY <1>1, <1>2, <2>1, <2>2 DEF GateInv
  <2> QED
    BY <2>3, <2>4
<1> QED
  BY <1>4, <1>5, <1>6, <1>7, <1>8, <1>9, <1>10, <1>11, <1>12, <1>13 DEF Elsewhere

\* The empty store.
LEMMA StoreInitKeeps == StoreInit => KeepInv
<1> SUFFICES ASSUME StoreInit PROVE KeepInv
  OBVIOUS
<1>1. row \in [Obs -> Row] /\ \A o \in Obs : row[o].status = "absent" /\ row[o].have = 0
  BY NoRowIsRow DEF StoreInit, NoRow
<1>2. TablesOK
  BY <1>1, StoreAssumption
     DEF StoreInit, TablesOK, GrantsOK, CursorsOK, PCs, Unfinished, Clock
<1>3. GateInv /\ RowInv /\ ChunkInv /\ PromiseInv
  BY <1>1, StoreAssumption DEF StoreInit, GateInv, RowInv, RowOK, ChunkInv, PromiseInv
<1> QED
  BY <1>2, <1>3, StoreTypes DEF KeepInv

\* One step of the store.
LEMMA StoreStepKeeps == KeepInv /\ [StoreNext]_storeVars => KeepInv'
<1>1. ASSUME KeepInv, UNCHANGED storeVars PROVE KeepInv'
  BY <1>1 DEF storeVars, KeepInv, StoreTypeOK, GateInv, RowInv, RowOK, ChunkInv, PromiseInv,
              Referenced
<1>2. ASSUME KeepInv, NEW o \in Obs, Capture(o) PROVE KeepInv'
  <2>1. StoreTypeOK'
    BY <1>2, CaptureKeepsType DEF KeepInv, RowInv, RowOK
  <2> QED
    BY <1>2, <2>1, CaptureKeepsInv DEF KeepInv
<1>3. ASSUME KeepInv, Elsewhere PROVE KeepInv'
  BY <1>3, ElsewhereKeepsType, ElsewhereKeepsInv DEF KeepInv
<1> QED
  BY <1>1, <1>2, <1>3 DEF StoreNext, Elsewhere

\* Whatever fails, crashes, expires or is released around it, every chunk row has its
\* blob, and what capture() reported as retained can be read to the end of its lease.
THEOREM RetainedEvidenceIsKept == StoreSpec => []EvidenceIsKept
<1>1. KeepInv => EvidenceIsKept
  <2> SUFFICES ASSUME KeepInv PROVE EvidenceIsKept
    OBVIOUS
  <2>1. ChunksAreStored
    BY DEF KeepInv, ChunkInv, ChunksAreStored
  <2>2. \A o \in Obs : now \in Nat /\ row[o].expires \in Nat /\ promise[o] \in Nat
    BY StoreTypes DEF KeepInv, TablesOK, Row, Clock
  <2>3. KeepsItsPromise
    BY <2>2 DEF KeepInv, PromiseInv, RowInv, RowOK, KeepsItsPromise, Readable
  <2> QED
    BY <2>1, <2>3 DEF EvidenceIsKept
<1> QED
  BY <1>1, StoreInitKeeps, StoreStepKeeps, PTL DEF StoreSpec

-----------------------------------------------------------------------------
(* Who may read is backed by a lease.                                      *)

Active(r) == r \notin {None, Spent}

GrantsBacked(rows, gs) ==
    \A g \in GrantIds : Active(gs[g]) =>
        /\ rows[gs[g].of].status = "complete"
        /\ gs[g].expires <= rows[gs[g].of].expires

CursorsBacked(rows, gs, cs) ==
    \A t \in Tokens : Active(cs[t]) =>
        /\ rows[cs[t].of].status = "complete"
        /\ cs[t].grant # None => /\ Active(gs[cs[t].grant])
                                 /\ gs[cs[t].grant].of = cs[t].of
                                 /\ gs[cs[t].grant].to = cs[t].reader

Backed(rows, gs, cs) == GrantsBacked(rows, gs) /\ CursorsBacked(rows, gs, cs)

\* AccessIsBacked, as a relation of the three tables.
LEMMA AccessByTables ==
    /\ AccessIsBacked <=> Backed(row, grants, cursors)
    /\ AccessIsBacked' <=> Backed(row', grants', cursors')
BY DEF AccessIsBacked, Backed, GrantsBacked, CursorsBacked, Active, ActiveGrant, ActiveCursor

\* Complete rows that stay complete, for at least as long, keep what they back.
LEMMA LongerLeasesBack ==
    ASSUME NEW rows \in [Obs -> Row], NEW rows2 \in [Obs -> Row], NEW gs, NEW cs,
           GrantsOK(gs), CursorsOK(cs), Backed(rows, gs, cs),
           \A p \in Obs : rows[p].status = "complete" =>
               rows2[p].status = "complete" /\ rows2[p].expires >= rows[p].expires
    PROVE  Backed(rows2, gs, cs)
<1>1. \A p \in Obs : rows[p].expires \in Nat /\ rows2[p].expires \in Nat
  BY DEF Row, Clock
<1>2. ASSUME NEW g \in GrantIds, Active(gs[g])
      PROVE  rows2[gs[g].of].status = "complete" /\ gs[g].expires <= rows2[gs[g].of].expires
  <2>1. gs[g].of \in Obs /\ gs[g].expires \in Nat
    BY <1>2 DEF GrantsOK, GrantRow, Active, Clock
  <2>2. rows[gs[g].of].status = "complete" /\ gs[g].expires <= rows[gs[g].of].expires
    BY <1>2 DEF Backed, GrantsBacked
  <2> QED
    BY <1>1, <2>1, <2>2
<1>3. ASSUME NEW t \in Tokens, Active(cs[t]) PROVE cs[t].of \in Obs
  BY <1>3 DEF CursorsOK, CursorRow, Active
<1> QED
  BY <1>2, <1>3 DEF Backed, GrantsBacked, CursorsBacked

\* Cursors go with the grant they were drawn on.
LEMMA PrunedCursorsAreBacked ==
    ASSUME CursorsBacked(row, grants, cursors), CursorsOK(cursors), NEW rows, NEW gs,
           \A h \in GrantIds : Active(grants[h]) => gs[h] \in {grants[h], Spent}
    PROVE  CursorsBacked(rows, gs, PruneCursors(rows, gs))
<1> SUFFICES ASSUME NEW t \in Tokens, Active(PruneCursors(rows, gs)[t])
             PROVE  /\ rows[PruneCursors(rows, gs)[t].of].status = "complete"
                    /\ PruneCursors(rows, gs)[t].grant # None =>
                         /\ Active(gs[PruneCursors(rows, gs)[t].grant])
                         /\ gs[PruneCursors(rows, gs)[t].grant].of = PruneCursors(rows, gs)[t].of
                         /\ gs[PruneCursors(rows, gs)[t].grant].to = PruneCursors(rows, gs)[t].reader
  BY DEF CursorsBacked
<1>1. /\ PruneCursors(rows, gs)[t] = cursors[t] /\ Active(cursors[t])
      /\ rows[cursors[t].of].status = "complete"
      /\ cursors[t].grant # None => gs[cursors[t].grant] # Spent
  BY DEF PruneCursors, Active, ActiveCursor
<1>2. cursors[t].grant # None => cursors[t].grant \in GrantIds
  BY <1>1 DEF CursorsOK, CursorRow, Active
<1> QED
  BY <1>1, <1>2 DEF CursorsBacked

\* ON DELETE CASCADE, and the lease of every grant, keep the three tables together when
\* rows fade.
LEMMA PruneKeepsBacked ==
    ASSUME TablesOK, Backed(row, grants, cursors), now \in Nat, NEW rows \in [Obs -> Row],
           \A o \in Obs : Fades(row[o], rows[o])
    PROVE  Backed(rows, PruneGrants(rows), PruneCursors(rows, PruneGrants(rows)))
<1>1. \A h \in GrantIds : PruneGrants(rows)[h] \in {grants[h], Spent}
  BY DEF PruneGrants
<1>2. ASSUME NEW g \in GrantIds, Active(PruneGrants(rows)[g])
      PROVE  /\ PruneGrants(rows)[g] = grants[g]
             /\ rows[grants[g].of].status = "complete"
             /\ grants[g].expires <= rows[grants[g].of].expires
  <2>1. /\ PruneGrants(rows)[g] = grants[g] /\ Active(grants[g]) /\ grants[g].expires > now
    BY <1>2 DEF PruneGrants, Active, ActiveGrant, Surviving
  <2>2. grants[g].of \in Obs /\ grants[g].expires \in Nat
    BY <2>1 DEF TablesOK, GrantsOK, GrantRow, Active, Clock
  <2>3. /\ row[grants[g].of].status = "complete"
        /\ grants[g].expires <= row[grants[g].of].expires
    BY <2>1 DEF Backed, GrantsBacked
  <2>4. row[grants[g].of].expires \in Nat
    BY <2>2 DEF TablesOK, Row, Clock
  <2>5. rows[grants[g].of] = row[grants[g].of]
    BY <2>1, <2>2, <2>3, <2>4 DEF Fades
  <2> QED
    BY <2>1, <2>3, <2>5
<1>3. GrantsBacked(rows, PruneGrants(rows))
  BY <1>2 DEF GrantsBacked
<1>4. CursorsBacked(rows, PruneGrants(rows), PruneCursors(rows, PruneGrants(rows)))
  BY <1>1, PrunedCursorsAreBacked DEF Backed, TablesOK
<1> QED
  BY <1>3, <1>4 DEF Backed

\* The steps of a capture.
LEMMA CaptureKeepsAccess ==
    ASSUME KeepInv, AccessIsBacked, NEW o \in Obs, Capture(o), StoreTypeOK'
    PROVE  AccessIsBacked'
<1>1. TablesOK /\ TablesOK' /\ now \in Nat /\ RowOK(o) /\ row[o] \in Row
  BY StoreTypes DEF KeepInv, RowInv, TablesOK
<1>2. row \in [Obs -> Row] /\ row' \in [Obs -> Row] /\ GrantsOK(grants) /\ CursorsOK(cursors)
      /\ Backed(row, grants, cursors) /\ row[o].expires \in Nat
      /\ \A p \in Obs : row[p].expires \in Nat
  BY <1>1, AccessByTables DEF TablesOK, Row, Clock
<1>3. CASE Reserve(o)
  <2> DEFINE rows == ExpireRows(row)
  <2>1. rows \in [Obs -> Row] /\ \A p \in Obs : Fades(row[p], rows[p])
    BY <1>1, <1>2, ExpireRowsFade
  <2>2. rows[o].status # "complete"
    BY <1>1, <1>3, <2>1 DEF Reserve, RowOK, Fades
  <2>3. CASE UNCHANGED <<row, grants, cursors>>
    BY <1>2, <2>3, AccessByTables
  <2>4. CASE ~UNCHANGED <<row, grants, cursors>>
    <3>1. /\ row' = [rows EXCEPT ![o] = [NoRow EXCEPT !.status = "uploading",
                                                       !.expires = now + Ttl]]
          /\ grants' = PruneGrants(rows) /\ cursors' = PruneCursors(rows, PruneGrants(rows))
      BY <1>3, <2>4 DEF Reserve
    <3> HIDE DEF rows
    <3>2. Backed(rows, grants', cursors')
      BY <1>1, <1>2, <2>1, <3>1, PruneKeepsBacked
    <3>3. \A p \in Obs : rows[p].status = "complete" => row'[p] = rows[p]
      BY <2>1, <2>2, <3>1
    <3>4. \A p \in Obs : rows[p].expires \in Nat
      BY <2>1 DEF Row, Clock
    <3>5. GrantsOK(grants') /\ CursorsOK(cursors')
      BY <1>1 DEF TablesOK
    <3>6. Backed(row', grants', cursors')
      BY <1>2, <2>1, <3>2, <3>3, <3>4, <3>5, LongerLeasesBack
    <3> QED
      BY <3>6, AccessByTables
  <2> QED
    BY <2>3, <2>4
<1>4. ASSUME UNCHANGED <<grants, cursors>>,
             \A p \in Obs : row[p].status = "complete" =>
                 row'[p].status = "complete" /\ row'[p].expires >= row[p].expires
      PROVE  AccessIsBacked'
  BY <1>2, <1>4, LongerLeasesBack, AccessByTables
<1>5. CASE AppendPut(o) \/ CommitCheck(o) \/ ReconcileCommit(o) \/ Inspect(o)
  BY <1>2, <1>4, <1>5 DEF AppendPut, CommitCheck, ReconcileCommit, Inspect
<1>6. CASE AppendRow(o)
  BY <1>1, <1>2, <1>4, <1>6 DEF AppendRow, Row
<1>7. CASE FinalizePart(o)
  BY <1>1, <1>2, <1>4, <1>7 DEF FinalizePart, Row
<1>8. CASE CommitTransaction(o)
  BY <1>1, <1>2, <1>4, <1>8 DEF CommitTransaction, Row
<1>9. CASE Abort(o)
  BY <1>1, <1>2, <1>4, <1>9 DEF Abort
<1> QED
  BY <1>3, <1>5, <1>6, <1>7, <1>8, <1>9 DEF Capture

\* Releases, pins, grants, revocations, reads and the opening of the store.
LEMMA ElsewhereKeepsAccess ==
    ASSUME KeepInv, AccessIsBacked, Elsewhere, StoreTypeOK'
    PROVE  AccessIsBacked'
<1>1. TablesOK /\ TablesOK' /\ now \in Nat
  BY StoreTypes DEF KeepInv, RowInv, TablesOK
<1>2. row \in [Obs -> Row] /\ row' \in [Obs -> Row] /\ GrantsOK(grants) /\ CursorsOK(cursors)
      /\ Backed(row, grants, cursors)
      /\ \A p \in Obs : row[p].expires \in Nat
  BY <1>1, AccessByTables DEF TablesOK, Row, Clock
<1>3. ASSUME UNCHANGED <<row, grants, cursors>> PROVE AccessIsBacked'
  BY <1>2, <1>3, AccessByTables
<1>4. CASE SweepSelect \/ SweepRemove \/ Tick \/ Crash
  BY <1>3, <1>4 DEF SweepSelect, SweepRemove, Tick, Crash
<1>5. ASSUME NEW o \in Obs, Release(o) PROVE AccessIsBacked'
  <2>1. \A p \in Obs \ {o} : row'[p] = row[p]
    BY <1>2, <1>5 DEF Release
  <2>2. \A g \in GrantIds : Active(grants'[g]) => /\ grants'[g] = grants[g]
                                                  /\ grants[g].of \in Obs \ {o}
    BY <1>2, <1>5 DEF Release, Active, ActiveGrant, GrantsOK, GrantRow
  <2>3. \A t \in Tokens : Active(cursors'[t]) => /\ cursors'[t] = cursors[t]
                                                 /\ cursors[t].of \in Obs \ {o}
                                                 /\ cursors[t].grant \in GrantIds \cup {None}
    BY <1>2, <1>5 DEF Release, Active, ActiveCursor, CursorsOK, CursorRow
  <2>4. \A g \in GrantIds : Active(grants[g]) /\ grants[g].of # o => grants'[g] = grants[g]
    BY <1>5 DEF Release
  <2>5. GrantsBacked(row', grants')
    BY <1>2, <2>1, <2>2 DEF Backed, GrantsBacked
  <2>6. CursorsBacked(row', grants', cursors')
    BY <1>2, <2>1, <2>3, <2>4 DEF Backed, CursorsBacked
  <2> QED
    BY <2>5, <2>6, AccessByTables DEF Backed
<1>6. ASSUME NEW o \in Obs, NEW ttl \in PinTtls, Pin(o, ttl) PROVE AccessIsBacked'
  <2>1. ttl \in Nat /\ row[o] \in Row
    BY <1>2, StoreAssumption
  <2>2. row' = [row EXCEPT ![o] = PinnedRow(row[o], ttl)] /\ UNCHANGED <<grants, cursors>>
    BY <1>6 DEF Pin, PinnedRow
  <2>3. /\ PinnedRow(row[o], ttl).expires >= row[o].expires
        /\ PinnedRow(row[o], ttl).status = row[o].status
    BY <1>1, <2>1, LeaseRows
  <2>4. \A p \in Obs : row'[p].status = row[p].status /\ row'[p].expires >= row[p].expires
    BY <1>2, <2>2, <2>3
  <2> QED
    BY <1>2, <2>2, <2>4, LongerLeasesBack, AccessByTables
<1>7. ASSUME NEW g \in GrantIds, NEW o \in Obs, NEW w \in Owners, NEW to \in Owners,
             Grant(g, w, o, to)
      PROVE  AccessIsBacked'
  <2> DEFINE spent == [h \in GrantIds |-> IF ActiveGrant(h) /\ grants[h].expires <= now
                                          THEN Spent ELSE grants[h]]
             lease == IF now + Ttl < row[o].expires THEN now + Ttl ELSE row[o].expires
  <2>1. /\ grants[g] = None /\ row[o].status = "complete" /\ row' = row
        /\ grants' = [spent EXCEPT ![g] = [of |-> o, by |-> w, to |-> to, expires |-> lease]]
        /\ cursors' = PruneCursors(row, grants')
    BY <1>7 DEF Grant, Authorized, Readable
  <2>2. lease <= row[o].expires
    BY <1>1, <1>2, StoreAssumption
  <2> HIDE DEF lease
  <2>3. \A h \in GrantIds \ {g} : grants'[h] \in {grants[h], Spent}
    BY <2>1
  <2>4. grants'[g] = [of |-> o, by |-> w, to |-> to, expires |-> lease]
    BY <2>1
  <2>5. GrantsBacked(row', grants')
    <3> SUFFICES ASSUME NEW h \in GrantIds, Active(grants'[h])
                 PROVE  /\ row'[grants'[h].of].status = "complete"
                        /\ grants'[h].expires <= row'[grants'[h].of].expires
      BY DEF GrantsBacked
    <3>1. CASE h = g
      BY <2>1, <2>2, <2>4, <3>1
    <3>2. CASE h # g
      <4>1. grants'[h] = grants[h]
        BY <2>3, <3>2 DEF Active
      <4> QED
        BY <1>2, <2>1, <4>1 DEF Backed, GrantsBacked
    <3> QED
      BY <3>1, <3>2
  <2>6. \A h \in GrantIds : Active(grants[h]) => grants'[h] \in {grants[h], Spent}
    BY <2>1, <2>3 DEF Active
  <2>7. CursorsBacked(row', grants', cursors')
    BY <1>2, <2>1, <2>6, PrunedCursorsAreBacked DEF Backed
  <2> QED
    BY <2>5, <2>7, AccessByTables DEF Backed
<1>8. ASSUME NEW g \in GrantIds, RevokeGrant(g) PROVE AccessIsBacked'
  <2>1. /\ row' = row /\ cursors' = PruneCursors(row, grants')
        /\ \A h \in GrantIds : grants'[h] \in {grants[h], Spent}
    BY <1>8 DEF RevokeGrant
  <2>2. GrantsBacked(row', grants')
    BY <1>2, <2>1 DEF Backed, GrantsBacked, Active
  <2>3. CursorsBacked(row', grants', cursors')
    BY <1>2, <2>1, PrunedCursorsAreBacked DEF Backed
  <2> QED
    BY <2>2, <2>3, AccessByTables DEF Backed
<1>9. ASSUME NEW w \in Owners, NEW o \in Obs, NEW from \in Tokens \cup {None},
             NEW to \in Tokens, Read(w, o, from, to)
      PROVE  AccessIsBacked'
  <2> DEFINE at == IF from = None THEN 1 ELSE cursors[from].at + 1
  <2>1. PICK g \in AccessOf(w, o) :
          cursors' = [cursors EXCEPT ![to] =
                        [of |-> o, reader |-> w, grant |-> g, at |-> at]]
    BY <1>9 DEF Read
  <2> HIDE DEF at
  <2>2. row[o].status = "complete" /\ row' = row /\ grants' = grants
    BY <1>9 DEF Read, Readable
  <2>3. g # None => Active(grants[g]) /\ grants[g].of = o /\ grants[g].to = w
    BY DEF AccessOf, ActiveGrant, Active
  <2>4. \A t \in Tokens : cursors'[t] = IF t = to THEN [of |-> o, reader |-> w, grant |-> g, at |-> at]
                                        ELSE cursors[t]
    BY <2>1, <1>1 DEF TablesOK, CursorsOK
  <2>5. CursorsBacked(row', grants', cursors')
    BY <1>2, <2>2, <2>3, <2>4 DEF Backed, CursorsBacked
  <2> QED
    BY <1>2, <2>2, <2>5, AccessByTables DEF Backed
<1>10. CASE Open
  <2>1. /\ row' \in [Obs -> Row] /\ \A p \in Obs : Fades(row[p], row'[p])
    BY <1>1, <1>2, <1>10, OpenedRowsFade
  <2>2. grants' = PruneGrants(row') /\ cursors' = PruneCursors(row', grants')
    BY <1>10 DEF Open
  <2> QED
    BY <1>1, <1>2, <2>1, <2>2, PruneKeepsBacked, AccessByTables
<1> QED
  BY <1>4, <1>5, <1>6, <1>7, <1>8, <1>9, <1>10 DEF Elsewhere

-----------------------------------------------------------------------------
(* What is leased is within the limits.                                    *)

BytesOf(S) == UNION {{o} \X (1 .. Bytes(o)) : o \in S}

Live(rows) == {o \in Obs : rows[o].status # "absent"}
CapturedBy(w) == {o \in Obs : OwnerOf[o] = w}
PinnedBy == [w \in Owners |-> PinnedLive(w)]

\* Charged rows C, live rows L and, for every owner, pinned rows P keep the limits of
\* EvidenceStoreConfig.
Within(C, L, P) ==
    /\ IsFiniteSet(L) /\ IsFiniteSet(BytesOf(C))
    /\ SumBytes(C) <= MaxTotalBytes
    /\ Cardinality(L) <= MaxTotalObservations
    /\ \A w \in Owners :
          /\ SumBytes(C \cap CapturedBy(w)) <= MaxOwnerBytes
          /\ Cardinality(L \cap CapturedBy(w)) <= MaxOwnerObservations
          /\ P[w] \subseteq C
          /\ SumBytes(P[w]) <= MaxPinnedBytes

\* An upload is somebody's: of a capture under way, or of one whose abort failed.
UploadInv ==
    /\ gate = "startup" => \A o \in Obs : row[o].status # "uploading"
    /\ up => \A o \in Obs : row[o].status = "uploading" => pc[o] \in Unfinished \/ o \in Faulty

Holdings == Within(Charged(row), Live(row), PinnedBy)

QuotaInv == Holdings /\ UploadInv

\* The limits and the declared lengths are numbers.
LEMMA LimitsAreNumbers ==
    /\ MaxOwnerBytes \in Nat /\ MaxTotalBytes \in Nat /\ MaxPinnedBytes \in Nat
    /\ MaxOwnerObservations \in Nat /\ MaxTotalObservations \in Nat
    /\ \A o \in Obs : Bytes(o) \in Nat /\ OwnerOf[o] \in Owners
BY StoreAssumption DEF Bytes

\* Fewer rows hold no more bytes.
LEMMA FewerBytes ==
    ASSUME NEW S, NEW T \in SUBSET S, IsFiniteSet(BytesOf(S))
    PROVE  /\ IsFiniteSet(BytesOf(T)) /\ SumBytes(T) <= SumBytes(S)
           /\ SumBytes(S) \in Nat /\ SumBytes(T) \in Nat
<1>1. BytesOf(T) \in SUBSET BytesOf(S)
  BY DEF BytesOf
<1>2. SumBytes(S) = Cardinality(BytesOf(S)) /\ SumBytes(T) = Cardinality(BytesOf(T))
  BY DEF SumBytes, BytesOf
<1> QED
  BY <1>1, <1>2, FS_Subset, FS_CardinalityType

\* One more row holds at most its declared bytes more.
LEMMA OneMoreRow ==
    ASSUME NEW S, NEW o \in Obs, IsFiniteSet(BytesOf(S))
    PROVE  /\ IsFiniteSet(BytesOf(S \cup {o}))
           /\ SumBytes(S \cup {o}) <= SumBytes(S) + Bytes(o)
           /\ SumBytes(S \cup {o}) \in Nat /\ SumBytes(S) \in Nat
<1> DEFINE own == {o} \X (1 .. Bytes(o))
<1>1. Bytes(o) \in Nat
  BY LimitsAreNumbers
<1>2. IsFiniteSet(own) /\ Cardinality(own) = Bytes(o)
  <2>1. IsFiniteSet({o}) /\ Cardinality({o}) = 1
    BY FS_Singleton
  <2>2. IsFiniteSet(1 .. Bytes(o)) /\ Cardinality(1 .. Bytes(o)) = Bytes(o)
    BY <1>1, FS_Interval
  <2> DEFINE one == {o}
             span == 1 .. Bytes(o)
  <2> HIDE DEF one, span
  <2>3. IsFiniteSet(one) /\ IsFiniteSet(span) /\ Cardinality(one) = 1
        /\ Cardinality(span) = Bytes(o)
    BY <2>1, <2>2 DEF one, span
  <2>4. IsFiniteSet(one \X span) /\ Cardinality(one \X span) = Cardinality(one) * Cardinality(span)
    BY <2>3, FS_Product
  <2> QED
    BY <1>1, <2>3, <2>4 DEF one, span
<1>3. BytesOf(S \cup {o}) = BytesOf(S) \cup own
  BY DEF BytesOf
<1>4. SumBytes(S) = Cardinality(BytesOf(S)) /\ SumBytes(S \cup {o}) = Cardinality(BytesOf(S \cup {o}))
  BY DEF SumBytes, BytesOf
<1> HIDE DEF own
<1>5. /\ IsFiniteSet(BytesOf(S) \cup own)
      /\ Cardinality(BytesOf(S) \cup own) =
            Cardinality(BytesOf(S)) + Cardinality(own) - Cardinality(BytesOf(S) \cap own)
  BY <1>2, FS_Union
<1>6. Cardinality(BytesOf(S)) \in Nat /\ Cardinality(BytesOf(S) \cap own) \in Nat
      /\ Cardinality(BytesOf(S) \cup own) \in Nat
  BY <1>2, <1>5, FS_Intersection, FS_CardinalityType
<1>7. IsFiniteSet(BytesOf(S \cup {o}))
  BY <1>3, <1>5
<1>8. SumBytes(S \cup {o}) = SumBytes(S) + Bytes(o) - Cardinality(BytesOf(S) \cap own)
  BY <1>2, <1>3, <1>4, <1>5
<1>9. SumBytes(S) \in Nat /\ SumBytes(S \cup {o}) \in Nat
  BY <1>3, <1>4, <1>6
<1> QED
  BY <1>1, <1>6, <1>7, <1>8, <1>9

\* Rows that go, and pins that end, leave the limits kept.
LEMMA LessIsWithin ==
    ASSUME NEW C, NEW L, NEW P, Within(C, L, P),
           NEW C2 \in SUBSET C, NEW L2 \in SUBSET L, NEW P2,
           \A w \in Owners : P2[w] \subseteq P[w] /\ P2[w] \subseteq C2
    PROVE  Within(C2, L2, P2)
<1>1. IsFiniteSet(L) /\ IsFiniteSet(BytesOf(C))
  BY DEF Within
<1>2. IsFiniteSet(L2) /\ Cardinality(L2) <= Cardinality(L)
      /\ Cardinality(L2) \in Nat /\ Cardinality(L) \in Nat
  BY <1>1, FS_Subset, FS_CardinalityType
<1>3. IsFiniteSet(BytesOf(C2)) /\ SumBytes(C2) <= SumBytes(C)
      /\ SumBytes(C2) \in Nat /\ SumBytes(C) \in Nat
  BY <1>1, FewerBytes
<1>4. ASSUME NEW w \in Owners
      PROVE  /\ SumBytes(C2 \cap CapturedBy(w)) <= MaxOwnerBytes
             /\ Cardinality(L2 \cap CapturedBy(w)) <= MaxOwnerObservations
             /\ SumBytes(P2[w]) <= MaxPinnedBytes
  <2> DEFINE Cw == C \cap CapturedBy(w)
             Lw == L \cap CapturedBy(w)
  <2>1. IsFiniteSet(Lw) /\ L2 \cap CapturedBy(w) \in SUBSET Lw /\ Cardinality(Lw) <= MaxOwnerObservations
    BY <1>1, FS_Intersection DEF Within
  <2>2. C2 \cap CapturedBy(w) \in SUBSET Cw /\ SumBytes(Cw) <= MaxOwnerBytes /\ Cw \in SUBSET C
    BY DEF Within
  <2>3. IsFiniteSet(BytesOf(Cw)) /\ IsFiniteSet(BytesOf(P[w])) /\ P2[w] \in SUBSET P[w]
        /\ SumBytes(P[w]) <= MaxPinnedBytes
    BY <1>1, <2>2, FewerBytes DEF Within
  <2> HIDE DEF Cw, Lw
  <2>4. SumBytes(C2 \cap CapturedBy(w)) <= SumBytes(Cw) /\ SumBytes(Cw) \in Nat
        /\ SumBytes(C2 \cap CapturedBy(w)) \in Nat
    BY <2>2, <2>3, FewerBytes
  <2>5. SumBytes(P2[w]) <= SumBytes(P[w]) /\ SumBytes(P[w]) \in Nat /\ SumBytes(P2[w]) \in Nat
    BY <2>3, FewerBytes
  <2>6. Cardinality(L2 \cap CapturedBy(w)) <= Cardinality(Lw) /\ Cardinality(Lw) \in Nat
        /\ Cardinality(L2 \cap CapturedBy(w)) \in Nat
    BY <2>1, FS_Subset, FS_CardinalityType
  <2> QED
    BY <2>1, <2>2, <2>3, <2>4, <2>5, <2>6, LimitsAreNumbers
<1>5. SumBytes(C2) <= MaxTotalBytes /\ Cardinality(L2) <= MaxTotalObservations
  BY <1>2, <1>3, LimitsAreNumbers DEF Within
<1> QED
  BY <1>2, <1>3, <1>4, <1>5 DEF Within

\* A reservation that reserve admits.
LEMMA AdmittedIsWithin ==
    ASSUME NEW C, NEW L, NEW P, Within(C, L, P), NEW o \in Obs,
           SumBytes(C \cap CapturedBy(OwnerOf[o])) + Bytes(o) <= MaxOwnerBytes,
           SumBytes(C) + Bytes(o) <= MaxTotalBytes,
           Cardinality(L \cap CapturedBy(OwnerOf[o])) < MaxOwnerObservations,
           Cardinality(L) < MaxTotalObservations
    PROVE  Within(C \cup {o}, L \cup {o}, P)
<1>1. IsFiniteSet(L) /\ IsFiniteSet(BytesOf(C)) /\ Cardinality(L) \in Nat
  BY FS_CardinalityType DEF Within
<1>2. IsFiniteSet(BytesOf(C \cup {o})) /\ SumBytes(C \cup {o}) <= SumBytes(C) + Bytes(o)
      /\ SumBytes(C \cup {o}) \in Nat /\ SumBytes(C) \in Nat
  BY <1>1, OneMoreRow
<1>3. IsFiniteSet(L \cup {o}) /\ Cardinality(L \cup {o}) <= MaxTotalObservations
  <2>1. /\ IsFiniteSet(L \cup {o})
        /\ Cardinality(L \cup {o}) = IF o \in L THEN Cardinality(L) ELSE Cardinality(L) + 1
    BY <1>1, FS_AddElement
  <2> QED
    BY <1>1, <2>1, LimitsAreNumbers
<1>4. ASSUME NEW w \in Owners
      PROVE  /\ SumBytes((C \cup {o}) \cap CapturedBy(w)) <= MaxOwnerBytes
             /\ Cardinality((L \cup {o}) \cap CapturedBy(w)) <= MaxOwnerObservations
  <2> DEFINE Cw == C \cap CapturedBy(w)
             Lw == L \cap CapturedBy(w)
  <2>1. CASE OwnerOf[o] # w
    <3>1. (C \cup {o}) \cap CapturedBy(w) = Cw /\ (L \cup {o}) \cap CapturedBy(w) = Lw
      BY <2>1 DEF CapturedBy
    <3> QED
      BY <3>1 DEF Within
  <2>2. CASE OwnerOf[o] = w
    <3>1. (C \cup {o}) \cap CapturedBy(w) = Cw \cup {o} /\ (L \cup {o}) \cap CapturedBy(w) = Lw \cup {o}
      BY <2>2 DEF CapturedBy
    <3>2. IsFiniteSet(Lw) /\ Cardinality(Lw) \in Nat /\ Cw \in SUBSET C
      BY <1>1, FS_Intersection, FS_CardinalityType
    <3>3. IsFiniteSet(BytesOf(Cw))
      BY <1>1, <3>2, FewerBytes
    <3>4. Cardinality(Lw) < MaxOwnerObservations /\ SumBytes(Cw) + Bytes(o) <= MaxOwnerBytes
      BY <2>2
    <3> HIDE DEF Cw, Lw
    <3>5. SumBytes(Cw \cup {o}) <= SumBytes(Cw) + Bytes(o) /\ SumBytes(Cw \cup {o}) \in Nat
          /\ SumBytes(Cw) \in Nat
      BY <3>3, OneMoreRow
    <3>6. Cardinality(Lw \cup {o}) <= MaxOwnerObservations
      <4>1. Cardinality(Lw \cup {o}) = IF o \in Lw THEN Cardinality(Lw) ELSE Cardinality(Lw) + 1
        BY <3>2, FS_AddElement
      <4> QED
        BY <3>2, <3>4, <4>1, LimitsAreNumbers
    <3>7. SumBytes(Cw \cup {o}) <= MaxOwnerBytes
      BY <3>4, <3>5, LimitsAreNumbers
    <3> QED
      BY <3>1, <3>6, <3>7
  <2> QED
    BY <2>1, <2>2
<1>5. SumBytes(C \cup {o}) <= MaxTotalBytes
  BY <1>2, LimitsAreNumbers
<1> QED
  BY <1>2, <1>3, <1>4, <1>5 DEF Within

\* A pin that pin admits.
LEMMA PinnedIsWithin ==
    ASSUME NEW C, NEW L, NEW P, Within(C, L, P), NEW o \in C, NEW P2, o \in Obs,
           \A w \in Owners : P2[w] \subseteq C,
           \A w \in Owners : w # OwnerOf[o] => P2[w] \subseteq P[w],
           P2[OwnerOf[o]] \subseteq P[OwnerOf[o]] \cup {o},
           SumBytes(P[OwnerOf[o]] \ {o}) + Bytes(o) <= MaxPinnedBytes
    PROVE  Within(C, L, P2)
<1> DEFINE v == OwnerOf[o]
           rest == P[v] \ {o}
<1>1. v \in Owners /\ IsFiniteSet(BytesOf(C)) /\ rest \in SUBSET C /\ P2[v] \in SUBSET (rest \cup {o})
  BY LimitsAreNumbers DEF Within
<1>2. SumBytes(rest) + Bytes(o) <= MaxPinnedBytes
  OBVIOUS
<1> HIDE DEF rest
<1>3. IsFiniteSet(BytesOf(rest))
  BY <1>1, FewerBytes
<1>4. /\ SumBytes(rest \cup {o}) <= SumBytes(rest) + Bytes(o)
      /\ IsFiniteSet(BytesOf(rest \cup {o})) /\ SumBytes(rest \cup {o}) \in Nat
      /\ SumBytes(rest) \in Nat
  BY <1>3, OneMoreRow
<1>5. SumBytes(P2[v]) <= SumBytes(rest \cup {o}) /\ SumBytes(P2[v]) \in Nat
  BY <1>1, <1>4, FewerBytes
<1>6. SumBytes(P2[v]) <= MaxPinnedBytes
  BY <1>2, <1>4, <1>5, LimitsAreNumbers
<1>7. ASSUME NEW w \in Owners, w # v PROVE SumBytes(P2[w]) <= MaxPinnedBytes
  <2>1. P2[w] \in SUBSET P[w] /\ P[w] \in SUBSET C /\ SumBytes(P[w]) <= MaxPinnedBytes
    BY <1>7 DEF Within
  <2>2. IsFiniteSet(BytesOf(P[w]))
    BY <1>1, <2>1, FewerBytes
  <2>3. SumBytes(P2[w]) <= SumBytes(P[w]) /\ SumBytes(P2[w]) \in Nat /\ SumBytes(P[w]) \in Nat
    BY <2>1, <2>2, FewerBytes
  <2> QED
    BY <2>1, <2>3, LimitsAreNumbers
<1> QED
  BY <1>6, <1>7 DEF Within

\* A row holds what it held, or less.
HoldsLess(r, e, later) ==
    /\ e.status \in {"uploading", "complete"} => r.status \in {"uploading", "complete"}
    /\ e.status # "absent" => r.status # "absent"
    /\ e.status = "complete" /\ e.expires > later /\ e.pinned = TRUE =>
           r.status = "complete" /\ r.expires > now /\ r.pinned = TRUE

PinnedIn(rows, w, time) ==
    {o \in Obs : OwnerOf[o] = w /\ rows[o].status = "complete" /\ rows[o].expires > time
                    /\ rows[o].pinned = TRUE}

\* What pin counts, before and after a step.
LEMMA PinnedRows ==
    ASSUME TablesOK, TablesOK', NEW w \in Owners
    PROVE  /\ PinnedBy[w] = PinnedIn(row, w, now)
           /\ PinnedBy'[w] = PinnedIn(row', w, now')
<1>1. \A o \in Obs : row[o].pinned \in BOOLEAN /\ row'[o].pinned \in BOOLEAN
  BY DEF TablesOK, Row
<1>2. PinnedBy[w] = PinnedLive(w) /\ PinnedBy'[w] = PinnedLive(w)'
  BY DEF PinnedBy
<1>3. PinnedLive(w) = PinnedIn(row, w, now)
  BY <1>1 DEF PinnedLive, Readable, PinnedIn
<1>4. PinnedLive(w)' = PinnedIn(row', w, now')
  BY <1>1 DEF PinnedLive, Readable, PinnedIn
<1> QED
  BY <1>2, <1>3, <1>4

\* The holdings of the next state.
LEMMA HoldingsNext == Holdings' <=> Within(Charged(row'), Live(row'), PinnedBy')
BY DEF Holdings

\* A step after which every row holds less keeps the limits.
LEMMA HoldingLessIsWithin ==
    ASSUME TablesOK, TablesOK', Holdings, \A p \in Obs : HoldsLess(row[p], row'[p], now')
    PROVE  Holdings'
<1>1. Charged(row') \in SUBSET Charged(row) /\ Live(row') \in SUBSET Live(row)
  BY DEF Charged, Live, HoldsLess
<1>2. \A w \in Owners : /\ PinnedBy'[w] \subseteq PinnedBy[w]
                        /\ PinnedBy'[w] \subseteq Charged(row')
  BY PinnedRows DEF PinnedIn, HoldsLess, Charged
<1> QED
  BY <1>1, <1>2, LessIsWithin, HoldingsNext DEF Holdings

\* What fades holds less.
LEMMA FadedRowsHoldLess ==
    ASSUME NEW r \in Row, NEW e, Fades(r, e), now \in Nat, NEW later, later = now
    PROVE  HoldsLess(r, e, later)
BY DEF Fades, HoldsLess, Row, Statuses, Clock

\* reserve keeps the limits: it admits what fits after the expired rows are gone.
LEMMA ReservationIsWithin ==
    ASSUME KeepInv, StoreTypeOK', Holdings, NEW o \in Obs, Reserve(o)
    PROVE  Holdings'
<1> DEFINE rows == ExpireRows(row)
<1>1. TablesOK /\ TablesOK' /\ now \in Nat /\ RowOK(o) /\ row \in [Obs -> Row] /\ now' = now
  BY StoreTypes DEF KeepInv, RowInv, TablesOK, Reserve
<1>2. rows \in [Obs -> Row] /\ \A p \in Obs : Fades(row[p], rows[p])
  BY <1>1, ExpireRowsFade
<1>3. CASE row' = row
  <2>1. \A p \in Obs : HoldsLess(row[p], row'[p], now')
    BY <1>1, <1>3 DEF HoldsLess
  <2> QED
    BY <1>1, <2>1, HoldingLessIsWithin
<1>4. CASE /\ Admits(rows, o)
           /\ row' = [rows EXCEPT ![o] = [NoRow EXCEPT !.status = "uploading",
                                                        !.expires = now + Ttl]]
  <2> DEFINE C == Charged(rows)
             L == Live(rows)
             P == [w \in Owners |-> PinnedIn(rows, w, now)]
  <2>1. /\ SumBytes(C \cap CapturedBy(OwnerOf[o])) + Bytes(o) <= MaxOwnerBytes
        /\ SumBytes(C) + Bytes(o) <= MaxTotalBytes
        /\ Cardinality(L \cap CapturedBy(OwnerOf[o])) < MaxOwnerObservations
        /\ Cardinality(L) < MaxTotalObservations
    BY <1>4 DEF Admits, Live, CapturedBy
  <2>2. /\ \A p \in Obs \ {o} : row'[p] = rows[p]
        /\ row'[o].status = "uploading" /\ row'[o].pinned = FALSE
    BY <1>2, <1>4 DEF NoRow
  <2>3. \A p \in Obs : HoldsLess(row[p], rows[p], now)
    BY <1>1, <1>2, FadedRowsHoldLess
  <2> HIDE DEF rows
  <2>4. C \in SUBSET Charged(row) /\ L \in SUBSET Live(row)
    BY <2>3 DEF Charged, Live, HoldsLess
  <2>5. \A w \in Owners : P[w] \subseteq PinnedBy[w] /\ P[w] \subseteq C
    BY <1>1, <2>3, PinnedRows DEF PinnedIn, HoldsLess, Charged
  <2>6. Charged(row') \in SUBSET (C \cup {o}) /\ Live(row') \in SUBSET (L \cup {o})
    BY <2>2 DEF Charged, Live
  <2>7. \A w \in Owners : PinnedBy'[w] \subseteq P[w] /\ PinnedBy'[w] \subseteq Charged(row')
    <3> SUFFICES ASSUME NEW w \in Owners
                 PROVE  PinnedBy'[w] \subseteq P[w] /\ PinnedBy'[w] \subseteq Charged(row')
      OBVIOUS
    <3>1. PinnedBy'[w] = PinnedIn(row', w, now) /\ P[w] = PinnedIn(rows, w, now)
      BY <1>1, PinnedRows
    <3>2. PinnedIn(row', w, now) \subseteq PinnedIn(rows, w, now)
      BY <2>2 DEF PinnedIn
    <3>3. PinnedIn(row', w, now) \subseteq Charged(row')
      BY DEF PinnedIn, Charged
    <3> QED
      BY <3>1, <3>2, <3>3
  <2> HIDE DEF C, L, P
  <2>8. Within(C, L, P)
    BY <2>4, <2>5, LessIsWithin DEF Holdings
  <2>9. Within(C \cup {o}, L \cup {o}, P)
    BY <2>1, <2>8, AdmittedIsWithin
  <2>10. Within(Charged(row'), Live(row'), PinnedBy')
    BY <2>6, <2>7, <2>9, LessIsWithin
  <2> QED
    BY <2>10, HoldingsNext
<1> QED
  BY <1>3, <1>4 DEF Reserve

\* pin keeps the limits: it counts what its owner has pinned besides.
LEMMA PinIsWithin ==
    ASSUME KeepInv, StoreTypeOK', Holdings, NEW o \in Obs, NEW ttl \in PinTtls, Pin(o, ttl)
    PROVE  Holdings'
<1>1. TablesOK /\ TablesOK' /\ now \in Nat /\ row[o] \in Row /\ now' = now
      /\ row \in [Obs -> Row] /\ ttl \in Nat
  BY StoreTypes, StoreAssumption DEF KeepInv, TablesOK, Pin
<1>2. /\ row[o].status = "complete" /\ row[o].expires > now
      /\ row' = [row EXCEPT ![o] = PinnedRow(row[o], ttl)]
      /\ SumBytes(PinnedLive(OwnerOf[o]) \ {o}) + Bytes(o) <= MaxPinnedBytes
  BY DEF Pin, Readable, PinnedRow
<1>3. /\ \A p \in Obs \ {o} : row'[p] = row[p]
      /\ row'[o].status = row[o].status
  BY <1>1, <1>2, LeaseRows
<1>4. Charged(row') = Charged(row) /\ Live(row') = Live(row) /\ o \in Charged(row)
  BY <1>2, <1>3 DEF Charged, Live
<1>5. OwnerOf[o] \in Owners
  BY LimitsAreNumbers
<1>6. /\ \A w \in Owners : PinnedBy'[w] \subseteq Charged(row)
      /\ \A w \in Owners : w # OwnerOf[o] => PinnedBy'[w] \subseteq PinnedBy[w]
      /\ PinnedBy'[OwnerOf[o]] \subseteq PinnedBy[OwnerOf[o]] \cup {o}
  <2>1. ASSUME NEW w \in Owners
        PROVE  PinnedBy'[w] = PinnedIn(row', w, now) /\ PinnedBy[w] = PinnedIn(row, w, now)
    BY <1>1, PinnedRows
  <2>2. \A w \in Owners : PinnedIn(row', w, now) \subseteq Charged(row)
    BY <1>4 DEF PinnedIn, Charged
  <2>3. \A w \in Owners : w # OwnerOf[o] => PinnedIn(row', w, now) \subseteq PinnedIn(row, w, now)
    BY <1>3 DEF PinnedIn
  <2>4. PinnedIn(row', OwnerOf[o], now) \subseteq PinnedIn(row, OwnerOf[o], now) \cup {o}
    BY <1>3 DEF PinnedIn
  <2> QED
    BY <1>5, <2>1, <2>2, <2>3, <2>4
<1>7. SumBytes(PinnedBy[OwnerOf[o]] \ {o}) + Bytes(o) <= MaxPinnedBytes
  BY <1>2, <1>5 DEF PinnedBy
<1>8. Within(Charged(row), Live(row), PinnedBy')
  BY <1>4, <1>6, <1>7, PinnedIsWithin DEF Holdings
<1> QED
  BY <1>4, <1>8, HoldingsNext

\* The steps of a capture.
LEMMA CaptureKeepsQuota ==
    ASSUME KeepInv, StoreTypeOK', QuotaInv, NEW o \in Obs, Capture(o)
    PROVE  QuotaInv'
<1> USE DEF Goto
<1>1. TablesOK /\ TablesOK' /\ now \in Nat /\ RowOK(o) /\ row[o] \in Row /\ GateInv
      /\ row \in [Obs -> Row] /\ pc \in [Obs -> PCs] /\ now' = now /\ up /\ up' /\ gate # "startup"
      /\ row[o].pinned \in BOOLEAN
  BY StoreTypes
     DEF KeepInv, RowInv, TablesOK, Capture, Reserve, AppendPut, AppendRow, FinalizePart, Row,
         CommitCheck, CommitTransaction, ReconcileCommit, Inspect, Abort, GateInv
<1>2. Holdings /\ \A p \in Obs : row[p].status = "uploading" => pc[p] \in Unfinished \/ p \in Faulty
  BY <1>1 DEF QuotaInv, UploadInv
\* One row changes, and its capture takes a step.
<1>3. ASSUME \A p \in Obs \ {o} : row'[p] = row[p] /\ pc'[p] = pc[p],
             HoldsLess(row[o], row'[o], now)
      PROVE  Holdings'
  <2>1. \A p \in Obs : HoldsLess(row[p], row'[p], now')
    BY <1>1, <1>3 DEF HoldsLess
  <2> QED
    BY <1>1, <1>2, <2>1, HoldingLessIsWithin
<1>4. ASSUME \A p \in Obs \ {o} : row'[p].status = "uploading" => row[p].status = "uploading",
             \A p \in Obs \ {o} : pc'[p] = pc[p],
             row'[o].status = "uploading" => pc'[o] \in Unfinished \/ o \in Faulty,
             gate' # "startup"
      PROVE  UploadInv'
  BY <1>1, <1>2, <1>4 DEF UploadInv
<1>5. CASE Reserve(o)
  <2>1. Holdings'
    BY <1>2, <1>5, ReservationIsWithin
  <2> DEFINE rows == ExpireRows(row)
  <2>2. rows \in [Obs -> Row] /\ \A p \in Obs : Fades(row[p], rows[p])
    BY <1>1, ExpireRowsFade
  <2>3. \A p \in Obs \ {o} : row'[p] \in {row[p], rows[p]}
    BY <1>5, <2>2 DEF Reserve
  <2>4. row'[o].status = "uploading" => pc'[o] \in Unfinished
    BY <1>1, <1>5 DEF Reserve, RowOK, Unfinished
  <2>5. \A p \in Obs \ {o} : pc'[p] = pc[p]
    BY <1>1, <1>5 DEF Reserve
  <2>6. UploadInv'
    BY <1>1, <1>4, <1>5, <2>2, <2>3, <2>4, <2>5 DEF Reserve, Fades
  <2> QED
    BY <2>1, <2>6 DEF QuotaInv
<1>6. CASE AppendPut(o) \/ CommitCheck(o) \/ ReconcileCommit(o) \/ Inspect(o)
  <2>1. /\ row' = row /\ \A p \in Obs \ {o} : pc'[p] = pc[p]
        /\ gate' \in {gate, o}
        /\ row[o].status = "uploading" => pc'[o] \in Unfinished
    BY <1>1, <1>6
       DEF AppendPut, CommitCheck, ReconcileCommit, Inspect, Readable, Unfinished, GateInv
  <2>2. o # "startup"
    BY StoreAssumption
  <2> QED
    BY <1>1, <1>3, <1>4, <2>1, <2>2 DEF QuotaInv, HoldsLess
<1>7. CASE AppendRow(o) \/ FinalizePart(o)
  <2>1. /\ \A p \in Obs \ {o} : row'[p] = row[p] /\ pc'[p] = pc[p]
        /\ row'[o].status = row[o].status /\ row'[o].expires = row[o].expires
        /\ row'[o].pinned = row[o].pinned /\ pc'[o] \in Unfinished
    BY <1>1, <1>7 DEF AppendRow, FinalizePart, Row, Unfinished
  <2>2. gate' # "startup"
    BY <1>1, <1>7, StoreAssumption DEF AppendRow, FinalizePart
  <2> QED
    BY <1>1, <1>3, <1>4, <2>1, <2>2 DEF QuotaInv, HoldsLess
<1>8. CASE CommitTransaction(o)
  <2>1. /\ \A p \in Obs \ {o} : row'[p] = row[p] /\ pc'[p] = pc[p]
        /\ row'[o].expires = row[o].expires /\ row'[o].pinned = row[o].pinned
        /\ \/ row'[o].status = row[o].status
           \/ row[o].status = "uploading" /\ row'[o].status = "complete"
        /\ pc'[o] \in Unfinished /\ gate' = gate
    BY <1>1, <1>8 DEF CommitTransaction, Row, Unfinished
  <2>2. row[o].status = "uploading" => row'[o].pinned = FALSE
    BY <1>1, <2>1 DEF RowOK
  <2> QED
    BY <1>1, <1>3, <1>4, <2>1, <2>2 DEF QuotaInv, HoldsLess
<1>9. CASE Abort(o)
  <2>1. /\ \A p \in Obs \ {o} : row'[p] = row[p] /\ pc'[p] = pc[p]
        /\ row'[o] = row[o] \/ row'[o].status = "absent"
        /\ row'[o].status = "uploading" => o \in Faulty
        /\ gate' \in {gate, o}
    BY <1>1, <1>9 DEF Abort, NoRow
  <2>2. o # "startup"
    BY StoreAssumption
  <2> QED
    BY <1>1, <1>3, <1>4, <2>1, <2>2 DEF QuotaInv, HoldsLess
<1> QED
  BY <1>5, <1>6, <1>7, <1>8, <1>9 DEF Capture

\* Sweeps, releases, pins, the clock, and the death and the opening of the store.
LEMMA ElsewhereKeepsQuota ==
    ASSUME KeepInv, StoreTypeOK', QuotaInv, Elsewhere
    PROVE  QuotaInv'
<1>1. TablesOK /\ TablesOK' /\ now \in Nat /\ GateInv
      /\ row \in [Obs -> Row] /\ pc \in [Obs -> PCs]
      /\ "release" # "startup" /\ None # "startup" /\ up \in BOOLEAN
  BY StoreTypes, StoreAssumption DEF KeepInv, TablesOK
<1>2. Holdings /\ UploadInv
  BY DEF QuotaInv
\* The rows stay, time does not run backwards.
<1>3. ASSUME row' = row, now' \in {now, now + 1}
      PROVE  Holdings'
  <2>1. \A p \in Obs : row[p].expires \in Nat
    BY <1>1 DEF Row, Clock
  <2>2. \A p \in Obs : HoldsLess(row[p], row'[p], now')
    BY <1>1, <1>3, <2>1 DEF HoldsLess
  <2> QED
    BY <1>1, <1>2, <2>2, HoldingLessIsWithin
<1>4. ASSUME UNCHANGED <<row, pc, up, gate>>, now' \in {now, now + 1} PROVE QuotaInv'
  <2>1. UploadInv'
    BY <1>2, <1>4 DEF UploadInv
  <2> QED
    BY <1>3, <1>4, <2>1 DEF QuotaInv
<1>5. CASE SweepSelect \/ Tick
  BY <1>4, <1>5 DEF SweepSelect, Tick
<1>6. CASE SweepRemove
  <2>1. /\ row' = row /\ now' = now /\ gate' = None
        /\ gate # None /\ (gate \in Obs => pc[gate] = "sweep") /\ (up \/ gate = "startup")
        /\ pc' = [o \in Obs |-> IF gate = o THEN "failed" ELSE pc[o]]
    BY <1>1, <1>6 DEF SweepRemove, GateInv
  <2>2. ASSUME NEW p \in Obs, row[p].status = "uploading"
        PROVE  pc'[p] \in Unfinished \/ p \in Faulty
    <3>1. gate # p
      BY <1>1, <2>1, <2>2 DEF GateInv
    <3>2. up
      BY <1>2, <2>1, <2>2 DEF UploadInv
    <3> QED
      BY <1>2, <2>1, <2>2, <3>1, <3>2 DEF UploadInv
  <2>3. UploadInv'
    BY <1>1, <2>1, <2>2 DEF UploadInv
  <2> QED
    BY <1>3, <2>1, <2>3 DEF QuotaInv
<1>7. ASSUME NEW o \in Obs, Release(o) PROVE QuotaInv'
  <2>1. /\ \A p \in Obs \ {o} : row'[p] = row[p]
        /\ row'[o].status = "released" /\ row[o].status = "complete"
        /\ now' = now /\ pc' = pc /\ up' = up /\ gate' = "release"
    BY <1>1, <1>7 DEF Release, Row, Readable
  <2>2. \A p \in Obs : HoldsLess(row[p], row'[p], now')
    BY <2>1 DEF HoldsLess
  <2>3. UploadInv'
    BY <1>1, <1>2, <2>1 DEF UploadInv
  <2> QED
    BY <1>1, <1>2, <2>2, <2>3, HoldingLessIsWithin DEF QuotaInv
<1>8. ASSUME NEW o \in Obs, NEW ttl \in PinTtls, Pin(o, ttl) PROVE QuotaInv'
  <2>1. \A p \in Obs : row'[p].status = row[p].status
    <3>1. row' = [row EXCEPT ![o] = PinnedRow(row[o], ttl)]
      BY <1>8 DEF Pin, PinnedRow
    <3>2. PinnedRow(row[o], ttl).status = row[o].status
      BY <1>1, LeaseRows, StoreAssumption
    <3> QED
      BY <1>1, <3>1, <3>2
  <2>2. UNCHANGED <<pc, up, gate>>
    BY <1>8 DEF Pin
  <2>3. UploadInv'
    BY <1>2, <2>1, <2>2 DEF UploadInv
  <2> QED
    BY <1>2, <1>8, <2>3, PinIsWithin DEF QuotaInv
<1>9. ASSUME NEW g \in GrantIds, NEW o \in Obs, NEW w \in Owners, NEW to \in Owners,
             Grant(g, w, o, to)
      PROVE  QuotaInv'
  BY <1>4, <1>9 DEF Grant
<1>10. ASSUME NEW g \in GrantIds, RevokeGrant(g) PROVE QuotaInv'
  BY <1>4, <1>10 DEF RevokeGrant
<1>11. ASSUME NEW w \in Owners, NEW o \in Obs, NEW from \in Tokens \cup {None},
              NEW to \in Tokens, Read(w, o, from, to)
       PROVE  QuotaInv'
  BY <1>4, <1>11 DEF Read
<1>12. CASE Crash
  <2>1. row' = row /\ now' = now /\ gate' = None /\ ~up'
    BY <1>12 DEF Crash
  <2>2. UploadInv'
    BY <1>1, <2>1 DEF UploadInv
  <2> QED
    BY <1>3, <2>1, <2>2 DEF QuotaInv
<1>13. CASE Open
  <2>1. \A p \in Obs : Fades(row[p], row'[p]) /\ row'[p].status # "uploading"
    BY <1>1, <1>13, OpenedRowsFade
  <2>2. now' = now /\ ~up'
    BY <1>13 DEF Open
  <2>3. \A p \in Obs : HoldsLess(row[p], row'[p], now')
    BY <1>1, <2>1, <2>2, FadedRowsHoldLess
  <2>4. UploadInv'
    BY <2>1, <2>2 DEF UploadInv
  <2> QED
    BY <1>1, <1>2, <2>3, <2>4, HoldingLessIsWithin DEF QuotaInv
<1> QED
  BY <1>5, <1>6, <1>7, <1>8, <1>9, <1>10, <1>11, <1>12, <1>13 DEF Elsewhere

-----------------------------------------------------------------------------
LeaseInv == KeepInv /\ AccessIsBacked /\ QuotaInv

\* The empty store.
LEMMA LeaseInit == StoreInit => LeaseInv
<1> SUFFICES ASSUME StoreInit PROVE LeaseInv
  OBVIOUS
<1>1. \A o \in Obs : row[o].status = "absent"
  BY DEF StoreInit, NoRow
<1>2. AccessIsBacked
  BY DEF StoreInit, AccessIsBacked, ActiveGrant, ActiveCursor
<1>3. /\ Charged(row) = {} /\ Live(row) = {} /\ BytesOf({}) = {}
      /\ \A w \in Owners : PinnedBy[w] = {}
  BY <1>1 DEF Charged, Live, BytesOf, PinnedBy, PinnedLive, Readable
<1>4. SumBytes({}) = 0
  BY <1>3, FS_EmptySet DEF SumBytes, BytesOf
<1>5. \A S : {} \cap S = {}
  OBVIOUS
<1>6. Holdings
  BY <1>3, <1>4, <1>5, FS_EmptySet, LimitsAreNumbers DEF Holdings, Within
<1>7. UploadInv
  BY <1>1 DEF UploadInv
<1> QED
  BY <1>2, <1>6, <1>7, StoreInitKeeps DEF LeaseInv, QuotaInv

\* One step of the store.
LEMMA LeaseStep == LeaseInv /\ [StoreNext]_storeVars => LeaseInv'
<1>1. ASSUME LeaseInv, UNCHANGED storeVars PROVE LeaseInv'
  <2>1. KeepInv'
    BY <1>1, StoreStepKeeps DEF LeaseInv
  <2>2. AccessIsBacked'
    BY <1>1 DEF LeaseInv, storeVars, AccessIsBacked, ActiveGrant, ActiveCursor
  <2>3. TablesOK /\ TablesOK' /\ row' = row /\ now' = now /\ Holdings /\ UploadInv
        /\ pc' = pc /\ gate' = gate /\ up' = up
    BY <1>1, <2>1, StoreTypes DEF LeaseInv, KeepInv, QuotaInv, storeVars
  <2>4. \A p \in Obs : HoldsLess(row[p], row'[p], now')
    BY <2>3 DEF HoldsLess
  <2>5. UploadInv'
    BY <2>3 DEF UploadInv
  <2> QED
    BY <2>1, <2>2, <2>3, <2>4, <2>5, HoldingLessIsWithin DEF LeaseInv, QuotaInv
<1>2. ASSUME LeaseInv, NEW o \in Obs, Capture(o) PROVE LeaseInv'
  <2>1. KeepInv'
    BY <1>2, StoreStepKeeps DEF LeaseInv, StoreNext
  <2>2. StoreTypeOK'
    BY <2>1 DEF KeepInv
  <2> QED
    BY <1>2, <2>1, <2>2, CaptureKeepsAccess, CaptureKeepsQuota DEF LeaseInv
<1>3. ASSUME LeaseInv, Elsewhere PROVE LeaseInv'
  <2>1. KeepInv'
    BY <1>3, StoreStepKeeps DEF LeaseInv, StoreNext, Elsewhere
  <2>2. StoreTypeOK'
    BY <2>1 DEF KeepInv
  <2> QED
    BY <1>3, <2>1, <2>2, ElsewhereKeepsAccess, ElsewhereKeepsQuota DEF LeaseInv
<1> QED
  BY <1>1, <1>2, <1>3 DEF StoreNext, Elsewhere

\* However reservations, pins, grants, reads, releases, expiry, crashes and restarts
\* interleave: who may read is backed by a lease that lasts as long, and what is leased
\* stays within every limit of EvidenceStoreConfig.
THEOREM LeasesAlwaysAddUp == StoreSpec => []LeasesAddUp
<1>1. LeaseInv => LeasesAddUp
  <2> SUFFICES ASSUME LeaseInv PROVE LeasesAddUp
    OBVIOUS
  <2>1. Within(Charged(row), Live(row), PinnedBy) /\ UploadInv /\ AccessIsBacked
    BY DEF LeaseInv, QuotaInv, Holdings
  <2>2. \A w \in Owners : PinnedBy[w] = PinnedLive(w)
    BY DEF PinnedBy
  <2>3. QuotaHolds
    BY <2>1, <2>2 DEF Within, UploadInv, QuotaHolds, Charged, Live, CapturedBy
  <2> QED
    BY <2>1, <2>3 DEF LeasesAddUp
<1> QED
  BY <1>1, LeaseInit, LeaseStep, PTL DEF StoreSpec
=============================================================================
