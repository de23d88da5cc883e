--------------------------- MODULE EvidenceStore ---------------------------
(***************************************************************************)
(* The evidence store of the daemon (evidence_store.rs) driven by the      *)
(* captures of the tool path (evidence_capture.rs).  Metadata is a SQLite  *)
(* database, content is a directory of content-addressed blobs; there is   *)
(* no transaction over both.  Two mutexes guard them:                      *)
(*                                                                         *)
(*  - the filesystem gate is held through reserve, append_chunk,           *)
(*    finalize_part, abort, read, release and the start-up repair;         *)
(*  - the connection is taken for one query or one transaction at a time,  *)
(*    so commit, pin, grant and revoke_grant, which never take the gate,   *)
(*    run between any two database steps of a gated operation.             *)
(*                                                                         *)
(* An observation is named by the capture that uploads it (its id is a     *)
(* fresh UUID).  It has one part, as every capture makes it, cut into      *)
(* chunks; a chunk is represented by its blob hash, and its length is 1.   *)
(***************************************************************************)
EXTENDS Absent, Integers, Sequences, FiniteSets

CONSTANTS
    Obs,          \* observations, one per capture
    Blobs,        \* blob hashes
    Content,      \* Content[o]: the chunk hashes of o, in order
    Owners,       \* principals
    OwnerOf,      \* OwnerOf[o]: the principal that captures o
    GrantIds,     \* grant ids, each drawn once
    Tokens,       \* cursor tokens, each drawn once
    Spent,        \* an id that was drawn and whose row is gone
    Ttl,          \* lease asked for by a capture or a grant
    PinTtls,      \* leases asked for by a pin
    TombstoneTtl, \* how long an expired or released row is kept
    MaxClock,     \* bound of the clock
    MaxCrashes,   \* bound on crashes of the daemon
    Faulty,       \* captures whose disk or database steps may fail
    MaxOwnerBytes, MaxTotalBytes, MaxPinnedBytes,
    MaxOwnerObservations, MaxTotalObservations,
    MaxGrantsPerEvidence, MaxCursorsPerOwner

ASSUME StoreAssumption ==
    /\ Content \in [Obs -> Seq(Blobs)]
    /\ OwnerOf \in [Obs -> Owners]
    /\ Faulty \subseteq Obs
    /\ None \notin Obs \cup GrantIds \cup {"release", "startup"}
    /\ {"release", "startup"} \cap Obs = {}
    /\ Ttl \in Nat \ {0} /\ PinTtls \subseteq Nat \ {0}
    /\ TombstoneTtl \in Nat /\ MaxClock \in Nat /\ MaxCrashes \in Nat
    /\ {MaxOwnerBytes, MaxTotalBytes, MaxPinnedBytes, MaxOwnerObservations,
        MaxTotalObservations} \subseteq Nat

VARIABLES
    row,      \* row[o]: the observations row and the chunk rows of o
    blobs,    \* blobs in the blob directory
    grants,   \* grants[g]: the grants row
    cursors,  \* cursors[t]: the cursors row
    pc,       \* pc[o]: where the capture of o stands
    promise,  \* promise[o]: expires_at_ms of the Retained outcome
    gate,     \* holder of the filesystem gate
    sweep,    \* cleanup_orphans of the gate holder: where it stands,
    keep,     \* and the hashes it found referenced
    released, \* observations their owner released
    now,      \* wall clock
    up,       \* the daemon has opened the store
    crashes

storeVars == <<row, blobs, grants, cursors, pc, promise, gate, sweep, keep, released, now, up, crashes>>

Statuses == {"absent", "uploading", "complete", "expired", "released"}

NoRow == [status |-> "absent", expires |-> 0, pinned |-> FALSE,
           finalized |-> FALSE, have |-> 0]

Unfinished == {"write", "row", "finalize", "commit", "committing", "reconcile",
               "inspect", "abort", "sweep"}

PCs == {"idle", "retained", "failed", "lost"} \cup Unfinished

Clock == Nat

StoreTypeOK ==
    /\ row \in [Obs -> [status : Statuses, expires : Clock, pinned : BOOLEAN,
                        finalized : BOOLEAN, have : Nat]]
    /\ blobs \subseteq Blobs
    /\ grants \in [GrantIds -> {None, Spent} \cup
                      [of : Obs, by : Owners, to : Owners, expires : Clock]]
    /\ cursors \in [Tokens -> {None, Spent} \cup
                      [of : Obs, reader : Owners, grant : GrantIds \cup {None}, at : Nat]]
    /\ pc \in [Obs -> PCs]
    /\ promise \in [Obs -> Clock]
    /\ gate \in Obs \cup {None, "release", "startup"}
    /\ sweep \in {"off", "select", "remove"}
    /\ keep \subseteq Blobs
    /\ released \subseteq Obs
    /\ now \in 0 .. MaxClock /\ up \in BOOLEAN /\ crashes \in 0 .. MaxCrashes

StoreInit ==
    /\ row = [o \in Obs |-> NoRow]
    /\ blobs = {}
    /\ grants = [g \in GrantIds |-> None]
    /\ cursors = [t \in Tokens |-> None]
    /\ pc = [o \in Obs |-> "idle"]
    /\ promise = [o \in Obs |-> 0]
    /\ gate = None
    /\ sweep = "off"
    /\ keep = {}
    /\ released = {}
    /\ now = 0
    /\ up = TRUE
    /\ crashes = 0

-----------------------------------------------------------------------------
(* Helpers over rows.                                                      *)

Bytes(o) == Len(Content[o])

\* What the blob directory must hold: the hashes of all chunk rows.
Referenced(rows) ==
    {b \in Blobs : \E o \in Obs : \E i \in 1 .. rows[o].have : Content[o][i] = b}

\* check_readable_status: committed and inside its lease.
Readable(o) == row[o].status = "complete" /\ row[o].expires > now

\* require_upload_owner of the capture that owns the upload.
Uploadable(o) == row[o].status = "uploading" /\ row[o].expires > now

ActiveGrant(g) == grants[g] \notin {None, Spent}
ActiveCursor(t) == cursors[t] \notin {None, Spent}

SumBytes(S) == Cardinality(UNION {{o} \X (1 .. Bytes(o)) : o \in S})

\* What the byte quotas count.
Charged(rows) == {o \in Obs : rows[o].status \in {"uploading", "complete"}}

-----------------------------------------------------------------------------
(* expire_rows, part of every reservation and of the start-up repair.      *)

ExpiredRow(r) ==
    IF r.status = "uploading" /\ r.expires <= now THEN NoRow
    ELSE LET e == IF r.status = "complete" /\ r.expires <= now
                  THEN [r EXCEPT !.status = "expired", !.pinned = FALSE, !.have = 0]
                  ELSE r
         IN IF e.status \in {"expired", "released"} /\ e.expires + TombstoneTtl <= now
            THEN NoRow ELSE e

ExpireRows(rows) == [o \in Obs |-> ExpiredRow(rows[o])]

\* ON DELETE CASCADE and the explicit deletes: a grant goes with its lease, a
\* cursor with its evidence or its grant.
Surviving(rows, g) ==
    /\ ActiveGrant(g)
    /\ grants[g].expires > now
    /\ rows[grants[g].of].status # "absent"

PruneGrants(rows) ==
    [g \in GrantIds |-> IF ActiveGrant(g) /\ ~Surviving(rows, g) THEN Spent ELSE grants[g]]

PruneCursors(rows, grantRows) ==
    [t \in Tokens |->
        IF /\ ActiveCursor(t)
           /\ \/ rows[cursors[t].of].status # "complete"
              \/ cursors[t].grant # None /\ grantRows[cursors[t].grant] = Spent
        THEN Spent ELSE cursors[t]]

-----------------------------------------------------------------------------
(* The capture of o: capture() and the store operations it calls.          *)

Goto(o, l) == pc' = [pc EXCEPT ![o] = l]

\* The limits reserve checks after it has expired old rows.
Admits(rows, o) ==
    LET mine == {p \in Obs : OwnerOf[p] = OwnerOf[o]}
        live == {p \in Obs : rows[p].status # "absent"}
    IN /\ SumBytes(Charged(rows) \cap mine) + Bytes(o) <= MaxOwnerBytes
       /\ SumBytes(Charged(rows)) + Bytes(o) <= MaxTotalBytes
       /\ Cardinality(live \cap mine) < MaxOwnerObservations
       /\ Cardinality(live) < MaxTotalObservations

\* reserve: one transaction.  A refusal drops the transaction, its expiry included.
Reserve(o) ==
    /\ up /\ pc[o] = "idle" /\ gate = None
    /\ LET rows == ExpireRows(row)
           kept == PruneGrants(rows)
       IN \/ /\ Admits(rows, o)
             /\ row' = [rows EXCEPT ![o] = [NoRow EXCEPT !.status = "uploading",
                                                          !.expires = now + Ttl]]
             /\ grants' = kept
             /\ cursors' = PruneCursors(rows, kept)
             /\ Goto(o, IF Bytes(o) = 0 THEN "finalize" ELSE "write")
          \/ /\ ~Admits(rows, o) \/ o \in Faulty
             /\ Goto(o, "failed")
             /\ UNCHANGED <<row, grants, cursors>>
    /\ UNCHANGED <<blobs, promise, gate, sweep, keep, released, now, up, crashes>>

\* append_chunk up to the blob: header and offset checks, then put.  A put that
\* fails may still have published the blob (only its directory sync failed).
AppendPut(o) ==
    /\ up /\ pc[o] = "write" /\ gate = None
    /\ LET b == Content[o][row[o].have + 1]
       IN \/ /\ Uploadable(o)
             /\ blobs' = blobs \cup {b}
             /\ gate' = o
             /\ Goto(o, "row")
          \/ /\ ~Uploadable(o)
             /\ blobs' = blobs
             /\ gate' = gate
             /\ Goto(o, "abort")
          \/ /\ Uploadable(o) /\ o \in Faulty
             /\ blobs' \in {blobs, blobs \cup {b}}
             /\ gate' = gate
             /\ Goto(o, "abort")
    /\ UNCHANGED <<row, grants, cursors, promise, sweep, keep, released, now, up, crashes>>

\* The metadata transaction of append_chunk: the chunk row, or a failure.
AppendRow(o) ==
    /\ up /\ pc[o] = "row"
    /\ gate' = IF gate = o THEN None ELSE gate
    /\ \/ /\ row[o].status = "uploading"
          /\ row' = [row EXCEPT ![o].have = row[o].have + 1]
          /\ Goto(o, IF row[o].have + 1 = Bytes(o) THEN "finalize" ELSE "write")
       \/ /\ o \in Faulty \/ row[o].status # "uploading"
          /\ row' = row
          /\ Goto(o, "abort")
    /\ UNCHANGED <<blobs, grants, cursors, promise, sweep, keep, released, now, up, crashes>>

\* finalize_part: length and digest of the stored chunks, then the flag.  The
\* gate keeps the chunks and their blobs still, so one step is enough.
FinalizePart(o) ==
    /\ up /\ pc[o] = "finalize" /\ gate = None
    /\ \/ /\ Uploadable(o)
          /\ row[o].have = Bytes(o)
          /\ \A i \in 1 .. row[o].have : Content[o][i] \in blobs
          /\ row' = [row EXCEPT ![o].finalized = TRUE]
          /\ Goto(o, "commit")
       \/ /\ o \in Faulty \/ ~Uploadable(o) \/ row[o].have # Bytes(o)
             \/ \E i \in 1 .. row[o].have : Content[o][i] \notin blobs
          /\ row' = row
          /\ Goto(o, "abort")
    /\ UNCHANGED <<blobs, grants, cursors, promise, gate, sweep, keep, released, now, up, crashes>>

\* commit: the header is read, the connection let go, ...
CommitCheck(o) ==
    /\ up /\ pc[o] = "commit"
    /\ Goto(o, IF Uploadable(o) THEN "committing" ELSE "abort")
    /\ UNCHANGED <<row, blobs, grants, cursors, promise, gate, sweep, keep, released, now, up, crashes>>

\* ... then the transaction, which looks at status and finalized again but not at
\* the clock.  A commit that reports an error may have been applied or not.
CommitTransaction(o) ==
    /\ up /\ pc[o] = "committing"
    /\ LET ready == row[o].status = "uploading" /\ row[o].finalized
           done == [row EXCEPT ![o].status = "complete"]
       IN \/ ready /\ row' = done /\ Goto(o, "inspect")
          \/ ready /\ o \in Faulty /\ row' \in {row, done} /\ Goto(o, "reconcile")
          \/ (~ready \/ o \in Faulty) /\ row' = row /\ Goto(o, "abort")
    /\ UNCHANGED <<blobs, grants, cursors, promise, gate, sweep, keep, released, now, up, crashes>>

ReconcileAsCommitted(o) ==
    /\ up /\ pc[o] = "reconcile"
    /\ Goto(o, "retained")
    /\ promise' = [promise EXCEPT ![o] = now + Ttl]
    /\ UNCHANGED <<row, blobs, grants, cursors, gate, sweep, keep, released, now, up, crashes>>

\* reconcile_commit: which of the two states the failed commit left; the query
\* itself may fail (CommitUncertain).
ReconcileCommit(o) ==
    /\ up /\ pc[o] = "reconcile"
    /\ \/ row[o].status = "complete" /\ Goto(o, "inspect")
       \/ Goto(o, "abort")
    /\ UNCHANGED <<row, blobs, grants, cursors, promise, gate, sweep, keep, released, now, up, crashes>>

\* inspect after the commit, and the outcome capture() returns.
Inspect(o) ==
    /\ up /\ pc[o] = "inspect"
    /\ Goto(o, IF Readable(o) THEN "retained" ELSE "abort")
    /\ promise' = [promise EXCEPT ![o] = IF Readable(o) THEN row[o].expires ELSE promise[o]]
    /\ UNCHANGED <<row, blobs, grants, cursors, gate, sweep, keep, released, now, up, crashes>>

\* abort: the upload row goes, its chunk rows with it, and orphans are swept.  The
\* upload id of a committed observation is no longer found.
Abort(o) ==
    /\ up /\ pc[o] = "abort" /\ gate = None
    /\ \/ /\ row[o].status = "uploading"
          /\ row' = [row EXCEPT ![o] = NoRow]
          /\ gate' = o
          /\ sweep' = "select"
          /\ Goto(o, "sweep")
       \/ /\ row[o].status # "uploading" \/ o \in Faulty
          /\ Goto(o, "failed")
          /\ UNCHANGED <<row, gate, sweep>>
    /\ UNCHANGED <<blobs, grants, cursors, promise, keep, released, now, up, crashes>>

-----------------------------------------------------------------------------
(* cleanup_orphans of an abort, a release or the start-up repair.          *)

SweepSelectCommitted ==
    /\ sweep = "select"
    /\ sweep' = "remove"
    /\ keep' = {b \in Referenced(row) : \E o \in Obs : row[o].status = "complete"
                                            /\ \E i \in 1 .. row[o].have : Content[o][i] = b}
    /\ UNCHANGED <<row, blobs, grants, cursors, pc, promise, gate, released, now, up, crashes>>

\* SELECT DISTINCT blob_hash FROM chunks.
SweepSelect ==
    /\ sweep = "select"
    /\ sweep' = "remove"
    /\ keep' = Referenced(row)
    /\ UNCHANGED <<row, blobs, grants, cursors, pc, promise, gate, released, now, up, crashes>>

\* remove_unreferenced: a removal that fails leaves some files behind, and a store
\* that is being opened closed.  The gate is dropped, its operation is over.
SweepRemove ==
    /\ sweep = "remove"
    /\ \E left \in SUBSET (blobs \ keep) :
          /\ blobs' = (blobs \cap keep) \cup left
          /\ up' = (up \/ left = {})
    /\ sweep' = "off"
    /\ keep' = {}
    /\ gate' = None
    /\ pc' = [o \in Obs |-> IF gate = o THEN "failed" ELSE pc[o]]
    /\ UNCHANGED <<row, grants, cursors, promise, released, now, crashes>>

-----------------------------------------------------------------------------
(* The other operations of the store.                                      *)

ReleaseKeepingGrants(o) ==
    /\ up /\ gate = None /\ Readable(o)
    /\ row' = [row EXCEPT ![o] = [row[o] EXCEPT !.status = "released", !.pinned = FALSE,
                                                !.expires = now, !.have = 0]]
    /\ gate' = "release"
    /\ sweep' = "select"
    /\ released' = released \cup {o}
    /\ UNCHANGED <<blobs, grants, cursors, pc, promise, keep, now, up, crashes>>

\* release: chunk rows, grants and cursors go in one transaction, blobs after it.
Release(o) ==
    /\ up /\ gate = None /\ Readable(o)
    /\ row' = [row EXCEPT ![o] = [row[o] EXCEPT !.status = "released", !.pinned = FALSE,
                                                !.expires = now, !.have = 0]]
    /\ grants' = [g \in GrantIds |-> IF ActiveGrant(g) /\ grants[g].of = o
                                     THEN Spent ELSE grants[g]]
    /\ cursors' = [t \in Tokens |-> IF ActiveCursor(t) /\ cursors[t].of = o
                                    THEN Spent ELSE cursors[t]]
    /\ gate' = "release"
    /\ sweep' = "select"
    /\ released' = released \cup {o}
    /\ UNCHANGED <<blobs, pc, promise, keep, now, up, crashes>>

PinnedLive(w) == {o \in Obs : OwnerOf[o] = w /\ Readable(o) /\ row[o].pinned}

PinnedExpiry(current, asked) == IF current > asked THEN current ELSE asked

\* pin: a longer lease within the owner's pinned bytes; a pin never shortens one.
Pin(o, ttl) ==
    /\ up /\ Readable(o)
    /\ SumBytes(PinnedLive(OwnerOf[o]) \ {o}) + Bytes(o) <= MaxPinnedBytes
    /\ row' = [row EXCEPT ![o] = [row[o] EXCEPT !.pinned = TRUE,
                  !.expires = PinnedExpiry(row[o].expires, now + ttl)]]
    /\ UNCHANGED <<blobs, grants, cursors, pc, promise, gate, sweep, keep, released, now, up, crashes>>

\* authorize without a part: the owner, or any grantee inside its grant.
Authorized(w, o) ==
    /\ Readable(o)
    /\ \/ OwnerOf[o] = w
       \/ \E g \in GrantIds : /\ ActiveGrant(g)
                              /\ grants[g].of = o /\ grants[g].to = w
                              /\ grants[g].expires > now

\* grant: what load_owned_record admits, for at most the rest of the lease.
Grant(g, w, o, to) ==
    /\ up /\ grants[g] = None
    /\ Authorized(w, o) /\ to # w
    /\ LET spent == [h \in GrantIds |-> IF ActiveGrant(h) /\ grants[h].expires <= now
                                        THEN Spent ELSE grants[h]]
           asked == now + Ttl
       IN /\ Cardinality({h \in GrantIds : spent[h] \notin {None, Spent} /\ spent[h].of = o})
                < MaxGrantsPerEvidence
          /\ grants' = [spent EXCEPT ![g] =
                          [of |-> o, by |-> w, to |-> to,
                           expires |-> IF asked < row[o].expires THEN asked ELSE row[o].expires]]
          /\ cursors' = PruneCursors(row, grants')
    /\ UNCHANGED <<row, blobs, pc, promise, gate, sweep, keep, released, now, up, crashes>>

\* revoke_grant by its grantor; cursors drawn through it go with it.
RevokeGrant(g) ==
    /\ up /\ ActiveGrant(g)
    /\ grants' = [grants EXCEPT ![g] = Spent]
    /\ cursors' = PruneCursors(row, grants')
    /\ UNCHANGED <<row, blobs, pc, promise, gate, sweep, keep, released, now, up, crashes>>

\* The grants a single-part read may run on; None for the owner.
AccessOf(w, o) ==
    IF OwnerOf[o] = w THEN {None}
    ELSE {g \in GrantIds : /\ ActiveGrant(g)
                           /\ grants[g].of = o /\ grants[g].to = w
                           /\ grants[g].expires > now}

CursorsOf(w) == {t \in Tokens : ActiveCursor(t) /\ cursors[t].reader = w}

\* read of the first page, or of the page a cursor points at (pages are one chunk
\* long); an incomplete page leaves a new cursor bound to the grant it was read on.
Read(w, o, from, to) ==
    /\ up /\ gate = None /\ Readable(o)
    /\ cursors[to] = None
    /\ \E g \in AccessOf(w, o) :
         LET at == IF from = None THEN 1 ELSE cursors[from].at + 1
         IN /\ from # None => /\ ActiveCursor(from)
                              /\ cursors[from].reader = w
                              /\ cursors[from].of = o
                              /\ cursors[from].grant = g
            /\ at < Bytes(o)
            /\ Cardinality(CursorsOf(w)) < MaxCursorsPerOwner
            /\ cursors' = [cursors EXCEPT ![to] =
                             [of |-> o, reader |-> w, grant |-> g, at |-> at]]
    /\ UNCHANGED <<row, blobs, grants, pc, promise, gate, sweep, keep, released, now, up, crashes>>

-----------------------------------------------------------------------------
(* Time, the death of the daemon, and reconcile_startup.                   *)

Tick ==
    /\ now < MaxClock
    /\ now' = now + 1
    /\ UNCHANGED <<row, blobs, grants, cursors, pc, promise, gate, sweep, keep, released, up, crashes>>

Crash ==
    /\ crashes < MaxCrashes
    /\ up \/ gate = "startup"
    /\ crashes' = crashes + 1
    /\ up' = FALSE
    /\ gate' = None
    /\ sweep' = "off"
    /\ keep' = {}
    /\ pc' = [o \in Obs |-> IF pc[o] \in Unfinished THEN "lost" ELSE pc[o]]
    /\ UNCHANGED <<row, blobs, grants, cursors, promise, released, now>>

OpenWithUploads ==
    /\ ~up /\ gate = None
    /\ row' = ExpireRows(row)
    /\ gate' = "startup"
    /\ sweep' = "select"
    /\ UNCHANGED <<blobs, grants, cursors, pc, promise, keep, released, now, up, crashes>>

\* reconcile_startup: uploads of the previous process go, old rows expire, and the
\* store serves once the orphans are swept.
Open ==
    /\ ~up /\ gate = None
    /\ LET kept == [o \in Obs |-> IF row[o].status = "uploading" THEN NoRow ELSE row[o]]
           rows == ExpireRows(kept)
       IN /\ row' = rows
          /\ grants' = PruneGrants(rows)
          /\ cursors' = PruneCursors(rows, grants')
    /\ gate' = "startup"
    /\ sweep' = "select"
    /\ UNCHANGED <<blobs, pc, promise, keep, released, now, up, crashes>>

-----------------------------------------------------------------------------
Capture(o) ==
    \/ Reserve(o) \/ AppendPut(o) \/ AppendRow(o) \/ FinalizePart(o)
    \/ CommitCheck(o) \/ CommitTransaction(o) \/ ReconcileCommit(o)
    \/ Inspect(o) \/ Abort(o)

StoreNext ==
    \/ \E o \in Obs : Capture(o)
    \/ SweepSelect
    \/ SweepRemove
    \/ \E o \in Obs : Release(o)
    \/ \E o \in Obs, ttl \in PinTtls : Pin(o, ttl)
    \/ \E g \in GrantIds, o \in Obs, w, to \in Owners : Grant(g, w, o, to)
    \/ \E g \in GrantIds : RevokeGrant(g)
    \/ \E w \in Owners, o \in Obs, from \in Tokens \cup {None}, to \in Tokens : Read(w, o, from, to)
    \/ Tick
    \/ Crash
    \/ Open

StoreSpec == StoreInit /\ [][StoreNext]_storeVars

-----------------------------------------------------------------------------
(* Properties.                                                             *)

\* Every chunk row finds its blob in the directory, whatever uploads, aborts,
\* releases, expiries and crashes happen around it: append_chunk publishes the
\* blob first and cleanup_orphans never takes one that a row, or a row about to be
\* written, needs, although blobs are shared by hash and there is no transaction
\* over files and database.
ChunksAreStored ==
    /\ StoreTypeOK
    /\ \A o \in Obs : \A i \in 1 .. row[o].have :
          i <= Bytes(o) /\ Content[o][i] \in blobs

\* What capture() reported as Retained can be read, whole, until the moment it
\* named, unless its owner released it: across crashes, failed commits, pins and
\* the expiry of other rows.
KeepsItsPromise ==
    \A o \in Obs :
        pc[o] = "retained" /\ now < promise[o] /\ o \notin released =>
            /\ Readable(o)
            /\ row[o].finalized
            /\ row[o].have = Bytes(o)
            /\ row[o].expires >= promise[o]

\* Retained evidence is kept: its bytes are in the directory and the lease that
\* capture() reported is honoured.
EvidenceIsKept == ChunksAreStored /\ KeepsItsPromise

\* A grant never outlives the lease of its evidence, and a cursor never outlives
\* the evidence and the grant it was drawn on: pin, release, revoke_grant and
\* expire_rows keep the three tables together.
AccessIsBacked ==
    /\ \A g \in GrantIds : ActiveGrant(g) =>
          /\ row[grants[g].of].status = "complete"
          /\ grants[g].expires <= row[grants[g].of].expires
    /\ \A t \in Tokens : ActiveCursor(t) =>
          /\ row[cursors[t].of].status = "complete"
          /\ cursors[t].grant # None => /\ ActiveGrant(cursors[t].grant)
                                        /\ grants[cursors[t].grant].of = cursors[t].of
                                        /\ grants[cursors[t].grant].to = cursors[t].reader

\* The limits of EvidenceStoreConfig: declared bytes of uploads and evidence per
\* owner and in all, rows with their tombstones, and pinned bytes.  Quota is held only
\* for an upload that is under way: one that was aborted, or whose process died, gives
\* its reservation back as soon as the store serves (or, when the abort itself failed,
\* with its lease).
QuotaHolds ==
    LET charged == {o \in Obs : row[o].status \in {"uploading", "complete"}}
        live == {o \in Obs : row[o].status # "absent"}
        of(w) == {o \in Obs : OwnerOf[o] = w}
    IN /\ SumBytes(charged) <= MaxTotalBytes
       /\ Cardinality(live) <= MaxTotalObservations
       /\ \A w \in Owners :
             /\ SumBytes(charged \cap of(w)) <= MaxOwnerBytes
             /\ Cardinality(live \cap of(w)) <= MaxOwnerObservations
             /\ SumBytes(PinnedLive(w)) <= MaxPinnedBytes
       /\ up => \A o \in Obs : row[o].status = "uploading" =>
                                   pc[o] \in Unfinished \/ o \in Faulty

\* Who may read is backed by a lease, and what is leased is within the limits, through
\* every order of reserve, pin, grant, revoke, release, expiry and restart.
LeasesAddUp == AccessIsBacked /\ QuotaHolds
=============================================================================
