---------------------------- MODULE ReceiptStore ----------------------------
(* The receipts table of SqliteOperationJournal                             *)
(* (tdmcp-daemon/src/opjournal.rs) and its statements, as operators on the  *)
(* table.  Every statement runs under the connection mutex.  A receipt id   *)
(* is a number because the table is ordered by <<created_at_ms, id>>; ids   *)
(* are random, so they are handed out in no particular order.  Subject and  *)
(* detail texts are abstracted away.                                        *)
EXTENDS EffectReading, FiniteSets

CONSTANTS Ids,                  \* receipt identities
          Owners,               \* principals
          MaxRowsPerOwner,      \* JournalConfig bounds
          MaxTotalRows,
          MaxInFlightPerOwner,
          MaxInFlightTotal,
          Retention,
          MaxClock              \* bound: last instant of a run

ASSUME StoreAssumption ==
    /\ Ids \subseteq Nat /\ IsFiniteSet(Ids)
    /\ None \notin Nat /\ None \notin Owners /\ None \notin EffectStates
    /\ MaxRowsPerOwner \in Nat /\ MaxTotalRows \in Nat
    /\ MaxInFlightPerOwner \in Nat /\ MaxInFlightTotal \in Nat
    /\ Retention \in Nat /\ MaxClock \in Nat

ReceiptStates == {"admitted", "dispatched", "waitExpired", "completed",
                  "failed", "cancelled", "unknownEffect"}

IsTerminal(state) == state \in {"completed", "failed", "cancelled", "unknownEffect"}

Row == [owner      : Owners,
        state      : ReceiptStates,
        effect     : EffectStates,
        created    : 0 .. MaxClock,
        expires    : Nat \cup {None},
        resolution : EffectStates \cup {None}]

NoRow == [owner |-> None]

Table == [Ids -> Row \cup {NoRow}]

Present(t) == {i \in Ids : t[i] # NoRow}
OwnedBy(t, o) == {i \in Present(t) : t[i].owner = o}
Active(t) == {i \in Present(t) : t[i].expires = None}
History(t) == Present(t) \ Active(t)

\* ORDER BY created_at_ms DESC, id DESC
NewerThan(t, i, j) == \/ t[i].created > t[j].created
                      \/ t[i].created = t[j].created /\ i > j

\* The rows of S that LIMIT -1 OFFSET n keeps out of the newest n.
BeyondNewest(t, S, n) ==
    {i \in S : Cardinality({j \in S : NewerThan(t, j, i)}) >= n}

Delete(t, S) == [i \in Ids |-> IF i \in S THEN NoRow ELSE t[i]]

\* The three DELETEs of prune, each reading what the one before left.
PruneExpired(t, now) == Delete(t, {i \in History(t) : t[i].expires <= now})

\* Mutant: an owner's history is never trimmed, only the whole table's.
KeepOwnerHistory(t, o) == t

\* Mutant: the history bound also evicts a row whose caller still waits.
PruneOwnerRows(t, o) == Delete(t, BeyondNewest(t, OwnedBy(t, o), MaxRowsPerOwner))

PruneOwner(t, o) ==
    Delete(t, BeyondNewest(t, History(t) \cap OwnedBy(t, o), MaxRowsPerOwner))

PruneTotal(t) == Delete(t, BeyondNewest(t, History(t), MaxTotalRows))

Prune(t, o, now) == PruneTotal(PruneOwner(PruneExpired(t, now), o))

\* Mutant: off by one, the bound itself is still admitted.
InFlightOffByOne(t, o) ==
    /\ Cardinality(Active(t) \cap OwnedBy(t, o)) <= MaxInFlightPerOwner
    /\ Cardinality(Active(t)) < MaxInFlightTotal

InFlightBounds(t, o) ==
    /\ Cardinality(Active(t) \cap OwnedBy(t, o)) < MaxInFlightPerOwner
    /\ Cardinality(Active(t)) < MaxInFlightTotal

\* admit, once prune has run and the bounds allow it.
Insert(t, o, i, now) ==
    [t EXCEPT ![i] = [owner |-> o, state |-> "admitted", effect |-> "notApplicable",
                      created |-> now, expires |-> None, resolution |-> None]]

\* The WHERE clause of transition: the receipt is the owner's and has not moved on.
CanTransition(t, o, i, expected) ==
    i \in OwnedBy(t, o) /\ t[i].state = expected

\* Mutant: only a terminal state gets an expiry; an ended wait keeps its slot.
ExpiryOfTerminal(next, now) == IF IsTerminal(next) THEN now + Retention ELSE None

Expiry(next, now) ==
    IF IsTerminal(next) \/ next = "waitExpired" THEN now + Retention ELSE None

Transition(t, i, next, effect, now) ==
    [t EXCEPT ![i].state = next, ![i].effect = effect,
              ![i].expires = Expiry(next, now)]

MarkDispatched(t, i, now) == Transition(t, i, "dispatched", "unknown", now)
MarkWaitExpired(t, i, now) == Transition(t, i, "waitExpired", "unknown", now)

\* Mutant: the effect is bound to the state column.
ReturnedSwapped(ok, effect) == effect

\* finish refuses a completed receipt with an unknown effect; the caller of
\* returned has already turned that pair into unknownEffect.
ReturnedState(ok, effect) ==
    CASE ok /\ effect = "unknown" -> "unknownEffect"
      [] ok /\ effect # "unknown" -> "completed"
      [] ~ok -> "failed"

Finish(t, i, ok, effect, now) ==
    Transition(t, i, ReturnedState(ok, effect), effect, now)

CanResolve(t, o, i) ==
    i \in OwnedBy(t, o) /\ t[i].state \in {"dispatched", "waitExpired", "unknownEffect"}

\* Mutant: a caller's account settles the receipt as if it had been observed.
ResolveAsObserved(t, i, effect) ==
    [t EXCEPT ![i].resolution = effect, ![i].effect = effect]

Resolve(t, i, effect) == [t EXCEPT ![i].resolution = effect]

\* Mutant: only waits that ended before the crash are recovered.
RecoverWaits(t, now) ==
    [i \in Ids |->
        IF i \in Present(t) /\ t[i].state = "waitExpired"
        THEN [t[i] EXCEPT !.state = "unknownEffect", !.effect = "unknown",
                          !.expires = now + Retention]
        ELSE t[i]]

RecoverUncertain(t, now) ==
    [i \in Ids |->
        IF i \in Present(t) /\ t[i].state \in {"dispatched", "waitExpired"}
        THEN [t[i] EXCEPT !.state = "unknownEffect", !.effect = "unknown",
                          !.expires = now + Retention]
        ELSE t[i]]
=============================================================================
