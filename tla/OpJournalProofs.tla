-------------------------- MODULE OpJournalProofs --------------------------
(* Proofs about OpJournal, for any table, any bounds and any number of      *)
(* callers: type correctness, the honesty of every stated effect, the       *)
(* release of admission slots, the admission and history bounds, recovery   *)
(* before use, and the implementation of the abstract ledger.               *)
EXTENDS OpJournal, FiniteSetTheorems, TLAPS

-----------------------------------------------------------------------------
(* The inductive invariant, one receipt at a time                           *)

Unsettled == {"admitted", "dispatched"}

\* A row belongs to its call and says no more than the call's progress allows.
RowInv(i) ==
    rows[i] # NoRow =>
        /\ ticket[i] # None
        /\ rows[i].owner = ticket[i].owner
        /\ rows[i].expires = None <=> rows[i].state \in Unsettled
        /\ rows[i].state # "cancelled"
        /\ rows[i].state = "admitted" => rows[i].effect = "notApplicable"
        /\ rows[i].state \in {"dispatched", "waitExpired", "unknownEffect"}
             => rows[i].effect = "unknown"
        /\ rows[i].state \in {"completed", "failed"}
             => /\ observed[i] \in Observations
                /\ observed[i] # NotConnected
                /\ rows[i].effect = observed[i].effect
        /\ rows[i].state = "completed" => observed[i].ok = TRUE

\* Where the guard of a call is determines what its row can be.
GuardInv(i) ==
    /\ guard[i] = "none" <=> ticket[i] = None
    /\ guard[i] \in {"none", "held"} => observed[i] = None
    /\ guard[i] \in Waiting => rows[i] # NoRow
    /\ guard[i] \in {"held", "returned"} => rows[i].state = "admitted"
    /\ guard[i] = "marked" => rows[i].state = "dispatched"
    /\ guard[i] \in {"returned", "marked"} =>
         observed[i] \in Observations /\ observed[i] # NotConnected
    /\ guard[i] \in {"dropping", "expiring"} => rows[i].state \in Unsettled
    /\ guard[i] = "expiring" /\ i \notin Faulty => rows[i].state = "dispatched"
    /\ guard[i] = "gone" /\ i \notin Faulty /\ rows[i] # NoRow => rows[i].expires # None

\* A dead daemon waits for nobody, and a new one has recovered its rows.
DaemonInv(i) ==
    /\ ~up => guard[i] \notin Waiting
    /\ up /\ guard[i] = "lost" /\ rows[i] # NoRow
         => rows[i].state \notin {"dispatched", "waitExpired"}

\* What a call observed agrees with what TouchDesigner did.
WorkInv(i) ==
    observed[i] # None /\ observed[i] # NotConnected =>
        /\ request[i] = "ran"
        /\ observed[i].effect = "applied" => work[i] \in Batches /\ AppliedAll(work[i])
        /\ observed[i].effect = "partiallyApplied" =>
             /\ work[i] \in Batches
             /\ ChangedScene(work[i]) /\ ~AppliedAll(work[i])

\* TouchDesigner's part of the state once it ran the request.
RanInv(i) == request[i] = "ran" => work[i] \in Batches \cup {Silent}

JournalInv ==
    /\ JournalTypeOK
    /\ \A i \in Ids : RowInv(i)
    /\ \A i \in Ids : GuardInv(i)
    /\ \A i \in Ids : DaemonInv(i)
    /\ \A i \in Ids : WorkInv(i)
    /\ \A i \in Ids : RanInv(i)

-----------------------------------------------------------------------------
(* Lemmas about the table                                                   *)

\* Deleting rows keeps a table a table and touches only the rows deleted.
LEMMA DeleteRows ==
    ASSUME NEW t \in Table, NEW S
    PROVE  /\ Delete(t, S) \in Table
           /\ \A j \in Ids : Delete(t, S)[j] = IF j \in S THEN NoRow ELSE t[j]
BY DEF Delete, Table

\* Deleting some of the history leaves every other row as it was; in
\* particular what is left of the history was history before.
LEMMA DeleteHistory ==
    ASSUME NEW t \in Table, NEW S \in SUBSET History(t)
    PROVE  /\ Delete(t, S) \in Table
           /\ \A j \in Ids : \/ Delete(t, S)[j] = t[j]
                             \/ Delete(t, S)[j] = NoRow /\ j \in History(t)
           /\ History(Delete(t, S)) \subseteq History(t)
<1>1. /\ Delete(t, S) \in Table
      /\ \A j \in Ids : Delete(t, S)[j] = IF j \in S THEN NoRow ELSE t[j]
  BY DeleteRows
<1>2. History(Delete(t, S)) \subseteq History(t)
  BY <1>1 DEF History, Present, Active
<1> QED
  BY <1>1, <1>2

\* prune forgets history only: a receipt whose caller waits is never deleted.
LEMMA PruneForgetsHistoryOnly ==
    ASSUME NEW t \in Table, NEW o, NEW time
    PROVE  /\ Prune(t, o, time) \in Table
           /\ \A j \in Ids : \/ Prune(t, o, time)[j] = t[j]
                             \/ Prune(t, o, time)[j] = NoRow /\ j \in History(t)
<1> DEFINE t1 == PruneExpired(t, time)
           t2 == PruneOwner(t1, o)
           t3 == PruneTotal(t2)
<1>1. /\ t1 \in Table
      /\ \A j \in Ids : t1[j] = t[j] \/ (t1[j] = NoRow /\ j \in History(t))
      /\ History(t1) \subseteq History(t)
  <2>1. {i \in History(t) : t[i].expires <= time} \in SUBSET History(t)
    OBVIOUS
  <2> QED
    BY <2>1, DeleteHistory DEF PruneExpired
<1> HIDE DEF t1
<1>2. /\ t2 \in Table
      /\ \A j \in Ids : t2[j] = t1[j] \/ (t2[j] = NoRow /\ j \in History(t1))
      /\ History(t2) \subseteq History(t1)
  <2>1. BeyondNewest(t1, History(t1) \cap OwnedBy(t1, o), MaxRowsPerOwner)
          \in SUBSET History(t1)
    BY DEF BeyondNewest
  <2> QED
    BY <1>1, <2>1, DeleteHistory DEF PruneOwner
<1> HIDE DEF t2
<1>3. /\ t3 \in Table
      /\ \A j \in Ids : t3[j] = t2[j] \/ (t3[j] = NoRow /\ j \in History(t2))
  <2>1. BeyondNewest(t2, History(t2), MaxTotalRows) \in SUBSET History(t2)
    BY DEF BeyondNewest
  <2> QED
    BY <1>2, <2>1, DeleteHistory DEF PruneTotal
<1> HIDE DEF t3
<1>4. Prune(t, o, time) = t3
  BY DEF Prune, t1, t2, t3
<1> QED
  BY <1>1, <1>2, <1>3, <1>4

\* transition rewrites state, effect and expiry of one row and nothing else.
LEMMA TransitionRow ==
    ASSUME NEW t \in Table, NEW i \in Present(t), NEW next \in ReceiptStates,
           NEW effect \in EffectStates, NEW time \in 0 .. MaxClock
    PROVE  LET u == Transition(t, i, next, effect, time) IN
           /\ u \in Table
           /\ \A j \in Ids \ {i} : u[j] = t[j]
           /\ u[i] \in Row
           /\ u[i].owner = t[i].owner
           /\ u[i].state = next
           /\ u[i].effect = effect
           /\ u[i].expires = None <=> next \in Unsettled
<1>1. i \in Ids /\ t[i] \in Row
  BY DEF Present, Table
<1>2. Expiry(next, time) \in Nat \cup {None}
  BY StoreAssumption DEF Expiry
<1>3. Expiry(next, time) = None <=> next \in Unsettled
  BY StoreAssumption DEF Expiry, IsTerminal, ReceiptStates, Unsettled
<1>4. Transition(t, i, next, effect, time)
        = [t EXCEPT ![i] = [t[i] EXCEPT !.state = next, !.effect = effect,
                                        !.expires = Expiry(next, time)]]
  BY <1>1 DEF Transition, Table
<1>5. [t[i] EXCEPT !.state = next, !.effect = effect, !.expires = Expiry(next, time)]
        \in Row
  BY <1>1, <1>2 DEF Row
<1> QED
  BY <1>1, <1>3, <1>4, <1>5 DEF Table, Row

\* No row is the absent row.
LEMMA RowIsPresent ==
    ASSUME NEW r \in Row
    PROVE  r # NoRow
BY StoreAssumption DEF Row, NoRow

\* recover_uncertain turns the unobserved rows into unknown effects and keeps
\* every other row.
LEMMA RecoverRows ==
    ASSUME NEW t \in Table, NEW time \in 0 .. MaxClock
    PROVE  LET u == RecoverUncertain(t, time) IN
           /\ u \in Table
           /\ \A j \in Ids : \/ /\ u[j] = t[j]
                                /\ t[j] = NoRow \/ t[j].state \notin {"dispatched", "waitExpired"}
                             \/ /\ t[j] # NoRow
                                /\ t[j].state \in {"dispatched", "waitExpired"}
                                /\ u[j] \in Row
                                /\ u[j].owner = t[j].owner
                                /\ u[j].state = "unknownEffect"
                                /\ u[j].effect = "unknown"
                                /\ u[j].expires \in Nat
<1> DEFINE rec(j) == [t[j] EXCEPT !.state = "unknownEffect", !.effect = "unknown",
                                  !.expires = time + Retention]
           hit(j) == j \in Present(t) /\ t[j].state \in {"dispatched", "waitExpired"}
<1>1. time + Retention \in Nat
  BY StoreAssumption
<1>2. ASSUME NEW j \in Ids, hit(j)
      PROVE  /\ rec(j) \in Row
             /\ rec(j).owner = t[j].owner
             /\ rec(j).state = "unknownEffect"
             /\ rec(j).effect = "unknown"
             /\ rec(j).expires \in Nat
  <2>1. t[j] \in Row
    BY <1>2 DEF Present, Table
  <2> QED
    BY <2>1, <1>1 DEF Row, ReceiptStates, EffectStates
<1>3. RecoverUncertain(t, time) = [j \in Ids |-> IF hit(j) THEN rec(j) ELSE t[j]]
  BY DEF RecoverUncertain
<1> HIDE DEF rec
<1> QED
  BY <1>2, <1>3 DEF Table, Present

\* A read payload states the truth about the batch it came from.
LEMMA PayloadIsHonest ==
    ASSUME NEW batch, NEW class \in EffectClasses,
           NEW payload \in PayloadsOf(batch)
    PROVE  LET effect == ReadEffect(class, payload) IN
           /\ effect \in EffectStates \ {"preventedBeforeDispatch"}
           /\ effect = "applied" => batch # Silent /\ AppliedAll(batch)
           /\ effect = "partiallyApplied" =>
                batch # Silent /\ ChangedScene(batch) /\ ~AppliedAll(batch)
<1>1. CASE batch = Silent
  <2>1. payload.applied = None
    BY <1>1 DEF PayloadsOf, SilentPayload
  <2> QED
    BY <2>1 DEF ReadEffect, ReadMutateEffect, EffectClasses, EffectStates
<1>2. CASE batch # Silent
  <2>1. payload = RunMutateSteps(batch)
    BY <1>2 DEF PayloadsOf
  <2>2. payload.applied = Applied(batch)
    BY <2>1 DEF RunMutateSteps
  <2>3. payload.failedAt = IF HardFailures(batch) = {} THEN None ELSE Applied(batch)
    BY <2>1 DEF RunMutateSteps
  <2>4. CASE HardFailures(batch) = {}
    <3>1. Applied(batch) = Len(batch)
      BY <2>4 DEF Applied
    <3>2. Applied(batch) > 0 => batch # << >>
      BY <3>1
    <3> QED
      BY <1>2, <2>2, <2>3, <2>4, <3>2
      DEF ReadEffect, ReadMutateEffect, EffectClasses, EffectStates, AppliedAll
  <2>5. CASE HardFailures(batch) # {}
    BY <1>2, <2>2, <2>3, <2>5
    DEF ReadEffect, ReadMutateEffect, EffectClasses, EffectStates,
        AppliedAll, ChangedScene
  <2> QED
    BY <2>4, <2>5
<1> QED
  BY <1>1, <1>2

-----------------------------------------------------------------------------
(* JournalInv is inductive                                                  *)

\* An empty table of a daemon in service satisfies the invariant.
LEMMA InvInit == JournalInit => JournalInv
BY StoreAssumption
DEF JournalInit, JournalInv, JournalTypeOK, RowInv, GuardInv, DaemonInv, WorkInv,
    RanInv, Table, GuardPcs, Requests, Waiting

\* Steps of a call that leave the table alone.
LEMMA CallSteps ==
    ASSUME JournalInv, NEW i \in Ids,
           HandOver(i) \/ SendRequest(i) \/ CallNotConnected(i) \/ StopWaiting(i)
    PROVE  JournalInv'
<1>1. CASE HandOver(i)
  BY <1>1 DEF HandOver, JournalInv, JournalTypeOK, RowInv, GuardInv, DaemonInv,
              WorkInv, RanInv, Requests, Waiting
<1>2. CASE SendRequest(i)
  BY <1>2 DEF SendRequest, JournalInv, JournalTypeOK, RowInv, GuardInv, DaemonInv,
              WorkInv, RanInv, Requests
<1>3. CASE CallNotConnected(i)
  <2>1. NotConnected \in Observations
    BY DEF NotConnected, Observations, EffectStates
  <2> QED
    BY <1>3, <2>1
    DEF CallNotConnected, JournalInv, JournalTypeOK, RowInv, GuardInv, DaemonInv,
        WorkInv, RanInv, GuardPcs, Waiting, Unsettled
<1>4. CASE StopWaiting(i)
  BY <1>4 DEF StopWaiting, JournalInv, JournalTypeOK, RowInv, GuardInv, DaemonInv,
              WorkInv, RanInv, GuardPcs, Waiting, Unsettled
<1> QED
  BY <1>1, <1>2, <1>3, <1>4

\* TouchDesigner runs the request; nothing was observed of it before.
LEMMA ExecuteStep ==
    ASSUME JournalInv, NEW i \in Ids, Execute(i)
    PROVE  JournalInv'
BY DEF Execute, JournalInv, JournalTypeOK, RowInv, GuardInv, DaemonInv, WorkInv,
       RanInv, Requests

\* The call returns: the reading of its payload is honest.
LEMMA ReturnStep ==
    ASSUME JournalInv, NEW i \in Ids, CallReturns(i)
    PROVE  JournalInv'
<1> USE DEF JournalInv
<1>1. PICK payload \in PayloadsOf(work[i]) :
        observed' = [observed EXCEPT ![i] =
            [ok |-> payload.ok, effect |-> ReadEffect(ticket[i].class, payload)]]
  BY DEF CallReturns
<1>2. ticket[i] \in Tickets /\ ticket[i].class \in EffectClasses
  <2>1. guard[i] # "none"
    BY DEF CallReturns
  <2>2. ticket[i] # None
    BY <2>1 DEF GuardInv
  <2> QED
    BY <2>2, CallAssumption DEF JournalTypeOK, Tickets
<1>3. work[i] \in Batches \cup {Silent}
  BY DEF CallReturns, RanInv
<1>4. payload.ok \in BOOLEAN
  <2>1. CASE work[i] = Silent
    <3>1. PICK b \in BOOLEAN : payload = SilentPayload(b)
      BY <1>1, <2>1 DEF PayloadsOf
    <3>2. payload.ok = b
      BY <3>1, Zenon DEF SilentPayload
    <3> QED
      BY <3>2
  <2>2. CASE work[i] # Silent
    <3>1. payload = RunMutateSteps(work[i])
      BY <1>1, <2>2 DEF PayloadsOf
    <3>2. payload.ok = (HardFailures(work[i]) = {})
      BY <3>1, Zenon DEF RunMutateSteps
    <3> QED
      BY <3>2
  <2> QED
    BY <2>1, <2>2
<1> DEFINE effect == ReadEffect(ticket[i].class, payload)
           seen == [ok |-> payload.ok, effect |-> effect]
<1>5. /\ effect \in EffectStates \ {"preventedBeforeDispatch"}
      /\ effect = "applied" => work[i] \in Batches /\ AppliedAll(work[i])
      /\ effect = "partiallyApplied" =>
           work[i] \in Batches /\ ChangedScene(work[i]) /\ ~AppliedAll(work[i])
  BY <1>1, <1>2, <1>3, PayloadIsHonest
<1>6. seen \in Observations /\ seen # NotConnected /\ seen.effect = effect
  BY <1>4, <1>5 DEF Observations, NotConnected
<1>7. seen # None
  BY <1>6, NoneAssumption DEF Observations
<1>8. observed' = [observed EXCEPT ![i] = seen]
  BY <1>1
<1> HIDE DEF effect, seen
<1>9. observed'[i] = seen /\ \A j \in Ids \ {i} : observed'[j] = observed[j]
  BY <1>8 DEF JournalTypeOK
<1>10. /\ guard[i] = "held"
       /\ guard' = [guard EXCEPT ![i] = "returned"]
       /\ request[i] = "ran"
       /\ UNCHANGED <<rows, now, up, ticket, request, work>>
  BY DEF CallReturns
<1>11. JournalTypeOK'
  BY <1>6, <1>8, <1>10 DEF JournalTypeOK, GuardPcs
<1>12. ASSUME NEW j \in Ids
       PROVE  /\ RowInv(j)' /\ GuardInv(j)' /\ DaemonInv(j)' /\ WorkInv(j)' /\ RanInv(j)'
  <2>1. CASE j = i
    BY <2>1, <1>5, <1>6, <1>7, <1>9, <1>10
    DEF RowInv, GuardInv, DaemonInv, WorkInv, RanInv, JournalTypeOK, Waiting
  <2>2. CASE j # i
    BY <2>2, <1>9, <1>10
    DEF RowInv, GuardInv, DaemonInv, WorkInv, RanInv, JournalTypeOK
  <2> QED
    BY <2>1, <2>2
<1> QED
  BY <1>11, <1>12

\* Any guarded transition of the row of i by the owner of its guard.
LEMMA TransitionKeepsOthers ==
    ASSUME JournalInv, NEW i \in Ids, NEW from, NEW next \in ReceiptStates,
           NEW effect \in EffectStates, ticket[i] # None,
           CanTransition(rows, ticket[i].owner, i, from),
           rows' = Transition(rows, i, next, effect, now)
    PROVE  /\ rows' \in Table
           /\ rows[i] # NoRow /\ rows[i].state = from
           /\ \A j \in Ids \ {i} : rows'[j] = rows[j]
           /\ rows'[i] # NoRow
           /\ rows'[i].owner = ticket[i].owner
           /\ rows'[i].state = next
           /\ rows'[i].effect = effect
           /\ rows'[i].expires = None <=> next \in Unsettled
<1>1. /\ i \in Present(rows)
      /\ rows[i].owner = ticket[i].owner
      /\ rows[i].state = from
  BY DEF CanTransition, OwnedBy
<1>2. rows \in Table /\ now \in 0 .. MaxClock
  BY DEF JournalInv, JournalTypeOK
<1>3. rows[i] # NoRow
  BY <1>1 DEF Present
<1> QED
  BY <1>1, <1>2, <1>3, TransitionRow, RowIsPresent

\* The owner of a live guard can always move its row on: the guarded UPDATE of
\* transition never misses.
LEMMA OwnRow ==
    ASSUME JournalInv, NEW i \in Ids, guard[i] \in Waiting
    PROVE  /\ ticket[i] \in Tickets
           /\ \A state : CanTransition(rows, ticket[i].owner, i, state)
                            <=> rows[i].state = state
<1>1. rows[i] # NoRow
  BY DEF JournalInv, GuardInv
<1>2. ticket[i] # None /\ rows[i].owner = ticket[i].owner
  BY <1>1 DEF JournalInv, RowInv
<1> QED
  BY <1>1, <1>2 DEF CanTransition, OwnedBy, Present, JournalInv, JournalTypeOK

\* The first journal call of returned.
LEMMA SettleMarkStep ==
    ASSUME JournalInv, NEW i \in Ids, SettleMark(i)
    PROVE  JournalInv'
<1>1. /\ guard[i] = "returned" /\ guard[i] \in Waiting
      /\ UNCHANGED <<now, up, ticket, request, work, observed>>
  BY DEF SettleMark, Waiting
<1>2. CASE /\ CanTransition(rows, ticket[i].owner, i, "admitted")
           /\ rows' = MarkDispatched(rows, i, now)
           /\ guard' = [guard EXCEPT ![i] = "marked"]
  <2>1. /\ rows' \in Table
        /\ \A j \in Ids \ {i} : rows'[j] = rows[j]
        /\ rows'[i] # NoRow
        /\ rows'[i].owner = ticket[i].owner
        /\ rows'[i].state = "dispatched"
        /\ rows'[i].effect = "unknown"
        /\ rows'[i].expires = None
    <3>1. "dispatched" \in ReceiptStates /\ "unknown" \in EffectStates
      BY DEF ReceiptStates, EffectStates
    <3>2. ticket[i] # None
      BY <1>1, OwnRow, NoneAssumption
    <3> QED
      BY <1>2, <3>1, <3>2, TransitionKeepsOthers DEF MarkDispatched, Unsettled
  <2> QED
    BY <1>1, <1>2, <2>1
    DEF JournalInv, JournalTypeOK, RowInv, GuardInv, DaemonInv, WorkInv, RanInv,
        GuardPcs, Waiting, Unsettled
<1>3. CASE rows' = rows /\ guard' = [guard EXCEPT ![i] = "dropping"]
  BY <1>1, <1>3
  DEF JournalInv, JournalTypeOK, RowInv, GuardInv, DaemonInv, WorkInv, RanInv,
      GuardPcs, Waiting, Unsettled
<1> QED
  BY <1>2, <1>3 DEF SettleMark

\* The second journal call of returned writes what was observed.
LEMMA SettleFinishStep ==
    ASSUME JournalInv, NEW i \in Ids, SettleFinish(i)
    PROVE  JournalInv'
<1>1. /\ guard[i] = "marked" /\ guard[i] \in Waiting
      /\ UNCHANGED <<now, up, ticket, request, work, observed>>
  BY DEF SettleFinish, Waiting
<1>2. CASE /\ CanTransition(rows, ticket[i].owner, i, "dispatched")
           /\ rows' = Finish(rows, i, observed[i].ok, observed[i].effect, now)
           /\ guard' = [guard EXCEPT ![i] = "gone"]
  <2> DEFINE state == ReturnedState(observed[i].ok, observed[i].effect)
  <2>1. /\ observed[i] \in Observations
        /\ observed[i] # NotConnected
        /\ observed[i].ok \in BOOLEAN
        /\ observed[i].effect \in EffectStates
    BY <1>1 DEF JournalInv, GuardInv, Observations
  <2>2. /\ state \in {"completed", "failed", "unknownEffect"}
        /\ state = "completed" => observed[i].ok = TRUE
        /\ state = "unknownEffect" => observed[i].effect = "unknown"
    BY <2>1 DEF ReturnedState
  <2> HIDE DEF state
  <2>3. /\ rows' \in Table
        /\ \A j \in Ids \ {i} : rows'[j] = rows[j]
        /\ rows'[i] # NoRow
        /\ rows'[i].owner = ticket[i].owner
        /\ rows'[i].state = state
        /\ rows'[i].effect = observed[i].effect
        /\ rows'[i].expires # None
    <3>1. state \in ReceiptStates /\ state \notin Unsettled
      BY <2>2 DEF ReceiptStates, Unsettled
    <3>2. ticket[i] # None
      BY <1>1, OwnRow, NoneAssumption
    <3>3. PICK next, effect : next = state /\ effect = observed[i].effect
      OBVIOUS
    <3>4. rows' = Transition(rows, i, next, effect, now)
      BY <1>2, <3>3 DEF Finish, state
    <3>5. next \in ReceiptStates /\ effect \in EffectStates /\ next \notin Unsettled
      BY <2>1, <3>1, <3>3
    <3>6. CanTransition(rows, ticket[i].owner, i, "dispatched")
      BY <1>2
    <3>7. /\ rows' \in Table
          /\ \A j \in Ids \ {i} : rows'[j] = rows[j]
          /\ rows'[i] # NoRow
          /\ rows'[i].owner = ticket[i].owner
          /\ rows'[i].state = next
          /\ rows'[i].effect = effect
          /\ rows'[i].expires = None <=> next \in Unsettled
      BY <3>2, <3>4, <3>5, <3>6, TransitionKeepsOthers
    <3> QED
      BY <3>3, <3>5, <3>7
  <2> QED
    BY <1>1, <1>2, <2>1, <2>2, <2>3
    DEF JournalInv, JournalTypeOK, RowInv, GuardInv, DaemonInv, WorkInv, RanInv,
        GuardPcs, Waiting, Unsettled
<1>3. CASE rows' = rows /\ guard' = [guard EXCEPT ![i] = "dropping"]
  BY <1>1, <1>3
  DEF JournalInv, JournalTypeOK, RowInv, GuardInv, DaemonInv, WorkInv, RanInv,
      GuardPcs, Waiting, Unsettled
<1> QED
  BY <1>2, <1>3 DEF SettleFinish

\* The first journal call of the destructor.
LEMMA DropMarkStep ==
    ASSUME JournalInv, NEW i \in Ids, DropMark(i)
    PROVE  JournalInv'
<1>1. /\ guard[i] = "dropping" /\ guard[i] \in Waiting
      /\ guard' = [guard EXCEPT ![i] = "expiring"]
      /\ UNCHANGED <<now, up, ticket, request, work, observed>>
  BY DEF DropMark, Waiting
<1>2. CASE /\ CanTransition(rows, ticket[i].owner, i, "admitted")
           /\ rows' = MarkDispatched(rows, i, now)
  <2>1. /\ rows' \in Table
        /\ \A j \in Ids \ {i} : rows'[j] = rows[j]
        /\ rows'[i] # NoRow
        /\ rows'[i].owner = ticket[i].owner
        /\ rows'[i].state = "dispatched"
        /\ rows'[i].effect = "unknown"
        /\ rows'[i].expires = None
    <3>1. "dispatched" \in ReceiptStates /\ "unknown" \in EffectStates
      BY DEF ReceiptStates, EffectStates
    <3>2. ticket[i] # None
      BY <1>1, OwnRow, NoneAssumption
    <3> QED
      BY <1>2, <3>1, <3>2, TransitionKeepsOthers DEF MarkDispatched, Unsettled
  <2> QED
    BY <1>1, <2>1
    DEF JournalInv, JournalTypeOK, RowInv, GuardInv, DaemonInv, WorkInv, RanInv,
        GuardPcs, Waiting, Unsettled
<1>3. CASE /\ ~CanTransition(rows, ticket[i].owner, i, "admitted") \/ i \in Faulty
           /\ rows' = rows
  \* A destructor that cannot mark the row found it dispatched already: it runs
  \* after mark_dispatched succeeded and finish failed.
  <2>1. i \notin Faulty => rows[i].state = "dispatched"
    BY <1>1, <1>3, OwnRow DEF JournalInv, GuardInv, Unsettled
  <2> QED
    BY <1>1, <1>3, <2>1
    DEF JournalInv, JournalTypeOK, RowInv, GuardInv, DaemonInv, WorkInv, RanInv,
        GuardPcs, Waiting, Unsettled
<1> QED
  BY <1>2, <1>3 DEF DropMark

\* The second journal call of the destructor.
LEMMA DropExpireStep ==
    ASSUME JournalInv, NEW i \in Ids, DropExpire(i)
    PROVE  JournalInv'
<1>1. /\ guard[i] = "expiring" /\ guard[i] \in Waiting
      /\ guard' = [guard EXCEPT ![i] = "gone"]
      /\ UNCHANGED <<now, up, ticket, request, work, observed>>
  BY DEF DropExpire, Waiting
<1>2. CASE /\ CanTransition(rows, ticket[i].owner, i, "dispatched")
           /\ rows' = MarkWaitExpired(rows, i, now)
  <2>1. /\ rows' \in Table
        /\ \A j \in Ids \ {i} : rows'[j] = rows[j]
        /\ rows'[i] # NoRow
        /\ rows'[i].owner = ticket[i].owner
        /\ rows'[i].state = "waitExpired"
        /\ rows'[i].effect = "unknown"
        /\ rows'[i].expires # None
    <3>1. "waitExpired" \in ReceiptStates /\ "unknown" \in EffectStates
      BY DEF ReceiptStates, EffectStates
    <3>2. ticket[i] # None
      BY <1>1, OwnRow, NoneAssumption
    <3> QED
      BY <1>2, <3>1, <3>2, TransitionKeepsOthers DEF MarkWaitExpired, Unsettled
  <2> QED
    BY <1>1, <2>1
    DEF JournalInv, JournalTypeOK, RowInv, GuardInv, DaemonInv, WorkInv, RanInv,
        GuardPcs, Waiting, Unsettled
<1>3. CASE /\ ~CanTransition(rows, ticket[i].owner, i, "dispatched") \/ i \in Faulty
           /\ rows' = rows
  \* Without a failed write the row is dispatched, so the UPDATE cannot miss.
  <2>1. i \in Faulty
    BY <1>1, <1>3, OwnRow DEF JournalInv, GuardInv
  <2> QED
    BY <1>1, <1>3, <2>1
    DEF JournalInv, JournalTypeOK, RowInv, GuardInv, DaemonInv, WorkInv, RanInv,
        GuardPcs, Waiting
<1> QED
  BY <1>2, <1>3 DEF DropExpire

\* An admission prunes history and inserts a row of its own.
LEMMA BeginStep ==
    ASSUME JournalInv, NEW o \in Owners, NEW i \in Ids, NEW class \in Classes,
           Begin(o, i, class)
    PROVE  JournalInv'
<1> DEFINE pruned == Prune(rows, o, now)
           row == [owner |-> o, state |-> "admitted", effect |-> "notApplicable",
                   created |-> now, expires |-> None, resolution |-> None]
           tick == [owner |-> o, class |-> class]
<1>1. /\ up /\ guard[i] = "none"
      /\ rows' = [pruned EXCEPT ![i] = row]
      /\ guard' = [guard EXCEPT ![i] = "held"]
      /\ ticket' = [ticket EXCEPT ![i] = tick]
      /\ UNCHANGED <<now, up, request, work, observed>>
  BY DEF Begin, Insert
<1>2. /\ pruned \in Table
      /\ \A j \in Ids : pruned[j] = rows[j] \/ (pruned[j] = NoRow /\ j \in History(rows))
  BY PruneForgetsHistoryOnly DEF JournalInv, JournalTypeOK
<1> HIDE DEF pruned
<1>3. row \in Row /\ row.owner = o /\ row.state = "admitted"
        /\ row.effect = "notApplicable" /\ row.expires = None
  BY DEF Row, ReceiptStates, EffectStates, JournalInv, JournalTypeOK
<1>4. row # NoRow
  BY <1>3, RowIsPresent
<1>5. tick \in Tickets /\ tick # None /\ tick.owner = o
  BY NoneAssumption DEF Tickets
<1> HIDE DEF row, tick
<1>6. /\ rows' \in Table
      /\ rows'[i] = row
      /\ \A j \in Ids \ {i} :
           rows'[j] = rows[j] \/ (rows'[j] = NoRow /\ rows[j] # NoRow /\ rows[j].expires # None)
  BY <1>1, <1>2, <1>3 DEF Table, History, Present, Active
<1>7. ticket'[i] = tick /\ \A j \in Ids \ {i} : ticket'[j] = ticket[j]
  BY <1>1 DEF JournalInv, JournalTypeOK
<1>8. guard'[i] = "held" /\ \A j \in Ids \ {i} : guard'[j] = guard[j]
  BY <1>1 DEF JournalInv, JournalTypeOK
<1>9. JournalTypeOK'
  BY <1>1, <1>5, <1>6 DEF JournalInv, JournalTypeOK, GuardPcs
<1>10. ASSUME NEW j \in Ids
       PROVE  RowInv(j)' /\ GuardInv(j)' /\ DaemonInv(j)' /\ WorkInv(j)' /\ RanInv(j)'
  <2>1. CASE j = i
    BY <2>1, <1>1, <1>3, <1>4, <1>5, <1>6, <1>7, <1>8
    DEF JournalInv, RowInv, GuardInv, DaemonInv, WorkInv, RanInv, Waiting, Unsettled
  <2>2. CASE j # i
    BY <2>2, <1>1, <1>6, <1>7, <1>8
    DEF JournalInv, RowInv, GuardInv, DaemonInv, WorkInv, RanInv, Waiting, Unsettled
  <2> QED
    BY <2>1, <2>2
<1> QED
  BY <1>9, <1>10 DEF JournalInv

\* A refused admission only prunes.
LEMMA RefusedStep ==
    ASSUME JournalInv, NEW o \in Owners, BeginRefused(o)
    PROVE  JournalInv'
<1> DEFINE pruned == Prune(rows, o, now)
<1>1. /\ rows' = pruned
      /\ UNCHANGED <<now, up, guard, ticket, request, work, observed>>
  BY DEF BeginRefused
<1>2. /\ pruned \in Table
      /\ \A j \in Ids : pruned[j] = rows[j] \/ (pruned[j] = NoRow /\ j \in History(rows))
  BY PruneForgetsHistoryOnly DEF JournalInv, JournalTypeOK
<1> HIDE DEF pruned
<1>3. /\ rows' \in Table
      /\ \A j \in Ids :
           rows'[j] = rows[j] \/ (rows'[j] = NoRow /\ rows[j] # NoRow /\ rows[j].expires # None)
  BY <1>1, <1>2 DEF History, Present, Active
<1> QED
  BY <1>1, <1>3
  DEF JournalInv, JournalTypeOK, RowInv, GuardInv, DaemonInv, WorkInv, RanInv,
      Waiting, Unsettled

\* A caller's account changes neither state nor effect.
LEMMA ResolveStep ==
    ASSUME JournalInv, NEW o \in Owners, NEW i \in Ids, NEW effect \in Accounts,
           ResolveReceipt(o, i, effect)
    PROVE  JournalInv'
<1>1. /\ i \in Present(rows)
      /\ rows' = [rows EXCEPT ![i].resolution = effect]
      /\ UNCHANGED <<now, up, guard, ticket, request, work, observed>>
  BY DEF ResolveReceipt, CanResolve, Resolve, OwnedBy
<1>2. rows \in Table /\ rows[i] \in Row /\ rows[i] # NoRow
  BY <1>1 DEF JournalInv, JournalTypeOK, Table, Present
<1> DEFINE row == [rows[i] EXCEPT !.resolution = effect]
<1>3. /\ row \in Row
      /\ row.owner = rows[i].owner /\ row.state = rows[i].state
      /\ row.effect = rows[i].effect /\ row.expires = rows[i].expires
  BY <1>2, CallAssumption DEF Row
<1>4. rows' = [rows EXCEPT ![i] = row]
  BY <1>1
<1>5. row # NoRow
  BY <1>3, RowIsPresent
<1> HIDE DEF row
<1>6. rows' \in Table /\ rows'[i] = row /\ \A j \in Ids \ {i} : rows'[j] = rows[j]
  BY <1>2, <1>3, <1>4 DEF Table
<1> QED
  BY <1>1, <1>2, <1>3, <1>5, <1>6
  DEF JournalInv, JournalTypeOK, RowInv, GuardInv, DaemonInv, WorkInv, RanInv,
      Waiting, Unsettled

\* Time passes.
LEMMA TickStep ==
    ASSUME JournalInv, Tick
    PROVE  JournalInv'
BY StoreAssumption
DEF Tick, JournalInv, JournalTypeOK, RowInv, GuardInv, DaemonInv, WorkInv, RanInv

\* The daemon dies: its guards are lost and its rows stay.
LEMMA CrashStep ==
    ASSUME JournalInv, Crash
    PROVE  JournalInv'
<1>1. /\ \A j \in Ids : guard'[j] = IF guard[j] \in Waiting THEN "lost" ELSE guard[j]
      /\ \A j \in Ids : request'[j] = IF request[j] = "queued" THEN "no" ELSE request[j]
      /\ up' = FALSE
      /\ UNCHANGED <<rows, now, ticket, work, observed>>
  BY DEF Crash
<1>2. JournalTypeOK'
  BY DEF Crash, JournalInv, JournalTypeOK, GuardPcs, Requests
<1>3. ASSUME NEW j \in Ids
      PROVE  RowInv(j)' /\ GuardInv(j)' /\ DaemonInv(j)' /\ WorkInv(j)' /\ RanInv(j)'
  BY <1>1
  DEF JournalInv, RowInv, GuardInv, DaemonInv, WorkInv, RanInv, Waiting
<1> QED
  BY <1>2, <1>3 DEF JournalInv

\* Recovery rewrites what a dead daemon left unobserved.
LEMMA OpenStep ==
    ASSUME JournalInv, Open
    PROVE  JournalInv'
<1>1. /\ ~up /\ up'
      /\ rows' = RecoverUncertain(rows, now)
      /\ UNCHANGED <<now, guard, ticket, request, work, observed>>
  BY DEF Open
<1>2. /\ rows' \in Table
      /\ \A j \in Ids :
           \/ /\ rows'[j] = rows[j]
              /\ rows[j] = NoRow \/ rows[j].state \notin {"dispatched", "waitExpired"}
           \/ /\ rows[j] # NoRow
              /\ rows[j].state \in {"dispatched", "waitExpired"}
              /\ rows'[j] \in Row
              /\ rows'[j].owner = rows[j].owner
              /\ rows'[j].state = "unknownEffect"
              /\ rows'[j].effect = "unknown"
              /\ rows'[j].expires \in Nat
  BY <1>1, RecoverRows DEF JournalInv, JournalTypeOK
<1>3. \A j \in Ids : rows'[j] \in Row => rows'[j] # NoRow
  BY RowIsPresent
<1>4. JournalTypeOK'
  BY <1>1, <1>2 DEF Open, JournalInv, JournalTypeOK
<1>5. ASSUME NEW j \in Ids
      PROVE  RowInv(j)' /\ GuardInv(j)' /\ DaemonInv(j)' /\ WorkInv(j)' /\ RanInv(j)'
  BY <1>1, <1>2, <1>3, StoreAssumption
  DEF JournalInv, RowInv, GuardInv, DaemonInv, WorkInv, RanInv, Waiting, Unsettled
<1> QED
  BY <1>4, <1>5 DEF JournalInv

\* Every step preserves the invariant.
LEMMA InvNext == JournalInv /\ [JournalNext]_vars => JournalInv'
<1> SUFFICES ASSUME JournalInv, [JournalNext]_vars
             PROVE  JournalInv'
  OBVIOUS
<1>1. ASSUME NEW i \in Ids, GuardStep(i)
      PROVE  JournalInv'
  BY <1>1, CallSteps, ReturnStep, SettleMarkStep, SettleFinishStep, DropMarkStep,
     DropExpireStep
  DEF GuardStep
<1>2. ASSUME NEW i \in Ids, SendRequest(i) \/ Execute(i)
      PROVE  JournalInv'
  BY <1>2, CallSteps, ExecuteStep
<1>3. CASE UNCHANGED vars
  BY <1>3
  DEF vars, JournalInv, JournalTypeOK, RowInv, GuardInv, DaemonInv, WorkInv, RanInv
<1> QED
  BY <1>1, <1>2, <1>3, BeginStep, RefusedStep, ResolveStep, TickStep, CrashStep, OpenStep
  DEF JournalNext

-----------------------------------------------------------------------------
(* What follows for every behaviour                                         *)

\* The invariant holds in every reachable state.
LEMMA JournalInvariant == JournalSpec => []JournalInv
BY InvInit, InvNext, PTL DEF JournalSpec

\* The state of the journal, its guards and its calls keeps its type
\* (opjournal.rs, opdispatch.rs).
THEOREM JournalTypeCorrect == JournalSpec => []JournalTypeOK
<1>1. JournalInv => JournalTypeOK
  BY DEF JournalInv
<1> QED
  BY <1>1, JournalInvariant, PTL

\* Every effect a receipt states was established by the work itself and seen by
\* the daemon (read_mutate_effect, PendingDispatch::returned, resolve).
THEOREM ReceiptsAreHonest == JournalSpec => []HonestReceipt
<1>1. JournalInv => HonestReceipt
  <2> SUFFICES ASSUME JournalInv, NEW i \in Present(rows)
               PROVE  /\ rows[i].effect = "applied" =>
                           work[i] \in Batches /\ AppliedAll(work[i])
                      /\ rows[i].effect = "partiallyApplied" =>
                           /\ work[i] \in Batches
                           /\ ChangedScene(work[i]) /\ ~AppliedAll(work[i])
                      /\ rows[i].effect \in {"none", "applied", "partiallyApplied"} =>
                           observed[i] \in Observations \ {NotConnected}
                      /\ rows[i].state = "completed" =>
                           observed[i] \in [ok : {TRUE}, effect : {rows[i].effect}]
    BY DEF HonestReceipt
  <2>1. i \in Ids /\ rows[i] # NoRow /\ rows[i] \in Row
    BY DEF Present, JournalInv, JournalTypeOK, Table
  <2>2. rows[i].state \in ReceiptStates
    BY <2>1 DEF Row
  <2>3. RowInv(i) /\ WorkInv(i)
    BY <2>1 DEF JournalInv
  <2>4. observed[i] \in Observations => observed[i] # None
    BY NoneAssumption DEF Observations
  <2>5. rows[i].effect \in {"none", "applied", "partiallyApplied"} =>
          rows[i].state \in {"completed", "failed"}
    BY <2>1, <2>2, <2>3 DEF RowInv, ReceiptStates
  <2>6. rows[i].state = "completed" =>
          observed[i] \in [ok : {TRUE}, effect : {rows[i].effect}]
    BY <2>1, <2>3 DEF RowInv, Observations
  <2> QED
    BY <2>1, <2>3, <2>4, <2>5, <2>6 DEF RowInv, WorkInv
<1> QED
  BY <1>1, JournalInvariant, PTL

\* No path through settling and the destructor leaks an admission slot, as long
\* as the journal's writes succeed (Drop for PendingDispatch).
THEOREM SlotsAreReleased == JournalSpec => []SlotEndsWithItsGuard
<1>1. JournalInv => SlotEndsWithItsGuard
  BY CallAssumption DEF JournalInv, GuardInv, SlotEndsWithItsGuard, Active, Present
<1> QED
  BY <1>1, JournalInvariant, PTL

\* A daemon in service has recovered every row a crashed one left behind (open).
THEOREM RecoveryComesFirst == JournalSpec => []RecoveredBeforeServed
<1>1. JournalInv => RecoveredBeforeServed
  BY DEF JournalInv, DaemonInv, RecoveredBeforeServed, Present
<1> QED
  BY <1>1, JournalInvariant, PTL

-----------------------------------------------------------------------------
(* The journal implements the abstract ledger                               *)

\* How one step may treat a receipt that was already admitted, or never is.
Kept(j) == ticket'[j] = ticket[j] /\ rows'[j] = rows[j]

Forgotten(j) ==
    /\ ticket'[j] = ticket[j]
    /\ rows[j] # NoRow /\ rows[j].expires # None
    /\ rows'[j] = NoRow

Moved(j) ==
    /\ ticket'[j] = ticket[j]
    /\ rows[j] # NoRow /\ rows'[j] # NoRow
    /\ rows'[j].state \in ReceiptStates
    /\ \/ rows'[j].state = rows[j].state
       \/ rows[j].state \in Unsettled
       \/ rows[j].state = "waitExpired" /\ rows'[j].state = "unknownEffect"

Treated(j) == Kept(j) \/ Forgotten(j) \/ Moved(j)

Admitted(j) ==
    /\ ticket[j] = None /\ ticket'[j] # None
    /\ rows'[j] # NoRow /\ rows'[j].state = "admitted"

\* Every step treats every receipt in one of these ways and admits at most one.
LEMMA StepTreats ==
    ASSUME JournalInv, JournalInv', [JournalNext]_vars
    PROVE  \/ \A j \in Ids : Treated(j)
           \/ \E i \in Ids : Admitted(i) /\ \A j \in Ids \ {i} : Treated(j)
<1> USE DEF Treated
<1>1. ASSUME NEW i \in Ids,
             \/ HandOver(i) \/ CallReturns(i) \/ CallNotConnected(i) \/ StopWaiting(i)
             \/ SendRequest(i) \/ Execute(i)
      PROVE  \A j \in Ids : Kept(j)
  BY <1>1 DEF HandOver, CallReturns, CallNotConnected, StopWaiting, SendRequest, Execute,
              Kept
<1>2. ASSUME NEW i \in Ids,
             SettleMark(i) \/ SettleFinish(i) \/ DropMark(i) \/ DropExpire(i)
      PROVE  \A j \in Ids : Treated(j)
  <2>1. ticket' = ticket /\ rows \in Table /\ rows' \in Table
    BY <1>2 DEF SettleMark, SettleFinish, DropMark, DropExpire, JournalInv, JournalTypeOK
  <2>2. \A j \in Ids \ {i} : rows'[j] = rows[j]
    BY <1>2, <2>1
    DEF SettleMark, SettleFinish, DropMark, DropExpire, MarkDispatched, MarkWaitExpired,
        Finish, Transition, Table
  <2>3. guard[i] \in Waiting
    BY <1>2 DEF SettleMark, SettleFinish, DropMark, DropExpire, Waiting
  <2>4. rows[i] # NoRow /\ rows[i].state \in Unsettled
    BY <2>3 DEF JournalInv, GuardInv, Waiting, Unsettled
  <2>5. rows'[i] # NoRow
    <3>1. CASE rows' = rows
      BY <3>1, <2>4
    <3>2. CASE rows' # rows
      <4>1. rows' = MarkDispatched(rows, i, now) \/ rows' = MarkWaitExpired(rows, i, now)
              \/ rows' = Finish(rows, i, observed[i].ok, observed[i].effect, now)
        BY <1>2, <3>2 DEF SettleMark, SettleFinish, DropMark, DropExpire
      <4>2. PICK next, effect : rows' = Transition(rows, i, next, effect, now)
        BY <4>1 DEF MarkDispatched, MarkWaitExpired, Finish
      <4>3. rows'[i].owner = rows[i].owner
        BY <4>2, <2>1, <2>4 DEF Transition, Table, Row
      <4> QED
        BY <4>3, <2>1, <2>4, StoreAssumption DEF Table, Row, NoRow
    <3> QED
      BY <3>1, <3>2
  <2>6. rows'[i].state \in ReceiptStates
    BY <2>1, <2>5 DEF Table, Row
  <2>7. Moved(i)
    BY <2>1, <2>4, <2>5, <2>6 DEF Moved
  <2>8. ASSUME NEW j \in Ids \ {i}
        PROVE  Kept(j)
    BY <2>1, <2>2 DEF Kept
  <2> QED
    BY <2>7, <2>8
<1>3. ASSUME NEW o \in Owners, NEW i \in Ids, NEW class \in Classes, Begin(o, i, class)
      PROVE  Admitted(i) /\ \A j \in Ids \ {i} : Treated(j)
  <2> DEFINE pruned == Prune(rows, o, now)
  <2>1. /\ guard[i] = "none"
        /\ rows' = Insert(pruned, o, i, now)
        /\ ticket' = [ticket EXCEPT ![i] = [owner |-> o, class |-> class]]
    BY <1>3 DEF Begin
  <2>2. /\ pruned \in Table
        /\ \A j \in Ids : pruned[j] = rows[j] \/ (pruned[j] = NoRow /\ j \in History(rows))
    BY PruneForgetsHistoryOnly DEF JournalInv, JournalTypeOK
  <2> HIDE DEF pruned
  <2>3. \A j \in Ids \ {i} : rows'[j] = pruned[j] /\ ticket'[j] = ticket[j]
    BY <2>1, <2>2 DEF Insert, Table, JournalInv, JournalTypeOK
  <2>4. guard'[i] = "held"
    BY <1>3 DEF Begin, JournalInv, JournalTypeOK
  <2>5. Admitted(i)
    BY <2>1, <2>4 DEF Admitted, JournalInv, GuardInv, Waiting
  <2>6. ASSUME NEW j \in Ids \ {i}
        PROVE  Treated(j)
    BY <2>2, <2>3 DEF Kept, Forgotten, History, Present, Active
  <2> QED
    BY <2>5, <2>6
<1>4. ASSUME NEW o \in Owners, BeginRefused(o)
      PROVE  \A j \in Ids : Treated(j)
  <2>1. rows' = Prune(rows, o, now) /\ ticket' = ticket
    BY <1>4 DEF BeginRefused
  <2>2. \A j \in Ids : rows'[j] = rows[j] \/ (rows'[j] = NoRow /\ j \in History(rows))
    BY <2>1, PruneForgetsHistoryOnly DEF JournalInv, JournalTypeOK
  <2> QED
    BY <2>1, <2>2 DEF Kept, Forgotten, History, Present, Active
<1>5. ASSUME NEW o \in Owners, NEW i \in Ids, NEW effect \in Accounts,
             ResolveReceipt(o, i, effect)
      PROVE  \A j \in Ids : Treated(j)
  <2>1. /\ i \in Present(rows)
        /\ rows' = [rows EXCEPT ![i].resolution = effect]
        /\ ticket' = ticket
    BY <1>5 DEF ResolveReceipt, CanResolve, Resolve, OwnedBy
  <2>2. rows \in Table /\ rows' \in Table /\ rows[i] \in Row /\ rows[i] # NoRow
    BY <2>1 DEF JournalInv, JournalTypeOK, Table, Present
  <2>3. rows'[i].owner = rows[i].owner /\ rows'[i].state = rows[i].state
    BY <2>1, <2>2 DEF Table, Row
  <2>4. rows'[i] # NoRow
    BY <2>2, <2>3, StoreAssumption DEF Table, Row, NoRow
  <2>5. Moved(i)
    BY <2>1, <2>2, <2>3, <2>4 DEF Moved, Row
  <2>6. ASSUME NEW j \in Ids \ {i}
        PROVE  Kept(j)
    BY <2>1, <2>2 DEF Kept, Table
  <2> QED
    BY <2>5, <2>6
<1>6. CASE Open
  <2>1. rows' = RecoverUncertain(rows, now) /\ ticket' = ticket
    BY <1>6 DEF Open
  <2>2. \A j \in Ids :
           \/ rows'[j] = rows[j]
           \/ /\ rows[j] # NoRow
              /\ rows[j].state \in {"dispatched", "waitExpired"}
              /\ rows'[j] \in Row
              /\ rows'[j].state = "unknownEffect"
    BY <2>1, RecoverRows DEF JournalInv, JournalTypeOK
  <2>3. \A j \in Ids : rows'[j] \in Row => rows'[j] # NoRow
    BY RowIsPresent
  <2> QED
    BY <2>1, <2>2, <2>3 DEF Kept, Moved, Unsettled, ReceiptStates
<1>7. CASE Tick \/ Crash \/ UNCHANGED vars
  BY <1>7 DEF Tick, Crash, vars, Kept
<1> QED
  BY <1>1, <1>2, <1>3, <1>4, <1>5, <1>6, <1>7 DEF JournalNext, GuardStep

\* The refinement mapping is total: every receipt has a phase.
LEMMA PhaseIsPhase ==
    ASSUME JournalInv, NEW j \in Ids
    PROVE  LedgerPhase(j) \in Ledger!Phases
<1>1. rows[j] = NoRow \/ rows[j].state \in ReceiptStates
  BY DEF JournalInv, JournalTypeOK, Table, Row
<1> QED
  BY <1>1 DEF LedgerPhase, Ledger!Phases, ReceiptStates

\* A receipt treated in one of these ways moves along the abstract ledger.
LEMMA TreatedSucceeds ==
    ASSUME JournalInv, JournalInv', NEW j \in Ids, Treated(j)
    PROVE  /\ LedgerPhase(j)' \in Ledger!Successors[LedgerPhase(j)]
           /\ LedgerPhase(j) = "fresh" => LedgerPhase(j)' = "fresh"
<1>1. rows[j] = NoRow \/ rows[j].state \in ReceiptStates
  BY DEF JournalInv, JournalTypeOK, Table, Row
<1>2. RowInv(j) /\ RowInv(j)'
  BY DEF JournalInv
<1>3. CASE Kept(j)
  BY <1>1, <1>3 DEF Kept, LedgerPhase, Ledger!Successors, ReceiptStates
<1>4. CASE Forgotten(j)
  BY <1>1, <1>2, <1>4
  DEF Forgotten, LedgerPhase, Ledger!Successors, ReceiptStates, RowInv, Unsettled
<1>5. CASE Moved(j)
  BY <1>1, <1>2, <1>5
  DEF Moved, LedgerPhase, Ledger!Successors, ReceiptStates, RowInv, Unsettled
<1> QED
  BY <1>3, <1>4, <1>5 DEF Treated

\* Crashes, recovery, pruning and caller accounts included, the journal
\* implements ReceiptLedger.
THEOREM JournalImplementsLedger == JournalSpec => RefinesLedger
<1> DEFINE ledger == [i \in Ids |-> LedgerPhase(i)]
<1>1. JournalInit => Ledger!Init
  BY DEF JournalInit, Ledger!Init, LedgerPhase
<1>2. JournalInv /\ JournalInv' /\ [JournalNext]_vars => Ledger!Next
  <2> SUFFICES ASSUME JournalInv, JournalInv', [JournalNext]_vars
               PROVE  Ledger!Next
    OBVIOUS
  <2>1. \A j \in Ids : Ledger!Successors[LedgerPhase(j)] \subseteq Ledger!Phases
    BY PhaseIsPhase DEF Ledger!Phases, Ledger!Successors
  <2>2. ASSUME NEW j \in Ids, Admitted(j)
        PROVE  LedgerPhase(j) = "fresh" /\ LedgerPhase(j)' = "active"
    BY <2>2 DEF Admitted, LedgerPhase, JournalInv, RowInv
  <2>3. CASE \A j \in Ids : Treated(j)
    BY <2>1, <2>3, TreatedSucceeds DEF Ledger!Next
  <2>4. ASSUME NEW i \in Ids, Admitted(i), \A j \in Ids \ {i} : Treated(j)
        PROVE  Ledger!Next
    <3>1. LedgerPhase(i) = "fresh" /\ LedgerPhase(i)' = "active"
      BY <2>2, <2>4
    <3>2. \A j \in Ids \ {i} : /\ LedgerPhase(j)' \in Ledger!Successors[LedgerPhase(j)]
                               /\ LedgerPhase(j) = "fresh" => LedgerPhase(j)' = "fresh"
      BY <2>4, TreatedSucceeds
    <3>3. "active" \in Ledger!Successors["fresh"]
      BY DEF Ledger!Successors
    <3> QED
      BY <2>1, <3>1, <3>2, <3>3 DEF Ledger!Next
  <2> QED
    BY <2>3, <2>4, StepTreats
<1> QED
  BY <1>1, <1>2, JournalInvariant, PTL DEF RefinesLedger, Ledger!Spec, JournalSpec

-----------------------------------------------------------------------------
(* Trimming a history to the newest n rows                                  *)

\* The table order is a strict total order on rows.
LEMMA NewerIsTotalOrder ==
    ASSUME NEW t \in Table, NEW S \in SUBSET Present(t)
    PROVE  /\ \A i, j \in S : i = j \/ NewerThan(t, i, j) \/ NewerThan(t, j, i)
           /\ \A i \in S : ~NewerThan(t, i, i)
           /\ \A i, j, k \in S :
                NewerThan(t, i, j) /\ NewerThan(t, j, k) => NewerThan(t, i, k)
<1>1. \A i \in S : i \in Nat /\ t[i].created \in Nat
  BY StoreAssumption DEF Present, Table, Row
<1> QED
  BY <1>1 DEF NewerThan

\* What is left when the rows beyond the newest n are deleted is at most n rows:
\* the number of newer rows tells any two survivors apart.
LEMMA TrimmedToNewest ==
    ASSUME NEW t \in Table, NEW S \in SUBSET Present(t), NEW n \in Nat
    PROVE  LET T == S \ BeyondNewest(t, S, n) IN
           IsFiniteSet(T) /\ Cardinality(T) <= n
<1> DEFINE newer(i) == {j \in S : NewerThan(t, j, i)}
           T == S \ BeyondNewest(t, S, n)
           f == [i \in T |-> Cardinality(newer(i)) + 1]
<1>1. IsFiniteSet(S)
  BY StoreAssumption, FS_Subset DEF Present
<1>2. \A i : IsFiniteSet(newer(i)) /\ Cardinality(newer(i)) \in Nat
  BY <1>1, FS_Subset, FS_CardinalityType
<1>3. \A i \in T : i \in S /\ Cardinality(newer(i)) < n
  BY <1>2 DEF BeyondNewest
<1>4. ASSUME NEW i \in S, NEW j \in S, NewerThan(t, i, j)
      PROVE  Cardinality(newer(i)) < Cardinality(newer(j))
  <2>1. newer(i) \subseteq newer(j)
    BY <1>4, NewerIsTotalOrder
  <2>2. i \in newer(j) /\ i \notin newer(i)
    BY <1>4, NewerIsTotalOrder
  <2> HIDE DEF newer
  <2> QED
    BY <1>2, <2>1, <2>2, FS_Subset
<1>5. \A i, j \in T : f[i] = f[j] => i = j
  <2> SUFFICES ASSUME NEW i \in T, NEW j \in T, f[i] = f[j], i # j
               PROVE  FALSE
    OBVIOUS
  <2>1. i \in S /\ j \in S
    BY <1>3
  <2>2. Cardinality(newer(i)) = Cardinality(newer(j))
    <3>1. f[i] = Cardinality(newer(i)) + 1 /\ f[j] = Cardinality(newer(j)) + 1
      OBVIOUS
    <3>2. Cardinality(newer(i)) \in Nat /\ Cardinality(newer(j)) \in Nat
      BY <1>2
    <3>3. PICK a \in Nat, b \in Nat : a = Cardinality(newer(i)) /\ b = Cardinality(newer(j))
      BY <3>2
    <3>4. a + 1 = b + 1
      BY <3>1, <3>3
    <3> QED
      BY <3>3, <3>4
  <2>3. NewerThan(t, i, j) \/ NewerThan(t, j, i)
    BY <2>1, NewerIsTotalOrder
  <2> HIDE DEF newer, T, f
  <2> QED
    BY <1>2, <1>4, <2>1, <2>2, <2>3
<1>6. f \in [T -> 1 .. n]
  BY <1>2, <1>3
<1>7. f \in Injection(T, 1 .. n)
  BY <1>5, <1>6 DEF Injection, IsInjective
<1>8. IsFiniteSet(1 .. n) /\ Cardinality(1 .. n) = n
  BY FS_Interval
<1> HIDE DEF T, f
<1>9. IsFiniteSet(T) /\ Cardinality(T) <= n
  BY <1>7, <1>8, FS_Injection
<1> QED
  BY <1>9 DEF T

\* After prune an owner keeps at most MaxRowsPerOwner rows of history.
LEMMA PruneBoundsHistory ==
    ASSUME NEW t \in Table, NEW o, NEW time
    PROVE  LET u == Prune(t, o, time) IN
           Cardinality(History(u) \cap OwnedBy(u, o)) <= MaxRowsPerOwner
<1> DEFINE t1 == PruneExpired(t, time)
           S == History(t1) \cap OwnedBy(t1, o)
           B == BeyondNewest(t1, S, MaxRowsPerOwner)
           t2 == PruneOwner(t1, o)
           t3 == PruneTotal(t2)
<1>1. t1 \in Table
  BY DeleteRows DEF PruneExpired
<1> HIDE DEF t1
<1>2. t2 \in Table /\ \A j \in Ids : t2[j] = IF j \in B THEN NoRow ELSE t1[j]
  BY <1>1, DeleteRows DEF PruneOwner
<1>3. History(t2) \cap OwnedBy(t2, o) \subseteq S \ B
  BY <1>2 DEF History, Present, Active, OwnedBy
<1>4. IsFiniteSet(S \ B) /\ Cardinality(S \ B) <= MaxRowsPerOwner
  <2>1. S \in SUBSET Present(t1)
    BY DEF OwnedBy
  <2>2. MaxRowsPerOwner \in Nat
    BY StoreAssumption
  <2> HIDE DEF S
  <2> QED
    BY <1>1, <2>1, <2>2, TrimmedToNewest
<1> HIDE DEF S, B, t2
<1>5. \A j \in Ids : t3[j] = t2[j] \/ t3[j] = NoRow
  BY <1>2, DeleteRows DEF PruneTotal
<1> HIDE DEF t3
<1>6. History(t3) \cap OwnedBy(t3, o) \subseteq History(t2) \cap OwnedBy(t2, o)
  BY <1>5 DEF History, Present, Active, OwnedBy
<1>7. /\ Cardinality(History(t3) \cap OwnedBy(t3, o)) <= Cardinality(S \ B)
      /\ Cardinality(History(t3) \cap OwnedBy(t3, o)) \in Nat
      /\ Cardinality(S \ B) \in Nat
  BY <1>3, <1>4, <1>6, FS_Subset, FS_CardinalityType
<1>8. Cardinality(History(t3) \cap OwnedBy(t3, o)) <= MaxRowsPerOwner
  BY <1>4, <1>7, StoreAssumption
<1> QED
  BY <1>8 DEF Prune, t1, t2, t3

-----------------------------------------------------------------------------
(* The bounds are invariant                                                 *)

\* Receipts and the active ones among them are finite in number.
LEMMA FiniteTable ==
    ASSUME NEW S \in SUBSET Ids
    PROVE  IsFiniteSet(S) /\ Cardinality(S) \in Nat
BY StoreAssumption, FS_Subset, FS_CardinalityType

\* A receipt that is only treated, not admitted, was present, active and the
\* same owner's before if it is so afterwards.
LEMMA TreatedStays ==
    ASSUME JournalInv, JournalInv', NEW j \in Ids, Treated(j)
    PROVE  /\ j \in Present(rows)' => j \in Present(rows) /\ rows'[j].owner = rows[j].owner
           /\ j \in Active(rows)' => j \in Active(rows)
<1>1. RowInv(j) /\ RowInv(j)'
  BY DEF JournalInv
<1>2. CASE Kept(j)
  BY <1>2 DEF Kept, Present, Active
<1>3. CASE Forgotten(j)
  BY <1>3 DEF Forgotten, Present, Active
<1>4. CASE Moved(j)
  BY <1>1, <1>4 DEF Moved, RowInv, Present, Active, Unsettled
<1> QED
  BY <1>2, <1>3, <1>4 DEF Treated


\* The bounds together: the history bound of an owner counts its active rows too.
BoundsInv ==
    /\ ActiveWithinQuota
    /\ HistoryIsBounded

\* An empty table is within every bound.
LEMMA BoundsInit == JournalInit => BoundsInv
<1> SUFFICES ASSUME JournalInit
             PROVE  BoundsInv
  OBVIOUS
<1>1. Present(rows) = {}
  BY DEF JournalInit, Present
<1>2. \A o : Active(rows) = {} /\ Active(rows) \cap OwnedBy(rows, o) = {} /\ OwnedBy(rows, o) = {}
  BY <1>1 DEF Active, OwnedBy
<1>3. Cardinality({}) = 0
  BY FS_EmptySet
<1> QED
  BY <1>2, <1>3, StoreAssumption DEF BoundsInv, ActiveWithinQuota, HistoryIsBounded

\* Shrinking sets keep their bounds.
LEMMA ShrinkingKeepsBound ==
    ASSUME NEW S \in SUBSET Ids, NEW T \in SUBSET S, NEW n \in Nat, Cardinality(S) <= n
    PROVE  Cardinality(T) <= n
<1>1. Cardinality(T) <= Cardinality(S)
  BY FiniteTable, FS_Subset
<1> QED
  BY <1>1, FiniteTable

\* One more element below the bound still meets it.
LEMMA GrowingMeetsBound ==
    ASSUME NEW S \in SUBSET Ids, NEW T \in SUBSET Ids, NEW i \in Ids,
           T \subseteq S \cup {i}, NEW n \in Nat, Cardinality(S) < n
    PROVE  Cardinality(T) <= n
<1>1. IsFiniteSet(S) /\ Cardinality(S) \in Nat
  BY FiniteTable
<1>2. IsFiniteSet(S \cup {i}) /\ Cardinality(S \cup {i}) <= Cardinality(S) + 1
        /\ Cardinality(S \cup {i}) \in Nat
  BY <1>1, FS_AddElement
<1>3. Cardinality(T) <= Cardinality(S \cup {i}) /\ Cardinality(T) \in Nat
  BY <1>2, FS_Subset, FS_CardinalityType
<1> QED
  BY <1>1, <1>2, <1>3

\* Steps that admit nothing only shrink the sets that are bounded.
LEMMA BoundsTreated ==
    ASSUME JournalInv, JournalInv', BoundsInv, \A j \in Ids : Treated(j)
    PROVE  BoundsInv'
<1>1. /\ Active(rows)' \subseteq Active(rows)
      /\ \A o : OwnedBy(rows, o)' \subseteq OwnedBy(rows, o)
  BY TreatedStays DEF Active, OwnedBy, Present
<1>2. PICK A1, A2 : A1 = Active(rows) /\ A2 = Active(rows)'
  OBVIOUS
<1>3. A1 \in SUBSET Ids /\ A2 \in SUBSET A1
  BY <1>1, <1>2 DEF Active, Present
<1>4. Cardinality(A2) <= MaxInFlightTotal
  BY <1>2, <1>3, ShrinkingKeepsBound, StoreAssumption DEF BoundsInv, ActiveWithinQuota
<1>5. ASSUME NEW o \in Owners
      PROVE  /\ Cardinality((Active(rows) \cap OwnedBy(rows, o))') <= MaxInFlightPerOwner
             /\ Cardinality(OwnedBy(rows, o)') <= MaxRowsPerOwner + MaxInFlightPerOwner
  <2>1. PICK O1, O2 : O1 = OwnedBy(rows, o) /\ O2 = OwnedBy(rows, o)'
    OBVIOUS
  <2>2. O1 \in SUBSET Ids /\ O2 \in SUBSET O1
    BY <1>1, <2>1 DEF OwnedBy, Present
  <2>3. Cardinality(A1 \cap O1) <= MaxInFlightPerOwner
    BY <1>2, <2>1 DEF BoundsInv, ActiveWithinQuota
  <2>4. Cardinality(O1) <= MaxRowsPerOwner + MaxInFlightPerOwner
    BY <2>1 DEF BoundsInv, HistoryIsBounded
  <2>5. Cardinality(A2 \cap O2) <= MaxInFlightPerOwner
    BY <1>3, <2>2, <2>3, ShrinkingKeepsBound, StoreAssumption
  <2>6. Cardinality(O2) <= MaxRowsPerOwner + MaxInFlightPerOwner
    BY <2>2, <2>4, ShrinkingKeepsBound, StoreAssumption
  <2> QED
    BY <1>2, <2>1, <2>5, <2>6
<1> QED
  BY <1>2, <1>4, <1>5 DEF BoundsInv, ActiveWithinQuota, HistoryIsBounded


\* An admission adds one receipt below the in-flight bounds, to a history that
\* prune has just trimmed.
LEMMA BoundsBegin ==
    ASSUME JournalInv, BoundsInv, NEW o \in Owners, NEW i \in Ids, NEW class \in Classes,
           Begin(o, i, class)
    PROVE  BoundsInv'
<1>1. PICK t, u : t = rows /\ u = Prune(rows, o, now)
  OBVIOUS
<1>2. PICK new : new = rows'
  OBVIOUS
<1>3. t \in Table /\ u \in Table
      /\ \A j \in Ids : u[j] = t[j] \/ (u[j] = NoRow /\ j \in History(t))
  BY <1>1, PruneForgetsHistoryOnly DEF JournalInv, JournalTypeOK
<1>4. InFlightBounds(u, o) /\ new = Insert(u, o, i, now)
  BY <1>1, <1>2 DEF Begin
<1>5. /\ new[i].owner = o
      /\ \A j \in Ids \ {i} : new[j] = u[j]
  BY <1>3, <1>4 DEF Insert, Table
<1> DEFINE act == Active(u) \cap OwnedBy(u, o)
           hist == History(u) \cap OwnedBy(u, o)
<1>6. /\ act \in SUBSET Ids /\ hist \in SUBSET Ids
      /\ Active(u) \in SUBSET Ids
      /\ act \cup hist = OwnedBy(u, o)
  BY DEF Active, History, Present, OwnedBy
<1>7. Cardinality(act) < MaxInFlightPerOwner /\ Cardinality(Active(u)) < MaxInFlightTotal
  BY <1>4 DEF InFlightBounds
<1>8. Cardinality(hist) <= MaxRowsPerOwner
  BY <1>1, PruneBoundsHistory DEF JournalInv, JournalTypeOK
<1>9. Active(new) \in SUBSET Ids /\ Active(new) \subseteq Active(u) \cup {i}
  BY <1>5 DEF Active, Present
<1>10. Cardinality(Active(new)) <= MaxInFlightTotal
  BY <1>6, <1>7, <1>9, GrowingMeetsBound, StoreAssumption
<1>11. ASSUME NEW p \in Owners
       PROVE  /\ Cardinality(Active(new) \cap OwnedBy(new, p)) <= MaxInFlightPerOwner
              /\ Cardinality(OwnedBy(new, p)) <= MaxRowsPerOwner + MaxInFlightPerOwner
  <2>1. CASE p = o
    <3>1. /\ Active(new) \cap OwnedBy(new, o) \in SUBSET Ids
          /\ Active(new) \cap OwnedBy(new, o) \subseteq act \cup {i}
      BY <1>5 DEF Active, Present, OwnedBy
    <3>2. Cardinality(Active(new) \cap OwnedBy(new, o)) <= MaxInFlightPerOwner
      BY <1>6, <1>7, <3>1, GrowingMeetsBound, StoreAssumption
    <3>3. /\ OwnedBy(new, o) \in SUBSET Ids
          /\ OwnedBy(new, o) \subseteq (act \cup hist) \cup {i}
      BY <1>5, <1>6 DEF Present, OwnedBy
    <3>4. Cardinality(act \cup hist) < MaxRowsPerOwner + MaxInFlightPerOwner
      <4> HIDE DEF act, hist
      <4>1. /\ IsFiniteSet(act) /\ Cardinality(act) \in Nat
            /\ IsFiniteSet(hist) /\ Cardinality(hist) \in Nat
            /\ Cardinality(act \cap hist) \in Nat
        BY <1>6, FiniteTable
      <4>2. Cardinality(act \cup hist)
              = Cardinality(act) + Cardinality(hist) - Cardinality(act \cap hist)
        BY <4>1, FS_Union
      <4> QED
        BY <1>7, <1>8, <4>1, <4>2, StoreAssumption
    <3>5. act \cup hist \in SUBSET Ids
      BY <1>6
    <3> HIDE DEF act, hist
    <3>6. Cardinality(OwnedBy(new, o)) <= MaxRowsPerOwner + MaxInFlightPerOwner
      BY <3>3, <3>4, <3>5, GrowingMeetsBound, StoreAssumption
    <3> QED
      BY <2>1, <3>2, <3>6
  <2>2. CASE p # o
    <3>1. /\ OwnedBy(t, p) \in SUBSET Ids
          /\ OwnedBy(new, p) \in SUBSET OwnedBy(t, p)
          /\ Active(new) \cap OwnedBy(new, p) \in SUBSET (Active(t) \cap OwnedBy(t, p))
      BY <1>3, <1>5, <2>2 DEF Active, Present, OwnedBy
    <3>2. /\ Cardinality(Active(t) \cap OwnedBy(t, p)) <= MaxInFlightPerOwner
          /\ Cardinality(OwnedBy(t, p)) <= MaxRowsPerOwner + MaxInFlightPerOwner
      BY <1>1 DEF BoundsInv, ActiveWithinQuota, HistoryIsBounded
    <3>3. Active(t) \cap OwnedBy(t, p) \in SUBSET Ids
      BY <3>1
    <3> QED
      BY <3>1, <3>2, <3>3, ShrinkingKeepsBound, StoreAssumption
  <2> QED
    BY <2>1, <2>2
<1> QED
  BY <1>2, <1>10, <1>11 DEF BoundsInv, ActiveWithinQuota, HistoryIsBounded

\* Every step preserves the bounds.
LEMMA BoundsNext == BoundsInv /\ JournalInv /\ JournalInv' /\ [JournalNext]_vars => BoundsInv'
<1> SUFFICES ASSUME BoundsInv, JournalInv, JournalInv', [JournalNext]_vars
             PROVE  BoundsInv'
  OBVIOUS
<1>1. CASE \A j \in Ids : Treated(j)
  BY <1>1, BoundsTreated
<1>2. CASE \E i \in Ids : Admitted(i)
  <2>1. PICK i \in Ids : Admitted(i)
    BY <1>2
  <2>2. ticket' # ticket
    BY <2>1 DEF Admitted
  <2>3. \E o \in Owners, k \in Ids, class \in Classes : Begin(o, k, class)
    BY <2>2
    DEF JournalNext, GuardStep, HandOver, CallReturns, CallNotConnected, StopWaiting,
        SettleMark, SettleFinish, DropMark, DropExpire, SendRequest, Execute,
        BeginRefused, ResolveReceipt, Tick, Crash, Open, vars
  <2> QED
    BY <2>3, BoundsBegin
<1> QED
  BY <1>1, <1>2, StepTreats

\* The bounds hold in every reachable state.
LEMMA BoundsInvariant == JournalSpec => []BoundsInv
BY BoundsInit, BoundsNext, JournalInvariant, PTL DEF JournalSpec

\* Active receipts stay within the admission bounds of their owner and of the
\* whole journal, crashed daemons' rows included (in_flight_bounds).
THEOREM QuotaHolds == JournalSpec => []ActiveWithinQuota
<1>1. BoundsInv => ActiveWithinQuota
  BY DEF BoundsInv
<1> QED
  BY <1>1, BoundsInvariant, PTL

\* An owner's rows never exceed its history and in-flight bounds together,
\* although history is trimmed only at admissions (prune).
THEOREM RowsPerOwnerAreBounded == JournalSpec => []HistoryIsBounded
<1>1. BoundsInv => HistoryIsBounded
  BY DEF BoundsInv
<1> QED
  BY <1>1, BoundsInvariant, PTL

=============================================================================
