----------------------------- MODULE OpJournal -----------------------------
(* Operation receipts: every bridge call admits a receipt before anything   *)
(* is sent and settles it from what was observed (enqueue_and_call in       *)
(* tdmcp-mcp/src/tools.rs, DispatchGuard in receipts.rs, PendingDispatch in *)
(* tdmcp-daemon/src/opdispatch.rs, the table in opjournal.rs).              *)
(*                                                                          *)
(* One action is one statement on the journal (each runs under the          *)
(* connection mutex) or one step of the call in between.  returned and      *)
(* PendingDispatch::drop make two journal calls each, so other callers and  *)
(* a crash can come between them.  The daemon may crash at any step and be  *)
(* started again on the same file; TouchDesigner survives it.               *)
EXTENDS ReceiptStore

CONSTANTS Batches,    \* what TouchDesigner may do with an applying request
          Classes,    \* EffectClass of the calls made
          Accounts,   \* effects a caller may report through resolve
          Faulty      \* receipts whose journal writes may fail (disk, I/O)

ASSUME CallAssumption == /\ Batches \subseteq Seq(StepFates)
                         /\ Classes \subseteq EffectClasses
                         /\ Accounts \subseteq EffectStates
                         /\ Faulty \subseteq Ids

VARIABLES
    rows,      \* the receipts table
    now,       \* now_ms
    up,        \* a daemon has the journal open
    guard,     \* where the DispatchGuard of a receipt is
    ticket,    \* owner and effect class of the call
    request,   \* how far the request got: the part no receipt can see
    work,      \* what TouchDesigner did with it
    observed   \* result the call returned

vars == <<rows, now, up, guard, ticket, request, work, observed>>

\* "held" waits for the bridge; "returned" and "marked" settle; "dropping" and
\* "expiring" are the destructor; "gone" ended; "lost" died with the daemon.
GuardPcs == {"none", "held", "returned", "marked", "dropping", "expiring",
             "gone", "lost"}
Waiting == {"held", "returned", "marked", "dropping", "expiring"}

Tickets == [owner : Owners, class : Classes]

ASSUME NoneAssumption == None \notin Tickets \cup [ok : BOOLEAN, effect : EffectStates]

\* A request is queued for the session actor, then written to TouchDesigner,
\* which runs it.
Requests == {"no", "queued", "sent", "ran"}

\* Work whose payload has no applied count.
Silent == <<"silent">>

\* What the call returned: a payload's reading, or that there was no session.
Observations == [ok : BOOLEAN, effect : EffectStates]
NotConnected == [ok |-> FALSE, effect |-> "preventedBeforeDispatch"]

JournalTypeOK ==
    /\ rows \in Table
    /\ now \in 0 .. MaxClock
    /\ up \in BOOLEAN
    /\ guard \in [Ids -> GuardPcs]
    /\ ticket \in [Ids -> Tickets \cup {None}]
    /\ request \in [Ids -> Requests]
    /\ work \in [Ids -> Batches \cup {Silent, None}]
    /\ observed \in [Ids -> Observations \cup {None}]

JournalInit ==
    /\ rows = [i \in Ids |-> NoRow]
    /\ now = 0
    /\ up = TRUE
    /\ guard = [i \in Ids |-> "none"]
    /\ ticket = [i \in Ids |-> None]
    /\ request = [i \in Ids |-> "no"]
    /\ work = [i \in Ids |-> None]
    /\ observed = [i \in Ids |-> None]

-----------------------------------------------------------------------------
(* The call                                                                 *)

\* begin: the receipt is durable before anything is handed to the bridge.
Begin(o, i, class) ==
    LET pruned == Prune(rows, o, now) IN
    /\ up
    /\ guard[i] = "none"
    /\ InFlightBounds(pruned, o)
    /\ rows' = Insert(pruned, o, i, now)
    /\ guard' = [guard EXCEPT ![i] = "held"]
    /\ ticket' = [ticket EXCEPT ![i] = [owner |-> o, class |-> class]]
    /\ UNCHANGED <<now, up, request, work, observed>>

\* A refused admission leaves no row; what prune deleted stays deleted.
BeginRefused(o) ==
    LET pruned == Prune(rows, o, now) IN
    /\ up
    /\ \E i \in Ids : guard[i] = "none"
    /\ ~InFlightBounds(pruned, o)
    /\ rows' = pruned
    /\ UNCHANGED <<now, up, guard, ticket, request, work, observed>>

\* BridgeSessions::call puts the job in the actor's mailbox.
HandOver(i) ==
    /\ guard[i] = "held"
    /\ request[i] = "no"
    /\ request' = [request EXCEPT ![i] = "queued"]
    /\ UNCHANGED <<rows, now, up, guard, ticket, work, observed>>

\* The actor writes the request, even if its caller stopped waiting meanwhile.
SendRequest(i) ==
    /\ up
    /\ request[i] = "queued"
    /\ request' = [request EXCEPT ![i] = "sent"]
    /\ UNCHANGED <<rows, now, up, guard, ticket, work, observed>>

\* TouchDesigner runs the request, whether or not a daemon is listening.
Execute(i) ==
    /\ request[i] = "sent"
    /\ request' = [request EXCEPT ![i] = "ran"]
    /\ \E outcome \in Batches \cup {Silent} : work' = [work EXCEPT ![i] = outcome]
    /\ UNCHANGED <<rows, now, up, guard, ticket, observed>>

PayloadsOf(outcome) ==
    IF outcome = Silent THEN {SilentPayload(TRUE), SilentPayload(FALSE)}
    ELSE {RunMutateSteps(outcome)}

\* The bridge answers with a payload: Ok(value) in enqueue_and_call.
CallReturns(i) ==
    /\ guard[i] = "held"
    /\ request[i] = "ran"
    /\ \E payload \in PayloadsOf(work[i]) :
         observed' = [observed EXCEPT ![i] =
            [ok |-> payload.ok, effect |-> ReadEffect(ticket[i].class, payload)]]
    /\ guard' = [guard EXCEPT ![i] = "returned"]
    /\ UNCHANGED <<rows, now, up, ticket, request, work>>

\* NotConnected or Unknown: there is no session to hand the job to.  Like every
\* transport error it drops the guard unsettled.
CallNotConnected(i) ==
    /\ guard[i] = "held"
    /\ request[i] = "no"
    /\ observed' = [observed EXCEPT ![i] = NotConnected]
    /\ guard' = [guard EXCEPT ![i] = "dropping"]
    /\ UNCHANGED <<rows, now, up, ticket, request, work>>

\* Mutant: the wait is only bounded once the request was written.
StopWaitingOnceSent(i) ==
    /\ guard[i] = "held"
    /\ request[i] \notin {"no", "queued"}
    /\ guard' = [guard EXCEPT ![i] = "dropping"]
    /\ UNCHANGED <<rows, now, up, ticket, request, work, observed>>

\* Any other transport error, the outer timeout, or the caller's future dropped:
\* the guard is dropped unsettled.  Nothing tells these apart here.
StopWaiting(i) ==
    /\ guard[i] = "held"
    /\ guard' = [guard EXCEPT ![i] = "dropping"]
    /\ UNCHANGED <<rows, now, up, ticket, request, work, observed>>

-----------------------------------------------------------------------------
(* Settling.  A failed journal call drops the PendingDispatch unsettled.    *)

\* PendingDispatch::returned, first journal call.
SettleMark(i) ==
    /\ guard[i] = "returned"
    /\ \/ /\ CanTransition(rows, ticket[i].owner, i, "admitted")
          /\ rows' = MarkDispatched(rows, i, now)
          /\ guard' = [guard EXCEPT ![i] = "marked"]
       \/ /\ ~CanTransition(rows, ticket[i].owner, i, "admitted") \/ i \in Faulty
          /\ rows' = rows
          /\ guard' = [guard EXCEPT ![i] = "dropping"]
    /\ UNCHANGED <<now, up, ticket, request, work, observed>>

\* PendingDispatch::returned, second journal call.
SettleFinish(i) ==
    /\ guard[i] = "marked"
    /\ \/ /\ CanTransition(rows, ticket[i].owner, i, "dispatched")
          /\ rows' = Finish(rows, i, observed[i].ok, observed[i].effect, now)
          /\ guard' = [guard EXCEPT ![i] = "gone"]
       \/ /\ ~CanTransition(rows, ticket[i].owner, i, "dispatched") \/ i \in Faulty
          /\ rows' = rows
          /\ guard' = [guard EXCEPT ![i] = "dropping"]
    /\ UNCHANGED <<now, up, ticket, request, work, observed>>

\* The destructor ignores the error of both of its journal calls.
DropMark(i) ==
    /\ guard[i] = "dropping"
    /\ \/ /\ CanTransition(rows, ticket[i].owner, i, "admitted")
          /\ rows' = MarkDispatched(rows, i, now)
       \/ /\ ~CanTransition(rows, ticket[i].owner, i, "admitted") \/ i \in Faulty
          /\ rows' = rows
    /\ guard' = [guard EXCEPT ![i] = "expiring"]
    /\ UNCHANGED <<now, up, ticket, request, work, observed>>

DropExpire(i) ==
    /\ guard[i] = "expiring"
    /\ \/ /\ CanTransition(rows, ticket[i].owner, i, "dispatched")
          /\ rows' = MarkWaitExpired(rows, i, now)
       \/ /\ ~CanTransition(rows, ticket[i].owner, i, "dispatched") \/ i \in Faulty
          /\ rows' = rows
    /\ guard' = [guard EXCEPT ![i] = "gone"]
    /\ UNCHANGED <<now, up, ticket, request, work, observed>>

-----------------------------------------------------------------------------
(* The caller's account, time, and the life of the daemon                   *)

ResolveReceipt(o, i, effect) ==
    /\ up
    /\ CanResolve(rows, o, i)
    /\ rows' = Resolve(rows, i, effect)
    /\ UNCHANGED <<now, up, guard, ticket, request, work, observed>>

Tick ==
    /\ now < MaxClock
    /\ now' = now + 1
    /\ UNCHANGED <<rows, up, guard, ticket, request, work, observed>>

\* The process dies: no destructor runs and queued jobs are gone with it.
Crash ==
    /\ up
    /\ up' = FALSE
    /\ guard' = [i \in Ids |-> IF guard[i] \in Waiting THEN "lost" ELSE guard[i]]
    /\ request' = [i \in Ids |-> IF request[i] = "queued" THEN "no" ELSE request[i]]
    /\ UNCHANGED <<rows, now, ticket, work, observed>>

\* open: recovery runs before the journal is handed out.
Open ==
    /\ ~up
    /\ up' = TRUE
    /\ rows' = RecoverUncertain(rows, now)
    /\ UNCHANGED <<now, guard, ticket, request, work, observed>>

GuardStep(i) ==
    \/ HandOver(i) \/ CallReturns(i) \/ CallNotConnected(i) \/ StopWaiting(i)
    \/ SettleMark(i) \/ SettleFinish(i) \/ DropMark(i) \/ DropExpire(i)

JournalNext ==
    \/ \E i \in Ids : GuardStep(i) \/ SendRequest(i) \/ Execute(i)
    \/ \E o \in Owners, i \in Ids, class \in Classes : Begin(o, i, class)
    \/ \E o \in Owners : BeginRefused(o)
    \/ \E o \in Owners, i \in Ids, effect \in Accounts : ResolveReceipt(o, i, effect)
    \/ Tick
    \/ Crash
    \/ Open

JournalSpec == JournalInit /\ [][JournalNext]_vars

\* A task that holds a guard keeps running while the daemon does, and its wait
\* is bounded by effective_bridge_timeout.  Nothing is assumed of TouchDesigner
\* or of whoever starts a daemon again.
JournalFairness == \A i \in Ids : WF_vars(GuardStep(i))

FairJournalSpec == JournalSpec /\ JournalFairness
-----------------------------------------------------------------------------
(* Properties                                                               *)

\* An effect the journal states was really established: "applied" only when
\* every step of the batch was applied, "partiallyApplied" only when some were
\* and some were not, and a known effect or a completed state only from a
\* result this daemon itself observed, never from a caller's account
\* (read_mutate_effect, PendingDispatch::returned, resolve).
HonestReceipt ==
    \A i \in Present(rows) :
        /\ rows[i].effect = "applied" =>
             work[i] \in Batches /\ AppliedAll(work[i])
        /\ rows[i].effect = "partiallyApplied" =>
             /\ work[i] \in Batches
             /\ ChangedScene(work[i]) /\ ~AppliedAll(work[i])
        /\ rows[i].effect \in {"none", "applied", "partiallyApplied"} =>
             observed[i] \in Observations \ {NotConnected}
        /\ rows[i].state = "completed" =>
             observed[i] \in [ok : {TRUE}, effect : {rows[i].effect}]

\* Callers still waiting never exceed the admission bounds, counting receipts
\* that crashed daemons left behind (in_flight_bounds).
ActiveWithinQuota ==
    /\ Cardinality(Active(rows)) <= MaxInFlightTotal
    /\ \A o \in Owners :
         Cardinality(Active(rows) \cap OwnedBy(rows, o)) <= MaxInFlightPerOwner

\* However calls settle, crash and recover between two admissions, one owner
\* never holds more rows than its history bound and its in-flight bound together
\* (prune runs only inside admit).
HistoryIsBounded ==
    \A o \in Owners :
        Cardinality(OwnedBy(rows, o)) <= MaxRowsPerOwner + MaxInFlightPerOwner

\* Once the guard of a call has run its course its receipt holds no admission
\* slot, on every path through settling and the destructor, unless a journal
\* write failed (PendingDispatch::returned, Drop for PendingDispatch).
SlotEndsWithItsGuard ==
    \A i \in Ids \ Faulty : guard[i] = "gone" => i \notin Active(rows)

\* A daemon that serves callers never shows a receipt of a crashed predecessor
\* as merely dispatched or waiting: recovery ran before it was handed out (open).
RecoveredBeforeServed ==
    up => \A i \in Present(rows) :
            guard[i] = "lost" => rows[i].state \notin {"dispatched", "waitExpired"}

\* The refinement mapping to the abstract ledger.
LedgerPhase(i) ==
    CASE ticket[i] = None -> "fresh"
      [] ticket[i] # None /\ rows[i] = NoRow -> "forgotten"
      [] rows[i] # NoRow /\ rows[i].state \in {"admitted", "dispatched"} -> "active"
      [] rows[i] # NoRow /\ rows[i].state \in {"completed", "failed", "cancelled"}
           -> "observed"
      [] rows[i] # NoRow /\ rows[i].state \in {"waitExpired", "unknownEffect"}
           -> "uncertain"

Ledger == INSTANCE ReceiptLedger WITH ledger <- [i \in Ids |-> LedgerPhase(i)]

\* The journal implements the abstract ledger: through settling, destructors,
\* pruning, caller accounts, crashes and recovery, an active receipt is never
\* forgotten, an uncertain one never turns into an observation and an
\* observation is never revised (prune, transition, recover_uncertain).
RefinesLedger == Ledger!Spec

\* Every admitted call stops holding its admission slot, or its daemon died
\* (a call whose journal writes fail may keep it).
EveryWaitEnds ==
    \A i \in Ids \ Faulty : guard[i] = "held" ~> guard[i] = "lost" \/ i \notin Active(rows)

(* What comments and docs say and the code does not do                      *)

\* "A crash after dispatch is still visible as dispatched rather than as
\* never-started": after a restart an admitted receipt was never sent.
CrashAfterDispatchIsVisible ==
    \A i \in Present(rows) :
        up /\ guard[i] = "lost" /\ rows[i].state = "admitted"
            => request[i] \notin {"sent", "ran"}

\* in_flight counts "Admitted or dispatched calls whose caller is still waiting".
InFlightHasWaiter == up => \A i \in Active(rows) : guard[i] \in Waiting

\* None: "The operation ran and verified that it made no externally visible change."
NoneMeansUnchanged ==
    \A i \in Present(rows) :
        rows[i].effect = "none" => work[i] \in Batches /\ ~ChangedScene(work[i])
=============================================================================
