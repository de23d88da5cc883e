----------------------------- MODULE TaskQueue -----------------------------
(* The per-pid task queue of tdmcp-core (task_queue.rs).                    *)
(*                                                                          *)
(* A queue is the pair of the pending FIFO and the in-flight head.  In the  *)
(* code a task is only a label (name, exclusive flag): nothing ties a slot  *)
(* to the call that asked for it.  Here a task is the identity of the call, *)
(* so that properties can say whose slot an operation touched; no operation *)
(* below looks at that identity, exactly as in the code.                    *)
EXTENDS Naturals, Sequences

CONSTANT None      \* Rust's Option::None

TaskQueue(Tasks) == [pending : Seq(Tasks), inFlight : Tasks \cup {None}]

NewQueue == [pending |-> <<>>, inFlight |-> None]

QueueLen(q) == Len(q.pending) + (IF q.inFlight = None THEN 0 ELSE 1)

QueueEmpty(q) == QueueLen(q) = 0

\* Exclusive enqueue is refused (queue_busy) unless the queue is empty.
CanEnqueueExclusive(q) == QueueEmpty(q)

PushTask(q, t) == [q EXCEPT !.pending = Append(@, t)]

\* Promote the head of the FIFO, unless something is already in flight.
StartNextTask(q) ==
    IF q.inFlight # None \/ q.pending = <<>>
    THEN q
    ELSE [pending |-> Tail(q.pending), inFlight |-> Head(q.pending)]

\* Completing takes whatever is in flight; it is an error, and no change,
\* when nothing is.
CompleteInFlight(q) == [q EXCEPT !.inFlight = None]

\* cancel_all returns the in-flight task first, then the pending ones.
CancelledBy(q) ==
    (IF q.inFlight = None THEN <<>> ELSE <<q.inFlight>>) \o q.pending

\* The tasks that hold a slot, wherever they are in the queue.
Slots(q) == {q.pending[i] : i \in 1..Len(q.pending)}
              \cup ({q.inFlight} \ {None})
=============================================================================
