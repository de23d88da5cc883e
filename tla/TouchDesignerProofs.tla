------------------------ MODULE TouchDesignerProofs ------------------------
(* The bridge inside TouchDesigner, for every number of connections,       *)
(* requests, jobs and clicks: what is queued for the main thread is waited *)
(* for, a timed job drives the process while it owns it, and batches,      *)
(* panels and scripts leave what the caller is told.                       *)
EXTENDS BridgeRuntime, TimedJobs, EditTools, Integers, FiniteSetTheorems, FunctionTheorems,
        SequenceTheorems, TLAPS

-----------------------------------------------------------------------------
(* The queue between the workers and the main thread.                      *)

MainOK ==
    main \in {Idle} \cup [at : {"dispatch"}, req : ran]
                    \cup [at : {"join", "await"}, of : Sessions, then : {"off", "again"}]

\* The flags of the face and of the tox.
RuntimeFlags ==
    /\ connect \in BOOLEAN /\ autoconnect \in BOOLEAN /\ playing \in BOOLEAN
    /\ prevConnect \in BOOLEAN /\ polls \in BOOLEAN /\ backoff \in BOOLEAN /\ daemonUp \in BOOLEAN
    /\ scheduled \in BOOLEAN

RuntimeTypes ==
    /\ worker \in [Sessions -> {"new", "reading", "waiting", "overdue", "exited"}]
    /\ open \in [Sessions -> BOOLEAN] /\ leaving \in [Sessions -> BOOLEAN]
    /\ active \in Sessions \cup {None} /\ draining \in Sessions \cup {None}
    /\ current \in Sessions \cup {None} /\ serves \in Sessions \cup {None}
    /\ chain \in [Sessions -> Nat]
    /\ queue \in [Sessions -> Requests \cup {None}] /\ holds \in [Sessions -> Requests \cup {None}]
    /\ slot \in [Requests -> {"empty", "result", "cancelled"}]
    /\ abandoned \subseteq Requests /\ ran \subseteq Requests
    /\ told \in [Requests -> {"nothing", "sent", "result", "cancelled", "timeout", "lost"}]
    /\ died \in 0 .. MaxDeaths /\ clicks \in 0 .. MaxClicks

\* A worker waits for the request it holds, and no two wait for the same one.
HoldersWait ==
    /\ \A w \in Sessions : holds[w] # None <=> worker[w] \in {"waiting", "overdue"}
    /\ \A w \in Sessions : holds[w] # None => told[holds[w]] = "sent"
    /\ \A v, w \in Sessions : holds[v] # None /\ holds[v] = holds[w] => v = w

\* What is queued is its worker's, has no answer yet and did not run.
QueuedIsHeld ==
    \A w \in Sessions : queue[w] # None =>
        holds[w] = queue[w] /\ queue[w] \notin ran /\ slot[queue[w]] = "empty"

\* What never reached the main thread has no result, and what was cancelled never will.
CancelledNeverRan ==
    \A r \in Requests :
        /\ told[r] = "nothing" => r \notin ran /\ slot[r] = "empty"
        /\ slot[r] = "cancelled" => r \notin ran
        /\ told[r] = "cancelled" => r \notin ran

RuntimeInv ==
    RuntimeTypes /\ MainOK /\ RuntimeFlags /\ HoldersWait /\ QueuedIsHeld /\ CancelledNeverRan

LEMMA RuntimeInitInv == RuntimeInit => RuntimeInv
<1> SUFFICES ASSUME RuntimeInit PROVE RuntimeInv
  OBVIOUS
<1>1. RuntimeFlags
  BY DEF RuntimeInit, RuntimeFlags
<1>2. RuntimeTypes /\ MainOK
  BY RuntimeAssumption DEF RuntimeInit, RuntimeTypes, MainOK, Idle
<1>3. HoldersWait /\ QueuedIsHeld /\ CancelledNeverRan
  BY DEF RuntimeInit, HoldersWait, QueuedIsHeld, CancelledNeverRan
<1> QED
  BY <1>1, <1>2, <1>3 DEF RuntimeInv

\* A worker: what it takes up was never told anything, what it gives up it forgets.
LEMMA WorkerKeepsInv ==
    ASSUME RuntimeInv, NEW w \in Sessions, Worker(w)
    PROVE  RuntimeInv'
<1> USE RuntimeAssumption
    DEF RuntimeInv, RuntimeTypes, MainOK, RuntimeFlags, HoldersWait, QueuedIsHeld,
        CancelledNeverRan, Reading, package, requests, face, tox, outside
<1>1. CASE WorkerReads(w)
  BY <1>1 DEF WorkerReads
<1>2. CASE WorkerStops(w)
  BY <1>2 DEF WorkerStops
<1>3. CASE WorkerAnswers(w)
  BY <1>3 DEF WorkerAnswers, Write
<1>4. CASE WorkerGivesUp(w)
  BY <1>4 DEF WorkerGivesUp
<1>5. CASE WorkerAbandons(w)
  BY <1>5 DEF WorkerAbandons, Write, Abandon
<1> QED
  BY <1>1, <1>2, <1>3, <1>4, <1>5 DEF Worker

\* What a change of the flags alone, or of nothing the queue depends on, leaves.
Unqueued == UNCHANGED <<worker, holds, queue, slot, ran, told>>

LEMMA UnqueuedKeeps ==
    ASSUME HoldersWait, QueuedIsHeld, CancelledNeverRan, Unqueued
    PROVE  (HoldersWait /\ QueuedIsHeld /\ CancelledNeverRan)'
BY DEF Unqueued, HoldersWait, QueuedIsHeld, CancelledNeverRan

\* The main thread takes what is queued: from here on it ran.
LEMMA TakeKeeps ==
    ASSUME RuntimeInv, NEW w \in Sessions, Take(w), UNCHANGED <<threads, slot, told>>
    PROVE  /\ queue' \in [Sessions -> Requests \cup {None}] /\ ran' \subseteq Requests
           /\ (MainOK /\ HoldersWait /\ QueuedIsHeld /\ CancelledNeverRan)'
<1> USE DEF RuntimeInv, RuntimeTypes, Take, threads
<1>1. /\ queue' \in [Sessions -> Requests \cup {None}] /\ ran' \subseteq Requests
      /\ MainOK'
  BY DEF MainOK
<1>2. HoldersWait'
  BY DEF HoldersWait
<1>3. QueuedIsHeld'
  BY DEF QueuedIsHeld, HoldersWait
<1>4. CancelledNeverRan'
  BY DEF CancelledNeverRan, QueuedIsHeld, HoldersWait
<1> QED
  BY <1>1, <1>2, <1>3, <1>4

LEMMA PumpKeepsInv ==
    ASSUME RuntimeInv, NEW w \in Sessions, Pump(w)
    PROVE  RuntimeInv'
<1> USE DEF RuntimeInv, RuntimeTypes
<1>1. CASE PumpTakes(w)
  BY <1>1, TakeKeeps DEF PumpTakes, RuntimeFlags, threads, package, face, tox, outside
<1>2. CASE PumpTurns(w)
  <2> DEFINE ended == [chain EXCEPT ![w] = @ - 1]
  <2>1. ended \in [Sessions -> Nat]
    BY <1>2 DEF PumpTurns
  <2>2. chain' \in [Sessions -> Nat]
    <3>1. CASE Connected
      BY <1>2, <2>1, <3>1 DEF PumpTurns, Connected
    <3>2. CASE ~Connected
      BY <1>2, <2>1, <3>2 DEF PumpTurns
    <3> QED
      BY <3>1, <3>2
  <2>3. scheduled' \in BOOLEAN
    BY <1>2 DEF PumpTurns, RuntimeFlags
  <2>4. UNCHANGED <<threads, active, draining, current, queue, requests, main, face, clicks, tox, outside>>
    BY <1>2 DEF PumpTurns
  <2> QED
    BY <2>2, <2>3, <2>4, UnqueuedKeeps
       DEF Unqueued, threads, requests, face, tox, outside, RuntimeFlags, MainOK
<1> QED
  BY <1>1, <1>2 DEF Pump

\* A dial makes a worker of a connection that nobody has used, which holds nothing; a
\* reload in place may clear a queue meanwhile.
LEMMA DialKeeps ==
    ASSUME RuntimeInv, NEW w \in Sessions, NEW keep \in Nat, Dial(w, keep),
           \A v \in Sessions : queue'[v] \in {queue[v], None},
           UNCHANGED <<holds, slot, ran, told>>
    PROVE  /\ worker' \in [Sessions -> {"new", "reading", "waiting", "overdue", "exited"}]
           /\ open' \in [Sessions -> BOOLEAN] /\ chain' \in [Sessions -> Nat]
           /\ {active', current', draining', serves'} \subseteq Sessions \cup {None}
           /\ scheduled' \in BOOLEAN
           /\ (HoldersWait /\ QueuedIsHeld /\ CancelledNeverRan)'
<1> USE DEF RuntimeInv, RuntimeTypes
<1>1. worker' \in [Sessions -> {"new", "reading", "waiting", "overdue", "exited"}]
  BY DEF Dial
<1>2. open' \in [Sessions -> BOOLEAN]
  BY DEF Dial
<1>3. chain' \in [Sessions -> Nat]
  BY DEF Dial
<1>4. {active', current', draining', serves'} \subseteq Sessions \cup {None}
  BY DEF Dial, Recover
<1>5. (HoldersWait /\ QueuedIsHeld /\ CancelledNeverRan)'
  BY DEF Dial, Fresh, HoldersWait, QueuedIsHeld, CancelledNeverRan
<1>6. scheduled' \in BOOLEAN
  BY DEF Dial
<1> QED
  BY <1>1, <1>2, <1>3, <1>4, <1>5, <1>6

LEMMA BootstrapKeeps ==
    ASSUME RuntimeInv, RunBootstrap
    PROVE  /\ RuntimeTypes' /\ backoff' = TRUE /\ scheduled' \in BOOLEAN
           /\ (HoldersWait /\ QueuedIsHeld /\ CancelledNeverRan)'
<1>1. CASE DialFails
  BY <1>1, UnqueuedKeeps
     DEF DialFails, RunBootstrap, RuntimeInv, RuntimeTypes, Recover, requests, Unqueued
<1>2. CASE \E w \in Sessions : Dial(w, 0)
  BY <1>2, DialKeeps DEF RunBootstrap, RuntimeInv, RuntimeTypes, requests
<1> QED
  BY <1>1, <1>2 DEF RunBootstrap

\* disconnect() forgets the session and leaves its worker to find the closed stream.
LEMMA DisconnectKeepsInv ==
    ASSUME RuntimeInv, Connected, NEW then \in {"off", "again"},
           main' = [at |-> "join", of |-> active, then |-> then],
           active' = None, open' = [open EXCEPT ![active] = FALSE],
           UNCHANGED <<worker, leaving, holds, draining, current, scheduled, chain, queue,
                       requests, outside, polls, backoff, autoconnect, playing>>,
           clicks' \in 0 .. MaxClicks, connect' \in BOOLEAN, prevConnect' \in BOOLEAN
    PROVE  RuntimeInv'
<1> USE DEF RuntimeInv, RuntimeTypes, requests, outside
<1>1. active \in Sessions
  BY DEF Connected
<1>2. MainOK'
  BY <1>1 DEF MainOK
<1>3. RuntimeFlags'
  BY DEF RuntimeFlags
<1> QED
  BY <1>1, <1>2, <1>3, UnqueuedKeeps DEF Unqueued

LEMMA FrameKeepsInv == ASSUME RuntimeInv, Frame PROVE RuntimeInv'
<1> USE DEF RuntimeInv, RuntimeTypes
<1>0. prevConnect' = connect /\ prevConnect' \in BOOLEAN
  BY DEF Frame, RuntimeFlags
<1>1. CASE ~connect /\ Connected /\ Disconnect("off")
  <2>1. clicks' \in 0 .. MaxClicks /\ connect' \in BOOLEAN
    BY <1>1 DEF Disconnect, face, RuntimeFlags
  <2> QED
    BY <1>0, <1>1, <2>1, DisconnectKeepsInv DEF Disconnect, face
<1>2. CASE RunBootstrap /\ UNCHANGED polls
  <2>1. UNCHANGED <<requests, main, face, clicks, daemonUp, died>>
    BY <1>2 DEF RunBootstrap
  <2>2. MainOK'
    BY <2>1 DEF MainOK, requests
  <2>3. RuntimeFlags'
    BY <1>0, <1>2, <2>1, BootstrapKeeps DEF RuntimeFlags, face
  <2> QED
    BY <1>2, <2>2, <2>3, BootstrapKeeps
<1>3. CASE /\ connect /\ Connected
           /\ Take(active)
           /\ UNCHANGED <<threads, package, chain, slot, abandoned, told, face, clicks,
                          polls, backoff, outside>>
  <2>1. RuntimeFlags'
    BY <1>0, <1>3 DEF RuntimeFlags, package, face, outside
  <2>2. active \in Sessions
    BY <1>3 DEF Connected
  <2> QED
    BY <1>3, <2>1, <2>2, TakeKeeps DEF threads, package, face, outside
<1>4. CASE UNCHANGED <<threads, package, chain, queue, requests, main, face, clicks,
                       polls, backoff, outside>>
  <2>1. RuntimeFlags'
    BY <1>0, <1>4 DEF RuntimeFlags, package, face, outside
  <2>2. MainOK'
    BY <1>4 DEF MainOK, requests
  <2> QED
    BY <1>4, <2>1, <2>2, UnqueuedKeeps DEF Unqueued, threads, requests, package, outside
<1> QED
  BY <1>1, <1>2, <1>3, <1>4 DEF Frame

LEMMA WatchdogKeepsInv == ASSUME RuntimeInv, Watchdog PROVE RuntimeInv'
<1> USE DEF RuntimeInv, RuntimeTypes
<1>0. polls' \in BOOLEAN /\ prevConnect' \in BOOLEAN
  BY DEF Watchdog, RuntimeFlags
<1>1. CASE RunBootstrap
  <2>1. UNCHANGED <<requests, main, face, clicks, daemonUp, died>>
    BY <1>1 DEF RunBootstrap
  <2>2. MainOK'
    BY <2>1 DEF MainOK, requests
  <2>3. RuntimeFlags'
    BY <1>0, <1>1, <2>1, BootstrapKeeps DEF RuntimeFlags, face
  <2> QED
    BY <1>1, <2>2, <2>3, BootstrapKeeps
<1>2. CASE UNCHANGED <<threads, package, chain, queue, requests, main, face, clicks, backoff, outside>>
  <2>1. RuntimeFlags'
    BY <1>0, <1>2 DEF RuntimeFlags, package, face, outside
  <2>2. MainOK'
    BY <1>2 DEF MainOK, requests
  <2> QED
    BY <1>2, <2>1, <2>2, UnqueuedKeeps DEF Unqueued, threads, requests, package, outside
<1> QED
  BY <1>1, <1>2 DEF Watchdog

\* The end of a dispatch, of a join and of the wait of a reconnect.
LEMMA MainKeepsInv ==
    ASSUME RuntimeInv, DispatchEnds \/ JoinReturns \/ Reconnects
    PROVE  RuntimeInv'
<1> USE DEF RuntimeInv, RuntimeTypes
<1>1. CASE DispatchEnds
  <2>1. main.req \in ran
    BY <1>1 DEF DispatchEnds, MainOK, Idle
  <2>2. RuntimeFlags' /\ MainOK'
    BY <1>1 DEF DispatchEnds, MainOK, RuntimeFlags, package, face, tox, outside
  <2> QED
    BY <1>1, <2>1, <2>2
       DEF DispatchEnds, Deliver, HoldersWait, QueuedIsHeld, CancelledNeverRan, threads, package, outside
<1>2. CASE JoinReturns
  <2>1. /\ main \in [at : {"join"}, of : Sessions, then : {"off", "again"}]
        /\ main.of \in Sessions
    BY <1>2 DEF JoinReturns, MainOK, Idle
  <2>3. MainOK'
    BY <1>2, <2>1 DEF JoinReturns, MainOK, AfterJoin
  <2>2. RuntimeFlags'
    BY <1>2 DEF JoinReturns, RuntimeFlags, face, tox, outside
  <2> QED
    BY <1>2, <2>1, <2>3, <2>2, UnqueuedKeeps DEF JoinReturns, Unqueued, requests, outside
<1>3. CASE Reconnects
  <2>1. MainOK'
    BY <1>3 DEF Reconnects, MainOK
  <2>2. UNCHANGED <<leaving, holds, requests, face, clicks, tox, daemonUp, died>>
    BY <1>3 DEF Reconnects
  <2>3. /\ queue' \in [Sessions -> Requests \cup {None}]
        /\ \A v \in Sessions : queue'[v] \in {queue[v], None}
    BY <1>3 DEF Reconnects
  <2>4. (IF current = None THEN 0 ELSE chain[current]) \in Nat
    OBVIOUS
  <2>5. CASE \E w \in Sessions : Dial(w, IF current = None THEN 0 ELSE chain[current])
    <3>1. PICK w \in Sessions : Dial(w, IF current = None THEN 0 ELSE chain[current])
      BY <2>5
    <3>2. RuntimeFlags'
      BY <2>2, <2>3, <2>4, <3>1, DialKeeps DEF RuntimeFlags, requests, face, tox
    <3> QED
      BY <2>1, <2>2, <2>3, <2>4, <3>1, <3>2, DialKeeps DEF requests
  <2>6. CASE /\ ~daemonUp
             /\ active' = None /\ scheduled' = FALSE
             /\ Recover(Sessions)
             /\ UNCHANGED <<worker, open, serves, chain, current>>
    <3>1. RuntimeFlags'
      BY <2>2, <2>6 DEF RuntimeFlags, face, tox
    <3> QED
      BY <2>1, <2>2, <2>3, <2>6, <3>1
         DEF Recover, requests, HoldersWait, QueuedIsHeld, CancelledNeverRan
  <2> QED
    BY <1>3, <2>5, <2>6 DEF Reconnects
<1> QED
  BY <1>1, <1>2, <1>3

\* What comes from outside: pulses, clicks, a script, the daemon's end and start.
LEMMA OutsideKeepsInv ==
    ASSUME RuntimeInv,
           FrameCancels \/ ScriptReconnects \/ UserClicks \/ DaemonDies \/ DaemonStarts \/ BackoffEnds
    PROVE  RuntimeInv'
<1> USE RuntimeAssumption DEF RuntimeInv, RuntimeTypes
<1>1. CASE FrameCancels
  <2>1. RuntimeFlags' /\ MainOK'
    BY <1>1 DEF FrameCancels, MainOK, RuntimeFlags, package, face, tox, outside
  <2> QED
    BY <1>1, <2>1
       DEF FrameCancels, Deliver, HoldersWait, QueuedIsHeld, CancelledNeverRan, threads, package, outside
<1>2. CASE ScriptReconnects
  <2>1. /\ UNCHANGED <<polls, backoff, autoconnect, playing, connect, prevConnect>>
        /\ clicks' \in 0 .. MaxClicks
    BY <1>2 DEF ScriptReconnects, face, tox
  <2>2. connect' \in BOOLEAN /\ prevConnect' \in BOOLEAN
    BY <2>1 DEF RuntimeFlags
  <2> QED
    BY <1>2, <2>1, <2>2, DisconnectKeepsInv DEF ScriptReconnects
<1>3. CASE UserClicks
  <2>1. RuntimeFlags'
    BY <1>3 DEF UserClicks, RuntimeFlags, package, tox, outside
  <2>2. MainOK' /\ clicks' \in 0 .. MaxClicks
    BY <1>3 DEF UserClicks, MainOK, requests
  <2> QED
    BY <1>3, <2>1, <2>2, UnqueuedKeeps DEF UserClicks, Unqueued, threads, package, requests, outside
<1>4. CASE DaemonDies
  <2>1. RuntimeFlags' /\ MainOK'
    BY <1>4 DEF DaemonDies, RuntimeFlags, MainOK, package, requests, face, tox
  <2> QED
    BY <1>4, <2>1, UnqueuedKeeps DEF DaemonDies, Unqueued, package, requests
<1>5. CASE DaemonStarts \/ BackoffEnds
  <2>1. RuntimeFlags'
    BY <1>5 DEF DaemonStarts, BackoffEnds, RuntimeFlags, package, face, tox, outside
  <2>2. MainOK'
    BY <1>5 DEF DaemonStarts, BackoffEnds, MainOK, requests
  <2> QED
    BY <1>5, <2>1, <2>2, UnqueuedKeeps
       DEF DaemonStarts, BackoffEnds, Unqueued, threads, package, requests, outside
<1> QED
  BY <1>1, <1>2, <1>3, <1>4, <1>5

LEMMA RuntimeStepInv == RuntimeInv /\ [RuntimeNext]_runtimeVars => RuntimeInv'
<1>1. ASSUME RuntimeInv, UNCHANGED runtimeVars PROVE RuntimeInv'
  BY <1>1 DEF runtimeVars, RuntimeInv, RuntimeTypes, MainOK, RuntimeFlags, HoldersWait, QueuedIsHeld,
              CancelledNeverRan, threads, package, requests, face, tox, outside
<1> QED
  BY <1>1, WorkerKeepsInv, PumpKeepsInv, FrameKeepsInv, WatchdogKeepsInv, MainKeepsInv, OutsideKeepsInv
     DEF RuntimeNext, MainThread

\* Whatever the daemon, the user and the package do to a bridge, what is queued for the
\* main thread has its worker waiting, and what was told cancelled is never run.
THEOREM QueuedIsAlwaysAwaited == RuntimeSpec => []QueuedIsAwaited
<1>1. ASSUME RuntimeInv PROVE QueuedIsAwaited
  <2>1. RuntimeTypeOK
    <3>1. \A b \in {connect, autoconnect, playing, prevConnect, polls, backoff, daemonUp} : b \in BOOLEAN
      BY <1>1 DEF RuntimeInv, RuntimeFlags
    <3>2. \/ main = Idle
          \/ main.at = "dispatch" /\ main.req \in Requests
          \/ main.at \in {"join", "await"} /\ main.of \in Sessions /\ main.then \in {"off", "again"}
      BY <1>1 DEF RuntimeInv, RuntimeTypes, MainOK
    <3>3. scheduled \in BOOLEAN
      BY <1>1 DEF RuntimeInv, RuntimeFlags
    <3> QED
      BY <1>1, <3>1, <3>2, <3>3 DEF RuntimeInv, RuntimeTypes, RuntimeTypeOK
  <2> QED
    BY <1>1, <2>1 DEF QueuedIsAwaited, RuntimeInv, RuntimeTypes, HoldersWait, QueuedIsHeld,
                      CancelledNeverRan, Alive
<1> QED
  BY <1>1, RuntimeInitInv, RuntimeStepInv, PTL DEF RuntimeSpec

-----------------------------------------------------------------------------
(* Timed jobs.                                                             *)

Distinct(s) == \A i, k \in DOMAIN s : s[i] = s[k] => i = k

Members(s) == {s[i] : i \in DOMAIN s}

\* t is s without what was at i.
Dropped(s, i, t) ==
    /\ Len(t) = Len(s) - 1
    /\ \A k \in 1 .. Len(t) : t[k] = IF k < i THEN s[k] ELSE s[k + 1]

LEMMA DropOne ==
    ASSUME NEW S, NEW s \in Seq(S), Distinct(s), NEW i \in DOMAIN s,
           NEW t \in Seq(S), Dropped(s, i, t)
    PROVE  Distinct(t) /\ Members(t) = Members(s) \ {s[i]}
<1> USE DEF Dropped
<1>1. i \in 1 .. Len(s) /\ DOMAIN s = 1 .. Len(s) /\ Len(s) - 1 \in Nat
  OBVIOUS
<1>2. DOMAIN t = 1 .. Len(s) - 1 /\ \A k \in DOMAIN t : t[k] = IF k < i THEN s[k] ELSE s[k + 1]
  BY <1>1
<1>5. Distinct(t)
  BY <1>1, <1>2 DEF Distinct
<1>6. \A k \in DOMAIN t : t[k] \in Members(s) \ {s[i]}
  BY <1>1, <1>2 DEF Distinct, Members
<1>7. ASSUME NEW k \in DOMAIN s, k # i PROVE s[k] \in Members(t)
  <2>1. CASE k < i
    <3>1. k \in DOMAIN t /\ t[k] = s[k]
      BY <1>1, <1>2, <2>1
    <3> QED
      BY <3>1 DEF Members
  <2>2. CASE ~(k < i)
    <3>1. k - 1 \in DOMAIN t /\ t[k - 1] = s[k]
      BY <1>1, <1>2, <1>7, <2>2
    <3> QED
      BY <3>1 DEF Members
  <2> QED
    BY <2>1, <2>2
<1>8. Members(t) \subseteq Members(s) \ {s[i]}
  BY <1>6 DEF Members
<1>9. Members(s) \ {s[i]} \subseteq Members(t)
  <2> HIDE DEF Members
  <2>1. ASSUME NEW x \in Members(s), x # s[i] PROVE \E k \in DOMAIN s : k # i /\ s[k] = x
    BY <2>1 DEF Members
  <2> QED
    BY <1>7, <2>1
<1> QED
  BY <1>5, <1>8, <1>9

LEMMA DropFirst ==
    ASSUME NEW S, NEW s \in Seq(S), Distinct(s), s # <<>>
    PROVE  /\ Tail(s) \in Seq(S) /\ Len(Tail(s)) = Len(s) - 1 /\ Distinct(Tail(s))
           /\ Members(Tail(s)) = Members(s) \ {Head(s)}
<1>1. /\ Tail(s) \in Seq(S) /\ Len(Tail(s)) = Len(s) - 1 /\ Head(s) = s[1] /\ 1 \in DOMAIN s
      /\ \A k \in DOMAIN Tail(s) : Tail(s)[k] = s[k + 1] /\ k + 1 \in DOMAIN s
  OBVIOUS
<1>2. Distinct(Tail(s))
  BY <1>1 DEF Distinct
<1>3. \A k \in DOMAIN Tail(s) : Tail(s)[k] \in Members(s) \ {s[1]}
  BY <1>1 DEF Distinct, Members
<1>4. ASSUME NEW k \in DOMAIN s, k # 1 PROVE s[k] \in Members(Tail(s))
  <2>1. k - 1 \in DOMAIN Tail(s) /\ Tail(s)[k - 1] = s[k]
    BY <1>4
  <2> QED
    BY <2>1 DEF Members
<1> QED
  BY <1>1, <1>2, <1>3, <1>4 DEF Members

LEMMA AddLast ==
    ASSUME NEW S, NEW s \in Seq(S), Distinct(s), NEW x \in S, x \notin Members(s)
    PROVE  /\ Append(s, x) \in Seq(S) /\ Len(Append(s, x)) = Len(s) + 1 /\ Distinct(Append(s, x))
           /\ Members(Append(s, x)) = Members(s) \cup {x}
<1>1. /\ Append(s, x) \in Seq(S) /\ Len(Append(s, x)) = Len(s) + 1
      /\ \A k \in DOMAIN Append(s, x) : Append(s, x)[k] = IF k \in DOMAIN s THEN s[k] ELSE x
      /\ DOMAIN Append(s, x) = DOMAIN s \cup {Len(s) + 1}
  OBVIOUS
<1>2. Distinct(Append(s, x))
  BY <1>1 DEF Distinct, Members
<1> QED
  BY <1>1, <1>2 DEF Members

JobTypes ==
    /\ owner \in Jobs \cup {None}
    /\ jst \in [Jobs -> JobStates] /\ final \in [Jobs -> JobTerminal \cup {"undefined"}]
    /\ warm \in [Jobs -> Nat] /\ progress \in [Jobs -> Nat]
    /\ movie \in [Jobs -> {"none", "recording", "flushing"}]
    /\ recorded \in [Jobs -> BOOLEAN] /\ folder \in [Jobs -> BOOLEAN] /\ artifact \in [Jobs -> BOOLEAN]
    /\ callbacks \in [Jobs -> SUBSET Phases]
    /\ original \in [Jobs -> [play : BOOLEAN, realTime : BOOLEAN]]
    /\ touches \in 0 .. MaxTouches

JobFlags ==
    /\ play \in BOOLEAN /\ realTime \in BOOLEAN /\ wanted \in BOOLEAN
    /\ disturbed \in BOOLEAN /\ sourceGone \in BOOLEAN /\ bridgeUp \in BOOLEAN

KeptOK ==
    /\ kept \in Seq(Jobs) /\ Len(kept) <= MaxJobs /\ Distinct(kept)
    /\ \A j \in Jobs : jst[j] = "new" => j \notin Kept /\ ~artifact[j]

\* Who is under way owns the process, and the other way round; the callbacks of a running
\* job are a chain of one, and those of a finalizing one end in close().
Driven ==
    \A j \in Jobs :
        /\ owner = j <=> jst[j] \in {"running", "finalizing", "cleanup_failed"}
        /\ owner = j => j \in Kept
        /\ jst[j] = "finalizing" => callbacks[j] \cap {"close", "verify"} # {}
        /\ jst[j] = "running" =>
              \E p \in Phases : /\ callbacks[j] = {p}
                                /\ p \in {"advance", "sample"} => progress[j] < LastSample[j]
                                /\ p = "initialized" => warm[j] > 0
        /\ progress[j] <= LastSample[j]

\* Nothing is left behind: the files are those of a kept job, and a recorder that of the
\* owner, which knows the user's setting.
Tidy ==
    /\ owner = None => realTime = wanted
    /\ \A j \in Jobs :
          /\ owner = j => original[j].realTime = wanted
          /\ movie[j] # "none" => owner = j /\ folder[j]
          /\ folder[j] => j \in Kept
          /\ j \in Kept /\ artifact[j] => folder[j]

JobInv == JobTypes /\ JobFlags /\ KeptOK /\ Driven /\ Tidy

LEMMA JobInitInv == JobInit => JobInv
<1> SUFFICES ASSUME JobInit PROVE JobInv
  OBVIOUS
<1>1. JobFlags
  BY DEF JobInit, JobFlags
<1>2. JobTypes
  BY JobsAssumption DEF JobInit, JobTypes, JobStates, JobTerminal
<1>3. KeptOK
  BY JobsAssumption DEF JobInit, KeptOK, Distinct, Kept
<1>4. Driven
  BY JobsAssumption DEF JobInit, Driven
<1>5. realTime = wanted
  BY DEF JobInit
<1>6. Tidy
  BY <1>5, JobsAssumption DEF JobInit, Tidy
<1> QED
  BY <1>1, <1>2, <1>3, <1>4, <1>6 DEF JobInv

\* close() of the owner, on whatever way: the recorder is switched off, waited for, or the
\* job gives everything back.
LEMMA CloseKeepsInv ==
    ASSUME JobInv, NEW j \in Jobs, owner = j, NEW t \in JobTerminal \cup {"undefined"},
           NEW cb \in [Jobs -> SUBSET Phases],
           \A i \in Jobs : i # j => cb[i] = callbacks[i],
           jst[j] = "running" => cb[j] = {},
           Close(j, t, cb) \/ CloseEnds(j, t, TRUE),
           UNCHANGED <<kept, original, wanted, sourceGone, bridgeUp, touches>>
    PROVE  JobInv'
<1> USE JobsAssumption DEF JobInv, JobTypes
<1>0. "verify" \in Phases /\ "close" \in Phases /\ Kept' = Kept
  BY DEF Phases, Kept
<1>1. CASE CloseRecordsOff(j, cb)
  <2>1. JobFlags'
    BY <1>1 DEF CloseRecordsOff, JobFlags, transport
  <2>2. JobTypes' /\ KeptOK'
    BY <1>0, <1>1 DEF CloseRecordsOff, Schedule, KeptOK
  <2>3. Driven'
    BY <1>0, <1>1 DEF CloseRecordsOff, Schedule, Driven
  <2>4. Tidy'
    BY <1>0, <1>1 DEF CloseRecordsOff, Tidy, transport
  <2> QED
    BY <2>1, <2>2, <2>3, <2>4
<1>2. CASE CloseWaits(j, cb)
  <2>1. JobFlags'
    BY <1>2 DEF CloseWaits, JobFlags, transport
  <2>2. JobTypes' /\ KeptOK'
    BY <1>0, <1>2 DEF CloseWaits, Schedule, KeptOK, job
  <2>3. Driven'
    BY <1>0, <1>2 DEF CloseWaits, Schedule, Driven, job
  <2>4. Tidy'
    BY <1>0, <1>2 DEF CloseWaits, Tidy, transport, job
  <2> QED
    BY <2>1, <2>2, <2>3, <2>4
<1>3. ASSUME NEW immediate \in BOOLEAN, CloseEnds(j, t, immediate) PROVE JobInv'
  <2>1. PICK verified \in BOOLEAN, destroyed \in BOOLEAN :
           CloseCleansUp(j, t, immediate, verified, destroyed)
    BY <1>3 DEF CloseEnds
  <2> DEFINE recording == movie[j] # "none" /\ recorded[j] /\ ~immediate
             verdict == IF (recording /\ ~verified) \/ sourceGone THEN "failed" ELSE t
             clean == movie[j] = "none" \/ destroyed
  <2>2. verdict \in JobTerminal \cup {"undefined"}
    BY DEF JobTerminal
  <2>3. /\ artifact' = [artifact EXCEPT ![j] = @ \/ (recording /\ verified)]
        /\ movie' = [movie EXCEPT ![j] = IF clean THEN "none" ELSE "flushing"]
        /\ ReturnTransport(j, verdict)
        /\ jst' = [jst EXCEPT ![j] = IF clean THEN verdict ELSE "cleanup_failed"]
        /\ owner' = IF clean /\ owner = j THEN None ELSE owner
        /\ callbacks' = [callbacks EXCEPT ![j] = {}]
        /\ disturbed' = FALSE
        /\ UNCHANGED <<final, warm, progress, recorded, folder>>
    BY <2>1 DEF CloseCleansUp
  <2> HIDE DEF recording, verdict, clean
  <2>4. artifact' \in [Jobs -> BOOLEAN]
    BY <2>3
  <2>5. realTime' = original[j].realTime /\ realTime' \in BOOLEAN /\ play' \in BOOLEAN
    BY <2>3 DEF ReturnTransport, JobFlags
  <2>6. JobFlags'
    BY <2>3, <2>5 DEF JobFlags
  <2>7. JobTypes'
    BY <2>2, <2>3, <2>4 DEF JobStates
  <2>8. jst[j] # "new" /\ jst'[j] # "new" /\ \A i \in Jobs : i # j => artifact'[i] = artifact[i]
    BY <2>2, <2>3 DEF Driven, JobTerminal
  <2>9. KeptOK'
    BY <1>0, <2>3, <2>8 DEF KeptOK
  <2>10. Driven'
    BY <1>0, <2>2, <2>3 DEF Driven, JobTerminal
  <2>11. artifact'[j] => folder[j]
    <3>1. CASE recording
      BY <3>1 DEF Tidy, recording
    <3>2. CASE ~recording
      <4>1. artifact'[j] = (artifact[j] \/ (recording /\ verified))
        BY <2>3
      <4>2. artifact'[j] => artifact[j]
        BY <3>2, <4>1
      <4> QED
        BY <4>2 DEF Tidy, Driven
    <3> QED
      BY <3>1, <3>2
  <2>12. Tidy'
    <3>1. owner' = None => realTime' = wanted'
      BY <2>5 DEF Tidy
    <3>2. movie'[j] # "none" => owner' = j /\ movie[j] # "none"
      BY <2>3 DEF clean
    <3>3. \A i \in Jobs : i # j => movie'[i] = movie[i] /\ owner' # i
      BY <2>3
    <3> QED
      BY <1>0, <2>3, <2>8, <2>11, <3>1, <3>2, <3>3 DEF Tidy
  <2> QED
    BY <2>6, <2>7, <2>9, <2>10, <2>12
<1> QED
  BY <1>1, <1>2, <1>3 DEF Close

\* start(): the oldest job, which is over, makes room; the new one finds the process free.
LEMMA StartKeepsInv == ASSUME JobInv, NEW j \in Jobs, StartJob(j) PROVE JobInv'
<1> USE JobsAssumption DEF JobInv, JobTypes
<1>1. owner = None /\ jst[j] = "new" /\ UNCHANGED <<final, progress, recorded, artifact, wanted, bridgeUp, touches>>
  BY DEF StartJob, StartBody, Unstarted
<1>2. PICK opened \in {"nothing", "folder", "recorder"}, raised \in BOOLEAN : StartBody(j, opened, raised)
  BY DEF StartJob
<1>3. \A i \in Jobs : jst[i] \notin {"running", "finalizing", "cleanup_failed"} /\ movie[i] = "none"
  BY <1>1 DEF Driven, Tidy
<1>4. /\ Surviving \in Seq(Jobs) /\ Len(Surviving) < MaxJobs /\ Distinct(Surviving)
      /\ Members(Surviving) = Kept \ Evicted
  <2>1. Kept = Members(kept)
    BY DEF Kept, Members
  <2>2. CASE Len(kept) >= MaxJobs
    BY <2>1, <2>2, DropFirst DEF KeptOK, Surviving, Evicted
  <2>3. CASE ~(Len(kept) >= MaxJobs)
    BY <2>1, <2>3 DEF KeptOK, Surviving, Evicted
  <2> QED
    BY <2>2, <2>3
<1>5. /\ kept' \in Seq(Jobs) /\ Len(kept') <= MaxJobs /\ Distinct(kept')
      /\ Kept' = (Kept \ Evicted) \cup {j}
  <2>1. j \notin Kept
    BY <1>1 DEF KeptOK
  <2>2. Kept' = Members(kept')
    BY DEF Kept, Members
  <2> QED
    BY <1>2, <1>4, <2>1, <2>2, AddLast DEF StartBody
<1>6. j \notin Evicted /\ Evicted \subseteq Kept
  BY <1>1 DEF KeptOK, Evicted, Kept
<1>7. KeptOK'
  BY <1>1, <1>2, <1>5 DEF KeptOK, StartBody
<1>8. JobFlags'
  BY <1>2 DEF JobFlags, StartBody
<1>9. JobTypes'
  <2>1. folder' \in [Jobs -> BOOLEAN]
    BY <1>2 DEF StartBody
  <2>2. original' \in [Jobs -> [play : BOOLEAN, realTime : BOOLEAN]]
    BY <1>2 DEF StartBody, JobFlags
  <2>3. warm' \in [Jobs -> Nat]
    BY <1>2 DEF StartBody
  <2>4. jst' \in [Jobs -> JobStates] /\ owner' \in Jobs \cup {None}
    BY <1>2 DEF StartBody, JobStates, JobTerminal
  <2>5. callbacks' \in [Jobs -> SUBSET Phases]
    BY <1>2 DEF StartBody, Phases
  <2>6. movie' \in [Jobs -> {"none", "recording", "flushing"}]
    BY <1>2 DEF StartBody
  <2> QED
    BY <1>1, <2>1, <2>2, <2>3, <2>4, <2>5, <2>6
<1>10. Driven'
  <2>1. CASE owner' = j /\ jst' = [jst EXCEPT ![j] = "running"]
             /\ \E p \in {"prepare", "verify"} : callbacks' = [callbacks EXCEPT ![j] = {p}]
    BY <1>1, <1>2, <1>3, <1>5, <2>1 DEF Driven, StartBody, Phases
  <2>2. CASE owner' = None /\ jst' = [jst EXCEPT ![j] = "failed"] /\ UNCHANGED callbacks
    BY <1>1, <1>2, <1>3, <2>2 DEF Driven, StartBody
  <2> QED
    BY <1>2, <2>1, <2>2 DEF StartBody
<1>11. owner' = None => realTime' = realTime
  BY <1>2 DEF StartBody
<1>12. original'[j].realTime = realTime /\ realTime = wanted
  BY <1>1, <1>2 DEF StartBody, Tidy
<1>13. \A i \in Jobs : i # j => /\ folder'[i] = (i \notin Evicted /\ folder[i])
                               /\ movie'[i] = "none" /\ artifact'[i] = artifact[i]
  BY <1>2, <1>3 DEF StartBody
<1>14. movie'[j] # "none" => owner' = j /\ folder'[j]
  <2>1. movie'[j] # "none" => opened = "recorder"
    BY <1>2, <1>3 DEF StartBody
  <2>2. opened = "recorder" => owner' = j
    BY <1>2 DEF StartBody
  <2>3. opened = "recorder" => folder'[j] = TRUE
    BY <1>2, <1>6 DEF StartBody
  <2> QED
    BY <2>1, <2>2, <2>3
<1>15. ~artifact'[j]
  BY <1>1 DEF KeptOK
<1>16. Tidy'
  <2>1. owner' = None => realTime' = wanted'
    BY <1>1, <1>11, <1>12
  <2>2. ASSUME NEW i \in Jobs
        PROVE  /\ owner' = i => original'[i].realTime = wanted'
               /\ movie'[i] # "none" => owner' = i /\ folder'[i]
               /\ folder'[i] => i \in Kept'
               /\ i \in Kept' /\ artifact'[i] => folder'[i]
    <3>1. CASE i = j
      BY <1>1, <1>5, <1>12, <1>14, <1>15, <3>1
    <3>2. CASE i # j
      <4>1. owner' # i
        BY <1>2, <3>2 DEF StartBody
      <4> QED
        BY <1>5, <1>13, <3>2, <4>1 DEF Tidy
    <3> QED
      BY <3>1, <3>2
  <2> QED
    BY <2>1, <2>2 DEF Tidy
<1> QED
  BY <1>7, <1>8, <1>9, <1>10, <1>16

LEMMA ReleaseKeepsInv == ASSUME JobInv, NEW j \in Jobs, ReleaseJob(j) PROVE JobInv'
<1> USE DEF JobInv, JobTypes
<1>1. kept' \in Seq(Jobs) /\ Len(kept') = Len(kept) - 1 /\ Distinct(kept') /\ Kept' = Kept \ {j}
  <2>1. PICK i \in DOMAIN kept :
           kept[i] = j /\ kept' = [k \in 1 .. Len(kept) - 1 |-> kept[IF k < i THEN k ELSE k + 1]]
    BY DEF ReleaseJob
  <2>2. kept \in Seq(Jobs) /\ Distinct(kept)
    BY DEF KeptOK
  <2>3. /\ kept' \in [1 .. Len(kept) - 1 -> Jobs]
        /\ \A k \in 1 .. Len(kept) - 1 : kept'[k] = kept[IF k < i THEN k ELSE k + 1]
    <3>1. /\ i \in 1 .. Len(kept) /\ Len(kept) \in Nat
          /\ \A k \in 1 .. Len(kept) : kept[k] \in Jobs
      BY <2>2
    <3>2. \A k \in 1 .. Len(kept) - 1 : (IF k < i THEN k ELSE k + 1) \in 1 .. Len(kept)
      BY <3>1
    <3>3. \A k \in 1 .. Len(kept) - 1 : kept[IF k < i THEN k ELSE k + 1] \in Jobs
      BY <3>1, <3>2
    <3> QED
      BY <2>1, <3>3
  <2>4. kept' \in Seq(Jobs) /\ Len(kept') = Len(kept) - 1
    <3> DEFINE n == Len(kept) - 1
    <3>1. n \in Nat /\ kept' \in [1 .. n -> Jobs]
      BY <2>2, <2>3
    <3> HIDE DEF n
    <3>2. kept' \in Seq(Jobs) /\ Len(kept') = n
      BY <3>1
    <3> QED
      BY <3>2 DEF n
  <2>5. Dropped(kept, i, kept')
    BY <2>3, <2>4 DEF Dropped
  <2>6. Distinct(kept') /\ Members(kept') = Members(kept) \ {kept[i]}
    <3>1. /\ kept \in Seq(Jobs) /\ Distinct(kept) /\ i \in DOMAIN kept
          /\ kept' \in Seq(Jobs) /\ Dropped(kept, i, kept')
      BY <2>2, <2>4, <2>5
    <3> QED
      BY ONLY <3>1, DropOne, Zenon
  <2> QED
    BY <2>1, <2>4, <2>6 DEF Kept, Members
<1>2. JobFlags' /\ JobTypes'
  BY DEF ReleaseJob, JobFlags, transport
<1>3. KeptOK'
  BY <1>1, JobsAssumption DEF ReleaseJob, KeptOK
<1>4. Driven'
  BY <1>1 DEF ReleaseJob, Driven
<1>5. realTime' = realTime
  BY DEF ReleaseJob, transport
<1>6. Tidy'
  BY <1>1, <1>5 DEF ReleaseJob, Tidy, Driven
<1> QED
  BY <1>2, <1>3, <1>4, <1>6

\* stop() of the owner, by a cancel, a failure or the last sample.
LEMMA StopKeeps ==
    ASSUME JobInv, NEW j \in Jobs, owner = j, NEW t \in JobTerminal,
           NEW cb \in [Jobs -> SUBSET Phases], \A i \in Jobs : i # j => cb[i] = callbacks[i],
           Stop(j, t, cb), UNCHANGED <<owner, kept>>,
           progress' \in [Jobs -> Nat],
           \A i \in Jobs : progress'[i] <= LastSample[i] /\ (i # j => progress'[i] = progress[i]),
           warm' = warm
    PROVE  /\ jst' \in [Jobs -> JobStates] /\ final' \in [Jobs -> JobTerminal \cup {"undefined"}]
           /\ callbacks' \in [Jobs -> SUBSET Phases]
           /\ jst'[j] # "new" /\ \A i \in Jobs : i # j => jst'[i] = jst[i]
           /\ Driven'
<1> USE DEF JobInv, JobTypes, Stop, Schedule
<1>1. "close" \in Phases /\ Kept' = Kept
  BY DEF Phases, Kept
<1>2. callbacks' \in [Jobs -> SUBSET Phases]
  BY <1>1
<1>3. jst' \in [Jobs -> JobStates] /\ final' \in [Jobs -> JobTerminal \cup {"undefined"}]
  BY DEF JobStates
<1>4. jst'[j] # "new" /\ \A i \in Jobs : i # j => jst'[i] = jst[i]
  BY <1>3
<1>5. Driven'
  BY <1>1 DEF Driven
<1> QED
  BY <1>2, <1>3, <1>4, <1>5
LEMMA CancelKeepsInv == ASSUME JobInv, NEW j \in Jobs, CancelJob(j) PROVE JobInv'
<1> USE DEF JobInv, JobTypes
<1>1. CASE /\ jst[j] = "running" /\ Stop(j, "cancelled", callbacks)
           /\ UNCHANGED <<owner, warm, progress, movie, recorded, folder, artifact, transport>>
  <2>1. owner = j /\ jst[j] # "new" /\ Kept' = Kept
    BY <1>1 DEF Driven, CancelJob, Kept
  <2>2. /\ UNCHANGED <<owner, kept, warm, progress, movie, recorded, folder, artifact, original, touches>>
        /\ UNCHANGED <<realTime, wanted>>
    BY <1>1 DEF CancelJob, transport
  <2>3. /\ jst' \in [Jobs -> JobStates] /\ final' \in [Jobs -> JobTerminal \cup {"undefined"}]
        /\ callbacks' \in [Jobs -> SUBSET Phases]
        /\ jst'[j] # "new" /\ \A i \in Jobs : i # j => jst'[i] = jst[i]
        /\ Driven'
    <3>1. "cancelled" \in JobTerminal /\ \A i \in Jobs : progress'[i] <= LastSample[i] /\ progress' = progress
      BY <2>2 DEF JobTerminal, Driven
    <3> QED
      BY <1>1, <2>1, <2>2, <3>1, StopKeeps
  <2>4. JobFlags'
    BY <1>1 DEF CancelJob, JobFlags, transport
  <2>5. JobTypes'
    BY <2>2, <2>3
  <2>6. KeptOK'
    BY <2>1, <2>2, <2>3 DEF KeptOK
  <2>7. Tidy'
    BY <2>1, <2>2 DEF Tidy
  <2> QED
    BY <2>3, <2>4, <2>5, <2>6, <2>7
<1>2. CASE jst[j] = "cleanup_failed" /\ Close(j, "failed", callbacks)
  <2>1. owner = j /\ "failed" \in JobTerminal
    BY <1>2 DEF Driven, JobTerminal
  <2> QED
    BY <1>2, <2>1, CloseKeepsInv DEF CancelJob
<1> QED
  BY <1>1, <1>2 DEF CancelJob

\* What a tick leaves alone, whichever phase it runs.
Steady == UNCHANGED <<owner, kept, movie, folder, artifact, original, touches, realTime, wanted>>

\* A tick of the owner keeps the invariant if it keeps the chain of callbacks.
LEMMA DrivenKeepsInv ==
    ASSUME JobInv, NEW j \in Jobs, Steady, Driven', JobFlags',
           jst' \in [Jobs -> JobStates], final' \in [Jobs -> JobTerminal \cup {"undefined"}],
           warm' \in [Jobs -> Nat], progress' \in [Jobs -> Nat], recorded' \in [Jobs -> BOOLEAN],
           callbacks' \in [Jobs -> SUBSET Phases],
           jst'[j] # "new", \A i \in Jobs : i # j => jst'[i] = jst[i]
    PROVE  JobInv'
<1> USE DEF JobInv, Steady
<1>1. Kept' = Kept
  BY DEF Kept
<1>2. JobTypes'
  BY DEF JobTypes
<1>3. KeptOK'
  BY <1>1 DEF KeptOK
<1>4. Tidy'
  BY <1>1 DEF Tidy
<1> QED
  BY <1>2, <1>3, <1>4

\* The callback that runs was the only one of its job, and schedules the next.
LEMMA RunsKeepsInv ==
    ASSUME JobInv, NEW j \in Jobs, owner = j, NEW p \in callbacks[j],
           TickRuns(j, p, [callbacks EXCEPT ![j] = @ \ {p}]),
           UNCHANGED <<kept, original, wanted, sourceGone, bridgeUp, touches>>
    PROVE  JobInv'
<1> USE DEF JobInv, JobTypes
<1> DEFINE cb == [callbacks EXCEPT ![j] = @ \ {p}]
<1>1. jst[j] = "running" /\ callbacks[j] = {p} /\ jst[j] # "new" /\ Kept' = Kept
  BY DEF TickRuns, Driven, Kept
<1>2. cb \in [Jobs -> SUBSET Phases] /\ cb[j] = {} /\ \A i \in Jobs : i # j => cb[i] = callbacks[i]
  BY <1>1
<1>3. Steady /\ JobFlags'
  <2>1. Steady
    BY DEF TickRuns, Steady, transport
  <2>2. JobFlags'
    BY DEF TickRuns, JobFlags, transport
  <2> QED
    BY <2>1, <2>2
<1> HIDE DEF cb
\* The chain goes on with phase q.
<1>4. ASSUME NEW q \in Phases, Schedule(j, cb, q), UNCHANGED <<jst, final>>,
             warm' \in [Jobs -> Nat], progress' \in [Jobs -> Nat], recorded' \in [Jobs -> BOOLEAN],
             \A i \in Jobs : i # j => warm'[i] = warm[i] /\ progress'[i] = progress[i],
             progress'[j] <= LastSample[j],
             q \in {"advance", "sample"} => progress'[j] < LastSample[j],
             q = "initialized" => warm'[j] > 0
      PROVE  JobInv'
  <2>1. callbacks' \in [Jobs -> SUBSET Phases] /\ callbacks'[j] = {q}
        /\ \A i \in Jobs : i # j => callbacks'[i] = callbacks[i]
    BY <1>2, <1>4 DEF Schedule
  <2>2. owner' = owner
    BY <1>3 DEF Steady
  <2>3. Driven'
    <3> SUFFICES ASSUME NEW i \in Jobs
                 PROVE  /\ owner' = i <=> jst'[i] \in {"running", "finalizing", "cleanup_failed"}
                        /\ owner' = i => i \in Kept'
                        /\ jst'[i] = "finalizing" => callbacks'[i] \cap {"close", "verify"} # {}
                        /\ jst'[i] = "running" =>
                              \E r \in Phases : /\ callbacks'[i] = {r}
                                                /\ r \in {"advance", "sample"} => progress'[i] < LastSample[i]
                                                /\ r = "initialized" => warm'[i] > 0
                        /\ progress'[i] <= LastSample[i]
      BY DEF Driven
    <3>1. CASE i = j
      BY <1>1, <1>4, <2>1, <2>2, <3>1 DEF Driven
    <3>2. CASE i # j
      BY <1>1, <1>4, <2>1, <2>2, <3>2 DEF Driven
    <3> QED
      BY <3>1, <3>2
  <2> QED
    BY <1>1, <1>3, <1>4, <2>1, <2>3, DrivenKeepsInv
<1>5. ASSUME NEW n \in Nat, n <= LastSample[j], Sample(j, n, cb) PROVE JobInv'
  <2>1. /\ progress' \in [Jobs -> Nat] /\ progress'[j] = n /\ warm' = warm
        /\ \A i \in Jobs : i # j => progress'[i] = progress[i]
    BY <1>5 DEF Sample
  <2>2. recorded' \in [Jobs -> BOOLEAN]
    BY <1>5 DEF Sample
  <2>3. CASE n = LastSample[j]
    <3>1. Stop(j, "complete", cb) /\ "complete" \in JobTerminal
      BY <1>5, <2>3 DEF Sample, JobTerminal
    <3>2. \A i \in Jobs : progress'[i] <= LastSample[i]
      BY <1>5, <2>1 DEF Driven
    <3>3. /\ jst' \in [Jobs -> JobStates] /\ final' \in [Jobs -> JobTerminal \cup {"undefined"}]
          /\ callbacks' \in [Jobs -> SUBSET Phases]
          /\ jst'[j] # "new" /\ \A i \in Jobs : i # j => jst'[i] = jst[i]
          /\ Driven'
      BY <1>2, <1>3, <2>1, <3>1, <3>2, StopKeeps DEF Steady
    <3> QED
      BY <1>3, <2>1, <2>2, <3>3, DrivenKeepsInv
  <2>4. CASE n # LastSample[j]
    <3>1. Schedule(j, cb, "advance") /\ UNCHANGED <<jst, final>> /\ "advance" \in Phases
      BY <1>5, <2>4 DEF Sample, Phases
    <3>2. n < LastSample[j]
      BY <1>5, <2>4, JobsAssumption
    <3> QED
      BY <1>4, <1>5, <2>1, <2>2, <3>1, <3>2
  <2> QED
    BY <2>3, <2>4
<1>6. CASE /\ p = "prepare" /\ warm[j] > 0
           /\ Schedule(j, cb, "initialized")
           /\ UNCHANGED <<jst, final, warm, progress, recorded>>
  BY <1>4, <1>6 DEF Phases, Driven
<1>7. CASE p = "prepare" /\ warm[j] = 0 /\ Sample(j, 0, cb)
  BY <1>5, <1>7, JobsAssumption
<1>8. CASE /\ p = "initialized"
           /\ warm' = [warm EXCEPT ![j] = @ - 1]
           /\ Schedule(j, cb, "prepare")
           /\ UNCHANGED <<jst, final, progress, recorded>>
  <2>1. warm[j] > 0
    BY <1>1, <1>8 DEF Driven
  <2>2. warm' \in [Jobs -> Nat] /\ \A i \in Jobs : i # j => warm'[i] = warm[i]
    BY <1>8, <2>1
  <2> QED
    BY <1>4, <1>8, <2>2 DEF Phases, Driven
<1>9. CASE /\ p = "advance"
           /\ Schedule(j, cb, "sample")
           /\ UNCHANGED <<jst, final, warm, progress, recorded>>
  <2>1. progress[j] < LastSample[j]
    BY <1>1, <1>9 DEF Driven
  <2> QED
    BY <1>4, <1>9, <2>1 DEF Phases, Driven
<1>10. CASE p = "sample" /\ Sample(j, progress[j] + 1, cb)
  <2>1. progress[j] < LastSample[j]
    BY <1>1, <1>10 DEF Driven
  <2> QED
    BY <1>5, <1>10, <2>1, JobsAssumption
<1> QED
  BY <1>6, <1>7, <1>8, <1>9, <1>10 DEF TickRuns, cb

LEMMA TickKeepsInv == ASSUME JobInv, NEW j \in Jobs, NEW p \in Phases, Tick(j, p) PROVE JobInv'
<1> USE DEF JobInv, JobTypes
<1> DEFINE cb == [callbacks EXCEPT ![j] = @ \ {p}]
<1>1. /\ p \in callbacks[j] /\ cb \in [Jobs -> SUBSET Phases]
      /\ \A i \in Jobs : i # j => cb[i] = callbacks[i]
      /\ cb[j] = callbacks[j] \ {p}
  BY DEF Tick
<1>2. UNCHANGED <<kept, original, wanted, sourceGone, bridgeUp, touches>> /\ Kept' = Kept
  BY DEF Tick, Kept
<1>3. CASE owner = j /\ TickRuns(j, p, cb)
  BY <1>1, <1>2, <1>3, RunsKeepsInv
<1>4. CASE owner = j /\ TickFails(j, p, cb)
  <2>1. Steady
    BY <1>2, <1>4 DEF TickFails, Steady, transport
  <2>2. JobFlags'
    BY <1>2, <1>4 DEF TickFails, JobFlags, transport
  <2>3. Stop(j, "failed", cb) /\ "failed" \in JobTerminal /\ UNCHANGED <<warm, progress, recorded>>
    BY <1>4 DEF TickFails, JobTerminal
  <2> HIDE DEF cb
  <2>4. /\ jst' \in [Jobs -> JobStates] /\ final' \in [Jobs -> JobTerminal \cup {"undefined"}]
        /\ callbacks' \in [Jobs -> SUBSET Phases]
        /\ jst'[j] # "new" /\ \A i \in Jobs : i # j => jst'[i] = jst[i]
        /\ Driven'
    <3>1. \A i \in Jobs : progress'[i] <= LastSample[i]
      BY <2>3 DEF Driven
    <3> QED
      BY <1>1, <1>4, <2>1, <2>3, <3>1, StopKeeps DEF Steady
  <2> QED
    BY <2>1, <2>2, <2>3, <2>4, DrivenKeepsInv
<1>5. CASE owner = j /\ p \in {"close", "verify"} /\ Close(j, final[j], cb)
  <2>1. jst[j] = "running" => cb[j] = {}
    BY <1>1 DEF Driven
  <2>2. final[j] \in JobTerminal \cup {"undefined"}
    OBVIOUS
  <2> HIDE DEF cb
  <2> QED
    BY <1>1, <1>2, <1>5, <2>1, <2>2, CloseKeepsInv
<1>6. CASE TickIsStale(j, p, cb)
  <2>1. UNCHANGED <<owner, jst, final, warm, progress, movie, recorded, folder, artifact, realTime>>
        /\ callbacks' = cb
    BY <1>6 DEF TickIsStale, job, transport
  <2>2. JobFlags'
    BY <1>2, <1>6 DEF TickIsStale, JobFlags, transport
  <2>3. JobTypes' /\ KeptOK'
    BY <1>1, <1>2, <2>1 DEF KeptOK
  <2>4. jst[j] # "running" /\ (jst[j] = "finalizing" => p \notin {"close", "verify"})
    BY <1>6 DEF TickIsStale, Driven
  <2>5. callbacks'[j] = callbacks[j] \ {p} /\ \A i \in Jobs : i # j => callbacks'[i] = callbacks[i]
    BY <1>1, <2>1
  <2>6. Driven'
    BY <1>2, <2>1, <2>4, <2>5 DEF Driven
  <2>7. Tidy'
    BY <1>2, <2>1 DEF Tidy
  <2> QED
    BY <2>2, <2>3, <2>6, <2>7
<1> QED
  BY <1>3, <1>4, <1>5, <1>6 DEF Tick

LEMMA JobStepInv == JobInv /\ [JobNext]_jobVars => JobInv'
<1> SUFFICES ASSUME JobInv, [JobNext]_jobVars PROVE JobInv'
  OBVIOUS
<1>1. CASE UNCHANGED jobVars
  <2>1. JobFlags'
    BY <1>1 DEF JobInv, JobFlags, jobVars, transport
  <2>2. /\ UNCHANGED <<kept, owner, jst, final, warm, progress, movie, recorded, folder, artifact>>
        /\ UNCHANGED <<callbacks, original, touches, realTime, wanted>>
    BY <1>1 DEF jobVars, job, transport
  <2>3. Kept' = Kept
    BY <2>2 DEF Kept
  <2>4. JobTypes' /\ KeptOK'
    BY <2>2, <2>3 DEF JobInv, JobTypes, KeptOK
  <2>5. Driven'
    BY <2>2, <2>3 DEF JobInv, Driven
  <2>6. Tidy'
    BY <2>2, <2>3 DEF JobInv, Tidy
  <2> QED
    BY <2>1, <2>4, <2>5, <2>6 DEF JobInv
<1>2. CASE RetireActive
  <2>1. owner \in Jobs /\ owner # None /\ "cancelled" \in JobTerminal
    BY <1>2 DEF RetireActive, JobInv, JobTypes, JobTerminal
  <2>2. PICK j \in Jobs : owner = j
    BY <2>1
  <2> DEFINE cb == [callbacks EXCEPT ![j] = {}]
  <2>3. /\ cb \in [Jobs -> SUBSET Phases] /\ cb[j] = {}
        /\ \A i \in Jobs : i # j => cb[i] = callbacks[i]
    BY DEF JobInv, JobTypes
  <2> HIDE DEF cb
  <2>4. /\ CloseEnds(j, "cancelled", TRUE)
        /\ UNCHANGED <<kept, original, wanted, sourceGone, bridgeUp, touches>>
    BY <1>2, <2>2 DEF RetireActive
  <2> QED
    BY <2>1, <2>2, <2>3, <2>4, CloseKeepsInv
<1>3. CASE Reload
  <2>1. JobFlags'
    BY <1>3 DEF Reload, JobInv, JobFlags, transport
  <2>2. Kept' = {} /\ owner = None /\ owner' = None /\ UNCHANGED <<jst, movie, realTime, wanted>>
    BY <1>3 DEF Reload, Kept, transport
  <2>3. JobTypes'
    BY <1>3 DEF Reload, JobInv, JobTypes
  <2>4. KeptOK'
    BY <1>3, <2>2, JobsAssumption DEF Reload, JobInv, KeptOK, Distinct
  <2>5. Driven'
    BY <1>3, <2>2, JobsAssumption DEF Reload, JobInv, Driven
  <2>6. \A i \in Jobs : ~folder'[i] /\ movie'[i] = "none"
    BY <1>3, <2>2, JobsAssumption DEF Reload, JobInv, Tidy
  <2>7. Tidy'
    BY <2>2, <2>6, JobsAssumption DEF JobInv, Tidy
  <2> QED
    BY <2>1, <2>3, <2>4, <2>5, <2>7 DEF JobInv
<1>4. ASSUME NEW p \in BOOLEAN, NEW r \in BOOLEAN, NEW d \in BOOLEAN, NEW g \in BOOLEAN, Touch(p, r, d, g)
      PROVE  JobInv'
  <2>1. JobFlags'
    <3>1. play' \in BOOLEAN /\ realTime' \in BOOLEAN /\ bridgeUp' \in BOOLEAN
      BY <1>4 DEF Touch, JobInv, JobFlags
    <3>2. disturbed' \in BOOLEAN /\ sourceGone' \in BOOLEAN
      BY <1>4 DEF Touch, JobInv, JobFlags
    <3>3. wanted' \in BOOLEAN
      BY <1>4 DEF Touch, JobInv, JobFlags
    <3> QED
      BY <3>1, <3>2, <3>3 DEF JobFlags
  <2>2. UNCHANGED <<kept, owner, jst, final, warm, progress, movie, recorded, folder, artifact,
                    callbacks, original>> /\ Kept' = Kept
    BY <1>4 DEF Touch, job, Kept
  <2>3. touches' \in 0 .. MaxTouches
    BY <1>4, JobsAssumption DEF Touch, JobInv, JobTypes
  <2>4. JobTypes' /\ KeptOK' /\ Driven'
    BY <2>2, <2>3 DEF JobInv, JobTypes, KeptOK, Driven
  <2>5. realTime' = r /\ wanted' = IF owner = None THEN r ELSE wanted
    BY <1>4 DEF Touch
  <2>6. owner' = None => realTime' = wanted'
    BY <2>2, <2>5
  <2>7. \A j \in Jobs : owner' = j => original'[j].realTime = wanted'
    BY <2>2, <2>5, JobsAssumption DEF JobInv, Tidy
  <2>8. Tidy'
    BY <2>2, <2>6, <2>7 DEF JobInv, Tidy
  <2> QED
    BY <2>1, <2>4, <2>8 DEF JobInv
<1>5. CASE UserTouches
  <2>1. PICK p \in BOOLEAN, r \in BOOLEAN, d \in BOOLEAN, g \in BOOLEAN : Touch(p, r, d, g)
    BY <1>5 DEF UserTouches, JobInv, JobFlags
  <2> QED
    BY <1>4, <2>1
<1>6. CASE BridgeLost
  <2>1. JobFlags'
    BY <1>6 DEF BridgeLost, JobInv, JobFlags, transport
  <2>2. /\ UNCHANGED <<kept, owner, jst, final, warm, progress, movie, recorded, folder, artifact>>
        /\ UNCHANGED <<callbacks, original, touches, realTime, wanted>>
    BY <1>6 DEF BridgeLost, job, transport
  <2>3. Kept' = Kept
    BY <2>2 DEF Kept
  <2>4. JobTypes' /\ KeptOK'
    BY <2>2, <2>3 DEF JobInv, JobTypes, KeptOK
  <2>5. Driven'
    BY <2>2, <2>3 DEF JobInv, Driven
  <2>6. Tidy'
    BY <2>2, <2>3 DEF JobInv, Tidy
  <2> QED
    BY <2>1, <2>4, <2>5, <2>6 DEF JobInv
<1> QED
  BY <1>1, <1>2, <1>3, <1>5, <1>6, StartKeepsInv, CancelKeepsInv, ReleaseKeepsInv, TickKeepsInv
     DEF JobNext, Callbacks

\* Whatever the jobs, the user and the connection do, the job that owns the process has a
\* callback on the way and no other is under way; and once no job owns it the clock is the
\* user's again and no private directory is out of reach.
THEOREM JobsAreAlwaysOrderly == JobSpec => []JobsAreOrderly
<1>1. ASSUME JobInv PROVE JobsAreOrderly
  <2>1. \A b \in {play, realTime, wanted, disturbed, sourceGone, bridgeUp} : b \in BOOLEAN
    BY <1>1 DEF JobInv, JobFlags
  <2>2. \A j \in Jobs : progress[j] \in 0 .. LastSample[j]
    BY <1>1, JobsAssumption DEF JobInv, JobTypes, Driven
  <2>3. JobTypeOK
    BY <1>1, <2>1, <2>2 DEF JobTypeOK, JobInv, JobTypes, KeptOK
  <2>4. JobsCleanUp
    BY <1>1, <2>3 DEF JobsCleanUp, JobInv, Tidy
  <2>5. OwnerIsDriven
    BY <1>1 DEF OwnerIsDriven, JobInv, Driven
  <2> QED
    BY <2>4, <2>5 DEF JobsAreOrderly
<1> QED
  BY <1>1, JobInitInv, JobStepInv, PTL DEF JobSpec

-----------------------------------------------------------------------------
(* Batches: paths of one or two names.                                     *)

LEMMA PathsAreShort ==
    \A p : p \in Paths <=> p \in Seq(Names) /\ Len(p) \in 1 .. 2
<1>1. ASSUME NEW p \in Paths PROVE p \in Seq(Names) /\ Len(p) \in 1 .. 2
  <2>1. PICK n \in 1 .. 2 : p \in [1 .. n -> Names]
    BY DEF Paths
  <2>2. p \in Seq(Names) /\ Len(p) = n
    BY <2>1
  <2> QED
    BY <2>2
<1>2. ASSUME NEW p \in Seq(Names), Len(p) \in 1 .. 2 PROVE p \in Paths
  <2>1. p \in [1 .. Len(p) -> Names]
    BY <1>2, LenProperties
  <2> QED
    BY <1>2, <2>1 DEF Paths
<1> QED
  BY <1>1, <1>2

LEMMA WholeSeq == ASSUME NEW s \in Seq(Names) PROVE SubSeq(s, 1, Len(s)) = s
<1> DEFINE n == Len(s)
<1>1. n \in Nat /\ n \in Int /\ 1 \in Int /\ \A i \in 1 .. n : s[i] \in Names
  OBVIOUS
<1> HIDE DEF n
<1>2. /\ SubSeq(s, 1, n) \in Seq(Names) /\ Len(SubSeq(s, 1, n)) = IF 1 <= n THEN n - 1 + 1 ELSE 0
      /\ \A i \in 1 .. n - 1 + 1 : SubSeq(s, 1, n)[i] = s[1 + i - 1]
  BY <1>1, SubSeqProperties
<1>3. Len(SubSeq(s, 1, n)) = n /\ \A i \in 1 .. n : SubSeq(s, 1, n)[i] = s[i]
  BY <1>1, <1>2
<1>4. SubSeq(s, 1, n) = s
  BY <1>2, <1>3, SeqEqual DEF n
<1> QED
  BY <1>4 DEF n

LEMMA Parents ==
    ASSUME NEW p \in Paths
    PROVE  /\ Parent(p) = Front(p)
           /\ Parent(p) \in Seq(Names) /\ Len(Parent(p)) = Len(p) - 1
           /\ Len(p) = 1 => Parent(p) = <<>>
           /\ Len(p) = 2 => Parent(p) \in Paths /\ Parent(p) = SubSeq(p, 1, 1) /\ Parent(p)[1] = p[1]
<1> DEFINE n == Len(p) - 1
<1>1. /\ p \in Seq(Names) /\ n \in 0 .. 1 /\ n \in Int /\ 1 \in Int /\ Len(p) = n + 1
      /\ \A i \in 1 .. n : p[i] \in Names
  <2>1. p \in Seq(Names) /\ Len(p) \in 1 .. 2
    BY PathsAreShort
  <2> QED
    BY <2>1
<1>2. Parent(p) = SubSeq(p, 1, n) /\ Front(p) = SubSeq(p, 1, n)
  BY DEF Parent, Front
<1> HIDE DEF n
<1>3. /\ SubSeq(p, 1, n) \in Seq(Names) /\ Len(SubSeq(p, 1, n)) = IF 1 <= n THEN n - 1 + 1 ELSE 0
      /\ \A i \in 1 .. n - 1 + 1 : SubSeq(p, 1, n)[i] = p[1 + i - 1]
  BY <1>1, SubSeqProperties
<1>4. Len(Parent(p)) = n /\ Parent(p) \in Seq(Names)
  BY <1>1, <1>2, <1>3
<1>5. Len(p) = 1 => Parent(p) = <<>>
  BY <1>1, <1>4, EmptySeq
<1>6. ASSUME Len(p) = 2 PROVE Parent(p) \in Paths /\ Parent(p) = SubSeq(p, 1, 1) /\ Parent(p)[1] = p[1]
  <2>1. n = 1
    BY <1>1, <1>6
  <2>2. Parent(p)[1] = p[1]
    BY <1>2, <1>3, <2>1
  <2>3. Parent(p) \in Paths
    <3>1. Len(Parent(p)) = 1 /\ Parent(p) \in Seq(Names)
      BY <1>4, <2>1
    <3>2. Len(Parent(p)) \in 1 .. 2
      BY <3>1
    <3> QED
      BY <3>1, <3>2, PathsAreShort
  <2> QED
    BY <1>2, <2>1, <2>2, <2>3
<1> QED
  BY <1>1, <1>2, <1>4, <1>5, <1>6

\* What is at a path or above it.
LEMMA AtOrAbove ==
    ASSUME NEW p \in Paths, NEW q \in Paths
    PROVE  IsPrefix(q, p) <=> q = p \/ (Len(p) = 2 /\ q = Parent(p))
<1>1. p \in Seq(Names) /\ q \in Seq(Names) /\ Len(p) \in 1 .. 2 /\ Len(q) \in 1 .. 2
  BY PathsAreShort
<1>2. SubSeq(q, 1, Len(q)) = q /\ SubSeq(p, 1, Len(p)) = p
  BY <1>1, WholeSeq
<1>3. CASE Len(q) = Len(p)
  <2>1. IsPrefix(q, p) <=> q = p
    BY <1>1, <1>2, <1>3 DEF IsPrefix
  <2>2. ~(Len(p) = 2 /\ q = Parent(p))
    BY <1>1, <1>3, Parents
  <2> QED
    BY <2>1, <2>2
<1>4. CASE Len(q) > Len(p)
  BY <1>1, <1>4, Parents DEF IsPrefix
<1>5. CASE Len(q) = 1 /\ Len(p) = 2
  <2>1. Parent(p) = SubSeq(p, 1, 1)
    BY <1>5, Parents
  <2> QED
    BY <1>2, <1>5, <2>1 DEF IsPrefix
<1>6. Len(q) = Len(p) \/ Len(q) > Len(p) \/ (Len(q) = 1 /\ Len(p) = 2)
  BY <1>1
<1> QED
  BY <1>3, <1>4, <1>5, <1>6

LEMMA WhatIsUnder ==
    ASSUME NEW p \in Paths
    PROVE  \A q : q \in Under(p) <=> q \in Paths /\ (q = p \/ (Len(q) = 2 /\ Parent(q) = p))
<1>1. \A q \in Paths : q \in Under(p) <=> q = p \/ (Len(q) = 2 /\ Parent(q) = p)
  <2> TAKE q \in Paths
  <2>1. q \in Under(p) <=> IsPrefix(p, q)
    BY DEF Under
  <2> QED
    BY <2>1, AtOrAbove
<1>2. \A q \in Under(p) : q \in Paths
  BY DEF Under
<1> QED
  BY <1>1, <1>2

\* What is below a path, moved elsewhere.
LEMMA Moved ==
    ASSUME NEW p \in Paths, NEW a \in Paths
    PROVE  /\ a \o Below(p, p) = a
           /\ Len(p) = 2 /\ Len(a) = 1 =>
                /\ a \o Below(p, Parent(p)) \in Paths /\ Len(a \o Below(p, Parent(p))) = 2
                /\ Parent(a \o Below(p, Parent(p))) = a
                /\ Parent(p) \o Below(p, Parent(p)) = p
<1>1. p \in Seq(Names) /\ a \in Seq(Names) /\ Len(p) \in 1 .. 2 /\ Len(a) \in 1 .. 2
  BY PathsAreShort
<1>2. a \o Below(p, p) = a
  <2>1. Len(p) + 1 \in Int /\ Len(p) \in Int /\ Len(p) < Len(p) + 1
    BY <1>1
  <2>2. Below(p, p) = <<>>
    BY <2>1, SubSeqEmpty DEF Below
  <2> QED
    BY <1>1, <2>2, ConcatEmptySeq
<1>3. ASSUME Len(p) = 2, Len(a) = 1
      PROVE  /\ a \o Below(p, Parent(p)) \in Paths /\ Len(a \o Below(p, Parent(p))) = 2
             /\ Parent(a \o Below(p, Parent(p))) = a
             /\ Parent(p) \o Below(p, Parent(p)) = p
  <2> DEFINE r == Parent(p)
             b == Below(p, r)
             t == a \o b
  <2>1. r \in Seq(Names) /\ Len(r) = 1 /\ r[1] = p[1] /\ r \in Paths
    BY <1>3, Parents
  <2>2. b = SubSeq(p, 2, 2)
    <3>1. Len(r) + 1 = 2
      BY <2>1
    <3> HIDE DEF r
    <3> QED
      BY <1>3, <3>1 DEF Below
  <2>3. 2 \in Int /\ \A i \in 2 .. 2 : p[i] \in Names
    <3>1. 2 \in 1 .. Len(p)
      BY <1>3
    <3>2. p[2] \in Names
      BY <1>1, <3>1
    <3>3. \A i \in 2 .. 2 : i = 2
      OBVIOUS
    <3> QED
      BY <3>2, <3>3
  <2>4. /\ SubSeq(p, 2, 2) \in Seq(Names) /\ Len(SubSeq(p, 2, 2)) = IF 2 <= 2 THEN 2 - 2 + 1 ELSE 0
        /\ \A i \in 1 .. 2 - 2 + 1 : SubSeq(p, 2, 2)[i] = p[2 + i - 1]
    BY <2>3, SubSeqProperties
  <2>5. b \in Seq(Names) /\ Len(b) = 1 /\ b[1] = p[2]
    BY <2>2, <2>4
  <2> HIDE DEF r, b
  <2>6. ASSUME NEW x \in Seq(Names), Len(x) = 1
        PROVE  x \o b \in Seq(Names) /\ Len(x \o b) = 2 /\ (x \o b)[1] = x[1] /\ (x \o b)[2] = p[2]
    <3>1. /\ x \o b \in Seq(Names) /\ Len(x \o b) = Len(x) + Len(b)
          /\ \A i \in 1 .. Len(x) + Len(b) : (x \o b)[i] = IF i <= Len(x) THEN x[i] ELSE b[i - Len(x)]
      BY <2>5, ConcatProperties
    <3> QED
      BY <2>5, <2>6, <3>1
  <2>7. t \in Seq(Names) /\ Len(t) = 2 /\ t[1] = a[1]
    BY <1>1, <1>3, <2>6
  <2> HIDE DEF t
  <2>8. t \in Paths
    BY <2>7, PathsAreShort
  <2>9. Parent(t) = a
    <3>1. Parent(t) \in Seq(Names) /\ Len(Parent(t)) = 1 /\ Parent(t)[1] = t[1]
      BY <2>7, <2>8, Parents
    <3> QED
      BY <1>1, <1>3, <2>7, <3>1, SeqEqual
  <2>10. r \o b = p
    <3>1. r \o b \in Seq(Names) /\ Len(r \o b) = 2 /\ (r \o b)[1] = p[1] /\ (r \o b)[2] = p[2]
      BY <2>1, <2>6
    <3>2. \A i \in 1 .. 2 : i = 1 \/ i = 2
      OBVIOUS
    <3> QED
      BY <1>1, <1>3, <3>1, <3>2, SeqEqual
  <2> QED
    BY <2>7, <2>8, <2>9, <2>10 DEF r, b, t
<1> QED
  BY <1>2, <1>3

-----------------------------------------------------------------------------
(* Batches: the scene, what is being made, and what was asked for.         *)

\* Where the operator asked for at q was put.
Loc(q) == IF q \in DOMAIN aliases THEN aliases[q] ELSE q

\* A place an operator asked for at q may have been given.
Fits(q, at) == at \in Paths /\ Len(at) = Len(q) /\ Parent(at) = Loc(Parent(q))

SceneIsWhole ==
    /\ born \in Nat /\ applied \in 0 .. MaxSteps /\ failedAt \in {None} \cup 0 .. MaxSteps
    /\ refused \in BOOLEAN
    /\ DOMAIN scene \subseteq Paths
    /\ \A p \in DOMAIN scene : /\ scene[p] \in 1 .. born
                               /\ Len(p) = 2 => Parent(p) \in DOMAIN scene
    /\ \A p, q \in DOMAIN scene : scene[p] = scene[q] => p = q
    /\ wires \in [DOMAIN wires -> DOMAIN scene] /\ DOMAIN wires \subseteq DOMAIN scene

\* An alias stands for what was asked for, in what was asked for around it.
IntentsAreKept ==
    /\ DOMAIN aliases \subseteq DOMAIN intent /\ DOMAIN intent \subseteq Asked
    /\ \A q \in DOMAIN aliases : aliases[q] \in Paths /\ aliases[q] # q
    /\ \A q \in DOMAIN intent : intent[q] \in 1 .. born /\ Fits(q, Loc(q))

\* The operator asked for is where its path leads, or nowhere.
IntentsAreThere ==
    \A q \in DOMAIN intent : \A p \in DOMAIN scene : scene[p] = intent[q] => p = Loc(q)

\* What is being made was not asked for before, and nothing is in it or wired to it.
MakingIsNew ==
    doing # None =>
        /\ doing \in Makings /\ applied < MaxSteps
        /\ doing.made \in DOMAIN scene
        /\ Fits(doing.requested, doing.path) /\ Fits(doing.requested, doing.made)
        /\ \A q \in DOMAIN intent : intent[q] # scene[doing.made]
        /\ doing.made \notin DOMAIN wires /\ \A d \in DOMAIN wires : wires[d] # doing.made
        /\ \A p \in DOMAIN scene : Len(p) = 2 => Parent(p) # doing.made

Made == IF doing = None THEN {} ELSE {doing.made}

\* The picture is of the scene without what is being made.
PictureIsTrue ==
    /\ picture = [ops |-> picture.ops, wires |-> picture.wires]
    /\ ~refused => picture.wires = wires /\ picture.ops = DOMAIN scene \ Made

MutateInv == SceneIsWhole /\ IntentsAreKept /\ IntentsAreThere /\ MakingIsNew /\ PictureIsTrue

-----------------------------------------------------------------------------
(* Rewriting.                                                              *)

LEMMA LongestIs ==
    ASSUME NEW ps, NEW p \in ps, \A q \in ps : q = p \/ Len(q) < Len(p),
           \A q \in ps : Len(q) \in Nat
    PROVE  Longest(ps) = p
<1>1. \A q \in ps : Len(q) <= Len(p)
  OBVIOUS
<1>2. ASSUME NEW l \in ps, \A q \in ps : Len(q) <= Len(l) PROVE l = p
  <2>1. Len(p) <= Len(l) /\ Len(l) \in Nat /\ Len(p) \in Nat
    BY <1>2
  <2> QED
    BY <2>1
<1>3. Longest(ps) \in ps /\ \A q \in ps : Len(q) <= Len(Longest(ps))
  BY <1>1 DEF Longest
<1> QED
  BY <1>2, <1>3

\* The longest of some paths that are at p or above it.
LEMMA LongestAbove ==
    ASSUME NEW p \in Paths, NEW D \in SUBSET Paths
    PROVE  LET ps == {q \in D : IsPrefix(q, p)}
           IN  /\ p \in D => p \in ps /\ Longest(ps) = p
               /\ p \notin D /\ Len(p) = 2 /\ Parent(p) \in D => Parent(p) \in ps /\ Longest(ps) = Parent(p)
               /\ p \notin D /\ ~(Len(p) = 2 /\ Parent(p) \in D) => ps = {}
<1> DEFINE ps == {q \in D : IsPrefix(q, p)}
<1>1. \A q \in D : q \in ps <=> q = p \/ (Len(p) = 2 /\ q = Parent(p))
  BY AtOrAbove
<1>2. ps \subseteq D
  OBVIOUS
<1>3. \A q \in ps : Len(q) \in Nat
  <2>1. \A q \in ps : Len(q) \in 1 .. 2
    BY <1>2, PathsAreShort
  <2> QED
    BY <2>1
<1> HIDE DEF ps
<1>4. ASSUME p \in D PROVE p \in ps /\ Longest(ps) = p
  <2>1. p \in ps
    BY <1>1, <1>4
  <2>2. \A q \in ps : q = p \/ Len(q) < Len(p)
    <3>1. Len(p) = 2 => Len(Parent(p)) = 1
      BY Parents
    <3>2. ASSUME NEW q \in ps PROVE q = p \/ Len(q) < Len(p)
      <4>1. q = p \/ (Len(p) = 2 /\ q = Parent(p))
        BY <1>1, <1>2
      <4>2. ASSUME Len(p) = 2, q = Parent(p) PROVE Len(q) < Len(p)
        <5>1. Len(q) = 1
          BY <3>1, <4>2
        <5> QED
          BY <4>2, <5>1
      <4> QED
        BY <4>1, <4>2
    <3> QED
      BY <3>2
  <2> QED
    BY <1>3, <2>1, <2>2, LongestIs
<1>5. ASSUME p \notin D, Len(p) = 2, Parent(p) \in D PROVE Parent(p) \in ps /\ Longest(ps) = Parent(p)
  <2>1. Parent(p) \in ps
    BY <1>1, <1>5
  <2>2. \A q \in ps : q = Parent(p)
    BY <1>1, <1>2, <1>5
  <2> QED
    BY <1>3, <2>1, <2>2, LongestIs
<1>6. ASSUME p \notin D, ~(Len(p) = 2 /\ Parent(p) \in D) PROVE ps = {}
  BY <1>1, <1>2, <1>6
<1> QED
  BY <1>4, <1>5, <1>6 DEF ps

\* A rewritten path is where an operator asked for there would be put.
LEMMA Rewritten ==
    ASSUME MutateAssumption, IntentsAreKept, NEW p \in Paths
    PROVE  /\ p \in DOMAIN aliases => Remap(p) = aliases[p]
           /\ p \notin DOMAIN aliases /\ Len(p) = 2 /\ Parent(p) \in DOMAIN aliases
                => Remap(p) = aliases[Parent(p)] \o Below(p, Parent(p))
           /\ p \notin DOMAIN aliases /\ ~(Len(p) = 2 /\ Parent(p) \in DOMAIN aliases) => Remap(p) = p
           /\ Fits(p, Remap(p))
<1> DEFINE D == DOMAIN aliases
           ps == {q \in D : IsPrefix(q, p)}
<1>1. D \subseteq Paths /\ \A q \in D : Fits(q, Loc(q)) /\ Loc(q) = aliases[q]
  BY DEF MutateAssumption, IntentsAreKept, Loc
<1>2. Remap(p) = IF ps = {} THEN p ELSE aliases[Longest(ps)] \o Below(p, Longest(ps))
  BY DEF Remap
<1>3. /\ p \in D => p \in ps /\ Longest(ps) = p
      /\ p \notin D /\ Len(p) = 2 /\ Parent(p) \in D => Parent(p) \in ps /\ Longest(ps) = Parent(p)
      /\ p \notin D /\ ~(Len(p) = 2 /\ Parent(p) \in D) => ps = {}
  BY <1>1, LongestAbove
<1> HIDE DEF ps
<1>4. ASSUME p \in D PROVE Remap(p) = aliases[p] /\ Fits(p, Remap(p))
  <2>1. aliases[p] \in Paths
    BY <1>4 DEF IntentsAreKept
  <2>2. Remap(p) = aliases[p] \o Below(p, p)
    BY <1>2, <1>3, <1>4
  <2>3. Remap(p) = aliases[p]
    BY <2>1, <2>2, Moved
  <2> QED
    BY <1>1, <1>4, <2>3
<1>5. ASSUME p \notin D, Len(p) = 2, Parent(p) \in D
      PROVE  Remap(p) = aliases[Parent(p)] \o Below(p, Parent(p)) /\ Fits(p, Remap(p))
  <2>1. Remap(p) = aliases[Parent(p)] \o Below(p, Parent(p))
    BY <1>2, <1>3, <1>5
  <2>2. aliases[Parent(p)] \in Paths /\ Len(aliases[Parent(p)]) = 1 /\ Loc(Parent(p)) = aliases[Parent(p)]
    <3>1. Len(Parent(p)) = 1
      BY <1>5, Parents
    <3> QED
      BY <1>1, <1>5, <3>1 DEF Fits
  <2>3. /\ Remap(p) \in Paths /\ Len(Remap(p)) = 2
        /\ Parent(Remap(p)) = aliases[Parent(p)]
    BY <1>5, <2>1, <2>2, Moved
  <2> QED
    BY <1>5, <2>1, <2>2, <2>3 DEF Fits
<1>6. ASSUME p \notin D, ~(Len(p) = 2 /\ Parent(p) \in D) PROVE Remap(p) = p /\ Fits(p, Remap(p))
  <2>1. Remap(p) = p
    BY <1>2, <1>3, <1>6
  <2>2. Parent(p) \notin D
    <3>1. CASE Len(p) = 1
      <4>1. Len(Parent(p)) = 0
        BY <3>1, Parents
      <4> QED
        BY <1>1, <4>1, PathsAreShort
    <3>2. CASE Len(p) = 2
      BY <1>6, <3>2
    <3>3. Len(p) = 1 \/ Len(p) = 2
      BY PathsAreShort
    <3> QED
      BY <3>1, <3>2, <3>3
  <2>3. Loc(Parent(p)) = Parent(p)
    BY <2>2 DEF Loc
  <2> QED
    BY <2>1, <2>3 DEF Fits
<1> QED
  BY <1>4, <1>5, <1>6

\* "create-intent wins" follows.
LEMMA IntentsWin ==
    ASSUME MutateAssumption, SceneIsWhole, IntentsAreKept, IntentsAreThere
    PROVE  CreateIntentWins
<1> SUFFICES ASSUME NEW p \in Asked,
                    {q \in DOMAIN intent : IsPrefix(q, p)} # {},
                    intent[Longest({q \in DOMAIN intent : IsPrefix(q, p)})] \in Range(scene)
             PROVE  Remap(p) = PathOf(intent[Longest({q \in DOMAIN intent : IsPrefix(q, p)})])
                                 \o Below(p, Longest({q \in DOMAIN intent : IsPrefix(q, p)}))
  BY DEF CreateIntentWins
<1> DEFINE D == DOMAIN intent
           ps == {q \in D : IsPrefix(q, p)}
           l == Longest(ps)
<1>1. p \in Paths /\ D \subseteq Paths
  BY DEF MutateAssumption, IntentsAreKept
<1>2. /\ p \in D => p \in ps /\ l = p
      /\ p \notin D /\ Len(p) = 2 /\ Parent(p) \in D => Parent(p) \in ps /\ l = Parent(p)
      /\ p \notin D /\ ~(Len(p) = 2 /\ Parent(p) \in D) => ps = {}
  BY <1>1, LongestAbove
<1>3. l \in D
  BY <1>2
<1>4. intent[l] \in Range(scene)
  OBVIOUS
<1> HIDE DEF ps, l
<1>5. PathOf(intent[l]) = Loc(l)
  <2>1. PICK x \in DOMAIN scene : scene[x] = intent[l]
    BY <1>4 DEF Range
  <2>2. PathOf(intent[l]) \in DOMAIN scene /\ scene[PathOf(intent[l])] = intent[l]
    BY <2>1 DEF PathOf
  <2> QED
    BY <1>3, <2>2 DEF IntentsAreThere
<1>6. Remap(p) = Loc(l) \o Below(p, l)
  <2>1. /\ Fits(l, Loc(l)) /\ Loc(l) \in Paths /\ l \in Paths
        /\ l \notin DOMAIN aliases => Loc(l) = l
        /\ l \in DOMAIN aliases => Loc(l) = aliases[l]
    BY <1>1, <1>3 DEF IntentsAreKept, Fits, Loc
  <2>2. DOMAIN aliases \subseteq D
    BY DEF IntentsAreKept
  <2>3. CASE l = p
    <3>1. Loc(p) \o Below(p, p) = Loc(p)
      BY <1>1, <2>1, <2>3, Moved
    <3>2. CASE p \in DOMAIN aliases
      BY <1>1, <2>1, <2>3, <3>1, <3>2, Rewritten
    <3>3. CASE p \notin DOMAIN aliases
      <4>1. ASSUME Len(p) = 2, Parent(p) \in DOMAIN aliases PROVE FALSE
        <5>1. Parent(p) = Loc(Parent(p))
          BY <2>1, <2>3, <3>3 DEF Fits
        <5> QED
          BY <4>1, <5>1 DEF Loc, IntentsAreKept
      <4>2. Remap(p) = p
        BY <1>1, <3>3, <4>1, Rewritten
      <4> QED
        BY <2>1, <2>3, <3>1, <3>3, <4>2
    <3> QED
      BY <3>2, <3>3
  <2>4. CASE p \notin D /\ Len(p) = 2 /\ Parent(p) \in D
    <3>1. l = Parent(p) /\ p \notin DOMAIN aliases
      BY <1>2, <2>2, <2>4
    <3>2. CASE l \in DOMAIN aliases
      BY <1>1, <2>1, <2>4, <3>1, <3>2, Rewritten
    <3>3. CASE l \notin DOMAIN aliases
      <4>1. Remap(p) = p
        BY <1>1, <3>1, <3>3, Rewritten
      <4>2. Len(l) = 1
        BY <1>1, <2>4, <3>1, Parents
      <4>3. l \o Below(p, l) = p
        BY <1>1, <2>1, <2>4, <3>1, <4>2, Moved
      <4> QED
        BY <2>1, <3>3, <4>1, <4>3
    <3> QED
      BY <3>2, <3>3
  <2> QED
    BY <1>2, <2>3, <2>4 DEF ps
<1> QED
  BY <1>5, <1>6 DEF ps, l

-----------------------------------------------------------------------------
(* Functions changed at some places.                                       *)

LEMMA WithoutIs ==
    ASSUME NEW f, NEW ps
    PROVE  /\ DOMAIN Without(f, ps) = DOMAIN f \ ps
           /\ \A q \in DOMAIN f \ ps : Without(f, ps)[q] = f[q]
BY DEF Without

LEMMA UnwiredIs ==
    ASSUME NEW ws, NEW ps, NEW S, ws \in [DOMAIN ws -> S], DOMAIN ws \subseteq S
    PROVE  /\ Unwired(ws, ps) \in [DOMAIN Unwired(ws, ps) -> S \ ps]
           /\ DOMAIN Unwired(ws, ps) \subseteq S \ ps
           /\ (\A d \in DOMAIN ws : d \notin ps /\ ws[d] \notin ps) => Unwired(ws, ps) = ws
<1> DEFINE D == {d \in DOMAIN ws \ ps : ws[d] \notin ps}
<1>1. Unwired(ws, ps) = [d \in D |-> ws[d]]
  BY DEF Unwired
<1>2. D \subseteq S \ ps /\ \A d \in D : ws[d] \in S \ ps
  OBVIOUS
<1>3. ASSUME \A d \in DOMAIN ws : d \notin ps /\ ws[d] \notin ps PROVE Unwired(ws, ps) = ws
  <2>1. D = DOMAIN ws
    BY <1>3
  <2> QED
    BY <1>1, <2>1
<1> HIDE DEF D
<1>4. Unwired(ws, ps) \in [D -> S \ ps] /\ DOMAIN Unwired(ws, ps) = D
  BY <1>1, <1>2
<1> QED
  BY <1>2, <1>3, <1>4

LEMMA ParentsAreNotUnder ==
    ASSUME NEW p \in Paths, NEW q \in Paths, q \notin Under(p) \/ q = p
    PROVE  Parent(q) \notin Under(p) /\ Parent(q) # q
<1>1. Len(q) \in 1 .. 2 /\ Len(Parent(q)) = Len(q) - 1
  BY Parents, PathsAreShort
<1>2. Parent(q) # q
  BY <1>1
<1>3. ASSUME Parent(q) \in Under(p) PROVE FALSE
  <2>1. Parent(q) \in Paths /\ (Parent(q) = p \/ Len(Parent(q)) = 2)
    BY <1>3, WhatIsUnder
  <2>2. Len(Parent(q)) \in 1 .. 2
    BY <2>1, PathsAreShort
  <2>3. Len(Parent(q)) = 1 /\ Len(q) = 2
    BY <1>1, <2>2
  <2>4. Parent(q) = p
    BY <2>1, <2>3
  <2>5. q \in Under(p)
    BY <2>3, <2>4, WhatIsUnder
  <2> QED
    BY <1>2, <2>4, <2>5
<1> QED
  BY <1>2, <1>3

-----------------------------------------------------------------------------
(* The steps of a batch.                                                   *)

LEMMA NumberedIs ==
    ASSUME NEW s, IsFiniteSet(s)
    PROVE  Numbered(s) \in [s -> 1 .. Cardinality(s)] /\ IsInjective(Numbered(s))
<1>1. ExistsBijection(s, 1 .. Cardinality(s))
  BY FS_CardinalityType, Fun_ExistsBijSymmetric
<1>2. \E f \in [s -> 1 .. Cardinality(s)] : IsInjective(f)
  BY <1>1 DEF ExistsBijection, Bijection, Injection
<1> QED
  BY <1>2 DEF Numbered

LEMMA MutateInit0 == ASSUME MutateAssumption, MutateInit PROVE MutateInv
<1>1. PICK s \in Scenes : scene = Numbered(s)
  BY DEF MutateInit
<1>2. /\ s \subseteq Paths /\ IsFiniteSet(s) /\ Cardinality(s) \in Nat
      /\ \A p \in s : Len(p) > 1 => Front(p) \in s
  BY FS_CardinalityType DEF MutateAssumption
<1>3. scene \in [s -> 1 .. Cardinality(s)] /\ IsInjective(scene) /\ DOMAIN scene = s
  BY <1>1, <1>2, NumberedIs
<1>4. born = Cardinality(s) /\ \A p \in s : scene[p] \in 1 .. born
  BY <1>3 DEF MutateInit
<1>5. /\ wires = NoPaths /\ aliases = NoPaths /\ intent = NoPaths /\ doing = None /\ applied = 0
      /\ failedAt = None /\ refused = FALSE /\ picture = [ops |-> DOMAIN scene, wires |-> NoPaths]
  BY DEF MutateInit
<1>6. SceneIsWhole
  <2>1. \A p \in s : Len(p) = 2 => Parent(p) \in s
    <3> TAKE p \in s
    <3>1. Parent(p) = Front(p)
      BY <1>2, Parents
    <3> QED
      BY <1>2, <3>1
  <2>2. applied \in 0 .. MaxSteps
    BY <1>5 DEF MutateAssumption
  <2>3. wires \in [DOMAIN wires -> DOMAIN scene] /\ DOMAIN wires = {}
    BY <1>5 DEF NoPaths
  <2> QED
    BY <1>2, <1>3, <1>4, <1>5, <2>1, <2>2, <2>3 DEF SceneIsWhole, IsInjective
<1>7. DOMAIN aliases = {} /\ DOMAIN intent = {}
  BY <1>5 DEF NoPaths
<1>8. IntentsAreKept /\ IntentsAreThere
  BY <1>7 DEF IntentsAreKept, IntentsAreThere
<1>9. MakingIsNew /\ PictureIsTrue
  BY <1>5 DEF MakingIsNew, PictureIsTrue, Made
<1> QED
  BY <1>6, <1>8, <1>9 DEF MutateInv

\* Nothing is asked for, and nothing that was goes elsewhere.
LEMMA IntentsStay ==
    ASSUME SceneIsWhole, IntentsAreKept, IntentsAreThere, UNCHANGED <<aliases, intent>>,
           born' = born \/ born' = born + 1,
           \A q \in DOMAIN intent : \A p \in DOMAIN scene' :
             scene'[p] = intent[q] => p \in DOMAIN scene /\ scene[p] = intent[q]
    PROVE  IntentsAreKept' /\ IntentsAreThere'
<1>1. \A n \in 1 .. born : n \in 1 .. born'
  BY DEF SceneIsWhole
<1>2. IntentsAreKept'
  BY <1>1 DEF IntentsAreKept, Fits, Loc
<1>3. IntentsAreThere'
  BY DEF IntentsAreThere, Loc
<1> QED
  BY <1>2, <1>3

\* An operator v is made at a place, or what is being made becomes v there.
GoesOn(old, at, v) ==
    /\ old \subseteq Made /\ at \in Paths /\ v \in 1 .. born'
    /\ born' = born \/ born' = born + 1
    /\ at \notin DOMAIN scene \ old /\ (Len(at) = 2 => Parent(at) \in DOMAIN scene \ old)
    /\ DOMAIN scene' = (DOMAIN scene \ old) \cup {at} /\ scene'[at] = v
    /\ \A p \in DOMAIN scene \ old : scene'[p] = scene[p] /\ scene[p] # v
    /\ \A q \in DOMAIN intent : intent[q] # v
    /\ doing' \in Makings /\ doing'.made = at /\ applied < MaxSteps
    /\ Fits(doing'.requested, doing'.path) /\ Fits(doing'.requested, at)
    /\ UNCHANGED <<wires, aliases, applied, failedAt, picture, intent>>
    /\ refused' \in BOOLEAN /\ (~refused' => ~refused /\ old = Made)

LEMMA MakingGoesOn ==
    ASSUME MutateAssumption, MutateInv, NEW old, NEW at, NEW v, GoesOn(old, at, v)
    PROVE  MutateInv'
<1> USE DEF MutateInv, GoesOn
<1>1. old \subseteq DOMAIN scene /\ \A d \in DOMAIN wires : wires[d] \notin old /\ d \notin old
  BY DEF Made, MakingIsNew
<1>2. \A p \in DOMAIN scene : Len(p) = 2 => Parent(p) \in DOMAIN scene \ old
  BY DEF Made, MakingIsNew, SceneIsWhole
<1>3. at \notin DOMAIN wires /\ \A d \in DOMAIN wires : wires[d] # at
  BY <1>1 DEF SceneIsWhole
<1>4. SceneIsWhole'
  <2>1. wires \in [DOMAIN wires -> DOMAIN scene'] /\ DOMAIN wires \subseteq DOMAIN scene'
    <3>1. wires \in [DOMAIN wires -> DOMAIN scene] /\ DOMAIN wires \subseteq DOMAIN scene
      BY DEF SceneIsWhole
    <3>2. \A d \in DOMAIN wires : wires[d] \in DOMAIN scene' /\ d \in DOMAIN scene'
      BY <1>1, <3>1
    <3> QED
      BY <3>1, <3>2
  <2>2. born' \in Nat /\ \A n \in 1 .. born : n \in 1 .. born'
    BY DEF SceneIsWhole
  <2>3. \A p \in DOMAIN scene' : scene'[p] \in 1 .. born'
    BY <2>2 DEF SceneIsWhole
  <2>4. \A p \in DOMAIN scene' : Len(p) = 2 => Parent(p) \in DOMAIN scene'
    BY <1>2
  <2>5. \A p, q \in DOMAIN scene' : scene'[p] = scene'[q] => p = q
    BY DEF SceneIsWhole
  <2>6. DOMAIN scene' \subseteq Paths
    BY DEF SceneIsWhole
  <2> QED
    BY <2>1, <2>2, <2>3, <2>4, <2>5, <2>6 DEF SceneIsWhole
<1>5. IntentsAreKept' /\ IntentsAreThere'
  BY IntentsStay
<1>6. MakingIsNew'
  <2>1. Fits(doing.requested, doing.path)' /\ Fits(doing.requested, doing.made)'
    BY DEF Fits, Loc
  <2>2. \A p \in DOMAIN scene' : Len(p) = 2 => Parent(p) # at
    <3>1. Parent(at) # at
      BY ParentsAreNotUnder
    <3> QED
      BY <1>2, <3>1
  <2> QED
    BY <1>3, <2>1, <2>2 DEF MakingIsNew
<1>7. PictureIsTrue'
  <2>1. picture = [ops |-> picture.ops, wires |-> picture.wires] /\ picture' = picture
    BY DEF PictureIsTrue
  <2>2. ASSUME ~refused' PROVE picture.wires = wires /\ picture.ops = DOMAIN scene' \ {at}
    <3>1. picture.wires = wires /\ picture.ops = DOMAIN scene \ old
      BY <2>2 DEF PictureIsTrue
    <3>2. DOMAIN scene' \ {at} = DOMAIN scene \ old
      OBVIOUS
    <3> QED
      BY <3>1, <3>2
  <2>3. Made' = {at}
    BY DEF Made, MutateAssumption
  <2> QED
    BY <2>1, <2>2, <2>3 DEF PictureIsTrue
<1> QED
  BY <1>4, <1>5, <1>6, <1>7

\* Where TouchDesigner puts an operator asked for at p.
LEMMA FreePlaces ==
    ASSUME MutateAssumption, MutateInv, NEW p \in Paths, NEW path, Fits(p, path),
           NEW at \in FreeBelow(Parent(path))
    PROVE  at \in Paths /\ at \notin DOMAIN scene /\ Fits(p, at) /\ Len(at) = Len(p)
<1>1. at \in Paths /\ at \notin DOMAIN scene /\ Parent(at) = Parent(path) /\ path \in Paths
  BY DEF FreeBelow, Fits
<1>2. Len(at) = Len(path)
  <2>1. /\ Len(at) \in 1 .. 2 /\ Len(path) \in 1 .. 2
        /\ Len(Parent(at)) = Len(at) - 1 /\ Len(Parent(path)) = Len(path) - 1
    BY <1>1, Parents, PathsAreShort
  <2> QED
    BY <1>1, <2>1
<1> QED
  BY <1>1, <1>2 DEF Fits

LEMMA GivenIsFree == \A p : Given(p) \subseteq FreeBelow(Parent(p))
BY DEF Given

LEMMA BeginKeepsBatch ==
    ASSUME MutateAssumption, MutateInv, MutateReady, NEW p \in Asked, IsHome(Parent(Remap(p))),
           NEW at \in FreeBelow(Parent(Remap(p))), NEW op \in {"create", "place"},
           scene' = With(scene, at, born + 1), Begin(op, p, at), born' = born + 1,
           UNCHANGED <<wires, aliases, applied, failedAt, picture, intent, refused>>
    PROVE  MutateInv'
<1>1. p \in Paths /\ Fits(p, Remap(p)) /\ Remap(p) \in Paths
  BY Rewritten DEF MutateAssumption, MutateInv, Fits
<1>2. at \in Paths /\ at \notin DOMAIN scene /\ Fits(p, at) /\ Parent(at) = Parent(Remap(p))
  BY <1>1, FreePlaces DEF FreeBelow
<1>3. Len(at) = 2 => Parent(at) \in DOMAIN scene
  <2>1. ASSUME Parent(at) = <<>> PROVE Len(at) # 2
    <3>1. Len(Parent(at)) = Len(at) - 1 /\ Len(at) \in 1 .. 2 /\ Len(Parent(at)) = 0
      BY <1>2, <2>1, Parents, PathsAreShort, EmptySeq
    <3> QED
      BY <3>1
  <2> QED
    BY <1>2, <2>1 DEF IsHome
<1>4. /\ doing' = [op |-> op, phase |-> IF op = "place" THEN "unwrap" ELSE "fields",
                   requested |-> p, path |-> Remap(p), made |-> at]
      /\ doing = None /\ applied < MaxSteps
  BY DEF Begin, MutateReady
<1>5. doing' \in Makings /\ doing'.made = at /\ doing'.requested = p /\ doing'.path = Remap(p)
  BY <1>1, <1>2, <1>4 DEF Makings
<1> DEFINE v == born + 1
<1>6. /\ DOMAIN scene' = DOMAIN scene \cup {at} /\ scene'[at] = v
      /\ \A q \in DOMAIN scene : q # at => scene'[q] = scene[q]
  <2>1. scene' = With(scene, at, v)
    OBVIOUS
  <2> HIDE DEF v
  <2>2. /\ DOMAIN With(scene, at, v) = DOMAIN scene \cup {at} /\ With(scene, at, v)[at] = v
        /\ \A q \in DOMAIN scene : q # at => With(scene, at, v)[q] = scene[q]
    BY DEF With
  <2> QED
    BY <2>1, <2>2
<1>7. born \in Nat /\ (\A q \in DOMAIN scene : scene[q] # v) /\ \A q \in DOMAIN intent : intent[q] # v
  BY DEF MutateInv, SceneIsWhole, IntentsAreKept
<1>8. Made = {} /\ refused \in BOOLEAN /\ v \in 1 .. born' /\ (DOMAIN scene) \ {} = DOMAIN scene
  BY <1>4, <1>7 DEF Made, MutateInv, SceneIsWhole
<1> HIDE DEF v
<1>9. Fits(doing'.requested, doing'.path) /\ Fits(doing'.requested, at)
  BY <1>1, <1>2, <1>5
<1> DEFINE none == {}
<1>10. /\ none \in SUBSET Made /\ none = Made /\ DOMAIN scene \ none = DOMAIN scene
  BY <1>8
<1> HIDE DEF none
<1>11. /\ at \notin DOMAIN scene \ none /\ (Len(at) = 2 => Parent(at) \in DOMAIN scene \ none)
       /\ DOMAIN scene' = (DOMAIN scene \ none) \cup {at}
       /\ \A q \in DOMAIN scene \ none : scene'[q] = scene[q] /\ scene[q] # v
  BY <1>2, <1>3, <1>6, <1>7, <1>10
<1>12. refused' \in BOOLEAN /\ (~refused' => ~refused /\ none = Made)
  BY <1>8, <1>10
<1>13. (born' = born \/ born' = born + 1) /\ applied < MaxSteps
  BY <1>4
<1>14. GoesOn(none, at, v)
  BY <1>2, <1>5, <1>6, <1>7, <1>8, <1>9, <1>10, <1>11, <1>12, <1>13 DEF GoesOn
<1> QED
  BY <1>14, MakingGoesOn

\* A place of the same kind as the one what is being made has.
LEMMA ElsewhereNearby ==
    ASSUME MutateAssumption, MutateInv, doing # None, NEW at \in Paths, Fits(doing.requested, at)
    PROVE  Len(at) = 2 => Parent(at) \in DOMAIN scene \ {doing.made}
<1>1. /\ Fits(doing.requested, doing.made) /\ doing.made \in DOMAIN scene
      /\ \A p \in DOMAIN scene : Len(p) = 2 => Parent(p) # doing.made /\ Parent(p) \in DOMAIN scene
  BY DEF MutateInv, MakingIsNew, SceneIsWhole
<1>2. Parent(at) = Parent(doing.made) /\ Len(at) = Len(doing.made)
  BY <1>1 DEF Fits
<1> QED
  BY <1>1, <1>2

LEMMA MakingTypes ==
    ASSUME MutateInv, doing # None
    PROVE  /\ doing \in Makings /\ applied < MaxSteps /\ doing.made \in Paths
           /\ doing.requested \in Asked /\ Made = {doing.made} /\ doing.made \in DOMAIN scene
           /\ Fits(doing.requested, doing.path) /\ Fits(doing.requested, doing.made)
           /\ born \in Nat /\ refused \in BOOLEAN
           /\ \A q \in DOMAIN scene : scene[q] # born + 1
           /\ \A q \in DOMAIN intent : intent[q] # born + 1
BY DEF MutateInv, MakingIsNew, Makings, Made, SceneIsWhole, IntentsAreKept

\* What is being made goes away, or is there to stay and no result is true any more.
LEMMA GiveUpKeepsBatch ==
    ASSUME MutateAssumption, MutateInv, doing # None, StepFailed, Rollback(doing.made)
    PROVE  MutateInv'
<1> USE DEF MutateInv
<1> DEFINE m == doing.made
<1>1. /\ failedAt' = applied /\ doing' = None
      /\ UNCHANGED <<born, aliases, applied, picture, intent>>
  BY DEF StepFailed
<1>2. MakingIsNew' /\ Made' = {}
  BY <1>1 DEF MakingIsNew, Made
<1>3. CASE Destroy(m) /\ UNCHANGED refused
  <2>1. m \in Paths /\ m \in DOMAIN scene /\ Made = {m}
    BY MakingTypes
  <2>2. \A p \in DOMAIN scene : p \in Under(m) <=> p = m
    <3>1. \A p \in DOMAIN scene : p \in Paths /\ (Len(p) = 2 => Parent(p) # m)
      BY DEF MakingIsNew, SceneIsWhole
    <3> QED
      BY <2>1, <3>1, WhatIsUnder
  <2> HIDE DEF m
  <2>3. scene' = Without(scene, Under(m)) /\ wires' = Unwired(wires, Under(m))
    BY <1>3 DEF Destroy
  <2>4. DOMAIN scene' = DOMAIN scene \ {m} /\ \A p \in DOMAIN scene \ {m} : scene'[p] = scene[p]
    BY <2>2, <2>3, WithoutIs
  <2>5. \A d \in DOMAIN wires : d \notin Under(m) /\ wires[d] \notin Under(m) /\ wires[d] # m /\ d # m
    <3>1. \A d \in DOMAIN wires : d \in DOMAIN scene /\ wires[d] \in DOMAIN scene
      BY DEF SceneIsWhole
    <3>2. \A d \in DOMAIN wires : wires[d] # m /\ d # m
      BY DEF MakingIsNew, m
    <3> QED
      BY <2>2, <3>1, <3>2
  <2>6. wires' = wires
    <3>1. wires \in [DOMAIN wires -> DOMAIN scene] /\ DOMAIN wires \subseteq DOMAIN scene
      BY DEF SceneIsWhole
    <3> QED
      BY <2>3, <2>5, <3>1, UnwiredIs
  <2>7. SceneIsWhole'
    <3>1. wires' \in [DOMAIN wires' -> DOMAIN scene'] /\ DOMAIN wires' \subseteq DOMAIN scene'
      BY <2>4, <2>5, <2>6 DEF SceneIsWhole
    <3>2. \A p \in DOMAIN scene' : Len(p) = 2 => Parent(p) \in DOMAIN scene'
      BY <2>4 DEF SceneIsWhole, MakingIsNew, m
    <3>3. \A p, q \in DOMAIN scene' : scene'[p] = scene'[q] => p = q
      BY <2>4 DEF SceneIsWhole
    <3> QED
      BY <1>1, <1>3, <2>4, <3>1, <3>2, <3>3 DEF SceneIsWhole
  <2>8. IntentsAreKept' /\ IntentsAreThere'
    BY <1>1, <2>4, IntentsStay
  <2>9. PictureIsTrue'
    BY <1>1, <1>2, <1>3, <2>1, <2>4, <2>6 DEF PictureIsTrue
  <2> QED
    BY <1>2, <2>7, <2>8, <2>9
<1>4. CASE refused' = TRUE /\ UNCHANGED <<scene, wires>>
  <2>1. SceneIsWhole'
    BY <1>1, <1>4 DEF SceneIsWhole
  <2>2. IntentsAreKept' /\ IntentsAreThere'
    BY <1>1, <1>4, IntentsStay
  <2>3. PictureIsTrue'
    BY <1>1, <1>4 DEF PictureIsTrue
  <2> QED
    BY <1>2, <2>1, <2>2, <2>3
<1> QED
  BY <1>3, <1>4 DEF Rollback

LEMMA UnwrapKeepsBatch ==
    ASSUME MutateAssumption, MutateInv, PlaceUnwrap
    PROVE  MutateInv'
<1> DEFINE m == doing.made
<1>1. doing # None /\ doing \in Makings
  BY MakingTypes DEF PlaceUnwrap
<1>2. CASE /\ doing' = [doing EXCEPT !.phase = "name"]
           /\ UNCHANGED <<scene, wires, born, aliases, applied, failedAt, picture, intent, refused>>
  <2>1. /\ doing' \in Makings /\ doing'.requested = doing.requested /\ doing'.path = doing.path
        /\ doing'.made = doing.made /\ doing' # None
    BY <1>1, <1>2 DEF Makings, MutateAssumption
  <2>2. Made' = Made
    BY <1>1, <2>1 DEF Made
  <2>3. SceneIsWhole' /\ PictureIsTrue'
    BY <1>2, <2>2 DEF MutateInv, SceneIsWhole, PictureIsTrue
  <2>4. IntentsAreKept' /\ IntentsAreThere'
    BY <1>2, IntentsStay DEF MutateInv
  <2>5. MakingIsNew'
    BY <1>1, <1>2, <2>1 DEF MutateInv, MakingIsNew, Fits, Loc
  <2> QED
    BY <2>3, <2>4, <2>5 DEF MutateInv
<1>3. ASSUME NEW at \in FreeBelow(Parent(doing.made)),
             doing' = [doing EXCEPT !.phase = "name", !.made = at],
             \/ scene' = With(Without(scene, {doing.made}), at, born + 1) /\ UNCHANGED refused
             \/ scene' = With(scene, at, born + 1) /\ refused' = TRUE,
             born' = born + 1, UNCHANGED <<wires, aliases, applied, failedAt, picture, intent>>
      PROVE  MutateInv'
  <2>1. /\ m \in Paths /\ m \in DOMAIN scene /\ Made = {m} /\ doing.requested \in Paths
        /\ Fits(doing.requested, m) /\ Fits(doing.requested, doing.path) /\ applied < MaxSteps
        /\ born \in Nat /\ refused \in BOOLEAN
        /\ \A q \in DOMAIN scene : scene[q] # born + 1
        /\ \A q \in DOMAIN intent : intent[q] # born + 1
    BY <1>1, MakingTypes DEF MutateAssumption
  <2>2. at \in Paths /\ at \notin DOMAIN scene /\ Fits(doing.requested, at)
    BY <1>3, <2>1, FreePlaces
  <2>3. Len(at) = 2 => Parent(at) \in DOMAIN scene \ {m}
    BY <1>1, <2>2, ElsewhereNearby
  <2>4. /\ doing' \in Makings /\ doing'.made = at
        /\ doing'.requested = doing.requested /\ doing'.path = doing.path
    BY <1>1, <1>3, <2>2 DEF Makings
  <2> DEFINE v == born + 1
  <2>5. /\ v \in 1 .. born' /\ (\A q \in DOMAIN scene : scene[q] # v) /\ \A q \in DOMAIN intent : intent[q] # v
        /\ \/ scene' = With(Without(scene, {m}), at, v) /\ UNCHANGED refused
           \/ scene' = With(scene, at, v) /\ refused' = TRUE
    BY <1>3, <2>1
  <2>8. /\ born' = born \/ born' = born + 1
        /\ Fits(doing'.requested, doing'.path) /\ Fits(doing'.requested, at)
        /\ UNCHANGED <<wires, aliases, applied, failedAt, picture, intent>>
    BY <1>3, <2>1, <2>2, <2>4
  <2> HIDE DEF m, v
  <2>6. CASE scene' = With(Without(scene, {m}), at, v) /\ UNCHANGED refused
    <3> DEFINE old == {m}
    <3>1. /\ DOMAIN scene' = (DOMAIN scene \ old) \cup {at} /\ scene'[at] = v
          /\ \A p \in DOMAIN scene \ old : scene'[p] = scene[p] /\ scene[p] # v
      <4> DEFINE rest == Without(scene, {m})
      <4>1. DOMAIN rest = DOMAIN scene \ {m} /\ \A p \in DOMAIN scene \ {m} : rest[p] = scene[p]
        BY WithoutIs
      <4>2. scene' = With(rest, at, v)
        BY <2>6
      <4> HIDE DEF rest
      <4>3. /\ DOMAIN With(rest, at, v) = DOMAIN rest \cup {at} /\ With(rest, at, v)[at] = v
            /\ \A q \in DOMAIN rest : q # at => With(rest, at, v)[q] = rest[q]
        BY DEF With
      <4> QED
        BY <2>2, <2>5, <4>1, <4>2, <4>3
    <3>2. /\ old \in SUBSET Made /\ at \notin DOMAIN scene \ old
          /\ (Len(at) = 2 => Parent(at) \in DOMAIN scene \ old)
          /\ refused' \in BOOLEAN /\ (~refused' => ~refused /\ old = Made)
      BY <2>1, <2>2, <2>3, <2>6
    <3> HIDE DEF old
    <3>3. GoesOn(old, at, v)
      BY <2>1, <2>2, <2>4, <2>5, <2>8, <3>1, <3>2 DEF GoesOn
    <3> QED
      BY <3>3, MakingGoesOn
  <2>7. CASE scene' = With(scene, at, v) /\ refused' = TRUE
    <3> DEFINE old == {}
    <3>1. /\ DOMAIN scene' = (DOMAIN scene \ old) \cup {at} /\ scene'[at] = v
          /\ \A p \in DOMAIN scene \ old : scene'[p] = scene[p] /\ scene[p] # v
      <4>1. /\ DOMAIN With(scene, at, v) = DOMAIN scene \cup {at} /\ With(scene, at, v)[at] = v
            /\ \A q \in DOMAIN scene : q # at => With(scene, at, v)[q] = scene[q]
        BY DEF With
      <4> QED
        BY <2>2, <2>5, <2>7, <4>1
    <3>2. /\ old \in SUBSET Made /\ at \notin DOMAIN scene \ old
          /\ (Len(at) = 2 => Parent(at) \in DOMAIN scene \ old)
          /\ refused' \in BOOLEAN /\ (~refused' => ~refused /\ old = Made)
      BY <2>1, <2>2, <2>3, <2>7
    <3> HIDE DEF old
    <3>3. GoesOn(old, at, v)
      BY <2>1, <2>2, <2>4, <2>5, <2>8, <3>1, <3>2 DEF GoesOn
    <3> QED
      BY <3>3, MakingGoesOn
  <2> QED
    BY <2>5, <2>6, <2>7
<1>4. CASE StepFailed /\ Rollback(doing.made)
  BY <1>1, <1>4, GiveUpKeepsBatch
<1> QED
  BY <1>2, <1>3, <1>4 DEF PlaceUnwrap

LEMMA NameKeepsBatch ==
    ASSUME MutateAssumption, MutateInv, PlaceName
    PROVE  MutateInv'
<1> DEFINE m == doing.made
           v == scene[m]
<1>1. doing # None /\ doing \in Makings
  BY MakingTypes DEF PlaceName
<1>2. PICK at \in {m} \cup Given(doing.path) :
           /\ scene' = With(Without(scene, {m}), at, v)
           /\ doing' = [doing EXCEPT !.phase = "fields", !.made = at]
  BY DEF PlaceName
<1>3. UNCHANGED <<wires, born, aliases, applied, failedAt, picture, intent, refused>>
  BY DEF PlaceName
<1>4. /\ m \in Paths /\ m \in DOMAIN scene /\ Made = {m} /\ doing.requested \in Paths
      /\ Fits(doing.requested, m) /\ Fits(doing.requested, doing.path) /\ applied < MaxSteps
      /\ born \in Nat /\ refused \in BOOLEAN
  BY <1>1, MakingTypes DEF MutateAssumption
<1>5. at \in Paths /\ (at = m \/ at \notin DOMAIN scene) /\ Fits(doing.requested, at)
  <2>1. CASE at = m
    BY <1>4, <2>1
  <2>2. CASE at \in Given(doing.path)
    BY <1>4, <2>2, FreePlaces, GivenIsFree
  <2> QED
    BY <2>1, <2>2
<1>6. Len(at) = 2 => Parent(at) \in DOMAIN scene \ {m}
  BY <1>1, <1>5, ElsewhereNearby
<1>7. /\ doing' \in Makings /\ doing'.made = at
      /\ doing'.requested = doing.requested /\ doing'.path = doing.path
  BY <1>1, <1>2, <1>5 DEF Makings
<1>8. /\ v \in 1 .. born' /\ (\A q \in DOMAIN scene \ {m} : scene[q] # v)
      /\ \A q \in DOMAIN intent : intent[q] # v
  BY <1>1, <1>3, <1>4 DEF MutateInv, SceneIsWhole, MakingIsNew
<1> HIDE DEF v, m
<1> DEFINE old == {m}
<1>9. /\ DOMAIN scene' = (DOMAIN scene \ old) \cup {at} /\ scene'[at] = v
      /\ \A p \in DOMAIN scene \ old : scene'[p] = scene[p] /\ scene[p] # v
  <2> DEFINE rest == Without(scene, {m})
  <2>1. DOMAIN rest = DOMAIN scene \ {m} /\ \A p \in DOMAIN scene \ {m} : rest[p] = scene[p]
    BY WithoutIs
  <2>2. scene' = With(rest, at, v)
    BY <1>2
  <2> HIDE DEF rest
  <2>3. /\ DOMAIN With(rest, at, v) = DOMAIN rest \cup {at} /\ With(rest, at, v)[at] = v
        /\ \A q \in DOMAIN rest : q # at => With(rest, at, v)[q] = rest[q]
    BY DEF With
  <2> QED
    BY <1>5, <1>8, <2>1, <2>2, <2>3
<1>10. /\ old \in SUBSET Made /\ at \notin DOMAIN scene \ old
       /\ (Len(at) = 2 => Parent(at) \in DOMAIN scene \ old)
       /\ refused' \in BOOLEAN /\ (~refused' => ~refused /\ old = Made)
  BY <1>3, <1>4, <1>5, <1>6
<1> HIDE DEF old
<1>11. GoesOn(old, at, v)
  BY <1>3, <1>4, <1>5, <1>7, <1>8, <1>9, <1>10 DEF GoesOn
<1> QED
  BY <1>11, MakingGoesOn

\* A result: what is being made is what was asked for, instead of anything asked for
\* there or below before.
LEMMA WrittenKeepsBatch ==
    ASSUME MutateAssumption, MutateInv, FieldsWritten
    PROVE  MutateInv'
<1> USE DEF MutateInv
<1>0. PICK m, r, v : m = doing.made /\ r = doing.requested /\ v = scene[m]
  OBVIOUS
<1> DEFINE U == Under(r)
<1>1. /\ doing # None /\ aliases' = AliasesAfter(r, m)
      /\ intent' = With(Without(intent, U), r, v)
      /\ applied' = applied + 1 /\ doing' = None
      /\ picture' = [picture EXCEPT !.ops = @ \cup {m}]
      /\ UNCHANGED <<scene, wires, born, failedAt, refused>>
  BY <1>0 DEF FieldsWritten, StepApplied
<1>2. /\ doing \in Makings /\ m \in Paths /\ m \in DOMAIN scene /\ r \in Asked /\ r \in Paths
      /\ Fits(r, m) /\ Made = {m} /\ applied < MaxSteps /\ v \in 1 .. born
  BY <1>0, <1>1, MakingTypes DEF MutateAssumption, SceneIsWhole
<1>3. r \in U /\ DOMAIN intent \subseteq Asked /\ DOMAIN aliases \subseteq DOMAIN intent
  BY <1>2, WhatIsUnder DEF IntentsAreKept
<1> HIDE DEF U
<1>4. /\ DOMAIN intent' = (DOMAIN intent \ U) \cup {r} /\ intent'[r] = v
      /\ \A q \in DOMAIN intent \ U : intent'[q] = intent[q]
  BY <1>1, <1>3 DEF With, Without
<1>5. /\ DOMAIN aliases' = (DOMAIN aliases \ U) \cup (IF m = r THEN {} ELSE {r})
      /\ m # r => aliases'[r] = m
      /\ \A q \in DOMAIN aliases \ U : aliases'[q] = aliases[q]
  BY <1>1, <1>3 DEF AliasesAfter, With, Without, U
<1>6. Loc(r)' = m /\ \A q : q \notin U => Loc(q)' = Loc(q)
  BY <1>3, <1>5 DEF Loc
<1>7. \A q \in Paths : q \notin U \/ q = r => Loc(Parent(q))' = Loc(Parent(q))
  BY <1>2, <1>6, ParentsAreNotUnder DEF U
<1>8. SceneIsWhole'
  BY <1>1, <1>2 DEF SceneIsWhole, MutateAssumption
<1>9. IntentsAreKept'
  <2>1. DOMAIN aliases' \subseteq DOMAIN intent' /\ DOMAIN intent' \subseteq Asked
    BY <1>2, <1>3, <1>4, <1>5
  <2>2. \A q \in DOMAIN aliases' : aliases'[q] \in Paths /\ aliases'[q] # q
    BY <1>2, <1>5 DEF IntentsAreKept
  <2>3. ASSUME NEW q \in DOMAIN intent' PROVE intent'[q] \in 1 .. born' /\ Fits(q, Loc(q))'
    <3>1. CASE q = r
      BY <1>1, <1>2, <1>4, <1>6, <1>7, <3>1 DEF Fits
    <3>2. CASE q \in DOMAIN intent \ U
      <4>1. q \in Paths
        BY <1>3, <3>2 DEF MutateAssumption
      <4> QED
        BY <1>1, <1>4, <1>6, <1>7, <3>2, <4>1 DEF Fits, IntentsAreKept
    <3> QED
      BY <1>4, <3>1, <3>2
  <2> QED
    BY <2>1, <2>2, <2>3 DEF IntentsAreKept
<1>10. IntentsAreThere'
  <2>1. \A p \in DOMAIN scene : scene[p] = v => p = m
    BY <1>0, <1>2 DEF SceneIsWhole
  <2> QED
    BY <1>1, <1>4, <1>6, <2>1 DEF IntentsAreThere
<1>11. MakingIsNew' /\ Made' = {}
  BY <1>1 DEF MakingIsNew, Made
<1>12. PictureIsTrue'
  <2>1. picture = [ops |-> picture.ops, wires |-> picture.wires]
    BY DEF PictureIsTrue
  <2>2. picture' = [ops |-> picture.ops \cup {m}, wires |-> picture.wires]
    BY <1>1, <2>1
  <2>3. picture'.ops = picture.ops \cup {m} /\ picture'.wires = picture.wires
    BY <2>2
  <2>4. picture' = [ops |-> picture'.ops, wires |-> picture'.wires]
    BY <2>2, <2>3
  <2>5. ASSUME ~refused' PROVE picture'.wires = wires' /\ picture'.ops = DOMAIN scene' \ Made'
    <3>1. picture.wires = wires /\ picture.ops = DOMAIN scene \ {m} /\ scene' = scene /\ wires' = wires
      BY <1>1, <1>2, <2>5 DEF PictureIsTrue
    <3> QED
      BY <1>2, <1>11, <2>3, <3>1
  <2> QED
    BY <2>4, <2>5 DEF PictureIsTrue
<1> QED
  BY <1>8, <1>9, <1>10, <1>11, <1>12

\* A step that is not refused outside a create or place: what it leaves, and the picture.
LEMMA ChangeKeepsBatch ==
    ASSUME MutateAssumption, MutateInv, MutateReady, NEW report, StepChanges(report),
           DOMAIN scene' \subseteq DOMAIN scene, \A p \in DOMAIN scene' : scene'[p] = scene[p],
           \A p \in DOMAIN scene' : Len(p) = 2 => Parent(p) \in DOMAIN scene',
           wires' \in [DOMAIN wires' -> DOMAIN scene'], DOMAIN wires' \subseteq DOMAIN scene',
           report = [ops |-> report.ops, wires |-> report.wires],
           ~refused => report.wires = wires' /\ report.ops = DOMAIN scene'
    PROVE  MutateInv'
<1> USE DEF MutateInv
<1>1. /\ doing = None /\ applied < MaxSteps /\ applied' = applied + 1 /\ doing' = None
      /\ picture' = report /\ UNCHANGED <<born, failedAt, refused, aliases, intent>>
  BY DEF MutateReady, StepChanges, StepApplied
<1>2. SceneIsWhole'
  BY <1>1 DEF SceneIsWhole, MutateAssumption
<1>3. IntentsAreKept' /\ IntentsAreThere'
  BY <1>1, IntentsStay
<1>4. MakingIsNew' /\ Made' = {}
  BY <1>1 DEF MakingIsNew, Made
<1>5. PictureIsTrue'
  BY <1>1, <1>4 DEF PictureIsTrue
<1> QED
  BY <1>2, <1>3, <1>4, <1>5

LEMMA RefusedKeepsBatch ==
    ASSUME MutateAssumption, MutateInv, MutateReady, StepRefused
    PROVE  MutateInv'
<1> USE DEF MutateInv
<1>1. /\ doing = None /\ doing' = None /\ failedAt' = applied
      /\ UNCHANGED <<scene, wires, born, aliases, applied, picture, intent, refused>>
  BY DEF MutateReady, StepRefused, StepFailed
<1>2. SceneIsWhole'
  BY <1>1 DEF SceneIsWhole
<1>3. IntentsAreKept' /\ IntentsAreThere'
  BY <1>1, IntentsStay
<1>4. MakingIsNew' /\ PictureIsTrue'
  BY <1>1 DEF MakingIsNew, PictureIsTrue, Made
<1> QED
  BY <1>2, <1>3, <1>4

\* The picture outside a create or place.
LEMMA PictureBetweenSteps ==
    ASSUME MutateInv, doing = None
    PROVE  /\ picture = [ops |-> picture.ops, wires |-> picture.wires]
           /\ ~refused => picture.wires = wires /\ picture.ops = DOMAIN scene
           /\ wires \in [DOMAIN wires -> DOMAIN scene] /\ DOMAIN wires \subseteq DOMAIN scene
           /\ \A p \in DOMAIN scene : p \in Paths /\ (Len(p) = 2 => Parent(p) \in DOMAIN scene)
BY DEF MutateInv, PictureIsTrue, Made, SceneIsWhole

LEMMA SetKeepsBatch ==
    ASSUME MutateAssumption, MutateInv, NEW p \in Asked, StepSet(p)
    PROVE  MutateInv'
<1>1. MutateReady /\ doing = None
  BY DEF StepSet, MutateReady
<1>2. CASE StepChanges(picture) /\ UNCHANGED <<scene, wires>>
  BY <1>1, <1>2, PictureBetweenSteps, ChangeKeepsBatch
<1> QED
  BY <1>1, <1>2, RefusedKeepsBatch DEF StepSet

LEMMA DeleteKeepsBatch ==
    ASSUME MutateAssumption, MutateInv, NEW p \in Asked, StepDelete(p)
    PROVE  MutateInv'
<1> DEFINE r == Remap(p)
           U == Under(r)
           report == [ops |-> picture.ops \ U, wires |-> Unwired(picture.wires, U)]
<1>1. MutateReady /\ doing = None
  BY DEF StepDelete, MutateReady
<1>2. CASE Resolves(p) /\ Destroy(r) /\ StepChanges(report)
  <2>1. r \in DOMAIN scene /\ r \in Paths
    BY <1>1, <1>2, PictureBetweenSteps DEF Resolves
  <2>2. scene' = Without(scene, U) /\ wires' = Unwired(wires, U)
    BY <1>2 DEF Destroy
  <2>3. \A q \in DOMAIN scene \ U : Len(q) = 2 => Parent(q) \in DOMAIN scene \ U
    BY <1>1, <2>1, PictureBetweenSteps, ParentsAreNotUnder
  <2> HIDE DEF r, U
  <2>4. DOMAIN scene' = DOMAIN scene \ U /\ \A q \in DOMAIN scene' : scene'[q] = scene[q]
    BY <2>2 DEF Without
  <2>5. wires' \in [DOMAIN wires' -> DOMAIN scene'] /\ DOMAIN wires' \subseteq DOMAIN scene'
    <3>1. wires \in [DOMAIN wires -> DOMAIN scene] /\ DOMAIN wires \subseteq DOMAIN scene
      BY <1>1, PictureBetweenSteps
    <3>2. /\ Unwired(wires, U) \in [DOMAIN Unwired(wires, U) -> DOMAIN scene \ U]
          /\ DOMAIN Unwired(wires, U) \subseteq DOMAIN scene \ U
      BY <3>1, UnwiredIs
    <3> QED
      BY <2>2, <2>4, <3>2
  <2>6. /\ report = [ops |-> report.ops, wires |-> report.wires]
        /\ ~refused => report.wires = wires' /\ report.ops = DOMAIN scene'
    BY <1>1, <2>2, <2>4, PictureBetweenSteps
  <2>7. StepChanges(report)
    BY <1>2
  <2> HIDE DEF report
  <2> QED
    BY <1>1, <2>3, <2>4, <2>5, <2>6, <2>7, ChangeKeepsBatch
<1> QED
  BY <1>1, <1>2, RefusedKeepsBatch DEF StepDelete

LEMMA WiringKeepsBatch ==
    ASSUME MutateAssumption, MutateInv, MutateReady, UNCHANGED scene,
           NEW report, report = [picture EXCEPT !.wires = report.wires], StepChanges(report),
           wires' \in [DOMAIN wires' -> DOMAIN scene], DOMAIN wires' \subseteq DOMAIN scene,
           ~refused => report.wires = wires'
    PROVE  MutateInv'
<1>1. doing = None
  BY DEF MutateReady
<1>2. report = [ops |-> report.ops, wires |-> report.wires] /\ report.ops = picture.ops
  <2>1. picture = [ops |-> picture.ops, wires |-> picture.wires]
    BY <1>1, PictureBetweenSteps
  <2>2. report = [ops |-> picture.ops, wires |-> report.wires]
    BY <2>1
  <2> QED
    BY <2>2
<1>3. \A p \in DOMAIN scene : Len(p) = 2 => Parent(p) \in DOMAIN scene
  BY <1>1, PictureBetweenSteps
<1>4. ~refused => report.ops = DOMAIN scene'
  BY <1>1, <1>2, PictureBetweenSteps
<1> QED
  BY <1>2, <1>3, <1>4, ChangeKeepsBatch

LEMMA ConnectKeepsBatch ==
    ASSUME MutateAssumption, MutateInv, NEW s \in Asked, NEW d \in Asked, NEW policy,
           StepConnect(s, d, policy)
    PROVE  MutateInv'
<1> DEFINE from == Remap(s)
           to == Remap(d)
           report == [picture EXCEPT !.wires = With(@, to, from)]
<1>1. MutateReady /\ doing = None
  BY DEF StepConnect, MutateReady
<1>2. CASE /\ from \in DOMAIN scene /\ to \in DOMAIN scene
           /\ wires' = With(wires, to, from) /\ StepChanges(report) /\ UNCHANGED scene
  <2>1. /\ wires \in [DOMAIN wires -> DOMAIN scene] /\ DOMAIN wires \subseteq DOMAIN scene
        /\ picture = [ops |-> picture.ops, wires |-> picture.wires]
        /\ ~refused => picture.wires = wires
    BY <1>1, PictureBetweenSteps
  <2> HIDE DEF from, to
  <2>2. wires' \in [DOMAIN wires' -> DOMAIN scene] /\ DOMAIN wires' \subseteq DOMAIN scene
    <3>1. wires' = [q \in DOMAIN wires \cup {to} |-> IF q = to THEN from ELSE wires[q]]
      BY <1>2 DEF With
    <3>2. \A q \in DOMAIN wires \cup {to} : (IF q = to THEN from ELSE wires[q]) \in DOMAIN scene
      BY <1>2, <2>1
    <3>3. DOMAIN wires' = DOMAIN wires \cup {to}
      BY <3>1
    <3> QED
      BY <1>2, <2>1, <3>1, <3>2, <3>3
  <2>3. report.wires = With(picture.wires, to, from) /\ report = [picture EXCEPT !.wires = report.wires]
    BY <2>1
  <2>4. (~refused => report.wires = wires') /\ StepChanges(report)
    BY <1>2, <2>1, <2>3
  <2> HIDE DEF report
  <2> QED
    BY <1>1, <1>2, <2>2, <2>3, <2>4, WiringKeepsBatch
<1> QED
  BY <1>1, <1>2, RefusedKeepsBatch DEF StepConnect, Resolves

LEMMA DisconnectKeepsBatch ==
    ASSUME MutateAssumption, MutateInv, NEW p \in Asked, StepDisconnect(p)
    PROVE  MutateInv'
<1> DEFINE at == Remap(p)
           report == [picture EXCEPT !.wires = Without(@, {at})]
<1>1. MutateReady /\ doing = None
  BY DEF StepDisconnect, MutateReady
<1>2. CASE wires' = Without(wires, {at}) /\ StepChanges(report) /\ UNCHANGED scene
  <2>1. /\ wires \in [DOMAIN wires -> DOMAIN scene] /\ DOMAIN wires \subseteq DOMAIN scene
        /\ picture = [ops |-> picture.ops, wires |-> picture.wires]
        /\ ~refused => picture.wires = wires
    BY <1>1, PictureBetweenSteps
  <2> HIDE DEF at
  <2>2. wires' \in [DOMAIN wires' -> DOMAIN scene] /\ DOMAIN wires' \subseteq DOMAIN scene
    <3>1. wires' = [q \in DOMAIN wires \ {at} |-> wires[q]]
      BY <1>2 DEF Without
    <3>2. DOMAIN wires' = DOMAIN wires \ {at}
      BY <3>1
    <3> QED
      BY <2>1, <3>1, <3>2
  <2>3. report.wires = Without(picture.wires, {at}) /\ report = [picture EXCEPT !.wires = report.wires]
    BY <2>1
  <2>4. (~refused => report.wires = wires') /\ StepChanges(report)
    BY <1>2, <2>1, <2>3
  <2> HIDE DEF report
  <2> QED
    BY <1>1, <1>2, <2>2, <2>3, <2>4, WiringKeepsBatch
<1> QED
  BY <1>1, <1>2, RefusedKeepsBatch DEF StepDisconnect

LEMMA CreateKeepsBatch ==
    ASSUME MutateAssumption, MutateInv, NEW p \in Asked, StepCreate(p) \/ StepPlace(p)
    PROVE  MutateInv'
<1>1. MutateReady
  BY DEF StepCreate, StepPlace
<1>2. ASSUME NEW at \in FreeBelow(Parent(Remap(p))), NEW op \in {"create", "place"},
             IsHome(Parent(Remap(p))), scene' = With(scene, at, born + 1), Begin(op, p, at),
             born' = born + 1,
             UNCHANGED <<wires, aliases, applied, failedAt, picture, intent, refused>>
      PROVE  MutateInv'
  BY <1>1, <1>2, BeginKeepsBatch
<1>3. CASE StepCreate(p)
  <2>1. CASE StepRefused
    BY <1>1, <2>1, RefusedKeepsBatch
  <2>2. CASE /\ IsHome(Parent(Remap(p))) /\ born' = born + 1
             /\ \E at \in Given(Remap(p)) :
                  scene' = With(scene, at, born + 1) /\ Begin("create", p, at)
             /\ UNCHANGED <<wires, aliases, applied, failedAt, picture, intent, refused>>
    <3>1. PICK at \in Given(Remap(p)) :
             scene' = With(scene, at, born + 1) /\ Begin("create", p, at)
      BY <2>2
    <3>2. at \in FreeBelow(Parent(Remap(p)))
      BY GivenIsFree
    <3> QED
      BY <1>2, <2>2, <3>1, <3>2
  <2> QED
    BY <1>3, <2>1, <2>2 DEF StepCreate
<1>4. CASE StepPlace(p)
  <2>1. CASE StepRefused
    BY <1>1, <2>1, RefusedKeepsBatch
  <2>2. CASE /\ IsHome(Parent(Remap(p))) /\ born' = born + 1
             /\ \E at \in FreeBelow(Parent(Remap(p))) :
                  scene' = With(scene, at, born + 1) /\ Begin("place", p, at)
             /\ UNCHANGED <<wires, aliases, applied, failedAt, picture, intent, refused>>
    BY <1>2, <2>2
  <2> QED
    BY <1>4, <2>1, <2>2 DEF StepPlace
<1> QED
  BY <1>3, <1>4

LEMMA BatchStays == ASSUME MutateAssumption, MutateInv, [MutateNext]_mutateVars PROVE MutateInv'
<1>1. CASE UNCHANGED mutateVars
  BY <1>1 DEF mutateVars, MutateInv, SceneIsWhole, IntentsAreKept, IntentsAreThere, MakingIsNew,
     PictureIsTrue, Fits, Loc, Made
<1>2. CASE FieldsRefused
  BY <1>2, GiveUpKeepsBatch DEF FieldsRefused
<1> QED
  BY <1>1, <1>2, CreateKeepsBatch, SetKeepsBatch, DeleteKeepsBatch, DisconnectKeepsBatch,
     ConnectKeepsBatch, UnwrapKeepsBatch, NameKeepsBatch, WrittenKeepsBatch DEF MutateNext

LEMMA ToldBatch == ASSUME MutateAssumption, MutateInv PROVE BatchIsAsTold
<1>1. CreateIntentWins
  BY IntentsWin DEF MutateInv
<1>2. MutateTypeOK
  <2>1. IsInjective(scene) /\ \A p \in DOMAIN scene : Len(p) > 1 => Front(p) \in DOMAIN scene
    <3>1. \A p \in DOMAIN scene : /\ p \in Paths
                                  /\ Len(p) = 2 => Parent(p) \in DOMAIN scene
      BY DEF MutateInv, SceneIsWhole
    <3>2. ASSUME NEW p \in DOMAIN scene, Len(p) > 1 PROVE Front(p) \in DOMAIN scene
      <4>1. Len(p) = 2
        <5>1. Len(p) = 1 \/ Len(p) = 2
          BY <3>1, PathsAreShort
        <5>2. ~(1 > 1)
          OBVIOUS
        <5> QED
          BY <3>2, <5>1, <5>2
      <4>2. Parent(p) = Front(p)
        BY <3>1, Parents
      <4> QED
        BY <3>1, <4>1, <4>2
    <3>3. IsInjective(scene)
      BY DEF MutateInv, SceneIsWhole, IsInjective
    <3> QED
      BY <3>2, <3>3
  <2>2. DOMAIN wires \cup Range(wires) \subseteq DOMAIN scene
    BY DEF MutateInv, SceneIsWhole, Range
  <2>3. DOMAIN aliases \cup Range(aliases) \subseteq Paths
    BY DEF MutateInv, IntentsAreKept, MutateAssumption, Range
  <2>4. doing # None => doing \in Makings /\ doing.made \in DOMAIN scene
    BY DEF MutateInv, MakingIsNew
  <2> QED
    BY <2>1, <2>2, <2>3, <2>4 DEF MutateTypeOK, MutateInv, SceneIsWhole
<1>3. doing = None /\ ~refused => DOMAIN scene = picture.ops /\ wires = picture.wires
  BY PictureBetweenSteps
<1> QED
  BY <1>1, <1>2, <1>3 DEF BatchIsAsTold, ResultsTellTheScene

\* Whatever the steps of a batch and whatever TouchDesigner answers: paths lead to what
\* the batch made, and the results add up to the scene (mutate.py).
THEOREM BatchIsAlwaysAsTold == MutateSpec => []BatchIsAsTold
BY MutateAssumption, MutateInit0, BatchStays, ToldBatch, PTL DEF MutateSpec

-----------------------------------------------------------------------------
(* Applying an interface.                                                  *)

Panels == [PageNames -> {None} \cup [ParNames -> Parameters \cup {None}]]

PanelTypes ==
    /\ panel \in Panels /\ panelBefore \in Panels
    /\ applying \in Seq(Definitions) /\ steps \in Seq(Statuses) /\ Len(steps) <= Len(applying)
    /\ displacedPars \in BOOLEAN
    /\ lastBatch # None => /\ lastBatch.defs \in Seq(Definitions)
                           /\ lastBatch.steps \in Seq(Statuses)
                           /\ Len(lastBatch.steps) = Len(lastBatch.defs)

PanelRests == ~Applying => steps = <<>> /\ panelBefore = panel /\ ~displacedPars

\* A place that has a parameter.
Filled(pn, d) == d # None /\ PageAt(pn, d.page, d.name) # None

Done == {"created", "unchanged"}

\* What was made or found stays, and so does what the batch before made or found.
WhatIsDoneIsThere ==
    /\ \A i \in 1 .. Len(steps) : steps[i] \in Done => applying[i] # None
    /\ ~displacedPars =>
         \A i \in 1 .. Len(steps) : steps[i] \in Done => Filled(panel, applying[i])
    /\ lastBatch # None /\ ~lastBatch.displacedPars /\ ~displacedPars =>
         \A i \in 1 .. Len(lastBatch.steps) :
            lastBatch.steps[i] \in Done => Filled(panel, lastBatch.defs[i])

PanelInv == PanelTypes /\ PanelRests /\ WhatIsDoneIsThere /\ PanelIsAsTold

\* export_interface gives definitions.
LEMMA ExportsDefinitions == ASSUME panel \in Panels PROVE ExportInterface \in Seq(Definitions)
<1> DEFINE places == {pl \in PageNames \X ParNames : PageAt(panel, pl[1], pl[2]) # None}
           order == SetToSeq(places)
<1>1. IsFiniteSet(places)
  <2>1. IsFiniteSet(PageNames \X ParNames)
    BY InterfaceAssumption, FS_Product
  <2> QED
    BY <2>1, FS_Subset
<1>2. PICK f \in [1 .. Cardinality(places) -> places] : IsInjective(f)
  <2>1. ExistsBijection(1 .. Cardinality(places), places) /\ Cardinality(places) \in Nat
    BY <1>1, FS_CardinalityType
  <2> QED
    BY <2>1 DEF ExistsBijection, Bijection, Injection, IsInjective
<1>3. order \in [1 .. Cardinality(places) -> places]
  BY <1>2 DEF SetToSeq
<1>4. Cardinality(places) \in Nat
  BY <1>1, FS_CardinalityType
<1>5. ASSUME NEW p \in PageNames, NEW n \in ParNames, PageAt(panel, p, n) # None
      PROVE  ParamEntry(p, n) \in Definitions
  <2>1. PageAt(panel, p, n) \in Parameters
    <3>1. panel[p] # None /\ PageAt(panel, p, n) = panel[p][n]
      BY <1>5 DEF PageAt
    <3>2. panel[p] \in [ParNames -> Parameters \cup {None}]
      BY <3>1 DEF Panels
    <3> QED
      BY <1>5, <3>1, <3>2
  <2>2. /\ PageAt(panel, p, n).type \in Types
        /\ CutItems(PageAt(panel, p, n).items) \in ItemLists
    BY <2>1, InterfaceAssumption DEF Parameters
  <2> QED
    BY <2>2 DEF ParamEntry, Definitions
<1> HIDE DEF order
<1>6. \A i \in 1 .. Cardinality(places) : ParamEntry(order[i][1], order[i][2]) \in Definitions
  <2> TAKE i \in 1 .. Cardinality(places)
  <2>1. order[i] \in places
    BY <1>3
  <2> QED
    BY <1>5, <2>1
<1>7. ExportInterface = [i \in 1 .. Cardinality(places) |-> ParamEntry(order[i][1], order[i][2])]
  BY <1>3 DEF ExportInterface, order
<1> HIDE DEF places
<1> QED
  BY <1>4, <1>6, <1>7

LEMMA PanelInit == InterfaceInit => PanelInv
<1> SUFFICES ASSUME InterfaceInit PROVE PanelInv
  OBVIOUS
<1>1. PanelTypes
  <2>1. panel \in Panels /\ panelBefore \in Panels
    BY DEF InterfaceInit, Panels
  <2>2. applying = <<>> /\ steps = <<>> /\ displacedPars \in BOOLEAN /\ lastBatch = None
    BY DEF InterfaceInit
  <2> QED
    BY <2>1, <2>2 DEF PanelTypes
<1>2. ~Applying /\ steps = <<>>
  BY DEF InterfaceInit, Applying
<1>3. PanelRests /\ WhatIsDoneIsThere
  BY <1>2 DEF InterfaceInit, PanelRests, WhatIsDoneIsThere
<1>4. PanelIsAsTold
  BY <1>2 DEF PanelIsAsTold, NothingIsLost, StepsAreTrue, ApplyConverges
<1> QED
  BY <1>1, <1>3, <1>4 DEF PanelInv

\* One more definition is dealt with: what the panel has is still there, unless a new
\* parameter took its name, and what is report is so.
LEMMA ToldKeepsInv ==
    ASSUME PanelInv, More, NEW status \in Statuses, PanelTold(status), panel' \in Panels,
           displacedPars' \in BOOLEAN, displacedPars => displacedPars',
           \A p \in PageNames, n \in ParNames :
              PageAt(panel, p, n) # None =>
                 \/ PageAt(panel', p, n) = PageAt(panel, p, n)
                 \/ displacedPars' /\ status = "created" /\ Definition.name = n /\ Definition.page # p,
           ~displacedPars' =>
              \A p \in PageNames, n \in ParNames :
                 PageAt(panel, p, n) # None => PageAt(panel', p, n) = PageAt(panel, p, n),
           status \in Done => Definition # None,
           status \in Done /\ ~displacedPars' =>
              /\ PageAt(panel', Definition.page, Definition.name) # None
              /\ PageAt(panel', Definition.page, Definition.name).type = Definition.type,
           status = "unchanged" /\ Definition.type = "menu" /\ Definition.items # None =>
              PageAt(panel', Definition.page, Definition.name).items = CutItems(Definition.items),
           status = "created" => PageAt(panel, Definition.page, Definition.name) = None
    PROVE  PanelInv'
<1> DEFINE k == Len(steps) + 1
<1>1. PanelTypes /\ PanelRests /\ WhatIsDoneIsThere /\ NothingIsLost /\ StepsAreTrue /\ ApplyConverges
  BY DEF PanelInv, PanelIsAsTold
<1>2. /\ steps' = Append(steps, status) /\ applying' = applying /\ panelBefore' = panelBefore
      /\ lastBatch' = lastBatch /\ Applying /\ Applying'
  BY DEF PanelTold, More, Applying
<1>3. /\ steps \in Seq(Statuses) /\ applying \in Seq(Definitions)
      /\ Len(steps) \in Nat /\ Len(applying) \in Nat /\ Len(steps) < Len(applying)
  BY <1>1 DEF PanelTypes, More
<1>4. /\ steps' \in Seq(Statuses) /\ Len(steps') = k /\ steps'[k] = status
      /\ DOMAIN steps' = 1 .. k /\ DOMAIN steps = 1 .. Len(steps)
      /\ \A i \in 1 .. Len(steps) : steps'[i] = steps[i]
  BY <1>2, <1>3
<1>5. \A i \in 1 .. k : i = k \/ i \in 1 .. Len(steps)
  BY <1>3
<1>6. Definition = applying[k] /\ applying[k] \in Definitions
  BY <1>3 DEF Definition
<1>7. PanelTypes'
  <2>1. Len(steps') <= Len(applying')
    BY <1>2, <1>3, <1>4
  <2> QED
    BY <1>1, <1>2, <1>4, <2>1 DEF PanelTypes
<1>8. PanelRests'
  BY <1>2 DEF PanelRests
<1>9. \A i \in 1 .. k : steps'[i] \in Done => applying[i] # None
  BY <1>1, <1>4, <1>5, <1>6 DEF WhatIsDoneIsThere
<1>10. \A i \in 1 .. Len(steps) : applying[i] \in Definitions
  BY <1>3
<1>11. \A d \in Definitions : ~displacedPars' /\ Filled(panel, d) => Filled(panel', d)
  BY DEF Filled, Definitions
<1>12. ~displacedPars' => \A i \in 1 .. k : steps'[i] \in Done => Filled(panel', applying[i])
  <2> SUFFICES ASSUME ~displacedPars', NEW i \in 1 .. k, steps'[i] \in Done
               PROVE  Filled(panel', applying[i])
    OBVIOUS
  <2>1. CASE i = k
    BY <1>4, <1>6, <2>1 DEF Filled
  <2>2. CASE i \in 1 .. Len(steps)
    <3>1. Filled(panel, applying[i])
      BY <1>1, <1>4, <2>2 DEF WhatIsDoneIsThere
    <3> QED
      BY <1>10, <1>11, <2>2, <3>1
  <2> QED
    BY <1>5, <2>1, <2>2
<1>13. lastBatch # None /\ ~lastBatch.displacedPars /\ ~displacedPars' =>
         \A i \in 1 .. Len(lastBatch.steps) :
            lastBatch.steps[i] \in Done => Filled(panel', lastBatch.defs[i])
  <2> SUFFICES ASSUME lastBatch # None, ~lastBatch.displacedPars, ~displacedPars',
                      NEW i \in 1 .. Len(lastBatch.steps), lastBatch.steps[i] \in Done
               PROVE  Filled(panel', lastBatch.defs[i])
    OBVIOUS
  <2>1. Filled(panel, lastBatch.defs[i])
    BY <1>1 DEF WhatIsDoneIsThere
  <2>2. lastBatch.defs[i] \in Definitions
    BY <1>1 DEF PanelTypes
  <2> QED
    BY <1>11, <2>1, <2>2
<1>14. WhatIsDoneIsThere'
  <2>1. Len(steps)' = k
    BY <1>4
  <2> HIDE DEF k
  <2> QED
    BY <1>2, <1>9, <1>12, <1>13, <2>1 DEF WhatIsDoneIsThere, Filled
<1>15. NothingIsLost'
  <2> SUFFICES ASSUME NEW p \in PageNames, NEW n \in ParNames, PageAt(panelBefore, p, n) # None
               PROVE  \/ PageAt(panel', p, n) = PageAt(panelBefore, p, n)
                      \/ /\ displacedPars'
                         /\ \E i \in DOMAIN steps' : steps'[i] = "created" /\ applying[i].name = n /\ applying[i].page # p
    BY <1>2 DEF NothingIsLost, ApplyDone, PageAt
  <2>1. CASE PageAt(panel, p, n) = PageAt(panelBefore, p, n)
    <3>1. CASE PageAt(panel', p, n) = PageAt(panel, p, n)
      BY <2>1, <3>1
    <3>2. CASE displacedPars' /\ status = "created" /\ Definition.name = n /\ Definition.page # p
      <4>1. k \in DOMAIN steps'
        BY <1>3, <1>4
      <4> QED
        BY <1>4, <1>6, <3>2, <4>1
    <3> QED
      BY <2>1, <3>1, <3>2
  <2>2. CASE PageAt(panel, p, n) # PageAt(panelBefore, p, n)
    <3>1. PICK i \in DOMAIN steps : steps[i] = "created" /\ applying[i].name = n /\ applying[i].page # p
      BY <1>1, <1>2, <2>2 DEF NothingIsLost, ApplyDone
    <3>2. displacedPars
      BY <1>1, <1>2, <2>2 DEF NothingIsLost
    <3>3. i \in DOMAIN steps' /\ steps'[i] = steps[i]
      BY <1>3, <1>4
    <3> QED
      BY <3>1, <3>2, <3>3
  <2> QED
    BY <2>1, <2>2
<1>16. StepsAreTrue'
  <2> SUFFICES ASSUME ~displacedPars', NEW i \in 1 .. k
               PROVE  LET par == PageAt(panel', applying[i].page, applying[i].name)
                      IN  /\ steps'[i] \in Done => par # None /\ par.type = applying[i].type
                          /\ steps'[i] = "unchanged" /\ applying[i].type = "menu" /\ applying[i].items # None =>
                               par.items = CutItems(applying[i].items)
    BY <1>2, <1>4 DEF StepsAreTrue, ApplyDone, PageAt, Done
  <2>1. CASE i = k
    BY <1>4, <1>6, <2>1 DEF Done
  <2>2. CASE i \in 1 .. Len(steps) /\ steps[i] \in Done
    <3> DEFINE par == PageAt(panel, applying[i].page, applying[i].name)
    <3>1. /\ par # None /\ par.type = applying[i].type
          /\ steps[i] = "unchanged" /\ applying[i].type = "menu" /\ applying[i].items # None =>
               par.items = CutItems(applying[i].items)
      BY <1>1, <1>2, <1>4, <2>2 DEF StepsAreTrue, ApplyDone, Done
    <3>2. applying[i].page \in PageNames /\ applying[i].name \in ParNames
      BY <1>1, <1>10, <2>2 DEF WhatIsDoneIsThere, Definitions
    <3>3. PageAt(panel', applying[i].page, applying[i].name) = par
      BY <3>1, <3>2
    <3> QED
      BY <1>4, <2>2, <3>1, <3>3
  <2>3. CASE i \in 1 .. Len(steps) /\ steps[i] \notin Done
    BY <1>4, <2>3 DEF Done
  <2> QED
    BY <1>5, <2>1, <2>2, <2>3
<1>17. ApplyConverges'
  <2> SUFFICES ASSUME lastBatch # None, lastBatch.defs = applying, ~lastBatch.displacedPars,
                      ~displacedPars', NEW i \in 1 .. k, steps'[i] = "created"
               PROVE  lastBatch.steps[i] \in {"failed", "skipped"}
    BY <1>2, <1>4 DEF ApplyConverges, Repeated
  <2>1. CASE i = k
    <3>1. k \in 1 .. Len(lastBatch.steps) /\ lastBatch.steps[k] \in Statuses
      BY <1>1, <1>3 DEF PanelTypes
    <3>2. PageAt(panel, applying[k].page, applying[k].name) = None
      BY <1>4, <1>6, <2>1
    <3>3. lastBatch.steps[k] \notin Done
      BY <1>1, <3>1, <3>2 DEF WhatIsDoneIsThere, Filled
    <3> QED
      BY <2>1, <3>1, <3>3 DEF Done, Statuses
  <2>2. CASE i \in 1 .. Len(steps)
    <3>1. steps[i] = "created" /\ i \in DOMAIN steps /\ ~displacedPars
      BY <1>4, <2>2
    <3> QED
      BY <1>1, <1>2, <3>1 DEF ApplyConverges, Repeated
  <2> QED
    BY <1>5, <2>1, <2>2
<1> QED
  BY <1>7, <1>8, <1>14, <1>15, <1>16, <1>17 DEF PanelInv, PanelIsAsTold

\* A page that is made has no parameters yet.
LEMMA NewPageIsEmpty ==
    ASSUME NEW pn \in Panels, NEW q \in PageNames
    PROVE  /\ WithPage(pn, q) \in Panels /\ WithPage(pn, q)[q] # None
           /\ \A p \in PageNames, n \in ParNames : PageAt(WithPage(pn, q), p, n) = PageAt(pn, p, n)
<1>1. NoPars \in [ParNames -> Parameters \cup {None}] /\ NoPars # None
  BY InterfaceAssumption DEF NoPars
<1>2. CASE pn[q] = None
  <2>1. WithPage(pn, q) = [pn EXCEPT ![q] = NoPars]
    BY <1>2 DEF WithPage
  <2> QED
    BY <1>1, <1>2, <2>1 DEF Panels, PageAt, NoPars
<1>3. CASE pn[q] # None
  BY <1>3 DEF WithPage
<1> QED
  BY <1>2, <1>3

Put(pn, q, m, x) == [pn EXCEPT ![q][m] = x]

\* What a place holds when something is put there.
LEMMA PutIsThere ==
    ASSUME NEW pn \in Panels, NEW q \in PageNames, NEW m \in ParNames, pn[q] # None,
           NEW x \in Parameters \cup {None}
    PROVE  /\ Put(pn, q, m, x) \in Panels
           /\ \A p \in PageNames, n \in ParNames :
                PageAt(Put(pn, q, m, x), p, n) = IF p = q /\ n = m THEN x ELSE PageAt(pn, p, n)
<1> DEFINE new == Put(pn, q, m, x)
<1>1. pn[q] \in [ParNames -> Parameters \cup {None}]
  BY DEF Panels
<1>2. new[q] = [pn[q] EXCEPT ![m] = x] /\ new[q] \in [ParNames -> Parameters \cup {None}]
  BY <1>1 DEF Panels, Put
<1>3. new \in Panels /\ \A p \in PageNames : p # q => new[p] = pn[p]
  BY <1>1, <1>2 DEF Panels, Put
<1>4. new[q] # None
  BY <1>2, InterfaceAssumption
<1> HIDE DEF new
<1>5. ASSUME NEW p \in PageNames, NEW n \in ParNames
      PROVE  PageAt(new, p, n) = IF p = q /\ n = m THEN x ELSE PageAt(pn, p, n)
  <2>1. CASE p = q
    <3>1. new[q][n] = IF n = m THEN x ELSE pn[q][n]
      BY <1>1, <1>2
    <3> QED
      BY <1>4, <2>1, <3>1 DEF PageAt
  <2>2. CASE p # q
    BY <1>3, <2>2 DEF PageAt
  <2> QED
    BY <2>1, <2>2
<1> QED
  BY <1>3, <1>5 DEF new

LEMMA StepsKeepPanel ==
    ASSUME PanelInv, \/ SkipUnusable
                     \/ FailPage
                     \/ KeepExisting
                     \/ AppendRefused
    PROVE  PanelInv'
<1>1. PanelTypes
  BY DEF PanelInv
<1>2. panel \in Panels /\ displacedPars \in BOOLEAN
  BY <1>1 DEF PanelTypes
<1>3. ASSUME More PROVE Definition \in Definitions
  BY <1>1, <1>3 DEF PanelTypes, Definition, More
<1>4. CASE SkipUnusable
  <2>1. /\ More /\ PanelTold("skipped") /\ panel' = panel /\ displacedPars' = displacedPars
        /\ "skipped" \in Statuses /\ "skipped" \notin Done
    BY <1>4 DEF SkipUnusable, Statuses, Done
  <2>2. PanelInv'
    BY <1>2, <2>1, ToldKeepsInv
  <2> QED
    BY <2>2
<1>5. CASE FailPage
  <2>1. /\ More /\ PanelTold("failed") /\ panel' = panel /\ displacedPars' = displacedPars
        /\ "failed" \in Statuses /\ "failed" \notin Done
    BY <1>5 DEF FailPage, Statuses, Done
  <2> QED
    BY <1>2, <2>1, ToldKeepsInv
<1>6. CASE KeepExisting
  <2> DEFINE d == Definition
             par == PageAt(panel, d.page, d.name)
  <2>1. /\ More /\ ~Unusable(d) /\ par # None /\ panel' = panel /\ displacedPars' = displacedPars
        /\ PanelTold(IF MatchesExisting(par, d) THEN "unchanged" ELSE "skipped")
    BY <1>6 DEF KeepExisting
  <2>2. d # None
    BY <2>1 DEF Unusable
  <2> HIDE DEF d
  <2>3. CASE MatchesExisting(par, d)
    <3>1. PanelTold("unchanged") /\ "unchanged" \in Statuses /\ "unchanged" # "created"
      BY <2>1, <2>3 DEF Statuses
    <3>2. par.type = d.type /\ (d.type = "menu" /\ d.items # None => par.items = CutItems(d.items))
      BY <2>3 DEF MatchesExisting
    <3>3. PageAt(panel', d.page, d.name) = par
      BY <2>1
    <3> HIDE DEF par
    <3> QED
      BY <1>2, <2>1, <2>2, <3>1, <3>2, <3>3, ToldKeepsInv DEF d
  <2>4. CASE ~MatchesExisting(par, d)
    <3>1. PanelTold("skipped") /\ "skipped" \in Statuses /\ "skipped" \notin Done
      BY <2>1, <2>4 DEF Statuses, Done
    <3> QED
      BY <1>2, <2>1, <3>1, ToldKeepsInv
  <2> QED
    BY <2>3, <2>4
<1>7. CASE AppendRefused
  <2>1. /\ More /\ ~Unusable(Definition) /\ panel' = WithPage(panel, Definition.page)
        /\ displacedPars' = displacedPars
    BY <1>7 DEF AppendRefused
  <2>2. Definition.page \in PageNames
    BY <1>3, <2>1 DEF Unusable, Definitions
  <2>3. panel' \in Panels /\ \A p \in PageNames, n \in ParNames : PageAt(panel', p, n) = PageAt(panel, p, n)
    BY <1>2, <2>1, <2>2, NewPageIsEmpty
  <2>4. PICK s \in {"failed", "skipped"} : PanelTold(s)
    BY <1>7 DEF AppendRefused
  <2>5. s \in Statuses /\ s \notin Done
    BY DEF Statuses, Done
  <2> QED
    BY <1>2, <2>1, <2>3, <2>4, <2>5, ToldKeepsInv DEF Done
<1> QED
  BY <1>4, <1>5, <1>6, <1>7

LEMMA CreatedKeepsInv ==
    ASSUME PanelInv, NEW items \in ItemLists, Created(items)
    PROVE  PanelInv'
<1> DEFINE d == Definition
           x == [type |-> d.type, items |-> items]
           cleared == WithoutElsewhere(d)
           base == WithPage(cleared, d.page)
<1>1. PanelTypes
  BY DEF PanelInv
<1>2. /\ panel \in Panels /\ displacedPars \in BOOLEAN /\ More /\ ~Unusable(d)
      /\ PageAt(panel, d.page, d.name) = None
      /\ panel' = [base EXCEPT ![d.page][d.name] = x]
      /\ displacedPars' = (displacedPars \/ Elsewhere(d) # {})
      /\ PanelTold("created")
  BY <1>1 DEF PanelTypes, Created
<1>3. d \in Definitions /\ d # None
  BY <1>1, <1>2 DEF PanelTypes, Definition, More, Unusable
<1>4. d.page \in PageNames /\ d.name \in ParNames /\ d.type \in Types
  BY <1>3 DEF Definitions
<1> HIDE DEF d
<1>5. x \in Parameters /\ x # None
  BY <1>4, InterfaceAssumption DEF Parameters
<1>6. /\ cleared \in Panels
      /\ \A p \in PageNames, n \in ParNames :
            PageAt(cleared, p, n) = IF p \in Elsewhere(d) /\ n = d.name THEN None ELSE PageAt(panel, p, n)
  <2>1. ASSUME NEW p \in PageNames
        PROVE  /\ cleared[p] \in {None} \cup [ParNames -> Parameters \cup {None}]
               /\ \A n \in ParNames :
                    PageAt(cleared, p, n) = IF p \in Elsewhere(d) /\ n = d.name THEN None ELSE PageAt(panel, p, n)
    <3>1. CASE p \in Elsewhere(d)
      <4>1. panel[p] # None /\ panel[p] \in [ParNames -> Parameters \cup {None}]
        BY <1>2, <3>1 DEF Elsewhere, PageAt, Panels
      <4>2. cleared[p] = [panel[p] EXCEPT ![d.name] = None]
        BY <3>1 DEF WithoutElsewhere
      <4>3. cleared[p] \in [ParNames -> Parameters \cup {None}] /\ cleared[p] # None
        BY <4>1, <4>2, InterfaceAssumption
      <4> QED
        BY <3>1, <4>1, <4>2, <4>3 DEF PageAt
    <3>2. CASE p \notin Elsewhere(d)
      <4>1. cleared[p] = panel[p]
        BY <3>2 DEF WithoutElsewhere
      <4> QED
        BY <1>2, <3>2, <4>1 DEF PageAt, Panels
    <3> QED
      BY <3>1, <3>2
  <2>2. cleared \in Panels
    BY <2>1 DEF WithoutElsewhere, Panels
  <2> HIDE DEF cleared
  <2> QED
    BY <2>1, <2>2
<1> HIDE DEF cleared
<1>7. /\ base \in Panels /\ base[d.page] # None
      /\ \A p \in PageNames, n \in ParNames : PageAt(base, p, n) = PageAt(cleared, p, n)
  BY <1>4, <1>6, NewPageIsEmpty
<1> HIDE DEF base, x
<1>8. /\ panel' \in Panels
      /\ \A p \in PageNames, n \in ParNames :
            PageAt(panel', p, n) = IF p = d.page /\ n = d.name THEN x ELSE PageAt(base, p, n)
  <2>1. /\ base \in Panels /\ d.page \in PageNames /\ d.name \in ParNames /\ base[d.page] # None
        /\ x \in Parameters \cup {None}
    BY <1>4, <1>5, <1>7
  <2>2. panel' = Put(base, d.page, d.name, x)
    BY <1>2 DEF Put
  <2> QED
    BY <2>1, <2>2, PutIsThere
<1>9. \A p \in PageNames, n \in ParNames :
         PageAt(panel, p, n) # None =>
            \/ PageAt(panel', p, n) = PageAt(panel, p, n)
            \/ displacedPars' /\ d.name = n /\ d.page # p
  BY <1>2, <1>6, <1>7, <1>8 DEF Elsewhere
<1>10. ~displacedPars' =>
          \A p \in PageNames, n \in ParNames :
             PageAt(panel, p, n) # None => PageAt(panel', p, n) = PageAt(panel, p, n)
  BY <1>2, <1>6, <1>7, <1>8
<1>11. PageAt(panel', d.page, d.name) = x /\ x.type = d.type
  BY <1>4, <1>8 DEF x
<1>12. "created" \in Statuses /\ displacedPars' \in BOOLEAN /\ (displacedPars => displacedPars')
  BY <1>2 DEF Statuses
<1> QED
  BY <1>2, <1>3, <1>5, <1>8, <1>9, <1>10, <1>11, <1>12, ToldKeepsInv DEF d

LEMMA PanelStays == ASSUME PanelInv, [InterfaceNext]_interfaceVars PROVE PanelInv'
<1>1. PanelTypes /\ PanelRests /\ WhatIsDoneIsThere /\ PanelIsAsTold
  BY DEF PanelInv
<1>2. CASE \E defs \in Batches : BeginApply(defs)
  <2>1. PICK defs \in Batches : BeginApply(defs)
    BY <1>2
  <2>2. defs \in Seq(Definitions)
    <3>1. ExportInterface \in Seq(Definitions)
      BY <1>1, ExportsDefinitions DEF PanelTypes
    <3>2. SomeBatches \subseteq Seq(Definitions)
      BY InterfaceAssumption
    <3>3. defs \in SomeBatches \/ defs = ExportInterface \/ (lastBatch # None /\ defs = lastBatch.defs)
      BY DEF Batches
    <3> QED
      BY <1>1, <3>1, <3>2, <3>3 DEF PanelTypes
  <2>3. /\ steps = <<>> /\ panelBefore = panel /\ ~displacedPars /\ applying' = defs /\ steps' = steps
        /\ panel' = panel /\ panelBefore' = panelBefore /\ lastBatch' = lastBatch
        /\ displacedPars' = displacedPars /\ Applying'
    BY <1>1, <2>1 DEF BeginApply, PanelRests, Applying
  <2>4. Len(steps') = 0 /\ steps' = <<>> /\ DOMAIN steps' = {}
    BY <2>3
  <2>5. PanelTypes'
    BY <1>1, <2>2, <2>3, <2>4 DEF PanelTypes
  <2>6. WhatIsDoneIsThere' /\ PanelRests'
    BY <1>1, <2>3, <2>4 DEF WhatIsDoneIsThere, PanelRests, Filled, PageAt
  <2>7. PanelIsAsTold'
    BY <2>3, <2>4 DEF PanelIsAsTold, NothingIsLost, StepsAreTrue, ApplyConverges, PageAt
  <2> QED
    BY <2>5, <2>6, <2>7 DEF PanelInv
<1>3. CASE SkipUnusable \/ FailPage \/ KeepExisting \/ AppendRefused
  BY <1>3, StepsKeepPanel
<1>4. CASE AppendCreates
  <2>1. CASE Created(NoItems)
    BY <2>1, CreatedKeepsInv, InterfaceAssumption
  <2>2. CASE /\ More /\ Definition # None /\ Definition.items # None
             /\ Created(CutItems(Definition.items))
    <3>1. Definition \in Definitions
      BY <1>1, <2>2 DEF PanelTypes, Definition, More
    <3>2. Definition.items \in ItemLists
      BY <2>2, <3>1 DEF Definitions
    <3>3. CutItems(Definition.items) \in ItemLists
      BY <3>2, InterfaceAssumption
    <3> QED
      BY <2>2, <3>3, CreatedKeepsInv
  <2> QED
    BY <1>4, <2>1, <2>2 DEF AppendCreates
<1>5. CASE EndApply
  <2>1. /\ Applying /\ ~More /\ applying' = <<>> /\ steps' = <<>> /\ panelBefore' = panel /\ ~displacedPars'
        /\ lastBatch' = [defs |-> applying, steps |-> steps, displacedPars |-> displacedPars]
        /\ panel' = panel
    BY <1>5 DEF EndApply
  <2>2. ~Applying' /\ Len(steps') = 0 /\ Len(applying') = 0
    BY <2>1 DEF Applying
  <2>3. Len(steps) = Len(applying)
    BY <1>1, <2>1 DEF PanelTypes, More
  <2>4. PanelTypes'
    <3>1. /\ lastBatch'.defs \in Seq(Definitions) /\ lastBatch'.steps \in Seq(Statuses)
          /\ Len(lastBatch'.steps) = Len(lastBatch'.defs)
      BY <1>1, <2>1, <2>3 DEF PanelTypes
    <3>2. panel' \in Panels /\ panelBefore' \in Panels /\ displacedPars' \in BOOLEAN
      BY <1>1, <1>5, <2>1 DEF PanelTypes, EndApply
    <3>3. applying' \in Seq(Definitions) /\ steps' \in Seq(Statuses) /\ Len(steps') <= Len(applying')
      BY <2>1, <2>2
    <3> QED
      BY <3>1, <3>2, <3>3 DEF PanelTypes
  <2>5. /\ lastBatch'.defs = applying /\ lastBatch'.steps = steps
        /\ lastBatch'.displacedPars = displacedPars
    BY <2>1
  <2>6. WhatIsDoneIsThere'
    BY <1>1, <2>1, <2>2, <2>5 DEF WhatIsDoneIsThere, Filled, PageAt
  <2>7. PanelRests' /\ PanelIsAsTold'
    BY <2>1, <2>2 DEF PanelRests, PanelIsAsTold, NothingIsLost, StepsAreTrue, ApplyConverges
  <2> QED
    BY <2>4, <2>6, <2>7 DEF PanelInv
<1>6. ASSUME NEW p \in PageNames, NEW n \in ParNames, NEW par \in Parameters \cup {None},
             EditPanel(p, n, par)
      PROVE  PanelInv'
  <2>1. /\ ~Applying /\ steps = <<>> /\ ~displacedPars /\ panel \in Panels
        /\ panel' = [WithPage(panel, p) EXCEPT ![p][n] = par] /\ panelBefore' = panel'
        /\ lastBatch' = None /\ applying' = applying /\ steps' = steps /\ displacedPars' = displacedPars
    BY <1>1, <1>6 DEF EditPanel, PanelRests, PanelTypes
  <2>2. ~Applying' /\ Len(steps') = 0
    BY <2>1 DEF Applying
  <2>3. panel' \in Panels
    <3>1. WithPage(panel, p) \in Panels /\ WithPage(panel, p)[p] # None
      BY <2>1, NewPageIsEmpty
    <3>2. panel' = Put(WithPage(panel, p), p, n, par)
      BY <2>1 DEF Put
    <3> QED
      BY <3>1, <3>2, PutIsThere
  <2>4. PanelTypes'
    BY <1>1, <2>1, <2>3 DEF PanelTypes
  <2>5. PanelRests' /\ WhatIsDoneIsThere' /\ PanelIsAsTold'
    BY <2>1, <2>2 DEF PanelRests, WhatIsDoneIsThere, PanelIsAsTold, NothingIsLost, StepsAreTrue,
                      ApplyConverges
  <2> QED
    BY <2>4, <2>5 DEF PanelInv
<1>7. CASE UNCHANGED interfaceVars
  BY <1>1, <1>7 DEF interfaceVars, PanelInv, PanelTypes, PanelRests, WhatIsDoneIsThere, PanelIsAsTold,
       NothingIsLost, StepsAreTrue, ApplyConverges, Repeated, ApplyDone, Applying, Filled, PageAt
<1> QED
  BY <1>2, <1>3, <1>4, <1>5, <1>6, <1>7 DEF InterfaceNext

\* What an apply reports of the panel is so, nothing that was there is lost, and the same
\* definitions again create nothing (param_interface.py, apply_interface).
THEOREM PanelIsAlwaysAsTold == InterfaceSpec => []PanelIsAsTold
<1>1. PanelInv => PanelIsAsTold
  BY DEF PanelInv
<1> QED
  BY <1>1, PanelInit, PanelStays, PTL DEF InterfaceSpec

-----------------------------------------------------------------------------
(* Scripts that run inside each other.                                     *)

RunCalls ==
    [source : Sources \cup {None}, match : SUBSET (ScriptTargets \X Resolutions),
     logs : BOOLEAN, installed : BOOLEAN, previous : [tee : Nat, wrapper : Nat],
     buffer : Seq(Nat), gen : Nat, since : Nat]

RunTypes ==
    /\ registry \in [Sources -> {None} \cup SUBSET ScriptTargets]
    /\ resolves \in [ScriptTargets -> Resolutions]
    /\ frames \in Seq(RunCalls)
    /\ stdout \in [tee : Nat, wrapper : Nat]
    /\ captureDepth \in Nat /\ suppressDepth \in Int /\ generation \in Nat
    /\ uplink \in Seq(Nat) /\ printed \in Nat

\* The calls with logs, and those that swapped the streams.
Logging == {k \in 1 .. Len(frames) : frames[k].logs}
Catching == {k \in 1 .. Len(frames) : frames[k].installed}

\* The lines from a to b.
From(a, b) == [i \in 1 .. b - a |-> a + i]

\* The outermost call with logs catches, and nobody else.
OneCatches ==
    /\ captureDepth = Cardinality(Logging)
    /\ \A k \in 1 .. Len(frames) : /\ frames[k].gen = generation
                                   /\ k \in Catching <=> k \in Logging /\ \A l \in Logging : k <= l

\* What was printed is in the uplink as far as the call that catches, and then with it.
LinesAreSomewhere ==
    /\ \A k \in Catching : /\ stdout = TeeOf(k) /\ suppressDepth = 1
                           /\ frames[k].previous = Tap(generation)
                           /\ frames[k].since <= printed
                           /\ frames[k].buffer = From(frames[k].since, printed)
                           /\ uplink = From(0, frames[k].since)
    /\ Catching = {} => stdout = Tap(generation) /\ suppressDepth = 0 /\ uplink = From(0, printed)

ScriptInv == crossed \/ (RunTypes /\ OneCatches /\ LinesAreSomewhere)

LEMMA LoggingIsFinite == ASSUME RunTypes PROVE IsFiniteSet(Logging) /\ Logging \subseteq Nat
<1>1. IsFiniteSet(1 .. Len(frames))
  BY FS_Interval DEF RunTypes
<1> QED
  BY <1>1, FS_Subset DEF Logging

LEMMA ScriptInit0 == ASSUME ScriptInit PROVE ScriptInv
<1>1. frames = <<>> /\ Len(frames) = 0 /\ uplink = <<>> /\ printed = 0 /\ generation = 1
      /\ stdout = Tap(1) /\ captureDepth = 0 /\ suppressDepth = 0
  BY DEF ScriptInit
<1>2. RunTypes
  BY <1>1 DEF ScriptInit, RunTypes, Resolutions, Tap
<1>3. Logging = {} /\ Catching = {}
  BY <1>1 DEF Logging, Catching
<1>4. OneCatches
  BY <1>1, <1>3, FS_EmptySet DEF OneCatches
<1>5. uplink = From(0, printed)
  BY <1>1 DEF From
<1> QED
  BY <1>1, <1>2, <1>3, <1>4, <1>5 DEF ScriptInv, LinesAreSomewhere

\* Calls that change the registry or the scene only.
LEMMA AwayFromTheStreams ==
    ASSUME ScriptInv, UNCHANGED <<frames, stdout, captureDepth, suppressDepth, generation, uplink,
                                  printed, crossed>>,
           ~crossed => registry' \in [Sources -> {None} \cup SUBSET ScriptTargets],
           ~crossed => resolves' \in [ScriptTargets -> Resolutions]
    PROVE  ScriptInv'
<1>1. CASE crossed
  BY <1>1 DEF ScriptInv
<1>2. CASE ~crossed
  <2>1. RunTypes'
    BY <1>2 DEF ScriptInv, RunTypes
  <2>2. OneCatches' /\ LinesAreSomewhere'
    BY <1>2 DEF ScriptInv, OneCatches, LinesAreSomewhere, Logging, Catching
  <2> QED
    BY <2>1, <2>2 DEF ScriptInv
<1> QED
  BY <1>1, <1>2

LEMMA HandlersKeepInv ==
    ASSUME ScriptInv,
           \/ \E s \in Sources, deps \in SUBSET ScriptTargets : Register(s, deps)
           \/ \E s \in Sources : Delete(s) \/ Check(s)
           \/ RefuseSource
           \/ \E t \in ScriptTargets : TouchScene(t)
    PROVE  ScriptInv'
<1> DEFINE Reg == [Sources -> {None} \cup SUBSET ScriptTargets]
           Res == [ScriptTargets -> Resolutions]
<1>1. ~crossed => registry \in Reg /\ resolves \in Res
  BY DEF ScriptInv, RunTypes
<1>2. ASSUME NEW s \in Sources, NEW deps \in SUBSET ScriptTargets, Register(s, deps) PROVE ScriptInv'
  <2>1. ~crossed => registry' \in Reg /\ resolves' \in Res
    BY <1>1, <1>2 DEF Register
  <2> QED
    BY <1>2, <2>1, AwayFromTheStreams DEF Register, streams
<1>3. ASSUME NEW s \in Sources, Delete(s) PROVE ScriptInv'
  <2>1. ~crossed => registry' \in Reg /\ resolves' \in Res
    BY <1>1, <1>3 DEF Delete
  <2> QED
    BY <1>3, <2>1, AwayFromTheStreams DEF Delete, streams
<1>4. ASSUME NEW s \in Sources, Check(s) PROVE ScriptInv'
  BY <1>1, <1>4, AwayFromTheStreams DEF Check, streams
<1>5. CASE RefuseSource
  BY <1>1, <1>5, AwayFromTheStreams DEF RefuseSource, streams
<1>6. ASSUME NEW t \in ScriptTargets, TouchScene(t) PROVE ScriptInv'
  <2>1. ~crossed => registry' \in Reg /\ resolves' \in Res
    BY <1>1, <1>6 DEF TouchScene
  <2> QED
    BY <1>6, <2>1, AwayFromTheStreams DEF TouchScene, streams
<1> QED
  BY <1>2, <1>3, <1>4, <1>5, <1>6

LEMMA BeginKeepsInv ==
    ASSUME ScriptInv, ~crossed, NEW s \in Sources \cup {None},
           NEW match \in SUBSET (ScriptTargets \X Resolutions), NEW logs \in BOOLEAN,
           BeginRun(s, match, logs)
    PROVE  ScriptInv'
<1> DEFINE n == Len(frames) + 1
           f == [source |-> s, match |-> match, logs |-> logs, installed |-> InstallsCapture(logs),
                 previous |-> stdout, buffer |-> <<>>, gen |-> generation, since |-> printed]
<1>1. RunTypes /\ OneCatches /\ LinesAreSomewhere
  BY DEF ScriptInv
<1>2. /\ frames' = Append(frames, f)
      /\ stdout' = IF InstallsCapture(logs) THEN TeeOf(n) ELSE stdout
      /\ captureDepth' = IF logs THEN captureDepth + 1 ELSE captureDepth
      /\ suppressDepth' = IF InstallsCapture(logs) THEN suppressDepth + 1 ELSE suppressDepth
      /\ UNCHANGED <<registry, resolves, generation, uplink, printed, crossed>>
  BY DEF BeginRun
<1>3. InstallsCapture(logs) \in BOOLEAN /\ frames \in Seq(RunCalls) /\ Len(frames) \in Nat
  BY <1>1 DEF InstallsCapture, RunTypes
<1>4. f \in RunCalls
  <2>1. <<>> \in Seq(Nat)
    OBVIOUS
  <2> QED
    BY <1>1, <1>3, <2>1 DEF RunTypes, RunCalls
<1>5. /\ f.logs = logs /\ f.installed = InstallsCapture(logs) /\ f.previous = stdout
      /\ f.buffer = <<>> /\ f.gen = generation /\ f.since = printed
  OBVIOUS
<1> HIDE DEF f
<1>6. /\ frames' \in Seq(RunCalls) /\ Len(frames') = n /\ frames'[n] = f
      /\ \A k \in 1 .. Len(frames) : frames'[k] = frames[k]
  BY <1>2, <1>3, <1>4, AppendProperties
<1>7. \A k \in 1 .. n : k = n \/ k \in 1 .. Len(frames)
  BY <1>3
<1>8. /\ Logging' = IF logs THEN Logging \cup {n} ELSE Logging
      /\ Catching' = IF InstallsCapture(logs) THEN Catching \cup {n} ELSE Catching
      /\ n \notin Logging /\ n \notin Catching
  BY <1>3, <1>5, <1>6, <1>7 DEF Logging, Catching
<1>9. captureDepth' = Cardinality(Logging)' /\ captureDepth' \in Nat
  <2>1. IsFiniteSet(Logging) /\ captureDepth = Cardinality(Logging) /\ captureDepth \in Nat
    BY <1>1, LoggingIsFinite DEF OneCatches, RunTypes
  <2> HIDE DEF n
  <2>2. Cardinality(Logging \cup {n}) = captureDepth + 1
    BY <1>8, <2>1, FS_AddElement
  <2>3. CASE logs
    <3>1. Logging' = Logging \cup {n} /\ captureDepth' = captureDepth + 1
      BY <1>2, <1>8, <2>3
    <3> QED
      BY <2>1, <2>2, <3>1
  <2>4. CASE ~logs
    <3>1. Logging' = Logging /\ captureDepth' = captureDepth
      BY <1>2, <1>8, <2>4
    <3> QED
      BY <2>1, <3>1
  <2> QED
    BY <2>3, <2>4
<1>10. InstallsCapture(logs) <=> logs /\ Logging = {}
  <2>1. IsFiniteSet(Logging) /\ captureDepth = Cardinality(Logging)
    BY <1>1, LoggingIsFinite DEF OneCatches
  <2> QED
    BY <2>1, FS_EmptySet DEF InstallsCapture
<1>11. RunTypes'
  <2>1. stdout' \in [tee : Nat, wrapper : Nat]
    BY <1>1, <1>2, <1>3 DEF RunTypes, TeeOf
  <2>2. suppressDepth' \in Int
    BY <1>1, <1>2, <1>3 DEF RunTypes
  <2> QED
    BY <1>1, <1>2, <1>6, <1>9, <2>1, <2>2 DEF RunTypes
<1>12. OneCatches'
  <2>1. ASSUME NEW k \in 1 .. n
        PROVE  /\ frames'[k].gen = generation
               /\ k \in Catching' <=> k \in Logging' /\ \A l \in Logging' : k <= l
    <3>0. Logging \subseteq 1 .. Len(frames) /\ Catching \subseteq 1 .. Len(frames)
      BY DEF Logging, Catching
    <3>1. CASE k = n
      <4>1. n \in Logging' <=> logs
        BY <1>8
      <4>2. n \in Catching' <=> InstallsCapture(logs)
        BY <1>8
      <4>3. \A l \in Logging : ~(n <= l)
        BY <1>3, <3>0
      <4>4. (\A l \in Logging' : n <= l) <=> Logging = {}
        BY <1>3, <1>8, <4>3
      <4> QED
        BY <1>5, <1>6, <1>10, <3>1, <4>1, <4>2, <4>4
    <3>2. CASE k \in 1 .. Len(frames)
      <4>1. k # n /\ k <= n
        BY <1>3, <3>2
      <4>2. frames'[k] = frames[k] /\ (k \in Catching' <=> k \in Catching) /\ (k \in Logging' <=> k \in Logging)
        BY <1>6, <1>8, <3>2, <4>1
      <4>3. (\A l \in Logging' : k <= l) <=> (\A l \in Logging : k <= l)
        BY <1>8, <4>1
      <4> QED
        BY <1>1, <3>2, <4>2, <4>3 DEF OneCatches
    <3> QED
      BY <1>7, <3>1, <3>2
  <2>2. Len(frames)' = n /\ generation' = generation
    BY <1>2, <1>6
  <2> HIDE DEF n
  <2> QED
    BY <1>9, <2>1, <2>2 DEF OneCatches
<1>13. CASE InstallsCapture(logs)
  <2>1. Catching = {} /\ Catching' = {n}
    BY <1>8, <1>10, <1>13, <1>1 DEF OneCatches, Catching
  <2>2. stdout = Tap(generation) /\ suppressDepth = 0 /\ uplink = From(0, printed)
    BY <1>1, <2>1 DEF LinesAreSomewhere
  <2>3. frames'[n].buffer = From(printed, printed)
    BY <1>1, <1>5, <1>6 DEF From, RunTypes
  <2>4. LinesAreSomewhere'
    <3>1. /\ stdout' = TeeOf(n) /\ suppressDepth' = 1 /\ frames'[n].previous = Tap(generation)
          /\ frames'[n].since = printed /\ printed <= printed
      BY <1>1, <1>2, <1>5, <1>6, <1>13, <2>2 DEF RunTypes
    <3> HIDE DEF n
    <3> QED
      BY <1>2, <2>1, <2>2, <2>3, <3>1 DEF LinesAreSomewhere
  <2> QED
    BY <1>11, <1>12, <2>4 DEF ScriptInv
<1>14. CASE ~InstallsCapture(logs)
  <2>1. Catching' = Catching /\ UNCHANGED <<stdout, suppressDepth, generation, printed, uplink>>
    BY <1>2, <1>8, <1>14
  <2>2. \A k \in Catching : frames'[k] = frames[k]
    BY <1>6 DEF Catching
  <2>3. LinesAreSomewhere'
    BY <1>1, <2>1, <2>2 DEF LinesAreSomewhere
  <2> QED
    BY <1>11, <1>12, <2>3 DEF ScriptInv
<1> QED
  BY <1>13, <1>14

\* A number more.
LEMMA OneMore ==
    ASSUME NEW a \in Nat, NEW b \in Nat, a <= b
    PROVE  Append(From(a, b), b + 1) = From(a, b + 1)
<1> DEFINE s == From(a, b)
           t == From(a, b + 1)
<1>1. s \in Seq(Nat) /\ Len(s) = b - a /\ \A i \in 1 .. b - a : s[i] = a + i
  BY DEF From
<1>2. t \in Seq(Nat) /\ Len(t) = b + 1 - a /\ \A i \in 1 .. b + 1 - a : t[i] = a + i
  BY DEF From
<1> HIDE DEF s, t
<1>3. /\ Append(s, b + 1) \in Seq(Nat) /\ Len(Append(s, b + 1)) = b + 1 - a
      /\ \A i \in 1 .. b - a : Append(s, b + 1)[i] = s[i]
      /\ Append(s, b + 1)[b - a + 1] = b + 1
  <2>1. s \in Seq(Nat) /\ Len(s) = b - a /\ b + 1 \in Nat
    BY <1>1
  <2>2. /\ Append(s, b + 1) \in Seq(Nat) /\ Len(Append(s, b + 1)) = Len(s) + 1
        /\ \A i \in 1 .. Len(s) : Append(s, b + 1)[i] = s[i]
        /\ Append(s, b + 1)[Len(s) + 1] = b + 1
    BY <2>1, AppendProperties
  <2> QED
    BY <2>1, <2>2
<1>4. \A i \in 1 .. b + 1 - a : Append(s, b + 1)[i] = t[i]
  <2> TAKE i \in 1 .. b + 1 - a
  <2>1. CASE i = b - a + 1
    BY <1>2, <1>3, <2>1
  <2>2. CASE i \in 1 .. b - a
    BY <1>1, <1>2, <1>3, <2>2
  <2>3. i = b - a + 1 \/ i \in 1 .. b - a
    OBVIOUS
  <2> QED
    BY <2>1, <2>2, <2>3
<1>5. Append(s, b + 1) = t
  BY <1>2, <1>3, <1>4, SeqEqual
<1> QED
  BY <1>5 DEF s, t

LEMMA BothParts ==
    ASSUME NEW a \in Nat, NEW b \in Nat, a <= b
    PROVE  From(0, a) \o From(a, b) = From(0, b)
<1> DEFINE r == From(0, a)
           s == From(a, b)
           t == From(0, b)
<1>1. r \in Seq(Nat) /\ Len(r) = a /\ \A i \in 1 .. a : r[i] = i
  BY DEF From
<1>2. s \in Seq(Nat) /\ Len(s) = b - a /\ \A i \in 1 .. b - a : s[i] = a + i
  BY DEF From
<1>3. t \in Seq(Nat) /\ Len(t) = b /\ \A i \in 1 .. b : t[i] = i
  BY DEF From
<1> HIDE DEF r, s, t
<1>4. /\ r \o s \in Seq(Nat) /\ Len(r \o s) = b
      /\ \A i \in 1 .. b : (r \o s)[i] = IF i <= a THEN r[i] ELSE s[i - a]
  <2>1. r \in Seq(Nat) /\ s \in Seq(Nat) /\ Len(r) = a /\ Len(s) = b - a
    BY <1>1, <1>2
  <2>2. /\ r \o s \in Seq(Nat) /\ Len(r \o s) = Len(r) + Len(s)
        /\ \A i \in 1 .. Len(r) + Len(s) : (r \o s)[i] = IF i <= Len(r) THEN r[i] ELSE s[i - Len(r)]
    BY <2>1, ConcatProperties
  <2>3. Len(r) + Len(s) = b
    BY <2>1
  <2> QED
    BY <2>1, <2>2, <2>3
<1>5. \A i \in 1 .. b : (r \o s)[i] = t[i]
  <2> TAKE i \in 1 .. b
  <2>1. CASE i <= a
    <3>1. i \in 1 .. a
      BY <2>1
    <3> QED
      BY <1>1, <1>3, <1>4, <2>1, <3>1
  <2>2. CASE ~(i <= a)
    <3>1. i - a \in 1 .. b - a
      BY <2>2
    <3>2. (r \o s)[i] = s[i - a] /\ s[i - a] = a + (i - a)
      BY <1>2, <1>4, <2>2, <3>1
    <3> QED
      BY <1>3, <3>2
  <2> QED
    BY <2>1, <2>2
<1>6. r \o s = t
  BY <1>3, <1>4, <1>5, SeqEqual
<1> QED
  BY <1>6 DEF r, s, t

LEMMA PrintKeepsInv ==
    ASSUME ScriptInv, ~crossed, PrintLine
    PROVE  ScriptInv'
<1>1. RunTypes /\ OneCatches /\ LinesAreSomewhere
  BY DEF ScriptInv
<1>2. /\ printed \in Nat /\ printed' = printed + 1
      /\ UNCHANGED <<registry, resolves, stdout, captureDepth, suppressDepth, generation, crossed>>
  BY <1>1 DEF PrintLine, streams, RunTypes
<1>3. ASSUME NEW c \in Catching PROVE ScriptInv'
  <2> DEFINE old == frames[c]
             new == [old EXCEPT !.buffer = Append(@, printed + 1)]
  <2>1. /\ stdout = TeeOf(c) /\ c \in 1 .. Len(frames) /\ old.since <= printed
        /\ old.buffer = From(old.since, printed) /\ uplink = From(0, old.since) /\ old \in RunCalls
        /\ old.since \in Nat
    <3>1. c \in 1 .. Len(frames) /\ frames \in Seq(RunCalls)
      BY <1>1 DEF Catching, RunTypes
    <3>2. old \in RunCalls
      BY <3>1
    <3>3. old.since \in Nat
      BY <3>2 DEF RunCalls
    <3> QED
      BY <1>1, <3>1, <3>2, <3>3 DEF LinesAreSomewhere
  <2>2. frames' = [frames EXCEPT ![c] = new] /\ uplink' = uplink
    <3>1. stdout.tee = c /\ c # 0
      BY <2>1 DEF TeeOf
    <3> QED
      BY <3>1 DEF PrintLine
  <2>3. /\ new \in RunCalls /\ new.logs = old.logs /\ new.installed = old.installed
        /\ new.gen = old.gen /\ new.previous = old.previous /\ new.since = old.since
        /\ new.buffer = Append(old.buffer, printed + 1)
    <3>1. printed + 1 \in Nat
      BY <1>2
    <3>2. old.buffer \in Seq(Nat)
      BY <2>1 DEF RunCalls
    <3> HIDE DEF old
    <3>3. Append(old.buffer, printed + 1) \in Seq(Nat)
      BY <3>1, <3>2
    <3>4. new \in RunCalls
      BY <2>1, <3>3 DEF RunCalls
    <3> QED
      BY <2>1, <3>4 DEF RunCalls
  <2>4. new.buffer = From(old.since, printed + 1)
    BY <1>2, <2>1, <2>3, OneMore
  <2> HIDE DEF new
  <2>5. /\ frames' \in Seq(RunCalls) /\ Len(frames') = Len(frames) /\ frames'[c] = new
        /\ \A k \in 1 .. Len(frames) : k # c => frames'[k] = frames[k]
    BY <1>1, <2>1, <2>2, <2>3 DEF RunTypes
  <2>6. /\ \A k \in 1 .. Len(frames) : /\ frames'[k].logs = frames[k].logs
                                       /\ frames'[k].installed = frames[k].installed
                                       /\ frames'[k].gen = frames[k].gen
    BY <2>3, <2>5
  <2>7. Logging' = Logging /\ Catching' = Catching
    BY <2>5, <2>6 DEF Logging, Catching
  <2>8. RunTypes'
    BY <1>1, <1>2, <2>2, <2>5 DEF RunTypes
  <2>9. OneCatches'
    BY <1>1, <1>2, <2>5, <2>6, <2>7 DEF OneCatches
  <2>10. \A k \in Catching : k = c
    <3>1. \A k \in Catching : k \in Logging /\ c \in Logging /\ k <= c /\ c <= k
      BY <1>1 DEF OneCatches, Catching
    <3>2. \A k \in Catching : k \in Nat /\ c \in Nat
      BY DEF Catching
    <3> QED
      BY <3>1, <3>2
  <2>11. LinesAreSomewhere'
    <3>1. /\ stdout' = TeeOf(c) /\ suppressDepth' = 1 /\ frames'[c].previous = Tap(generation')
          /\ frames'[c].since <= printed' /\ frames'[c].buffer = From(frames'[c].since, printed')
          /\ uplink' = From(0, frames'[c].since)
      BY <1>1, <1>2, <2>1, <2>2, <2>3, <2>4, <2>5 DEF LinesAreSomewhere
    <3>2. Catching' = {c}
      BY <2>7, <2>10
    <3> QED
      BY <3>1, <3>2 DEF LinesAreSomewhere
  <2> QED
    BY <2>8, <2>9, <2>11 DEF ScriptInv
<1>4. CASE Catching = {}
  <2>1. stdout = Tap(generation) /\ suppressDepth = 0 /\ uplink = From(0, printed)
    BY <1>1, <1>4 DEF LinesAreSomewhere
  <2>2. stdout.tee = 0 /\ stdout.wrapper = generation
    BY <2>1 DEF Tap
  <2>3. uplink' = Append(uplink, printed + 1) /\ frames' = frames
    BY <2>1, <2>2 DEF PrintLine
  <2>4. uplink' = From(0, printed')
    BY <1>2, <2>1, <2>3, OneMore
  <2>5. uplink' \in Seq(Nat)
    BY <1>1, <1>2, <2>3 DEF RunTypes
  <2>6. RunTypes'
    BY <1>1, <1>2, <2>3, <2>5 DEF RunTypes
  <2>7. Logging' = Logging /\ Catching' = {}
    BY <1>4, <2>3 DEF Logging, Catching
  <2>8. OneCatches' /\ LinesAreSomewhere'
    BY <1>1, <1>2, <1>4, <2>1, <2>3, <2>4, <2>7 DEF OneCatches, LinesAreSomewhere
  <2> QED
    BY <2>6, <2>8 DEF ScriptInv
<1> QED
  BY <1>3, <1>4

LEMMA EndKeepsInv ==
    ASSUME ScriptInv, ~crossed, NEW how \in Endings, End(how)
    PROVE  ScriptInv'
<1> DEFINE n == Len(frames)
           f == frames[n]
<1>1. RunTypes /\ OneCatches /\ LinesAreSomewhere
  BY DEF ScriptInv
<1>2. /\ frames # <<>> /\ frames' = Front(frames) /\ stdout' = Restored(f, how)
      /\ captureDepth' = IF f.logs /\ captureDepth > 0 THEN captureDepth - 1 ELSE captureDepth
      /\ suppressDepth' = IF f.installed /\ f.gen = generation THEN suppressDepth - 1 ELSE suppressDepth
      /\ uplink' = IF f.installed /\ f.gen = generation THEN uplink \o f.buffer ELSE uplink
      /\ UNCHANGED <<registry, resolves, generation, printed, crossed>>
  BY DEF End, Busy, Last
<1>3. frames \in Seq(RunCalls) /\ n \in Nat /\ n > 0 /\ n \in 1 .. Len(frames) /\ f \in RunCalls
  <2>1. frames \in Seq(RunCalls) /\ n \in Nat /\ n # 0
    BY <1>1, <1>2 DEF RunTypes
  <2> QED
    BY <2>1
<1>4. /\ frames' \in Seq(RunCalls) /\ Len(frames') = n - 1
      /\ \A k \in 1 .. n - 1 : frames'[k] = frames[k]
  <2>1. n - 1 \in Nat /\ \A k \in 1 .. n - 1 : frames[k] \in RunCalls
    BY <1>3
  <2> DEFINE m == n - 1
  <2>2. frames' = SubSeq(frames, 1, m)
    BY <1>2 DEF Front
  <2>3. m \in Int /\ 1 \in Int /\ (\A k \in 1 .. m : frames[k] \in RunCalls) /\ m \in Nat
    BY <2>1
  <2> HIDE DEF m
  <2>4. /\ SubSeq(frames, 1, m) \in Seq(RunCalls)
        /\ Len(SubSeq(frames, 1, m)) = IF 1 <= m THEN m - 1 + 1 ELSE 0
        /\ \A i \in 1 .. m - 1 + 1 : SubSeq(frames, 1, m)[i] = frames[1 + i - 1]
    BY <2>3, SubSeqProperties
  <2>5. Len(frames') = m /\ \A i \in 1 .. m : frames'[i] = frames[i]
    BY <2>2, <2>3, <2>4
  <2> QED
    BY <2>2, <2>4, <2>5 DEF m
<1>5. \A k \in 1 .. n : k = n \/ k \in 1 .. n - 1
  BY <1>3
<1>6. /\ Logging' = Logging \ {n} /\ Catching' = Catching \ {n}
      /\ n \in Logging <=> f.logs
      /\ n \in Catching <=> f.installed
  <2>1. n \notin 1 .. n - 1 /\ 1 .. n - 1 \subseteq 1 .. n
    BY <1>3
  <2> HIDE DEF n
  <2> QED
    BY <1>3, <1>4, <1>5, <2>1 DEF Logging, Catching, n
<1>7. f.gen = generation /\ f.logs \in BOOLEAN /\ f.installed \in BOOLEAN
  BY <1>1, <1>3 DEF OneCatches, RunCalls
<1>8. IsFiniteSet(Logging) /\ captureDepth = Cardinality(Logging) /\ captureDepth \in Nat
  BY <1>1, LoggingIsFinite DEF OneCatches, RunTypes
<1>9. captureDepth' = Cardinality(Logging)' /\ captureDepth' \in Nat
  <2>1. Cardinality(Logging \ {n}) = IF n \in Logging THEN captureDepth - 1 ELSE captureDepth
    BY <1>8, FS_RemoveElement
  <2>2. n \in Logging => captureDepth > 0
    BY <1>8, FS_EmptySet
  <2> HIDE DEF n, f
  <2> QED
    BY <1>2, <1>6, <1>8, <2>1, <2>2
<1>10. Logging \subseteq 1 .. n /\ Catching \subseteq 1 .. n
  BY DEF Logging, Catching
<1>11. OneCatches'
  <2>1. ASSUME NEW k \in 1 .. n - 1
        PROVE  /\ frames'[k].gen = generation
               /\ k \in Catching' <=> k \in Logging' /\ \A l \in Logging' : k <= l
    <3>1. k \in 1 .. Len(frames) /\ k # n /\ k <= n
      BY <1>3
    <3>2. k \in Catching <=> k \in Logging /\ \A l \in Logging : k <= l
      BY <1>1, <3>1 DEF OneCatches
    <3>3. frames'[k].gen = generation
      BY <1>1, <1>4, <3>1 DEF OneCatches
    <3>4. (\A l \in Logging : k <= l) <=> (\A l \in Logging \ {n} : k <= l)
      BY <3>1
    <3> QED
      BY <1>6, <3>1, <3>2, <3>3, <3>4
  <2>2. Len(frames)' = n - 1 /\ generation' = generation
    BY <1>2, <1>4
  <2> HIDE DEF n
  <2> QED
    BY <1>9, <2>1, <2>2 DEF OneCatches
<1>12. CASE f.installed
  <2>1. n \in Catching /\ \A k \in Catching : k = n
    <3>1. n \in Catching
      BY <1>6, <1>12
    <3>2. \A k \in Catching : k \in Logging /\ n \in Logging /\ k <= n /\ n <= k
      BY <1>1, <3>1 DEF OneCatches, Catching
    <3>3. \A k \in Catching : k \in Nat
      BY DEF Catching
    <3> QED
      BY <1>3, <3>1, <3>2, <3>3
  <2>2. /\ suppressDepth = 1 /\ f.previous = Tap(generation) /\ f.since <= printed
        /\ f.buffer = From(f.since, printed) /\ uplink = From(0, f.since)
    BY <1>1, <2>1 DEF LinesAreSomewhere
  <2>3. f.since \in Nat /\ printed \in Nat /\ generation \in Nat
    BY <1>1, <1>3 DEF RunTypes, RunCalls
  <2>4. stdout' = Tap(generation) /\ suppressDepth' = 0 /\ uplink' = uplink \o f.buffer
    BY <1>2, <1>7, <1>12, <2>2 DEF Restored
  <2>5. uplink' = From(0, printed)
    BY <2>2, <2>3, <2>4, BothParts
  <2>6. Catching' = {}
    BY <1>6, <2>1
  <2>7. stdout' \in [tee : Nat, wrapper : Nat]
    BY <2>3, <2>4 DEF Tap
  <2>8. uplink' \in Seq(Nat)
    BY <2>3, <2>5 DEF From
  <2>9. RunTypes'
    BY <1>1, <1>2, <1>4, <1>9, <2>4, <2>7, <2>8 DEF RunTypes
  <2>10. LinesAreSomewhere'
    BY <1>2, <2>4, <2>5, <2>6 DEF LinesAreSomewhere
  <2> QED
    BY <1>11, <2>9, <2>10 DEF ScriptInv
<1>13. CASE ~f.installed
  <2>1. UNCHANGED <<stdout, suppressDepth, uplink, printed, generation>> /\ Catching' = Catching
    BY <1>2, <1>6, <1>13 DEF Restored
  <2>2. \A k \in Catching : frames'[k] = frames[k]
    <3>1. n \notin Catching
      BY <1>6, <1>13
    <3> QED
      BY <1>4, <1>5, <1>10, <3>1
  <2>3. RunTypes'
    BY <1>1, <1>2, <1>4, <1>9, <2>1 DEF RunTypes
  <2>4. LinesAreSomewhere'
    BY <1>1, <2>1, <2>2 DEF LinesAreSomewhere
  <2> QED
    BY <1>11, <2>3, <2>4 DEF ScriptInv
<1> QED
  BY <1>12, <1>13

LEMMA ReloadKeepsInv ==
    ASSUME ScriptInv, ~crossed, ReloadInPlace \/ ReloadFresh
    PROVE  ScriptInv'
<1>1. RunTypes /\ OneCatches /\ LinesAreSomewhere
  BY DEF ScriptInv
<1>2. /\ captureDepth' = 0 /\ suppressDepth' = 0 /\ crossed' = (crossed \/ Busy)
      /\ UNCHANGED <<resolves, frames, printed, uplink>>
      /\ stdout' = Tap(generation')
      /\ generation' = generation \/ generation' = generation + 1
      /\ registry' = registry \/ registry' = [s \in Sources |-> None]
  BY DEF ReloadInPlace, ReloadFresh, Reloaded
<1>3. CASE Busy
  BY <1>2, <1>3 DEF ScriptInv
<1>4. CASE ~Busy
  <2>1. frames = <<>> /\ Len(frames) = 0
    BY <1>4 DEF Busy
  <2>2. Logging' = {} /\ Catching' = {} /\ Catching = {}
    BY <1>2, <2>1 DEF Logging, Catching
  <2>3. generation' \in Nat
    BY <1>1, <1>2 DEF RunTypes
  <2>4. stdout' \in [tee : Nat, wrapper : Nat]
    BY <1>2, <2>3 DEF Tap
  <2>5. RunTypes'
    BY <1>1, <1>2, <2>3, <2>4 DEF RunTypes
  <2>6. OneCatches'
    BY <1>2, <2>1, <2>2, FS_EmptySet DEF OneCatches
  <2>7. LinesAreSomewhere'
    BY <1>1, <1>2, <2>2 DEF LinesAreSomewhere
  <2> QED
    BY <2>5, <2>6, <2>7 DEF ScriptInv
<1> QED
  BY <1>3, <1>4

LEMMA ScriptStays == ASSUME ScriptInv, [ScriptNext]_scriptVars PROVE ScriptInv'
<1>1. CASE UNCHANGED scriptVars
  <2>1. ~crossed => registry \in [Sources -> {None} \cup SUBSET ScriptTargets]
                    /\ resolves \in [ScriptTargets -> Resolutions]
    BY DEF ScriptInv, RunTypes
  <2> QED
    BY <1>1, <2>1, AwayFromTheStreams DEF scriptVars
<1>2. CASE crossed /\ ScriptNext
  <2>1. crossed'
    BY <1>2 DEF ScriptNext, Handler, Register, Delete, Check, RefuseSource, RunInline, RunSource, BeginRun,
       PrintLine, ReloadInPlace, ReloadFresh, Reloaded, TouchScene, End
  <2> QED
    BY <2>1 DEF ScriptInv
<1>3. CASE ~crossed /\ ScriptNext
  <2>1. ASSUME NEW logs \in BOOLEAN, RunInline(logs) PROVE ScriptInv'
    BY <1>3, <2>1, BeginKeepsInv DEF RunInline
  <2>2. ASSUME NEW logs \in BOOLEAN, NEW s \in Sources, RunSource(s, logs) PROVE ScriptInv'
    <3>1. registry[s] \subseteq ScriptTargets /\ resolves \in [ScriptTargets -> Resolutions]
      BY <1>3, <2>2 DEF RunSource, ScriptInv, RunTypes
    <3>2. CheckDependencies(s) \in SUBSET (ScriptTargets \X Resolutions)
      BY <3>1 DEF CheckDependencies
    <3> QED
      BY <1>3, <2>2, <3>2, BeginKeepsInv DEF RunSource
  <2>3. ASSUME NEW how \in Endings, End(how) PROVE ScriptInv'
    BY <1>3, <2>3, EndKeepsInv
  <2> QED
    BY <1>3, <2>1, <2>2, <2>3, HandlersKeepInv, PrintKeepsInv, ReloadKeepsInv DEF ScriptNext, Handler
<1> QED
  BY <1>1, <1>2, <1>3

LEMMA ToldScripts == ASSUME ScriptInv PROVE ScriptsAreTold
<1> SUFFICES ASSUME ~crossed PROVE ScriptsAreTold
  BY DEF ScriptsAreTold, StreamsAreGivenBack, LinesAreCapturedOnce
<1>1. RunTypes /\ OneCatches /\ LinesAreSomewhere
  BY DEF ScriptInv
<1>2. printed \in Nat
  BY <1>1 DEF RunTypes
<1>3. ASSUME ~Busy PROVE Catching = {} /\ captureDepth = 0
  <2>1. frames = <<>> /\ Len(frames) = 0
    BY <1>3 DEF Busy
  <2>2. Logging = {} /\ Catching = {}
    BY <2>1 DEF Logging, Catching
  <2> QED
    BY <1>1, <2>2, FS_EmptySet DEF OneCatches
<1>4. StreamsAreGivenBack
  BY <1>1, <1>3 DEF StreamsAreGivenBack, LinesAreSomewhere
<1>5. \A k \in DOMAIN frames : frames[k].installed =>
        frames[k].buffer = [i \in 1 .. printed - frames[k].since |-> frames[k].since + i]
  <2>1. DOMAIN frames = 1 .. Len(frames)
    BY <1>1 DEF RunTypes
  <2> QED
    BY <1>1, <2>1 DEF LinesAreSomewhere, Catching, From
<1>6. \E m \in 0 .. printed : uplink = From(0, m) /\ (Catching = {} => m = printed)
  <2>1. CASE Catching = {}
    BY <1>1, <1>2, <2>1 DEF LinesAreSomewhere
  <2>2. ASSUME NEW c \in Catching PROVE \E m \in 0 .. printed : uplink = From(0, m) /\ (Catching = {} => m = printed)
    <3>0. c \in 1 .. Len(frames) /\ frames \in Seq(RunCalls)
      BY <1>1 DEF RunTypes, Catching
    <3>1. frames[c].since \in Nat
      <4>1. frames[c] \in RunCalls
        BY <3>0
      <4> QED
        BY <4>1 DEF RunCalls
    <3>2. frames[c].since <= printed /\ uplink = From(0, frames[c].since)
      BY <1>1 DEF LinesAreSomewhere
    <3> QED
      BY <1>2, <3>1, <3>2
  <2> QED
    BY <2>1, <2>2
<1>7. PICK m \in 0 .. printed : uplink = From(0, m) /\ (Catching = {} => m = printed)
  BY <1>6
<1>8. ASSUME NEW line \in 1 .. printed PROVE Times(line) <= 1 /\ (~Busy => Times(line) = 1)
  <2>1. DOMAIN uplink = 1 .. m /\ \A i \in 1 .. m : uplink[i] = i
    BY <1>2, <1>7 DEF From
  <2> DEFINE S == {i \in DOMAIN uplink : uplink[i] = line}
  <2>2. CASE line \in 1 .. m
    <3>1. S = {line}
      BY <2>1, <2>2
    <3>2. Cardinality({line}) = 1
      BY FS_Singleton
    <3> QED
      BY <3>1, <3>2 DEF Times
  <2>3. CASE line \notin 1 .. m
    <3>1. S = {}
      BY <2>1, <2>3
    <3>2. Busy
      BY <1>3, <1>7, <2>3
    <3>3. Times(line) = 0
      BY <3>1, FS_EmptySet DEF Times
    <3> QED
      BY <3>2, <3>3
  <2> QED
    BY <2>2, <2>3
<1>9. LinesAreCapturedOnce
  BY <1>5, <1>8 DEF LinesAreCapturedOnce
<1> QED
  BY <1>4, <1>9 DEF ScriptsAreTold

\* Whatever runs inside what and however it ends: what scripts print is report once, and
\* the streams are given back (execute.py, logtap.py).
THEOREM ScriptsAreAlwaysTold == ScriptSpec => []ScriptsAreTold
BY ScriptInit0, ScriptStays, ToldScripts, PTL DEF ScriptSpec

-----------------------------------------------------------------------------
\* What a call that edits leaves is what the caller is report, whatever the call, and what
\* it borrows is given back (mutate.py, param_interface.py, execute.py, logtap.py).
THEOREM EditsAreAlwaysTold == EditSpec => []EditsAreTold
BY BatchIsAlwaysAsTold, PanelIsAlwaysAsTold, ScriptsAreAlwaysTold, PTL DEF EditSpec, EditsAreTold

=============================================================================
