---------------------------- MODULE BridgeRuntime --------------------------
(***************************************************************************)
(* The bridge inside TouchDesigner: the callbacks of the tox that decide   *)
(* when to dial (tox_callbacks.py), the package's bootstrap_threaded and   *)
(* disconnect, the worker thread that serves one connection, and the queue *)
(* through which a worker hands its request to the main thread             *)
(* (task_queue.py).                                                        *)
(*                                                                         *)
(* Main-thread entry points (a frame, the watchdog, a pump callback, the   *)
(* end of a dispatch) are steps taken while `main` is idle; a disconnect   *)
(* keeps the main thread in join().  Workers run beside them.              *)
(*                                                                         *)
(* Each connection is served by a package of its own: bootstrap.main()     *)
(* purges the modules before it imports them again, so a session is also   *)
(* the name of a package generation, with its queue and its chain of pump  *)
(* callbacks.  A worker has one request at a time, so the queue of a       *)
(* generation holds at most one.  td.run is taken not to raise, and the    *)
(* rows drawn on the bridge's face are left out.                           *)
(***************************************************************************)
EXTENDS Absent, Naturals, FiniteSets

CONSTANTS
    Sessions,    \* connections, in the order 1, 2, ...
    Requests,    \* requests of the daemon
    MaxDeaths,   \* bound on deaths of the daemon
    MaxClicks    \* bound on what the user changes

ASSUME RuntimeAssumption ==
    /\ Sessions \subseteq Nat /\ None \notin Sessions \cup Requests
    /\ MaxDeaths \in Nat /\ MaxClicks \in Nat

VARIABLES
    worker,      \* worker[w]: where the thread that serves w stands
    open,        \* open[w]: its stream
    leaving,     \* leaving[w]: tdmcp_shutting_down is set on the thread
    active,      \* _active_thread of the current package
    draining,    \* _shutting_down_thread of the current package
    current,     \* the generation whose modules are the imported ones
    scheduled,   \* its _pump_scheduled
    chain,       \* chain[w]: pump callbacks of generation w in flight
    queue,       \* queue[w]: _pending of generation w
    holds,       \* holds[w]: the request worker w waits for
    slot,        \* slot[r]: the response put for r
    abandoned,   \* requests whose running dispatch nobody waits for
    ran,         \* requests that were dispatched
    told,        \* told[r]: what the daemon was answered
    main,        \* what the main thread is in
    connect, autoconnect, playing,
    prevConnect, \* _prev_connect
    polls,       \* a _reconnect_watchdog callback is in flight
    backoff,     \* the last attempt is less than _RECONNECT_BACKOFF_S ago
    daemonUp, serves, died, clicks

threads == <<worker, open, leaving, holds>>
package == <<active, draining, current, scheduled>>
requests == <<slot, abandoned, ran, told>>
face == <<connect, autoconnect, playing>>
tox == <<prevConnect, polls, backoff>>
outside == <<daemonUp, serves, died>>
runtimeVars == <<threads, package, chain, queue, requests, main, face, clicks, tox, outside>>

Idle == [at |-> "idle"]

RuntimeTypeOK ==
    /\ worker \in [Sessions -> {"new", "reading", "waiting", "overdue", "exited"}]
    /\ open \in [Sessions -> BOOLEAN] /\ leaving \in [Sessions -> BOOLEAN]
    /\ {active, draining, current, serves} \subseteq Sessions \cup {None}
    /\ scheduled \in BOOLEAN /\ chain \in [Sessions -> Nat]
    /\ queue \in [Sessions -> Requests \cup {None}] /\ holds \in [Sessions -> Requests \cup {None}]
    /\ slot \in [Requests -> {"empty", "result", "cancelled"}]
    /\ abandoned \subseteq Requests /\ ran \subseteq Requests
    /\ told \in [Requests -> {"nothing", "sent", "result", "cancelled", "timeout", "lost"}]
    /\ \/ main = Idle
       \/ main.at = "dispatch" /\ main.req \in Requests
       \/ main.at \in {"join", "await"} /\ main.of \in Sessions /\ main.then \in {"off", "again"}
    /\ \A b \in {connect, autoconnect, playing, prevConnect, polls, backoff, daemonUp} : b \in BOOLEAN
    /\ died \in 0 .. MaxDeaths /\ clicks \in 0 .. MaxClicks

RuntimeInit ==
    /\ worker = [w \in Sessions |-> "new"] /\ open = [w \in Sessions |-> FALSE]
    /\ leaving = [w \in Sessions |-> FALSE] /\ holds = [w \in Sessions |-> None]
    /\ active = None /\ draining = None /\ current = None /\ scheduled = FALSE
    /\ chain = [w \in Sessions |-> 0] /\ queue = [w \in Sessions |-> None]
    /\ slot = [r \in Requests |-> "empty"] /\ abandoned = {} /\ ran = {}
    /\ told = [r \in Requests |-> "nothing"]
    /\ main = Idle
    /\ connect \in BOOLEAN /\ autoconnect \in BOOLEAN /\ playing = TRUE /\ clicks = 0
    /\ prevConnect = connect /\ polls = connect /\ backoff = FALSE
    /\ daemonUp = TRUE /\ serves = None /\ died = 0

Alive(w) == worker[w] \notin {"new", "exited"}

\* is_connected() and is_shutting_down().
Connected == active # None /\ Alive(active)
DrainingForGood == draining # None
Draining == draining # None /\ Alive(draining)

-----------------------------------------------------------------------------
(* serve_queued: the worker thread of connection w.                        *)

Reading(w) == worker[w] = "reading"

\* A request is read and queued for the main thread.
WorkerReads(w) ==
    /\ Reading(w) /\ open[w] /\ serves = w
    /\ \E r \in Requests :
          /\ told[r] = "nothing"
          /\ told' = [told EXCEPT ![r] = "sent"]
          /\ queue' = [queue EXCEPT ![w] = r]
          /\ holds' = [holds EXCEPT ![w] = r]
    /\ worker' = [worker EXCEPT ![w] = "waiting"]
    /\ UNCHANGED <<open, leaving, package, chain, slot, abandoned, ran, main, face, clicks, tox, outside>>

WorkerStops(w) ==
    /\ Reading(w) /\ ~open[w]
    /\ worker' = [worker EXCEPT ![w] = "exited"]
    /\ UNCHANGED <<open, leaving, holds, package, chain, queue, requests, main, face, clicks, tox, outside>>

\* The answer is written, or the write fails and the worker ends.
Write(w, answer) ==
    /\ told' = [told EXCEPT ![holds[w]] = IF open[w] THEN answer ELSE "lost"]
    /\ worker' = [worker EXCEPT ![w] = IF open[w] THEN "reading" ELSE "exited"]
    /\ holds' = [holds EXCEPT ![w] = None]

WorkerAnswers(w) ==
    /\ worker[w] = "waiting" /\ slot[holds[w]] # "empty"
    /\ Write(w, slot[holds[w]])
    /\ UNCHANGED <<open, leaving, package, chain, queue, slot, abandoned, ran, main, face, clicks, tox, outside>>

WorkerGivesUp(w) ==
    /\ worker[w] = "waiting" /\ slot[holds[w]] = "empty"
    /\ worker' = [worker EXCEPT ![w] = "overdue"]
    /\ UNCHANGED <<open, leaving, holds, package, chain, queue, requests, main, face, clicks, tox, outside>>

AbandonRunningOnly(w) ==
    /\ queue' = queue
    /\ abandoned' = IF main.at = "dispatch" /\ main.req = holds[w]
                    THEN abandoned \cup {holds[w]} ELSE abandoned

\* _abandon_pending: out of the queue, or marked if it is running.
Abandon(w) ==
    /\ queue' = [queue EXCEPT ![w] = IF @ = holds[w] THEN None ELSE @]
    /\ abandoned' = IF queue[w] # holds[w] /\ main.at = "dispatch" /\ main.req = holds[w]
                    THEN abandoned \cup {holds[w]} ELSE abandoned

WorkerAbandons(w) ==
    /\ worker[w] = "overdue"
    /\ Abandon(w)
    /\ Write(w, "timeout")
    /\ UNCHANGED <<open, leaving, package, chain, slot, ran, main, face, clicks, tox, outside>>

Worker(w) == WorkerReads(w) \/ WorkerStops(w) \/ WorkerAnswers(w) \/ WorkerGivesUp(w) \/ WorkerAbandons(w)

-----------------------------------------------------------------------------
(* process_pending and the pump.                                           *)

Take(w) ==
    /\ main = Idle /\ queue[w] # None
    /\ main' = [at |-> "dispatch", req |-> queue[w]]
    /\ queue' = [queue EXCEPT ![w] = None]
    /\ ran' = ran \cup {queue[w]}

Deliver(r, response) ==
    slot' = IF r \in abandoned THEN slot ELSE [slot EXCEPT ![r] = response]

DispatchEnds ==
    /\ main.at = "dispatch"
    /\ Deliver(main.req, "result")
    /\ main' = Idle
    /\ UNCHANGED <<threads, package, chain, queue, abandoned, ran, told, face, clicks, tox, outside>>

\* A callback drains the queue of the generation it was scheduled by.
PumpTakes(w) ==
    /\ chain[w] > 0 /\ Take(w)
    /\ UNCHANGED <<threads, package, chain, slot, abandoned, told, face, clicks, tox, outside>>

\* Then it schedules the pump of the package that is current now, or stops.
PumpTurns(w) ==
    /\ chain[w] > 0 /\ main = Idle /\ queue[w] = None
    /\ LET ended == [chain EXCEPT ![w] = @ - 1] IN
       chain' = IF Connected THEN [ended EXCEPT ![active] = @ + 1] ELSE ended
    /\ scheduled' = (scheduled /\ (Connected \/ w # current))
    /\ UNCHANGED <<threads, active, draining, current, queue, requests, main, face, clicks, tox, outside>>

Pump(w) == PumpTakes(w) \/ PumpTurns(w)

-----------------------------------------------------------------------------
(* bootstrap_threaded and disconnect.                                      *)

Fresh == {w \in Sessions : worker[w] = "new"}

\* _recover_session, for the threads that are leaving.
Recover(of) ==
    \/ \E w \in of : Alive(w) /\ leaving[w] /\ draining' = w
    \/ (\A w \in of : ~(Alive(w) /\ leaving[w])) /\ draining' = None

\* dial, handshake, start the worker, start the pump.  The daemon closes the
\* connection this one supersedes.  kept callbacks run the reloaded pump as well.
Dial(w, kept) ==
    /\ daemonUp /\ w \in Fresh /\ \A v \in Fresh : w <= v
    /\ worker' = [worker EXCEPT ![w] = "reading"]
    /\ open' = [v \in Sessions |-> v = w \/ (open[v] /\ v # serves)]
    /\ serves' = w
    /\ active' = w /\ current' = w /\ scheduled' = TRUE
    /\ chain' = [v \in Sessions |-> IF v = w THEN kept + 1
                                    ELSE IF v = current /\ kept > 0 THEN 0 ELSE chain[v]]
    /\ Recover(Sessions)

DialFails ==
    /\ ~daemonUp
    /\ active' = None /\ current' = None /\ scheduled' = FALSE
    /\ Recover(Sessions)
    /\ UNCHANGED <<worker, open, serves, chain>>

\* bootstrap.main(): the modules are purged, so nothing of the old package is known.
RunBootstrap ==
    /\ ~backoff /\ backoff' = TRUE
    /\ DialFails \/ \E w \in Sessions : Dial(w, 0)
    /\ UNCHANGED <<leaving, holds, queue, requests, main, face, clicks, daemonUp, died>>

\* disconnect(): forget the session, unblock its worker, join it for 2 s.
Disconnect(then) ==
    /\ main' = [at |-> "join", of |-> active, then |-> then]
    /\ active' = None
    /\ open' = [open EXCEPT ![active] = FALSE]
    /\ UNCHANGED <<worker, leaving, holds, draining, current, scheduled, chain, queue, requests,
                   face, clicks, polls, backoff, outside>>

AfterJoin == IF main.then = "off" THEN Idle ELSE [main EXCEPT !.at = "await"]

JoinReturns ==
    /\ main.at = "join"
    /\ main' = AfterJoin
    /\ \/ ~Alive(main.of) /\ UNCHANGED <<leaving, draining>>
       \/ /\ Alive(main.of)
          /\ leaving' = [leaving EXCEPT ![main.of] = TRUE]
          /\ draining' = main.of
    /\ UNCHANGED <<worker, open, holds, active, current, scheduled, chain, queue, requests,
                   face, clicks, tox, outside>>

\* bootstrap_threaded called on a live package, from a script or the Textport: after
\* the disconnect a second bounded wait, a reload in place, and the new session.
Reconnects ==
    /\ main.at = "await" /\ main' = Idle
    /\ \/ \E w \in Sessions : Dial(w, IF current = None THEN 0 ELSE chain[current])
       \/ /\ ~daemonUp
          /\ active' = None /\ scheduled' = FALSE
          /\ Recover(Sessions)
          /\ UNCHANGED <<worker, open, serves, chain, current>>
    /\ queue' = [w \in Sessions |-> IF w = current THEN None ELSE queue[w]]
    /\ UNCHANGED <<leaving, holds, requests, face, clicks, tox, daemonUp, died>>

ScriptReconnects ==
    /\ main = Idle /\ Connected /\ clicks < MaxClicks
    /\ clicks' = clicks + 1
    /\ main' = [at |-> "join", of |-> active, then |-> "again"]
    /\ active' = None
    /\ open' = [open EXCEPT ![active] = FALSE]
    /\ UNCHANGED <<worker, leaving, holds, draining, current, scheduled, chain, queue, requests,
                   face, tox, outside>>

-----------------------------------------------------------------------------
(* onFrameStart and _reconnect_watchdog.                                   *)

Frame ==
    /\ playing /\ main = Idle
    /\ prevConnect' = connect
    /\ LET edge == connect /\ ~prevConnect
           dials == connect /\ ~Connected /\ ~Draining /\ (edge \/ autoconnect)
       IN \/ ~connect /\ Connected /\ Disconnect("off")
          \/ dials /\ RunBootstrap /\ UNCHANGED polls
          \/ /\ connect /\ Connected
             /\ Take(active)
             /\ UNCHANGED <<threads, package, chain, slot, abandoned, told, face, clicks,
                            polls, backoff, outside>>
          \/ /\ (~connect /\ ~Connected) \/ (dials /\ backoff)
                \/ (connect /\ ~dials /\ (Connected => queue[active] = None))
             /\ UNCHANGED <<threads, package, chain, queue, requests, main, face, clicks,
                            polls, backoff, outside>>

\* The Cancelqueued pulse, seen by a frame: cancel_queued().
FrameCancels ==
    /\ playing /\ main = Idle /\ current # None /\ queue[current] # None /\ clicks < MaxClicks
    /\ clicks' = clicks + 1
    /\ Deliver(queue[current], "cancelled")
    /\ queue' = [queue EXCEPT ![current] = None]
    /\ UNCHANGED <<threads, package, chain, abandoned, ran, told, main, face, tox, outside>>

\* It polls again in 2 s while Connect is on.
Watchdog ==
    /\ polls /\ main = Idle
    /\ polls' = connect
    /\ LET dials == ~Connected /\ ~Draining /\ connect /\ autoconnect
       IN \/ dials /\ RunBootstrap
          \/ /\ ~dials \/ backoff
             /\ UNCHANGED <<threads, package, chain, queue, requests, main, face, clicks, backoff, outside>>
    /\ UNCHANGED prevConnect

BackoffEnds ==
    /\ backoff /\ backoff' = FALSE
    /\ UNCHANGED <<threads, package, chain, queue, requests, main, face, clicks, prevConnect, polls, outside>>

-----------------------------------------------------------------------------
(* The user and the daemon.                                                *)

UserClicks ==
    /\ clicks < MaxClicks /\ clicks' = clicks + 1
    /\ \/ connect' = ~connect /\ UNCHANGED <<autoconnect, playing>>
       \/ playing' = ~playing /\ UNCHANGED <<connect, autoconnect>>
    /\ UNCHANGED <<threads, package, chain, queue, requests, main, tox, outside>>

DaemonDies ==
    /\ daemonUp /\ died < MaxDeaths
    /\ daemonUp' = FALSE /\ died' = died + 1 /\ serves' = None
    /\ open' = [w \in Sessions |-> FALSE]
    /\ UNCHANGED <<worker, leaving, holds, package, chain, queue, requests, main, face, clicks, tox>>

DaemonStarts ==
    /\ ~daemonUp /\ daemonUp' = TRUE
    /\ UNCHANGED <<threads, package, chain, queue, requests, main, face, clicks, tox, serves, died>>

-----------------------------------------------------------------------------
MainThread == Frame \/ DispatchEnds \/ JoinReturns \/ Reconnects

RuntimeNext ==
    \/ \E w \in Sessions : Worker(w) \/ Pump(w)
    \/ MainThread \/ Watchdog \/ BackoffEnds
    \/ FrameCancels \/ ScriptReconnects \/ UserClicks
    \/ DaemonDies \/ DaemonStarts

RuntimeSpec == RuntimeInit /\ [][RuntimeNext]_runtimeVars

\* The main loop of TouchDesigner runs frames while the timeline plays and delayed
\* callbacks always; threads run and their waits are bounded.
RuntimeFairness ==
    /\ \A w \in Sessions : WF_runtimeVars(Worker(w)) /\ WF_runtimeVars(Pump(w))
    /\ WF_runtimeVars(DispatchEnds) /\ WF_runtimeVars(JoinReturns) /\ WF_runtimeVars(Reconnects)
    /\ SF_runtimeVars(Frame) /\ WF_runtimeVars(Watchdog) /\ WF_runtimeVars(BackoffEnds)

-----------------------------------------------------------------------------
(* Properties.                                                             *)

\* Work that is still queued has its worker waiting for it: a request that the daemon
\* was told timed out or was cancelled is not run afterwards.
QueuedIsAwaited ==
    /\ RuntimeTypeOK
    /\ \A w \in Sessions : queue[w] # None => Alive(w) /\ holds[w] = queue[w]
    /\ \A r \in Requests : told[r] = "cancelled" => r \notin ran

\* With Connect and Autoconnect on, a playing timeline and a daemon that is there, the
\* bridge comes back, whatever teardown is under way (as long as the model has a
\* connection left to make).
ComesBack ==
    []<>(Connected \/ ~connect \/ ~autoconnect \/ ~playing \/ ~daemonUp \/ Fresh = {})

-----------------------------------------------------------------------------
(* What a comment promises and the code does not keep (README, Findings).  *)

\* "keep polling while Connect is on": the only reconnect a paused timeline has.
WatchdogPolls == []<>(polls \/ ~connect)
=============================================================================
