---------------------------- MODULE DaemonStart ----------------------------
(***************************************************************************)
(* How a daemon comes to own its data directory and its ports, and how it  *)
(* gives them up: ensure_daemon in the processes that want one             *)
(* (ensure.rs), the start and the end of run_daemon (main.rs), and the     *)
(* hand-over of /admin/restart (admin.rs).                                 *)
(*                                                                         *)
(* Owned are the HTTP port, the bridge port, the writer lock of the        *)
(* operation journal, and two files: ensure.lock, held by the process that *)
(* is starting a daemon, and daemon.lock, which names the daemon.  Files   *)
(* are removed by path, whoever wrote them.  Looking at a file and         *)
(* removing it are two steps.                                              *)
(***************************************************************************)
EXTENDS Absent, Naturals, FiniteSets

CONSTANTS
    Ensurers,      \* processes that call ensure_daemon, once each
    TrayEnsurers,  \* those that ask for a tray
    Daemons,       \* processes of the daemon
    Elder,         \* the one that serves at first, headless
    Ghost,         \* an ensure that was killed long ago, with the lock in its hands
    MaxKills       \* bound on daemons that are killed

ASSUME StartAssumption ==
    /\ TrayEnsurers \subseteq Ensurers /\ Elder \in Daemons
    /\ None \notin Ensurers \cup Daemons \cup {Ghost} /\ Ghost \notin Ensurers
    /\ MaxKills \in Nat

VARIABLES
    epc,         \* epc[e]: where ensure_daemon stands
    ensureLock,  \* who wrote ensure.lock, if there is one
    dpc,         \* dpc[d]: where the daemon stands
    prior,       \* prior[d]: the process --wait-for-pid names
    headless,    \* headless[d]: noGui of /admin/status
    quitting,    \* daemons whose shutdown token is cancelled
    httpPort, bridgePort,  \* the daemon that listens there
    writer,      \* the daemon that holds .writer.lock
    daemonLock,  \* the daemon that daemon.lock names
    killed       \* daemons that were killed

ensures == <<epc, ensureLock>>
owned == <<httpPort, bridgePort, writer, daemonLock>>
startVars == <<ensures, dpc, prior, headless, quitting, owned, killed>>

Alive(d) == dpc[d] \notin {"unused", "gone"}

StartTypeOK ==
    /\ epc \in [Ensurers -> {"idle", "shutdown", "waitDown", "reclaim", "unlink", "loop", "try",
                             "steal", "create", "recheck", "await", "done", "failed"}]
    /\ ensureLock \in Ensurers \cup {Ghost, None}
    /\ dpc \in [Daemons -> {"unused", "waiting", "preflight", "unlink", "refuse", "binding",
                            "stores", "bridge", "record", "serving", "draining", "cleanup", "gone"}]
    /\ prior \in [Daemons -> Daemons \cup {None}]
    /\ headless \in [Daemons -> BOOLEAN]
    /\ quitting \subseteq Daemons /\ killed \subseteq Daemons
    /\ \A o \in {httpPort, bridgePort, writer} : o # None => o \in Daemons /\ Alive(o)
    /\ daemonLock \in Daemons \cup {None}

StartInit ==
    /\ epc = [e \in Ensurers |-> "idle"]
    /\ ensureLock \in {None, Ghost}
    /\ dpc = [d \in Daemons |-> IF d = Elder THEN "serving" ELSE "unused"]
    /\ prior = [d \in Daemons |-> None]
    /\ headless = [d \in Daemons |-> d = Elder]
    /\ quitting = {} /\ killed = {}
    /\ httpPort = Elder /\ bridgePort = Elder /\ writer = Elder /\ daemonLock = Elder

\* health_ok: a daemon that listens but does not serve yet answers nobody in time.
Healthy == httpPort # None /\ dpc[httpPort] = "serving"

-----------------------------------------------------------------------------
(* ensure_daemon of process e.  (With poll_only it only looks.)            *)

EnsureTo(e, l) == epc' = [epc EXCEPT ![e] = l]
EnsureAt(e, l) == epc[e] = l

\* A healthy daemon will do, unless it is headless and a tray is wanted.
EnsureLooks(e) ==
    /\ EnsureAt(e, "idle")
    /\ \/ /\ Healthy /\ e \in TrayEnsurers /\ headless[httpPort]
          /\ EnsureTo(e, "shutdown")
       \/ /\ Healthy /\ ~(e \in TrayEnsurers /\ headless[httpPort])
          /\ EnsureTo(e, "done")
       \/ ~Healthy /\ EnsureTo(e, "reclaim")
    /\ UNCHANGED <<ensureLock, dpc, prior, headless, quitting, owned, killed>>

\* request_shutdown reaches the daemon that serves now, if any.
EnsureShutsDown(e) ==
    /\ EnsureAt(e, "shutdown")
    /\ quitting' = IF Healthy THEN quitting \cup {httpPort} ELSE quitting
    /\ EnsureTo(e, "waitDown")
    /\ UNCHANGED <<ensureLock, dpc, prior, headless, owned, killed>>

\* wait_until_unhealthy, or its 5 s are over.
EnsureWaitsDown(e) ==
    /\ EnsureAt(e, "waitDown")
    /\ EnsureTo(e, "reclaim")
    /\ UNCHANGED <<ensureLock, dpc, prior, headless, quitting, owned, killed>>

DeadOwner == daemonLock # None /\ ~Alive(daemonLock)

\* reclaim_stale_daemon_lock
EnsureReclaims(e) ==
    /\ \/ EnsureAt(e, "reclaim") /\ EnsureTo(e, IF DeadOwner THEN "unlink" ELSE "loop")
          /\ UNCHANGED daemonLock
       \/ EnsureAt(e, "unlink") /\ EnsureTo(e, "loop") /\ daemonLock' = None
    /\ UNCHANGED <<ensureLock, dpc, prior, headless, quitting, httpPort, bridgePort, writer, killed>>

EnsureLoops(e) ==
    /\ EnsureAt(e, "loop")
    /\ EnsureTo(e, IF Healthy THEN "done" ELSE "try")
    /\ UNCHANGED <<ensureLock, dpc, prior, headless, quitting, owned, killed>>

\* try_acquire_lock: only the lock of a dead process gets 30 s old, for an ensure gives
\* up after 15 s.
EnsureTries(e) ==
    /\ EnsureAt(e, "try")
    /\ EnsureTo(e, IF ensureLock = Ghost THEN "steal" ELSE "create")
    /\ UNCHANGED <<ensureLock, dpc, prior, headless, quitting, owned, killed>>

EnsureSteals(e) ==
    /\ EnsureAt(e, "steal")
    /\ ensureLock' = None
    /\ EnsureTo(e, "create")
    /\ UNCHANGED <<dpc, prior, headless, quitting, owned, killed>>

\* create_new
EnsureCreates(e) ==
    /\ EnsureAt(e, "create")
    /\ \/ ensureLock = None /\ ensureLock' = e /\ EnsureTo(e, "recheck")
       \/ ensureLock # None /\ ensureLock' = ensureLock /\ EnsureTo(e, "loop")
    /\ UNCHANGED <<dpc, prior, headless, quitting, owned, killed>>

\* Health again under the lock, then spawn_detached, which may fail.
EnsureSpawns(e) ==
    /\ EnsureAt(e, "recheck")
    /\ \/ /\ Healthy
          /\ ensureLock' = None /\ EnsureTo(e, "done")
          /\ UNCHANGED <<dpc, headless>>
       \/ /\ ~Healthy
          /\ ensureLock' = None /\ EnsureTo(e, "failed")
          /\ UNCHANGED <<dpc, headless>>
       \/ /\ ~Healthy
          /\ \E d \in Daemons :
                /\ dpc[d] = "unused"
                /\ dpc' = [dpc EXCEPT ![d] = "preflight"]
                /\ headless' = [headless EXCEPT ![d] = e \notin TrayEnsurers]
          /\ EnsureTo(e, "await")
          /\ UNCHANGED ensureLock
    /\ UNCHANGED <<prior, quitting, owned, killed>>

\* The guard goes with the call that returns, and takes the file with it.
EnsureServed(e) ==
    /\ EnsureAt(e, "await") /\ Healthy
    /\ ensureLock' = None /\ EnsureTo(e, "done")
    /\ UNCHANGED <<dpc, prior, headless, quitting, owned, killed>>

EnsureDeadline(e) ==
    /\ epc[e] \in {"loop", "await"}
    /\ ensureLock' = IF EnsureAt(e, "await") THEN None ELSE ensureLock
    /\ EnsureTo(e, IF Healthy THEN "done" ELSE "failed")
    /\ UNCHANGED <<dpc, prior, headless, quitting, owned, killed>>

Ensure(e) ==
    \/ EnsureLooks(e) \/ EnsureShutsDown(e) \/ EnsureWaitsDown(e) \/ EnsureReclaims(e)
    \/ EnsureLoops(e) \/ EnsureTries(e) \/ EnsureSteals(e) \/ EnsureCreates(e)
    \/ EnsureSpawns(e) \/ EnsureServed(e)

-----------------------------------------------------------------------------
(* The daemon d.                                                           *)

DaemonAt(d, l) == dpc[d] = l
DaemonTo(d, l) == dpc' = [dpc EXCEPT ![d] = l]

\* Exit gives the sockets and the file lock back, not the files.
Exits(d) ==
    /\ DaemonTo(d, "gone")
    /\ httpPort' = IF httpPort = d THEN None ELSE httpPort
    /\ bridgePort' = IF bridgePort = d THEN None ELSE bridgePort
    /\ writer' = IF writer = d THEN None ELSE writer

\* A replacement waits for the process it replaces, for 15 s.
AwaitPredecessor(d) ==
    /\ DaemonAt(d, "waiting")
    /\ \/ ~Alive(prior[d]) /\ DaemonTo(d, "preflight")
       \/ Alive(prior[d]) /\ DaemonTo(d, "gone")
    /\ UNCHANGED <<ensures, prior, headless, quitting, owned, killed>>

\* refuse_if_daemon_owned
Preflight(d) ==
    /\ \/ DaemonAt(d, "preflight") /\ DaemonTo(d, IF DeadOwner THEN "unlink" ELSE "refuse")
          /\ UNCHANGED daemonLock
       \/ DaemonAt(d, "unlink") /\ DaemonTo(d, "refuse") /\ daemonLock' = None
       \/ /\ DaemonAt(d, "refuse")
          /\ DaemonTo(d, IF daemonLock # None /\ Alive(daemonLock) /\ Healthy
                         THEN "gone" ELSE "binding")
          /\ UNCHANGED daemonLock
    /\ UNCHANGED <<ensures, prior, headless, quitting, httpPort, bridgePort, writer, killed>>

\* bind_with_retry: about 5 s.
Bind(d) ==
    /\ DaemonAt(d, "binding")
    /\ \/ httpPort = None /\ httpPort' = d /\ DaemonTo(d, "stores")
       \/ httpPort # None /\ httpPort' = httpPort /\ DaemonTo(d, "gone")
    /\ UNCHANGED <<ensures, prior, headless, quitting, bridgePort, writer, daemonLock, killed>>

\* A journal that another process holds is done without.
OpenStores(d) ==
    /\ DaemonAt(d, "stores")
    /\ writer' = IF writer = None THEN d ELSE writer
    /\ DaemonTo(d, "bridge")
    /\ UNCHANGED <<ensures, prior, headless, quitting, httpPort, bridgePort, daemonLock, killed>>

\* IpcListener::bind is tried once.  The daemon's name is written after it.
BindBridge(d) ==
    /\ DaemonAt(d, "bridge")
    /\ \/ /\ bridgePort = None
          /\ bridgePort' = d /\ DaemonTo(d, "record")
          /\ UNCHANGED <<httpPort, writer>>
       \/ bridgePort # None /\ Exits(d)
    /\ UNCHANGED <<ensures, prior, headless, quitting, daemonLock, killed>>

Record(d) ==
    /\ DaemonAt(d, "record")
    /\ daemonLock' = d
    /\ DaemonTo(d, "serving")
    /\ UNCHANGED <<ensures, prior, headless, quitting, httpPort, bridgePort, writer, killed>>

\* ctrl_c, the tray, the idle watcher or /admin/shutdown.
Quit(d) ==
    /\ DaemonAt(d, "serving") /\ d \notin quitting
    /\ quitting' = quitting \cup {d}
    /\ UNCHANGED <<ensures, dpc, prior, headless, owned, killed>>

\* /admin/restart: the replacement is spawned first and waits for this process.
Restart(d) ==
    /\ DaemonAt(d, "serving") /\ d \notin quitting
    /\ \E r \in Daemons :
          /\ DaemonAt(r, "unused")
          /\ DaemonTo(r, "waiting")
          /\ prior' = [prior EXCEPT ![r] = d]
          /\ headless' = [headless EXCEPT ![r] = headless[d]]
    /\ quitting' = quitting \cup {d}
    /\ UNCHANGED <<ensures, owned, killed>>

\* The server stops listening and drains; the bridge port stays bound meanwhile.
Drain(d) ==
    /\ DaemonAt(d, "serving") /\ d \in quitting
    /\ DaemonTo(d, "draining")
    /\ httpPort' = None
    /\ UNCHANGED <<ensures, prior, headless, quitting, bridgePort, writer, daemonLock, killed>>

\* Drained, or after DRAIN_DEADLINE: the accept loop is aborted ...
StopAccepting(d) ==
    /\ DaemonAt(d, "draining")
    /\ DaemonTo(d, "cleanup")
    /\ bridgePort' = IF bridgePort = d THEN None ELSE bridgePort
    /\ UNCHANGED <<ensures, prior, headless, quitting, httpPort, writer, daemonLock, killed>>

CleanupLeavingLock(d) ==
    /\ DaemonAt(d, "cleanup")
    /\ Exits(d)
    /\ UNCHANGED <<ensures, prior, headless, quitting, daemonLock, killed>>

\* ... daemon.lock is removed and the process ends.
Cleanup(d) ==
    /\ DaemonAt(d, "cleanup")
    /\ daemonLock' = None
    /\ Exits(d)
    /\ UNCHANGED <<ensures, prior, headless, quitting, killed>>

\* The process is killed.
Kill(d) ==
    /\ Alive(d) /\ Cardinality(killed) < MaxKills
    /\ killed' = killed \cup {d}
    /\ Exits(d)
    /\ UNCHANGED <<ensures, prior, headless, quitting, daemonLock>>

DaemonRuns(d) ==
    \/ AwaitPredecessor(d) \/ Preflight(d) \/ Bind(d) \/ OpenStores(d) \/ BindBridge(d)
    \/ Record(d) \/ Drain(d) \/ StopAccepting(d) \/ Cleanup(d)

-----------------------------------------------------------------------------
StartNext ==
    \/ \E e \in Ensurers : Ensure(e) \/ EnsureDeadline(e)
    \/ \E d \in Daemons : DaemonRuns(d) \/ Quit(d) \/ Restart(d) \/ Kill(d)

StartSpec == StartInit /\ [][StartNext]_startVars

-----------------------------------------------------------------------------
(* Properties.                                                             *)

\* daemon.lock names a daemon that runs, or one that was killed: a start that fails
\* half-way ("a port conflict exits with a clear error and never leaves a lock behind")
\* and a clean end leave none, whoever else starts or ends meanwhile.
LockNamesAnOwner ==
    /\ StartTypeOK
    /\ daemonLock # None /\ ~Alive(daemonLock) => daemonLock \in killed

\* "No other waiter can win the lock and spawn a second daemon while the first is
\* still starting": two ensures never wait for a child of their own at once.
SpawnsAreSerial ==
    \A e, f \in Ensurers : epc[e] = "await" /\ epc[f] = "await" => e = f
=============================================================================
