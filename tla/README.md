# TLA+ models of td-mcp-rs

td-mcp-rs connects MCP clients to running TouchDesigner processes. A long-lived
daemon owns everything that has to outlive a client: the fleet of bridges, the
sessions, the receipts of operations, the stored evidence. Inside every
TouchDesigner a Python bridge runs what the daemon asks for between two frames.
This directory holds TLA+ models of that machinery, the TLC configurations that
check them on small instances, and TLAPS proofs of what matters most for every
instance.

`PROJECT.json` maps every definition to the source lines it stands for, and
lists the runs, the mutants (a plausible bug for every property, which the
property has to catch), the findings, the hazards and the theorems.

1. The system - 2. Modules - 3. Runs - 4. Findings - 5. What is proved -
6. Abstractions and what is left out - 7. Plan

## 1. The system

    MCP client -- stdio proxy -- HTTP --> daemon -- pipe / socket --> bridge in TouchDesigner
                  daemon link             MCP server, admin API       worker thread + pump
                                          pid registry, session map
                                          operation journal, evidence store
                                          -- HTTP --> another daemon (federation)

Paths are below `src/crates/` or, where they start with `bridge/`, below `src/`.

| Component | State it keeps | Operations | What is hard |
|---|---|---|---|
| Bridge sessions (`tdmcp-daemon/src/bridge.rs`) | map pid -> handle, one actor per connection, job channel, cancel token, TTL tasks | accept, insert, cancel predecessor, run job, heartbeat, teardown | two mutexes taken one after the other; reconnects overlap the teardown of the predecessor; late frames |
| Pid registry (`tdmcp-core/src/registry.rs`, `resurrection.rs`, `fingerprint.rs`, `bridge_identity.rs`) | one row per pid: status, fingerprint, queue, trace of cancelled tasks, identity, spawn provenance | handshake, observe, lost, evict, enqueue, start, complete | rows change owner: pid reuse, reconnect, superseded generations |
| Task queue (`tdmcp-core/src/task_queue.rs`) | pending and in-flight slots | try_enqueue, start_next, complete, cancel_all | slots are not tied to the job they stand for |
| Tool call path (`tdmcp-mcp/src/tools.rs`, `outcomes.rs`, `session_registry.rs`) | a session slot, a queue slot, a receipt, a reply channel | resolve, gate, enqueue, call, map the answer | nested deadlines; the future may be dropped at any await; two daemons know the pid |
| Spawned processes (`tdmcp-mcp/src/lifecycle.rs`) | child handle, Starting row, project file | spawn_td, reap, wait, kill_td | the reaper outlives the row; numbers are reused; others make the same project |
| Operation journal (`tdmcp-daemon/src/opjournal.rs`, `opdispatch.rs`, `receipts.rs`) | one durable row per dispatched call | admit, mark_dispatched, finish, mark_wait_expired, resolve, recover | two writes per settle, destructor writes, crash and recovery, quotas and pruning |
| Mutate batches (`bridge/tdmcp_bridge/mutate.py`) | the scene, aliases | run steps until the first failure | TouchDesigner renames; paths of later steps are rewritten; a step may fail after writing part of its fields |
| Evidence store (`tdmcp-daemon/src/evidence_store.rs`) | observations, parts, blobs, pins, grants, cursors | reserve, append, finalize, commit, read, pin, grant, release, expire | blobs are shared; disk and database are written one after the other; quotas |
| Exports (same file) | staged files, journal, backups, destination | stage, journal, back up, publish, repair | a crash or a power loss between any two renames; the user writes too |
| Daemon link and stdio proxy (`tdmcp-mcp/src/daemon_link.rs`, `stdio_proxy.rs`) | peer + generation, unhealthy mark, gates | forward, heal, watch, respawn | several healers of one failure |
| Daemon start (`tdmcp-daemon/src/ensure.rs`, `main.rs`, `admin.rs`) | ensure.lock, daemon.lock, ports, journal lock | ensure, steal, reclaim, bind, drain, restart | several processes, stale locks, removal by path |
| Settings (`tdmcp-daemon/src/settings.rs`, `tdmcp-config`, `tdmcp-gui/src/app.rs`) | config.toml, live configuration, draft | patch, save, publish, offline save, install | four writers, of which one takes the lock |
| Federation (`federation.rs` in core and daemon) | slave table, role | register, push fleet, tick, resolve pid | role changes under requests in flight; lost and late pushes |
| Dialog watch (`tdmcp-dialogs`, `tdmcp-daemon/src/dialogs.rs`, `tdmcp-mcp/src/dialogs_tool.rs`) | cache per pid, one worker queue | sweep, gate, status, dismiss, verify | a probe that is given up goes on |
| Logs (`bridge/tdmcp_bridge/logtap.py`, `tdmcp-daemon/src/logring.rs`, GUI view) | tap, outbound queue, proxy channel, ring, rows | write, flush, drain, ingest, fetch, filter | every stage is bounded and drops; the cursor pages |
| Bridge queue (`bridge/tdmcp_bridge/task_queue.py`, `tox_callbacks.py`) | pending items, running item, package generations, watchdog | serve, pump, abandon, cancel, reconnect | worker thread against the main thread; a package reload under both |
| Timed jobs (`bridge/tdmcp_bridge/timing.py`) | one job with callbacks, saved timeline, recorder | start, tick, cancel, close, evict, release | partial failure at every acquisition; the user plays meanwhile |
| Scripts (`execute.py`, `script_source.py`, `logtap.py`) | stream stack, suppress counter, registry | run, capture, register, check, delete | nested runs, a reload inside one |
| Panels (`param_interface.py`) | pages and parameters | apply, verify | TouchDesigner renames and refuses; applied again |
| Samples, comparisons (`sample_data.py`, `compare.py`) | none | read pixels, channels, points; diff; guarded write | limits, orientation, values that are not finite; a baseline older than the scene |
| Project files (`tdmcp-mcp/src/project_unpack.rs`, `project_install.rs`, `bridge/.../project_snapshot.py`, `tdmcp-projectio`) | the user's files, private stages | unpack, install the bridge, snapshot and load | other programs at the destination; a rollback that fails |
| Installation (`tdmcp-daemon/src/install.rs`) | binary, assets, digest, install.lock | ensure_installed, replace_binary, sweep | a process that dies half-way, two installers |
| Palette (`tdmcp-mcp/src/palette.rs`, `tdmcp-projectio/src/palette.rs`) | index.json | scan, describe, ignore, forget, probe | load and save without a lock; a probe may take TouchDesigner down |
| Output views (`tdmcp-mcp/src/output_views.rs`, `output_v2.rs`) | none | factor a document, decode it | rewrites that have to be undone exactly, under limits |

MCP session leases, idle exit, framing, image admission, the drawn part of the
GUI, diagnostics and packaging keep no state these depend on; `PROJECT.json`
lists each with its reason, and section 6 says more.

### How they interact

A client's call goes through the proxy's link, the router of the MCP server, the
session slot, the per-pid queue, a receipt in the journal, the job channel of the
session's actor, the pipe, the bridge's pending list, and TouchDesigner's main
thread, and all the way back; each stage may give up while the next goes on. The
registry row, the handle in the session map and the connection are three records
of one bridge under two locks. The journal and the evidence store are SQLite
files that a crash leaves at any statement. The config file, the lock files, the
palette index, the projects and the installed files are shared with processes
the daemon knows nothing of.

### What makes each part correct

* **Sessions and registry** - a Connected row always has somebody who will serve
  or retract it; of all actors of a pid at most one runs on; metadata belongs to
  the connection the row is at; a caller gets the answer to its own request; no
  call leaves its slot behind; every job is answered; dead rows go away.
* **Journal** - a receipt never states more than was observed; settled receipts
  free their slot; quotas and history bounds hold; a restarted daemon recovers
  before it serves; an observation is never revised and an active receipt never
  forgotten.
* **Evidence store** - a chunk that is recorded is on disk; retained evidence is
  readable until it expires; who may read is backed by a lease; what is leased is
  within the limits. **Export** - no file of the user, and no export that was
  acknowledged, is lost to a failure, a crash or a power loss.
* **Launch** - what a caller is told of a launch is true, and no project is
  replaced. **Settings** - file, daemon and clients agree as long as everybody
  takes the lock. **Palette** - what failed too often in a row is
  not probed again, as long as no save takes a failure back.
* **Link, locks, federation, dialogs** - one reconnect per failure, and a marked
  link recovers; daemon.lock names somebody alive, or killed; a slave that goes
  on reporting is listed; the watcher's picture follows the screen.
* **Bridge** - a queued item has somebody who waits for it; a lost bridge comes
  back; a job owns recorder and timeline one at a time and gives them back; what
  a batch, an apply or a script reports is what it did.
* **Files and logs** - the destination is the old or the new file, never neither;
  rows come in order and none is invented; a compact document decodes to the full.

## 2. Modules

| Module | Models | Used by |
|---|---|---|
| `Absent` | the value that stands for nothing | all |
| `TaskQueue` | the queue of one pid as pure operators | `PidRegistry` |
| `PidRegistry` | the registry as pure operators on a function pid -> row, fingerprint match and resurrection included | `BridgeSession` |
| `BridgeSession` | composition: accept tasks, actors, teardown, TTL tasks, callers, spawned children and the peer | `MCBridgeSession` |
| `EffectReading` | what a mutate batch does and reports, and how the daemon reads the report | `ReceiptStore` |
| `ReceiptStore` | the receipts table as pure operators (admit, prune, transition, finish, resolve, recover) | `OpJournal` |
| `OpJournal` | composition: calls, dispatch guards, destructors, crash and restart, caller accounts | `MCOpJournal`, proofs |
| `ReceiptLedger` | abstract specification of a receipt's life | `OpJournal` (refinement) |
| `EvidenceStore`, `EvidenceExport`, `PaletteStore`, `Settings`, `TdLifecycle` | what the daemon keeps in files, and whom it starts | `MCStorage`, proofs |
| `DaemonLink`, `DaemonStart`, `Federation`, `Dialogs` | the daemon among other processes | `MCDaemon`, proofs |
| `BridgeRuntime`, `TimedJobs` | the bridge inside TouchDesigner over time | `MCTouchDesigner`, proofs |
| `EditTools` | composition: `MutateScene`, `ParamInterface`, `ScriptRuns`, and what the caller of any of them is told | `MCTools`, proofs |
| `MutateScene`, `ProjectUnpack`, `LogTrail`, `ProjectSnapshot`, `BridgeInstall`, `Installation`, `ToolRouting`, `OutputViews`, `ScriptRuns`, `ParamInterface`, `ExactSamples`, `Comparisons` | the tools, the files they write and the answers they give | `MCTools`, all but `OutputViews`, `ExactSamples` and `Comparisons` in proofs |
| `PidRegistryProofs` | lemmas: what each operation does to a row | `BridgeSessionProofs` |
| `BridgeSessionProofs`, `OpJournalProofs`, `EvidenceStoreProofs`, `StorageProofs`, `DaemonProofs`, `TouchDesignerProofs`, `ToolsProofs` | theorems | |

`MCStorage`, `MCDaemon`, `MCTouchDesigner` and `MCTools` put independent
components side by side: a variable `part`, chosen in the initial state, says which
of them moves. Their state spaces add up instead of multiplying, and a
property of one component is checked in exactly the behaviours of that
component. Two properties are the conjunction of what several of them promise:
`ReadingsAreTrue` (in `MCTools`) of those that only read or guard a write,
`EditsAreTold` (in `EditTools`) of those that edit. A part that does not move stays
in its initial state, where its conjunct holds.

### BridgeSession and the code

Every mutex section or await point of one task is one action. `registry` is the
`PidRegistry` behind its lock, `sessions` the map of handles behind the other.
For a connection, `pc` is the place in `run_ipc_accept` / `run_session` /
`run_tool_job` / `teardown`:

    new -> accepted -> inserted -> loop <-> {sending, wire, reply, ping}
                                   -> teardown -> {lost, superseded} -> dead

`AcceptHandshake` is the handshake under the registry lock; `SpawnInsert` the
insert into the session map; `SpawnCancelPrevious` the cancel of the handle that
was displaced, after the map lock is released. The actor's select is biased, so
`ActorTakeJob` requires that no cancellation is pending, and `ActorPing` and
`ActorIdleDead` that no job is. `TeardownSession` takes the handle out of the map
if it is still its own (this is where it learns whether it was superseded),
`TeardownLost` and `TeardownSuperseded` then change the registry in a separate
critical section, and the former starts a TTL timer. A call runs
idle -> lookup -> send -> waiting -> done, with `CallOuterTimeout` for the wait
around the call and `CallAbandon` for a request future that is dropped.

Frames are records (`response` with the id it answers, `ready`, `noise`,
`request`); a request is its wire id. The peer (`Peer...`) is external: it answers
what it received, in any order, any number of frames ahead up to `MaxInbox`, may
send events and may close at any time. Time is abstract: a deadline may pass
whenever the code waits for it. A connection's identity plays the part of
`SESSION_GENERATION`; the registry's connection generation is a separate counter,
as in the code.

### OpJournal and the code

One action is one statement on the journal (they run under the connection mutex)
or one step of the call in between. `guard` is the `DispatchGuard` of a call:

    none -> held -> returned -> marked -> gone          (returned: two journal calls)
                 -> dropping -> expiring -> gone        (Drop: two journal calls)

`Begin` is `admit`: prune, check the bounds, insert, in one transaction.
`SettleMark` / `SettleFinish` are the two calls of `PendingDispatch::returned`,
`DropMark` / `DropExpire` those of the destructor; for a receipt in `Faulty` each
write may fail. `request` and `work` are what happens beyond the receipt's sight:
the job is queued, written, and run by TouchDesigner, which survives a crash of
the daemon. `Crash` loses the guards and the queued jobs; `Open` recovers and
serves again. `EffectReading` gives the work meaning: a batch is a sequence of
steps that are applied, rejected cleanly, or fail after writing some fields; its
payload has `ok`, `applied` and `failedAt`, and `ReadMutateEffect` derives the
effect exactly as `read_mutate_effect` does.

`ReceiptLedger`: fresh -> active -> {observed, uncertain} -> forgotten, nothing
else, and at most one admission per step. `LedgerPhase` is the refinement mapping.

### What the daemon keeps: EvidenceStore, EvidenceExport, PaletteStore, Settings, TdLifecycle

**EvidenceStore.** One capture makes one observation of one part; a chunk is its
hash, so two captures may share a blob. `gate` is the filesystem gate, under which
a chunk is written and orphans are swept; the connection mutex makes every
database statement a step. Appending is therefore `AppendPut` (the blob) and
`AppendRow` (the transaction), sweeping `SweepSelect` and `SweepRemove`, and grants,
pins, reads, releases and expiry may come between any two of them. The
observations in `Faulty` have disk and database errors. `promise[o]` remembers the
lease that `capture()` reported to its caller.

**EvidenceExport.** All exports go to one destination. `dir` is the user's directory
as a name -> file function, `disk` the set of directories that a power loss may
bring back, which a directory sync narrows to the present one. Every rename, sync
and journal write is a step; `Open` repairs from the journal and may refuse.

**PaletteStore.** A call loads the whole index, edits its copy and saves the whole
index, with no lock between; `copy[k]` is what call k has loaded. `PaletteCrash`
tears a save. A probe writes a breadcrumb (`inflight`), dispatches, loads again and
folds its results back. Two variables are not the code's: `strikes` counts the failures
in a row that were reported of a component, and `clobbered` names those whose entry some
save replaced by an older one.

**Settings.** A patch takes the writer lock and runs load, merge and save on a
blocking thread, which goes on when the request is dropped and its lock with it.
`stray` names whoever wrote the file without the lock since the daemon last read
it: a dropped patch, the GUI without a daemon, the installer, or a text editor.

**TdLifecycle.** One project path, process numbers that are used again; a child's
number is its corpse's until it is reaped. What sessions do to the row comes in as
`Handshake`, `BridgeLost` and `Evict`.

### The daemon among processes: DaemonLink, DaemonStart, Federation, Dialogs

**DaemonLink.** Each mutex access of `heal` is a step (probe, connect, swap, clear,
report), the watcher and every call are actors that may heal; durations are
abstracted to the comparisons the code makes with them (`since` fresh or stale,
`cooling`). **DaemonStart.** Ensurers and daemons share `ensure.lock`, `daemon.lock`,
two ports and the journal's writer lock; looking at a lock and removing the file are
two steps, `Ghost` is the dead writer of a lock found at the start. **Federation.** The
role is checked before the table's lock is taken; an entry's age is fresh, old or
expired; a message of a slave may be lost before or after it is applied.
**Dialogs.** Probes of all askers go through one worker queue; an asker gives up when
its budget passes (`Timeout`), its job does not. One pid, window ids never reused.

### Inside TouchDesigner: BridgeRuntime, TimedJobs

**BridgeRuntime.** A session stands for the worker thread, its connection and the
generation of the package it was started from. Main-thread entry points (a frame, the
watchdog, a delayed callback, a click) are actions; a worker holds an item from reading
to answering, with the pump between. **TimedJobs.** All entry points run in the main
thread, so each is one action; what may fail inside (opening the recorder, sampling,
verifying, destroying) fails by choice.

### Tools and files: the modules of MCTools

* `MutateScene`: paths below the context as sequences of names, fields abstracted to
  written and refused. `picture` is the scene as the client derives it from the
  results, `intent` what each requested path was created as.
  This part, the next and the third make up `EditTools`; each tool is one main-thread call,
  so none runs inside a step of another, and `EditSpec` is the conjunction of their
  specifications.
* `ParamInterface`: one component with pages of parameters; every definition of a
  batch is a step, TouchDesigner may rename or refuse.
* `ScriptRuns`: a stack of running scripts with their captures, the tap and its
  generation, the registry of script sources.
* `ProjectUnpack`: every call on a destination is a step, what happens in the private
  stage is one; an entry is its identity.
* `ProjectSnapshot`: one target, a file is a version or torn; `_stat_of` may at each step
  take a file for absent that it cannot read, and `project.save` may have written nothing,
  half a file or all of it, whether it raises or says no.
* `BridgeInstall`: the stage in one step, reading and writing of the target as steps.
* `Installation`: an asset is the build it comes from; processes may die between any
  two renames.
* `LogTrail`: a record is its level; each of the five bounded stages drops on its own.
* `ToolRouting`: one pid number on two daemons; the call itself is one step per await
  of the tool layer, what `BridgeSession` has inside is abstracted.
* `OutputViews`: JSON values as tagged records, sizes as abstract costs, and the codec
  as functions on them.
* `ExactSamples`, `Comparisons`: a reading or a comparison is one main-thread step
  between two edits of the scene. A forced cook lies inside the step: resolution and counts
  are those before it, the values those after.

## 3. Runs

| Run | Instance | Checks |
|---|---|---|
| `session_calls` | one pid, two overlapping connections, two calls, one that outlives its outer wait and one that may be dropped; peers that send ready events and requests | `TypeOK`, `OneActorDrivesPid`, `IdentityIsCurrent`, `ReplyIsOwnResponse`, `NoSlotOutlivesItsCall`, `TraceKeptUntilSuccess` |
| `session_fleet` | two pids, two connections, two fingerprints, two spawned children, pid reuse | `ConnectedIsBacked`, `StartingRowIsOwned` |
| `session_live` | one pid, two connections, one call, heartbeats | `SessionsSettle`: jobs are answered, superseded actors end, dead rows go |
| `session_clobber` | one pid, two connections | finding, section 4 |
| `journal_calls` | two receipts, one with failing writes, all effect classes, dirty batches | `JournalTypeOK`, `HonestReceipt`, `SlotEndsWithItsGuard`, `RecoveredBeforeServed`, `EveryWaitEnds` |
| `journal_bounds` | three receipts, two owners, history 1 per owner, quota 1 per owner | `ActiveWithinQuota`, `HistoryIsBounded`, `RefinesLedger` |
| `journal_crash` | two receipts, a clock of one | finding |
| `storage` | five parts, below | `EvidenceIsKept`, `LeasesAddUp`, `NoFileLost`, `RepeatOffenderIsIgnored`, `SettingsAgree`, `LaunchIsTold` |
| `storage_lost` | exports only | finding |
| `daemon` | four parts, below | `OneReconnectPerFailure`, `LockNamesAnOwner`, `MarkedLinkRecovers`, `ReporterIsListed`, `DialogsFollowTheScreen` |
| `touchdesigner` | two parts, below | `QueuedIsAwaited`, `JobsAreOrderly`, `ComesBack`, `ProcessIsGivenBack` |
| `tools` | twelve parts, below | `EditsAreTold`, `UnpackIsAllOrNothing`, `TailIsInOrder`, `SnapshotIsSafe`, `BridgeInstallIsSafe`, `InstallKeepsItsWord`, `RoutedCallIsTold`, `ReadingsAreTrue` |

**Bounds of the sessions.** Two connections of a pid are what a supersede needs; the
proofs cover three and more. Two calls give a slot and a contender. A job channel and
an inbox of one make both limits reachable: a stale frame can precede the wanted one
because the actor reads between arrivals. Two pids are needed for a handshake that
evicts other rows, two children of one pid for a reaper that comes late. The
generation counter is bounded by the number of connections, each of which is accepted
once.

**Bounds of the journal.** Two receipts are enough for one whose writes fail and one
whose do not; three with a history of one let pruning choose. `MaxClock` =
`Retention` = 1 lets a row expire or not in the bounds run; the calls run has no
clock, because nothing it checks compares times.

**Bounds of `storage`.** *store*: three captures, of which the first shares a blob
with each of the others, two owners, the quota of the owner of two holds only one of
them; one capture with failing steps, a grant, a cursor, a pin that lasts longer than
the lease, one tick of the clock, one crash. *export*: three exports to one destination,
the second refuses to replace, renames of the first may fail, four files the user may
save (one is there at the start), two crashes or power losses. *palette*: one component
and two calls, blacklisted after two failures as in the code, one torn save. *settings*: four fields
(identity, executable, port, one that is never saved), two good values and a bad one,
one other client, one edit in the window, one restart, and one writer without the lock
at a time. *launch*: two spawns, of which one may create the project, one kill, one
process number, one program of somebody else.

**Bounds of `daemon`.** *link*: two calls, of which one is a launch, the watcher, one
death of the daemon. *start*: two ensurers, of which one wants the tray, three daemons,
a stale `ensure.lock`, one kill. *federation*: one slave with one pid, two changes of
role, one lost message, two moves (a restart or a process that comes or goes).
*dialogs*: four windows on two platforms, the sweeper together with a gate or with a
dismissal, one passed budget, one change of the bridge's state.

**Bounds of `touchdesigner`.** *runtime*: two sessions, two requests, one death of the
daemon, two clicks. *jobs*: a recording and then a capture, one run each, one touch by
the user.

**Bounds of `tools`.** *mutate*: three names, paths two deep, three scenes, batches of
up to three steps of every kind. *interface*: two pages, two names, two applies, one
edit. *scripts*: one source, nesting two deep, two lines, two runs, one reload.
*unpack*: two unpacks, of which the second may refuse to replace, an empty or an
occupied pair, one intervention, one failing call. *logs*: every stage holds one, the
ring two and the view two of four records, one reload, one change of the filter.
*snapshot*: three calls, two versions, two siblings of which one is looked at, one death.
*bridge*: two installs, both forced or neither, into one of twelve projects, two saves, two seconds, one torn write. *install*: three
builds, two processes, one failing call, one death. *routing*: two calls of one session
(one names no daemon, one may name the slave), one slave, one upset. *views*: some 1 450
documents. *samples*: some 7 000 reads, of them 196 of a CHOP and 18 of a TOP with a forced cook. *compare*: one node with two fields of six
values, two edits, two calls.

**Deadlock.** Connections, calls, exports, installs and spawns are finite in number
and most bounds are budgets, so these instances really end; their runs say
`CHECK_DEADLOCK FALSE`. The journal can always be closed and opened, and its runs check
for deadlock.

**Symmetry** is over connections and over owners, only in runs without liveness.

**Fairness.** What the code's scheduling gives, and no more.

* Sessions: weak fairness of every task of the daemon (accept, actor, teardown, TTL,
  caller), which the async runtime gives to a ready task, and of `ActorTimedOut`, a
  deadline the code itself arms. Nothing is assumed of the peer, of clients, of the
  outer wait or of idle probes.
* Journal: weak fairness of the task that holds a guard; its wait is bounded by the
  call's own timeout. Nothing is assumed of TouchDesigner, nor that a dead daemon is
  started again.
* Link (`LinkFairness`): futures that are polled, the watcher, the clock, and a respawn
  that was asked for. No call has to arrive and no daemon to answer.
* Federation (`FederationFairness`): the coordinator's loop follows its role and a slave
  goes on reporting. Nothing is assumed of the network or of who lists the slaves.
* Dialogs: the worker works, the cache ages, the sweeper sweeps. No asker has to ask.
* Runtime (`RuntimeFairness`): threads run and their waits are bounded; weak fairness of
  delayed callbacks. Frames, the watchdog and the end of a backoff get strong fairness:
  TouchDesigner stops drawing frames while the timeline is paused and goes on when it
  plays, and a main thread that is busy is busy again and again, not for ever.
* Jobs (`JobFairness`): weak fairness of TouchDesigner's callbacks, and strong fairness of
  the callback that finds the encoder's header written or its deadline passed: the
  callback asks again and again, and one of the two must come.

## 4. Findings

Three are runs whose single property is a sentence of the code's own documentation,
which TLC refutes on the model of the code.

| Run | What the code does |
|---|---|
| `session_clobber` | Teardown decides "not superseded" under one lock (`bridge.rs:762-772`) and marks the loss under another (`789`). A connection that completes its handshake in between ends up Disconnected with a running actor, and is evicted after the TTL. `bridge.rs:12`: "Session generations prevent a superseded actor's teardown from clobbering a newer connection". |
| `journal_crash` | `mark_dispatched` runs only after the bridge call has returned or the guard was dropped (`opdispatch.rs:123`, `205`), so a crash while TouchDesigner works leaves the receipt `admitted`. `opjournal.rs:246`: "a crash after dispatch is still visible as dispatched rather than as never-started". |
| `storage_lost` | An export that replaces renames the user's file aside (`evidence_store.rs:1397`) and journals afterwards where it went. A process that dies in between leaves a journal that says nothing was renamed; the next open clears it and serves, with nothing at the destination. `evidence_store.rs:1357`: "The journal is written before any destination-visible rename"; `2283`: "No user-visible rename happened yet". |

`ConnectedIsBacked`, `HonestReceipt` and `NoFileLost` are worth reading next to these:
they say what the code does guarantee in the same situations (the user's file is still
in the directory, under its backup name).

More sentences are definitions in the modules, each at its module's end. Put in a
configuration in place of the properties there, TLC refutes it; three need a little more
than the configuration at hand: `NoneMeansUnchanged` the batches of `journal_calls`,
`OpaqueChangesAreTold` a second value of type `object` in `Raws`, and `SameNodesAreCompared`
a second member of `Contexts` with a request that names it.

*Sessions, journal, calls.*

* `NoZombieSlot`: a request future that is dropped between enqueue and hand-over leaves an
  exclusive slot nobody clears (`tools.rs:2683`; 2666 promises that "a zombie slot cannot
  wedge exclusive callers").
* `SequentialUse`: the teardown of a superseded actor clears the whole queue of the pid, and
  a second call is admitted beside one that runs (`bridge.rs:777`; `docs/CONTRACT.md:148`
  "Hard sequential use").
* `InFlightHasWaiter`: recovery leaves `admitted` rows; one left by a crash counts as in
  flight for ever (`opjournal.rs:873`; 226 "whose caller is still waiting").
* `NoneMeansUnchanged`: `failedAt` is zero-based, so a first step that fails after writing
  some fields is recorded as `none` (`receipts.rs:279`; `output.rs:352`).
* `ObservationIsItsConnections`: an inspect names the generation the registry has after the
  answer came, not that of the connection that gave it (`tools.rs`, `ToolRequest::Inspect`).
* `UnreachableNeverRan`: a slave that goes away after it ran the call is told as unreachable,
  which the catalog explains as never dispatched (`catalog.yaml:249-254`).
* `EffectsHaveReceipts`: a call that is routed to a slave runs there, and the coordinator,
  which the client asked, has no receipt of it.
* `OnlyTouchDesignerIsKilled`: `kill_td` checks the number's image and strikes later; the
  number may have passed to another program (`lifecycle.rs:831`).
* `EarlyMeansNeverConnected`: a child that shook hands and ended between two looks of the
  waiter is told as `exited_early`.

*Daemon, federation, dialogs, settings.*

* `HealthySessionIsKept`: a call that times out marks the link; the watcher replaces the
  session although it works and another call is under way on it (`daemon_link.rs:641-643`).
* `SpawnsAreSerial`: a stale `ensure.lock` is removed by path, so two ensurers may each hold
  one and wait for a child of their own (`ensure.rs:357`; 120-122).
* `RoutesGoWithTheRole`: a registration checked before the role changed enters the table after
  it was cleared (`federation.rs:462` "must not continue forwarding stale routes").
* `DismissedIsGone`, `FailedIsOver`, `ClickIsAsAsked`: a look that times out is an empty answer,
  and the dialog counts as gone; a click that was given up stays in the worker's queue and is
  posted later; and when the buttons cannot be read in time the dialog is closed instead of the
  named button clicked (`tdmcp-dialogs/src/lib.rs:240`, `docs/CONTRACT.md:328`).
* `LiveIsSaved`: fields without a place in the file are live and reported as saved
  (`settings.rs:50`; `bridge.admission_max_image_bytes`).
* `AcknowledgedEditsStay`: a patch whose request was dropped goes on without its lock and
  overwrites one that was acknowledged.
* `IdentityIsForever`: an installer that read the configuration before the first daemon gave it
  an identity saves it without one, and the next start makes another
  (`tdmcp-config/src/lib.rs:108`).
* `SuspectsWereLoaded`: a scan accuses components whose probe was refused before it was sent
  (`palette.rs:901-903`).
* `EveryFailureCounts`: a call that loaded the palette index before a failure was counted and
  saves after it takes the failure back, whatever it edits, so that a component that failed
  twice is probed again (`palette.rs:928`; 919-920 "An entry that fails twice auto-ignores
  itself").

*Bridge.*

* `WatchdogPolls`: when Connect goes off, the chain that "keeps polling while Connect is on" ends;
  Connect on again with a dial that fails does not start it anew (`tox_callbacks.py:857`; 812-817).
* `StateIsDocumented`: a movie job that is closed as failed is closed again when its file is
  verified, with a final state nobody set (`timing.py:320`, 269), and then shows none of the
  states of `docs/CONTRACT.md:767-768`.
* `TapIsAlive`: a package reloaded inside a script leaves the suppress counter at -1 or the old
  tap on `sys.stdout`, and nothing printed afterwards is sent (`logtap.py:186-189`).
* `RunIsNeverLost`: a source forgotten while it runs has its report replaced by a TypeError
  (`script_source.py:450`; 35-37).
* `RemapLeadsToTheCreated`: a path is rewritten to an operator that was deleted and whose name
  another one took (`mutate.py:1307-1311`; `docs/CONTRACT.md:859`).
* `ApplyIsAdditive`: append takes over a parameter of another page (`param_interface.py:422`; 35).
* `EveryAnswerIsJson`: positions that are not finite go out as bare NaN (`sample_data.py:72-79`).
* `CutIsTold`: the counts a CHOP is cut by are read before the forced cook; when it made the CHOP
  longer, samples are missing and `truncated` is false (`sample_data.py:483-503`; 205, of a TOP,
  "A read must not silently return a stale frame").
* `AxisOrderIsVerified`: a CHOP with as many channels as samples passes either way (`557-559`).
* `OpaqueChangesAreTold`, `SameNodesAreCompared`, `AddedWasAbsent`: values without a JSON form
  share one marker, a baseline does not name its context, and one without a field list is not
  held to it (`compare.py:22-24`, 1, 386-397).

*Files and logs.*

* `GoodCopyIsKept`: after a save and its restore both failed, the next call sets the torn
  target aside over the only good copy (`project_snapshot.py:255`).
* `DeclinedIsUntouched`: a `project.save` that says no may have written, as the module's own
  header says (`project_snapshot.py:23-30`), and the caller is told "the file exists and was not
  replaced, or the save was declined" (551-552).
* `UnaskedIsRefused`: a target that exists and cannot be read counts as absent (83-92) and is
  written over by a call that did not ask to replace it, and set aside by none (344-345 "must not
  have it replaced").
* `SavesSurvive`: a project saved while the bridge is installed into it is overwritten by the
  older one (`project_install.rs:784`).
* `BinaryIsNeverLost`, `AllAssetsAreTheBuilds`, `TemplateIsKept`: after a crash, or by a second
  installer, the renamed binary is swept before its successor is in place; what the digest leaves out stays as a dead install
  left it; a template saved while the first one is published is replaced (`install.rs:592`, 306, 459).
* `TailIsWhole`: a fetch is cut at 512 records of a ring of 2048 and its cursor jumps over the rest
  (`app.rs:588-591`, `logring.rs:2-3`).
* `MarkerArrives`: 256 lines and a marker are 257, one more than the daemon takes
  (`logring.rs:217`, 273).
* `EveryOutputDecodes`: a document with a key `__proto__` is encoded and then refused by the decoder
  (`output_views.rs:1`, `output_v2.rs:356-358`).

Smaller divergences, met while modelling and without a definition of their own:

* A TTL task evicts by pid, so the timer of an earlier loss can evict the row of a later one before
  its 15 s have passed (`bridge.rs:798`; `docs/CONTRACT.md:192`). A call that found no session is
  recorded as an unknown effect, although `receipts.rs:96` reserves "prevented" for it. A caller's
  account given between the two writes of a settle stays on the receipt that is then observed
  (`opjournal.rs:304`).
* The first two callers of a proxy may each build a link with a watcher (`stdio_proxy.rs:417`). A
  draining daemon still holds the bridge port and the journal's writer lock and then removes
  `daemon.lock` by path; two ensurers that want a tray may stop each other's daemon; the restart in
  `docs/CONTRACT.md:55` differs.
* A slave that moved stays in conflict until the coordinator restarts; `resolve_pid` does not age
  the table. The dialog gate of a routed call looks at the coordinator's process of that number, and
  `resolve_place_steps` reads the coordinator's palette.
* A crash between the publishing rename and its journal entry makes the evidence store refuse to
  open; expired blobs stay until the next abort, release or restart; a grantee may inspect.
* A palette index that cannot be read is never rebuilt; an empty batch overwrites the breadcrumb of
  another probe.
* A Connect pulse may be swallowed by a backoff or a drain (`tox_callbacks.py:733`); two pump chains
  may run at once (`task_queue.py:411`); an in-place reload keeps the script registry and a fresh
  import loses it.
* A dead worker thread of the GUI leaves its busy flag; edits made while a save runs are overwritten.
* `project_snapshot` counts the target as written whenever it exists (`631`); a guard cannot say that
  a node is expected to be absent (`mutate.py:516-519`); a sample that cannot be read is told as 0.0
  by the plain CHOP reader.

## 5. What is proved

Every theorem holds for all values of the constants that satisfy the named
assumptions of the modules; an assumption says no more than that bounds are naturals,
that the functions given as constants have their types, that a scene or a panel is a
finite set of names, and that a model value which stands for nothing is no element of the
sets it is joined with. Bounds on crashes,
faults and clocks are constants too, so the theorems hold without them.

| Module | Theorem | Statement |
|---|---|---|
| `BridgeSessionProofs` | `SessionTypeCorrect` | `Spec => []TypeOK` |
| | `SupersededActorsAreCancelled` | `Spec => []OneActorDrivesPid` |
| | `ConnectedRowsAreBacked` | `Spec => []ConnectedIsBacked` |
| | `IdentityStaysCurrent` | `Spec => []IdentityIsCurrent` |
| | `RepliesAreOwn` | `Spec => []ReplyIsOwnResponse` |
| | `SlotsEndWithTheirCalls` | `Spec => []NoSlotOutlivesItsCall` |
| | `TraceIsKept` | `Spec => TraceKeptUntilSuccess` |
| | `StartingRowsAreOwned` | `Spec => StartingRowIsOwned` |
| `OpJournalProofs` | `JournalTypeCorrect` | `JournalSpec => []JournalTypeOK` |
| | `ReceiptsAreHonest` | `JournalSpec => []HonestReceipt` |
| | `SlotsAreReleased` | `JournalSpec => []SlotEndsWithItsGuard` |
| | `RecoveryComesFirst` | `JournalSpec => []RecoveredBeforeServed` |
| | `JournalImplementsLedger` | `JournalSpec => RefinesLedger` |
| | `QuotaHolds` | `JournalSpec => []ActiveWithinQuota` |
| | `RowsPerOwnerAreBounded` | `JournalSpec => []HistoryIsBounded` |
| `EvidenceStoreProofs` | `RetainedEvidenceIsKept` | `StoreSpec => []EvidenceIsKept` |
| | `LeasesAlwaysAddUp` | `StoreSpec => []LeasesAddUp` |
| `StorageProofs` | `NoExportLosesAFile` | `ExportSpec => []NoFileLost` |
| | `RepeatOffendersAreIgnored` | `PaletteSpec => []RepeatOffenderIsIgnored` |
| | `SettingsAlwaysAgree` | `SettingsSpec => []SettingsAgree` |
| | `LaunchesAreTold` | `LifeSpec => LaunchIsTold` |
| `DaemonProofs` | `ReconnectsAreSingle` | `LinkSpec => []OneReconnectPerFailure` |
| | `LocksNameOwners` | `StartSpec => []LockNamesAnOwner` |
| | `TailIsAlwaysInOrder` | `LogSpec => []TailIsInOrder` |
| `TouchDesignerProofs` | `QueuedIsAlwaysAwaited` | `RuntimeSpec => []QueuedIsAwaited` |
| | `JobsAreAlwaysOrderly` | `JobSpec => []JobsAreOrderly` |
| | `BatchIsAlwaysAsTold` | `MutateSpec => []BatchIsAsTold` |
| | `PanelIsAlwaysAsTold` | `InterfaceSpec => []PanelIsAsTold` |
| | `ScriptsAreAlwaysTold` | `ScriptSpec => []ScriptsAreTold` |
| | `EditsAreAlwaysTold` | `EditSpec => []EditsAreTold` |
| `ToolsProofs` | `InstallAlwaysKeepsItsWord` | `InstallSpec => []InstallKeepsItsWord` |
| | `BridgeInstallIsAlwaysSafe` | `BridgeInstallSpec => []BridgeInstallIsSafe` |
| | `SnapshotIsAlwaysSafe` | `SnapshotSpec => []SnapshotIsSafe` |
| | `RoutedCallIsAlwaysTold` | `RoutingSpec => []RoutedCallIsTold` |
| | `UnpackIsAlwaysAllOrNothing` | `UnpackSpec => []UnpackIsAllOrNothing` |

### Sessions

The sets of pids, connections, calls and spawned children may be infinite, channels have
any capacity, and peers and clients do what they like.

`OneActorDrivesPid` and `ConnectedIsBacked` are not inductive: what a teardown leaves
behind depends on which task the handle in the map belongs to and where that task is.
`SessionInv` adds `MapInv` (a handle in the map is that of a connection of the same pid
between its insert and its look at the map during teardown), `ActorInv`
(`OneActorDrivesPid` from the insert on, before the actor runs) and `Located` (a task that
reached the registry has a pid). Almost every step has one of two shapes: `Quiet` (the
session side stays, no row becomes Connected or gains identity) and `ActorMoves` (the
same, except that the row of the actor may be given the actor's identity if it is at the
actor's generation). `PidRegistryProofs` shows of each registry operation that it `Keeps`
or `Observes`; what is left are the three steps of accepting and the three of teardown.
`ReplyInv` builds on it: an actor holds an outcome only between recording and sending it,
a definite outcome comes from its own job, and so does whatever was sent to a caller or
told by it.

`SlotInv` says why no finished call leaves its slot: a pid has at most one slot
(`AllSound`), the slot belongs to a call under way at that pid (`SlotOwners`), a job an
actor holds belongs to such a call (`JobOwners`), and while the actor runs it the slot is
in flight or has been cleared, never handed to another call under its feet
(`RunningOwnsHead`). A caller returns only after its own clear or the actor's completion.

The two action properties compare a row with the row before. `RowsMove` classifies the
steps: rows only go on, a job completes, a slot is taken, a child is registered or taken
out. A trace disappears in two of them, with a success or with the row.
`StartInv` then says that a Starting row carries the record of a child that was launched
under its pid and is running or has just exited, so that whoever takes the row out by this
record is the owner of that very child; that the pid was handed out again in between does
not matter, because the record is that of another launch.

### Journal

Receipts, owners, bounds, batches and the set of receipts whose writes fail are arbitrary;
where rows are counted, ids are finitely many.

None of the properties is inductive: `HonestReceipt` speaks of rows, but what a settle
writes depends on what the call observed before, and whether that is true depends on what
TouchDesigner did before that. `JournalInv` therefore follows a receipt through all three:
`RowInv` (a row says no more than its call's progress allows), `GuardInv` (where the guard
is determines what its row can be), `DaemonInv` (a dead daemon waits for nobody, a new one
has recovered), `WorkInv` (what a call observed agrees with what was done) and `RanInv`.
Each action has a lemma; the operators of the table have theirs (`DeleteHistory`,
`PruneForgetsHistoryOnly`, `TransitionRow`, `RecoverRows`, `PayloadIsHonest`).

The refinement rests on `StepTreats`: every step treats every receipt in one of a few ways
(kept, settled, expired, recovered, forgotten, admitted) and admits at most one; each way
is a step of the ledger. The bounds reuse it: all ways but admission shrink the sets that
are counted (`BoundsTreated`), and an admission adds one row to a history that `prune` has
just trimmed (`BoundsBegin`). `TrimmedToNewest` is the heart of that: in a strict total
order the rows with fewer than n newer ones are at most n, because the number of newer rows
tells any two of them apart. The bound of one owner's rows is the sum of its history and
its quota, not the history alone, because pruning happens only at admissions.

### Evidence store

`KeepInv` carries `EvidenceIsKept`. A recorded chunk is in the directory because whoever is
about to record one holds the gate (`GateInv`), under which nobody else sweeps, and because
a sweep keeps every blob a row refers to at the time it selected (`ChunkInv`), while rows
only gain blobs that are put under the same gate. The lease that was reported to the caller
is honoured because a complete row is only shortened by its release (`PromiseInv`); the
steps that age rows leave the others alone (`Fades`).

`LeaseInv` carries `LeasesAddUp`: grants, cursors and access rows are read as one relation
(`AccessIsBacked`: whoever may read was granted it, and what was granted lives), byte
quotas are cardinalities of finite sets of (observation, byte) pairs (`QuotaInv`), so that an admission adds a disjoint set and every other step leaves a subset,
and an upload is that of a capture under way or of one whose abort failed (`UploadInv`).

### Exports, palette, settings, launches

`ExportInv`: the state that must not lose a file is not the directory but what a power loss
would leave of it. `DiskKeeps` says that every directory the disk may bring back holds the
user's files and the received exports, and that a backup name that a running export will
still use is free there. Renames without replacing keep it step by step, a sync makes the
set smaller.

`PaletteInv`: every copy of the index, in the file or in the hands of a call, is sound by
itself (only a known component has failures, one that used them up is blacklisted), and the
file has the counts of the failures that were really reported, except of `clobbered`
components. Calls overwrite each other's edits, but each saves what is sound given what it
loaded, and the counts of what it loaded are right wherever they are still the file's. What
is lost where they are not is the finding `EveryFailureCounts`.

`SettingsInv`: unless somebody wrote without the lock (`stray`), the file is what the daemon
serves, except between the save and the publication of the one patch that holds the lock
(`SettingsMatch`), and that patch carries what was served with its own edits on top, the
Settings view's included.

`LifeInv`: a number given to a spawn is its child's until it is reaped, and a row that names
a spawn is that number's row (`ChildOK`), what a spawn was told agrees with how far it came
(`ToldOK`), and a project that is there is whole and stays (`ProjectOK`). The theorem is
about the action property and the state part of `LaunchIsTold` together.

### Link, locks and the Logs view

`LinkInv`: whoever is between the probe and the clear holds the gate and was asked to repair
the generation that is current, since only the holder moves it. `StartInv` says where a daemon may stand that
holds a port, the writer lock, or its name on file (`OwnersStand`): the name is written last
and every end but a kill passes through its removal. A reclaim that removes by path may
delete the lock of a successor, but it never leaves one behind.

`TailInv`: the rows of the view are in order under its filter, but what a fetch brings was
cut from a ring that has moved on since. `FetchIsCurrent` therefore says of a request or a
page on its way that it belongs to the view as it is now (same filter, same cursor; a
change of the filter forgets both); with `RingIsOrdered` (the ring is ordered and below the next number) and
`ViewIsOrdered` (the rows are ordered up to the cursor) the appended page continues the
rows. `Selected`, which filters the ring, is a recursive function on an interval. That it is
the loop it looks like (`PickingLoops`), and that it selects in order
(`SelectedIsWithin`), is shown by descent: the set of indices that are not yet reached
would have a least element (`SomeNumberIsLeast`), since the provers cannot use the library's
induction theorems.

### Inside TouchDesigner

`RuntimeInv`: an item is in the queue of the package whose worker reads it, and the same item
may be cancelled, abandoned or answered from two threads. `HoldersWait` (a worker waits for
what it holds, and no two for the same), `QueuedIsHeld` (what is queued is held by that
worker, has no answer and did not run) and `CancelledNeverRan` together say which of pump
and worker got there first.

`JobInv`: `Driven` ties the owner of the process to the state of its job, and the callbacks
that are armed to that state: exactly one for a running job, at least one that closes or
verifies for a finalizing one. `Tidy` says that nobody else has a recorder, a folder or
somebody's saved timeline, and `KeptOK` that the ring of kept jobs loses none that is under way.

`MutateInv` relates three views of one scene: the operators that are there
(`SceneIsWhole`: closed under parents, one identity per path, wires between operators),
the paths that were asked for (`IntentsAreKept`, `IntentsAreThere`: an operator asked for is where its
alias leads, or nowhere), and what the client makes of the results (`PictureIsTrue`).
Between the steps of a create the new operator may already have been renamed by TouchDesigner,
moved out of a palette component, or both: `MakingIsNew` says it is no one's intent, empty
and unwired, which one lemma (`MakingGoesOn`) preserves for all these steps. That a request for an inner
path is rewritten through the alias of the outer one needs `Fits`: an alias lies in the alias
of its parent. `Rewritten` shows that `Remap` takes the longest of them.

`PanelInv`: what an apply reports as created or unchanged is still filled, for the running
batch and for the one before it (`WhatIsDoneIsThere`), which is why repeating a batch
creates nothing. `ScriptInv`: of the calls that run inside each other the outermost with logs catches
(`OneCatches`: the depth is the number of calls with logs), and every line printed is in the
uplink up to where that call began, then in its buffer (`LinesAreSomewhere`). It is claimed
as long as no package was reloaded while a script ran; what happens then is
`TapIsAlive` in section 4.

### Tools and files

`InstallInv` follows an install through its phases: while it publishes, the assets before
`next` are the build's with the old ones kept, and those from `next` on are as they were
found (`Publishing`); undoing walks back (`Undoing`), and what is told at the end agrees with
one of the two (`Released`). Others stay out because whoever is in between holds the lock. The binary
has no lock, and `BinaryOnTheWay` claims it only where no second installer was at it.

`BridgeInv`: what is published differs from the working copy in the bridge alone
(`PackedIsCopied`), and while nobody else writes the copy is at the target or, if a backup
was asked for, in that (`CopySurvives`). `SnapshotInv`: the bytes a save saw and set out to
keep are at the target or beside it (`DisplacedSurvives`), and the receipt agrees with the
files (`ReceiptIsTrue`), because a save under way has told nobody anything and knows what it
found (`SaveIsUnderWay`). A component is only declined before its save, when the old file
could not be set aside, so the old file is there; a project is declined by
TouchDesigner, which may have written, and the theorem promises nothing of it.

`RoutingInv` says of each call what it asked, what ran and what was told (`CallIsRight`): an
answer that refuses belongs to a call that did not run and is not on its way, and one that
reports a result to a call that ran exactly once, at the daemon it was aimed at. Unless
its client is gone, the slot of a call is its own until the answer, and no
slot is left without a call (`SlotsAreHeld`).

`UnpackInv`: `EntriesMove` says that every entry an unpack brought is at one place, in its
stage, at the destination, or in the stash of another unpack that replaced it, and is not lost
on the way; `OwnUnpack` follows one unpack through its steps. An unpack may replace what another one
published and be undone later: that they cannot replace each other in a circle, each
restoring the other's entries, is `Ranked`, an order of the unpacks by whom they found.

### Only model-checked

* Safety: `ReadingsAreTrue`. One part of it, `OutputViews`, is built on recursive operators
  over documents, about which the provers cannot reason; the sampled readings and the
  comparisons are its other two parts and stay with it.
* Liveness: `SessionsSettle`, `EveryWaitEnds`, `MarkedLinkRecovers`, `ReporterIsListed`,
  `DialogsFollowTheScreen`, `ComesBack`, `ProcessIsGivenBack`. Reasoning with fairness needs
  `ENABLED`, which is out of the prover's reach.

## 6. Abstractions and what is left out

* Payloads, titles, paths, error texts and timestamps are model values or small sets. A
  duration is a choice of the moment at which its deadline passes; the journal's and the
  store's clocks are small counters because retention and leases compare times.
* Locks are variables only where somebody waits for them or dies with them; a critical
  section without an await inside is one step.
* `mark_not_sent` is left out because no production code calls it. `cancelled` is a receipt
  state no production code writes; the proofs show it is never reached. The in-memory
  journal, without bounds or pruning, is for tests.
* Listing and reading receipts, jobs or the fleet change nothing.
* Private stages: names of stage directories contain a random id or the time; that two
  collide is left out.
* Not modelled: session leases and keep-alive, idle exit (timers over two counters behind
  one mutex; `DaemonStart.Quit` is what they do), framing (one writer and one reader per
  stream), image admission (one comparison), inspection and capture tools that only read,
  the drawn part of the GUI, schemas and text shaping, diagnostics, packaging, xtask and
  skills.
* Some receipts that wait for nobody carry an expiry since the journal gives `wait_expired`
  rows a retention of their own; older notes that call these rows permanent describe an
  earlier version.

## 7. What could come next

1. An abstract object store (absent, uploading, retained, gone) as a specification that
   `EvidenceStore` implements, from `KeepInv`.
2. `ReadingsAreTrue` without `OutputViews` as a property of its own, so that sampled readings
   and comparisons can be proved.
3. The safety that `DialogsFollowTheScreen` and `ReporterIsListed` rest on (who may be in the
   worker's queue, which entries the table may hold) as invariants with theorems.
