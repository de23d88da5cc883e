----------------------------- MODULE ScriptRuns ----------------------------
(***************************************************************************)
(* execute_python and script_source inside TouchDesigner: the registry of  *)
(* named sources (script_source.py) and the capture of what a script       *)
(* prints (execute.py, logtap.py).                                         *)
(*                                                                         *)
(* A source is its content, which is its id.  A script runs on the main    *)
(* thread and may do anything there: print, change the scene, call the     *)
(* handlers again, make the bridge reload its package, and end in three    *)
(* ways.  frames is the stack of running calls.  A printed line is its     *)
(* number.                                                                 *)
(*                                                                         *)
(* sys.stdout is the tee of a running call, or the tap: the tee of logtap  *)
(* of some generation of the package.  A reload in place (every bootstrap) *)
(* runs the module bodies again in the same modules; a fresh import        *)
(* (bootstrap.py) makes new ones, and what old functions and old taps      *)
(* write goes to buffers nobody reads.  sys.stderr is treated alike and    *)
(* left out, and so are the cut of long logs and results.                  *)
(***************************************************************************)
EXTENDS Absent, Integers, Sequences, FiniteSets, SequencesExt

CONSTANTS
    Sources,       \* script texts
    ScriptTargets,       \* operators a source may declare as dependencies
    MaxSources,    \* SCRIPT_SOURCE_MAX_SOURCES
    MaxNesting,    \* bound on calls inside calls
    MaxPrints,     \* bound on printed lines
    MaxRuns,       \* bound on calls that run a script
    MaxBridgeReloads     \* bound on reloads

ASSUME ScriptAssumption ==
    /\ MaxSources \in Nat \ {0}
    /\ {MaxNesting, MaxPrints, MaxRuns, MaxBridgeReloads} \subseteq Nat

VARIABLES
    registry,    \* source -> its declared dependencies, or None
    resolves,    \* target -> what its path resolves to now
    frames,      \* running calls, the innermost last
    stdout,      \* [tee |-> a frame, or 0, tap |-> a generation]
    captureDepth, suppressDepth,   \* counters of the current generation
    generation,  \* of the imported package
    uplink,      \* lines in the buffer of the current generation, in order
    printed,     \* lines printed so far
    scriptAnswer,      \* of the call that ended last
    crossed,     \* a reload happened while a script ran
    runs, bridgeReloads

scriptVars == <<registry, resolves, frames, stdout, captureDepth, suppressDepth,
                generation, uplink, printed, scriptAnswer, crossed, runs, bridgeReloads>>
streams == <<stdout, captureDepth, suppressDepth>>

Resolutions == {"present", "retargeted", "missing"}
Tap(g) == [tee |-> 0, wrapper |-> g]
TeeOf(k) == [tee |-> k, wrapper |-> 0]
Lines == 1 .. MaxPrints

\* A call that runs a script: the source it was given by name, or None, and its
\* dependencies as they were found before the script began; whether logs were asked for;
\* whether it swapped the streams, the stream before, and what was captured; the
\* generation whose functions it runs.  since is history: the lines printed before.
ScriptCalls ==
    [source : Sources \cup {None}, match : SUBSET (ScriptTargets \X Resolutions),
     logs : BOOLEAN, installed : BOOLEAN, previous : {Tap(g) : g \in 1 .. MaxBridgeReloads + 1}
        \cup {TeeOf(k) : k \in 1 .. MaxNesting},
     buffer : Seq(Lines), gen : 1 .. MaxBridgeReloads + 1, since : 0 .. MaxPrints]

ScriptTypeOK ==
    /\ \A s \in Sources : registry[s] # None => registry[s] \subseteq ScriptTargets
    /\ resolves \in [ScriptTargets -> Resolutions]
    /\ frames \in Seq(ScriptCalls) /\ Len(frames) <= MaxNesting
    /\ stdout.tee \in 0 .. Len(frames) /\ stdout.wrapper \in 0 .. generation
    /\ captureDepth \in 0 .. MaxNesting /\ suppressDepth \in Int
    /\ uplink \in Seq(Lines) /\ printed \in 0 .. MaxPrints
    /\ crossed \in BOOLEAN

ScriptInit ==
    /\ registry = [s \in Sources |-> None]
    /\ resolves = [t \in ScriptTargets |-> "present"]
    /\ frames = <<>>
    /\ stdout = Tap(1) /\ captureDepth = 0 /\ suppressDepth = 0
    /\ generation = 1 /\ uplink = <<>> /\ printed = 0
    /\ scriptAnswer = None /\ crossed = FALSE
    /\ runs = 0 /\ bridgeReloads = 0

Busy == frames # <<>>
Registered == {s \in Sources : registry[s] # None}

----------------------------------------------------------------------------
\* The registry.  A call comes from the pump, or from a script that is running.

\* register: nothing is executed.  The same content keeps its first dependencies, and the
\* caller is told whether those are the ones just declared.
Register(s, deps) ==
    /\ \/ /\ registry[s] # None
          /\ scriptAnswer' = [kind |-> "registered", applied |-> registry[s] = deps]
          /\ UNCHANGED registry
       \/ /\ registry[s] = None /\ Cardinality(Registered) < MaxSources
          /\ registry' = [registry EXCEPT ![s] = deps]
          /\ scriptAnswer' = [kind |-> "registered", applied |-> TRUE]
    /\ UNCHANGED <<resolves, frames, streams, generation, uplink, printed, crossed, runs,
                   bridgeReloads>>

\* A full registry, unusable or too many dependencies, an unknown action, no source id, an
\* unknown source: nothing happens.
RefuseSource ==
    /\ scriptAnswer' = [kind |-> "refused"]
    /\ UNCHANGED <<registry, resolves, frames, streams, generation, uplink, printed,
                   crossed, runs, bridgeReloads>>

Delete(s) ==
    /\ registry[s] # None
    /\ registry' = [registry EXCEPT ![s] = None]
    /\ scriptAnswer' = [kind |-> "forgotten"]
    /\ UNCHANGED <<resolves, frames, streams, generation, uplink, printed, crossed, runs,
                   bridgeReloads>>

\* What each declared dependency resolves to now.
CheckDependencies(s) == {<<t, resolves[t]>> : t \in registry[s]}
Stale(match) == \E f \in match : f[2] # "present"

Check(s) ==
    /\ registry[s] # None
    /\ scriptAnswer' = [kind |-> "checked", stale |-> Stale(CheckDependencies(s))]
    /\ UNCHANGED <<registry, resolves, frames, streams, generation, uplink, printed,
                   crossed, runs, bridgeReloads>>

----------------------------------------------------------------------------
\* Running a script.

\* The bug of swapping the streams again in a call inside a call.
InstallsAlways(logs) == logs

\* Only the outermost call with logs swaps the streams and silences the tap.
InstallsCapture(logs) == logs /\ captureDepth = 0

\* The stream an inner tee writes through to is the real one, so lines reach one buffer.
BeginRun(s, match, logs) ==
    /\ Len(frames) < MaxNesting /\ runs < MaxRuns
    /\ frames' = Append(frames,
         [source |-> s, match |-> match, logs |-> logs, installed |-> InstallsCapture(logs),
          previous |-> stdout, buffer |-> <<>>, gen |-> generation, since |-> printed])
    /\ stdout' = IF InstallsCapture(logs) THEN TeeOf(Len(frames) + 1) ELSE stdout
    /\ captureDepth' = IF logs THEN captureDepth + 1 ELSE captureDepth
    /\ suppressDepth' = IF InstallsCapture(logs) THEN suppressDepth + 1 ELSE suppressDepth
    /\ runs' = runs + 1
    /\ UNCHANGED <<registry, resolves, generation, uplink, printed, scriptAnswer, crossed,
                   bridgeReloads>>

RunInline(logs) == BeginRun(None, {}, logs)

\* run: the dependencies are looked up first, and a stale one is no reason to refuse.
RunSource(s, logs) == registry[s] # None /\ BeginRun(s, CheckDependencies(s), logs)

\* A line goes to the tee that is sys.stdout, or through the tap into the uplink unless the
\* tap is silenced or belongs to an older generation.
PrintLine ==
    /\ Busy /\ printed < MaxPrints
    /\ printed' = printed + 1
    /\ IF stdout.tee # 0
         THEN /\ frames' = [frames EXCEPT ![stdout.tee].buffer = Append(@, printed + 1)]
              /\ UNCHANGED uplink
         ELSE /\ uplink' = IF stdout.wrapper = generation /\ suppressDepth = 0
                             THEN Append(uplink, printed + 1) ELSE uplink
              /\ UNCHANGED frames
    /\ UNCHANGED <<registry, resolves, streams, generation, scriptAnswer, crossed, runs, bridgeReloads>>

TouchScene(t) ==
    /\ Busy
    /\ \E r \in Resolutions \ {resolves[t]} : resolves' = [resolves EXCEPT ![t] = r]
    /\ UNCHANGED <<registry, frames, streams, generation, uplink, printed, scriptAnswer, crossed,
                   runs, bridgeReloads>>

\* How a script ends: its result is reported, cut to size where it is too long; an
\* Exception is reported; anything else, such as SystemExit, is not caught.
Endings == {"returned", "raised", "escaped"}

\* The bug of giving the streams back on the way that returns only.
RestoreOnReturn(f, how) == IF f.installed /\ how = "returned" THEN f.previous ELSE stdout

\* The streams are given back however the script ended.
Restored(f, how) == IF f.installed THEN f.previous ELSE stdout

\* The report of the run names the source by its record, which has to be there still.
SourceBlock(f) == f.source # None => registry[f.source] # None

ReportRun(f, how) ==
    IF how = "escaped" THEN [kind |-> "escaped"]
    ELSE IF ~SourceBlock(f) THEN [kind |-> "broken", how |-> how]
    ELSE [kind |-> "ran", how |-> how, source |-> f.source, stale |-> Stale(f.match),
          logs |-> IF f.installed THEN f.buffer ELSE <<>>,
          effect |-> IF how = "returned" THEN "unobserved" ELSE "unknown"]

\* The captured lines go to the uplink as one block, after the streams are back; the
\* counters are those of the modules the call runs in and of the current package.
End(how) ==
    /\ Busy
    /\ LET f == Last(frames) IN
         /\ frames' = Front(frames)
         /\ stdout' = Restored(f, how)
         /\ captureDepth' = IF f.logs /\ captureDepth > 0
                              THEN captureDepth - 1 ELSE captureDepth
         /\ suppressDepth' = IF f.installed /\ f.gen = generation
                               THEN suppressDepth - 1 ELSE suppressDepth
         /\ uplink' = IF f.installed /\ f.gen = generation
                        THEN uplink \o f.buffer ELSE uplink
         /\ scriptAnswer' = ReportRun(f, how)
    /\ UNCHANGED <<registry, resolves, generation, printed, crossed, runs, bridgeReloads>>

----------------------------------------------------------------------------
\* bootstrap_threaded reloads the package and installs the tap again.  Unwrapping walks
\* through the tee of a running call, which answers for the tap below it.

Reloaded ==
    /\ bridgeReloads < MaxBridgeReloads /\ bridgeReloads' = bridgeReloads + 1
    /\ captureDepth' = 0 /\ suppressDepth' = 0
    /\ crossed' = (crossed \/ Busy)
    /\ UNCHANGED <<resolves, frames, printed, scriptAnswer, runs>>

\* The registry is an attribute the package body does not assign, so it stays.
ReloadInPlace ==
    /\ Reloaded /\ stdout' = Tap(generation)
    /\ UNCHANGED <<registry, generation, uplink>>

ReloadFresh ==
    /\ Reloaded /\ stdout' = Tap(generation + 1)
    /\ generation' = generation + 1 /\ uplink' = uplink
    /\ registry' = [s \in Sources |-> None]

Handler ==
    \/ \E s \in Sources, deps \in SUBSET ScriptTargets : Register(s, deps)
    \/ \E s \in Sources : Delete(s) \/ Check(s)
    \/ RefuseSource
    \/ \E logs \in BOOLEAN :
         RunInline(logs) \/ \E s \in Sources : RunSource(s, logs)

ScriptNext ==
    \/ Handler \/ PrintLine \/ ReloadInPlace \/ ReloadFresh
    \/ \E t \in ScriptTargets : TouchScene(t)
    \/ \E how \in Endings : End(how)

ScriptSpec == ScriptInit /\ [][ScriptNext]_scriptVars

----------------------------------------------------------------------------
\* Properties.

Times(line) == Cardinality({i \in DOMAIN uplink : uplink[i] = line})

\* Once no script runs the streams are as they were, however the calls were nested and
\* however they ended (execute.py, the finally of handle_execute_python); a reload in the
\* middle of a script is the exception, see TapIsAlive.
StreamsAreGivenBack ==
    ~Busy /\ ~crossed => stdout = Tap(generation) /\ captureDepth = 0 /\ suppressDepth = 0

\* The outermost call with logs has captured every line printed since it began, those of
\* the calls inside it too, and no line is in the uplink twice or, at rest, missing
\* (execute.py 229-237, 317-331).
LinesAreCapturedOnce ==
    ~crossed =>
      /\ \A k \in DOMAIN frames : frames[k].installed =>
           frames[k].buffer = [i \in 1 .. printed - frames[k].since |-> frames[k].since + i]
      /\ \A line \in 1 .. printed : Times(line) <= 1 /\ (~Busy => Times(line) = 1)

\* Both: what scripts print is told once, and leaves no trace in the process.
ScriptsAreTold == StreamsAreGivenBack /\ LinesAreCapturedOnce

\* Not so: a package reloaded by a script leaves the counter of suppress() at -1 or the
\* tap of the old generation on sys.stdout, and nothing printed afterwards is sent
\* (logtap.py 186-189: "always safe to call again, ... always rebinds to this generation's").
TapIsAlive == ~Busy => stdout = Tap(generation) /\ suppressDepth = 0

\* Not so: a source that is forgotten while it runs has its whole report replaced by a
\* TypeError (script_source.py 450), although 35-37 promises that no output is lost.
RunIsNeverLost == scriptAnswer # None => scriptAnswer.kind # "broken"
=============================================================================
