------------------------------ MODULE Dialogs ------------------------------
(* The windows of one TouchDesigner process as the daemon sees them: the   *)
(* worker thread that makes every platform call, the snapshot cache, the   *)
(* watcher that refreshes the shared snapshot, the gate that refuses calls *)
(* while a modal is open, and the dismissal ladder.                        *)
(*                                                                         *)
(* A window is opened once; what it looks like does not change.  Time is   *)
(* abstracted to what may have passed: a budget (Timeout), the snapshot's  *)
(* lifetime (CacheExpires), the deadline of a dismissal (VerifyDeadline).  *)
EXTENDS Sequences, FiniteSets, SequencesExt, Absent

CONSTANTS
    Windows,        \* the windows the process may show
    Looks,          \* how a platform describes them: a function from Windows to
                    \*   title    "none", "editor" or "other"
                    \*   helper   whether the class is that of a system helper
                    \*   verdict  "dialog", "standard", or None (user32 gives none)
    Buttons,        \* Buttons[w]: its buttons in order, [label, ctrl, dflt]
    Modal,          \* those that really are dialogs
    AtStart,        \* the windows that are there from the start
    Sweeper, Gates, Dismissers,   \* who asks; Gates also stands for action=list
    Together,       \* which of them are active in one behaviour, besides the watcher
    Target, Wanted, \* what a dismisser wants gone, and the button it names or None
    MaxTimeouts,    \* bound: probes that fail or run out of budget
    MaxTurns        \* bound: changes of the bridge status

VARIABLES
    look,       \* the platform's description, a member of Looks
    open,       \* windows on the screen
    shown,      \* windows that were ever on it
    posted,     \* messages the process has not handled yet, <<window, button or "close">>
    hits,       \* history: every message that was posted, with the dismisser
    queue,      \* jobs of the worker thread; live while somebody waits for the answer
    cache,      \* PlatformDialogSource.cache while younger than CACHE_TTL, or None
    shared,     \* DialogsShared.snapshots[pid], or None
    row,        \* the registry row: bridged (starting or connected) and window_status
    act,        \* act[a]: where an asker is
    timeouts, turns

dialogVars == <<look, open, shown, posted, hits, queue, cache, shared, row, act, timeouts, turns>>

screen == <<look, open, shown>>
Askers == {Sweeper} \cup Gates \cup Dismissers
Empty == [popups |-> {}, status |-> None]

(* Classification.                                                         *)

IsChromeTitle(w) == look[w].title \in {"none", "editor"}
IsSystemHelper(w) == look[w].helper
IsMainCandidate(w) == look[w].title = "editor"
IsMainChrome(w) ==
    IF look[w].verdict = None THEN IsChromeTitle(w) ELSE look[w].verdict = "standard"

\* The windows a snapshot lists as popups.
Popup(w) ==
    /\ look[w].verdict # "standard"
    /\ look[w].verdict = "dialog" \/ ~IsChromeTitle(w)
    /\ ~IsSystemHelper(w)

\* The status a snapshot reports: a modal blocks; otherwise the main window is pinged
\* (whether it answers is left out); without one there is nothing to say.
WindowStatus(popups) ==
    IF popups # {} THEN "blocked"
    ELSE IF \E w \in open : IsMainCandidate(w) THEN "pinged"
    ELSE None

\* The first button in bs that satisfies T, if it has a control id.
FirstButton(bs, T(_)) ==
    LET hit == SelectSeq(bs, T)
    IN  IF hit # <<>> /\ Head(hit).ctrl THEN Head(hit).label ELSE None

PlanLadder(want, bs) ==
    LET named == FirstButton(bs, LAMBDA b : b.label = want)
        dflt == FirstButton(bs, LAMBDA b : b.dflt)
        any == FirstButton(bs, LAMBDA b : TRUE)
    IN  CASE want # None /\ named # None -> named
          [] dflt # None -> dflt
          [] any # None -> any
          [] OTHER -> "close"

-----------------------------------------------------------------------------
DialogInit ==
    /\ look \in Looks /\ open = AtStart /\ shown = AtStart /\ posted = {} /\ hits = {}
    /\ queue = <<>> /\ cache = None /\ shared = None
    /\ row = [bridged |-> TRUE, status |-> None]
    /\ \E some \in Together :
         act = [a \in Askers |->
                  [pc |-> IF a \in {Sweeper} \cup some THEN "start" ELSE "absent",
                   got |-> Empty, step |-> None, blind |-> FALSE]]
    /\ timeouts = 0 /\ turns = 0

PCs == {"absent", "start", "probing", "probed", "found", "reported", "children", "send", "sending",
        "verify", "verifying", "gone", "passed", "refused", "dismissed", "failed",
        "not_found", "protected"}
Snapshots == [popups : SUBSET Windows, status : {None, "blocked", "pinged"}]

DialogTypeOK ==
    /\ open \subseteq Windows
    /\ cache \in Snapshots \cup {None} /\ shared \in Snapshots \cup {None}
    /\ \A a \in Askers : act[a].pc \in PCs /\ act[a].got \in Snapshots
    /\ \A a \in Askers : Cardinality({i \in DOMAIN queue : queue[i].who = a /\ queue[i].live}) <= 1

(* Asking the worker.                                                      *)

Waiting == {"probing", "children", "sending", "verifying"}

\* ask: the job is sent and the caller waits for its answer.
Ask(a, op, pc) ==
    /\ queue' = Append(queue, [who |-> a, op |-> op, live |-> TRUE])
    /\ act' = [act EXCEPT ![a].pc = pc]

\* Where an asker goes on with the answer v.
Resume(a, v) ==
    LET r == act[a]
    IN  CASE r.pc = "probing" -> [r EXCEPT !.pc = "probed", !.got = v]
          [] r.pc = "children" -> [r EXCEPT !.pc = "send", !.step = PlanLadder(Wanted[a], v)]
          [] r.pc = "sending" -> [r EXCEPT !.pc = IF v THEN "verify" ELSE "failed"]
          [] r.pc = "verifying" ->
               [r EXCEPT !.pc = IF Target[a] \in v.popups THEN "verify" ELSE "gone"]

\* What it goes on with when there is no answer: everything fails open.
NoAnswer(pc) ==
    CASE pc \in {"probing", "verifying"} -> Empty
      [] pc = "children" -> <<>>
      [] pc = "sending" -> FALSE

Post(a, button) ==
    /\ posted' = posted \cup {<<Target[a], button>>}
    /\ hits' = hits \cup {[by |-> a, win |-> Target[a], button |-> button]}

\* The answer the platform gives to a job, as the screen is now.
Answer(j) ==
    CASE j.op = "windows" -> LET popups == {w \in open : Popup(w)}
                             IN  [popups |-> popups, status |-> WindowStatus(popups)]
      [] j.op = "children" -> IF Target[j.who] \in open THEN Buttons[Target[j.who]] ELSE <<>>
      [] j.op = "post" -> Target[j.who] \in open

\* The worker thread makes the call, whether or not anybody still waits for it.
Work ==
    /\ queue # <<>>
    /\ LET j == Head(queue)
       IN  /\ IF j.op = "post" /\ Target[j.who] \in open
                THEN Post(j.who, act[j.who].step)
                ELSE UNCHANGED <<posted, hits>>
           /\ act' = IF j.live THEN [act EXCEPT ![j.who] = Resume(j.who, Answer(j))] ELSE act
    /\ queue' = Tail(queue)
    /\ UNCHANGED <<screen, cache, shared, row, timeouts, turns>>

\* recv_timeout runs out, or the enumeration fails; the job stays queued.
Timeout(a) ==
    /\ act[a].pc \in Waiting /\ timeouts < MaxTimeouts
    /\ timeouts' = timeouts + 1
    /\ act' = [act EXCEPT ![a] = [Resume(a, NoAnswer(act[a].pc)) EXCEPT
                                     !.blind = @ \/ act[a].pc = "verifying"]]
    /\ queue' = [i \in DOMAIN queue |->
                    IF queue[i].who = a THEN [queue[i] EXCEPT !.live = FALSE] ELSE queue[i]]
    /\ UNCHANGED <<screen, posted, hits, cache, shared, row, turns>>

(* The snapshot, for whoever takes one.                                    *)

\* A cached snapshot answers at once, otherwise the windows are enumerated.
LookAtCache(a) ==
    IF cache # None
      THEN /\ act' = [act EXCEPT ![a].pc = "found", ![a].got = cache]
           /\ UNCHANGED queue
      ELSE Ask(a, "windows", "probing")

CacheInsert(a) ==
    /\ act[a].pc = "probed"
    /\ cache' = act[a].got
    /\ act' = [act EXCEPT ![a].pc = "found"]
    /\ UNCHANGED <<screen, posted, hits, queue, shared, row, timeouts, turns>>

CacheExpires ==
    /\ cache # None
    /\ cache' = None
    /\ UNCHANGED <<screen, posted, hits, queue, shared, row, act, timeouts, turns>>

(* The watcher.                                                            *)

\* A tick: an entry without a bridge is purged, one with a bridge is sampled.
Sweep ==
    /\ act[Sweeper].pc = "start"
    /\ IF row.bridged
         THEN LookAtCache(Sweeper) /\ UNCHANGED shared
         ELSE shared' = None /\ UNCHANGED <<queue, act>>
    /\ UNCHANGED <<screen, posted, hits, cache, row, timeouts, turns>>

\* The status goes to the registry if there is one to report, ...
SweepReports ==
    /\ act[Sweeper].pc = "found"
    /\ row' = IF act[Sweeper].got.status = None THEN row
              ELSE [row EXCEPT !.status = act[Sweeper].got.status]
    /\ act' = [act EXCEPT ![Sweeper].pc = "reported"]
    /\ UNCHANGED <<screen, posted, hits, queue, cache, shared, timeouts, turns>>

\* Only modals are news.
SweepPublishesPopups ==
    /\ act[Sweeper].pc = "reported"
    /\ shared' = IF act[Sweeper].got.popups = {} THEN shared ELSE act[Sweeper].got
    /\ act' = [act EXCEPT ![Sweeper].pc = "start", ![Sweeper].got = Empty]
    /\ UNCHANGED <<screen, posted, hits, queue, cache, row, timeouts, turns>>

\* ... the snapshot to the shared map.
SweepPublishes ==
    /\ act[Sweeper].pc = "reported"
    /\ shared' = act[Sweeper].got
    /\ act' = [act EXCEPT ![Sweeper].pc = "start", ![Sweeper].got = Empty]
    /\ UNCHANGED <<screen, posted, hits, queue, cache, row, timeouts, turns>>

(* dialogs_blocking_gate, before a bridged call; action=list is the same   *)
(* without the shared map.                                                 *)

GateOf(snap) == IF snap.popups # {} THEN "refused" ELSE "passed"

\* The shared snapshot decides; without one the gate takes its own.
GateLooks(a) ==
    /\ act[a].pc = "start"
    /\ IF shared # None
         THEN /\ act' = [act EXCEPT ![a].pc = GateOf(shared), ![a].got = shared]
              /\ UNCHANGED queue
         ELSE LookAtCache(a)
    /\ UNCHANGED <<screen, posted, hits, cache, shared, row, timeouts, turns>>

GateDecides(a) ==
    /\ act[a].pc = "found"
    /\ act' = [act EXCEPT ![a].pc = GateOf(act[a].got)]
    /\ UNCHANGED <<screen, posted, hits, queue, cache, shared, row, timeouts, turns>>

(* dismiss.                                                                *)

End(a, outcome) == act' = [act EXCEPT ![a].pc = outcome, ![a].got = Empty]

FindPopup(a) ==
    /\ act[a].pc = "start"
    /\ LookAtCache(a)
    /\ UNCHANGED <<screen, posted, hits, cache, shared, row, timeouts, turns>>

\* An unknown window is not found, chrome is protected, a popup is asked for its buttons.
CheckPopup(a) ==
    /\ act[a].pc = "found"
    /\ CASE Target[a] \notin act[a].got.popups ->
              End(a, "not_found") /\ UNCHANGED queue
         [] Target[a] \in act[a].got.popups /\ IsMainChrome(Target[a]) ->
              End(a, "protected") /\ UNCHANGED queue
         [] OTHER -> Ask(a, "children", "children")
    /\ UNCHANGED <<screen, posted, hits, cache, shared, row, timeouts, turns>>

\* The ladder's one step: a click on the button that was chosen, or a close.
SendStep(a) ==
    /\ act[a].pc = "send"
    /\ Ask(a, "post", "sending")
    /\ UNCHANGED <<screen, posted, hits, cache, shared, row, timeouts, turns>>

VerifyAgain(a) ==
    /\ act[a].pc = "verify"
    /\ Ask(a, "windows", "verifying")
    /\ UNCHANGED <<screen, posted, hits, cache, shared, row, timeouts, turns>>

VerifyDeadline(a) ==
    /\ act[a].pc = "verify"
    /\ End(a, "failed")
    /\ UNCHANGED <<screen, posted, hits, queue, cache, shared, row, timeouts, turns>>

\* Gone: the cached snapshot that still lists it is dropped.
VerifiedGone(a) ==
    /\ act[a].pc = "gone"
    /\ cache' = None
    /\ End(a, "dismissed")
    /\ UNCHANGED <<screen, posted, hits, queue, shared, row, timeouts, turns>>

(* The process and its user.                                               *)

\* The main thread handles a click or a close: the window goes, perhaps for another one.
Handle ==
    /\ \E m \in posted :
         /\ posted' = posted \ {m}
         /\ \E new \in {{}} \cup {{w} : w \in Modal \ shown} :
              /\ open' = (open \ {m[1]}) \cup new
              /\ shown' = shown \cup new
    /\ UNCHANGED <<look, hits, queue, cache, shared, row, act, timeouts, turns>>

\* The process shows a dialog, ...
Show ==
    /\ \E w \in Modal \ shown : open' = open \cup {w} /\ shown' = shown \cup {w}
    /\ UNCHANGED <<look, posted, hits, queue, cache, shared, row, act, timeouts, turns>>

\* ... which the user may answer.
UserAnswers ==
    /\ \E w \in Modal \cap open :
         /\ open' = open \ {w}
         /\ posted' = {m \in posted : m[1] # w}
    /\ UNCHANGED <<look, shown, hits, queue, cache, shared, row, act, timeouts, turns>>

\* The bridge of the process is lost or comes back.
BridgeMoves ==
    /\ turns < MaxTurns
    /\ turns' = turns + 1
    /\ row' = [row EXCEPT !.bridged = ~@]
    /\ UNCHANGED <<screen, posted, hits, queue, cache, shared, act, timeouts>>

DialogNext ==
    \/ Work \/ CacheExpires \/ Sweep \/ SweepReports \/ SweepPublishes
    \/ Handle \/ Show \/ UserAnswers \/ BridgeMoves
    \/ \E a \in Askers : Timeout(a) \/ CacheInsert(a)
    \/ \E a \in Gates : GateLooks(a) \/ GateDecides(a)
    \/ \E a \in Dismissers : \/ FindPopup(a) \/ CheckPopup(a) \/ SendStep(a)
                             \/ VerifyAgain(a) \/ VerifyDeadline(a) \/ VerifiedGone(a)

DialogSpec == DialogInit /\ [][DialogNext]_dialogVars

\* The sweeper's own steps.
Sweeping == Sweep \/ CacheInsert(Sweeper) \/ SweepReports \/ SweepPublishes

-----------------------------------------------------------------------------
(* Properties.                                                             *)

\* What is told about the screen is so: a dismissal posts at most one message, to the
\* dialog it was asked about and never to the editor or a helper window; "dismissed"
\* means gone, unless the probe that should have found it failed; and a call is refused
\* only because of dialogs that were there.
ScreenIsTold ==
    /\ DialogTypeOK
    /\ \A h \in hits : h.win \in Modal /\ h.win = Target[h.by]
    /\ \A a \in Dismissers :
         /\ Cardinality({h \in hits : h.by = a}) <= 1
         /\ act[a].pc = "dismissed" /\ ~act[a].blind => Target[a] \notin open
    /\ \A a \in Gates :
         act[a].pc = "refused" => act[a].got.popups \in (SUBSET (shown \cap Modal)) \ {{}}

\* A modal that is gone stops blocking: whatever failed or raced on the way, once no
\* dialog is shown any more the shared snapshot lets calls pass and, where there is a
\* bridge, the registry stops saying that the process is blocked.
DialogsFollowTheScreen ==
    /\ []ScreenIsTold
    /\ <>[](open \cap Modal = {}) =>
         <>[](/\ shared = None \/ shared.popups = {}
              /\ row.bridged => row.status # "blocked")

-----------------------------------------------------------------------------
(* What the docs promise and the code does not keep (README, Findings).    *)

\* "never fire-and-forget": a dismissal that is reported as done is done.
DismissedIsGone == \A a \in Dismissers : act[a].pc = "dismissed" => Target[a] \notin open

\* A dismissal that is reported as failed leaves nothing behind that still clicks.
FailedIsOver ==
    \A a \in Dismissers :
        act[a].pc = "failed" => ~\E i \in DOMAIN queue : queue[i].who = a /\ queue[i].op = "post"

\* "default button when omitted": a button that was named is the only one clicked.
ClickIsAsAsked ==
    \A h \in hits : Wanted[h.by] # None => h.button = Wanted[h.by]

=============================================================================
