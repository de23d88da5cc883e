----------------------------- MODULE DaemonLink ----------------------------
(***************************************************************************)
(* The stdio proxy's link to the daemon (daemon_link.rs) under the calls   *)
(* that stdio_proxy.rs forwards over it.  One HTTP session at a time is    *)
(* the current one; it is counted by a generation.  A forwarded call that  *)
(* fails, and the keep-warm watcher, run heal() for the generation they    *)
(* saw; heal replaces the session, one healer at a time.  A daemon that    *)
(* stays away long enough is started again through the respawn hook.       *)
(*                                                                         *)
(* unhealthy_since, last_downtime, last_probe and last_respawn_attempt are *)
(* mutexes of their own, so every access to one of them is a step.  Time   *)
(* is abstracted to what the code compares: a downtime is "fresh" or over  *)
(* the stale threshold, a probe recent or not, a respawn cooling or not.   *)
(***************************************************************************)
EXTENDS Absent, Naturals, FiniteSets

CONSTANTS
    Calls,       \* forwarded tool calls
    Launches,    \* those that are spawn_td, forwarded by forward_launch
    Watcher,     \* the keep-warm task
    MaxDeaths    \* bound on deaths of the daemon

ASSUME LinkAssumption ==
    /\ Launches \subseteq Calls
    /\ Watcher \notin Calls /\ None \notin Calls \cup {Watcher}
    /\ MaxDeaths \in Nat

VARIABLES
    generation,  \* of the current session
    session,     \* incarnation of the daemon the current session is connected to
    since,       \* unhealthy_since: "none", "fresh" or "stale"
    lastDown,    \* last_downtime
    probed,      \* last_probe is within the debounce window
    cooling,     \* last_respawn_attempt is within its cooldown
    healGate,    \* holder of reconnect_gate
    callGate,    \* holder of call_gate
    hpc,         \* hpc[a]: where the heal of actor a stands
    used,        \* used[a]: the generation a heals
    fresh,       \* fresh[a]: incarnation that the session a has just opened talks to
    cpc,         \* cpc[c]: the forwarded call
    wpc,         \* the watcher's loop
    daemonUp, incarnation, deaths,
    ensuring     \* a respawn was requested and ensure_daemon is at work

link == <<generation, session, since, lastDown, probed, cooling, healGate>>
heals == <<hpc, used, fresh>>
daemon == <<daemonUp, incarnation, deaths, ensuring>>
linkVars == <<link, callGate, heals, cpc, wpc, daemon>>

Actors == Calls \cup {Watcher}

Down == {"none", "fresh", "stale"}

CallEnds == {"answered", "unreachable", "healed", "timeout", "launchTimeout", "refused"}

LinkTypeOK ==
    /\ generation \in Nat /\ session \in Nat /\ incarnation \in Nat /\ deaths \in 0 .. MaxDeaths
    /\ since \in Down /\ lastDown \in Down
    /\ probed \in BOOLEAN /\ cooling \in BOOLEAN /\ daemonUp \in BOOLEAN /\ ensuring \in BOOLEAN
    /\ healGate \in Actors \cup {None} /\ callGate \in Calls \cup {None}
    /\ hpc \in [Actors -> {"off", "mark", "check", "wait", "probe", "connect", "swap",
                           "clear", "healed", "unhealed"}]
    /\ used \in [Actors -> Nat] /\ fresh \in [Actors -> Nat]
    /\ cpc \in [Calls -> {"idle", "queued", "sent", "lost", "late"} \cup CallEnds]
    /\ wpc \in {"sleep", "snapshot", "heal", "respawn"}
    /\ (callGate # None) => cpc[callGate] \in {"sent", "lost", "late"}

LinkInit ==
    /\ generation = 0 /\ session = 0 /\ since = "none" /\ lastDown = "none"
    /\ probed = FALSE /\ cooling = FALSE
    /\ healGate = None /\ callGate = None
    /\ hpc = [a \in Actors |-> "off"]
    /\ used = [a \in Actors |-> 0] /\ fresh = [a \in Actors |-> 0]
    /\ cpc = [c \in Calls |-> "idle"]
    /\ wpc = "sleep"
    /\ daemonUp = TRUE /\ incarnation = 0 /\ deaths = 0 /\ ensuring = FALSE

SessionLive == daemonUp /\ session = incarnation

-----------------------------------------------------------------------------
(* heal(generation_used) of actor a.                                       *)

HealAt(a, l) == hpc[a] = l
HealTo(a, l) == hpc' = [hpc EXCEPT ![a] = l]

StartHeal(a, g) ==
    /\ hpc' = [hpc EXCEPT ![a] = "mark"]
    /\ used' = [used EXCEPT ![a] = g]
    /\ UNCHANGED fresh

\* mark_unhealthy: the first failure sets the time.
HealMark(a) ==
    /\ HealAt(a, "mark")
    /\ since' = IF since = "none" THEN "fresh" ELSE since
    /\ HealTo(a, "check")
    /\ UNCHANGED <<generation, session, lastDown, probed, cooling, healGate, callGate,
                   used, fresh, cpc, wpc, daemon>>

\* The session a failed on is gone already: unmark_unhealthy.
HealCheck(a) ==
    /\ HealAt(a, "check")
    /\ \/ /\ generation # used[a]
          /\ since' = "none"
          /\ HealTo(a, "healed")
       \/ /\ generation = used[a]
          /\ since' = since
          /\ HealTo(a, "wait")
    /\ UNCHANGED <<generation, session, lastDown, probed, cooling, healGate, callGate,
                   used, fresh, cpc, wpc, daemon>>

\* Under reconnect_gate: somebody healed meanwhile, a probe was made a moment ago,
\* or it is this actor's turn to probe.
HealGateUnchecked(a) ==
    /\ HealAt(a, "wait") /\ healGate = None
    /\ \/ /\ probed
          /\ HealTo(a, "unhealed")
          /\ UNCHANGED <<since, probed, healGate>>
       \/ /\ ~probed
          /\ probed' = TRUE
          /\ healGate' = a
          /\ HealTo(a, "probe")
          /\ UNCHANGED since
    /\ UNCHANGED <<generation, session, lastDown, cooling, callGate, used, fresh, cpc, wpc, daemon>>

HealGate(a) ==
    /\ HealAt(a, "wait") /\ healGate = None
    /\ \/ /\ generation # used[a]
          /\ since' = "none"
          /\ HealTo(a, "healed")
          /\ UNCHANGED <<probed, healGate>>
       \/ /\ generation = used[a] /\ probed
          /\ HealTo(a, "unhealed")
          /\ UNCHANGED <<since, probed, healGate>>
       \/ /\ generation = used[a] /\ ~probed
          /\ probed' = TRUE
          /\ healGate' = a
          /\ HealTo(a, "probe")
          /\ UNCHANGED since
    /\ UNCHANGED <<generation, session, lastDown, cooling, callGate, used, fresh, cpc, wpc, daemon>>

\* HEAL_GATE_WAIT is over and another healer still holds the gate.
HealGateTimeout(a) ==
    /\ HealAt(a, "wait") /\ healGate # None
    /\ HealTo(a, "unhealed")
    /\ UNCHANGED <<link, callGate, used, fresh, cpc, wpc, daemon>>

\* GET /mcp/health.
HealProbe(a) ==
    /\ HealAt(a, "probe")
    /\ \/ daemonUp /\ HealTo(a, "connect") /\ UNCHANGED healGate
       \/ ~daemonUp /\ HealTo(a, "unhealed") /\ healGate' = None
    /\ UNCHANGED <<generation, session, since, lastDown, probed, cooling, callGate,
                   used, fresh, cpc, wpc, daemon>>

\* connect_http within its budget.
HealConnect(a) ==
    /\ HealAt(a, "connect")
    /\ \/ /\ daemonUp
          /\ fresh' = [fresh EXCEPT ![a] = incarnation]
          /\ HealTo(a, "swap")
          /\ UNCHANGED healGate
       \/ /\ ~daemonUp
          /\ HealTo(a, "unhealed") /\ healGate' = None
          /\ UNCHANGED fresh
    /\ UNCHANGED <<generation, session, since, lastDown, probed, cooling, callGate,
                   used, cpc, wpc, daemon>>

\* The new session takes over under the state lock.
HealSwap(a) ==
    /\ HealAt(a, "swap")
    /\ session' = fresh[a]
    /\ generation' = generation + 1
    /\ HealTo(a, "clear")
    /\ UNCHANGED <<since, lastDown, probed, cooling, healGate, callGate, used, fresh, cpc, wpc, daemon>>

\* clear_unhealthy; the old session is cancelled and the gate dropped.
HealClear(a) ==
    /\ HealAt(a, "clear")
    /\ lastDown' = since
    /\ since' = "none"
    /\ healGate' = None
    /\ HealTo(a, "healed")
    /\ UNCHANGED <<generation, session, probed, cooling, callGate, used, fresh, cpc, wpc, daemon>>

Heal(a) ==
    \/ HealMark(a) \/ HealCheck(a) \/ HealGate(a) \/ HealGateTimeout(a)
    \/ HealProbe(a) \/ HealConnect(a) \/ HealSwap(a) \/ HealClear(a)

-----------------------------------------------------------------------------
(* forward_bounded and forward_launch.                                     *)

Arrive(c) ==
    /\ cpc[c] = "idle"
    /\ cpc' = [cpc EXCEPT ![c] = "queued"]
    /\ UNCHANGED <<link, callGate, heals, wpc, daemon>>

\* call_gate is held through the whole call; the peer is the current session's.
Send(c) ==
    /\ cpc[c] = "queued" /\ callGate = None
    /\ callGate' = c
    /\ used' = [used EXCEPT ![c] = generation]
    /\ cpc' = [cpc EXCEPT ![c] = "sent"]
    /\ UNCHANGED <<link, hpc, fresh, wpc, daemon>>

Finish(c, o) == cpc' = [cpc EXCEPT ![c] = o] /\ callGate' = None

\* The daemon answers, or refuses the request, on a session that is still there.
Answered(c) ==
    /\ cpc[c] = "sent" /\ generation = used[c] /\ SessionLive
    /\ \E o \in {"answered", "refused"} : Finish(c, o)
    /\ UNCHANGED <<link, heals, wpc, daemon>>

\* The session died with its daemon, or a healer cancelled it.
TransportError(c) ==
    /\ cpc[c] = "sent" /\ (generation # used[c] \/ ~SessionLive)
    /\ cpc' = [cpc EXCEPT ![c] = "lost"]
    /\ StartHeal(c, used[c])
    /\ UNCHANGED <<link, callGate, wpc, daemon>>

\* The budget is used up.  A launch is reported as still starting and heals nothing.
BudgetSpent(c) ==
    /\ cpc[c] = "sent"
    /\ \/ /\ c \in Launches
          /\ Finish(c, "launchTimeout")
          /\ UNCHANGED heals
       \/ /\ c \notin Launches
          /\ cpc' = [cpc EXCEPT ![c] = "late"]
          /\ StartHeal(c, used[c])
          /\ UNCHANGED callGate
    /\ UNCHANGED <<link, wpc, daemon>>

\* What the caller is told once its heal is over.
ReportHeal(c) ==
    /\ cpc[c] \in {"lost", "late"} /\ hpc[c] \in {"healed", "unhealed"}
    /\ Finish(c, IF cpc[c] = "late" THEN "timeout"
                 ELSE IF hpc[c] = "healed" THEN "healed" ELSE "unreachable")
    /\ HealTo(c, "off")
    /\ UNCHANGED <<link, used, fresh, wpc, daemon>>

\* The proxy's own steps; whether the daemon answers is not up to it.
Forward(c) == Send(c) \/ TransportError(c) \/ BudgetSpent(c) \/ ReportHeal(c)

-----------------------------------------------------------------------------
(* The watcher: sleep, look at the mark, read the generation, heal it.     *)

WatcherWakes ==
    /\ wpc = "sleep" /\ since # "none"
    /\ wpc' = "snapshot"
    /\ UNCHANGED <<link, callGate, heals, cpc, daemon>>

WatcherHeals ==
    /\ wpc = "snapshot"
    /\ wpc' = "heal"
    /\ StartHeal(Watcher, generation)
    /\ UNCHANGED <<link, callGate, cpc, daemon>>

WatcherHealed ==
    /\ wpc = "heal" /\ hpc[Watcher] \in {"healed", "unhealed"}
    /\ wpc' = IF hpc[Watcher] = "healed" THEN "sleep" ELSE "respawn"
    /\ HealTo(Watcher, "off")
    /\ UNCHANGED <<link, callGate, used, fresh, cpc, daemon>>

DowntimeOfLast == lastDown

\* downtime(): of the outage under way, or of the last one.
Downtime == IF since # "none" THEN since ELSE lastDown

\* maybe_trigger_respawn after a heal that failed.
WatcherRespawns ==
    /\ wpc = "respawn"
    /\ wpc' = "sleep"
    /\ LET fires == Downtime = "stale" /\ ~cooling
       IN /\ cooling' = (cooling \/ fires)
          /\ ensuring' = (ensuring \/ fires)
    /\ UNCHANGED <<generation, session, since, lastDown, probed, healGate, callGate, heals, cpc,
                   daemonUp, incarnation, deaths>>

Watch == WatcherWakes \/ WatcherHeals \/ WatcherHealed \/ WatcherRespawns

-----------------------------------------------------------------------------
(* Time, the daemon, and what ensure_daemon promises: it is up at the end. *)

DowntimeGrows == since = "fresh" /\ since' = "stale"
                 /\ UNCHANGED <<generation, session, lastDown, probed, cooling, healGate,
                                callGate, heals, cpc, wpc, daemon>>

DebounceEnds == probed /\ probed' = FALSE
                /\ UNCHANGED <<generation, session, since, lastDown, cooling, healGate,
                               callGate, heals, cpc, wpc, daemon>>

CooldownEnds == cooling /\ cooling' = FALSE
                /\ UNCHANGED <<generation, session, since, lastDown, probed, healGate,
                               callGate, heals, cpc, wpc, daemon>>

DaemonDies ==
    /\ daemonUp /\ deaths < MaxDeaths
    /\ daemonUp' = FALSE /\ deaths' = deaths + 1
    /\ UNCHANGED <<link, callGate, heals, cpc, wpc, incarnation, ensuring>>

EnsureDaemon ==
    /\ ensuring /\ ensuring' = FALSE
    /\ daemonUp' = TRUE
    /\ incarnation' = IF daemonUp THEN incarnation ELSE incarnation + 1
    /\ UNCHANGED <<link, callGate, heals, cpc, wpc, deaths>>

-----------------------------------------------------------------------------
LinkNext ==
    \/ \E a \in Actors : Heal(a)
    \/ \E c \in Calls : Arrive(c) \/ Forward(c) \/ Answered(c)
    \/ Watch
    \/ DowntimeGrows \/ DebounceEnds \/ CooldownEnds
    \/ DaemonDies \/ EnsureDaemon

LinkSpec == LinkInit /\ [][LinkNext]_linkVars

\* Every future that is polled goes on; the clock goes on; a respawn that was
\* asked for runs.  No call has to arrive, no daemon has to die or to answer.
LinkFairness ==
    /\ \A a \in Actors : WF_linkVars(Heal(a))
    /\ \A c \in Calls : WF_linkVars(Forward(c))
    /\ WF_linkVars(Watch)
    /\ WF_linkVars(DowntimeGrows) /\ WF_linkVars(DebounceEnds) /\ WF_linkVars(CooldownEnds)
    /\ WF_linkVars(EnsureDaemon)

-----------------------------------------------------------------------------
(* Properties.                                                             *)

\* Two actors that saw the same session fail replace it once: whoever is about to
\* install a session holds the gate and was asked to repair the one that is current.
\* heal() checks the generation again behind the gate for this.
OneReconnectPerFailure ==
    /\ LinkTypeOK
    /\ \A a \in Actors : hpc[a] \in {"probe", "connect", "swap"} =>
         healGate = a /\ used[a] = generation

\* A link that was marked unhealthy does not stay so, though nobody calls and
\* nobody but the watcher's respawn hook starts the dead daemon again.
MarkedLinkRecovers == (since # "none") ~> (since = "none")

-----------------------------------------------------------------------------
(* What a comment promises and the code does not keep (README, Findings).  *)

\* "A caller whose generation was already healed by someone else must not leave the
\* link marked, or the watcher re-heals (and cancels) the live healthy session": a
\* session that works and carries a call is not replaced.
HealthySessionIsKept ==
    [][\A a \in Actors : HealSwap(a) =>
          ~(SessionLive /\ \E c \in Calls : cpc[c] = "sent" /\ used[c] = generation)]_linkVars
=============================================================================
