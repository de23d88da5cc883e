---------------------------- MODULE DaemonProofs ---------------------------
(* The daemon among other processes, for every number of calls, ensurers,  *)
(* daemons and deaths, and every size of the buffers: a stdio proxy        *)
(* replaces a failed session once, daemon.lock is never left behind by a   *)
(* daemon that was not killed, and the desktop shows the records of the    *)
(* log ring in their order, each once.                                     *)
EXTENDS DaemonLink, DaemonStart, LogTrail, Integers, SequenceTheorems, WellFoundedInduction,
        TLAPS

-----------------------------------------------------------------------------
(* The link of a stdio proxy.                                              *)

\* The gate is held from the probe to the end of the heal, and while it is held nobody
\* else moves the generation on.
LinkInv ==
    /\ LinkTypeOK
    /\ \A a \in Actors : /\ hpc[a] \in {"probe", "connect", "swap"} =>
                               healGate = a /\ used[a] = generation
                         /\ hpc[a] = "clear" => healGate = a

LinkBooleans ==
    probed \in BOOLEAN /\ cooling \in BOOLEAN /\ daemonUp \in BOOLEAN /\ ensuring \in BOOLEAN

LEMMA LinkInitInv == LinkInit => LinkInv
<1> SUFFICES ASSUME LinkInit PROVE LinkInv
  OBVIOUS
<1>1. LinkBooleans
  BY DEF LinkInit, LinkBooleans
<1> QED
  BY <1>1, LinkAssumption
     DEF LinkInit, LinkInv, LinkTypeOK, LinkBooleans, Actors, Down, CallEnds

\* heal() of one actor.
LEMMA HealKeepsInv ==
    ASSUME LinkInv, NEW a \in Actors, Heal(a)
    PROVE  LinkInv'
<1> USE DEF LinkInv, LinkTypeOK, Down, CallEnds, HealAt, HealTo, heals, daemon, link
<1>0. None \notin Actors
  BY LinkAssumption DEF Actors
<1>1. CASE HealMark(a)
  BY <1>1 DEF HealMark
<1>2. CASE HealCheck(a)
  BY <1>2 DEF HealCheck
<1>3. CASE HealGate(a)
  <2>1. LinkBooleans'
    BY <1>3 DEF HealGate, LinkBooleans
  <2> QED
    BY <1>0, <1>3, <2>1 DEF HealGate, LinkBooleans
<1>4. CASE HealGateTimeout(a)
  BY <1>4 DEF HealGateTimeout
<1>5. CASE HealProbe(a)
  BY <1>0, <1>5 DEF HealProbe
<1>6. CASE HealConnect(a)
  BY <1>0, <1>6 DEF HealConnect
<1>7. CASE HealSwap(a)
  BY <1>7 DEF HealSwap
<1>8. CASE HealClear(a)
  BY <1>0, <1>8 DEF HealClear
<1> QED
  BY <1>1, <1>2, <1>3, <1>4, <1>5, <1>6, <1>7, <1>8 DEF Heal

\* A forwarded call starts a heal where it has none yet, or leaves one that is over.
LEMMA ForwardKeepsInv ==
    ASSUME LinkInv, NEW c \in Calls, Arrive(c) \/ Forward(c) \/ Answered(c)
    PROVE  LinkInv'
<1> USE DEF LinkInv, LinkTypeOK, Down, CallEnds, HealTo, StartHeal, Finish, heals, daemon, link
<1>0. None \notin Calls /\ c \in Actors
  BY LinkAssumption DEF Actors
<1>1. CASE Arrive(c)
  BY <1>1 DEF Arrive
<1>2. CASE Send(c)
  BY <1>0, <1>2 DEF Send
<1>3. CASE TransportError(c)
  BY <1>0, <1>3 DEF TransportError
<1>4. CASE BudgetSpent(c)
  BY <1>0, <1>4 DEF BudgetSpent
<1>5. CASE ReportHeal(c)
  BY <1>0, <1>5 DEF ReportHeal
<1>6. CASE Answered(c)
  BY <1>0, <1>6 DEF Answered
<1> QED
  BY <1>1, <1>2, <1>3, <1>4, <1>5, <1>6 DEF Forward

LEMMA LinkStepInv == LinkInv /\ [LinkNext]_linkVars => LinkInv'
<1> SUFFICES ASSUME LinkInv, [LinkNext]_linkVars PROVE LinkInv'
  OBVIOUS
<1>1. CASE UNCHANGED linkVars
  BY <1>1 DEF linkVars, LinkInv, LinkTypeOK, heals, daemon, link
<1>2. CASE Watch
  <2> USE DEF LinkInv, LinkTypeOK, Down, CallEnds, HealTo, StartHeal, heals, daemon, link
  <2>1. CASE WatcherWakes \/ WatcherHeals \/ WatcherHealed
    BY <2>1 DEF WatcherWakes, WatcherHeals, WatcherHealed, Actors
  <2>2. CASE WatcherRespawns
    <3>1. LinkBooleans'
      BY <2>2 DEF WatcherRespawns, LinkBooleans
    <3> QED
      BY <2>2, <3>1 DEF WatcherRespawns, LinkBooleans
  <2> QED
    BY <1>2, <2>1, <2>2 DEF Watch
<1>3. CASE DowntimeGrows \/ DebounceEnds \/ CooldownEnds \/ DaemonDies \/ EnsureDaemon
  <2> USE DEF DowntimeGrows, DebounceEnds, CooldownEnds, DaemonDies, EnsureDaemon,
              LinkInv, LinkTypeOK, heals, daemon, link
  <2>1. LinkBooleans'
    BY <1>3 DEF LinkBooleans
  <2>2. CASE DowntimeGrows
    BY <2>1, <2>2 DEF LinkBooleans, Down
  <2>3. CASE DebounceEnds \/ CooldownEnds
    BY <2>1, <2>3 DEF LinkBooleans
  <2>4. CASE DaemonDies
    BY <2>1, <2>4, LinkAssumption DEF LinkBooleans
  <2>5. CASE EnsureDaemon
    <3>1. incarnation' = incarnation \/ incarnation' = incarnation + 1
      BY <2>5, Zenon
    <3> QED
      BY <2>1, <2>5, <3>1 DEF LinkBooleans
  <2> QED
    BY <1>3, <2>2, <2>3, <2>4, <2>5
<1> QED
  BY <1>1, <1>2, <1>3, HealKeepsInv, ForwardKeepsInv DEF LinkNext

\* Of all calls and watchers that saw one session fail, one replaces it.
THEOREM ReconnectsAreSingle == LinkSpec => []OneReconnectPerFailure
<1>1. LinkInv => OneReconnectPerFailure
  BY DEF LinkInv, OneReconnectPerFailure
<1> QED
  BY <1>1, LinkInitInv, LinkStepInv, PTL DEF LinkSpec

-----------------------------------------------------------------------------
(* How a daemon starts and ends.                                           *)

\* Where a daemon may stand that holds a port, the writer lock, or its name on file.
OwnersStand ==
    /\ \A d \in Daemons :
          /\ httpPort = d => dpc[d] \in {"stores", "bridge", "record", "serving"}
          /\ bridgePort = d => dpc[d] \in {"record", "serving", "draining"}
          /\ writer = d => dpc[d] \in {"bridge", "record", "serving", "draining", "cleanup"}
          /\ daemonLock = d => \/ dpc[d] \in {"serving", "draining", "cleanup"}
                               \/ dpc[d] = "gone" /\ d \in killed

StartInv == StartTypeOK /\ OwnersStand

LEMMA StartInitInv == StartInit => StartInv
BY StartAssumption DEF StartInit, StartInv, StartTypeOK, OwnersStand, Alive

\* ensure_daemon leaves the daemons alone, but for the one it spawns.
LEMMA EnsureKeepsInv ==
    ASSUME StartInv, NEW e \in Ensurers, Ensure(e) \/ EnsureDeadline(e)
    PROVE  StartInv'
<1> USE StartAssumption
    DEF StartInv, StartTypeOK, OwnersStand, Alive, EnsureAt, EnsureTo, owned, ensures
<1>1. CASE EnsureLooks(e)
  BY <1>1 DEF EnsureLooks
<1>2. CASE EnsureShutsDown(e)
  BY <1>2 DEF EnsureShutsDown, Healthy
<1>3. CASE EnsureWaitsDown(e)
  BY <1>3 DEF EnsureWaitsDown
<1>4. CASE EnsureReclaims(e)
  BY <1>4 DEF EnsureReclaims
<1>5. CASE EnsureLoops(e)
  BY <1>5 DEF EnsureLoops
<1>6. CASE EnsureTries(e)
  BY <1>6 DEF EnsureTries
<1>7. CASE EnsureSteals(e)
  BY <1>7 DEF EnsureSteals
<1>8. CASE EnsureCreates(e)
  BY <1>8 DEF EnsureCreates
<1>9. CASE EnsureSpawns(e)
  <2>1. CASE ensureLock' = None /\ epc' \in {[epc EXCEPT ![e] = "done"], [epc EXCEPT ![e] = "failed"]}
             /\ UNCHANGED <<dpc, headless>>
    BY <1>9, <2>1 DEF EnsureSpawns
  <2>2. ASSUME NEW d \in Daemons, dpc[d] = "unused",
               dpc' = [dpc EXCEPT ![d] = "preflight"],
               headless' = [headless EXCEPT ![d] = e \notin TrayEnsurers],
               epc' = [epc EXCEPT ![e] = "await"], UNCHANGED ensureLock
        PROVE  StartInv'
    BY <1>9, <2>2 DEF EnsureSpawns
  <2> QED
    BY <1>9, <2>1, <2>2 DEF EnsureSpawns
<1>10. CASE EnsureServed(e)
  BY <1>10 DEF EnsureServed
<1>11. CASE EnsureDeadline(e)
  BY <1>11 DEF EnsureDeadline
<1> QED
  BY <1>1, <1>2, <1>3, <1>4, <1>5, <1>6, <1>7, <1>8, <1>9, <1>10, <1>11 DEF Ensure

\* A daemon that ends half-way has not put its name on file, one that ends well takes it
\* off, and one that is killed is known to be.
LEMMA DaemonKeepsInv ==
    ASSUME StartInv, NEW d \in Daemons, DaemonRuns(d) \/ Quit(d) \/ Restart(d) \/ Kill(d)
    PROVE  StartInv'
<1> USE StartAssumption
    DEF StartInv, StartTypeOK, OwnersStand, Alive, DaemonAt, DaemonTo, Exits, owned, ensures
<1>1. CASE AwaitPredecessor(d)
  BY <1>1 DEF AwaitPredecessor
<1>2. CASE Preflight(d)
  BY <1>2 DEF Preflight
<1>3. CASE Bind(d)
  BY <1>3 DEF Bind
<1>4. CASE OpenStores(d)
  BY <1>4 DEF OpenStores
<1>5. CASE BindBridge(d)
  BY <1>5 DEF BindBridge
<1>6. CASE Record(d)
  BY <1>6 DEF Record
<1>7. CASE Drain(d)
  BY <1>7 DEF Drain
<1>8. CASE StopAccepting(d)
  BY <1>8 DEF StopAccepting
<1>9. CASE Cleanup(d)
  BY <1>9 DEF Cleanup
<1>10. CASE Quit(d)
  BY <1>10 DEF Quit
<1>11. CASE Restart(d)
  BY <1>11 DEF Restart
<1>12. CASE Kill(d)
  BY <1>12 DEF Kill
<1> QED
  BY <1>1, <1>2, <1>3, <1>4, <1>5, <1>6, <1>7, <1>8, <1>9, <1>10, <1>11, <1>12
     DEF DaemonRuns

LEMMA StartStepInv == StartInv /\ [StartNext]_startVars => StartInv'
<1>1. ASSUME StartInv, UNCHANGED startVars PROVE StartInv'
  BY <1>1 DEF startVars, StartInv, StartTypeOK, OwnersStand, Alive, owned, ensures
<1> QED
  BY <1>1, EnsureKeepsInv, DaemonKeepsInv DEF StartNext

\* However many processes want a daemon and however many daemons start, restart, end and
\* are killed meanwhile, daemon.lock names one that runs or one that was killed.
THEOREM LocksNameOwners == StartSpec => []LockNamesAnOwner
<1>1. StartInv => LockNamesAnOwner
  BY StartAssumption DEF StartInv, StartTypeOK, OwnersStand, LockNamesAnOwner, Alive
<1> QED
  BY <1>1, StartInitInv, StartStepInv, PTL DEF StartSpec

-----------------------------------------------------------------------------
(* The way of a log record into the Logs view.                             *)

\* Numbers have a least one.
LEMMA SomeNumberIsLeast ==
    ASSUME NEW S \in SUBSET Nat, S # {}
    PROVE  \E m \in S : \A n \in S : m <= n
<1> DEFINE R == {ss \in Nat \X Nat : ss[1] < ss[2]}
<1>1. IsWellFoundedOn(R, Nat)
  BY NatLessThanWellFounded DEF OpToRel
<1>2. PICK m \in S : \A n \in S : ~(<<n, m>> \in R)
  <2> HIDE DEF R
  <2> QED
    BY <1>1, WFMin
<1>3. ASSUME NEW n \in S PROVE m <= n
  <2>1. n \in Nat /\ m \in Nat
    OBVIOUS
  <2>2. n < m => <<n, m>> \in R
    BY ONLY <2>1
  <2>3. ~(<<n, m>> \in R)
    BY <1>2
  <2> HIDE DEF R
  <2> QED
    BY <2>1, <2>2, <2>3
<1> QED
  BY <1>3

\* Induction up to L.
LEMMA CountingUp ==
    ASSUME NEW L \in Nat, NEW G, 0 \in G, \A n \in 1 .. L : n - 1 \in G => n \in G
    PROVE  \A n \in 0 .. L : n \in G
<1> DEFINE S == {n \in 0 .. L : n \notin G}
<1> SUFFICES ASSUME S # {} PROVE FALSE
  OBVIOUS
<1>1. S \in SUBSET Nat
  OBVIOUS
<1>2. PICK m \in S : \A n \in S : m <= n
  <2> HIDE DEF S
  <2> QED
    BY <1>1, SomeNumberIsLeast
<1>3. m \in 1 .. L /\ m - 1 \in 0 .. L /\ ~(m <= m - 1)
  OBVIOUS
<1> QED
  BY <1>2, <1>3

Pickable(r, after, loud) == r.seq > after /\ Matches(loud, r.kind)
PickedNext(s, r, after, loud) == IF Pickable(r, after, loud) THEN Append(s, r) ELSE s

\* Picking is the loop it looks like.
LEMMA PickingLoops ==
    ASSUME NEW after, NEW loud, ring \in Seq(Records)
    PROVE  \E f \in [0 .. Len(ring) -> Seq(Records)] :
             /\ Selected(after, loud) = f[Len(ring)]
             /\ f[0] = <<>>
             /\ \A n \in 1 .. Len(ring) : f[n] = PickedNext(f[n - 1], ring[n], after, loud)
<1> DEFINE L == Len(ring)
           Loop(f) == [n \in 0 .. L |->
                         IF n = 0 THEN <<>>
                         ELSE IF ring[n].seq > after /\ Matches(loud, ring[n].kind)
                                THEN Append(f[n - 1], ring[n])
                                ELSE f[n - 1]]
           f == CHOOSE g : g = Loop(g)
           Steps(g, m) == g[0] = <<>> /\ \A n \in 1 .. m : g[n] = PickedNext(g[n - 1], ring[n], after, loud)
           Up == {m \in 0 .. L : \E g \in [0 .. m -> Seq(Records)] : Steps(g, m)}
<1>1. Selected(after, loud) = f[L]
  BY DEF Selected
<1>2. L \in Nat /\ (\A n \in 1 .. L : ring[n] \in Records)
  OBVIOUS
<1>3. 0 \in Up
  <2> DEFINE g == [n \in 0 .. 0 |-> <<>>]
  <2>1. g \in [0 .. 0 -> Seq(Records)] /\ g[0] = <<>>
    OBVIOUS
  <2>2. Steps(g, 0)
    BY <2>1
  <2>3. 0 \in 0 .. L
    BY <1>2
  <2> HIDE DEF g, Steps
  <2>4. \E gg \in [0 .. 0 -> Seq(Records)] : Steps(gg, 0)
    BY <2>1, <2>2
  <2> QED
    BY <2>3, <2>4
<1>4. ASSUME NEW m \in 1 .. L, m - 1 \in Up PROVE m \in Up
  <2>1. PICK g \in [0 .. m - 1 -> Seq(Records)] : Steps(g, m - 1)
    BY <1>4
  <2> DEFINE h == [n \in 0 .. m |-> IF n = m THEN PickedNext(g[m - 1], ring[m], after, loud) ELSE g[n]]
  <2>2. g[m - 1] \in Seq(Records) /\ ring[m] \in Records
    BY <1>2
  <2>3. PickedNext(g[m - 1], ring[m], after, loud) \in Seq(Records)
    BY <2>2 DEF PickedNext
  <2>4. h \in [0 .. m -> Seq(Records)]
    BY <2>3
  <2>5. Steps(h, m)
    <3>1. h[0] = <<>>
      BY <2>1
    <3>2. ASSUME NEW n \in 1 .. m PROVE h[n] = PickedNext(h[n - 1], ring[n], after, loud)
      <4>1. h[n - 1] = g[n - 1]
        OBVIOUS
      <4>2. CASE n = m
        BY <4>1, <4>2
      <4>3. CASE n # m
        <5>1. n \in 1 .. m - 1 /\ h[n] = g[n]
          BY <4>3
        <5> QED
          BY <2>1, <4>1, <5>1
      <4> QED
        BY <4>2, <4>3
    <3> HIDE DEF h
    <3> QED
      BY <3>1, <3>2
  <2> HIDE DEF Steps, h
  <2> QED
    BY <2>4, <2>5
<1>5. L \in Up
  <2> HIDE DEF Up, L
  <2>1. \A n \in 0 .. L : n \in Up
    BY <1>2, <1>3, <1>4, CountingUp
  <2> QED
    BY <1>2, <2>1
<1>6. PICK g \in [0 .. L -> Seq(Records)] : Steps(g, L)
  BY <1>5
<1>7. g = Loop(g)
  <2>1. ASSUME NEW n \in 0 .. L PROVE g[n] = Loop(g)[n]
    <3>1. CASE n = 0
      BY <1>6, <3>1
    <3>2. CASE n \in 1 .. L
      <4>1. g[n] = PickedNext(g[n - 1], ring[n], after, loud)
        BY <1>6, <3>2
      <4> QED
        BY <3>2, <4>1 DEF PickedNext, Pickable
    <3> QED
      BY <3>1, <3>2
  <2>2. g \in [0 .. L -> Seq(Records)] /\ DOMAIN Loop(g) = 0 .. L
    OBVIOUS
  <2> QED
    BY <2>1, <2>2
<1>8. f = Loop(f)
  BY <1>7
<1> HIDE DEF f
<1>9. Steps(f, L)
  <2>1. f[0] = <<>>
    BY <1>2, <1>8
  <2>2. ASSUME NEW n \in 1 .. L PROVE f[n] = PickedNext(f[n - 1], ring[n], after, loud)
    <3>1. n \in 0 .. L /\ n # 0
      BY <1>2
    <3>2. f[n] = Loop(f)[n]
      BY <1>8
    <3> QED
      BY <3>1, <3>2 DEF PickedNext, Pickable
  <2> QED
    BY <2>1, <2>2
<1> DEFINE T == {n \in 0 .. L : f[n] \in Seq(Records)}
<1>10. 0 \in T
  <2>1. f[0] \in Seq(Records)
    BY <1>9
  <2> QED
    BY <1>2, <2>1
<1>11. ASSUME NEW m \in 1 .. L, m - 1 \in T PROVE m \in T
  <2>1. f[m - 1] \in Seq(Records) /\ ring[m] \in Records
    BY <1>2, <1>11
  <2>2. f[m] = PickedNext(f[m - 1], ring[m], after, loud)
    BY <1>9
  <2>3. f[m] \in Seq(Records)
    BY <2>1, <2>2 DEF PickedNext
  <2> QED
    BY <1>2, <2>3
<1>12. \A n \in 0 .. L : n \in T
  <2> HIDE DEF T, L
  <2> QED
    BY <1>2, <1>10, <1>11, CountingUp
<1>13. f \in [0 .. L -> Seq(Records)]
  BY <1>8, <1>12
<1> QED
  BY <1>1, <1>9, <1>13

\* What the places of a record hold, in full.
LogTypes ==
    /\ tap \in [lines : Seq(Levels), dropped : Nat] /\ Len(tap.lines) <= TapMax
    /\ outbound \in Seq(Seq(RecordKinds)) /\ Len(outbound) <= OutMax
    /\ serving \in BOOLEAN
    /\ arriving \in Seq(RecordKinds) /\ posting \in Seq(Levels)
    /\ channel \in Seq(Levels) /\ Len(channel) <= ChannelMax
    /\ ring \in Seq(Records) /\ Len(ring) <= RingCapacity
    /\ nextSeq \in Nat \ {0}
    /\ view \in [next : Nat, rows : Seq(Records), loud : BOOLEAN, floor : Nat]
    /\ Len(view.rows) <= RenderCap
    /\ request = None \/ request \in [after : Nat, loud : BOOLEAN]
    /\ page = None \/ page \in [records : Seq(Records), next : Nat]
    /\ logged \in 0 .. MaxRecords /\ reloads \in 0 .. MaxReloads /\ filters \in 0 .. MaxFilters

Ordered(s) == \A i, j \in 1 .. Len(s) : i < j => s[i].seq < s[j].seq

\* Records of one filter between two numbers.
Within(s, after, loud, top) ==
    Ordered(s) /\ \A i \in 1 .. Len(s) : after < s[i].seq /\ s[i].seq <= top /\ Matches(loud, s[i].kind)

RingIsOrdered == Ordered(ring) /\ \A i \in 1 .. Len(ring) : ring[i].seq < nextSeq

ViewIsOrdered ==
    /\ Ordered(view.rows) /\ view.next < nextSeq
    /\ \A i \in 1 .. Len(view.rows) : view.rows[i].seq <= view.next /\ Matches(view.loud, view.rows[i].kind)

\* A request is about the view as it is, and so is its page.
FetchIsCurrent ==
    /\ request # None => request.after = view.next /\ request.loud = view.loud
    /\ page # None => /\ request # None /\ view.next <= page.next /\ page.next < nextSeq
                      /\ Within(page.records, view.next, view.loud, page.next)

TailInv == LogTypes /\ RingIsOrdered /\ ViewIsOrdered /\ FetchIsCurrent

LEMMA FirstIsPart ==
    ASSUME NEW S, NEW s \in Seq(S), NEW n \in Nat
    PROVE  /\ First(s, n) \in Seq(S) /\ Len(First(s, n)) <= n /\ Len(First(s, n)) <= Len(s)
           /\ \A i \in 1 .. Len(First(s, n)) : First(s, n)[i] = s[i]
<1>1. CASE Len(s) <= n
  BY <1>1 DEF First
<1>2. CASE ~(Len(s) <= n)
  <2>1. First(s, n) = SubSeq(s, 1, n) /\ \A i \in 1 .. n : s[i] \in S
    BY <1>2 DEF First
  <2>2. /\ SubSeq(s, 1, n) \in Seq(S)
        /\ Len(SubSeq(s, 1, n)) = IF 1 <= n THEN n - 1 + 1 ELSE 0
        /\ \A i \in 1 .. n - 1 + 1 : SubSeq(s, 1, n)[i] = s[1 + i - 1]
    BY <2>1, SubSeqProperties
  <2> HIDE DEF First
  <2> QED
    BY <1>2, <2>1, <2>2
<1> QED
  BY <1>1, <1>2

LEMMA NewestIsPart ==
    ASSUME NEW S, NEW s \in Seq(S), NEW n \in Nat
    PROVE  /\ Newest(s, n) \in Seq(S) /\ Len(Newest(s, n)) <= n
           /\ \E k \in Nat : \A i \in 1 .. Len(Newest(s, n)) :
                 k + i \in 1 .. Len(s) /\ Newest(s, n)[i] = s[k + i]
<1>1. CASE Len(s) <= n
  <2>1. Newest(s, n) = s
    BY <1>1 DEF Newest
  <2>2. \A i \in 1 .. Len(s) : 0 + i \in 1 .. Len(s) /\ s[i] = s[0 + i]
    OBVIOUS
  <2> QED
    BY <1>1, <2>1, <2>2
<1>2. CASE ~(Len(s) <= n)
  <2> DEFINE k == Len(s) - n
             t == SubSeq(s, k + 1, Len(s))
  <2>1. Newest(s, n) = t /\ k \in Nat /\ k + 1 \in Int /\ Len(s) \in Int /\ \A i \in k + 1 .. Len(s) : s[i] \in S
    BY <1>2 DEF Newest
  <2>2. /\ t \in Seq(S)
        /\ Len(t) = IF k + 1 <= Len(s) THEN Len(s) - (k + 1) + 1 ELSE 0
        /\ \A i \in 1 .. Len(s) - (k + 1) + 1 : t[i] = s[(k + 1) + i - 1]
    <3> HIDE DEF k
    <3> QED
      BY <2>1, SubSeqProperties
  <2> HIDE DEF t
  <2>3. Len(t) = n /\ \A i \in 1 .. n : k + i \in 1 .. Len(s) /\ t[i] = s[k + i]
    BY <1>2, <2>2
  <2> HIDE DEF k, Newest
  <2>4. \E kk \in Nat : \A i \in 1 .. Len(t) : kk + i \in 1 .. Len(s) /\ t[i] = s[kk + i]
    BY <2>1, <2>3
  <2>5. Len(t) <= n
    BY <2>3
  <2> QED
    BY <2>1, <2>2, <2>3, <2>4, <2>5, Zenon
<1> QED
  BY <1>1, <1>2

LEMMA FirstIsWithin ==
    ASSUME NEW s \in Seq(Records), NEW n \in Nat, NEW after, NEW loud, NEW top, Within(s, after, loud, top)
    PROVE  Within(First(s, n), after, loud, top)
BY FirstIsPart DEF Within, Ordered

LEMMA NewestIsOrdered ==
    ASSUME NEW s \in Seq(Records), NEW n \in Nat, Ordered(s)
    PROVE  Ordered(Newest(s, n))
<1>1. PICK k \in Nat : \A i \in 1 .. Len(Newest(s, n)) :
                 k + i \in 1 .. Len(s) /\ Newest(s, n)[i] = s[k + i]
  BY NewestIsPart
<1> DEFINE t == Newest(s, n)
<1>2. t \in Seq(Records)
  BY NewestIsPart
<1> HIDE DEF t
<1>3. ASSUME NEW i \in 1 .. Len(t), NEW j \in 1 .. Len(t), i < j PROVE t[i].seq < t[j].seq
  <2>1. k + i \in 1 .. Len(s) /\ k + j \in 1 .. Len(s) /\ t[i] = s[k + i] /\ t[j] = s[k + j]
    BY <1>1 DEF t
  <2>2. k + i < k + j
    BY <1>2, <1>3
  <2> QED
    BY <2>1, <2>2 DEF Ordered
<1>4. Ordered(t)
  BY <1>3 DEF Ordered
<1> QED
  BY <1>4 DEF t

LEMMA SelectedIsWithin ==
    ASSUME NEW after \in Nat, NEW loud, ring \in Seq(Records), Ordered(ring),
           NEW top \in Nat, \A i \in 1 .. Len(ring) : ring[i].seq <= top
    PROVE  Selected(after, loud) \in Seq(Records) /\ Within(Selected(after, loud), after, loud, top)
<1> DEFINE L == Len(ring)
<1>1. PICK f \in [0 .. L -> Seq(Records)] :
             /\ Selected(after, loud) = f[L]
             /\ f[0] = <<>>
             /\ \A n \in 1 .. L : f[n] = PickedNext(f[n - 1], ring[n], after, loud)
  BY PickingLoops
<1>2. L \in Nat /\ \A n \in 1 .. L : ring[n] \in Records /\ ring[n].seq \in Nat
  <2>1. L \in Nat /\ \A n \in 1 .. L : ring[n] \in Records
    OBVIOUS
  <2> QED
    BY <2>1 DEF Records
<1> DEFINE Fits(n) == /\ Within(f[n], after, loud, top)
                      /\ \A m \in n + 1 .. L : \A i \in 1 .. Len(f[n]) : f[n][i].seq < ring[m].seq
           G == {n \in 0 .. L : Fits(n)}
<1>3. 0 \in G
  <2>1. Fits(0)
    BY <1>1 DEF Within, Ordered
  <2> QED
    BY <1>2, <2>1
<1>4. ASSUME NEW n \in 1 .. L, n - 1 \in G PROVE n \in G
  <2>1. /\ f[n - 1] \in Seq(Records) /\ ring[n] \in Records /\ f[n] = PickedNext(f[n - 1], ring[n], after, loud)
        /\ n - 1 \in 0 .. L
    BY <1>1, <1>2
  <2>2. Fits(n - 1)
    BY <1>4
  <2>3. CASE ~Pickable(ring[n], after, loud)
    <3>1. f[n] = f[n - 1]
      BY <2>1, <2>3 DEF PickedNext
    <3>2. Fits(n)
      BY <1>2, <2>2, <3>1
    <3> QED
      BY <3>2
  <2>4. CASE Pickable(ring[n], after, loud)
    <3> DEFINE s == f[n - 1]
    <3>1. f[n] = Append(s, ring[n])
      BY <2>1, <2>4 DEF PickedNext
    <3>2. /\ Len(f[n]) = Len(s) + 1 /\ f[n][Len(s) + 1] = ring[n]
          /\ \A i \in 1 .. Len(s) : f[n][i] = s[i]
      BY <2>1, <3>1, AppendProperties
    <3>3. /\ \A i \in 1 .. Len(s) : s[i].seq < ring[n].seq /\ s[i] \in Records
          /\ Len(s) \in Nat
      BY <1>2, <2>1, <2>2
    <3> HIDE DEF s
    <3>4. Within(s, after, loud, top)
      BY <2>2 DEF s
    <3>5. Ordered(f[n])
      <4>1. ASSUME NEW i \in 1 .. Len(f[n]), NEW j \in 1 .. Len(f[n]), i < j
            PROVE  f[n][i].seq < f[n][j].seq
        <5>1. i \in 1 .. Len(s) /\ f[n][i] = s[i]
          BY <3>2, <3>3, <4>1
        <5>2. CASE j = Len(s) + 1
          BY <3>2, <3>3, <5>1, <5>2
        <5>3. CASE j # Len(s) + 1
          <6>1. j \in 1 .. Len(s) /\ f[n][j] = s[j]
            BY <3>2, <3>3, <5>3
          <6> QED
            BY <3>4, <4>1, <5>1, <6>1 DEF Within, Ordered
        <5> QED
          BY <5>2, <5>3
      <4> QED
        BY <4>1 DEF Ordered
    <3>6. \A i \in 1 .. Len(f[n]) : after < f[n][i].seq /\ f[n][i].seq <= top /\ Matches(loud, f[n][i].kind)
      BY <1>2, <2>4, <3>2, <3>3, <3>4 DEF Within, Pickable
    <3>7. ASSUME NEW m \in n + 1 .. L, NEW i \in 1 .. Len(f[n]) PROVE f[n][i].seq < ring[m].seq
      <4>1. ring[n].seq < ring[m].seq
        BY <1>2 DEF Ordered
      <4>2. CASE i = Len(s) + 1
        BY <3>2, <4>1, <4>2
      <4>3. CASE i \in 1 .. Len(s)
        <5>1. f[n][i] = s[i] /\ s[i].seq < ring[n].seq /\ s[i].seq \in Nat
          BY <3>2, <3>3, <4>3 DEF Records
        <5>2. ring[n].seq \in Nat /\ ring[m].seq \in Nat
          BY <1>2
        <5> QED
          BY <4>1, <5>1, <5>2
      <4> QED
        BY <3>2, <3>3, <4>2, <4>3
    <3>8. Fits(n)
      BY <3>5, <3>6, <3>7 DEF Within
    <3> QED
      BY <3>8
  <2> QED
    BY <2>3, <2>4
<1>5. L \in G
  <2> HIDE DEF G, L
  <2>1. \A n \in 0 .. L : n \in G
    BY <1>2, <1>3, <1>4, CountingUp
  <2> QED
    BY <1>2, <2>1
<1> QED
  BY <1>1, <1>2, <1>5

\* A record gets a number above all others.
LEMMA PushedIsOrdered ==
    ASSUME LogTypes, RingIsOrdered, NEW k \in RecordKinds, Push(k)
    PROVE  /\ ring' \in Seq(Records) /\ Len(ring') <= RingCapacity /\ RingIsOrdered'
           /\ nextSeq' \in Nat \ {0} /\ nextSeq < nextSeq'
<1> DEFINE r == [seq |-> nextSeq, kind |-> k]
           s == Append(ring, r)
<1>1. /\ ring \in Seq(Records) /\ nextSeq \in Nat \ {0} /\ RingCapacity \in Nat
      /\ r \in Records /\ r.seq = nextSeq
  BY LogAssumption DEF LogTypes, Records
<1>2. nextSeq' = nextSeq + 1 /\ ring' = Newest(s, RingCapacity)
  BY DEF Push
<1>3. /\ s \in Seq(Records) /\ Len(s) = Len(ring) + 1 /\ s[Len(ring) + 1] = r
      /\ \A i \in 1 .. Len(ring) : s[i] = ring[i]
  BY <1>1, AppendProperties
<1> HIDE DEF s, r
<1>4. \A i \in 1 .. Len(ring) : ring[i].seq < nextSeq /\ ring[i].seq \in Nat
  <2>1. \A i \in 1 .. Len(ring) : ring[i] \in Records
    BY <1>1
  <2>2. \A i \in 1 .. Len(ring) : ring[i].seq \in Nat
    BY <2>1 DEF Records
  <2> QED
    BY <2>2 DEF RingIsOrdered
<1>5. ASSUME NEW i \in 1 .. Len(s), NEW j \in 1 .. Len(s), i < j PROVE s[i].seq < s[j].seq
  <2>1. i \in 1 .. Len(ring) /\ s[i] = ring[i]
    BY <1>1, <1>3, <1>5
  <2>2. CASE j = Len(ring) + 1
    BY <1>1, <1>3, <1>4, <2>1, <2>2
  <2>3. CASE j # Len(ring) + 1
    <3>1. j \in 1 .. Len(ring) /\ s[j] = ring[j]
      BY <1>1, <1>3, <2>3
    <3> QED
      BY <1>5, <2>1, <3>1 DEF RingIsOrdered, Ordered
  <2> QED
    BY <2>2, <2>3
<1>6. \A i \in 1 .. Len(s) : s[i].seq < nextSeq + 1
  BY <1>1, <1>3, <1>4
<1>7. Ordered(s)
  BY <1>5 DEF Ordered
<1>8. /\ ring' \in Seq(Records) /\ Len(ring') <= RingCapacity /\ Ordered(ring')
      /\ \E n \in Nat : \A i \in 1 .. Len(ring') : n + i \in 1 .. Len(s) /\ ring'[i] = s[n + i]
  <2>1. /\ Newest(s, RingCapacity) \in Seq(Records) /\ Len(Newest(s, RingCapacity)) <= RingCapacity
        /\ \E n \in Nat : \A i \in 1 .. Len(Newest(s, RingCapacity)) :
              n + i \in 1 .. Len(s) /\ Newest(s, RingCapacity)[i] = s[n + i]
    <3>1. s \in Seq(Records) /\ RingCapacity \in Nat
      BY <1>1, <1>3
    <3> HIDE DEF Newest
    <3> QED
      BY <3>1, NewestIsPart, Zenon
  <2>2. Ordered(Newest(s, RingCapacity))
    BY <1>1, <1>3, <1>7, NewestIsOrdered
  <2> QED
    BY <1>2, <2>1, <2>2, Zenon
<1>9. \A i \in 1 .. Len(ring') : ring'[i].seq < nextSeq'
  BY <1>2, <1>6, <1>8
<1>10. Ordered(ring)'
  BY <1>8
<1> QED
  BY <1>1, <1>2, <1>8, <1>9, <1>10 DEF RingIsOrdered

\* A step away from the ring and the view.
LEMMA AwayFromTheView ==
    ASSUME TailInv, LogTypes', UNCHANGED <<ring, nextSeq, view, request, page>>
    PROVE  TailInv'
BY DEF TailInv, RingIsOrdered, ViewIsOrdered, FetchIsCurrent, Ordered, Within

LEMMA PushKeepsInv ==
    ASSUME TailInv, NEW k \in RecordKinds, Push(k), UNCHANGED <<view, request, page>>,
           LogTypes'
    PROVE  TailInv'
<1>1. RingIsOrdered' /\ nextSeq < nextSeq' /\ nextSeq' \in Nat /\ nextSeq \in Nat
  BY PushedIsOrdered DEF TailInv, LogTypes
<1>2. view.next \in Nat /\ (page # None => page.next \in Nat)
  BY DEF TailInv, LogTypes
<1>3. ViewIsOrdered'
  BY <1>1, <1>2 DEF TailInv, ViewIsOrdered, Ordered
<1>4. FetchIsCurrent'
  BY <1>1, <1>2 DEF TailInv, FetchIsCurrent, Within, Ordered
<1> QED
  BY <1>1, <1>3, <1>4 DEF TailInv

LEMMA CountsKept ==
    ASSUME LogTypes
    PROVE  /\ Logged => logged' \in 0 .. MaxRecords
           /\ Adjusted => filters' \in 0 .. MaxFilters
           /\ reloads < MaxReloads /\ reloads' = reloads + 1 => reloads' \in 0 .. MaxReloads
<1>1. MaxRecords \in Nat /\ MaxReloads \in Nat /\ MaxFilters \in Nat
  BY LogAssumption
<1>2. logged \in 0 .. MaxRecords /\ reloads \in 0 .. MaxReloads /\ filters \in 0 .. MaxFilters
  BY DEF LogTypes
<1>3. Logged => logged' \in 0 .. MaxRecords
  BY <1>1, <1>2 DEF Logged
<1>4. Adjusted => filters' \in 0 .. MaxFilters
  BY <1>1, <1>2 DEF Adjusted
<1>5. reloads < MaxReloads /\ reloads' = reloads + 1 => reloads' \in 0 .. MaxReloads
  BY <1>1, <1>2
<1> QED
  BY <1>3, <1>4, <1>5

LEMMA SourceSteps ==
    ASSUME TailInv,
           \/ \E k \in Levels : TapLine(k) \/ ProxyLine(k)
           \/ FlushTap \/ DrainOutbound \/ StopServing \/ ServeAgain \/ ProxyPosts
    PROVE  TailInv'
<1>1. LogTypes
  BY DEF TailInv
<1>2. ASSUME NEW k \in Levels, TapLine(k) PROVE TailInv'
  <2> DEFINE s == Append(tap.lines, k)
  <2>1. tap.lines \in Seq(Levels) /\ tap.dropped \in Nat /\ s \in Seq(Levels) /\ TapMax \in Nat
    BY <1>1, LogAssumption DEF LogTypes
  <2>2. tap' = [lines |-> Newest(s, TapMax), dropped |-> tap.dropped + IF Len(tap.lines) = TapMax THEN 1 ELSE 0]
    BY <1>2 DEF TapLine
  <2> HIDE DEF s
  <2>3. Newest(s, TapMax) \in Seq(Levels) /\ Len(Newest(s, TapMax)) <= TapMax
    BY <2>1, NewestIsPart
  <2>4. tap' \in [lines : Seq(Levels), dropped : Nat] /\ Len(tap'.lines) <= TapMax
    BY <2>1, <2>2, <2>3
  <2>5. logged' \in 0 .. MaxRecords
    BY <1>1, <1>2, CountsKept DEF TapLine
  <2>6. LogTypes'
    BY <1>1, <1>2, <2>4, <2>5 DEF LogTypes, TapLine
  <2> QED
    BY <1>2, <2>6, AwayFromTheView DEF TapLine
<1>3. ASSUME NEW k \in Levels, ProxyLine(k) PROVE TailInv'
  <2>1. channel' \in Seq(Levels) /\ Len(channel') <= ChannelMax
    <3>1. channel \in Seq(Levels) /\ ChannelMax \in Nat /\ Len(channel) <= ChannelMax
      BY <1>1, LogAssumption DEF LogTypes
    <3>2. Append(channel, k) \in Seq(Levels) /\ Len(Append(channel, k)) = Len(channel) + 1
      BY <3>1
    <3> QED
      BY <1>3, <3>1, <3>2 DEF ProxyLine
  <2>2. logged' \in 0 .. MaxRecords
    BY <1>1, <1>3, CountsKept DEF ProxyLine
  <2>3. LogTypes'
    BY <1>1, <1>3, <2>1, <2>2 DEF LogTypes, ProxyLine
  <2> QED
    BY <1>3, <2>3, AwayFromTheView DEF ProxyLine
<1>4. CASE FlushTap
  <2> DEFINE batch == tap.lines \o IF tap.dropped > 0 THEN <<"dropped">> ELSE <<>>
  <2>1. batch \in Seq(RecordKinds)
    <3>1. tap.lines \in Seq(RecordKinds)
      BY <1>1 DEF LogTypes, RecordKinds
    <3>2. <<"dropped">> \in Seq(RecordKinds) /\ <<>> \in Seq(RecordKinds)
      BY DEF RecordKinds
    <3> QED
      BY <3>1, <3>2
  <2>2. \/ outbound' = outbound
        \/ outbound' = Append(outbound, batch) /\ Len(outbound) < OutMax
    BY <1>4 DEF FlushTap
  <2> HIDE DEF batch
  <2>3. outbound' \in Seq(Seq(RecordKinds)) /\ Len(outbound') <= OutMax
    <3>1. outbound \in Seq(Seq(RecordKinds)) /\ Len(outbound) <= OutMax /\ OutMax \in Nat
      BY <1>1, LogAssumption DEF LogTypes
    <3>2. Append(outbound, batch) \in Seq(Seq(RecordKinds)) /\ Len(Append(outbound, batch)) = Len(outbound) + 1
      BY <2>1, <3>1, AppendProperties
    <3>3. CASE outbound' = outbound
      BY <3>1, <3>3
    <3>4. CASE outbound' = Append(outbound, batch) /\ Len(outbound) < OutMax
      <4>1. Len(outbound) \in Nat
        BY <3>1
      <4> QED
        BY <3>1, <3>2, <3>4, <4>1
    <3> QED
      BY <2>2, <3>3, <3>4
  <2>4. tap' \in [lines : Seq(Levels), dropped : Nat] /\ Len(tap'.lines) <= TapMax
    <3>1. tap' = [lines |-> <<>>, dropped |-> 0]
      BY <1>4 DEF FlushTap, EmptyTap
    <3> QED
      BY <3>1, LogAssumption
  <2>5. LogTypes'
    BY <1>1, <1>4, <2>3, <2>4 DEF LogTypes, FlushTap
  <2> QED
    BY <1>4, <2>5, AwayFromTheView DEF FlushTap
<1>5. CASE DrainOutbound
  <2>1. /\ outbound \in Seq(Seq(RecordKinds)) /\ outbound # <<>> /\ BatchMax \in Nat
        /\ arriving \in Seq(RecordKinds) /\ Len(outbound) <= OutMax /\ OutMax \in Nat
    BY <1>1, <1>5, LogAssumption DEF LogTypes, DrainOutbound
  <2>2. Head(outbound) \in Seq(RecordKinds) /\ Tail(outbound) \in Seq(Seq(RecordKinds))
        /\ Len(Tail(outbound)) <= OutMax
    BY <2>1, HeadTailProperties
  <2>3. First(Head(outbound), BatchMax) \in Seq(RecordKinds)
    BY <2>1, <2>2, FirstIsPart
  <2>4. arriving' \in Seq(RecordKinds)
    BY <1>5, <2>1, <2>3 DEF DrainOutbound
  <2>5. LogTypes'
    BY <1>1, <1>5, <2>2, <2>4 DEF LogTypes, DrainOutbound
  <2> QED
    BY <1>5, <2>5, AwayFromTheView DEF DrainOutbound
<1>6. CASE StopServing
  <2>1. outbound' = <<>> /\ serving' = FALSE /\ 0 <= OutMax
    BY <1>6, LogAssumption DEF StopServing
  <2>2. outbound' \in Seq(Seq(RecordKinds)) /\ Len(outbound') <= OutMax
    BY <2>1
  <2>3. LogTypes'
    BY <1>1, <1>6, <2>1, <2>2 DEF LogTypes, StopServing
  <2> QED
    BY <1>6, <2>3, AwayFromTheView DEF StopServing
<1>7. CASE ServeAgain
  <2>1. tap' \in [lines : Seq(Levels), dropped : Nat] /\ Len(tap'.lines) <= TapMax
    <3>1. tap' = [lines |-> <<>>, dropped |-> 0]
      BY <1>7 DEF ServeAgain, EmptyTap
    <3> QED
      BY <3>1, LogAssumption
  <2>2. reloads' \in 0 .. MaxReloads /\ serving' = TRUE
    BY <1>1, <1>7, CountsKept DEF ServeAgain
  <2>3. LogTypes'
    BY <1>1, <1>7, <2>1, <2>2 DEF LogTypes, ServeAgain
  <2> QED
    BY <1>7, <2>3, AwayFromTheView DEF ServeAgain
<1>8. CASE ProxyPosts
  <2>1. channel \in Seq(Levels) /\ Len(channel) <= ChannelMax /\ BatchMax \in Nat /\ PostMax \in Nat
    BY <1>1, LogAssumption DEF LogTypes
  <2>2. PICK n \in 1 .. PostMax : /\ n <= Len(channel)
                                  /\ channel' = SubSeq(channel, n + 1, Len(channel))
                                  /\ posting' \in {<<>>, First(First(channel, n), BatchMax)}
    BY <1>8 DEF ProxyPosts
  <2>3. posting' \in Seq(Levels)
    <3>1. First(channel, n) \in Seq(Levels)
      BY <2>1, FirstIsPart
    <3>2. First(First(channel, n), BatchMax) \in Seq(Levels)
      BY <2>1, <3>1, FirstIsPart
    <3>3. <<>> \in Seq(Levels)
      OBVIOUS
    <3> QED
      BY <2>2, <3>2, <3>3
  <2>4. channel' \in Seq(Levels) /\ Len(channel') <= ChannelMax
    <3> DEFINE m == n + 1
               t == SubSeq(channel, m, Len(channel))
    <3>1. m \in Int /\ m >= 1 /\ Len(channel) \in Int /\ Len(channel) \in Nat
          /\ \A i \in m .. Len(channel) : channel[i] \in Levels
      BY <2>1, <2>2
    <3>2. /\ t \in Seq(Levels)
          /\ Len(t) = IF m <= Len(channel) THEN Len(channel) - m + 1 ELSE 0
      <4> HIDE DEF m
      <4> QED
        BY <3>1, SubSeqProperties
    <3>3. channel' = t
      BY <2>2
    <3> HIDE DEF t, m
    <3>4. ChannelMax \in Nat
      BY LogAssumption
    <3> QED
      BY <2>1, <3>1, <3>2, <3>3, <3>4
  <2>5. LogTypes'
    BY <1>1, <1>8, <2>3, <2>4 DEF LogTypes, ProxyPosts
  <2> QED
    BY <1>8, <2>5, AwayFromTheView DEF ProxyPosts
<1> QED
  BY <1>2, <1>3, <1>4, <1>5, <1>6, <1>7, <1>8

LEMMA IngestSteps ==
    ASSUME TailInv, \/ IngestBridge
                    \/ IngestProxy
                    \/ \E k \in Levels : DaemonLine(k)
    PROVE  TailInv'
<1>1. LogTypes /\ RingIsOrdered
  BY DEF TailInv
<1>2. CASE IngestBridge
  <2>1. arriving \in Seq(RecordKinds) /\ arriving # <<>>
    BY <1>1, <1>2 DEF LogTypes, IngestBridge
  <2>2. Head(arriving) \in RecordKinds /\ Tail(arriving) \in Seq(RecordKinds)
    BY <2>1, HeadTailProperties
  <2>3. Push(Head(arriving)) /\ arriving' = Tail(arriving)
    BY <1>2 DEF IngestBridge
  <2>4. ring' \in Seq(Records) /\ Len(ring') <= RingCapacity /\ nextSeq' \in Nat \ {0}
    BY <1>1, <2>2, <2>3, PushedIsOrdered
  <2>5. LogTypes'
    BY <1>1, <1>2, <2>2, <2>3, <2>4 DEF LogTypes, IngestBridge
  <2>6. UNCHANGED <<view, request, page>>
    BY <1>2 DEF IngestBridge
  <2> QED
    BY <2>2, <2>3, <2>5, <2>6, PushKeepsInv
<1>3. CASE IngestProxy
  <2>1. posting \in Seq(Levels) /\ posting # <<>>
    BY <1>1, <1>3 DEF LogTypes, IngestProxy
  <2>2. Head(posting) \in Levels /\ Tail(posting) \in Seq(Levels)
    BY <2>1, HeadTailProperties
  <2>3. Push(Head(posting)) /\ posting' = Tail(posting) /\ Head(posting) \in RecordKinds
    BY <1>3, <2>2 DEF IngestProxy, RecordKinds
  <2>4. ring' \in Seq(Records) /\ Len(ring') <= RingCapacity /\ nextSeq' \in Nat \ {0}
    BY <1>1, <2>3, PushedIsOrdered
  <2>5. LogTypes'
    BY <1>1, <1>3, <2>2, <2>3, <2>4 DEF LogTypes, IngestProxy
  <2>6. UNCHANGED <<view, request, page>>
    BY <1>3 DEF IngestProxy
  <2> QED
    BY <2>3, <2>5, <2>6, PushKeepsInv
<1>4. ASSUME NEW k \in Levels, DaemonLine(k) PROVE TailInv'
  <2>1. Push(k) /\ k \in RecordKinds
    BY <1>4 DEF DaemonLine, RecordKinds
  <2>2. ring' \in Seq(Records) /\ Len(ring') <= RingCapacity /\ nextSeq' \in Nat \ {0}
    BY <1>1, <2>1, PushedIsOrdered
  <2>3. logged' \in 0 .. MaxRecords
    BY <1>1, <1>4, CountsKept DEF DaemonLine
  <2>4. LogTypes'
    BY <1>1, <1>4, <2>2, <2>3 DEF LogTypes, DaemonLine
  <2>5. UNCHANGED <<view, request, page>>
    BY <1>4 DEF DaemonLine
  <2> QED
    BY <2>1, <2>4, <2>5, PushKeepsInv
<1> QED
  BY <1>2, <1>3, <1>4

\* The answer to a request goes on where the view ends.
LEMMA AnswerGoesOn ==
    ASSUME TailInv, AdminLogs
    PROVE  TailInv'
<1> DEFINE all == Selected(request.after, request.loud)
           top == nextSeq - 1
<1>1. LogTypes /\ RingIsOrdered /\ ViewIsOrdered /\ FetchIsCurrent
  BY DEF TailInv
<1>2. /\ request # None /\ page = None /\ page' = [records |-> First(all, FetchLimit), next |-> top]
      /\ UNCHANGED <<ring, nextSeq, view, request>>
  BY DEF AdminLogs, SnapshotAfter
<1>3. /\ ring \in Seq(Records) /\ nextSeq \in Nat \ {0} /\ top \in Nat /\ FetchLimit \in Nat
      /\ request.after = view.next /\ request.loud = view.loud /\ view.next \in Nat
  BY <1>1, <1>2, LogAssumption DEF LogTypes, FetchIsCurrent
<1>4. \A i \in 1 .. Len(ring) : ring[i].seq <= top
  <2>1. \A i \in 1 .. Len(ring) : ring[i] \in Records
    BY <1>3
  <2>2. \A i \in 1 .. Len(ring) : ring[i].seq \in Nat
    BY <2>1 DEF Records
  <2> QED
    BY <1>1, <1>3, <2>2 DEF RingIsOrdered
<1>5. all \in Seq(Records) /\ Within(all, view.next, view.loud, top)
  <2>1. Ordered(ring)
    BY <1>1 DEF RingIsOrdered
  <2> HIDE DEF top
  <2>2. /\ Selected(view.next, view.loud) \in Seq(Records)
        /\ Within(Selected(view.next, view.loud), view.next, view.loud, top)
    BY <1>3, <1>4, <2>1, SelectedIsWithin
  <2> QED
    BY <1>3, <2>2
<1> HIDE DEF all
<1>6. First(all, FetchLimit) \in Seq(Records)
  BY <1>3, <1>5, FirstIsPart
<1>7. Within(First(all, FetchLimit), view.next, view.loud, top)
  BY <1>3, <1>5, FirstIsWithin
<1>8. page' \in [records : Seq(Records), next : Nat]
  BY <1>2, <1>3, <1>6
<1>9. LogTypes'
  BY <1>1, <1>8 DEF LogTypes, AdminLogs
<1>10. RingIsOrdered' /\ ViewIsOrdered'
  BY <1>1, <1>2 DEF RingIsOrdered, ViewIsOrdered, Ordered
<1>11. view.next <= top /\ top < nextSeq
  BY <1>1, <1>3 DEF ViewIsOrdered
<1>12. page'.records = First(all, FetchLimit) /\ page'.next = top
  BY <1>2
<1> HIDE DEF top
<1>13. Within(page'.records, view'.next, view'.loud, page'.next)
  BY <1>2, <1>7, <1>12
<1>14. FetchIsCurrent'
  BY <1>1, <1>2, <1>11, <1>12, <1>13 DEF FetchIsCurrent, Within, Ordered
<1> QED
  BY <1>9, <1>10, <1>14 DEF TailInv

\* What comes after the rows of the view is shown below them.
LEMMA PageIsShown ==
    ASSUME TailInv, FinishFetch
    PROVE  TailInv'
<1> DEFINE s == view.rows \o page.records
           t == Newest(s, RenderCap)
<1>1. LogTypes /\ RingIsOrdered /\ ViewIsOrdered /\ FetchIsCurrent
  BY DEF TailInv
<1>2. /\ page # None /\ view' = [view EXCEPT !.next = page.next, !.rows = t]
      /\ request' = None /\ page' = None /\ UNCHANGED <<ring, nextSeq>>
  BY DEF FinishFetch
<1>3. /\ view \in [next : Nat, rows : Seq(Records), loud : BOOLEAN, floor : Nat]
      /\ page \in [records : Seq(Records), next : Nat] /\ RenderCap \in Nat /\ nextSeq \in Nat
  BY <1>1, <1>2, LogAssumption DEF LogTypes
<1> DEFINE a == view.rows
           b == page.records
<1>4. a \in Seq(Records) /\ b \in Seq(Records) /\ view.next \in Nat /\ page.next \in Nat
  BY <1>3
<1>5. /\ s \in Seq(Records) /\ Len(s) = Len(a) + Len(b)
      /\ \A i \in 1 .. Len(s) : s[i] = IF i <= Len(a) THEN a[i] ELSE b[i - Len(a)]
  <2> HIDE DEF a, b
  <2>1. /\ a \o b \in Seq(Records) /\ Len(a \o b) = Len(a) + Len(b)
        /\ \A i \in 1 .. Len(a) + Len(b) : (a \o b)[i] = IF i <= Len(a) THEN a[i] ELSE b[i - Len(a)]
    BY <1>4, ConcatProperties
  <2>2. s = a \o b
    BY DEF a, b
  <2> QED
    BY <2>1, <2>2
<1>6. /\ view.next <= page.next /\ page.next < nextSeq
      /\ Ordered(b) /\ \A i \in 1 .. Len(b) : view.next < b[i].seq /\ b[i].seq <= page.next
                                               /\ Matches(view.loud, b[i].kind)
  BY <1>1, <1>2 DEF FetchIsCurrent, Within
<1>7. Ordered(a) /\ \A i \in 1 .. Len(a) : a[i].seq <= view.next /\ Matches(view.loud, a[i].kind)
  BY <1>1 DEF ViewIsOrdered
<1>8. /\ \A i \in 1 .. Len(a) : a[i].seq \in Nat
      /\ \A i \in 1 .. Len(b) : b[i].seq \in Nat
  <2>1. /\ \A i \in 1 .. Len(a) : a[i] \in Records
        /\ \A i \in 1 .. Len(b) : b[i] \in Records
    BY <1>4
  <2> QED
    BY <2>1 DEF Records
<1>9. Len(a) \in Nat /\ Len(b) \in Nat
  BY <1>4
<1> HIDE DEF s, a, b
<1>10. \A i \in 1 .. Len(s) : i \in 1 .. Len(a) \/ i - Len(a) \in 1 .. Len(b)
  BY <1>5, <1>9
<1>11. ASSUME NEW i \in 1 .. Len(s) PROVE s[i].seq <= page.next /\ Matches(view.loud, s[i].kind)
  <2>1. CASE i \in 1 .. Len(a)
    <3>1. s[i] = a[i]
      BY <1>5, <1>9, <2>1
    <3> QED
      BY <1>4, <1>6, <1>7, <1>8, <2>1, <3>1
  <2>2. CASE i - Len(a) \in 1 .. Len(b)
    <3>1. s[i] = b[i - Len(a)]
      BY <1>5, <1>9, <2>2
    <3> QED
      BY <1>6, <2>2, <3>1
  <2> QED
    BY <1>10, <2>1, <2>2
<1>12. ASSUME NEW i \in 1 .. Len(s), NEW j \in 1 .. Len(s), i < j PROVE s[i].seq < s[j].seq
  <2>1. CASE j \in 1 .. Len(a)
    <3>1. i \in 1 .. Len(a) /\ s[i] = a[i] /\ s[j] = a[j]
      BY <1>5, <1>9, <1>12, <2>1
    <3> QED
      BY <1>7, <1>12, <2>1, <3>1 DEF Ordered
  <2>2. CASE i \in 1 .. Len(a) /\ j - Len(a) \in 1 .. Len(b)
    <3>1. s[i] = a[i] /\ s[j] = b[j - Len(a)]
      BY <1>5, <1>9, <2>2
    <3>2. a[i].seq \in Nat /\ a[i].seq <= view.next /\ view.next \in Nat
      BY <1>4, <1>7, <1>8, <2>2
    <3>3. b[j - Len(a)].seq \in Nat /\ view.next < b[j - Len(a)].seq
      BY <1>6, <1>8, <2>2
    <3>4. a[i].seq < b[j - Len(a)].seq
      BY <3>2, <3>3
    <3> QED
      BY <3>1, <3>4
  <2>3. CASE i - Len(a) \in 1 .. Len(b) /\ j - Len(a) \in 1 .. Len(b)
    <3>1. s[i] = b[i - Len(a)] /\ s[j] = b[j - Len(a)] /\ i - Len(a) < j - Len(a)
      BY <1>5, <1>9, <1>12, <2>3
    <3> QED
      BY <1>6, <2>3, <3>1 DEF Ordered
  <2> QED
    BY <1>10, <2>1, <2>2, <2>3
<1>13. Ordered(s)
  BY <1>12 DEF Ordered
<1>14. Ordered(t)
  BY <1>3, <1>5, <1>13, NewestIsOrdered
<1>15. t \in Seq(Records) /\ Len(t) <= RenderCap
  BY <1>3, <1>5, NewestIsPart
<1>16. PICK k \in Nat : \A i \in 1 .. Len(t) : k + i \in 1 .. Len(s) /\ t[i] = s[k + i]
  <2>1. s \in Seq(Records) /\ RenderCap \in Nat
    BY <1>3, <1>5
  <2>2. \E k \in Nat : \A i \in 1 .. Len(Newest(s, RenderCap)) :
           k + i \in 1 .. Len(s) /\ Newest(s, RenderCap)[i] = s[k + i]
    BY <2>1, NewestIsPart, Zenon
  <2> QED
    BY <2>2
<1> HIDE DEF t
<1>17. \A i \in 1 .. Len(t) : t[i].seq <= page.next /\ Matches(view.loud, t[i].kind)
  BY <1>11, <1>16
<1>18. /\ view'.next = page.next /\ view'.rows = t /\ view'.loud = view.loud
       /\ view' \in [next : Nat, rows : Seq(Records), loud : BOOLEAN, floor : Nat]
  BY <1>2, <1>3, <1>4, <1>15
<1>19. LogTypes'
  BY <1>1, <1>2, <1>15, <1>18 DEF LogTypes, FinishFetch
<1>20. Ordered(view.rows)'
  BY <1>14, <1>18 DEF Ordered
<1>21. ViewIsOrdered'
  BY <1>2, <1>6, <1>17, <1>18, <1>20 DEF ViewIsOrdered
<1>22. RingIsOrdered' /\ FetchIsCurrent'
  BY <1>1, <1>2 DEF RingIsOrdered, Ordered, FetchIsCurrent
<1> QED
  BY <1>19, <1>21, <1>22 DEF TailInv

LEMMA ViewSteps ==
    ASSUME TailInv, \/ FetchLogs
                    \/ FetchFails
                    \/ SetFilter
                    \/ ClearRows
    PROVE  TailInv'
<1>1. LogTypes /\ RingIsOrdered /\ ViewIsOrdered /\ FetchIsCurrent
  BY DEF TailInv
<1>2. /\ view \in [next : Nat, rows : Seq(Records), loud : BOOLEAN, floor : Nat]
      /\ view.next \in Nat /\ view.loud \in BOOLEAN /\ Len(view.rows) <= RenderCap
      /\ nextSeq \in Nat \ {0} /\ RenderCap \in Nat
  BY <1>1, LogAssumption DEF LogTypes
<1>3. UNCHANGED <<ring, nextSeq>> => RingIsOrdered'
  BY <1>1 DEF RingIsOrdered, Ordered
<1>4. CASE FetchLogs
  <2>1. request' = [after |-> view.next, loud |-> view.loud] /\ page = None /\ page' = page
    BY <1>1, <1>4 DEF FetchLogs, FetchIsCurrent
  <2>2. request' \in [after : Nat, loud : BOOLEAN]
    BY <1>2, <2>1
  <2>3. LogTypes'
    BY <1>1, <1>4, <2>2 DEF LogTypes, FetchLogs
  <2>4. view' = view /\ ring' = ring /\ nextSeq' = nextSeq
    BY <1>4 DEF FetchLogs
  <2>5. ViewIsOrdered' /\ FetchIsCurrent'
    BY <1>1, <2>1, <2>4 DEF ViewIsOrdered, Ordered, FetchIsCurrent
  <2> QED
    BY <1>3, <2>3, <2>4, <2>5 DEF TailInv
<1>5. CASE FetchFails
  <2>1. LogTypes'
    BY <1>1, <1>5 DEF LogTypes, FetchFails
  <2>2. view' = view /\ ring' = ring /\ nextSeq' = nextSeq /\ request' = None /\ page' = None
    BY <1>5 DEF FetchFails
  <2>3. ViewIsOrdered' /\ FetchIsCurrent'
    BY <1>1, <2>2 DEF ViewIsOrdered, Ordered, FetchIsCurrent
  <2> QED
    BY <1>3, <2>1, <2>2, <2>3 DEF TailInv
<1>6. CASE SetFilter
  <2>1. /\ view' = [next |-> 0, rows |-> <<>>, loud |-> ~view.loud, floor |-> 0]
        /\ ring' = ring /\ nextSeq' = nextSeq /\ request' = None /\ page' = None
    BY <1>6 DEF SetFilter
  <2>2. filters' \in 0 .. MaxFilters
    BY <1>1, <1>6, CountsKept DEF SetFilter
  <2>3. /\ view'.next = 0 /\ view'.rows = <<>> /\ Len(view'.rows) = 0 /\ Len(view'.rows) <= RenderCap
    BY <1>2, <2>1
  <2>4. view' \in [next : Nat, rows : Seq(Records), loud : BOOLEAN, floor : Nat]
    <3>1. <<>> \in Seq(Records) /\ (~view.loud) \in BOOLEAN
      OBVIOUS
    <3> QED
      BY <2>1, <3>1
  <2>5. LogTypes'
    BY <1>1, <1>6, <2>1, <2>2, <2>3, <2>4 DEF LogTypes, SetFilter
  <2>6. ViewIsOrdered'
    BY <1>2, <2>1, <2>3 DEF ViewIsOrdered, Ordered
  <2>7. FetchIsCurrent'
    BY <2>1 DEF FetchIsCurrent
  <2> QED
    BY <1>3, <2>1, <2>5, <2>6, <2>7 DEF TailInv
<1>7. CASE ClearRows
  <2>1. /\ view' = [view EXCEPT !.rows = <<>>, !.floor = view.next]
        /\ ring' = ring /\ nextSeq' = nextSeq /\ request' = request /\ page' = page
    BY <1>7 DEF ClearRows
  <2>2. filters' \in 0 .. MaxFilters
    BY <1>1, <1>7, CountsKept DEF ClearRows
  <2>3. /\ view'.next = view.next /\ view'.loud = view.loud /\ view'.rows = <<>>
        /\ Len(view'.rows) = 0 /\ Len(view'.rows) <= RenderCap
        /\ view' \in [next : Nat, rows : Seq(Records), loud : BOOLEAN, floor : Nat]
    <3>1. <<>> \in Seq(Records) /\ Len(<<>>) = 0
      OBVIOUS
    <3>2. view'.next = view.next /\ view'.loud = view.loud /\ view'.rows = <<>>
      BY <1>2, <2>1
    <3>3. view' \in [next : Nat, rows : Seq(Records), loud : BOOLEAN, floor : Nat]
      BY <1>2, <2>1, <3>1
    <3> QED
      BY <1>2, <3>1, <3>2, <3>3
  <2>4. LogTypes'
    BY <1>1, <1>7, <2>2, <2>3 DEF LogTypes, ClearRows
  <2>5. ViewIsOrdered'
    BY <1>1, <1>2, <2>1, <2>3 DEF ViewIsOrdered, Ordered
  <2>6. FetchIsCurrent'
    BY <1>1, <2>1, <2>3 DEF FetchIsCurrent, Within, Ordered
  <2> QED
    BY <1>3, <2>1, <2>4, <2>5, <2>6 DEF TailInv
<1> QED
  BY <1>4, <1>5, <1>6, <1>7

LEMMA TailStarts == ASSUME LogInit PROVE TailInv
<1>1. /\ {TapMax, OutMax, ChannelMax, RingCapacity, RenderCap} \subseteq Nat
      /\ {MaxRecords, MaxReloads, MaxFilters} \subseteq Nat
  BY LogAssumption
<1>2. tap \in [lines : Seq(Levels), dropped : Nat] /\ Len(tap.lines) <= TapMax
  BY <1>1 DEF LogInit, EmptyTap
<1>3. view \in [next : Nat, rows : Seq(Records), loud : BOOLEAN, floor : Nat] /\ Len(view.rows) <= RenderCap
  BY <1>1 DEF LogInit
<1>4. /\ outbound \in Seq(Seq(RecordKinds)) /\ Len(outbound) <= OutMax
      /\ arriving \in Seq(RecordKinds) /\ posting \in Seq(Levels)
      /\ channel \in Seq(Levels) /\ Len(channel) <= ChannelMax
      /\ ring \in Seq(Records) /\ Len(ring) <= RingCapacity
  BY <1>1 DEF LogInit
<1>5. LogTypes
  BY <1>1, <1>2, <1>3, <1>4 DEF LogTypes, LogInit
<1>6. RingIsOrdered /\ ViewIsOrdered /\ FetchIsCurrent
  BY DEF LogInit, RingIsOrdered, ViewIsOrdered, FetchIsCurrent, Ordered
<1> QED
  BY <1>5, <1>6 DEF TailInv

LEMMA TailStays == ASSUME TailInv, [LogNext]_logVars PROVE TailInv'
<1>1. CASE UNCHANGED logVars
  <2>1. LogTypes'
    BY <1>1 DEF TailInv, LogTypes, logVars
  <2> QED
    BY <1>1, <2>1, AwayFromTheView DEF logVars
<1>2. CASE LogNext
  BY <1>2, SourceSteps, IngestSteps, AnswerGoesOn, PageIsShown, ViewSteps DEF LogNext
<1> QED
  BY <1>1, <1>2

LEMMA OrderedTail == ASSUME TailInv PROVE TailIsInOrder
<1>1. LogTypes /\ ViewIsOrdered /\ FetchIsCurrent
  BY DEF TailInv
<1>2. view.rows \in Seq(Records) /\ view.next \in Nat
  BY <1>1 DEF LogTypes
<1>3. LogTypeOK
  BY <1>1 DEF LogTypes, LogTypeOK, FetchIsCurrent
<1>4. \A i \in 1 .. Len(view.rows) - 1 : view.rows[i].seq < view.rows[i + 1].seq
  <2>1. \A i \in 1 .. Len(view.rows) - 1 : i \in 1 .. Len(view.rows) /\ i + 1 \in 1 .. Len(view.rows) /\ i < i + 1
    BY <1>2
  <2> QED
    BY <1>1, <2>1 DEF ViewIsOrdered, Ordered
<1>5. \A r \in ToSet(view.rows) : r.seq <= view.next /\ Matches(view.loud, r.kind)
  <2>1. \A r \in ToSet(view.rows) : \E i \in 1 .. Len(view.rows) : r = view.rows[i]
    BY <1>2 DEF ToSet
  <2> QED
    BY <1>1, <2>1 DEF ViewIsOrdered
<1> QED
  BY <1>1, <1>3, <1>4, <1>5 DEF TailIsInOrder, ViewIsOrdered

\* The Logs view shows no record twice, and all in order and under the filter of its chips,
\* however late the answer to an earlier page comes (finish_logs_fetch, LogRing).
THEOREM TailIsAlwaysInOrder == LogSpec => []TailIsInOrder
<1>1. LogInit => TailInv
  BY TailStarts
<1>2. TailInv /\ [LogNext]_logVars => TailInv'
  BY TailStays
<1>3. TailInv => TailIsInOrder
  BY OrderedTail
<1> QED
  BY <1>1, <1>2, <1>3, PTL DEF LogSpec
=============================================================================
