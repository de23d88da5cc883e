------------------------- MODULE BridgeSessionProofs -------------------------
(* Proofs about BridgeSession, for any number of pids, connections, calls    *)
(* and spawned children: of the actors of one pid only the one in the map    *)
(* runs on, a Connected row is backed, identity metadata is current, every   *)
(* state is well typed, a caller is told the response to its own request, no *)
(* finished call leaves a slot, the trace of cancelled tasks goes only with  *)
(* a success, and a Starting row only with its own child.                    *)
EXTENDS BridgeSession, PidRegistryProofs

\* The part of the state the proofs are about, and its type.
coreVars == <<nextGen, sessions, connPid, gen, prev, cancelled, pc>>

CoreTypeOK ==
    /\ registry \in Registry
    /\ nextGen \in Nat
    /\ sessions \in [Pids -> Conns \cup {None}]
    /\ pc \in [Conns -> ConnPcs]
    /\ connPid \in [Conns -> Pids \cup {None}]
    /\ gen \in [Conns -> Nat]
    /\ prev \in [Conns -> Conns \cup {None}]
    /\ cancelled \in SUBSET Conns

\* A connection names its pid with its handshake; a timer belongs to a
\* connection that did; so do a call and a child once they started.
Located ==
    /\ \A c \in Conns : pc[c] = "new" <=> connPid[c] = None
    /\ \A c \in timers : c \in Conns /\ pc[c] # "new"
    /\ cpc \in [Calls -> CallPcs]
    /\ cpid \in [Calls -> Pids \cup {None}]
    /\ \A k \in Calls : cpc[k] # "idle" => cpid[k] \in Pids
    /\ spawned \in [Spawns -> Pids \cup {None}]
    /\ spc \in [Spawns -> {"unused", "running", "exited", "reaped"}]
    /\ \A s \in Spawns : spc[s] # "unused" => spawned[s] \in Pids

\* A handle in the session map is that of a connection of the same pid which
\* was inserted and did not look at the map again.
MapInv ==
    \A p \in Pids : sessions[p] # None =>
        /\ connPid[sessions[p]] = p
        /\ pc[sessions[p]] \in ActorPcs \cup {"inserted", "teardown"}

\* OneActorDrivesPid from the insert on.
ActorInv ==
    \A c \in Conns : pc[c] \in ActorPcs \cup {"inserted"} =>
        \/ sessions[connPid[c]] = c
        \/ c \in cancelled
        \/ \E d \in Conns : pc[d] = "inserted" /\ prev[d] = c

SessionInv ==
    /\ CoreTypeOK
    /\ Located
    /\ MapInv
    /\ ActorInv
    /\ ConnectedIsBacked
    /\ IdentityIsCurrent

-----------------------------------------------------------------------------
(* Three shapes of steps                                                     *)

\* Everybody but accept, actor and teardown tasks: the registry keeps, the
\* sessions stay.
Quiet ==
    /\ registry' \in Registry
    /\ Keeps(registry, registry')
    /\ UNCHANGED coreVars

\* An actor moves on, and may have observed its own connection.
ActorMoves(c) ==
    /\ registry' \in Registry
    /\ Observes(registry, registry', connPid[c], gen[c], c)
    /\ pc[c] \in ActorPcs
    /\ \E l \in ActorPcs \cup {"teardown"} : pc' = [pc EXCEPT ![c] = l]
    /\ UNCHANGED <<nextGen, sessions, connPid, gen, prev, cancelled>>

\* What keeps also observes.
LEMMA KeepsObserves ==
    ASSUME NEW reg, NEW new, NEW p, NEW g, NEW c, Keeps(reg, new)
    PROVE  Observes(reg, new, p, g, c)
BY DEF Keeps, RowKeeps, Observes

\* Quiet steps preserve what is said of sessions and registry.
LEMMA QuietKeeps ==
    ASSUME SessionInv, Quiet
    PROVE  CoreTypeOK' /\ MapInv' /\ ActorInv' /\ ConnectedIsBacked' /\ IdentityIsCurrent'
<1> USE DEF SessionInv, Quiet, coreVars
<1>1. CoreTypeOK'
  BY DEF CoreTypeOK
<1>2. MapInv' /\ ActorInv'
  BY DEF MapInv, ActorInv
<1>3. ConnectedIsBacked'
  BY DEF ConnectedIsBacked, Keeps, RowKeeps
<1>4. IdentityIsCurrent'
  BY DEF IdentityIsCurrent, Keeps, RowKeeps
<1> QED
  BY <1>1, <1>2, <1>3, <1>4

\* So do steps of an actor.
LEMMA ActorMovesKeeps ==
    ASSUME SessionInv, NEW c \in Conns, ActorMoves(c)
    PROVE  CoreTypeOK' /\ MapInv' /\ ActorInv' /\ ConnectedIsBacked' /\ IdentityIsCurrent'
<1> USE DEF SessionInv, ActorMoves
<1>1. PICK l \in ActorPcs \cup {"teardown"} : pc' = [pc EXCEPT ![c] = l]
  OBVIOUS
<1>2. pc[c] \in ActorPcs /\ pc \in [Conns -> ConnPcs]
  BY DEF CoreTypeOK
<1>3. \A d \in Conns : d # c => pc'[d] = pc[d]
  BY <1>1, <1>2
<1>4. pc'[c] = l
  BY <1>1, <1>2
<1>5. CoreTypeOK'
  BY <1>1 DEF CoreTypeOK, ConnPcs
<1>6. MapInv'
  BY <1>2, <1>3, <1>4 DEF MapInv, CoreTypeOK
<1>7. ActorInv'
  BY <1>2, <1>3, <1>4 DEF ActorInv, ActorPcs
<1>8. ConnectedIsBacked'
  BY <1>2, <1>3, <1>4 DEF ConnectedIsBacked, Observes, ActorPcs
<1>9. IdentityIsCurrent'
  <2> SUFFICES ASSUME NEW p \in Pids, NEW d \in Conns,
                      d \in {registry'[p].ready, registry'[p].pump}
               PROVE  connPid[d] = p /\ gen[d] = registry'[p].generation
    BY DEF IdentityIsCurrent
  <2>1. /\ registry'[p].generation = registry[p].generation
        /\ \/ d \in {registry[p].ready, registry[p].pump}
           \/ d = c /\ p = connPid[c] /\ registry[p].generation = gen[c]
    BY DEF Observes
  <2> QED
    BY <2>1 DEF IdentityIsCurrent
<1> QED
  BY <1>5, <1>6, <1>7, <1>8, <1>9

-----------------------------------------------------------------------------
(* Which step has which shape                                                *)

otherVars == <<timers, cpc, cpid, spawned, spc>>

\* A connection past its handshake has a pid and a generation.
LEMMA HasPid ==
    ASSUME SessionInv, NEW c \in Conns, pc[c] # "new"
    PROVE  connPid[c] \in Pids /\ gen[c] \in Nat /\ registry \in Registry
BY DEF SessionInv, Located, CoreTypeOK

\* Actors move, whatever their select chose.
LEMMA ActorShape ==
    ASSUME SessionInv, NEW c \in Conns, ActorStep(c) \/ ActorIdle(c)
    PROVE  ActorMoves(c) /\ UNCHANGED otherVars
<1> USE DEF otherVars, ActorPcs
<1>1. Observes(registry, registry, connPid[c], gen[c], c)
  BY SameKeeps, KeepsObserves
<1>2. registry \in Registry
  BY DEF SessionInv, CoreTypeOK
<1>3. CASE ActorCancelled(c)
  BY <1>1, <1>2, <1>3 DEF ActorCancelled, ActorMoves, Goto, jobVars, wireVars, callVars, spawnVars
<1>4. CASE ActorTakeJob(c)
  <2>1. StartNext(registry, connPid[c]) \in Registry
          /\ Keeps(registry, StartNext(registry, connPid[c]))
    BY <1>4, HasPid, QueueStepsKeep DEF ActorTakeJob
  <2>2. Observes(registry, StartNext(registry, connPid[c]), connPid[c], gen[c], c)
    BY <2>1, KeepsObserves
  <2> QED
    BY <1>4, <2>1, <2>2 DEF ActorTakeJob, ActorMoves, Goto, wireVars, callVars, spawnVars
<1>5. CASE ActorSend(c)
  BY <1>1, <1>2, <1>5 DEF ActorSend, ActorMoves, KeepWaiting, Disconnect, Goto, spawnVars, callVars
<1>6. CASE ActorSendFail(c)
  BY <1>1, <1>2, <1>6 DEF ActorSendFail, ActorMoves, Disconnect, Goto, spawnVars, wireVars
<1>7. CASE ActorMatched(c)
  <2> DEFINE r == CompleteTask(registry, connPid[c], Head(inbox[c]).answer = "ok")
  <2>1. r \in Registry /\ Keeps(registry, r)
    <3>1. (Head(inbox[c]).answer = "ok") \in BOOLEAN
      OBVIOUS
    <3> QED
      BY <1>7, <3>1, HasPid, CompleteTaskKeeps DEF ActorMatched
  <2>2. Observes(registry, r, connPid[c], gen[c], c)
    BY <2>1, KeepsObserves
  <2>3. registry' = r
    BY <1>7 DEF ActorMatched
  <2> HIDE DEF r
  <2> QED
    BY <1>7, <2>1, <2>2, <2>3 DEF ActorMatched, ActorMoves, Receive, Goto, spawnVars, callVars
<1>8. CASE ActorPong(c)
  <2>1. registry' \in Registry /\ Observes(registry, registry', connPid[c], gen[c], c)
    BY <1>1, <1>2, <1>8, HasPid, ObservationsObserve DEF ActorPong
  <2> QED
    BY <1>8, <2>1 DEF ActorPong, ActorMoves, Receive, Goto, spawnVars, callVars
<1>9. CASE ActorDiscard(c)
  <2>1. pc[c] \in {"wire", "ping"}
    BY <1>9 DEF ActorDiscard, Receive, Awaiting
  <2> QED
    BY <1>1, <1>2, <1>9, <2>1
    DEF ActorDiscard, ActorMoves, Receive, KeepWaiting, Disconnect, Goto, spawnVars, callVars
<1>10. CASE ActorReady(c)
  <2>1. pc[c] \in {"wire", "ping"}
    BY <1>10 DEF ActorReady, Receive, Awaiting
  <2>2. registry' \in Registry /\ Observes(registry, registry', connPid[c], gen[c], c)
    BY <1>10, <2>1, HasPid, ObservationsObserve DEF ActorReady
  <2> QED
    BY <1>10, <2>1, <2>2
    DEF ActorReady, ActorMoves, Receive, KeepWaiting, Disconnect, Goto, spawnVars, callVars
<1>11. CASE ActorUnexpectedRequest(c)
  BY <1>1, <1>2, <1>11
  DEF ActorUnexpectedRequest, ActorMoves, Receive, Awaiting, Disconnect, Goto, spawnVars
<1>12. CASE ActorWaitDisconnected(c)
  BY <1>1, <1>2, <1>12
  DEF ActorWaitDisconnected, ActorMoves, Awaiting, Disconnect, Goto, spawnVars, wireVars
<1>13. CASE ActorTimedOut(c)
  <2>1. CASE pc[c] = "ping"
    BY <1>1, <1>2, <1>13, <2>1
    DEF ActorTimedOut, ActorMoves, Awaiting, Goto, spawnVars, wireVars, callVars
  <2>2. CASE pc[c] # "ping"
    <3>1. CompleteTask(registry, connPid[c], FALSE) \in Registry
            /\ Keeps(registry, CompleteTask(registry, connPid[c], FALSE))
      BY <1>13, HasPid, CompleteTaskKeeps DEF ActorTimedOut, Awaiting
    <3>2. Observes(registry, CompleteTask(registry, connPid[c], FALSE), connPid[c], gen[c], c)
      BY <3>1, KeepsObserves
    <3> QED
      BY <1>13, <2>2, <3>1, <3>2
      DEF ActorTimedOut, ActorMoves, Awaiting, Goto, spawnVars, wireVars, callVars
  <2> QED
    BY <2>1, <2>2
<1>14. CASE ActorReply(c)
  BY <1>1, <1>2, <1>14 DEF ActorReply, ActorMoves, Goto, spawnVars, wireVars
<1>15. CASE ActorIdle(c)
  BY <1>1, <1>2, <1>15
  DEF ActorIdle, ActorPing, ActorIdleDead, ActorMoves, Goto, spawnVars, wireVars, callVars, jobVars
<1> QED
  BY <1>3, <1>4, <1>5, <1>6, <1>7, <1>8, <1>9, <1>10, <1>11, <1>12, <1>13, <1>14, <1>15
  DEF ActorStep

\* Timers, peers, callers and the owners of children are quiet.
LEMMA QuietShape ==
    ASSUME SessionInv,
           \/ \E c \in Conns : TtlElapsed(c) \/ Peer(c)
           \/ \E k \in Calls : CallStep(k) \/ CallChoice(k)
           \/ \E s \in Spawns : Lifecycle(s)
    PROVE  Quiet /\ Located'
<1> USE DEF coreVars
<1>1. registry \in Registry /\ Keeps(registry, registry) /\ Located
  BY SameKeeps DEF SessionInv, CoreTypeOK
<1>2. ASSUME NEW c \in Conns, TtlElapsed(c)
      PROVE  Quiet /\ Located'
  <2>1. /\ EvictIfDisconnected(registry, connPid[c]) \in Registry
        /\ Keeps(registry, EvictIfDisconnected(registry, connPid[c]))
    BY <1>1, <1>2, HasPid, RemovalKeeps DEF TtlElapsed, Located
  <2> QED
    BY <1>1, <1>2, <2>1 DEF TtlElapsed, Quiet, Located, connVars, callVars, spawnVars
<1>3. ASSUME NEW c \in Conns, Peer(c)
      PROVE  Quiet /\ Located'
  BY <1>1, <1>3
  DEF Peer, PeerAnswer, PeerEvent, PeerClose, PeerSend, Quiet, Located, connVars, callVars,
     spawnVars
<1>4. ASSUME NEW k \in Calls, CallStep(k) \/ CallChoice(k)
      PROVE  Quiet /\ Located'
  <2> USE DEF CallUnchanged, CallGoto, Drop, Told, CallPcs
  <2>1. CASE \E p \in Pids : CallEnqueue(k, p)
    <3>1. PICK p \in Pids : CallEnqueue(k, p)
      BY <2>1
    <3>2. registry' \in Registry /\ Keeps(registry, registry')
      BY <1>1, <3>1, QueueOpsKeep DEF CallEnqueue, Calls
    <3> QED
      BY <1>1, <3>1, <3>2 DEF CallEnqueue, Quiet, Located, connVars, spawnVars
  <2>2. CASE CallLookup(k)
    BY <1>1, <2>2 DEF CallLookup, Quiet, Located, connVars, spawnVars
  <2>3. CASE CallNoHandle(k)
    BY <1>1, <2>3 DEF CallNoHandle, Quiet, Located, connVars, spawnVars
  <2>4. CASE CallSend(k)
    BY <1>1, <2>4 DEF CallSend, Quiet, Located, connVars, spawnVars
  <2>5. CASE CallReceive(k)
    BY <1>1, <2>5 DEF CallReceive, Quiet, Located, connVars, spawnVars
  <2>6. CASE CallOuterTimeout(k)
    BY <1>1, <2>6 DEF CallOuterTimeout, Quiet, Located, connVars, spawnVars
  <2>7. CASE CallClear(k)
    <3>1. cpid[k] \in Pids
      BY <1>1, <2>7 DEF CallClear, Located
    <3>2. registry' \in Registry /\ Keeps(registry, registry')
      BY <1>1, <2>7, <3>1, QueueStepsKeep DEF CallClear
    <3> QED
      BY <1>1, <2>7, <3>2 DEF CallClear, Quiet, Located, connVars, spawnVars
  <2>8. CASE CallAbandon(k)
    BY <1>1, <2>8 DEF CallAbandon, Quiet, Located, connVars, spawnVars
  <2> QED
    BY <1>4, <2>1, <2>2, <2>3, <2>4, <2>5, <2>6, <2>7, <2>8 DEF CallStep, CallChoice
<1>5. ASSUME NEW s \in Spawns, Lifecycle(s)
      PROVE  Quiet /\ Located'
  <2>1. CASE \E p \in Pids : SpawnTd(s, p)
    <3>1. PICK p \in Pids : SpawnTd(s, p)
      BY <2>1
    <3>2. registry' \in Registry /\ Keeps(registry, registry')
      BY <1>1, <3>1, RegisterStartingKeeps DEF SpawnTd
    <3> QED
      BY <1>1, <3>1, <3>2 DEF SpawnTd, Quiet, Located, connVars, callVars
  <2>2. CASE ChildExit(s)
    BY <1>1, <2>2 DEF ChildExit, Quiet, Located, connVars, callVars
  <2>3. CASE ReapChild(s)
    <3>1. spawned[s] \in Pids
      BY <1>1, <2>3 DEF ReapChild, Located
    <3>2. registry' \in Registry /\ Keeps(registry, registry')
      BY <1>1, <2>3, <3>1, RemovalKeeps DEF ReapChild
    <3> QED
      BY <1>1, <2>3, <3>2 DEF ReapChild, Quiet, Located, connVars, callVars
  <2> QED
    BY <1>5, <2>1, <2>2, <2>3 DEF Lifecycle
<1> QED
  BY <1>2, <1>3, <1>4, <1>5

-----------------------------------------------------------------------------
(* Accepting and tearing down                                                *)

\* A handshake connects a row and backs it; the identity of the row is empty
\* until its connection reports.
LEMMA HandshakeStep ==
    ASSUME SessionInv, NEW c \in Conns, NEW p \in Pids, NEW f \in Prints,
           AcceptHandshake(c, p, f)
    PROVE  SessionInv'
<1> USE DEF SessionInv
<1>1. /\ pc[c] = "new"
      /\ nextGen' = nextGen + 1
      /\ registry' = Handshake(registry, p, f, nextGen + 1)
      /\ connPid' = [connPid EXCEPT ![c] = p]
      /\ gen' = [gen EXCEPT ![c] = nextGen + 1]
      /\ pc' = [pc EXCEPT ![c] = "accepted"]
      /\ UNCHANGED <<sessions, prev, cancelled>>
      /\ UNCHANGED otherVars
  BY DEF AcceptHandshake, Goto, otherVars, callVars, spawnVars
<1>2. nextGen + 1 \in Nat /\ registry \in Registry
  BY DEF CoreTypeOK
<1>3. /\ registry' \in Registry
      /\ \A d \in Conns : d \notin {registry'[p].ready, registry'[p].pump}
      /\ \A q \in Pids \ {p} : RowKeeps(registry[q], registry'[q])
  BY <1>1, <1>2, HandshakeConnects
<1>4. CoreTypeOK'
  BY <1>1, <1>2, <1>3 DEF CoreTypeOK, ConnPcs
<1>5. \A d \in Conns : d # c => pc'[d] = pc[d] /\ connPid'[d] = connPid[d] /\ gen'[d] = gen[d]
  BY <1>1 DEF CoreTypeOK
<1>6. pc'[c] = "accepted" /\ connPid'[c] = p
  BY <1>1 DEF CoreTypeOK
<1>7. Located'
  BY <1>1, <1>5, <1>6, NoneAssumption DEF Located, otherVars
<1>8. MapInv'
  BY <1>1, <1>5, NoneAssumption DEF MapInv, CoreTypeOK, ActorPcs
<1>9. ActorInv'
  BY <1>1, <1>5, <1>6 DEF ActorInv, ActorPcs
<1>10. ConnectedIsBacked'
  <2> SUFFICES ASSUME NEW q \in Pids, registry'[q].bridge = "Connected"
               PROVE  \E d \in Conns : /\ connPid'[d] = q
                                       /\ \/ pc'[d] \in {"accepted", "lost"}
                                          \/ sessions'[q] = d
    BY DEF ConnectedIsBacked
  <2>1. CASE q = p
    BY <1>6, <2>1
  <2>2. CASE q # p
    <3>1. registry[q].bridge = "Connected"
      BY <1>3, <2>2 DEF RowKeeps
    <3>2. PICK d \in Conns : /\ connPid[d] = q
                             /\ \/ pc[d] \in {"accepted", "lost"}
                                \/ sessions[q] = d
      BY <3>1 DEF ConnectedIsBacked
    <3>3. d # c
      BY <1>1, <3>2, NoneAssumption DEF Located
    <3> QED
      BY <1>1, <1>5, <3>2, <3>3
  <2> QED
    BY <2>1, <2>2
<1>11. IdentityIsCurrent'
  <2> SUFFICES ASSUME NEW q \in Pids, NEW d \in Conns,
                      d \in {registry'[q].ready, registry'[q].pump}
               PROVE  connPid'[d] = q /\ gen'[d] = registry'[q].generation
    BY DEF IdentityIsCurrent
  <2>1. q # p
    BY <1>3
  <2>2. /\ d \in {registry[q].ready, registry[q].pump}
        /\ registry'[q].generation = registry[q].generation
    BY <1>3, <2>1 DEF RowKeeps
  <2>3. connPid[d] = q /\ gen[d] = registry[q].generation
    BY <2>2 DEF IdentityIsCurrent
  <2>4. d # c
    BY <1>1, <2>3, NoneAssumption DEF Located
  <2> QED
    BY <1>5, <2>2, <2>3, <2>4
<1> QED
  BY <1>4, <1>7, <1>8, <1>9, <1>10, <1>11

\* The insert displaces a handle, which its next step will cancel.
LEMMA InsertStep ==
    ASSUME SessionInv, NEW c \in Conns, SpawnInsert(c)
    PROVE  SessionInv'
<1> USE DEF SessionInv
<1> DEFINE p == connPid[c]
<1>1. /\ pc[c] = "accepted"
      /\ prev' = [prev EXCEPT ![c] = sessions[p]]
      /\ sessions' = [sessions EXCEPT ![p] = c]
      /\ pc' = [pc EXCEPT ![c] = "inserted"]
      /\ UNCHANGED <<registry, nextGen, connPid, gen, cancelled>>
      /\ UNCHANGED otherVars
  BY DEF SpawnInsert, Goto, otherVars, callVars, spawnVars
<1>2. p \in Pids
  BY <1>1, HasPid
<1> HIDE DEF p
<1>3. CoreTypeOK'
  BY <1>1, <1>2 DEF CoreTypeOK, ConnPcs
<1>4. /\ pc'[c] = "inserted" /\ prev'[c] = sessions[p] /\ sessions'[p] = c
      /\ \A d \in Conns : d # c => pc'[d] = pc[d] /\ prev'[d] = prev[d]
      /\ \A q \in Pids : q # p => sessions'[q] = sessions[q]
  BY <1>1, <1>2 DEF CoreTypeOK
<1>5. Located'
  BY <1>1, <1>4 DEF Located, otherVars
<1>6. MapInv'
  <2> SUFFICES ASSUME NEW q \in Pids, sessions'[q] # None
               PROVE  /\ connPid[sessions'[q]] = q
                      /\ pc'[sessions'[q]] \in ActorPcs \cup {"inserted", "teardown"}
    BY <1>1 DEF MapInv
  <2>1. CASE q = p
    BY <1>4, <2>1 DEF p
  <2>2. CASE q # p
    BY <1>1, <1>4, <2>2 DEF MapInv, CoreTypeOK, ActorPcs
  <2> QED
    BY <2>1, <2>2
<1>7. ActorInv'
  <2> SUFFICES ASSUME NEW d \in Conns, pc'[d] \in ActorPcs \cup {"inserted"}
               PROVE  \/ sessions'[connPid[d]] = d
                      \/ d \in cancelled
                      \/ \E e \in Conns : pc'[e] = "inserted" /\ prev'[e] = d
    BY <1>1 DEF ActorInv
  <2>1. CASE d = c
    BY <1>4, <2>1 DEF p
  <2>2. CASE d # c /\ sessions[connPid[d]] = d
    <3>1. connPid[d] \in Pids
      BY <1>4, <2>2, HasPid DEF ActorPcs
    <3> QED
      BY <1>4, <2>2, <3>1
  <2>3. CASE d # c /\ d \in cancelled
    BY <2>3
  <2>4. CASE d # c /\ \E e \in Conns : pc[e] = "inserted" /\ prev[e] = d
    BY <1>1, <1>4, <2>4
  <2> QED
    BY <1>4, <2>1, <2>2, <2>3, <2>4 DEF ActorInv
<1>8. ConnectedIsBacked'
  <2> SUFFICES ASSUME NEW q \in Pids, registry[q].bridge = "Connected"
               PROVE  \E d \in Conns : /\ connPid[d] = q
                                       /\ \/ pc'[d] \in {"accepted", "lost"}
                                          \/ sessions'[q] = d
    BY <1>1 DEF ConnectedIsBacked
  <2>1. PICK d \in Conns : /\ connPid[d] = q
                           /\ \/ pc[d] \in {"accepted", "lost"}
                              \/ sessions[q] = d
    BY DEF ConnectedIsBacked
  <2>2. CASE q = p
    BY <1>4, <2>2 DEF p
  <2>3. CASE q # p
    BY <1>4, <2>1, <2>3 DEF p
  <2> QED
    BY <2>2, <2>3
<1>9. IdentityIsCurrent'
  BY <1>1 DEF IdentityIsCurrent
<1> QED
  BY <1>3, <1>5, <1>6, <1>7, <1>8, <1>9

\* The displaced handle is cancelled and the actor starts.
LEMMA CancelStep ==
    ASSUME SessionInv, NEW c \in Conns, SpawnCancelPrevious(c)
    PROVE  SessionInv'
<1> USE DEF SessionInv
<1>1. /\ pc[c] = "inserted"
      /\ cancelled' = cancelled \cup ({prev[c]} \ {None})
      /\ pc' = [pc EXCEPT ![c] = "loop"]
      /\ UNCHANGED <<registry, nextGen, sessions, connPid, gen, prev>>
      /\ UNCHANGED otherVars
  BY DEF SpawnCancelPrevious, Goto, otherVars, callVars, spawnVars
<1>2. /\ pc'[c] = "loop"
      /\ \A d \in Conns : d # c => pc'[d] = pc[d]
  BY <1>1 DEF CoreTypeOK
<1>3. CoreTypeOK'
  BY <1>1 DEF CoreTypeOK, ConnPcs, ActorPcs
<1>4. Located'
  BY <1>1, <1>2 DEF Located, otherVars
<1>5. MapInv'
  BY <1>1, <1>2 DEF MapInv, CoreTypeOK, ActorPcs
<1>6. ActorInv'
  BY <1>1, <1>2, NoneAssumption DEF ActorInv, ActorPcs
<1>7. ConnectedIsBacked'
  BY <1>1, <1>2 DEF ConnectedIsBacked
<1>8. IdentityIsCurrent'
  BY <1>1 DEF IdentityIsCurrent
<1> QED
  BY <1>3, <1>4, <1>5, <1>6, <1>7, <1>8

\* Teardown takes its own handle out of the map, and then owes the loss.
LEMMA TeardownSessionStep ==
    ASSUME SessionInv, NEW c \in Conns, TeardownSession(c)
    PROVE  SessionInv'
<1> USE DEF SessionInv
<1> DEFINE p == connPid[c]
<1>1. /\ pc[c] = "teardown"
      /\ \/ /\ sessions[p] = c
            /\ sessions' = [sessions EXCEPT ![p] = None]
            /\ pc' = [pc EXCEPT ![c] = "lost"]
         \/ /\ sessions[p] # c
            /\ sessions' = sessions
            /\ pc' = [pc EXCEPT ![c] = "superseded"]
      /\ UNCHANGED <<registry, nextGen, connPid, gen, prev, cancelled>>
      /\ UNCHANGED otherVars
  BY DEF TeardownSession, Goto, otherVars, callVars, spawnVars
<1>2. p \in Pids
  BY <1>1, HasPid
<1> HIDE DEF p
<1>3. CoreTypeOK'
  BY <1>1, <1>2 DEF CoreTypeOK, ConnPcs
<1>4. /\ pc'[c] \in {"lost", "superseded"}
      /\ \A d \in Conns : d # c => pc'[d] = pc[d]
      /\ \A q \in Pids : q # p => sessions'[q] = sessions[q]
      /\ \/ sessions[p] = c /\ sessions'[p] = None /\ pc'[c] = "lost"
         \/ sessions[p] # c /\ sessions'[p] = sessions[p]
  BY <1>1, <1>2 DEF CoreTypeOK
<1>5. Located'
  BY <1>1, <1>4 DEF Located, otherVars
<1>6. MapInv'
  BY <1>1, <1>4, <1>2 DEF MapInv, CoreTypeOK, p
<1>7. ActorInv'
  <2> SUFFICES ASSUME NEW d \in Conns, pc'[d] \in ActorPcs \cup {"inserted"}
               PROVE  \/ sessions'[connPid[d]] = d
                      \/ d \in cancelled
                      \/ \E e \in Conns : pc'[e] = "inserted" /\ prev[e] = d
    BY <1>1 DEF ActorInv
  <2>1. d # c /\ pc[d] \in ActorPcs \cup {"inserted"}
    BY <1>4 DEF ActorPcs
  <2>2. connPid[d] \in Pids
    BY <2>1, HasPid DEF ActorPcs
  <2> QED
    BY <1>1, <1>4, <2>1, <2>2 DEF ActorInv
<1>8. ConnectedIsBacked'
  <2> SUFFICES ASSUME NEW q \in Pids, registry[q].bridge = "Connected"
               PROVE  \E d \in Conns : /\ connPid[d] = q
                                       /\ \/ pc'[d] \in {"accepted", "lost"}
                                          \/ sessions'[q] = d
    BY <1>1 DEF ConnectedIsBacked
  <2>1. PICK d \in Conns : /\ connPid[d] = q
                           /\ \/ pc[d] \in {"accepted", "lost"}
                              \/ sessions[q] = d
    BY DEF ConnectedIsBacked
  <2> QED
    BY <1>1, <1>4, <2>1 DEF p
<1>9. IdentityIsCurrent'
  BY <1>1 DEF IdentityIsCurrent
<1> QED
  BY <1>3, <1>5, <1>6, <1>7, <1>8, <1>9

\* The loss is marked, or the queue cleared, and the task ends.
LEMMA TeardownEndStep ==
    ASSUME SessionInv, NEW c \in Conns, TeardownLost(c) \/ TeardownSuperseded(c)
    PROVE  SessionInv'
<1> USE DEF SessionInv
<1> DEFINE p == connPid[c]
<1>1. /\ pc[c] \in {"lost", "superseded"}
      /\ pc' = [pc EXCEPT ![c] = "dead"]
      /\ timers' \subseteq timers \cup {c}
      /\ UNCHANGED <<nextGen, sessions, connPid, gen, prev, cancelled>>
      /\ UNCHANGED <<cpc, cpid, spawned, spc>>
  BY DEF TeardownLost, TeardownSuperseded, DropSession, Goto, spawnVars
<1>2. p \in Pids /\ registry \in Registry
  BY <1>1, HasPid
<1>3. /\ registry' \in Registry
      /\ Keeps(registry, registry')
      /\ pc[c] = "lost" => registry'[p].bridge # "Connected"
  BY <1>2, OnBridgeLostKeeps, QueueStepsKeep DEF TeardownLost, TeardownSuperseded
<1>4. /\ pc'[c] = "dead"
      /\ \A d \in Conns : d # c => pc'[d] = pc[d]
  BY <1>1 DEF CoreTypeOK
<1>5. CoreTypeOK'
  BY <1>1, <1>3 DEF CoreTypeOK, ConnPcs
<1>6. Located'
  BY <1>1, <1>4 DEF Located
<1>7. MapInv'
  BY <1>1, <1>4 DEF MapInv, CoreTypeOK, ActorPcs
<1>8. ActorInv'
  BY <1>1, <1>4 DEF ActorInv, ActorPcs
<1>9. ConnectedIsBacked'
  BY <1>1, <1>3, <1>4 DEF ConnectedIsBacked, Keeps, RowKeeps
<1>10. IdentityIsCurrent'
  BY <1>1, <1>3 DEF IdentityIsCurrent, Keeps, RowKeeps
<1> QED
  BY <1>5, <1>6, <1>7, <1>8, <1>9, <1>10

-----------------------------------------------------------------------------
(* What follows for every behaviour                                          *)

\* Nothing is connected at the start.
LEMMA SessionInit == Init => SessionInv
<1> SUFFICES ASSUME Init PROVE SessionInv
  OBVIOUS
<1>1. CoreTypeOK
  BY AbsentIsEntry DEF Init, CoreTypeOK, Registry, ConnPcs
<1>2. Located
  BY DEF Init, Located, CallPcs
<1>3. MapInv /\ ActorInv
  BY DEF Init, MapInv, ActorInv, ActorPcs
<1>4. ConnectedIsBacked
  BY AbsentIsEntry DEF Init, ConnectedIsBacked
<1>5. IdentityIsCurrent
  BY AbsentIsEntry, NoneAssumption DEF Init, IdentityIsCurrent
<1> QED
  BY <1>1, <1>2, <1>3, <1>4, <1>5 DEF SessionInv

\* Every step preserves the invariant.
LEMMA SessionNext == SessionInv /\ [Next]_vars => SessionInv'
<1> SUFFICES ASSUME SessionInv, [Next]_vars PROVE SessionInv'
  OBVIOUS
<1>1. ASSUME NEW c \in Conns, Accept(c) PROVE SessionInv'
  BY <1>1, HandshakeStep, InsertStep, CancelStep DEF Accept
<1>2. ASSUME NEW c \in Conns, ActorStep(c) \/ ActorIdle(c) PROVE SessionInv'
  <2>1. ActorMoves(c) /\ UNCHANGED otherVars
    BY <1>2, ActorShape
  <2>2. Located'
    <3>1. \A d \in Conns : pc'[d] = "new" <=> pc[d] = "new"
      BY <2>1 DEF ActorMoves, SessionInv, CoreTypeOK, ActorPcs
    <3> QED
      BY <2>1, <3>1 DEF ActorMoves, SessionInv, Located, otherVars
  <2> QED
    BY <2>1, <2>2, ActorMovesKeeps DEF SessionInv
<1>3. ASSUME NEW c \in Conns, Teardown(c) PROVE SessionInv'
  BY <1>3, TeardownSessionStep, TeardownEndStep DEF Teardown
<1>4. ASSUME \/ \E c \in Conns : TtlElapsed(c) \/ Peer(c)
             \/ \E k \in Calls : CallStep(k) \/ CallChoice(k)
             \/ \E s \in Spawns : Lifecycle(s)
      PROVE  SessionInv'
  BY <1>4, QuietShape, QuietKeeps DEF SessionInv
<1>5. CASE UNCHANGED vars
  BY <1>5 DEF vars, connVars, callVars, spawnVars, SessionInv, CoreTypeOK, Located,
     MapInv, ActorInv, ConnectedIsBacked, IdentityIsCurrent
<1> QED
  BY <1>1, <1>2, <1>3, <1>4, <1>5 DEF Next

\* The invariant holds in every reachable state.
LEMMA SessionInvariant == Spec => []SessionInv
BY SessionInit, SessionNext, PTL DEF Spec

\* Of all actors of a pid only the one in the session map runs on; every other
\* one is cancelled or about to be (spawn_for_connection, teardown).
THEOREM SupersededActorsAreCancelled == Spec => []OneActorDrivesPid
<1>1. SessionInv => OneActorDrivesPid
  BY DEF SessionInv, ActorInv, OneActorDrivesPid
<1> QED
  BY <1>1, SessionInvariant, PTL

\* A Connected row is never left without a task that serves or retracts it
\* (run_ipc_accept, spawn_for_connection, teardown).
THEOREM ConnectedRowsAreBacked == Spec => []ConnectedIsBacked
<1>1. SessionInv => ConnectedIsBacked
  BY DEF SessionInv
<1> QED
  BY <1>1, SessionInvariant, PTL

\* Ready and heartbeat metadata always belongs to the connection its row is at
\* (connected_generation_mut, begin_connection).
THEOREM IdentityStaysCurrent == Spec => []IdentityIsCurrent
<1>1. SessionInv => IdentityIsCurrent
  BY DEF SessionInv
<1> QED
  BY <1>1, SessionInvariant, PTL

-----------------------------------------------------------------------------
(* Replies                                                                   *)

Definite == {"ok", "bridgeError"}

\* Types of what actors, wires and callers hold.
WireTypeOK ==
    /\ mailbox \in [Conns -> Seq(Calls)]
    /\ job \in [Conns -> Calls \cup {None}]
    /\ outcome \in [Conns -> Reply \cup {NoReply}]
    /\ open \in [Conns -> BOOLEAN]
    /\ toPeer \in [Conns -> SUBSET (Calls \cup {Ping})]
    /\ inbox \in [Conns -> Seq(Frames)]
    /\ \A c \in Conns : pc[c] \in {"sending", "wire", "reply"} => job[c] \in Calls

CallTypeOK ==
    /\ handle \in [Calls -> Conns \cup {None}]
    /\ reply \in [Calls -> Reply \cup {NoReply}]
    /\ result \in [Calls -> Results \cup {NoReply}]
    /\ \A k \in Calls : cpc[k] = "send" => handle[k] \in Conns

\* An actor holds an outcome only between recording and sending it, and a
\* definite one is the response to its own job.
OutcomeInv ==
    \A c \in Conns :
        /\ pc[c] # "reply" => outcome[c] = NoReply
        /\ outcome[c].kind \in Definite => outcome[c].from = job[c]

\* What was sent to a caller, and what it was told, answers its own request.
AnswerInv ==
    \A k \in Calls :
        /\ reply[k].kind \in Definite => reply[k].from = k
        /\ result[k].kind \in Definite => result[k].from = k

ReplyInv == WireTypeOK /\ CallTypeOK /\ OutcomeInv /\ AnswerInv

\* An answer that is definite is given to the caller it is from.
LEMMA AnswerKeeps ==
    ASSUME CallTypeOK, AnswerInv, NEW ks, NEW r \in Reply \cup {NoReply}, Answer(ks, r),
           r.kind \in Definite => ks \subseteq {r.from},
           UNCHANGED <<cpc, cpid, handle, result>>
    PROVE  CallTypeOK' /\ AnswerInv'
<1>1. CallTypeOK'
  BY DEF CallTypeOK, Answer
<1>2. AnswerInv'
  BY DEF AnswerInv, Answer, CallTypeOK
<1> QED
  BY <1>1, <1>2

\* A plain reply has no response behind it.
LEMMA PlainReply ==
    ASSUME NEW kind \in ReplyKinds
    PROVE  Plain(kind) \in Reply /\ Plain(kind).kind = kind
BY DEF Plain, Reply

\* A disconnect answers its caller and ends the actor.
LEMMA DisconnectKeeps ==
    ASSUME SessionInv, ReplyInv, NEW c \in Conns, Disconnect(c),
           UNCHANGED <<mailbox, outcome>>, pc[c] # "reply"
    PROVE  /\ job' \in [Conns -> Calls \cup {None}]
           /\ \A d \in Conns : pc'[d] \in {"sending", "wire", "reply"} => job'[d] \in Calls
           /\ OutcomeInv'
           /\ CallTypeOK' /\ AnswerInv'
<1> USE DEF ReplyInv
<1>1. /\ job' = [job EXCEPT ![c] = None]
      /\ pc' = [pc EXCEPT ![c] = "teardown"]
      /\ Answer({job[c]} \ {None}, Plain("disconnected"))
      /\ UNCHANGED <<cpc, cpid, handle, result>>
  BY DEF Disconnect, Goto
<1>2. pc \in [Conns -> ConnPcs]
  BY DEF SessionInv, CoreTypeOK
<1>3. job' \in [Conns -> Calls \cup {None}]
  BY <1>1 DEF WireTypeOK
<1>4. \A d \in Conns : pc'[d] \in {"sending", "wire", "reply"} => job'[d] \in Calls
  BY <1>1, <1>2 DEF WireTypeOK
<1>5. NoReply.kind \notin Definite
  BY DEF NoReply, Definite
<1>6. OutcomeInv'
  BY <1>1, <1>2, <1>5 DEF OutcomeInv, WireTypeOK
<1>7. Plain("disconnected") \in Reply /\ Plain("disconnected").kind \notin Definite
  BY PlainReply DEF ReplyKinds, Definite
<1>8. CallTypeOK' /\ AnswerInv'
  BY <1>1, <1>7, AnswerKeeps
<1> QED
  BY <1>3, <1>4, <1>6, <1>8

\* Going round the wait.
LEMMA KeepWaitingKeeps ==
    ASSUME SessionInv, ReplyInv, NEW c \in Conns, NEW l, KeepWaiting(c, l),
           UNCHANGED <<mailbox, outcome>>, pc[c] # "reply", l \in {"wire", "ping"},
           l = "wire" => job[c] \in Calls
    PROVE  /\ job' \in [Conns -> Calls \cup {None}]
           /\ \A d \in Conns : pc'[d] \in {"sending", "wire", "reply"} => job'[d] \in Calls
           /\ OutcomeInv'
           /\ CallTypeOK' /\ AnswerInv'
<1>1. CASE c \in cancelled
  BY <1>1, DisconnectKeeps DEF KeepWaiting
<1>2. CASE c \notin cancelled
  <2>1. pc' = [pc EXCEPT ![c] = l] /\ UNCHANGED <<job, callVars>>
    BY <1>2 DEF KeepWaiting, Goto
  <2>2. pc \in [Conns -> ConnPcs]
    BY DEF SessionInv, CoreTypeOK
  <2> QED
    BY <2>1, <2>2 DEF ReplyInv, WireTypeOK, CallTypeOK, OutcomeInv, AnswerInv, callVars
<1> QED
  BY <1>1, <1>2

\* The head of an inbox is a frame.
LEMMA HeadFrame ==
    ASSUME ReplyInv, NEW c \in Conns, inbox[c] # <<>>
    PROVE  /\ Head(inbox[c]) \in Frames
           /\ Tail(inbox[c]) \in Seq(Frames)
BY DEF ReplyInv, WireTypeOK

\* A wanted response to the running job makes a definite reply from that job.
LEMMA MatchedOutcome ==
    ASSUME NEW m \in Frames, NEW c \in Conns, job[c] \in Calls,
           IsWanted(c, m), pc[c] = "wire"
    PROVE  ReplyFor(m) \in Reply /\ ReplyFor(m).from = job[c]
<1>1. m.id = job[c]
  BY DEF IsWanted, WantId
<1> QED
  BY <1>1 DEF ReplyFor, Reply, ReplyKinds

\* Steps of an actor: its answer, if it gives one, is that of its own job.
LEMMA ActorReplies ==
    ASSUME SessionInv, ReplyInv, NEW c \in Conns, ActorStep(c) \/ ActorIdle(c)
    PROVE  ReplyInv'
<1>1. pc \in [Conns -> ConnPcs]
  BY DEF SessionInv, CoreTypeOK
<1>2. NoReply.kind \notin Definite
  BY DEF NoReply, Definite
<1>3. WireTypeOK /\ CallTypeOK /\ OutcomeInv /\ AnswerInv
  BY DEF ReplyInv
<1>4. CASE ActorCancelled(c) \/ ActorIdleDead(c)
  BY <1>1, <1>3, <1>4 DEF ActorCancelled, ActorIdleDead, Goto, ReplyInv, WireTypeOK,
     CallTypeOK, OutcomeInv, AnswerInv, jobVars, wireVars, callVars
<1>5. CASE ActorTakeJob(c)
  <2>1. /\ pc[c] = "loop" /\ pc' = [pc EXCEPT ![c] = "sending"]
        /\ mailbox[c] # <<>>
        /\ job' = [job EXCEPT ![c] = Head(mailbox[c])]
        /\ mailbox' = [mailbox EXCEPT ![c] = Tail(mailbox[c])]
        /\ UNCHANGED <<outcome, open, toPeer, inbox, cpc, handle, reply, result>>
    BY <1>5 DEF ActorTakeJob, Goto, wireVars, callVars
  <2>2. Head(mailbox[c]) \in Calls /\ Tail(mailbox[c]) \in Seq(Calls)
    BY <1>3, <2>1 DEF WireTypeOK
  <2>3. WireTypeOK'
    BY <1>1, <1>3, <2>1, <2>2 DEF WireTypeOK
  <2>4. OutcomeInv'
    BY <1>1, <1>2, <1>3, <2>1 DEF OutcomeInv, WireTypeOK
  <2>5. CallTypeOK' /\ AnswerInv'
    BY <1>3, <2>1 DEF CallTypeOK, AnswerInv
  <2> QED
    BY <2>3, <2>4, <2>5 DEF ReplyInv
<1>6. CASE ActorSend(c)
  <2>1. pc[c] = "sending" /\ KeepWaiting(c, "wire") /\ WriteRequest(c, job[c])
          /\ UNCHANGED <<mailbox, outcome, open, inbox>>
    BY <1>6 DEF ActorSend
  <2>2. job[c] \in Calls
    BY <1>3, <2>1 DEF WireTypeOK
  <2>3. toPeer' \in [Conns -> SUBSET (Calls \cup {Ping})]
    BY <1>3, <2>1, <2>2 DEF WriteRequest, WireTypeOK
  <2> QED
    BY <1>3, <2>1, <2>2, <2>3, KeepWaitingKeeps DEF ReplyInv, WireTypeOK
<1>7. CASE ActorSendFail(c) \/ ActorWaitDisconnected(c)
  <2>1. pc[c] # "reply" /\ Disconnect(c) /\ UNCHANGED <<mailbox, outcome, open, toPeer, inbox>>
    BY <1>7 DEF ActorSendFail, ActorWaitDisconnected, Awaiting, wireVars
  <2> QED
    BY <1>3, <2>1, DisconnectKeeps DEF ReplyInv, WireTypeOK
<1>8. CASE ActorPing(c)
  <2>1. /\ pc[c] = "loop"
        /\ \E l \in {"ping", "teardown"} : pc' = [pc EXCEPT ![c] = l]
        /\ WriteRequest(c, Ping) \/ UNCHANGED toPeer
        /\ UNCHANGED <<mailbox, job, outcome, open, inbox, cpc, handle, reply, result>>
    BY <1>8 DEF ActorPing, Goto, jobVars, callVars
  <2>2. toPeer' \in [Conns -> SUBSET (Calls \cup {Ping})]
    BY <1>3, <2>1 DEF WriteRequest, WireTypeOK
  <2> QED
    BY <1>1, <1>3, <2>1, <2>2 DEF ReplyInv, WireTypeOK, CallTypeOK, OutcomeInv, AnswerInv
<1>9. ASSUME Receive(c)
      PROVE  /\ pc[c] \in {"wire", "ping"}
             /\ Head(inbox[c]) \in Frames
             /\ inbox' \in [Conns -> Seq(Frames)]
             /\ UNCHANGED <<mailbox, open, toPeer>>
             /\ pc[c] = "wire" => job[c] \in Calls
  BY <1>3, <1>9, HeadFrame DEF Receive, Awaiting, WireTypeOK
<1>10. CASE ActorMatched(c)
  <2>1. /\ pc[c] = "wire" /\ pc' = [pc EXCEPT ![c] = "reply"]
        /\ Receive(c)
        /\ IsWanted(c, Head(inbox[c]))
        /\ outcome' = [outcome EXCEPT ![c] = ReplyFor(Head(inbox[c]))]
        /\ UNCHANGED <<job, cpc, handle, reply, result>>
    BY <1>10 DEF ActorMatched, Goto, callVars
  <2>2. ReplyFor(Head(inbox[c])) \in Reply /\ ReplyFor(Head(inbox[c])).from = job[c]
    BY <1>9, <2>1, MatchedOutcome
  <2>3. WireTypeOK'
    BY <1>1, <1>3, <1>9, <2>1, <2>2 DEF WireTypeOK
  <2>4. OutcomeInv'
    BY <1>1, <1>3, <2>1, <2>2 DEF OutcomeInv, WireTypeOK
  <2>5. CallTypeOK' /\ AnswerInv'
    BY <1>3, <2>1 DEF CallTypeOK, AnswerInv
  <2> QED
    BY <2>3, <2>4, <2>5 DEF ReplyInv
<1>11. CASE ActorPong(c)
  <2>1. /\ pc[c] = "ping" /\ Receive(c)
        /\ \E l \in {"loop", "teardown"} : pc' = [pc EXCEPT ![c] = l]
        /\ UNCHANGED <<job, outcome, cpc, handle, reply, result>>
    BY <1>11 DEF ActorPong, Goto, callVars
  <2> QED
    BY <1>1, <1>3, <1>9, <2>1 DEF ReplyInv, WireTypeOK, CallTypeOK, OutcomeInv, AnswerInv
<1>12. CASE ActorDiscard(c) \/ ActorReady(c)
  <2>1. Receive(c) /\ KeepWaiting(c, pc[c]) /\ UNCHANGED outcome
    BY <1>12 DEF ActorDiscard, ActorReady
  <2> QED
    BY <1>3, <1>9, <2>1, KeepWaitingKeeps DEF ReplyInv, WireTypeOK
<1>13. CASE ActorUnexpectedRequest(c)
  <2>1. Receive(c) /\ Disconnect(c) /\ UNCHANGED outcome
    BY <1>13 DEF ActorUnexpectedRequest
  <2> QED
    BY <1>3, <1>9, <2>1, DisconnectKeeps DEF ReplyInv, WireTypeOK
<1>14. CASE ActorTimedOut(c)
  <2>1. UNCHANGED <<mailbox, job, open, toPeer, inbox, cpc, handle, reply, result>>
    BY <1>14 DEF ActorTimedOut, wireVars, callVars
  <2>2. CASE pc[c] = "ping"
    BY <1>1, <1>3, <1>14, <2>1, <2>2 DEF ActorTimedOut, Goto, ReplyInv, WireTypeOK, CallTypeOK,
       OutcomeInv, AnswerInv
  <2>3. CASE pc[c] = "wire"
    <3>1. outcome' = [outcome EXCEPT ![c] = Plain("timeout")] /\ pc' = [pc EXCEPT ![c] = "reply"]
      BY <1>14, <2>3 DEF ActorTimedOut, Goto
    <3>2. Plain("timeout") \in Reply /\ Plain("timeout").kind \notin Definite
      BY PlainReply DEF ReplyKinds, Definite
    <3>3. WireTypeOK'
      BY <1>1, <1>3, <2>1, <2>3, <3>1, <3>2 DEF WireTypeOK
    <3>4. OutcomeInv'
      BY <1>1, <1>3, <2>1, <2>3, <3>1, <3>2 DEF OutcomeInv, WireTypeOK
    <3> QED
      BY <1>3, <2>1, <3>3, <3>4 DEF ReplyInv, CallTypeOK, AnswerInv
  <2> QED
    BY <1>14, <2>2, <2>3 DEF ActorTimedOut, Awaiting
<1>15. CASE ActorReply(c)
  <2>1. /\ pc[c] = "reply" /\ pc' = [pc EXCEPT ![c] = "loop"]
        /\ Answer({job[c]}, outcome[c])
        /\ job' = [job EXCEPT ![c] = None]
        /\ outcome' = [outcome EXCEPT ![c] = NoReply]
        /\ UNCHANGED <<mailbox, open, toPeer, inbox, cpc, cpid, handle, result>>
    BY <1>15 DEF ActorReply, Goto, wireVars
  <2>2. WireTypeOK'
    BY <1>1, <1>3, <2>1 DEF WireTypeOK
  <2>3. OutcomeInv'
    BY <1>1, <1>2, <1>3, <2>1 DEF OutcomeInv, WireTypeOK
  <2>4. /\ outcome[c] \in Reply \cup {NoReply}
        /\ outcome[c].kind \in Definite => outcome[c].from = job[c]
    BY <1>3 DEF OutcomeInv, WireTypeOK
  <2>5. CallTypeOK' /\ AnswerInv'
    <3>1. outcome[c].kind \in Definite => {job[c]} \subseteq {outcome[c].from}
      BY <2>4
    <3> QED
      BY <1>3, <2>1, <2>4, <3>1, AnswerKeeps
  <2> QED
    BY <2>2, <2>3, <2>5 DEF ReplyInv
<1> QED
  BY <1>4, <1>5, <1>6, <1>7, <1>8, <1>10, <1>11, <1>12, <1>13, <1>14, <1>15
  DEF ActorStep, ActorIdle

\* Accepting, the first half of teardown, timers and children touch neither
\* wires nor callers.
LEMMA OthersReply ==
    ASSUME SessionInv, ReplyInv,
           \/ \E c \in Conns : Accept(c) \/ TeardownSession(c) \/ TtlElapsed(c)
           \/ \E s \in Spawns : Lifecycle(s)
    PROVE  ReplyInv'
<1>1. pc \in [Conns -> ConnPcs]
  BY DEF SessionInv, CoreTypeOK
<1>2. UNCHANGED <<jobVars, wireVars, callVars>>
  BY DEF Accept, AcceptHandshake, SpawnInsert, SpawnCancelPrevious, TeardownSession,
     TtlElapsed, Lifecycle, SpawnTd, ChildExit, ReapChild
<1>3. \/ UNCHANGED pc
      \/ \E c \in Conns : /\ pc[c] # "reply"
                          /\ \E l \in {"accepted", "inserted", "loop", "lost", "superseded"} :
                               pc' = [pc EXCEPT ![c] = l]
  BY DEF Accept, AcceptHandshake, SpawnInsert, SpawnCancelPrevious, TeardownSession,
     TtlElapsed, Lifecycle, SpawnTd, ChildExit, ReapChild, Goto, connVars
<1> QED
  BY <1>1, <1>2, <1>3 DEF ReplyInv, WireTypeOK, CallTypeOK, OutcomeInv, AnswerInv,
     jobVars, wireVars, callVars

\* The end of a session answers what its channel still held.
LEMMA DropReplies ==
    ASSUME SessionInv, ReplyInv, NEW c \in Conns, TeardownLost(c) \/ TeardownSuperseded(c)
    PROVE  ReplyInv'
<1>1. pc \in [Conns -> ConnPcs]
  BY DEF SessionInv, CoreTypeOK
<1>2. pc[c] # "reply" /\ pc' = [pc EXCEPT ![c] = "dead"] /\ DropSession(c)
  BY DEF TeardownLost, TeardownSuperseded, Goto
<1>3. <<>> \in Seq(Calls) /\ <<>> \in Seq(Frames)
  OBVIOUS
<1>4. WireTypeOK'
  BY <1>1, <1>2, <1>3 DEF DropSession, ReplyInv, WireTypeOK
<1>5. OutcomeInv'
  BY <1>1, <1>2 DEF DropSession, ReplyInv, OutcomeInv
<1>6. Plain("disconnected") \in Reply /\ Plain("disconnected").kind \notin Definite
  BY PlainReply DEF ReplyKinds, Definite
<1>7. CallTypeOK' /\ AnswerInv'
  BY <1>2, <1>6, AnswerKeeps DEF DropSession, ReplyInv
<1> QED
  BY <1>4, <1>5, <1>7 DEF ReplyInv

\* The peer only writes frames.
LEMMA PeerReplies ==
    ASSUME SessionInv, ReplyInv, NEW c \in Conns, Peer(c)
    PROVE  ReplyInv'
<1>1. UNCHANGED <<pc, mailbox, job, outcome, cpc, handle, reply, result>>
  BY DEF Peer, PeerAnswer, PeerEvent, PeerClose, PeerSend, connVars, jobVars, callVars
<1>2. open' \in [Conns -> BOOLEAN] /\ toPeer' \in [Conns -> SUBSET (Calls \cup {Ping})]
  BY DEF Peer, PeerAnswer, PeerEvent, PeerClose, PeerSend, ReplyInv, WireTypeOK
<1>3. ASSUME NEW m \in Frames, PeerSend(c, m)
      PROVE  inbox' \in [Conns -> Seq(Frames)]
  <2>1. Append(inbox[c], m) \in Seq(Frames)
    BY DEF ReplyInv, WireTypeOK
  <2> QED
    BY <1>3, <2>1 DEF PeerSend, ReplyInv, WireTypeOK
<1>4. inbox' \in [Conns -> Seq(Frames)]
  <2>1. ASSUME NEW id \in Calls \cup {Ping}, NEW a \in PeerAnswers, PeerAnswer(c, id, a)
        PROVE  inbox' \in [Conns -> Seq(Frames)]
    <3>1. [kind |-> "response", id |-> id, answer |-> a] \in Frames
      BY DEF Frames
    <3> QED
      BY <1>3, <2>1, <3>1 DEF PeerAnswer
  <2>2. ASSUME NEW kind \in EventKinds, PeerEvent(c, kind)
        PROVE  inbox' \in [Conns -> Seq(Frames)]
    <3>1. [kind |-> kind] \in Frames
      BY DEF Frames
    <3> QED
      BY <1>3, <2>2, <3>1 DEF PeerEvent
  <2>3. CASE PeerClose(c)
    BY <2>3 DEF PeerClose, ReplyInv, WireTypeOK
  <2> QED
    BY <2>1, <2>2, <2>3 DEF Peer
<1> QED
  BY <1>1, <1>2, <1>4 DEF ReplyInv, WireTypeOK, CallTypeOK, OutcomeInv, AnswerInv

\* A caller passes on what it was sent, or says why it has no answer.
LEMMA CallReplies ==
    ASSUME SessionInv, ReplyInv, NEW k \in Calls, CallStep(k) \/ CallChoice(k)
    PROVE  ReplyInv'
<1>1. UNCHANGED <<pc, job, outcome, open, toPeer, inbox>>
  BY DEF CallStep, CallChoice, CallEnqueue, CallLookup, CallNoHandle, CallSend, CallReceive,
     CallOuterTimeout, CallClear, CallAbandon, CallUnchanged, connVars, wireVars
<1>2. cpc \in [Calls -> CallPcs]
  BY DEF SessionInv, Located
<1>3. mailbox' \in [Conns -> Seq(Calls)]
  <2>1. CASE CallSend(k) /\ mailbox' # mailbox
    <3>1. handle[k] \in Conns
      BY <2>1 DEF CallSend, ReplyInv, CallTypeOK
    <3>2. Append(mailbox[handle[k]], k) \in Seq(Calls)
      BY <3>1 DEF ReplyInv, WireTypeOK
    <3> QED
      BY <2>1, <3>1, <3>2 DEF CallSend, ReplyInv, WireTypeOK
  <2>2. CASE UNCHANGED mailbox
    BY <2>2 DEF ReplyInv, WireTypeOK
  <2> QED
    BY <2>1, <2>2 DEF CallStep, CallChoice, CallEnqueue, CallLookup, CallNoHandle, CallReceive,
       CallOuterTimeout, CallClear, CallAbandon
<1>4. WireTypeOK' /\ OutcomeInv'
  BY <1>1, <1>3 DEF ReplyInv, WireTypeOK, OutcomeInv
<1>5. \A kind \in ResultKinds :
        Plain(kind) \in Results /\ Plain(kind).kind = kind
  BY DEF Plain, Results
<1>6. CallTypeOK' /\ AnswerInv'
  <2> USE DEF CallGoto, Drop, Told, ReplyInv, CallTypeOK, AnswerInv
  <2>1. CASE \E p \in Pids : CallEnqueue(k, p)
    <3>1. \/ UNCHANGED result
          \/ \E kind \in {"busy", "notConnected", "receiptUnavailable"} :
               result' = [result EXCEPT ![k] = Plain(kind)]
      BY <2>1 DEF CallEnqueue
    <3>2. /\ UNCHANGED <<handle, reply>>
          /\ \E l \in {"done", "lookup", "clear"} : cpc' = [cpc EXCEPT ![k] = l]
      BY <2>1 DEF CallEnqueue
    <3>3. result' \in [Calls -> Results \cup {NoReply}]
            /\ \A j \in Calls : result'[j] = result[j] \/ result'[j].kind \notin Definite
      BY <1>5, <3>1 DEF ResultKinds, Definite
    <3> QED
      BY <1>2, <3>2, <3>3
  <2>2. CASE CallLookup(k)
    <3>1. cpid[k] \in Pids
      BY <2>2 DEF CallLookup, SessionInv, Located
    <3>2. sessions[cpid[k]] \in Conns \cup {None}
      BY <3>1 DEF SessionInv, CoreTypeOK
    <3> QED
      BY <1>2, <2>2, <3>2 DEF CallLookup
  <2>3. CASE CallNoHandle(k)
    BY <1>2, <1>5, <2>3 DEF CallNoHandle, ResultKinds, Definite
  <2>4. CASE CallSend(k)
    BY <1>2, <1>5, <2>4 DEF CallSend, ResultKinds, ReplyKinds, Definite, NoReply
  <2>5. CASE CallReceive(k)
    <3>1. reply[k] \in Results
      BY <2>5 DEF CallReceive, Reply, Results, ResultKinds
    <3> QED
      BY <1>2, <2>5, <3>1 DEF CallReceive, NoReply, Definite
  <2>6. CASE CallOuterTimeout(k)
    BY <1>2, <1>5, <2>6 DEF CallOuterTimeout, ResultKinds, ReplyKinds, Definite, NoReply
  <2>7. CASE CallClear(k)
    BY <1>2, <2>7 DEF CallClear
  <2>8. CASE CallAbandon(k)
    BY <1>2, <2>8 DEF CallAbandon, NoReply, Definite
  <2> QED
    BY <2>1, <2>2, <2>3, <2>4, <2>5, <2>6, <2>7, <2>8 DEF CallStep, CallChoice
<1> QED
  BY <1>4, <1>6 DEF ReplyInv

\* Nobody has been told anything at the start.
LEMMA ReplyInit == Init => ReplyInv
<1> SUFFICES ASSUME Init PROVE ReplyInv
  OBVIOUS
<1>1. <<>> \in Seq(Calls) /\ <<>> \in Seq(Frames)
  OBVIOUS
<1>2. WireTypeOK
  BY <1>1 DEF Init, WireTypeOK
<1>3. CallTypeOK /\ OutcomeInv /\ AnswerInv
  BY DEF Init, CallTypeOK, OutcomeInv, AnswerInv, NoReply, Definite
<1> QED
  BY <1>2, <1>3 DEF ReplyInv

\* Every step preserves the invariant about replies.
LEMMA ReplyNext == SessionInv /\ ReplyInv /\ [Next]_vars => ReplyInv'
<1> SUFFICES ASSUME SessionInv, ReplyInv, [Next]_vars PROVE ReplyInv'
  OBVIOUS
<1>1. CASE UNCHANGED vars
  BY <1>1 DEF vars, connVars, jobVars, wireVars, callVars, ReplyInv, WireTypeOK, CallTypeOK,
     OutcomeInv, AnswerInv
<1>2. ASSUME NEW c \in Conns, Teardown(c) PROVE ReplyInv'
  BY <1>2, OthersReply, DropReplies DEF Teardown
<1> QED
  BY <1>1, <1>2, ActorReplies, OthersReply, PeerReplies, CallReplies DEF Next

\* Both invariants hold in every reachable state.
LEMMA ReplyInvariant == Spec => [](SessionInv /\ ReplyInv)
<1>1. Init => SessionInv /\ ReplyInv
  BY SessionInit, ReplyInit
<1>2. SessionInv /\ ReplyInv /\ [Next]_vars => SessionInv' /\ ReplyInv'
  BY SessionNext, ReplyNext
<1> QED
  BY <1>1, <1>2, PTL DEF Spec

\* Every reachable state of the sessions is well typed.
THEOREM SessionTypeCorrect == Spec => []TypeOK
<1>1. SessionInv /\ ReplyInv => TypeOK
  BY DEF SessionInv, ReplyInv, CoreTypeOK, Registry, Located, WireTypeOK, CallTypeOK, TypeOK
<1> QED
  BY <1>1, ReplyInvariant, PTL

\* A caller that gets a definite result gets the response to its own request,
\* however many late answers of timed-out calls are still on the wire
\* (wait_for_response, run_job).
THEOREM RepliesAreOwn == Spec => []ReplyIsOwnResponse
<1>1. ReplyInv => ReplyIsOwnResponse
  BY DEF ReplyInv, AnswerInv, ReplyIsOwnResponse, Definite
<1> QED
  BY <1>1, ReplyInvariant, PTL

-----------------------------------------------------------------------------
(* Slots                                                                     *)

\* Whether a call's job is with an actor, queued or running.
HasJob(c, k) == job[c] = k \/ k \in {mailbox[c][i] : i \in 1..Len(mailbox[c])}

\* Replies that only an actor gives which completed its task.
Completed == {"ok", "bridgeError", "timeout"}

\* A slot belongs to a call under way, in the row of its pid.
SlotOwners ==
    \A p \in Pids : \A k \in Slots(registry[p].queue) :
        cpid[k] = p /\ cpc[k] \notin {"idle", "done"}

\* A job goes to an actor of the pid that the call addressed.
JobOwners ==
    /\ \A c \in Conns, k \in Calls : HasJob(c, k) => connPid[c] = cpid[k] /\ cpc[k] # "idle"
    /\ \A k \in Calls : handle[k] # None => connPid[handle[k]] = cpid[k] /\ cpc[k] # "idle"

\* The slot of a running job is in flight or gone, that of a completed one is gone.
RunningOwnsHead ==
    /\ \A c \in Conns : pc[c] \in {"sending", "wire"} =>
         \A p \in Pids : job[c] \notin Pending(registry[p].queue)
    /\ \A c \in Conns : pc[c] = "reply" =>
         \A p \in Pids : job[c] \notin Slots(registry[p].queue)
    /\ \A k \in Calls : reply[k].kind \in Completed =>
         cpc[k] # "idle" /\ \A p \in Pids : k \notin Slots(registry[p].queue)

SlotInv == AllSound(registry) /\ SlotOwners /\ JobOwners /\ RunningOwnsHead

Drained == \A p \in Pids : Drains(registry[p], registry'[p])

\* What a slot's owner is.
LEMMA SlotsAreCalls ==
    ASSUME SessionInv, NEW p \in Pids
    PROVE  /\ Slots(registry[p].queue) \subseteq Calls
           /\ Pending(registry[p].queue) \subseteq Slots(registry[p].queue)
<1>1. registry[p].queue.pending \in Seq(Tasks) /\ registry[p].queue.inFlight \in Tasks \cup {None}
  BY DEF SessionInv, CoreTypeOK, Registry, Entry, TaskQueue
<1> QED
  BY <1>1 DEF Slots, Pending, Calls

\* A step of an actor, of the peer or of a timer: the queues drain, and what an actor
\* newly runs, completes or answers is as the invariant wants it.
LEMMA DrainKeeps ==
    ASSUME SessionInv, ReplyInv, SlotInv, Drained, UNCHANGED <<cpc, cpid, handle>>,
           \A c \in Conns : connPid'[c] = connPid[c] \/ pc[c] = "new",
           \A c \in Conns, k \in Calls : HasJob(c, k)' => HasJob(c, k),
           \A c \in Conns :
               \/ pc'[c] = pc[c] /\ job'[c] = job[c]
               \/ pc'[c] \notin {"sending", "wire", "reply"}
               \/ pc[c] = "sending" /\ pc'[c] = "wire" /\ job'[c] = job[c]
               \/ pc'[c] = "sending" /\ \A p \in Pids : job'[c] \notin Pending(registry'[p].queue)
               \/ pc'[c] = "reply" /\ \A p \in Pids : job'[c] \notin Slots(registry'[p].queue),
           \A k \in Calls :
               \/ reply'[k] = reply[k] \/ reply'[k].kind \notin Completed
               \/ cpc[k] # "idle" /\ \A p \in Pids : k \notin Slots(registry'[p].queue)
    PROVE  SlotInv'
<1>1. /\ AllSound(registry')
      /\ \A p \in Pids : /\ Slots(registry'[p].queue) \subseteq Slots(registry[p].queue)
                         /\ Pending(registry'[p].queue) \subseteq Pending(registry[p].queue)
  BY DEF Drained, Drains, AllSound
<1>2. SlotOwners'
  BY <1>1 DEF SlotInv, SlotOwners
<1>3. \A c \in Conns : pc[c] = "new" => connPid[c] = None
  BY DEF SessionInv, Located
<1>4. \A k \in Calls : cpc[k] # "idle" => cpid[k] # None
  BY NoneAssumption DEF SessionInv, Located
<1>5. JobOwners'
  <2>1. \A c \in Conns, k \in Calls : HasJob(c, k)' => connPid'[c] = cpid[k] /\ cpc[k] # "idle"
    BY <1>3, <1>4 DEF SlotInv, JobOwners
  <2>2. \A k \in Calls : handle[k] # None => connPid'[handle[k]] = cpid[k] /\ cpc[k] # "idle"
    <3> SUFFICES ASSUME NEW k \in Calls, handle[k] # None
                 PROVE  connPid'[handle[k]] = cpid[k] /\ cpc[k] # "idle"
      OBVIOUS
    <3>1. connPid[handle[k]] = cpid[k] /\ cpc[k] # "idle"
      BY DEF SlotInv, JobOwners
    <3>2. handle[k] \in Conns
      BY DEF ReplyInv, CallTypeOK
    <3> QED
      BY <1>3, <1>4, <3>1, <3>2
  <2> QED
    BY <2>1, <2>2 DEF JobOwners
<1>6. RunningOwnsHead'
  BY <1>1 DEF SlotInv, RunningOwnsHead
<1> QED
  BY <1>1, <1>2, <1>5, <1>6 DEF SlotInv

\* Doing nothing to the registry drains it, and so does what goes on.
LEMMA GoingDrains ==
    ASSUME SlotInv, registry' = registry \/ Goes(registry, registry')
    PROVE  Drained
BY RowStaysOrGoes DEF SlotInv, AllSound, Drained, Goes

\* An actor that gives its job up.
LEMMA DisconnectDrains ==
    ASSUME SessionInv, ReplyInv, SlotInv, Drained, NEW c \in Conns, Disconnect(c),
           UNCHANGED <<connPid, mailbox>>
    PROVE  SlotInv'
<1>1. /\ job' = [job EXCEPT ![c] = None] /\ pc' = [pc EXCEPT ![c] = "teardown"]
      /\ Answer({job[c]} \ {None}, Plain("disconnected"))
      /\ UNCHANGED <<cpc, cpid, handle>>
  BY DEF Disconnect, Goto
<1>2. job \in [Conns -> Calls \cup {None}] /\ pc \in [Conns -> ConnPcs]
  BY DEF ReplyInv, WireTypeOK, SessionInv, CoreTypeOK
<1>3. \A d \in Conns, k \in Calls : HasJob(d, k)' => HasJob(d, k)
  BY <1>1, <1>2, NoneAssumption DEF HasJob, Calls
<1>4. \A d \in Conns : (pc'[d] = pc[d] /\ job'[d] = job[d]) \/ pc'[d] = "teardown"
  BY <1>1, <1>2
<1>5. \A k \in Calls : reply'[k] = reply[k] \/ reply'[k].kind \notin Completed
  <2>1. Plain("disconnected").kind = "disconnected"
    BY DEF Plain
  <2> QED
    BY <1>1, <2>1 DEF Answer, Completed
<1> QED
  BY <1>1, <1>3, <1>4, <1>5, DrainKeeps

\* Entering or going round the wait.
LEMMA WaitingDrains ==
    ASSUME SessionInv, ReplyInv, SlotInv, Drained, NEW c \in Conns, NEW l, KeepWaiting(c, l),
           l = pc[c] \/ (pc[c] = "sending" /\ l = "wire"), UNCHANGED <<connPid, mailbox>>
    PROVE  SlotInv'
<1>1. CASE c \in cancelled
  BY <1>1, DisconnectDrains DEF KeepWaiting
<1>2. CASE c \notin cancelled
  <2>1. pc' = [pc EXCEPT ![c] = l] /\ UNCHANGED <<job, cpc, cpid, handle, reply>>
    BY <1>2 DEF KeepWaiting, Goto, callVars
  <2>2. pc \in [Conns -> ConnPcs]
    BY DEF SessionInv, CoreTypeOK
  <2>3. \A d \in Conns : (pc'[d] = pc[d] \/ (pc[d] = "sending" /\ pc'[d] = "wire")) /\ job'[d] = job[d]
    BY <2>1, <2>2
  <2>4. \A d \in Conns, k \in Calls : HasJob(d, k)' => HasJob(d, k)
    BY <2>1 DEF HasJob
  <2> QED
    BY <2>1, <2>3, <2>4, DrainKeeps
<1> QED
  BY <1>1, <1>2

\* A step of one actor that neither runs, completes nor answers a job.
LEMMA PlainDrains ==
    ASSUME SessionInv, ReplyInv, SlotInv, Drained, NEW c \in Conns, NEW l,
           pc' = [pc EXCEPT ![c] = l], l \notin {"sending", "wire", "reply"},
           UNCHANGED <<mailbox, job, cpc, cpid, handle, reply>>,
           \A d \in Conns : connPid'[d] = connPid[d] \/ pc[d] = "new"
    PROVE  SlotInv'
<1>1. pc \in [Conns -> ConnPcs]
  BY DEF SessionInv, CoreTypeOK
<1>2. \A d \in Conns : (pc'[d] = pc[d] /\ job'[d] = job[d]) \/ pc'[d] \notin {"sending", "wire", "reply"}
  BY <1>1
<1>3. \A d \in Conns, k \in Calls : HasJob(d, k)' => HasJob(d, k)
  BY DEF HasJob
<1> QED
  BY <1>2, <1>3, DrainKeeps

\* The completion of a job frees its slot.
LEMMA CompletingDrains ==
    ASSUME SessionInv, ReplyInv, SlotInv, NEW c \in Conns, NEW ok \in BOOLEAN, pc[c] = "wire",
           registry' = CompleteTask(registry, connPid[c], ok), pc' = [pc EXCEPT ![c] = "reply"],
           UNCHANGED <<connPid, mailbox, job, cpc, cpid, handle, reply>>
    PROVE  SlotInv'
<1>1. connPid[c] \in Pids /\ registry \in Registry /\ pc \in [Conns -> ConnPcs]
      /\ job[c] \in Calls
  BY HasPid DEF SessionInv, CoreTypeOK, ReplyInv, WireTypeOK
<1>2. /\ Drained
      /\ Slots(registry'[connPid[c]].queue) = Pending(registry[connPid[c]].queue)
  BY <1>1, CompletionGoes DEF SlotInv, Drained
<1>3. \A p \in Pids : job[c] \notin Slots(registry'[p].queue)
  <2> SUFFICES ASSUME NEW p \in Pids, job[c] \in Slots(registry'[p].queue)
               PROVE  FALSE
    OBVIOUS
  <2>1. job[c] \in Slots(registry[p].queue)
    BY <1>2 DEF Drained, Drains
  <2>2. cpid[job[c]] = p
    BY <2>1 DEF SlotInv, SlotOwners
  <2>3. cpid[job[c]] = connPid[c]
    BY <1>1 DEF SlotInv, JobOwners, HasJob
  <2>4. job[c] \notin Pending(registry[p].queue)
    BY DEF SlotInv, RunningOwnsHead
  <2> QED
    BY <1>2, <2>2, <2>3, <2>4
<1>4. \A d \in Conns : \/ pc'[d] = pc[d] /\ job'[d] = job[d]
                       \/ pc'[d] = "reply" /\ \A p \in Pids : job'[d] \notin Slots(registry'[p].queue)
  BY <1>1, <1>3
<1>5. \A d \in Conns, k \in Calls : HasJob(d, k)' => HasJob(d, k)
  BY DEF HasJob
<1> QED
  BY <1>2, <1>4, <1>5, DrainKeeps

\* Taking a job promotes the slot of the pid, which is that of the job if it is still there.
LEMMA TakingDrains ==
    ASSUME SessionInv, ReplyInv, SlotInv, NEW c \in Conns, ActorTakeJob(c)
    PROVE  SlotInv'
<1>1. /\ pc[c] = "loop" /\ mailbox[c] # <<>>
      /\ job' = [job EXCEPT ![c] = Head(mailbox[c])]
      /\ mailbox' = [mailbox EXCEPT ![c] = Tail(mailbox[c])]
      /\ registry' = StartNext(registry, connPid[c])
      /\ pc' = [pc EXCEPT ![c] = "sending"]
      /\ UNCHANGED <<connPid, cpc, cpid, handle, reply>>
  BY DEF ActorTakeJob, Goto, callVars
<1>2. connPid[c] \in Pids /\ registry \in Registry /\ pc \in [Conns -> ConnPcs]
      /\ mailbox \in [Conns -> Seq(Calls)] /\ job \in [Conns -> Calls \cup {None}]
  BY <1>1, HasPid DEF SessionInv, CoreTypeOK, ReplyInv, WireTypeOK
<1>3. /\ Goes(registry, registry')
      /\ Pending(registry'[connPid[c]].queue) = {}
  BY <1>1, <1>2, QueueStepsGo DEF SlotInv
<1>4. Drained
  BY <1>3, GoingDrains
<1> DEFINE s == mailbox[c]
<1>5. /\ s \in Seq(Calls) /\ s # <<>> /\ Head(s) \in Calls /\ Head(s) = s[1]
      /\ Len(s) \in Nat /\ Len(s) >= 1
      /\ Len(Tail(s)) = Len(s) - 1 /\ \A i \in 1..Len(Tail(s)) : Tail(s)[i] = s[i+1]
  <2>1. s \in Seq(Calls) /\ s # <<>>
    BY <1>1, <1>2
  <2> HIDE DEF s
  <2>2. Head(s) = s[1] /\ Len(s) \in Nat /\ Len(s) >= 1
    BY <2>1, EmptySeq
  <2> QED
    BY <2>1, <2>2, HeadTailProperties
<1> HIDE DEF s
<1>6. {Tail(s)[i] : i \in 1..Len(Tail(s))} \subseteq {s[i] : i \in 1..Len(s)}
      /\ Head(s) \in {s[i] : i \in 1..Len(s)}
  <2>1. \A i \in 1..Len(Tail(s)) : Tail(s)[i] = s[i+1] /\ i + 1 \in 1..Len(s)
    BY <1>5
  <2>2. 1 \in 1..Len(s)
    BY <1>5
  <2> QED
    BY <1>5, <2>1, <2>2
<1>7. /\ job'[c] = Head(s) /\ mailbox'[c] = Tail(s) /\ pc'[c] = "sending"
      /\ \A d \in Conns : d # c => /\ job'[d] = job[d] /\ mailbox'[d] = mailbox[d]
                                   /\ pc'[d] = pc[d]
  BY <1>1, <1>2 DEF s
<1>8. \A d \in Conns, k \in Calls : HasJob(d, k)' => HasJob(d, k)
  <2> SUFFICES ASSUME NEW d \in Conns, NEW k \in Calls, HasJob(d, k)'
               PROVE  HasJob(d, k)
    OBVIOUS
  <2>1. CASE d = c
    <3>1. k = Head(s) \/ k \in {Tail(s)[i] : i \in 1..Len(Tail(s))}
      BY <1>7, <2>1 DEF HasJob
    <3>2. k \in {s[i] : i \in 1..Len(s)}
      BY <1>6, <3>1
    <3> QED
      BY <2>1, <3>2 DEF HasJob, s
  <2>2. CASE d # c
    BY <1>7, <2>2 DEF HasJob
  <2> QED
    BY <2>1, <2>2
<1>9. \A p \in Pids : job'[c] \notin Pending(registry'[p].queue)
  <2> SUFFICES ASSUME NEW p \in Pids, Head(s) \in Pending(registry'[p].queue)
               PROVE  FALSE
    BY <1>7
  <2>1. Head(s) \in Pending(registry[p].queue)
    BY <1>4 DEF Drained, Drains
  <2>2. cpid[Head(s)] = p
    BY <2>1, SlotsAreCalls DEF SlotInv, SlotOwners
  <2>3. HasJob(c, Head(s))
    BY <1>6 DEF HasJob, s
  <2>4. cpid[Head(s)] = connPid[c]
    BY <1>5, <2>3 DEF SlotInv, JobOwners
  <2> QED
    BY <1>3, <2>2, <2>4
<1>10. \A d \in Conns :
         \/ pc'[d] = pc[d] /\ job'[d] = job[d]
         \/ pc'[d] = "sending" /\ \A p \in Pids : job'[d] \notin Pending(registry'[p].queue)
  BY <1>7, <1>9
<1> QED
  BY <1>1, <1>4, <1>8, <1>10, DrainKeeps

\* Every step of an actor.
LEMMA ActorSlots ==
    ASSUME SessionInv, ReplyInv, SlotInv, NEW c \in Conns, ActorStep(c) \/ ActorIdle(c)
    PROVE  SlotInv'
<1>1. pc[c] # "new" => connPid[c] \in Pids /\ gen[c] \in Nat /\ registry \in Registry
  BY HasPid
<1>2. registry' = registry => Drained
  BY GoingDrains
<1>3. CASE ActorCancelled(c) \/ ActorIdle(c)
  BY <1>2, <1>3, PlainDrains
  DEF ActorCancelled, ActorIdle, ActorPing, ActorIdleDead, Goto, jobVars, callVars
<1>4. CASE ActorTakeJob(c)
  BY <1>4, TakingDrains
<1>5. CASE ActorSend(c)
  BY <1>2, <1>5, WaitingDrains DEF ActorSend
<1>6. CASE ActorSendFail(c) \/ ActorWaitDisconnected(c)
  BY <1>2, <1>6, DisconnectDrains DEF ActorSendFail, ActorWaitDisconnected
<1>7. CASE ActorMatched(c)
  <2>1. (Head(inbox[c]).answer = "ok") \in BOOLEAN
    OBVIOUS
  <2>2. /\ pc[c] = "wire" /\ pc' = [pc EXCEPT ![c] = "reply"]
        /\ registry' = CompleteTask(registry, connPid[c], Head(inbox[c]).answer = "ok")
        /\ UNCHANGED <<connPid, mailbox, job, cpc, cpid, handle, reply>>
    BY <1>7 DEF ActorMatched, Receive, Goto, callVars
  <2> QED
    BY <2>1, <2>2, CompletingDrains
<1>8. CASE ActorPong(c)
  <2>1. /\ pc[c] = "ping" /\ UNCHANGED <<connPid, mailbox, job, cpc, cpid, handle, reply>>
        /\ \E l \in {"loop", "teardown"} : pc' = [pc EXCEPT ![c] = l]
    BY <1>8 DEF ActorPong, Receive, Goto, callVars
  <2>2. registry' = registry \/ Goes(registry, registry')
    BY <1>1, <1>8, <2>1, ObservationsGo DEF ActorPong, SlotInv
  <2> QED
    BY <2>1, <2>2, GoingDrains, PlainDrains
<1>9. CASE ActorDiscard(c)
  BY <1>2, <1>9, WaitingDrains DEF ActorDiscard, Receive
<1>10. CASE ActorReady(c)
  <2>1. pc[c] # "new" /\ KeepWaiting(c, pc[c]) /\ UNCHANGED <<connPid, mailbox>>
    BY <1>10 DEF ActorReady, Receive, Awaiting
  <2>2. Goes(registry, registry')
    BY <1>1, <1>10, <2>1, ObservationsGo DEF ActorReady, SlotInv
  <2> QED
    BY <2>1, <2>2, GoingDrains, WaitingDrains
<1>11. CASE ActorUnexpectedRequest(c)
  BY <1>2, <1>11, DisconnectDrains DEF ActorUnexpectedRequest, Receive
<1>12. CASE ActorTimedOut(c)
  <2>1. CASE pc[c] = "ping"
    BY <1>2, <1>12, <2>1, PlainDrains DEF ActorTimedOut, Goto, callVars
  <2>2. CASE pc[c] # "ping"
    <3>1. /\ pc[c] = "wire" /\ pc' = [pc EXCEPT ![c] = "reply"]
          /\ registry' = CompleteTask(registry, connPid[c], FALSE)
          /\ UNCHANGED <<connPid, mailbox, job, cpc, cpid, handle, reply>>
      BY <1>12, <2>2 DEF ActorTimedOut, Awaiting, Goto, callVars
    <3>2. FALSE \in BOOLEAN
      OBVIOUS
    <3> QED
      BY <3>1, <3>2, CompletingDrains
  <2> QED
    BY <2>1, <2>2
<1>13. CASE ActorReply(c)
  <2>1. /\ pc[c] = "reply" /\ pc' = [pc EXCEPT ![c] = "loop"]
        /\ Answer({job[c]}, outcome[c])
        /\ job' = [job EXCEPT ![c] = None]
        /\ UNCHANGED <<registry, connPid, mailbox, cpc, cpid, handle>>
    BY <1>13 DEF ActorReply, Goto
  <2>2. job \in [Conns -> Calls \cup {None}] /\ pc \in [Conns -> ConnPcs] /\ job[c] \in Calls
    BY <2>1 DEF ReplyInv, WireTypeOK, SessionInv, CoreTypeOK
  <2>3. \A d \in Conns, k \in Calls : HasJob(d, k)' => HasJob(d, k)
    BY <2>1, <2>2, NoneAssumption DEF HasJob, Calls
  <2>4. \A d \in Conns : (pc'[d] = pc[d] /\ job'[d] = job[d]) \/ pc'[d] = "loop"
    BY <2>1, <2>2
  <2>5. \A k \in Calls : \/ reply'[k] = reply[k]
                         \/ cpc[k] # "idle" /\ \A p \in Pids : k \notin Slots(registry'[p].queue)
    <3>1. \A p \in Pids : job[c] \notin Slots(registry'[p].queue)
      BY <2>1 DEF SlotInv, RunningOwnsHead
    <3>2. cpc[job[c]] # "idle"
      BY <2>2 DEF SlotInv, JobOwners, HasJob
    <3>3. \A k \in Calls : k # job[c] => reply'[k] = reply[k]
      BY <2>1 DEF Answer
    <3> QED
      BY <3>1, <3>2, <3>3
  <2> QED
    BY <1>2, <2>1, <2>3, <2>4, <2>5, DrainKeeps
<1> QED
  BY <1>3, <1>4, <1>5, <1>6, <1>7, <1>8, <1>9, <1>10, <1>11, <1>12, <1>13 DEF ActorStep

\* Accepting, timers, peers and the owners of children leave jobs and callers alone.
LEMMA AroundSlots ==
    ASSUME SessionInv, ReplyInv, SlotInv,
           \/ \E c \in Conns : Accept(c) \/ TeardownSession(c) \/ TtlElapsed(c) \/ Peer(c)
           \/ \E s \in Spawns : Lifecycle(s)
    PROVE  SlotInv'
<1>1. registry' = registry => Drained
  BY GoingDrains
<1>2. registry \in Registry /\ nextGen + 1 \in Nat /\ connPid \in [Conns -> Pids \cup {None}]
      /\ pc \in [Conns -> ConnPcs]
  BY DEF SessionInv, CoreTypeOK
<1>3. ASSUME Drained, UNCHANGED <<pc, connPid, mailbox, job, cpc, cpid, handle, reply>>
      PROVE  SlotInv'
  <2>1. \A d \in Conns, k \in Calls : HasJob(d, k)' => HasJob(d, k)
    BY <1>3 DEF HasJob
  <2> QED
    BY <1>3, <2>1, DrainKeeps
<1>4. ASSUME NEW c \in Conns, Accept(c) PROVE SlotInv'
  <2>1. CASE \E p \in Pids, f \in Prints : AcceptHandshake(c, p, f)
    <3>1. PICK p \in Pids, f \in Prints : AcceptHandshake(c, p, f)
      BY <2>1
    <3>2. Drained
      BY <1>2, <3>1, HandshakeGoes, GoingDrains DEF AcceptHandshake, SlotInv
    <3>3. /\ pc[c] = "new" /\ pc' = [pc EXCEPT ![c] = "accepted"]
          /\ connPid' = [connPid EXCEPT ![c] = p]
          /\ UNCHANGED <<mailbox, job, cpc, cpid, handle, reply>>
      BY <3>1 DEF AcceptHandshake, Goto, jobVars, callVars
    <3>4. \A d \in Conns : connPid'[d] = connPid[d] \/ pc[d] = "new"
      BY <1>2, <3>3
    <3> QED
      BY <3>2, <3>3, <3>4, PlainDrains
  <2>2. CASE SpawnInsert(c) \/ SpawnCancelPrevious(c)
    BY <1>1, <2>2, PlainDrains DEF SpawnInsert, SpawnCancelPrevious, Goto, jobVars, callVars
  <2> QED
    BY <1>4, <2>1, <2>2 DEF Accept
<1>5. ASSUME NEW c \in Conns, TeardownSession(c) PROVE SlotInv'
  <2>1. \E l \in {"lost", "superseded"} : pc' = [pc EXCEPT ![c] = l]
    BY <1>5 DEF TeardownSession, Goto
  <2>2. UNCHANGED <<registry, connPid, mailbox, job, cpc, cpid, handle, reply>>
    BY <1>5 DEF TeardownSession, jobVars, callVars
  <2> QED
    BY <1>1, <2>1, <2>2, PlainDrains
<1>6. ASSUME NEW c \in Conns, TtlElapsed(c) PROVE SlotInv'
  <2>1. connPid[c] \in Pids
    BY <1>6, HasPid DEF TtlElapsed, SessionInv, Located
  <2>2. Drained
    BY <1>2, <1>6, <2>1, RemovalGoes, GoingDrains DEF TtlElapsed, SlotInv
  <2> QED
    BY <1>3, <1>6, <2>2 DEF TtlElapsed, connVars, jobVars, callVars
<1>7. ASSUME NEW c \in Conns, Peer(c) PROVE SlotInv'
  BY <1>1, <1>3, <1>7
  DEF Peer, PeerAnswer, PeerEvent, PeerClose, PeerSend, connVars, jobVars, callVars
<1>8. ASSUME NEW s \in Spawns, Lifecycle(s) PROVE SlotInv'
  <2>1. CASE \E p \in Pids : SpawnTd(s, p)
    <3>1. PICK p \in Pids : SpawnTd(s, p)
      BY <2>1
    <3>2. Drained
      BY <1>2, <3>1, RegistrationGoes DEF SpawnTd, SlotInv, Drained
    <3> QED
      BY <1>3, <3>1, <3>2 DEF SpawnTd, connVars, jobVars, callVars
  <2>2. CASE ChildExit(s)
    BY <1>1, <1>3, <2>2 DEF ChildExit, connVars, jobVars, callVars
  <2>3. CASE ReapChild(s)
    <3>1. spawned[s] \in Pids
      BY <2>3 DEF ReapChild, SessionInv, Located
    <3>2. \A q \in Pids : Drains(registry[q], RemoveStarting(registry, spawned[s])[q])
      BY <1>2, <3>1, RemovalGoes DEF SlotInv
    <3>3. Drained
      BY <1>1, <2>3, <3>2 DEF ReapChild, Drained
    <3> QED
      BY <1>3, <2>3, <3>3 DEF ReapChild, connVars, jobVars, callVars
  <2> QED
    BY <1>8, <2>1, <2>2, <2>3 DEF Lifecycle
<1> QED
  BY <1>4, <1>5, <1>6, <1>7, <1>8

\* The end of a session drops what its channel held.
LEMMA TeardownSlots ==
    ASSUME SessionInv, ReplyInv, SlotInv, NEW c \in Conns, TeardownLost(c) \/ TeardownSuperseded(c)
    PROVE  SlotInv'
<1>1. /\ pc[c] \in {"lost", "superseded"} /\ pc' = [pc EXCEPT ![c] = "dead"] /\ DropSession(c)
      /\ UNCHANGED connPid
  BY DEF TeardownLost, TeardownSuperseded, Goto
<1>2. connPid[c] \in Pids /\ registry \in Registry /\ pc \in [Conns -> ConnPcs]
  BY <1>1, HasPid DEF SessionInv, CoreTypeOK
<1>3. Drained
  <2>1. Goes(registry, registry')
    BY <1>2, LossGoes, QueueStepsGo DEF TeardownLost, TeardownSuperseded, SlotInv
  <2> QED
    BY <2>1, GoingDrains
<1>4. mailbox' = [mailbox EXCEPT ![c] = <<>>] /\ mailbox \in [Conns -> Seq(Calls)]
      /\ UNCHANGED <<job, cpc, cpid, handle>>
  BY <1>1 DEF DropSession, ReplyInv, WireTypeOK
<1>5. \A d \in Conns, k \in Calls : HasJob(d, k)' => HasJob(d, k)
  <2>1. mailbox'[c] = <<>> /\ \A d \in Conns : d # c => mailbox'[d] = mailbox[d]
    BY <1>4
  <2>2. {mailbox'[c][i] : i \in 1..Len(mailbox'[c])} = {}
    BY <2>1
  <2> QED
    BY <1>4, <2>1, <2>2 DEF HasJob
<1>6. \A d \in Conns : (pc'[d] = pc[d] /\ job'[d] = job[d]) \/ pc'[d] = "dead"
  BY <1>1, <1>2, <1>4
<1>7. \A k \in Calls : reply'[k] = reply[k] \/ reply'[k].kind \notin Completed
  <2>1. Plain("disconnected").kind = "disconnected"
    BY DEF Plain
  <2> QED
    BY <1>1, <2>1 DEF DropSession, Answer, Completed
<1> QED
  BY <1>1, <1>3, <1>4, <1>5, <1>6, <1>7, DrainKeeps

\* A caller moves on, and the queues stay.
LEMMA CallerMoves ==
    ASSUME SessionInv, ReplyInv, SlotInv, NEW k \in Calls, NEW l \in CallPcs,
           cpc[k] # "idle", cpc' = [cpc EXCEPT ![k] = l], l # "idle",
           l = "done" => \A p \in Pids : k \notin Slots(registry[p].queue),
           UNCHANGED <<registry, pc, connPid, mailbox, job, cpid>>,
           \/ UNCHANGED reply
           \/ reply' = [reply EXCEPT ![k] = NoReply],
           \/ UNCHANGED handle
           \/ handle' = [handle EXCEPT ![k] = None]
           \/ \E h : /\ handle' = [handle EXCEPT ![k] = h]
                     /\ h # None => connPid[h] = cpid[k]
    PROVE  SlotInv'
<1>1. /\ cpc \in [Calls -> CallPcs] /\ handle \in [Calls -> Conns \cup {None}]
      /\ reply \in [Calls -> Reply \cup {NoReply}]
  BY DEF SessionInv, Located, ReplyInv, CallTypeOK
<1>2. \A j \in Calls : cpc'[j] = IF j = k THEN l ELSE cpc[j]
  BY <1>1
<1>3. AllSound(registry)' /\ SlotOwners'
  BY <1>2, SlotsAreCalls DEF SlotInv, SlotOwners, AllSound
<1>4. \A j \in Calls : \/ handle'[j] = handle[j]
                       \/ j = k /\ (handle'[k] # None => connPid[handle'[k]] = cpid[k])
  <2>1. CASE UNCHANGED handle
    BY <2>1
  <2>2. CASE handle' = [handle EXCEPT ![k] = None]
    BY <1>1, <2>2
  <2>3. CASE \E h : /\ handle' = [handle EXCEPT ![k] = h]
                    /\ h # None => connPid[h] = cpid[k]
    <3>1. PICK h : /\ handle' = [handle EXCEPT ![k] = h]
                   /\ h # None => connPid[h] = cpid[k]
      BY <2>3
    <3>2. \A j \in Calls : handle'[j] = IF j = k THEN h ELSE handle[j]
      BY <1>1, <3>1
    <3> QED
      BY <3>1, <3>2
  <2> QED
    BY <2>1, <2>2, <2>3
<1>5. JobOwners'
  BY <1>2, <1>4 DEF SlotInv, JobOwners, HasJob
<1>6. \A j \in Calls : reply'[j] = reply[j] \/ reply'[j].kind \notin Completed
  BY <1>1 DEF NoReply, Completed
<1>7. RunningOwnsHead'
  BY <1>2, <1>6 DEF SlotInv, RunningOwnsHead
<1> QED
  BY <1>3, <1>5, <1>7 DEF SlotInv

\* A call takes the only slot of a free queue, or is refused.
LEMMA EnqueueSlots ==
    ASSUME SessionInv, ReplyInv, SlotInv, NEW k \in Calls, NEW p \in Pids, CallEnqueue(k, p)
    PROVE  SlotInv'
<1>1. /\ cpc[k] = "idle" /\ cpid' = [cpid EXCEPT ![k] = p]
      /\ UNCHANGED <<pc, connPid, mailbox, job, handle, reply>>
      /\ \/ UNCHANGED registry
         \/ /\ CanEnqueue(registry, p) /\ registry' = Enqueue(registry, p, k)
            /\ cpc' # [cpc EXCEPT ![k] = "done"]
      /\ \E l \in {"done", "lookup", "clear"} : cpc' = [cpc EXCEPT ![k] = l]
  <2>1. UNCHANGED registry \/ cpc' # [cpc EXCEPT ![k] = "done"]
    BY DEF CallEnqueue, CallGoto, SessionInv, Located
  <2> QED
    BY <2>1 DEF CallEnqueue, CallGoto, CallUnchanged, connVars
<1>2. /\ cpc \in [Calls -> CallPcs] /\ cpid \in [Calls -> Pids \cup {None}]
      /\ registry \in Registry /\ k \in Tasks
  BY DEF SessionInv, Located, CoreTypeOK, Calls
<1>3. \A j \in Calls : j # k => cpc'[j] = cpc[j] /\ cpid'[j] = cpid[j]
  BY <1>1, <1>2
<1>4. cpc'[k] # "idle" /\ cpid'[k] = p /\ (registry' # registry => cpc'[k] # "done")
  BY <1>1, <1>2
<1>5. /\ \A q \in Pids : k \notin Slots(registry[q].queue)
      /\ \A c \in Conns : ~HasJob(c, k)
      /\ handle[k] = None /\ reply[k].kind \notin Completed
  BY <1>1 DEF SlotInv, SlotOwners, JobOwners, RunningOwnsHead
<1>6. /\ AllSound(registry')
      /\ \A q \in Pids : \A j \in Slots(registry'[q].queue) :
           j \in Slots(registry[q].queue) \/ (j = k /\ q = p /\ cpc'[k] # "done")
      /\ \A q \in Pids : \A j \in Pending(registry'[q].queue) :
           j \in Pending(registry[q].queue) \/ j = k
  <2>1. CASE UNCHANGED registry
    BY <2>1 DEF SlotInv
  <2>2. CASE CanEnqueue(registry, p) /\ registry' = Enqueue(registry, p, k) /\ registry' # registry
    <3>1. /\ AllSound(registry')
          /\ Slots(registry'[p].queue) = {k} /\ Pending(registry'[p].queue) = {k}
          /\ \A q \in Pids : q # p => registry'[q] = registry[q]
      <4>1. AllSound(registry) /\ registry' = Enqueue(registry, p, k) /\ CanEnqueue(registry, p)
        BY <2>2 DEF SlotInv
      <4> QED
        BY <1>2, <4>1, EnqueueTakesSlot
    <3> QED
      BY <1>4, <2>2, <3>1
  <2> QED
    BY <1>1, <2>1, <2>2
<1>7. SlotOwners'
  BY <1>3, <1>4, <1>5, <1>6, SlotsAreCalls DEF SlotInv, SlotOwners
<1>8. JobOwners'
  BY <1>1, <1>3, <1>5 DEF SlotInv, JobOwners, HasJob
<1>9. RunningOwnsHead'
  <2>1. \A c \in Conns : pc[c] \in {"sending", "wire", "reply"} => job[c] # k
    BY <1>5 DEF HasJob
  <2> QED
    <3>1. \A c \in Conns : pc[c] \in {"sending", "wire"} =>
            \A q \in Pids : job[c] \notin Pending(registry'[q].queue)
      BY <1>6, <2>1 DEF SlotInv, RunningOwnsHead
    <3>2. \A c \in Conns : pc[c] = "reply" =>
            \A q \in Pids : job[c] \notin Slots(registry'[q].queue)
      BY <1>6, <2>1 DEF SlotInv, RunningOwnsHead
    <3>3. \A j \in Calls : reply[j].kind \in Completed =>
            cpc'[j] # "idle" /\ \A q \in Pids : j \notin Slots(registry'[q].queue)
      BY <1>3, <1>4, <1>5, <1>6 DEF SlotInv, RunningOwnsHead
    <3> QED
      BY <1>1, <3>1, <3>2, <3>3 DEF RunningOwnsHead
<1> QED
  BY <1>6, <1>7, <1>8, <1>9 DEF SlotInv

\* Every step of a caller.
LEMMA CallSlots ==
    ASSUME SessionInv, ReplyInv, SlotInv, NEW k \in Calls, CallStep(k) \/ CallChoice(k)
    PROVE  SlotInv'
<1>1. CASE \E p \in Pids : CallEnqueue(k, p)
  BY <1>1, EnqueueSlots
<1>2. CASE CallLookup(k)
  <2>1. /\ cpc[k] = "lookup" /\ handle' = [handle EXCEPT ![k] = sessions[cpid[k]]]
        /\ \E l \in {"noHandle", "send"} : cpc' = [cpc EXCEPT ![k] = l]
        /\ UNCHANGED <<registry, pc, connPid, mailbox, job, cpid, reply>>
    BY <1>2 DEF CallLookup, CallGoto, CallUnchanged, connVars
  <2>2. sessions[cpid[k]] # None => connPid[sessions[cpid[k]]] = cpid[k]
    BY <2>1 DEF SessionInv, Located, MapInv
  <2>3. "noHandle" \in CallPcs /\ "send" \in CallPcs
    BY DEF CallPcs
  <2> QED
    BY <2>1, <2>2, <2>3, CallerMoves
<1>3. CASE CallNoHandle(k)
  <2>1. /\ cpc[k] = "noHandle" /\ UNCHANGED <<registry, pc, connPid, mailbox, job, cpid, handle, reply>>
        /\ \/ cpc' = [cpc EXCEPT ![k] = "clear"]
           \/ registry[cpid[k]].bridge = "Absent" /\ cpc' = [cpc EXCEPT ![k] = "done"]
    BY <1>3 DEF CallNoHandle, CallGoto, CallUnchanged, connVars
  <2>2. cpid[k] \in Pids
    BY <2>1 DEF SessionInv, Located
  <2>3. ASSUME registry[cpid[k]].bridge = "Absent", NEW p \in Pids
        PROVE  k \notin Slots(registry[p].queue)
    <3>1. Slots(registry[cpid[k]].queue) = {}
      BY <2>2, <2>3, NewQueueIsEmpty DEF SlotInv, AllSound, Sound, AbsentEntry
    <3> QED
      BY <3>1 DEF SlotInv, SlotOwners
  <2>4. "clear" \in CallPcs /\ "done" \in CallPcs
    BY DEF CallPcs
  <2> QED
    BY <2>1, <2>3, <2>4, CallerMoves
<1>4. CASE CallSend(k)
  <2>1. /\ cpc[k] = "send" /\ UNCHANGED <<registry, pc, connPid, job, cpid>>
        /\ handle[k] \in Conns
    BY <1>4 DEF CallSend, CallUnchanged, connVars, ReplyInv, CallTypeOK
  <2>2. CASE pc[handle[k]] = "dead"
    <3>1. /\ cpc' = [cpc EXCEPT ![k] = "clear"] /\ UNCHANGED mailbox
          /\ handle' = [handle EXCEPT ![k] = None] /\ reply' = [reply EXCEPT ![k] = NoReply]
      BY <1>4, <2>2 DEF CallSend, Drop, CallGoto
    <3>2. "clear" \in CallPcs
      BY DEF CallPcs
    <3> QED
      BY <2>1, <3>1, <3>2, CallerMoves
  <2>3. CASE pc[handle[k]] # "dead"
    <3> DEFINE h == handle[k]
    <3>1. /\ cpc' = [cpc EXCEPT ![k] = "waiting"] /\ UNCHANGED <<handle, reply>>
          /\ mailbox' = [mailbox EXCEPT ![h] = Append(mailbox[h], k)]
      BY <1>4, <2>3 DEF CallSend, CallGoto
    <3>2. cpc \in [Calls -> CallPcs] /\ mailbox \in [Conns -> Seq(Calls)]
      BY DEF SessionInv, Located, ReplyInv, WireTypeOK
    <3>3. \A j \in Calls : cpc'[j] = IF j = k THEN "waiting" ELSE cpc[j]
      BY <3>1, <3>2
    <3>4. connPid[h] = cpid[k]
      BY <2>1, NoneAssumption DEF SlotInv, JobOwners
    <3>5. \A c \in Conns, j \in Calls : HasJob(c, j)' => HasJob(c, j) \/ (c = h /\ j = k)
      <4> SUFFICES ASSUME NEW c \in Conns, NEW j \in Calls, HasJob(c, j)', j # k
                   PROVE  HasJob(c, j)
        BY <2>1, <3>1, <3>2 DEF HasJob
      <4>1. CASE c = h
        <5> DEFINE s == mailbox[h]
        <5>1. mailbox'[c] = Append(s, k) /\ s \in Seq(Calls)
          BY <2>1, <3>1, <3>2, <4>1
        <5> HIDE DEF s
        <5>2. \A i \in 1..Len(Append(s, k)) :
                Append(s, k)[i] = k \/ (i \in 1..Len(s) /\ Append(s, k)[i] = s[i])
          BY <5>1
        <5>3. j \in {Append(s, k)[i] : i \in 1..Len(Append(s, k))} => j \in {s[i] : i \in 1..Len(s)}
          BY <5>2
        <5> QED
          BY <2>1, <4>1, <5>1, <5>3 DEF HasJob, s
      <4>2. CASE c # h
        BY <2>1, <3>1, <3>2, <4>2 DEF HasJob
      <4> QED
        BY <4>1, <4>2
    <3> HIDE DEF h
    <3>6. AllSound(registry)' /\ SlotOwners'
      BY <2>1, <3>3, SlotsAreCalls DEF SlotInv, SlotOwners, AllSound
    <3>7. JobOwners'
      BY <2>1, <3>1, <3>3, <3>4, <3>5 DEF SlotInv, JobOwners
    <3>8. RunningOwnsHead'
      BY <2>1, <3>1, <3>3 DEF SlotInv, RunningOwnsHead
    <3> QED
      BY <3>6, <3>7, <3>8 DEF SlotInv
  <2> QED
    BY <2>2, <2>3
<1>5. CASE CallReceive(k)
  <2>1. /\ cpc[k] = "waiting" /\ reply[k] # NoReply
        /\ handle' = [handle EXCEPT ![k] = None] /\ reply' = [reply EXCEPT ![k] = NoReply]
        /\ UNCHANGED <<registry, pc, connPid, mailbox, job, cpid>>
        /\ \/ cpc' = [cpc EXCEPT ![k] = "clear"]
           \/ reply[k].kind # "disconnected" /\ cpc' = [cpc EXCEPT ![k] = "done"]
    BY <1>5 DEF CallReceive, Drop, CallGoto, CallUnchanged, connVars
  <2>2. reply[k].kind # "disconnected" => reply[k].kind \in Completed
    BY <2>1 DEF ReplyInv, CallTypeOK, Reply, ReplyKinds, Completed
  <2>3. "clear" \in CallPcs /\ "done" \in CallPcs
    BY DEF CallPcs
  <2>4. reply[k].kind # "disconnected" => \A p \in Pids : k \notin Slots(registry[p].queue)
    BY <2>2 DEF SlotInv, RunningOwnsHead
  <2> QED
    BY <2>1, <2>3, <2>4, CallerMoves
<1>6. CASE CallOuterTimeout(k) \/ CallAbandon(k)
  <2>1. /\ cpc[k] # "idle"
        /\ handle' = [handle EXCEPT ![k] = None] /\ reply' = [reply EXCEPT ![k] = NoReply]
        /\ UNCHANGED <<registry, pc, connPid, mailbox, job, cpid>>
        /\ \E l \in {"clear", "abandoned"} : cpc' = [cpc EXCEPT ![k] = l]
    BY <1>6 DEF CallOuterTimeout, CallAbandon, Drop, CallGoto, CallUnchanged, connVars
  <2>2. "clear" \in CallPcs /\ "abandoned" \in CallPcs
    BY DEF CallPcs
  <2> QED
    BY <2>1, <2>2, CallerMoves
<1>7. CASE CallClear(k)
  <2>1. /\ cpc[k] = "clear" /\ cpc' = [cpc EXCEPT ![k] = "done"]
        /\ registry' = CancelQueueKeepConnected(registry, cpid[k])
        /\ UNCHANGED <<pc, connPid, mailbox, job, cpid, handle, reply>>
    BY <1>7 DEF CallClear, CallGoto, CallUnchanged, connVars
  <2>2. cpid[k] \in Pids /\ registry \in Registry /\ cpc \in [Calls -> CallPcs]
    BY <2>1 DEF SessionInv, Located, CoreTypeOK
  <2>3. /\ Goes(registry, registry') /\ Slots(registry'[cpid[k]].queue) = {}
    BY <2>1, <2>2, QueueStepsGo DEF SlotInv
  <2>4. /\ AllSound(registry')
        /\ \A p \in Pids : /\ Slots(registry'[p].queue) \subseteq Slots(registry[p].queue)
                           /\ Pending(registry'[p].queue) \subseteq Pending(registry[p].queue)
    BY <2>3 DEF Goes, Drains, AllSound
  <2>5. \A j \in Calls : cpc'[j] = IF j = k THEN "done" ELSE cpc[j]
    BY <2>1, <2>2
  <2>6. \A p \in Pids : k \notin Slots(registry'[p].queue)
    BY <2>3, <2>4 DEF SlotInv, SlotOwners
  <2>7. SlotOwners'
    BY <2>1, <2>4, <2>5, <2>6, SlotsAreCalls DEF SlotInv, SlotOwners
  <2>8. JobOwners'
    BY <2>1, <2>5 DEF SlotInv, JobOwners, HasJob
  <2>9. RunningOwnsHead'
    <3>1. \A c \in Conns : pc[c] \in {"sending", "wire"} =>
            \A q \in Pids : job[c] \notin Pending(registry'[q].queue)
      BY <2>4 DEF SlotInv, RunningOwnsHead
    <3>2. \A c \in Conns : pc[c] = "reply" =>
            \A q \in Pids : job[c] \notin Slots(registry'[q].queue)
      BY <2>4 DEF SlotInv, RunningOwnsHead
    <3>3. \A j \in Calls : reply[j].kind \in Completed =>
            cpc'[j] # "idle" /\ \A q \in Pids : j \notin Slots(registry'[q].queue)
      BY <2>4, <2>5 DEF SlotInv, RunningOwnsHead
    <3> QED
      BY <2>1, <3>1, <3>2, <3>3 DEF RunningOwnsHead
  <2> QED
    BY <2>4, <2>7, <2>8, <2>9 DEF SlotInv
<1> QED
  BY <1>1, <1>2, <1>3, <1>4, <1>5, <1>6, <1>7 DEF CallStep, CallChoice

\* No call has a slot at the start.
LEMMA SlotInit == Init => SlotInv
<1> SUFFICES ASSUME Init PROVE SlotInv
  OBVIOUS
<1>1. /\ \A p \in Pids : registry[p] = AbsentEntry
      /\ \A c \in Conns : pc[c] = "new" /\ mailbox[c] = <<>> /\ job[c] = None
      /\ \A k \in Calls : handle[k] = None /\ reply[k] = NoReply
  BY DEF Init
<1>2. AbsentEntry.queue = NewQueue
  BY DEF AbsentEntry
<1>3. AllSound(registry) /\ SlotOwners
  BY <1>1, <1>2, NewQueueIsEmpty DEF AllSound, SlotOwners
<1>4. JobOwners
  BY <1>1, NoneAssumption DEF JobOwners, HasJob, Calls
<1>5. RunningOwnsHead
  BY <1>1 DEF RunningOwnsHead, NoReply, Completed
<1> QED
  BY <1>3, <1>4, <1>5 DEF SlotInv

\* Every step preserves the invariant about slots.
LEMMA SlotNext == SessionInv /\ ReplyInv /\ SlotInv /\ [Next]_vars => SlotInv'
<1> SUFFICES ASSUME SessionInv, ReplyInv, SlotInv, [Next]_vars PROVE SlotInv'
  OBVIOUS
<1>1. CASE UNCHANGED vars
  BY <1>1 DEF vars, connVars, jobVars, callVars, SlotInv, AllSound, SlotOwners, JobOwners,
     RunningOwnsHead, HasJob
<1>2. ASSUME NEW c \in Conns, Teardown(c) PROVE SlotInv'
  BY <1>2, AroundSlots, TeardownSlots DEF Teardown
<1> QED
  BY <1>1, <1>2, ActorSlots, AroundSlots, CallSlots DEF Next

\* The three invariants hold in every reachable state.
LEMMA SlotInvariant == Spec => [](SessionInv /\ ReplyInv /\ SlotInv)
<1>1. Init => SessionInv /\ ReplyInv /\ SlotInv
  BY SessionInit, ReplyInit, SlotInit
<1>2. SessionInv /\ ReplyInv /\ SlotInv /\ [Next]_vars => SessionInv' /\ ReplyInv' /\ SlotInv'
  BY SessionNext, ReplyNext, SlotNext
<1> QED
  BY <1>1, <1>2, PTL DEF Spec

\* No finished call leaves a queue slot behind: whoever was answered by an actor
\* had its slot completed, and whoever was not has cleared the queue of its pid
\* (enqueue_and_call, complete_task, cancel_queue_keep_connected).
THEOREM SlotsEndWithTheirCalls == Spec => []NoSlotOutlivesItsCall
<1>1. SessionInv /\ SlotInv => NoSlotOutlivesItsCall
  BY SlotsAreCalls DEF SlotInv, SlotOwners, NoSlotOutlivesItsCall
<1> QED
  BY <1>1, SlotInvariant, PTL

-----------------------------------------------------------------------------
(* What a step does to the rows                                              *)

\* An actor completes its job; only a success is recorded as one.
Completes(c) ==
    /\ pc[c] = "wire" /\ pc'[c] = "reply" /\ connPid[c] \in Pids
    /\ \E ok \in BOOLEAN : /\ registry' = CompleteTask(registry, connPid[c], ok)
                           /\ ok => outcome'[c].kind = "ok"

\* Every step of the system leaves the rows going on, completes a job, takes a
\* slot, registers a child or removes one.
RowsMove ==
    \/ Goes(registry, registry') /\ (UNCHANGED spawnVars \/ \E s \in Spawns : ChildExit(s))
    \/ (\E c \in Conns : Completes(c)) /\ UNCHANGED spawnVars
    \/ /\ \E k \in Calls, p \in Pids : /\ CanEnqueue(registry, p)
                                      /\ registry' = Enqueue(registry, p, k)
       /\ UNCHANGED spawnVars
    \/ \E s \in Spawns, p \in Pids : SpawnTd(s, p)
    \/ \E s \in Spawns : ReapChild(s)

\* An actor completes its job or lets the rows go on.
LEMMA ActorRows ==
    ASSUME SessionInv, ReplyInv, SlotInv, NEW c \in Conns, ActorStep(c) \/ ActorIdle(c)
    PROVE  Goes(registry, registry') \/ Completes(c)
<1>1. pc[c] # "new" => connPid[c] \in Pids /\ registry \in Registry
  BY HasPid
<1>2. Goes(registry, registry)
  BY RowStaysOrGoes DEF SlotInv, AllSound, Goes
<1>3. CASE registry' = registry
  BY <1>2, <1>3
<1>4. CASE ActorTakeJob(c)
  BY <1>1, <1>4, QueueStepsGo DEF ActorTakeJob, SlotInv
<1>5. CASE ActorMatched(c)
  <2> DEFINE m == Head(inbox[c])
             ok == m.answer = "ok"
  <2>1. /\ pc[c] = "wire" /\ pc' = [pc EXCEPT ![c] = "reply"]
        /\ registry' = CompleteTask(registry, connPid[c], ok)
        /\ outcome' = [outcome EXCEPT ![c] = ReplyFor(m)]
    BY <1>5 DEF ActorMatched, Goto
  <2>2. pc'[c] = "reply" /\ outcome'[c] = ReplyFor(m) /\ ok \in BOOLEAN
    BY <2>1 DEF SessionInv, CoreTypeOK, ReplyInv, WireTypeOK
  <2>3. ok => outcome'[c].kind = "ok"
    BY <2>2 DEF ReplyFor
  <2> HIDE DEF ok
  <2> QED
    BY <1>1, <2>1, <2>2, <2>3 DEF Completes
<1>6. CASE ActorPong(c)
  BY <1>1, <1>2, <1>6, ObservationsGo DEF ActorPong, SlotInv
<1>7. CASE ActorReady(c)
  BY <1>1, <1>7, ObservationsGo DEF ActorReady, Receive, Awaiting, SlotInv
<1>8. CASE ActorTimedOut(c)
  <2>1. CASE registry' = registry
    BY <1>2, <2>1
  <2>2. CASE pc[c] # "ping"
    <3>1. pc[c] = "wire" /\ pc' = [pc EXCEPT ![c] = "reply"]
          /\ registry' = CompleteTask(registry, connPid[c], FALSE)
      BY <1>8, <2>2 DEF ActorTimedOut, Awaiting, Goto
    <3>2. pc'[c] = "reply" /\ FALSE \in BOOLEAN
      BY <3>1 DEF SessionInv, CoreTypeOK
    <3> QED
      BY <1>1, <3>1, <3>2 DEF Completes
  <2> QED
    BY <1>8, <2>1, <2>2 DEF ActorTimedOut
<1> QED
  BY <1>3, <1>4, <1>5, <1>6, <1>7, <1>8
  DEF ActorStep, ActorIdle, ActorCancelled, ActorSend, ActorSendFail, ActorDiscard,
      ActorUnexpectedRequest, ActorWaitDisconnected, ActorReply, ActorPing, ActorIdleDead

\* What each step of the system does to the rows.
LEMMA StepRows ==
    ASSUME SessionInv, ReplyInv, SlotInv, [Next]_vars
    PROVE  RowsMove
<1>1. Goes(registry, registry)
  BY RowStaysOrGoes DEF SlotInv, AllSound, Goes
<1>2. registry \in Registry /\ nextGen + 1 \in Nat
  BY DEF SessionInv, CoreTypeOK
<1>3. ASSUME NEW c \in Conns, Accept(c) PROVE RowsMove
  <2>1. UNCHANGED spawnVars
    BY <1>3 DEF Accept, AcceptHandshake, SpawnInsert, SpawnCancelPrevious
  <2>2. Goes(registry, registry')
    BY <1>1, <1>2, <1>3, HandshakeGoes
    DEF Accept, AcceptHandshake, SpawnInsert, SpawnCancelPrevious, SlotInv
  <2> QED
    BY <2>1, <2>2 DEF RowsMove
<1>4. ASSUME NEW c \in Conns, ActorStep(c) \/ ActorIdle(c) PROVE RowsMove
  <2>1. UNCHANGED spawnVars
    BY <1>4 DEF ActorStep, ActorIdle, ActorCancelled, ActorTakeJob, ActorSend, ActorSendFail,
       ActorMatched, ActorPong, ActorDiscard, ActorReady, ActorUnexpectedRequest,
       ActorWaitDisconnected, ActorTimedOut, ActorReply, ActorPing, ActorIdleDead, Receive
  <2> QED
    BY <1>4, <2>1, ActorRows DEF RowsMove
<1>5. ASSUME NEW c \in Conns, Teardown(c) \/ TtlElapsed(c) PROVE RowsMove
  <2>1. UNCHANGED spawnVars
    BY <1>5 DEF Teardown, TeardownSession, TeardownLost, TeardownSuperseded, TtlElapsed
  <2>2. CASE UNCHANGED registry
    BY <1>1, <2>1, <2>2 DEF RowsMove
  <2>3. CASE registry' # registry
    <3>1. connPid[c] \in Pids
      BY <1>5, <2>3, HasPid
      DEF Teardown, TeardownSession, TeardownLost, TeardownSuperseded, TtlElapsed, SessionInv, Located
    <3>2. Goes(registry, registry')
      BY <1>2, <1>5, <2>3, <3>1, LossGoes, QueueStepsGo, RemovalGoes
      DEF Teardown, TeardownSession, TeardownLost, TeardownSuperseded, TtlElapsed, SlotInv
    <3> QED
      BY <2>1, <3>2 DEF RowsMove
  <2> QED
    BY <2>2, <2>3
<1>6. ASSUME NEW c \in Conns, Peer(c) PROVE RowsMove
  BY <1>1, <1>6 DEF Peer, PeerAnswer, PeerEvent, PeerClose, PeerSend, RowsMove
<1>7. ASSUME NEW k \in Calls, CallStep(k) \/ CallChoice(k) PROVE RowsMove
  <2>1. UNCHANGED spawnVars
    BY <1>7 DEF CallStep, CallChoice, CallLookup, CallNoHandle, CallSend, CallReceive, CallClear,
       CallEnqueue, CallOuterTimeout, CallAbandon, CallUnchanged
  <2>2. CASE UNCHANGED registry
    BY <1>1, <2>1, <2>2 DEF RowsMove
  <2>3. CASE \E p \in Pids : CallEnqueue(k, p) /\ registry' # registry
    BY <2>1, <2>3 DEF CallEnqueue, RowsMove
  <2>4. CASE CallClear(k)
    <3>1. cpid[k] \in Pids
      BY <2>4 DEF CallClear, SessionInv, Located
    <3>2. Goes(registry, registry')
      BY <1>2, <2>4, <3>1, QueueStepsGo DEF CallClear, SlotInv
    <3> QED
      BY <2>1, <3>2 DEF RowsMove
  <2> QED
    BY <1>7, <2>2, <2>3, <2>4 DEF CallStep, CallChoice, CallLookup, CallNoHandle, CallSend,
       CallReceive, CallOuterTimeout, CallAbandon
<1>8. ASSUME NEW s \in Spawns, Lifecycle(s) PROVE RowsMove
  BY <1>1, <1>8 DEF Lifecycle, ChildExit, RowsMove
<1>9. CASE UNCHANGED vars
  BY <1>1, <1>9 DEF vars, RowsMove
<1> QED
  BY <1>3, <1>4, <1>5, <1>6, <1>7, <1>8, <1>9 DEF Next

\* The trace of cancelled tasks of a row goes only with a success of its pid,
\* with the row or with its process (complete_task, remember_cancelled_tasks,
\* on_handshake).
THEOREM TraceIsKept == Spec => TraceKeptUntilSuccess
<1> DEFINE Kept(p) ==
        LET e == registry[p]
            e2 == registry'[p]
        IN  e.cancelled # <<>> /\ e2.cancelled = <<>> =>
              \/ e2.bridge \in {"Absent", "Starting"}
              \/ ~Matches(e.print, e2.print)
              \/ \E c \in Conns : /\ connPid[c] = p
                                   /\ pc[c] = "wire" /\ pc'[c] = "reply"
                                   /\ outcome'[c].kind = "ok"
<1>1. ASSUME SessionInv, ReplyInv, SlotInv, [Next]_vars, NEW p \in Pids PROVE Kept(p)
  <2>1. registry \in Registry /\ AllSound(registry)
    BY <1>1 DEF SessionInv, CoreTypeOK, SlotInv
  <2>2. CASE Remembers(registry[p], registry'[p])
    BY <2>2 DEF Remembers
  <2>3. CASE Goes(registry, registry')
    BY <2>2, <2>3 DEF Goes
  <2>4. ASSUME NEW c \in Conns, Completes(c) PROVE Kept(p)
    <3>1. PICK ok \in BOOLEAN : /\ registry' = CompleteTask(registry, connPid[c], ok)
                                /\ ok => outcome'[c].kind = "ok"
      BY <2>4 DEF Completes
    <3>2. p # connPid[c] \/ ~ok => Remembers(registry[p], registry'[p])
      BY <2>1, <2>4, <3>1, CompletionGoes DEF Completes
    <3> QED
      BY <2>2, <2>4, <3>1, <3>2 DEF Completes
  <2>5. ASSUME NEW k \in Calls, NEW q \in Pids, CanEnqueue(registry, q), registry' = Enqueue(registry, q, k)
        PROVE  Kept(p)
    <3>1. k \in Tasks
      BY DEF Calls
    <3>2. registry'[p].cancelled = registry[p].cancelled
      BY <2>1, <2>5, <3>1, EnqueueTakesSlot
    <3> QED
      BY <3>2
  <2>6. ASSUME NEW s \in Spawns, NEW q \in Pids, SpawnTd(s, q) PROVE Kept(p)
    BY <2>1, <2>2, <2>6, RegistrationGoes DEF SpawnTd
  <2>7. ASSUME NEW s \in Spawns, ReapChild(s) PROVE Kept(p)
    <3>1. spawned[s] \in Pids
      BY <1>1, <2>7 DEF ReapChild, SessionInv, Located
    <3>2. Remembers(registry[p], registry'[p])
      BY <2>1, <2>7, <3>1, RemovalGoes, RowStaysOrGoes DEF ReapChild, AllSound
    <3> QED
      BY <2>2, <3>2
  <2> QED
    BY <1>1, <2>3, <2>4, <2>5, <2>6, <2>7, StepRows DEF RowsMove
<1>2. SessionInv /\ ReplyInv /\ SlotInv /\ [Next]_vars => [\A p \in Pids : Kept(p)]_vars
  BY <1>1
<1> QED
  BY <1>2, SlotInvariant, PTL DEF Spec, TraceKeptUntilSuccess

-----------------------------------------------------------------------------
(* Rows of launched children                                                 *)

\* A Starting row carries the record of the child launched under its pid.
StartInv ==
    \A p \in Pids : registry[p].bridge = "Starting" =>
        /\ registry[p].spawn \in Spawns
        /\ spawned[registry[p].spawn] = p
        /\ spc[registry[p].spawn] \in {"running", "exited"}

\* A row that did not become Starting and kept its record.
LEMMA StartKeeps ==
    ASSUME SessionInv, StartInv, \A p \in Pids : StaysOwned(registry[p], registry'[p]),
           UNCHANGED spawnVars \/ \E s \in Spawns : ChildExit(s)
    PROVE  StartInv'
<1>1. UNCHANGED spawned /\ \A s \in Spawns : spc[s] \in {"running", "exited"} => spc'[s] \in {"running", "exited"}
  BY DEF ChildExit, spawnVars, SessionInv, Located
<1>2. \A p \in Pids : registry'[p].bridge = "Starting" =>
        registry[p].bridge = "Starting" /\ registry'[p].spawn = registry[p].spawn
  BY DEF StaysOwned
<1> QED
  BY <1>1, <1>2 DEF StartInv

\* A step that neither registers a child nor removes one.
LEMMA OtherRowsStayOwned ==
    ASSUME SessionInv, SlotInv,
           \/ Goes(registry, registry')
           \/ \E c \in Conns : Completes(c)
           \/ \E k \in Calls, p \in Pids : CanEnqueue(registry, p) /\ registry' = Enqueue(registry, p, k)
    PROVE  \A p \in Pids : StaysOwned(registry[p], registry'[p])
<1>1. registry \in Registry /\ AllSound(registry)
  BY DEF SessionInv, CoreTypeOK, SlotInv
<1>2. CASE Goes(registry, registry')
  BY <1>2 DEF Goes
<1>3. ASSUME NEW c \in Conns, Completes(c)
      PROVE  \A p \in Pids : StaysOwned(registry[p], registry'[p])
  BY <1>1, <1>3, CompletionGoes DEF Completes
<1>4. ASSUME NEW k \in Calls, NEW q \in Pids, CanEnqueue(registry, q), registry' = Enqueue(registry, q, k)
      PROVE  \A p \in Pids : StaysOwned(registry[p], registry'[p])
  <2>1. k \in Tasks
    BY DEF Calls
  <2>2. \A p \in Pids : registry'[p].bridge = registry[p].bridge /\ registry'[p].spawn = registry[p].spawn
    BY <1>1, <1>4, <2>1, EnqueueTakesSlot
  <2> QED
    BY <2>2 DEF StaysOwned
<1> QED
  BY <1>2, <1>3, <1>4

\* What a removal does: only the row with the record of the child goes.
LEMMA RemovedRow ==
    ASSUME SessionInv, SlotInv, NEW s \in Spawns, ReapChild(s)
    PROVE  /\ UNCHANGED spawned /\ spc[s] = "exited" /\ spc' = [spc EXCEPT ![s] = "reaped"]
           /\ \A p \in Pids : \/ registry'[p] = registry[p]
                              \/ /\ p = spawned[s] /\ registry[p].spawn = s
                                 /\ registry'[p].bridge # "Starting"
           /\ registry[spawned[s]].spawn = s => registry'[spawned[s]].bridge # "Starting"
<1>1. registry \in Registry /\ AllSound(registry) /\ spawned[s] \in Pids
  BY DEF SessionInv, CoreTypeOK, SlotInv, Located, ReapChild
<1>2. CASE registry[spawned[s]].spawn = s
  BY <1>1, <1>2, RemovalGoes DEF ReapChild
<1>3. CASE registry[spawned[s]].spawn # s
  BY <1>3 DEF ReapChild
<1> QED
  BY <1>2, <1>3

\* Every step preserves the invariant about Starting rows.
LEMMA StartingNext == SessionInv /\ ReplyInv /\ SlotInv /\ StartInv /\ [Next]_vars => StartInv'
<1> SUFFICES ASSUME SessionInv, ReplyInv, SlotInv, StartInv, [Next]_vars PROVE StartInv'
  OBVIOUS
<1>1. registry \in Registry /\ AllSound(registry) /\ spc \in [Spawns -> {"unused", "running", "exited", "reaped"}]
      /\ spawned \in [Spawns -> Pids \cup {None}]
  BY DEF SessionInv, CoreTypeOK, SlotInv, Located
<1>2. ASSUME NEW s \in Spawns, NEW p \in Pids, SpawnTd(s, p) PROVE StartInv'
  <2>1. /\ spc[s] = "unused" /\ spawned' = [spawned EXCEPT ![s] = p]
        /\ spc' = [spc EXCEPT ![s] = "running"] /\ registry' = RegisterStarting(registry, p, s)
    BY <1>2 DEF SpawnTd
  <2>2. /\ \A q \in Pids : q # p => registry'[q] = registry[q]
        /\ registry'[p].bridge = "Starting" => registry'[p].spawn = s
    BY <1>1, <2>1, RegistrationGoes
  <2>3. /\ spawned'[s] = p /\ spc'[s] = "running"
        /\ \A t \in Spawns : t # s => spawned'[t] = spawned[t] /\ spc'[t] = spc[t]
    BY <1>1, <2>1
  <2>4. \A q \in Pids : registry[q].bridge = "Starting" => registry[q].spawn # s
    BY <2>1 DEF StartInv
  <2> QED
    BY <2>2, <2>3, <2>4 DEF StartInv
<1>3. ASSUME NEW s \in Spawns, ReapChild(s) PROVE StartInv'
  <2>1. \A t \in Spawns : t # s => spc'[t] = spc[t]
    BY <1>1, <1>3, RemovedRow
  <2>2. ASSUME NEW p \in Pids, registry'[p].bridge = "Starting"
        PROVE  registry'[p] = registry[p] /\ registry[p].spawn # s
    <3>1. registry'[p] = registry[p]
      BY <1>3, <2>2, RemovedRow
    <3>2. registry[p].spawn = s => p = spawned[s]
      BY <2>2, <3>1 DEF StartInv
    <3> QED
      BY <1>3, <2>2, <3>1, <3>2, RemovedRow
  <2> QED
    BY <1>3, <2>1, <2>2, RemovedRow DEF StartInv
<1>4. CASE \A p \in Pids : StaysOwned(registry[p], registry'[p]) /\ (UNCHANGED spawnVars \/ \E s \in Spawns : ChildExit(s))
  <2>1. CASE Pids = {}
    BY <2>1 DEF StartInv
  <2> QED
    BY <1>4, <2>1, StartKeeps
<1> QED
  BY <1>2, <1>3, <1>4, StepRows, OtherRowsStayOwned DEF RowsMove

\* A Starting row goes before its handshake only when the owner of that very
\* child collected its exit, or when the number is given to a new child after
\* that exit (register_starting, remove_starting, the reaper of spawn_td).
THEOREM StartingRowsAreOwned == Spec => StartingRowIsOwned
<1> DEFINE Owned(p) ==
        LET e == registry[p]
        IN  e.bridge = "Starting" /\ registry'[p].spawn # e.spawn => spc[e.spawn] = "exited"
<1>1. Init => StartInv
  BY AbsentIsEntry DEF Init, StartInv
<1>2. ASSUME SessionInv, ReplyInv, SlotInv, StartInv, [Next]_vars, NEW p \in Pids PROVE Owned(p)
  <2>1. registry \in Registry /\ AllSound(registry)
    BY <1>2 DEF SessionInv, CoreTypeOK, SlotInv
  <2>2. ASSUME StaysOwned(registry[p], registry'[p]) PROVE Owned(p)
    BY <2>2 DEF StaysOwned
  <2>3. ASSUME NEW s \in Spawns, NEW q \in Pids, SpawnTd(s, q) PROVE Owned(p)
    <3>1. q # p => registry'[p] = registry[p]
      BY <2>1, <2>3, RegistrationGoes DEF SpawnTd
    <3>2. \A t \in Spawns : spawned[t] = q => spc[t] # "running"
      BY <2>3 DEF SpawnTd
    <3> QED
      BY <1>2, <3>1, <3>2 DEF StartInv
  <2>4. ASSUME NEW s \in Spawns, ReapChild(s) PROVE Owned(p)
    BY <1>2, <2>4, RemovedRow
  <2> QED
    BY <1>2, <2>2, <2>3, <2>4, StepRows, OtherRowsStayOwned DEF RowsMove
<1>3. SessionInv /\ ReplyInv /\ SlotInv /\ StartInv /\ [Next]_vars => [\A p \in Pids : Owned(p)]_vars
  BY <1>2
<1>4. SessionInv /\ ReplyInv /\ SlotInv /\ StartInv /\ [Next]_vars => StartInv'
  BY StartingNext
<1> QED
  BY <1>1, <1>3, <1>4, SlotInvariant, PTL DEF Spec, StartingRowIsOwned
=============================================================================
