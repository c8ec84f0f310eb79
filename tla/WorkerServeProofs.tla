------------------------- MODULE WorkerServeProofs -------------------------
(***************************************************************************)
(* Proofs about WorkerServe, for any number of listeners, connections and   *)
(* requests, any assignment of ports, any quota.                            *)
(***************************************************************************)
EXTENDS WorkerServe, FiniteSetTheorems, TLAPS

HeldBy(f) == {r \in Reqs : f[r] \in Held}

-----------------------------------------------------------------------------
(* The counter and the guards.                                              *)

\* Handing a new guard to a request adds one to the number of live guards.
LEMMA GuardTaken ==
    ASSUME NEW f, NEW r \in Reqs, f = [q \in Reqs |-> f[q]],
           f[r] \notin Held, NEW x \in Held
    PROVE  /\ IsFiniteSet(HeldBy(f))
           /\ Cardinality(HeldBy([f EXCEPT ![r] = x])) = Cardinality(HeldBy(f)) + 1
<1>1. IsFiniteSet(HeldBy(f))
  BY ReqsAssumption, FS_Subset, HeldBy(f) \subseteq Reqs DEF HeldBy
<1>2. HeldBy([f EXCEPT ![r] = x]) = HeldBy(f) \cup {r}
  BY DEF HeldBy
<1>3. r \notin HeldBy(f)
  BY DEF HeldBy
<1> QED
  BY <1>1, <1>2, <1>3, FS_AddElement

\* Dropping a live guard takes one away, and there was one to take.
LEMMA GuardDropped ==
    ASSUME NEW f, NEW r \in Reqs, f = [q \in Reqs |-> f[q]],
           f[r] \in Held, NEW x, x \notin Held
    PROVE  /\ Cardinality(HeldBy(f)) \in Nat \ {0}
           /\ Cardinality(HeldBy([f EXCEPT ![r] = x])) = Cardinality(HeldBy(f)) - 1
<1>1. IsFiniteSet(HeldBy(f))
  BY ReqsAssumption, FS_Subset, HeldBy(f) \subseteq Reqs DEF HeldBy
<1>2. HeldBy([f EXCEPT ![r] = x]) = HeldBy(f) \ {r}
  BY DEF HeldBy
<1>3. r \in HeldBy(f)
  BY DEF HeldBy
<1>4. Cardinality(HeldBy(f) \ {r}) = Cardinality(HeldBy(f)) - 1
  BY <1>1, <1>3, FS_RemoveElement
<1>5. Cardinality(HeldBy(f)) \in Nat /\ Cardinality(HeldBy(f)) # 0
  BY <1>1, <1>3, FS_CardinalityType, FS_EmptySet
<1> QED
  BY <1>2, <1>4, <1>5

\* Passing a guard on leaves the number of live guards as it is.
LEMMA GuardMoved ==
    ASSUME NEW f, NEW r \in Reqs, f = [q \in Reqs |-> f[q]],
           f[r] \in Held, NEW x \in Held
    PROVE  HeldBy([f EXCEPT ![r] = x]) = HeldBy(f)
BY DEF HeldBy

-----------------------------------------------------------------------------
(* The inductive invariant.                                                 *)

\* The guard is with the handler exactly while the handler runs.
GuardStage ==
    \A r \in Reqs : /\ guard[r] = "handler" <=> stage[r] = "handling"
                    /\ stage[r] \in {"new", "refused", "checked"} => guard[r] = "none"

\* A connection serves a request only while it is open, no request is served
\* by two connections, and none is forgotten before it is over.
Serving ==
    /\ \A c \in Conns : cur[c] # NoReq =>
          conn[c] = "open" /\ stage[cur[c]] \notin {"new", "over"}
    /\ \A c, d \in Conns : c # d /\ cur[c] = cur[d] => cur[c] = NoReq
    /\ \A r \in Reqs : stage[r] \notin {"new", "over"} => \E c \in Conns : cur[c] = r

\* An accept loop in a handshake is in exactly one, and none runs once the
\* drain has begun; no connection task is left when serve has returned.
Accepting ==
    /\ \A c \in Conns : conn[c] = "handshake" => acc[Port[c]] = "handshake"
    /\ \A c, d \in Conns : c # d /\ conn[c] = "handshake" /\ conn[d] = "handshake"
          => Port[c] # Port[d]
    /\ main \in {"draining", "sleeping", "reaping", "done"} =>
          \A l \in Listeners : acc[l] = "exited"
    /\ main = "done" => \A c \in Conns : conn[c] # "open"

\* serve() leaves its wait only after a trigger: until there is one it is
\* registered, and no accept loop deregisters it.
Told ==
    /\ main = "waiting" /\ ~flag => "main" \in waiters
    /\ main \notin {"starting", "waiting"} => flag

\* A request that was cut off is over.
CutIsOver == \A r \in Reqs : out[r] = "aborted" => stage[r] = "over"

IInv == /\ TypeOK /\ GuardStage /\ InFlightCountsGuards /\ Serving /\ Accepting
        /\ Told /\ CutIsOver

LEMMA InitIInv == Init => IInv
<1> SUFFICES ASSUME Init PROVE IInv
  OBVIOUS
<1>1. TypeOK
  BY DEF Init, TypeOK
<1>2. InFlightCountsGuards
  <2>1. {r \in Reqs : guard[r] \in Held} = {}
    BY DEF Init, Held
  <2> QED
    BY <2>1, FS_EmptySet DEF Init, InFlightCountsGuards
<1>3. GuardStage /\ Serving /\ Accepting /\ Told /\ CutIsOver
  BY DEF Init, GuardStage, Serving, Accepting, Told, CutIsOver
<1> QED
  BY <1>1, <1>2, <1>3 DEF IInv

\* Steps that touch neither the requests nor the connections.
LEMMA ControlStep ==
    ASSUME IInv,
           MainNext \/ DeadlinePasses \/ WatchNext \/ HeartbeatTick \/ UNCHANGED vars
             \/ (\E s \in Signals : SignalArrives(s)) \/ ParentDies \/ MarkedNotAlive
    PROVE  IInv'
<1> USE DEF IInv, shutdownVars, mainVars, taskVars, netVars, reqVars, vars
<1>1. UNCHANGED <<netVars, reqVars>>
  BY DEF MainNext, MainRegister, MainWake, MainJoin, DrainAgain, DrainSleep,
         DrainEnd, DeadlinePasses, MainDone, WatchNext, WatchTerm, WatchQuick,
         WatchDone, HeartbeatTick, SignalArrives, ParentDies, MarkedNotAlive
<1>2. TypeOK'
  <2>1. /\ flag' \in BOOLEAN /\ quick' \in BOOLEAN /\ deadline' \in BOOLEAN
        /\ orphaned' \in BOOLEAN /\ alive' \in BOOLEAN
    BY Zenon DEF TypeOK, MainNext, MainRegister, MainWake, MainJoin, DrainAgain,
          DrainSleep, DrainEnd, DeadlinePasses, MainDone, Wait, WatchNext, WatchTerm,
          WatchQuick, WatchDone, HeartbeatTick, Trigger, SignalArrives, ParentDies,
          MarkedNotAlive
  <2>2. /\ waiters' \subseteq (Listeners \cup {"main"}) /\ sigs' \subseteq Signals
    BY DEF TypeOK, MainNext, MainRegister, MainWake, MainJoin, DrainAgain,
          DrainSleep, DrainEnd, DeadlinePasses, MainDone, Wait, WatchNext, WatchTerm,
          WatchQuick, WatchDone, HeartbeatTick, Trigger, SignalArrives, ParentDies,
          MarkedNotAlive
  <2>3. /\ main' \in {"starting", "waiting", "joining", "draining", "sleeping",
                       "reaping", "done"}
        /\ kind' \in {"none", "graceful", "quick"} /\ ended' \in {"no", "idle", "timeout"}
        /\ watcher' \in {"watching", "triggered", "exited"}
        /\ heartbeat' \in {"ticking", "exited"}
    BY DEF TypeOK, MainNext, MainRegister, MainWake, MainJoin, DrainAgain,
          DrainSleep, DrainEnd, DeadlinePasses, MainDone, WatchNext, WatchTerm,
          WatchQuick, WatchDone, HeartbeatTick, SignalArrives, ParentDies,
          MarkedNotAlive
  <2> QED
    BY <1>1, <2>1, <2>2, <2>3 DEF TypeOK
<1>3. GuardStage' /\ InFlightCountsGuards' /\ Serving'
  BY <1>1 DEF GuardStage, InFlightCountsGuards, Serving
<1>4. Accepting'
  <2>1. CASE MainNext
    BY <2>1, <1>1 DEF Accepting, MainNext, MainRegister, MainWake, MainJoin,
          DrainAgain, DrainSleep, DrainEnd, MainDone
  <2>2. CASE UNCHANGED main
    BY <2>2, <1>1 DEF Accepting
  <2> QED
    BY <2>1, <2>2 DEF DeadlinePasses, WatchNext, WatchTerm, WatchQuick, WatchDone,
          HeartbeatTick, SignalArrives, ParentDies, MarkedNotAlive
<1>5. Told'
  BY DEF TypeOK, Told, MainNext, MainRegister, MainWake, MainJoin, DrainAgain,
         DrainSleep, DrainEnd, DeadlinePasses, MainDone, Wait, WatchNext, WatchTerm,
         WatchQuick, WatchDone, HeartbeatTick, Trigger, SignalArrives, ParentDies,
         MarkedNotAlive
<1>6. CutIsOver'
  BY <1>1 DEF CutIsOver
<1> QED
  BY <1>2, <1>3, <1>4, <1>5, <1>6

\* Steps of the accept loops and of clients that connect.
LEMMA AcceptStep ==
    ASSUME IInv,
           (\E l \in Listeners : AcceptNext(l)) \/ (\E c \in Conns : ClientConnects(c))
    PROVE  IInv'
<1> USE ListenersAssumption, ConnsAssumption
    DEF IInv, shutdownVars, mainVars, taskVars, netVars, reqVars
<1>1. UNCHANGED <<reqVars, cur, mainVars, taskVars>>
  BY DEF AcceptNext, CheckFlag, Park, Woken, Accept, AcceptError, HandshakeEnd,
         ClientConnects
<1>2. TypeOK'
  BY <1>1 DEF TypeOK, AcceptNext, CheckFlag, Park, Woken, Accept, AcceptError,
         HandshakeEnd, ClientConnects, Wait
<1>3. GuardStage' /\ InFlightCountsGuards'
  BY <1>1 DEF GuardStage, InFlightCountsGuards
<1>4. \A c \in Conns : conn[c] = "open" => conn'[c] = "open"
  BY DEF TypeOK, AcceptNext, CheckFlag, Park, Woken, Accept, AcceptError,
         HandshakeEnd, ClientConnects
<1>5. Serving'
  BY <1>1, <1>4 DEF Serving
<1>6. Accepting'
  <2>1. CASE \E c \in Conns : ClientConnects(c)
    BY <2>1 DEF Accepting, TypeOK, ClientConnects
  <2>2. ASSUME NEW l \in Listeners, CheckFlag(l) \/ Park(l) \/ Woken(l) \/ AcceptError(l)
        PROVE  Accepting'
    BY <2>2 DEF Accepting, TypeOK, CheckFlag, Park, Woken, AcceptError
  <2>3. ASSUME NEW l \in Listeners, NEW c \in Conns, Accept(l, c)
        PROVE  Accepting'
    BY <2>3 DEF Accepting, TypeOK, Accept
  <2>4. ASSUME NEW l \in Listeners, NEW c \in Conns, HandshakeEnd(l, c)
        PROVE  Accepting'
    BY <2>4 DEF Accepting, TypeOK, HandshakeEnd
  <2> QED
    BY <2>1, <2>2, <2>3, <2>4 DEF AcceptNext
<1>7. Told'
  BY <1>1 DEF Told, AcceptNext, CheckFlag, Park, Woken, Accept, AcceptError,
         HandshakeEnd, ClientConnects, Wait
<1>8. CutIsOver'
  BY <1>1 DEF CutIsOver
<1> QED
  BY <1>2, <1>3, <1>5, <1>6, <1>7, <1>8

\* Steps of a connection task that neither create nor drop a guard.
LEMMA ServiceStep ==
    ASSUME IInv, NEW c \in Conns, NEW r \in Reqs,
           \/ RequestArrives(c, r) \/ StartResponder(c, r) \/ StartDriver(c, r)
           \/ CountCompleted(c, r) \/ Flush(c, r)
    PROVE  IInv'
<1> USE ReqsAssumption DEF IInv
<1>1. InFlightCountsGuards'
  <2>1. CASE UNCHANGED <<guard, inFlight>>
    BY <2>1 DEF InFlightCountsGuards
  <2>2. CASE StartResponder(c, r) \/ StartDriver(c, r)
    <3>1. guard[r] \in Held
      BY <2>2 DEF StartResponder, StartDriver, GuardStage, Held
    <3>2. PICK x \in Held : guard' = [guard EXCEPT ![r] = x]
      BY <2>2 DEF StartResponder, StartDriver, Held
    <3>3. HeldBy(guard') = HeldBy(guard)
      BY <3>1, <3>2, GuardMoved DEF TypeOK
    <3> QED
      BY <2>2, <3>3 DEF StartResponder, StartDriver, InFlightCountsGuards, HeldBy
  <2> QED
    BY <2>1, <2>2 DEF RequestArrives, CountCompleted, Flush
<1>2. TypeOK'
  <2>1. /\ flag' \in BOOLEAN /\ quick' \in BOOLEAN
        /\ waiters' \subseteq (Listeners \cup {"main"})
    <3>1. CASE UNCHANGED shutdownVars
      BY <3>1 DEF TypeOK, shutdownVars
    <3>2. CASE Trigger("graceful")
      <4>1. flag' \in BOOLEAN /\ quick' \in BOOLEAN
        BY <3>2, Zenon DEF TypeOK, Trigger
      <4>2. waiters' \subseteq (Listeners \cup {"main"})
        BY <3>2 DEF TypeOK, Trigger
      <4> QED
        BY <4>1, <4>2
    <3> QED
      BY <3>1, <3>2 DEF RequestArrives, StartResponder, StartDriver, CountCompleted, Flush
  <2>2. UNCHANGED <<mainVars, taskVars, acc>>
    BY DEF RequestArrives, StartResponder, StartDriver, CountCompleted, Flush, netVars
  <2>3. /\ conn' \in [Conns -> {"away", "backlog", "handshake", "open", "closed"}]
        /\ cur' \in [Conns -> Reqs \cup {NoReq}]
    BY DEF TypeOK, RequestArrives, StartResponder, StartDriver, CountCompleted, Flush, netVars
  <2>4. /\ stage' \in [Reqs -> {"new", "refused", "checked", "handling", "handled",
                                "responded", "over"}]
        /\ guard' \in [Reqs -> {"none", "handler", "responder", "driver", "dropped",
                                "finished"}]
        /\ out' \in [Reqs -> {"none", "streaming", "buffered", "sent", "gone", "aborted"}]
        /\ inFlight' \in Nat /\ completed' \in Nat
    BY DEF TypeOK, RequestArrives, StartResponder, StartDriver, CountCompleted, Flush
  <2> QED
    BY <2>1, <2>2, <2>3, <2>4 DEF TypeOK, mainVars, taskVars
<1>3. GuardStage'
  BY DEF TypeOK, GuardStage, RequestArrives, StartResponder, StartDriver,
         CountCompleted, Flush
<1>4. Serving'
  BY DEF TypeOK, Serving, RequestArrives, StartResponder, StartDriver,
         CountCompleted, Flush, netVars
<1>5. Accepting'
  BY DEF TypeOK, Accepting, Serving, RequestArrives, StartResponder, StartDriver,
         CountCompleted, Flush, netVars, mainVars
<1>6. Told'
  BY DEF TypeOK, Told, RequestArrives, StartResponder, StartDriver,
         CountCompleted, Flush, Trigger, shutdownVars, mainVars
<1>7. CutIsOver'
  BY DEF TypeOK, CutIsOver, RequestArrives, StartResponder, StartDriver,
         CountCompleted, Flush
<1> QED
  BY <1>1, <1>2, <1>3, <1>4, <1>5, <1>6, <1>7

\* A guard is created: the handler is entered.
LEMMA EnterStep ==
    ASSUME IInv, NEW c \in Conns, NEW r \in Reqs, EnterHandler(c, r)
    PROVE  IInv'
<1> USE ReqsAssumption DEF IInv, EnterHandler, shutdownVars, mainVars, taskVars, netVars
<1>1. InFlightCountsGuards'
  <2>1. guard[r] \notin Held
    BY DEF GuardStage, Held
  <2>2. Cardinality(HeldBy(guard')) = Cardinality(HeldBy(guard)) + 1
    BY <2>1, GuardTaken DEF TypeOK, Held
  <2> QED
    BY <2>2 DEF InFlightCountsGuards, HeldBy
<1>2. TypeOK'
  BY DEF TypeOK
<1>3. GuardStage' /\ Serving' /\ Accepting' /\ Told' /\ CutIsOver'
  BY DEF TypeOK, GuardStage, Serving, Accepting, Told, CutIsOver
<1> QED
  BY <1>1, <1>2, <1>3

\* A guard is dropped: the handler returns, or a responder or driver ends.
LEMMA ReleaseStep ==
    ASSUME IInv, NEW r \in Reqs,
           (\E c \in Conns : RespondEarly(c, r)) \/ ResponderEnd(r) \/ DriverEnd(r)
    PROVE  IInv'
<1> USE ReqsAssumption
    DEF IInv, RespondEarly, ResponderEnd, DriverEnd, shutdownVars, mainVars, taskVars, netVars
<1>1. guard[r] \in Held
  BY DEF GuardStage, Held
<1>2. PICK x : x \notin Held /\ guard' = [guard EXCEPT ![r] = x]
  BY DEF Held
<1>3. /\ Cardinality(HeldBy(guard)) \in Nat \ {0}
      /\ Cardinality(HeldBy(guard')) = Cardinality(HeldBy(guard)) - 1
  <2>1. guard = [q \in Reqs |-> guard[q]]
    BY DEF TypeOK
  <2> HIDE DEF IInv, RespondEarly, ResponderEnd, DriverEnd
  <2> QED
    BY <2>1, <1>1, <1>2, GuardDropped
<1>4. InFlightCountsGuards' /\ inFlight' \in Nat
  BY <1>3 DEF InFlightCountsGuards, HeldBy
<1>5. TypeOK'
  BY <1>4 DEF TypeOK
<1>6. GuardStage' /\ Serving' /\ Accepting'
  BY DEF TypeOK, GuardStage, Serving, Accepting
<1>7. Told' /\ CutIsOver'
  BY DEF TypeOK, Told, CutIsOver
<1> QED
  BY <1>4, <1>5, <1>6, <1>7

\* A connection task ends, and the handler it was running with it.
LEMMA DropStep ==
    ASSUME IInv, NEW c \in Conns, NEW how \in {"gone", "aborted"}, Drop(c, how)
    PROVE  IInv'
<1> USE ReqsAssumption DEF IInv, Drop, shutdownVars, mainVars, taskVars
<1> DEFINE r == cur[c]
<1>1. InFlightCountsGuards' /\ inFlight' \in Nat
  <2>1. CASE UNCHANGED <<guard, inFlight>>
    BY <2>1 DEF InFlightCountsGuards, TypeOK
  <2>2. CASE r # NoReq /\ guard[r] = "handler"
    <3>1. r \in Reqs /\ guard[r] \in Held /\ "dropped" \notin Held
      BY <2>2 DEF TypeOK, Held
    <3>2. /\ Cardinality(HeldBy(guard)) \in Nat \ {0}
          /\ Cardinality(HeldBy([guard EXCEPT ![r] = "dropped"]))
                = Cardinality(HeldBy(guard)) - 1
      <4>1. guard = [q \in Reqs |-> guard[q]]
        BY DEF TypeOK
      <4> HIDE DEF IInv, Drop, r
      <4> QED
        BY <3>1, <4>1, GuardDropped
    <3>3. guard' = [guard EXCEPT ![r] = "dropped"] /\ inFlight' = inFlight - 1
      BY <2>2
    <3> QED
      BY <3>2, <3>3 DEF InFlightCountsGuards, HeldBy
  <2> QED
    BY <2>1, <2>2 DEF reqVars
<1>2. TypeOK'
  BY <1>1 DEF TypeOK, reqVars
<1>3. GuardStage'
  BY DEF TypeOK, GuardStage, Serving, reqVars
<1>4. Serving'
  BY DEF TypeOK, GuardStage, Serving, reqVars
<1>5. Accepting'
  BY DEF TypeOK, Accepting
<1>6. Told' /\ CutIsOver'
  BY DEF TypeOK, Told, CutIsOver, reqVars
<1> QED
  BY <1>1, <1>2, <1>3, <1>4, <1>5, <1>6

LEMMA NextIInv == IInv /\ [Next]_vars => IInv'
<1> SUFFICES ASSUME IInv, [Next]_vars PROVE IInv'
  OBVIOUS
<1>1. CASE \/ MainNext \/ DeadlinePasses \/ WatchNext \/ HeartbeatTick
           \/ UNCHANGED vars \/ Environment
  BY <1>1, ControlStep, AcceptStep DEF Environment
<1>2. CASE \E l \in Listeners : AcceptNext(l)
  BY <1>2, AcceptStep
<1>3. CASE \E c \in Conns, r \in Reqs : ServiceNext(c, r)
  BY <1>3, ServiceStep, EnterStep, ReleaseStep DEF ServiceNext
<1>4. CASE \E r \in Reqs : ResponderEnd(r) \/ DriverEnd(r)
  BY <1>4, ReleaseStep
<1>5. CASE \E c \in Conns : ClientLeaves(c) \/ AbortConn(c)
  BY <1>5, DropStep DEF ClientLeaves, AbortConn
<1> QED
  BY <1>1, <1>2, <1>3, <1>4, <1>5 DEF Next

LEMMA Invariance == Spec => []IInv
<1> QED
  BY InitIInv, NextIInv, PTL DEF Spec

-----------------------------------------------------------------------------
(* The theorems.                                                            *)

\* Every variable keeps its type; above all the unsigned in_flight counter
\* never goes below zero.
THEOREM TypeCorrect == Spec => []TypeOK
<1>1. IInv => TypeOK
  BY DEF IInv
<1> QED
  BY <1>1, Invariance, PTL

\* The counter that the drain reads is the number of live FlightGuards.
THEOREM CounterCorrect == Spec => []InFlightCountsGuards
<1>1. IInv => InFlightCountsGuards
  BY DEF IInv
<1> QED
  BY <1>1, Invariance, PTL

\* A guard the handler holds is released with the connection task it runs in.
THEOREM GuardsOwned == Spec => []GuardHasOwner
<1>1. IInv => GuardHasOwner
  <2> SUFFICES ASSUME IInv, NEW r \in Reqs, guard[r] = "handler"
               PROVE  \E c \in Conns : /\ conn[c] = "open" /\ cur[c] = r
                                       /\ \A d \in Conns \ {c} : cur[d] # r
    BY DEF GuardHasOwner
  <2>1. PICK c \in Conns : cur[c] = r
    BY DEF IInv, GuardStage, Serving
  <2>2. conn[c] = "open" /\ \A d \in Conns \ {c} : cur[d] # r
    BY <2>1, ReqsAssumption DEF IInv, Serving
  <2> QED
    BY <2>1, <2>2
<1> QED
  BY <1>1, Invariance, PTL

\* No connection is spawned behind the drain and none outlives serve().
THEOREM ConnectionsEnd == Spec => []NoConnectionOutlivesServe
<1>1. IInv => NoConnectionOutlivesServe
  <2> SUFFICES ASSUME IInv PROVE NoConnectionOutlivesServe
    OBVIOUS
  <2>1. \A c \in Conns : Port[c] \in Listeners
    BY ConnsAssumption
  <2> QED
    BY <2>1 DEF IInv, Accepting, NoConnectionOutlivesServe
<1> QED
  BY <1>1, Invariance, PTL

\* A trigger is never taken back.
LEMMA FlagStays == flag /\ [Next]_vars => flag'
BY DEF Next, MainNext, MainRegister, MainWake, MainJoin, DrainAgain, DrainSleep,
       DrainEnd, DeadlinePasses, MainDone, Wait, WatchNext, WatchTerm, WatchQuick,
       WatchDone, HeartbeatTick, Trigger, Environment, ClientConnects, SignalArrives,
       ParentDies, MarkedNotAlive, AcceptNext, CheckFlag, Park, Woken, Accept,
       AcceptError, HandshakeEnd, ServiceNext, RequestArrives, EnterHandler,
       RespondEarly, StartResponder, StartDriver, CountCompleted, Flush, ResponderEnd,
       DriverEnd, ClientLeaves, AbortConn, Drop, vars, shutdownVars

-----------------------------------------------------------------------------
(* The quota.  Requests past the look at the flag are not counted yet; each  *)
(* is the current one of its connection, and none joins them once the flag  *)
(* is set.                                                                  *)

Uncounted == {c \in Conns : /\ cur[c] # NoReq
                            /\ stage[cur[c]] \in {"checked", "handling", "handled"}}

Quota == MaxRequests > 0 =>
    /\ ~flag => completed < MaxRequests
    /\ completed + Cardinality(Uncounted) < MaxRequests + Cardinality(Conns)

\* A subset of the connections is no larger than another that contains it.
LEMMA FewerConns ==
    ASSUME NEW S, NEW T, S \subseteq T, T \subseteq Conns
    PROVE  /\ Cardinality(S) \in Nat /\ Cardinality(T) \in Nat
           /\ Cardinality(S) <= Cardinality(T)
<1>1. IsFiniteSet(T)
  BY ConnsAssumption, FS_Subset
<1>2. IsFiniteSet(S) /\ Cardinality(S) <= Cardinality(T)
  BY <1>1, FS_Subset
<1> QED
  BY <1>1, <1>2, FS_CardinalityType

LEMMA InitQuota == Init => Quota
<1> SUFFICES ASSUME Init, MaxRequests > 0 PROVE Quota
  BY DEF Quota
<1>1. Uncounted = {} /\ Uncounted \subseteq Conns
  BY DEF Init, Uncounted
<1>2. Cardinality(Uncounted) \in Nat /\ Cardinality(Conns) \in Nat
      /\ Cardinality(Uncounted) <= Cardinality(Conns)
  BY <1>1, FewerConns
<1>3. completed = 0
  BY DEF Init
<1> QED
  BY <1>2, <1>3, QuotaAssumption DEF Quota

\* Counting a request takes its connection out of the uncounted ones.
LEMMA CountStep ==
    ASSUME IInv, Quota, NEW c \in Conns, NEW r \in Reqs, CountCompleted(c, r)
    PROVE  Quota'
<1> SUFFICES ASSUME MaxRequests > 0 PROVE Quota'
  BY DEF Quota
<1>1. c \in Uncounted
  BY ReqsAssumption DEF CountCompleted, Uncounted
<1>2. Uncounted' \subseteq Uncounted \ {c}
  BY ReqsAssumption DEF IInv, TypeOK, CountCompleted, Uncounted, netVars
<1>3. Uncounted \subseteq Conns /\ IsFiniteSet(Uncounted)
  <2>1. Uncounted \subseteq Conns
    BY DEF Uncounted
  <2> QED
    BY <2>1, ConnsAssumption, FS_Subset
<1>4. /\ Cardinality(Uncounted \ {c}) = Cardinality(Uncounted) - 1
      /\ Cardinality(Uncounted) \in Nat
  BY <1>1, <1>3, FS_RemoveElement, FS_CardinalityType
<1>5. /\ Cardinality(Uncounted') \in Nat
      /\ Cardinality(Uncounted') <= Cardinality(Uncounted) - 1
  <2>1. Uncounted \ {c} \subseteq Conns
    BY <1>3
  <2>2. /\ Cardinality(Uncounted') \in Nat
        /\ Cardinality(Uncounted') <= Cardinality(Uncounted \ {c})
    BY <1>2, <2>1, FewerConns
  <2> QED
    BY <1>4, <2>2
<1>6. Cardinality(Conns) \in Nat
  BY ConnsAssumption, FS_CardinalityType
<1>7. completed' = completed + 1 /\ completed \in Nat
  BY DEF CountCompleted, IInv, TypeOK
<1>8. completed' + Cardinality(Uncounted') < MaxRequests + Cardinality(Conns)
  BY <1>4, <1>5, <1>6, <1>7, QuotaAssumption DEF Quota
<1>9. ~flag' => completed' < MaxRequests
  <2>1. CASE completed + 1 >= MaxRequests
    BY <2>1 DEF CountCompleted, Trigger
  <2>2. CASE ~(completed + 1 >= MaxRequests)
    BY <2>2, <1>7, QuotaAssumption
  <2> QED
    BY <2>1, <2>2
<1> QED
  BY <1>8, <1>9 DEF Quota

\* No other step counts one, and only a request that saw no flag joins.
LEMMA OtherStep ==
    ASSUME IInv, Quota, [Next]_vars,
           ~ \E c \in Conns, r \in Reqs : CountCompleted(c, r)
    PROVE  Quota'
<1> SUFFICES ASSUME MaxRequests > 0 PROVE Quota'
  BY DEF Quota
<1>1. UNCHANGED completed
  BY DEF Next, MainNext, MainRegister, MainWake, MainJoin, DrainAgain, DrainSleep,
         DrainEnd, DeadlinePasses, MainDone, WatchNext, WatchTerm, WatchQuick,
         WatchDone, HeartbeatTick, Environment, ClientConnects, SignalArrives,
         ParentDies, MarkedNotAlive, AcceptNext, CheckFlag, Park, Woken, Accept,
         AcceptError, HandshakeEnd, ServiceNext, RequestArrives, EnterHandler,
         RespondEarly, StartResponder, StartDriver, Flush, ResponderEnd, DriverEnd,
         ClientLeaves, AbortConn, Drop, vars, reqVars
<1>2. completed \in Nat /\ Cardinality(Conns) \in Nat
  BY ConnsAssumption, FS_CardinalityType DEF IInv, TypeOK
<1>3. Uncounted \subseteq Conns /\ Uncounted' \subseteq Conns
  BY DEF Uncounted
<1>4. CASE ~flag
  <2>1. completed' < MaxRequests
    BY <1>1, <1>4 DEF Quota
  <2>2. Cardinality(Uncounted') \in Nat /\ Cardinality(Uncounted') <= Cardinality(Conns)
    BY <1>3, FewerConns
  <2> QED
    BY <1>1, <1>2, <2>1, <2>2, QuotaAssumption DEF Quota
<1>5. CASE flag
  <2>1. Uncounted' \subseteq Uncounted
    <3>1. CASE UNCHANGED <<cur, stage>>
      BY <3>1 DEF Uncounted
    <3>2. ASSUME NEW c \in Conns, NEW r \in Reqs, ServiceNext(c, r)
          PROVE  Uncounted' \subseteq Uncounted
      BY <1>5, <3>2, ReqsAssumption
         DEF IInv, TypeOK, Serving, Uncounted, ServiceNext, RequestArrives, EnterHandler,
             RespondEarly, StartResponder, StartDriver, CountCompleted, Flush, netVars
    <3>3. ASSUME NEW c \in Conns, ClientLeaves(c) \/ AbortConn(c)
          PROVE  Uncounted' \subseteq Uncounted
      BY <3>3, ReqsAssumption
         DEF IInv, TypeOK, Serving, Uncounted, ClientLeaves, AbortConn, Drop, reqVars
    <3> QED
      BY <3>1, <3>2, <3>3
         DEF Next, MainNext, MainRegister, MainWake, MainJoin, DrainAgain, DrainSleep,
             DrainEnd, DeadlinePasses, MainDone, WatchNext, WatchTerm, WatchQuick,
             WatchDone, HeartbeatTick, Environment, ClientConnects, SignalArrives,
             ParentDies, MarkedNotAlive, AcceptNext, CheckFlag, Park, Woken, Accept,
             AcceptError, HandshakeEnd, ResponderEnd, DriverEnd, vars, netVars, reqVars
  <2>2. /\ Cardinality(Uncounted') \in Nat /\ Cardinality(Uncounted) \in Nat
        /\ Cardinality(Uncounted') <= Cardinality(Uncounted)
    BY <1>3, <2>1, FewerConns
  <2> QED
    BY <1>1, <1>2, <1>5, <2>2, FlagStays, QuotaAssumption DEF Quota
<1> QED
  BY <1>4, <1>5

\* Connections race to max_requests; each but the one that reaches it may still
\* complete one request, never two.
THEOREM QuotaBounded == Spec => []QuotaOvershoot
<1>1. IInv /\ Quota /\ [Next]_vars => Quota'
  BY CountStep, OtherStep
<1>2. IInv /\ Quota => QuotaOvershoot
  <2> SUFFICES ASSUME IInv, Quota, MaxRequests > 0
               PROVE  completed < MaxRequests + Cardinality(Conns)
    BY DEF QuotaOvershoot
  <2>1. Uncounted \subseteq Conns
    BY DEF Uncounted
  <2>2. Cardinality(Uncounted) \in Nat /\ Cardinality(Conns) \in Nat
    BY <2>1, FewerConns
  <2> QED
    BY <2>2, QuotaAssumption DEF Quota, IInv, TypeOK
<1> QED
  BY <1>1, <1>2, InitQuota, Invariance, PTL DEF Spec

-----------------------------------------------------------------------------
(* The refinement of ServeContract.                                         *)

LEMMA InitContract == Init => Contract!Init
BY DEF Init, Contract!Init, Phase, Admitted

\* A step that leaves the requests' stages and bytes alone moves the phase by one
\* at most, and to "gone" only when no request is left.
LEMMA PhaseStep ==
    ASSUME IInv, IInv', UNCHANGED <<stage, out>>, [Next]_vars
    PROVE  [Contract!Next]_(Contract!vars)
<1> DEFINE over == {r \in Reqs : stage[r] = "over"}
           lost == {r \in Reqs : out[r] = "aborted"}
<1>1. UNCHANGED <<Admitted, over, lost>>
  BY DEF Admitted
<1>2. \/ UNCHANGED Phase
      \/ Phase = "serving" /\ Phase' = "draining"
      \/ Phase = "draining" /\ Phase' = "cutting"
      \/ main = "reaping" /\ MainDone
  <2>1. CASE MainNext
    BY <2>1 DEF IInv, TypeOK, Told, Phase, MainNext, MainRegister, MainWake, MainJoin,
         DrainAgain, DrainSleep, DrainEnd, MainDone, Wait, shutdownVars
  <2>2. CASE UNCHANGED main
    BY <2>2, FlagStays DEF IInv, Told, Phase, TypeOK
  <2> QED
    BY <2>1, <2>2
       DEF Next, DeadlinePasses, WatchNext, WatchTerm, WatchQuick,
           WatchDone, HeartbeatTick, Environment, ClientConnects, SignalArrives,
           ParentDies, MarkedNotAlive, AcceptNext, CheckFlag, Park, Woken, Accept,
           AcceptError, HandshakeEnd, ServiceNext, RequestArrives, EnterHandler,
           RespondEarly, StartResponder, StartDriver, CountCompleted, Flush,
           ResponderEnd, DriverEnd, ClientLeaves, AbortConn, Drop, vars, mainVars
<1>3. CASE main = "reaping" /\ MainDone
  <2>1. Admitted = {}
    BY <1>3, ReqsAssumption DEF IInv, TypeOK, Serving, Admitted, MainDone
  <2>2. Phase = "cutting" /\ Phase' = "gone"
    BY <1>3 DEF Phase, MainDone
  <2> QED
    BY <1>1, <2>1, <2>2 DEF Contract!Next, Contract!Exit, Contract!Go
<1> QED
  BY <1>1, <1>2, <1>3
     DEF Contract!Next, Contract!Retire, Contract!GiveUp, Contract!Go, Contract!vars

\* A step of the handler or of hyper before the last byte changes nothing the
\* contract speaks of; only a request that saw no flag is admitted.
LEMMA RequestStep ==
    ASSUME IInv, NEW c \in Conns, NEW r \in Reqs, ServiceNext(c, r)
    PROVE  [Contract!Next]_(Contract!vars)
<1> USE ReqsAssumption
<1> DEFINE over == {q \in Reqs : stage[q] = "over"}
           lost == {q \in Reqs : out[q] = "aborted"}
<1>1. CASE RequestArrives(c, r) /\ ~flag
  <2>1. Phase = "serving" /\ UNCHANGED Phase
    BY <1>1 DEF RequestArrives, Phase, IInv, Told, shutdownVars, mainVars
  <2>2. Admitted' = Admitted \cup {r} /\ UNCHANGED <<over, lost>>
    BY <1>1 DEF RequestArrives, Admitted, IInv, TypeOK, CutIsOver
  <2>3. r \notin Admitted \cup over
    BY <1>1 DEF RequestArrives, Admitted
  <2> QED
    BY <2>1, <2>2, <2>3 DEF Contract!Next, Contract!Admit
<1>2. CASE Flush(c, r)
  <2>1. UNCHANGED Phase
    BY <1>2 DEF Flush, Phase, shutdownVars, mainVars
  <2>2. /\ Admitted' = Admitted \ {r} /\ over' = over \cup {r} /\ UNCHANGED lost
        /\ r \notin over
    BY <1>2 DEF Flush, Admitted, IInv, TypeOK
  <2> QED
    BY <2>1, <2>2 DEF Contract!Next, Contract!Finish
<1>3. CASE \/ (RequestArrives(c, r) /\ flag) \/ EnterHandler(c, r) \/ RespondEarly(c, r)
           \/ StartResponder(c, r) \/ StartDriver(c, r)
  <2>1. UNCHANGED Phase
    BY <1>3 DEF RequestArrives, EnterHandler, RespondEarly, StartResponder, StartDriver,
         Phase, shutdownVars, mainVars
  <2>2. UNCHANGED <<Admitted, over, lost>>
    BY <1>3 DEF RequestArrives, EnterHandler, RespondEarly, StartResponder, StartDriver,
         Admitted, IInv, TypeOK, CutIsOver
  <2> QED
    BY <2>1, <2>2 DEF Contract!vars
<1>4. CASE CountCompleted(c, r)
  <2>1. UNCHANGED <<Admitted, over, lost>>
    BY <1>4 DEF CountCompleted, Admitted, IInv, TypeOK
  <2>2. UNCHANGED main /\ (flag => flag')
    BY <1>4 DEF CountCompleted, Trigger, shutdownVars, mainVars
  <2>3. UNCHANGED Phase \/ (Phase = "serving" /\ Phase' = "draining")
    BY <2>2 DEF Phase, IInv, TypeOK, Told
  <2> QED
    BY <2>1, <2>3 DEF Contract!Next, Contract!Retire, Contract!Go, Contract!vars
<1> QED
  BY <1>1, <1>2, <1>3, <1>4 DEF ServiceNext

\* A responder or driver that ends changes nothing the contract speaks of.
LEMMA DetachedStep ==
    ASSUME IInv, NEW r \in Reqs, ResponderEnd(r) \/ DriverEnd(r)
    PROVE  UNCHANGED Contract!vars
<1>1. UNCHANGED Phase
  BY DEF ResponderEnd, DriverEnd, Phase, shutdownVars, mainVars
<1>2. UNCHANGED <<Admitted, {q \in Reqs : stage[q] = "over"}>>
  BY DEF ResponderEnd, DriverEnd, Admitted
<1>3. \A q \in Reqs : out'[q] = "aborted" <=> out[q] = "aborted"
  BY DEF ResponderEnd, DriverEnd, IInv, TypeOK
<1> QED
  BY <1>1, <1>2, <1>3 DEF Contract!vars

\* A connection task that goes away ends its request: cut off only in the reaping.
LEMMA LeaveStep ==
    ASSUME IInv, NEW c \in Conns, ClientLeaves(c) \/ AbortConn(c)
    PROVE  [Contract!Next]_(Contract!vars)
<1> USE ReqsAssumption
<1> DEFINE over == {q \in Reqs : stage[q] = "over"}
           lost == {q \in Reqs : out[q] = "aborted"}
           r == cur[c]
<1>1. UNCHANGED Phase
  BY DEF ClientLeaves, AbortConn, Drop, Phase, shutdownVars, mainVars
<1>2. CASE r = NoReq
  <2>1. UNCHANGED <<Admitted, over, lost>>
    BY <1>2 DEF ClientLeaves, AbortConn, Drop, Admitted, reqVars
  <2> QED
    BY <1>1, <2>1 DEF Contract!vars
<1>3. CASE r # NoReq
  <2>1. r \in Reqs /\ r \notin over /\ out[r] # "aborted"
    BY <1>3 DEF IInv, TypeOK, Serving, CutIsOver
  <2>2. Admitted' = Admitted \ {r} /\ over' = over \cup {r}
    BY <1>3, <2>1 DEF ClientLeaves, AbortConn, Drop, Admitted, IInv, TypeOK
  <2>3. CASE ClientLeaves(c)
    <3>1. UNCHANGED lost
      BY <1>3, <2>1, <2>3 DEF ClientLeaves, Drop, IInv, TypeOK
    <3> QED
      BY <1>1, <2>1, <2>2, <3>1 DEF Contract!Next, Contract!Finish
  <2>4. CASE AbortConn(c)
    <3>1. lost' = lost \cup {r}
      BY <1>3, <2>1, <2>4 DEF AbortConn, Drop, IInv, TypeOK
    <3>2. Phase = "cutting"
      BY <2>4 DEF AbortConn, Phase
    <3> QED
      BY <1>1, <2>1, <2>2, <3>1, <3>2 DEF Contract!Next, Contract!Abort
  <2> QED
    BY <2>3, <2>4
<1> QED
  BY <1>2, <1>3

\* The worker keeps its contract with the requests: none is taken after a trigger,
\* none is cut off before the drain has ended or been skipped, and serve returns
\* only when no connection has one.
THEOREM ContractKept == Spec => KeepsContract
<1>1. IInv /\ IInv' /\ [Next]_vars => [Contract!Next]_(Contract!vars)
  <2> SUFFICES ASSUME IInv, IInv', [Next]_vars
               PROVE  [Contract!Next]_(Contract!vars)
    OBVIOUS
  <2>1. CASE UNCHANGED <<stage, out>>
    BY <2>1, PhaseStep
  <2>2. CASE \E c \in Conns, r \in Reqs : ServiceNext(c, r)
    BY <2>2, RequestStep
  <2>3. CASE \E r \in Reqs : ResponderEnd(r) \/ DriverEnd(r)
    BY <2>3, DetachedStep
  <2>4. CASE \E c \in Conns : ClientLeaves(c) \/ AbortConn(c)
    BY <2>4, LeaveStep
  <2> QED
    BY <2>1, <2>2, <2>3, <2>4
       DEF Next, MainNext, MainRegister, MainWake, MainJoin, DrainAgain, DrainSleep,
           DrainEnd, DeadlinePasses, MainDone, WatchNext, WatchTerm, WatchQuick,
           WatchDone, HeartbeatTick, Environment, ClientConnects, SignalArrives,
           ParentDies, MarkedNotAlive, AcceptNext, CheckFlag, Park, Woken, Accept,
           AcceptError, HandshakeEnd, vars, reqVars
<1> QED
  BY <1>1, InitContract, Invariance, PTL DEF Spec, KeepsContract, Contract!Spec
=============================================================================
