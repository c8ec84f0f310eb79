---------------------------- MODULE WorkerServe ----------------------------
(***************************************************************************)
(* The serving core of one rustwasgi worker: src/server.rs, function       *)
(* `serve` and the tasks it starts on the multi-threaded Tokio runtime.    *)
(*                                                                         *)
(*   main       serve() itself: wait for the trigger, join the acceptors,  *)
(*              drain the in-flight requests, abort the connections        *)
(*   watcher    watch_signals, the SIGTERM / SIGQUIT / SIGINT task         *)
(*   heartbeat  heartbeat_loop, the liveness and orphan task               *)
(*   acceptors  one accept loop per listener                               *)
(*   conns      one hyper connection task per accepted connection          *)
(*   requests   the service function of a connection, and the detached     *)
(*              responder or WebSocket driver that inherits its guard      *)
(*                                                                         *)
(* What a request does inside its handler (the ASGI bridge) is left to      *)
(* ResponsePath and RequestFeed: a handler ends here, at any time, in one   *)
(* of its three ways of handing the FlightGuard on.                         *)
(***************************************************************************)
EXTENDS Naturals, FiniteSets

CONSTANTS
    Listeners,      \* the bound sockets, one accept task each
    TlsListeners,   \* those whose streams go through a TLS handshake
    Conns,          \* the connections clients may open
    Port,           \* the listener a connection is made to
    Reqs,           \* the requests clients may send
    MaxRequests,    \* ServeConfig.max_requests, 0 for no quota
    Causes,         \* what the environment may do to end the worker
    NoReq           \* no request is being served by a connection

ASSUME ListenersAssumption ==
    /\ IsFiniteSet(Listeners) /\ TlsListeners \subseteq Listeners
    /\ "main" \notin Listeners
ASSUME ConnsAssumption == IsFiniteSet(Conns) /\ Port \in [Conns -> Listeners]
ASSUME ReqsAssumption == IsFiniteSet(Reqs) /\ NoReq \notin Reqs
ASSUME QuotaAssumption == MaxRequests \in Nat
ASSUME CausesAssumption == Causes \subseteq {"term", "quit", "orphan", "dead"}

VARIABLES
    flag, quick,    \* Shutdown.flag and Shutdown.quick
    waiters,        \* the tasks registered with Shutdown.notify
    main,           \* where serve() stands
    kind,           \* the shutdown kind serve() has read
    deadline,       \* graceful_timeout has elapsed since the drain began
    ended,          \* how the drain ended
    sigs,           \* signals delivered to the process and not yet taken
    watcher,        \* the signal task
    heartbeat,      \* the heartbeat task
    orphaned,       \* the parent process is not the one seen at start
    alive,          \* what the is_alive hook answers
    acc,            \* where each accept loop stands
    conn,           \* the life of each connection
    cur,            \* the request a connection task is serving
    stage,          \* how far the service function got with a request
    guard,          \* who holds the FlightGuard of a request
    out,            \* what became of the response bytes
    inFlight,       \* the in_flight counter
    completed       \* the completed counter

shutdownVars == <<flag, quick, waiters>>
mainVars     == <<main, kind, deadline, ended>>
taskVars     == <<sigs, watcher, heartbeat, orphaned, alive>>
netVars      == <<acc, conn, cur>>
reqVars      == <<stage, guard, out, inFlight, completed>>
vars == <<shutdownVars, mainVars, taskVars, netVars, reqVars>>

Signals == {"term", "quit"}     \* SIGINT takes the same arm as SIGQUIT

TypeOK ==
    /\ flag \in BOOLEAN /\ quick \in BOOLEAN
    /\ waiters \subseteq (Listeners \cup {"main"})
    /\ main \in {"starting", "waiting", "joining", "draining", "sleeping",
                 "reaping", "done"}
    /\ kind \in {"none", "graceful", "quick"}
    /\ deadline \in BOOLEAN
    /\ ended \in {"no", "idle", "timeout"}
    /\ sigs \subseteq Signals
    /\ watcher \in {"watching", "triggered", "exited"}
    /\ heartbeat \in {"ticking", "exited"}
    /\ orphaned \in BOOLEAN /\ alive \in BOOLEAN
    /\ acc \in [Listeners -> {"check", "select", "parked", "handshake", "exited"}]
    /\ conn \in [Conns -> {"away", "backlog", "handshake", "open", "closed"}]
    /\ cur \in [Conns -> Reqs \cup {NoReq}]
    /\ stage \in [Reqs -> {"new", "refused", "checked", "handling", "handled",
                           "responded", "over"}]
    /\ guard \in [Reqs -> {"none", "handler", "responder", "driver", "dropped",
                           "finished"}]
    /\ out \in [Reqs -> {"none", "streaming", "buffered", "sent", "gone",
                         "aborted"}]
    /\ inFlight \in Nat
    /\ completed \in Nat

Init ==
    /\ flag = FALSE /\ quick = FALSE /\ waiters = {}
    /\ main = "starting" /\ kind = "none" /\ deadline = FALSE /\ ended = "no"
    /\ sigs = {} /\ watcher = "watching" /\ heartbeat = "ticking"
    /\ orphaned = FALSE /\ alive = TRUE
    /\ acc = [l \in Listeners |-> "check"]
    /\ conn = [c \in Conns |-> "away"]
    /\ cur = [c \in Conns |-> NoReq]
    /\ stage = [r \in Reqs |-> "new"]
    /\ guard = [r \in Reqs |-> "none"]
    /\ out = [r \in Reqs |-> "none"]
    /\ inFlight = 0 /\ completed = 0

-----------------------------------------------------------------------------
(***************************************************************************)
(* Shutdown.  `trigger` is three atomics in a row with nothing awaited; one *)
(* step is enough, because a task that looks or registers in between sees   *)
(* what it would see just before or just after.  notify_waiters wakes the   *)
(* registered waiters only and leaves no permit; `wait` does not look at    *)
(* the flag, and registers when it is first polled.                         *)
(***************************************************************************)
Trigger(k) ==
    /\ quick' = (quick \/ k = "quick")
    /\ flag' = TRUE
    /\ waiters' = IF flag THEN waiters ELSE {}

Wait(task) == waiters' = waiters \cup {task} /\ UNCHANGED <<flag, quick>>

-----------------------------------------------------------------------------
(* serve(): the main task.                                                 *)

MainRegister ==
    /\ main = "starting"
    /\ main' = "waiting"
    /\ Wait("main")
    /\ UNCHANGED <<kind, deadline, ended, taskVars, netVars, reqVars>>

\* Woken by notify_waiters; the kind is read once and kept.
MainWake ==
    /\ main = "waiting" /\ "main" \notin waiters
    /\ main' = "joining"
    /\ kind' = IF quick THEN "quick" ELSE "graceful"
    /\ UNCHANGED <<deadline, ended, shutdownVars, taskVars, netVars, reqVars>>

\* Mutant: the accept loops are not joined.
MainJoinNobody ==
    /\ main = "joining"
    /\ main' = IF kind = "graceful" THEN "draining" ELSE "reaping"
    /\ UNCHANGED <<kind, deadline, ended, shutdownVars, taskVars, netVars, reqVars>>

\* `while acceptors.join_next()`: every accept loop has ended.
MainJoin ==
    /\ main = "joining"
    /\ \A l \in Listeners : acc[l] = "exited"
    /\ main' = IF kind = "graceful" THEN "draining" ELSE "reaping"
    /\ UNCHANGED <<kind, deadline, ended, shutdownVars, taskVars, netVars, reqVars>>

\* The drain loop looks at the counter and sleeps another 50 ms ...
DrainAgain ==
    /\ main = "draining"
    /\ inFlight > 0 /\ ~deadline
    /\ main' = "sleeping"
    /\ UNCHANGED <<kind, deadline, ended, shutdownVars, taskVars, netVars, reqVars>>

DrainSleep ==
    /\ main = "sleeping"
    /\ main' = "draining"
    /\ UNCHANGED <<kind, deadline, ended, shutdownVars, taskVars, netVars, reqVars>>

\* ... until it is zero or graceful_timeout has passed.  abort_all follows at
\* once: from here on a connection task may be cancelled at any await.
DrainEnd ==
    /\ main = "draining"
    /\ inFlight = 0 \/ deadline
    /\ main' = "reaping"
    /\ ended' = IF inFlight = 0 THEN "idle" ELSE "timeout"
    /\ UNCHANGED <<kind, deadline, shutdownVars, taskVars, netVars, reqVars>>

DeadlinePasses ==
    /\ main \in {"draining", "sleeping"} /\ ~deadline
    /\ deadline' = TRUE
    /\ UNCHANGED <<main, kind, ended, shutdownVars, taskVars, netVars, reqVars>>

\* `while connections.join_next()`, then serve_done is sent and serve returns.
MainDone ==
    /\ main = "reaping"
    /\ \A c \in Conns : conn[c] # "open"
    /\ main' = "done"
    /\ UNCHANGED <<kind, deadline, ended, shutdownVars, taskVars, netVars, reqVars>>

-----------------------------------------------------------------------------
(* watch_signals: SIGTERM is taken only before the first trigger of this    *)
(* task; a quick signal may come twice.                                     *)

WatchTerm ==
    /\ watcher = "watching" /\ "term" \in sigs
    /\ Trigger("graceful")
    /\ sigs' = sigs \ {"term"}
    /\ watcher' = "triggered"
    /\ UNCHANGED <<heartbeat, orphaned, alive, mainVars, netVars, reqVars>>

WatchQuick ==
    /\ watcher # "exited" /\ "quit" \in sigs
    /\ Trigger("quick")
    /\ sigs' = sigs \ {"quit"}
    /\ watcher' = IF watcher = "triggered" THEN "exited" ELSE "triggered"
    /\ UNCHANGED <<heartbeat, orphaned, alive, mainVars, netVars, reqVars>>

WatchDone ==
    /\ watcher # "exited" /\ main = "done"
    /\ watcher' = "exited"
    /\ UNCHANGED <<sigs, heartbeat, orphaned, alive, shutdownVars, mainVars,
                   netVars, reqVars>>

\* Mutant: no orphan detection.
HeartbeatNoOrphan ==
    /\ heartbeat = "ticking"
    /\ \/ flag /\ UNCHANGED shutdownVars
       \/ ~flag /\ ~alive /\ Trigger("graceful")
    /\ heartbeat' = "exited"
    /\ UNCHANGED <<sigs, watcher, orphaned, alive, mainVars, netVars, reqVars>>

(* heartbeat_loop: one tick.  The notify hook has no effect here.           *)

HeartbeatTick ==
    /\ heartbeat = "ticking"
    /\ \/ flag /\ UNCHANGED shutdownVars
       \/ ~flag /\ orphaned /\ Trigger("quick")
       \/ ~flag /\ ~orphaned /\ ~alive /\ Trigger("graceful")
    /\ heartbeat' = "exited"
    /\ UNCHANGED <<sigs, watcher, orphaned, alive, mainVars, netVars, reqVars>>

-----------------------------------------------------------------------------
(* An accept loop: look at the flag, then select between the shutdown and   *)
(* the next connection.  A TLS handshake is awaited inside the loop.        *)

\* Mutant: `loop { select! { .. } }`, the flag is not looked at.
CheckNothing(l) ==
    /\ acc[l] = "check"
    /\ acc' = [acc EXCEPT ![l] = "select"]
    /\ UNCHANGED <<conn, cur, shutdownVars, mainVars, taskVars, reqVars>>

CheckFlag(l) ==
    /\ acc[l] = "check"
    /\ acc' = [acc EXCEPT ![l] = IF flag THEN "exited" ELSE "select"]
    /\ UNCHANGED <<conn, cur, shutdownVars, mainVars, taskVars, reqVars>>

\* The select is polled: the wait is created and registered only now.
Park(l) ==
    /\ acc[l] = "select"
    /\ acc' = [acc EXCEPT ![l] = "parked"]
    /\ Wait(l)
    /\ UNCHANGED <<conn, cur, mainVars, taskVars, reqVars>>

Woken(l) ==
    /\ acc[l] = "parked" /\ l \notin waiters
    /\ acc' = [acc EXCEPT ![l] = "exited"]
    /\ UNCHANGED <<conn, cur, shutdownVars, mainVars, taskVars, reqVars>>

\* accept() wins the select, also against a wait that is ready; the losing
\* wait is dropped.  A plain stream is spawned at once.
Accept(l, c) ==
    /\ acc[l] \in {"select", "parked"}
    /\ conn[c] = "backlog" /\ Port[c] = l
    /\ waiters' = waiters \ {l}
    /\ LET next == IF l \in TlsListeners THEN "handshake" ELSE "open"
       IN  conn' = [conn EXCEPT ![c] = next]
    /\ acc' = [acc EXCEPT ![l] = IF l \in TlsListeners THEN "handshake" ELSE "check"]
    /\ UNCHANGED <<flag, quick, cur, mainVars, taskVars, reqVars>>

AcceptError(l) ==
    /\ acc[l] \in {"select", "parked"}
    /\ waiters' = waiters \ {l}
    /\ acc' = [acc EXCEPT ![l] = "check"]
    /\ UNCHANGED <<flag, quick, conn, cur, mainVars, taskVars, reqVars>>

\* Mutant: behind a handshake the flag is not looked at again.
HandshakeEndSelects(l, c) ==
    /\ acc[l] = "handshake"
    /\ conn[c] = "handshake" /\ Port[c] = l
    /\ \E next \in {"open", "closed"} : conn' = [conn EXCEPT ![c] = next]
    /\ acc' = [acc EXCEPT ![l] = "select"]
    /\ UNCHANGED <<cur, shutdownVars, mainVars, taskVars, reqVars>>

\* The handshake of the accepted stream succeeds and the connection task is
\* spawned, or it fails and the loop goes on.
HandshakeEnd(l, c) ==
    /\ acc[l] = "handshake"
    /\ conn[c] = "handshake" /\ Port[c] = l
    /\ \E next \in {"open", "closed"} : conn' = [conn EXCEPT ![c] = next]
    /\ acc' = [acc EXCEPT ![l] = "check"]
    /\ UNCHANGED <<cur, shutdownVars, mainVars, taskVars, reqVars>>

-----------------------------------------------------------------------------
(* A connection task serves one request at a time.                          *)

\* Mutant: no 503 while the worker drains.
RequestAlwaysTaken(c, r) ==
    /\ conn[c] = "open" /\ cur[c] = NoReq
    /\ stage[r] = "new"
    /\ cur' = [cur EXCEPT ![c] = r]
    /\ stage' = [stage EXCEPT ![r] = "checked"]
    /\ UNCHANGED <<acc, conn, guard, out, inFlight, completed, shutdownVars,
                   mainVars, taskVars>>

\* The service function is called: the flag decides between 503 and the handler.
RequestArrives(c, r) ==
    /\ conn[c] = "open" /\ cur[c] = NoReq
    /\ stage[r] = "new"
    /\ cur' = [cur EXCEPT ![c] = r]
    /\ stage' = [stage EXCEPT ![r] = IF flag THEN "refused" ELSE "checked"]
    /\ out' = [out EXCEPT ![r] = IF flag THEN "buffered" ELSE "none"]
    /\ UNCHANGED <<acc, conn, guard, inFlight, completed, shutdownVars,
                   mainVars, taskVars>>

\* FlightGuard::new, a step after the flag was looked at.
EnterHandler(c, r) ==
    /\ cur[c] = r /\ stage[r] = "checked"
    /\ stage' = [stage EXCEPT ![r] = "handling"]
    /\ guard' = [guard EXCEPT ![r] = "handler"]
    /\ inFlight' = inFlight + 1
    /\ UNCHANGED <<out, completed, shutdownVars, mainVars, taskVars, netVars>>

\* A response the handler makes itself (400, 404, a challenge, a redirect, 500):
\* its whole body goes to hyper and the guard is dropped on return.
RespondEarly(c, r) ==
    /\ cur[c] = r /\ stage[r] = "handling"
    /\ stage' = [stage EXCEPT ![r] = "handled"]
    /\ guard' = [guard EXCEPT ![r] = "dropped"]
    /\ inFlight' = inFlight - 1
    /\ out' = [out EXCEPT ![r] = "buffered"]
    /\ UNCHANGED <<completed, shutdownVars, mainVars, taskVars, netVars>>

\* The app's response.start came: a responder task takes the guard.
StartResponder(c, r) ==
    /\ cur[c] = r /\ stage[r] = "handling"
    /\ stage' = [stage EXCEPT ![r] = "handled"]
    /\ guard' = [guard EXCEPT ![r] = "responder"]
    /\ out' = [out EXCEPT ![r] = "streaming"]
    /\ UNCHANGED <<inFlight, completed, shutdownVars, mainVars, taskVars, netVars>>

\* A WebSocket upgrade: a detached driver takes the guard, hyper gets the 101.
StartDriver(c, r) ==
    /\ cur[c] = r /\ stage[r] = "handling"
    /\ stage' = [stage EXCEPT ![r] = "handled"]
    /\ guard' = [guard EXCEPT ![r] = "driver"]
    /\ out' = [out EXCEPT ![r] = "buffered"]
    /\ UNCHANGED <<inFlight, completed, shutdownVars, mainVars, taskVars, netVars>>

\* handle_request has returned: count it, and recycle the worker at the quota.
CountCompleted(c, r) ==
    /\ cur[c] = r /\ stage[r] = "handled"
    /\ stage' = [stage EXCEPT ![r] = "responded"]
    /\ completed' = completed + 1
    /\ IF MaxRequests > 0 /\ completed + 1 >= MaxRequests
       THEN Trigger("graceful")
       ELSE UNCHANGED shutdownVars
    /\ UNCHANGED <<guard, out, inFlight, mainVars, taskVars, netVars>>

\* hyper writes the last bytes; after a 101 the connection task ends.
Flush(c, r) ==
    /\ cur[c] = r /\ stage[r] \in {"responded", "refused"}
    /\ out[r] = "buffered"
    /\ out' = [out EXCEPT ![r] = "sent"]
    /\ stage' = [stage EXCEPT ![r] = "over"]
    /\ cur' = [cur EXCEPT ![c] = NoReq]
    /\ conn' = [conn EXCEPT ![c] = IF guard[r] = "driver" THEN "closed" ELSE "open"]
    /\ UNCHANGED <<acc, guard, inFlight, completed, shutdownVars, mainVars, taskVars>>

\* The last chunk is in the hyper body channel (or the app is done with it):
\* the responder logs and drops the guard.  The bytes may still be unwritten.
ResponderEnd(r) ==
    /\ guard[r] = "responder"
    /\ guard' = [guard EXCEPT ![r] = "finished"]
    /\ inFlight' = inFlight - 1
    /\ out' = [out EXCEPT ![r] = IF out[r] = "streaming" THEN "buffered" ELSE out[r]]
    /\ UNCHANGED <<stage, completed, shutdownVars, mainVars, taskVars, netVars>>

\* The WebSocket driver ends; it cannot before the upgrade resolved.
DriverEnd(r) ==
    /\ guard[r] = "driver" /\ out[r] # "buffered"
    /\ guard' = [guard EXCEPT ![r] = "finished"]
    /\ inFlight' = inFlight - 1
    /\ UNCHANGED <<stage, out, completed, shutdownVars, mainVars, taskVars, netVars>>

\* Mutants of Drop: the counter is decremented whoever holds the guard; not
\* decremented when the handler is cancelled (no RAII); the handler lives on.
DropReq(c, how, g, n) ==
    /\ conn[c] = "open"
    /\ conn' = [conn EXCEPT ![c] = "closed"]
    /\ cur' = [cur EXCEPT ![c] = NoReq]
    /\ IF cur[c] = NoReq
       THEN UNCHANGED reqVars
       ELSE /\ stage' = [stage EXCEPT ![cur[c]] = "over"]
            /\ out' = [out EXCEPT ![cur[c]] = how]
            /\ guard' = [guard EXCEPT ![cur[c]] = g]
            /\ inFlight' = n
            /\ UNCHANGED completed
    /\ UNCHANGED <<acc, shutdownVars, mainVars, taskVars>>
DropTwice(c, how)  == DropReq(c, how, guard[cur[c]], inFlight - 1)
DropNoRaii(c, how) == DropReq(c, how, "dropped", inFlight)
DropDetached(c, how) == DropReq(c, how, guard[cur[c]], inFlight)

\* The connection task goes away with what it holds: the service future and,
\* if that still owns it, the guard.
Drop(c, how) ==
    /\ conn[c] = "open"
    /\ conn' = [conn EXCEPT ![c] = "closed"]
    /\ cur' = [cur EXCEPT ![c] = NoReq]
    /\ IF cur[c] = NoReq
       THEN UNCHANGED reqVars
       ELSE LET r == cur[c] IN
            /\ stage' = [stage EXCEPT ![r] = "over"]
            /\ out' = [out EXCEPT ![r] = how]
            /\ IF guard[r] = "handler"
               THEN /\ guard' = [guard EXCEPT ![r] = "dropped"]
                    /\ inFlight' = inFlight - 1
               ELSE UNCHANGED <<guard, inFlight>>
            /\ UNCHANGED completed
    /\ UNCHANGED <<acc, shutdownVars, mainVars, taskVars>>

ClientLeaves(c) == Drop(c, "gone")       \* also the keep-alive header timeout

\* Mutant: abort_all comes before the drain.
AbortEarly(c) == main \notin {"starting", "waiting", "done"} /\ Drop(c, "aborted")

AbortConn(c) == main = "reaping" /\ Drop(c, "aborted")

-----------------------------------------------------------------------------
(* The environment.                                                         *)

ClientConnects(c) ==
    /\ conn[c] = "away"
    /\ conn' = [conn EXCEPT ![c] = "backlog"]
    /\ UNCHANGED <<acc, cur, shutdownVars, mainVars, taskVars, reqVars>>

SignalArrives(s) ==
    /\ s \in Causes \ sigs /\ main # "done"
    /\ sigs' = sigs \cup {s}
    /\ UNCHANGED <<watcher, heartbeat, orphaned, alive, shutdownVars, mainVars,
                   netVars, reqVars>>

ParentDies ==
    /\ "orphan" \in Causes /\ ~orphaned
    /\ orphaned' = TRUE
    /\ UNCHANGED <<sigs, watcher, heartbeat, alive, shutdownVars, mainVars,
                   netVars, reqVars>>

MarkedNotAlive ==
    /\ "dead" \in Causes /\ alive
    /\ alive' = FALSE
    /\ UNCHANGED <<sigs, watcher, heartbeat, orphaned, shutdownVars, mainVars,
                   netVars, reqVars>>

-----------------------------------------------------------------------------
MainNext == \/ MainRegister \/ MainWake \/ MainJoin \/ DrainAgain
            \/ DrainSleep \/ DrainEnd \/ MainDone

WatchNext == WatchTerm \/ WatchQuick \/ WatchDone

AcceptNext(l) == \/ CheckFlag(l) \/ Park(l) \/ Woken(l) \/ AcceptError(l)
                 \/ \E c \in Conns : Accept(l, c) \/ HandshakeEnd(l, c)

ServiceNext(c, r) == \/ RequestArrives(c, r) \/ EnterHandler(c, r)
                     \/ RespondEarly(c, r) \/ StartResponder(c, r)
                     \/ StartDriver(c, r) \/ CountCompleted(c, r) \/ Flush(c, r)

Environment == \/ \E c \in Conns : ClientConnects(c)
               \/ \E s \in Signals : SignalArrives(s)
               \/ ParentDies \/ MarkedNotAlive

Next == \/ MainNext \/ DeadlinePasses \/ WatchNext \/ HeartbeatTick
        \/ \E l \in Listeners : AcceptNext(l)
        \/ \E c \in Conns, r \in Reqs : ServiceNext(c, r)
        \/ \E r \in Reqs : ResponderEnd(r) \/ DriverEnd(r)
        \/ \E c \in Conns : ClientLeaves(c) \/ AbortConn(c)
        \/ Environment

(***************************************************************************)
(* Fairness: Tokio polls every task that is ready, its timers fire and      *)
(* accept() returns a connection that waits in the backlog.                 *)
(* Nothing is assumed of clients, the app, a handshake, or the network.     *)
(***************************************************************************)
Fairness ==
    /\ WF_vars(MainNext) /\ WF_vars(DeadlinePasses)
    /\ WF_vars(WatchNext) /\ WF_vars(HeartbeatTick)
    /\ \A l \in Listeners :
          /\ WF_vars(CheckFlag(l)) /\ WF_vars(Park(l)) /\ WF_vars(Woken(l))
          /\ WF_vars(\E c \in Conns : Accept(l, c))
    /\ \A c \in Conns : WF_vars(AbortConn(c))

Spec     == Init /\ [][Next]_vars
FairSpec == Spec /\ Fairness
-----------------------------------------------------------------------------
(* What the serving core must keep.                                         *)

Held == {"handler", "responder", "driver"}

\* The counter the drain waits on is the number of live FlightGuards: no path
\* of a request, cancelled ones included, leaks a guard or drops one twice.
InFlightCountsGuards == inFlight = Cardinality({r \in Reqs : guard[r] \in Held})

\* A guard the handler holds belongs to exactly one open connection task, so
\* that aborting the connections releases it; only responders and WebSocket
\* drivers keep a guard of their own.
GuardHasOwner ==
    \A r \in Reqs : guard[r] = "handler" =>
        \E c \in Conns : /\ conn[c] = "open" /\ cur[c] = r
                         /\ \A d \in Conns \ {c} : cur[d] # r

\* Once the drain has begun no accept loop is left to spawn a connection, and
\* once serve has returned no connection task is left: abort_all missed none.
NoConnectionOutlivesServe ==
    /\ main \in {"draining", "sleeping", "reaping", "done"} =>
          \A c \in Conns : conn[c] # "handshake"
    /\ main = "done" => \A c \in Conns : conn[c] # "open"

\* The worker keeps its contract with the requests: none is taken once a trigger
\* has been pulled, none is cut off before the drain has ended or been skipped,
\* and serve returns when no connection has one.
Phase    == IF main = "done" THEN "gone" ELSE IF main = "reaping" THEN "cutting"
            ELSE IF flag THEN "draining" ELSE "serving"
Admitted == {r \in Reqs : stage[r] \in {"checked", "handling", "handled", "responded"}}
Contract == INSTANCE ServeContract WITH
    Requests <- Reqs,
    phase <- Phase,
    admitted <- Admitted,
    over <- {r \in Reqs : stage[r] = "over"},
    lost <- {r \in Reqs : out[r] = "aborted"}
KeepsContract == Contract!Spec

\* max_requests: connections race to the quota, and each of them but the one
\* that reaches it can complete one more request, never two.
QuotaOvershoot ==
    MaxRequests > 0 => completed < MaxRequests + Cardinality(Conns)

\* A worker that reached its quota, lost its parent or was marked not alive is
\* going to shut down.
Retired == \/ orphaned \/ ~alive
           \/ MaxRequests > 0 /\ completed >= MaxRequests
RetiredShutsDown == Retired ~> flag

\* A shutdown that found serve() and every accept loop listening (or about to
\* look at the flag) completes, whatever the requests in flight do, unless a
\* handshake that never ends holds an accept loop.  A loop that has been woken
\* may still lose its select to accept() and begin a handshake; it ends none the
\* less once the handshake does.
Heard == /\ flag /\ waiters = {} /\ main # "starting"
         /\ \A l \in Listeners : acc[l] # "select"
HeldByHandshake(l) == l \in TlsListeners /\ [](acc[l] = "handshake")
HeardShutdownCompletes ==
    Heard ~> (main = "done" \/ \E l \in Listeners : HeldByHandshake(l))

\* An accept loop that missed the notification parks for good; the next client
\* to connect makes it look at the flag and end, behind the handshake with that
\* client if there is one.
LateListenerHeals ==
    \A l \in Listeners :
        flag /\ (\E c \in Conns : conn[c] = "backlog" /\ Port[c] = l)
            ~> (acc[l] = "exited" \/ HeldByHandshake(l))

\* README, "Graceful shutdown": every shutdown goes on to the exit.
ShutdownCompletes == flag ~> main = "done"

\* runtime.rs, FlightGuard: "graceful drain cannot end while bytes are still
\* streaming": when the drain ended idle no response whose responder kept
\* the guard to its end is cut off.
IdleDrainDelivered ==
    ended = "idle" =>
        \A r \in Reqs : guard[r] = "finished" => out[r] # "aborted"
=============================================================================
