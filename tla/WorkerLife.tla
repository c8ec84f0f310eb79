----------------------------- MODULE WorkerLife -----------------------------
(***************************************************************************)
(* The life of a worker around serve(): src/lib.rs (serve_process_on,       *)
(* cancel_pending_tasks), src/lifespan.rs and the loop thread of            *)
(* src/runtime.rs.                                                          *)
(*                                                                         *)
(*   main   the thread that called run() or run_worker()                    *)
(*   loop   the asyncio thread, with the put and get tasks main submits     *)
(*   app    the application called with the lifespan scope                  *)
(*                                                                         *)
(* Main evaluates Python in short stretches.  A SIGINT that the interpreter *)
(* holds pending is raised there, in whatever is being called, and what     *)
(* becomes of it depends on the caller; serve() itself is WorkerServe.      *)
(***************************************************************************)
EXTENDS Naturals, Sequences

CONSTANTS
    Modes,          \* the lifespan modes tried
    MaxSends,       \* messages the application sends (a bound)
    MaxInterrupts   \* SIGINTs the process receives (a bound)

ASSUME LifeAssumption ==
    /\ Modes \subseteq {"off", "auto", "on"}
    /\ MaxSends \in Nat /\ MaxInterrupts \in Nat

VARIABLES
    mode,       \* --lifespan (never changes)
    pc,         \* where main stands
    outcome,    \* how the startup handshake ended
    intr,       \* the interpreter holds a KeyboardInterrupt pending
    intrs,      \* SIGINTs so far
    tries,      \* attempts of stop_asyncio_loop to schedule the stop
    loop,       \* the asyncio thread
    put,        \* the queue.put task main waits for
    getter,     \* the queue.get task main waits for
    reply,      \* what it took from the queue
    toApp, fromApp,     \* the two asyncio queues
    app,        \* the lifespan coroutine
    appFut,     \* its future is ready
    heard,      \* what its receive() has returned, in order
    sends       \* messages it has sent

mainVars  == <<mode, pc, outcome, intr, intrs, tries>>
taskVars  == <<put, getter, reply>>
appVars   == <<app, heard, sends>>
vars == <<mainVars, loop, taskVars, toApp, fromApp, appVars, appFut>>

Replies  == {"complete", "failed", "other"}
Starting == {"boot", "setup", "init", "app", "put", "putting", "get", "racing"}
Ending   == {"bye", "byeing", "byeget", "byewait", "cancel", "cancelling",
             "stop", "schedule", "joining"}

TypeOK ==
    /\ mode \in Modes
    /\ pc \in Starting \cup {"serving"} \cup Ending \cup {"returned", "failed"}
    /\ outcome \in Replies \cup {"none", "exited", "timeout", "error"}
    /\ intr \in BOOLEAN /\ intrs \in 0..MaxInterrupts /\ tries \in 0..3
    /\ loop \in {"starting", "running", "asked", "stopped"}
    /\ put \in {"none", "startup", "shutdown", "done"}
    /\ getter \in {"none", "waiting", "taken", "ready"}
    /\ reply \in Replies \cup {"none"}
    /\ toApp \in Seq({"startup", "shutdown"})
    /\ fromApp \in Seq(Replies)
    /\ app \in {"none", "running", "ended"} /\ appFut \in BOOLEAN
    /\ heard \in Seq({"startup", "shutdown"})
    /\ sends \in 0..MaxSends

Init ==
    /\ mode \in Modes
    /\ pc = "boot" /\ outcome = "none"
    /\ intr = FALSE /\ intrs = 0 /\ tries = 0
    /\ loop = "starting"
    /\ put = "none" /\ getter = "none" /\ reply = "none"
    /\ toApp = <<>> /\ fromApp = <<>>
    /\ app = "none" /\ appFut = FALSE /\ heard = <<>> /\ sends = 0

-----------------------------------------------------------------------------
Goto(p) == pc' = p /\ UNCHANGED <<mode, intrs, tries>>

\* A stretch of Python on the main thread: the pending interrupt is raised in
\* it, or there is none.
Raises == intr /\ intr' = FALSE
Calm   == ~intr /\ UNCHANGED intr

\* Mutant: `on` treated as `auto`.
UnsupportedServes(why) ==
    /\ outcome' = why
    /\ Goto("serving")

\* LifespanError::Unsupported: `auto` serves all the same, `on` does not.
Unsupported(why) ==
    /\ outcome' = why
    /\ Goto(IF mode = "auto" THEN "serving" ELSE "failed")

\* wait_loop_running: `unwrap_or(false)` takes an interrupt for "not yet".
Boot ==
    /\ pc = "boot"
    /\ \/ Raises /\ Goto("boot")
       \/ Calm /\ loop = "running" /\ Goto("setup")
       \/ Calm /\ loop = "starting" /\ Goto("failed")     \* 10 s have passed
    /\ UNCHANGED <<outcome, loop, taskVars, toApp, fromApp, appVars, appFut>>

\* The sockets are bound and the certificates read.
Setup ==
    /\ pc = "setup"
    /\ Goto("failed") \/ Goto(IF mode = "off" THEN "serving" ELSE "init")
    /\ UNCHANGED <<outcome, intr, loop, taskVars, toApp, fromApp, appVars, appFut>>

\* LifespanManager::startup: the queues, the application, the message.
InitChannel ==
    /\ pc = "init"
    /\ \/ Raises /\ Unsupported("error")
       \/ Calm /\ Goto("app") /\ UNCHANGED outcome
    /\ UNCHANGED <<loop, taskVars, toApp, fromApp, appVars, appFut>>

SubmitApp ==
    /\ pc = "app"
    /\ \/ Raises /\ Unsupported("error") /\ UNCHANGED app
       \/ Calm /\ Goto("put") /\ app' = "running" /\ UNCHANGED outcome
    /\ UNCHANGED <<loop, taskVars, toApp, fromApp, heard, sends, appFut>>

QueuePut ==
    /\ pc = "put"
    /\ \/ Raises /\ Unsupported("error") /\ UNCHANGED put
       \/ Calm /\ Goto("putting") /\ put' = "startup" /\ UNCHANGED outcome
    /\ UNCHANGED <<loop, getter, reply, toApp, fromApp, appVars, appFut>>

\* The put is done, or 10 s have passed.
PutReturns ==
    /\ pc = "putting"
    /\ \/ put = "done" /\ Goto("get") /\ put' = "none" /\ UNCHANGED outcome
       \/ put # "done" /\ Unsupported("timeout") /\ UNCHANGED put
    /\ UNCHANGED <<intr, loop, getter, reply, toApp, fromApp, appVars, appFut>>

\* The select is polled: queue.get is submitted only now.
QueueGet ==
    /\ pc = "get"
    /\ \/ Raises /\ Unsupported("error") /\ UNCHANGED getter
       \/ Calm /\ Goto("racing") /\ getter' = "waiting" /\ UNCHANGED outcome
    /\ UNCHANGED <<loop, put, reply, toApp, fromApp, appVars, appFut>>

\* The biased race: the reply, the application's exit, HANDSHAKE_TIMEOUT.
ReplyWins ==
    /\ pc = "racing" /\ getter = "ready"
    /\ getter' = "none"
    /\ \/ reply = "complete" /\ outcome' = reply /\ Goto("serving")
       \/ reply = "failed"   /\ outcome' = reply /\ Goto("failed")
       \/ reply = "other"    /\ Unsupported(reply)
    /\ UNCHANGED <<intr, loop, put, reply, toApp, fromApp, appVars, appFut>>

ExitWins ==
    /\ pc = "racing" /\ getter # "ready" /\ appFut
    /\ Unsupported("exited")
    /\ UNCHANGED <<intr, loop, taskVars, toApp, fromApp, appVars, appFut>>

\* Mutant: no HANDSHAKE_TIMEOUT.
StartupWaits == FALSE /\ Unsupported("timeout") /\ UNCHANGED vars

TimeoutWins ==
    /\ pc = "racing" /\ getter # "ready" /\ ~appFut
    /\ Unsupported("timeout")
    /\ UNCHANGED <<intr, loop, taskVars, toApp, fromApp, appVars, appFut>>

-----------------------------------------------------------------------------
(* After serve(): LifespanManager::shutdown, if startup left a manager.     *)

\* Mutants: the manager is not looked for; shutdown whatever startup said.
ServeReturnsNoBye ==
    /\ pc = "serving" /\ Goto("cancel")
    /\ UNCHANGED <<outcome, intr, loop, taskVars, toApp, fromApp, appVars, appFut>>
ServeReturnsBye ==
    /\ pc = "serving" /\ Goto("bye")
    /\ UNCHANGED <<outcome, intr, loop, taskVars, toApp, fromApp, appVars, appFut>>

ServeReturns ==
    /\ pc = "serving"
    /\ Goto(IF outcome = "complete" THEN "bye" ELSE "cancel")
    /\ UNCHANGED <<outcome, intr, loop, taskVars, toApp, fromApp, appVars, appFut>>

\* Best effort: an error only skips the rest of the handshake.
PutBye ==
    /\ pc = "bye"
    /\ \/ Raises /\ Goto("cancel") /\ UNCHANGED put
       \/ Calm /\ Goto("byeing") /\ put' = "shutdown"
    /\ UNCHANGED <<outcome, loop, getter, reply, toApp, fromApp, appVars, appFut>>

PutByeReturns ==
    /\ pc = "byeing"
    /\ \/ put = "done" /\ Goto("byeget") /\ put' = "none"
       \/ put # "done" /\ Goto("cancel") /\ UNCHANGED put
    /\ UNCHANGED <<outcome, intr, loop, getter, reply, toApp, fromApp, appVars, appFut>>

GetBye ==
    /\ pc = "byeget"
    /\ \/ Raises /\ Goto("cancel") /\ UNCHANGED getter
       \/ Calm /\ Goto("byewait") /\ getter' = "waiting"
    /\ UNCHANGED <<outcome, loop, put, reply, toApp, fromApp, appVars, appFut>>

\* Mutant: the shutdown reply is awaited without a timeout.
ByeReturnsPatient ==
    /\ pc = "byewait" /\ getter = "ready" /\ getter' = "none"
    /\ Goto("cancel")
    /\ UNCHANGED <<outcome, intr, loop, put, reply, toApp, fromApp, appVars, appFut>>

\* Any reply at all, or 10 s.
ByeReturns ==
    /\ pc = "byewait"
    /\ \/ getter = "ready" /\ getter' = "none"
       \/ getter # "ready" /\ UNCHANGED getter
    /\ Goto("cancel")
    /\ UNCHANGED <<outcome, intr, loop, put, reply, toApp, fromApp, appVars, appFut>>

\* cancel_pending_tasks: an interrupt skips the clean-up, a task that will not
\* be cancelled costs 5 s.
CancelPending ==
    /\ pc = "cancel"
    /\ \/ Raises /\ Goto("stop")
       \/ Calm /\ Goto("cancelling")
    /\ UNCHANGED <<outcome, loop, taskVars, toApp, fromApp, appVars, appFut>>

CancelReturns ==
    /\ pc = "cancelling" /\ Goto("stop")
    /\ Raises \/ UNCHANGED intr
    /\ UNCHANGED <<outcome, loop, taskVars, toApp, fromApp, appVars, appFut>>

\* stop_asyncio_loop asks is_running first, and takes an interrupt raised there
\* for "not running" ...
StopAsks ==
    /\ pc = "stop"
    /\ \/ Raises /\ Goto("joining")
       \/ Calm /\ Goto("schedule")
    /\ UNCHANGED <<outcome, loop, taskVars, toApp, fromApp, appVars, appFut>>

\* Mutants: a retry without end; an interrupt in call_soon_threadsafe is not retried.
StopSchedulesForever ==
    /\ pc = "schedule" /\ UNCHANGED <<mode, intr, intrs>>
    /\ \/ intr /\ tries' = tries + 1 /\ UNCHANGED <<pc, loop>>
       \/ ~intr /\ loop' = "asked" /\ pc' = "joining" /\ UNCHANGED tries
    /\ UNCHANGED <<outcome, taskVars, toApp, fromApp, appVars, appFut>>
StopSchedulesOnce ==
    /\ pc = "schedule"
    /\ \/ Raises /\ UNCHANGED loop
       \/ Calm /\ loop' = "asked"
    /\ Goto("joining")
    /\ UNCHANGED <<outcome, taskVars, toApp, fromApp, appVars, appFut>>

\* ... then schedules the stop, three times if interrupted.
StopSchedules ==
    /\ pc = "schedule" /\ UNCHANGED <<mode, intrs>>
    /\ \/ /\ Raises /\ tries' = tries + 1
          /\ pc' = IF tries + 1 = 3 THEN "joining" ELSE pc
          /\ UNCHANGED loop
       \/ Calm /\ loop' = "asked" /\ pc' = "joining" /\ UNCHANGED tries
    /\ UNCHANGED <<outcome, taskVars, toApp, fromApp, appVars, appFut>>

\* handle.join(): released only by the end of the loop thread.
Join ==
    /\ pc = "joining" /\ loop = "stopped" /\ Goto("returned")
    /\ UNCHANGED <<outcome, intr, loop, taskVars, toApp, fromApp, appVars, appFut>>

-----------------------------------------------------------------------------
(* The asyncio thread.  A future of main is ready a few callbacks after the *)
(* task has ended, and the futures of two tasks in either order.            *)

Runs == loop \in {"running", "asked"}

LoopStarts ==
    /\ loop = "starting" /\ loop' = "running"
    /\ UNCHANGED <<mainVars, taskVars, toApp, fromApp, appVars, appFut>>

LoopStops ==
    /\ loop = "asked" /\ loop' = "stopped"
    /\ UNCHANGED <<mainVars, taskVars, toApp, fromApp, appVars, appFut>>

PutRuns ==
    /\ Runs /\ put \in {"startup", "shutdown"}
    /\ toApp' = Append(toApp, put) /\ put' = "done"
    /\ UNCHANGED <<mainVars, loop, getter, reply, fromApp, appVars, appFut>>

GetRuns ==
    /\ Runs /\ getter = "waiting" /\ fromApp # <<>>
    /\ reply' = Head(fromApp) /\ fromApp' = Tail(fromApp) /\ getter' = "taken"
    /\ UNCHANGED <<mainVars, loop, put, toApp, appVars, appFut>>

GetResolves ==
    /\ Runs /\ getter = "taken" /\ getter' = "ready"
    /\ UNCHANGED <<mainVars, loop, put, reply, toApp, fromApp, appVars, appFut>>

AppResolves ==
    /\ Runs /\ app = "ended" /\ ~appFut /\ appFut' = TRUE
    /\ UNCHANGED <<mainVars, loop, taskVars, toApp, fromApp, appVars>>

AppReceives ==
    /\ Runs /\ app = "running" /\ toApp # <<>>
    /\ heard' = Append(heard, Head(toApp)) /\ toApp' = Tail(toApp)
    /\ UNCHANGED <<mainVars, loop, taskVars, fromApp, app, sends, appFut>>

AppSends(m) ==
    /\ Runs /\ app = "running" /\ sends < MaxSends
    /\ fromApp' = Append(fromApp, m) /\ sends' = sends + 1
    /\ UNCHANGED <<mainVars, loop, taskVars, toApp, app, heard, appFut>>

\* Returns, raises or is cancelled.
AppEnds ==
    /\ Runs /\ app = "running" /\ app' = "ended"
    /\ UNCHANGED <<mainVars, loop, taskVars, toApp, fromApp, heard, sends, appFut>>

\* SIGINT: the interpreter's handler leaves a KeyboardInterrupt pending.
Interrupt ==
    /\ intrs < MaxInterrupts /\ pc \notin {"returned", "failed"}
    /\ intr' = TRUE /\ intrs' = intrs + 1
    /\ UNCHANGED <<mode, pc, outcome, tries, loop, taskVars, toApp, fromApp,
                   appVars, appFut>>

-----------------------------------------------------------------------------
MainNext == \/ Boot \/ Setup \/ InitChannel \/ SubmitApp \/ QueuePut
            \/ PutReturns \/ QueueGet \/ ReplyWins \/ ExitWins \/ TimeoutWins
            \/ PutBye \/ PutByeReturns \/ GetBye \/ ByeReturns
            \/ CancelPending \/ CancelReturns \/ StopAsks \/ StopSchedules \/ Join

LoopNext == PutRuns \/ GetRuns \/ GetResolves \/ AppResolves

AppNext  == AppReceives \/ AppEnds \/ \E m \in Replies : AppSends(m)

Next == MainNext \/ ServeReturns \/ LoopStarts \/ LoopStops \/ LoopNext
        \/ AppNext \/ Interrupt

(***************************************************************************)
(* Fairness: main is scheduled and its timers fire, and the loop thread     *)
(* runs its callbacks.  Nothing is assumed of the application but that it   *)
(* awaits: it may ignore every message and never end.                       *)
(***************************************************************************)
Spec     == Init /\ [][Next]_vars
FairSpec == Spec /\ WF_vars(MainNext) /\ WF_vars(LoopNext) /\ WF_vars(LoopStops)

-----------------------------------------------------------------------------
(* What the life of a worker must keep.                                     *)

\* README, "Readiness = worker booted and lifespan.startup.complete received":
\* a worker told `--lifespan on` serves only an application that said so first,
\* interrupts, timeouts and early exits notwithstanding.
OnMeansReady == pc = "serving" /\ mode = "on" => outcome = "complete"

\* An application hears of its startup, then of its shutdown, each once; of
\* the shutdown only if its startup completed and serve has returned.
ProtocolOrder ==
    /\ heard \o toApp \in {<<>>, <<"startup">>, <<"startup", "shutdown">>}
    /\ Len(heard \o toApp) = 2 => outcome = "complete" /\ pc \notin Starting
                                  /\ pc \notin {"serving", "failed"}

\* A worker that is not interrupted has offered the shutdown to every
\* application whose startup completed when it goes to join the loop thread.
Offered == put = "shutdown" \/ Len(heard \o toApp) = 2
ShutdownOffered ==
    intrs = 0 /\ pc = "joining" /\ outcome = "complete" => Offered

\* Startup is decided whatever the application does, or does not do.
StartupDecided == pc \in Starting ~> pc \in {"serving", "failed"}

\* Teardown reaches the join whatever the application does ...
TeardownJoins == pc = "cancel" \/ pc = "bye" ~> pc = "joining"

\* ... and an interrupt that meets call_soon_threadsafe does not lose the stop.
StopSurvives == pc = "schedule" ~> pc = "returned"

\* lifespan.rs, LifespanError::Failed: "Always fatal" (README: "failed
\* (fatal)"): no worker serves an application whose reply to the startup, given
\* before it ended, was startup.failed.
FirstReply  == IF reply # "none" THEN reply
               ELSE IF fromApp # <<>> THEN Head(fromApp) ELSE "none"
FailedIsFatal ==
    pc = "serving" /\ outcome = "exited" => FirstReply # "failed"
=============================================================================
