-------------------------- MODULE WorkerLifeProofs --------------------------
(***************************************************************************)
(* Proofs about WorkerLife, for any set of modes, any number of messages    *)
(* from the application and of interrupts.                                  *)
(***************************************************************************)
EXTENDS WorkerLife, SequenceLemmas

Msgs == {"startup", "shutdown"}

\* All the application has been told or will be told, in order.
Told == heard \o toApp

-----------------------------------------------------------------------------
(* The inductive invariant.                                                 *)

\* stop_asyncio_loop gives up at its third attempt.
Attempts == tries = 3 => pc \in {"joining", "returned"}

\* What main knows of the protocol at each of its awaits.  A put that timed out
\* stays with the loop: the startup may be delivered when main has given up.
Protocol ==
    /\ Told \in {<<>>, <<"startup">>, <<"startup", "shutdown">>}
    /\ pc \in Starting => outcome = "none"
    /\ pc \in {"bye", "byeing", "byeget", "byewait"} => outcome = "complete"
    /\ pc \in {"boot", "setup", "init", "app", "put"} => put = "none" /\ Told = <<>>
    /\ pc = "putting" => \/ put = "startup" /\ Told = <<>>
                         \/ put = "done" /\ Told = <<"startup">>
    /\ pc \in {"get", "racing"} \/ (pc \in {"serving", "bye"} /\ outcome = "complete")
          => put = "none" /\ Told = <<"startup">>
    /\ pc = "byeing" => \/ put = "shutdown" /\ Told = <<"startup">>
                        \/ put = "done" /\ Told = <<"startup", "shutdown">>
    /\ pc \in {"byeget", "byewait"} => put = "none" /\ Told = <<"startup", "shutdown">>
    /\ put = "startup" => Told = <<>>
    /\ put = "shutdown" => Told = <<"startup">>
    /\ put = "shutdown" \/ Told = <<"startup", "shutdown">> =>
          outcome = "complete" /\ pc \in (Ending \ {"bye"}) \cup {"returned"}

\* While nobody has interrupted the worker, a completed startup is followed by
\* the offer of the shutdown.
Undisturbed ==
    intrs = 0 =>
        /\ ~intr
        /\ pc \in {"cancel", "cancelling", "stop", "schedule", "joining"}
              /\ outcome = "complete"
              => put = "shutdown" \/ Told = <<"startup", "shutdown">>

IInv == TypeOK /\ Attempts /\ OnMeansReady /\ Protocol /\ Undisturbed

\* What a step of main changes: the application and the queues are not its own.
LEMMA MainLeaves ==
    ASSUME MainNext \/ ServeReturns
    PROVE  UNCHANGED <<mode, intrs, toApp, fromApp, heard, sends, reply, appFut>>
BY DEF MainNext, Boot, Setup, InitChannel, SubmitApp, QueuePut, PutReturns,
         QueueGet, ReplyWins, ExitWins, TimeoutWins, ServeReturns, PutBye, PutByeReturns,
         GetBye, ByeReturns, CancelPending, CancelReturns, StopAsks, StopSchedules, Join,
       Goto, Unsupported, taskVars, appVars

LEMMA InitIInv == Init => IInv
<1> SUFFICES ASSUME Init PROVE IInv
  OBVIOUS
<1>1. Told = <<>>
  <2>1. <<>> \in Seq(Msgs)
    BY EmptySeq
  <2> QED
    BY <2>1, ConcatEmptySeq DEF Init, Told
<1>2. TypeOK
  <2>1. intr \in BOOLEAN /\ appFut \in BOOLEAN
    BY Zenon DEF Init
  <2>2. toApp \in Seq(Msgs) /\ fromApp \in Seq(Replies) /\ heard \in Seq(Msgs)
    BY EmptySeq DEF Init
  <2>3. /\ mode \in Modes /\ pc \in Starting /\ outcome = "none"
        /\ intrs \in 0..MaxInterrupts /\ sends \in 0..MaxSends /\ tries \in 0..3
    BY LifeAssumption DEF Init, Starting
  <2> QED
    BY <2>1, <2>2, <2>3 DEF Init, TypeOK, Msgs
<1>3. Attempts /\ OnMeansReady /\ Undisturbed
  BY DEF Init, Attempts, OnMeansReady, Undisturbed
<1>4. Protocol
  BY <1>1 DEF Init, Protocol, Starting
<1> QED
  BY <1>2, <1>3, <1>4 DEF IInv

LEMMA MainStep ==
    ASSUME IInv, MainNext \/ ServeReturns
    PROVE  IInv'
<1>1. UNCHANGED <<mode, intrs, toApp, fromApp, heard, sends, reply, appFut>>
  BY MainLeaves
<1>2. Told' = Told
  BY <1>1 DEF Told
<1>3. TypeOK'
  <2>1. intr' \in BOOLEAN
    BY Zenon DEF IInv, TypeOK, MainNext, Boot, Setup, InitChannel, SubmitApp, QueuePut, PutReturns,
         QueueGet, ReplyWins, ExitWins, TimeoutWins, ServeReturns, PutBye, PutByeReturns,
         GetBye, ByeReturns, CancelPending, CancelReturns, StopAsks, StopSchedules, Join,
       Goto, Unsupported, Raises, Calm, taskVars, appVars
  <2>2. /\ pc' \in Starting \cup {"serving"} \cup Ending \cup {"returned", "failed"}
        /\ outcome' \in Replies \cup {"none", "exited", "timeout", "error"}
        /\ loop' \in {"starting", "running", "asked", "stopped"}
        /\ put' \in {"none", "startup", "shutdown", "done"}
        /\ getter' \in {"none", "waiting", "taken", "ready"}
        /\ app' \in {"none", "running", "ended"}
    BY DEF IInv, TypeOK, Starting, Ending, Replies, MainNext, Boot, Setup, InitChannel, SubmitApp, QueuePut, PutReturns,
         QueueGet, ReplyWins, ExitWins, TimeoutWins, ServeReturns, PutBye, PutByeReturns,
         GetBye, ByeReturns, CancelPending, CancelReturns, StopAsks, StopSchedules, Join,
       Goto, Unsupported, Raises, Calm, taskVars, appVars
  <2>3. tries' \in 0..3
    BY DEF IInv, TypeOK, Attempts, MainNext, Boot, Setup, InitChannel, SubmitApp, QueuePut, PutReturns,
         QueueGet, ReplyWins, ExitWins, TimeoutWins, ServeReturns, PutBye, PutByeReturns,
         GetBye, ByeReturns, CancelPending, CancelReturns, StopAsks, StopSchedules, Join, Goto, Unsupported, Raises, Calm
  <2> QED
    BY <1>1, <2>1, <2>2, <2>3 DEF IInv, TypeOK
<1>4. Attempts'
  BY DEF IInv, TypeOK, Attempts, MainNext, Boot, Setup, InitChannel, SubmitApp, QueuePut, PutReturns,
         QueueGet, ReplyWins, ExitWins, TimeoutWins, ServeReturns, PutBye, PutByeReturns,
         GetBye, ByeReturns, CancelPending, CancelReturns, StopAsks, StopSchedules, Join, Goto, Unsupported, Raises, Calm
<1>5. OnMeansReady'
  BY DEF IInv, OnMeansReady, MainNext, Boot, Setup, InitChannel, SubmitApp, QueuePut, PutReturns,
         QueueGet, ReplyWins, ExitWins, TimeoutWins, ServeReturns, PutBye, PutByeReturns,
         GetBye, ByeReturns, CancelPending, CancelReturns, StopAsks, StopSchedules, Join, Goto, Unsupported, Raises, Calm
<1>6. Protocol'
  <2>1. CASE \/ Boot \/ Setup \/ InitChannel \/ SubmitApp \/ QueuePut \/ PutReturns
             \/ QueueGet \/ ReplyWins \/ ExitWins \/ TimeoutWins
    BY <1>2, <2>1 DEF IInv, TypeOK, Protocol, Starting, Ending, Replies, Boot, Setup, InitChannel, SubmitApp, QueuePut, PutReturns,
         QueueGet, ReplyWins, ExitWins, TimeoutWins, ServeReturns, PutBye, PutByeReturns,
         GetBye, ByeReturns, CancelPending, CancelReturns, StopAsks, StopSchedules, Join,
       Goto, Unsupported, taskVars
  <2>2. CASE \/ ServeReturns \/ PutBye \/ PutByeReturns \/ GetBye \/ ByeReturns
    BY <1>2, <2>2 DEF IInv, TypeOK, Protocol, Starting, Ending, Boot, Setup, InitChannel, SubmitApp, QueuePut, PutReturns,
         QueueGet, ReplyWins, ExitWins, TimeoutWins, ServeReturns, PutBye, PutByeReturns,
         GetBye, ByeReturns, CancelPending, CancelReturns, StopAsks, StopSchedules, Join, Goto, taskVars
  <2>3. CASE \/ CancelPending \/ CancelReturns \/ StopAsks \/ StopSchedules \/ Join
    BY <1>2, <2>3 DEF IInv, TypeOK, Protocol, Starting, Ending, Boot, Setup, InitChannel, SubmitApp, QueuePut, PutReturns,
         QueueGet, ReplyWins, ExitWins, TimeoutWins, ServeReturns, PutBye, PutByeReturns,
         GetBye, ByeReturns, CancelPending, CancelReturns, StopAsks, StopSchedules, Join, Goto, taskVars
  <2> QED
    BY <2>1, <2>2, <2>3 DEF MainNext
<1>7. Undisturbed'
  BY <1>1, <1>2 DEF IInv, TypeOK, Protocol, Undisturbed, Starting, MainNext, Boot, Setup, InitChannel, SubmitApp, QueuePut, PutReturns,
         QueueGet, ReplyWins, ExitWins, TimeoutWins, ServeReturns, PutBye, PutByeReturns,
         GetBye, ByeReturns, CancelPending, CancelReturns, StopAsks, StopSchedules, Join,
     Goto, Unsupported, Raises, Calm, taskVars
<1> QED
  BY <1>3, <1>4, <1>5, <1>6, <1>7 DEF IInv

\* The asyncio thread delivers what was put, and the application takes it.
LEMMA DeliverStep ==
    ASSUME IInv, PutRuns
    PROVE  IInv'
<1>1. put \in Msgs /\ heard \in Seq(Msgs) /\ toApp \in Seq(Msgs)
  BY DEF IInv, TypeOK, PutRuns, Msgs
<1>2. Told' = Append(Told, put)
  <2>1. heard \o Append(toApp, put) = Append(heard \o toApp, put)
    BY <1>1, Joined
  <2> QED
    BY <2>1 DEF PutRuns, Told, appVars
<1>3. /\ put = "startup" => Told' = <<"startup">>
      /\ put = "shutdown" => Told' = <<"startup", "shutdown">>
  <2>1. Append(<<>>, "startup") = <<"startup">>
    OBVIOUS
  <2>2. Append(<<"startup">>, "shutdown") = <<"startup", "shutdown">>
    <3>1. "startup" \in Msgs /\ "shutdown" \in Msgs
      BY DEF Msgs
    <3> QED
      BY <3>1, SecondItem, Zenon
  <2>3. /\ put = "startup" => Told = <<>>
        /\ put = "shutdown" => Told = <<"startup">>
    BY DEF IInv, Protocol
  <2> QED
    BY <1>2, <2>1, <2>2, <2>3
<1>4. toApp' \in Seq(Msgs)
  BY <1>1, AppendProperties DEF PutRuns
<1>5. TypeOK'
  BY <1>4 DEF IInv, TypeOK, PutRuns, Msgs, mainVars, appVars
<1>6. UNCHANGED <<mode, pc, outcome, intr, intrs, tries>> /\ put' = "done"
  BY DEF PutRuns, mainVars
<1>7. <<"startup">> # <<"startup", "shutdown">> /\ <<>> # <<"startup">>
  OBVIOUS
<1>8. CASE put = "startup"
  <2>1. Told = <<>> /\ Told' = <<"startup">>
    BY <1>3, <1>8 DEF IInv, Protocol
  <2>2. /\ pc \notin {"get", "racing", "byeing", "byeget", "byewait", "boot", "setup",
                      "init", "app", "put"}
        /\ ~(pc \in {"serving", "bye"} /\ outcome = "complete")
    BY <1>8 DEF IInv, Protocol
  <2>3. Protocol'
    BY <1>6, <1>7, <2>1, <2>2 DEF IInv, Protocol
  <2>4. Attempts' /\ OnMeansReady' /\ Undisturbed'
    BY <1>6, <1>7, <1>8, <2>1 DEF IInv, Attempts, OnMeansReady, Undisturbed
  <2> QED
    BY <1>5, <2>3, <2>4 DEF IInv
<1>9. CASE put = "shutdown"
  <2>1. Told = <<"startup">> /\ Told' = <<"startup", "shutdown">>
    BY <1>3, <1>9 DEF IInv, Protocol
  <2>2. outcome = "complete" /\ pc \in (Ending \ {"bye"}) \cup {"returned"}
    BY <1>9 DEF IInv, Protocol
  <2>3. pc \notin {"byeget", "byewait"}
    BY <1>9 DEF IInv, Protocol
  <2>4. Protocol'
    BY <1>6, <1>7, <2>1, <2>2, <2>3 DEF IInv, Protocol, Starting, Ending
  <2>5. Attempts' /\ OnMeansReady' /\ Undisturbed'
    BY <1>6, <2>1 DEF IInv, Attempts, OnMeansReady, Undisturbed
  <2> QED
    BY <1>5, <2>4, <2>5 DEF IInv
<1> QED
  BY <1>1, <1>8, <1>9 DEF Msgs

\* The other steps of the asyncio thread, of the application and of a user.
LEMMA OtherStep ==
    ASSUME IInv,
           \/ GetRuns \/ GetResolves \/ AppResolves \/ LoopStarts \/ LoopStops
           \/ AppNext \/ Interrupt \/ UNCHANGED vars
    PROVE  IInv'
<1> USE DEF mainVars, taskVars, appVars, vars
<1>1. heard \in Seq(Msgs) /\ toApp \in Seq(Msgs) /\ fromApp \in Seq(Replies)
  BY DEF IInv, TypeOK, Msgs
<1>2. Told' = Told
  <2>1. CASE AppReceives
    <3>1. Append(heard, Head(toApp)) \o Tail(toApp) = heard \o toApp
      BY <1>1, <2>1, Moved DEF AppReceives
    <3> QED
      BY <2>1, <3>1 DEF AppReceives, Told
  <2>2. CASE UNCHANGED <<heard, toApp>>
    BY <2>2 DEF Told
  <2> QED
    BY <2>1, <2>2 DEF GetRuns, GetResolves, AppResolves, LoopStarts, LoopStops, AppNext,
       AppSends, AppEnds, Interrupt
<1>3. UNCHANGED <<mode, pc, outcome, tries, put>>
  BY DEF GetRuns, GetResolves, AppResolves, LoopStarts, LoopStops, AppNext,
     AppReceives, AppSends, AppEnds, Interrupt
<1>4. TypeOK'
  <2>1. heard' \in Seq(Msgs) /\ toApp' \in Seq(Msgs)
    <3>1. CASE AppReceives
      <4>1. Head(toApp) \in Msgs /\ Tail(toApp) \in Seq(Msgs)
        BY <1>1, <3>1, HeadTailProperties DEF AppReceives
      <4> QED
        BY <1>1, <3>1, <4>1, AppendProperties DEF AppReceives
    <3>2. CASE UNCHANGED <<heard, toApp>>
      BY <1>1, <3>2
    <3> QED
      BY <3>1, <3>2 DEF GetRuns, GetResolves, AppResolves, LoopStarts, LoopStops, AppNext,
         AppSends, AppEnds, Interrupt
  <2>2. fromApp' \in Seq(Replies) /\ reply' \in Replies \cup {"none"}
    <3>1. CASE GetRuns
      <4>1. Head(fromApp) \in Replies /\ Tail(fromApp) \in Seq(Replies)
        BY <1>1, <3>1, HeadTailProperties DEF GetRuns
      <4> QED
        BY <3>1, <4>1 DEF GetRuns
    <3>2. CASE \E m \in Replies : AppSends(m)
      BY <1>1, <3>2, AppendProperties DEF AppSends, IInv, TypeOK
    <3>3. CASE UNCHANGED <<fromApp, reply>>
      BY <3>3 DEF IInv, TypeOK
    <3> QED
      BY <3>1, <3>2, <3>3 DEF GetResolves, AppResolves, LoopStarts, LoopStops, AppNext,
         AppReceives, AppEnds, Interrupt
  <2>3. intr' \in BOOLEAN /\ appFut' \in BOOLEAN
    BY Zenon DEF IInv, TypeOK, GetRuns, GetResolves, AppResolves, LoopStarts, LoopStops,
       AppNext, AppReceives, AppSends, AppEnds, Interrupt
  <2>4. /\ intrs' \in 0..MaxInterrupts /\ sends' \in 0..MaxSends
        /\ loop' \in {"starting", "running", "asked", "stopped"}
        /\ getter' \in {"none", "waiting", "taken", "ready"}
        /\ app' \in {"none", "running", "ended"}
    BY LifeAssumption DEF IInv, TypeOK, GetRuns, GetResolves, AppResolves, LoopStarts,
       LoopStops, AppNext, AppReceives, AppSends, AppEnds, Interrupt
  <2> QED
    BY <1>3, <2>1, <2>2, <2>3, <2>4 DEF IInv, TypeOK, Msgs
<1>5. Attempts' /\ OnMeansReady' /\ Protocol'
  BY <1>2, <1>3 DEF IInv, Attempts, OnMeansReady, Protocol
<1>6. Undisturbed'
  <2>1. CASE Interrupt
    BY <2>1 DEF IInv, TypeOK, Undisturbed, Interrupt
  <2>2. CASE UNCHANGED <<intr, intrs>>
    BY <1>2, <1>3, <2>2 DEF IInv, Undisturbed
  <2> QED
    BY <2>1, <2>2 DEF GetRuns, GetResolves, AppResolves, LoopStarts, LoopStops, AppNext,
       AppReceives, AppSends, AppEnds
<1> QED
  BY <1>4, <1>5, <1>6 DEF IInv

LEMMA Invariance == Spec => []IInv
<1>1. IInv /\ [Next]_vars => IInv'
  BY MainStep, DeliverStep, OtherStep DEF Next, LoopNext
<1> QED
  BY <1>1, InitIInv, PTL DEF Spec

-----------------------------------------------------------------------------
(* The theorems.                                                            *)

\* Every variable keeps its type; the attempts to stop the loop end at three.
THEOREM TypeCorrect == Spec => []TypeOK
<1>1. IInv => TypeOK
  BY DEF IInv
<1> QED
  BY <1>1, Invariance, PTL

\* With `--lifespan on` a worker serves only an application that has said
\* startup.complete, whatever interrupts, times out or ends early.
THEOREM ReadyWhenOn == Spec => []OnMeansReady
<1>1. IInv => OnMeansReady
  BY DEF IInv
<1> QED
  BY <1>1, Invariance, PTL

\* The application hears of its startup, then of its shutdown, each once.
THEOREM ProtocolKept == Spec => []ProtocolOrder
<1>1. IInv => ProtocolOrder
  <2> SUFFICES ASSUME IInv PROVE ProtocolOrder
    OBVIOUS
  <2>1. Told \in {<<>>, <<"startup">>, <<"startup", "shutdown">>}
    BY DEF IInv, Protocol
  <2>2. Len(Told) = 2 => Told = <<"startup", "shutdown">>
    BY <2>1
  <2>3. Len(Told) = 2 => outcome = "complete" /\ pc \in (Ending \ {"bye"}) \cup {"returned"}
    BY <2>2 DEF IInv, Protocol
  <2> QED
    BY <2>1, <2>3 DEF ProtocolOrder, Told, Starting, Ending
<1> QED
  BY <1>1, Invariance, PTL

\* A worker that is not interrupted has offered the shutdown to an application
\* whose startup completed when it goes to join the loop thread.
THEOREM ShutdownAlwaysOffered == Spec => []ShutdownOffered
<1>1. IInv => ShutdownOffered
  <2> SUFFICES ASSUME IInv, intrs = 0, pc = "joining", outcome = "complete" PROVE Offered
    BY DEF ShutdownOffered
  <2>1. put = "shutdown" \/ Told = <<"startup", "shutdown">>
    BY DEF IInv, Undisturbed
  <2>2. Told = <<"startup", "shutdown">> => Len(Told) = 2
    OBVIOUS
  <2> QED
    BY <2>1, <2>2 DEF Offered, Told
<1> QED
  BY <1>1, Invariance, PTL
=============================================================================
