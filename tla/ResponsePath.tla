---------------------------- MODULE ResponsePath ----------------------------
(***************************************************************************)
(* The response half of one HTTP call: from the application's send()       *)
(* through SendSink and the bounded Tokio channel to handle_http (Phase A), *)
(* then to the responder task that forwards the body into hyper's channel,  *)
(* and to the drain reaper that observes an application nobody waits for.   *)
(* src/asgi.rs (SendSink, _Sender) and src/server.rs (handle_http,          *)
(* spawn_drain_reaper).  The request half is module RequestFeed.            *)
(*                                                                         *)
(* The selects of the code are `biased`: a branch is taken only when no     *)
(* branch above it is ready, which is the guard of its action here.         *)
(***************************************************************************)
EXTENDS Naturals, Sequences

CONSTANTS
    ResponseBound,  \* RESPONSE_CHANNEL_BOUND, of the Tokio and hyper channels
    MaxChunks       \* how many body chunks the application sends (a bound)

ASSUME BoundAssumption == ResponseBound \in Nat \ {0} /\ MaxChunks \in Nat

VARIABLES
    head,       \* the method is HEAD (never changes)
    app,        \* the application coroutine
    sink,       \* a SendSink, and so a sender of the channel, is alive
    resolved,   \* the app future would be ready if it were polled
    chan,       \* the response channel
    pending,    \* the message a blocked send() waits to place, or none
    rx,         \* the receiving half
    sent,       \* number of body chunks the application has sent
    accepted,   \* the body messages send() accepted, in order
    pc,         \* handle_http, then the responder
    item,       \* the chunk the responder hands to hyper
    appDone,    \* the select loops have observed the app future
    appLogged,  \* app_logged: somebody has reported the outcome
    logged,     \* times the outcome of the application was reported
    reaper,     \* the drain reaper
    repolled,   \* a future that had completed was polled again
    answer,     \* what the client is answered with
    disconnected,
    client,     \* the client and its connection
    body,       \* hyper's end of the body channel
    wire,       \* what is in that channel
    delivered,  \* chunks written to the client, in order
    eos         \* the body channel has been closed by the responder

appVars    == <<app, sink, resolved, pending, sent, accepted>>
logVars    == <<appDone, appLogged, logged, reaper, repolled>>
clientVars == <<client, body, wire, delivered>>
vars == <<head, appVars, chan, rx, pc, item, logVars, answer, disconnected, clientVars, eos>>

\* response.start, a chunk with more_body, a last chunk, an empty last chunk.
\* Chunks are numbered; the messages without data are not, nor are they bounded.
Kinds == {"start", "more", "last", "end"}
Final == {"last", "end"}
Body  == Kinds \ {"start"}
Data  == {"more", "last"}
Event == [kind : Data, n : 1..MaxChunks] \cup [kind : Kinds \ Data, n : {0}]
None  == [kind |-> "none", n |-> 0]

TypeOK ==
    /\ head \in BOOLEAN
    /\ app \in {"running", "blocked", "ended"}
    /\ sink \in BOOLEAN /\ resolved \in BOOLEAN
    /\ chan \in Seq(Event) /\ Len(chan) <= ResponseBound
    /\ pending \in Event \cup {None}
    /\ rx \in {"open", "closed"}
    /\ sent \in 0..MaxChunks
    /\ accepted \in Seq(1..MaxChunks)
    /\ pc \in {"phaseA", "failing", "pump", "sending", "telling", "closing",
               "logging", "over", "dropped"}
    /\ item \in Event \cup {None}
    /\ appDone \in BOOLEAN /\ appLogged \in BOOLEAN /\ logged \in Nat
    /\ repolled \in BOOLEAN
    /\ reaper \in {"none", "running", "over"}
    /\ answer \in {"none", "app", "500"}
    /\ disconnected \in BOOLEAN
    /\ client \in {"here", "gone"} /\ body \in {"open", "dropped"}
    /\ wire \in Seq(1..MaxChunks) /\ Len(wire) <= ResponseBound
    /\ delivered \in Seq(1..MaxChunks)
    /\ eos \in BOOLEAN

Init ==
    /\ head \in BOOLEAN
    /\ app = "running" /\ sink = TRUE /\ resolved = FALSE
    /\ chan = <<>> /\ pending = None /\ rx = "open"
    /\ sent = 0 /\ accepted = <<>>
    /\ pc = "phaseA" /\ item = None
    /\ appDone = FALSE /\ appLogged = FALSE /\ logged = 0 /\ reaper = "none" /\ repolled = FALSE
    /\ answer = "none" /\ disconnected = FALSE
    /\ client = "here" /\ body = "open" /\ wire = <<>> /\ delivered = <<>> /\ eos = FALSE

-----------------------------------------------------------------------------
(* The application: SendSink::_push and _Sender.__call__.                   *)

Place(e) ==
    /\ chan' = Append(chan, e)
    /\ accepted' = IF e.kind \in Data THEN Append(accepted, e.n) ELSE accepted

Message(kind) == [kind |-> kind, n |-> IF kind \in Data THEN sent + 1 ELSE 0]
Counted(kind) == /\ kind \in Data => sent < MaxChunks
                 /\ sent' = IF kind \in Data THEN sent + 1 ELSE sent

\* Mutants: an unbounded channel; a full channel that drops the message although
\* send() returns as if it had been placed.
SendAnyway(kind, Full(_)) ==
    LET e == Message(kind) IN
    /\ app = "running" /\ Counted(kind)
    /\ IF disconnected \/ rx = "closed" THEN UNCHANGED <<chan, accepted>>
       ELSE IF Len(chan) < ResponseBound THEN Place(e) ELSE Full(e)
    /\ UNCHANGED <<head, app, pending, sink, resolved, rx, pc, item, logVars, answer,
                   disconnected, clientVars, eos>>
SendUnbounded(kind) == SendAnyway(kind, Place)
SendLossy(kind) ==
    SendAnyway(kind, LAMBDA e : /\ UNCHANGED chan
                           /\ accepted' = IF e.kind \in Data THEN Append(accepted, e.n)
                                          ELSE accepted)

\* try_send places the message, or the channel is full and send() awaits a
\* slot, or OSError is raised and the message goes nowhere.
Send(kind) ==
    LET e == Message(kind) IN
    /\ app = "running" /\ Counted(kind)
    /\ \/ /\ disconnected \/ rx = "closed"
          /\ UNCHANGED <<app, pending, chan, accepted>>
       \/ /\ ~disconnected /\ rx = "open" /\ Len(chan) < ResponseBound
          /\ Place(e)
          /\ UNCHANGED <<app, pending>>
       \/ /\ ~disconnected /\ rx = "open" /\ Len(chan) >= ResponseBound
          /\ app' = "blocked" /\ pending' = e
          /\ UNCHANGED <<chan, accepted>>
    /\ UNCHANGED <<head, sink, resolved, rx, pc, item, logVars, answer, disconnected,
                   clientVars, eos>>

\* The awaited tx.send completes, or fails because the receiver went away.
SendResumes ==
    /\ app = "blocked"
    /\ \/ rx = "open" /\ Len(chan) < ResponseBound /\ Place(pending)
       \/ rx = "closed" /\ UNCHANGED <<chan, accepted>>
    /\ app' = "running" /\ pending' = None
    /\ UNCHANGED <<head, sink, resolved, sent, rx, pc, item, logVars, answer,
                   disconnected, clientVars, eos>>

\* The coroutine returns or raises; its frame, and with it the sink, is freed
\* and its future resolved a little later, in either order.
AppEnds ==
    /\ app = "running" /\ app' = "ended"
    /\ UNCHANGED <<head, sink, resolved, pending, sent, accepted, chan, rx, pc, item,
                   logVars, answer, disconnected, clientVars, eos>>

SinkFreed ==
    /\ app = "ended" /\ sink /\ sink' = FALSE
    /\ UNCHANGED <<head, app, resolved, pending, sent, accepted, chan, rx, pc, item,
                   logVars, answer, disconnected, clientVars, eos>>

FutureResolves ==
    /\ app = "ended" /\ ~resolved /\ resolved' = TRUE
    /\ UNCHANGED <<head, app, sink, pending, sent, accepted, chan, rx, pc, item,
                   logVars, answer, disconnected, clientVars, eos>>

-----------------------------------------------------------------------------
(* The branches the selects of Phase A and of the responder share.          *)

Selecting == pc \in {"phaseA", "pump"}
RxClosed  == chan = <<>> /\ ~sink
RxReady   == chan # <<>> \/ RxClosed
AppReady  == resolved /\ ~appDone

\* `if !app_logged.swap(true)`: whoever observes the outcome first reports it.
Report == /\ appLogged' = TRUE
          /\ logged' = IF appLogged THEN logged ELSE logged + 1

Take(kind) == chan # <<>> /\ Head(chan).kind \in kind /\ chan' = Tail(chan)

ObserveApp ==
    /\ Selecting /\ ~RxReady /\ AppReady
    /\ appDone' = TRUE
    /\ Report
    /\ UNCHANGED <<head, appVars, chan, rx, pc, item, reaper, repolled, answer,
                   disconnected, clientVars, eos>>

-----------------------------------------------------------------------------
(* Phase A: await the start of the response.                                *)

Fail ==     \* spawn_drain_reaper, 500, and rx is dropped on return
    /\ reaper' = "running" /\ answer' = "500"
    /\ pc' = "over" /\ rx' = "closed"
    /\ UNCHANGED <<head, appVars, item, appDone, appLogged, logged, repolled,
                   disconnected, clientVars, eos>>

TakeStart ==
    /\ pc = "phaseA" /\ Take({"start"})
    /\ pc' = "pump" /\ answer' = "app"
    /\ UNCHANGED <<head, appVars, rx, item, logVars, disconnected, clientVars, eos>>

\* A body before the start: feed_disconnect is awaited, then 500.
TakeBodyFirst ==
    /\ pc = "phaseA" /\ Take(Body)
    /\ pc' = "failing"
    /\ UNCHANGED <<head, appVars, rx, item, logVars, answer, disconnected, clientVars, eos>>

Failing      == pc = "failing" /\ Fail /\ UNCHANGED chan
NoStart      == pc = "phaseA" /\ RxClosed /\ Fail /\ UNCHANGED chan
\* FIRST_RESPONSE_TIMEOUT
StartTimeout == pc = "phaseA" /\ ~RxReady /\ ~AppReady /\ Fail /\ UNCHANGED chan

\* hyper drops the service future when the client leaves: the receiver goes,
\* the app future goes unobserved, and the application is told nothing.
HandlerDropped ==
    /\ pc \in {"phaseA", "failing"} /\ client = "gone"
    /\ pc' = "dropped" /\ rx' = "closed"
    /\ UNCHANGED <<head, appVars, chan, item, logVars, answer, disconnected, clientVars, eos>>

-----------------------------------------------------------------------------
(* The responder task.                                                      *)

IgnoreStart ==
    /\ pc = "pump" /\ Take({"start"})
    /\ UNCHANGED <<head, appVars, rx, pc, item, logVars, answer, disconnected, clientVars, eos>>

TakeBody ==
    /\ pc = "pump" /\ Take(Body)
    /\ IF ~head /\ Head(chan).kind # "end"
       THEN item' = Head(chan) /\ pc' = "sending"
       ELSE /\ pc' = IF Head(chan).kind \in Final THEN "closing" ELSE "pump"
            /\ UNCHANGED item
    /\ UNCHANGED <<head, appVars, rx, logVars, answer, disconnected, clientVars, eos>>

\* sender.send_data: waits for room in hyper's channel ...
ChunkTaken ==
    /\ pc = "sending" /\ body = "open" /\ Len(wire) < ResponseBound
    /\ wire' = Append(wire, item.n)
    /\ pc' = IF item.kind = "last" THEN "closing" ELSE "pump"
    /\ item' = None
    /\ UNCHANGED <<head, appVars, chan, rx, logVars, answer, disconnected, client,
                   body, delivered, eos>>

\* ... or fails when hyper has dropped the body: the application's next send()
\* is to raise, and feed_disconnect is awaited.
ChunkRefused ==
    /\ pc = "sending" /\ body = "dropped"
    /\ disconnected' = TRUE
    /\ pc' = "telling" /\ item' = None
    /\ UNCHANGED <<head, appVars, chan, rx, logVars, answer, clientVars, eos>>

Move(from, to) ==
    /\ pc = from /\ pc' = to
    /\ UNCHANGED <<head, appVars, chan, rx, item, logVars, answer, disconnected, clientVars>>

Telling     == Move("telling", "closing") /\ UNCHANGED eos
ChannelEnds == RxClosed /\ Move("pump", "closing") /\ UNCHANGED eos
\* Mutants: no APP_COMPLETION_TIMEOUT; a select that is not biased.
PumpForever == FALSE /\ Move("pump", "closing") /\ UNCHANGED eos
PumpImpatient == Move("pump", "closing") /\ UNCHANGED eos
\* APP_COMPLETION_TIMEOUT, 300 s
PumpTimeout == ~RxReady /\ ~AppReady /\ Move("pump", "closing") /\ UNCHANGED eos

\* Mutant: no fallback, a late outcome is swallowed.
CloseBodyNoReaper ==
    /\ pc = "closing"
    /\ eos' = TRUE
    /\ IF ~appDone /\ resolved THEN Report ELSE UNCHANGED <<appLogged, logged>>
    /\ pc' = "logging"
    /\ UNCHANGED <<head, appVars, chan, rx, item, appDone, reaper, repolled, answer,
                   disconnected, clientVars>>

\* Mutant: the app future goes to the reaper whoever has observed it.
CloseBodyReapsAll ==
    /\ pc = "closing"
    /\ eos' = TRUE
    /\ IF ~appDone /\ resolved THEN Report ELSE UNCHANGED <<appLogged, logged>>
    /\ reaper' = IF appDone \/ ~resolved THEN "running" ELSE reaper
    /\ pc' = "logging"
    /\ UNCHANGED <<head, appVars, chan, rx, item, appDone, repolled, answer,
                   disconnected, clientVars>>

\* drop(sender); an app future not observed yet is polled once, and left to
\* the reaper if it is pending.
CloseBody ==
    /\ pc = "closing"
    /\ eos' = TRUE
    /\ IF ~appDone /\ resolved THEN Report ELSE UNCHANGED <<appLogged, logged>>
    /\ reaper' = IF ~appDone /\ ~resolved THEN "running" ELSE reaper
    /\ pc' = "logging"
    /\ UNCHANGED <<head, appVars, chan, rx, item, appDone, repolled, answer,
                   disconnected, clientVars>>

\* Mutant: the receiver outlives the responder.
ResponderKeepsRx ==
    /\ pc = "logging" /\ pc' = "over"
    /\ UNCHANGED <<head, appVars, chan, rx, item, logVars, answer, disconnected, clientVars, eos>>

\* The access log, then the guard and the receiver are dropped.
ResponderOver ==
    /\ pc = "logging" /\ pc' = "over" /\ rx' = "closed"
    /\ UNCHANGED <<head, appVars, chan, item, logVars, answer, disconnected, clientVars, eos>>

-----------------------------------------------------------------------------
(* The drain reaper: awaits the app future for at most 300 s, and reports.  *)
(* A future the loops have seen complete is polled a second time.           *)

Reap ==
    /\ reaper = "running"
    /\ \/ appDone /\ repolled' = TRUE /\ UNCHANGED <<appLogged, logged>>
       \/ ~appDone /\ Report /\ UNCHANGED repolled      \* resolved, or timed out
    /\ reaper' = "over"
    /\ UNCHANGED <<head, appVars, chan, rx, pc, item, appDone, answer, disconnected,
                   clientVars, eos>>

(* The client and hyper's writer.                                           *)

ClientReads ==
    /\ body = "open" /\ wire # <<>>
    /\ delivered' = Append(delivered, Head(wire)) /\ wire' = Tail(wire)
    /\ UNCHANGED <<head, appVars, chan, rx, pc, item, logVars, answer, disconnected,
                   client, body, eos>>

\* hyper drops the body although the client stays: the status has none (204,
\* 304), or Content-Length has been reached.
BodyDropped ==
    /\ body = "open" /\ answer = "app" /\ body' = "dropped" /\ wire' = <<>>
    /\ UNCHANGED <<head, appVars, chan, rx, pc, item, logVars, answer, disconnected,
                   client, delivered, eos>>

ClientLeaves ==
    /\ client = "here" /\ client' = "gone" /\ body' = "dropped" /\ wire' = <<>>
    /\ UNCHANGED <<head, appVars, chan, rx, pc, item, logVars, answer, disconnected,
                   delivered, eos>>

-----------------------------------------------------------------------------
AppNext     == (\E k \in Kinds : Send(k)) \/ AppEnds
PhaseANext  == \/ TakeStart \/ TakeBodyFirst \/ Failing \/ NoStart
               \/ StartTimeout \/ HandlerDropped
ResponderNext == \/ IgnoreStart \/ TakeBody \/ ChunkTaken \/ ChunkRefused
                 \/ Telling \/ ChannelEnds \/ PumpTimeout \/ CloseBody
                 \/ ResponderOver
ServerNext  == ObserveApp \/ PhaseANext \/ ResponderNext

Next == \/ AppNext \/ SendResumes \/ SinkFreed \/ FutureResolves
        \/ ServerNext \/ Reap \/ ClientReads \/ BodyDropped \/ ClientLeaves

(***************************************************************************)
(* Fairness: the Tokio tasks are polled and their timers fire, a freed slot *)
(* wakes the waiting send(), and the connection makes progress: the client  *)
(* reads or is found gone.  Nothing is assumed of the application: it may   *)
(* never send, send for ever, never return, and keep its sink for ever.     *)
(***************************************************************************)
Fairness == /\ WF_vars(ServerNext) /\ WF_vars(Reap)
            /\ WF_vars(SendResumes) /\ WF_vars(FutureResolves)
            /\ WF_vars(ClientReads \/ (wire # <<>> /\ ClientLeaves))

Spec     == Init /\ [][Next]_vars
FairSpec == Spec /\ Fairness

-----------------------------------------------------------------------------
(* What the response half must keep.                                        *)

\* The client gets the application's body chunks in order, without loss or
\* duplicate, through both channels, blocked sends and every way to end.
Stream == INSTANCE OrderedStream
            WITH Items <- 1..MaxChunks, written <- accepted, read <- delivered
InOrder == Stream!Spec

\* A chunk the responder can still reach is delivered while hyper wants the body,
\* also when the application raises, hangs or times out behind it.
Reachable(n) ==
    /\ pc = "pump" /\ ~head
    /\ \E i \in 1..Len(chan) : /\ chan[i].n = n /\ chan[i].kind \in Data
                               /\ \A j \in 1..(i - 1) : chan[j].kind \notin Final
ChunksArrive ==
    \A n \in 1..MaxChunks :
        Reachable(n) ~> (body = "dropped" \/ \E i \in 1..Len(delivered) : delivered[i] = n)

\* The outcome of an application that ended is reported, and once only, by
\* whichever of the two loops, the last poll and the reaper sees it, unless hyper
\* dropped the handler with the future: no traceback is swallowed.
OutcomeReported ==
    resolved ~> (pc = "dropped" \/ [](logged = 1))

\* Every client that stays is answered, be it with a 500.  Every response that
\* was begun is ended and releases its guard: the application may stop sending
\* at any point, hang, raise or be left by the client.  Only one that sends for
\* ever keeps it: the channel stands before app_deadline in the biased select.
SendsForEver == []<><<\E k \in Kinds : Send(k)>>_vars
CallEnds == /\ client = "here" ~> (answer # "none" \/ client = "gone")
            /\ (pc = "pump" ~> pc = "over") \/ SendsForEver

\* A send() that awaits a slot always returns to the application.
SendReturns == app = "blocked" ~> app # "blocked"

\* server.rs, spawn_drain_reaper: a completed future is polled once more only
\* where the request has failed before its response began; once the responder
\* runs, nobody hands the reaper an application that has ended.
RepollOnlyAfterFailure == repolled => answer = "500"
=============================================================================
