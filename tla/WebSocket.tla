----------------------------- MODULE WebSocket -----------------------------
(***************************************************************************)
(* One WebSocket connection: the driver task of src/ws.rs between the       *)
(* upgraded stream and the application.  Outwards, send() goes through      *)
(* WsSink and a bounded Tokio channel to the driver, which writes frames;   *)
(* inwards, the driver reads frames and puts them into the application's    *)
(* asyncio.Queue, one awaited put at a time.                                *)
(*                                                                         *)
(* The driver is one task: while it awaits a write or a put it looks at     *)
(* nothing else.  The pump's select is `biased`: the application's end, then *)
(* its events (until it has closed), then the client.                       *)
(***************************************************************************)
EXTENDS Integers, Sequences

CONSTANTS
    WsChannelBound,     \* WS_CHANNEL_BOUND, application -> driver
    WsQueueMaxsize,     \* WS_QUEUE_MAXSIZE, driver -> application
    MaxSends,           \* events the application sends (a bound)
    MaxFrames           \* frames the client sends, its close aside (a bound)

ASSUME WsAssumption ==
    /\ WsChannelBound \in Nat \ {0} /\ WsQueueMaxsize \in Nat \ {0}
    /\ MaxSends \in Nat /\ MaxFrames \in Nat

VARIABLES
    app,            \* the application coroutine
    sink,           \* a WsSink, and so a sender of the channel, is alive
    resolved,       \* the app future would be ready if it were polled
    sent,           \* number of events the application has sent
    opening,        \* the kind of the first event send() accepted
    accepted,       \* the data send() accepted, in order
    pending,        \* the event a blocked send() waits to place
    got,            \* what receive() has returned
    chan, rx,       \* the channel and its receiving half
    disconnected,   \* the flag that WsSink reads
    pc,             \* where drive_websocket stands
    frame, then,    \* the frame it is writing; where it goes after an await
    appClosed,      \* app_closed: the application's close has been written
    appDone,        \* app_done: the driver has observed the app future
    queue, put,     \* the asyncio.Queue and the queue.put under way
    client,         \* the client
    inbox,          \* frames on their way from the client
    frames, typed,  \* how many it has sent, and which of them are data
    out             \* data and close frames written to the stream, in order

sendVars   == <<sent, opening, accepted, pending>>
appVars    == <<app, sink, resolved, sendVars>>
chanVars   == <<chan, rx, disconnected>>
drvVars    == <<pc, frame, then, appClosed, appDone>>
feedVars   == <<queue, put, got>>
clientVars == <<client, inbox, frames, typed>>
vars == <<appVars, chanVars, drvVars, feedVars, clientVars, out>>

Kinds == {"accept", "data", "close"}
Event == [kind : Kinds, n : 1..MaxSends]
Frame == [kind : {"data", "close", "pong"}, n : 0..MaxSends]
Input == [kind : {"data", "ping", "close"}, n : 0..MaxFrames]
None  == [kind |-> "none", n |-> 0]
Close == [kind |-> "close", n |-> 0]
Pong  == [kind |-> "pong", n |-> 0]

\* What receive() may return: frame n of the client is n.
Connect    == 0
Disconnect == MaxFrames + 1
NoPut      == [msg |-> -1, waits |-> FALSE]

TypeOK ==
    /\ app \in {"running", "blocked", "receiving", "ended"}
    /\ sink \in BOOLEAN /\ resolved \in BOOLEAN /\ disconnected \in BOOLEAN
    /\ appClosed \in BOOLEAN /\ appDone \in BOOLEAN
    /\ sent \in 0..MaxSends
    /\ opening \in Kinds \cup {"none"} /\ accepted \in Seq(1..MaxSends)
    /\ pending \in Event \cup {None}
    /\ got \in Seq(Connect..Disconnect)
    /\ chan \in Seq(Event) /\ Len(chan) <= WsChannelBound
    /\ rx \in {"open", "closed"}
    /\ pc \in {"feed", "accept", "pump", "write", "tell", "leave", "draining",
               "finish", "return", "over"}
    /\ frame \in Frame \cup {None}
    /\ then \in {"accept", "pump", "tell", "leave", "finish", "return"}
    /\ queue \in Seq(Connect..Disconnect) /\ Len(queue) <= WsQueueMaxsize
    /\ put \in [msg : Connect..Disconnect, waits : BOOLEAN] \cup {NoPut}
    /\ client \in {"here", "closed", "gone"}
    /\ inbox \in Seq(Input)
    /\ frames \in 0..MaxFrames /\ typed \in Seq(1..MaxFrames)
    /\ out \in Seq(Frame)

\* setup_ws_call has submitted the application; the driver feeds the connect.
Init ==
    /\ app = "running" /\ sink = TRUE /\ resolved = FALSE
    /\ sent = 0 /\ opening = "none" /\ accepted = <<>> /\ pending = None /\ got = <<>>
    /\ chan = <<>> /\ rx = "open" /\ disconnected = FALSE
    /\ pc = "feed" /\ frame = None /\ then = "accept"
    /\ appClosed = FALSE /\ appDone = FALSE
    /\ queue = <<>> /\ put = [msg |-> Connect, waits |-> FALSE]
    /\ client = "here" /\ inbox = <<>> /\ frames = 0 /\ typed = <<>>
    /\ out = <<>>

-----------------------------------------------------------------------------
(* The application: WsSink::_push, _Sender, _Receive.                       *)

Place(e) ==
    /\ chan' = Append(chan, e)
    /\ opening' = IF opening = "none" THEN e.kind ELSE opening
    /\ accepted' = IF e.kind = "data" THEN Append(accepted, e.n) ELSE accepted

\* Mutant: a full channel does not make send() wait.
SendUnbounded(kind) ==
    /\ app = "running" /\ sent < MaxSends /\ ~disconnected /\ rx = "open"
    /\ sent' = sent + 1
    /\ Place([kind |-> kind, n |-> sent + 1])
    /\ UNCHANGED <<app, sink, resolved, pending, rx, disconnected, drvVars, feedVars,
                   clientVars, out>>

\* try_send places the event, or send() awaits a slot, or OSError is raised.
Send(kind) ==
    LET e == [kind |-> kind, n |-> sent + 1] IN
    /\ app = "running" /\ sent < MaxSends
    /\ sent' = sent + 1
    /\ \/ /\ disconnected \/ rx = "closed"
          /\ UNCHANGED <<app, pending, chan, opening, accepted>>
       \/ /\ ~disconnected /\ rx = "open" /\ Len(chan) < WsChannelBound
          /\ Place(e)
          /\ UNCHANGED <<app, pending>>
       \/ /\ ~disconnected /\ rx = "open" /\ Len(chan) >= WsChannelBound
          /\ app' = "blocked" /\ pending' = e
          /\ UNCHANGED <<chan, opening, accepted>>
    /\ UNCHANGED <<sink, resolved, rx, disconnected, drvVars, feedVars, clientVars, out>>

\* The awaited tx.send completes, or raises OSError because rx was dropped.
SendResumes ==
    /\ app = "blocked"
    /\ \/ rx = "open" /\ Len(chan) < WsChannelBound /\ Place(pending)
       \/ rx = "closed" /\ UNCHANGED <<chan, opening, accepted>>
    /\ app' = "running" /\ pending' = None
    /\ UNCHANGED <<sink, resolved, sent, rx, disconnected, drvVars, feedVars,
                   clientVars, out>>

Receive ==
    /\ app = "running" /\ app' = "receiving"
    /\ UNCHANGED <<sink, resolved, sendVars, chanVars, drvVars,
                   feedVars, clientVars, out>>

Get ==
    /\ app = "receiving" /\ queue # <<>>
    /\ app' = "running"
    /\ got' = Append(got, Head(queue)) /\ queue' = Tail(queue)
    /\ UNCHANGED <<sink, resolved, sendVars, put, chanVars, drvVars,
                   clientVars, out>>

\* The coroutine returns or raises; its frame is freed and its future resolved
\* a little later, in either order.
AppEnds ==
    /\ app = "running" /\ app' = "ended"
    /\ UNCHANGED <<sink, resolved, sendVars, chanVars, drvVars,
                   feedVars, clientVars, out>>

SinkFreed ==
    /\ app = "ended" /\ sink /\ sink' = FALSE
    /\ UNCHANGED <<app, resolved, sendVars, chanVars, drvVars,
                   feedVars, clientVars, out>>

FutureResolves ==
    /\ app = "ended" /\ ~resolved /\ resolved' = TRUE
    /\ UNCHANGED <<app, sink, sendVars, chanVars, drvVars, feedVars,
                   clientVars, out>>

-----------------------------------------------------------------------------
(* What the driver awaits: ws.send (also as send_close) and feed_ws.        *)

Write(f, next) == pc' = "write" /\ frame' = f /\ then' = next

Feed(msg, next) ==
    /\ pc' = "feed" /\ then' = next
    /\ put' = [msg |-> msg, waits |-> FALSE]

CloseWritten == \E i \in 1..Len(out) : out[i].kind = "close"

\* Behind its own close the driver tries to write nothing but a pong.
WriteDone ==
    /\ pc = "write" /\ (frame = Pong => ~CloseWritten)
    /\ out' = IF frame = Pong THEN out ELSE Append(out, frame)
    /\ pc' = then /\ frame' = None
    /\ UNCHANGED <<then, appClosed, appDone, appVars, chanVars, feedVars, clientVars>>

\* Mutant: a frame that cannot be written does not end the pump.
WriteFailsGoesOn ==
    /\ pc = "write"
    /\ client = "gone" \/ CloseWritten \/ then = "tell"
    /\ pc' = then /\ frame' = None
    /\ UNCHANGED <<then, appClosed, appDone, appVars, chanVars, feedVars, clientVars, out>>

\* The connection is lost, or tungstenite refuses to write after a close frame
\* of either side.  send_close ignores the error, other writers leave the pump.
WriteFails ==
    /\ pc = "write"
    /\ client = "gone" \/ CloseWritten \/ then = "tell"
    /\ pc' = IF frame = Close THEN then ELSE "leave"
    /\ frame' = None
    /\ UNCHANGED <<then, appClosed, appDone, appVars, chanVars, feedVars, clientVars, out>>

FeedDone ==
    /\ pc = "feed" /\ put = NoPut
    /\ pc' = then
    /\ UNCHANGED <<frame, then, appClosed, appDone, appVars, chanVars, feedVars,
                   clientVars, out>>

\* Mutant: no timeout around the put.
FeedWaits == pc = "feed" /\ FALSE /\ UNCHANGED vars

\* 30 s: the put is given up, but stays with the asyncio loop.
FeedTimesOut ==
    /\ pc = "feed"
    /\ IF then = "accept" THEN Write(Close, "return")
       ELSE pc' = "leave" /\ UNCHANGED <<frame, then>>
    /\ UNCHANGED <<appClosed, appDone, appVars, chanVars, feedVars, clientVars, out>>

\* asyncio runs the put task; on a full queue it waits for a get to wake it.
RunPut ==
    /\ put # NoPut
    /\ \/ /\ Len(queue) < WsQueueMaxsize
          /\ queue' = Append(queue, put.msg) /\ put' = NoPut
       \/ /\ Len(queue) >= WsQueueMaxsize /\ ~put.waits
          /\ put' = [msg |-> put.msg, waits |-> TRUE] /\ UNCHANGED queue
    /\ UNCHANGED <<got, appVars, chanVars, drvVars, clientVars, out>>

-----------------------------------------------------------------------------
(* The handshake: the first event must be an accept, within 30 s.           *)

Take(kinds) == chan # <<>> /\ Head(chan).kind \in kinds /\ chan' = Tail(chan)
RxClosed    == chan = <<>> /\ ~sink
RxReady     == chan # <<>> \/ RxClosed

Accept ==
    /\ pc = "accept" /\ Take({"accept"})
    /\ pc' = "pump"
    /\ UNCHANGED <<frame, then, appClosed, appDone, appVars, rx, disconnected,
                   feedVars, clientVars, out>>

\* A denial, or an event out of order: close, then wait for the application.
Deny ==
    /\ pc = "accept" /\ Take({"close", "data"})
    /\ Write(Close, "finish")
    /\ UNCHANGED <<appClosed, appDone, appVars, rx, disconnected, feedVars,
                   clientVars, out>>

\* The application has ended: its future is dropped unobserved.
AppFailed ==
    /\ pc = "accept" /\ RxClosed
    /\ Write(Close, "return")
    /\ UNCHANGED <<appClosed, appDone, appVars, chanVars, feedVars, clientVars, out>>

AcceptTimesOut ==
    /\ pc = "accept" /\ ~RxReady
    /\ Write(Close, "finish")
    /\ UNCHANGED <<appClosed, appDone, appVars, chanVars, feedVars, clientVars, out>>

-----------------------------------------------------------------------------
(* The pump.                                                                *)

\* First branch: the outcome is logged and the loop left, whatever the channel
\* still holds.
AppReturned ==
    /\ pc = "pump" /\ resolved
    /\ appDone' = TRUE
    /\ IF appClosed THEN pc' = "leave" /\ UNCHANGED <<frame, then>>
       ELSE Write(Close, "leave")
    /\ UNCHANGED <<appClosed, appVars, chanVars, feedVars, clientVars, out>>

\* Second branch, while the application has not closed.
RxBranch == pc = "pump" /\ ~resolved /\ ~appClosed

TakeData ==
    /\ RxBranch /\ Take({"data"})
    /\ Write(Head(chan), "pump")
    /\ UNCHANGED <<appClosed, appDone, appVars, rx, disconnected, feedVars,
                   clientVars, out>>

\* Mutant: the application's close does not silence it.
TakeCloseGoesOn ==
    /\ RxBranch /\ Take({"close"})
    /\ Write(Close, "pump")
    /\ UNCHANGED <<appClosed, appDone, appVars, rx, disconnected, feedVars,
                   clientVars, out>>

TakeClose ==
    /\ RxBranch /\ Take({"close"})
    /\ Write(Close, "pump") /\ appClosed' = TRUE
    /\ UNCHANGED <<appDone, appVars, rx, disconnected, feedVars, clientVars, out>>

IgnoreAccept ==
    /\ RxBranch /\ Take({"accept"})
    /\ UNCHANGED <<drvVars, appVars, rx, disconnected, feedVars, clientVars, out>>

SinkGone ==
    /\ RxBranch /\ RxClosed
    /\ Write(Close, "leave")
    /\ UNCHANGED <<appClosed, appDone, appVars, chanVars, feedVars, clientVars, out>>

\* Third branch.  Pongs and raw frames of the client have no effect.
ReadBranch == pc = "pump" /\ ~resolved /\ (appClosed \/ ~RxReady)
Read(kind) == inbox # <<>> /\ Head(inbox).kind = kind /\ inbox' = Tail(inbox)

\* Mutant: the driver does not wait until the put is done.
ReadDataEager ==
    /\ ReadBranch /\ Read("data")
    /\ put' = [msg |-> Head(inbox).n, waits |-> FALSE]
    /\ UNCHANGED <<drvVars, queue, got, appVars, chanVars, client, frames, typed, out>>

ReadData ==
    /\ ReadBranch /\ Read("data")
    /\ Feed(Head(inbox).n, "pump")
    /\ UNCHANGED <<frame, appClosed, appDone, queue, got, appVars, chanVars, client,
                   frames, typed, out>>

ReadPing ==
    /\ ReadBranch /\ Read("ping")
    /\ Write(Pong, "pump")
    /\ UNCHANGED <<appClosed, appDone, feedVars, appVars, chanVars, client, frames,
                   typed, out>>

\* Mutant: the loop goes on after the client's close.
ReadCloseStays ==
    /\ ReadBranch /\ Read("close")
    /\ Feed(Disconnect, "pump")
    /\ UNCHANGED <<frame, appClosed, appDone, queue, got, appVars, chanVars, client,
                   frames, typed, out>>

\* The close is answered unless it answers ours; then the application is told.
ReadClose ==
    /\ ReadBranch /\ Read("close")
    /\ IF appClosed THEN Feed(Disconnect, "leave") /\ UNCHANGED <<frame, queue, got>>
       ELSE Write(Close, "tell") /\ UNCHANGED feedVars
    /\ UNCHANGED <<appClosed, appDone, appVars, chanVars, client, frames, typed, out>>

Tell ==
    /\ pc = "tell" /\ Feed(Disconnect, "leave")
    /\ UNCHANGED <<frame, appClosed, appDone, queue, got, appVars, chanVars,
                   clientVars, out>>

\* End of the stream, or an error on it.
ReadEnd ==
    /\ ReadBranch /\ client = "gone" /\ inbox = <<>>
    /\ Feed(Disconnect, "leave")
    /\ UNCHANGED <<frame, appClosed, appDone, queue, got, appVars, chanVars,
                   clientVars, out>>

-----------------------------------------------------------------------------
(* The end of the driver.                                                   *)

Leave ==
    /\ pc = "leave"
    /\ disconnected' = TRUE /\ rx' = "closed"
    /\ pc' = IF appDone THEN "over" ELSE "draining"
    /\ UNCHANGED <<frame, then, appClosed, appDone, appVars, chan, feedVars,
                   clientVars, out>>

\* Mutant: no deadline for the application.
DrainForever ==
    /\ pc \in {"draining", "finish"} /\ resolved
    /\ appDone' = TRUE /\ rx' = "closed" /\ pc' = "over"
    /\ UNCHANGED <<frame, then, appClosed, appVars, chan, disconnected, feedVars,
                   clientVars, out>>

\* Mutant: the deadline is looked at before the future.
DrainImpatient ==
    /\ pc \in {"draining", "finish"}
    /\ appDone' = appDone /\ rx' = "closed" /\ pc' = "over"
    /\ UNCHANGED <<frame, then, appClosed, appVars, chan, disconnected, feedVars,
                   clientVars, out>>

\* finish_ws_take: the application's outcome, or 15 s.
Drain ==
    /\ pc \in {"draining", "finish"}
    /\ appDone' = resolved
    /\ rx' = "closed" /\ pc' = "over"
    /\ UNCHANGED <<frame, then, appClosed, appVars, chan, disconnected, feedVars,
                   clientVars, out>>

Return ==
    /\ pc = "return" /\ rx' = "closed" /\ pc' = "over"
    /\ UNCHANGED <<frame, then, appClosed, appDone, appVars, chan, disconnected,
                   feedVars, clientVars, out>>

-----------------------------------------------------------------------------
(* The client.                                                              *)

ClientSends(kind) ==
    /\ client = "here"
    /\ frames < MaxFrames /\ frames' = frames + 1
    /\ inbox' = Append(inbox, [kind |-> kind, n |-> frames + 1])
    /\ typed' = IF kind = "data" THEN Append(typed, frames + 1) ELSE typed
    /\ UNCHANGED client
    /\ UNCHANGED <<appVars, chanVars, drvVars, feedVars, out>>

ClientCloses ==
    /\ client = "here" /\ client' = "closed"
    /\ inbox' = Append(inbox, [kind |-> "close", n |-> 0])
    /\ UNCHANGED <<frames, typed>>
    /\ UNCHANGED <<appVars, chanVars, drvVars, feedVars, out>>

\* It leaves without a close, or breaks the protocol; what it sent may be lost.
ClientLeaves ==
    /\ client # "gone" /\ client' = "gone"
    /\ inbox' \in {inbox, <<>>}
    /\ UNCHANGED <<frames, typed, appVars, chanVars, drvVars, feedVars, out>>

-----------------------------------------------------------------------------
AppNext   == (\E k \in Kinds : Send(k)) \/ Receive \/ Get \/ AppEnds
Handshake == Accept \/ Deny \/ AppFailed \/ AcceptTimesOut
Pump      == \/ AppReturned
             \/ TakeData \/ TakeClose \/ IgnoreAccept \/ SinkGone
             \/ ReadData \/ ReadPing \/ ReadClose \/ ReadEnd
Ending    == Tell \/ Leave \/ Drain \/ Return
DriverNext == \/ WriteDone \/ WriteFails \/ FeedDone \/ FeedTimesOut
              \/ Handshake \/ Pump \/ Ending

Next == \/ AppNext \/ SendResumes \/ SinkFreed \/ FutureResolves
        \/ DriverNext \/ RunPut
        \/ (\E k \in {"data", "ping"} : ClientSends(k)) \/ ClientCloses \/ ClientLeaves

(***************************************************************************)
(* Fairness: the driver is polled and its timers fire; a frame it writes is *)
(* taken by the connection or refused by it; a freed slot wakes the waiting *)
(* send().  Nothing is assumed of the application and the client.           *)
(***************************************************************************)
Spec     == Init /\ [][Next]_vars
FairSpec == Spec /\ WF_vars(DriverNext) /\ WF_vars(SendResumes)

-----------------------------------------------------------------------------
(* What a WebSocket connection must keep.                                   *)

\* Outwards and inwards the bridge is an ordered stream: the data written to the
\* client, all that is before the close, is a beginning of what send() accepted ...
DataWritten == [i \in 1..(Len(out) - IF CloseWritten THEN 1 ELSE 0) |-> out[i].n]
Outwards    == INSTANCE OrderedStream WITH
    Items <- 1..MaxSends, written <- accepted, read <- DataWritten
OutInOrder  == Outwards!Spec

\* ... and what receive() returns between the connect and the disconnect is a
\* beginning of the client's messages, also when a put is given up and lands later.
Told      == \E i \in 1..Len(got) : got[i] = Disconnect
DataHeard == [i \in 1..(Len(got) - IF Told THEN 2 ELSE 1) |-> got[i + 1]]
Inwards   == INSTANCE OrderedStream WITH
    Items <- 1..MaxFrames, written <- typed, read <- DataHeard
InOrder   == Inwards!Spec

\* The application is told of the connection first, of its end last, and of
\* each once.
ReceiveOrder ==
    \A i \in 1..Len(got) : /\ got[i] = Connect <=> i = 1
                           /\ got[i] = Disconnect => i = Len(got)

\* Nothing of the application is written before its accept or after a close,
\* and the close is written once, whichever of six places writes it.
CloseLast ==
    \A i \in 1..Len(out) :
        /\ out[i].kind = "close" => i = Len(out)
        /\ out[i].kind = "data" => opening = "accept"

\* The driver waits for the application's queue while the application waits for
\* the driver's channel: a timeout parts them and every send() returns.  The
\* exception: an application that sends on after its own close waits for the
\* client to answer that close.
SendReturns == app = "blocked" ~> (app # "blocked" \/ (appClosed /\ client = "here"))

\* ws.rs, "bound the app's remaining time": the driver, which holds the request's
\* guard, ends once the client has left or the application has returned.
DriverEnds == (client = "gone" \/ resolved) ~> pc = "over"

\* The outcome of an application that ends while the connection is pumped or
\* drained is observed, also when it ends during a write, a put or the drain.
Pumping == \/ pc \in {"pump", "tell", "leave", "draining"}
           \/ pc \in {"write", "feed"} /\ then \in {"pump", "tell", "leave"}
OutcomeSeen == (resolved /\ Pumping) ~> appDone
=============================================================================
