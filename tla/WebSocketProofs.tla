-------------------------- MODULE WebSocketProofs --------------------------
(***************************************************************************)
(* Proofs about WebSocket, for any size of the channel and of the queue, any *)
(* number of events of the application and of frames of the client.         *)
(***************************************************************************)
EXTENDS WebSocket, SequenceLemmas

-----------------------------------------------------------------------------
(* The inductive invariant.                                                 *)

Message == Connect..Disconnect
Data    == {"data"}
AppData == [kind : Data, n : 1..MaxSends]

\* Up to the accept; in the pump; and, after either, still reading the client.
Unopened   == pc = "accept" \/ (pc = "feed" /\ then = "accept")
Pumped     == pc = "pump" \/ (pc \in {"write", "feed"} /\ then = "pump")

\* The close that keeps the driver in the pump is the application's, and behind a
\* close there is nothing it would write but a pong.
Quiet ==
    /\ CloseWritten => /\ ~Unopened
                       /\ Pumped => appClosed
                       /\ pc = "write" => frame = Pong
    /\ pc = "write" /\ frame = Close /\ then = "pump" => appClosed

\* A blocked send() has an event to place, what the driver writes is a frame, and
\* where it goes on is one of the places that await a write or a put.
Awaits ==
    /\ app = "blocked" => pending \in Event
    /\ pc = "write" => /\ frame \in AppData \cup {Close, Pong}
                       /\ then \in {"pump", "tell", "leave", "finish", "return"}
    /\ pc = "feed"  => then \in {"accept", "pump", "leave"}
    /\ Quiet

\* The driver may still take an event; it may still read the client.
Forwarding == Unopened \/ Pumped
Listening  == Forwarding \/ pc = "tell" \/ (pc = "write" /\ then = "tell")
Writing    == pc = "write" /\ frame.kind = "data"

\* The accept is the first event: nothing was taken before it.
Opened == opening = "accept"
WriteOrder ==
    /\ Unopened => \/ chan = <<>> /\ opening = "none"
                   \/ chan # <<>> /\ chan[1].kind = opening
    /\ Pumped \/ Writing => Opened
    /\ \A i \in 1..Len(out) : out[i].kind = "data" => Opened

\* Events are numbered as they are sent, and a blocked send() holds the latest.
Upto(m) == /\ \A k \in 1..Len(accepted) : accepted[k] <= m
           /\ \A i \in 1..Len(chan) : chan[i].n <= m
SendOrder ==
    /\ LogRises(accepted) /\ LineRises(chan, Data) /\ Upto(sent)
    /\ app = "blocked" => pending.n = sent /\ Upto(sent - 1)

\* The data on the stream are the first that send() accepted, the driver holds the
\* next, and until a close is written the channel holds what follows.
Passed  == Len(out) + (IF Writing THEN 1 ELSE 0)
OnStream ==
    \A i \in 1..Len(out) : \/ out[i] = Close
                           \/ i <= Len(accepted) /\ out[i] \in AppData
                              /\ out[i].n = accepted[i]
InFlight ==
    ~CloseWritten => /\ Passed <= Len(accepted)
                     /\ Writing => frame.n = accepted[Passed]
                     /\ Forwarding => HoldsRest(chan, Data, accepted, Passed)
Carried == OnStream /\ InFlight

\* Inwards: what the driver has handed to the application's loop, the put that was
\* given up included.
Handed == got \o queue \o (IF put = NoPut THEN <<>> ELSE <<put.msg>>)

\* The driver goes on only when its put has landed, and tells the end only once.
FeedOrder ==
    /\ \A i \in 1..Len(Handed) : /\ Handed[i] = Connect <=> i = 1
                                 /\ Handed[i] = Disconnect => i = Len(Handed)
    /\ Handed # <<>>
    /\ Listening => \A i \in 1..Len(Handed) : Handed[i] # Disconnect
    /\ Listening /\ pc # "feed" => put = NoPut

\* The client's frames are numbered as they are sent.
ReadOrder ==
    /\ LogRises(typed) /\ LineRises(inbox, Data)
    /\ \A k \in 1..Len(typed) : typed[k] <= frames
    /\ \A i \in 1..Len(inbox) : /\ inbox[i].n <= frames
                                /\ inbox[i].kind = "data" => inbox[i].n # 0

\* What was handed over between the connect and the disconnect are the first of
\* the client's messages; what follows is on its way, unless the client's end has
\* lost it.
HeardSoFar ==
    \A i \in 2..Len(Handed) : Handed[i] # Disconnect =>
                                  i - 1 <= Len(typed) /\ Handed[i] = typed[i - 1]
ToBeHeard ==
    Forwarding => \/ client = "gone" /\ inbox = <<>>
                  \/ HoldsRest(inbox, Data, typed, Len(Handed) - 1)
Heard == HeardSoFar /\ ToBeHeard

IInv == /\ TypeOK /\ Awaits /\ CloseLast
        /\ WriteOrder /\ SendOrder /\ Carried
        /\ FeedOrder /\ ReadOrder /\ Heard

-----------------------------------------------------------------------------
(* The ways in which a step moves the messages.                             *)

outward == <<app, sendVars, chan, out>>
inward  == <<feedVars, clientVars>>
at      == <<pc, then, frame>>

\* send() places its event at once, or after it has waited.
Placed(e) ==
    /\ \/ app = "running" /\ sent < MaxSends /\ sent' = sent + 1 /\ e.n = sent + 1
          /\ UNCHANGED pending
       \/ app = "blocked" /\ sent' = sent /\ e = pending /\ pending' = None
    /\ app' = "running" /\ Len(chan) < WsChannelBound /\ Place(e)
    /\ UNCHANGED <<out, at, inward>>

\* It waits, it is refused, or the application does something else.
Held ==
    /\ UNCHANGED <<chan, opening, accepted, out, at, inward>>
    /\ \/ app = "running" /\ app' = "blocked" /\ sent < MaxSends /\ sent' = sent + 1
          /\ pending' \in Event /\ pending'.n = sent + 1
       \/ app' \in {"running", "receiving", "ended"} /\ pending' \in {pending, None}
          /\ (sent' = sent \/ (sent < MaxSends /\ sent' = sent + 1))
       \/ UNCHANGED <<app, pending, sent>>

\* receive() returns; a put lands in the queue, or waits for a slot.
Gets ==
    /\ queue # <<>> /\ got' = Append(got, Head(queue)) /\ queue' = Tail(queue)
    /\ app' = "running" /\ UNCHANGED <<put, sendVars, chan, out, at, clientVars>>
Lands ==
    /\ put # NoPut /\ Len(queue) < WsQueueMaxsize
    /\ queue' = Append(queue, put.msg) /\ put' = NoPut
    /\ UNCHANGED <<got, outward, at, clientVars>>
Waits ==
    /\ put # NoPut /\ put' = [msg |-> put.msg, waits |-> TRUE]
    /\ UNCHANGED <<queue, got, outward, at, clientVars>>

\* A frame of the client is on its way, or the client is gone.
Arrives(e) ==
    /\ client = "here" /\ inbox' = Append(inbox, e)
    /\ \/ /\ e.kind \in {"data", "ping"} /\ e.n = frames + 1
          /\ client' = client /\ frames < MaxFrames /\ frames' = frames + 1
          /\ typed' = IF e.kind \in Data THEN Append(typed, e.n) ELSE typed
       \/ e.kind = "close" /\ e.n = 0 /\ client' = "closed" /\ UNCHANGED <<frames, typed>>
    /\ UNCHANGED <<outward, at, feedVars>>
Lost ==
    /\ client' = "gone" /\ inbox' \in {inbox, <<>>} /\ UNCHANGED <<frames, typed>>
    /\ UNCHANGED <<outward, at, feedVars>>

\* The driver takes an event that is not data, or data to write.
Discarded ==
    /\ chan # <<>> /\ chan' = Tail(chan) /\ UNCHANGED <<app, sendVars, out, inward>>
    /\ \/ pc = "accept" /\ Head(chan).kind = "accept" /\ pc' = "pump"
          /\ UNCHANGED <<then, frame>>
       \/ pc = "accept" /\ pc' = "write" /\ frame' = Close /\ then' = "finish"
       \/ pc = "pump" /\ Head(chan).kind = "accept" /\ UNCHANGED at
       \/ pc = "pump" /\ Head(chan).kind = "close"
          /\ pc' = "write" /\ frame' = Close /\ then' = "pump"
Taken ==
    /\ chan # <<>> /\ chan' = Tail(chan) /\ UNCHANGED <<app, sendVars, out, inward>>
    /\ pc = "pump" /\ Head(chan).kind = "data"
    /\ pc' = "write" /\ frame' = Head(chan) /\ then' = "pump"

Written ==
    /\ pc = "write" /\ ~CloseWritten /\ frame # Pong /\ out' = Append(out, frame)
    /\ pc' = then /\ then' = then /\ frame' = None
    /\ UNCHANGED <<app, sendVars, chan, inward>>

\* It reads a frame, and feeds data or the end to the application, or answers.
Feeds(m, to) ==
    put' = [msg |-> m, waits |-> FALSE] /\ pc' = "feed" /\ then' = to /\ UNCHANGED frame
Answers(f, to) ==
    UNCHANGED put /\ pc' = "write" /\ then' = to /\ frame' = f
Reads ==
    /\ inbox # <<>> /\ inbox' = Tail(inbox) /\ pc = "pump"
    /\ UNCHANGED <<queue, got, client, frames, typed, outward>>
    /\ \/ Head(inbox).kind = "data"  /\ Feeds(Head(inbox).n, "pump")
       \/ Head(inbox).kind = "ping"  /\ Answers(Pong, "pump")
       \/ Head(inbox).kind = "close" /\ Answers(Close, "tell")
       \/ Head(inbox).kind = "close" /\ Feeds(Disconnect, "leave")
TellsEnd ==
    /\ pc \in {"pump", "tell"} /\ Feeds(Disconnect, "leave")
    /\ UNCHANGED <<queue, got, clientVars, outward>>

\* It moves on without a message.
Turned ==
    /\ UNCHANGED <<outward, inward>>
    /\ \/ pc' = "write" /\ frame' = Close /\ then' \in {"leave", "finish", "return"}
       \/ /\ (pc = "write" /\ frame \in {Close, Pong}) \/ (pc = "feed" /\ put = NoPut)
          /\ pc' = then /\ then' = then /\ frame' \in {frame, None}
       \/ pc' \in {"leave", "draining", "over"} /\ then' = then /\ frame' \in {frame, None}

LEMMA AppFlow ==
    ASSUME TypeOK, Awaits,
           \/ \E kind \in Kinds : Send(kind)
           \/ Receive \/ Get \/ AppEnds \/ SendResumes \/ SinkFreed \/ FutureResolves
    PROVE  (\E e \in Event : Placed(e)) \/ Held \/ Gets
<1> USE DEF appVars, chanVars, drvVars, feedVars, outward, inward, at
<1>1. ASSUME NEW kind \in Kinds, Send(kind)
      PROVE  (\E e \in Event : Placed(e)) \/ Held
  <2> DEFINE e == [kind |-> kind, n |-> sent + 1]
  <2>1. e \in Event /\ e.n = sent + 1
    BY <1>1, WsAssumption DEF TypeOK, Send, Event
  <2>2. CASE Place(e) /\ Len(chan) < WsChannelBound /\ UNCHANGED <<app, pending>>
    <3>1. Placed(e)
      BY <1>1, <2>1, <2>2 DEF Placed, Send
    <3> QED
      BY <2>1, <3>1
  <2>3. CASE UNCHANGED <<app, pending, chan, opening, accepted>>
    <3>1. Held
      BY <1>1, <2>3 DEF Held, Send
    <3> QED
      BY <3>1
  <2>4. CASE app' = "blocked" /\ pending' = e /\ UNCHANGED <<chan, opening, accepted>>
    <3>1. Held
      BY <1>1, <2>1, <2>4 DEF Held, Send
    <3> QED
      BY <3>1
  <2> QED
    BY <1>1, <2>2, <2>3, <2>4 DEF Send
<1>2. CASE SendResumes
  <2>1. CASE rx = "open" /\ Len(chan) < WsChannelBound /\ Place(pending)
    <3>1. pending \in Event /\ Placed(pending)
      BY <1>2, <2>1 DEF SendResumes, Placed, Awaits
    <3> QED
      BY <3>1
  <2>2. CASE UNCHANGED <<chan, opening, accepted>>
    <3>1. Held
      BY <1>2, <2>2 DEF SendResumes, Held
    <3> QED
      BY <3>1
  <2> QED
    BY <1>2, <2>1, <2>2 DEF SendResumes
<1>3. CASE Receive \/ AppEnds
  BY <1>3 DEF Receive, AppEnds, Held, sendVars
<1>4. CASE SinkFreed \/ FutureResolves
  BY <1>4 DEF SinkFreed, FutureResolves, Held, sendVars
<1>5. CASE Get
  BY <1>5 DEF Get, Gets
<1> QED
  BY <1>1, <1>2, <1>3, <1>4, <1>5

LEMMA ClientFlow ==
    ASSUME TypeOK,
           (\E k \in {"data", "ping"} : ClientSends(k)) \/ ClientCloses \/ ClientLeaves
    PROVE  (\E e \in Input : Arrives(e)) \/ Lost
<1> USE DEF appVars, chanVars, drvVars, outward, at
<1>1. ASSUME NEW kind \in {"data", "ping"}, ClientSends(kind)
      PROVE  \E e \in Input : Arrives(e)
  <2> DEFINE e == [kind |-> kind, n |-> frames + 1]
  <2>1. e \in Input /\ e.n = frames + 1 /\ e.kind = kind
    BY <1>1, WsAssumption DEF TypeOK, ClientSends, Input
  <2>2. Arrives(e)
    BY <1>1, <2>1 DEF ClientSends, Arrives, Data
  <2> QED
    BY <2>1, <2>2
<1>2. CASE ClientCloses
  <2> DEFINE e == [kind |-> "close", n |-> 0]
  <2>1. e \in Input /\ e.n = 0 /\ e.kind = "close"
    BY WsAssumption DEF Input
  <2>2. Arrives(e)
    BY <1>2, <2>1 DEF ClientCloses, Arrives
  <2> QED
    BY <2>1, <2>2
<1>3. CASE ClientLeaves
  BY <1>3 DEF ClientLeaves, Lost
<1> QED
  BY <1>1, <1>2, <1>3

LEMMA DriverFlow ==
    ASSUME TypeOK, Awaits, DriverNext
    PROVE  Discarded \/ Taken \/ Written \/ Reads \/ TellsEnd \/ Turned
<1> USE DEF appVars, chanVars, feedVars, outward, inward, at, Write, Feed
<1>1. CASE WriteDone \/ WriteFails \/ FeedDone \/ FeedTimesOut
  <2>1. CASE WriteDone
    <3>1. frame # Pong => ~CloseWritten
      BY <2>1 DEF WriteDone, Awaits, Quiet
    <3>2. CASE frame = Pong
      BY <2>1, <3>2 DEF WriteDone, Turned
    <3>3. CASE frame # Pong
      BY <2>1, <3>1, <3>3 DEF WriteDone, Written
    <3> QED
      BY <3>2, <3>3
  <2>2. CASE WriteFails
    BY <2>2 DEF WriteFails, Turned
  <2>3. CASE FeedDone
    BY <2>3 DEF FeedDone, Turned
  <2>4. CASE FeedTimesOut
    BY <2>4 DEF FeedTimesOut, Turned
  <2> QED
    BY <1>1, <2>1, <2>2, <2>3, <2>4
<1>2. CASE Handshake
  <2>1. CASE Accept \/ Deny
    BY <2>1 DEF Accept, Deny, Take, Discarded
  <2>2. CASE AppFailed \/ AcceptTimesOut
    BY <2>2 DEF AppFailed, AcceptTimesOut, Turned
  <2> QED
    BY <1>2, <2>1, <2>2 DEF Handshake
<1>3. CASE Pump
  <2>1. CASE AppReturned \/ SinkGone
    BY <2>1 DEF AppReturned, SinkGone, Turned
  <2>2. CASE TakeData
    BY <2>2 DEF TakeData, RxBranch, Take, Taken
  <2>3. CASE TakeClose \/ IgnoreAccept
    BY <2>3 DEF TakeClose, IgnoreAccept, RxBranch, Take, Discarded, drvVars
  <2>4. CASE ReadData \/ ReadPing \/ ReadClose
    BY <2>4 DEF ReadData, ReadPing, ReadClose, ReadBranch, Read, Reads, Feeds, Answers
  <2>5. CASE ReadEnd
    BY <2>5 DEF ReadEnd, ReadBranch, TellsEnd, Feeds
  <2> QED
    BY <1>3, <2>1, <2>2, <2>3, <2>4, <2>5 DEF Pump
<1>4. CASE Ending
  <2>1. CASE Tell
    BY <2>1 DEF Tell, TellsEnd, Feeds
  <2>2. CASE Leave \/ Drain \/ Return
    BY <2>2 DEF Leave, Drain, Return, Turned
  <2> QED
    BY <1>4, <2>1, <2>2 DEF Ending
<1> QED
  BY <1>1, <1>2, <1>3, <1>4 DEF DriverNext

LEMMA Flow ==
    ASSUME TypeOK, Awaits, [Next]_vars
    PROVE  \/ (\E e \in Event : Placed(e)) \/ Held \/ Gets \/ Lands \/ Waits
           \/ (\E e \in Input : Arrives(e)) \/ Lost
           \/ Discarded \/ Taken \/ Written \/ Reads \/ TellsEnd \/ Turned
<1>1. CASE UNCHANGED vars
  BY <1>1 DEF vars, appVars, chanVars, drvVars, outward, inward, at, Held, sendVars
<1>2. CASE RunPut
  BY <1>2 DEF RunPut, Lands, Waits, appVars, chanVars, drvVars, outward, at
<1> QED
  BY <1>1, <1>2, AppFlow, ClientFlow, DriverFlow DEF Next, AppNext

-----------------------------------------------------------------------------
(* The types.                                                               *)

LEMMA Sizes ==
    ASSUME TypeOK
    PROVE  /\ Len(chan) \in Nat /\ Len(accepted) \in Nat /\ Len(out) \in Nat
           /\ Len(queue) \in Nat /\ Len(got) \in Nat
           /\ Len(inbox) \in Nat /\ Len(typed) \in Nat
           /\ chan \in Seq(Event) /\ accepted \in Seq(1..MaxSends) /\ out \in Seq(Frame)
           /\ queue \in Seq(Message) /\ got \in Seq(Message)
           /\ inbox \in Seq(Input) /\ typed \in Seq(1..MaxFrames)
           /\ sent \in Nat /\ frames \in Nat /\ MaxSends \in Nat /\ MaxFrames \in Nat
  BY LenProperties, WsAssumption DEF TypeOK, Message

\* What of it is arithmetic.
LEMMA Counts ==
    ASSUME TypeOK
    PROVE  /\ sent \in Nat /\ frames \in Nat /\ MaxSends \in Nat /\ MaxFrames \in Nat
           /\ Len(chan) \in Nat /\ Len(accepted) \in Nat
  BY Sizes

LEMMA Kept ==
    ASSUME Awaits
    PROVE  /\ Close.kind = "close" /\ Pong.kind = "pong" /\ None.kind = "none"
           /\ Close \in Frame /\ Pong \in Frame /\ AppData \subseteq Frame
           /\ pc = "write" => /\ frame \in Frame
                              /\ frame.kind # "data" => frame \in {Close, Pong}
                              /\ frame.kind = "data" => frame \in AppData
  BY WsAssumption DEF Awaits, Close, Pong, None, Frame, AppData, Data

LEMMA MessageTypes ==
    ASSUME TypeOK, Awaits, [Next]_vars
    PROVE  /\ chan' \in Seq(Event) /\ Len(chan') <= WsChannelBound
           /\ accepted' \in Seq(1..MaxSends) /\ opening' \in Kinds \cup {"none"}
           /\ out' \in Seq(Frame)
           /\ inbox' \in Seq(Input) /\ typed' \in Seq(1..MaxFrames)
<1>1. /\ chan' \in Seq(Event) /\ Len(chan') <= WsChannelBound
      /\ accepted' \in Seq(1..MaxSends) /\ opening' \in Kinds \cup {"none"}
  <2>1. ASSUME NEW e \in Event, Placed(e)
        PROVE  /\ chan' \in Seq(Event) /\ Len(chan') <= WsChannelBound
               /\ accepted' \in Seq(1..MaxSends) /\ opening' \in Kinds \cup {"none"}
    <3>1. e.kind \in Kinds /\ e.n \in 1..MaxSends
      BY DEF Event
    <3>2. Append(chan, e) \in Seq(Event) /\ Len(Append(chan, e)) = Len(chan) + 1
      BY Sizes, AppendProperties
    <3>3. Append(accepted, e.n) \in Seq(1..MaxSends)
      BY <3>1, Sizes, AppendProperties
    <3>4. Len(chan') <= WsChannelBound /\ chan' \in Seq(Event)
      BY <2>1, <3>2, Sizes, WsAssumption DEF Placed, Place
    <3> QED
      BY <2>1, <3>1, <3>3, <3>4 DEF Placed, Place, TypeOK
  <2>2. ASSUME chan # <<>>, chan' = Tail(chan), UNCHANGED sendVars
        PROVE  /\ chan' \in Seq(Event) /\ Len(chan') <= WsChannelBound
               /\ accepted' \in Seq(1..MaxSends) /\ opening' \in Kinds \cup {"none"}
    <3>1. /\ chan' \in Seq(Event) /\ Len(chan') = Len(chan) - 1
          /\ Len(chan) <= WsChannelBound
      BY <2>2, Sizes, HeadTailProperties DEF TypeOK
    <3>2. Len(chan') <= WsChannelBound
      BY <3>1, Sizes, WsAssumption
    <3> QED
      BY <2>2, <3>1, <3>2 DEF TypeOK, sendVars
  <2>3. CASE UNCHANGED <<chan, accepted, opening>>
    BY <2>3 DEF TypeOK
  <2> QED
    BY <2>1, <2>2, <2>3, Flow DEF Held, Gets, Lands, Waits, Arrives, Lost, Discarded, Taken,
       Written, Reads, TellsEnd, Turned, outward, sendVars
<1>2. out' \in Seq(Frame)
  <2>1. CASE Written
    BY <2>1, Kept, Sizes, AppendProperties DEF Written
  <2>2. CASE UNCHANGED out
    BY <2>2 DEF TypeOK
  <2> QED
    BY <2>1, <2>2, Flow DEF Placed, Held, Gets, Lands, Waits, Arrives, Lost, Discarded, Taken,
       Reads, TellsEnd, Turned, outward
<1>3. inbox' \in Seq(Input) /\ typed' \in Seq(1..MaxFrames)
  <2>1. ASSUME NEW e \in Input, Arrives(e)
        PROVE  inbox' \in Seq(Input) /\ typed' \in Seq(1..MaxFrames)
    <3>1. inbox' \in Seq(Input)
      BY <2>1, Sizes, AppendProperties DEF Arrives
    <3>2. e.kind \in {"data", "ping"} /\ e.n = frames + 1 => e.n \in 1..MaxFrames
      BY Sizes DEF Input
    <3>3. e.n \in 1..MaxFrames => Append(typed, e.n) \in Seq(1..MaxFrames)
      BY Sizes, AppendProperties
    <3> QED
      BY <2>1, <3>1, <3>2, <3>3, Sizes DEF Arrives
  <2>2. CASE Reads
    BY <2>2, Sizes, HeadTailProperties DEF Reads
  <2>3. CASE inbox' \in {inbox, <<>>} /\ UNCHANGED typed
    BY <2>3, Sizes, EmptySeq
  <2> QED
    BY <2>1, <2>2, <2>3, Flow DEF Placed, Held, Gets, Lands, Waits, Lost, Discarded, Taken,
       Written, TellsEnd, Turned, inward, clientVars
<1> QED
  BY <1>1, <1>2, <1>3

LEMMA FeedTypes ==
    ASSUME TypeOK, Awaits, [Next]_vars
    PROVE  /\ put' \in [msg : Message, waits : BOOLEAN] \cup {NoPut}
           /\ queue' \in Seq(Message) /\ Len(queue') <= WsQueueMaxsize
           /\ got' \in Seq(Message)
<1>1. Disconnect \in Message /\ (put # NoPut => put.msg \in Message)
  BY WsAssumption DEF Message, Connect, Disconnect, TypeOK
<1>2. put' \in [msg : Message, waits : BOOLEAN] \cup {NoPut}
  <2>1. ASSUME NEW m \in Message, NEW to, Feeds(m, to)
        PROVE  put' \in [msg : Message, waits : BOOLEAN]
    BY <2>1 DEF Feeds
  <2>2. CASE Reads
    <3>1. Head(inbox) \in Input
      BY <2>2, Sizes, HeadTailProperties DEF Reads
    <3>2. Head(inbox).n \in Message
      BY <3>1, WsAssumption DEF Input, Message, Connect, Disconnect
    <3>3. CASE UNCHANGED put
      BY <3>3 DEF TypeOK, Message
    <3> QED
      BY <1>1, <2>1, <2>2, <3>2, <3>3 DEF Reads, Answers
  <2>3. CASE Waits
    <3>1. [msg |-> put.msg, waits |-> TRUE] \in [msg : Message, waits : BOOLEAN]
      BY <1>1, <2>3 DEF Waits
    <3> QED
      BY <2>3, <3>1 DEF Waits
  <2>4. CASE UNCHANGED put \/ put' = NoPut
    BY <2>4 DEF TypeOK, Message
  <2> QED
    BY <1>1, <2>1, <2>2, <2>3, <2>4, Flow DEF Placed, Held, Gets, Lands, Arrives, Lost,
       Discarded, Taken, Written, TellsEnd, Turned, inward, feedVars
<1>3. queue' \in Seq(Message) /\ Len(queue') <= WsQueueMaxsize /\ got' \in Seq(Message)
  <2>1. CASE Gets
    <3>1. /\ Head(queue) \in Message /\ Tail(queue) \in Seq(Message)
          /\ Len(Tail(queue)) = Len(queue) - 1 /\ Len(queue) <= WsQueueMaxsize
      BY <2>1, Sizes, HeadTailProperties DEF Gets, TypeOK
    <3>2. Append(got, Head(queue)) \in Seq(Message)
      BY <3>1, Sizes, AppendProperties
    <3>3. Len(Tail(queue)) <= WsQueueMaxsize
      BY <3>1, Sizes, WsAssumption
    <3> QED
      BY <2>1, <3>1, <3>2, <3>3 DEF Gets
  <2>2. CASE Lands
    <3>1. /\ Append(queue, put.msg) \in Seq(Message)
          /\ Len(Append(queue, put.msg)) = Len(queue) + 1
      BY <1>1, <2>2, Sizes, AppendProperties DEF Lands
    <3> QED
      BY <2>2, <3>1, Sizes, WsAssumption DEF Lands
  <2>3. CASE UNCHANGED <<queue, got>>
    BY <2>3, Sizes DEF TypeOK
  <2> QED
    BY <2>1, <2>2, <2>3, Flow DEF Placed, Held, Waits, Arrives, Lost, Discarded, Taken,
       Written, Reads, TellsEnd, Turned, inward, feedVars
<1> QED
  BY <1>2, <1>3

\* Nothing is written behind the close, though the stream would take it.
LEMMA QuietStep ==
    ASSUME TypeOK, Awaits, [Next]_vars
    PROVE  Quiet'
<1> USE DEF Write, Feed, chanVars, drvVars, at
<1>1. UNCHANGED out => (CloseWritten' <=> CloseWritten)
  BY DEF CloseWritten
<1>2. Quiet
  BY DEF Awaits
<1>3. CASE UNCHANGED <<at, appClosed, out>>
  BY <1>1, <1>2, <1>3 DEF Quiet, Unopened, Pumped
<1>4. CASE \/ AppNext \/ SendResumes \/ SinkFreed \/ FutureResolves \/ RunPut
           \/ (\E k \in {"data", "ping"} : ClientSends(k)) \/ ClientCloses
           \/ ClientLeaves \/ UNCHANGED vars
  BY <1>3, <1>4 DEF AppNext, Send, Receive, Get, AppEnds, SendResumes, SinkFreed,
     FutureResolves, RunPut, ClientSends, ClientCloses, ClientLeaves, vars
<1>5. CASE WriteDone
  <2>1. /\ pc = "write" /\ pc' = then /\ then' = then /\ appClosed' = appClosed
        /\ then \in {"pump", "tell", "leave", "finish", "return"}
    BY <1>5 DEF WriteDone, Awaits
  <2>2. pc' # "write" /\ ~Unopened' /\ (Pumped' => pc' = "pump" /\ then = "pump")
    BY <2>1 DEF Unopened, Pumped
  <2>3. CASE frame = Close
    <3>1. then = "pump" => appClosed
      BY <1>2, <2>1, <2>3 DEF Quiet
    <3> QED
      BY <2>1, <2>2, <3>1 DEF Quiet
  <2>4. CASE frame = Pong
    <3>1. ~CloseWritten /\ UNCHANGED out
      BY <1>5, <2>4 DEF WriteDone
    <3> QED
      BY <1>1, <2>2, <3>1 DEF Quiet
  <2>5. CASE frame \in AppData
    <3>1. frame.kind = "data" /\ frame \in Frame /\ out' = Append(out, frame)
      BY <1>5, <2>1, <2>5, Kept DEF WriteDone, AppData, Data
    <3>2. ~CloseWritten
      BY <1>2, <2>1, <3>1, Kept DEF Quiet
    <3>3. /\ Len(out') = Len(out) + 1 /\ out'[Len(out) + 1] = frame
          /\ \A i \in 1..Len(out) : out'[i] = out[i]
          /\ \A i \in 1..Len(out') : i \in 1..Len(out) \/ i = Len(out) + 1
      BY <3>1, Sizes, AppendItems
    <3>4. ~CloseWritten'
      BY <3>1, <3>2, <3>3 DEF CloseWritten
    <3> QED
      BY <2>2, <3>4 DEF Quiet
  <2> QED
    BY <2>1, <2>3, <2>4, <2>5 DEF Awaits
<1>6. CASE WriteFails
  <2>1. /\ pc = "write" /\ then' = then /\ UNCHANGED <<appClosed, out>>
        /\ pc' = IF frame = Close THEN then ELSE "leave"
        /\ then \in {"pump", "tell", "leave", "finish", "return"}
    BY <1>6 DEF WriteFails, Awaits
  <2> QED
    BY <1>1, <1>2, <2>1 DEF Quiet, Unopened, Pumped
<1>7. CASE FeedDone
  BY <1>1, <1>2, <1>7 DEF FeedDone, Awaits, Quiet, Unopened, Pumped
<1>8. CASE FeedTimesOut
  BY <1>1, <1>2, <1>8 DEF FeedTimesOut, Quiet, Unopened, Pumped
<1>9. CASE Handshake
  <2>1. pc = "accept" /\ ~CloseWritten /\ UNCHANGED <<appClosed, out>>
    BY <1>2, <1>9 DEF Handshake, Accept, Deny, AppFailed, AcceptTimesOut, Quiet, Unopened
  <2>2. pc' = "write" => then' # "pump"
    BY <1>9 DEF Handshake, Accept, Deny, AppFailed, AcceptTimesOut
  <2> QED
    BY <1>1, <2>1, <2>2 DEF Quiet
<1>10. CASE Pump
  <2>1. pc = "pump" /\ UNCHANGED out /\ (CloseWritten => appClosed)
    BY <1>2, <1>10 DEF Pump, AppReturned, RxBranch, TakeData, TakeClose, IgnoreAccept,
       SinkGone, ReadBranch, ReadData, ReadPing, ReadClose, ReadEnd, Quiet, Pumped
  <2>2. CASE TakeData \/ TakeClose \/ IgnoreAccept \/ SinkGone
    <3>1. ~CloseWritten
      BY <2>1, <2>2 DEF TakeData, TakeClose, IgnoreAccept, SinkGone, RxBranch
    <3>2. pc' = "write" /\ frame' = Close /\ then' = "pump" => appClosed'
      <4>1. CASE TakeData
        <5>1. Head(chan).kind = "data" /\ frame' = Head(chan)
          BY <4>1 DEF TakeData, Take
        <5> QED
          BY <5>1, Kept
      <4>2. CASE TakeClose
        BY <4>2 DEF TakeClose
      <4>3. CASE IgnoreAccept \/ SinkGone
        BY <2>1, <4>3 DEF IgnoreAccept, SinkGone
      <4> QED
        BY <2>2, <4>1, <4>2, <4>3
    <3> QED
      BY <1>1, <2>1, <3>1, <3>2 DEF Quiet
  <2>3. CASE AppReturned
    BY <1>1, <2>1, <2>3 DEF AppReturned, Quiet, Unopened, Pumped
  <2>4. CASE ReadData \/ ReadEnd
    BY <1>1, <2>1, <2>4 DEF ReadData, ReadEnd, Quiet, Unopened, Pumped
  <2>5. CASE ReadPing
    <3>1. frame' = Pong /\ Pong # Close
      BY <2>5 DEF ReadPing, Pong, Close
    <3> QED
      BY <1>1, <2>1, <2>5, <3>1 DEF ReadPing, Quiet, Unopened, Pumped
  <2>6. CASE ReadClose
    BY <1>1, <2>1, <2>6 DEF ReadClose, Quiet, Unopened, Pumped
  <2> QED
    BY <1>10, <2>2, <2>3, <2>4, <2>5, <2>6 DEF Pump
<1>11. CASE Ending
  BY <1>1, <1>2, <1>11 DEF Ending, Tell, Leave, Drain, Return, Quiet, Unopened, Pumped
<1> QED
  BY <1>4, <1>5, <1>6, <1>7, <1>8, <1>9, <1>10, <1>11 DEF Next, DriverNext

LEMMA AtTypes ==
    ASSUME TypeOK, Awaits, [Next]_vars
    PROVE  /\ pc' \in {"feed", "accept", "pump", "write", "tell", "leave", "draining",
                       "finish", "return", "over"}
           /\ frame' \in Frame \cup {None}
           /\ then' \in {"accept", "pump", "tell", "leave", "finish", "return"}
           /\ Awaits'
<1>1. /\ pc \in {"feed", "accept", "pump", "write", "tell", "leave", "draining",
                 "finish", "return", "over"}
      /\ frame \in Frame \cup {None}
      /\ then \in {"accept", "pump", "tell", "leave", "finish", "return"}
  BY DEF TypeOK
<1>9. Quiet'
  BY QuietStep
<1>2. app' = "blocked" => pending' \in Event
  BY Flow DEF Placed, Held, Gets, Lands, Waits, Arrives, Lost, Discarded, Taken, Written,
     Reads, TellsEnd, Turned, outward, sendVars, Awaits
<1>3. CASE UNCHANGED at
  BY <1>1, <1>2, <1>3, <1>9 DEF at, Awaits
<1>4. CASE Taken
  <2>1. Head(chan) \in Event /\ Head(chan).kind = "data"
    BY <1>4, Sizes, HeadTailProperties DEF Taken
  <2>2. Head(chan) \in AppData /\ Head(chan) \in Frame
    BY <2>1, Kept DEF Event, AppData, Data
  <2> QED
    BY <1>2, <1>4, <1>9, <2>2 DEF Taken, Awaits
<1>5. CASE Discarded
  BY <1>1, <1>2, <1>9, <1>5, Kept DEF Discarded, Awaits, at
<1>6. CASE Written
  BY <1>1, <1>2, <1>9, <1>6 DEF Written, Awaits
<1>7. CASE Reads \/ TellsEnd
  BY <1>1, <1>2, <1>9, <1>7, Kept DEF Reads, TellsEnd, Feeds, Answers, Awaits
<1>8. CASE Turned
  BY <1>1, <1>2, <1>9, <1>8, Kept DEF Turned, Awaits
<1> QED
  BY <1>3, <1>4, <1>5, <1>6, <1>7, <1>8, Flow
     DEF Placed, Held, Gets, Lands, Waits, Arrives, Lost

LEMMA TypeStep ==
    ASSUME TypeOK, Awaits, [Next]_vars
    PROVE  TypeOK' /\ Awaits'
<1>1. /\ sink' \in BOOLEAN /\ resolved' \in BOOLEAN /\ disconnected' \in BOOLEAN
      /\ appClosed' \in BOOLEAN /\ appDone' \in BOOLEAN /\ rx' \in {"open", "closed"}
  <2> USE DEF Next, AppNext, DriverNext, Handshake, Pump, Ending,
     Send, Place, SendResumes, Receive, Get, AppEnds, SinkFreed, FutureResolves,
     WriteDone, WriteFails, FeedDone, FeedTimesOut, Accept, Deny, AppFailed, AcceptTimesOut,
     AppReturned, TakeData, TakeClose, IgnoreAccept, SinkGone, ReadData, ReadPing, ReadClose,
     ReadEnd, Tell, Leave, Drain, Return, RunPut,
     ClientSends, ClientCloses, ClientLeaves,
     vars, appVars, chanVars, drvVars
  <2>1. sink' \in BOOLEAN /\ resolved' \in BOOLEAN /\ disconnected' \in BOOLEAN
    BY Zenon DEF TypeOK
  <2>2. appClosed' \in BOOLEAN /\ appDone' \in BOOLEAN
    BY Zenon DEF TypeOK
  <2>3. rx' \in {"open", "closed"}
    BY DEF TypeOK
  <2> QED
    BY <2>1, <2>2, <2>3
<1>2. /\ app' \in {"running", "blocked", "receiving", "ended"}
      /\ client' \in {"here", "closed", "gone"}
  BY Flow DEF Placed, Held, Gets, Lands, Waits, Arrives, Lost, Discarded, Taken, Written,
     Reads, TellsEnd, Turned, outward, inward, clientVars, TypeOK
<1>3. sent' \in 0..MaxSends /\ frames' \in 0..MaxFrames
  <2>1. sent' = sent \/ (sent < MaxSends /\ sent' = sent + 1)
    BY Flow DEF Placed, Held, Gets, Lands, Waits, Arrives, Lost, Discarded, Taken, Written,
       Reads, TellsEnd, Turned, outward, sendVars
  <2>2. frames' = frames \/ (frames < MaxFrames /\ frames' = frames + 1)
    BY Flow DEF Placed, Held, Gets, Lands, Waits, Arrives, Lost, Discarded, Taken, Written,
       Reads, TellsEnd, Turned, inward, clientVars
  <2>3. sent \in 0..MaxSends /\ frames \in 0..MaxFrames
    BY DEF TypeOK
  <2> QED
    BY <2>1, <2>2, <2>3, Counts
<1>4. pending' \in Event \cup {None}
  BY Flow DEF Placed, Held, Gets, Lands, Waits, Arrives, Lost, Discarded, Taken, Written,
     Reads, TellsEnd, Turned, outward, sendVars, TypeOK
<1> QED
  BY <1>1, <1>2, <1>3, <1>4, MessageTypes, FeedTypes, AtTypes DEF TypeOK, Message

-----------------------------------------------------------------------------
(* What the client is written.                                              *)

\* How a step of the driver that takes no event and writes none moves it.
LEMMA Turns ==
    ASSUME Awaits, Turned
    PROVE  /\ Unopened' => Unopened
           /\ Pumped' => Pumped
           /\ Forwarding' => Forwarding /\ ~Writing
           /\ ~Writing'
           /\ Listening' => Listening /\ pc' # "feed" /\ (pc = "feed" => put = NoPut)
<1>1. Close.kind = "close" /\ Pong.kind = "pong"
  BY Kept
<1> QED
  BY <1>1 DEF Turned, Awaits, Unopened, Pumped, Forwarding, Writing, Listening

LEMMA ReadsOrTells ==
    ASSUME Awaits, Reads \/ TellsEnd
    PROVE  /\ ~Unopened' /\ ~Writing' /\ ~Writing
           /\ Pumped' => Pumped
           /\ Forwarding' => Forwarding
<1>1. Close.kind = "close" /\ Pong.kind = "pong"
  BY Kept
<1> QED
  BY <1>1 DEF Reads, TellsEnd, Feeds, Answers, Unopened, Pumped, Forwarding, Writing

LEMMA WriteOrderStep ==
    ASSUME TypeOK, Awaits, WriteOrder, [Next]_vars
    PROVE  WriteOrder'
<1>1. ASSUME NEW e \in Event, Placed(e) PROVE WriteOrder'
  <2>1. e.kind # "none" /\ UNCHANGED <<out, pc, then, frame>> /\ chan' = Append(chan, e)
    BY <1>1 DEF Event, Kinds, Placed, Place, at
  <2>2. chan' # <<>>
    <3>1. Len(chan') = Len(chan) + 1
      BY <2>1, Sizes, AppendItems
    <3>2. CASE chan' = <<>>
      BY <3>1, <3>2, Sizes
    <3> QED
      BY <3>2
  <2>3. ASSUME chan = <<>>, Unopened PROVE chan'[1].kind = opening'
    <3>1. chan'[1] = e
      BY <2>1, <2>3, Sizes, AppendItems
    <3>2. opening' = e.kind
      BY <1>1, <2>3 DEF WriteOrder, Placed, Place
    <3> QED
      BY <3>1, <3>2
  <2>4. ASSUME chan # <<>>, Unopened PROVE chan'[1].kind = opening'
    <3>1. chan[1] \in Event /\ 1 \in 1..Len(chan)
      BY <2>4, Sizes, TailItems
    <3>2. chan \in Seq(Event)
      BY Sizes
    <3>3. chan'[1] = chan[1]
      BY <2>1, <3>1, <3>2, AppendItems
    <3>4. chan[1].kind # "none"
      BY <3>1 DEF Event, Kinds
    <3>5. opening = chan[1].kind
      BY <2>4 DEF WriteOrder
    <3>6. opening # "none" => opening' = opening
      BY <1>1 DEF Placed, Place
    <3> QED
      BY <3>3, <3>4, <3>5, <3>6
  <2>5. Unopened => chan'[1].kind = opening'
    BY <2>3, <2>4
  <2>6. Opened => Opened'
    BY <1>1 DEF Opened, Placed, Place
  <2> QED
    BY <2>1, <2>2, <2>5, <2>6 DEF WriteOrder, Unopened, Pumped, Writing
<1>2. CASE UNCHANGED <<chan, opening, out, at>>
  BY <1>2 DEF WriteOrder, Unopened, Pumped, Writing, Opened, at
<1>3. CASE Discarded
  <2>1. UNCHANGED <<opening, out>>
    BY <1>3 DEF Discarded, sendVars
  <2>2. ~Unopened'
    BY <1>3 DEF Discarded, Unopened, at
  <2>3. Pumped' \/ Writing' => Opened
    <3>1. CASE pc = "accept" /\ Head(chan).kind = "accept"
      BY <1>3, <3>1, Sizes, HeadTailProperties DEF Discarded, WriteOrder, Unopened, Opened
    <3>2. CASE pc = "pump"
      BY <3>2 DEF WriteOrder, Pumped
    <3>3. CASE pc' = "write" /\ frame' = Close /\ then' = "finish"
      BY <3>3, Kept DEF Pumped, Writing
    <3> QED
      BY <1>3, <3>1, <3>2, <3>3 DEF Discarded
  <2> QED
    BY <2>1, <2>2, <2>3 DEF WriteOrder, Opened
<1>4. CASE Taken
  BY <1>4 DEF Taken, WriteOrder, Unopened, Pumped, Writing, Opened, sendVars
<1>5. CASE Written
  <2>1. frame \in Frame /\ (frame.kind = "data" => Opened)
    BY <1>5, Kept DEF Written, WriteOrder, Writing
  <2>2. /\ Len(out') = Len(out) + 1 /\ out'[Len(out) + 1] = frame
        /\ \A i \in 1..Len(out) : out'[i] = out[i]
        /\ \A i \in 1..Len(out') : i \in 1..Len(out) \/ i = Len(out) + 1
    <3>1. out \in Seq(Frame) /\ out' = Append(out, frame)
      BY <1>5, Sizes DEF Written
    <3> QED
      BY <2>1, <3>1, AppendItems
  <2>3. \A i \in 1..Len(out') : out'[i].kind = "data" => Opened
    BY <2>1, <2>2 DEF WriteOrder
  <2>4. ~Unopened' /\ ~Writing' /\ (Pumped' => Pumped) /\ UNCHANGED opening
    BY <1>5 DEF Written, Unopened, Pumped, Writing, Awaits, sendVars
  <2> QED
    BY <2>3, <2>4 DEF WriteOrder, Opened
<1>6. CASE Reads \/ TellsEnd
  <2>1. UNCHANGED <<chan, opening, out>>
    BY <1>6 DEF Reads, TellsEnd, outward, sendVars
  <2> QED
    BY <1>6, <2>1, ReadsOrTells DEF WriteOrder, Opened
<1>7. CASE Turned
  <2>1. UNCHANGED <<chan, opening, out>>
    BY <1>7 DEF Turned, outward, sendVars
  <2> QED
    BY <1>7, <2>1, Turns DEF WriteOrder, Opened
<1> QED
  BY <1>1, <1>2, <1>3, <1>4, <1>5, <1>6, <1>7, Flow
     DEF Held, Gets, Lands, Waits, Arrives, Lost, outward, sendVars

LEMMA CloseLastStep ==
    ASSUME TypeOK, Awaits, WriteOrder, WriteOrder', CloseLast, [Next]_vars
    PROVE  CloseLast'
<1>1. \A i \in 1..Len(out') : out'[i].kind = "data" => opening' = "accept"
  BY DEF WriteOrder, Opened
<1>2. CASE Written
  <2>1. frame \in Frame /\ \A i \in 1..Len(out) : out[i].kind # "close"
    BY <1>2, Kept DEF Written, CloseWritten
  <2>2. /\ Len(out') = Len(out) + 1 /\ out'[Len(out) + 1] = frame
        /\ \A i \in 1..Len(out) : out'[i] = out[i]
        /\ \A i \in 1..Len(out') : i \in 1..Len(out) \/ i = Len(out) + 1
    <3>1. out \in Seq(Frame) /\ out' = Append(out, frame)
      BY <1>2, Sizes DEF Written
    <3> QED
      BY <2>1, <3>1, AppendItems
  <2>3. \A i \in 1..Len(out') : out'[i].kind = "close" => i = Len(out')
    BY <2>1, <2>2, Sizes
  <2> QED
    BY <1>1, <2>3 DEF CloseLast
<1>3. CASE UNCHANGED out
  BY <1>1, <1>3 DEF CloseLast
<1> QED
  BY <1>2, <1>3, Flow DEF Placed, Held, Gets, Lands, Waits, Arrives, Lost, Discarded, Taken,
     Reads, TellsEnd, Turned, outward

LEMMA SendOrderStep ==
    ASSUME TypeOK, Awaits, SendOrder, [Next]_vars
    PROVE  SendOrder'
<1>1. /\ \A i \in 1..Len(chan) : chan[i].n \in Nat
      /\ \A k \in 1..Len(accepted) : accepted[k] \in Nat
  <2>1. \A i \in 1..Len(chan) : chan[i] \in Event
    BY Sizes, ElementOfSeq
  <2>2. \A k \in 1..Len(accepted) : accepted[k] \in 1..MaxSends
    BY Sizes, ElementOfSeq
  <2>3. \A x \in Event : x.n \in Nat
    BY DEF Event
  <2> QED
    BY <2>1, <2>2, <2>3
<1>2. ASSUME NEW e \in Event, Placed(e) PROVE SendOrder'
  <2>1. e.n \in 1..MaxSends /\ e.kind \in Kinds /\ sent' = e.n /\ Upto(e.n - 1)
    <3>1. e.n \in 1..MaxSends /\ e.kind \in Kinds
      BY DEF Event
    <3>2. CASE app = "running" /\ sent' = sent + 1 /\ e.n = sent + 1
      <4>1. e.n - 1 = sent
        BY <3>2, Sizes
      <4> QED
        BY <3>1, <3>2, <4>1 DEF SendOrder
    <3>3. CASE app = "blocked" /\ sent' = sent /\ e = pending
      BY <3>1, <3>3 DEF SendOrder
    <3> QED
      BY <1>2, <3>2, <3>3 DEF Placed
  <2>2. /\ Len(chan') = Len(chan) + 1 /\ chan'[Len(chan) + 1] = e
        /\ \A i \in 1..Len(chan) : chan'[i] = chan[i]
        /\ \A i \in 1..Len(chan') : i \in 1..Len(chan) \/ i = Len(chan) + 1
    BY <1>2, Sizes, AppendItems DEF Placed, Place
  <2>3. \A k \in 1..Len(accepted) : accepted[k] < e.n
    BY <1>1, <2>1 DEF Upto
  <2>4. \A i \in 1..Len(chan) : chan[i].n < e.n
    BY <1>1, <2>1 DEF Upto
  <2>5. LineRises(chan', Data)
    <3>1. chan' = Append(chan, e)
      BY <1>2 DEF Placed, Place
    <3> QED
      BY <2>4, <3>1, Sizes, RisesOn DEF SendOrder
  <2>6. LogRises(accepted') /\ \A k \in 1..Len(accepted') : accepted'[k] <= e.n
    <3>1. CASE e.kind = "data"
      <4>1. accepted' = Append(accepted, e.n)
        BY <1>2, <3>1 DEF Placed, Place
      <4>2. LogRises(accepted')
        BY <2>1, <2>3, <4>1, Sizes, LogRisesOn DEF SendOrder
      <4>3. /\ Len(accepted') = Len(accepted) + 1 /\ accepted'[Len(accepted) + 1] = e.n
            /\ \A k \in 1..Len(accepted) : accepted'[k] = accepted[k]
            /\ \A k \in 1..Len(accepted') : k \in 1..Len(accepted) \/ k = Len(accepted) + 1
        <5>1. accepted \in Seq(1..MaxSends) /\ e.n \in 1..MaxSends
          BY <2>1, Sizes
        <5>2. accepted' = Append(accepted, e.n)
          BY <4>1
        <5> QED
          BY <5>1, <5>2, AppendItems
      <4>4. \A k \in 1..Len(accepted') : accepted'[k] <= e.n
        BY <1>1, <2>1, <2>3, <4>3
      <4> QED
        BY <4>2, <4>4
    <3>2. CASE e.kind # "data"
      <4>1. accepted' = accepted
        BY <1>2, <3>2 DEF Placed, Place
      <4> QED
        BY <1>1, <2>1, <2>3, <4>1 DEF SendOrder
    <3> QED
      BY <3>1, <3>2
  <2>7. \A i \in 1..Len(chan') : chan'[i].n <= e.n
    BY <1>1, <2>1, <2>2, <2>4
  <2>8. app' # "blocked"
    BY <1>2 DEF Placed
  <2> QED
    BY <2>1, <2>5, <2>6, <2>7, <2>8 DEF SendOrder, Upto
<1>3. CASE Held
  <2>1. UNCHANGED <<chan, accepted>>
    BY <1>3 DEF Held
  <2>2. ASSUME NEW m \in Nat, sent <= m
        PROVE  /\ \A k \in 1..Len(accepted') : accepted'[k] <= m
               /\ \A i \in 1..Len(chan') : chan'[i].n <= m
    <3>1. \A k \in 1..Len(accepted) : accepted[k] <= m
      BY <1>1, <2>2, Counts DEF SendOrder, Upto
    <3>2. \A i \in 1..Len(chan) : chan[i].n <= m
      BY <1>1, <2>2, Counts DEF SendOrder, Upto
    <3> QED
      BY <2>1, <3>1, <3>2
  <2>3. LogRises(accepted') /\ LineRises(chan', Data)
    BY <2>1 DEF SendOrder
  <2>4. CASE app' = "blocked" /\ sent' = sent + 1 /\ pending'.n = sent + 1
    <3>1. sent \in Nat /\ sent' = sent + 1 /\ pending'.n = sent'
      BY <2>4, Sizes
    <3>2. sent' \in Nat /\ sent <= sent' /\ sent' - 1 \in Nat /\ sent <= sent' - 1
      BY <3>1, Sizes
    <3>3. /\ \A k \in 1..Len(accepted') : accepted'[k] <= sent'
          /\ \A i \in 1..Len(chan') : chan'[i].n <= sent'
      BY <2>2, <3>2
    <3>4. /\ \A k \in 1..Len(accepted') : accepted'[k] <= sent' - 1
          /\ \A i \in 1..Len(chan') : chan'[i].n <= sent' - 1
      BY <2>2, <3>2
    <3>5. Upto(sent)' /\ Upto(sent - 1)'
      BY <3>3, <3>4 DEF Upto
    <3>6. (LogRises(accepted) /\ LineRises(chan, Data) /\ Upto(sent))'
      BY <2>3, <3>5
    <3>7. (app = "blocked" => pending.n = sent /\ Upto(sent - 1))'
      BY <3>1, <3>5
    <3> QED
      BY <3>6, <3>7 DEF SendOrder
  <2>5. CASE app' # "blocked" /\ (sent' = sent \/ sent' = sent + 1)
    <3>1. sent' \in Nat /\ sent <= sent'
      BY <2>5, Sizes
    <3>2. /\ \A k \in 1..Len(accepted') : accepted'[k] <= sent'
          /\ \A i \in 1..Len(chan') : chan'[i].n <= sent'
      BY <2>2, <3>1
    <3> QED
      BY <2>3, <2>5, <3>2 DEF SendOrder, Upto
  <2>6. CASE UNCHANGED <<app, pending, sent>>
    BY <2>1, <2>6 DEF SendOrder, Upto
  <2> QED
    BY <1>3, <2>4, <2>5, <2>6 DEF Held
<1>4. CASE Discarded \/ Taken
  <2>1. chan # <<>> /\ chan' = Tail(chan) /\ UNCHANGED <<app, sent, accepted, pending>>
    BY <1>4 DEF Discarded, Taken, sendVars
  <2>2. LineRises(chan', Data)
    BY <2>1, Sizes, RisesOn DEF SendOrder
  <2>3. \A i \in 1..Len(chan') : \E j \in 1..Len(chan) : chan'[i] = chan[j]
    BY <2>1, Sizes, TailItems
  <2>4. \A m : Upto(m) => Upto(m)'
    BY <2>1, <2>3 DEF Upto
  <2> QED
    BY <2>1, <2>2, <2>4 DEF SendOrder
<1>5. CASE UNCHANGED <<sent, pending, accepted, chan>> /\ (app' = app \/ app' # "blocked")
  BY <1>5 DEF SendOrder, Upto
<1> QED
  BY <1>2, <1>3, <1>4, <1>5, Flow DEF Gets, Lands, Waits, Arrives, Lost, Written, Reads,
     TellsEnd, Turned, outward, sendVars

LEMMA CarriedStep ==
    ASSUME TypeOK, Awaits, SendOrder, Carried, [Next]_vars
    PROVE  Carried'
<1>1. /\ Len(out) \in Nat /\ Len(accepted) \in Nat /\ Passed \in Nat
      /\ Writing => Passed = Len(out) + 1
      /\ ~Writing => Passed = Len(out)
  BY Sizes DEF Passed
<1>2. (\A e \in Event : e.n \in Int) /\ 1..MaxSends \subseteq Int
  BY DEF Event
<1>3. ASSUME NEW e \in Event, Placed(e) PROVE Carried'
  <2>1. /\ UNCHANGED <<out, pc, then, frame>> /\ chan' = Append(chan, e)
        /\ accepted' = IF e.kind \in Data THEN Append(accepted, e.n) ELSE accepted
    BY <1>3 DEF Placed, Place, Data, at
  <2>2. e.n \in 1..MaxSends
    BY DEF Event
  <2>3. /\ Len(accepted') \in Nat /\ Len(accepted) <= Len(accepted')
        /\ \A k \in 1..Len(accepted) : accepted'[k] = accepted[k]
    <3>1. accepted \in Seq(1..MaxSends) /\ Len(accepted) \in Nat
      BY Sizes
    <3>2. CASE e.kind \in Data
      <4>1. e.n \in 1..MaxSends /\ accepted' = Append(accepted, e.n)
        BY <2>1, <2>2, <3>2
      <4> QED
        BY <3>1, <4>1, AppendItems
    <3>3. CASE e.kind \notin Data
      BY <2>1, <3>1, <3>3
    <3> QED
      BY <3>2, <3>3
  <2>4. /\ CloseWritten' <=> CloseWritten
        /\ Writing' <=> Writing
        /\ Forwarding' <=> Forwarding
        /\ Passed' = Passed
    BY <2>1 DEF CloseWritten, Writing, Forwarding, Unopened, Pumped, Passed
  <2>5. OnStream'
    BY <1>1, <2>1, <2>3 DEF Carried, OnStream
  <2>6. ASSUME ~CloseWritten PROVE Passed <= Len(accepted') /\ Passed <= Len(accepted)
    BY <1>1, <2>3, <2>6 DEF Carried, InFlight
  <2>7. ASSUME ~CloseWritten, Writing PROVE frame.n = accepted'[Passed]
    <3>1. Passed \in 1..Len(accepted)
      BY <1>1, <2>6, <2>7
    <3> QED
      BY <2>3, <2>7, <3>1 DEF Carried, InFlight
  <2>8. ASSUME ~CloseWritten, Forwarding PROVE HoldsRest(chan', Data, accepted', Passed)
    <3>1. HoldsRest(chan, Data, accepted, Passed)
      BY <2>8 DEF Carried, InFlight
    <3>2. HoldsRest(Append(chan, e), Data,
                    IF e.kind \in Data THEN Append(accepted, e.n) ELSE accepted, Passed)
      BY <1>1, <2>2, <2>6, <2>8, <3>1, Sizes, PutInBoth
    <3> QED
      BY <2>1, <3>2
  <2>9. InFlight'
    BY <2>1, <2>4, <2>6, <2>7, <2>8 DEF InFlight
  <2> QED
    BY <2>5, <2>9 DEF Carried
<1>4. CASE UNCHANGED <<accepted, out, chan, at>>
  BY <1>4 DEF Carried, OnStream, InFlight, CloseWritten, Writing, Forwarding, Unopened, Pumped,
     Passed, at
<1>5. CASE CloseWritten /\ UNCHANGED <<accepted, out>>
  BY <1>5 DEF Carried, OnStream, InFlight, CloseWritten
<1>6. ASSUME UNCHANGED <<accepted, out>>, ~Writing', ~CloseWritten,
             Forwarding' => /\ Forwarding /\ ~Writing
                            /\ HoldsRest(chan', Data, accepted, Passed)
      PROVE  Carried'
  <2>1. OnStream' /\ (CloseWritten' <=> CloseWritten)
    BY <1>6 DEF Carried, OnStream, CloseWritten
  <2>2. Passed' = Len(out) /\ Passed' <= Passed
    BY <1>1, <1>6 DEF Passed
  <2>3. ~CloseWritten => Passed' <= Len(accepted)
    BY <1>1, <2>2 DEF Carried, InFlight
  <2>4. Forwarding' => Passed' = Passed
    BY <1>1, <1>6, <2>2
  <2>5. InFlight'
    BY <1>6, <2>1, <2>3, <2>4 DEF InFlight
  <2> QED
    BY <2>1, <2>5 DEF Carried
<1>7. CASE Discarded /\ ~CloseWritten
  <2>1. /\ chan # <<>> /\ chan' = Tail(chan) /\ UNCHANGED <<accepted, out>>
        /\ ~Writing' /\ ~Writing
    BY <1>7, Kept DEF Discarded, Writing, sendVars, at
  <2>2. Forwarding' => Forwarding /\ chan[1].kind \notin Data
    <3>1. Head(chan) = chan[1]
      BY <2>1, Sizes, TailItems
    <3> QED
      BY <1>7, <3>1 DEF Discarded, Forwarding, Unopened, Pumped, Data, at
  <2>3. ASSUME Forwarding' PROVE HoldsRest(chan', Data, accepted, Passed)
    <3>1. HoldsRest(chan, Data, accepted, Passed) /\ chan[1].kind \notin Data
      BY <1>7, <2>2, <2>3 DEF Carried, InFlight
    <3>2. HoldsRest(Tail(chan), Data, accepted, Passed)
      BY <2>1, <3>1, Sizes, NotOfLog
    <3> QED
      BY <2>1, <3>2
  <2> QED
    BY <1>6, <1>7, <2>1, <2>2, <2>3
<1>8. CASE Taken /\ ~CloseWritten
  <2>1. /\ chan # <<>> /\ chan' = Tail(chan) /\ UNCHANGED <<accepted, out>>
        /\ Writing' /\ ~Writing /\ Forwarding /\ frame' = Head(chan)
    BY <1>8 DEF Taken, Writing, Forwarding, Pumped, sendVars
  <2>2. Head(chan) = chan[1] /\ chan[1].kind \in Data
    BY <1>8, <2>1, Sizes, TailItems DEF Taken, Data
  <2>3. HoldsRest(chan, Data, accepted, Passed) /\ LineRises(chan, Data) /\ LogRises(accepted)
    BY <1>8, <2>1 DEF Carried, InFlight, SendOrder
  <2>4. /\ Passed + 1 \in 1..Len(accepted) /\ chan[1].n = accepted[Passed + 1]
        /\ HoldsRest(Tail(chan), Data, accepted, Passed + 1)
    BY <1>1, <1>2, <2>1, <2>2, <2>3, Sizes, NextOfLog
  <2>5. Passed' = Passed + 1
    BY <1>1, <2>1 DEF Passed
  <2>6. OnStream'
    BY <2>1 DEF Carried, OnStream
  <2>7. Passed + 1 <= Len(accepted)
    BY <1>1, <2>4
  <2>8. InFlight'
    BY <2>1, <2>2, <2>4, <2>5, <2>7 DEF InFlight
  <2> QED
    BY <2>6, <2>8 DEF Carried
<1>9. CASE Written
  <2>1. /\ UNCHANGED <<accepted, chan>> /\ ~Writing' /\ ~CloseWritten
        /\ Forwarding' => Forwarding
        /\ out' = Append(out, frame)
    BY <1>9 DEF Written, Writing, Forwarding, Unopened, Pumped, Awaits, sendVars
  <2>2. frame \in Frame /\ (frame = Close \/ Writing) /\ (Writing => frame \in AppData)
    BY <1>9, Kept DEF Written, Writing
  <2>3. /\ Len(out') = Len(out) + 1 /\ out'[Len(out) + 1] = frame
        /\ \A i \in 1..Len(out) : out'[i] = out[i]
        /\ \A i \in 1..Len(out') : i \in 1..Len(out) \/ i = Len(out) + 1
    BY <2>1, <2>2, Sizes, AppendItems
  <2>4. Writing => Passed = Len(out) + 1 /\ Passed <= Len(accepted) /\ frame.n = accepted[Passed]
    BY <1>1, <2>1 DEF Carried, InFlight
  <2>5. OnStream'
    <3> SUFFICES ASSUME NEW i \in 1..Len(out')
                 PROVE  \/ out'[i] = Close
                        \/ i <= Len(accepted) /\ out'[i] \in AppData /\ out'[i].n = accepted[i]
      BY <2>1 DEF OnStream
    <3>1. CASE i \in 1..Len(out)
      BY <2>3, <3>1 DEF Carried, OnStream
    <3>2. CASE i = Len(out) + 1
      BY <2>2, <2>3, <2>4, <3>2
    <3> QED
      BY <2>3, <3>1, <3>2
  <2>6. CASE frame = Close
    <3>1. Len(out) + 1 \in 1..Len(out') /\ out'[Len(out) + 1].kind = "close"
      BY <1>1, <2>3, <2>6, Kept
    <3>2. CloseWritten'
      BY <3>1 DEF CloseWritten
    <3> QED
      BY <2>5, <3>2 DEF Carried, InFlight
  <2>7. CASE Writing
    <3>1. Passed' = Len(out) + 1
      BY <2>1, <2>3, <1>1 DEF Passed
    <3>2. Passed' = Passed /\ Passed <= Len(accepted)
      BY <2>4, <2>7, <3>1
    <3>3. Forwarding' => HoldsRest(chan', Data, accepted', Passed')
      BY <2>1, <3>2 DEF Carried, InFlight
    <3> QED
      BY <2>1, <2>5, <3>2, <3>3 DEF Carried, InFlight
  <2> QED
    BY <2>2, <2>6, <2>7
<1>10. CASE (Reads \/ TellsEnd) /\ ~CloseWritten
  <2>1. UNCHANGED <<chan, accepted, out>>
    BY <1>10 DEF Reads, TellsEnd, outward, sendVars
  <2>2. ~Writing' /\ ~Writing /\ (Forwarding' => Forwarding)
    BY <1>10, ReadsOrTells
  <2> QED
    BY <1>6, <1>10, <2>1, <2>2 DEF Carried, InFlight
<1>11. CASE Turned /\ ~CloseWritten
  <2>1. UNCHANGED <<chan, accepted, out>>
    BY <1>11 DEF Turned, outward, sendVars
  <2>2. ~Writing' /\ (Forwarding' => Forwarding /\ ~Writing)
    BY <1>11, Turns
  <2> QED
    BY <1>6, <1>11, <2>1, <2>2 DEF Carried, InFlight
<1>12. CASE Discarded \/ Taken \/ Reads \/ TellsEnd \/ Turned
  <2>1. UNCHANGED <<accepted, out>>
    BY <1>12 DEF Discarded, Taken, Reads, TellsEnd, Turned, outward, sendVars
  <2> QED
    BY <1>5, <1>7, <1>8, <1>10, <1>11, <1>12, <2>1
<1> QED
  BY <1>3, <1>4, <1>9, <1>12, Flow
     DEF Held, Gets, Lands, Waits, Arrives, Lost, outward, sendVars

-----------------------------------------------------------------------------
(* What the application is told.                                            *)

LEMMA HandedItems ==
    ASSUME TypeOK
    PROVE  /\ got \o queue \in Seq(Message) /\ Handed \in Seq(Message)
           /\ Len(Handed) \in Nat /\ Len(got) <= Len(Handed)
           /\ \A i \in 1..Len(got) : Handed[i] = got[i]
           /\ put = NoPut => Handed = got \o queue
           /\ put # NoPut => put.msg \in Message /\ Handed = Append(got \o queue, put.msg)
<1> DEFINE b == got \o queue
<1>1. /\ b \in Seq(Message) /\ Len(b) \in Nat /\ Len(got) <= Len(b)
      /\ \A i \in 1..Len(got) : b[i] = got[i]
  BY Sizes, ConcatProperties
<1>2. put # NoPut => put.msg \in Message
  BY DEF TypeOK, Message
<1>3. CASE put = NoPut
  <2>1. Handed = b
    BY <1>1, <1>3, ConcatEmptySeq DEF Handed
  <2> QED
    BY <1>1, <1>3, <2>1
<1>4. CASE put # NoPut
  <2>1. Handed = Append(b, put.msg)
    BY <1>1, <1>2, <1>4, AppendIsConcat DEF Handed
  <2>2. /\ Handed \in Seq(Message) /\ Len(Handed) = Len(b) + 1
        /\ \A i \in 1..Len(b) : Handed[i] = b[i]
    BY <1>1, <1>2, <1>4, <2>1, AppendItems
  <2>3. Len(Handed) \in Nat /\ Len(got) <= Len(Handed) /\ 1..Len(got) \subseteq 1..Len(b)
    BY <1>1, <2>2, Sizes
  <2>4. \A i \in 1..Len(got) : Handed[i] = got[i]
    BY <1>1, <2>2, <2>3
  <2> QED
    BY <1>1, <1>2, <1>4, <2>1, <2>2, <2>3, <2>4
<1> QED
  BY <1>3, <1>4

\* A message that is put, waits or is got stays where it is in the order ...
LEMMA HandedStays ==
    ASSUME TypeOK, Gets \/ Lands \/ Waits \/ UNCHANGED feedVars
    PROVE  Handed' = Handed
<1>1. CASE Gets
  <2>1. Append(got, Head(queue)) \o Tail(queue) = got \o queue
    BY <1>1, Sizes, Moved DEF Gets
  <2>2. got' \o queue' = got \o queue /\ put' = put
    BY <1>1, <2>1 DEF Gets
  <2> QED
    BY <2>2 DEF Handed
<1>2. CASE Lands
  <2>1. put # NoPut /\ put.msg \in Message /\ Handed = Append(got \o queue, put.msg)
    BY <1>2, HandedItems DEF Lands
  <2>2. /\ got \o Append(queue, put.msg) = Append(got \o queue, put.msg)
        /\ Append(queue, put.msg) \in Seq(Message)
    <3>1. got \o Append(queue, put.msg) = Append(got \o queue, put.msg)
      <4>1. put.msg \in Message /\ got \in Seq(Message) /\ queue \in Seq(Message)
        BY <2>1, Sizes
      <4> QED
        BY <4>1, Joined
    <3>2. Append(queue, put.msg) \in Seq(Message)
      BY <2>1, Sizes, AppendProperties
    <3> QED
      BY <3>1, <3>2
  <2>3. got' = got /\ queue' = Append(queue, put.msg) /\ put' = NoPut
    BY <1>2 DEF Lands
  <2>4. got' \o queue' = Append(got \o queue, put.msg)
    BY <2>2, <2>3
  <2>5. Append(got \o queue, put.msg) \in Seq(Message)
    BY <2>1, HandedItems
  <2>6. Handed' = (got' \o queue') \o <<>>
    BY <2>3 DEF Handed
  <2> QED
    BY <2>1, <2>4, <2>5, <2>6, ConcatEmptySeq
<1>3. CASE Waits
  <2>1. put # NoPut /\ put'.msg = put.msg /\ put'.waits = TRUE /\ UNCHANGED <<got, queue>>
    BY <1>3 DEF Waits
  <2>2. put' # NoPut
    BY <2>1 DEF NoPut
  <2> QED
    BY <2>1, <2>2 DEF Handed
<1>4. CASE UNCHANGED feedVars
  BY <1>4 DEF feedVars, Handed
<1> QED
  BY <1>1, <1>2, <1>3, <1>4

\* ... and one that is fed comes last.
LEMMA HandedFeeds ==
    ASSUME TypeOK, put = NoPut, UNCHANGED <<queue, got>>,
           NEW m \in Message, NEW to, Feeds(m, to)
    PROVE  Handed' = Append(Handed, m)
<1>1. put'.msg = m /\ m # -1
  BY DEF Feeds, Message, Connect, Disconnect
<1>2. put' # NoPut
  BY <1>1 DEF NoPut
<1>3. Handed' = (got \o queue) \o <<m>>
  BY <1>1, <1>2 DEF Handed
<1> QED
  BY <1>3, HandedItems, AppendIsConcat

LEMMA InboxItems ==
    ASSUME TypeOK, ReadOrder, inbox # <<>>
    PROVE  /\ Head(inbox) = inbox[1] /\ inbox[1] \in Input /\ inbox[1].n \in Message
           /\ inbox[1].kind = "data" => inbox[1].n # Connect /\ inbox[1].n # Disconnect
<1>1. Head(inbox) = inbox[1] /\ inbox[1] \in Input /\ 1 \in 1..Len(inbox)
  BY Sizes, TailItems
<1>2. inbox[1].n \in 0..MaxFrames
  BY <1>1 DEF Input
<1> QED
  BY <1>1, <1>2, Counts DEF ReadOrder, Message, Connect, Disconnect

\* What a step hands over.
LEMMA HandedStep ==
    ASSUME TypeOK, Awaits, FeedOrder, ReadOrder, [Next]_vars
    PROVE  \/ /\ Handed' = Handed
              /\ Listening' => Listening /\ (pc' # "feed" => put' = NoPut)
           \/ \E m \in Message :
                 /\ Handed' = Append(Handed, m) /\ m # Connect
                 /\ Listening /\ put = NoPut /\ pc' = "feed"
                 /\ m = Disconnect => ~Listening'
<1>1. CASE Gets \/ Waits \/ UNCHANGED <<at, feedVars>>
  <2>1. Handed' = Handed
    BY <1>1, HandedStays
  <2>2. UNCHANGED <<pc, then>> /\ (put = NoPut => put' = put)
    BY <1>1 DEF Gets, Waits, at, feedVars
  <2> QED
    BY <2>1, <2>2 DEF FeedOrder, Listening, Forwarding, Unopened, Pumped
<1>2. CASE Lands
  <2>1. Handed' = Handed
    BY <1>2, HandedStays
  <2> QED
    BY <1>2, <2>1 DEF Lands, at, Listening, Forwarding, Unopened, Pumped
<1>3. CASE Discarded \/ Taken \/ Written
  <2>1. UNCHANGED feedVars /\ pc # "feed"
    BY <1>3 DEF Discarded, Taken, Written, inward
  <2>2. Handed' = Handed
    BY <2>1, HandedStays
  <2>3. Listening' => Listening
    <3>1. CASE Written
      BY <3>1 DEF Written, Awaits, Listening, Forwarding, Unopened, Pumped
    <3>2. CASE Discarded \/ Taken
      BY <3>2 DEF Discarded, Taken, Listening, Forwarding, Unopened, Pumped
    <3> QED
      BY <1>3, <3>1, <3>2
  <2> QED
    BY <2>1, <2>2, <2>3 DEF FeedOrder, feedVars
<1>4. CASE Turned
  <2>1. UNCHANGED feedVars
    BY <1>4 DEF Turned, inward
  <2>2. Handed' = Handed
    BY <2>1, HandedStays
  <2> QED
    BY <1>4, <2>1, <2>2, Turns DEF FeedOrder, feedVars
<1>5. CASE Reads \/ TellsEnd
  <2>1. Listening /\ pc # "feed" /\ put = NoPut /\ UNCHANGED <<queue, got>>
    <3>1. Listening /\ pc # "feed" /\ UNCHANGED <<queue, got>>
      BY <1>5 DEF Reads, TellsEnd, Listening, Forwarding, Pumped
    <3> QED
      BY <3>1 DEF FeedOrder
  <2>2. ASSUME NEW m \in Message, m # Connect, NEW to, Feeds(m, to),
               m = Disconnect => to = "leave"
        PROVE  \E n \in Message :
                 /\ Handed' = Append(Handed, n) /\ n # Connect
                 /\ Listening /\ put = NoPut /\ pc' = "feed"
                 /\ n = Disconnect => ~Listening'
    <3>1. Handed' = Append(Handed, m)
      BY <2>1, <2>2, HandedFeeds
    <3>2. m = Disconnect => ~Listening'
      BY <2>2 DEF Feeds, Listening, Forwarding, Unopened, Pumped
    <3>3. pc' = "feed"
      BY <2>2 DEF Feeds
    <3> QED
      BY <2>1, <2>2, <3>1, <3>2, <3>3
  <2>3. Disconnect \in Message /\ Disconnect # Connect
    BY WsAssumption DEF Message, Connect, Disconnect
  <2>4. CASE Reads /\ Feeds(Head(inbox).n, "pump") /\ Head(inbox).kind = "data"
    <3>1. /\ Head(inbox).n \in Message /\ Head(inbox).n # Connect
          /\ Head(inbox).n # Disconnect
      BY <2>4, InboxItems DEF Reads
    <3> QED
      BY <2>2, <2>4, <3>1
  <2>5. CASE Feeds(Disconnect, "leave")
    BY <2>2, <2>3, <2>5
  <2>6. CASE UNCHANGED put
    <3>1. Handed' = Handed
      BY <2>1, <2>6, HandedStays DEF feedVars
    <3> QED
      BY <2>1, <2>6, <3>1
  <2> QED
    BY <1>5, <2>4, <2>5, <2>6 DEF Reads, TellsEnd, Answers
<1> QED
  BY <1>1, <1>2, <1>3, <1>4, <1>5, Flow DEF Placed, Held, Arrives, Lost, inward

LEMMA FeedOrderStep ==
    ASSUME TypeOK, Awaits, FeedOrder, ReadOrder, [Next]_vars
    PROVE  FeedOrder'
<1>1. CASE /\ Handed' = Handed
           /\ Listening' => Listening /\ (pc' # "feed" => put' = NoPut)
  BY <1>1 DEF FeedOrder
<1>2. ASSUME NEW m \in Message, Handed' = Append(Handed, m), m # Connect,
             Listening, pc' = "feed", m = Disconnect => ~Listening'
      PROVE  FeedOrder'
  <2>1. /\ Len(Handed) \in Nat /\ Handed' # <<>>
        /\ Len(Handed') = Len(Handed) + 1 /\ Handed'[Len(Handed) + 1] = m
        /\ \A i \in 1..Len(Handed) : Handed'[i] = Handed[i]
        /\ \A i \in 1..Len(Handed') : i \in 1..Len(Handed) \/ i = Len(Handed) + 1
    BY <1>2, HandedItems, AppendItems
  <2>2. \A i \in 1..Len(Handed) : /\ Handed[i] = Connect <=> i = 1
                                  /\ Handed[i] # Disconnect
    BY <1>2 DEF FeedOrder
  <2>3. Len(Handed) + 1 # 1
    <3>1. Len(Handed) # 0
      BY HandedItems, EmptySeq DEF FeedOrder
    <3> QED
      BY <2>1, <3>1
  <2>4. \A i \in 1..Len(Handed') : /\ Handed'[i] = Connect <=> i = 1
                                   /\ Handed'[i] = Disconnect => i = Len(Handed')
    BY <1>2, <2>1, <2>2, <2>3
  <2>5. Listening' => \A i \in 1..Len(Handed') : Handed'[i] # Disconnect
    BY <1>2, <2>1, <2>2
  <2> QED
    BY <1>2, <2>1, <2>4, <2>5 DEF FeedOrder
<1> QED
  BY <1>1, <1>2, HandedStep

LEMMA ReadOrderStep ==
    ASSUME TypeOK, Awaits, ReadOrder, [Next]_vars
    PROVE  ReadOrder'
<1>0. frames \in Nat /\ MaxFrames \in Nat /\ Len(inbox) \in Nat /\ Len(typed) \in Nat
  BY Sizes
<1>1. /\ \A i \in 1..Len(inbox) : inbox[i].n \in Nat
      /\ \A k \in 1..Len(typed) : typed[k] \in Nat
  <2>1. \A i \in 1..Len(inbox) : inbox[i] \in Input
    BY Sizes, ElementOfSeq
  <2>2. \A k \in 1..Len(typed) : typed[k] \in 1..MaxFrames
    BY Sizes, ElementOfSeq
  <2>3. \A x \in Input : x.n \in Nat
    BY DEF Input
  <2> QED
    BY <2>1, <2>2, <2>3
<1>2. ASSUME NEW e \in Input, Arrives(e) PROVE ReadOrder'
  <2>1. /\ inbox' = Append(inbox, e) /\ frames' \in Nat /\ frames <= frames'
        /\ e.n \in Nat /\ e.n <= frames'
        /\ e.kind \in Data => e.n = frames + 1 /\ e.n = frames' /\ e.n \in 1..MaxFrames
        /\ typed' = IF e.kind \in Data THEN Append(typed, e.n) ELSE typed
    <3>1. e.n \in 0..MaxFrames /\ e.kind \in {"data", "ping", "close"}
      BY DEF Input
    <3>2. CASE e.kind \in {"data", "ping"} /\ e.n = frames + 1 /\ frames' = frames + 1
      BY <1>0, <1>2, <3>1, <3>2 DEF Arrives, Data
    <3>3. CASE e.kind = "close" /\ e.n = 0 /\ frames' = frames /\ typed' = typed
      BY <1>0, <1>2, <3>1, <3>3 DEF Arrives, Data
    <3> QED
      BY <1>2, <3>2, <3>3 DEF Arrives
  <2>2. /\ Len(inbox') = Len(inbox) + 1 /\ inbox'[Len(inbox) + 1] = e
        /\ \A i \in 1..Len(inbox) : inbox'[i] = inbox[i]
        /\ \A i \in 1..Len(inbox') : i \in 1..Len(inbox) \/ i = Len(inbox) + 1
    <3>1. inbox \in Seq(Input)
      BY Sizes
    <3> QED
      BY <2>1, <3>1, AppendItems
  <2>3. /\ \A i \in 1..Len(inbox) : inbox[i].n <= frames
        /\ \A k \in 1..Len(typed) : typed[k] <= frames
    BY DEF ReadOrder
  <2>4. LineRises(inbox', Data)
    <3>1. e.kind \in Data => \A i \in 1..Len(inbox) : inbox[i].kind \in Data =>
                                                       inbox[i].n < e.n
      BY <1>0, <1>1, <2>1, <2>3
    <3> QED
      BY <2>1, <3>1, Sizes, RisesOn DEF ReadOrder
  <2>5. LogRises(typed') /\ \A k \in 1..Len(typed') : typed'[k] <= frames'
    <3>1. CASE e.kind \in Data
      <4>1. \A k \in 1..Len(typed) : typed[k] < e.n
        BY <1>0, <1>1, <2>1, <2>3, <3>1
      <4>2. LogRises(typed')
        BY <2>1, <3>1, <4>1, Sizes, LogRisesOn DEF ReadOrder
      <4>3. /\ typed'[Len(typed) + 1] = e.n
            /\ \A k \in 1..Len(typed) : typed'[k] = typed[k]
            /\ \A k \in 1..Len(typed') : k \in 1..Len(typed) \/ k = Len(typed) + 1
        <5>1. typed \in Seq(1..MaxFrames) /\ e.n \in 1..MaxFrames
          BY <2>1, <3>1, Sizes
        <5>2. typed' = Append(typed, e.n)
          BY <2>1, <3>1
        <5> QED
          BY <5>1, <5>2, AppendItems
      <4>4. \A k \in 1..Len(typed') : typed'[k] <= frames'
        BY <1>1, <2>1, <4>1, <4>3
      <4> QED
        BY <4>2, <4>4
    <3>2. CASE e.kind \notin Data
      <4>1. typed' = typed /\ LogRises(typed)
        BY <2>1, <3>2 DEF ReadOrder
      <4>2. \A k \in 1..Len(typed) : typed[k] <= frames'
        BY <1>0, <1>1, <2>1, <2>3
      <4> QED
        BY <4>1, <4>2
    <3> QED
      BY <3>1, <3>2
  <2>6. \A i \in 1..Len(inbox') : /\ inbox'[i].n <= frames'
                                  /\ inbox'[i].kind = "data" => inbox'[i].n # 0
    <3> SUFFICES ASSUME NEW i \in 1..Len(inbox')
                 PROVE  /\ inbox'[i].n <= frames'
                        /\ inbox'[i].kind = "data" => inbox'[i].n # 0
      OBVIOUS
    <3>1. CASE i \in 1..Len(inbox)
      <4>1. /\ inbox'[i] = inbox[i] /\ inbox[i].n \in Nat /\ inbox[i].n <= frames
            /\ inbox[i].kind = "data" => inbox[i].n # 0
        BY <1>1, <2>2, <3>1 DEF ReadOrder
      <4> QED
        BY <1>0, <2>1, <4>1
    <3>2. CASE i = Len(inbox) + 1
      BY <1>0, <2>1, <2>2, <3>2 DEF Data
    <3> QED
      BY <2>2, <3>1, <3>2
  <2> QED
    BY <2>4, <2>5, <2>6 DEF ReadOrder
<1>3. CASE Reads
  <2>1. inbox # <<>> /\ inbox' = Tail(inbox) /\ UNCHANGED <<frames, typed>>
    BY <1>3 DEF Reads
  <2>2. LineRises(inbox', Data)
    BY <2>1, Sizes, RisesOn DEF ReadOrder
  <2>3. \A i \in 1..Len(inbox') : \E j \in 1..Len(inbox) : inbox'[i] = inbox[j]
    BY <2>1, Sizes, TailItems
  <2> QED
    BY <2>1, <2>2, <2>3 DEF ReadOrder
<1>4. CASE UNCHANGED <<frames, typed>> /\ inbox' = <<>>
  <2>1. Len(inbox') = 0
    BY <1>4
  <2> QED
    BY <1>4, <2>1 DEF ReadOrder, LineRises
<1>5. CASE UNCHANGED <<frames, typed, inbox>>
  BY <1>5 DEF ReadOrder
<1> QED
  BY <1>2, <1>3, <1>4, <1>5, Flow DEF Placed, Held, Gets, Lands, Waits, Lost, Discarded, Taken,
     Written, TellsEnd, Turned, inward, clientVars

LEMMA HeardStep ==
    ASSUME TypeOK, Awaits, FeedOrder, ReadOrder, Heard, [Next]_vars
    PROVE  Heard'
<1>1. /\ Len(Handed) \in Nat /\ Handed \in Seq(Message) /\ Len(typed) \in Nat
      /\ Len(Handed) - 1 \in Nat
  <2>1. Handed \in Seq(Message) /\ Len(Handed) \in Nat /\ Handed # <<>>
    BY HandedItems DEF FeedOrder
  <2>2. Len(Handed) # 0
    BY <2>1, EmptySeq
  <2> QED
    BY <2>1, <2>2, Sizes
<1>2. (\A e \in Input : e.n \in Int) /\ 1..MaxFrames \subseteq Int
  BY DEF Input
<1>3. ASSUME NEW e \in Input, Arrives(e) PROVE Heard'
  <2>1. /\ inbox' = Append(inbox, e) /\ client' # "gone" /\ client # "gone"
        /\ UNCHANGED <<pc, then, frame, queue, put, got>>
        /\ typed' = IF e.kind \in Data THEN Append(typed, e.n) ELSE typed
    BY <1>3 DEF Arrives, Data, at, feedVars
  <2>2. e.kind \in Data => e.n \in 1..MaxFrames
    <3>1. e.n \in 0..MaxFrames
      BY DEF Input
    <3>2. e.kind \in Data => e.n = frames + 1 /\ frames \in Nat
      BY <1>3, Sizes DEF Arrives, Data
    <3> QED
      BY <3>1, <3>2
  <2>3. /\ Len(typed') \in Nat /\ Len(typed) <= Len(typed')
        /\ \A k \in 1..Len(typed) : typed'[k] = typed[k]
    <3>1. typed \in Seq(1..MaxFrames) /\ Len(typed) \in Nat
      BY Sizes
    <3>2. CASE e.kind \in Data
      <4>1. e.n \in 1..MaxFrames /\ typed' = Append(typed, e.n)
        BY <2>1, <2>2, <3>2
      <4> QED
        BY <3>1, <4>1, AppendItems
    <3>3. CASE e.kind \notin Data
      BY <2>1, <3>1, <3>3
    <3> QED
      BY <3>2, <3>3
  <2>4. Handed' = Handed /\ (Forwarding' <=> Forwarding)
    BY <2>1, HandedStays DEF feedVars, Forwarding, Unopened, Pumped
  <2>5. HeardSoFar'
    <3> SUFFICES ASSUME NEW i \in 2..Len(Handed), Handed[i] # Disconnect
                 PROVE  i - 1 <= Len(typed') /\ Handed[i] = typed'[i - 1]
      BY <2>4 DEF HeardSoFar, Disconnect
    <3>1. i - 1 <= Len(typed) /\ Handed[i] = typed[i - 1]
      BY DEF Heard, HeardSoFar
    <3>2. i - 1 \in 1..Len(typed)
      BY <1>1, <3>1
    <3> QED
      BY <1>1, <2>3, <3>1, <3>2
  <2>6. ASSUME Forwarding PROVE HoldsRest(inbox', Data, typed', Len(Handed) - 1)
    <3>1. HoldsRest(inbox, Data, typed, Len(Handed) - 1)
      BY <2>1, <2>6 DEF Heard, ToBeHeard
    <3>2. Len(Handed) - 1 <= Len(typed)
      <4>1. CASE Len(Handed) \in 2..Len(Handed)
        <5>1. Handed[Len(Handed)] # Disconnect
          BY <1>1, <2>6, <4>1 DEF FeedOrder, Listening
        <5> QED
          BY <4>1, <5>1 DEF Heard, HeardSoFar
      <4>2. CASE Len(Handed) = 1
        BY <1>1, <4>2
      <4> QED
        BY <1>1, <4>1, <4>2
    <3>3. HoldsRest(Append(inbox, e), Data,
                    IF e.kind \in Data THEN Append(typed, e.n) ELSE typed, Len(Handed) - 1)
      BY <1>1, <2>2, <3>1, <3>2, Sizes, PutInBoth
    <3> QED
      BY <2>1, <3>3
  <2>7. ToBeHeard'
    BY <2>4, <2>6 DEF ToBeHeard
  <2> QED
    BY <2>5, <2>7 DEF Heard
<1>4. CASE Lost
  <2>1. Handed' = Handed /\ UNCHANGED <<pc, then, typed>>
    BY <1>4, HandedStays DEF Lost, at
  <2> QED
    BY <1>4, <2>1
       DEF Lost, Heard, HeardSoFar, ToBeHeard, Forwarding, Unopened, Pumped, Disconnect
<1>5. ASSUME Handed' = Handed, UNCHANGED <<client, inbox, typed>>, Forwarding' => Forwarding
      PROVE  Heard'
  BY <1>5 DEF Heard, HeardSoFar, ToBeHeard, Disconnect
<1>6. CASE Discarded \/ Taken \/ Written \/ Turned
  <2>1. UNCHANGED feedVars /\ UNCHANGED <<client, inbox, typed>>
    BY <1>6 DEF Discarded, Taken, Written, Turned, inward, clientVars
  <2>2. Forwarding' => Forwarding
    <3>1. CASE Discarded \/ Taken \/ Written
      BY <3>1 DEF Discarded, Taken, Written, Awaits, Forwarding, Unopened, Pumped
    <3> QED
      BY <1>6, <3>1, Turns
  <2> QED
    BY <1>5, <2>1, <2>2, HandedStays
<1>7. ASSUME NEW m \in Message, Handed' = Append(Handed, m), UNCHANGED typed,
             m # Disconnect => Len(Handed) <= Len(typed) /\ m = typed[Len(Handed)]
      PROVE  HeardSoFar' /\ Len(Handed') = Len(Handed) + 1
  <2>1. /\ Len(Handed') = Len(Handed) + 1 /\ Handed'[Len(Handed) + 1] = m
        /\ \A i \in 1..Len(Handed) : Handed'[i] = Handed[i]
        /\ \A i \in 1..Len(Handed') : i \in 1..Len(Handed) \/ i = Len(Handed) + 1
    BY <1>1, <1>7, AppendItems
  <2>2. ASSUME NEW i \in 2..Len(Handed'), Handed'[i] # Disconnect
        PROVE  i - 1 <= Len(typed) /\ Handed'[i] = typed[i - 1]
    <3>1. CASE i \in 1..Len(Handed)
      <4>1. i \in 2..Len(Handed) /\ Handed'[i] = Handed[i]
        BY <1>1, <2>1, <3>1
      <4> QED
        BY <2>2, <4>1 DEF Heard, HeardSoFar
    <3>2. CASE i = Len(Handed) + 1
      <4>1. i - 1 = Len(Handed) /\ Handed'[i] = m
        BY <1>1, <2>1, <3>2
      <4> QED
        BY <1>7, <2>2, <4>1
    <3> QED
      BY <1>1, <2>1, <3>1, <3>2
  <2> QED
    BY <1>7, <2>1, <2>2 DEF HeardSoFar, Disconnect
<1>8. CASE Reads
  <2>1. /\ inbox # <<>> /\ inbox' = Tail(inbox) /\ UNCHANGED <<queue, got, client, typed>>
        /\ Forwarding /\ pc # "feed"
    BY <1>8 DEF Reads, Forwarding, Pumped
  <2>2. put = NoPut /\ HoldsRest(inbox, Data, typed, Len(Handed) - 1)
    BY <2>1 DEF FeedOrder, Listening, Heard, ToBeHeard
  <2>3. /\ Head(inbox) = inbox[1] /\ inbox[1].n \in Message
        /\ inbox[1].kind = "data" => inbox[1].n # Disconnect
    BY <2>1, InboxItems
  <2>4. CASE inbox[1].kind = "data" /\ Feeds(inbox[1].n, "pump")
    <3>1. Handed' = Append(Handed, inbox[1].n)
      BY <2>1, <2>2, <2>3, <2>4, HandedFeeds
    <3>2. inbox[1].kind \in Data /\ LineRises(inbox, Data) /\ LogRises(typed)
      BY <2>4 DEF Data, ReadOrder
    <3>3. /\ (Len(Handed) - 1) + 1 \in 1..Len(typed)
          /\ inbox[1].n = typed[(Len(Handed) - 1) + 1]
          /\ HoldsRest(Tail(inbox), Data, typed, (Len(Handed) - 1) + 1)
      <4> DEFINE p == Len(Handed) - 1
      <4>1. p \in Nat /\ HoldsRest(inbox, Data, typed, p)
        BY <1>1, <2>2
      <4> HIDE DEF p
      <4>2. /\ p + 1 \in 1..Len(typed) /\ inbox[1].n = typed[p + 1]
            /\ HoldsRest(Tail(inbox), Data, typed, p + 1)
        BY <1>2, <2>1, <3>2, <4>1, Sizes, NextOfLog
      <4> QED
        BY <4>2 DEF p
    <3>4. (Len(Handed) - 1) + 1 = Len(Handed)
      BY <1>1
    <3>5. HeardSoFar' /\ Len(Handed') = Len(Handed) + 1
      BY <1>1, <1>7, <2>1, <2>3, <3>1, <3>3, <3>4
    <3>6. Len(Handed') - 1 = Len(Handed)
      BY <1>1, <3>5
    <3>7. ToBeHeard'
      BY <2>1, <3>3, <3>4, <3>6 DEF ToBeHeard
    <3> QED
      BY <3>5, <3>7 DEF Heard
  <2>5. CASE inbox[1].kind = "ping" /\ Answers(Pong, "pump")
    <3>1. Handed' = Handed
      BY <2>1, <2>5, HandedStays DEF Answers, feedVars
    <3>2. HoldsRest(Tail(inbox), Data, typed, Len(Handed) - 1)
      <4>1. inbox[1].kind \notin Data
        BY <2>5 DEF Data
      <4> QED
        BY <2>1, <2>2, <4>1, Sizes, NotOfLog
    <3> QED
      BY <2>1, <3>1, <3>2 DEF Heard, HeardSoFar, ToBeHeard, Disconnect
  <2>6. CASE Answers(Close, "tell")
    <3>1. Handed' = Handed /\ ~Forwarding'
      BY <2>1, <2>6, HandedStays DEF Answers, feedVars, Forwarding, Unopened, Pumped
    <3> QED
      BY <2>1, <3>1 DEF Heard, HeardSoFar, ToBeHeard, Disconnect
  <2>7. CASE Feeds(Disconnect, "leave")
    <3>1. Disconnect \in Message /\ ~Forwarding'
      BY <2>7, WsAssumption
         DEF Feeds, Forwarding, Unopened, Pumped, Message, Connect, Disconnect
    <3>2. Handed' = Append(Handed, Disconnect)
      BY <2>1, <2>2, <2>7, <3>1, HandedFeeds
    <3> QED
      BY <1>7, <2>1, <3>1, <3>2 DEF Heard, ToBeHeard
  <2> QED
    BY <1>8, <2>3, <2>4, <2>5, <2>6, <2>7 DEF Reads
<1>9. CASE TellsEnd
  <2>1. /\ UNCHANGED <<queue, got, typed>> /\ Feeds(Disconnect, "leave")
        /\ Listening /\ pc # "feed"
    BY <1>9 DEF TellsEnd, clientVars, Listening, Forwarding, Pumped
  <2>2. Disconnect \in Message /\ ~Forwarding' /\ put = NoPut
    BY <2>1, WsAssumption
       DEF Feeds, Forwarding, Unopened, Pumped, Message, Connect, Disconnect, FeedOrder
  <2>3. Handed' = Append(Handed, Disconnect)
    BY <2>1, <2>2, HandedFeeds
  <2> QED
    BY <1>7, <2>1, <2>2, <2>3 DEF Heard, ToBeHeard
<1>10. CASE Gets \/ Lands \/ Waits \/ UNCHANGED <<at, inward>>
  <2>1. UNCHANGED <<at, client, inbox, typed>> /\ Handed' = Handed
    BY <1>10, HandedStays DEF Gets, Lands, Waits, inward, clientVars
  <2>2. Forwarding' => Forwarding
    BY <2>1 DEF at, Forwarding, Unopened, Pumped
  <2> QED
    BY <1>5, <2>1, <2>2
<1> QED
  BY <1>3, <1>4, <1>6, <1>8, <1>9, <1>10, Flow DEF Placed, Held

-----------------------------------------------------------------------------
(* The theorems.                                                            *)

LEMMA InitIInv == Init => IInv
<1> SUFFICES ASSUME Init PROVE IInv
  OBVIOUS
<1>1. TypeOK /\ Awaits
  <2>1. /\ <<>> \in Seq(Event) /\ <<>> \in Seq(Message) /\ <<>> \in Seq(Input)
        /\ <<>> \in Seq(1..MaxSends) /\ <<>> \in Seq(1..MaxFrames) /\ <<>> \in Seq(Frame)
        /\ Len(<<>>) = 0
    BY EmptySeq
  <2>2. /\ sink \in BOOLEAN /\ resolved \in BOOLEAN /\ disconnected \in BOOLEAN
        /\ appClosed \in BOOLEAN /\ appDone \in BOOLEAN
    BY Zenon DEF Init
  <2>3. Connect \in Message
    BY WsAssumption DEF Message, Connect, Disconnect
  <2>4. put \in [msg : Message, waits : BOOLEAN]
    BY <2>3 DEF Init
  <2>5. 0 \in 0..MaxSends /\ 0 \in 0..MaxFrames /\ 0 <= WsChannelBound /\ 0 <= WsQueueMaxsize
    BY WsAssumption
  <2>6. TypeOK
    BY <2>1, <2>2, <2>4, <2>5 DEF Init, TypeOK, Message
  <2>7. Quiet
    BY DEF Init, Quiet, CloseWritten
  <2> QED
    BY <2>6, <2>7 DEF Init, Awaits
<1>2. /\ Len(chan) = 0 /\ Len(accepted) = 0 /\ Len(out) = 0
      /\ Len(inbox) = 0 /\ Len(typed) = 0
  BY DEF Init
<1>3. ~Writing /\ ~Pumped /\ Passed = 0
  BY <1>2 DEF Init, Writing, Pumped, Passed
<1>4. CloseLast /\ WriteOrder /\ ReadOrder
  BY <1>2, <1>3 DEF Init, CloseLast, WriteOrder, ReadOrder, LogRises, LineRises
<1>5. SendOrder
  BY <1>2 DEF Init, SendOrder, Upto, LogRises, LineRises
<1>6. Carried
  BY <1>2, <1>3 DEF Init, Carried, OnStream, InFlight, HoldsRest
<1>7. Handed = <<Connect>>
  <2>1. put.msg = Connect /\ put # NoPut /\ got = <<>> /\ queue = <<>>
    BY DEF Init, NoPut, Connect
  <2>2. put.msg \in Message /\ Handed = Append(got \o queue, put.msg)
    BY <1>1, <2>1, HandedItems
  <2>3. got \o queue = <<>>
    BY <2>1, <1>1, Sizes, ConcatEmptySeq
  <2> QED
    BY <2>1, <2>2, <2>3
<1>8. Len(Handed) = 1 /\ Handed[1] = Connect /\ Connect # Disconnect
  BY <1>7, WsAssumption DEF Connect, Disconnect
<1>9. FeedOrder
  <2>1. pc = "feed" /\ Handed # <<>>
    BY <1>7 DEF Init
  <2>2. \A i \in 1..Len(Handed) : i = 1 /\ Handed[i] = Connect
    BY <1>8
  <2> QED
    BY <1>8, <2>1, <2>2 DEF FeedOrder
<1>10. Heard
  <2>1. HeardSoFar
    BY <1>8 DEF HeardSoFar
  <2>2. HoldsRest(inbox, Data, typed, Len(Handed) - 1)
    BY <1>2, <1>8 DEF HoldsRest
  <2> QED
    BY <2>1, <2>2 DEF Heard, ToBeHeard
<1> QED
  BY <1>1, <1>4, <1>5, <1>6, <1>9, <1>10 DEF IInv

LEMMA Inductive == IInv /\ [Next]_vars => IInv'
<1> SUFFICES ASSUME IInv, [Next]_vars PROVE IInv'
  OBVIOUS
<1>1. /\ TypeOK /\ Awaits /\ CloseLast /\ WriteOrder /\ SendOrder /\ Carried
      /\ FeedOrder /\ ReadOrder /\ Heard
  BY DEF IInv
<1>2. TypeOK' /\ Awaits' /\ WriteOrder'
  BY <1>1, TypeStep, WriteOrderStep
<1>3. CloseLast' /\ SendOrder' /\ Carried'
  BY <1>1, <1>2, CloseLastStep, SendOrderStep, CarriedStep
<1>4. FeedOrder' /\ ReadOrder' /\ Heard'
  BY <1>1, FeedOrderStep, ReadOrderStep, HeardStep
<1> QED
  BY <1>2, <1>3, <1>4 DEF IInv

LEMMA Invariance == Spec => []IInv
  BY InitIInv, Inductive, PTL DEF Spec

\* Every variable keeps its type: the channel and the queue keep their bounds.
THEOREM TypeCorrect == Spec => []TypeOK
<1>1. IInv => TypeOK
  BY DEF IInv
<1> QED
  BY <1>1, Invariance, PTL

\* The application is told of the connection first, of its end last, and of each
\* once, also when a put is given up and lands later.
THEOREM ToldInOrder == Spec => []ReceiveOrder
<1>1. IInv => ReceiveOrder
  <2> SUFFICES ASSUME IInv, NEW i \in 1..Len(got)
               PROVE  /\ got[i] = Connect <=> i = 1
                      /\ got[i] = Disconnect => i = Len(got)
    BY DEF ReceiveOrder
  <2>1. TypeOK /\ FeedOrder
    BY DEF IInv
  <2>2. /\ Len(Handed) \in Nat /\ Len(got) \in Nat /\ Len(got) <= Len(Handed)
        /\ Handed[i] = got[i]
    BY <2>1, HandedItems, Sizes
  <2>3. i \in 1..Len(Handed)
    BY <2>2
  <2>4. /\ Handed[i] = Connect <=> i = 1
        /\ Handed[i] = Disconnect => i = Len(Handed)
    BY <2>1, <2>3 DEF FeedOrder
  <2> QED
    BY <2>2, <2>3, <2>4
<1> QED
  BY <1>1, Invariance, PTL

\* Nothing of the application is written before its accept or after a close, and
\* the close is written once.
THEOREM CloseComesLast == Spec => []CloseLast
<1>1. IInv => CloseLast
  BY DEF IInv
<1> QED
  BY <1>1, Invariance, PTL

-----------------------------------------------------------------------------
(* Both directions implement the ordered stream.                            *)

WrittenBegins ==
    /\ DataWritten \in Seq(1..MaxSends)
    /\ Len(DataWritten) = Len(out) - IF CloseWritten THEN 1 ELSE 0
    /\ Begins(DataWritten, accepted)

HeardBegins ==
    /\ DataHeard \in Seq(1..MaxFrames)
    /\ Len(DataHeard) = IF got = <<>> THEN 0 ELSE Len(got) - IF Told THEN 2 ELSE 1
    /\ Begins(DataHeard, typed)

LEMMA WrittenIs == IInv => WrittenBegins
<1> SUFFICES ASSUME IInv PROVE WrittenBegins
  OBVIOUS
<1>1. TypeOK /\ CloseLast /\ OnStream
  BY DEF IInv, Carried
<1>2. Len(out) \in Nat /\ Len(accepted) \in Nat /\ accepted \in Seq(1..MaxSends)
  BY <1>1, Sizes
<1> DEFINE n == Len(out) - IF CloseWritten THEN 1 ELSE 0
<1>3. n \in Nat /\ (CloseWritten => n = Len(out) - 1) /\ (~CloseWritten => n = Len(out))
  <2>1. CloseWritten => Len(out) # 0
    BY <1>2 DEF CloseWritten
  <2> QED
    BY <1>2, <2>1
<1>4. ASSUME NEW i \in 1..n
      PROVE  i <= Len(accepted) /\ out[i].n = accepted[i] /\ out[i].n \in 1..MaxSends
  <2>1. i \in 1..Len(out)
    BY <1>2, <1>3
  <2>2. out[i].kind # "close"
    <3>1. CASE CloseWritten
      <4>1. i # Len(out)
        BY <1>2, <1>3, <3>1
      <4> QED
        BY <1>1, <2>1, <4>1 DEF CloseLast
    <3>2. CASE ~CloseWritten
      BY <2>1, <3>2 DEF CloseWritten
    <3> QED
      BY <3>1, <3>2
  <2>3. out[i] # Close
    BY <2>2 DEF Close
  <2>4. i <= Len(accepted) /\ out[i].n = accepted[i] /\ i \in 1..Len(accepted)
    BY <1>1, <1>2, <2>1, <2>3 DEF OnStream
  <2> QED
    BY <1>2, <2>4, ElementOfSeq
<1>5. DataWritten = [i \in 1..n |-> out[i].n]
  BY DEF DataWritten
<1> HIDE DEF n
<1>6. DataWritten \in [1..n -> 1..MaxSends]
  BY <1>4, <1>5
<1>7. DataWritten \in Seq(1..MaxSends) /\ Len(DataWritten) = n
  <2>1. n \in Int /\ ~(n < 0)
    BY <1>3
  <2> QED
    BY <1>6, <2>1, ListedItems
<1>8. n <= Len(accepted)
  <2>1. CASE n = 0
    BY <1>2, <2>1
  <2>2. CASE n # 0
    <3>1. n \in 1..n
      BY <1>3, <2>2
    <3> QED
      BY <1>4, <3>1
  <2> QED
    BY <2>1, <2>2
<1>9. Begins(DataWritten, accepted)
  BY <1>4, <1>5, <1>7, <1>8 DEF Begins
<1> QED
  BY <1>7, <1>9 DEF WrittenBegins, n

LEMMA HeardIs == IInv => HeardBegins
<1> SUFFICES ASSUME IInv PROVE HeardBegins
  OBVIOUS
<1>1. TypeOK /\ FeedOrder /\ HeardSoFar
  BY DEF IInv, Heard
<1>2. /\ Len(got) \in Nat /\ Len(typed) \in Nat /\ typed \in Seq(1..MaxFrames)
      /\ got = <<>> <=> Len(got) = 0
  BY <1>1, Sizes, EmptySeq
<1>3. /\ Len(Handed) \in Nat /\ Len(got) <= Len(Handed)
      /\ \A i \in 1..Len(got) : Handed[i] = got[i]
  BY <1>1, HandedItems
<1>4. Connect # Disconnect
  BY WsAssumption DEF Connect, Disconnect
<1>5. ASSUME NEW i \in 1..Len(got), got[i] = Disconnect PROVE i = Len(got) /\ i # 1
  <2>1. i \in 1..Len(Handed) /\ Handed[i] = Disconnect
    BY <1>2, <1>3, <1>5
  <2>2. i = Len(Handed) /\ i # 1
    BY <1>1, <1>4, <2>1 DEF FeedOrder
  <2> QED
    BY <1>2, <1>3, <2>2
<1> DEFINE n == Len(got) - IF Told THEN 2 ELSE 1
<1>6. /\ n \in Int /\ (Told => n = Len(got) - 2 /\ n \in Nat) /\ (~Told => n = Len(got) - 1)
      /\ (IF n < 0 THEN 0 ELSE n) = IF got = <<>> THEN 0 ELSE n
  <2>1. Told => Len(got) >= 2
    BY <1>2, <1>5 DEF Told
  <2> QED
    BY <1>2, <2>1
<1>7. ASSUME NEW i \in 1..n
      PROVE  i <= Len(typed) /\ got[i + 1] = typed[i] /\ got[i + 1] \in 1..MaxFrames
  <2>1. i + 1 \in 1..Len(got) /\ i + 1 \in 2..Len(Handed) /\ i + 1 - 1 = i
        /\ (Told => i + 1 # Len(got))
    BY <1>2, <1>3, <1>6
  <2>2. got[i + 1] # Disconnect
    BY <1>5, <2>1 DEF Told
  <2>3. Handed[i + 1] = got[i + 1]
    BY <1>3, <2>1
  <2>4. i <= Len(typed) /\ got[i + 1] = typed[i]
    BY <1>1, <2>1, <2>2, <2>3 DEF HeardSoFar
  <2>5. i \in 1..Len(typed)
    BY <1>2, <1>6, <2>4
  <2> QED
    BY <1>2, <2>4, <2>5, ElementOfSeq
<1>8. DataHeard = [i \in 1..n |-> got[i + 1]]
  BY DEF DataHeard
<1> HIDE DEF n
<1>9. DataHeard \in [1..n -> 1..MaxFrames]
  BY <1>7, <1>8
<1>10. DataHeard \in Seq(1..MaxFrames) /\ Len(DataHeard) = IF n < 0 THEN 0 ELSE n
  BY <1>6, <1>9, ListedItems
<1>11. Len(DataHeard) <= Len(typed)
  <2>1. CASE n \in Nat \ {0}
    <3>1. n \in 1..n
      BY <2>1
    <3> QED
      BY <1>7, <1>10, <2>1, <3>1
  <2>2. CASE n \notin Nat \ {0}
    BY <1>2, <1>6, <1>10, <2>2
  <2> QED
    BY <2>1, <2>2
<1>12. Begins(DataHeard, typed)
  <2> SUFFICES ASSUME NEW i \in 1..Len(DataHeard) PROVE DataHeard[i] = typed[i]
    BY <1>11 DEF Begins
  <2>1. i \in 1..n
    BY <1>6, <1>10
  <2> QED
    BY <1>7, <1>8, <2>1
<1> QED
  BY <1>6, <1>10, <1>12 DEF HeardBegins, n

\* How far the client and the application have got: only a write of data takes the
\* client on, only a get of a message the application.
LEMMA WrittenOn ==
    ASSUME TypeOK, Awaits, [Next]_vars, WrittenBegins, WrittenBegins'
    PROVE  \/ Outwards!Write \/ UNCHANGED <<accepted, DataWritten>>
           \/ Outwards!Read
<1>1. /\ DataWritten \in Seq(1..MaxSends) /\ DataWritten' \in Seq(1..MaxSends)
      /\ Begins(DataWritten, accepted) /\ Begins(DataWritten', accepted')
      /\ accepted \in Seq(1..MaxSends)
  BY Sizes DEF WrittenBegins
<1>2. ASSUME UNCHANGED out PROVE Len(DataWritten') = Len(DataWritten)
  BY <1>2 DEF WrittenBegins, CloseWritten
<1>3. ASSUME NEW e \in Event, Placed(e)
      PROVE  Outwards!Write \/ UNCHANGED <<accepted, DataWritten>>
  <2>1. /\ e.n \in 1..MaxSends /\ UNCHANGED out
        /\ accepted' = accepted \/ accepted' = Append(accepted, e.n)
    BY <1>3 DEF Event, Placed, Place
  <2>2. \A i \in 1..Len(accepted) : accepted'[i] = accepted[i]
    <3>1. \A i \in 1..Len(accepted) : Append(accepted, e.n)[i] = accepted[i]
      BY <1>1, <2>1, AppendProperties
    <3> QED
      BY <2>1, <3>1
  <2>3. DataWritten' = DataWritten
    BY <1>1, <1>2, <2>1, <2>2, BeginningKept
  <2> QED
    BY <2>1, <2>3 DEF Outwards!Write
<1>4. CASE UNCHANGED <<accepted, out>>
  <2>1. DataWritten' = DataWritten
    BY <1>4 DEF DataWritten, CloseWritten
  <2> QED
    BY <1>4, <2>1
<1>5. CASE Written
  <2>1. /\ UNCHANGED accepted /\ ~CloseWritten /\ out' = Append(out, frame)
        /\ frame \in Frame /\ frame.kind \in {"data", "close"}
    BY <1>5, Kept DEF Written, sendVars
  <2>2. /\ Len(out) \in Nat /\ Len(out') = Len(out) + 1 /\ out'[Len(out) + 1] = frame
        /\ \A i \in 1..Len(out) : out'[i] = out[i]
        /\ \A i \in 1..Len(out') : i \in 1..Len(out) \/ i = Len(out) + 1
        /\ Len(out) + 1 \in 1..Len(out')
    BY <2>1, Sizes, AppendItems
  <2>3. CloseWritten' <=> frame.kind = "close"
    BY <2>1, <2>2 DEF CloseWritten
  <2>4. CASE frame.kind = "close"
    <3>1. Len(DataWritten') = Len(DataWritten)
      BY <2>1, <2>2, <2>3, <2>4 DEF WrittenBegins
    <3>2. DataWritten' = DataWritten
      BY <1>1, <2>1, <3>1, BeginningKept
    <3> QED
      BY <2>1, <3>2
  <2>5. CASE frame.kind = "data"
    <3>1. Len(DataWritten') = Len(DataWritten) + 1
      BY <2>1, <2>2, <2>3, <2>5 DEF WrittenBegins
    <3>2. /\ Len(DataWritten) < Len(accepted)
          /\ DataWritten' = Append(DataWritten, accepted[Len(DataWritten) + 1])
      BY <1>1, <2>1, <3>1, BeginningGrows
    <3> QED
      BY <2>1, <3>2 DEF Outwards!Read
  <2> QED
    BY <2>1, <2>4, <2>5
<1> QED
  BY <1>3, <1>4, <1>5, Flow DEF Held, Gets, Lands, Waits, Arrives, Lost, Discarded, Taken,
     Reads, TellsEnd, Turned, outward, sendVars

LEMMA HeardOn ==
    ASSUME TypeOK, Awaits, [Next]_vars, ReceiveOrder', HeardBegins, HeardBegins'
    PROVE  \/ Inwards!Write \/ UNCHANGED <<typed, DataHeard>>
           \/ Inwards!Read
<1>1. /\ DataHeard \in Seq(1..MaxFrames) /\ DataHeard' \in Seq(1..MaxFrames)
      /\ Begins(DataHeard, typed) /\ Begins(DataHeard', typed')
      /\ typed \in Seq(1..MaxFrames)
  BY Sizes DEF HeardBegins
<1>2. ASSUME NEW e \in Input, Arrives(e)
      PROVE  Inwards!Write \/ UNCHANGED <<typed, DataHeard>>
  <2>1. DataHeard' = DataHeard
    BY <1>2 DEF Arrives, feedVars, DataHeard, Told, Disconnect
  <2>2. \/ typed' = typed
        \/ frames + 1 \in 1..MaxFrames /\ typed' = Append(typed, frames + 1)
    <3>1. frames \in Nat /\ MaxFrames \in Nat
      BY Sizes
    <3> QED
      BY <1>2, <3>1 DEF Arrives
  <2> QED
    BY <2>1, <2>2 DEF Inwards!Write
<1>3. CASE UNCHANGED <<typed, got>>
  <2>1. DataHeard' = DataHeard
    BY <1>3 DEF DataHeard, Told, Disconnect
  <2> QED
    BY <1>3, <2>1
<1>4. CASE Gets
  <2> DEFINE m == Head(queue)
  <2>1. UNCHANGED typed /\ got' = Append(got, m) /\ m \in Message
    BY <1>4, Sizes, HeadTailProperties DEF Gets, clientVars
  <2> HIDE DEF m
  <2>2. /\ Len(got) \in Nat /\ Len(got') = Len(got) + 1 /\ got'[Len(got) + 1] = m
        /\ \A i \in 1..Len(got) : got'[i] = got[i]
        /\ \A i \in 1..Len(got') : i \in 1..Len(got) \/ i = Len(got) + 1
        /\ got' # <<>> /\ Len(got) + 1 \in 1..Len(got')
        /\ got = <<>> <=> Len(got) = 0
    <3>1. got \in Seq(Message)
      BY Sizes
    <3>2. got = <<>> <=> Len(got) = 0
      BY <3>1, EmptySeq
    <3>3. /\ Len(got) \in Nat /\ Len(got') = Len(got) + 1 /\ got'[Len(got) + 1] = m
          /\ \A i \in 1..Len(got) : got'[i] = got[i]
          /\ \A i \in 1..Len(got') : i \in 1..Len(got) \/ i = Len(got) + 1
          /\ got' # <<>>
      BY <2>1, <3>1, AppendItems
    <3> QED
      BY <3>2, <3>3
  <2>3. ~Told
    <3> SUFFICES ASSUME NEW i \in 1..Len(got), got[i] = Disconnect PROVE FALSE
      BY DEF Told
    <3>1. got'[i] = Disconnect' /\ i \in 1..Len(got') /\ i # Len(got')
      BY <2>2 DEF Disconnect
    <3> QED
      BY <3>1 DEF ReceiveOrder
  <2>4. Told' <=> m = Disconnect
    BY <2>2, <2>3 DEF Told, Disconnect
  <2>5. CASE m = Disconnect \/ got = <<>>
    <3>1. m = Disconnect => got # <<>>
      <4>1. got = <<>> => got'[1] = m /\ 1 \in 1..Len(got')
        BY <2>2
      <4>2. got = <<>> => m = Connect
        BY <4>1 DEF ReceiveOrder, Connect
      <4> QED
        BY <4>2, WsAssumption DEF Connect, Disconnect
    <3>2. Len(DataHeard') = Len(DataHeard)
      <4>1. CASE m = Disconnect /\ got # <<>>
        BY <2>2, <2>3, <2>4, <4>1 DEF HeardBegins
      <4>2. CASE m # Disconnect /\ got = <<>>
        BY <2>2, <2>3, <2>4, <4>2 DEF HeardBegins
      <4> QED
        BY <2>5, <3>1, <4>1, <4>2
    <3>3. DataHeard' = DataHeard
      BY <1>1, <2>1, <3>2, BeginningKept
    <3> QED
      BY <2>1, <3>3
  <2>6. CASE m # Disconnect /\ got # <<>>
    <3>1. Len(DataHeard') = Len(DataHeard) + 1
      BY <2>2, <2>3, <2>4, <2>6 DEF HeardBegins
    <3>2. /\ Len(DataHeard) < Len(typed)
          /\ DataHeard' = Append(DataHeard, typed[Len(DataHeard) + 1])
      BY <1>1, <2>1, <3>1, BeginningGrows
    <3> QED
      BY <2>1, <3>2 DEF Inwards!Read
  <2> QED
    BY <2>5, <2>6
<1> QED
  BY <1>2, <1>3, <1>4, Flow DEF Placed, Held, Lands, Waits, Lost, Discarded, Taken, Written,
     Reads, TellsEnd, Turned, inward, feedVars, clientVars

\* What is written to the client before the close is a beginning of what send()
\* accepted: nothing is lost, doubled or reordered between a blocked send, the
\* channel and the frame the driver holds.
THEOREM WrittenInOrder == Spec => OutInOrder
<1>1. Init => Outwards!Init
  <2> SUFFICES ASSUME Init PROVE Outwards!Init
    OBVIOUS
  <2>1. IInv
    BY InitIInv
  <2>2. WrittenBegins /\ accepted = <<>>
    BY <2>1, WrittenIs DEF Init
  <2>3. DataWritten = <<>>
    BY <2>2, EmptySeq DEF WrittenBegins, Begins
  <2> QED
    BY <2>2, <2>3 DEF Outwards!Init
<1>2. IInv /\ WrittenBegins /\ WrittenBegins' /\ [Next]_vars
        => [Outwards!Write \/ Outwards!Read]_<<accepted, DataWritten>>
  BY WrittenOn DEF IInv
<1> QED
  BY <1>1, <1>2, WrittenIs, Invariance, PTL DEF Spec, OutInOrder, Outwards!Spec

\* What receive() returns between the connect and the disconnect is a beginning of
\* the client's messages, also when a put is given up and lands later.
THEOREM HeardInOrder == Spec => InOrder
<1>1. Init => Inwards!Init
  <2> SUFFICES ASSUME Init PROVE Inwards!Init
    OBVIOUS
  <2>1. IInv
    BY InitIInv
  <2>2. HeardBegins /\ typed = <<>>
    BY <2>1, HeardIs DEF Init
  <2>3. DataHeard = <<>>
    BY <2>2, EmptySeq DEF HeardBegins, Begins
  <2> QED
    BY <2>2, <2>3 DEF Inwards!Init
<1>2. IInv /\ ReceiveOrder' /\ HeardBegins /\ HeardBegins' /\ [Next]_vars
        => [Inwards!Write \/ Inwards!Read]_<<typed, DataHeard>>
  BY HeardOn DEF IInv
<1> QED
  BY <1>1, <1>2, HeardIs, ToldInOrder, Invariance, PTL DEF Spec, InOrder, Inwards!Spec
=============================================================================
