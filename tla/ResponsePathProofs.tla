------------------------- MODULE ResponsePathProofs -------------------------
(***************************************************************************)
(* Proofs about ResponsePath, for channels of any size, any number of       *)
(* messages, and every way in which the call, the application and the client *)
(* may end.                                                                 *)
(***************************************************************************)
EXTENDS ResponsePath, SequenceLemmas

-----------------------------------------------------------------------------
(* The inductive invariant.                                                 *)

Chunk == 1..MaxChunks

\* A blocked send() has a message to place, the responder a chunk to hand over.
Awaits ==
    /\ app = "blocked" => pending \in Event
    /\ pc = "sending" => item \in Event /\ item.kind \in Data

\* Before its end the call has no reaper, and an application whose end was seen
\* is left to the reaper only by a call that has failed.
Reaping ==
    /\ pc \notin {"logging", "over"} => reaper = "none" /\ ~repolled
    /\ reaper = "running" => ~appDone \/ answer = "500"
    /\ repolled => answer = "500"

\* The chunks are numbered as they are sent, and a blocked send() that has one
\* holds the latest.
Rising == \A j, k \in 1..Len(accepted) : j < k => accepted[j] < accepted[k]
Queued == \A i, j \in 1..Len(chan) :
             i < j /\ chan[i].kind \in Data /\ chan[j].kind \in Data => chan[i].n < chan[j].n
Upto(m) == /\ \A k \in 1..Len(accepted) : accepted[k] <= m
           /\ \A i \in 1..Len(chan) : chan[i].kind \in Data => chan[i].n <= m
Numbered ==
    /\ Rising /\ Queued /\ Upto(sent)
    /\ app = "blocked" /\ pending.kind \in Data => pending.n = sent /\ Upto(sent - 1)

\* What has left the channel for the client is a beginning of what send() has
\* accepted ...
Passed == Len(delivered) + Len(wire) + (IF pc = "sending" THEN 1 ELSE 0)
PassedOn ==
    /\ Passed <= Len(accepted)
    /\ \A i \in 1..Len(delivered) : delivered[i] = accepted[i]
    /\ \A i \in 1..Len(wire) : wire[i] = accepted[Len(delivered) + i]
    /\ pc = "sending" => item.n = accepted[Passed]

\* ... and the rest is in the channel, for as long as the responder may take it.
Forwarding == ~head /\ pc \in {"phaseA", "pump", "sending"}
InChannel(n) == \E i \in 1..Len(chan) : chan[i].n = n /\ chan[i].kind \in Data
StillToPass(n) == \E k \in (Passed + 1)..Len(accepted) : accepted[k] = n
Remains ==
    /\ \A k \in (Passed + 1)..Len(accepted) : InChannel(accepted[k])
    /\ \A i \in 1..Len(chan) : chan[i].kind \in Data => StillToPass(chan[i].n)
Carried == body = "open" => PassedOn /\ (Forwarding => Remains)

IInv == TypeOK /\ Awaits /\ Reaping /\ Numbered /\ Carried

-----------------------------------------------------------------------------
(* The ways in which a step moves the messages.                             *)

carryVars == <<head, pc, item, clientVars>>

\* A chunk of the body gets the next number.
Numbers(e) ==
    /\ e.kind \in Data => sent < MaxChunks /\ e.n = sent + 1
    /\ sent' = IF e.kind \in Data THEN sent + 1 ELSE sent

\* send() places its message at once, or after it has waited.
Placed(e) ==
    /\ \/ app = "running" /\ Numbers(e)
       \/ app = "blocked" /\ sent' = sent /\ e = pending
    /\ app' = "running" /\ pending' \in {pending, None}
    /\ Len(chan) < ResponseBound /\ Place(e)
    /\ UNCHANGED carryVars

\* It waits, it is refused, or the application does something else.
Held ==
    /\ UNCHANGED <<chan, accepted, carryVars>>
    /\ \/ /\ app = "running" /\ app' = "blocked"
          /\ pending' \in Event /\ Numbers(pending')
       \/ app' # "blocked" /\ pending' \in {pending, None}
          /\ (sent' = sent \/ (sent < MaxChunks /\ sent' = sent + 1))

\* A message is taken from the channel: it goes nowhere, or on to the client.
Discarded ==
    /\ chan # <<>> /\ chan' = Tail(chan)
    /\ pc \in {"phaseA", "pump"} /\ pc' \in {"failing", "pump", "closing"}
    /\ Head(chan).kind \in Data => head \/ pc' # "pump"
    /\ UNCHANGED <<head, app, sent, accepted, pending, item, clientVars>>
Forwarded ==
    /\ chan # <<>> /\ chan' = Tail(chan) /\ ~head /\ Head(chan).kind \in Data
    /\ pc = "pump" /\ pc' = "sending" /\ item' = Head(chan)
    /\ UNCHANGED <<head, app, sent, accepted, pending, clientVars>>
Written ==
    /\ pc = "sending" /\ pc' \in {"pump", "closing"} /\ item' = None
    /\ Len(wire) < ResponseBound /\ wire' = Append(wire, item.n)
    /\ UNCHANGED <<head, app, sent, accepted, pending, chan, body, delivered>>

\* The server or the client does anything else.
Turned ==
    /\ pc' \in {"phaseA", "pump", "sending"} => pc' = pc /\ item' = item
    /\ pc = "sending" => pc' = "sending" \/ body = "dropped"
    /\ item' \in {item, None}
    /\ UNCHANGED <<head, app, sent, accepted, pending, chan, clientVars>>
Read ==
    /\ body = "open" /\ wire # <<>>
    /\ delivered' = Append(delivered, Head(wire)) /\ wire' = Tail(wire)
    /\ UNCHANGED <<head, app, sent, accepted, pending, chan, pc, item, body>>
Left ==
    /\ body' = "dropped" /\ wire' = <<>>
    /\ UNCHANGED <<head, app, sent, accepted, pending, chan, pc, item, delivered>>

LEMMA Flow ==
    ASSUME TypeOK, Awaits, [Next]_vars
    PROVE  \/ \E e \in Event : Placed(e)
           \/ Held \/ Discarded \/ Forwarded \/ Written \/ Turned \/ Read \/ Left
<1>1. MaxChunks \in Nat
  BY BoundAssumption
<1>2. ASSUME NEW kind \in Kinds, Send(kind) PROVE Held \/ \E e \in Event : Placed(e)
  <2> DEFINE e == Message(kind)
  <2>1. e \in Event /\ Numbers(e)
    BY <1>1, <1>2 DEF Send, Counted, Message, Numbers, TypeOK, Event, Kinds, Data
  <2>2. /\ app = "running" /\ UNCHANGED carryVars
        /\ \/ UNCHANGED <<app, pending, chan, accepted>>
           \/ Len(chan) < ResponseBound /\ Place(e) /\ UNCHANGED <<app, pending>>
           \/ app' = "blocked" /\ pending' = e /\ UNCHANGED <<chan, accepted>>
    BY <1>2 DEF Send, carryVars
  <2>3. sent' = sent \/ (sent < MaxChunks /\ sent' = sent + 1)
    BY <2>1 DEF Numbers
  <2> HIDE DEF e
  <2>4. CASE UNCHANGED <<app, pending, chan, accepted>>
    BY <2>2, <2>3, <2>4 DEF Held
  <2>5. CASE Len(chan) < ResponseBound /\ Place(e) /\ UNCHANGED <<app, pending>>
    BY <2>1, <2>2, <2>5 DEF Placed
  <2>6. CASE app' = "blocked" /\ pending' = e /\ UNCHANGED <<chan, accepted>>
    <3>1. pending' \in Event /\ Numbers(pending')
      BY <2>1, <2>6
    <3> QED
      BY <2>2, <2>6, <3>1 DEF Held
  <2> QED
    BY <2>2, <2>4, <2>5, <2>6
<1>3. CASE SendResumes
  BY <1>3 DEF SendResumes, Held, Placed, Awaits, carryVars
<1>4. CASE AppEnds
  BY <1>4 DEF AppEnds, Held, carryVars
<1>5. CASE TakeStart \/ TakeBodyFirst \/ IgnoreStart
  BY <1>5 DEF TakeStart, TakeBodyFirst, IgnoreStart, Take, Discarded, appVars, Data
<1>6. CASE TakeBody
  BY <1>6 DEF TakeBody, Take, Discarded, Forwarded, Body, Kinds, Final, appVars, Data
<1>7. CASE ChunkTaken
  BY <1>7 DEF ChunkTaken, Written, appVars
<1>8. CASE ClientReads \/ BodyDropped \/ ClientLeaves
  BY <1>8 DEF ClientReads, BodyDropped, ClientLeaves, Read, Left, appVars
<1>9. CASE \/ SinkFreed \/ FutureResolves \/ ObserveApp \/ Failing \/ NoStart
           \/ StartTimeout \/ HandlerDropped \/ ChunkRefused \/ Telling \/ ChannelEnds
           \/ PumpTimeout \/ CloseBody \/ ResponderOver \/ Reap \/ UNCHANGED vars
  BY <1>9 DEF SinkFreed, FutureResolves, ObserveApp, Failing, NoStart, StartTimeout, Fail,
     HandlerDropped, ChunkRefused, Telling, ChannelEnds, PumpTimeout, Move, CloseBody,
     ResponderOver, Reap, Turned, vars, appVars, clientVars
<1> QED
  BY <1>2, <1>3, <1>4, <1>5, <1>6, <1>7, <1>8, <1>9
     DEF Next, AppNext, PhaseANext, ResponderNext, ServerNext

-----------------------------------------------------------------------------
(* The types.                                                               *)

\* The part of TypeOK that is about the messages.
Moving ==
    /\ chan \in Seq(Event) /\ Len(chan) <= ResponseBound
    /\ wire \in Seq(Chunk) /\ Len(wire) <= ResponseBound
    /\ accepted \in Seq(Chunk) /\ delivered \in Seq(Chunk)
    /\ sent \in 0..MaxChunks
    /\ pending \in Event \cup {None} /\ item \in Event \cup {None}

LEMMA MovingStep ==
    ASSUME TypeOK, Awaits, [Next]_vars
    PROVE  Moving' /\ Awaits'
<1>1. MaxChunks \in Nat /\ ResponseBound \in Nat
  BY BoundAssumption
<1>2. Moving /\ Len(chan) \in Nat /\ Len(wire) \in Nat
  BY LenProperties DEF TypeOK, Moving, Chunk
<1>3. \A e \in Event : e.kind \in Data => e.n \in Chunk
  BY DEF Event, Chunk, Kinds, Data
<1>4. ASSUME NEW e \in Event, Placed(e) PROVE Moving' /\ Awaits'
  <2>1. chan' \in Seq(Event) /\ Len(chan') <= ResponseBound
    BY <1>1, <1>2, <1>4, AppendProperties DEF Placed, Place, Moving
  <2>2. accepted' \in Seq(Chunk)
    BY <1>2, <1>3, <1>4, AppendProperties DEF Placed, Place, Moving
  <2>3. sent' \in 0..MaxChunks
    BY <1>1, <1>2, <1>4 DEF Placed, Numbers, Moving
  <2> QED
    BY <1>2, <1>4, <2>1, <2>2, <2>3 DEF Placed, Moving, Awaits, carryVars, clientVars
<1>5. CASE Held
  <2>1. sent' \in 0..MaxChunks
    BY <1>1, <1>2, <1>5 DEF Held, Numbers, Moving
  <2>2. pending' \in Event \cup {None} /\ (app' = "blocked" => pending' \in Event)
    BY <1>2, <1>5 DEF Held, Moving
  <2> QED
    BY <1>2, <1>5, <2>1, <2>2 DEF Held, Moving, Awaits, carryVars, clientVars
<1>6. CASE Discarded \/ Forwarded
  <2>1. chan # <<>> /\ chan' = Tail(chan)
    BY <1>6 DEF Discarded, Forwarded
  <2>2. chan \in Seq(Event) /\ Len(chan) \in Nat /\ Len(chan) <= ResponseBound
    BY <1>2 DEF Moving
  <2>3. /\ Tail(chan) \in Seq(Event) /\ Len(Tail(chan)) = Len(chan) - 1
        /\ Head(chan) \in Event
    BY <2>1, <2>2, HeadTailProperties
  <2>4. chan' \in Seq(Event) /\ Len(chan') <= ResponseBound
    BY <1>1, <2>1, <2>2, <2>3
  <2> QED
    BY <1>2, <1>6, <2>3, <2>4 DEF Discarded, Forwarded, Moving, Awaits, clientVars
<1>7. CASE Written
  <2>1. item.n \in Chunk
    BY <1>3, <1>7 DEF Written, Awaits
  <2>2. wire' \in Seq(Chunk) /\ Len(wire') <= ResponseBound
    BY <1>1, <1>2, <1>7, <2>1, AppendProperties DEF Written, Moving
  <2> QED
    BY <1>2, <1>7, <2>2 DEF Written, Moving, Awaits
<1>8. CASE Turned
  BY <1>2, <1>8 DEF Turned, Moving, Awaits, clientVars
<1>9. CASE Read
  <2>1. /\ wire' \in Seq(Chunk) /\ Len(wire') <= ResponseBound
        /\ delivered' \in Seq(Chunk)
    BY <1>1, <1>2, <1>9, HeadTailProperties, AppendProperties DEF Read, Moving
  <2> QED
    BY <1>2, <1>9, <2>1 DEF Read, Moving, Awaits
<1>10. CASE Left
  <2>1. wire' \in Seq(Chunk) /\ Len(wire') <= ResponseBound
    BY <1>1, <1>10, EmptySeq DEF Left
  <2> QED
    BY <1>2, <1>10, <2>1 DEF Left, Moving, Awaits
<1> QED
  BY <1>4, <1>5, <1>6, <1>7, <1>8, <1>9, <1>10, Flow

LEMMA TypeStep ==
    ASSUME TypeOK, Awaits, [Next]_vars
    PROVE  TypeOK'
<1>1. /\ head' \in BOOLEAN /\ sink' \in BOOLEAN /\ resolved' \in BOOLEAN
      /\ appDone' \in BOOLEAN /\ appLogged' \in BOOLEAN /\ repolled' \in BOOLEAN
      /\ disconnected' \in BOOLEAN /\ eos' \in BOOLEAN
      /\ rx' \in {"open", "closed"}
      /\ client' \in {"here", "gone"} /\ body' \in {"open", "dropped"}
      /\ reaper' \in {"none", "running", "over"} /\ answer' \in {"none", "app", "500"}
      /\ pc' \in {"phaseA", "failing", "pump", "sending", "telling", "closing",
                  "logging", "over", "dropped"}
      /\ app' \in {"running", "blocked", "ended"}
      /\ logged' = logged \/ Report
  <2> USE DEF Next, AppNext, PhaseANext, ResponderNext, ServerNext, Send, Place,
     SendResumes, AppEnds, SinkFreed, FutureResolves, ObserveApp, TakeStart, TakeBodyFirst,
     Failing, NoStart, StartTimeout, Fail, HandlerDropped, IgnoreStart, TakeBody, ChunkTaken,
     ChunkRefused, Telling, ChannelEnds, PumpTimeout, Move, CloseBody, ResponderOver, Reap,
     ClientReads, BodyDropped, ClientLeaves, Take, vars, appVars, logVars, clientVars
  <2>1. head' \in BOOLEAN /\ sink' \in BOOLEAN /\ resolved' \in BOOLEAN
    BY Zenon DEF TypeOK, Report
  <2>2. appDone' \in BOOLEAN /\ repolled' \in BOOLEAN
    BY Zenon DEF TypeOK, Report
  <2>10. appLogged' \in BOOLEAN
    BY Zenon DEF TypeOK, Report
  <2>11. body' \in {"open", "dropped"}
    BY DEF TypeOK, Report
  <2>3. disconnected' \in BOOLEAN /\ eos' \in BOOLEAN
    BY Zenon DEF TypeOK, Report
  <2>4. rx' \in {"open", "closed"} /\ client' \in {"here", "gone"}
    BY DEF TypeOK, Report
  <2>5. reaper' \in {"none", "running", "over"}
    BY DEF TypeOK, Report
  <2>6. answer' \in {"none", "app", "500"}
    BY DEF TypeOK, Report
  <2>7. pc' \in {"phaseA", "failing", "pump", "sending", "telling", "closing",
                  "logging", "over", "dropped"}
    BY DEF TypeOK, Report
  <2>8. app' \in {"running", "blocked", "ended"}
    BY DEF TypeOK, Report
  <2>9. logged' = logged \/ Report
    OBVIOUS
  <2> HIDE DEF Next, AppNext, PhaseANext, ResponderNext, ServerNext, Send, Place,
     SendResumes, AppEnds, SinkFreed, FutureResolves, ObserveApp, TakeStart, TakeBodyFirst,
     Failing, NoStart, StartTimeout, Fail, HandlerDropped, IgnoreStart, TakeBody, ChunkTaken,
     ChunkRefused, Telling, ChannelEnds, PumpTimeout, Move, CloseBody, ResponderOver, Reap,
     ClientReads, BodyDropped, ClientLeaves, Take, vars, appVars, logVars, clientVars
  <2> QED
    BY <2>1, <2>2, <2>3, <2>4, <2>5, <2>6, <2>7, <2>8, <2>9, <2>10, <2>11
<1>4. logged' \in Nat
  <2>1. logged \in Nat
    BY DEF TypeOK
  <2> QED
    BY <1>1, <2>1 DEF Report
<1>6. Moving'
  BY MovingStep
<1> QED
  BY <1>1, <1>4, <1>6 DEF TypeOK, Moving, Chunk

-----------------------------------------------------------------------------
(* The reaper.                                                              *)

LEMMA ReapingStep ==
    ASSUME TypeOK, Reaping, [Next]_vars
    PROVE  Reaping'
<1>1. CASE Failing \/ NoStart \/ StartTimeout
  BY <1>1 DEF Failing, NoStart, StartTimeout, Fail, Reaping
<1>2. CASE TakeStart \/ TakeBodyFirst \/ HandlerDropped
  BY <1>2 DEF TakeStart, TakeBodyFirst, HandlerDropped, Reaping, logVars
<1>3. CASE ObserveApp
  BY <1>3 DEF ObserveApp, Selecting, Reaping
<1>4. CASE CloseBody
  BY <1>4 DEF CloseBody, Reaping
<1>5. CASE ResponderOver
  BY <1>5 DEF ResponderOver, Reaping, logVars
<1>6. CASE Reap
  <2>1. pc \in {"logging", "over"}
    BY <1>6 DEF Reap, Reaping
  <2>2. repolled' => answer' = "500"
    BY <1>6 DEF Reap, Reaping
  <2> QED
    BY <1>6, <2>1, <2>2 DEF Reap, Reaping
<1>7. CASE \/ IgnoreStart \/ TakeBody \/ ChunkTaken \/ ChunkRefused
           \/ Telling \/ ChannelEnds \/ PumpTimeout
  BY <1>7 DEF IgnoreStart, TakeBody, ChunkTaken, ChunkRefused, Telling, ChannelEnds,
     PumpTimeout, Move, Reaping, logVars
<1>8. CASE \/ AppNext \/ SendResumes \/ SinkFreed \/ FutureResolves
           \/ ClientReads \/ BodyDropped \/ ClientLeaves \/ UNCHANGED vars
  <2>1. UNCHANGED <<pc, reaper, repolled, appDone, answer>>
    BY <1>8 DEF AppNext, Send, AppEnds, SendResumes, SinkFreed, FutureResolves,
       ClientReads, BodyDropped, ClientLeaves, vars, logVars
  <2> QED
    BY <2>1 DEF Reaping
<1> QED
  BY <1>1, <1>2, <1>3, <1>4, <1>5, <1>6, <1>7, <1>8
     DEF Next, PhaseANext, ResponderNext, ServerNext

-----------------------------------------------------------------------------
(* The order of the messages.                                               *)

LEMMA NumberedStep ==
    ASSUME TypeOK, Awaits, Numbered, [Next]_vars
    PROVE  Numbered'
<1>1. /\ sent \in Nat /\ Len(chan) \in Nat /\ Len(accepted) \in Nat
      /\ chan \in Seq(Event) /\ accepted \in Seq(Chunk)
      /\ \A k \in 1..Len(accepted) : accepted[k] \in Nat
      /\ \A i \in 1..Len(chan) : chan[i].n \in Nat
  <2>1. chan \in Seq(Event) /\ accepted \in Seq(Chunk) /\ sent \in Nat
    BY BoundAssumption DEF TypeOK, Chunk
  <2>2. \A k \in 1..Len(accepted) : accepted[k] \in Chunk
    BY <2>1, ElementOfSeq
  <2>3. \A i \in 1..Len(chan) : chan[i] \in Event
    BY <2>1, ElementOfSeq
  <2> QED
    BY <2>1, <2>2, <2>3, LenProperties, BoundAssumption DEF Chunk, Event
<1>2. ASSUME NEW e \in Event, Placed(e) PROVE Numbered'
  <2>1. /\ sent' \in Nat /\ Upto(sent')
        /\ e.kind \in Data => e.n = sent' /\ Upto(sent' - 1)
    <3>1. CASE app = "running" /\ Numbers(e)
      <4>1. CASE e.kind \in Data
        <5>1. sent' = sent + 1 /\ sent' - 1 = sent /\ e.n = sent'
          BY <1>1, <3>1, <4>1 DEF Numbers
        <5>2. Upto(sent)
          BY DEF Numbered
        <5>3. Upto(sent')
          BY <1>1, <5>1, <5>2 DEF Upto
        <5> QED
          BY <1>1, <5>1, <5>2, <5>3
      <4>2. CASE e.kind \notin Data
        BY <1>1, <3>1, <4>2 DEF Numbered, Numbers
      <4> QED
        BY <4>1, <4>2
    <3>2. CASE app = "blocked" /\ sent' = sent /\ e = pending
      BY <1>1, <3>2 DEF Numbered
    <3> QED
      BY <1>2, <3>1, <3>2 DEF Placed
  <2>2. /\ Len(chan') = Len(chan) + 1 /\ chan'[Len(chan) + 1] = e
        /\ \A i \in 1..Len(chan) : chan'[i] = chan[i]
    BY <1>1, <1>2, AppendProperties DEF Placed, Place
  <2>3. \/ accepted' = accepted
        \/ /\ Len(accepted') = Len(accepted) + 1 /\ accepted'[Len(accepted) + 1] = e.n
           /\ \A k \in 1..Len(accepted) : accepted'[k] = accepted[k]
           /\ e.kind \in Data
    <3>1. e.kind \in Data => e.n \in Chunk
      BY DEF Event, Chunk, Kinds, Data
    <3> QED
      BY <1>1, <1>2, <3>1, AppendProperties DEF Placed, Place
  <2>4. Queued'
    <3> SUFFICES ASSUME NEW i \in 1..Len(chan'), NEW j \in 1..Len(chan'), i < j,
                        chan'[i].kind \in Data, chan'[j].kind \in Data
                 PROVE  chan'[i].n < chan'[j].n
      BY DEF Queued
    <3>1. i \in 1..Len(chan)
      BY <1>1, <2>2
    <3>2. CASE j \in 1..Len(chan)
      BY <1>1, <2>2, <3>1, <3>2 DEF Numbered, Queued
    <3>3. CASE j = Len(chan) + 1
      BY <1>1, <2>1, <2>2, <3>1, <3>3 DEF Upto
    <3> QED
      BY <1>1, <2>2, <3>2, <3>3, LastPlace
  <2>5. Rising'
    <3> SUFFICES ASSUME NEW j \in 1..Len(accepted'), NEW k \in 1..Len(accepted'), j < k
                 PROVE  accepted'[j] < accepted'[k]
      BY DEF Rising
    <3>1. CASE accepted' = accepted
      BY <1>1, <3>1 DEF Numbered, Rising
    <3>2. CASE accepted' # accepted
      <4>1. j \in 1..Len(accepted)
        BY <1>1, <2>3, <3>2
      <4>2. CASE k \in 1..Len(accepted)
        BY <1>1, <2>3, <3>2, <4>1, <4>2 DEF Numbered, Rising
      <4>3. CASE k = Len(accepted) + 1
        BY <1>1, <2>1, <2>3, <3>2, <4>1, <4>3 DEF Upto
      <4> QED
        BY <1>1, <2>3, <3>2, <4>2, <4>3, LastPlace
    <3> QED
      BY <3>1, <3>2
  <2>6. Upto(sent)'
    <3>1. ASSUME NEW k \in 1..Len(accepted') PROVE accepted'[k] <= sent'
      <4>1. CASE k \in 1..Len(accepted)
        BY <1>1, <2>1, <2>3, <4>1 DEF Upto
      <4>2. CASE k \notin 1..Len(accepted)
        BY <1>1, <2>1, <2>3, <4>2
      <4> QED
        BY <4>1, <4>2
    <3>2. ASSUME NEW i \in 1..Len(chan'), chan'[i].kind \in Data PROVE chan'[i].n <= sent'
      <4>1. CASE i \in 1..Len(chan)
        BY <1>1, <2>1, <2>2, <3>2, <4>1 DEF Upto
      <4>2. CASE i \notin 1..Len(chan)
        BY <1>1, <2>1, <2>2, <3>2, <4>2
      <4> QED
        BY <4>1, <4>2
    <3> QED
      BY <3>1, <3>2 DEF Upto
  <2>7. app' # "blocked"
    BY <1>2 DEF Placed
  <2> QED
    BY <2>4, <2>5, <2>6, <2>7 DEF Numbered
<1>3. CASE Held
  <2>1. UNCHANGED <<chan, accepted>>
    BY <1>3 DEF Held
  <2>2. /\ sent' \in Nat /\ sent' >= sent
        /\ app' = "blocked" /\ pending'.kind \in Data => sent' = sent + 1 /\ pending'.n = sent'
    BY <1>1, <1>3 DEF Held, Numbers
  <2>3. Upto(sent)'
    BY <1>1, <2>1, <2>2 DEF Numbered, Upto
  <2>4. app' = "blocked" /\ pending'.kind \in Data => Upto(sent - 1)'
    BY <1>1, <2>1, <2>2 DEF Numbered, Upto
  <2> QED
    BY <2>1, <2>2, <2>3, <2>4 DEF Numbered, Rising, Queued
<1>4. CASE Discarded \/ Forwarded
  <2>1. /\ Len(chan') = Len(chan) - 1
        /\ \A i \in 1..Len(chan') : i + 1 \in 1..Len(chan) /\ chan'[i] = chan[i + 1]
    <3>1. chan # <<>> /\ chan' = Tail(chan)
      BY <1>4 DEF Discarded, Forwarded
    <3> QED
      BY <1>1, <3>1, HeadTailProperties
  <2>2. UNCHANGED <<app, sent, accepted, pending>>
    BY <1>4 DEF Discarded, Forwarded
  <2>3. Queued'
    <3> SUFFICES ASSUME NEW i \in 1..Len(chan'), NEW j \in 1..Len(chan'), i < j,
                        chan'[i].kind \in Data, chan'[j].kind \in Data
                 PROVE  chan'[i].n < chan'[j].n
      BY DEF Queued
    <3>1. i + 1 \in 1..Len(chan) /\ j + 1 \in 1..Len(chan) /\ i + 1 < j + 1
      BY <1>1, <2>1
    <3>2. chan'[i] = chan[i + 1] /\ chan'[j] = chan[j + 1]
      BY <2>1
    <3>3. chan[i + 1].n < chan[j + 1].n
      BY <3>1, <3>2 DEF Numbered, Queued
    <3> QED
      BY <3>2, <3>3
  <2>4. Rising'
    BY <2>2 DEF Numbered, Rising
  <2>5. \A m : Upto(m) => /\ \A k \in 1..Len(accepted') : accepted'[k] <= m
                          /\ \A i \in 1..Len(chan') : chan'[i].kind \in Data => chan'[i].n <= m
    BY <2>1, <2>2 DEF Upto
  <2>6. /\ Upto(sent)'
        /\ app' = "blocked" /\ pending'.kind \in Data => pending'.n = sent' /\ Upto(sent - 1)'
    BY <2>2, <2>5 DEF Numbered, Upto
  <2> QED
    BY <2>3, <2>4, <2>6 DEF Numbered
<1>5. CASE Written \/ Turned \/ Read \/ Left
  <2>1. UNCHANGED <<app, sent, accepted, pending, chan>>
    BY <1>5 DEF Written, Turned, Read, Left
  <2> QED
    BY <2>1 DEF Numbered, Rising, Queued, Upto
<1> QED
  BY <1>2, <1>3, <1>4, <1>5, Flow

\* The message at the head of the channel, if it carries data, is the next that
\* the client is owed.
LEMMA NextInLine ==
    ASSUME TypeOK, Numbered, Remains, Passed \in Nat, chan # <<>>, Head(chan).kind \in Data
    PROVE  Passed + 1 <= Len(accepted) /\ Head(chan).n = accepted[Passed + 1]
<1>1. /\ Len(chan) \in Nat /\ Len(accepted) \in Nat
      /\ 1 \in 1..Len(chan) /\ Head(chan) = chan[1]
      /\ \A k \in 1..Len(accepted) : accepted[k] \in Nat
      /\ \A i \in 1..Len(chan) : chan[i].n \in Nat
  <2>1. chan \in Seq(Event) /\ accepted \in Seq(Chunk)
    BY DEF TypeOK, Chunk
  <2>2. \A k \in 1..Len(accepted) : accepted[k] \in Chunk
    BY <2>1, ElementOfSeq
  <2>3. \A i \in 1..Len(chan) : chan[i] \in Event
    BY <2>1, ElementOfSeq
  <2>4. Head(chan) = chan[1] /\ 1 \in 1..Len(chan)
    BY <2>1, LenProperties, EmptySeq, HeadTailProperties
  <2> QED
    BY <2>1, <2>2, <2>3, <2>4, LenProperties, BoundAssumption DEF Chunk, Event
<1>2. PICK k \in (Passed + 1)..Len(accepted) : accepted[k] = chan[1].n
  BY <1>1 DEF Remains, StillToPass
<1>3. Passed + 1 \in (Passed + 1)..Len(accepted) /\ Passed + 1 \in 1..Len(accepted)
      /\ k \in 1..Len(accepted) /\ k >= Passed + 1
  BY <1>1, <1>2
<1>4. PICK i \in 1..Len(chan) : chan[i].n = accepted[Passed + 1] /\ chan[i].kind \in Data
  BY <1>3 DEF Remains, InChannel
<1>5. ASSUME k # Passed + 1 PROVE FALSE
  <2>1. accepted[Passed + 1] < accepted[k]
    BY <1>3, <1>5 DEF Numbered, Rising
  <2>2. i # 1
    BY <1>1, <1>2, <1>3, <1>4, <2>1
  <2>3. chan[1].n < chan[i].n
    BY <1>1, <1>4, <2>2 DEF Numbered, Queued
  <2> QED
    BY <1>1, <1>2, <1>3, <1>4, <2>1, <2>3
<1> QED
  BY <1>1, <1>2, <1>3, <1>5

LEMMA CarriedStep ==
    ASSUME TypeOK, TypeOK', Awaits, Numbered, Carried, [Next]_vars
    PROVE  Carried'
<1> SUFFICES ASSUME body' = "open" PROVE PassedOn' /\ (Forwarding' => Remains')
  BY DEF Carried
<1>1. /\ chan \in Seq(Event) /\ accepted \in Seq(Chunk)
      /\ wire \in Seq(Chunk) /\ delivered \in Seq(Chunk)
      /\ Len(chan) \in Nat /\ Len(accepted) \in Nat
      /\ Len(wire) \in Nat /\ Len(delivered) \in Nat /\ Passed \in Nat
  BY LenProperties DEF TypeOK, Chunk, Passed
<1>2. body = "open" /\ PassedOn /\ (Forwarding => Remains)
  <2>1. body = "open"
    BY Flow DEF Placed, Held, Discarded, Forwarded, Written, Turned, Read, Left,
       carryVars, clientVars
  <2> QED
    BY <2>1 DEF Carried
<1>3. \A k \in 1..Len(accepted) : accepted[k] \in Nat
  <2>1. \A k \in 1..Len(accepted) : accepted[k] \in Chunk
    BY <1>1, ElementOfSeq
  <2> QED
    BY <2>1, BoundAssumption DEF Chunk
<1>4. ASSUME NEW e \in Event, Placed(e) PROVE PassedOn' /\ (Forwarding' => Remains')
  <2>1. /\ UNCHANGED <<head, pc, item, body, wire, delivered>>
        /\ Passed' = Passed /\ (Forwarding' <=> Forwarding)
    BY <1>4 DEF Placed, carryVars, clientVars, Passed, Forwarding
  <2>2. /\ Len(chan') = Len(chan) + 1 /\ chan'[Len(chan) + 1] = e
        /\ \A i \in 1..Len(chan) : chan'[i] = chan[i]
    BY <1>1, <1>4, AppendProperties DEF Placed, Place
  <2>3. /\ Len(accepted') = Len(accepted) + (IF e.kind \in Data THEN 1 ELSE 0)
        /\ \A k \in 1..Len(accepted) : accepted'[k] = accepted[k]
        /\ e.kind \in Data => accepted'[Len(accepted) + 1] = e.n
    <3>1. e.kind \in Data => e.n \in Chunk
      BY DEF Event, Chunk, Kinds, Data
    <3>2. accepted' = IF e.kind \in Data THEN Append(accepted, e.n) ELSE accepted
      BY <1>4 DEF Placed, Place
    <3>3. CASE e.kind \in Data
      BY <1>1, <3>1, <3>2, <3>3, AppendProperties
    <3>4. CASE e.kind \notin Data
      BY <1>1, <3>2, <3>4
    <3> QED
      BY <3>3, <3>4
  <2>4. PassedOn'
    BY <1>1, <1>2, <2>1, <2>3 DEF PassedOn, Passed
  <2>5. ASSUME Remains, NEW k \in (Passed + 1)..Len(accepted')
        PROVE  InChannel(accepted[k])'
    <3>1. CASE k \in 1..Len(accepted)
      <4>1. k \in (Passed + 1)..Len(accepted)
        BY <1>1, <2>5, <3>1
      <4>2. PICK i \in 1..Len(chan) : chan[i].n = accepted[k] /\ chan[i].kind \in Data
        BY <2>5, <4>1 DEF Remains, InChannel
      <4>3. i \in 1..Len(chan') /\ chan'[i] = chan[i]
        BY <1>1, <2>2
      <4> QED
        BY <2>3, <3>1, <4>2, <4>3 DEF InChannel
    <3>2. CASE k \notin 1..Len(accepted)
      <4>1. e.kind \in Data /\ k = Len(accepted) + 1
        BY <1>1, <2>3, <2>5, <3>2
      <4>2. Len(chan) + 1 \in 1..Len(chan')
        BY <1>1, <2>2
      <4> QED
        BY <2>2, <2>3, <4>1, <4>2 DEF InChannel
    <3> QED
      BY <3>1, <3>2
  <2>6. ASSUME Remains, NEW i \in 1..Len(chan'), chan'[i].kind \in Data
        PROVE  StillToPass(chan[i].n)'
    <3>1. CASE i \in 1..Len(chan)
      <4>1. PICK k \in (Passed + 1)..Len(accepted) : accepted[k] = chan[i].n
        BY <2>2, <2>6, <3>1 DEF Remains, StillToPass
      <4>2. k \in (Passed' + 1)..Len(accepted') /\ accepted'[k] = chan'[i].n
        BY <1>1, <2>1, <2>2, <2>3, <3>1, <4>1
      <4> QED
        BY <4>2 DEF StillToPass
    <3>2. CASE i = Len(chan) + 1
      <4>1. e.kind \in Data
        BY <2>2, <2>6, <3>2
      <4>2. Passed <= Len(accepted)
        BY <1>2 DEF PassedOn
      <4>3. /\ Len(accepted) + 1 \in (Passed' + 1)..Len(accepted')
            /\ accepted'[Len(accepted) + 1] = chan'[i].n
        BY <1>1, <2>1, <2>2, <2>3, <3>2, <4>1, <4>2
      <4> QED
        BY <4>3 DEF StillToPass
    <3> QED
      BY <1>1, <2>2, <3>1, <3>2, LastPlace
  <2>7. Remains => Remains'
    <3> SUFFICES ASSUME Remains PROVE Remains'
      OBVIOUS
    <3>1. \A k \in (Passed' + 1)..Len(accepted') : InChannel(accepted[k])'
      BY <2>1, <2>5
    <3>2. \A i \in 1..Len(chan') : chan'[i].kind \in Data => StillToPass(chan[i].n)'
      BY <2>6
    <3> QED
      BY <3>1, <3>2 DEF Remains
  <2> QED
    BY <1>2, <2>1, <2>4, <2>7
<1>5. CASE Held
  <2>1. UNCHANGED <<chan, accepted, head, pc, item, wire, delivered>>
    BY <1>5 DEF Held, carryVars, clientVars
  <2>2. Passed' = Passed
    BY <2>1 DEF Passed
  <2>3. PassedOn'
    BY <1>2, <2>1, <2>2 DEF PassedOn
  <2>4. Remains => Remains'
    BY <2>1, <2>2 DEF Remains, InChannel, StillToPass
  <2> QED
    BY <1>2, <2>1, <2>3, <2>4 DEF Forwarding
<1>6. ASSUME Discarded \/ Forwarded
      PROVE  /\ 1 \in 1..Len(chan) /\ Head(chan) = chan[1] /\ Len(chan') = Len(chan) - 1
             /\ \A i \in 1..Len(chan') : i + 1 \in 1..Len(chan) /\ chan'[i] = chan[i + 1]
             /\ \A i \in 1..Len(chan) :
                   i # 1 => i - 1 \in 1..Len(chan') /\ chan'[i - 1] = chan[i]
  <2>0. chan # <<>> /\ chan' = Tail(chan)
    BY <1>6 DEF Discarded, Forwarded
  <2>1. /\ Len(chan') = Len(chan) - 1
        /\ \A i \in 1..Len(chan') : i + 1 \in 1..Len(chan) /\ chan'[i] = chan[i + 1]
    BY <1>1, <2>0, HeadTailProperties
  <2>2. 1 \in 1..Len(chan) /\ Head(chan) = chan[1]
    BY <1>1, <2>0, EmptySeq, HeadTailProperties
  <2>3. ASSUME NEW i \in 1..Len(chan), i # 1
        PROVE  i - 1 \in 1..Len(chan') /\ chan'[i - 1] = chan[i]
    <3>1. i - 1 \in 1..Len(chan') /\ (i - 1) + 1 = i
      BY <1>1, <2>1, <2>3
    <3> QED
      BY <2>1, <3>1
  <2> QED
    BY <2>1, <2>2, <2>3
<1>7. CASE Discarded
  <2>1. UNCHANGED <<head, accepted, wire, delivered>> /\ pc # "sending" /\ pc' # "sending"
    BY <1>7 DEF Discarded, clientVars
  <2>2. Passed' = Passed
    BY <2>1 DEF Passed
  <2>3. PassedOn'
    BY <1>2, <2>1, <2>2 DEF PassedOn
  <2>4. ASSUME Forwarding' PROVE Remains'
    <3>1. Remains /\ chan[1].kind \notin Data
      BY <1>2, <1>6, <1>7, <2>4 DEF Discarded, Forwarding
    <3>2. ASSUME NEW k \in (Passed + 1)..Len(accepted) PROVE InChannel(accepted[k])'
      <4>1. PICK i \in 1..Len(chan) : chan[i].n = accepted[k] /\ chan[i].kind \in Data
        BY <3>1, <3>2 DEF Remains, InChannel
      <4>2. i # 1
        BY <3>1, <4>1
      <4> QED
        BY <1>6, <1>7, <2>1, <4>1, <4>2 DEF InChannel
    <3>3. ASSUME NEW i \in 1..Len(chan'), chan'[i].kind \in Data
          PROVE  StillToPass(chan[i].n)'
      <4>1. i + 1 \in 1..Len(chan) /\ chan'[i] = chan[i + 1]
        BY <1>6, <1>7
      <4>2. StillToPass(chan[i + 1].n)
        BY <3>1, <3>3, <4>1 DEF Remains
      <4> QED
        BY <2>1, <2>2, <4>1, <4>2 DEF StillToPass
    <3>4. \A k \in (Passed' + 1)..Len(accepted') : InChannel(accepted[k])'
      BY <2>1, <2>2, <3>2
    <3> QED
      BY <3>3, <3>4 DEF Remains
  <2> QED
    BY <2>3, <2>4
<1>8. CASE Forwarded
  <2>1. /\ UNCHANGED <<head, accepted, wire, delivered>>
        /\ pc = "pump" /\ pc' = "sending" /\ item' = Head(chan) /\ Head(chan).kind \in Data
        /\ chan # <<>>
    BY <1>8 DEF Forwarded, clientVars
  <2>2. Passed' = Passed + 1 /\ Passed = Len(delivered) + Len(wire)
    BY <1>1, <2>1 DEF Passed
  <2>3. Remains
    BY <1>2, <1>8 DEF Forwarded, Forwarding
  <2>4. Passed + 1 <= Len(accepted) /\ chan[1].n = accepted[Passed + 1]
    BY <1>1, <1>6, <1>8, <2>1, <2>3, NextInLine
  <2>5. PassedOn'
    <3>1. Passed' <= Len(accepted') /\ item'.n = accepted'[Passed']
      BY <1>6, <1>8, <2>1, <2>2, <2>4
    <3> QED
      BY <1>2, <2>1, <3>1 DEF PassedOn
  <2>6. ASSUME NEW k \in (Passed' + 1)..Len(accepted) PROVE InChannel(accepted[k])'
    <3>1. /\ k \in (Passed + 1)..Len(accepted) /\ k \in 1..Len(accepted)
          /\ Passed + 1 \in 1..Len(accepted) /\ Passed + 1 < k
      BY <1>1, <2>2, <2>6
    <3>2. PICK i \in 1..Len(chan) : chan[i].n = accepted[k] /\ chan[i].kind \in Data
      BY <2>3, <3>1 DEF Remains, InChannel
    <3>3. accepted[Passed + 1] < accepted[k]
      BY <3>1 DEF Numbered, Rising
    <3>4. i # 1
      BY <1>3, <2>4, <3>1, <3>2, <3>3
    <3> QED
      BY <1>6, <1>8, <2>1, <3>2, <3>4 DEF InChannel
  <2>7. ASSUME NEW i \in 1..Len(chan'), chan'[i].kind \in Data
        PROVE  StillToPass(chan[i].n)'
    <3>1. i + 1 \in 1..Len(chan) /\ chan'[i] = chan[i + 1] /\ 1 \in 1..Len(chan)
      BY <1>6, <1>8
    <3>2. PICK k \in (Passed + 1)..Len(accepted) : accepted[k] = chan[i + 1].n
      BY <2>3, <2>7, <3>1 DEF Remains, StillToPass
    <3>3. chan[1].n < chan[i + 1].n
      BY <1>1, <1>6, <1>8, <2>1, <2>7, <3>1 DEF Numbered, Queued
    <3>4. k # Passed + 1
      BY <1>1, <1>3, <2>4, <3>2, <3>3
    <3>5. k \in (Passed' + 1)..Len(accepted')
      BY <1>1, <2>1, <2>2, <3>2, <3>4
    <3> QED
      BY <2>1, <3>1, <3>2, <3>5 DEF StillToPass
  <2>8. \A k \in (Passed' + 1)..Len(accepted') : InChannel(accepted[k])'
    BY <2>1, <2>6
  <2>9. Remains'
    BY <2>7, <2>8 DEF Remains
  <2> QED
    BY <2>5, <2>9
<1>9. CASE Written
  <2>1. /\ UNCHANGED <<head, accepted, chan, delivered>>
        /\ pc = "sending" /\ pc' \in {"pump", "closing"} /\ wire' = Append(wire, item.n)
    BY <1>9 DEF Written
  <2>2. item.n \in Chunk
    BY <1>9 DEF Written, Awaits, Event, Chunk, Kinds, Data
  <2>3. /\ Len(wire') = Len(wire) + 1 /\ wire'[Len(wire) + 1] = item.n
        /\ \A i \in 1..Len(wire) : wire'[i] = wire[i]
    BY <1>1, <2>1, <2>2, AppendProperties
  <2>4. Passed' = Passed /\ Passed = Len(delivered) + (Len(wire) + 1)
    <3>1. Passed = Len(delivered) + Len(wire) + 1
      BY <2>1 DEF Passed
    <3>2. Passed' = Len(delivered) + (Len(wire) + 1) + 0
      BY <2>1, <2>3 DEF Passed
    <3> QED
      BY <1>1, <3>1, <3>2
  <2>5. ASSUME NEW i \in 1..Len(wire') PROVE wire'[i] = accepted'[Len(delivered') + i]
    <3>1. CASE i \in 1..Len(wire)
      BY <1>2, <2>1, <2>3, <3>1 DEF PassedOn
    <3>2. CASE i = Len(wire) + 1
      <4>1. item.n = accepted[Passed]
        BY <1>2, <2>1 DEF PassedOn
      <4> QED
        BY <2>1, <2>3, <2>4, <3>2, <4>1
    <3> QED
      BY <1>1, <2>3, <3>1, <3>2, LastPlace
  <2>6. PassedOn'
    <3>1. Passed' <= Len(accepted')
      BY <1>2, <2>1, <2>4 DEF PassedOn
    <3>2. \A i \in 1..Len(delivered') : delivered'[i] = accepted'[i]
      BY <1>2, <2>1 DEF PassedOn
    <3> QED
      BY <2>1, <2>5, <3>1, <3>2 DEF PassedOn
  <2>7. Remains => Remains'
    BY <2>1, <2>4 DEF Remains, InChannel, StillToPass
  <2>8. Forwarding' => Forwarding
    BY <2>1 DEF Forwarding
  <2> QED
    BY <1>2, <2>6, <2>7, <2>8
<1>10. CASE Turned
  <2>1. /\ UNCHANGED <<head, accepted, chan, wire, delivered>>
        /\ pc = "sending" <=> pc' = "sending"
        /\ pc' = "sending" => item' = item
        /\ Forwarding' => Forwarding
    BY <1>2, <1>10 DEF Turned, clientVars, Forwarding
  <2>2. Passed' = Passed
    BY <2>1 DEF Passed
  <2>3. PassedOn'
    BY <1>2, <2>1, <2>2 DEF PassedOn
  <2>4. Remains => Remains'
    BY <2>1, <2>2 DEF Remains, InChannel, StillToPass
  <2> QED
    BY <1>2, <2>1, <2>3, <2>4
<1>11. CASE Read
  <2>1. /\ UNCHANGED <<head, accepted, chan, pc, item>> /\ wire # <<>>
        /\ delivered' = Append(delivered, Head(wire)) /\ wire' = Tail(wire)
    BY <1>11 DEF Read
  <2>2. /\ Head(wire) \in Chunk /\ Head(wire) = wire[1] /\ 1 \in 1..Len(wire)
        /\ Len(wire') = Len(wire) - 1
        /\ \A i \in 1..Len(wire') : i + 1 \in 1..Len(wire) /\ wire'[i] = wire[i + 1]
    BY <1>1, <2>1, EmptySeq, HeadTailProperties
  <2>3. /\ Len(delivered') = Len(delivered) + 1
        /\ delivered'[Len(delivered) + 1] = wire[1]
        /\ \A i \in 1..Len(delivered) : delivered'[i] = delivered[i]
    BY <1>1, <2>1, <2>2, AppendProperties
  <2>4. Passed' = Passed
    BY <1>1, <2>1, <2>2, <2>3 DEF Passed
  <2>5. \A i \in 1..Len(delivered') : delivered'[i] = accepted'[i]
    <3> SUFFICES ASSUME NEW i \in 1..Len(delivered') PROVE delivered'[i] = accepted'[i]
      OBVIOUS
    <3>1. CASE i \in 1..Len(delivered)
      BY <1>2, <2>1, <2>3, <3>1 DEF PassedOn
    <3>2. CASE i = Len(delivered) + 1
      <4>1. wire[1] = accepted[Len(delivered) + 1]
        BY <1>2, <2>2 DEF PassedOn
      <4> QED
        BY <2>1, <2>3, <3>2, <4>1
    <3> QED
      BY <1>1, <2>3, <3>1, <3>2, LastPlace
  <2>6. \A i \in 1..Len(wire') : wire'[i] = accepted'[Len(delivered') + i]
    <3> SUFFICES ASSUME NEW i \in 1..Len(wire')
                 PROVE  wire'[i] = accepted'[Len(delivered') + i]
      OBVIOUS
    <3>1. wire[i + 1] = accepted[Len(delivered) + (i + 1)]
      BY <1>2, <2>2 DEF PassedOn
    <3>2. Len(delivered') + i = Len(delivered) + (i + 1)
      BY <1>1, <2>2, <2>3
    <3> QED
      BY <2>1, <2>2, <3>1, <3>2
  <2>7. PassedOn'
    BY <1>2, <2>1, <2>4, <2>5, <2>6 DEF PassedOn
  <2>8. Remains => Remains'
    BY <2>1, <2>4 DEF Remains, InChannel, StillToPass
  <2> QED
    BY <1>2, <2>1, <2>7, <2>8 DEF Forwarding
<1>12. CASE Left
  BY <1>12 DEF Left
<1> QED
  BY <1>4, <1>5, <1>7, <1>8, <1>9, <1>10, <1>11, <1>12, Flow

-----------------------------------------------------------------------------
(* The theorems.                                                            *)

LEMMA InitIInv == Init => IInv
<1> SUFFICES ASSUME Init PROVE IInv
  OBVIOUS
<1>1. MaxChunks \in Nat /\ ResponseBound \in Nat
  BY BoundAssumption
<1>2. /\ chan = <<>> /\ accepted = <<>> /\ wire = <<>> /\ delivered = <<>>
      /\ Len(chan) = 0 /\ Len(accepted) = 0 /\ Len(wire) = 0 /\ Len(delivered) = 0
      /\ pc = "phaseA" /\ app = "running" /\ sent = 0
  BY DEF Init
<1>3. TypeOK
  <2>1. head \in BOOLEAN /\ sink \in BOOLEAN /\ resolved \in BOOLEAN
    BY Zenon DEF Init
  <2>2. /\ appDone \in BOOLEAN /\ appLogged \in BOOLEAN /\ repolled \in BOOLEAN
        /\ disconnected \in BOOLEAN /\ eos \in BOOLEAN
    BY Zenon DEF Init
  <2>3. /\ chan \in Seq(Event) /\ accepted \in Seq(1..MaxChunks)
        /\ wire \in Seq(1..MaxChunks) /\ delivered \in Seq(1..MaxChunks)
    BY <1>2, EmptySeq
  <2>4. logged \in Nat /\ sent \in 0..MaxChunks
    BY <1>1 DEF Init
  <2> QED
    BY <1>1, <1>2, <2>1, <2>2, <2>3, <2>4 DEF Init, TypeOK
<1>4. Awaits /\ Reaping
  BY DEF Init, Awaits, Reaping
<1>5. Numbered
  BY <1>2 DEF Numbered, Rising, Queued, Upto
<1>6. Carried
  <2>1. Passed = 0
    BY <1>2 DEF Passed
  <2> QED
    BY <1>2, <2>1 DEF Carried, PassedOn, Remains
<1> QED
  BY <1>3, <1>4, <1>5, <1>6 DEF IInv

LEMMA Invariance == Spec => []IInv
<1>1. IInv /\ [Next]_vars => IInv'
  BY TypeStep, MovingStep, ReapingStep, NumberedStep, CarriedStep DEF IInv
<1> QED
  BY <1>1, InitIInv, PTL DEF Spec

\* Every variable keeps its type: the response channel and hyper's keep their
\* bound, whichever way a send() comes to its slot.
THEOREM TypeCorrect == Spec => []TypeOK
<1>1. IInv => TypeOK
  BY DEF IInv
<1> QED
  BY <1>1, Invariance, PTL

\* An application future that has completed is polled once more only after the
\* request has failed before its response began.
THEOREM RepolledOnlyAfterFailure == Spec => []RepollOnlyAfterFailure
<1>1. IInv => RepollOnlyAfterFailure
  BY DEF IInv, Reaping, RepollOnlyAfterFailure
<1> QED
  BY <1>1, Invariance, PTL

\* The response is an ordered stream: what the client gets is a beginning of the
\* body that send() has accepted, through both channels and every blocked send.
THEOREM DeliveredInOrder == Spec => InOrder
<1>1. Init => Stream!Init
  BY DEF Init, Stream!Init
<1>2. ASSUME IInv, [Next]_vars
      PROVE  Stream!Write \/ Stream!Read \/ UNCHANGED <<accepted, delivered>>
  <2>1. TypeOK /\ Awaits /\ Carried
    BY <1>2 DEF IInv
  <2>2. ASSUME NEW e \in Event, Placed(e)
        PROVE  Stream!Write \/ UNCHANGED <<accepted, delivered>>
    <3>1. e.kind \in Data => e.n \in 1..MaxChunks
      BY DEF Event, Kinds, Data
    <3> QED
      BY <2>2, <3>1 DEF Placed, Place, carryVars, clientVars, Stream!Write
  <2>3. CASE Read
    <3>1. /\ wire \in Seq(Chunk) /\ Len(wire) \in Nat /\ Len(delivered) \in Nat
          /\ Len(accepted) \in Nat /\ Passed \in Nat /\ Passed >= Len(delivered) + Len(wire)
      BY <2>1, LenProperties DEF TypeOK, Chunk, Passed
    <3>2. Head(wire) = wire[1] /\ 1 \in 1..Len(wire)
      BY <2>3, <3>1, EmptySeq, HeadTailProperties DEF Read
    <3>3. PassedOn
      BY <2>1, <2>3 DEF Carried, Read
    <3>4. Head(wire) = accepted[Len(delivered) + 1] /\ Len(delivered) < Len(accepted)
      BY <3>1, <3>2, <3>3 DEF PassedOn
    <3> QED
      BY <2>3, <3>4 DEF Read, Stream!Read
  <2> QED
    BY <1>2, <2>1, <2>2, <2>3, Flow
       DEF Held, Discarded, Forwarded, Written, Turned, Left, carryVars, clientVars
<1>3. IInv /\ [Next]_vars => [Stream!Write \/ Stream!Read]_<<accepted, delivered>>
  BY <1>2
<1> QED
  BY <1>1, <1>3, Invariance, PTL DEF Spec, InOrder, Stream!Spec

=============================================================================
