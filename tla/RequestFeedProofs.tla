------------------------- MODULE RequestFeedProofs -------------------------
(***************************************************************************)
(* Proofs about RequestFeed, for any queue size, any body, and any number   *)
(* of feed_step futures that are dropped in the middle.                     *)
(***************************************************************************)
EXTENDS RequestFeed, SequenceLemmas

-----------------------------------------------------------------------------
(* The inductive invariant.                                                 *)

\* The message of a bodyless request is the whole feed until it is received;
\* only a disconnect can have joined it.
OnlyDisconnects ==
    /\ \A i \in 1..Len(puts) : puts[i].msg = Disconnect
    /\ \A i \in 1..Len(queue) : queue[i] = Disconnect
Preseeded ==
    first = End => /\ feeder = "stopped" /\ fed = <<End>> /\ got = <<>>
                   /\ OnlyDisconnects

\* The frame hyper gives next has not been fed.
Numbered == \A k \in 1..Len(fed) : fed[k] < next \/ fed[k] = End

\* What was fed has been received or will be.
Somewhere(n) ==
    \/ first = n
    \/ \E i \in 1..Len(got)   : got[i] = n
    \/ \E i \in 1..Len(queue) : queue[i] = n
    \/ \E i \in 1..Len(puts)  : puts[i].msg = n
InFlight == \A n \in Fed : Somewhere(n)

\* While feed_step may take a frame every put that still waits belongs to a
\* feed_step that was dropped; otherwise one more may wait.
Settled == feeder = "frame" \/ (feeder \in {"chunk", "end"} /\ acked)
Owed    == Waiting <= preempted + (IF Settled THEN 0 ELSE 1)

\* As long as no feed_step was dropped the messages stand in a line: what has
\* been received, then the queue, then the one put that waits.  A disconnect may
\* stand anywhere behind what was received.
Later(s) == \A i, j \in 1..Len(s) : i < j /\ s[i] # Disconnect => s[i] < s[j]
Ahead(m) == m \in Fed /\ \A k \in 1..Len(got) : got[k] < m
LastOne(i) ==
    /\ ~Settled /\ Ahead(puts[i].msg)
    /\ \A k \in 1..Len(queue) : queue[k] # Disconnect => queue[k] < puts[i].msg
    /\ \A j \in 1..Len(puts) : j # i => puts[j].msg = Disconnect
FedInOrder == Later(fed) /\ (End \in Fed => feeder \in {"end", "stopped"})
GotFirst   == Len(got) <= Len(fed) /\ \A k \in 1..Len(got) : got[k] = fed[k]
QueueNext  == /\ Later(queue)
              /\ \A i \in 1..Len(queue) : queue[i] # Disconnect => Ahead(queue[i])
PutLast    == \A i \in 1..Len(puts) : puts[i].msg # Disconnect => LastOne(i)
Lined      == FedInOrder /\ GotFirst /\ QueueNext /\ PutLast
Ordered    == preempted = 0 => Lined

IInv == TypeOK /\ ChunksOnce /\ Preseeded /\ Numbered /\ InFlight /\ Owed /\ Ordered

-----------------------------------------------------------------------------
(* The ways in which a step moves the messages.                             *)

New(m) == [msg |-> m, id |-> Len(fed) + 1, blocked |-> FALSE]

\* feed_step hands over the next frame, or the terminal message.
Feeds(m) ==
    /\ feeder = "frame"
    /\ \/ m = next /\ next <= Chunks /\ next' = next + 1 /\ feeder' = "chunk"
       \/ m = End /\ next' = End /\ feeder' = "end"
    /\ puts' = Append(puts, New(m)) /\ fed' = Append(fed, m) /\ acked' = FALSE
    /\ UNCHANGED <<owner, preempted, queue, refused, appVars>>

\* A disconnect is fed.
Tells ==
    /\ \/ feeder = "chunk" /\ feeder' = "telling"
       \/ feeder' = "stopped"
    /\ owner' \in {owner, "told"}
    /\ puts' = Append(puts, New(Disconnect))
    /\ UNCHANGED <<next, preempted, fed, acked, queue, refused, appVars>>

\* No message moves.
Turns ==
    /\ \/ UNCHANGED <<feeder, preempted>>
       \/ /\ feeder \in {"chunk", "end"} /\ acked
          /\ feeder' = (IF feeder = "chunk" THEN "frame" ELSE "stopped")
          /\ UNCHANGED preempted
       \/ feeder' = "stopped" /\ UNCHANGED preempted
       \/ /\ feeder \in {"chunk", "end", "telling"} /\ feeder' = "frame"
          /\ preempted < MaxPreempted /\ preempted' = preempted + 1
    /\ owner' \in {owner, "quiet"}
    /\ UNCHANGED <<next, loopVars, first, got, told>>
    /\ app' \in {"running", "receiving", "ended"}

\* A put task places its message, gives its disconnect up, or begins to wait.
Lands(i)  == Room /\ Land(i) /\ UNCHANGED <<refused, fed, feedVars, appVars>>
Drops(i)  == /\ puts[i].msg = Disconnect /\ puts' = Without(i) /\ refused' = TRUE
             /\ UNCHANGED <<acked, queue, fed, feedVars, appVars>>
Blocks(i) == /\ puts' = [puts EXCEPT ![i] = [msg |-> @.msg, id |-> @.id, blocked |-> TRUE]]
             /\ UNCHANGED <<refused, acked, queue, fed, feedVars, appVars>>

\* The application gets a message, a disconnect, or the pre-seeded message.
Gets    == /\ queue # <<>> /\ Head(queue) # Disconnect /\ app' = "running"
           /\ got' = Append(got, Head(queue)) /\ queue' = Tail(queue)
           /\ UNCHANGED <<told, first, fed, acked, puts, refused, feedVars>>
Hears   == /\ queue # <<>> /\ Head(queue) = Disconnect /\ app' = "running"
           /\ told' = TRUE /\ queue' = Tail(queue)
           /\ UNCHANGED <<got, first, fed, acked, puts, refused, feedVars>>
Preseed == /\ first = End /\ first' = Nothing /\ got' = Append(got, End)
           /\ UNCHANGED <<app, told, feedVars, loopVars>>

LEMMA Submitted ==
    ASSUME TypeOK, NEW m \in Messages, Submit(<<m>>)
    PROVE  New(m) \in Put /\ puts' = Append(puts, New(m))
<1>1. /\ puts \in Seq(Put) /\ Len(fed) \in Nat
  BY LenProperties DEF TypeOK
<1>2. New(m) \in Put
  BY <1>1 DEF New, Put
<1>3. Len(<<m>>) = 1 /\ <<m>>[1] = m
  OBVIOUS
<1> DEFINE one == [i \in 1..Len(<<m>>) |->
                      [msg |-> <<m>>[i], id |-> Len(fed) + i, blocked |-> FALSE]]
<1>4. /\ <<New(m)>> \in Seq(Put) /\ Len(<<New(m)>>) = 1 /\ <<New(m)>>[1] = New(m)
  BY <1>2
<1>5. one = [i \in 1..1 |-> New(m)]
  <2>1. \A i \in 1..1 : i = 1
    OBVIOUS
  <2>2. \A i \in 1..1 : [msg |-> <<m>>[i], id |-> Len(fed) + i, blocked |-> FALSE] = New(m)
    BY <1>3, <2>1 DEF New
  <2>3. one = [i \in 1..1 |-> [msg |-> <<m>>[i], id |-> Len(fed) + i, blocked |-> FALSE]]
    BY <1>3
  <2> QED
    BY <2>2, <2>3
<1>6. one = <<New(m)>>
  <2>1. [i \in 1..1 |-> New(m)] \in Seq(Put) /\ Len([i \in 1..1 |-> New(m)]) = 1
    BY <1>2
  <2>2. \A i \in 1..1 : [j \in 1..1 |-> New(m)][i] = <<New(m)>>[i]
    BY <1>4
  <2> QED
    BY <1>4, <1>5, <2>1, <2>2, SeqEqual
<1>7. puts' = puts \o <<New(m)>>
  BY <1>6 DEF Submit
<1> QED
  BY <1>1, <1>2, <1>7, AppendIsConcat

LEMMA Flow ==
    ASSUME TypeOK, [Next]_vars
    PROVE  \/ Feeds(next) \/ Feeds(End) \/ Tells \/ Turns
           \/ \E i \in 1..Len(puts) : Lands(i) \/ Drops(i) \/ Blocks(i)
           \/ Gets \/ Hears \/ Preseed
<1>1. next \in Messages /\ End \in Messages /\ Disconnect \in Messages
  BY FeedAssumption DEF TypeOK, Messages, Disconnect, End
<1>2. CASE TakeFrame
  BY <1>1, <1>2, Submitted DEF TakeFrame, Feeds
<1>3. CASE TakeEnd
  BY <1>1, <1>3, Submitted DEF TakeEnd, Feeds
<1>4. CASE PutTimesOut
  BY <1>1, <1>4, Submitted
     DEF PutTimesOut, Tells, Turns, TypeOK, loopVars, appVars
<1>5. CASE OwnerTells \/ OwnerLeaves
  BY <1>1, <1>5, Submitted
     DEF OwnerTells, OwnerLeaves, Tells, Turns, TypeOK, loopVars, appVars
<1>6. CASE PutDone \/ Told \/ Preempted \/ AppEnds \/ UNCHANGED vars
  BY <1>6 DEF PutDone, Told, Preempted, AppEnds, Turns, TypeOK, vars, feedVars,
     loopVars, appVars
<1>7. ASSUME NEW i \in 1..Len(puts), RunPut(i) \/ WakePut(i)
      PROVE  Lands(i) \/ Drops(i) \/ Blocks(i)
  BY <1>7 DEF RunPut, WakePut, Lands, Drops, Blocks
<1>8. CASE Receive
  BY <1>8 DEF Receive, Preseed, Turns, TypeOK, feedVars
<1>9. CASE Get
  BY <1>9 DEF Get, Gets, Hears
<1> QED
  BY <1>2, <1>3, <1>4, <1>5, <1>6, <1>7, <1>8, <1>9 DEF Next, FeedNext, LoopNext

\* When a put task leaves the list the others keep their order.
Was(i, j) == IF j < i THEN j ELSE j + 1

LEMMA Left ==
    ASSUME TypeOK, NEW i \in 1..Len(puts), puts' = Without(i)
    PROVE  /\ Len(puts) \in Nat
           /\ puts' \in Seq(Put) /\ Len(puts') = Len(puts) - 1
           /\ \A j \in 1..Len(puts') :
                 /\ Was(i, j) \in 1..Len(puts) /\ Was(i, j) # i
                 /\ puts'[j] = puts[Was(i, j)]
           /\ \A k \in 1..Len(puts) : k # i => \E j \in 1..Len(puts') : Was(i, j) = k
<1>1. puts \in Seq(Put)
  BY DEF TypeOK
<1>2. /\ puts' \in Seq(Put) /\ Len(puts) \in Nat /\ Len(puts') = Len(puts) - 1
      /\ \A j \in 1..(Len(puts) - 1) :
            puts'[j] = IF j < i THEN puts[j] ELSE puts[j + 1]
  BY <1>1, RemovedItems DEF Without, Removed
<1>3. ASSUME NEW j \in 1..Len(puts')
      PROVE  /\ Was(i, j) \in 1..Len(puts) /\ Was(i, j) # i
             /\ puts'[j] = puts[Was(i, j)]
  BY <1>2 DEF Was
<1>4. ASSUME NEW k \in 1..Len(puts), k # i
      PROVE  \E j \in 1..Len(puts') : Was(i, j) = k
  <2>1. CASE k < i
    BY <1>2, <2>1 DEF Was
  <2>2. CASE k > i
    <3>1. k - 1 \in 1..Len(puts') /\ Was(i, k - 1) = k
      BY <1>2, <2>2 DEF Was
    <3> QED
      BY <3>1
  <2> QED
    BY <1>2, <1>4, <2>1, <2>2
<1> QED
  BY <1>2, <1>3, <1>4

\* A put task that begins to wait keeps its message.
LEMMA Waits ==
    ASSUME TypeOK, NEW i \in 1..Len(puts), Blocks(i)
    PROVE  /\ puts' \in Seq(Put) /\ Len(puts') = Len(puts)
           /\ \A j \in 1..Len(puts) : puts'[j].msg = puts[j].msg
<1> DEFINE p == [msg |-> puts[i].msg, id |-> puts[i].id, blocked |-> TRUE]
<1>1. puts \in Seq(Put) /\ puts[i] \in Put
  BY ElementOfSeq DEF TypeOK
<1>2. p \in Put /\ p.msg = puts[i].msg
  BY <1>1 DEF Put
<1>3. puts' = [puts EXCEPT ![i] = p]
  BY DEF Blocks
<1> HIDE DEF p
<1>4. /\ puts' \in Seq(Put) /\ Len(puts') = Len(puts)
      /\ \A j \in 1..Len(puts) : puts'[j] = IF j = i THEN p ELSE puts[j]
  BY <1>1, <1>2, <1>3, ExceptSeq
<1> QED
  BY <1>2, <1>4

-----------------------------------------------------------------------------
(* The types.                                                               *)

LEMMA TypeStep ==
    ASSUME TypeOK, Preseeded, [Next]_vars
    PROVE  TypeOK'
<1>1. /\ Chunks \in Nat /\ End \in Nat /\ Disconnect = End + 1 /\ End = Chunks + 1
      /\ Messages = 1..(End + 1) /\ MaxPreempted \in Nat /\ QueueBound \in Nat
  BY FeedAssumption DEF End, Disconnect, Messages
<1>2. /\ puts \in Seq(Put) /\ queue \in Seq(Messages) /\ Len(queue) \in Nat
      /\ fed \in Seq(1..End) /\ got \in Seq(1..End) /\ next \in 1..End
      /\ Len(queue) <= QueueBound /\ preempted \in 0..MaxPreempted
  BY LenProperties DEF TypeOK
<1>3. ASSUME NEW m \in 1..End, Feeds(m) PROVE TypeOK'
  <2>1. New(m) \in Put
    BY <1>1, <1>2, LenProperties DEF New, Put
  <2>2. puts' \in Seq(Put) /\ fed' \in Seq(1..End)
    BY <1>2, <1>3, <2>1, AppendProperties DEF Feeds
  <2>3. next' \in 1..End /\ feeder' \in {"chunk", "end"} /\ acked' = FALSE
        /\ UNCHANGED <<owner, preempted, queue, refused, app, first, got, told>>
    BY <1>1, <1>2, <1>3 DEF Feeds, appVars
  <2> QED
    BY <2>2, <2>3 DEF TypeOK
<1>4. CASE Tells
  <2>1. New(Disconnect) \in Put
    BY <1>1, <1>2, LenProperties DEF New, Put
  <2>2. puts' \in Seq(Put)
    BY <1>2, <1>4, <2>1, AppendProperties DEF Tells
  <2>3. owner' \in {"here", "told", "quiet"}
    BY <1>4 DEF Tells, TypeOK
  <2>4. feeder' \in {"telling", "stopped"}
    BY <1>4 DEF Tells
  <2> QED
    BY <1>4, <2>2, <2>3, <2>4 DEF TypeOK, Tells, appVars
<1>5. CASE Turns
  <2>0. owner' \in {"here", "told", "quiet"}
    BY <1>5 DEF Turns, TypeOK
  <2>1. preempted' \in 0..MaxPreempted
    BY <1>1, <1>2, <1>5 DEF Turns
  <2>2. feeder' \in {"frame", "chunk", "end", "telling", "stopped"}
    BY <1>5 DEF Turns, TypeOK
  <2> QED
    BY <1>5, <2>0, <2>1, <2>2 DEF TypeOK, Turns, loopVars
<1>6. ASSUME NEW i \in 1..Len(puts), Lands(i) PROVE TypeOK'
  <2>1. puts[i].msg \in Messages
    <3>1. puts[i] \in Put
      BY <1>2, ElementOfSeq
    <3> QED
      BY <3>1 DEF Put
  <2>2. queue' \in Seq(Messages) /\ Len(queue') <= QueueBound
    BY <1>1, <1>2, <1>6, <2>1, AppendProperties DEF Lands, Land, Room
  <2>3. puts' \in Seq(Put)
    BY <1>6, Left DEF Lands, Land
  <2>4. acked' \in BOOLEAN
    BY <1>6, Zenon DEF Lands, Land
  <2> QED
    BY <1>6, <2>2, <2>3, <2>4 DEF TypeOK, Lands, feedVars, appVars
<1>7. ASSUME NEW i \in 1..Len(puts), Drops(i) \/ Blocks(i) PROVE TypeOK'
  <2>1. puts' \in Seq(Put)
    BY <1>7, Left, Waits DEF Drops
  <2>2. refused' \in BOOLEAN
    BY <1>7, Zenon DEF TypeOK, Drops, Blocks
  <2>3. UNCHANGED <<queue, acked, fed, feedVars, appVars>>
    BY <1>7 DEF Drops, Blocks
  <2> QED
    BY <2>1, <2>2, <2>3 DEF TypeOK, feedVars, appVars
<1>8. CASE Gets \/ Hears
  <2>1. queue # <<>>
    BY <1>8 DEF Gets, Hears
  <2>2. /\ Head(queue) \in Messages /\ queue' \in Seq(Messages)
        /\ Len(queue') = Len(queue) - 1
    BY <1>2, <1>8, <2>1, HeadTailProperties DEF Gets, Hears
  <2>3. got' \in Seq(1..End)
    <3>1. CASE Gets
      <4>1. Head(queue) \in 1..End
        BY <1>1, <2>2, <3>1 DEF Gets
      <4> QED
        BY <1>2, <3>1, <4>1, AppendProperties DEF Gets
    <3> QED
      BY <1>2, <1>8, <3>1 DEF Hears
  <2>4. told' \in BOOLEAN
    BY <1>8, Zenon DEF Gets, Hears, TypeOK
  <2>5. app' = "running" /\ Len(queue') <= QueueBound
    BY <1>1, <1>2, <1>8, <2>2 DEF Gets, Hears
  <2> QED
    BY <1>8, <2>2, <2>3, <2>4, <2>5 DEF TypeOK, Gets, Hears, feedVars
<1>9. CASE Preseed
  <2>1. got' \in Seq(1..End)
    BY <1>1, <1>2, <1>9, AppendProperties DEF Preseed
  <2> QED
    BY <1>9, <2>1 DEF TypeOK, Preseed, feedVars, loopVars
<1>10. next \in 1..End /\ End \in 1..End
  BY <1>1, <1>2
<1> QED
  BY <1>3, <1>4, <1>5, <1>6, <1>7, <1>8, <1>9, <1>10, Flow

-----------------------------------------------------------------------------
(* The memory a request body takes.                                         *)

\* The puts that wait with a part of the body.
Bodies == {p \in Put : p.msg # Disconnect}

LEMMA WaitingCount == TypeOK => Waiting = Count(puts, Bodies) /\ Waiting \in Nat
<1> SUFFICES ASSUME TypeOK PROVE Waiting = Count(puts, Bodies) /\ Waiting \in Nat
  OBVIOUS
<1>1. puts \in Seq(Put) /\ \A i \in 1..Len(puts) : puts[i] \in Put
  BY ElementOfSeq DEF TypeOK
<1>2. {i \in 1..Len(puts) : puts[i].msg # Disconnect} = Places(puts, Bodies)
  BY <1>1 DEF Places, Bodies
<1>3. Count(puts, Bodies) \in Nat
  BY <1>1, CountNatural
<1> QED
  BY <1>2, <1>3 DEF Waiting, Count

LEMMA OwedStep ==
    ASSUME TypeOK, TypeOK', Owed, [Next]_vars
    PROVE  Owed'
<1>1. puts \in Seq(Put) /\ puts' \in Seq(Put) /\ preempted \in Nat
  BY FeedAssumption DEF TypeOK
<1>2. /\ Waiting = Count(puts, Bodies) /\ Waiting \in Nat
      /\ Waiting' = Count(puts', Bodies) /\ Waiting' \in Nat
  <2>1. Waiting' = Count(puts', Bodies) /\ Waiting' \in Nat
    <3>1. \A i \in 1..Len(puts') : puts'[i] \in Put
      BY <1>1, ElementOfSeq
    <3>2. {i \in 1..Len(puts') : puts'[i].msg # Disconnect} = Places(puts', Bodies)
      BY <3>1 DEF Places, Bodies
    <3>3. Count(puts', Bodies) \in Nat
      BY <1>1, CountNatural
    <3> QED
      BY <3>2, <3>3 DEF Waiting, Count
  <2> QED
    BY <2>1, WaitingCount
<1>3. ASSUME NEW m, Feeds(m) PROVE Owed'
  <2>1. m \in Messages
    BY <1>3, FeedAssumption DEF Feeds, TypeOK, Messages, End, Disconnect
  <2>2. New(m) \in Put
    BY <2>1, LenProperties DEF TypeOK, New, Put
  <2>3. Waiting' <= Waiting + 1
    BY <1>1, <1>2, <1>3, <2>2, CountAdded DEF Feeds
  <2>4. Settled /\ ~Settled' /\ preempted' = preempted
    BY <1>3 DEF Feeds, Settled
  <2> QED
    BY <1>1, <1>2, <2>3, <2>4 DEF Owed
<1>4. CASE Tells
  <2>1. New(Disconnect) \in Put /\ New(Disconnect) \notin Bodies
    BY FeedAssumption, LenProperties DEF TypeOK, New, Put, Bodies, Messages, Disconnect
  <2>2. Waiting' = Waiting
    BY <1>1, <1>2, <1>4, <2>1, CountAdded DEF Tells
  <2>3. ~Settled' /\ preempted' = preempted
    BY <1>4 DEF Tells, Settled
  <2> QED
    BY <1>1, <1>2, <2>2, <2>3 DEF Owed
<1>5. CASE Turns
  <2>1. Waiting' = Waiting
    BY <1>5 DEF Turns, Waiting, loopVars
  <2>2. \/ preempted' = preempted /\ (Settled' => Settled)
        \/ preempted' = preempted + 1
    BY <1>5 DEF Turns, Settled, loopVars
  <2> QED
    BY <1>1, <1>2, <2>1, <2>2 DEF Owed
<1>6. ASSUME NEW i \in 1..Len(puts), puts' = Without(i),
             UNCHANGED <<feeder, preempted>>,
             acked' => acked \/ puts[i].msg # Disconnect
      PROVE  Owed'
  <2>1. Waiting = Waiting' + IF puts[i] \in Bodies THEN 1 ELSE 0
    <3>1. puts' = Removed(puts, i)
      BY <1>6 DEF Without, Removed
    <3> QED
      BY <1>1, <1>2, <3>1, CountTaken
  <2>2. puts[i] \in Bodies <=> puts[i].msg # Disconnect
    BY <1>1, ElementOfSeq DEF Bodies
  <2>3. CASE puts[i].msg # Disconnect
    BY <1>1, <1>2, <1>6, <2>1, <2>2, <2>3 DEF Owed
  <2>4. CASE puts[i].msg = Disconnect
    <3>1. Settled' => Settled
      BY <1>6, <2>4 DEF Settled
    <3> QED
      BY <1>1, <1>2, <1>6, <2>1, <2>2, <2>4, <3>1 DEF Owed
  <2> QED
    BY <2>3, <2>4
<1>7. ASSUME NEW i \in 1..Len(puts), Lands(i) \/ Drops(i) PROVE Owed'
  <2>1. puts' = Without(i) /\ UNCHANGED <<feeder, preempted>>
    BY <1>7 DEF Lands, Land, Drops, feedVars
  <2>2. acked' => acked \/ puts[i].msg # Disconnect
    BY <1>7, Zenon DEF Lands, Land, Drops
  <2> QED
    BY <1>6, <2>1, <2>2
<1>8. ASSUME NEW i \in 1..Len(puts), Blocks(i) PROVE Owed'
  <2>1. Waiting' = Waiting
    <3>1. /\ Len(puts') = Len(puts)
          /\ \A j \in 1..Len(puts) : puts'[j].msg = puts[j].msg
      BY <1>8, Waits
    <3> QED
      BY <3>1 DEF Waiting
  <2>2. UNCHANGED <<preempted, feeder, acked>>
    BY <1>8 DEF Blocks, feedVars
  <2> QED
    BY <2>1, <2>2 DEF Owed, Settled
<1>9. CASE Gets \/ Hears \/ Preseed
  <2>1. UNCHANGED <<preempted, feeder, acked, puts>>
    BY <1>9 DEF Gets, Hears, Preseed, feedVars, loopVars
  <2>2. Waiting' = Waiting
    BY <2>1 DEF Waiting
  <2> QED
    BY <2>1, <2>2 DEF Owed, Settled
<1> QED
  BY <1>3, <1>4, <1>5, <1>7, <1>8, <1>9, Flow

-----------------------------------------------------------------------------
(* No chunk is lost, none is repeated.                                      *)

LEMMA PreseededStep ==
    ASSUME TypeOK, Preseeded, [Next]_vars
    PROVE  Preseeded'
<1>0. puts \in Seq(Put) /\ queue \in Seq(Messages) /\ fed \in Seq(1..End)
  BY DEF TypeOK
<1>1. Nothing # End
  BY FeedAssumption DEF Nothing, End
<1>2. CASE \E m \in {next, End} : Feeds(m)
  BY <1>2 DEF Feeds, Preseeded, appVars
<1>3. ASSUME first' = End, Tells PROVE Preseeded'
  <2>1. /\ feeder' = "stopped" /\ UNCHANGED <<fed, got, queue>> /\ OnlyDisconnects
        /\ puts' = Append(puts, New(Disconnect))
    BY <1>3 DEF Tells, Preseeded, appVars
  <2>2. New(Disconnect) \in Put /\ New(Disconnect).msg = Disconnect
    BY <1>0, LenProperties, FeedAssumption DEF New, Put, Messages, Disconnect, End
  <2>3. /\ Len(puts) \in Nat /\ Len(puts') = Len(puts) + 1
        /\ puts'[Len(puts) + 1] = New(Disconnect)
        /\ \A i \in 1..Len(puts) : puts'[i] = puts[i]
    BY <1>0, <2>1, <2>2, AppendProperties, LenProperties
  <2>4. \A i \in 1..Len(puts') : puts'[i].msg = Disconnect
    BY <2>1, <2>2, <2>3 DEF OnlyDisconnects
  <2> QED
    BY <1>3, <2>1, <2>4 DEF Preseeded, OnlyDisconnects, Tells, appVars
<1>4. CASE Turns
  BY <1>4 DEF Turns, Preseeded, OnlyDisconnects, loopVars
<1>5. ASSUME first' = End, NEW i \in 1..Len(puts), Lands(i) \/ Drops(i) \/ Blocks(i)
      PROVE  Preseeded'
  <2>1. UNCHANGED <<feeder, fed, got>> /\ OnlyDisconnects /\ first = End
    BY <1>5 DEF Preseeded, Lands, Drops, Blocks, feedVars, appVars
  <2>2. \A j \in 1..Len(puts') : puts'[j].msg = Disconnect
    <3>1. CASE Lands(i) \/ Drops(i)
      <4>1. puts' = Without(i)
        BY <3>1 DEF Lands, Land, Drops
      <4>2. \A j \in 1..Len(puts') : Was(i, j) \in 1..Len(puts) /\ puts'[j] = puts[Was(i, j)]
        BY <1>5, <4>1, Left
      <4> QED
        BY <2>1, <4>2 DEF OnlyDisconnects
    <3>2. CASE Blocks(i)
      <4>1. /\ Len(puts') = Len(puts)
            /\ \A j \in 1..Len(puts) : puts'[j].msg = puts[j].msg
        BY <1>5, <3>2, Waits
      <4> QED
        BY <2>1, <4>1 DEF OnlyDisconnects
    <3> QED
      BY <1>5, <3>1, <3>2
  <2>3. \A j \in 1..Len(queue') : queue'[j] = Disconnect
    <3>1. CASE Lands(i)
      <4>1. queue' = Append(queue, Disconnect) /\ Disconnect \in Messages
        BY <2>1, <3>1, FeedAssumption
           DEF OnlyDisconnects, Lands, Land, Messages, Disconnect, End
      <4>2. /\ Len(queue) \in Nat /\ Len(queue') = Len(queue) + 1
            /\ queue'[Len(queue) + 1] = Disconnect
            /\ \A j \in 1..Len(queue) : queue'[j] = queue[j]
        BY <1>0, <4>1, AppendProperties, LenProperties
      <4> QED
        BY <2>1, <4>2 DEF OnlyDisconnects
    <3> QED
      BY <1>5, <2>1, <3>1 DEF Drops, Blocks, OnlyDisconnects
  <2> QED
    BY <1>5, <2>1, <2>2, <2>3 DEF Preseeded, OnlyDisconnects, Lands, Drops, Blocks, appVars
<1>6. ASSUME first' = End, Gets \/ Hears PROVE Preseeded'
  <2>1. /\ queue # <<>> /\ queue' = Tail(queue) /\ UNCHANGED <<feeder, fed, puts, first>>
        /\ OnlyDisconnects
    BY <1>6 DEF Gets, Hears, Preseeded, feedVars
  <2>2. Hears
    <3>1. Head(queue) = Disconnect
      BY <1>0, <2>1, EmptySeq, HeadTailProperties DEF OnlyDisconnects
    <3> QED
      BY <1>6, <3>1 DEF Gets
  <2>3. /\ Len(queue) \in Nat /\ Len(queue') = Len(queue) - 1
        /\ \A j \in 1..Len(queue') : queue'[j] = queue[j + 1]
    BY <1>0, <2>1, HeadTailProperties, LenProperties
  <2>4. \A j \in 1..Len(queue') : queue'[j] = Disconnect
    BY <2>1, <2>3 DEF OnlyDisconnects
  <2> QED
    BY <1>6, <2>1, <2>2, <2>4 DEF Preseeded, OnlyDisconnects, Hears
<1>7. CASE Preseed
  BY <1>1, <1>7 DEF Preseed, Preseeded
<1> QED
  BY <1>2, <1>3, <1>4, <1>5, <1>6, <1>7, Flow DEF Preseeded

LEMMA NumberedStep ==
    ASSUME TypeOK, Numbered, [Next]_vars
    PROVE  Numbered'
<1>1. /\ fed \in Seq(1..End) /\ Len(fed) \in Nat /\ next \in 1..End /\ End \in Nat
      /\ \A k \in 1..Len(fed) : fed[k] \in 1..End
  BY LenProperties, ElementOfSeq, FeedAssumption DEF TypeOK, End
<1>2. ASSUME NEW m \in {next, End}, Feeds(m) PROVE Numbered'
  <2>1. /\ fed' = Append(fed, m) /\ m \in 1..End
        /\ \/ m = next /\ next' = next + 1
           \/ m = End /\ next' = End
    BY <1>1, <1>2, FeedAssumption DEF Feeds, End
  <2>2. /\ Len(fed') = Len(fed) + 1 /\ fed'[Len(fed) + 1] = m
        /\ \A k \in 1..Len(fed) : fed'[k] = fed[k]
    BY <1>1, <2>1, AppendProperties
  <2> QED
    BY <1>1, <2>1, <2>2 DEF Numbered
<1>3. CASE UNCHANGED <<fed, next>>
  BY <1>3 DEF Numbered
<1>4. ASSUME NEW i \in 1..Len(puts), Lands(i) \/ Drops(i) \/ Blocks(i)
      PROVE  Numbered'
  BY <1>3, <1>4 DEF Lands, Drops, Blocks, feedVars
<1> QED
  BY <1>2, <1>3, <1>4, Flow DEF Tells, Turns, Gets, Hears, Preseed, loopVars, feedVars

\* What is on its way stays on its way or is received.
LEMMA SomewhereStays ==
    ASSUME TypeOK, [Next]_vars, NEW n \in 1..End, Somewhere(n)
    PROVE  Somewhere(n)'
<1>1. /\ puts \in Seq(Put) /\ queue \in Seq(Messages) /\ got \in Seq(1..End)
      /\ Len(puts) \in Nat /\ Len(queue) \in Nat /\ Len(got) \in Nat
  BY LenProperties DEF TypeOK
<1>2. /\ n # Disconnect /\ n # Nothing /\ n \in Messages
      /\ Disconnect \in Messages /\ End \in 1..End
  BY FeedAssumption DEF End, Disconnect, Nothing, Messages
<1>3. ASSUME NEW p \in Put, puts' = Append(puts, p), UNCHANGED <<first, got, queue>>
      PROVE  Somewhere(n)'
  <2>1. Len(puts') = Len(puts) + 1 /\ \A i \in 1..Len(puts) : puts'[i] = puts[i]
    BY <1>1, <1>3, AppendProperties
  <2> QED
    BY <1>1, <1>3, <2>1 DEF Somewhere
<1>4. ASSUME NEW m \in {next, End, Disconnect} PROVE New(m) \in Put
  <2>1. m \in Messages
    BY FeedAssumption DEF TypeOK, Messages, Disconnect, End
  <2>2. Len(fed) \in Nat
    BY LenProperties DEF TypeOK
  <2> QED
    BY <2>1, <2>2 DEF New, Put
<1>5. CASE Turns
  BY <1>5 DEF Turns, Somewhere, loopVars
<1>6. ASSUME NEW i \in 1..Len(puts), puts' = Without(i), UNCHANGED <<first, got>>,
             UNCHANGED queue \/ queue' = Append(queue, puts[i].msg),
             puts[i].msg = n => queue' = Append(queue, n)
      PROVE  Somewhere(n)'
  <2>1. puts[i] \in Put
    BY <1>1, ElementOfSeq
  <2>2. puts[i].msg \in Messages
    BY <2>1 DEF Put
  <2>3. /\ Len(queue') \in Nat /\ Len(queue') >= Len(queue)
        /\ \A k \in 1..Len(queue) : queue'[k] = queue[k]
        /\ puts[i].msg = n => Len(queue') = Len(queue) + 1 /\ queue'[Len(queue) + 1] = n
    BY <1>1, <1>2, <1>6, <2>2, AppendProperties
  <2>4. ASSUME NEW k \in 1..Len(puts), puts[k].msg = n, k # i
        PROVE  \E j \in 1..Len(puts') : puts'[j].msg = n
    <3>1. PICK j \in 1..Len(puts') : Was(i, j) = k
      BY <1>6, <2>4, Left
    <3>2. puts'[j] = puts[k]
      BY <1>6, <3>1, Left
    <3> QED
      BY <2>4, <3>2
  <2>5. CASE first = n \/ \E k \in 1..Len(got) : got[k] = n
    BY <1>6, <2>5 DEF Somewhere
  <2>6. CASE (\E k \in 1..Len(queue) : queue[k] = n) \/ puts[i].msg = n
    <3>1. \E k \in 1..Len(queue') : queue'[k] = n
      BY <1>1, <2>3, <2>6
    <3> QED
      BY <3>1 DEF Somewhere
  <2>7. CASE \E k \in 1..Len(puts) : puts[k].msg = n /\ k # i
    <3>1. \E j \in 1..Len(puts') : puts'[j].msg = n
      BY <2>4, <2>7
    <3> QED
      BY <3>1 DEF Somewhere
  <2> QED
    BY <2>5, <2>6, <2>7 DEF Somewhere
<1>7. ASSUME NEW i \in 1..Len(puts), Lands(i) \/ Drops(i) PROVE Somewhere(n)'
  BY <1>2, <1>6, <1>7 DEF Lands, Land, Drops, appVars
<1>8. ASSUME NEW i \in 1..Len(puts), Blocks(i) PROVE Somewhere(n)'
  <2>1. Len(puts') = Len(puts) /\ \A j \in 1..Len(puts) : puts'[j].msg = puts[j].msg
    BY <1>8, Waits
  <2> QED
    BY <1>8, <2>1 DEF Somewhere, Blocks, appVars
<1>9. CASE Gets \/ Hears
  <2>1. queue # <<>> /\ queue' = Tail(queue) /\ UNCHANGED <<first, puts>>
    BY <1>9 DEF Gets, Hears
  <2>2. /\ Head(queue) = queue[1] /\ Len(queue') = Len(queue) - 1
        /\ \A i \in 1..Len(queue') : queue'[i] = queue[i + 1]
        /\ Head(queue) \in Messages
    BY <1>1, <2>1, HeadTailProperties
  <2>3. /\ Len(got') \in Nat /\ Len(got') >= Len(got)
        /\ \A i \in 1..Len(got) : got'[i] = got[i]
        /\ queue[1] = n => \E i \in 1..Len(got') : got'[i] = n
    <3>1. CASE Gets
      <4>1. Head(queue) \in 1..End
        BY <2>2, <3>1, FeedAssumption DEF Gets, Messages, Disconnect, End
      <4>2. /\ Len(got') = Len(got) + 1 /\ got'[Len(got) + 1] = queue[1]
            /\ \A i \in 1..Len(got) : got'[i] = got[i]
        BY <1>1, <2>2, <3>1, <4>1, AppendProperties DEF Gets
      <4> QED
        BY <1>1, <4>2
    <3>2. CASE Hears
      BY <1>1, <1>2, <2>2, <3>2 DEF Hears
    <3> QED
      BY <1>9, <3>1, <3>2
  <2>4. ASSUME NEW k \in 1..Len(queue), queue[k] = n, k # 1
        PROVE  \E i \in 1..Len(queue') : queue'[i] = n
    <3>1. k - 1 \in 1..Len(queue') /\ (k - 1) + 1 = k
      BY <1>1, <2>2, <2>4
    <3> QED
      BY <2>2, <2>4, <3>1
  <2>5. CASE first = n \/ \E k \in 1..Len(puts) : puts[k].msg = n
    BY <2>1, <2>5 DEF Somewhere
  <2>6. CASE (\E k \in 1..Len(got) : got[k] = n) \/ queue[1] = n
    <3>1. \E k \in 1..Len(got') : got'[k] = n
      BY <1>1, <2>3, <2>6
    <3> QED
      BY <3>1 DEF Somewhere
  <2>7. CASE \E k \in 1..Len(queue) : queue[k] = n /\ k # 1
    <3>1. \E k \in 1..Len(queue') : queue'[k] = n
      BY <2>4, <2>7
    <3> QED
      BY <3>1 DEF Somewhere
  <2> QED
    BY <2>5, <2>6, <2>7 DEF Somewhere
<1>10. CASE Preseed
  <2>1. /\ Len(got') = Len(got) + 1 /\ got'[Len(got) + 1] = End
        /\ \A i \in 1..Len(got) : got'[i] = got[i]
    BY <1>1, <1>2, <1>10, AppendProperties DEF Preseed
  <2> QED
    BY <1>1, <1>10, <2>1 DEF Preseed, Somewhere, loopVars
<1>11. CASE \E m \in {next, End} : Feeds(m)
  BY <1>3, <1>4, <1>11 DEF Feeds, appVars
<1>12. CASE Tells
  BY <1>3, <1>4, <1>12 DEF Tells, appVars
<1> QED
  BY <1>5, <1>7, <1>8, <1>9, <1>10, <1>11, <1>12, Flow

\* Only feed_step adds to the feed.
LEMMA FedGrows ==
    ASSUME TypeOK, [Next]_vars
    PROVE  /\ \A m \in {next, End} : Feeds(m) => m \in 1..End /\ Fed' = Fed \cup {m}
           /\ UNCHANGED fed \/ \E m \in {next, End} : Feeds(m)
<1>1. fed \in Seq(1..End) /\ Len(fed) \in Nat /\ next \in 1..End /\ End \in 1..End
  BY LenProperties, FeedAssumption DEF TypeOK, End
<1>2. ASSUME NEW m \in {next, End}, Feeds(m) PROVE m \in 1..End /\ Fed' = Fed \cup {m}
  <2>1. /\ Len(fed') = Len(fed) + 1 /\ fed'[Len(fed) + 1] = m
        /\ \A k \in 1..Len(fed) : fed'[k] = fed[k]
    BY <1>1, <1>2, AppendProperties DEF Feeds
  <2>2. 1..Len(fed') = 1..Len(fed) \cup {Len(fed) + 1}
    BY <1>1, <2>1, LastPlace
  <2>3. ASSUME NEW k \in 1..Len(fed') PROVE fed'[k] \in Fed \cup {m}
    <3>1. CASE k \in 1..Len(fed)
      BY <2>1, <3>1 DEF Fed
    <3>2. CASE k = Len(fed) + 1
      BY <2>1, <3>2
    <3> QED
      BY <2>2, <3>1, <3>2
  <2>4. ASSUME NEW k \in 1..Len(fed) PROVE fed[k] \in Fed'
    <3>1. k \in 1..Len(fed') /\ fed'[k] = fed[k]
      BY <2>1, <2>2
    <3> QED
      BY <3>1 DEF Fed
  <2>5. m \in Fed'
    <3>1. Len(fed) + 1 \in 1..Len(fed')
      BY <2>2
    <3> QED
      BY <2>1, <3>1 DEF Fed
  <2>6. Fed' \subseteq Fed \cup {m}
    BY <2>3 DEF Fed
  <2>7. Fed \subseteq Fed'
    BY <2>4 DEF Fed
  <2>8. m \in 1..End
    BY <1>1
  <2> QED
    BY <2>5, <2>6, <2>7, <2>8
<1>3. UNCHANGED fed \/ \E m \in {next, End} : Feeds(m)
  BY Flow DEF Tells, Turns, Lands, Drops, Blocks, Gets, Hears, Preseed, loopVars
<1> QED
  BY <1>2, <1>3

LEMMA InFlightStep ==
    ASSUME TypeOK, InFlight, [Next]_vars
    PROVE  InFlight'
<1>1. ASSUME NEW n \in Fed PROVE Somewhere(n)'
  <2>1. fed \in Seq(1..End)
    BY DEF TypeOK
  <2>2. n \in 1..End
    BY <2>1, ElementOfSeq DEF Fed
  <2> QED
    BY <2>2, SomewhereStays DEF InFlight
<1>2. ASSUME NEW m \in {next, End}, Feeds(m) PROVE Somewhere(m)'
  <2>1. m \in Messages /\ Len(fed) \in Nat
    BY LenProperties, FeedAssumption DEF TypeOK, Messages, Disconnect, End
  <2>2. New(m) \in Put /\ New(m).msg = m
    BY <2>1 DEF New, Put
  <2>3. /\ Len(puts) \in Nat /\ Len(puts') = Len(puts) + 1
        /\ puts'[Len(puts) + 1] = New(m)
    BY <1>2, <2>2, AppendProperties, LenProperties DEF Feeds, TypeOK
  <2>4. \E i \in 1..Len(puts') : puts'[i].msg = m
    BY <2>2, <2>3
  <2> QED
    BY <2>4 DEF Somewhere
<1>3. CASE UNCHANGED fed
  BY <1>1, <1>3 DEF InFlight, Fed
<1>4. CASE \E m \in {next, End} : Feeds(m)
  BY <1>1, <1>2, <1>4, FedGrows DEF InFlight
<1> QED
  BY <1>3, <1>4, FedGrows

OfMessage(n) == {p \in Put : p.msg = n}

LEMMA CopiesCount ==
    ASSUME NEW g \in Seq(1..End), NEW q \in Seq(Messages), NEW p \in Seq(Put), NEW n
    PROVE  /\ Cardinality({i \in 1..Len(g) : g[i] = n}) = Count(g, {n})
           /\ Cardinality({i \in 1..Len(q) : q[i] = n}) = Count(q, {n})
           /\ Cardinality({i \in 1..Len(p) : p[i].msg = n}) = Count(p, OfMessage(n))
           /\ Count(g, {n}) \in Nat /\ Count(q, {n}) \in Nat
           /\ Count(p, OfMessage(n)) \in Nat
<1>1. /\ Count(g, {n}) \in Nat /\ Count(q, {n}) \in Nat
      /\ Count(p, OfMessage(n)) \in Nat
  BY CountNatural
<1>2. \A i \in 1..Len(p) : p[i] \in Put
  BY ElementOfSeq
<1>3. {i \in 1..Len(p) : p[i].msg = n} = Places(p, OfMessage(n))
  BY <1>2 DEF Places, OfMessage
<1>4. /\ {i \in 1..Len(g) : g[i] = n} = Places(g, {n})
      /\ {i \in 1..Len(q) : q[i] = n} = Places(q, {n})
  BY DEF Places
<1> QED
  BY <1>1, <1>3, <1>4 DEF Count

LEMMA OnceStep ==
    ASSUME TypeOK, TypeOK', Numbered, ChunksOnce, [Next]_vars
    PROVE  ChunksOnce'
<1> SUFFICES ASSUME NEW n \in 1..Chunks
             PROVE  Copies(n)' = IF n \in Fed' THEN 1 ELSE 0
  BY DEF ChunksOnce
<1> DEFINE g == Count(got, {n})
           q == Count(queue, {n})
           p == Count(puts, OfMessage(n))
<1>1. /\ puts \in Seq(Put) /\ queue \in Seq(Messages) /\ got \in Seq(1..End)
      /\ puts' \in Seq(Put) /\ queue' \in Seq(Messages) /\ got' \in Seq(1..End)
  BY DEF TypeOK
<1>2. /\ Copies(n) = g + q + p /\ Copies(n)' = g' + q' + p'
      /\ g \in Nat /\ q \in Nat /\ p \in Nat /\ g' \in Nat /\ q' \in Nat /\ p' \in Nat
  <2>1. Copies(n) = g + q + p /\ g \in Nat /\ q \in Nat /\ p \in Nat
    BY <1>1, CopiesCount DEF Copies
  <2>2. Copies(n)' = g' + q' + p' /\ g' \in Nat /\ q' \in Nat /\ p' \in Nat
    BY <1>1, CopiesCount DEF Copies
  <2> QED
    BY <2>1, <2>2
<1>3. Copies(n) = IF n \in Fed THEN 1 ELSE 0
  BY DEF ChunksOnce
<1>4. n # End /\ n # Disconnect /\ n \in Messages /\ n \in 1..End /\ End \in 1..End
  BY FeedAssumption DEF End, Disconnect, Messages
<1> HIDE DEF g, q, p
<1>5. ASSUME NEW m \in {next, End}, Feeds(m)
      PROVE  Copies(n)' = IF n \in Fed' THEN 1 ELSE 0
  <2>1. /\ m \in Messages /\ Len(fed) \in Nat
    BY LenProperties, FeedAssumption DEF TypeOK, Messages, Disconnect, End
  <2>2. New(m) \in Put /\ (New(m) \in OfMessage(n) <=> m = n)
    BY <2>1 DEF New, Put, OfMessage
  <2>3. p' = p + IF m = n THEN 1 ELSE 0
    BY <1>1, <1>5, <2>2, CountAdded DEF Feeds, p
  <2>4. g' = g /\ q' = q
    BY <1>5 DEF Feeds, appVars, g, q
  <2>5. Fed' = Fed \cup {m}
    BY <1>5, FedGrows
  <2>6. m = n => n \notin Fed
    <3>1. m = n => n = next /\ next \in Nat
      BY <1>4, FeedAssumption DEF TypeOK, End
    <3>2. \A k \in 1..Len(fed) : fed[k] < next \/ fed[k] = End
      BY DEF Numbered
    <3> QED
      BY <1>4, <3>1, <3>2 DEF Fed
  <2> QED
    BY <1>2, <1>3, <2>3, <2>4, <2>5, <2>6
<1>6. CASE UNCHANGED fed /\ g' + q' + p' = g + q + p
  BY <1>2, <1>3, <1>6 DEF Fed
<1>7. CASE Tells
  <2>1. Disconnect \in Messages /\ Len(fed) \in Nat
    BY LenProperties, FeedAssumption DEF TypeOK, Messages, Disconnect
  <2>2. New(Disconnect) \in Put /\ New(Disconnect) \notin OfMessage(n)
    BY <1>4, <2>1 DEF New, Put, OfMessage
  <2>3. p' = p
    <3>1. Count(Append(puts, New(Disconnect)), OfMessage(n)) = Count(puts, OfMessage(n)) + 0
      BY <1>1, <2>2, CountAdded
    <3>2. p' = Count(puts, OfMessage(n)) + 0
      BY <1>7, <3>1 DEF Tells, p
    <3> QED
      BY <1>2, <3>2 DEF p
  <2>4. g' = g /\ q' = q /\ UNCHANGED fed
    BY <1>7 DEF Tells, appVars, g, q
  <2> QED
    BY <1>6, <2>3, <2>4
<1>8. CASE Turns
  BY <1>6, <1>8 DEF Turns, loopVars, g, q, p
<1>9. ASSUME NEW i \in 1..Len(puts), Lands(i) \/ Drops(i)
      PROVE  UNCHANGED fed /\ g' + q' + p' = g + q + p
  <2>1. puts[i] \in Put
    BY <1>1, ElementOfSeq
  <2>2. puts[i].msg \in Messages /\ (puts[i] \in OfMessage(n) <=> puts[i].msg = n)
    BY <2>1 DEF Put, OfMessage
  <2>3. puts' = Removed(puts, i)
    BY <1>9 DEF Lands, Land, Drops, Without, Removed
  <2>4. p = p' + IF puts[i].msg = n THEN 1 ELSE 0
    BY <1>1, <2>2, <2>3, CountTaken DEF p
  <2>5. q' = q + IF puts[i].msg = n THEN 1 ELSE 0
    <3>1. CASE Lands(i)
      BY <1>1, <2>2, <3>1, CountAdded DEF Lands, Land, q
    <3>2. CASE Drops(i)
      BY <1>2, <1>4, <3>2 DEF Drops, q
    <3> QED
      BY <1>9, <3>1, <3>2
  <2>6. g' = g /\ UNCHANGED fed
    BY <1>9 DEF Lands, Drops, appVars, g
  <2> QED
    BY <1>2, <2>4, <2>5, <2>6
<1>10. ASSUME NEW i \in 1..Len(puts), Blocks(i)
       PROVE  UNCHANGED fed /\ g' + q' + p' = g + q + p
  <2>1. Len(puts') = Len(puts) /\ \A j \in 1..Len(puts) : puts'[j].msg = puts[j].msg
    BY <1>10, Waits
  <2>2. {j \in 1..Len(puts') : puts'[j].msg = n} = {j \in 1..Len(puts) : puts[j].msg = n}
    BY <2>1
  <2>3. p' = p
    <3>1. p = Cardinality({j \in 1..Len(puts) : puts[j].msg = n})
      BY <1>1, CopiesCount DEF p
    <3>2. p' = Cardinality({j \in 1..Len(puts') : puts'[j].msg = n})
      BY <1>1, CopiesCount DEF p
    <3> QED
      BY <2>2, <3>1, <3>2
  <2>4. g' = g /\ q' = q /\ UNCHANGED fed
    BY <1>10 DEF Blocks, appVars, g, q
  <2> QED
    BY <2>3, <2>4
<1>11. CASE Gets \/ Hears
  <2>1. queue # <<>> /\ queue' = Tail(queue) /\ UNCHANGED <<fed, puts>>
    BY <1>11 DEF Gets, Hears
  <2>2. q = q' + IF Head(queue) = n THEN 1 ELSE 0
    BY <1>1, <2>1, CountHead DEF q
  <2>3. g' = g + IF Head(queue) = n THEN 1 ELSE 0
    <3>1. CASE Gets
      <4>1. Head(queue) \in 1..End
        <5>1. Head(queue) \in Messages
          BY <1>1, <2>1, HeadTailProperties
        <5> QED
          BY <3>1, <5>1, FeedAssumption DEF Gets, Messages, Disconnect, End
      <4>2. ASSUME NEW S, NEW s \in Seq(S), NEW h \in S
            PROVE  Count(Append(s, h), {n}) = Count(s, {n}) + IF h = n THEN 1 ELSE 0
        BY CountAdded
      <4>3. Count(Append(got, Head(queue)), {n})
              = Count(got, {n}) + IF Head(queue) = n THEN 1 ELSE 0
        BY <1>1, <4>1, <4>2, Zenon
      <4> QED
        BY <3>1, <4>3 DEF Gets, g
    <3>2. CASE Hears
      BY <1>2, <1>4, <3>2 DEF Hears, g
    <3> QED
      BY <1>11, <3>1, <3>2
  <2>4. p' = p
    BY <2>1 DEF p
  <2>5. g' + q' + p' = g + q + p
    <3>1. CASE Head(queue) = n
      BY <1>2, <2>2, <2>3, <2>4, <3>1
    <3>2. CASE Head(queue) # n
      BY <1>2, <2>2, <2>3, <2>4, <3>2
    <3> QED
      BY <3>1, <3>2
  <2> QED
    BY <1>6, <2>1, <2>5
<1>12. CASE Preseed
  <2>1. g' = g + IF End = n THEN 1 ELSE 0
    <3>1. got \in Seq(1..End) /\ End \in 1..End /\ got' = Append(got, End)
      BY <1>1, <1>4, <1>12 DEF Preseed
    <3>2. ASSUME NEW S, NEW s \in Seq(S), NEW h \in S
          PROVE  Count(Append(s, h), {n}) = Count(s, {n}) + IF h = n THEN 1 ELSE 0
      BY CountAdded
    <3>3. Count(Append(got, End), {n}) = Count(got, {n}) + IF End = n THEN 1 ELSE 0
      BY <3>1, <3>2, Zenon
    <3> QED
      BY <3>1, <3>3 DEF g
  <2>2. q' = q /\ p' = p /\ UNCHANGED fed
    BY <1>12 DEF Preseed, loopVars, q, p
  <2> QED
    BY <1>2, <1>4, <1>6, <2>1, <2>2
<1> QED
  BY <1>5, <1>6, <1>7, <1>8, <1>9, <1>10, <1>11, <1>12, Flow

-----------------------------------------------------------------------------
(* The order of the messages.                                               *)

\* What the application gets while no feed_step was dropped is the message of the
\* feed that follows those it has: every other message still stands behind it.
LEMMA NextInLine ==
    ASSUME TypeOK, Preseeded, InFlight, Lined, queue # <<>>, queue[1] # Disconnect
    PROVE  /\ queue[1] \in 1..End
           /\ Len(got) < Len(fed) /\ queue[1] = fed[Len(got) + 1]
<1>1. /\ queue \in Seq(Messages) /\ Len(queue) \in Nat /\ 1 \in 1..Len(queue)
      /\ Len(got) \in Nat /\ Len(fed) \in Nat
      /\ \A k \in 1..Len(fed) : fed[k] \in 1..End
      /\ End \in Nat /\ Disconnect = End + 1
  BY EmptySeq, LenProperties, ElementOfSeq, FeedAssumption DEF TypeOK, End, Disconnect
<1>2. Ahead(queue[1])
  BY <1>1 DEF Lined, QueueNext
<1>3. PICK k \in 1..Len(fed) : fed[k] = queue[1]
  BY <1>2 DEF Ahead, Fed
<1>4. k > Len(got)
  <2> SUFFICES ASSUME k <= Len(got) PROVE FALSE
    BY <1>1
  <2>1. got[k] = fed[k] /\ got[k] < queue[1]
    BY <1>1, <1>2 DEF Lined, GotFirst, Ahead
  <2> QED
    BY <2>1, <1>1, <1>3
<1>5. k = Len(got) + 1
  <2> DEFINE g == Len(got) + 1
  <2> SUFFICES ASSUME g # k PROVE FALSE
    OBVIOUS
  <2>1. g \in 1..Len(fed) /\ g < k
    BY <1>1, <1>4
  <2>2. fed[g] < queue[1] /\ fed[g] \in 1..End
    BY <2>1, <1>1, <1>3 DEF Lined, FedInOrder, Later
  <2>3. first # fed[g]
    <3>1. first # End
      BY <1>1 DEF Preseeded, OnlyDisconnects
    <3>2. first = 0
      BY <3>1 DEF TypeOK, Nothing
    <3> QED
      BY <2>2, <3>2
  <2>4. ~ \E i \in 1..Len(got) : got[i] = fed[g]
    <3> SUFFICES ASSUME NEW i \in 1..Len(got), got[i] = fed[g] PROVE FALSE
      OBVIOUS
    <3>1. i \in 1..Len(fed) /\ i < g /\ got[i] = fed[i]
      BY <1>1, <2>1 DEF Lined, GotFirst
    <3>2. fed[i] # Disconnect /\ Later(fed)
      BY <3>1, <1>1 DEF Lined, FedInOrder
    <3>3. fed[i] < fed[g]
      BY <3>1, <3>2, <2>1 DEF Later
    <3> QED
      BY <3>1, <3>3, <1>1, <2>1
  <2>5. ~ \E i \in 1..Len(queue) : queue[i] = fed[g]
    <3> SUFFICES ASSUME NEW i \in 1..Len(queue), queue[i] = fed[g] PROVE FALSE
      OBVIOUS
    <3>1. i # 1 => queue[1] < queue[i]
      BY <1>1 DEF Lined, QueueNext, Later
    <3> QED
      BY <3>1, <1>1, <1>3, <2>2
  <2>6. ~ \E i \in 1..Len(puts) : puts[i].msg = fed[g]
    <3> SUFFICES ASSUME NEW i \in 1..Len(puts), puts[i].msg = fed[g] PROVE FALSE
      OBVIOUS
    <3>0. puts[i].msg # Disconnect
      BY <1>1, <2>2
    <3>1. queue[1] < puts[i].msg
      <4>1. LastOne(i)
        BY <3>0 DEF Lined, PutLast
      <4> QED
        BY <1>1, <4>1 DEF LastOne
    <3> QED
      BY <3>1, <1>1, <1>3, <2>2
  <2>7. Somewhere(fed[g])
    BY <2>1 DEF InFlight, Fed
  <2> QED
    BY <2>3, <2>4, <2>5, <2>6, <2>7 DEF Somewhere
<1> QED
  BY <1>1, <1>3, <1>4, <1>5

LEMMA LinedFeeds ==
    ASSUME TypeOK, Numbered, Lined, [Next]_vars, NEW m \in {next, End}, Feeds(m)
    PROVE  Lined' /\ End \notin Fed
<1>1. /\ fed \in Seq(1..End) /\ puts \in Seq(Put)
      /\ Len(fed) \in Nat /\ Len(got) \in Nat /\ Len(puts) \in Nat /\ Len(queue) \in Nat
      /\ \A k \in 1..Len(fed) : fed[k] \in 1..End
      /\ Chunks \in Nat /\ End = Chunks + 1 /\ Disconnect = End + 1
      /\ Messages = 1..Disconnect /\ next \in 1..End
  BY LenProperties, ElementOfSeq, FeedAssumption
     DEF TypeOK, End, Disconnect, Messages
<1>2. End \notin Fed
  BY DEF Feeds, Lined, FedInOrder
<1>3. /\ m \in 1..End /\ m \in Messages /\ m # Disconnect
      /\ \A k \in 1..Len(fed) : fed[k] < m
  <2>1. \A k \in 1..Len(fed) : fed[k] < next
    BY <1>2 DEF Numbered, Fed
  <2> QED
    BY <2>1, <1>1
<1>4. /\ Len(fed') = Len(fed) + 1 /\ fed'[Len(fed) + 1] = m
      /\ \A k \in 1..Len(fed) : fed'[k] = fed[k]
  BY <1>1, <1>3, AppendProperties DEF Feeds
<1>5. Fed' = Fed \cup {m}
  BY FedGrows
<1>6. \A x \in Fed : x < m
  BY <1>3 DEF Fed
<1>7. UNCHANGED <<got, queue>> /\ feeder = "frame" /\ feeder' \in {"chunk", "end"} /\ acked' = FALSE
  BY DEF Feeds, appVars
<1>8. FedInOrder'
  <2>1. Later(fed')
    <3> SUFFICES ASSUME NEW i \in 1..Len(fed'), NEW j \in 1..Len(fed'), i < j
                 PROVE  fed'[i] < fed'[j]
      BY DEF Later
    <3>1. i \in 1..Len(fed) /\ fed'[i] = fed[i] /\ fed[i] # Disconnect
      BY <1>1, <1>4
    <3>2. j \in 1..Len(fed) \/ j = Len(fed) + 1
      <4>1. 1..Len(fed') = 1..Len(fed) \cup {Len(fed) + 1}
        BY <1>1, <1>4, LastPlace
      <4> QED
        BY <4>1
    <3>3. CASE j \in 1..Len(fed)
      BY <1>4, <3>1, <3>3 DEF Lined, FedInOrder, Later
    <3>4. CASE j = Len(fed) + 1
      BY <1>3, <1>4, <3>1, <3>4
    <3> QED
      BY <3>2, <3>3, <3>4
  <2>2. End \in Fed' => feeder' \in {"end", "stopped"}
    BY <1>1, <1>2, <1>5 DEF Feeds
  <2> QED
    BY <2>1, <2>2 DEF FedInOrder
<1>9. GotFirst'
  BY <1>1, <1>4, <1>7 DEF Lined, GotFirst
<1>10. QueueNext'
  <2>1. Later(queue')
    BY <1>7 DEF Lined, QueueNext
  <2> QED
    BY <1>5, <1>7, <2>1 DEF Lined, QueueNext, Ahead
<1>11. PutLast'
  <2>1. New(m) \in Put /\ New(m).msg = m
    BY <1>1, <1>3 DEF New, Put
  <2>2. /\ Len(puts') = Len(puts) + 1 /\ puts'[Len(puts) + 1] = New(m)
        /\ \A i \in 1..Len(puts) : puts'[i] = puts[i]
    BY <1>1, <2>1, AppendProperties DEF Feeds
  <2>3. \A i \in 1..Len(puts) : puts[i].msg = Disconnect
    BY <1>7 DEF Lined, PutLast, LastOne, Settled
  <2>4. ASSUME NEW i \in 1..Len(puts'), puts'[i].msg # Disconnect PROVE LastOne(i)'
    <3>0. /\ \A j \in 1..Len(puts') : j \in 1..Len(puts) \/ j = Len(puts) + 1
          /\ \A j \in 1..Len(puts) : puts'[j].msg = Disconnect
      <4>1. 1..Len(puts') = 1..Len(puts) \cup {Len(puts) + 1}
        BY <1>1, <2>2, LastPlace
      <4>2. \A j \in 1..Len(puts') : j \in 1..Len(puts) \/ j = Len(puts) + 1
        BY <4>1
      <4>3. \A j \in 1..Len(puts) : puts'[j].msg = Disconnect
        BY <2>2, <2>3
      <4> QED
        BY <4>2, <4>3
    <3>1. i = Len(puts) + 1 /\ puts'[i].msg = m
      BY <2>1, <2>2, <2>4, <3>0
    <3>2. \A j \in 1..Len(puts') : j # i => puts'[j].msg = Disconnect
      BY <3>0, <3>1
    <3>3. ~Settled'
      BY <1>7 DEF Settled
    <3>4. Ahead(puts[i].msg)'
      <4>1. m \in Fed'
        BY <1>5
      <4>2. \A k \in 1..Len(got) : got[k] < m
        BY <1>1, <1>3 DEF Lined, GotFirst
      <4> QED
        BY <1>7, <3>1, <4>1, <4>2 DEF Ahead
    <3>5. \A k \in 1..Len(queue') : queue'[k] # Disconnect => queue'[k] < puts'[i].msg
      BY <1>6, <1>7, <3>1 DEF Lined, QueueNext, Ahead
    <3> QED
      BY <3>2, <3>3, <3>4, <3>5 DEF LastOne
  <2> QED
    BY <2>4 DEF PutLast
<1> QED
  BY <1>2, <1>8, <1>9, <1>10, <1>11 DEF Lined

LEMMA LinedTells ==
    ASSUME TypeOK, Lined, Tells
    PROVE  Lined'
<1>1. /\ puts \in Seq(Put) /\ Len(puts) \in Nat /\ Len(fed) \in Nat
      /\ Disconnect \in Messages
  BY LenProperties, FeedAssumption DEF TypeOK, Disconnect, Messages
<1>2. New(Disconnect) \in Put /\ New(Disconnect).msg = Disconnect
  BY <1>1 DEF New, Put
<1>3. /\ Len(puts') = Len(puts) + 1 /\ puts'[Len(puts) + 1].msg = Disconnect
      /\ \A i \in 1..Len(puts) : puts'[i] = puts[i]
  BY <1>1, <1>2, AppendProperties DEF Tells
<1>4. UNCHANGED <<fed, got, queue>> /\ Fed' = Fed
  BY DEF Tells, appVars, Fed
<1>5. FedInOrder' /\ GotFirst' /\ QueueNext'
  <2>1. FedInOrder'
    BY <1>4 DEF Lined, FedInOrder, Later, Tells
  <2> QED
    BY <1>4, <2>1 DEF Lined, GotFirst, QueueNext, Ahead, Later
<1>6. PutLast'
  <2> SUFFICES ASSUME NEW i \in 1..Len(puts'), puts'[i].msg # Disconnect
               PROVE  LastOne(i)'
    BY DEF PutLast
  <2>1. i \in 1..Len(puts) /\ puts'[i] = puts[i]
    BY <1>1, <1>3
  <2>2. LastOne(i)
    BY <2>1 DEF Lined, PutLast
  <2>3. \A j \in 1..Len(puts') : j # i => puts'[j].msg = Disconnect
    BY <1>1, <1>3, <2>2 DEF LastOne
  <2>4. ~Settled'
    BY DEF Tells, Settled
  <2> QED
    BY <1>4, <2>1, <2>2, <2>3, <2>4 DEF LastOne, Ahead
<1> QED
  BY <1>5, <1>6 DEF Lined

LEMMA LinedTurns ==
    ASSUME TypeOK, Lined, Turns, UNCHANGED preempted
    PROVE  Lined'
<1>1. UNCHANGED <<fed, got, queue, puts, acked>> /\ Fed' = Fed
  BY DEF Turns, loopVars, Fed
<1>2. FedInOrder' /\ GotFirst' /\ QueueNext'
  <2>1. FedInOrder'
    <3>1. End \in Fed => feeder' \in {"end", "stopped"}
      BY DEF Lined, FedInOrder, Turns, TypeOK
    <3> QED
      BY <1>1, <3>1 DEF Lined, FedInOrder, Later
  <2> QED
    BY <1>1, <2>1 DEF Lined, GotFirst, QueueNext, Ahead, Later
<1>3. ~Settled => ~Settled'
  BY <1>1 DEF Turns, Settled, TypeOK
<1>4. PutLast'
  BY <1>1, <1>3 DEF Lined, PutLast, LastOne, Ahead
<1> QED
  BY <1>2, <1>4 DEF Lined

\* A put that is gone was the last of the line, or a disconnect.
LEMMA LinedLeaves ==
    ASSUME TypeOK, Lined, NEW i \in 1..Len(puts), Lands(i) \/ Drops(i)
    PROVE  Lined'
<1>1. /\ puts' = Without(i) /\ UNCHANGED <<fed, got, feeder>> /\ Fed' = Fed
      /\ Lands(i) => queue' = Append(queue, puts[i].msg)
      /\ Drops(i) => puts[i].msg = Disconnect /\ queue' = queue
  BY DEF Lands, Land, Drops, feedVars, appVars, Fed
<1>2. /\ queue \in Seq(Messages) /\ Len(queue) \in Nat
      /\ \A k \in 1..Len(queue) : queue[k] \in Messages
      /\ Messages \subseteq Nat /\ \A m \in Messages : m # Disconnect => m < Disconnect
      /\ puts \in Seq(Put)
  BY LenProperties, ElementOfSeq, FeedAssumption DEF TypeOK, Messages, Disconnect
<1>3. puts[i].msg \in Messages
  <2>1. puts[i] \in Put
    BY <1>2, ElementOfSeq
  <2> QED
    BY <2>1 DEF Put
<1>4. puts[i].msg # Disconnect => LastOne(i)
  BY DEF Lined, PutLast
<1>5. FedInOrder' /\ GotFirst'
  BY <1>1 DEF Lined, FedInOrder, GotFirst, Later
<1>6. QueueNext'
  <2>1. CASE Drops(i)
    <3>1. UNCHANGED queue
      BY <1>1, <2>1
    <3> QED
      BY <1>1, <3>1 DEF Lined, QueueNext, Later, Ahead
  <2>2. CASE Lands(i)
    <3>1. /\ Len(queue') = Len(queue) + 1 /\ queue'[Len(queue) + 1] = puts[i].msg
          /\ \A k \in 1..Len(queue) : queue'[k] = queue[k]
      BY <1>1, <1>2, <1>3, <2>2, AppendProperties
    <3>2. 1..Len(queue') = 1..Len(queue) \cup {Len(queue) + 1}
      BY <1>2, <3>1, LastPlace
    <3>3. ASSUME NEW k \in 1..Len(queue), queue[k] # Disconnect
          PROVE  queue[k] < puts[i].msg
      BY <1>2, <1>4, <3>3 DEF LastOne
    <3>4. Later(queue')
      <4> SUFFICES ASSUME NEW k \in 1..Len(queue'), NEW l \in 1..Len(queue'), k < l,
                          queue'[k] # Disconnect
                   PROVE  queue'[k] < queue'[l]
        BY DEF Later
      <4>1. k \in 1..Len(queue) /\ queue'[k] = queue[k]
        BY <1>2, <3>1
      <4>2. CASE l \in 1..Len(queue)
        BY <3>1, <4>1, <4>2 DEF Lined, QueueNext, Later
      <4>3. CASE l = Len(queue) + 1
        BY <3>1, <3>3, <4>1, <4>3
      <4> QED
        BY <3>2, <4>2, <4>3
    <3>5. ASSUME NEW k \in 1..Len(queue'), queue'[k] # Disconnect
          PROVE  Ahead(queue[k])' 
      <4>1. CASE k \in 1..Len(queue)
        BY <1>1, <3>1, <3>5, <4>1 DEF Lined, QueueNext, Ahead
      <4>2. CASE k = Len(queue) + 1
        BY <1>1, <1>4, <3>1, <3>5, <4>2 DEF LastOne, Ahead
      <4> QED
        BY <3>2, <4>1, <4>2
    <3> QED
      BY <3>4, <3>5 DEF QueueNext
  <2> QED
    BY <2>1, <2>2
<1>7. PutLast'
  <2> SUFFICES ASSUME NEW j \in 1..Len(puts'), puts'[j].msg # Disconnect
               PROVE  LastOne(j)'
    BY DEF PutLast
  <2>1. /\ Was(i, j) \in 1..Len(puts) /\ Was(i, j) # i
        /\ puts'[j] = puts[Was(i, j)]
    BY <1>1, Left
  <2>2. LastOne(Was(i, j))
    BY <2>1 DEF Lined, PutLast
  <2>3. puts[i].msg = Disconnect
    BY <2>1, <2>2 DEF LastOne
  <2>4. ~Settled'
    <3>1. acked' = acked
      BY <2>3 DEF Lands, Land, Drops, TypeOK
    <3> QED
      BY <1>1, <2>2, <3>1 DEF LastOne, Settled
  <2>5. \A k \in 1..Len(queue') : queue'[k] # Disconnect => queue'[k] < puts'[j].msg
    <3>1. CASE Drops(i)
      BY <1>1, <2>1, <2>2, <3>1 DEF LastOne
    <3>2. CASE Lands(i)
      <4>1. /\ Len(queue') = Len(queue) + 1 /\ queue'[Len(queue) + 1] = Disconnect
            /\ \A k \in 1..Len(queue) : queue'[k] = queue[k]
        BY <1>1, <1>2, <1>3, <2>3, <3>2, AppendProperties
      <4>2. 1..Len(queue') = 1..Len(queue) \cup {Len(queue) + 1}
        BY <1>2, <4>1, LastPlace
      <4> QED
        BY <2>1, <2>2, <4>1, <4>2 DEF LastOne
    <3> QED
      BY <3>1, <3>2
  <2>6. ASSUME NEW l \in 1..Len(puts'), l # j PROVE puts'[l].msg = Disconnect
    <3>1. /\ Was(i, l) \in 1..Len(puts) /\ puts'[l] = puts[Was(i, l)]
      BY <1>1, Left
    <3>2. Was(i, l) # Was(i, j)
      BY <2>6 DEF Was
    <3> QED
      BY <2>2, <3>1, <3>2 DEF LastOne
  <2>7. Ahead(puts[j].msg)'
    BY <1>1, <2>1, <2>2 DEF LastOne, Ahead
  <2> QED
    BY <2>4, <2>5, <2>6, <2>7 DEF LastOne
<1> QED
  BY <1>5, <1>6, <1>7 DEF Lined

LEMMA LinedBlocks ==
    ASSUME TypeOK, Lined, NEW i \in 1..Len(puts), Blocks(i)
    PROVE  Lined'
<1>1. /\ Len(puts') = Len(puts) /\ \A j \in 1..Len(puts) : puts'[j].msg = puts[j].msg
      /\ UNCHANGED <<fed, got, queue, feeder, acked>> /\ Fed' = Fed
  BY Waits DEF Blocks, feedVars, appVars, Fed
<1>2. FedInOrder' /\ GotFirst' /\ QueueNext'
  BY <1>1 DEF Lined, FedInOrder, GotFirst, QueueNext, Later, Ahead
<1>3. PutLast'
  <2> SUFFICES ASSUME NEW j \in 1..Len(puts'), puts'[j].msg # Disconnect
               PROVE  LastOne(j)'
    BY DEF PutLast
  <2>1. LastOne(j)
    BY <1>1 DEF Lined, PutLast
  <2> QED
    BY <1>1, <2>1 DEF LastOne, Settled, Ahead
<1> QED
  BY <1>2, <1>3 DEF Lined

\* Taking the head leaves a shorter line behind it.
LEMMA Shorter ==
    ASSUME TypeOK, queue # <<>>, queue' = Tail(queue)
    PROVE  /\ Head(queue) = queue[1] /\ 1 \in 1..Len(queue) /\ Len(queue) \in Nat
           /\ \A k \in 1..Len(queue') : /\ k + 1 \in 1..Len(queue) /\ 1 < k + 1
                                        /\ queue'[k] = queue[k + 1]
           /\ Later(queue) => Later(queue')
<1>1. /\ queue \in Seq(Messages) /\ Len(queue) \in Nat /\ 1 \in 1..Len(queue)
      /\ Head(queue) = queue[1] /\ Len(queue') = Len(queue) - 1
      /\ \A k \in 1..Len(queue') : queue'[k] = queue[k + 1]
  BY EmptySeq, LenProperties, HeadTailProperties DEF TypeOK
<1>2. \A k \in 1..Len(queue') : k + 1 \in 1..Len(queue) /\ 1 < k + 1
  BY <1>1
<1>3. Later(queue) => Later(queue')
  <2> SUFFICES ASSUME Later(queue), NEW k \in 1..Len(queue'), NEW l \in 1..Len(queue'),
                      k < l, queue'[k] # Disconnect
               PROVE  queue'[k] < queue'[l]
    BY DEF Later
  <2>1. k + 1 < l + 1
    BY <1>1
  <2> QED
    BY <1>1, <1>2, <2>1 DEF Later
<1> QED
  BY <1>1, <1>2, <1>3

LEMMA LinedGets ==
    ASSUME TypeOK, Preseeded, InFlight, Lined, Gets
    PROVE  Lined' /\ Len(got) < Len(fed) /\ got' = Append(got, fed[Len(got) + 1])
<1>1. /\ queue # <<>> /\ queue' = Tail(queue) /\ UNCHANGED <<fed, puts, feeder, acked>>
      /\ Fed' = Fed /\ got' = Append(got, Head(queue)) /\ Head(queue) # Disconnect
  BY DEF Gets, feedVars, Fed
<1>2. /\ Head(queue) = queue[1] /\ 1 \in 1..Len(queue)
      /\ Later(queue) => Later(queue')
      /\ \A k \in 1..Len(queue') : /\ k + 1 \in 1..Len(queue) /\ 1 < k + 1
                                   /\ queue'[k] = queue[k + 1]
  BY <1>1, Shorter
<1>3. queue[1] \in 1..End /\ Len(got) < Len(fed) /\ queue[1] = fed[Len(got) + 1]
  BY <1>1, <1>2, NextInLine
<1>4. Len(got) \in Nat /\ got \in Seq(1..End) /\ Len(fed) \in Nat
  BY LenProperties DEF TypeOK
<1>5. /\ Len(got') = Len(got) + 1 /\ got'[Len(got) + 1] = queue[1]
      /\ \A k \in 1..Len(got) : got'[k] = got[k]
      /\ 1..Len(got') = 1..Len(got) \cup {Len(got) + 1}
  <2>1. /\ Len(got') = Len(got) + 1 /\ got'[Len(got) + 1] = queue[1]
        /\ \A k \in 1..Len(got) : got'[k] = got[k]
    BY <1>1, <1>2, <1>3, <1>4, AppendProperties
  <2> QED
    BY <1>4, <2>1, LastPlace
<1>6. FedInOrder'
  BY <1>1 DEF Lined, FedInOrder, Later
<1>7. GotFirst'
  BY <1>1, <1>3, <1>4, <1>5 DEF Lined, GotFirst
<1>8. QueueNext'
  <2>1. ASSUME NEW k \in 1..Len(queue'), queue'[k] # Disconnect
        PROVE  Ahead(queue[k])'
    <3>1. queue'[k] = queue[k + 1] /\ Ahead(queue[k + 1]) /\ queue[1] < queue[k + 1]
      BY <1>1, <1>2, <2>1 DEF Lined, QueueNext, Later
    <3> QED
      BY <1>1, <1>5, <3>1 DEF Ahead
  <2> QED
    BY <1>2, <2>1 DEF Lined, QueueNext
<1>9. PutLast'
  <2> SUFFICES ASSUME NEW i \in 1..Len(puts), puts[i].msg # Disconnect
               PROVE  LastOne(i)'
    BY <1>1 DEF PutLast
  <2>1. LastOne(i)
    BY DEF Lined, PutLast
  <2>2. queue[1] < puts[i].msg
    BY <1>1, <1>2, <2>1 DEF LastOne
  <2>3. Ahead(puts[i].msg)'
    BY <1>1, <1>5, <2>1, <2>2 DEF LastOne, Ahead
  <2>4. \A k \in 1..Len(queue') : queue'[k] # Disconnect => queue'[k] < puts'[i].msg
    BY <1>1, <1>2, <2>1 DEF LastOne
  <2>5. ~Settled' /\ \A j \in 1..Len(puts') : j # i => puts'[j].msg = Disconnect
    BY <1>1, <2>1 DEF LastOne, Settled
  <2> QED
    BY <2>3, <2>4, <2>5 DEF LastOne
<1> QED
  BY <1>1, <1>2, <1>3, <1>6, <1>7, <1>8, <1>9 DEF Lined

LEMMA LinedHears ==
    ASSUME TypeOK, Lined, Hears
    PROVE  Lined'
<1>1. /\ queue # <<>> /\ queue' = Tail(queue) /\ Fed' = Fed
      /\ UNCHANGED <<fed, puts, got, feeder, acked>>
  BY DEF Hears, feedVars, Fed
<1>2. /\ Later(queue) => Later(queue')
      /\ \A k \in 1..Len(queue') : k + 1 \in 1..Len(queue) /\ queue'[k] = queue[k + 1]
  BY <1>1, Shorter
<1>3. FedInOrder' /\ GotFirst'
  BY <1>1 DEF Lined, FedInOrder, GotFirst, Later
<1>4. QueueNext'
  BY <1>1, <1>2 DEF Lined, QueueNext, Ahead
<1>5. PutLast'
  <2> SUFFICES ASSUME NEW i \in 1..Len(puts), puts[i].msg # Disconnect
               PROVE  LastOne(i)'
    BY <1>1 DEF PutLast
  <2>1. LastOne(i)
    BY DEF Lined, PutLast
  <2>2. \A k \in 1..Len(queue') : queue'[k] # Disconnect => queue'[k] < puts'[i].msg
    BY <1>1, <1>2, <2>1 DEF LastOne
  <2> QED
    BY <1>1, <2>1, <2>2 DEF LastOne, Settled, Ahead
<1> QED
  BY <1>3, <1>4, <1>5 DEF Lined

LEMMA LinedPreseed ==
    ASSUME TypeOK, Preseeded, Lined, Preseed
    PROVE  Lined' /\ Len(got) < Len(fed) /\ got' = Append(got, fed[Len(got) + 1])
<1>1. fed = <<End>> /\ got = <<>> /\ OnlyDisconnects /\ got' = Append(got, End)
  BY DEF Preseed, Preseeded
<1>2. /\ Len(fed) = 1 /\ fed[1] = End /\ Len(got) = 0
      /\ End \in 1..End /\ got \in Seq(1..End)
  BY <1>1, FeedAssumption DEF End, TypeOK
<1>3. Len(got') = 1 /\ got'[1] = End
  BY <1>1, <1>2, AppendProperties
<1>4. UNCHANGED <<fed, queue, puts, feeder, acked>> /\ Fed' = Fed
  BY DEF Preseed, feedVars, loopVars, Fed
<1>5. FedInOrder'
  BY <1>4 DEF Lined, FedInOrder, Later
<1>6. GotFirst'
  <2>1. Len(got') <= Len(fed')
    BY <1>2, <1>3, <1>4
  <2>2. ASSUME NEW k \in 1..Len(got') PROVE got'[k] = fed'[k]
    <3>1. k = 1
      BY <1>3
    <3> QED
      BY <1>2, <1>3, <1>4, <3>1
  <2> QED
    BY <2>1, <2>2 DEF GotFirst
<1>7. QueueNext' /\ PutLast'
  <2>1. OnlyDisconnects'
    BY <1>1, <1>4 DEF OnlyDisconnects
  <2> QED
    BY <2>1 DEF QueueNext, PutLast, Later, OnlyDisconnects
<1> QED
  BY <1>1, <1>2, <1>5, <1>6, <1>7 DEF Lined

LEMMA OrderedStep ==
    ASSUME TypeOK, Preseeded, Numbered, InFlight, Ordered, [Next]_vars
    PROVE  Ordered'
<1> SUFFICES ASSUME preempted' = 0 PROVE Lined'
  BY DEF Ordered
<1>1. preempted = 0 /\ preempted' = preempted
  <2>1. preempted \in Nat
    BY FeedAssumption DEF TypeOK
  <2>2. preempted' = preempted \/ preempted' = preempted + 1
    BY Flow DEF Feeds, Tells, Turns, Lands, Drops, Blocks, Gets, Hears, Preseed, feedVars
  <2> QED
    BY <2>1, <2>2
<1>2. Lined
  BY <1>1 DEF Ordered
<1> QED
  BY <1>1, <1>2, Flow, LinedFeeds, LinedTells, LinedTurns, LinedLeaves, LinedBlocks,
     LinedGets, LinedHears, LinedPreseed

-----------------------------------------------------------------------------
(* The theorems.                                                            *)

LEMMA InitIInv == Init => IInv
<1> SUFFICES ASSUME Init PROVE IInv
  OBVIOUS
<1>1. /\ puts = <<>> /\ queue = <<>> /\ got = <<>> /\ preempted = 0 /\ next = 1
      /\ \/ feeder = "frame" /\ first = Nothing /\ fed = <<>>
         \/ feeder = "stopped" /\ first = End /\ fed = <<End>>
  BY DEF Init
<1>2. /\ Chunks \in Nat \ {0} /\ End = Chunks + 1 /\ Nothing = 0
      /\ MaxPreempted \in Nat /\ QueueBound \in Nat
  BY FeedAssumption DEF End, Nothing
<1>3. /\ Len(puts) = 0 /\ Len(queue) = 0 /\ Len(got) = 0
      /\ \/ feeder = "frame" /\ first = Nothing /\ fed = <<>> /\ Len(fed) = 0
         \/ feeder = "stopped" /\ first = End /\ Len(fed) = 1 /\ fed[1] = End
  BY <1>1
<1>4. TypeOK
  <2>1. /\ puts \in Seq(Put) /\ queue \in Seq(Messages) /\ got \in Seq(1..End)
        /\ fed \in Seq(1..End)
    <3>1. End \in 1..End
      BY <1>2
    <3>2. <<>> \in Seq(1..End) /\ <<End>> \in Seq(1..End)
      BY <3>1, EmptySeq
    <3> QED
      BY <1>1, <3>2, EmptySeq
  <2>2. acked \in BOOLEAN /\ refused \in BOOLEAN /\ told \in BOOLEAN
    BY Zenon DEF Init
  <2> QED
    BY <1>1, <1>2, <1>3, <2>1, <2>2 DEF Init, TypeOK
<1>5. Fed \subseteq {End} /\ (Fed # {} => first = End)
  BY <1>3 DEF Fed
<1>6. ChunksOnce
  <2> SUFFICES ASSUME NEW n \in 1..Chunks PROVE Copies(n) = 0 /\ n \notin Fed
    BY DEF ChunksOnce
  <2>1. n \notin Fed
    BY <1>2, <1>5
  <2>2. /\ {i \in 1..Len(got) : got[i] = n} = {} /\ {i \in 1..Len(queue) : queue[i] = n} = {}
        /\ {i \in 1..Len(puts) : puts[i].msg = n} = {}
    BY <1>3
  <2>3. Copies(n) = Cardinality({}) + Cardinality({}) + Cardinality({})
    BY <2>2 DEF Copies
  <2> QED
    BY <2>1, <2>3, FS_EmptySet
<1>7. Preseeded
  BY <1>1, <1>2, <1>3 DEF Preseeded, OnlyDisconnects
<1>8. Numbered
  BY <1>3 DEF Numbered
<1>9. InFlight
  BY <1>5 DEF InFlight, Somewhere
<1>10. Owed
  <2>1. {i \in 1..Len(puts) : puts[i].msg # Disconnect} = {}
    BY <1>3
  <2>2. Waiting = 0
    BY <2>1, FS_EmptySet DEF Waiting
  <2> QED
    BY <1>1, <2>2 DEF Owed
<1>11. Ordered
  <2>1. FedInOrder
    BY <1>2, <1>3, <1>5 DEF FedInOrder, Later
  <2>2. GotFirst /\ QueueNext /\ PutLast
    BY <1>3 DEF GotFirst, QueueNext, PutLast, Later
  <2> QED
    BY <2>1, <2>2 DEF Ordered, Lined
<1> QED
  BY <1>4, <1>6, <1>7, <1>8, <1>9, <1>10, <1>11 DEF IInv

LEMMA Invariance == Spec => []IInv
<1>1. IInv /\ [Next]_vars => IInv'
  BY TypeStep, OnceStep, PreseededStep, NumberedStep, InFlightStep, OwedStep,
     OrderedStep DEF IInv
<1> QED
  BY <1>1, InitIInv, PTL DEF Spec

\* Every variable keeps its type: the queue keeps its bound whichever put task
\* runs first.
THEOREM TypeCorrect == Spec => []TypeOK
<1>1. IInv => TypeOK
  BY DEF IInv
<1> QED
  BY <1>1, Invariance, PTL

\* Every chunk taken from hyper is once among the put tasks, in the queue or with
\* the application, however often a feed_step is dropped in the middle of a put.
THEOREM NothingLost == Spec => []ChunksOnce
<1>1. IInv => ChunksOnce
  BY DEF IInv
<1> QED
  BY <1>1, Invariance, PTL

\* A request body takes the queue, one put, and one put more for every feed_step
\* that was dropped while its put waited.
THEOREM MemoryBounded == Spec => []BoundedByPreemption
<1>1. IInv => BoundedByPreemption
  <2> SUFFICES ASSUME IInv PROVE BoundedByPreemption
    OBVIOUS
  <2>1. /\ Waiting \in Nat /\ Len(queue) \in Nat /\ preempted \in Nat
        /\ QueueBound \in Nat /\ Len(queue) <= QueueBound
    BY WaitingCount, LenProperties, FeedAssumption DEF IInv, TypeOK
  <2>2. Waiting <= preempted + 1
    BY <2>1 DEF IInv, Owed
  <2> QED
    BY <2>1, <2>2 DEF BoundedByPreemption
<1> QED
  BY <1>1, Invariance, PTL

\* Until a feed_step is dropped the feed is an ordered stream: receive() returns
\* the body in the order in which it was fed, and nothing is fed behind its end.
THEOREM FedInOrderReceived == Spec => InOrder
<1>1. Init => Stream!Init
  <2> SUFFICES ASSUME Init PROVE Stream!Init
    OBVIOUS
  <2>1. End \in 1..End
    BY FeedAssumption DEF End
  <2> QED
    BY <2>1 DEF Init, Stream!Init
<1>2. ASSUME IInv, [Next]_vars, preempted' = 0
      PROVE  \/ Stream!Write /\ End \notin Fed
             \/ Stream!Read
             \/ UNCHANGED <<fed, got>>
  <2>1. preempted = 0
    <3>1. TypeOK
      BY <1>2 DEF IInv
    <3>2. preempted \in Nat
      BY <3>1, FeedAssumption DEF TypeOK
    <3>3. preempted' = preempted \/ preempted' = preempted + 1
      BY <1>2, <3>1, Flow
         DEF Feeds, Tells, Turns, Lands, Drops, Blocks, Gets, Hears, Preseed, feedVars
    <3> QED
      BY <1>2, <3>2, <3>3
  <2>2. TypeOK /\ Preseeded /\ Numbered /\ InFlight /\ Lined
    BY <2>1, <1>2 DEF IInv, Ordered
  <2>3. ASSUME NEW m \in {next, End}, Feeds(m) PROVE Stream!Write /\ End \notin Fed
    <3>1. m \in 1..End /\ End \notin Fed
      BY <1>2, <2>2, <2>3, FedGrows, LinedFeeds
    <3> QED
      BY <2>3, <3>1 DEF Feeds, appVars, Stream!Write
  <2>4. CASE Gets
    BY <2>2, <2>4, LinedGets DEF Gets, Stream!Read
  <2>5. CASE Preseed
    BY <2>2, <2>5, LinedPreseed DEF Preseed, loopVars, Stream!Read
  <2> QED
    BY <1>2, <2>2, <2>3, <2>4, <2>5, Flow
       DEF Tells, Turns, Lands, Drops, Blocks, Hears, loopVars, appVars
<1>3. IInv /\ [Next]_vars
        => [preempted' = 0 => (Stream!Write /\ End \notin Fed) \/ Stream!Read]_<<fed, got>>
  BY <1>2
<1> QED
  BY <1>1, <1>3, Invariance, PTL DEF Spec, InOrder

=============================================================================
