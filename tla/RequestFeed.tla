---------------------------- MODULE RequestFeed ----------------------------
(***************************************************************************)
(* The request half of one HTTP call: body frames from hyper go, one        *)
(* feed_step at a time, into the application's asyncio.Queue, from which    *)
(* receive() takes them.  src/server.rs (feed_step and its place in the     *)
(* selects of handle_http), src/asgi.rs (feed_message, feed_disconnect,     *)
(* _Receive).  The response half is module ResponsePath.                    *)
(*                                                                         *)
(* feed_step is a branch of a select in a loop: when a branch above it is   *)
(* taken (Preempted) its future is dropped.  That drops the wait, not the   *)
(* queue.put task, which already belongs to the asyncio loop.               *)
(***************************************************************************)
EXTENDS Naturals, Sequences, FiniteSets

CONSTANTS
    QueueBound,     \* REQUEST_QUEUE_MAXSIZE
    Chunks,         \* frames of the request body
    MaxPreempted    \* how often another branch is taken during a feed (a bound)

ASSUME FeedAssumption ==
    /\ QueueBound \in Nat \ {0} /\ Chunks \in Nat \ {0} /\ MaxPreempted \in Nat

VARIABLES
    next,       \* the next frame hyper will give
    feeder,     \* where feed_step stands
    owner,      \* the select loop that polls feed_step, and how it ended
    preempted,  \* times a feed_step was dropped
    fed,        \* the messages handed to queue.put, in order
    acked,      \* the put that feed_step waits for has been done
    puts,       \* the put tasks of the asyncio loop, oldest first
    queue,      \* the asyncio.Queue
    refused,    \* put_nowait has met a full queue: a disconnect was lost
    app,        \* the application
    first,      \* the pre-seeded message of a bodyless request
    got,        \* what receive() has returned, disconnects left out
    told        \* receive() has returned http.disconnect

feedVars == <<next, feeder, owner, preempted>>
loopVars == <<fed, acked, puts, queue, refused>>
appVars  == <<app, first, got, told>>
vars == <<feedVars, loopVars, appVars>>

\* Message n is the n-th chunk; End has more_body = False.
End        == Chunks + 1
Disconnect == Chunks + 2
Nothing    == 0
Messages   == 1..Disconnect
Put        == [msg : Messages, id : Nat, blocked : BOOLEAN]

TypeOK ==
    /\ next \in 1..End
    /\ feeder \in {"frame", "chunk", "end", "telling", "stopped"}
    /\ owner \in {"here", "told", "quiet"}
    /\ preempted \in 0..MaxPreempted
    /\ fed \in Seq(1..End)
    /\ acked \in BOOLEAN
    /\ puts \in Seq(Put)
    /\ queue \in Seq(Messages) /\ Len(queue) <= QueueBound
    /\ refused \in BOOLEAN
    /\ app \in {"running", "receiving", "ended"}
    /\ first \in {Nothing, End}
    /\ got \in Seq(1..End)
    /\ told \in BOOLEAN

\* A request with a body, or one declared bodyless that is never fed.
Init ==
    /\ next = 1 /\ owner = "here" /\ preempted = 0 /\ acked = FALSE
    /\ puts = <<>> /\ queue = <<>> /\ refused = FALSE
    /\ app = "running" /\ got = <<>> /\ told = FALSE
    /\ \/ feeder = "frame" /\ first = Nothing /\ fed = <<>>
       \/ feeder = "stopped" /\ first = End /\ fed = <<End>>

-----------------------------------------------------------------------------
(* feed_step, in the select loop of Phase A or of the responder.            *)

Submit(msgs) ==
    puts' = puts \o [i \in 1..Len(msgs) |->
                        [msg |-> msgs[i], id |-> Len(fed) + i, blocked |-> FALSE]]

\* Mutant: the frame is handed over without waiting for it.
TakeFrameEager ==
    /\ feeder = "frame" /\ next <= Chunks
    /\ next' = next + 1
    /\ Submit(<<next>>) /\ fed' = Append(fed, next) /\ acked' = FALSE
    /\ UNCHANGED <<feeder, owner, preempted, queue, refused, appVars>>

\* A frame has come: schedule queue.put and wait for it, at most 60 s.
TakeFrame ==
    /\ feeder = "frame" /\ next <= Chunks
    /\ next' = next + 1 /\ feeder' = "chunk"
    /\ Submit(<<next>>) /\ fed' = Append(fed, next) /\ acked' = FALSE
    /\ UNCHANGED <<owner, preempted, queue, refused, appVars>>

\* The body is over, or reading it failed, and hyper will give no more frames:
\* the terminal message follows either.
TakeEnd ==
    /\ feeder = "frame"
    /\ next' = End /\ feeder' = "end"
    /\ Submit(<<End>>) /\ fed' = Append(fed, End) /\ acked' = FALSE
    /\ UNCHANGED <<owner, preempted, queue, refused, appVars>>

\* Mutant: the terminal message does not end the feeding.
PutDoneAgain ==
    /\ feeder \in {"chunk", "end"} /\ acked
    /\ feeder' = "frame"
    /\ UNCHANGED <<next, owner, preempted, loopVars, appVars>>

PutDone ==
    /\ feeder \in {"chunk", "end"} /\ acked
    /\ feeder' = IF feeder = "chunk" THEN "frame" ELSE "stopped"
    /\ UNCHANGED <<next, owner, preempted, loopVars, appVars>>

\* REQUEST_PUT_TIMEOUT: a chunk that cannot be placed ends the feeding with a
\* disconnect; for the terminal message the error is ignored.
PutTimesOut ==
    /\ feeder \in {"chunk", "end"} /\ ~acked
    /\ IF feeder = "chunk"
       THEN feeder' = "telling" /\ Submit(<<Disconnect>>)
       ELSE feeder' = "stopped" /\ UNCHANGED puts
    /\ UNCHANGED <<next, owner, preempted, fed, acked, queue, refused, appVars>>

Told ==
    /\ feeder = "telling" /\ feeder' = "stopped"
    /\ UNCHANGED <<next, owner, preempted, loopVars, appVars>>

\* Mutant: the frame whose feed was dropped is fed once more.
PreemptedRewinds ==
    /\ feeder \in {"chunk", "end", "telling"}
    /\ preempted < MaxPreempted
    /\ preempted' = preempted + 1
    /\ feeder' = "frame"
    /\ next' = IF feeder = "chunk" THEN next - 1 ELSE next
    /\ UNCHANGED <<owner, loopVars, appVars>>

\* A response event or the app's completion is handled instead: the future of
\* this feed_step is dropped, the next iteration starts another.
Preempted ==
    /\ feeder \in {"chunk", "end", "telling"}
    /\ preempted < MaxPreempted
    /\ preempted' = preempted + 1
    /\ feeder' = "frame"
    /\ UNCHANGED <<next, owner, loopVars, appVars>>

\* Mutant: the disconnect is thought to matter only to a body still being fed.
OwnerTellsFeeding ==
    /\ owner = "here" /\ owner' = "told" /\ feeder' = "stopped"
    /\ IF feeder = "stopped" THEN UNCHANGED puts ELSE Submit(<<Disconnect>>)
    /\ UNCHANGED <<next, preempted, fed, acked, queue, refused, appVars>>

\* hyper refuses a chunk of the response, or the application has sent a body
\* before the start: a disconnect is fed, whatever has become of the feeding,
\* and the select loop ends.
OwnerTells ==
    /\ owner = "here" /\ owner' = "told" /\ feeder' = "stopped"
    /\ Submit(<<Disconnect>>)
    /\ UNCHANGED <<next, preempted, fed, acked, queue, refused, appVars>>

\* The select loop ends in any other way (the last chunk, no response, a
\* deadline, hyper dropping the handler): the application is told nothing.
OwnerLeaves ==
    /\ owner = "here" /\ owner' = "quiet" /\ feeder' = "stopped"
    /\ UNCHANGED <<next, preempted, loopVars, appVars>>

-----------------------------------------------------------------------------
(* The asyncio loop.  A put task runs at once when it is new; on a full      *)
(* queue Queue.put waits for a get to wake it, and new tasks may run before. *)

Room == Len(queue) < QueueBound

Oldest(i, blocked) ==
    /\ i \in 1..Len(puts) /\ puts[i].blocked = blocked
    /\ \A j \in 1..(i - 1) : puts[j].blocked # blocked

Without(i) == SubSeq(puts, 1, i - 1) \o SubSeq(puts, i + 1, Len(puts))

Land(i) ==
    /\ queue' = Append(queue, puts[i].msg)
    /\ puts' = Without(i)
    /\ acked' = (acked \/ (puts[i].msg # Disconnect /\ puts[i].id = Len(fed)))

\* Mutant: the queue has no maxsize.
RunPutUnbounded(i) ==
    /\ Oldest(i, FALSE) /\ Land(i)
    /\ UNCHANGED <<refused, fed, feedVars, appVars>>

RunPut(i) ==
    /\ Oldest(i, FALSE)
    /\ \/ Room /\ Land(i) /\ UNCHANGED refused
       \/ /\ ~Room /\ puts[i].msg # Disconnect
          /\ puts' = [puts EXCEPT ![i] = [msg |-> @.msg, id |-> @.id, blocked |-> TRUE]]
          /\ UNCHANGED <<acked, queue, refused>>
       \/ /\ ~Room /\ puts[i].msg = Disconnect      \* put_nowait: QueueFull
          /\ puts' = Without(i) /\ refused' = TRUE
          /\ UNCHANGED <<acked, queue>>
    /\ UNCHANGED <<fed, feedVars, appVars>>

WakePut(i) ==
    /\ Oldest(i, TRUE) /\ Room
    /\ Land(i)
    /\ UNCHANGED <<refused, fed, feedVars, appVars>>

-----------------------------------------------------------------------------
(* The application: _Receive.__call__.                                      *)

Receive ==
    /\ app = "running"
    /\ IF first # Nothing
       THEN got' = Append(got, first) /\ first' = Nothing /\ UNCHANGED app
       ELSE app' = "receiving" /\ UNCHANGED <<got, first>>
    /\ UNCHANGED <<told, feedVars, loopVars>>

Get ==
    /\ app = "receiving" /\ queue # <<>>
    /\ app' = "running" /\ queue' = Tail(queue)
    /\ IF Head(queue) = Disconnect
       THEN told' = TRUE /\ UNCHANGED got
       ELSE got' = Append(got, Head(queue)) /\ UNCHANGED told
    /\ UNCHANGED <<first, fed, acked, puts, refused, feedVars>>

AppEnds ==
    /\ app = "running" /\ app' = "ended"
    /\ UNCHANGED <<first, got, told, feedVars, loopVars>>

-----------------------------------------------------------------------------
FeedNext == TakeFrame \/ TakeEnd \/ PutDone \/ PutTimesOut \/ Told
LoopNext == \E i \in 1..Len(puts) : RunPut(i) \/ WakePut(i)

Next == \/ FeedNext \/ Preempted \/ OwnerTells \/ OwnerLeaves
        \/ LoopNext \/ Receive \/ Get \/ AppEnds

(***************************************************************************)
(* Fairness: the asyncio loop runs its tasks and a waiting get is served.   *)
(***************************************************************************)
Spec     == Init /\ [][Next]_vars
FairSpec == Spec /\ WF_vars(LoopNext) /\ WF_vars(Get)

-----------------------------------------------------------------------------
(* What the request half must keep.                                         *)

Fed      == {fed[i] : i \in 1..Len(fed)}
Received == {got[i] : i \in 1..Len(got)}

\* Every chunk taken from hyper is on its way to the application or has arrived,
\* once: dropping a feed_step in the middle of a put loses nothing, and the next
\* one repeats nothing.
Copies(n) == Cardinality({i \in 1..Len(got) : got[i] = n})
               + Cardinality({i \in 1..Len(queue) : queue[i] = n})
               + Cardinality({i \in 1..Len(puts) : puts[i].msg = n})
ChunksOnce == \A n \in 1..Chunks : Copies(n) = IF n \in Fed THEN 1 ELSE 0

\* Until a feed_step is dropped the feed is an ordered stream: the application
\* reads the body in order.  Nothing is fed behind the end (server.rs, Phase A:
\* "drop the stream so the responder cannot deliver a duplicate terminal").
Stream == INSTANCE OrderedStream
            WITH Items <- 1..End, written <- fed, read <- got
InOrder == /\ Stream!Init
           /\ [][preempted' = 0 => \/ Stream!Write /\ End \notin Fed
                                   \/ Stream!Read]_<<fed, got>>

\* The memory a request body can take: the queue, one put, and one more put
\* for every feed_step that was dropped while it waited.
Waiting == Cardinality({i \in 1..Len(puts) : puts[i].msg # Disconnect})
BoundedByPreemption == Len(queue) + Waiting <= QueueBound + 1 + preempted

\* server.rs, the responder: when the client is gone the feed_disconnect must
\* "wake a pending receive()".  An application that goes on receiving is told,
\* with or without a body, fed or not, behind whatever puts still wait; unless
\* put_nowait met a full queue, which loses the disconnect.
DisconnectHeard ==
    owner = "told" ~> (told \/ refused \/ [](app # "receiving"))

\* server.rs, feed_step: the terminal message goes "through the same ordered
\* path" as the chunks: the application has the whole fed body when it gets it.
TerminalLast ==
    End \in Received => Fed \subseteq Received
=============================================================================
