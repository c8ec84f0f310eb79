# A TLA+ model of rustwasgi

rustwasgi is an ASGI server written in Rust. hyper and Tokio run the network
side, one asyncio loop on a thread of its own runs the Python application, and
a bridge moves messages between the two. It serves stand-alone
(`rustwasgi main:app`) or as a Gunicorn worker class. This directory holds the
specifications of its concurrent parts, the TLC instances that check them and
the TLAPS proofs of every safety property they state.

Paths in this file are relative to the repository root (`src/server.rs` and
so on); `PROJECT.json` maps each definition to the lines it models.

## 1. The system

### Components

| component | where | state it keeps | operations |
|---|---|---|---|
| serving core | `src/server.rs` 150-600 | `Shutdown` (flag, kind, `Notify`), `in_flight`, `completed`, two `JoinSet`s | `serve`, `watch_signals`, `heartbeat_loop`, the accept loops, `spawn_connection` |
| in-flight guard | `src/runtime.rs` 226-248 | its counter | `FlightGuard::new`, `drop` |
| HTTP call, response half | `src/asgi.rs` (`SendSink`), `src/server.rs` (`handle_http`) | response channel (16), hyper's body channel, app future, `app_logged`, `disconnected` | `_push`, Phase A, responder, `spawn_drain_reaper` |
| HTTP call, request half | `src/server.rs` (`feed_step`), `src/asgi.rs` (`feed_message`, `feed_disconnect`, `_Receive`) | `asyncio.Queue(maxsize=64)`, put tasks | feed a frame, feed the end, disconnect, `receive()` |
| worker life | `src/lib.rs`, `src/lifespan.rs`, `src/runtime.rs` | loop thread, lifespan queues, `LIFESPAN_MANAGER` | start loop, lifespan startup, serve, lifespan shutdown, cancel tasks, stop and join |
| WebSocket bridge | `src/ws.rs` | `WsSink`, driver, its queue | upgrade, drive, feed, close |
| TLS and reload | `src/tls/`, `src/server.rs` 605-654 (`cert_watcher`) | `ArcSwap<ServerConfig>`, last seen mtimes | load, validate, reload, watch |
| ACME | `src/acme/` | account file, challenges, certificate files and their temporary names | renew, install |
| sockets, CLI, metrics | `src/socket.rs`, `src/cli.rs`, `src/metrics.rs` | none that others depend on | bind, parse, count |
| Gunicorn shim | `python/rustwasgi/gunicorn.py` | `alive` | `run`, `notify`, `is_alive` |

### How they interact

- **Threads.** The main thread runs `block_on(lifespan startup; serve; lifespan
  shutdown; cancel)`. A multi-threaded Tokio runtime runs everything that is
  spawned; the asyncio thread runs the application and every `queue.put` and
  `queue.get` submitted to it. A future obtained through `into_future` becomes
  ready some callbacks after its Python task has ended, on another thread.
- **Shutdown.** Signals, the quota and the heartbeat all call
  `Shutdown::trigger`; `serve` and the accept loops wait for it.
- **A request** is served by its connection task, then handed to a detached
  responder (or WebSocket driver) together with its `FlightGuard`. The drain
  reads the guards' counter.
- **A certificate** is two files that all workers of a master share. Each
  worker reads them at start, whenever its watcher finds new modification
  times, and after an install of its own renewal task.
- **A WebSocket** is one driver task between the upgraded stream, the bounded
  channel `send()` fills and the `asyncio.Queue` `receive()` empties; what it
  awaits it awaits alone, and everything else waits meanwhile.
- **A call** couples two bounded directions, one per half of the bridge, and
  both are driven by the same `biased` select loops.

### What is hard in it

Registration with `Notify` against a trigger; a guard that must survive
cancellation; the last bytes against `abort_all`; futures dropped in the middle
of a `queue.put`; the outcome of an application seen by up to four observers;
an application that answers, hangs, raises or ends at any moment; interrupts
that surface inside whatever Python the main thread happens to evaluate;
deadlines that race a late answer; a queue and a channel that may wait for
each other; two files that are never replaced in one step, by writers that share
their temporary names. `PROJECT.json` lists each hazard at its
line, with the properties aimed at it.

### What makes each part correct

- serving core: every reason to retire leads to a shutdown; the shutdown
  completes; the drain waits for exactly the requests that are alive; nothing
  is spawned behind `abort_all`.
- response half: order and completeness of the body; every client answered;
  every `send()` released; no traceback lost or reported twice.
- request half: no chunk lost or repeated, order and end of the body, bounded
  memory, the application told of a response that cannot be written.
- worker life: startup is decided whatever the application does, the lifespan
  protocol keeps its order, teardown ends.
- WebSocket: order in both directions, one close, last; the application told of
  connection and end once; no deadlock of queue and channel; a driver that ends
  and has seen the application's outcome.
- certificates: a worker never serves a certificate with another one's key; an
  undisturbed install leaves its own pair; a rotation is served in the end.

## 2. Modules

| module | models or proves | used by |
|---|---|---|
| `WorkerServe` | the serving core and the guards | `MCWorkerServe`, `WorkerServeProofs` |
| `ServeContract` | the abstract promise of a worker to its requests | `WorkerServe` |
| `OrderedStream` | the abstract promise of one direction of the bridge | `ResponsePath`, `RequestFeed`, `WebSocket` |
| `ResponsePath` | the response half of one call | `MCResponsePath`, `ResponsePathProofs` |
| `RequestFeed` | the request half of one call | `MCRequestFeed`, `RequestFeedProofs` |
| `WebSocket` | one WebSocket connection | `MCWebSocket`, `WebSocketProofs` |
| `WorkerLife` | the worker around `serve` | `MCWorkerLife`, `WorkerLifeProofs` |
| `CertLife` | the certificate files, their writers and their readers | `MCCertLife`, `CertLifeProofs` |
| `SequenceLemmas` | facts about queues, counts and logs | `WorkerLifeProofs`, `RequestFeedProofs`, `ResponsePathProofs`, `WebSocketProofs` |
| `...Proofs` | the theorems about a component and its inductive invariant | |

The modules meet at these points. `WorkerServe` lets a handler end at any time
in one of the three ways `handle_http` and the WebSocket upgrade hand the guard
on; `ResponsePath` shows which one and when (`CallEnds` is what lets the drain
end early), and `WebSocket` that the driver which takes the guard ends
(`DriverEnds`). `WorkerLife` lets `serve` return at any time; that it does is
the business of `WorkerServe`. `RequestFeed` lets its feed be dropped at any
time (`Preempted`), which is what a response event in `ResponsePath` does.

### WorkerServe

| variables | code |
|---|---|
| `flag`, `quick`, `waiters` | `Shutdown.flag`, `.quick`, and the tasks registered with `.notify` |
| `main`, `kind`, `deadline`, `ended` | where `serve` stands, the kind it read, `graceful_timeout`, why the drain ended |
| `sigs`, `watcher`, `heartbeat`, `orphaned`, `alive` | `watch_signals`, `heartbeat_loop` and what they look at |
| `acc` | each accept loop: before the flag, at the select, parked, in a handshake, ended |
| `conn`, `cur`, `stage` | connection tasks and their service function |
| `guard`, `inFlight`, `completed`, `out` | who holds each request's guard, the two counters, the response bytes |

`Trigger` is one step for its three atomics, with no await between them.
`Wait` registers and does not look at the flag, because `Shutdown::wait` does
not. `Accept` may win against a wait that is ready, because the select is fair.
`Drop` is the end of a connection task for any reason, with the RAII release.
`ServeContract` has four phases (serving, draining, cutting, gone), the
requests a worker has admitted and those it cut off; `KeepsContract` maps them
to the flag, to `main`, and to the stages and the output of the requests.

### ResponsePath

`chan` is the Tokio channel and `wire` hyper's; `pending` is the message of a
`send()` that waits. `pc` is `handle_http` in Phase A and then the responder.
The branches of a `biased` select are guarded by "no branch above is ready"
(`RxReady`, `AppReady`). `SinkFreed` and `FutureResolves` are two steps in
either order: the frame of the application is freed, its future is resolved.
Messages are `start`, a chunk with or without `more_body`, and an empty last
chunk; a chunk is its number. The messages without data carry none and may be
sent without end. `body` is hyper's end of the body channel: it is dropped when
the client leaves, and also while the client stays (`BodyDropped`: a status
without a body, a Content-Length that is reached), and `send_data` fails in
either case. `appLogged` is the flag `app_logged`; `logged` counts the reports.

### RequestFeed

`feeder` is `feed_step`; `puts` are the `queue.put` tasks of the loop, each new
or waiting for room. The asyncio rules are those of `asyncio.Queue`: a waiting
put is woken first in, first out, but a new put that runs before the woken one
takes the room. `acked` is the future the current feed awaits. `got` is what
`receive()` returned, message `n` being the `n`-th chunk and `End` the terminal
one. `owner` is how the select loop around the feed has ended: it feeds a
disconnect whatever has become of the feeding (`OwnerTells`: a chunk of the
response is refused, a body comes before the start), or leaves without a word
(`OwnerLeaves`). `refused` records that the disconnect met a full queue.

### WorkerLife

`pc` names each await of `serve_process_on`, `LifespanManager::startup`,
`::shutdown`, `cancel_pending_tasks` and `stop_asyncio_loop`. `intr` is a
KeyboardInterrupt the interpreter holds; `Raises` is a stretch of Python on the
main thread that meets it, and each action says what its caller makes of the
error. The queue tasks take two steps (`GetRuns`, `GetResolves`), the
application's end two more (`AppEnds`, `AppResolves`), so that the race of the
handshake has all its outcomes.

### WebSocket

`pc` is where `drive_websocket` stands. A write and a put are awaited in states
of their own (`write`, `feed`), with `then` saying where the driver goes on: it
looks at nothing else meanwhile. The `biased` order is in `RxBranch` (the
application has not ended and has not closed) and `ReadBranch` (nothing above
is ready). `WriteFails` covers a lost connection and tungstenite's refusal to
write behind a close frame. `WriteDone` uses that refusal for a pong only: that
nothing of the application follows a close, and that there is one close, is the
driver's own doing. Whether an answer to the client's close is taken or refused
is left open. A put that times out keeps its place in the asyncio loop
(`put`), as in `RequestFeed`; since every timeout leaves the pump, there is one
put at a time. `out` holds data and close frames, pongs are not recorded.
`opening` and `accepted` record what `send()` took, the kind of its first event
and the numbers of its data; `frames` and `typed` do so for the client. The two
streams are read off these: `DataWritten` is `out` without the close,
`DataHeard` is `got` without the connect and the disconnect.
`DriverEnds` and the 15 s and 30 s limits are actions that are enabled at any
time in their state (`Drain`, `FeedTimesOut`, `AcceptTimesOut`). Two details of
the code are visible here and not asked to be otherwise: `AppReturned` leaves
what the channel holds unsent, and `AppFailed` drops the application's future
with its traceback.

### CertLife

A version is one issued pair. `live` and `tmp` are the four files; a file is
`Torn` from its truncation to the first write and `Mixed` when a later write has
not covered the bytes of an earlier one (`Written`). `handle` is the
file a worker has open: renaming it takes the writer along (`Replaced`), so that
a worker may truncate or fill what has already become the live file. `watcher`
runs through the worker's start and then `cert_watcher`; `seen` and `look` are
the modification times it keeps and those of the current tick, each standing
for the version written. `renewal` runs through `RenewalTask::spawn` and
`atomic_install`. Both read the files in two steps and store in a third, so
that renames, copies and stores of others come in between. `Stop` is a shutdown
or crash at any point, with the files left as they are. Workers in `Sni` have
the pair as the default of an SNI table and run no watcher. `disturbed` is
history: the installs another writer has overlapped. The ACME directory is
taken to hold the files that are served; with other paths there is no watcher
on what the renewal writes and the two halves do not meet. Only the certificate
on disk expires (`Expire`): nobody looks at the date of another.

## 3. Runs

| run | bounds | checks |
|---|---|---|
| `serve_safety` | 2 listeners (1 TLS), 2 connections, 3 requests, quota 1, SIGQUIT | `TypeOK`, `InFlightCountsGuards`, `GuardHasOwner`, `NoConnectionOutlivesServe`, `QuotaOvershoot`, `KeepsContract` (implements `ServeContract`) |
| `serve_live` | 1 TLS listener, 2 connections, 1 request, quota 1, SIGTERM, a dead master, a worker marked dead | `RetiredShutsDown`, `HeardShutdownCompletes`, `LateListenerHeals` |
| `response_path` | 4 chunks, any number of messages without data, channels of 2, GET and HEAD | `TypeOK`, `RepollOnlyAfterFailure`, `InOrder` (refines `OrderedStream`), `ChunksArrive`, `OutcomeReported`, `CallEnds`, `SendReturns` |
| `feed_safety` | 3 chunks, queue of 2, 2 dropped feeds | `TypeOK`, `ChunksOnce`, `BoundedByPreemption`, `InOrder` (`OrderedStream` until a feed is dropped), `DisconnectHeard` |
| `life` | 3 modes, 2 messages, 2 SIGINTs | `TypeOK`, `OnMeansReady`, `ProtocolOrder`, `ShutdownOffered`, `StartupDecided`, `TeardownJoins`, `StopSurvives` |
| `websocket` | 3 events out, 2 frames in and a close, channel and queue of 1 | `TypeOK`, `ReceiveOrder`, `CloseLast`, `OutInOrder` and `InOrder` (each refines `OrderedStream`), `SendReturns`, `DriverEnds`, `OutcomeSeen` |
| `cert_life` | 2 workers with ACME (1 SNI), 3 pairs, 1 stop, an operator, failing file operations | `TypeOK`, `ServedPairMatches`, `LoneInstallMatches`, `RotationServed` |

Five more runs are expected to find a violation; see section 4.

Why the bounds are enough. The quota race needs one connection more than the
one that reaches the quota and a request more than there are connections. A
TLS and a plain listener show both forms of the accept loop; `serve_live` has
the TLS one alone, which does all the plain one does and reaches the handshake
that never ends. Two slots and
four chunks fill a channel, block a `send()`, and leave a message behind the
blocked one; one slot would make "full" and "not empty" the same. A queue of
two with three chunks and the end lets two puts wait at once after a drop. Two
SIGINTs are one more than a user's single Ctrl-C, and fewer than the three
attempts of `stop_asyncio_loop`. Three WebSocket events are an accept, one that
fills the channel of one and one whose `send()` waits; a queue of one is full
with the connect in it, so that the first frame of the client makes the driver
wait as well, and the second is behind it. (A channel of two with four events
was also run once: 1.7 million states, the same result.) Two renewals overlap
with two workers, and a third pair is needed for each to install one over the
first. The named bounds are `Reqs`, `MaxChunks`, `MaxSends`, `MaxFrames`,
`Chunks`, `MaxPreempted`, `MaxInterrupts`, `MaxVersions` and `MaxStops`. The
messages without data of `ResponsePath` have none, so that an application that
never stops sending is a behaviour of it. Deadlock is
not checked because every system here does come to rest: a worker exits, a call
ends.

Fairness. Weak fairness for each Tokio task and timer (a ready task is polled;
a sleep ends) and for the asyncio loop (a ready callback is run). `Accept` is
fair because `accept()` returns a connection that waits. In `ResponsePath` the
connection progresses or is found gone, which is what a TCP peer gives in the
end. In `WebSocket` a frame that is written is likewise taken or refused, which
the code does not bound by a timeout. In `CertLife` only the watcher is fair: it
ticks every two seconds. Nothing is assumed of the application, of clients, of a
TLS handshake or of the network. The exceptions are stated in the properties: a
shutdown that was heard (`Heard`), a handshake that never ends, an application
that sends for ever (`SendsForEver`), a disconnect that met a full queue
(`refused`), a client that answers the application's close (`SendReturns` of `WebSocket`), and for `WorkerLife` that the
application awaits from time to time, without which no callback of the loop
runs.

## 4. Where the code disagrees with what is said of it

Five runs are expected to violate their property; each is a counterexample of
the code against a sentence of the repository.

- `serve_lost_wakeup` (`ShutdownCompletes`). `Shutdown::wait` registers when it
  is first polled and never looks at the flag; `notify_waiters` leaves no
  permit. A trigger before `serve` polls its wait, or between an accept loop's
  look at the flag and its select, is lost and the worker does not exit.
  `LateListenerHeals` and `HeardShutdownCompletes` say what remains true.
- `serve_cut_off` (`IdleDrainDelivered`). A guard is dropped when the last
  chunk is in hyper's channel; the drain then ends idle and `abort_all` cuts the
  response off.
- `feed_overtaken` (`TerminalLast`). A feed dropped while its put waits for
  room lets the terminal message overtake a chunk.
- `life_failed` (`FailedIsFatal`). `lifespan.startup.failed` followed by an
  exception (what Starlette does) may be seen as an exit without an answer, and
  the worker serves in `auto` mode.
- `cert_torn` (`AtRestDiskMatches`). The temporary names are shared by all
  workers: one renames the other's certificate together with its own key. The
  files do not match, the certificate is fresh so that nobody renews it, and the
  next worker does not start. A failure between the two renames does the same.

The weaker statements that do hold (`HeardShutdownCompletes`, `InOrder` of
`RequestFeed` until a feed is dropped, `LoneInstallMatches`,
`ServedPairMatches`) are checked by the passing runs; the difference between the
two is the defect.

Some passing properties are bounded by a behaviour of the code that a reader
should know of:

- `HeardShutdownCompletes`: a handshake is awaited inside the accept loop and has
  no timeout. A loop that has been woken may still let `accept` win its select,
  and one client that stalls in the handshake then holds the shutdown, which
  `serve` bounds by `graceful_timeout` only after it has joined the loops.
- `CallEnds`: `docs/report.md:84` and `:93` give a response 300 s. The deadline is
  the last branch of a biased select (`server.rs:1119`) and is not polled while
  the channel holds a message: an application that always sends before the
  channel is empty keeps the responder, and the guard that the drain waits for,
  beyond it. The property exempts it (`SendsForEver`); without the exemption TLC
  finds it.
- `BoundedByPreemption`: `asgi.rs:54-57` bounds the memory of a request body by
  "roughly `MAXSIZE x max-chunk-size`" and `README.md:171` says that backpressure
  is end-to-end. Each dropped `feed_step` may leave one more put that waits with
  its chunk, so that the bound of the property grows with `preempted`; the
  number of drops is that of the response events an application sends while it
  does not receive.
- `ChunkRefused`: `server.rs:1066` reads a failed `send_data` as "Client gone".
  hyper also drops the body of a response that has none, or that has reached its
  Content-Length: the client is there, yet the application is fed a disconnect
  and its next `send()` raises `OSError`.
- `DisconnectHeard`: a request that ends without a start, at a deadline or with a
  dropped handler feeds no disconnect, and one fed to a full queue is lost.
- `RepollOnlyAfterFailure`: the failure paths of Phase A hand the reaper an
  application future without a look at `app_done`; it is polled again, which
  panics in the reaper task.
- `ShutdownOffered` exempts interrupts: a Ctrl-C leaves a KeyboardInterrupt that
  surfaces in the `is_running()` call of the lifespan shutdown, which is
  skipped. `StopSurvives` starts behind the same call in `stop_asyncio_loop`.
- `SendReturns` of `WebSocket` exempts an application that sends on after its
  own close: `README.md` promises an `OSError`, but the channel stays open, and
  once it is full `send()` waits for the client.
- `RotationServed` counts from a difference the watcher can see. A rotation
  between the load at start and the watcher's first look is never seen, and a
  renewal that stores an older pair behind the watcher's last look stays.

## 5. Proofs

Every safety property of the passing runs, the refinements included, is also a
theorem: TLC shows it on a small instance, TLAPS for every value of the
constants.

| module | theorem | states |
|---|---|---|
| `WorkerServeProofs` | `TypeCorrect` | `TypeOK`; the unsigned counter never goes below zero |
| | `CounterCorrect`, `GuardsOwned`, `ConnectionsEnd` | `InFlightCountsGuards`, `GuardHasOwner`, `NoConnectionOutlivesServe` |
| | `QuotaBounded` | `QuotaOvershoot` |
| | `ContractKept` | `Spec => KeepsContract`: the worker implements `ServeContract` |
| `ResponsePathProofs` | `TypeCorrect`, `RepolledOnlyAfterFailure` | `TypeOK`, `RepollOnlyAfterFailure` |
| | `DeliveredInOrder` | `Spec => InOrder`: the response implements `OrderedStream` |
| `RequestFeedProofs` | `TypeCorrect`, `NothingLost`, `MemoryBounded` | `TypeOK`, `ChunksOnce`, `BoundedByPreemption` |
| | `FedInOrderReceived` | `Spec => InOrder`: `OrderedStream` until a feed is dropped |
| `WorkerLifeProofs` | `TypeCorrect`, `ReadyWhenOn`, `ProtocolKept`, `ShutdownAlwaysOffered` | `TypeOK`, `OnMeansReady`, `ProtocolOrder`, `ShutdownOffered` |
| `WebSocketProofs` | `TypeCorrect`, `ToldInOrder`, `CloseComesLast` | `TypeOK`, `ReceiveOrder`, `CloseLast` |
| | `WrittenInOrder`, `HeardInOrder` | `Spec => OutInOrder`, `Spec => InOrder`: each direction implements `OrderedStream` |
| `CertLifeProofs` | `TypeCorrect`, `PairMatches` | `TypeOK`, `ServedPairMatches` |
| | `LoneInstall` | `Spec => LoneInstallMatches` |

### How they are proved

Each module has one inductive invariant, `IInv` (`Served` and `Lone` in
`CertLifeProofs`), which TLC has checked on the instances of section 3. The step
lemmas go conjunct by conjunct. In the three modules of the bridge a first lemma
(`Flow`) says that every step moves the messages in one of a dozen ways: an event
is placed, a frame is written, a put lands. The other lemmas speak of these only. Why the properties are not inductive as they stand:

- **`WorkerServe`.** `inFlight - 1` stays natural only because a guard is held
  by someone and the counter is the number of held guards. `GuardHasOwner` needs
  `Serving` (a request in service belongs to one open connection) and
  `GuardStage`. `NoConnectionOutlivesServe` needs `Accepting` (a connection in a
  handshake has an accept loop in it, and none is left once they are joined).
  `QuotaOvershoot` follows from `Quota`, which adds to the completed requests
  those that have passed the check and are not counted yet: one per connection
  at most. The contract needs `Told` (`serve` leaves its wait only after a
  trigger) and `CutIsOver`.
- **`ResponsePath`.** `Carried`: what has left the channel (`Passed`) is a
  beginning of what `send()` accepted, and the channel holds the rest for as
  long as the responder may take it. It needs `Numbered`: the messages are
  numbered as they are sent and a blocked `send()` holds the latest.
- **`RequestFeed`.** `ChunksOnce` needs `InFlight` (what was fed is somewhere)
  and `Numbered`. `BoundedByPreemption` needs `Owed`, a count of the puts that
  wait: one per dropped feed and one for the feed under way. The order needs
  `Lined`: got, queue and the one put that waits stand in a line, in which only
  a disconnect may overtake.
- **`WorkerLife`.** `Protocol` relates, at each await of the main thread, the
  put under way and what the application has been or will be told. A put that
  timed out stays with the loop, so that `startup` may arrive when the main
  thread has given up. `Undisturbed` says the same of the shutdown while nobody
  has interrupted the worker.
- **`WebSocket`.** Outwards, `OnStream` and `InFlight`: the frames written are
  the first data accepted, the driver holds the next, the channel what follows.
  Until a close is written, that is, or until a write fails, which leaves a gap
  behind which nothing more is written.
  Inwards, `FeedOrder` and `Heard` about `Handed` (got, queue, put): the put
  that was given up is part of it, and the driver goes on only when its put has
  landed. `CloseLast` needs `WriteOrder` (`opening` is the head of the channel
  until it is taken) and `Quiet`: once a close is written the driver takes
  nothing of the application any more, and what it may still write is a pong.
- **`CertLife`.** `Validated`: a pair that waits to be stored has been compared.
  `LoneInstallMatches` needs `Progress`, what `live` and `tmp` hold at each step
  of an install that nobody has overlapped (`Alone`).

A refinement is proved step by step: the initial states map to one of the
abstract specification, and each step to an abstract step or a stutter. For the
WebSocket the read sequence is computed (`DataWritten`, `DataHeard`), so that the
proof first shows it to be a beginning of the written one (`WrittenIs`,
`HeardIs`) and then that it grows by one item at a time (`BeginningGrows`).

`SequenceLemmas` holds what several of these proofs need: a queue and what was
taken from it read as one sequence (`Moved`, `Joined`), an item taken from the
middle (`RemovedItems`), how many items of a kind a queue holds (`CountTaken`),
a queue that holds the rest of a rising log (`NextOfLog`, `NotOfLog`,
`PutInBoth`) and a sequence that is a beginning of another (`BeginningKept`).

### What is assumed

Only the named assumptions on the constants, which TLC evaluates in the runs:
`ListenersAssumption`, `ConnsAssumption` and `ReqsAssumption` (finite sets, each
connection belongs to a listener; a process has finitely many descriptors and
the model's requests are a bound), `QuotaAssumption`, `CausesAssumption`;
`BoundAssumption`, `FeedAssumption`, `WsAssumption` (channels and queues have
room for one item, as 16 and 64 do; the bounds on inputs are natural numbers);
`LifeAssumption`; `CertAssumption` (the sets of workers are what they say, at
least one pair is issued). The bounds on inputs appear in the models as guards
and are universally quantified in the theorems: they hold for any length of a
body, a conversation or a worker's life.

### Only model-checked

Every liveness property: the prover has no ENABLED and no fairness. These are
`RetiredShutsDown`, `HeardShutdownCompletes`, `LateListenerHeals`, `ChunksArrive`,
`OutcomeReported`, `CallEnds`, both `SendReturns`, `DisconnectHeard`,
`StartupDecided`, `TeardownJoins`, `StopSurvives`, `DriverEnds`, `OutcomeSeen`
and `RotationServed`. So are the counterexamples of section 4.

## 6. Not modelled

- The ACME account and order, and the `ChallengeStore`: the protocol belongs to
  the `instant_acme` crate. The store is per process, so that the CA may ask a
  worker that has not placed the challenge, and an order that fails leaves its
  token behind; neither touches the certificate files.
- Percent decoding of paths: a pure function of one string.
- The SNI table: `CertLife` has its default pair only. A renewal in SNI mode
  replaces the table by the renewed pair.
- SNI resolver, sockets, CLI, metrics: no state that changes after start, or
  operating system calls.
- The text of messages, header validation, access logs.
- `src/acme/challenge.rs` is not part of the module tree.
- hyper, Tokio, asyncio and pyo3 are modelled from how the code uses them, and
  marked external in `PROJECT.json`.
- Panics. A panic in a task is not modelled; where one is reached
  (`repolled` in `ResponsePath`) the model records the second poll.

## 7. Plan

Every safety property stated so far is proved. What would add most next:

- what the abstract specifications give to a reader of them: that in
  `OrderedStream` the reader always has a beginning of the writer's sequence, and
  that in `ServeContract` a request cut off was admitted before the trigger;
- the safety halves of two liveness properties: a driver that is over has closed
  the channel and set the flag (`SendReturns` of `WebSocket`), and a responder
  that is over leaves nobody blocked behind an open channel (`ResponsePath`);
- a model of the two halves of a call together, in which the drop of a
  `feed_step` is the response event that causes it.
