# A formal model of dds_abstract

`dds_abstract` gives an application two kinds of node, `DdsServer` and `DdsClient`. A node has up to
two channels, broadcast and request/reply, each over Zenoh or ZeroMQ, and one worker thread that
receives messages and runs the application's callbacks. This directory holds TLA+ models of that
code, the TLC configurations that check them on small instances, and TLAPS proofs for instances of
any size.

Every definition follows a range of source lines; `PROJECT.json` (`map`) names them. Definitions
commented "A slip" are plausible mistakes in the code, used to show that a property would notice
them; no specification uses them.

## 1. The system

| part | source | state | operations |
|---|---|---|---|
| node core | `src/src/dds_node.cpp`, `dds_thread_config.cpp` | two transports, `worker_`, `stop_requested_`, handlers, thread configuration | `Start`, `Stop`, `IsRunning`, `On*`, `SetWorker*`, `Publish`, `Request`; on the worker `ReceiveLoop`, `Dispatch`, `Report`, `ConfigureDdsCurrentThread` |
| public API | `include/dds_abstract/dds_node.hpp` | owns one core | forwards; destructors call `Stop` |
| Zenoh transport, server | `src/src/dds_zenoh_transport.cpp` | `is_open_`, `pending_`, `queue_`, `next_id_`, one `ServerReply` for each query, two mutexes and one more in each `ServerReply` | `Open`, `Close`, `on_query`, `Enqueue`, `TryReceive`, `Reply` |
| Zenoh transport, client | same | `is_open_`, one `ClientReply` for each call | `Request`, its two callbacks |
| ZeroMQ transport, request | `src/src/dds_zeromq_transport.cpp` | ROUTER or DEALER, `request_mutex_`, `is_open_` | `Open`, `Close`, `Request`, `TryReceive`, `Reply` |
| broadcast channel | both transports | PUB and `publish_mutex_`, SUB; `publisher_`, `subscriber_`, `queue_` | `Publish`, `on_sample`, `TryReceive`, `Open`, `Close` |
| node addresses | `src/src/dds_node_address.cpp` | none | `Parse`, `ZeroMqEndpoint`, `MakeTransport` |
| Python binding | `python/dds_abstract_pybind.cpp` | the GIL around the core | `start`, `stop`, `on_*`, `request`, destruction |

**How they interact.** The application calls the core. `Start` opens the broadcast transport, then
the request transport, creates the worker and waits on a promise for the outcome of its thread
configuration. `Stop` raises `stop_requested_`, closes the transports and joins the worker. The
worker polls one transport (the request transport of a server, the broadcast transport of a client)
for at most 10 ms at a time, runs a handler, and on a server passes the answer to `Reply`. Zenoh runs
`on_query` and `on_sample` on threads of its own, which meet the worker at `queue_`, `Reply` at a
`ServerReply`, and `Close` at `pending_`. ZeroMQ has no callbacks: threads of the application and
the worker use the sockets themselves. The transports share `is_open_` with everybody. In a Python
program the interpreter's lock is one more mutex around all of this.

**What is hard.**

* *Lifecycle*: `Start` can fail at five places, each of which has other things to undo; `worker_` is
  assigned after the thread already runs; nothing locks `Start` and `Stop` against each other; the
  next `Start` must find flag and transports as new.
* *Locks*: `on_query` holds its `ServerReply` mutex from `wait` to its end and takes
  `pending_mutex_` inside; `Close` nests them the other way round. `callback_mutex_` and the GIL nest
  both ways, too.
* *Stale state*: `queue_`, `pending_`, the declared queryable and what a SUB has collected outlive a
  session.
* *Correlation*: Zenoh answers carry an id drawn by the server. ZeroMQ answers carry none: the order
  in the socket is all there is, and timeouts, restarts, lost answers and threads sharing a socket
  each could disturb it.
* *Limits*: a ROUTER drops what it cannot deliver; a DEALER blocks when it cannot send.

**What makes each part correct.**

* Core: between two calls, a node is either fully up or fully down; `Start` and `Stop` return;
  callbacks are serial and confined to sessions; the worker never spins; no thread is lost.
* Zenoh server: no requester gets the answer of another; no Zenoh thread is left in the transport by
  `Stop`; `pending_` does not leak; `Stop` returns.
* Request, either backend: a call returns the answer to its own request or throws, and ends.
* Broadcast: at most once, in the order of publication; what waits for a running client is handled.
* Addresses: the transport is the one the documented grammar gives; two spellings of one address meet.
* Python: no call waits for ever for a lock that its own thread keeps from the others.

`PROJECT.json` lists the individual hazards with their lines.

## 2. The modules

| module | role |
|---|---|
| `NodeLifecycle` | abstract: sessions as an application sees them |
| `NodeCore` | `DdsNodeCore` and its worker; refines `NodeLifecycle` |
| `QueryService` | abstract: what a server does with each query |
| `ZenohServer` | the server side of `DdsZenohTransport`, with the owner and the worker that drive it; refines `QueryService` |
| `RequestReply` | abstract: what `Request` promises |
| `ZenohRequest` | `Request` over Zenoh, several threads of a client; uses `QueryService` as its server and refines `RequestReply` |
| `ZenohSystem` | `ZenohRequest` and `ZenohServer` in one state; refines `ZenohRequest` |
| `ZeroMqRequest` | the request channel of `DdsZeroMqTransport`: clients, a server, and the pipes between; refines `RequestReply` |
| `BroadcastDelivery` | abstract: what `Publish` and `OnBroadcast` promise |
| `Broadcast` | the broadcast channel over either backend; refines `BroadcastDelivery` |
| `NodeAddress` | parsing, endpoints, and the constructor that picks the transports |
| `PythonBinding` | a Python node: the GIL, `callback_mutex_`, the worker |
| `NodeCoreProofs`, `ZenohServerProofs`, `ZenohRequestProofs`, `ZenohSystemProofs`, `ZeroMqRequestProofs`, `BroadcastProofs`, `PythonBindingProofs`, `NodeAddressProofs` | theorems about the module of that name |
| `MCNodeCore`, `MCZeroMqRequest`, `MCNodeAddress` | instances for TLC; the other modules take their constants straight from the `.cfg` |

The Zenoh request path is composed through `QueryService`: `ZenohServer` is shown to implement it, and
the server steps of `ZenohRequest` are steps of it. `ZenohSystem` puts the two together and closes the
circle: with the server of the code in the place of the abstract one, the client is still
`ZenohRequest`, and so keeps the promise of `RequestReply`. `ZeroMqRequest` and `Broadcast` hold both sides of
their channel in one module.

### NodeCore

| variable | code |
|---|---|
| `app` | how the node was built and is used: role, configured channels, the threads that call `Start` and `Stop`, whether creating a thread may fail, whether a handler calls `Stop`. Chosen at the beginning, never changed |
| `pc`, `failing` | where each application thread is in `Start` or `Stop`; which of the `Stop`s are the one a failing `Start` makes |
| `open` | `is_open_` of the broadcast and request transports |
| `worker`, `joiner` | the thread `worker_` names (`NoThread` when it is not joinable), who is inside `join()` |
| `wpc`, `ready` | where each created thread is, and the promise its `Start` waits on |
| `stopRequested`, `strict`, `registered` | `stop_requested_`, the thread configuration, the handlers |
| `terminated` | `std::terminate` was called; no thread takes a step any more |

Actions follow the calls in steps between which another thread can run: `StartCheck`, `OpenBroadcast`,
`OpenRequest`, `OpenFailed` (the catch clause), `Launch` (`std::thread` begins), `AssignWorker` (the
handle is stored), `AwaitReady`, then `StopCall`, `StopCheck`, `StopClose`, `JoinEnter`, `JoinReturns`;
on the worker `Configure`, `LoopCheck`, `Receive`, `Dispatch`, `HandlerEnds`, `ReplyEnds`, `ReportEnds`,
and `HandlerStops`, a handler (of messages or of errors) that calls `Stop`. What a message contains does
not matter here, so receiving may deliver, time out or throw at any time. `Publish` and `Request` read
`worker_` and `is_open_` only and change nothing. `Start` and `Stop` take no lock, so two threads may be
anywhere in them at once; a second `join()`, a `join()` of the own thread and an assignment to a
joinable `worker_` end the program (`Terminate`).

### ZenohServer

The owner goes through `OpenFlag`, `ResetEntities`, `Declare` (or `StartFails`), `Launch`, and
`StopCall`, `CloseFlag`, `CloseLock`, `CloseCancel` for each entry, `CloseUnlock`, `Join`. `Launch` has
the three outcomes of `Start` behind the transports: the worker runs; it refuses its configuration, and
`Start` calls `Stop`; or `std::thread` throws, outside both try blocks, and the owner is back with the
transport open (`LeftOpen`). `Stop` does nothing then. The next `Start` is refused by `Open`
(`OpenRefused`), and its catch clause closes the transport, without a worker to join. A query goes
through `Arrive`, `Register`, `Enqueue`, `Wake`, `SendReply`, `Erase`; the worker through `LoopCheck`,
`TryReceive`, `HandlerReturns` or `HandlerThrows`, `ReplyFind`, `ReplySet`. The two locks held across
steps are functions of the positions (`PendingFree`, `StateFree`) instead of variables. A query and its
`ServerReply` share a name, and an answer is named by the query it was computed from, so `answered[q] #
q` would be a misdelivered answer. `queue_`, `pending_` and `next_id_` survive a restart, as in the
code, and so do callbacks. `pending_[id] = state` and `erase(id)` act on ids, not on names: that ids are
unique is something to be shown. `thrown` and `stranded` are history variables for the two ways in which
a callback loses its answer.

### ZenohRequest

A caller goes through `Call`, `CheckOpen`, `Get` (a new `ClientReply` and `session_->get`) or `GetThrows`,
then `Returns` or `TimesOut`. `OnReply` and `OnDone` are the two callbacks; they may run at any time after
the get, in any order, more than once, and after the call has returned. `captured` says whose
`ClientReply` the callbacks of a get hold: that it is never another call's is the point. `Open` and
`Close` come in between. An answer exists only after the server, an instance of `QueryService`, gave it.

### ZenohSystem

The variables of `ZenohServer`, and those of `ZenohRequest` but for `service`, which becomes what the
server's state says of each query (`Service`). A get and the query it causes are one number, so `Queries
= 1..MaxCalls` (`OneQueryPerGet`). `ClientStep` and `ServerStep` are the steps of either module; a query
arrives only after its get. `OnReply` is the one action that is written anew: the callback is given what
`query.reply` sent (`answered`), whosever answer that is, where `ZenohRequest` has the get's own. That
the two are the same is what `ServesRequests` says. Gets time out and are repeated, and the server goes
on with queries nobody waits for any more.

### ZeroMqRequest

A caller goes through `Call`, `Lock`, `Send`, then `Receive` or `TimeOut`. The server goes through
`TryReceive`, then `Reply` or `HandlerThrows`. `TryReceive` takes the first message of any connection
(`Firsts`), since a ROUTER takes from its connections in turn. It looks at `is_open_` before it polls
only, so that a poll under way when the server stops may still receive once (`lastPoll`, ended by
`LastPollEnds`). `ClientStop`, `ClientReopen`, `ServerStop` and `ServerReopen` are `Close` and `Open`. A
message is `[client, conn, n]`, a name the code never sees: the n-th request of a client, on its conn-th
DEALER, or the answer to it. `Send`, which blocks in the code, is an action that is enabled only when
there is `Room`.

ZeroMQ itself is external and taken from its documented behaviour: pipes keep their order, a DEALER
blocks in send when it has no peer or its pipe is full, a ROUTER drops what is for an identity that
is gone or has no room, tcp connections are made again and inproc connections are not. What a
socket still held when it is destroyed may be lost in any amount from its end (requests not yet
sent, answers under way).

### RequestReply

The promise of `DdsClient::Request` has two parts, `Safety` and the fairness in `Spec`. `Safety`
says: own answer or exception, and, as long as no call of this client has thrown since it was
started, never anything else. `ZenohRequest` implements all of `Spec`, with `behind` constantly
`FALSE`, so that the exception never applies. `ZeroMqRequest` implements `Safety`; the stricter
reading, never another answer at all, is refuted by the run `ZeroMqLateAnswer`. The other half, every
call ends, holds for it up to sends that block (`RequestReturnsOrSendBlocks`); `ZeroMqInprocRestart`
refutes it without that exception.

### Broadcast

Both backends go through the same steps and differ in where messages wait, so one module models both and
`backend` chooses. Publishers: `PublishCheck` (`is_open_`), `PublishLock` (`publish_mutex_`, ZeroMQ
only), `Send`. Arrival over Zenoh: `Sample` and `Enqueue` are the two halves of `on_sample`, the test of
`is_open_` being in the second. The client's owner: `OpenFlag`, `Reset`, `Subscribe` (or its failure),
`Launch`, `Stop`, `Close`, `Join`, with the three outcomes of `Launch` and with `OpenRefused` as in
`ZenohServer`; the worker: `LoopCheck`, `Poll` (ZeroMQ looks at both flags before it polls and not
after), `Receive`, `ReceiveNothing`. A message is `[n, sub]`, its number and the subscription that
receives it. A SUB collects while its client is stopped and is replaced by the next `Open`; Zenoh's
`queue_` is emptied by nobody, and its contents are handled in the next session.

### NodeAddress

A string is a sequence of tokens: separators, numerals and words, and `""` where nothing stands between
two separators. `Numerals`, their values, the ones with a minus sign (`Signed`), and the words that
begin with a digit or like `inproc` are constants (`TokensAssumption`). An application writes a record:
an endpoint of any number of parts and a port, a name (beginning with some text) after `inproc` and a
separator, a key that begins neither with `inproc` nor like an endpoint (`Addresses`). `Text` is what
the code gets. `Parse`, `IsIpv4Endpoint`, `IsDecimalInRange` and `ZeroMqEndpoint` follow the code;
`CheckGiven`, `MakeBroadcast` and `MakeRequest` are the constructor with `MakeTransport`. `Documented`
is the grammar of the design document on records, `Deviation` the three places where the code differs.

### PythonBinding

`gil` and `mutex` are the holders of the GIL and of `callback_mutex_`. `pc` says what each Python thread
does or waits for: `start()` waits for the worker with the GIL, `stop()` joins without it and takes it
again to return, the destructor joins with it, `on_request()` takes `callback_mutex_` with the GIL and
drops the function registered before (`Swap`), whose finaliser may run Python code that yields the
GIL, `request()` waits without it. The worker copies the handler under `callback_mutex_` (`Dispatch`),
takes the GIL for the handler and for the exception it raised (`Acquire`), and drops its copy without
the GIL. `Start` and `Stop` themselves are one or two steps here; `NodeCore` has them in full.

## 3. The runs

| run | instance | what it shows |
|---|---|---|
| `Node` | every application with one thread that calls `Start` and `Stop`, and one with two | a running node is served; a stopped node is closed and has no thread; no busy spinning; no `std::terminate`; no thread is lost; whoever waits for a promise waits for a thread that keeps it; the inductive invariant; `Start` and `Stop` return; refinement of `NodeLifecycle` with its liveness |
| `ZenohServer` | 2 queries, 3 calls of `Start`; handlers may throw; `Open`, the configuration of the worker and its creation may fail | `pending_` is exact; answers reach their own query; a waiting callback is always accounted for; a closed transport holds none back but those an `Open` failed on; `Stop` returns, or there is a lock cycle; so does a callback, or it is kept until something closes the transport by a handler that threw, an `Open` that failed on it or a `Start` without a thread; refinement of `QueryService` |
| `ZenohRequest` | 2 threads, 3 gets, any number of `Open` and `Close` | refinement of `RequestReply` with its liveness; an answer that meets the timeout is returned |
| `ZeroMqRequest` | a client with 2 threads, 2 requests and a restart; a second client with one; a restart of the server; `HighWater` 1 | an answer stays with its client and connection; it lags by at most the number of timeouts; answers come in order and once; the inductive invariant; refinement of `RequestReply`; calls end unless a send of their client blocks for good |
| `Broadcast` | 2 publishers, 3 messages, 2 sessions, both backends, restarts of the server, and each way in which `Start` fails | refinement of `BroadcastDelivery`; ZeroMQ sessions are fresh; nothing that an open client received is dropped; what waits for a running client is handled |
| `NodeAddress` | all malformations of one form of address, for both channels and two builds | a node speaks the documented protocol or refuses, with the named deviations; endpoints lead back to addresses |
| `PythonBinding` | 2 Python threads, 3 functions, the worker | `start()` returns; `stop()`, `on_request()` and `request()` do, but for two lock cycles, and every chain of waiting threads ends unless it is one of these; functions are dropped under the GIL, with one exception |
| `ZenohStopHangs` | 1 query, 1 session | **refutes** `StopReturns` |
| `ZenohOpenFails` | 1 query, 2 sessions, `Open` may fail | **refutes** `StoppedReleasesCallbacks` |
| `ZeroMqLateAnswer` | 1 thread, no restarts | **refutes** `RepliesMatch` |
| `ZeroMqInprocRestart` | 1 thread, inproc, room for every request | **refutes** `RequestReturns` |
| `PythonDestroyHangs` | as `PythonBinding` | **refutes** `DeleteReturns` |

### Where the code and its documents disagree

1. **Stop can hang (Zenoh).** A query's answer is set; its callback wakes, holding its own mutex. `Close`
   takes `pending_mutex_` and waits for that mutex; the callback wants `pending_mutex_` to erase
   itself. Neither goes on, and `Stop` never returns. `StopReturnsOrCycle` says that nothing else
   stops it.
2. **A failed restart strands a callback (Zenoh).** `Open` raises `is_open_` while the queryable of the
   session before is still declared. A query registers; the Zenoh calls throw; the catch clause lowers
   `is_open_` without cancelling, and the `Close` that follows returns at its first line. The callback
   waits in the closed transport until a later `Start` has succeeded and a `Stop` has followed.
3. **A late answer shifts all later ones (ZeroMQ).** A timeout leaves the request with the server and
   its answer in the DEALER, and the next call returns it.
4. **Request ignores its timeout when it cannot send (ZeroMQ).** `send` is unbounded. After a server
   restart on inproc it has no peer and waits for ever, with `request_mutex_` held. Over tcp the same
   happens once the pipe of a stopped server is full.
5. **Destroying a Python node can hang.** The destructor joins the worker with the GIL held, and the
   worker may be waiting for the GIL. `stop()` releases it; the destructor does not.

Others are in the models, as named exceptions of properties or as behaviour that a property allows:

* A thread that cannot be created leaves the transports open: the constructor of `std::thread` is
  outside the try blocks. A later `Stop` returns at `joinable()`; the next `Start` fails, and its catch
  clause closes them (`app.spawnFails` in `StoppedIsClosed`). In between, a Zenoh server takes queries that
  nobody answers (`LeftOpen` in `StoppedReleasesOthers` and `CallbackReturnsOrCycle`), and a client
  collects broadcasts.
* Overlapping `Stop` calls both reach `join()`, and the program is terminated; or the slower one finds the
  thread of the next session. `NoThreadIsLost` and `StartReturns` hold all the same; the other properties
  of the core are promised to one driving thread.
* A handler that calls `Stop` joins its own thread in a `noexcept` function, which terminates the program.
* A handler that runs between `Launch` and `AssignWorker` finds `IsRunning()` false and cannot publish.
* Zenoh requests of several threads run side by side, although the design document (6.2, 12) says that
  requests of a client are serialised. Each still gets its own answer.
* Broadcast messages left in Zenoh's `queue_` by `Stop` are handled in the next session; over ZeroMQ they
  are dropped.
* `callback_mutex_` and the GIL can lock each other out: a registration drops the function before it
  under the mutex, its finaliser yields the GIL, and a second registration waits for the mutex with
  the GIL (`MutexCycle`).
* A handler replaced while the worker uses it is dropped by the worker without the GIL.
* Addresses: `-0` is read as a number; `1.2.3.4` and `-1.2.3.4:80` become Zenoh keys; keys that
  begin like `inproc` (`inprocess/x`) are refused.

### Bounds

* `NodeCore` has no bound: its whole state space is finite for given owners. All 24
  one-thread applications are run (two roles, three choices of channels, with and without a thread that
  cannot be created, with and without a handler that calls `Stop`), and one with two threads: a client
  over one channel where both may happen.
* `MaxSessions = 3` in `ZenohServer` lets something outlive a session, a failed `Open` come after a good
  one, and a good one after that. Two queries are the least number for a misdelivered answer and for
  a lock cycle beside a healthy callback.
* `MaxCalls = 3` in `ZenohRequest`: a call that returns, a late callback of it, and two calls side by side.
  `Open` and `Close` need no bound.
* `MaxRequests = 2` for the client with two threads: one call times out and the next takes its answer,
  on the same connection or on the other side of a restart; whatever the number, the lag is bounded by a
  theorem. `HighWater = 1` fills a pipe with one request. Each side restarts once, in every order
  relative to the other; the second client shows that answers stay apart. Inproc has fewer behaviours
  than tcp as far as safety goes (everything lost at the restart, no send after it), so the passing run
  takes `Reconnects = TRUE`; the proofs cover both.
* `Broadcast`: two publishers contend for the mutex; three messages are in the queue, in `on_sample` and on
  the wire at the same time; two sessions are the least number for a message to outlive one.
* `MCNodeAddress` takes the values at and beside every limit (`0`, `1`, `255`, `256`, `65535`, `65536`,
  a number larger than an `int`), one to five numbers, missing and empty ports, separators and names.
* `PythonBinding`: two threads, for one that holds `callback_mutex_` and one that waits for it; three
  functions, for one that is registered, one that replaces it and one that is in use. No other bound.

Deadlock checking is off in every run, because every one of these programs may rest: a node that
has been stopped need not be started again, a terminated program takes no step, a constructor is
done, and bounds on sessions, requests and messages get used up. Liveness properties say what must not
get stuck instead.

### Fairness

Weak fairness for the steps of a thread inside a call, in its loop or in a callback: the operating
system runs threads that can run, `TryReceive` and `poll` have time limits, and callbacks of the
application return (they may throw). Nothing is assumed about the start of calls, the arrival of queries
or messages. In `ZenohRequest` nothing is assumed about Zenoh and the server, and in `ZeroMqRequest`
nothing about the server, which may stop reading or answering for good: `wait_for` or `poll` alone ends
a call. `WF` on a thread that waits for a mutex would not by itself rule out that others overtake it for
ever; in the runs of the transports they cannot, as every thread takes a lock a bounded number of times,
and `Close` is waited for by all. `CallbackReturnsOrCycle` excuses queries whose handler threw (the core
never calls `Reply` for those), queries an `Open` failed on and queries in a transport that a `Start`
without a thread left open, each only for as long as nobody closes the transport.
`RequestReturnsOrSendBlocks` excuses a call only if a thread of its client is in `send` without a peer
or room for ever from some time on: a pipe that is full for a while, or full while the call polls, is no
excuse.

`PythonBinding` has no such bound and assumes strong fairness where the interpreter and the mutex
provide it: a thread that waits for the GIL again and again finds it free, and so gets it in the end
(the switch interval makes the holder yield, and the requester is served); the same for
`callback_mutex_`, which is held briefly, and for a request that waits in the transport of a running
server. Yielding is strongly fair too, since it can be interrupted by calls.

## 4. The proofs

All theorems are about the specification of a module (or its safety part) with the constants'
assumptions alone.

`NodeCoreProofs`, for any owners and applications:

* `TypeCorrect`, `EveryThreadIsNamed` (`NoThreadIsLost`) and `EveryPromiseWillBeKept` hold for any number of
  threads in `Start` and `Stop` at once, whatever fails. The last is inductive by itself, as a thread keeps
  its promise before it can leave and only its own `Start` waits for it.
* `InvariantHolds`: `IInv` is inductive. Where one thread drives the node (`DrivenBy`), it says for each
  position of the owner what the handle (`HandleNamesThread`), the promise (`PromiseAgrees`), the worker
  (`ThreadFollowsOwner`), the flag (`FlagFollowsOwner`) and the transports (`TransportsFollowOwner`)
  are; `RunningIsServed` and `StoppedIsClosed` speak of the time between two calls only and are not
  inductive by themselves. The delicate part is the window between `Launch` and `AssignWorker`, where
  the thread exists and the handle does not. A thread that cannot be created and a handler that calls
  `Stop` are cases of the invariant, not hypotheses of the theorems.
* From it follow `RunningNodeIsServed`, `StoppedNodeIsClosed`, `WorkerNeverSpins` and
  `NodeNeverTerminates`, and `KeepsLifecycleSafety`: every step maps to a step of `NodeLifecycle` or a
  stutter.

`ZenohServerProofs`, for any number of queries and sessions, with failed and refused `Open`s, workers
that refuse their configuration or cannot be created, and throwing handlers:

* `TypeCorrect`; `BookkeepingHolds`. Ids are drawn from a counter that is never reset and so are
  unique, over restarts too; hence `pending_` holds exactly the registered callbacks
  (`PendingIsExact`) and an answer found by id is the query's own (`AnswersAreOwn`).
* `AccountingHolds`. `is_open_` is up where the owner's place says so, and may be up in a stopped node
  only after a thread that could not be created (`FlagFollowsOwner`, `LeftOpen`). A callback that waits
  is queued, at the worker, lost to an exception, stranded by a failed `Open`, or will be cancelled
  (`NoCallbackIsForgotten`); the step that carries it is that `Enqueue` drops a message only after
  `CloseFlag`, and `Close` reads `pending_` only after that. `StopReleasesCallbacks` follows: a
  transport that is closed holds back no callback but those an `Open` failed on, after `Stop` and after
  each `Start` that failed.
* `ServerServesQueries`: every step is one of `QueryService` or a stutter.

`ZenohRequestProofs`, for any number of threads and calls: each get shares a `ClientReply` with its own
call only (`OwnReply`), whatever order the callbacks come in. Hence `AnswersInTimeAreReturned`, and
`TransportKeepsPromise`, the safety of `RequestReply` without its exception.

`ZenohSystemProofs`, for any number of threads, gets and sessions:

* `CodeServesRequests`: every step of client and server together is a step of `ZenohRequest` or a stutter. The
  invariant is `Bookkeeping` of the server with the fact that only queries whose get was made are in it
  (`ArrivedWereMade`). A step of a callback changes the status of its own query only, as `QueryService` allows
  (`ServerStepsRefine`), and what `query.reply` sent is the query's own answer (`RepliesAsExpected`).
* `RepliesComeEndToEnd` puts this before `ZenohRequestProofs`: in the two transports of the code together, a
  call of `Request` returns the answer to its own request or throws. `SameRequester` and `SamePromise`
  only say that the instance of the proof module has the definitions of the instance in `ZenohSystem`.

Both theorems assume `OneQueryPerGet`: gets and queries are the same numbers. `ZenohSystem` has no run of
its own. Its state space is the product of two that have theirs: one thread, two gets and one session,
the least instance in which a get can time out while its query is still at the server and the next arrives,
make 881 212 states, in which TLC finds `ServesRequests` to hold, as is proved.

`ZeroMqRequestProofs`, for any clients, threads, pipe capacities, numbers of requests and restarts, with and
without reconnection:

* `IInvHolds`. Of one connection, the answers in its pipe come before the request at the worker, and that
  before the unread requests, in ascending `n` (`InOrder`): pipes keep their order and lose at their ends
  only. One thread at a time is inside (`OneInside`), so all later requests of a connection but the one
  being polled for have timed out (`LagOf`): an answer cannot be older than the timeouts allow.
* From it follow `AnswersStay`, `LagIsBounded`, `AnswersComeInOrder` and `TransportKeepsPromise`.

`BroadcastProofs`, for any number of publishers, messages and sessions, over either backend: what is
handled precedes what is in `queue_`, which precedes what `on_sample` is busy with, which precedes what
is on the wire (`Passing`); moving the first of one to the end of the next keeps this. Hence
`TransportsDeliver`, the refinement of `BroadcastDelivery`; `SessionsAreFresh`, as `Reset` empties the
wire and only a declared subscription fills it. `OpenClientDropsNothing`: each step but `Reset` and what
a closed client does moves messages only from one of these places to the next. `TypeCorrect` is more
than a list of types: no more messages are handled than were sent, since those of one subscription have
different numbers.

`PythonBindingProofs`, for any number of Python threads and functions: whoever runs Python code, or is
in a call that keeps the GIL, holds it (`GilHeld`). Hence `FunctionsDropUnderGil`, since only a
registration and the destructor drop a registered function. `OnlyTheTwoCyclesBlock` says what blocks a
Python node: who waits for whom (`WaitsFor`) is a function of the state, and unless one of the two
cycles is closed every chain of it ends after at most four. Its invariant adds that only a thread inside
a call that keeps the GIL, or one that runs Python code, has it (the converse of `GilHeld`), that a
thread has `callback_mutex_` exactly when its registration has exchanged the function and not yet
returned (`MutexHeld`), and that only the owner drives the node (`OwnerDrives`).

`NodeAddressProofs`, for addresses of any length over any numerals and words that `TokensAssumption` allows:

* `FirstDot` and `LastColon` find what their names say, and each turn of the loop takes one part off the text
  (`NextTurn`, `LastTurn`). Hence the code accepts as an endpoint the four numbers and the port of its
  documented grammar, with minus zero, and nothing else (`EndpointMeans`), and as an inproc address a name
  after one of the two spellings (`InprocMeans`); no key is taken for either (`KeyParsed`).
* The constructor keeps `IInv`: a channel that was passed has the transport `Parse` gave for its
  text, and an exception has its channel. With `ParseAccepted` follow `NodesSpeakDocumentedProtocol` and
  `NodesRefusedForAReason`.
* `EndpointsLeadBack`: the text determines the record (the colon splits it, and the parts stand at its odd
  places, `JoinedDetermines`), and a prefix can be cancelled; so equal endpoints mean equal addresses.

Every invariant of a passing run is the subject of a theorem. Only model-checked: all liveness, as fairness is
outside what these provers handle. It is most of what `PythonBinding` is about; `OnlyTheTwoCyclesBlock`
is the safety half of it.

## 5. Not modelled

* *Undefined behaviour*: a socket or session replaced by `Open` under a thread that is between its check
  of `is_open_` and its use (`Request`, `Publish`). The guards of `ClientReopen`, `ServerOpen` and
  `Open` exclude it. What two threads inside the `send` of one PUB socket would do is undefined, too;
  `PublishLock` keeps them apart.
* *The lifetime of `this` in Zenoh callbacks*: whether undeclaring waits for running callbacks is a
  matter of zenoh-c. The models do not assume it for what callbacks do, and do not destroy the transport.
* *Exceptions of `query.reply`* on a Zenoh thread (its entry in `pending_` would stay), and reports of errors
  while a stop is requested, which `Report` drops in silence.
* *Binding an address again* right after the old socket was reset, which ZeroMQ may refuse; a refused
  `Open` is modelled, not its cause. A SUB on inproc that is not connected again loses messages, which
  `Send` allows.
* *Negative timeouts*: `poll` waits for ever, Zenoh gets a very large number. The public API takes any
  `milliseconds`. *Time* itself is left out: a timeout is a choice.
* *Python's `publish`, `on_broadcast` and setters*, which copy their arguments and forward; *payloads*;
  and *the build and the tests*, which were read for intent only.

## 6. What could come next

1. `NodeCore` and `PythonBinding` around `ZenohSystem`, to follow a request from the Python thread of one
   process to the handler of another. They meet through the positions of owner and worker so far.
2. Two driving threads with both channels, for what a half-closed node does to its peers.
