# haidnor-log in TLA+

haidnor-log shows the log files of many servers in one browser page. A *log
client* runs on each server; a *log center* asks the clients for log lines and
pushes them to the browser. This directory holds TLA+ models of the parts of that
program where threads, messages and failures meet, the TLC runs that check them and
the TLAPS proofs about them.

Paths below are relative to the repository; `remoting/` stands for
`log-remoting/src/main/java/haidnor/remoting/`, `center/` for
`log-center/src/main/java/haidnor/log/center/`, `client/` for
`log-client/src/main/java/haidnor/log/client/`.

## 1. The system

| component | state | operations | who calls it |
|---|---|---|---|
| invocation, `remoting/core/NettyRemotingAbstract.java` | `responseTable`, two semaphores, one `ResponseFuture` per call | `invokeSyncImpl`, `invokeAsyncImpl`, `invokeOnewayImpl`, `processResponseCommand`, `requestFail`, `failFast`, `scanResponseTable` | the center (server side) and the client; its timer; Netty handlers |
| dispatch, the same file | `processorTable`, pools | `processRequestCommand` | Netty handlers of the answering side |
| connection table, `remoting/core/NettyRemotingClient.java` | `channelTables`, its lock | `getAndCreateChannel`, `createChannel`, `closeChannel` | every call of the client, channel handlers |
| connection events, `NettyEventExecutor` | bounded queue | `putNettyEvent`, `run` | channel handlers; calls the listener |
| node registry, `center/service/ServerNodeManager.java` | IP -> channel | `register`, `unregister`, `getChannel` | heartbeat pool, event thread, queries |
| console, `center/websocket/WebsocketServer.java` | per session: request, status, session, last digest | `onOpen` (push thread), `onMessage`, `onError`, `onClose` | websocket container |
| queries, `center/service/LogClientService.java` | none (futures of one call) | `getLog`, `getLogFolder` | console, controllers |
| configuration, `center/config/ServerNodeConfig.java` | list, map, JSON, time stamp | `loadConfig`, `refreshConfig` | timer; read by queries and controllers |
| log reading, `log-common/.../LogUtil.java` | none | `readLastRows`, `margeLog` | client processors, `getLog` |
| frames and files, `RemotingCommand`, `RandomAccessFileResponseCommand` | none | `encode`, `decode`, streaming write | Netty pipeline |
| TLS, Spring wiring, helpers | - | - | - |

How they interact: a `LogClient` heartbeats every 3 seconds with `invokeSync`; the
center registers the channel the heartbeat came by. The push thread of a console
(or `onMessage`, or a controller) calls `getLog`, which takes each node's channel
from the registry and calls `invokeSync` on it; the client's dispatch reads the
file and answers. Closing a connection fails its calls (`failFast`) and reports
events, whose listener closes the channel again and unregisters it.

What is hard, and what makes each part correct:

* **invocation** - the caller, the I/O thread, the handler thread, the timer and
  the callback executor complete the same `ResponseFuture`. Correct: a call ends
  once, with a verdict that has a cause; no callback, permit or entry is lost; no
  call waits for an answer that cannot come.
* **registry** - heartbeats and close events of several connections of one node are
  handled late and out of order by two pools. Correct: a connected node ends up
  registered, a dead one does not.
* **console** - two threads, four unguarded fields, one socket. Correct: the thread
  ends with the session, stop stops, a request is answered, an unchanged log is not
  sent again.
* **dispatch** - rejection, exceptions, a file written in packages while other
  replies wait. Correct: a request that wants an answer gets one, none gets two, and
  nothing is written between the packages of a file.
* **connection table** - concurrent creation, a lock with a timeout, handlers of old
  connections that come late. Correct: callers of one address share its connection,
  an old channel's end never removes a new one, the calls of a dead one fail at once.
* **configuration** - three fields assigned one after the other from a file that is
  being written. Correct: a good file is served in the end.
* **log reading and files** - a file that grows or is emptied while it is read
  backwards and sent; `int` lengths. Correct: the rows start where they should, an
  accepted frame has the body its header announces.
* **queries** - several nodes, any of which may fail; a pool that blocks. Correct: no
  log is left out silently, lines are merged in order, the query ends.

`PROJECT.json` lists these hazards at their lines.

## 2. How the project is built

Each component has a module with its state, its actions and its properties, written
so that it can be proved about: parameters are CONSTANTs under a named ASSUME, one
action per step of a thread, no RECURSIVE operators.

| component | model | checked by | proofs |
|---|---|---|---|
| invocation | `RemotingInvoke`, abstract: `InvokeContract` | `MCRemotingInvoke` | `RemotingInvokeProofs`, `RemotingVerdictProofs` |
| dispatch, files on the wire | `RequestDispatch` | `MCRequestDispatch` | `RequestDispatchProofs` |
| connection table | `ChannelTables` | `MCChannelTables` | `ChannelTablesProofs` |
| node registry, events | `NodeRegistry` | `MCNodeRegistry` | `NodeRegistryProofs` |
| console | `WebsocketPush` | `MCWebsocketPush` | `WebsocketPushProofs` |
| log reading, frames of files | `LogTail` | `MCLogTail` | `LogTailProofs` |
| queries, merge, configuration | `LogQuery`, which extends `LogMerge` and `ConfigReload` | `MCLogQuery` | `LogQueryProofs` |

`LogQuery` is the composition: its next-state relation interleaves the steps of
`ConfigReload` with those of the query, whose tasks read the map that the timer
replaces; once the tasks are over, the steps of `LogMerge` parse and sort what they
brought.

Left for later: an abstract specification of the registry; a composition of
`LogQuery` with `InvokeContract` in place of its `Answers` and `Throws`.

## 3. The models

### RemotingInvoke

One call = one request = one opaque (a static counter). A step is one access to
shared state, so every interleaving of the threads is a behaviour.

| variable | code |
|---|---|
| `caller`, `written`, `age` | where the calling thread is; what became of its `writeAndFlush`; how much of the timeout is over |
| `table` | `responseTable` |
| `response`, `sendFailed`, `latched`, `called` | fields of `ResponseFuture` (`responseCommand # null`, `!sendRequestOK`, latch, `executeCallbackOnlyOnce`) |
| `released`, `permits` | `SemaphoreReleaseOnlyOnce`, the two semaphores |
| `tasks` | the callback executor, which may also reject a task |
| `chan`, `net` | the channel, the responses under way |
| `pc`, `cur`, `todo`, `overdue` | I/O, handler and timer threads, the iterator of `failFast`, `rfList` |
| `outcome`, `notified` | observations: the caller's verdict, runs of the callback |

`Write`, `Encode`, `WriteSucceeds`/`WriteFails` are one `writeAndFlush`: it is a task
of the channel's handler thread (the encoder is there), then of its I/O thread,
which also runs the listeners. The handlers of a channel share one thread of the
`DefaultEventExecutorGroup`, so `processResponseCommand`, `close`, `failFast` and
`channelInactive` of one channel exclude each other. `FailsFastWhenInactive` tells
the client, whose `channelInactive` closes the channel (as long as it is in
`channelTables`), from the center, whose does not.

`InvokeContract` is what a caller may rely on: refused or pending, one final
outcome, a response only if the peer answered.

### NodeRegistry

Connections of one or more nodes, each used once. `chan` is the channel's life at
the center, `queue`/`handling` the event thread, `asked` the `channel.close()` calls
left to handler threads, `pool` heartbeats submitted to the four pool threads,
`link` what the client believes. `excused` is a history variable: channels that were
registered when no longer active, or whose `OUT_BOUND_CLOSE` met a full queue. Only
`IN_BOUND_ALL_IDLE` and `OUT_BOUND_CLOSE` have a listener method; other events take
a place in the queue. A `close()` of a channel that is closed already still passes
its close handler until Netty has taken the pipeline apart (`gone`).

### WebsocketPush

The fields of one endpoint, the push thread and the container's thread field access
by field access; `inbox` and the buttons of `index.html` as the world. A digest is
the log it is the digest of; a log is the request and the version of what the nodes
hold. The container gives one session's messages to one thread at a time, refuses a
`sendText` while another is under way or after the close, and calls `onError` for an
exception that leaves `onMessage`. `shown` is the log last sent, which the console
displays. `overtaken` is a history variable: the last log sent is an answer of
`onMessage`, and it is older than the one shown before, because the push thread fetched
and sent a newer one in between. As the digest is then that of the newer log, it is not
sent again and the console stays behind until the log changes. `PushCatchesUp` names
this as the only way in which the console may stay behind the digest.

### ChannelTables

`table` is `channelTables`, `lock` is `lockChannelTables`, `chan` the life of each
connection. A caller (`pc`, `addr`, `cw`) is one `invokeSync` or `invokeAsync` of
the client: `getAndCreateChannel` without the lock, `createChannel` under it (one
step for the decision, which reads `isOK`, one for `isDone` and the changes), the wait
for the connection, the call, and `closeChannel` when it fails. `handler`, `asked` and
`inactive` are the handler thread of each channel with the `close` and
`channelInactive` queued for it; `failedFast` are the channels whose calls it failed.
`tryLock(LOCK_TIMEOUT_MILLIS)` may give up in every state in which the lock is taken,
and takes a free one. `overlooked` is a history variable: the channels that escape by one of the
three ways named at `EndedFailsFast`. They are weaknesses of the code, each of which
costs the calls of that channel their timeout; the properties claim the rest.

### RequestDispatch

`processRequestCommand` for the requests of several connections: `Decline` (no
processor, or `rejectRequest`), `Overload` (the pool rejects), `Submit`; `queue` and
`status` are the pool; `Respond`, `RespondNull`, `Throw` the task. Replies go to the
handler thread of their connection (`tasks`), which writes a header and, for a file,
its packages (`writing`, `left`) in one task of its own; `wire` is what was written,
as parts of replies. `wants` says whether `isOnewayRPC` holds: the name is the
inverse of its effect, since `RemotingCommand` starts with 1 and a reply is sent
exactly when it is 1 (`RemotingCommand.java:39-42, 203-209`). `BreakOff` is the
catch clause of the writing loop, which leaves the connection open behind half a
frame. `broken` remembers the requests whose file was broken off: only these replies
may lack their end, and `FramesWhole` still claims that what is written behind them is
whole. What the peer makes of it is not claimed: it still expects the body that the
header announced, and takes the next reply for it.

### LogTail

One `GET_LOG` on a client: opening, the loop of
`readLastRowsAndGetRandomAccessFile` byte by byte, the cast of the length to `int`
(`IntRange` values, two's complement), the accepted or refused frame, the packages.
Meanwhile `Log` appends to the file and a rotation may empty it (`cut`). The
reference definition `RowStart` counts separators from the end of the file.
`FrameComplete` claims that no length is shortened only below the range of an
unsigned `int`: a longer tail may be cut to a positive one.

### ConfigReload, LogMerge, LogQuery

`ConfigReload`: the file with its modification time, `loadConfig` and
`refreshConfig` statement by statement (`loader`), the three fields. `blurred`
remembers that the last write got no modification time of its own; without one the
timer cannot see the change, and `ConfigCatchesUp` excludes it.

`LogMerge`: `margeLog`, a line at a time. `ParseLine` reads the time of the next
line of `lineList` and starts a stack of `logList` with it or, if the line has none,
puts it on the last stack: a line without a time that comes first is dropped, one
that leads the log of a later node joins the last stack of the node before.
Concurrent requests share a `SimpleDateFormat` (`LogUtil.java:165`). The model lets
any line with a time be read as one with another time or with none, and the history
variable `misread` keeps such lines; a text without a time is never read as one with a
time, since the parser takes its digits from the text. `Sorted` is what the JDK
promises of a stable sort, not its algorithm.

`LogQuery`: `getLog`'s tasks in a common pool, each with its failures - no channel,
no configuration, `SYSTEM_ERROR`, another response (`SYSTEM_BUSY` and `NOT_SUPPORTED`
have no body, and the `NullPointerException` of reading it is part of `Throws`), the
timeout - then `Join`, `Collect` for the lines of each future, the steps of `LogMerge`
and `Merge`. Lines carry the node and the row they come from, so that
`NothingLostSilently` and `MergeKeepsOrder` speak of the lines themselves: each of
them is shown exactly once and where it belongs. They exempt no more than a misread line
and what depends on it: a node's lines before the first one whose time is read, and
the place of the misread line itself. Without any stack `reduce(...).get()` throws,
or an empty log is shown if the IPs are; the model allows both.

## 4. Runs

| run | instance | shows |
|---|---|---|
| `invoke_async` | 2 async calls, 1 permit, client | types, permits conserved, callback at most once and never lost, table holds only pending calls, nobody waits on a dead channel |
| `invoke_fair` | 1 sync call, or 1 async and 1 oneway, center | verdicts have causes, responses are not overwritten, every call ends, permits come back, `InvokeContract` is implemented |
| `invoke_early` | 1 sync call | **refuted**: a timeout only after the deadline |
| `registry` | 1 node, 2 connections, queue of one place | connected nodes stay registered, silent connections are closed, closed ones unregistered, the close echo ends |
| `registry_offline` | same | **refuted**: an ended connection is not listed |
| `push` | 2 requests, 3 messages, 1 change | push thread ends with the session and never fetches for no parameter, stop silences, cats are answered, the digest and the console catch up |
| `push_repeat` | same | **refuted**: an unchanged log is not pushed again |
| `channels` | 2 callers, 2 connections of one address | a pending connection is shared, no live one is lost, an ended one fails its calls, calls return |
| `tail` | all files of up to 3 bytes, and lengths 5 to 9, 16, 17 around an `int` of 16 values; rows 0 to 3; growth 2; packages of 2 | backward reading ends at the row start, accepted frames are complete, the answer ends |
| `tail_rows` | same, no growth | **refuted**: the last *rows* lines are read |
| `dispatch` | 2 requests of one connection, 1 of another, pool of 2, up to 2 packages | frames stay whole, the pool keeps its bound, requests that want it are answered |
| `query` | 2 nodes, 1 pool thread, one log of 3 lines for each node, 1 misread line, 4 file contents, 2 modification times | no log lost silently, merge keeps order, a good file is served in the end, queries end |

Bounds. The hazards of the invocation are races over *one* future or one permit:
two calls on one channel are enough for a permit to be passed on, for two entries in
`failFast` and in a scan. Calls on different channels share only the table and the
semaphores, which these do too. For the registry two connections in turn are the
least with which late events of the old one meet the new one; the queue of one place
(`MaxEvents = 0`, since `size() <= maxSize` lets one more in) is full while an event
is being handled. For the console, three messages give cat-stop-cat and
cat-other-cat, one change a log that is newer than one being sent. For the
connection table, two callers race for the creation and two connections in turn give
an old one whose handlers come late. Addresses share only the lock. For the tail, the
longer files pass the positive half of the `int` (8) and its range (16), with the two
bytes of growth coming before or after the length is taken; two bytes per package
give full, short and no packages. For dispatch, two requests of one connection are
answered by two workers at once, the third waits for a worker; two packages give a
place for a reply between them. For the query, one pool thread lets one node wait for
another; two modification times give a change while the first is being loaded. The
logs, `<<0, 2, 0>>` and `<<0, 1, 1>>` with 0 for no time, have a leading line without
a time and one behind its head, two lines of one time, and times of one node
before and after those of the other; with one misread line (`MaxMisread`) a head is
lost or moves, and everything that hangs on it with it. The proofs have no such bound.

Deadlock is checked except in the four models in which everything may be over:
`RemotingInvoke`, `NodeRegistry`, `WebsocketPush` and `RequestDispatch`.

The four refutations are real disagreements, described under `findings` in
`PROJECT.json`. `VerdictHasCause` says exactly when the early timeout may happen.

Fairness. A thread that has begun an operation goes on; timers keep firing (their
bodies catch `Throwable`, the heartbeat and the configuration timer are set again in
a `finally`); Netty completes every write promise. A connect ends, by its timeout if
not otherwise. Nothing is assumed of the network, the peer, the user or a caller
that has not begun. In `NodeRegistry` the idle handler eventually finds a connection
whose client has gone, but the end of a connection need not arrive. In
`WebsocketPush` `getLog` comes back, because its calls have a 30 s timeout; it may
always come back with an exception. In `LogQuery` the same timeout is the only end of
a call that is certain. In `RequestDispatch` processors return. In `LogTail` the
scan and the writing loop go on while the application need not write.

## 5. Proofs

For all sets of calls and channels and all capacities, from `CallsAssumption` (the
three kinds of calls are disjoint, the calls that need a permit finitely many),
`PermitsAssumption` and `SideAssumption`:

* `RemotingInvokeProofs`: `TypeCorrect`; `PermitsAlwaysConserved`. The latter needs
  types only: every step either moves a call in or out of `Holding` and a permit the
  other way, or neither. The lemmas say so for the operators `Release` and
  `RunCallback`, which every completing thread uses.
* `RemotingInvokeProofs`, second part: `CalledBackAtMostOnce`, `CallbackNeverLost`,
  `ResponsesStay`, `ImplementsContract`. None of them is inductive. `IInv` adds
  - `CalledOnce`: the callback count is the once-flag;
  - `IoConfined`, `HandlerConfined` (`Confinement`): which kind of call a thread can
    be working on at each of its stages, on its own channel;
  - `ResponseStored`: a future that holds a response has left the table or is in
    the hands of the thread that stored it, and its request was answered - so that no
    `putResponse(null)` can come after it: the write listener of a sync call stores
    null only if the write failed, and then the peer cannot have answered; failFast
    runs on the thread that handles responses.
  `ImplementsContract` is the safety half of `KeepsContract`: initial states map to
  initial states and every step to a contract step or a stutter.
* `RemotingVerdictProofs`, on top of the former invariant:
  - `VerdictsHaveCauses` by `NullHasCause`: a null that wakes a caller is put by a
    thread that has marked the call, and it marked it for a failed write or a close;
    `Excused` says what is still true of such a call when it judges.
  - `TableOnlyPending` by `TakenFirst`: whoever submits a callback has taken the
    entry out before, and no entry is put back.
  - `NobodyWaitsOnDeadChannel` by `DeadAreVisited`: while a channel is dead, an entry
    whose request got as far as the wire is one that `failFast` has still to visit.
    A call registered after the iterator was made is not on the wire of a dead
    channel, because writes and `failFast` share the handler thread; that is why the
    weakly consistent iterator does no harm.
  - `NoPermitForgotten`, the safety half of `PermitsComeBack`, by `EndedIsReleased`:
    a callback runs and gives its permit back in one step, and so does a write
    listener; an async call without its callback is in somebody's hands by
    `CallbackNeverLost`, a oneway call not yet released has an unfinished write.

The other components, each for any value of its constants:

* `RequestDispatchProofs` (`DispatchAssumption`): `TypeCorrect` includes the pool's
  bound and that the work queue is exactly what waits, without repetition.
  `FramesAlwaysWhole` needs `TasksUnwritten` (a reply that waits for the handler
  thread has left no part on the wire), `WrittenSoFar` (the parts of a file on the
  wire are those counted off) and `WritingLast` (the last part written is the one
  before the next package); `AppendWhole` says which part may follow whole replies.
  `NoRequestForgotten`: a request that wants an answer is in the queue, with a worker,
  among the tasks of the handler thread, being written, or answered as a whole, unless
  its connection is closed or its own file broken off (`WantedOnItsWay`). `WireGrows` is the reason an
  answer once written stays one.
* `ChannelTablesProofs` (`TablesAssumption`): `TypeCorrect`, `PendingAlwaysShared`,
  `NeverOrphaned`, by one invariant: the lock excludes (`LockHeld`), what its holder
  read stays true (`ReadStays`), a channel in use is past its connecting
  (`UsedWasOpen`), entries are under their own address (`KeysRight`).
  `EndedNeverForgotten` adds where a connection goes that leaves the table
  (`LeftIsClosed`): it is being closed, was closed, or was one of those overlooked.
* `LogTailProofs` (`TailAssumption`): `RowStartFound` - the loop has counted the
  separators between its pointer and the end, so the reference set `Starts` has at
  most one element, which is where it stops; `FramesComplete` - what was sent and what
  is left add up to the announced length, and an accepted length is the measured one
  by the arithmetic of the cast.
* `NodeRegistryProofs` (`NodesAssumption`, `EventsAssumption`): `TypeCorrect`, with
  the bound of the event queue; `LiveEntryKept`; and three steps of a close, each for
  any length of the queue. `LiveEntryKept`: a connected client loses its entry only to
  a late heartbeat of another connection of the same client, or to an event of a
  connection that is closed or to be closed. It needs `ClosesRight`: every event in
  the queue is of a connection that was made, and the one at the listener is of a
  connection whose close was asked for before, which a later step may carry out but
  not take back. `ClosingAlwaysReported`: a registered connection that is closing has
  its event in the queue or in the executor's hands, unless the full queue refused it
  or a heartbeat of it was handled late. `NoReportLost`: no step loses the event
  before the node is unregistered.
  `NoEchoOfTheGone`: unregistering closes the connection and so reports it again, but
  a connection that is gone adds no event, so the echo can only die.
* `WebsocketPushProofs` (`ParamsAssumption`, `BoundsAssumption`): `TypeCorrect`
  and `AlwaysFetchesSomething`, which need one another: a log has a type only if a
  parameter was fetched; `status` is set after `param`, which is never taken back.
  `ConsoleNeverBehind`: between two rounds of the push thread the console does not show
  an older state of the log than the digest stands for, unless `overtaken`, by
  `DigestRight`: what is being pushed is the digest, and an answer that onMessage has in
  hand and that is older than the digest is older than what is shown. And
  `NoCatUnanswered` by `CatInHand`: from a "cat" to its answer onMessage keeps one
  message, and `param` stays what this message set.

* `LogQueryProofs` (`MergeAssumption`, `QueryAssumption`, `ConfigAssumption`):
  `TypeCorrect`; `ShownLogIsComplete`, which is `NothingLostSilently`; and
  `ShownLogIsInOrder`, which is `MergeKeepsOrder` - for any number of nodes, lines and
  times, any logs and any number of misread lines. The merge is a loop, so what it
  computes is an invariant of its steps and needs no induction over sequences:
  - `TasksInv`: a future without a value belongs to a node of `errorContext`, once
    `Join` has let the request go on;
  - `CollectedInv`: `lineList` holds the lines of the nodes collected so far, all of
    them, each once (`LinesDistinct`), a node's lines side by side and in their order;
  - `StackedInv`: the stacks hold exactly the lines parsed so far, except those that
    precede every stack; a line whose time was read begins a stack of this time, one
    without a time never does; the stacks keep the order of `lineList`, and the line
    parsed last ends the last stack - which is why the next line, if it has no time,
    gets behind the line it followed.
  `SortedStacks` carries this over the sort: a permutation loses and doubles no
  stack, equal times keep their order, and what is inside a stack is not touched.
  `NextInv` goes through the actions, with a lemma for each step of the loop.
  `NoChangeOverlooked` is about the configuration: the time is noted before the file is
  read, so a write during the loading makes the times differ again (`TimesSeen`), unless
  it is given no new time; equal times mean that what is served is the file.

Safety halves of liveness. Some of the theorems above say for every value of the
constants what a liveness property rests on, namely that the thing waited for is never
out of everybody's hands, or that what was undone is not done again:

| theorem | the property that it is the safety half of |
|---|---|
| `NoPermitForgotten` | `PermitsComeBack` |
| `CallbackNeverLost` | `AsyncCalledBack` |
| `NoRequestForgotten` | `EveryRequestAnswered` |
| `EndedNeverForgotten` | `EndedFailsFast` |
| `ClosingAlwaysReported`, `NoReportLost`; `NoEchoOfTheGone` | `ClosedIsUnregistered`; `CloseEchoEnds` |
| `NoChangeOverlooked` | `ConfigCatchesUp` |
| `NoCatUnanswered` | `CatIsAnswered` |
| `LiveEntryKept` | `StaysRegistered` |
| `ConsoleNeverBehind` | `PushCatchesUp` |

What is left of these properties is that the threads named go on, which is the fairness
of section 4. The invariants themselves were checked by TLC on the instances of the
runs before they were proved.

What the proofs do not cover. All liveness (the `~>` properties, the fairness half of
`KeepsContract`, `StaysRegistered` and the like) rests on fairness and `ENABLED`,
outside the prover, and is model-checked; so does that a stable sort of the stacks
exists for every input, which only the end of a query depends on (`QueryEnds`) and
which needs induction over data.

## 6. Not modelled

* The three libraries under `log-center/src/main/resources/static/js` (Vue, axios,
  Element UI) are published third-party code, two of them minified; nothing of this
  program is in them. The program is the Java code and the script in `index.html`,
  whose buttons and socket are the world of `WebsocketPush`.
* Interruption of a caller, a null `InvokeCallback`, RPC hooks, `shutdown` of the
  client (the program never calls it; a callback executor that rejects is modelled).
* The second, nested `failFast` of the client's `close` (its `closeChannel` closes
  the channel again): it visits the same entries on the same thread.
* Events for exceptions and connects in `NodeRegistry`: ignored by the listener
  like the "other" events that are modelled.
* `putNettyEvent` is one step; in the code several handler threads may pass its size
  check together and overfill the queue by one event each.
* Effects of the memory model: visibility of the plain fields of `WebsocketServer`
  (the push loop sleeps and does I/O in every round), the unsynchronized `HashMap`
  reads of `ServerNodeManager` (line 36).
* `LogUtil.readLastRows`, the same loop with a copy of the bytes, has no caller.
  `GetLogFolderProcessor` lists a directory; `getLogFolder` is the fan-out of
  `getLog` with a union of sets in place of the merge.
* Compression: `README.md:66-67` of the repository announces it, but the zlib code is
  commented out (`GetLogProcessor.java:20-21`). The file that a reply streams is not
  closed when the writing fails.
* TLS, Spring wiring, controllers, CORS, log levels, JSON, the fields of an ordinary
  frame, formatting: conversions and configuration of libraries, without steps that
  interleave.
