--------------------------- MODULE RemotingInvoke ---------------------------
(***************************************************************************)
(* The calling side of the remoting layer: NettyRemotingAbstract with its  *)
(* ResponseFuture and SemaphoreReleaseOnlyOnce, shared by the log center   *)
(* (NettyRemotingServer) and the log client (NettyRemotingClient).         *)
(*                                                                         *)
(* A call is identified by its request, hence by its opaque: the static    *)
(* counter RemotingCommand.requestId gives every request of a process a    *)
(* new one.  Four kinds of thread touch a call's ResponseFuture and race:  *)
(*   - the caller, inside invokeSyncImpl / invokeAsyncImpl / invokeOneway; *)
(*   - the I/O thread of the channel, which runs the write listeners;      *)
(*   - the handler thread of the channel (its DefaultEventExecutorGroup    *)
(*     thread), which runs processResponseCommand and, on close, failFast; *)
(*   - the timer, which runs scanResponseTable every second,               *)
(* and the callback executor, which runs the submitted callbacks.          *)
(* Every access to shared state that another thread can observe is a step. *)
(***************************************************************************)
EXTENDS Naturals, FiniteSets

CONSTANTS
  SyncCalls, AsyncCalls, OnewayCalls,  \* the requests, by the way they are invoked
  Channels,                            \* the connections
  ChannelOf,                           \* the connection each call is made on
  AsyncPermits, OnewayPermits,         \* the capacities of the two semaphores
  FailsFastWhenInactive,  \* channelInactive closes the channel: TRUE for the
                          \* client, FALSE for the server
  NoCall                  \* "this thread works for no call"

Limited == AsyncCalls \cup OnewayCalls  \* calls that need a permit
Tracked == SyncCalls \cup AsyncCalls    \* calls with a ResponseFuture
Calls   == SyncCalls \cup Limited

ASSUME CallsAssumption ==
  /\ SyncCalls \cap AsyncCalls = {}
  /\ SyncCalls \cap OnewayCalls = {}
  /\ AsyncCalls \cap OnewayCalls = {}
  /\ NoCall \notin Calls
  /\ IsFiniteSet(Limited)
  /\ ChannelOf \in [Calls -> Channels]

ASSUME PermitsAssumption == AsyncPermits \in Nat /\ OnewayPermits \in Nat

ASSUME SideAssumption == FailsFastWhenInactive \in BOOLEAN

VARIABLES
  caller,      \* where the calling thread is
  age,         \* how old the call's ResponseFuture is
  written,     \* what became of the channel.writeAndFlush of the call
  outcome,     \* what the sync caller got, or what the async callback saw
  table,       \* responseTable: the opaques it holds
  response,    \* calls whose ResponseFuture.responseCommand is not null
  sendFailed,  \* calls whose ResponseFuture.sendRequestOK is false
  latched,     \* calls whose ResponseFuture.countDownLatch is down
  called,      \* calls whose executeCallbackOnlyOnce is set
  notified,    \* how many times each call's InvokeCallback ran
  released,    \* calls whose SemaphoreReleaseOnlyOnce.released is set
  permits,     \* available permits of semaphoreAsync and semaphoreOneway
  tasks,       \* callback executor: submitted <<call, submitting thread>>
  chan,        \* life cycle of each channel
  net,         \* responses on their way to, or queued in, the handler thread
  pc,          \* where each I/O, handler and timer thread is
  cur,         \* the call such a thread is working for
  todo,        \* per channel: entries the iterator of failFast still has to visit
  overdue      \* rfList of scanResponseTable

callVars   == <<caller, age, written>>
futureVars == <<response, sendFailed, latched>>
onceVars   == <<called, notified, released, permits>>
netVars    == <<chan, net>>
threadVars == <<pc, cur, todo, overdue>>
vars == <<callVars, outcome, table, futureVars, onceVars, tasks, netVars, threadVars>>

CallerStates == {"idle", "acquired", "refused", "registered", "waiting",
                 "judging", "leaving", "returned", "threw"}
Outcomes == {"none", "response", "null", "timeout", "sendFailure", "exception"}
ThreadStates == {"idle",
                 "markUnsent", "dropEntry", "wakeCaller",
                 "gotResponse", "removeAnswered", "complete",
                 "failFast", "removeFailed", "markFailed", "putNull",
                 "failCallback", "failRelease",
                 "scan", "scanRelease", "scanRemove", "fire"}

Io(ch)      == <<"io", ch>>
Handler(ch) == <<"handler", ch>>
Timer       == <<"timer", "timer">>
Threads     == {Io(ch) : ch \in Channels} \cup {Handler(ch) : ch \in Channels} \cup {Timer}

Pools       == {"async", "oneway"}
PoolOf(c)   == IF c \in AsyncCalls THEN "async" ELSE "oneway"
Capacity    == [p \in Pools |-> IF p = "async" THEN AsyncPermits ELSE OnewayPermits]

(***************************************************************************)
(* The objects of a call.                                                  *)
(***************************************************************************)
(* SemaphoreReleaseOnlyOnce.release: a sync call has none (once = null). *)
ReleaseUnguarded(c) ==
  IF c \in Limited
  THEN /\ released' = released \cup {c}
       /\ permits' = [permits EXCEPT ![PoolOf(c)] = @ + 1]
  ELSE UNCHANGED <<released, permits>>

Release(c) ==
  IF c \in Limited \ released
  THEN /\ released' = released \cup {c}
       /\ permits' = [permits EXCEPT ![PoolOf(c)] = @ + 1]
  ELSE UNCHANGED <<released, permits>>

(* ResponseFuture.executeInvokeCallback: compare-and-set, then the callback *)
(* reads responseCommand.                                                   *)
RunCallbackUnguarded(c) ==
  IF c \in AsyncCalls
  THEN /\ called' = called \cup {c}
       /\ notified' = [notified EXCEPT ![c] = @ + 1]
       /\ outcome' = [outcome EXCEPT ![c] = IF c \in response THEN "response" ELSE "null"]
  ELSE UNCHANGED <<called, notified, outcome>>

RunCallback(c) ==
  IF c \in AsyncCalls \ called
  THEN /\ called' = called \cup {c}
       /\ notified' = [notified EXCEPT ![c] = @ + 1]
       /\ outcome' = [outcome EXCEPT ![c] = IF c \in response THEN "response" ELSE "null"]
  ELSE UNCHANGED <<called, notified, outcome>>

(* NettyRemotingAbstract.executeInvokeCallback, run by thread t: submit to *)
(* the callback executor or, when it rejects the task, run it here; either *)
(* way the callback is followed by the release of the permit.              *)
ExecuteInvokeCallback(c, t) ==
  \/ /\ tasks' = tasks \cup {<<c, t>>}
     /\ UNCHANGED <<onceVars, outcome>>
  \/ /\ RunCallback(c)
     /\ Release(c)
     /\ UNCHANGED tasks

Goto(t, stage) == pc' = [pc EXCEPT ![t] = stage]

-----------------------------------------------------------------------------

Init ==
  /\ caller = [c \in Calls |-> "idle"]
  /\ age = [c \in Calls |-> "fresh"]
  /\ written = [c \in Calls |-> "no"]
  /\ outcome = [c \in Calls |-> "none"]
  /\ table = {} /\ response = {} /\ sendFailed = {} /\ latched = {}
  /\ called = {} /\ notified = [c \in Calls |-> 0]
  /\ released = {} /\ permits = Capacity
  /\ tasks = {}
  /\ chan = [ch \in Channels |-> "open"]
  /\ net = {}
  /\ pc = [t \in Threads |-> "idle"]
  /\ cur = [t \in Threads |-> NoCall]
  /\ todo = [ch \in Channels |-> {}]
  /\ overdue = {}

(***************************************************************************)
(* The calling threads.                                                    *)
(***************************************************************************)
TryAcquireUnchecked(c) ==
  /\ c \in Limited
  /\ caller[c] = "idle"
  /\ permits' = [permits EXCEPT ![PoolOf(c)] = @ - 1]
  /\ caller' = [caller EXCEPT ![c] = "acquired"]
  /\ UNCHANGED <<age, written, outcome, table, futureVars, called, notified, released,
                 tasks, netVars, threadVars>>

(* tryAcquire(timeoutMillis): a permit, or an exception when none came. *)
TryAcquire(c) ==
  /\ c \in Limited
  /\ caller[c] = "idle"
  /\ \/ /\ permits[PoolOf(c)] > 0
        /\ permits' = [permits EXCEPT ![PoolOf(c)] = @ - 1]
        /\ caller' = [caller EXCEPT ![c] = "acquired"]
     \/ /\ permits[PoolOf(c)] = 0
        /\ caller' = [caller EXCEPT ![c] = "refused"]
        /\ UNCHANGED permits
  /\ UNCHANGED <<age, written, outcome, table, futureVars, called, notified, released,
                 tasks, netVars, threadVars>>

(* timeoutMillis < costTime: waiting for the permit took all the time. *)
AcquiredTooLate(c) ==
  /\ c \in AsyncCalls
  /\ caller[c] = "acquired"
  /\ Release(c)
  /\ caller' = [caller EXCEPT ![c] = "refused"]
  /\ UNCHANGED <<age, written, outcome, table, futureVars, called, notified,
                 tasks, netVars, threadVars>>

(* new ResponseFuture(...); responseTable.put(opaque, responseFuture) *)
Register(c) ==
  /\ \/ c \in SyncCalls /\ caller[c] = "idle"
     \/ c \in AsyncCalls /\ caller[c] = "acquired"
  /\ caller' = [caller EXCEPT ![c] = "registered"]
  /\ table' = table \cup {c}
  /\ UNCHANGED <<age, written, outcome, futureVars, onceVars, tasks, netVars, threadVars>>

ReadyToWrite(c) ==
  caller[c] = IF c \in OnewayCalls THEN "acquired" ELSE "registered"

(* channel.writeAndFlush(request): a task of the channel's handler thread, *)
(* where the encoder is.                                                   *)
Write(c) ==
  /\ ReadyToWrite(c)
  /\ written' = [written EXCEPT ![c] = "queued"]
  /\ caller' = [caller EXCEPT ![c] = IF c \in SyncCalls THEN "waiting" ELSE "returned"]
  /\ UNCHANGED <<age, outcome, table, futureVars, onceVars, tasks, netVars, threadVars>>

(* channel.writeAndFlush throws: the async and the oneway call give their   *)
(* permit back and rethrow, the async entry stays in the table; the sync    *)
(* call only has its finally block.                                         *)
WriteThrows(c) ==
  /\ ReadyToWrite(c)
  /\ \/ /\ c \in Limited
        /\ Release(c)
        /\ caller' = [caller EXCEPT ![c] = "threw"]
        /\ UNCHANGED outcome
     \/ /\ c \in SyncCalls
        /\ caller' = [caller EXCEPT ![c] = "leaving"]
        /\ outcome' = [outcome EXCEPT ![c] = "exception"]
        /\ UNCHANGED <<released, permits>>
  /\ UNCHANGED <<age, written, table, futureVars, called, notified, tasks, netVars, threadVars>>

WakeUntimed(c) ==
  /\ c \in SyncCalls
  /\ caller[c] = "waiting"
  /\ c \in latched
  /\ caller' = [caller EXCEPT ![c] = "leaving"]
  /\ outcome' = [outcome EXCEPT ![c] = IF c \in response THEN "response" ELSE "sendFailure"]
  /\ UNCHANGED <<age, written, table, futureVars, onceVars, tasks, netVars, threadVars>>

(* waitResponse returns, woken by the latch or by the timeout, and reads *)
(* responseCommand.                                                      *)
Wake(c) ==
  /\ c \in SyncCalls
  /\ caller[c] = "waiting"
  /\ c \in latched \/ age[c] # "fresh"
  /\ IF c \in response
     THEN /\ caller' = [caller EXCEPT ![c] = "leaving"]
          /\ outcome' = [outcome EXCEPT ![c] = "response"]
     ELSE /\ caller' = [caller EXCEPT ![c] = "judging"]
          /\ UNCHANGED outcome
  /\ UNCHANGED <<age, written, table, futureVars, onceVars, tasks, netVars, threadVars>>

(* null == responseCommand: isSendRequestOK tells timeout from failure. *)
Judge(c) ==
  /\ c \in SyncCalls
  /\ caller[c] = "judging"
  /\ outcome' = [outcome EXCEPT ![c] = IF c \in sendFailed THEN "sendFailure" ELSE "timeout"]
  /\ caller' = [caller EXCEPT ![c] = "leaving"]
  /\ UNCHANGED <<age, written, table, futureVars, onceVars, tasks, netVars, threadVars>>

(* finally { responseTable.remove(opaque) } *)
Leave(c) ==
  /\ c \in SyncCalls
  /\ caller[c] = "leaving"
  /\ caller' = [caller EXCEPT ![c] = "returned"]
  /\ table' = table \ {c}
  /\ UNCHANGED <<age, written, outcome, futureVars, onceVars, tasks, netVars, threadVars>>

(* Time: timeoutMillis elapse ("expired", what the sync caller waits for),  *)
(* then 1000 ms more ("stale", what scanResponseTable asks for).  Followed   *)
(* only while somebody looks.                                               *)
Age(c) ==
  /\ c \in table \/ caller[c] = "waiting"
  /\ age[c] # "stale"
  /\ age' = [age EXCEPT ![c] = IF @ = "fresh" /\ c \in SyncCalls THEN "expired" ELSE "stale"]
  /\ UNCHANGED <<caller, written, outcome, table, futureVars, onceVars, tasks, netVars, threadVars>>

(***************************************************************************)
(* The handler thread encodes a request and hands it to the I/O thread of  *)
(* the channel, which completes the writes and runs their listeners.  What *)
(* is handed over before close() may still be sent; what comes later finds *)
(* the socket closed.                                                      *)
(***************************************************************************)
Encode(c) ==
  /\ written[c] = "queued"
  /\ pc[Handler(ChannelOf[c])] = "idle"
  /\ written' = [written EXCEPT ![c] =
                   IF chan[ChannelOf[c]] = "open" THEN "inFlight" ELSE "tooLate"]
  /\ UNCHANGED <<caller, age, outcome, table, futureVars, onceVars, tasks, netVars, threadVars>>

WriteSucceeds(c) ==
  /\ written[c] = "inFlight"
  /\ pc[Io(ChannelOf[c])] = "idle"
  /\ chan[ChannelOf[c]] \in {"open", "closing"}
  /\ written' = [written EXCEPT ![c] = "sent"]
  /\ IF c \in OnewayCalls
     THEN Release(c) /\ UNCHANGED sendFailed
     ELSE sendFailed' = sendFailed \ {c} /\ UNCHANGED <<released, permits>>
  /\ UNCHANGED <<caller, age, outcome, table, response, latched, called, notified,
                 tasks, netVars, threadVars>>

WriteFailsKeepingPermit(c) ==
  /\ written[c] \in {"inFlight", "tooLate"}
  /\ pc[Io(ChannelOf[c])] = "idle"
  /\ written' = [written EXCEPT ![c] = "failed"]
  /\ UNCHANGED <<caller, age, outcome, table, futureVars, onceVars, tasks, netVars, threadVars>>

WriteFails(c) ==
  LET io == Io(ChannelOf[c]) IN
  /\ written[c] \in {"inFlight", "tooLate"}
  /\ pc[io] = "idle"
  /\ written' = [written EXCEPT ![c] = "failed"]
  /\ IF c \in OnewayCalls
     THEN Release(c) /\ UNCHANGED <<pc, cur>>
     ELSE /\ Goto(io, IF c \in SyncCalls THEN "markUnsent" ELSE "removeFailed")
          /\ cur' = [cur EXCEPT ![io] = c]
          /\ UNCHANGED <<released, permits>>
  /\ UNCHANGED <<caller, age, outcome, table, futureVars, called, notified,
                 tasks, netVars, todo, overdue>>

(* The listener of invokeSyncImpl: setSendRequestOK(false) ... *)
MarkUnsent(ch) ==
  LET io == Io(ch) IN
  /\ pc[io] = "markUnsent"
  /\ sendFailed' = sendFailed \cup {cur[io]}
  /\ Goto(io, "dropEntry")
  /\ UNCHANGED <<callVars, outcome, table, response, latched, onceVars, tasks, netVars,
                 cur, todo, overdue>>

(* ... responseTable.remove(opaque) ... *)
DropEntry(ch) ==
  LET io == Io(ch) IN
  /\ pc[io] = "dropEntry"
  /\ table' = table \ {cur[io]}
  /\ Goto(io, "wakeCaller")
  /\ UNCHANGED <<callVars, outcome, futureVars, onceVars, tasks, netVars,
                 cur, todo, overdue>>

(* ... setCause(...), putResponse(null). *)
WakeCaller(ch) ==
  LET io == Io(ch) IN
  /\ pc[io] = "wakeCaller"
  /\ response' = response \ {cur[io]}
  /\ latched' = latched \cup {cur[io]}
  /\ Goto(io, "idle")
  /\ cur' = [cur EXCEPT ![io] = NoCall]
  /\ UNCHANGED <<callVars, outcome, table, sendFailed, onceVars, tasks, netVars,
                 todo, overdue>>

(***************************************************************************)
(* requestFail, run by the I/O thread (write listener of an async call) or *)
(* by the handler thread (for each entry failFast finds).                  *)
(***************************************************************************)
Resume(t) ==
  /\ Goto(t, IF t[1] = "handler" THEN "failFast" ELSE "idle")
  /\ cur' = [cur EXCEPT ![t] = NoCall]

RemoveFailed(t) ==
  /\ pc[t] = "removeFailed"
  /\ IF cur[t] \in table
     THEN Goto(t, "markFailed") /\ UNCHANGED cur
     ELSE Resume(t)
  /\ table' = table \ {cur[t]}
  /\ UNCHANGED <<callVars, outcome, futureVars, onceVars, tasks, netVars,
                 todo, overdue>>

ForgetMarkFailed(t) ==
  /\ pc[t] = "markFailed"
  /\ Goto(t, "putNull")
  /\ UNCHANGED <<callVars, outcome, table, futureVars, onceVars, tasks, netVars,
                 cur, todo, overdue>>

MarkFailed(t) ==
  /\ pc[t] = "markFailed"
  /\ sendFailed' = sendFailed \cup {cur[t]}
  /\ Goto(t, "putNull")
  /\ UNCHANGED <<callVars, outcome, table, response, latched, onceVars, tasks, netVars,
                 cur, todo, overdue>>

PutNull(t) ==
  /\ pc[t] = "putNull"
  /\ response' = response \ {cur[t]}
  /\ latched' = latched \cup {cur[t]}
  /\ Goto(t, "failCallback")
  /\ UNCHANGED <<callVars, outcome, table, sendFailed, onceVars, tasks, netVars,
                 cur, todo, overdue>>

FailCallback(t) ==
  /\ pc[t] = "failCallback"
  /\ ExecuteInvokeCallback(cur[t], t)
  /\ Goto(t, "failRelease")
  /\ UNCHANGED <<callVars, table, futureVars, netVars, cur, todo, overdue>>

FailRelease(t) ==
  /\ pc[t] = "failRelease"
  /\ Release(cur[t])
  /\ Resume(t)
  /\ UNCHANGED <<callVars, outcome, table, futureVars, called, notified, tasks, netVars,
                 todo, overdue>>

RequestFail(t) ==
  RemoveFailed(t) \/ MarkFailed(t) \/ PutNull(t) \/ FailCallback(t) \/ FailRelease(t)

(***************************************************************************)
(* The handler thread of a channel: responses, then close.                 *)
(***************************************************************************)
(* The peer answers a request it received; also a oneway one, because      *)
(* processRequestCommand replies whenever rpcOneway has its default value. *)
PeerReplies(c) ==
  /\ written[c] = "sent"
  /\ chan[ChannelOf[c]] \in {"open", "closing"}
  /\ written' = [written EXCEPT ![c] = "answered"]
  /\ net' = net \cup {c}
  /\ UNCHANGED <<caller, age, outcome, table, futureVars, onceVars, tasks, chan, threadVars>>

(* processResponseCommand: responseTable.get(opaque), or not matched. *)
ReceiveResponse(c) ==
  LET h == Handler(ChannelOf[c]) IN
  /\ c \in net
  /\ pc[h] = "idle"
  /\ net' = net \ {c}
  /\ IF c \in table
     THEN Goto(h, "gotResponse") /\ cur' = [cur EXCEPT ![h] = c]
     ELSE UNCHANGED <<pc, cur>>
  /\ UNCHANGED <<callVars, outcome, table, futureVars, onceVars, tasks, chan,
                 todo, overdue>>

(* responseFuture.setResponseCommand(cmd) *)
SetResponse(ch) ==
  LET h == Handler(ch) IN
  /\ pc[h] = "gotResponse"
  /\ response' = response \cup {cur[h]}
  /\ Goto(h, "removeAnswered")
  /\ UNCHANGED <<callVars, outcome, table, sendFailed, latched, onceVars, tasks, netVars,
                 cur, todo, overdue>>

(* responseTable.remove(opaque) *)
KeepAnswered(ch) ==
  LET h == Handler(ch) IN
  /\ pc[h] = "removeAnswered"
  /\ Goto(h, "complete")
  /\ UNCHANGED <<callVars, outcome, table, futureVars, onceVars, tasks, netVars,
                 cur, todo, overdue>>

RemoveAnswered(ch) ==
  LET h == Handler(ch) IN
  /\ pc[h] = "removeAnswered"
  /\ table' = table \ {cur[h]}
  /\ Goto(h, "complete")
  /\ UNCHANGED <<callVars, outcome, futureVars, onceVars, tasks, netVars,
                 cur, todo, overdue>>

(* executeInvokeCallback, or putResponse(cmd) for a call without callback. *)
Complete(ch) ==
  LET h == Handler(ch)
      c == cur[h] IN
  /\ pc[h] = "complete"
  /\ \/ /\ c \in AsyncCalls
        /\ ExecuteInvokeCallback(c, h)
        /\ UNCHANGED <<response, latched>>
     \/ /\ c \in SyncCalls
        /\ response' = response \cup {c}
        /\ latched' = latched \cup {c}
        /\ UNCHANGED <<onceVars, outcome, tasks>>
  /\ Goto(h, "idle")
  /\ cur' = [cur EXCEPT ![h] = NoCall]
  /\ UNCHANGED <<callVars, table, sendFailed, netVars, todo, overdue>>

OnChannel(ch) == {c \in table : ChannelOf[c] = ch}

(* failFast iterates the ConcurrentHashMap: every entry present when the *)
(* iterator is made is visited, an entry added meanwhile may be.         *)
StartFailFast(ch) ==
  /\ Goto(Handler(ch), "failFast")
  /\ todo' = [todo EXCEPT ![ch] = OnChannel(ch)]

(* NettyConnectManageHandler.close: super.close, which the I/O thread      *)
(* executes later, then failFast.                                          *)
Close(ch) ==
  /\ chan[ch] = "open"
  /\ pc[Handler(ch)] = "idle"
  /\ chan' = [chan EXCEPT ![ch] = "closing"]
  /\ StartFailFast(ch)
  /\ UNCHANGED <<callVars, outcome, table, futureVars, onceVars, tasks, net, cur, overdue>>

SocketClosed(ch) ==
  /\ chan[ch] = "closing"
  /\ pc[Io(ch)] = "idle"
  /\ chan' = [chan EXCEPT ![ch] = "closed"]
  /\ UNCHANGED <<callVars, outcome, table, futureVars, onceVars, tasks, net, threadVars>>

(* The peer or the network ends the connection. *)
ConnectionLost(ch) ==
  /\ chan[ch] = "open"
  /\ chan' = [chan EXCEPT ![ch] = "inactive"]
  /\ UNCHANGED <<callVars, outcome, table, futureVars, onceVars, tasks, net, threadVars>>

ChannelInactiveOnlyReports(ch) ==
  /\ chan[ch] = "inactive"
  /\ pc[Handler(ch)] = "idle"
  /\ chan' = [chan EXCEPT ![ch] = "closed"]
  /\ UNCHANGED <<callVars, outcome, table, futureVars, onceVars, tasks, net, threadVars>>

(* NettyConnectManageHandler.channelInactive: the client closes the channel *)
(* and so fails its calls; the server only reports an event.                *)
ChannelInactive(ch) ==
  /\ chan[ch] = "inactive"
  /\ pc[Handler(ch)] = "idle"
  /\ chan' = [chan EXCEPT ![ch] = "closed"]
  /\ IF FailsFastWhenInactive THEN StartFailFast(ch) ELSE UNCHANGED <<pc, todo>>
  /\ UNCHANGED <<callVars, outcome, table, futureVars, onceVars, tasks, net, cur, overdue>>

FailFastVisit(ch) ==
  /\ pc[Handler(ch)] = "failFast"
  /\ \E c \in OnChannel(ch) :
       /\ cur' = [cur EXCEPT ![Handler(ch)] = c]
       /\ todo' = [todo EXCEPT ![ch] = @ \ {c}]
  /\ Goto(Handler(ch), "removeFailed")
  /\ UNCHANGED <<callVars, outcome, table, futureVars, onceVars, tasks, netVars, overdue>>

FailFastEnd(ch) ==
  /\ pc[Handler(ch)] = "failFast"
  /\ todo[ch] \cap table = {}
  /\ todo' = [todo EXCEPT ![ch] = {}]
  /\ Goto(Handler(ch), "idle")
  /\ UNCHANGED <<callVars, outcome, table, futureVars, onceVars, tasks, netVars, cur, overdue>>

(***************************************************************************)
(* The timer: scanResponseTable.                                           *)
(***************************************************************************)
(* The iterator finds an entry whose time, and 1000 ms more, are over.  A *)
(* pass that finds none changes nothing.                                 *)
ScanFinds ==
  /\ pc[Timer] \in {"idle", "scan"}
  /\ \E c \in table : /\ age[c] = "stale"
                      /\ cur' = [cur EXCEPT ![Timer] = c]
  /\ Goto(Timer, "scanRelease")
  /\ UNCHANGED <<callVars, outcome, table, futureVars, onceVars, tasks, netVars, todo, overdue>>

ScanRelease ==
  /\ pc[Timer] = "scanRelease"
  /\ Release(cur[Timer])
  /\ Goto(Timer, "scanRemove")
  /\ UNCHANGED <<callVars, outcome, table, futureVars, called, notified, tasks, netVars,
                 cur, todo, overdue>>

(* it.remove(); rfList.add(rep) *)
ScanForgets ==
  /\ pc[Timer] = "scanRemove"
  /\ table' = table \ {cur[Timer]}
  /\ Goto(Timer, "scan")
  /\ cur' = [cur EXCEPT ![Timer] = NoCall]
  /\ UNCHANGED <<callVars, outcome, futureVars, onceVars, tasks, netVars, overdue, todo>>

ScanRemove ==
  /\ pc[Timer] = "scanRemove"
  /\ table' = table \ {cur[Timer]}
  /\ overdue' = overdue \cup {cur[Timer]}
  /\ Goto(Timer, "scan")
  /\ cur' = [cur EXCEPT ![Timer] = NoCall]
  /\ UNCHANGED <<callVars, outcome, futureVars, onceVars, tasks, netVars, todo>>

ScanEnd ==
  /\ pc[Timer] = "scan"
  /\ Goto(Timer, IF overdue = {} THEN "idle" ELSE "fire")
  /\ UNCHANGED <<callVars, outcome, table, futureVars, onceVars, tasks, netVars,
                 cur, todo, overdue>>

(* for (ResponseFuture rf : rfList) executeInvokeCallback(rf) *)
Fire ==
  /\ pc[Timer] = "fire"
  /\ \E c \in overdue :
       /\ ExecuteInvokeCallback(c, Timer)
       /\ overdue' = overdue \ {c}
       /\ Goto(Timer, IF overdue = {c} THEN "idle" ELSE "fire")
  /\ UNCHANGED <<callVars, table, futureVars, netVars, cur, todo>>

(* A thread of the callback executor: the callback, finally the release. *)
RunTask ==
  /\ \E task \in tasks :
       /\ RunCallback(task[1])
       /\ Release(task[1])
       /\ tasks' = tasks \ {task}
  /\ UNCHANGED <<callVars, table, futureVars, netVars, threadVars>>

-----------------------------------------------------------------------------

CallerStep(c) == \/ TryAcquire(c) \/ AcquiredTooLate(c) \/ Register(c)
                 \/ Write(c) \/ WriteThrows(c) \/ Wake(c) \/ Judge(c) \/ Leave(c)

IoStep(ch) == MarkUnsent(ch) \/ DropEntry(ch) \/ WakeCaller(ch) \/ RequestFail(Io(ch))

HandlerStep(ch) == \/ (\E c \in Calls : ChannelOf[c] = ch /\ Encode(c))
                   \/ SetResponse(ch) \/ RemoveAnswered(ch) \/ Complete(ch)
                   \/ FailFastVisit(ch) \/ FailFastEnd(ch) \/ RequestFail(Handler(ch))

ScanStep == ScanFinds \/ ScanRelease \/ ScanRemove \/ ScanEnd \/ Fire

WriteCompletes(c) == WriteSucceeds(c) \/ WriteFails(c)

ChannelStep(ch) == Close(ch) \/ SocketClosed(ch) \/ ConnectionLost(ch) \/ ChannelInactive(ch)

Next ==
  \/ \E c \in Calls : \/ CallerStep(c) \/ Age(c) \/ WriteCompletes(c)
                      \/ PeerReplies(c) \/ ReceiveResponse(c)
  \/ \E ch \in Channels : IoStep(ch) \/ HandlerStep(ch) \/ ChannelStep(ch)
  \/ ScanStep
  \/ RunTask

Spec == Init /\ [][Next]_vars

(***************************************************************************)
(* A thread that has begun goes on, the timer keeps firing, time passes,   *)
(* and Netty completes every write promise.  Nothing is assumed of the     *)
(* peer, of the connection, or of a caller that has not begun.             *)
(***************************************************************************)
Goes(c) == Write(c) \/ Wake(c) \/ Judge(c) \/ Leave(c)

Fairness ==
  /\ \A c \in Calls : WF_vars(Goes(c)) /\ WF_vars(Age(c)) /\ WF_vars(WriteCompletes(c))
  /\ \A c \in AsyncCalls : WF_vars(Register(c) /\ caller[c] = "acquired")
  /\ \A ch \in Channels : WF_vars(IoStep(ch)) /\ WF_vars(HandlerStep(ch))
  /\ WF_vars(ScanStep)
  /\ WF_vars(RunTask)

FairSpec == Spec /\ Fairness

-----------------------------------------------------------------------------

(* The types of the variables. *)
TypeOK ==
  /\ caller \in [Calls -> CallerStates]
  /\ age \in [Calls -> {"fresh", "expired", "stale"}]
  /\ written \in [Calls -> {"no", "queued", "inFlight", "tooLate", "sent", "failed", "answered"}]
  /\ outcome \in [Calls -> Outcomes]
  /\ table \subseteq Tracked /\ response \subseteq Tracked
  /\ sendFailed \subseteq Tracked /\ latched \subseteq Tracked
  /\ called \subseteq AsyncCalls /\ notified \in [Calls -> Nat]
  /\ released \subseteq Limited /\ permits \in [Pools -> Nat]
  /\ tasks \subseteq Tracked \X Threads
  /\ chan \in [Channels -> {"open", "closing", "inactive", "closed"}]
  /\ net \subseteq Calls
  /\ pc \in [Threads -> ThreadStates]
  /\ cur \in [Threads -> Tracked \cup {NoCall}]
  /\ \A t \in Threads : pc[t] \notin {"idle", "failFast", "scan", "fire"} => cur[t] # NoCall
  /\ todo \in [Channels -> SUBSET Tracked]
  /\ overdue \subseteq Tracked

(* Calls of a pool that took a permit and have not given it back. *)
Holding(p) == {c \in Limited : /\ PoolOf(c) = p
                               /\ caller[c] \notin {"idle", "refused"}
                               /\ c \notin released}

(* No permit of semaphoreAsync or semaphoreOneway is lost or minted, though *)
(* up to four threads release the same call (SemaphoreReleaseOnlyOnce).     *)
PermitsConserved ==
  \A p \in Pools : permits[p] + Cardinality(Holding(p)) = Capacity[p]

(* The callback of an async call runs at most once, though the handler     *)
(* thread, the failing write and the timer may all submit it.              *)
CallbackAtMostOnce == \A c \in Calls : notified[c] <= 1

(* Somebody is going to run the callback of c. *)
InCharge(c) ==
  \/ c \in table
  \/ c \in overdue
  \/ \E t \in Threads : <<c, t>> \in tasks
  \/ \E t \in Threads : cur[t] = c /\ pc[t] \in {"markFailed", "putNull", "failCallback", "complete"}

(* An async call that was registered and not yet called back is in the     *)
(* table or in the hands of exactly the thread that took it out: a removal *)
(* never orphans the callback.                                             *)
NoLostCallback ==
  \A c \in AsyncCalls :
    caller[c] \in {"registered", "returned", "threw"} /\ notified[c] = 0 => InCharge(c)

(* responseTable holds no entry of a finished call: a sync call that has    *)
(* returned, or an async call whose callback ran.                          *)
TableHoldsOnlyPending ==
  \A c \in table :
    /\ caller[c] \notin {"idle", "acquired", "refused"}
    /\ caller[c] = "returned" => c \in AsyncCalls /\ notified[c] = 0

(* Once the connection is closed and failFast is over, a call still in the *)
(* table is one whose write is going to fail, or has failed and is being   *)
(* cleared away: nobody waits out its timeout for an answer that can no    *)
(* longer come, although calls are registered and written while failFast   *)
(* iterates.  Only where the close handler runs.                           *)
NoneWaitsOnDeadChannel ==
  FailsFastWhenInactive =>
    \A c \in table :
      /\ chan[ChannelOf[c]] \in {"closing", "closed"}
      /\ pc[Handler(ChannelOf[c])] = "idle"
      => \/ written[c] \in {"no", "queued", "tooLate"}
         \/ written[c] = "failed" /\ cur[Io(ChannelOf[c])] = c

(* A sync caller gets a response only to a request the peer answered; it    *)
(* is told of a send failure only if the write failed or the channel was   *)
(* closed under it, and of a timeout before the deadline only if close()   *)
(* crossed a completed write (see TimeoutAfterDeadline).                    *)
VerdictHasCause ==
  \A c \in SyncCalls :
    /\ outcome[c] = "response" => written[c] = "answered"
    /\ outcome[c] = "sendFailure" => \/ written[c] = "failed"
                                    \/ chan[ChannelOf[c]] # "open"
    /\ outcome[c] = "timeout" /\ age[c] = "fresh" =>
         written[c] \in {"sent", "answered"} /\ chan[ChannelOf[c]] # "open"

(* "wait response on the channel timeout" (RemotingTimeoutException) is    *)
(* reported only when the timeout has elapsed.                             *)
TimeoutAfterDeadline == \A c \in SyncCalls : outcome[c] = "timeout" => age[c] # "fresh"

(* A response once stored in a ResponseFuture is not overwritten by the    *)
(* null of a failing write or of failFast.                                 *)
ResponseNotOverwritten == [][response \subseteq response']_vars

(* Every sync caller that registered returns. *)
SyncReturns == \A c \in SyncCalls : caller[c] = "registered" ~> caller[c] = "returned"

(* Every async call that was registered is called back, also one whose     *)
(* response, whose write or whose connection was lost.                     *)
AsyncCalledBack == \A c \in AsyncCalls : caller[c] = "registered" ~> notified[c] = 1

(* Every permit taken comes back. *)
PermitsComeBack ==
  \A c \in Limited : caller[c] = "returned" ~> c \in released

-----------------------------------------------------------------------------

(* The contract, seen through the remoting layer: a call is pending from   *)
(* its responseTable.put until its verdict or callback.                    *)
PhaseOf(c) ==
  IF outcome[c] # "none" THEN "done"
  ELSE IF caller[c] \in {"idle", "acquired"} THEN "idle"
  ELSE IF caller[c] = "refused" THEN "refused"
  ELSE "pending"

Contract == INSTANCE InvokeContract WITH
  phase    <- [c \in Tracked |-> PhaseOf(c)],
  answered <- {c \in Tracked : written[c] = "answered"},
  outcome  <- [c \in Tracked |-> outcome[c]]

(* The remoting layer implements the contract: no interleaving of response, *)
(* failing write, failFast, scan and timeout ends a call twice, changes its *)
(* outcome, calls back a refused call or leaves a pending one pending.      *)
KeepsContract == Contract!FairSpec
=============================================================================
