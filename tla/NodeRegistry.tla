---------------------------- MODULE NodeRegistry ----------------------------
(***************************************************************************)
(* How the log center knows which nodes are connected: ServerNodeManager   *)
(* maps the IP of a node to the channel its last heartbeat came by.  Four  *)
(* kinds of thread of the center work on it, for several channels that the *)
(* same node opened one after the other:                                   *)
(*   - the handler thread of a channel (NettyConnectManageHandler) reports *)
(*     what happens to the channel as events in a bounded queue;           *)
(*   - NettyEventExecutor gives the events to DefaultChannelEventListener, *)
(*     which closes the channel and unregisters its IP;                    *)
(*   - the processor pool runs HeartbeatProcessor, which registers;        *)
(*   - the I/O thread closes sockets and takes pipelines apart.            *)
(* On the other side LogClient connects, sends a heartbeat every 3 seconds *)
(* and connects again when it finds its channel closed.                    *)
(***************************************************************************)
EXTENDS Naturals, Sequences

CONSTANTS
  Nodes,      \* the IP addresses of the log clients
  Channels,   \* the connections they may make, each used once
  NodeOf,     \* the node that makes a connection
  MaxEvents,  \* NettyEventExecutor.maxSize (10000)
  NoChannel   \* "no channel"

ASSUME NodesAssumption ==
  /\ NodeOf \in [Channels -> Nodes]
  /\ NoChannel \notin Channels

ASSUME EventsAssumption == MaxEvents \in Nat

VARIABLES
  registry,  \* ServerNodeManager.channelMap
  chan,      \* life cycle of each channel, as the center sees it
  asked,     \* channels whose handler thread has a channel.close() to run
  queue,     \* NettyEventExecutor.eventQueue: <<kind, channel>>
  handling,  \* the event the listener is in the middle of, as a sequence
  pool,      \* channels with a heartbeat submitted to the processor pool
  excused,   \* history: channels registered when they were no longer active,
             \* or whose OUT_BOUND_CLOSE found the queue full
  link       \* the channel each client believes it is connected by

centerVars == <<registry, chan, asked, queue, handling, pool, excused>>
vars == <<centerVars, link>>

(* none -> active -> (closing ->) inactive -> gone:  "closing" is after the *)
(* handler passed close on, "inactive" when the socket is closed, "gone"    *)
(* when channelInactive ran and Netty took the handlers out of the          *)
(* pipeline, so that a close() no longer reaches them.                      *)
Stages == {"none", "active", "closing", "inactive", "gone"}

(* The listener has methods for IN_BOUND_ALL_IDLE and OUT_BOUND_CLOSE; any *)
(* other event only takes up a place.                                      *)
Events == ({"allIdle", "close"} \X Channels) \cup {<<"other">>}

PutUnbounded(event) == queue' = Append(queue, event) /\ UNCHANGED excused

(* putNettyEvent: size() <= maxSize, so maxSize + 1 events fit. *)
PutNettyEvent(event) ==
  IF Len(queue) <= MaxEvents
  THEN queue' = Append(queue, event) /\ UNCHANGED excused
  ELSE /\ UNCHANGED queue
       /\ excused' = excused \cup {ch \in Channels : event = <<"close", ch>>}

-----------------------------------------------------------------------------

Init ==
  /\ registry = [n \in Nodes |-> NoChannel]
  /\ chan = [ch \in Channels |-> "none"]
  /\ asked = {} /\ queue = <<>> /\ handling = <<>> /\ pool = {}
  /\ excused = {}
  /\ link = [n \in Nodes |-> NoChannel]

(***************************************************************************)
(* The log client.                                                         *)
(***************************************************************************)
(* sendHeartbeat -> invokeSync -> getAndCreateChannel -> createChannel; at *)
(* the center, channelActive.                                              *)
Connect(ch) ==
  /\ chan[ch] = "none"
  /\ link[NodeOf[ch]] = NoChannel
  /\ link' = [link EXCEPT ![NodeOf[ch]] = ch]
  /\ chan' = [chan EXCEPT ![ch] = "active"]
  /\ PutNettyEvent(<<"other">>)
  /\ UNCHANGED <<registry, asked, handling, pool>>

(* The client is told that its channel is closed, or loses it: a crash, or *)
(* a network that drops packets, which the center is not told of.          *)
SeesClose(n) ==
  /\ link[n] # NoChannel
  /\ chan[link[n]] \in {"inactive", "gone"}
  /\ link' = [link EXCEPT ![n] = NoChannel]
  /\ UNCHANGED centerVars

LosesLink(n) ==
  /\ link[n] # NoChannel
  /\ link' = [link EXCEPT ![n] = NoChannel]
  /\ UNCHANGED centerVars

(***************************************************************************)
(* The channel at the center.                                              *)
(***************************************************************************)
(* The client sends a heartbeat every 3 seconds on the channel it finds    *)
(* active; the handler thread reads it and processRequestCommand submits   *)
(* it to the pool.                                                         *)
Heartbeat(ch) ==
  /\ link[NodeOf[ch]] = ch
  /\ chan[ch] \in {"active", "closing", "inactive"}
  /\ pool' = pool \cup {ch}
  /\ UNCHANGED <<registry, chan, asked, queue, handling, excused, link>>

(* No byte for 10 seconds: the client is out of reach, or it waits 10      *)
(* seconds for the answer to a heartbeat that is still in the pool.        *)
AllIdle(ch) ==
  /\ chan[ch] = "active"
  /\ link[NodeOf[ch]] # ch \/ ch \in pool
  /\ PutNettyEvent(<<"allIdle", ch>>)
  /\ UNCHANGED <<registry, chan, asked, handling, pool, link>>

CloseReportsForever(ch) ==
  /\ asked' = asked \ {ch}
  /\ chan' = [chan EXCEPT ![ch] = IF @ = "active" THEN "closing" ELSE @]
  /\ PutNettyEvent(<<"close", ch>>)
  /\ UNCHANGED <<registry, handling, pool, link>>

(* NettyConnectManageHandler.close: super.close, failFast (RemotingInvoke), *)
(* OUT_BOUND_CLOSE.  Once the handler is out of the pipeline, nothing.      *)
Close(ch) ==
  /\ asked' = asked \ {ch}
  /\ IF chan[ch] = "gone"
     THEN UNCHANGED <<chan, queue, excused>>
     ELSE /\ chan' = [chan EXCEPT ![ch] = IF @ = "active" THEN "closing" ELSE @]
          /\ PutNettyEvent(<<"close", ch>>)
  /\ UNCHANGED <<registry, handling, pool, link>>

CloseAsked(ch) == ch \in asked /\ Close(ch)

(* A frame that cannot be decoded, or a response that cannot be encoded: *)
(* RemotingUtil.closeChannel on the handler thread itself.               *)
CodecFails(ch) == chan[ch] = "active" /\ ch \notin asked /\ Close(ch)

(* The I/O thread closes the socket, or reads that the client closed it. *)
SocketClosed(ch) ==
  /\ \/ chan[ch] = "closing"
     \/ chan[ch] = "active" /\ link[NodeOf[ch]] # ch
  /\ chan' = [chan EXCEPT ![ch] = "inactive"]
  /\ UNCHANGED <<registry, asked, queue, handling, pool, excused, link>>

(* NettyConnectManageHandler.channelInactive: IN_BOUND_INACTIVE; then Netty *)
(* removes the handlers of the closed channel.                              *)
ChannelInactive(ch) ==
  /\ chan[ch] = "inactive"
  /\ chan' = [chan EXCEPT ![ch] = "gone"]
  /\ PutNettyEvent(<<"other">>)
  /\ UNCHANGED <<registry, asked, handling, pool, link>>

(***************************************************************************)
(* HeartbeatProcessor on a thread of the pool: register(ctx.channel()),    *)
(* whatever has become of the channel since.                               *)
(***************************************************************************)
RegisterIfAbsent(ch) ==
  /\ ch \in pool
  /\ pool' = pool \ {ch}
  /\ registry' = [registry EXCEPT ![NodeOf[ch]] = IF @ = NoChannel THEN ch ELSE @]
  /\ excused' = IF chan[ch] = "active" THEN excused ELSE excused \cup {ch}
  /\ UNCHANGED <<chan, asked, queue, handling, link>>

Register(ch) ==
  /\ ch \in pool
  /\ pool' = pool \ {ch}
  /\ registry' = [registry EXCEPT ![NodeOf[ch]] = ch]
  /\ excused' = IF chan[ch] = "active" THEN excused ELSE excused \cup {ch}
  /\ UNCHANGED <<chan, asked, queue, handling, link>>

(***************************************************************************)
(* NettyEventExecutor and DefaultChannelEventListener.                     *)
(***************************************************************************)
TakeIdleOnly ==
  /\ handling = <<>>
  /\ queue # <<>>
  /\ queue' = Tail(queue)
  /\ IF Head(queue)[1] = "allIdle"
     THEN asked' = asked \cup {Head(queue)[2]} /\ handling' = <<Head(queue)>>
     ELSE UNCHANGED <<asked, handling>>
  /\ UNCHANGED <<registry, chan, pool, excused, link>>

TakeCloseOnly ==
  /\ handling = <<>>
  /\ queue # <<>>
  /\ queue' = Tail(queue)
  /\ IF Head(queue)[1] = "close"
     THEN asked' = asked \cup {Head(queue)[2]} /\ handling' = <<Head(queue)>>
     ELSE UNCHANGED <<asked, handling>>
  /\ UNCHANGED <<registry, chan, pool, excused, link>>

(* The event is taken; onInBoundAllIdle and onOutBoundClose call           *)
(* channel.close(), which is left to the handler thread ...                *)
TakeEvent ==
  /\ handling = <<>>
  /\ queue # <<>>
  /\ queue' = Tail(queue)
  /\ IF Head(queue)[1] \in {"allIdle", "close"}
     THEN asked' = asked \cup {Head(queue)[2]} /\ handling' = <<Head(queue)>>
     ELSE UNCHANGED <<asked, handling>>
  /\ UNCHANGED <<registry, chan, pool, excused, link>>

(* ... and then unregister: the entry of the channel's IP goes, whichever *)
(* channel it holds.                                                      *)
Unregister ==
  /\ handling # <<>>
  /\ registry' = [registry EXCEPT ![NodeOf[handling[1][2]]] = NoChannel]
  /\ handling' = <<>>
  /\ UNCHANGED <<chan, asked, queue, pool, excused, link>>

-----------------------------------------------------------------------------

HandlerStep(ch) == Heartbeat(ch) \/ AllIdle(ch) \/ CloseAsked(ch) \/ CodecFails(ch) \/ ChannelInactive(ch)

Next ==
  \/ \E n \in Nodes : SeesClose(n) \/ LosesLink(n)
  \/ \E ch \in Channels : Connect(ch) \/ HandlerStep(ch) \/ SocketClosed(ch) \/ Register(ch)
  \/ TakeEvent
  \/ Unregister

Spec == Init /\ [][Next]_vars

(***************************************************************************)
(* The threads of the center go on, the idle handler finds a silent        *)
(* connection, a connected client keeps sending heartbeats (its timer is   *)
(* set again in a finally block).  Nothing is assumed of connections: the  *)
(* client need not come back, and a FIN may never arrive.                  *)
(***************************************************************************)
Fairness ==
  /\ \A n \in Nodes : WF_vars(SeesClose(n))
  /\ \A ch \in Channels :
       /\ WF_vars(Heartbeat(ch)) /\ WF_vars(Register(ch))
       /\ WF_vars(CloseAsked(ch)) /\ WF_vars(ChannelInactive(ch))
       /\ WF_vars(chan[ch] = "closing" /\ SocketClosed(ch))
       /\ WF_vars(link[NodeOf[ch]] # ch /\ AllIdle(ch))
  /\ WF_vars(TakeEvent) /\ WF_vars(Unregister)

FairSpec == Spec /\ Fairness

-----------------------------------------------------------------------------

(* The types of the variables. *)
TypeOK ==
  /\ registry \in [Nodes -> Channels \cup {NoChannel}]
  /\ chan \in [Channels -> Stages]
  /\ asked \subseteq Channels
  /\ queue \in Seq(Events) /\ Len(queue) <= MaxEvents + 1
  /\ handling = <<>> \/ \E e \in {"allIdle", "close"} \X Channels : handling = <<e>>
  /\ pool \subseteq Channels /\ excused \subseteq Channels
  /\ link \in [Nodes -> Channels \cup {NoChannel}]

Registered(ch) == registry[NodeOf[ch]] = ch
Live(ch) == chan[ch] = "active" /\ link[NodeOf[ch]] = ch

(* A client that stays connected ends up registered under that connection  *)
(* for good, though late heartbeats of its earlier connections overwrite   *)
(* the entry and late close events of them remove it.                      *)
StaysRegistered == \A ch \in Channels : <>[]Live(ch) => <>[]Registered(ch)

(* A connection whose client is out of reach without a FIN is closed.      *)
HalfOpenIsClosed ==
  \A ch \in Channels : chan[ch] = "active" /\ link[NodeOf[ch]] # ch ~> chan[ch] = "gone"

(* A channel that the center closes leaves the registry, unless one of its *)
(* heartbeats was handled late, or its OUT_BOUND_CLOSE met a full queue.   *)
ClosedIsUnregistered ==
  \A ch \in Channels :
    chan[ch] = "closing" ~> ~Registered(ch) \/ ch \in excused

(* onOutBoundClose closes the channel again, which reports OUT_BOUND_CLOSE *)
(* again: the echo dies out when the pipeline is gone.                     *)
CloseEchoEnds ==
  \A ch \in Channels :
    <>[](chan[ch] = "gone") => <>[](\A i \in 1..Len(queue) : queue[i] # <<"close", ch>>)

(* Nothing of the center is on its way to change the registry. *)
Settled == queue = <<>> /\ handling = <<>> /\ asked = {} /\ pool = {}

(* The heartbeat "registers the client and checks that the connection is   *)
(* valid" (README.md): once all events and heartbeats are handled, no node *)
(* is listed under a connection that has ended.                            *)
OfflineIsUnregistered ==
  Settled => \A ch \in Channels : Registered(ch) /\ ch \notin excused => chan[ch] # "gone"
=============================================================================
