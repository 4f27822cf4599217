---------------------------- MODULE ChannelTables ----------------------------
(***************************************************************************)
(* The connections of NettyRemotingClient: channelTables maps an address   *)
(* to the channel that its calls share.  Callers look the channel up,      *)
(* create it under lockChannelTables, use it and close it when a call      *)
(* fails; the handler thread of a channel removes it when the connection   *)
(* ends and fails its calls (failFast).  The lock is waited for only for   *)
(* LOCK_TIMEOUT_MILLIS, and what needed it is then left undone.            *)
(***************************************************************************)
CONSTANTS
  Callers,    \* threads in invokeSync or invokeAsync
  Addrs,      \* the keys of channelTables
  Channels,   \* the connections that may be opened, each used once
  AddrOf,     \* the address a channel is connected to
  NoChannel,  \* null
  Nobody      \* the lock is free

ASSUME TablesAssumption ==
  /\ AddrOf \in [Channels -> Addrs]
  /\ NoChannel \notin Channels
  /\ Callers \cap Channels = {}
  /\ Nobody \notin Callers \cup Channels

VARIABLES
  table,       \* channelTables
  lock,        \* lockChannelTables: a caller, or the handler thread of a channel
  chan,        \* life cycle of each channel
  pc,          \* where each caller is
  addr, cw,    \* the caller's address and the channel of its ChannelWrapper
  handler,     \* where the handler thread of each channel is
  asked,       \* channels with a channel.close() queued for their handler thread
  inactive,    \* channels with a channelInactive queued for their handler thread
  failedFast,  \* channels whose calls were failed by failFast
  overlooked   \* history: channels that left the table, or ended, in one of
               \* the ways that let them escape close() and failFast

callerVars  == <<pc, addr, cw>>
handlerVars == <<handler, asked, inactive, failedFast>>
vars == <<table, lock, chan, callerVars, handlerVars, overlooked>>

(* "closing": close() was passed on to the I/O thread. *)
Stages == {"unused", "connecting", "refused", "active", "closing", "ended"}
CallerStages == {"idle", "locking", "deciding", "awaiting", "checking", "calling", "closing"}
HandlerStages == {"idle", "closingLocked", "closing"}

(* ChannelWrapper.isOK: a pending or ended connection is not. *)
IsOK(c) == c # NoChannel /\ chan[c] \in {"active", "closing"}
IsPending(c) == c # NoChannel /\ chan[c] = "connecting"

Without(c) == [a \in Addrs |-> IF table[a] = c THEN NoChannel ELSE table[a]]

Init ==
  /\ table = [a \in Addrs |-> NoChannel]
  /\ lock = Nobody
  /\ chan = [c \in Channels |-> "unused"]
  /\ pc = [t \in Callers |-> "idle"]
  /\ addr \in [Callers -> Addrs]
  /\ cw = [t \in Callers |-> NoChannel]
  /\ handler = [c \in Channels |-> "idle"]
  /\ asked = {} /\ inactive = {} /\ failedFast = {} /\ overlooked = {}

(***************************************************************************)
(* The callers.                                                            *)
(***************************************************************************)
(* Caller t comes to a stage with channel c; a call that is over has none. *)
Become(t, stage, c) ==
  /\ pc' = [pc EXCEPT ![t] = stage]
  /\ cw' = [cw EXCEPT ![t] = c]

Done(t) == Become(t, "idle", NoChannel)

AwaitNull(t, c) == Become(t, "awaiting", c)

(* if (cw != null) wait for its future; else the call throws. *)
AwaitIfAny(t, c) == IF c = NoChannel THEN Done(t) ELSE Become(t, "awaiting", c)

(* getAndCreateChannel reads the table without the lock; so does             *)
(* createChannel, once more.                                                 *)
LookUp(t) ==
  /\ pc[t] = "idle"
  /\ \E a \in Addrs :
       /\ addr' = [addr EXCEPT ![t] = a]
       /\ Become(t, IF IsOK(table[a]) THEN "checking" ELSE "locking", table[a])
  /\ UNCHANGED <<table, lock, chan, handlerVars, overlooked>>

LockBlocks(t) == pc[t] = "locking" /\ lock # Nobody /\ UNCHANGED vars

(* tryLock gave up: what was read without the lock has to do. *)
LockTimesOut(t) ==
  /\ pc[t] = "locking"
  /\ lock # Nobody
  /\ AwaitIfAny(t, cw[t])
  /\ UNCHANGED <<table, lock, chan, addr, handlerVars, overlooked>>

(* createChannel reads the entry again, and whether it is OK. *)
Lock(t) ==
  /\ pc[t] = "locking"
  /\ lock = Nobody
  /\ LET c == table[addr[t]] IN
     IF IsOK(c) THEN Become(t, "checking", c) /\ UNCHANGED lock
                ELSE Become(t, "deciding", c) /\ lock' = t
  /\ UNCHANGED <<table, chan, addr, handlerVars, overlooked>>

Fresh(a) == {n \in Channels : chan[n] = "unused" /\ AddrOf[n] = a}

(* It was not OK; if it is done now, which it may have become in between,   *)
(* the entry is dropped and another connection begun.  connect may throw.   *)
ConnectAnew(t) ==
  \/ /\ Fresh(addr[t]) # {}
     /\ LET n == CHOOSE n \in Fresh(addr[t]) : TRUE IN
          /\ chan' = [chan EXCEPT ![n] = "connecting"]
          /\ table' = [table EXCEPT ![addr[t]] = n]
          /\ Become(t, "awaiting", n)
  \/ /\ table' = [table EXCEPT ![addr[t]] = NoChannel]
     /\ AwaitIfAny(t, cw[t])
     /\ UNCHANGED chan

ReplaceAnything(t) ==
  /\ pc[t] = "deciding"
  /\ lock' = Nobody
  /\ ConnectAnew(t)
  /\ overlooked' = IF cw[t] \in Channels /\ chan[cw[t]] # "refused"
                   THEN overlooked \cup {cw[t]} ELSE overlooked
  /\ UNCHANGED <<addr, handlerVars>>

Decide(t) ==
  /\ pc[t] = "deciding"
  /\ lock' = Nobody
  /\ \/ /\ IsPending(cw[t])
        /\ Become(t, "awaiting", cw[t])
        /\ UNCHANGED <<table, chan, overlooked>>
     \/ /\ ~IsPending(cw[t])
        /\ ConnectAnew(t)
        /\ overlooked' = IF cw[t] \in Channels /\ chan[cw[t]] # "refused"
                         THEN overlooked \cup {cw[t]} ELSE overlooked
  /\ UNCHANGED <<addr, handlerVars>>

(* awaitUninterruptibly(connectTimeoutMillis): done, or the time is over; *)
(* without a channel the call throws and closeChannel(addr, null) is void. *)
Await(t) ==
  /\ pc[t] = "awaiting"
  /\ IF IsOK(cw[t]) THEN Become(t, "checking", cw[t]) ELSE Done(t)
  /\ UNCHANGED <<table, lock, chan, addr, handlerVars, overlooked>>

(* channel.isActive(), after which the request is sent. *)
Check(t) ==
  /\ pc[t] = "checking"
  /\ Become(t, IF IsOK(cw[t]) THEN "calling" ELSE "closing", cw[t])
  /\ UNCHANGED <<table, lock, chan, addr, handlerVars, overlooked>>

(* A response - or no failure the caller closes the channel for. *)
Return(t) ==
  /\ pc[t] = "calling"
  /\ Done(t)
  /\ UNCHANGED <<table, lock, chan, addr, handlerVars, overlooked>>

(* The request could not be sent, was failed fast, or timed out *)
(* (clientCloseSocketIfTimeout is true).                        *)
Fail(t) ==
  /\ pc[t] = "calling"
  /\ Become(t, "closing", cw[t])
  /\ UNCHANGED <<table, lock, chan, addr, handlerVars, overlooked>>

CloseWhateverIsThere(t) ==
  /\ pc[t] = "closing"
  /\ lock = Nobody
  /\ Done(t)
  /\ table' = [table EXCEPT ![addr[t]] = NoChannel]
  /\ asked' = asked \cup {cw[t]}
  /\ UNCHANGED <<lock, chan, addr, handler, inactive, failedFast, overlooked>>

(* closeChannel(addr, channel): the entry is removed only if it is still    *)
(* this channel; the channel is closed in any case, unless the lock was not *)
(* to be had.                                                               *)
CloseChannel(t) ==
  /\ pc[t] = "closing"
  /\ Done(t)
  /\ \/ /\ lock = Nobody
        /\ table' = [table EXCEPT ![addr[t]] = IF @ = cw[t] THEN NoChannel ELSE @]
        /\ asked' = asked \cup {cw[t]}
     \/ /\ lock # Nobody
        /\ UNCHANGED <<table, asked>>
  /\ UNCHANGED <<lock, chan, addr, handler, inactive, failedFast, overlooked>>

(***************************************************************************)
(* The network and the I/O thread.                                         *)
(***************************************************************************)
Connected(c) ==
  /\ chan[c] = "connecting"
  /\ chan' = [chan EXCEPT ![c] = "active"]
  /\ UNCHANGED <<table, lock, callerVars, handlerVars, overlooked>>

Refused(c) ==
  /\ chan[c] = "connecting"
  /\ chan' = [chan EXCEPT ![c] = "refused"]
  /\ UNCHANGED <<table, lock, callerVars, handlerVars, overlooked>>

End(c) ==
  /\ chan' = [chan EXCEPT ![c] = "ended"]
  /\ inactive' = inactive \cup {c}
  /\ UNCHANGED <<table, lock, callerVars, handler, asked, failedFast, overlooked>>

ConnectionLost(c) == chan[c] = "active" /\ End(c)
SocketClosed(c)   == chan[c] = "closing" /\ End(c)

(***************************************************************************)
(* The handler thread of channel c.                                        *)
(***************************************************************************)
HandlerGoto(c, stage) == handler' = [handler EXCEPT ![c] = stage]

(* closeChannel(channel), called by an inbound handler: channel.close() is  *)
(* called with the lock held and comes to the close handler, on the same    *)
(* thread, before the lock is released.                                     *)
CloseIfInTable(c) ==
  IF \E a \in Addrs : table[a] = c
  THEN lock' = c /\ table' = Without(c) /\ HandlerGoto(c, "closingLocked")
  ELSE UNCHANGED <<lock, table, handler>>

ChannelInactiveKeeps(c) ==
  /\ handler[c] = "idle"
  /\ c \in inactive
  /\ inactive' = inactive \ {c}
  /\ lock = Nobody
  /\ table' = Without(c)
  /\ UNCHANGED <<lock, handler, overlooked, chan, callerVars, asked, failedFast>>

ChannelInactive(c) ==
  /\ handler[c] = "idle"
  /\ c \in inactive
  /\ inactive' = inactive \ {c}
  /\ \/ /\ lock = Nobody
        /\ CloseIfInTable(c)
        /\ UNCHANGED overlooked
     \/ /\ lock # Nobody
        /\ overlooked' = overlooked \cup {c}
        /\ UNCHANGED <<lock, table, handler>>
  /\ UNCHANGED <<chan, callerVars, asked, failedFast>>

(* A lock that was not to be had leaves the channel in use. *)
ExceptionCaught(c) ==
  /\ handler[c] = "idle"
  /\ IsOK(c)
  /\ lock = Nobody
  /\ CloseIfInTable(c)
  /\ UNCHANGED <<chan, callerVars, asked, inactive, failedFast, overlooked>>

(* The close handler, for a channel.close() of a caller: closeChannel        *)
(* (which, if it finds the channel, closes it the nested way first), then    *)
(* what CloseRest does.  Once the connection has ended and channelInactive   *)
(* ran, Netty may already have removed the handler.                          *)
CloseHandler(c) ==
  /\ handler[c] = "idle"
  /\ c \in asked
  /\ asked' = asked \ {c}
  /\ \/ /\ lock = Nobody
        /\ \E a \in Addrs : table[a] = c
        /\ CloseIfInTable(c)
        /\ UNCHANGED overlooked
     \/ /\ lock # Nobody \/ \A a \in Addrs : table[a] # c
        /\ HandlerGoto(c, "closing")
        /\ UNCHANGED <<lock, table, overlooked>>
     \/ /\ chan[c] = "ended" /\ c \notin inactive
        /\ overlooked' = overlooked \cup {c}
        /\ UNCHANGED <<lock, table, handler>>
  /\ UNCHANGED <<chan, callerVars, inactive, failedFast>>

(* super.close(ctx, promise); failFast(channel) - and the lock is released. *)
CloseRest(c) ==
  /\ handler[c] # "idle"
  /\ HandlerGoto(c, "idle")
  /\ lock' = IF handler[c] = "closingLocked" THEN Nobody ELSE lock
  /\ chan' = [chan EXCEPT ![c] = IF @ = "active" THEN "closing" ELSE @]
  /\ failedFast' = failedFast \cup {c}
  /\ UNCHANGED <<table, callerVars, asked, inactive, overlooked>>

-----------------------------------------------------------------------------

CallerStep(t) ==
  \/ LockTimesOut(t) \/ Lock(t) \/ Decide(t) \/ Await(t) \/ Check(t)
  \/ Return(t) \/ Fail(t) \/ CloseChannel(t)

HandlerStep(c) == ChannelInactive(c) \/ CloseHandler(c) \/ CloseRest(c)

IoStep(c) == Connected(c) \/ Refused(c) \/ SocketClosed(c)

Next ==
  \/ \E t \in Callers : LookUp(t) \/ CallerStep(t)
  \/ \E c \in Channels :
       HandlerStep(c) \/ IoStep(c) \/ ExceptionCaught(c) \/ ConnectionLost(c)

Spec == Init /\ [][Next]_vars

(* Threads go on, a connect ends by its timeout, a socket closes.  Nothing *)
(* is assumed of the peer, of exceptions and of callers that have no call. *)
Fairness ==
  /\ \A t \in Callers : WF_vars(CallerStep(t))
  /\ \A c \in Channels : WF_vars(HandlerStep(c)) /\ WF_vars(IoStep(c))

FairSpec == Spec /\ Fairness

(***************************************************************************)
(* Properties.                                                             *)
(***************************************************************************)
(* Types; and the stages that use a channel have one. *)
TypeOK ==
  /\ table \in [Addrs -> Channels \cup {NoChannel}]
  /\ lock \in Callers \cup Channels \cup {Nobody}
  /\ chan \in [Channels -> Stages]
  /\ pc \in [Callers -> CallerStages]
  /\ addr \in [Callers -> Addrs]
  /\ cw \in [Callers -> Channels \cup {NoChannel}]
  /\ \A t \in Callers :
       pc[t] \in {"awaiting", "checking", "calling", "closing"} => cw[t] # NoChannel
  /\ handler \in [Channels -> HandlerStages]
  /\ asked \subseteq Channels /\ inactive \subseteq Channels
  /\ failedFast \subseteq Channels /\ overlooked \subseteq Channels

(* However many callers find no usable entry at the same time, and whatever *)
(* they are late in closing, a connection being made is the entry of its    *)
(* address: all of them wait for this one and there is no second.           *)
PendingIsShared ==
  \A c \in Channels : chan[c] = "connecting" => table[AddrOf[c]] = c

(* A live connection that the table does not hold is being closed: no late  *)
(* closeChannel, of a caller or of a handler, takes the entry of a          *)
(* successor away, and none removes a channel and leaves it open - except   *)
(* that createChannel drops a connection that became active between its     *)
(* isOK and its isDone.                                                     *)
NoOrphan ==
  \A c \in Channels :
    chan[c] = "active" =>
      \/ table[AddrOf[c]] = c
      \/ c \in asked
      \/ handler[c] # "idle"
      \/ c \in overlooked

(* The calls of a connection that ended are failed at once instead of       *)
(* running into their timeouts.  The ways out are those of "overlooked":    *)
(* createChannel dropped the entry before channelInactive looked for it,    *)
(* channelInactive did not get the lock, or a caller's close() came when    *)
(* Netty had taken the handlers away.                                       *)
EndedFailsFast ==
  \A c \in Channels : (chan[c] = "ended") ~> (c \in failedFast \cup overlooked)

(* Waiting for the lock, for a connection that others make, and for a       *)
(* response, no caller waits for ever.                                      *)
CallsReturn ==
  \A t \in Callers : (pc[t] # "idle") ~> (pc[t] = "idle")
=============================================================================
