------------------------- MODULE ChannelTablesProofs -------------------------
(***************************************************************************)
(* For every number of callers, addresses and channels: the types of       *)
(* ChannelTables, that a pending connection is shared (PendingIsShared),   *)
(* that no live connection is lost (NoOrphan) and that no connection that  *)
(* has ended is forgotten with its calls.                                  *)
(***************************************************************************)
EXTENDS ChannelTables, TLAPS

(* The lock is held exactly by the threads that are in a critical section. *)
LockHeld ==
  /\ \A t \in Callers : pc[t] = "deciding" <=> lock = t
  /\ \A c \in Channels : handler[c] = "closingLocked" <=> lock = c

(* What the holder of the lock has read of the table is still true: nobody *)
(* changes the table without the lock.                                     *)
ReadStays ==
  \A t \in Callers : pc[t] = "deciding" => cw[t] = table[addr[t]]

(* A channel that a caller has found OK is no longer being connected. *)
UsedWasOpen ==
  \A t \in Callers :
    pc[t] \in {"checking", "calling", "closing"} => chan[cw[t]] \notin {"unused", "connecting"}

(* A channel is only ever the entry of its own address. *)
KeysRight ==
  \A a \in Addrs : table[a] # NoChannel => AddrOf[table[a]] = a

IInv ==
  TypeOK /\ LockHeld /\ ReadStays /\ UsedWasOpen /\ KeysRight /\ PendingIsShared /\ NoOrphan

USE TablesAssumption

(* Initially nothing is connected. *)
LEMMA InitInv == Init => IInv
  BY DEF Init, IInv, TypeOK, LockHeld, ReadStays, UsedWasOpen, KeysRight, PendingIsShared, NoOrphan,
         Stages, CallerStages, HandlerStages

(* A step of a caller that only moves on, with at most its own variables *)
(* changed, outside a critical section.                                  *)
LEMMA CallerMoves ==
  ASSUME IInv, NEW t \in Callers, NEW stage \in CallerStages,
         NEW c \in Channels \cup {NoChannel},
         stage \in {"idle", "locking"} \/ c # NoChannel,
         stage # "deciding", pc[t] # "deciding",
         stage \in {"checking", "calling", "closing"} => chan[c] \notin {"unused", "connecting"},
         Become(t, stage, c), addr' \in [Callers -> Addrs],
         UNCHANGED <<table, lock, chan, handlerVars, overlooked>>,
         \A u \in Callers : u # t => addr'[u] = addr[u]
  PROVE  IInv'
  <1>1. TypeOK'
    BY DEF IInv, TypeOK, Become, handlerVars
  <1>2. LockHeld' /\ ReadStays'
    BY DEF IInv, TypeOK, LockHeld, ReadStays, Become, handlerVars
  <1>3. UsedWasOpen'
    BY DEF IInv, TypeOK, UsedWasOpen, Become
  <1>4. KeysRight' /\ PendingIsShared' /\ NoOrphan'
    BY DEF IInv, KeysRight, PendingIsShared, NoOrphan, handlerVars
  <1>. QED BY <1>1, <1>2, <1>3, <1>4 DEF IInv

LEMMA LookUpKeeps == ASSUME IInv, NEW t \in Callers, LookUp(t) PROVE IInv'
  <1>1. PICK a \in Addrs :
          /\ addr' = [addr EXCEPT ![t] = a]
          /\ Become(t, IF IsOK(table[a]) THEN "checking" ELSE "locking", table[a])
    BY DEF LookUp
  <1>2. IsOK(table[a]) => table[a] # NoChannel /\ chan[table[a]] \notin {"unused", "connecting"}
    BY DEF IsOK
  <1>3. addr' \in [Callers -> Addrs] /\ \A u \in Callers : u # t => addr'[u] = addr[u]
    BY <1>1 DEF IInv, TypeOK
  <1>4. table[a] \in Channels \cup {NoChannel}
    BY DEF IInv, TypeOK
  <1>5. pc[t] = "idle" /\ UNCHANGED <<table, lock, chan, handlerVars, overlooked>>
    BY DEF LookUp
  <1>6. CASE IsOK(table[a])
    BY <1>1, <1>2, <1>3, <1>4, <1>5, <1>6, CallerMoves DEF CallerStages
  <1>7. CASE ~IsOK(table[a])
    BY <1>1, <1>3, <1>4, <1>5, <1>7, CallerMoves DEF CallerStages
  <1>. QED BY <1>6, <1>7

LEMMA LockKeeps == ASSUME IInv, NEW t \in Callers, Lock(t) PROVE IInv'
  <1> DEFINE c == table[addr[t]]
  <1>1. c \in Channels \cup {NoChannel} /\ pc[t] = "locking" /\ lock = Nobody
    BY DEF IInv, TypeOK, Lock
  <1>2. CASE IsOK(c)
    <2>1. /\ c # NoChannel /\ chan[c] \notin {"unused", "connecting"}
          /\ Become(t, "checking", c) /\ UNCHANGED lock
      BY <1>2 DEF Lock, IsOK
    <2>2. addr' = addr /\ UNCHANGED <<table, lock, chan, handlerVars, overlooked>>
      BY <2>1 DEF Lock
    <2>. QED
      BY <1>1, <2>1, <2>2, CallerMoves DEF CallerStages, IInv, TypeOK
  <1>3. CASE ~IsOK(c)
    <2>1. Become(t, "deciding", c) /\ lock' = t
          /\ UNCHANGED <<table, chan, addr, handlerVars, overlooked>>
      BY <1>3 DEF Lock
    <2>2. TypeOK'
      BY <1>1, <2>1 DEF IInv, TypeOK, Become, handlerVars, CallerStages
    <2>3. LockHeld' /\ ReadStays' /\ UsedWasOpen'
      BY <1>1, <2>1 DEF IInv, TypeOK, LockHeld, ReadStays, UsedWasOpen, Become, handlerVars
    <2>4. KeysRight' /\ PendingIsShared' /\ NoOrphan'
      BY <2>1 DEF IInv, KeysRight, PendingIsShared, NoOrphan, handlerVars
    <2>. QED BY <2>2, <2>3, <2>4 DEF IInv
  <1>. QED BY <1>2, <1>3

(* connect: the entry that is replaced is what the caller has read. *)
LEMMA DecideKeeps == ASSUME IInv, NEW t \in Callers, Decide(t) PROVE IInv'
  <1> DEFINE a == addr[t]
             old == cw[t]
  <1>1. /\ pc[t] = "deciding" /\ lock = t /\ lock' = Nobody
        /\ old = table[a] /\ a \in Addrs /\ old \in Channels \cup {NoChannel}
        /\ UNCHANGED <<addr, handlerVars>>
    BY DEF IInv, TypeOK, LockHeld, ReadStays, Decide
  <1>2. \A c \in Channels : handler[c] # "closingLocked"
    BY <1>1 DEF IInv, LockHeld
  <1>3. LockHeld' /\ ReadStays'
    <2>1. \A u \in Callers : pc'[u] # "deciding"
      BY <1>1 DEF IInv, TypeOK, LockHeld, Decide, ConnectAnew, AwaitIfAny, Done, Become
    <2>2. \A c \in Channels : handler'[c] # "closingLocked"
      BY <1>1, <1>2 DEF handlerVars
    <2>. QED BY <1>1, <2>1, <2>2 DEF LockHeld, ReadStays
  <1>4. UsedWasOpen'
    BY <1>1 DEF IInv, TypeOK, UsedWasOpen, Decide, ConnectAnew, AwaitIfAny, Done, Become, Fresh
  <1>5. CASE IsPending(old)
    <2>1. Become(t, "awaiting", old) /\ UNCHANGED <<table, chan, overlooked>> /\ old # NoChannel
      BY <1>5, <1>1 DEF Decide, IsPending
    <2>2. TypeOK'
      BY <1>1, <2>1 DEF IInv, TypeOK, Become, handlerVars, CallerStages
    <2>3. KeysRight' /\ PendingIsShared' /\ NoOrphan'
      BY <1>1, <2>1 DEF IInv, KeysRight, PendingIsShared, NoOrphan, handlerVars
    <2>. QED BY <1>3, <1>4, <2>2, <2>3 DEF IInv
  <1>6. CASE ~IsPending(old)
    <2>1. ConnectAnew(t)
          /\ overlooked' = IF old \in Channels /\ chan[old] # "refused"
                           THEN overlooked \cup {old} ELSE overlooked
      BY <1>6 DEF Decide
    <2>2. CASE /\ table' = [table EXCEPT ![a] = NoChannel]
               /\ AwaitIfAny(t, old) /\ UNCHANGED chan
      <3>1. TypeOK'
        BY <1>1, <2>1, <2>2
        DEF IInv, TypeOK, AwaitIfAny, Done, Become, handlerVars, CallerStages
      <3>2. KeysRight' /\ PendingIsShared' /\ NoOrphan'
        BY <1>1, <1>6, <2>1, <2>2
        DEF IInv, TypeOK, KeysRight, PendingIsShared, NoOrphan, IsPending, handlerVars
      <3>. QED BY <1>3, <1>4, <3>1, <3>2 DEF IInv
    <2>3. ASSUME Fresh(a) # {},
                 LET n == CHOOSE n \in Fresh(a) : TRUE IN
                   /\ chan' = [chan EXCEPT ![n] = "connecting"]
                   /\ table' = [table EXCEPT ![a] = n]
                   /\ Become(t, "awaiting", n)
          PROVE  IInv'
      <3>1. PICK n \in Fresh(a) : /\ chan' = [chan EXCEPT ![n] = "connecting"]
                                  /\ table' = [table EXCEPT ![a] = n]
                                  /\ Become(t, "awaiting", n)
        BY <2>3
      <3>2. n \in Channels /\ n # NoChannel /\ chan[n] = "unused" /\ AddrOf[n] = a
        BY DEF Fresh
      <3>3. TypeOK'
        BY <1>1, <2>1, <3>1, <3>2
        DEF IInv, TypeOK, Become, handlerVars, CallerStages, Stages
      <3>4. KeysRight'
        BY <1>1, <3>1, <3>2 DEF IInv, TypeOK, KeysRight
      <3>5. PendingIsShared'
        BY <1>1, <1>6, <3>1, <3>2 DEF IInv, TypeOK, PendingIsShared, IsPending
      <3>6. NoOrphan'
        BY <1>1, <1>6, <2>1, <3>1, <3>2 DEF IInv, TypeOK, NoOrphan, handlerVars
      <3>. QED BY <1>3, <1>4, <3>3, <3>4, <3>5, <3>6 DEF IInv
    <2>. QED BY <2>1, <2>2, <2>3 DEF ConnectAnew
  <1>. QED BY <1>5, <1>6

(* closeChannel(addr, channel): the channel that leaves the table is closed. *)
LEMMA CloseChannelKeeps == ASSUME IInv, NEW t \in Callers, CloseChannel(t) PROVE IInv'
  <1>1. /\ pc[t] = "closing" /\ cw[t] \in Channels /\ addr[t] \in Addrs /\ Done(t)
        /\ UNCHANGED <<lock, chan, addr, handler, inactive, failedFast, overlooked>>
    BY DEF CloseChannel, IInv, TypeOK
  <1>2. CASE /\ lock = Nobody
             /\ table' = [table EXCEPT ![addr[t]] = IF @ = cw[t] THEN NoChannel ELSE @]
             /\ asked' = asked \cup {cw[t]}
    <2>1. TypeOK'
      BY <1>1, <1>2 DEF IInv, TypeOK, Done, Become, CallerStages
    <2>2. LockHeld' /\ ReadStays' /\ UsedWasOpen'
      BY <1>1, <1>2 DEF IInv, TypeOK, LockHeld, ReadStays, UsedWasOpen, Done, Become
    <2>3. KeysRight' /\ NoOrphan'
      BY <1>1, <1>2 DEF IInv, TypeOK, KeysRight, NoOrphan
    <2>4. PendingIsShared'
      BY <1>1, <1>2 DEF IInv, TypeOK, UsedWasOpen, PendingIsShared
    <2>. QED BY <2>1, <2>2, <2>3, <2>4 DEF IInv
  <1>3. CASE lock # Nobody /\ UNCHANGED <<table, asked>>
    BY <1>1, <1>3, CallerMoves DEF Done, CallerStages, IInv, TypeOK, handlerVars
  <1>. QED BY <1>2, <1>3 DEF CloseChannel

(* Every other step of a caller only moves on. *)
LEMMA CallerStepKeeps == ASSUME IInv, NEW t \in Callers, CallerStep(t) PROVE IInv'
  <1>1. CASE LockTimesOut(t)
    <2>1. /\ pc[t] = "locking" /\ cw[t] \in Channels \cup {NoChannel}
          /\ AwaitIfAny(t, cw[t]) /\ addr' = addr /\ addr \in [Callers -> Addrs]
          /\ UNCHANGED <<table, lock, chan, handlerVars, overlooked>>
      BY <1>1 DEF LockTimesOut, IInv, TypeOK
    <2>. QED BY <2>1, CallerMoves DEF AwaitIfAny, Done, CallerStages
  <1>2. CASE Await(t) \/ Check(t) \/ Return(t) \/ Fail(t)
    <2>1. /\ pc[t] \in {"awaiting", "checking", "calling"} /\ cw[t] \in Channels
          /\ addr' = addr /\ addr \in [Callers -> Addrs]
          /\ UNCHANGED <<table, lock, chan, handlerVars, overlooked>>
      BY <1>2 DEF Await, Check, Return, Fail, IInv, TypeOK
    <2>2. pc[t] # "awaiting" => chan[cw[t]] \notin {"unused", "connecting"}
      BY <2>1 DEF IInv, UsedWasOpen
    <2>3. IsOK(cw[t]) => chan[cw[t]] \notin {"unused", "connecting"}
      BY DEF IsOK
    <2>4. Done(t) => IInv'
      BY <2>1, CallerMoves DEF Done, CallerStages
    <2>5. CASE Await(t)
      <3>1. CASE IsOK(cw[t])
        BY <1>2, <2>1, <2>3, <2>5, <3>1, CallerMoves DEF Await, CallerStages
      <3>2. CASE ~IsOK(cw[t])
        BY <2>4, <2>5, <3>2 DEF Await
      <3>. QED BY <3>1, <3>2
    <2>6. CASE Check(t)
      <3>1. chan[cw[t]] \notin {"unused", "connecting"}
        BY <2>2, <2>6 DEF Check
      <3>2. CASE IsOK(cw[t])
        BY <2>1, <2>6, <3>1, <3>2, CallerMoves DEF Check, CallerStages
      <3>3. CASE ~IsOK(cw[t])
        BY <2>1, <2>6, <3>1, <3>3, CallerMoves DEF Check, CallerStages
      <3>. QED BY <3>2, <3>3
    <2>7. CASE Return(t)
      BY <2>4, <2>7 DEF Return
    <2>8. CASE Fail(t)
      BY <2>1, <2>2, <2>8, CallerMoves DEF Fail, CallerStages
    <2>. QED BY <1>2, <2>5, <2>6, <2>7, <2>8
  <1>. QED BY <1>1, <1>2, LockKeeps, DecideKeeps, CloseChannelKeeps DEF CallerStep

(* A connection that is made or refused is still shared, one that is lost *)
(* is no longer live.                                                     *)
LEMMA NetworkKeeps ==
  ASSUME IInv, NEW c \in Channels, IoStep(c) \/ ConnectionLost(c)
  PROVE  IInv'
  <1>1. PICK stage \in {"active", "refused", "ended"} :
          /\ chan' = [chan EXCEPT ![c] = stage]
          /\ stage = "active" => chan[c] = "connecting"
    BY DEF IoStep, Connected, Refused, SocketClosed, ConnectionLost, End
  <1>2. /\ UNCHANGED <<table, lock, callerVars, handler, asked, failedFast, overlooked>>
        /\ inactive' \in {inactive, inactive \cup {c}}
    BY DEF IoStep, Connected, Refused, SocketClosed, ConnectionLost, End, handlerVars
  <1>3. TypeOK'
    BY <1>1, <1>2 DEF IInv, TypeOK, callerVars, Stages
  <1>4. LockHeld' /\ ReadStays' /\ KeysRight'
    BY <1>2 DEF IInv, LockHeld, ReadStays, KeysRight, callerVars
  <1>5. UsedWasOpen'
    BY <1>1, <1>2 DEF IInv, TypeOK, UsedWasOpen, callerVars
  <1>6. PendingIsShared' /\ NoOrphan'
    BY <1>1, <1>2 DEF IInv, TypeOK, PendingIsShared, NoOrphan
  <1>. QED BY <1>3, <1>4, <1>5, <1>6 DEF IInv

(* A handler thread that finds its channel in the table removes only this  *)
(* entry, and is then in the middle of closing the channel.                *)
LEMMA RemovalKeeps ==
  ASSUME IInv, NEW c \in Channels, lock = Nobody, handler[c] = "idle",
         chan[c] # "connecting",
         CloseIfInTable(c),
         asked' = asked \/ (asked' = asked \ {c} /\ \E a \in Addrs : table[a] = c),
         inactive' \subseteq Channels,
         UNCHANGED <<chan, callerVars, failedFast, overlooked>>
  PROVE  IInv'
  <1>1. CASE \E a \in Addrs : table[a] = c
    <2>1. lock' = c /\ table' = Without(c) /\ handler' = [handler EXCEPT ![c] = "closingLocked"]
      BY <1>1 DEF CloseIfInTable, HandlerGoto
    <2>2. TypeOK'
      BY <2>1 DEF IInv, TypeOK, Without, callerVars, HandlerStages
    <2>3. LockHeld' /\ ReadStays'
      BY <2>1 DEF IInv, TypeOK, LockHeld, ReadStays, callerVars
    <2>4. UsedWasOpen' /\ KeysRight'
      BY <2>1 DEF IInv, UsedWasOpen, KeysRight, Without, callerVars
    <2>5. PendingIsShared'
      BY <2>1 DEF IInv, TypeOK, PendingIsShared, Without
    <2>6. NoOrphan'
      BY <2>1 DEF IInv, TypeOK, NoOrphan, Without
    <2>. QED BY <2>2, <2>3, <2>4, <2>5, <2>6 DEF IInv
  <1>2. CASE ~\E a \in Addrs : table[a] = c
    <2>1. UNCHANGED <<lock, table, handler, asked, chan, callerVars, failedFast, overlooked>>
      BY <1>2 DEF CloseIfInTable
    <2>. QED
      BY <2>1 DEF IInv, TypeOK, LockHeld, ReadStays, UsedWasOpen, KeysRight, PendingIsShared,
                  NoOrphan, callerVars
  <1>. QED BY <1>1, <1>2

(* A channelInactive is queued only for a channel that has ended, a *)
(* channel.close() only for one that was found OK.                  *)
QueuedRight ==
  /\ \A c \in inactive : chan[c] = "ended"
  /\ \A c \in asked : chan[c] \notin {"unused", "connecting"}

(* What the handler thread of a channel does disturbs no other channel. *)
LEMMA HandlerKeeps ==
  ASSUME IInv, NEW c \in Channels, HandlerStep(c) \/ ExceptionCaught(c),
         QueuedRight
  PROVE  IInv'
  <1>1. CASE ChannelInactive(c)
    <2>1. handler[c] = "idle" /\ c \in inactive /\ inactive' = inactive \ {c}
          /\ UNCHANGED <<chan, callerVars, asked, failedFast>>
      BY <1>1 DEF ChannelInactive
    <2>2. CASE lock = Nobody /\ CloseIfInTable(c) /\ UNCHANGED overlooked
      BY <2>1, <2>2, RemovalKeeps DEF IInv, TypeOK, QueuedRight
    <2>3. CASE overlooked' = overlooked \cup {c} /\ UNCHANGED <<lock, table, handler>>
      BY <2>1, <2>3 DEF IInv, TypeOK, LockHeld, ReadStays, UsedWasOpen, KeysRight,
                        PendingIsShared, NoOrphan, callerVars
    <2>. QED BY <1>1, <2>2, <2>3 DEF ChannelInactive
  <1>2. CASE ExceptionCaught(c)
    <2>1. /\ lock = Nobody /\ handler[c] = "idle" /\ chan[c] # "connecting" /\ CloseIfInTable(c)
          /\ UNCHANGED <<chan, callerVars, asked, inactive, failedFast, overlooked>>
      BY <1>2 DEF ExceptionCaught, IsOK
    <2>. QED BY <2>1, RemovalKeeps DEF IInv, TypeOK
  <1>3. CASE CloseHandler(c)
    <2>1. handler[c] = "idle" /\ c \in asked /\ asked' = asked \ {c}
          /\ UNCHANGED <<chan, callerVars, inactive, failedFast>>
      BY <1>3 DEF CloseHandler
    <2>2. CASE /\ lock = Nobody /\ \E a \in Addrs : table[a] = c
               /\ CloseIfInTable(c) /\ UNCHANGED overlooked
      <3>1. chan[c] # "connecting" /\ inactive' \subseteq Channels
        BY <2>1 DEF IInv, TypeOK, QueuedRight
      <3>2. UNCHANGED <<chan, callerVars, failedFast, overlooked>>
        BY <2>1, <2>2
      <3>. QED BY <2>1, <2>2, <3>1, <3>2, RemovalKeeps
    <2>3. CASE HandlerGoto(c, "closing") /\ UNCHANGED <<lock, table, overlooked>>
      BY <2>1, <2>3 DEF IInv, TypeOK, LockHeld, ReadStays, UsedWasOpen, KeysRight,
                        PendingIsShared, NoOrphan, callerVars, HandlerGoto, HandlerStages
    <2>4. CASE overlooked' = overlooked \cup {c} /\ UNCHANGED <<lock, table, handler>>
      BY <2>1, <2>4 DEF IInv, TypeOK, LockHeld, ReadStays, UsedWasOpen, KeysRight,
                        PendingIsShared, NoOrphan, callerVars
    <2>. QED BY <1>3, <2>2, <2>3, <2>4 DEF CloseHandler
  <1>4. CASE CloseRest(c)
    <2>1. /\ handler[c] # "idle" /\ handler' = [handler EXCEPT ![c] = "idle"]
          /\ lock' = IF handler[c] = "closingLocked" THEN Nobody ELSE lock
          /\ chan' = [chan EXCEPT ![c] = IF @ = "active" THEN "closing" ELSE @]
          /\ failedFast' = failedFast \cup {c}
          /\ UNCHANGED <<table, callerVars, asked, inactive, overlooked>>
      BY <1>4 DEF CloseRest, HandlerGoto
    <2>2. TypeOK'
      BY <2>1 DEF IInv, TypeOK, callerVars, Stages, HandlerStages
    <2>3. LockHeld' /\ ReadStays' /\ KeysRight'
      BY <2>1 DEF IInv, TypeOK, LockHeld, ReadStays, KeysRight, callerVars
    <2>4. UsedWasOpen' /\ PendingIsShared' /\ NoOrphan'
      BY <2>1 DEF IInv, TypeOK, UsedWasOpen, PendingIsShared, NoOrphan, callerVars
    <2>. QED BY <2>2, <2>3, <2>4 DEF IInv
  <1>. QED BY <1>1, <1>2, <1>3, <1>4 DEF HandlerStep

(* A channel that ended stays ended, one that was opened stays opened. *)
OnlyForward ==
  \A c \in Channels :
    /\ chan[c] = "ended" => chan'[c] = "ended"
    /\ chan[c] \notin {"unused", "connecting"} => chan'[c] \notin {"unused", "connecting"}

LEMMA QueuedRightKept ==
  ASSUME IInv, QueuedRight, [Next]_vars
  PROVE  QueuedRight'
  <1>1. CASE UNCHANGED vars
    BY <1>1 DEF vars, QueuedRight, handlerVars
  <1>2. ASSUME NEW t \in Callers, LookUp(t) \/ CallerStep(t)
        PROVE  QueuedRight'
    <2>1. UNCHANGED inactive /\ asked' \subseteq asked \cup {c \in Channels : chan[c] \notin {"unused", "connecting"}}
      <3>1. CASE CloseChannel(t)
        BY <3>1 DEF CloseChannel, IInv, TypeOK, UsedWasOpen
      <3>2. CASE ~CloseChannel(t)
        BY <1>2, <3>2 DEF LookUp, CallerStep, LockTimesOut, Lock, Decide, Await, Check, Return,
                          Fail, handlerVars
      <3>. QED BY <3>1, <3>2
    <2>2. OnlyForward
      <3>1. CASE Decide(t)
        <4>1. CASE UNCHANGED chan
          BY <4>1 DEF OnlyForward
        <4>2. ASSUME NEW n \in Fresh(addr[t]), chan' = [chan EXCEPT ![n] = "connecting"]
              PROVE  OnlyForward
          BY <4>2 DEF Fresh, IInv, TypeOK, OnlyForward
        <4>3. \/ UNCHANGED chan
              \/ /\ Fresh(addr[t]) # {}
                 /\ LET n == CHOOSE n \in Fresh(addr[t]) : TRUE IN
                      chan' = [chan EXCEPT ![n] = "connecting"]
          BY <3>1 DEF Decide, ConnectAnew
        <4>. QED BY <4>1, <4>2, <4>3
      <3>2. CASE ~Decide(t)
        BY <1>2, <3>2 DEF LookUp, CallerStep, LockTimesOut, Lock, Await, Check, Return, Fail,
                          CloseChannel, OnlyForward
      <3>. QED BY <3>1, <3>2
    <2>. QED BY <2>1, <2>2 DEF QueuedRight, OnlyForward, IInv, TypeOK
  <1>3. ASSUME NEW c \in Channels, IoStep(c) \/ ConnectionLost(c)
        PROVE  QueuedRight'
    BY <1>3 DEF IoStep, Connected, Refused, SocketClosed, ConnectionLost, End, QueuedRight,
                IInv, TypeOK, handlerVars
  <1>4. ASSUME NEW c \in Channels, HandlerStep(c) \/ ExceptionCaught(c)
        PROVE  QueuedRight'
    <2>1. inactive' \subseteq inactive /\ asked' \subseteq asked
      BY <1>4 DEF HandlerStep, ExceptionCaught, ChannelInactive, CloseHandler, CloseRest
    <2>2. OnlyForward
      BY <1>4 DEF HandlerStep, ExceptionCaught, ChannelInactive, CloseHandler, CloseRest,
                  IInv, TypeOK, OnlyForward
    <2>. QED BY <2>1, <2>2 DEF QueuedRight, OnlyForward, IInv, TypeOK
  <1>. QED BY <1>1, <1>2, <1>3, <1>4 DEF Next

(* The invariant is inductive. *)
LEMMA InductiveInvariant == Spec => [](IInv /\ QueuedRight)
  <1>1. Init => IInv /\ QueuedRight
    BY InitInv DEF Init, QueuedRight
  <1>2. IInv /\ QueuedRight /\ [Next]_vars => (IInv /\ QueuedRight)'
    <2>. SUFFICES ASSUME IInv, QueuedRight, [Next]_vars PROVE (IInv /\ QueuedRight)'
      OBVIOUS
    <2>1. QueuedRight'
      BY QueuedRightKept
    <2>2. CASE UNCHANGED vars
      <3>1. UNCHANGED <<table, lock, chan, pc, addr, cw, handler, asked, inactive, failedFast,
                        overlooked>>
        BY <2>2 DEF vars, callerVars, handlerVars
      <3>2. TypeOK'
        BY <3>1 DEF IInv, TypeOK
      <3>3. LockHeld' /\ ReadStays' /\ UsedWasOpen' /\ KeysRight'
        BY <3>1 DEF IInv, LockHeld, ReadStays, UsedWasOpen, KeysRight
      <3>4. PendingIsShared' /\ NoOrphan'
        BY <3>1 DEF IInv, PendingIsShared, NoOrphan
      <3>. QED BY <2>1, <3>2, <3>3, <3>4 DEF IInv
    <2>3. ASSUME NEW t \in Callers, LookUp(t) \/ CallerStep(t) PROVE IInv'
      BY <2>3, LookUpKeeps, CallerStepKeeps
    <2>4. ASSUME NEW c \in Channels, IoStep(c) \/ ConnectionLost(c) PROVE IInv'
      BY <2>4, NetworkKeeps
    <2>5. ASSUME NEW c \in Channels, HandlerStep(c) \/ ExceptionCaught(c) PROVE IInv'
      BY <2>5, HandlerKeeps DEF QueuedRight
    <2>. QED BY <2>1, <2>2, <2>3, <2>4, <2>5 DEF Next
  <1>. QED BY <1>1, <1>2, PTL DEF Spec

(* Types, and that no stage uses a channel it does not have. *)
THEOREM TypeCorrect == Spec => []TypeOK
  BY InductiveInvariant, PTL DEF IInv

(* At most one connection of an address is pending, and it is its entry. *)
THEOREM PendingAlwaysShared == Spec => []PendingIsShared
  BY InductiveInvariant, PTL DEF IInv

(* closeChannel never takes the entry of a successor away, nor leaves a live *)
(* connection behind.                                                        *)
THEOREM NeverOrphaned == Spec => []NoOrphan
  BY InductiveInvariant, PTL DEF IInv
(***************************************************************************)
(* The end of a connection does not escape the thread that fails its calls.*)
(***************************************************************************)
Attended(c) == handler[c] # "idle" \/ c \in asked \cup failedFast \cup overlooked

(* A connection that was made and is no longer in the table is being       *)
(* closed, was closed, or was overlooked.                                  *)
LeftIsClosed ==
  \A c \in Channels :
    chan[c] \in {"active", "closing", "ended"} => table[AddrOf[c]] = c \/ Attended(c)

(* The calls of a connection that has ended were failed, or what will fail *)
(* them is in the hands of its handler thread or queued for it.            *)
EndedNotForgotten ==
  \A c \in Channels : chan[c] = "ended" => c \in inactive \/ Attended(c)

AttendInv == LeftIsClosed /\ EndedNotForgotten

(* What a caller drops is overlooked, what it closes is queued. *)
LEMMA CallersAttend ==
  ASSUME IInv, AttendInv, NEW t \in Callers, LookUp(t) \/ CallerStep(t)
  PROVE  AttendInv'
  <1>1. CASE Decide(t)
    <2> DEFINE a == addr[t]
               old == cw[t]
    <2>1. /\ a \in Addrs /\ old = table[a] /\ old \in Channels \cup {NoChannel}
          /\ UNCHANGED handlerVars /\ overlooked \subseteq overlooked'
          /\ table \in [Addrs -> Channels \cup {NoChannel}]
          /\ chan \in [Channels -> Stages]
      BY <1>1 DEF IInv, TypeOK, ReadStays, Decide
    <2>2. \A c \in Channels : Attended(c) => Attended(c)'
      BY <2>1 DEF Attended, handlerVars
    <2>3. CASE IsPending(old) /\ UNCHANGED <<table, chan>>
      BY <2>1, <2>2, <2>3 DEF AttendInv, LeftIsClosed, EndedNotForgotten, handlerVars
    <2>4. CASE ~IsPending(old) /\ ConnectAnew(t)
      <3>1. ASSUME NEW c \in Channels, c = old, chan[c] # "refused" PROVE Attended(c)'
        <4>1. c \in overlooked'
          BY <1>1, <2>4, <3>1 DEF Decide
        <4>. QED BY <4>1 DEF Attended
      <3>2. PICK n \in Channels \cup {NoChannel} :
              /\ table' = [table EXCEPT ![a] = n]
              /\ \/ chan' = chan
                 \/ n \in Channels /\ chan' = [chan EXCEPT ![n] = "connecting"]
        BY <2>4 DEF ConnectAnew, Fresh
      <3>3. ASSUME NEW c \in Channels, chan'[c] \in {"active", "closing", "ended"}
            PROVE  chan[c] = chan'[c] /\ (table'[AddrOf[c]] = c \/ Attended(c)')
        <4>1. chan[c] = chan'[c]
          BY <2>1, <3>2, <3>3
        <4>2. table[AddrOf[c]] = c \/ Attended(c)
          BY <3>3, <4>1 DEF AttendInv, LeftIsClosed
        <4>3. CASE table[AddrOf[c]] = c
          <5>1. CASE AddrOf[c] = a
            BY <2>1, <3>1, <3>3, <4>1, <4>3, <5>1
          <5>2. CASE AddrOf[c] # a
            BY <2>1, <3>2, <4>1, <4>3, <5>2
          <5>. QED BY <5>1, <5>2
        <4>. QED BY <2>2, <4>1, <4>2, <4>3
      <3>. QED
        BY <2>1, <2>2, <3>3 DEF AttendInv, LeftIsClosed, EndedNotForgotten, handlerVars
    <2>. QED BY <1>1, <2>3, <2>4 DEF Decide
  <1>2. CASE CloseChannel(t)
    <2>1. /\ UNCHANGED <<chan, handler, inactive, failedFast, overlooked>>
          /\ cw[t] \in Channels /\ addr[t] \in Addrs
          /\ \/ table' = [table EXCEPT ![addr[t]] = IF @ = cw[t] THEN NoChannel ELSE @]
                /\ asked' = asked \cup {cw[t]}
             \/ UNCHANGED <<table, asked>>
      BY <1>2 DEF CloseChannel, IInv, TypeOK
    <2>2. \A c \in Channels : Attended(c) => Attended(c)'
      BY <2>1 DEF Attended
    <2>3. \A c \in Channels : table[AddrOf[c]] = c => table'[AddrOf[c]] = c \/ Attended(c)'
      BY <2>1 DEF Attended, IInv, TypeOK
    <2>. QED BY <2>1, <2>2, <2>3 DEF AttendInv, LeftIsClosed, EndedNotForgotten
  <1>3. CASE ~Decide(t) /\ ~CloseChannel(t)
    <2>1. UNCHANGED <<table, chan, handlerVars, overlooked>>
      BY <1>3 DEF LookUp, CallerStep, LockTimesOut, Lock, Await, Check, Return, Fail
    <2>. QED
      BY <2>1 DEF AttendInv, LeftIsClosed, EndedNotForgotten, Attended, handlerVars
  <1>. QED BY <1>1, <1>2, <1>3

(* A connection that is made is in the table, one that ends queues its     *)
(* channelInactive.                                                        *)
LEMMA NetworkAttends ==
  ASSUME IInv, AttendInv, NEW c \in Channels, IoStep(c) \/ ConnectionLost(c)
  PROVE  AttendInv'
  <1>1. PICK stage \in {"active", "refused", "ended"} :
          /\ chan' = [chan EXCEPT ![c] = stage]
          /\ stage = "active" => chan[c] = "connecting"
          /\ stage = "ended" => chan[c] \in {"active", "closing"} /\ c \in inactive'
    BY DEF IoStep, Connected, Refused, SocketClosed, ConnectionLost, End
  <1>2. UNCHANGED <<table, handler, asked, failedFast, overlooked>> /\ inactive \subseteq inactive'
    BY DEF IoStep, Connected, Refused, SocketClosed, ConnectionLost, End, handlerVars
  <1>3. \A d \in Channels : Attended(d) <=> Attended(d)'
    BY <1>2 DEF Attended
  <1>4. chan[c] = "connecting" => table[AddrOf[c]] = c
    BY DEF IInv, PendingIsShared
  <1>5. \A d \in Channels : chan'[d] = IF d = c THEN stage ELSE chan[d]
    BY <1>1 DEF IInv, TypeOK
  <1>. QED
    BY <1>1, <1>2, <1>3, <1>4, <1>5 DEF AttendInv, LeftIsClosed, EndedNotForgotten

(* The handler thread takes what is queued for the channel, and either     *)
(* closes it or finds that it is attended to.                              *)
LEMMA HandlerAttends ==
  ASSUME IInv, AttendInv, NEW c \in Channels, HandlerStep(c) \/ ExceptionCaught(c)
  PROVE  AttendInv'
  <1>1. /\ \A d \in Channels \ {c} : Attended(d) => Attended(d)'
        /\ \A d \in Channels \ {c} : d \in inactive => d \in inactive'
        /\ \A d \in Channels \ {c} : table[AddrOf[d]] = d => table'[AddrOf[d]] = d
        /\ \A d \in Channels \ {c} : chan'[d] = chan[d]
        /\ chan[c] # "ended" => chan'[c] # "ended"
        /\ chan'[c] \in {"active", "closing", "ended"} => chan[c] \in {"active", "closing", "ended"}
    BY DEF HandlerStep, ExceptionCaught, ChannelInactive, CloseHandler, CloseRest, CloseIfInTable,
           HandlerGoto, Without, Attended, IInv, TypeOK
  <1>2. CASE ChannelInactive(c)
    <2>1. c \in inactive /\ UNCHANGED <<chan, asked, failedFast>>
      BY <1>2 DEF ChannelInactive
    <2>2. CASE overlooked' = overlooked \cup {c}
      BY <1>1, <2>2 DEF AttendInv, LeftIsClosed, EndedNotForgotten, Attended
    <2>3. CASE CloseIfInTable(c) /\ UNCHANGED overlooked
      <3>1. CASE \E a \in Addrs : table[a] = c
        <4>1. handler'[c] # "idle"
          BY <2>3, <3>1 DEF CloseIfInTable, HandlerGoto, IInv, TypeOK
        <4>. QED
          BY <1>1, <4>1 DEF AttendInv, LeftIsClosed, EndedNotForgotten, Attended
      <3>2. CASE ~\E a \in Addrs : table[a] = c
        <4>1. UNCHANGED <<table, handler>> /\ table[AddrOf[c]] # c
          BY <2>3, <3>2 DEF CloseIfInTable
        <4>2. chan[c] \in {"active", "closing", "ended"} => Attended(c)'
          BY <2>1, <2>3, <4>1 DEF AttendInv, LeftIsClosed, Attended
        <4>. QED
          BY <1>1, <2>1, <4>1, <4>2 DEF AttendInv, LeftIsClosed, EndedNotForgotten
      <3>. QED BY <3>1, <3>2
    <2>. QED BY <1>2, <2>2, <2>3 DEF ChannelInactive
  <1>3. CASE ExceptionCaught(c)
    <2>1. CASE \E a \in Addrs : table[a] = c
      <3>1. handler'[c] # "idle"
        BY <1>3, <2>1 DEF ExceptionCaught, CloseIfInTable, HandlerGoto, IInv, TypeOK
      <3>. QED
        BY <1>1, <3>1 DEF AttendInv, LeftIsClosed, EndedNotForgotten, Attended
    <2>2. CASE ~\E a \in Addrs : table[a] = c
      <3>1. UNCHANGED <<table, handler, chan, asked, inactive, failedFast, overlooked>>
        BY <1>3, <2>2 DEF ExceptionCaught, CloseIfInTable
      <3>. QED
        BY <3>1 DEF AttendInv, LeftIsClosed, EndedNotForgotten, Attended
    <2>. QED BY <2>1, <2>2
  <1>4. CASE CloseHandler(c) \/ CloseRest(c)
    <2>1. Attended(c)'
      BY <1>4 DEF CloseHandler, CloseRest, CloseIfInTable, HandlerGoto, Attended, IInv, TypeOK
    <2>. QED
      BY <1>1, <2>1 DEF AttendInv, LeftIsClosed, EndedNotForgotten
  <1>. QED BY <1>2, <1>3, <1>4 DEF HandlerStep

(* The safety half of EndedFailsFast: whatever callers, channelInactive    *)
(* and close() race for, the calls of a connection that ended were failed, *)
(* or its handler thread is about to fail them - or it is one of the three *)
(* cases of "overlooked".                                                  *)
THEOREM EndedNeverForgotten == Spec => []EndedNotForgotten
  <1>1. Init => AttendInv
    BY DEF Init, AttendInv, LeftIsClosed, EndedNotForgotten
  <1>2. IInv /\ AttendInv /\ [Next]_vars => AttendInv'
    <2>1. ASSUME IInv, AttendInv, UNCHANGED vars PROVE AttendInv'
      BY <2>1 DEF vars, handlerVars, AttendInv, LeftIsClosed, EndedNotForgotten, Attended
    <2>. QED BY <2>1, CallersAttend, NetworkAttends, HandlerAttends DEF Next
  <1>3. AttendInv => EndedNotForgotten
    BY DEF AttendInv
  <1>. QED BY <1>1, <1>2, <1>3, InductiveInvariant, PTL DEF Spec
=============================================================================
