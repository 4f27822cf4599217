------------------------ MODULE RemotingInvokeProofs ------------------------
(***************************************************************************)
(* Theorems about RemotingInvoke for every set of calls and channels and   *)
(* every number of permits, on the client and on the server.               *)
(***************************************************************************)
EXTENDS RemotingInvoke, FiniteSetTheorems, TLAPS

(* The threads and channels the actions name exist. *)
LEMMA ThreadFacts ==
  /\ Timer \in Threads
  /\ \A ch \in Channels : Io(ch) \in Threads /\ Handler(ch) \in Threads
  /\ \A c \in Calls : ChannelOf[c] \in Channels
BY CallsAssumption DEF Threads, Timer, Io, Handler

(* Release keeps the types of the semaphores, whoever calls it. *)
LEMMA ReleaseType ==
  ASSUME TypeOK, NEW c, Release(c)
  PROVE  released' \subseteq Limited /\ permits' \in [Pools -> Nat]
<1>1. PoolOf(c) \in Pools
  BY DEF PoolOf, Pools
<1>2. CASE c \in Limited \ released
  BY <1>1, <1>2 DEF Release, TypeOK
<1>3. CASE c \notin Limited \ released
  BY <1>3 DEF Release, TypeOK
<1>4. QED
  BY <1>2, <1>3

(* RunCallback keeps the types of the callback's flag, count and outcome. *)
LEMMA RunCallbackType ==
  ASSUME TypeOK, NEW c, RunCallback(c)
  PROVE  /\ called' \subseteq AsyncCalls
         /\ notified' \in [Calls -> Nat]
         /\ outcome' \in [Calls -> Outcomes]
<1>1. CASE c \in AsyncCalls \ called
  BY <1>1 DEF RunCallback, TypeOK, Calls, Limited, Outcomes
<1>2. CASE c \notin AsyncCalls \ called
  BY <1>2 DEF RunCallback, TypeOK
<1>3. QED
  BY <1>1, <1>2

LEMMA ExecuteInvokeCallbackType ==
  ASSUME TypeOK, NEW c \in Tracked, NEW t \in Threads, ExecuteInvokeCallback(c, t)
  PROVE  /\ called' \subseteq AsyncCalls
         /\ notified' \in [Calls -> Nat]
         /\ outcome' \in [Calls -> Outcomes]
         /\ released' \subseteq Limited
         /\ permits' \in [Pools -> Nat]
         /\ tasks' \subseteq Tracked \X Threads
<1>1. CASE tasks' = tasks \cup {<<c, t>>} /\ UNCHANGED <<onceVars, outcome>>
  BY <1>1 DEF TypeOK, onceVars
<1>2. CASE RunCallback(c) /\ Release(c) /\ UNCHANGED tasks
  BY <1>2, ReleaseType, RunCallbackType DEF TypeOK
<1>3. QED
  BY <1>1, <1>2 DEF ExecuteInvokeCallback

-----------------------------------------------------------------------------

LEMMA InitType == Init => TypeOK
<1>1. Capacity \in [Pools -> Nat]
  BY PermitsAssumption DEF Capacity
<1>2. QED
  BY <1>1 DEF Init, TypeOK, CallerStates, Outcomes, ThreadStates

LEMMA CallerStepType ==
  ASSUME TypeOK, NEW c \in Calls, CallerStep(c)
  PROVE  TypeOK'
<1>1. CASE TryAcquire(c)
  <2>1. PoolOf(c) \in Pools
    BY DEF PoolOf, Pools
  <2>2. permits' \in [Pools -> Nat] /\ caller' \in [Calls -> CallerStates]
    BY <1>1, <2>1 DEF TryAcquire, TypeOK, CallerStates
  <2>3. QED
    BY <1>1, <2>2 DEF TryAcquire, TypeOK, futureVars, netVars, threadVars
<1>2. CASE AcquiredTooLate(c)
  BY <1>2, ReleaseType DEF AcquiredTooLate, TypeOK, CallerStates, futureVars, netVars, threadVars
<1>3. CASE Register(c)
  BY <1>3 DEF Register, TypeOK, CallerStates, Tracked, futureVars, onceVars, netVars, threadVars
<1>4. CASE Write(c)
  BY <1>4 DEF Write, TypeOK, CallerStates, futureVars, onceVars, netVars, threadVars
<1>5. CASE WriteThrows(c)
  <2>1. caller' \in [Calls -> CallerStates] /\ outcome' \in [Calls -> Outcomes]
    BY <1>5 DEF WriteThrows, TypeOK, CallerStates, Outcomes
  <2>2. released' \subseteq Limited /\ permits' \in [Pools -> Nat]
    BY <1>5, ReleaseType DEF WriteThrows, TypeOK
  <2>3. QED
    BY <1>5, <2>1, <2>2 DEF WriteThrows, TypeOK, futureVars, netVars, threadVars
<1>6. CASE Wake(c)
  BY <1>6 DEF Wake, TypeOK, CallerStates, Outcomes, futureVars, onceVars, netVars, threadVars
<1>7. CASE Judge(c)
  BY <1>7 DEF Judge, TypeOK, CallerStates, Outcomes, futureVars, onceVars, netVars, threadVars
<1>8. CASE Leave(c)
  BY <1>8 DEF Leave, TypeOK, CallerStates, futureVars, onceVars, netVars, threadVars
<1>9. QED
  BY <1>1, <1>2, <1>3, <1>4, <1>5, <1>6, <1>7, <1>8 DEF CallerStep

(* A thread that has a call to work for has it. *)
LEMMA CurTracked ==
  ASSUME TypeOK, NEW t \in Threads, pc[t] \notin {"idle", "failFast", "scan", "fire"}
  PROVE  cur[t] \in Tracked
BY DEF TypeOK

LEMMA RequestFailType ==
  ASSUME TypeOK, NEW t \in Threads, RequestFail(t)
  PROVE  TypeOK'
<1> USE DEF Goto
<1>1. CASE RemoveFailed(t)
  BY <1>1 DEF RemoveFailed, Resume, TypeOK, ThreadStates, callVars, futureVars, onceVars, netVars
<1>2. CASE MarkFailed(t)
  BY <1>2, CurTracked DEF MarkFailed, TypeOK, ThreadStates, callVars, onceVars, netVars
<1>3. CASE PutNull(t)
  BY <1>3, CurTracked DEF PutNull, TypeOK, ThreadStates, callVars, onceVars, netVars
<1>4. CASE FailCallback(t)
  BY <1>4, CurTracked, ExecuteInvokeCallbackType
  DEF FailCallback, TypeOK, ThreadStates, callVars, futureVars, netVars
<1>5. CASE FailRelease(t)
  BY <1>5, ReleaseType DEF FailRelease, Resume, TypeOK, ThreadStates, callVars, futureVars, netVars
<1>6. QED
  BY <1>1, <1>2, <1>3, <1>4, <1>5 DEF RequestFail

LEMMA IoStepType ==
  ASSUME TypeOK, NEW ch \in Channels, IoStep(ch)
  PROVE  TypeOK'
<1> USE DEF Goto
<1>0. Io(ch) \in Threads
  BY ThreadFacts
<1>1. CASE MarkUnsent(ch)
  BY <1>0, <1>1, CurTracked DEF MarkUnsent, TypeOK, ThreadStates, callVars, onceVars, netVars
<1>2. CASE DropEntry(ch)
  BY <1>0, <1>2, CurTracked DEF DropEntry, TypeOK, ThreadStates, callVars, futureVars, onceVars, netVars
<1>3. CASE WakeCaller(ch)
  BY <1>0, <1>3, CurTracked DEF WakeCaller, TypeOK, ThreadStates, callVars, onceVars, netVars
<1>4. CASE RequestFail(Io(ch))
  BY <1>0, <1>4, RequestFailType
<1>5. QED
  BY <1>1, <1>2, <1>3, <1>4 DEF IoStep

LEMMA FailFastType ==
  ASSUME TypeOK, NEW ch \in Channels, StartFailFast(ch)
  PROVE  /\ pc' \in [Threads -> ThreadStates]
         /\ todo' \in [Channels -> SUBSET Tracked]
         /\ \A t \in Threads : pc'[t] \notin {"idle", "failFast", "scan", "fire"} =>
                                pc'[t] = pc[t]
<1>1. Handler(ch) \in Threads /\ OnChannel(ch) \subseteq Tracked
  BY ThreadFacts DEF OnChannel, TypeOK
<1>2. QED
  BY <1>1 DEF StartFailFast, Goto, TypeOK, ThreadStates

LEMMA HandlerStepType ==
  ASSUME TypeOK, NEW ch \in Channels, HandlerStep(ch)
  PROVE  TypeOK'
<1> USE DEF Goto
<1>0. Handler(ch) \in Threads
  BY ThreadFacts
<1>1. CASE \E c \in Calls : ChannelOf[c] = ch /\ Encode(c)
  BY <1>1 DEF Encode, TypeOK, futureVars, onceVars, netVars, threadVars
<1>2. CASE SetResponse(ch)
  BY <1>0, <1>2, CurTracked DEF SetResponse, TypeOK, ThreadStates, callVars, onceVars, netVars
<1>3. CASE RemoveAnswered(ch)
  BY <1>0, <1>3, CurTracked
  DEF RemoveAnswered, TypeOK, ThreadStates, callVars, futureVars, onceVars, netVars
<1>4. CASE Complete(ch)
  <2>1. cur[Handler(ch)] \in Tracked
    BY <1>0, <1>4, CurTracked DEF Complete
  <2>2. /\ pc' \in [Threads -> ThreadStates]
        /\ cur' \in [Threads -> Tracked \cup {NoCall}]
        /\ \A t \in Threads : pc'[t] \notin {"idle", "failFast", "scan", "fire"} => cur'[t] # NoCall
    BY <1>0, <1>4 DEF Complete, TypeOK, ThreadStates
  <2>3. /\ called' \subseteq AsyncCalls
        /\ notified' \in [Calls -> Nat]
        /\ outcome' \in [Calls -> Outcomes]
        /\ released' \subseteq Limited
        /\ permits' \in [Pools -> Nat]
        /\ tasks' \subseteq Tracked \X Threads
        /\ response' \subseteq Tracked /\ latched' \subseteq Tracked
    <3>1. CASE cur[Handler(ch)] \in AsyncCalls
      <4>1. /\ ExecuteInvokeCallback(cur[Handler(ch)], Handler(ch))
            /\ UNCHANGED <<response, latched>>
        BY <1>4, <3>1, CallsAssumption DEF Complete
      <4>2. QED
        BY <1>0, <2>1, <4>1, ExecuteInvokeCallbackType DEF TypeOK
    <3>2. CASE cur[Handler(ch)] \notin AsyncCalls
      BY <1>4, <2>1, <3>2 DEF Complete, TypeOK, onceVars
    <3>3. QED
      BY <3>1, <3>2
  <2>4. QED
    BY <1>4, <2>2, <2>3 DEF Complete, TypeOK, callVars, netVars
<1>5. CASE FailFastVisit(ch)
  <2>1. OnChannel(ch) \subseteq Tracked /\ NoCall \notin Tracked
    BY CallsAssumption DEF OnChannel, TypeOK, Tracked, Calls, Limited
  <2>2. QED
    BY <1>0, <1>5, <2>1 DEF FailFastVisit, TypeOK, ThreadStates, callVars, futureVars, onceVars, netVars
<1>6. CASE FailFastEnd(ch)
  BY <1>0, <1>6 DEF FailFastEnd, TypeOK, ThreadStates, callVars, futureVars, onceVars, netVars
<1>7. CASE RequestFail(Handler(ch))
  BY <1>0, <1>7, RequestFailType
<1>8. QED
  BY <1>1, <1>2, <1>3, <1>4, <1>5, <1>6, <1>7 DEF HandlerStep

LEMMA ChannelStepType ==
  ASSUME TypeOK, NEW ch \in Channels, ChannelStep(ch)
  PROVE  TypeOK'
<1>1. CASE Close(ch)
  BY <1>1, FailFastType DEF Close, TypeOK, callVars, futureVars, onceVars
<1>2. CASE SocketClosed(ch)
  BY <1>2 DEF SocketClosed, TypeOK, callVars, futureVars, onceVars, threadVars
<1>3. CASE ConnectionLost(ch)
  BY <1>3 DEF ConnectionLost, TypeOK, callVars, futureVars, onceVars, threadVars
<1>4. CASE ChannelInactive(ch)
  <2>1. CASE FailsFastWhenInactive
    BY <1>4, <2>1, FailFastType DEF ChannelInactive, TypeOK, callVars, futureVars, onceVars
  <2>2. CASE ~FailsFastWhenInactive
    BY <1>4, <2>2 DEF ChannelInactive, TypeOK, callVars, futureVars, onceVars
  <2>3. QED
    BY <2>1, <2>2
<1>5. QED
  BY <1>1, <1>2, <1>3, <1>4 DEF ChannelStep

LEMMA ScanStepType ==
  ASSUME TypeOK, ScanStep
  PROVE  TypeOK'
<1> USE DEF Goto
<1>0. Timer \in Threads /\ NoCall \notin Tracked
  BY ThreadFacts, CallsAssumption DEF Tracked, Calls, Limited
<1>1. CASE ScanFinds
  BY <1>0, <1>1 DEF ScanFinds, TypeOK, ThreadStates, callVars, futureVars, onceVars, netVars
<1>2. CASE ScanRelease
  BY <1>0, <1>2, ReleaseType, CurTracked DEF ScanRelease, TypeOK, ThreadStates, callVars, futureVars, netVars
<1>3. CASE ScanRemove
  BY <1>0, <1>3, CurTracked DEF ScanRemove, TypeOK, ThreadStates, callVars, futureVars, onceVars, netVars
<1>4. CASE ScanEnd
  BY <1>0, <1>4 DEF ScanEnd, TypeOK, ThreadStates, callVars, futureVars, onceVars, netVars
<1>5. CASE Fire
  <2>1. PICK c \in overdue : /\ ExecuteInvokeCallback(c, Timer)
                             /\ overdue' = overdue \ {c}
                             /\ Goto(Timer, IF overdue = {c} THEN "idle" ELSE "fire")
    BY <1>5 DEF Fire
  <2>2. c \in Tracked
    BY <2>1 DEF TypeOK
  <2>3. /\ pc' \in [Threads -> ThreadStates]
        /\ \A t \in Threads : pc'[t] \notin {"idle", "failFast", "scan", "fire"} => cur[t] # NoCall
    BY <1>0, <2>1 DEF TypeOK, ThreadStates
  <2>4. QED
    BY <1>0, <1>5, <2>1, <2>2, <2>3, ExecuteInvokeCallbackType
    DEF Fire, TypeOK, callVars, futureVars, netVars
<1>6. QED
  BY <1>1, <1>2, <1>3, <1>4, <1>5 DEF ScanStep

LEMMA RunTaskType ==
  ASSUME TypeOK, RunTask
  PROVE  TypeOK'
<1>1. PICK task \in tasks : RunCallback(task[1]) /\ Release(task[1]) /\ tasks' = tasks \ {task}
  BY DEF RunTask
<1>2. QED
  BY <1>1, ReleaseType, RunCallbackType
  DEF RunTask, TypeOK, callVars, futureVars, netVars, threadVars

LEMMA CallStepType ==
  ASSUME TypeOK, NEW c \in Calls,
         Age(c) \/ WriteCompletes(c) \/ PeerReplies(c) \/ ReceiveResponse(c)
  PROVE  TypeOK'
<1> USE DEF Goto
<1>0. Io(ChannelOf[c]) \in Threads /\ Handler(ChannelOf[c]) \in Threads /\ NoCall # c
  BY ThreadFacts, CallsAssumption
<1>1. CASE Age(c)
  BY <1>1 DEF Age, TypeOK, futureVars, onceVars, netVars, threadVars
<1>2. CASE WriteSucceeds(c)
  BY <1>2, ReleaseType DEF WriteSucceeds, TypeOK, netVars, threadVars
<1>3. CASE WriteFails(c)
  <2>1. written' \in [Calls -> {"no", "queued", "inFlight", "tooLate", "sent", "failed", "answered"}]
    BY <1>3 DEF WriteFails, TypeOK
  <2>2. CASE c \in OnewayCalls
    BY <1>3, <2>1, <2>2, ReleaseType DEF WriteFails, TypeOK, futureVars, netVars
  <2>3. CASE c \notin OnewayCalls
    <3>1. c \in Tracked
      BY <2>3 DEF Calls, Limited, Tracked
    <3>2. QED
      BY <1>0, <1>3, <2>1, <2>3, <3>1 DEF WriteFails, TypeOK, ThreadStates, futureVars, netVars
  <2>4. QED
    BY <2>2, <2>3
<1>4. CASE PeerReplies(c)
  BY <1>4 DEF PeerReplies, TypeOK, futureVars, onceVars, threadVars
<1>5. CASE ReceiveResponse(c)
  BY <1>0, <1>5 DEF ReceiveResponse, TypeOK, ThreadStates, callVars, futureVars, onceVars
<1>6. QED
  BY <1>1, <1>2, <1>3, <1>4, <1>5 DEF WriteCompletes

LEMMA StepType == TypeOK /\ [Next]_vars => TypeOK'
<1> SUFFICES ASSUME TypeOK, [Next]_vars PROVE TypeOK'
  OBVIOUS
<1>1. CASE UNCHANGED vars
  BY <1>1 DEF TypeOK, vars, callVars, futureVars, onceVars, netVars, threadVars
<1>2. CASE Next
  BY <1>2, CallerStepType, CallStepType, IoStepType, HandlerStepType, ChannelStepType,
     ScanStepType, RunTaskType DEF Next
<1>3. QED
  BY <1>1, <1>2

(* Every reachable state is well typed, for any calls, channels and permits. *)
THEOREM TypeCorrect == Spec => []TypeOK
BY InitType, StepType, PTL DEF Spec

-----------------------------------------------------------------------------
(***************************************************************************)
(* That a release gives back a permit that was taken is not inductive      *)
(* alone: it needs that every thread works for a call that is under way.   *)
(***************************************************************************)
UnderWay(c) == caller[c] \notin {"idle", "acquired", "refused"}

(* Nothing but a call under way is in the table or in a thread's hands. *)
OnlyUnderWay ==
  /\ \A c \in table \cup overdue : UnderWay(c)
  /\ \A t \in Threads : cur[t] # NoCall => UnderWay(cur[t])
  /\ \A task \in tasks : UnderWay(task[1])
  /\ \A c \in Calls : written[c] # "no" => UnderWay(c)
  /\ \A c \in released : caller[c] \notin {"idle", "acquired"}

(* The frame of the callback machinery: what it adds, and to whom. *)
LEMMA ReleaseFrame ==
  ASSUME NEW c, Release(c)
  PROVE  released' \subseteq released \cup {c}
BY DEF Release

LEMMA ExecuteInvokeCallbackFrame ==
  ASSUME NEW c, NEW t, ExecuteInvokeCallback(c, t)
  PROVE  released' \subseteq released \cup {c} /\ tasks' \subseteq tasks \cup {<<c, t>>}
BY ReleaseFrame DEF ExecuteInvokeCallback, onceVars

LEMMA InitOnlyUnderWay == Init => OnlyUnderWay
BY DEF Init, OnlyUnderWay

LEMMA StepOnlyUnderWay ==
  ASSUME TypeOK, OnlyUnderWay, [Next]_vars
  PROVE  OnlyUnderWay'
<1> USE DEF UnderWay, Goto, callVars, futureVars, onceVars, netVars, threadVars
<1> /\ \A c \in table \cup overdue : c \in Calls
    /\ \A t \in Threads : cur[t] # NoCall => cur[t] \in Calls
    /\ \A task \in tasks : task[1] \in Calls
    /\ NoCall \notin Calls
  BY CallsAssumption DEF TypeOK, Tracked, Calls, Limited
<1>1. ASSUME NEW c \in Calls, CallerStep(c) PROVE OnlyUnderWay'
  <2>1. /\ \A d \in Calls : UnderWay(d) => UnderWay(d)'
        /\ table' # table \/ written' # written => UnderWay(c)'
        /\ c \in released \/ released' # released => caller'[c] \notin {"idle", "acquired"}
    BY <1>1, CallsAssumption DEF CallerStep, TryAcquire, AcquiredTooLate, Register, Write, WriteThrows,
         Wake, Judge, Leave, ReadyToWrite, OnlyUnderWay, TypeOK, CallerStates, Calls, Limited
  <2>2. /\ table' \subseteq table \cup {c} /\ released' \subseteq released \cup {c}
        /\ UNCHANGED <<overdue, cur, tasks>>
        /\ \A d \in Calls \ {c} : written'[d] = written[d] /\ caller'[d] = caller[d]
    BY <1>1, ReleaseFrame DEF CallerStep, TryAcquire, AcquiredTooLate, Register, Write, WriteThrows,
         Wake, Judge, Leave, TypeOK
  <2>3. /\ (\A d \in table \cup overdue : UnderWay(d))'
        /\ (\A t \in Threads : cur[t] # NoCall => UnderWay(cur[t]))'
        /\ (\A task \in tasks : UnderWay(task[1]))'
    BY <2>1, <2>2 DEF OnlyUnderWay
  <2>4. (\A d \in Calls : written[d] # "no" => UnderWay(d))'
    BY <2>1, <2>2 DEF OnlyUnderWay
  <2>5. (\A d \in released : caller[d] \notin {"idle", "acquired"})'
    BY <2>1, <2>2 DEF OnlyUnderWay, TypeOK, Calls, Limited
  <2>6. QED
    BY <2>3, <2>4, <2>5 DEF OnlyUnderWay
<1>2. ASSUME NEW c \in Calls, Age(c) \/ WriteCompletes(c) \/ PeerReplies(c) \/ ReceiveResponse(c)
      PROVE  OnlyUnderWay'
  <2>0. /\ Io(ChannelOf[c]) \in Threads /\ Handler(ChannelOf[c]) \in Threads
    BY ThreadFacts
  <2>1. CASE Age(c)
    BY <2>1 DEF Age, OnlyUnderWay
  <2>2. CASE WriteSucceeds(c)
    BY <2>2, ReleaseFrame DEF WriteSucceeds, OnlyUnderWay, TypeOK
  <2>3. CASE WriteFails(c)
    BY <2>0, <2>3, ReleaseFrame DEF WriteFails, OnlyUnderWay, TypeOK
  <2>4. CASE PeerReplies(c)
    BY <2>4 DEF PeerReplies, OnlyUnderWay, TypeOK
  <2>5. CASE ReceiveResponse(c)
    BY <2>0, <2>5 DEF ReceiveResponse, OnlyUnderWay, TypeOK
  <2>6. QED
    BY <1>2, <2>1, <2>2, <2>3, <2>4, <2>5 DEF WriteCompletes
<1>3. ASSUME NEW t \in Threads, RequestFail(t) PROVE OnlyUnderWay'
  <2>1. CASE RemoveFailed(t) \/ MarkFailed(t) \/ PutNull(t)
    BY <1>3, <2>1 DEF RemoveFailed, MarkFailed, PutNull, Resume, OnlyUnderWay, TypeOK
  <2>2. CASE FailCallback(t)
    BY <1>3, <2>2, CurTracked, ExecuteInvokeCallbackFrame DEF FailCallback, OnlyUnderWay, TypeOK
  <2>3. CASE FailRelease(t)
    BY <1>3, <2>3, CurTracked, ReleaseFrame DEF FailRelease, Resume, OnlyUnderWay, TypeOK
  <2>4. QED
    BY <1>3, <2>1, <2>2, <2>3 DEF RequestFail
<1>4. ASSUME NEW ch \in Channels, IoStep(ch) PROVE OnlyUnderWay'
  <2>0. Io(ch) \in Threads
    BY ThreadFacts
  <2>1. CASE MarkUnsent(ch) \/ DropEntry(ch) \/ WakeCaller(ch)
    BY <2>0, <2>1 DEF MarkUnsent, DropEntry, WakeCaller, OnlyUnderWay, TypeOK
  <2>2. QED
    BY <1>3, <1>4, <2>0, <2>1 DEF IoStep
<1>5. ASSUME NEW ch \in Channels, HandlerStep(ch) PROVE OnlyUnderWay'
  <2>0. Handler(ch) \in Threads
    BY ThreadFacts
  <2>1. CASE \E c \in Calls : ChannelOf[c] = ch /\ Encode(c)
    BY <2>1 DEF Encode, OnlyUnderWay, TypeOK
  <2>2. CASE SetResponse(ch) \/ RemoveAnswered(ch) \/ FailFastEnd(ch)
    BY <2>0, <2>2 DEF SetResponse, RemoveAnswered, FailFastEnd, OnlyUnderWay, TypeOK
  <2>3. CASE Complete(ch)
    BY <2>0, <2>3, CurTracked, ExecuteInvokeCallbackFrame DEF Complete, OnlyUnderWay, TypeOK
  <2>4. CASE FailFastVisit(ch)
    BY <2>0, <2>4 DEF FailFastVisit, OnChannel, OnlyUnderWay, TypeOK
  <2>5. QED
    BY <1>3, <1>5, <2>0, <2>1, <2>2, <2>3, <2>4 DEF HandlerStep
<1>6. ASSUME NEW ch \in Channels, ChannelStep(ch) PROVE OnlyUnderWay'
  BY <1>6 DEF ChannelStep, Close, SocketClosed, ConnectionLost, ChannelInactive, OnlyUnderWay
<1>7. ASSUME ScanStep PROVE OnlyUnderWay'
  <2>0. Timer \in Threads
    BY ThreadFacts
  <2>1. CASE ScanFinds \/ ScanEnd
    BY <2>0, <2>1 DEF ScanFinds, ScanEnd, OnlyUnderWay, TypeOK
  <2>2. CASE ScanRelease
    BY <2>0, <2>2, CurTracked, ReleaseFrame DEF ScanRelease, OnlyUnderWay, TypeOK
  <2>3. CASE ScanRemove
    BY <2>0, <2>3, CurTracked DEF ScanRemove, OnlyUnderWay, TypeOK
  <2>4. CASE Fire
    BY <2>0, <2>4, ExecuteInvokeCallbackFrame DEF Fire, OnlyUnderWay, TypeOK
  <2>5. QED
    BY <1>7, <2>1, <2>2, <2>3, <2>4 DEF ScanStep
<1>8. ASSUME RunTask PROVE OnlyUnderWay'
  BY <1>8, ReleaseFrame DEF RunTask, OnlyUnderWay, TypeOK
<1>9. CASE UNCHANGED vars
  BY <1>9 DEF vars, OnlyUnderWay
<1>10. QED
  BY <1>1, <1>2, <1>4, <1>5, <1>6, <1>7, <1>8, <1>9 DEF Next

-----------------------------------------------------------------------------
(* Permits.  A step leaves the holders alone, adds one, or removes one.    *)
Holds(c) == caller[c] \notin {"idle", "refused"}

LEMMA HoldingFinite ==
  ASSUME NEW p
  PROVE  IsFiniteSet(Holding(p)) /\ Cardinality(Holding(p)) \in Nat
<1>1. Holding(p) \subseteq Limited
  BY DEF Holding
<1>2. QED
  BY <1>1, CallsAssumption, FS_Subset, FS_CardinalityType

LEMMA HoldersUnchanged ==
  ASSUME PermitsConserved, UNCHANGED <<released, permits>>,
         \A c \in Limited : Holds(c)' <=> Holds(c)
  PROVE  PermitsConserved'
<1>1. \A p \in Pools : Holding(p)' = Holding(p)
  BY DEF Holding, Holds, PoolOf
<1>2. QED
  BY <1>1 DEF PermitsConserved, Capacity

(* Release(c) returns exactly the permit c holds, or nothing. *)
LEMMA ReleaseConserves ==
  ASSUME TypeOK, PermitsConserved, NEW c, Release(c),
         c \in Limited => Holds(c),
         \A d \in Limited \ {c} : Holds(d)' <=> Holds(d),
         c \in released => (Holds(c)' <=> Holds(c))
  PROVE  PermitsConserved'
<1>1. CASE c \notin Limited \ released
  <2>1. UNCHANGED <<released, permits>> /\ \A d \in Limited : Holds(d)' <=> Holds(d)
    BY <1>1 DEF Release
  <2>2. QED
    BY <2>1, HoldersUnchanged
<1>2. CASE c \in Limited \ released
  <2> DEFINE q == PoolOf(c)
  <2>1. q \in Pools /\ c \in Holding(q)
    BY <1>2 DEF PoolOf, Pools, Holding, Holds
  <2>2. Holding(q)' = Holding(q) \ {c}
    BY <1>2 DEF Holding, Holds, PoolOf, Release
  <2>3. \A p \in Pools \ {q} : Holding(p)' = Holding(p) /\ permits'[p] = permits[p]
    BY <1>2 DEF Holding, Holds, PoolOf, Release, TypeOK
  <2>4. permits'[q] = permits[q] + 1
    BY <1>2, <2>1 DEF Release, TypeOK
  <2>5. Cardinality(Holding(q)') = Cardinality(Holding(q)) - 1
    BY <2>1, <2>2, HoldingFinite, FS_RemoveElement
  <2>6. Capacity' = Capacity
    BY DEF Capacity
  <2>7. permits'[q] + Cardinality(Holding(q)') = Capacity[q]
    BY <2>1, <2>4, <2>5, HoldingFinite DEF PermitsConserved, TypeOK
  <2>8. QED
    BY <2>3, <2>6, <2>7 DEF PermitsConserved
<1>3. QED
  BY <1>1, <1>2

LEMMA TryAcquireConserves ==
  ASSUME TypeOK, OnlyUnderWay, PermitsConserved, NEW c \in Calls, TryAcquire(c)
  PROVE  PermitsConserved'
<1>1. c \in Limited /\ caller[c] = "idle" /\ c \notin released
  BY DEF TryAcquire, OnlyUnderWay
<1>2. CASE UNCHANGED permits /\ caller' = [caller EXCEPT ![c] = "refused"]
  <2>1. \A d \in Limited : Holds(d)' <=> Holds(d)
    BY <1>1, <1>2 DEF Holds, TypeOK, Calls
  <2>2. QED
    BY <1>2, <2>1, HoldersUnchanged DEF TryAcquire
<1>3. CASE /\ permits' = [permits EXCEPT ![PoolOf(c)] = @ - 1]
           /\ caller' = [caller EXCEPT ![c] = "acquired"]
  <2> DEFINE q == PoolOf(c)
  <2>1. q \in Pools /\ c \notin Holding(q)
    BY <1>1 DEF PoolOf, Pools, Holding
  <2>2. Holding(q)' = Holding(q) \cup {c}
    BY <1>1, <1>3 DEF Holding, PoolOf, TryAcquire, TypeOK, Calls
  <2>3. \A p \in Pools \ {q} : Holding(p)' = Holding(p) /\ permits'[p] = permits[p]
    BY <1>1, <1>3 DEF Holding, PoolOf, TryAcquire, TypeOK, Calls
  <2>4. permits'[q] = permits[q] - 1
    BY <1>3, <2>1 DEF TypeOK
  <2>5. Cardinality(Holding(q)') = Cardinality(Holding(q)) + 1
    BY <2>1, <2>2, HoldingFinite, FS_AddElement
  <2>6. Capacity' = Capacity
    BY DEF Capacity
  <2>7. permits'[q] + Cardinality(Holding(q)') = Capacity[q]
    BY <2>1, <2>4, <2>5, HoldingFinite DEF PermitsConserved, TypeOK
  <2>8. QED
    BY <2>3, <2>6, <2>7 DEF PermitsConserved
<1>4. QED
  BY <1>2, <1>3 DEF TryAcquire

LEMMA InitPermits == Init => PermitsConserved
<1> SUFFICES ASSUME Init PROVE PermitsConserved
  OBVIOUS
<1>1. \A p \in Pools : Holding(p) = {}
  BY DEF Init, Holding, Calls
<1>2. \A p \in Pools : Capacity[p] \in Nat
  BY PermitsAssumption DEF Capacity
<1>3. Cardinality({}) = 0
  BY FS_EmptySet
<1>4. permits = Capacity
  BY DEF Init
<1>5. QED
  BY <1>1, <1>2, <1>3, <1>4 DEF PermitsConserved

LEMMA StepPermits ==
  ASSUME TypeOK, OnlyUnderWay, PermitsConserved, [Next]_vars
  PROVE  PermitsConserved'
<1> USE DEF Goto, callVars, futureVars, onceVars, netVars, threadVars
<1>0. ASSUME NEW c \in Calls, UnderWay(c), Release(c), UNCHANGED caller
      PROVE  PermitsConserved'
  <2>1. \A d \in Limited : Holds(d)' <=> Holds(d)
    BY <1>0 DEF Holds
  <2>2. Holds(c)
    BY <1>0 DEF Holds, UnderWay
  <2>3. QED
    BY <1>0, <2>1, <2>2, ReleaseConserves DEF Holds
<1>00. ASSUME UNCHANGED <<caller, released, permits>>
       PROVE  PermitsConserved'
  BY <1>00, HoldersUnchanged DEF Holds
<1>T. /\ \A t \in Threads : pc[t] \notin {"idle", "failFast", "scan", "fire"} =>
           cur[t] \in Calls /\ UnderWay(cur[t])
      /\ \A task \in tasks : task[1] \in Calls /\ UnderWay(task[1])
      /\ \A c \in overdue : c \in Calls /\ UnderWay(c)
  BY CurTracked DEF OnlyUnderWay, TypeOK, Tracked, Calls, Limited
<1>E. ASSUME NEW c \in Calls, UnderWay(c), NEW t, ExecuteInvokeCallback(c, t), UNCHANGED caller
      PROVE  PermitsConserved'
  BY <1>E, <1>0, <1>00 DEF ExecuteInvokeCallback
<1>1. ASSUME NEW c \in Calls, CallerStep(c) PROVE PermitsConserved'
  <2>1. CASE TryAcquire(c)
    BY <2>1, TryAcquireConserves
  <2>2. CASE AcquiredTooLate(c)
    <3>1. /\ c \in Limited /\ Holds(c) /\ c \notin released
          /\ \A d \in Limited \ {c} : Holds(d)' <=> Holds(d)
      BY <2>2 DEF AcquiredTooLate, OnlyUnderWay, Holds, Limited, TypeOK, Calls
    <3>2. QED
      BY <2>2, <3>1, ReleaseConserves DEF AcquiredTooLate
  <2>3. CASE WriteThrows(c)
    <3>1. CASE c \in Limited
      <4>1. /\ Holds(c) /\ Release(c) /\ (Holds(c)' <=> Holds(c))
            /\ \A d \in Limited \ {c} : Holds(d)' <=> Holds(d)
        BY <2>3, <3>1, CallsAssumption DEF WriteThrows, ReadyToWrite, Holds, TypeOK, Calls, Limited
      <4>2. QED
        BY <4>1, ReleaseConserves
    <3>2. CASE c \notin Limited
      <4>1. UNCHANGED <<released, permits>> /\ \A d \in Limited : Holds(d)' <=> Holds(d)
        BY <2>3, <3>2 DEF WriteThrows, Holds, TypeOK, Calls
      <4>2. QED
        BY <4>1, HoldersUnchanged
    <3>3. QED
      BY <3>1, <3>2
  <2>4. CASE Register(c) \/ Write(c) \/ Wake(c) \/ Judge(c) \/ Leave(c)
    <3>1. UNCHANGED <<released, permits>> /\ \A d \in Limited : Holds(d)' <=> Holds(d)
      BY <2>4, CallsAssumption DEF Register, Write, Wake, Judge, Leave, ReadyToWrite, Holds, TypeOK, Calls, Limited
    <3>2. QED
      BY <3>1, HoldersUnchanged
  <2>5. QED
    BY <1>1, <2>1, <2>2, <2>3, <2>4 DEF CallerStep
<1>2. ASSUME NEW c \in Calls, Age(c) \/ WriteCompletes(c) \/ PeerReplies(c) \/ ReceiveResponse(c)
      PROVE  PermitsConserved'
  <2>1. CASE Age(c) \/ PeerReplies(c) \/ ReceiveResponse(c)
    BY <1>00, <2>1 DEF Age, PeerReplies, ReceiveResponse
  <2>2. CASE WriteSucceeds(c) \/ WriteFails(c)
    <3>1. UnderWay(c)
      BY <2>2 DEF WriteSucceeds, WriteFails, OnlyUnderWay
    <3>2. Release(c) \/ UNCHANGED <<released, permits>>
      BY <2>2 DEF WriteSucceeds, WriteFails
    <3>3. QED
      BY <1>0, <1>00, <2>2, <3>1, <3>2 DEF WriteSucceeds, WriteFails
  <2>3. QED
    BY <1>2, <2>1, <2>2 DEF WriteCompletes
<1>3. ASSUME NEW t \in Threads, RequestFail(t) PROVE PermitsConserved'
  <2>1. CASE RemoveFailed(t) \/ MarkFailed(t) \/ PutNull(t)
    BY <1>00, <2>1 DEF RemoveFailed, MarkFailed, PutNull
  <2>2. CASE FailCallback(t)
    BY <1>3, <1>T, <1>E, <2>2 DEF FailCallback
  <2>3. CASE FailRelease(t)
    BY <1>3, <1>T, <1>0, <2>3 DEF FailRelease
  <2>4. QED
    BY <1>3, <2>1, <2>2, <2>3 DEF RequestFail
<1>4. ASSUME NEW ch \in Channels, IoStep(ch) PROVE PermitsConserved'
  BY <1>00, <1>3, <1>4, ThreadFacts DEF IoStep, MarkUnsent, DropEntry, WakeCaller
<1>5. ASSUME NEW ch \in Channels, HandlerStep(ch) PROVE PermitsConserved'
  <2>0. Handler(ch) \in Threads
    BY ThreadFacts
  <2>1. CASE \/ \E c \in Calls : ChannelOf[c] = ch /\ Encode(c)
             \/ SetResponse(ch) \/ RemoveAnswered(ch) \/ FailFastVisit(ch) \/ FailFastEnd(ch)
    BY <1>00, <2>1 DEF Encode, SetResponse, RemoveAnswered, FailFastVisit, FailFastEnd
  <2>2. CASE Complete(ch)
    <3>1. CASE ExecuteInvokeCallback(cur[Handler(ch)], Handler(ch))
      BY <1>T, <1>E, <2>0, <2>2, <3>1 DEF Complete
    <3>2. CASE UNCHANGED onceVars
      BY <1>00, <2>2, <3>2 DEF Complete
    <3>3. QED
      BY <2>2, <3>1, <3>2 DEF Complete
  <2>3. QED
    BY <1>3, <1>5, <2>0, <2>1, <2>2 DEF HandlerStep
<1>6. ASSUME NEW ch \in Channels, ChannelStep(ch) PROVE PermitsConserved'
  BY <1>00, <1>6 DEF ChannelStep, Close, SocketClosed, ConnectionLost, ChannelInactive
<1>7. ASSUME ScanStep PROVE PermitsConserved'
  <2>1. CASE ScanFinds \/ ScanRemove \/ ScanEnd
    BY <1>00, <2>1 DEF ScanFinds, ScanRemove, ScanEnd
  <2>2. CASE ScanRelease
    BY <1>0, <1>T, <2>2, ThreadFacts DEF ScanRelease
  <2>3. CASE Fire
    BY <1>E, <1>T, <2>3 DEF Fire
  <2>4. QED
    BY <1>7, <2>1, <2>2, <2>3 DEF ScanStep
<1>8. ASSUME RunTask PROVE PermitsConserved'
  BY <1>0, <1>8, <1>T DEF RunTask
<1>9. CASE UNCHANGED vars
  BY <1>00, <1>9 DEF vars
<1>10. QED
  BY <1>1, <1>2, <1>4, <1>5, <1>6, <1>7, <1>8, <1>9 DEF Next

(* No permit is lost or minted, for any number of calls and permits. *)
THEOREM PermitsAlwaysConserved == Spec => []PermitsConserved
<1>1. TypeOK /\ OnlyUnderWay /\ PermitsConserved /\ [Next]_vars
      => (TypeOK /\ OnlyUnderWay /\ PermitsConserved)'
  BY StepType, StepOnlyUnderWay, StepPermits
<1>2. QED
  BY <1>1, InitType, InitOnlyUnderWay, InitPermits, PTL DEF Spec

(***************************************************************************)
(* RemotingInvoke keeps InvokeContract: theorems on callbacks, responses   *)
(* and verdicts.  The properties are not inductive alone: that failFast    *)
(* does not wipe out a response needs that responses and failFast share    *)
(* the handler thread of the channel; that a verdict never changes needs   *)
(* that the callback flag, the history and the outcome agree.              *)
(***************************************************************************)
(* executeCallbackOnlyOnce, the history and the outcome agree. *)
CalledOnce ==
  /\ \A c \in Calls : notified[c] = IF c \in called THEN 1 ELSE 0
  /\ \A c \in AsyncCalls :
       IF c \in called THEN outcome[c] \in {"response", "null"} ELSE outcome[c] = "none"
  /\ \A c \in SyncCalls :
       IF caller[c] \in {"leaving", "returned"}
       THEN outcome[c] \in {"response", "timeout", "sendFailure", "exception"}
       ELSE outcome[c] = "none" /\ caller[c] # "threw"
  /\ \A c \in AsyncCalls : caller[c] \notin {"waiting", "judging", "leaving"}

(* Which thread does what, and for a call of which channel. *)
IoConfined(ch) ==
  /\ pc[Io(ch)] \in {"idle", "markUnsent", "dropEntry", "wakeCaller", "removeFailed",
                     "markFailed", "putNull", "failCallback", "failRelease"}
  /\ pc[Io(ch)] # "idle" => written[cur[Io(ch)]] = "failed"
  /\ pc[Io(ch)] \in {"markUnsent", "dropEntry", "wakeCaller"} => cur[Io(ch)] \in SyncCalls

HandlerConfined(ch) ==
  /\ pc[Handler(ch)] \in {"idle", "gotResponse", "removeAnswered", "complete", "failFast",
              "removeFailed", "markFailed", "putNull", "failCallback", "failRelease"}
  /\ pc[Handler(ch)] \in {"gotResponse", "removeAnswered", "complete"}
       => written[cur[Handler(ch)]] = "answered"
  /\ pc[Handler(ch)] \notin {"idle", "failFast"} => ChannelOf[cur[Handler(ch)]] = ch

Confinement ==
  /\ \A ch \in Channels : IoConfined(ch) /\ HandlerConfined(ch)
  /\ pc[Timer] \in {"idle", "scan", "scanRelease", "scanRemove", "fire"}
  /\ \A c \in Calls : caller[c] = "registered" => written[c] = "no"

(* A stored response belongs to an answered call that is out of the table, *)
(* or about to be taken out by the thread that stored it.                  *)
ResponseStored ==
  /\ \A c \in response \cup net : written[c] = "answered"
  /\ \A c \in response \cap table :
       cur[Handler(ChannelOf[c])] = c /\ pc[Handler(ChannelOf[c])] = "removeAnswered"
  /\ \A ch \in Channels :
       /\ pc[Handler(ch)] = "complete" => cur[Handler(ch)] \notin table
       /\ pc[Handler(ch)] \in {"markFailed", "putNull"} => cur[Handler(ch)] \notin response

LEMMA InitCalledOnce == Init => CalledOnce
BY CallsAssumption DEF Init, CalledOnce, Calls, Limited

(* Steps that neither run a callback nor move a caller. *)
LEMMA CalledOnceFrame ==
  ASSUME CalledOnce, UNCHANGED <<caller, called, notified, outcome>>
  PROVE  CalledOnce'
BY DEF CalledOnce

LEMMA RunCallbackCalledOnce ==
  ASSUME TypeOK, CalledOnce, NEW c, RunCallback(c), UNCHANGED caller
  PROVE  CalledOnce'
<1>1. CASE c \in AsyncCalls \ called
  <2>1. /\ c \in Calls /\ c \notin SyncCalls /\ notified[c] = 0
        /\ \A d \in AsyncCalls : d \in Calls
        /\ \A d \in SyncCalls : d \in Calls
    BY <1>1, CallsAssumption DEF CalledOnce, Calls, Limited
  <2>2. /\ called' = called \cup {c}
        /\ notified' = [notified EXCEPT ![c] = 1]
        /\ outcome'[c] \in {"response", "null"}
        /\ \A d \in Calls \ {c} : outcome'[d] = outcome[d]
    BY <1>1, <2>1 DEF RunCallback, TypeOK
  <2>3. (\A d \in Calls : notified[d] = IF d \in called THEN 1 ELSE 0)'
    BY <2>1, <2>2 DEF CalledOnce, TypeOK
  <2>4. QED
    BY <2>1, <2>2, <2>3 DEF CalledOnce
<1>2. CASE c \notin AsyncCalls \ called
  BY <1>2, CalledOnceFrame DEF RunCallback
<1>3. QED
  BY <1>1, <1>2

LEMMA ExecuteCalledOnce ==
  ASSUME TypeOK, CalledOnce, NEW c, NEW t, ExecuteInvokeCallback(c, t), UNCHANGED caller
  PROVE  CalledOnce'
BY CalledOnceFrame, RunCallbackCalledOnce DEF ExecuteInvokeCallback, onceVars

LEMMA CallerCalledOnce ==
  ASSUME TypeOK, CalledOnce, NEW c \in Calls, CallerStep(c)
  PROVE  CalledOnce'
<1>0. /\ \A d \in AsyncCalls : d \in Calls /\ d \notin SyncCalls
      /\ \A d \in SyncCalls : d \in Calls /\ d \notin Limited
      /\ \A d \in OnewayCalls : d \notin AsyncCalls
  BY CallsAssumption DEF Calls, Limited
<1>1. UNCHANGED <<called, notified>>
  BY DEF CallerStep, TryAcquire, AcquiredTooLate, Register, Write, WriteThrows, Wake, Judge, Leave,
         onceVars
<1>2. \A d \in Calls \ {c} : caller'[d] = caller[d] /\ outcome'[d] = outcome[d]
  BY DEF CallerStep, TryAcquire, AcquiredTooLate, Register, Write, WriteThrows, Wake, Judge, Leave,
         TypeOK
<1>3. CASE c \in SyncCalls
  <2>1. IF caller'[c] \in {"leaving", "returned"}
        THEN outcome'[c] \in {"response", "timeout", "sendFailure", "exception"}
        ELSE outcome'[c] = "none" /\ caller'[c] # "threw"
    BY <1>0, <1>3 DEF CallerStep, TryAcquire, AcquiredTooLate, Register, Write, WriteThrows,
       ReadyToWrite, Wake, Judge, Leave, TypeOK, CalledOnce
  <2>2. QED
    BY <1>0, <1>1, <1>2, <1>3, <2>1 DEF CalledOnce
<1>4. CASE c \notin SyncCalls
  <2>1. /\ outcome'[c] = outcome[c]
        /\ c \in AsyncCalls => caller'[c] \notin {"waiting", "judging", "leaving"}
    BY <1>0, <1>4 DEF CallerStep, TryAcquire, AcquiredTooLate, Register, Write, WriteThrows,
       ReadyToWrite, Wake, Judge, Leave, TypeOK, CalledOnce
  <2>2. QED
    BY <1>0, <1>1, <1>2, <1>4, <2>1 DEF CalledOnce
<1>5. QED
  BY <1>3, <1>4

LEMMA StepCalledOnce ==
  ASSUME TypeOK, CalledOnce, [Next]_vars
  PROVE  CalledOnce'
<1> USE DEF callVars, onceVars
<1>1. ASSUME NEW c \in Calls, CallerStep(c) PROVE CalledOnce'
  BY <1>1, CallerCalledOnce
<1>2. ASSUME NEW c \in Calls, Age(c) \/ WriteCompletes(c) \/ PeerReplies(c) \/ ReceiveResponse(c)
      PROVE  CalledOnce'
  BY <1>2, CalledOnceFrame DEF Age, WriteCompletes, WriteSucceeds, WriteFails, PeerReplies, ReceiveResponse
<1>3. ASSUME NEW t \in Threads, RequestFail(t) PROVE CalledOnce'
  BY <1>3, CalledOnceFrame, ExecuteCalledOnce
  DEF RequestFail, RemoveFailed, MarkFailed, PutNull, FailCallback, FailRelease
<1>4. ASSUME NEW ch \in Channels, IoStep(ch) PROVE CalledOnce'
  BY <1>3, <1>4, ThreadFacts, CalledOnceFrame DEF IoStep, MarkUnsent, DropEntry, WakeCaller
<1>5. ASSUME NEW ch \in Channels, HandlerStep(ch) PROVE CalledOnce'
  BY <1>3, <1>5, ThreadFacts, CalledOnceFrame, ExecuteCalledOnce
  DEF HandlerStep, Encode, SetResponse, RemoveAnswered, Complete, FailFastVisit, FailFastEnd
<1>6. ASSUME NEW ch \in Channels, ChannelStep(ch) PROVE CalledOnce'
  BY <1>6, CalledOnceFrame DEF ChannelStep, Close, SocketClosed, ConnectionLost, ChannelInactive
<1>7. ASSUME ScanStep PROVE CalledOnce'
  BY <1>7, CalledOnceFrame, ExecuteCalledOnce
  DEF ScanStep, ScanFinds, ScanRelease, ScanRemove, ScanEnd, Fire
<1>8. ASSUME RunTask PROVE CalledOnce'
  BY <1>8, RunCallbackCalledOnce DEF RunTask
<1>9. CASE UNCHANGED vars
  BY <1>9, CalledOnceFrame DEF vars
<1>10. QED
  BY <1>1, <1>2, <1>4, <1>5, <1>6, <1>7, <1>8, <1>9 DEF Next

LEMMA CalledOnceAlways == Spec => [](TypeOK /\ CalledOnce)
<1>1. TypeOK /\ CalledOnce /\ [Next]_vars => (TypeOK /\ CalledOnce)'
  BY StepType, StepCalledOnce
<1>2. QED
  BY <1>1, InitType, InitCalledOnce, PTL DEF Spec

(* The callback of a call runs at most once, whoever submits it. *)
THEOREM CalledBackAtMostOnce == Spec => []CallbackAtMostOnce
<1>1. CalledOnce => CallbackAtMostOnce
  BY DEF CalledOnce, CallbackAtMostOnce
<1>2. QED
  BY <1>1, CalledOnceAlways, PTL

-----------------------------------------------------------------------------
(* The threads are distinct. *)
LEMMA DistinctThreads ==
  /\ \A a, b \in Channels : /\ Io(a) # Handler(b) /\ Io(a) # Timer /\ Handler(a) # Timer
                            /\ Io(a) = Io(b) => a = b
                            /\ Handler(a) = Handler(b) => a = b
  /\ \A ch \in Channels : Io(ch)[1] # "handler" /\ Handler(ch)[1] = "handler"
BY DEF Io, Handler, Timer

LEMMA InitConfinement == Init => Confinement
BY ThreadFacts DEF Init, Confinement, IoConfined, HandlerConfined

(* written advances: a failed or answered call stays so, and only a *)
(* registered or acquired call can still be unwritten.              *)
LEMMA CallsConfinement ==
  ASSUME TypeOK, OnlyUnderWay, Confinement, NEW c \in Calls,
         CallerStep(c) \/ Age(c)
  PROVE  Confinement'
<1>1. UNCHANGED <<pc, cur>>
  BY DEF CallerStep, TryAcquire, AcquiredTooLate, Register, Write, WriteThrows, Wake, Judge, Leave,
     Age, threadVars
<1>2. \A d \in Calls \ {c} : written'[d] = written[d] /\ caller'[d] = caller[d]
  BY DEF CallerStep, TryAcquire, AcquiredTooLate, Register, Write, WriteThrows, Wake, Judge, Leave,
     Age, TypeOK
<1>3. written'[c] = written[c] \/ (written[c] = "no" /\ Write(c))
  BY CallsAssumption DEF CallerStep, TryAcquire, AcquiredTooLate, Register, Write, WriteThrows, Wake, Judge,
     Leave, Age, ReadyToWrite, OnlyUnderWay, UnderWay, Confinement, TypeOK
<1>4. caller'[c] = "registered" => written'[c] = "no"
  BY CallsAssumption DEF CallerStep, TryAcquire, AcquiredTooLate, Register, Write, WriteThrows, Wake, Judge,
     Leave, Age, ReadyToWrite, OnlyUnderWay, UnderWay, Confinement, TypeOK
<1>5. \A d \in Calls : written[d] \in {"failed", "answered"} => written'[d] = written[d]
  BY <1>2, <1>3
<1>6. \A t \in Threads : cur[t] # NoCall => cur[t] \in Calls
  BY DEF TypeOK, Tracked, Calls, Limited
<1>7. QED
  BY <1>1, <1>2, <1>4, <1>5, <1>6, ThreadFacts DEF Confinement, IoConfined, HandlerConfined, TypeOK

(* What a step of one thread has to establish. *)
LEMMA ThreadStepConfinement ==
  ASSUME TypeOK, Confinement, NEW t \in Threads,
         \A u \in Threads \ {t} : pc'[u] = pc[u] /\ cur'[u] = cur[u],
         \A c \in Calls : /\ written[c] \in {"failed", "answered"} => written'[c] = written[c]
                          /\ written[c] = "no" => written'[c] = "no",
         UNCHANGED caller,
         \A ch \in Channels : /\ t = Io(ch) => IoConfined(ch)'
                              /\ t = Handler(ch) => HandlerConfined(ch)',
         t = Timer => pc'[Timer] \in {"idle", "scan", "scanRelease", "scanRemove", "fire"}
  PROVE  Confinement'
<1>1. \A u \in Threads : cur[u] # NoCall => cur[u] \in Calls
  BY DEF TypeOK, Tracked, Calls, Limited
<1>2. ASSUME NEW ch \in Channels PROVE IoConfined(ch)' /\ HandlerConfined(ch)'
  <2>0. Io(ch) \in Threads /\ Handler(ch) \in Threads
    BY ThreadFacts
  <2>1. CASE t # Io(ch) /\ t # Handler(ch)
    BY <1>1, <2>0, <2>1 DEF Confinement, IoConfined, HandlerConfined, TypeOK
  <2>2. CASE t = Io(ch)
    <3>1. t # Handler(ch)
      BY <2>2, DistinctThreads
    <3>2. HandlerConfined(ch)'
      BY <1>1, <2>0, <3>1 DEF Confinement, HandlerConfined, TypeOK
    <3>3. QED
      BY <2>2, <3>2
  <2>3. CASE t = Handler(ch)
    <3>1. t # Io(ch)
      BY <2>3, DistinctThreads
    <3>2. IoConfined(ch)'
      BY <1>1, <2>0, <3>1 DEF Confinement, IoConfined, TypeOK
    <3>3. QED
      BY <2>3, <3>2
  <2>4. QED
    BY <2>1, <2>2, <2>3
<1>3. pc'[Timer] \in {"idle", "scan", "scanRelease", "scanRemove", "fire"}
  BY ThreadFacts DEF Confinement
<1>4. QED
  BY <1>2, <1>3 DEF Confinement

LEMMA StepConfinement ==
  ASSUME TypeOK, OnlyUnderWay, Confinement, ResponseStored, [Next]_vars
  PROVE  Confinement'
<1> USE DEF Goto, callVars, futureVars, onceVars, netVars, threadVars
<1>0. /\ \A ch \in Channels : IoConfined(ch) /\ HandlerConfined(ch)
      /\ \A ch \in Channels : Io(ch) \in Threads /\ Handler(ch) \in Threads
      /\ Timer \in Threads
      /\ \A c \in Calls : ChannelOf[c] \in Channels
  BY ThreadFacts DEF Confinement
<1>1. ASSUME UNCHANGED <<pc, cur, written, caller>> PROVE Confinement'
  BY <1>1 DEF Confinement, IoConfined, HandlerConfined
<1>2. ASSUME NEW c \in Calls, CallerStep(c) \/ Age(c) PROVE Confinement'
  BY <1>2, CallsConfinement
<1>3. ASSUME NEW c \in Calls, WriteSucceeds(c) \/ PeerReplies(c) \/ Encode(c) PROVE Confinement'
  <2>1. \A d \in Calls : /\ written[d] \in {"failed", "answered"} => written'[d] = written[d]
                         /\ written[d] = "no" => written'[d] = "no"
    BY <1>3 DEF WriteSucceeds, PeerReplies, Encode, TypeOK
  <2>2. UNCHANGED <<pc, cur, caller>>
    BY <1>3 DEF WriteSucceeds, PeerReplies, Encode
  <2>3. \A u \in Threads : cur[u] # NoCall => cur[u] \in Calls
    BY DEF TypeOK, Tracked, Calls, Limited
  <2>4. QED
    BY <1>0, <2>1, <2>2, <2>3 DEF Confinement, IoConfined, HandlerConfined, TypeOK
<1>4. ASSUME NEW c \in Calls, WriteFails(c) PROVE Confinement'
  <2> DEFINE io == Io(ChannelOf[c])
  <2>1. \A d \in Calls : /\ written[d] \in {"failed", "answered"} => written'[d] = written[d]
                         /\ written[d] = "no" => written'[d] = "no"
    BY <1>4 DEF WriteFails, TypeOK
  <2>2. io \in Threads /\ io # Timer /\ \A ch \in Channels : io # Handler(ch)
    BY <1>0, DistinctThreads
  <2>3. \A u \in Threads \ {io} : pc'[u] = pc[u] /\ cur'[u] = cur[u]
    BY <1>4 DEF WriteFails, TypeOK
  <2>4. ASSUME NEW ch \in Channels, io = Io(ch) PROVE IoConfined(ch)'
    BY <1>4, <2>2, <2>4, CallsAssumption DEF WriteFails, IoConfined, TypeOK
  <2>5. QED
    BY <1>4, <2>1, <2>2, <2>3, <2>4, ThreadStepConfinement DEF WriteFails
<1>5. ASSUME NEW t \in Threads, RequestFail(t),
             \/ \E ch \in Channels : t = Io(ch)
             \/ \E ch \in Channels : t = Handler(ch)
      PROVE  Confinement'
  <2>1. /\ UNCHANGED <<caller, written>>
        /\ \A u \in Threads \ {t} : pc'[u] = pc[u] /\ cur'[u] = cur[u]
    BY <1>5 DEF RequestFail, RemoveFailed, MarkFailed, PutNull, FailCallback, FailRelease, Resume, TypeOK
  <2>2. ASSUME NEW ch \in Channels, t = Io(ch) PROVE IoConfined(ch)'
    BY <1>0, <1>5, <2>1, <2>2, DistinctThreads
    DEF RequestFail, RemoveFailed, MarkFailed, PutNull, FailCallback, FailRelease, Resume, TypeOK, IoConfined
  <2>3. ASSUME NEW ch \in Channels, t = Handler(ch) PROVE HandlerConfined(ch)'
    <3>1. t[1] = "handler"
      BY <2>3, DistinctThreads
    <3>2. CASE RemoveFailed(t) \/ FailRelease(t)
      BY <1>0, <2>1, <2>3, <3>1, <3>2 DEF RemoveFailed, FailRelease, Resume, TypeOK, HandlerConfined
    <3>3. CASE MarkFailed(t) \/ PutNull(t) \/ FailCallback(t)
      BY <1>0, <2>1, <2>3, <3>3 DEF MarkFailed, PutNull, FailCallback, TypeOK, HandlerConfined
    <3>4. QED
      BY <1>5, <3>2, <3>3 DEF RequestFail
  <2>4. QED
    BY <1>5, <2>1, <2>2, <2>3, DistinctThreads, ThreadStepConfinement
<1>6. ASSUME NEW ch \in Channels, IoStep(ch) PROVE Confinement'
  <2>1. CASE MarkUnsent(ch) \/ DropEntry(ch) \/ WakeCaller(ch)
    <3>1. /\ UNCHANGED <<caller, written>>
          /\ \A u \in Threads \ {Io(ch)} : pc'[u] = pc[u] /\ cur'[u] = cur[u]
      BY <2>1 DEF MarkUnsent, DropEntry, WakeCaller, TypeOK
    <3>2. IoConfined(ch)'
      BY <1>0, <2>1 DEF MarkUnsent, DropEntry, WakeCaller, TypeOK, IoConfined
    <3>3. QED
      BY <1>0, <3>1, <3>2, DistinctThreads, ThreadStepConfinement
  <2>2. QED
    BY <1>0, <1>5, <1>6, <2>1 DEF IoStep
<1>7. ASSUME NEW ch \in Channels,
             \/ \E c \in Calls : ChannelOf[c] = ch /\ ReceiveResponse(c)
             \/ SetResponse(ch) \/ RemoveAnswered(ch) \/ Complete(ch)
             \/ FailFastVisit(ch) \/ FailFastEnd(ch)
      PROVE  Confinement'
  <2>1. /\ UNCHANGED <<caller, written>>
        /\ \A u \in Threads \ {Handler(ch)} : pc'[u] = pc[u] /\ cur'[u] = cur[u]
    BY <1>7 DEF ReceiveResponse, SetResponse, RemoveAnswered, Complete, FailFastVisit, FailFastEnd, TypeOK
  <2>2. ASSUME \E c \in Calls : ChannelOf[c] = ch /\ ReceiveResponse(c) PROVE HandlerConfined(ch)'
    BY <1>0, <2>1, <2>2 DEF ReceiveResponse, TypeOK, HandlerConfined, ResponseStored
  <2>3. ASSUME SetResponse(ch) \/ RemoveAnswered(ch) \/ Complete(ch) PROVE HandlerConfined(ch)'
    BY <1>0, <2>1, <2>3 DEF SetResponse, RemoveAnswered, Complete, TypeOK, HandlerConfined
  <2>4. ASSUME FailFastVisit(ch) \/ FailFastEnd(ch) PROVE HandlerConfined(ch)'
    BY <1>0, <2>1, <2>4 DEF FailFastVisit, FailFastEnd, OnChannel, TypeOK, HandlerConfined
  <2>5. HandlerConfined(ch)'
    BY <1>7, <2>2, <2>3, <2>4
  <2>6. QED
    BY <1>0, <2>1, <2>5, DistinctThreads, ThreadStepConfinement
<1>8. ASSUME NEW ch \in Channels, ChannelStep(ch) PROVE Confinement'
  <2>1. CASE UNCHANGED <<pc, cur, written, caller>>
    BY <1>1, <2>1
  <2>2. CASE StartFailFast(ch) /\ pc[Handler(ch)] = "idle" /\ UNCHANGED <<cur, written, caller>>
    <3>1. \A u \in Threads \ {Handler(ch)} : pc'[u] = pc[u] /\ cur'[u] = cur[u]
      BY <2>2 DEF StartFailFast, TypeOK
    <3>2. HandlerConfined(ch)'
      BY <1>0, <2>2 DEF StartFailFast, HandlerConfined, TypeOK
    <3>3. QED
      BY <1>0, <2>2, <3>1, <3>2, DistinctThreads, ThreadStepConfinement
  <2>3. QED
    BY <1>8, <2>1, <2>2 DEF ChannelStep, Close, SocketClosed, ConnectionLost, ChannelInactive
<1>9. ASSUME ScanStep PROVE Confinement'
  <2>1. /\ UNCHANGED <<caller, written>>
        /\ \A u \in Threads \ {Timer} : pc'[u] = pc[u] /\ cur'[u] = cur[u]
        /\ pc'[Timer] \in {"idle", "scan", "scanRelease", "scanRemove", "fire"}
    BY <1>0, <1>9 DEF ScanStep, ScanFinds, ScanRelease, ScanRemove, ScanEnd, Fire, TypeOK
  <2>2. QED
    BY <1>0, <2>1, DistinctThreads, ThreadStepConfinement
<1>10. CASE RunTask \/ UNCHANGED vars
  BY <1>1, <1>10 DEF RunTask, vars
<1>11. QED
  <2>1. ASSUME NEW ch \in Channels, HandlerStep(ch) PROVE Confinement'
    BY <1>0, <1>3, <1>5, <1>7, <2>1 DEF HandlerStep
  <2>2. QED
    BY <1>0, <1>2, <1>3, <1>4, <1>6, <1>7, <1>8, <1>9, <1>10, <2>1 DEF Next, WriteCompletes

LEMMA InitResponseStored == Init => ResponseStored
BY ThreadFacts DEF Init, ResponseStored

(* A step that stores no response, and leaves the handler threads alone. *)
LEMMA ResponseStoredFrame ==
  ASSUME TypeOK, OnlyUnderWay, ResponseStored,
         response' \subseteq response, net' \subseteq net,
         \A c \in table' \ table : c \in Calls /\ ~UnderWay(c),
         \A c \in Calls : written[c] = "answered" => written'[c] = "answered",
         \A ch \in Channels : /\ pc'[Handler(ch)] = pc[Handler(ch)]
                              /\ cur'[Handler(ch)] = cur[Handler(ch)]
  PROVE  ResponseStored'
<1>1. /\ response \cup net \subseteq Calls /\ \A c \in Calls : ChannelOf[c] \in Channels
      /\ \A c \in Calls : written[c] # "no" => UnderWay(c)
      /\ \A ch \in Channels : Handler(ch) \in Threads
  BY ThreadFacts DEF TypeOK, Tracked, Calls, Limited, OnlyUnderWay
<1>2. (\A c \in response \cup net : written[c] = "answered")'
  BY <1>1 DEF ResponseStored
<1>3. \A c \in response' \cap table' : c \in response \cap table
  BY <1>1 DEF ResponseStored
<1>4. \A ch \in Channels : pc[Handler(ch)] = "complete" => cur[Handler(ch)] \notin table'
  <2>1. \A ch \in Channels : pc[Handler(ch)] = "complete" =>
          cur[Handler(ch)] \notin table /\ UnderWay(cur[Handler(ch)])
    BY <1>1 DEF ResponseStored, OnlyUnderWay, TypeOK
  <2>2. QED
    BY <2>1
<1>5. QED
  BY <1>1, <1>2, <1>3, <1>4 DEF ResponseStored

LEMMA StepResponseStored ==
  ASSUME TypeOK, OnlyUnderWay, Confinement, ResponseStored, [Next]_vars
  PROVE  ResponseStored'
<1> USE DEF Goto, callVars, futureVars, onceVars, netVars, threadVars
<1>0. /\ \A ch \in Channels : IoConfined(ch) /\ HandlerConfined(ch)
      /\ \A ch \in Channels : Io(ch) \in Threads /\ Handler(ch) \in Threads
      /\ Timer \in Threads
      /\ \A c \in Calls : ChannelOf[c] \in Channels
      /\ \A c \in table \cup response \cup net : c \in Calls
      /\ NoCall \notin Calls
  BY ThreadFacts, CallsAssumption DEF Confinement, TypeOK, Tracked, Calls, Limited
<1>1. ASSUME NEW c \in Calls, CallerStep(c) \/ Age(c) PROVE ResponseStored'
  <2>1. /\ UNCHANGED <<pc, cur, response, net>>
        /\ \A d \in table' \ table : d = c /\ ~UnderWay(c)
    BY <1>1 DEF CallerStep, TryAcquire, AcquiredTooLate, Register, Write, WriteThrows, Wake, Judge, Leave,
       Age, UnderWay
  <2>2. \A d \in Calls : written[d] = "answered" => written'[d] = "answered"
    BY <1>1, CallsAssumption DEF CallerStep, TryAcquire, AcquiredTooLate, Register, Write, WriteThrows, Wake,
       Judge, Leave, Age, ReadyToWrite, OnlyUnderWay, UnderWay, Confinement, TypeOK
  <2>3. QED
    BY <2>1, <2>2, ResponseStoredFrame
<1>2. ASSUME NEW c \in Calls, WriteCompletes(c) PROVE ResponseStored'
  <2>1. /\ UNCHANGED <<response, net, table>>
        /\ \A d \in Calls : written[d] = "answered" => written'[d] = "answered"
    BY <1>2 DEF WriteCompletes, WriteSucceeds, WriteFails, TypeOK
  <2>2. \A ch \in Channels : /\ pc'[Handler(ch)] = pc[Handler(ch)]
                             /\ cur'[Handler(ch)] = cur[Handler(ch)]
    BY <1>0, <1>2, DistinctThreads DEF WriteCompletes, WriteSucceeds, WriteFails, TypeOK
  <2>3. QED
    BY <2>1, <2>2, ResponseStoredFrame
<1>3. ASSUME NEW c \in Calls, PeerReplies(c) PROVE ResponseStored'
  BY <1>3 DEF PeerReplies, ResponseStored, TypeOK
<1>4. ASSUME NEW c \in Calls, Encode(c) PROVE ResponseStored'
  BY <1>4, ResponseStoredFrame DEF Encode, TypeOK
<1>5. ASSUME NEW c \in Calls, ReceiveResponse(c) PROVE ResponseStored'
  <2> DEFINE h == Handler(ChannelOf[c])
  <2>1. /\ \A ch \in Channels : Handler(ch) # h => /\ pc'[Handler(ch)] = pc[Handler(ch)]
                                                  /\ cur'[Handler(ch)] = cur[Handler(ch)]
        /\ pc[h] = "idle" /\ pc'[h] \in {"idle", "gotResponse"}
    BY <1>0, <1>5 DEF ReceiveResponse, TypeOK
  <2>2. UNCHANGED <<response, table, written>> /\ net' \subseteq net
    BY <1>5 DEF ReceiveResponse
  <2>3. QED
    BY <1>0, <2>1, <2>2 DEF ResponseStored
<1>6. ASSUME NEW ch \in Channels, IoStep(ch) PROVE ResponseStored'
  <2>1. /\ response' \subseteq response /\ UNCHANGED <<net, written>> /\ table' \subseteq table
        /\ pc' = [pc EXCEPT ![Io(ch)] = pc'[Io(ch)]]
        /\ cur' = [cur EXCEPT ![Io(ch)] = cur'[Io(ch)]]
    BY <1>0, <1>6 DEF IoStep, MarkUnsent, DropEntry, WakeCaller, RequestFail, RemoveFailed, MarkFailed,
       PutNull, FailCallback, FailRelease, Resume, TypeOK
  <2>2. \A a \in Channels : /\ pc'[Handler(a)] = pc[Handler(a)]
                            /\ cur'[Handler(a)] = cur[Handler(a)]
    BY <1>0, <2>1, DistinctThreads DEF TypeOK
  <2>3. QED
    BY <2>1, <2>2, ResponseStoredFrame
<1>7. ASSUME NEW ch \in Channels, HandlerStep(ch) PROVE ResponseStored'
  <2> DEFINE h == Handler(ch)
  <2>1. CASE \E c \in Calls : ChannelOf[c] = ch /\ Encode(c)
    BY <1>4, <2>1
  <2>2. CASE SetResponse(ch)
    <3>1. cur[h] \in Tracked /\ written[cur[h]] = "answered" /\ ChannelOf[cur[h]] = ch
      BY <1>0, <2>2, CurTracked DEF SetResponse, HandlerConfined
    <3>2. \A a \in Channels : a # ch => pc'[Handler(a)] = pc[Handler(a)]
      BY <1>0, <2>2, DistinctThreads DEF SetResponse, TypeOK
    <3>3. \A a \in Channels : a # ch /\ pc[Handler(a)] \in {"markFailed", "putNull"} => cur[Handler(a)] # cur[h]
      BY <1>0, <3>1 DEF HandlerConfined
    <3>4. pc'[h] = "removeAnswered" /\ response' = response \cup {cur[h]}
          /\ pc[h] = "gotResponse" /\ UNCHANGED <<table, cur, net, written>>
      BY <1>0, <2>2 DEF SetResponse, TypeOK
    <3>5. (\A c \in response \cap table :
             cur[Handler(ChannelOf[c])] = c /\ pc[Handler(ChannelOf[c])] = "removeAnswered")'
      BY <1>0, <3>1, <3>2, <3>4 DEF ResponseStored
    <3>6. (\A a \in Channels :
            /\ pc[Handler(a)] = "complete" => cur[Handler(a)] \notin table
            /\ pc[Handler(a)] \in {"markFailed", "putNull"} => cur[Handler(a)] \notin response)'
      BY <1>0, <3>2, <3>3, <3>4 DEF ResponseStored
    <3>7. QED
      BY <3>1, <3>4, <3>5, <3>6 DEF ResponseStored
  <2>3. CASE RemoveAnswered(ch)
    <3>1. \A a \in Channels : a # ch => pc'[Handler(a)] = pc[Handler(a)]
      BY <1>0, <2>3, DistinctThreads DEF RemoveAnswered, TypeOK
    <3>2. pc'[h] = "complete" /\ table' = table \ {cur[h]}
          /\ pc[h] = "removeAnswered" /\ UNCHANGED <<response, cur, net, written>>
      BY <1>0, <2>3 DEF RemoveAnswered, TypeOK
    <3>3. QED
      BY <1>0, <3>1, <3>2 DEF ResponseStored
  <2>4. CASE Complete(ch)
    <3>1. cur[h] \in Tracked /\ written[cur[h]] = "answered" /\ ChannelOf[cur[h]] = ch
      BY <1>0, <2>4, CurTracked DEF Complete, HandlerConfined
    <3>2. \A a \in Channels : a # ch => pc'[Handler(a)] = pc[Handler(a)] /\ cur'[Handler(a)] = cur[Handler(a)]
      BY <1>0, <2>4, DistinctThreads DEF Complete, TypeOK
    <3>3. \A a \in Channels : a # ch /\ pc[Handler(a)] \in {"markFailed", "putNull"} => cur[Handler(a)] # cur[h]
      BY <1>0, <3>1 DEF HandlerConfined
    <3>4. /\ pc'[h] = "idle" /\ response' \subseteq response \cup {cur[h]}
          /\ pc[h] = "complete" /\ UNCHANGED <<table, net, written>>
      BY <1>0, <2>4 DEF Complete, TypeOK
    <3>5. (\A c \in response \cap table :
             cur[Handler(ChannelOf[c])] = c /\ pc[Handler(ChannelOf[c])] = "removeAnswered")'
      <4>1. cur[h] \notin table
        BY <1>0, <3>4 DEF ResponseStored
      <4>2. \A c \in response \cap table : ChannelOf[c] # ch
        BY <1>0, <3>4 DEF ResponseStored
      <4>3. QED
        BY <1>0, <3>2, <3>4, <4>1, <4>2 DEF ResponseStored
    <3>6. (\A a \in Channels :
            /\ pc[Handler(a)] = "complete" => cur[Handler(a)] \notin table
            /\ pc[Handler(a)] \in {"markFailed", "putNull"} => cur[Handler(a)] \notin response)'
      BY <1>0, <3>2, <3>3, <3>4 DEF ResponseStored
    <3>7. QED
      BY <3>1, <3>4, <3>5, <3>6 DEF ResponseStored
  <2>5. CASE FailFastVisit(ch) \/ FailFastEnd(ch)
    <3>1. \A a \in Channels : a # ch => pc'[Handler(a)] = pc[Handler(a)] /\ cur'[Handler(a)] = cur[Handler(a)]
      BY <1>0, <2>5, DistinctThreads DEF FailFastVisit, FailFastEnd, TypeOK
    <3>2. /\ pc'[h] \in {"idle", "removeFailed"} /\ pc[h] = "failFast"
          /\ UNCHANGED <<table, response, net, written>>
      BY <1>0, <2>5 DEF FailFastVisit, FailFastEnd, TypeOK
    <3>3. QED
      BY <1>0, <3>1, <3>2 DEF ResponseStored
  <2>6. CASE RequestFail(h)
    <3>1. \A a \in Channels : a # ch => pc'[Handler(a)] = pc[Handler(a)] /\ cur'[Handler(a)] = cur[Handler(a)]
      BY <1>0, <2>6, DistinctThreads
      DEF RequestFail, RemoveFailed, MarkFailed, PutNull, FailCallback, FailRelease, Resume, TypeOK
    <3>2. /\ UNCHANGED <<net, written>> /\ response' \subseteq response /\ table' \subseteq table
          /\ pc[h] \in {"removeFailed", "markFailed", "putNull", "failCallback", "failRelease"}
          /\ pc'[h] \in {"markFailed", "putNull", "failCallback", "failRelease", "failFast", "idle"}
      BY <1>0, <2>6
      DEF RequestFail, RemoveFailed, MarkFailed, PutNull, FailCallback, FailRelease, Resume, TypeOK
    <3>3. pc'[h] \in {"markFailed", "putNull"} => cur'[h] \notin response
      <4>1. CASE RemoveFailed(h)
        BY <1>0, <2>6, <4>1 DEF RemoveFailed, Resume, TypeOK, ResponseStored, HandlerConfined
      <4>2. CASE MarkFailed(h)
        BY <1>0, <4>2 DEF MarkFailed, TypeOK, ResponseStored
      <4>3. CASE PutNull(h) \/ FailCallback(h) \/ FailRelease(h)
        BY <1>0, <4>3 DEF PutNull, FailCallback, FailRelease, Resume, TypeOK
      <4>4. QED
        BY <2>6, <4>1, <4>2, <4>3 DEF RequestFail
    <3>4. QED
      BY <1>0, <3>1, <3>2, <3>3 DEF ResponseStored
  <2>7. QED
    BY <1>7, <2>1, <2>2, <2>3, <2>4, <2>5, <2>6 DEF HandlerStep
<1>8. ASSUME NEW ch \in Channels, ChannelStep(ch) PROVE ResponseStored'
  <2>1. /\ UNCHANGED <<response, net, table, written, cur>>
        /\ \A a \in Channels : \/ pc'[Handler(a)] = pc[Handler(a)]
                               \/ pc'[Handler(a)] = "failFast" /\ pc[Handler(a)] = "idle"
    BY <1>0, <1>8 DEF ChannelStep, Close, SocketClosed, ConnectionLost, ChannelInactive, StartFailFast, TypeOK
  <2>2. QED
    BY <1>0, <2>1 DEF ResponseStored
<1>9. ASSUME ScanStep PROVE ResponseStored'
  <2>1. /\ UNCHANGED <<response, net, written>> /\ table' \subseteq table
        /\ \A a \in Channels : pc'[Handler(a)] = pc[Handler(a)] /\ cur'[Handler(a)] = cur[Handler(a)]
    BY <1>0, <1>9, DistinctThreads DEF ScanStep, ScanFinds, ScanRelease, ScanRemove, ScanEnd, Fire, TypeOK
  <2>2. QED
    BY <2>1, ResponseStoredFrame
<1>10. CASE RunTask \/ UNCHANGED vars
  BY <1>10, ResponseStoredFrame DEF RunTask, vars
<1>11. QED
  BY <1>1, <1>2, <1>3, <1>5, <1>6, <1>7, <1>8, <1>9, <1>10 DEF Next

(* The inductive invariant of the contract. *)
IInv == TypeOK /\ OnlyUnderWay /\ CalledOnce /\ Confinement /\ ResponseStored

LEMMA InvariantHolds == Spec => []IInv
<1>1. Init => IInv
  BY InitType, InitOnlyUnderWay, InitCalledOnce, InitConfinement, InitResponseStored DEF IInv
<1>2. IInv /\ [Next]_vars => IInv'
  BY StepType, StepOnlyUnderWay, StepCalledOnce, StepConfinement, StepResponseStored DEF IInv
<1>3. QED
  BY <1>1, <1>2, PTL DEF Spec

(* Only putResponse(null) shrinks response. *)
LEMMA StepKeepsResponses ==
  ASSUME IInv, [Next]_vars
  PROVE  response \subseteq response'
<1> USE DEF callVars, futureVars, onceVars, netVars, threadVars
<1>0. /\ \A ch \in Channels : IoConfined(ch) /\ HandlerConfined(ch)
      /\ \A ch \in Channels : Io(ch) \in Threads /\ Handler(ch) \in Threads
  BY ThreadFacts DEF Confinement, IInv
<1>1. ASSUME NEW ch \in Channels, IoStep(ch) PROVE response \subseteq response'
  <2>1. response \ {cur[Io(ch)]} \subseteq response'
    BY <1>1 DEF IoStep, MarkUnsent, DropEntry, WakeCaller, RequestFail, RemoveFailed, MarkFailed,
       PutNull, FailCallback, FailRelease
  <2>2. pc[Io(ch)] # "idle"
    BY <1>1 DEF IoStep, MarkUnsent, DropEntry, WakeCaller, RequestFail, RemoveFailed, MarkFailed,
       PutNull, FailCallback, FailRelease
  <2>3. cur[Io(ch)] \notin response
    BY <1>0, <2>2 DEF IInv, IoConfined, ResponseStored
  <2>4. QED
    BY <2>1, <2>3
<1>2. ASSUME NEW ch \in Channels, HandlerStep(ch) PROVE response \subseteq response'
  <2>1. CASE PutNull(Handler(ch))
    BY <1>0, <2>1 DEF PutNull, IInv, ResponseStored
  <2>2. CASE ~PutNull(Handler(ch))
    BY <1>2, <2>2 DEF HandlerStep, Encode, SetResponse, RemoveAnswered, Complete, FailFastVisit, FailFastEnd,
       RequestFail, RemoveFailed, MarkFailed, FailCallback, FailRelease
  <2>3. QED
    BY <2>1, <2>2
<1>3. ASSUME NEW c \in Calls,
             CallerStep(c) \/ Age(c) \/ WriteCompletes(c) \/ PeerReplies(c) \/ ReceiveResponse(c)
      PROVE  UNCHANGED response
  BY <1>3 DEF CallerStep, TryAcquire, AcquiredTooLate, Register, Write, WriteThrows, Wake, Judge, Leave,
     Age, WriteCompletes, WriteSucceeds, WriteFails, PeerReplies, ReceiveResponse
<1>4. ASSUME NEW ch \in Channels, ChannelStep(ch) PROVE UNCHANGED response
  BY <1>4 DEF ChannelStep, Close, SocketClosed, ConnectionLost, ChannelInactive
<1>5. ASSUME ScanStep PROVE UNCHANGED response
  BY <1>5 DEF ScanStep, ScanFinds, ScanRelease, ScanRemove, ScanEnd, Fire
<1>6. CASE RunTask \/ UNCHANGED vars
  BY <1>6 DEF RunTask, vars
<1>7. QED
  BY <1>1, <1>2, <1>3, <1>4, <1>5, <1>6 DEF Next

(* No null of a failing write or of failFast wipes out a stored response. *)
THEOREM ResponsesStay == Spec => ResponseNotOverwritten
<1>1. IInv /\ [Next]_vars => [response \subseteq response']_vars
  BY StepKeepsResponses
<1>2. QED
  BY <1>1, InvariantHolds, PTL DEF Spec, ResponseNotOverwritten

-----------------------------------------------------------------------------
(* The refinement: every step of the remoting layer is a step of the *)
(* contract, or changes nothing the contract speaks of.              *)
LEMMA ContractInit == Init => Contract!Init
BY DEF Init, Contract!Init, PhaseOf, Tracked, Contract!Tracked, Calls, Limited

(* A step that touches neither the caller, the answers nor the outcome. *)
LEMMA ContractStutter ==
  ASSUME UNCHANGED <<caller, outcome>>,
         \A c \in Tracked : written'[c] = "answered" <=> written[c] = "answered"
  PROVE  UNCHANGED Contract!vars
BY DEF Contract!vars, PhaseOf

(* A callback ends the call it belongs to. *)
LEMMA ContractCallback ==
  ASSUME IInv, NEW c \in Tracked, UnderWay(c), RunCallback(c), UNCHANGED <<caller, written>>
  PROVE  [Contract!Next]_(Contract!vars)
<1>1. CASE c \in AsyncCalls \ called
  <2>1. /\ c \in Calls /\ c \notin SyncCalls /\ outcome[c] = "none"
        /\ \A d \in Tracked : d \in Calls
    BY <1>1, CallsAssumption DEF IInv, CalledOnce, Calls, Limited, Tracked
  <2>2. /\ outcome' = [outcome EXCEPT ![c] = outcome'[c]]
        /\ outcome'[c] \in {"response", "null"}
        /\ outcome'[c] = "response" => c \in response
    BY <1>1, <2>1 DEF RunCallback, IInv, TypeOK
  <2>3. outcome'[c] = "response" => written[c] = "answered"
    BY <2>2 DEF IInv, ResponseStored
  <2>4. PhaseOf(c) = "pending" /\ PhaseOf(c)' = "done"
    BY <2>1, <2>2 DEF PhaseOf, UnderWay
  <2>5. \A d \in Tracked \ {c} : PhaseOf(d)' = PhaseOf(d) /\ outcome'[d] = outcome[d]
    BY <2>1, <2>2 DEF PhaseOf, IInv, TypeOK
  <2>6. [d \in Tracked |-> PhaseOf(d)]' = [[d \in Tracked |-> PhaseOf(d)] EXCEPT ![c] = "done"]
    BY <2>4, <2>5
  <2>7. [d \in Tracked |-> outcome[d]]' = [[d \in Tracked |-> outcome[d]] EXCEPT ![c] = outcome'[c]]
    BY <2>5
  <2>8. {d \in Tracked : written[d] = "answered"}' = {d \in Tracked : written[d] = "answered"}
    OBVIOUS
  <2>9. Contract!Finish(c)
    BY <2>1, <2>2, <2>3, <2>4, <2>6, <2>7, <2>8 DEF Contract!Finish, Contract!Verdicts
  <2>10. QED
    BY <2>9 DEF Contract!Next, Contract!Tracked, Tracked
<1>2. CASE c \notin AsyncCalls \ called
  BY <1>2, ContractStutter DEF RunCallback
<1>3. QED
  BY <1>1, <1>2

(* The steps of a calling thread: Begin, Refuse, Finish, or nothing. *)
LEMMA ContractCaller ==
  ASSUME IInv, NEW c \in Calls, CallerStep(c)
  PROVE  [Contract!Next]_(Contract!vars)
<1>0. /\ \A d \in Tracked : d \in Calls
      /\ c \in SyncCalls => c \in Tracked /\ c \notin Limited
      /\ c \in AsyncCalls => c \in Tracked /\ c \notin SyncCalls /\ c \notin OnewayCalls
      /\ c \in Tracked => c \notin OnewayCalls
  BY CallsAssumption DEF Tracked, Calls, Limited
<1>1. \A d \in Tracked \ {c} : PhaseOf(d)' = PhaseOf(d) /\ outcome'[d] = outcome[d]
  BY <1>0 DEF CallerStep, TryAcquire, AcquiredTooLate, Register, Write, WriteThrows, Wake, Judge, Leave,
     PhaseOf, IInv, TypeOK
<1>2. \A d \in Tracked : written'[d] = "answered" <=> written[d] = "answered"
  BY <1>0 DEF CallerStep, TryAcquire, AcquiredTooLate, Register, Write, WriteThrows, Wake, Judge, Leave,
     ReadyToWrite, IInv, TypeOK, Confinement
<1>3. {d \in Tracked : written[d] = "answered"}' = {d \in Tracked : written[d] = "answered"}
  BY <1>2
<1> DEFINE Steps(v, p) ==
      /\ c \in Tracked
      /\ PhaseOf(c)' = p
      /\ outcome'[c] = v
<1>4. ASSUME NEW v, NEW p, Steps(v, p)
      PROVE  /\ [d \in Tracked |-> PhaseOf(d)]' = [[d \in Tracked |-> PhaseOf(d)] EXCEPT ![c] = p]
             /\ [d \in Tracked |-> outcome[d]]' = [[d \in Tracked |-> outcome[d]] EXCEPT ![c] = v]
  BY <1>1, <1>4
<1>5. CASE c \notin Tracked \/ (PhaseOf(c)' = PhaseOf(c) /\ outcome'[c] = outcome[c])
  BY <1>1, <1>3, <1>5 DEF Contract!vars
<1>6. CASE c \in Tracked /\ PhaseOf(c) = "idle" /\ PhaseOf(c)' = "pending" /\ outcome'[c] = outcome[c]
  <2>1. Contract!Begin(c)
    BY <1>3, <1>4, <1>6 DEF Contract!Begin
  <2>2. QED
    BY <1>6, <2>1 DEF Contract!Next, Contract!Tracked, Tracked
<1>7. CASE c \in AsyncCalls /\ PhaseOf(c) = "idle" /\ PhaseOf(c)' = "refused" /\ outcome'[c] = outcome[c]
  <2>1. Contract!Refuse(c)
    BY <1>0, <1>3, <1>4, <1>7 DEF Contract!Refuse
  <2>2. QED
    BY <1>0, <1>7, <2>1 DEF Contract!Next, Contract!Tracked, Tracked
<1>8. CASE /\ c \in SyncCalls /\ PhaseOf(c) = "pending" /\ PhaseOf(c)' = "done"
           /\ outcome'[c] \in Contract!Verdicts(c)
           /\ outcome'[c] = "response" => written[c] = "answered"
  <2>1. Contract!Finish(c)
    BY <1>0, <1>3, <1>4, <1>8 DEF Contract!Finish
  <2>2. QED
    BY <1>0, <1>8, <2>1 DEF Contract!Next, Contract!Tracked, Tracked
<1>9. CASE c \in SyncCalls /\ (WriteThrows(c) \/ Wake(c) \/ Judge(c))
  <2>1. caller[c] \in {"registered", "waiting", "judging"} /\ outcome[c] = "none"
    BY <1>0, <1>9 DEF WriteThrows, ReadyToWrite, Wake, Judge, IInv, CalledOnce, Calls, Limited, Tracked
  <2>2. \/ UNCHANGED outcome /\ caller'[c] = "judging"
        \/ /\ outcome'[c] \in {"response", "timeout", "sendFailure", "exception"}
           /\ outcome'[c] = "response" => c \in response
    BY <1>0, <1>9 DEF WriteThrows, Wake, Judge, IInv, TypeOK
  <2>3. outcome'[c] = "response" => written[c] = "answered"
    BY <2>1, <2>2 DEF IInv, ResponseStored
  <2>4. PhaseOf(c) = "pending"
    BY <2>1 DEF PhaseOf
  <2>5. CASE UNCHANGED outcome /\ caller'[c] = "judging"
    BY <1>5, <2>1, <2>4, <2>5 DEF PhaseOf
  <2>6. CASE outcome'[c] \in {"response", "timeout", "sendFailure", "exception"}
    BY <1>8, <1>9, <2>3, <2>4, <2>6 DEF PhaseOf, Contract!Verdicts
  <2>7. QED
    BY <2>2, <2>5, <2>6
<1>10. CASE c \in Tracked /\ ~(c \in SyncCalls /\ (WriteThrows(c) \/ Wake(c) \/ Judge(c)))
  <2>1. outcome'[c] = outcome[c]
    BY <1>0, <1>10 DEF CallerStep, TryAcquire, AcquiredTooLate, Register, Write, WriteThrows, Wake, Judge, Leave,
       Tracked
  <2>2. CASE outcome[c] # "none"
    BY <1>5, <2>1, <2>2 DEF PhaseOf
  <2>3. CASE outcome[c] = "none" /\ (TryAcquire(c) \/ AcquiredTooLate(c))
    BY <1>0, <1>5, <1>7, <1>10, <2>1, <2>3 DEF TryAcquire, AcquiredTooLate, PhaseOf, Limited, IInv, TypeOK
  <2>4. CASE outcome[c] = "none" /\ Register(c)
    BY <1>5, <1>6, <1>10, <2>1, <2>4 DEF Register, PhaseOf, IInv, TypeOK
  <2>5. CASE outcome[c] = "none" /\ (Write(c) \/ WriteThrows(c) \/ Leave(c))
    BY <1>0, <1>5, <1>10, <2>1, <2>5 DEF Write, WriteThrows, Leave, ReadyToWrite, PhaseOf, IInv, TypeOK
  <2>6. CASE outcome[c] = "none" /\ (Wake(c) \/ Judge(c))
    BY <1>10, <2>6 DEF Wake, Judge
  <2>7. QED
    BY <2>2, <2>3, <2>4, <2>5, <2>6 DEF CallerStep
<1>11. QED
  BY <1>5, <1>9, <1>10

(* A thread that submits or runs the callback of its call. *)
LEMMA ContractExecute ==
  ASSUME IInv, NEW c \in Tracked, UnderWay(c), NEW t, ExecuteInvokeCallback(c, t),
         UNCHANGED <<caller, written>>
  PROVE  [Contract!Next]_(Contract!vars)
BY ContractCallback, ContractStutter DEF ExecuteInvokeCallback

LEMMA ContractStep ==
  ASSUME IInv, [Next]_vars
  PROVE  [Contract!Next]_(Contract!vars)
<1> USE DEF callVars, futureVars, onceVars, netVars, threadVars
<1>0. /\ \A t \in Threads : pc[t] \notin {"idle", "failFast", "scan", "fire"} =>
           cur[t] \in Tracked /\ UnderWay(cur[t])
      /\ \A task \in tasks : task[1] \in Tracked /\ UnderWay(task[1])
      /\ \A c \in overdue : c \in Tracked /\ UnderWay(c)
      /\ \A d \in Tracked : d \in Calls
  BY CurTracked DEF IInv, OnlyUnderWay, TypeOK, Tracked, Calls, Limited
<1>1. ASSUME NEW c \in Calls, CallerStep(c) PROVE [Contract!Next]_(Contract!vars)
  BY <1>1, ContractCaller
<1>2. ASSUME NEW c \in Calls, PeerReplies(c) PROVE [Contract!Next]_(Contract!vars)
  <2>1. CASE c \in Tracked
    <3>1. UnderWay(c)
      BY <1>2 DEF PeerReplies, IInv, OnlyUnderWay
    <3>2. PhaseOf(c) \in {"pending", "done"}
      BY <3>1 DEF PhaseOf, UnderWay
    <3>3. {d \in Tracked : written[d] = "answered"}' = {d \in Tracked : written[d] = "answered"} \cup {c}
      BY <1>0, <1>2, <2>1 DEF PeerReplies, IInv, TypeOK
    <3>4. UNCHANGED <<caller, outcome>>
      BY <1>2 DEF PeerReplies
    <3>5. Contract!Answer(c)
      BY <2>1, <3>2, <3>3, <3>4 DEF Contract!Answer, PhaseOf
    <3>6. QED
      BY <2>1, <3>5 DEF Contract!Next, Contract!Tracked, Tracked
  <2>2. CASE c \notin Tracked
    BY <1>0, <1>2, <2>2, ContractStutter DEF PeerReplies, IInv, TypeOK
  <2>3. QED
    BY <2>1, <2>2
<1>3. ASSUME NEW c \in Calls, Age(c) \/ WriteCompletes(c) \/ ReceiveResponse(c) \/ Encode(c)
      PROVE  [Contract!Next]_(Contract!vars)
  <2>1. UNCHANGED <<caller, outcome>>
    BY <1>3 DEF Age, WriteCompletes, WriteSucceeds, WriteFails, ReceiveResponse, Encode
  <2>2. \A d \in Calls : written'[d] = "answered" <=> written[d] = "answered"
    BY <1>3 DEF Age, WriteCompletes, WriteSucceeds, WriteFails, ReceiveResponse, Encode, IInv, TypeOK
  <2>3. QED
    BY <1>0, <2>1, <2>2, ContractStutter
<1>4. ASSUME NEW t \in Threads, RequestFail(t) PROVE [Contract!Next]_(Contract!vars)
  <2>1. CASE FailCallback(t)
    BY <1>0, <1>4, <2>1, ContractExecute DEF FailCallback
  <2>2. CASE RemoveFailed(t) \/ MarkFailed(t) \/ PutNull(t) \/ FailRelease(t)
    BY <2>2, ContractStutter DEF RemoveFailed, MarkFailed, PutNull, FailRelease
  <2>3. QED
    BY <1>4, <2>1, <2>2 DEF RequestFail
<1>5. ASSUME NEW ch \in Channels, IoStep(ch) PROVE [Contract!Next]_(Contract!vars)
  BY <1>4, <1>5, ThreadFacts, ContractStutter DEF IoStep, MarkUnsent, DropEntry, WakeCaller
<1>6. ASSUME NEW ch \in Channels, HandlerStep(ch) PROVE [Contract!Next]_(Contract!vars)
  <2>0. Handler(ch) \in Threads
    BY ThreadFacts
  <2>1. CASE \E c \in Calls : ChannelOf[c] = ch /\ Encode(c)
    BY <1>3, <2>1
  <2>2. CASE SetResponse(ch) \/ RemoveAnswered(ch) \/ FailFastVisit(ch) \/ FailFastEnd(ch)
    BY <2>2, ContractStutter DEF SetResponse, RemoveAnswered, FailFastVisit, FailFastEnd
  <2>3. CASE Complete(ch)
    BY <1>0, <2>0, <2>3, ContractStutter, ContractExecute DEF Complete
  <2>4. QED
    BY <1>4, <1>6, <2>0, <2>1, <2>2, <2>3 DEF HandlerStep
<1>7. ASSUME NEW ch \in Channels, ChannelStep(ch) PROVE [Contract!Next]_(Contract!vars)
  BY <1>7, ContractStutter DEF ChannelStep, Close, SocketClosed, ConnectionLost, ChannelInactive
<1>8. ASSUME ScanStep PROVE [Contract!Next]_(Contract!vars)
  BY <1>0, <1>8, ContractStutter, ContractExecute
  DEF ScanStep, ScanFinds, ScanRelease, ScanRemove, ScanEnd, Fire
<1>9. ASSUME RunTask PROVE [Contract!Next]_(Contract!vars)
  BY <1>0, <1>9, ContractCallback DEF RunTask
<1>10. CASE UNCHANGED vars
  BY <1>10, ContractStutter DEF vars
<1>11. QED
  BY <1>1, <1>2, <1>3, <1>5, <1>6, <1>7, <1>8, <1>9, <1>10 DEF Next

(* The safety half of KeepsContract: no interleaving of response, failing   *)
(* write, failFast, scan and timeout ends a call twice, changes its outcome *)
(* or reports an answer the peer did not give.                              *)
THEOREM ImplementsContract == Spec => Contract!Spec
BY ContractInit, ContractStep, InvariantHolds, PTL DEF Spec, Contract!Spec

-----------------------------------------------------------------------------
(* No removal orphans a callback. *)
Submitting == {"markFailed", "putNull", "failCallback", "complete"}

LEMMA InitNoLostCallback == Init => NoLostCallback
BY DEF Init, NoLostCallback, Calls, Limited

(* A step keeps somebody in charge of c if nobody lets go of it. *)
LEMMA ChargeFrame ==
  ASSUME NEW c \in AsyncCalls, InCharge(c),
         table \subseteq table' \/ c \in table' \/ c \notin table,
         c \in overdue => c \in overdue',
         \A t \in Threads : <<c, t>> \in tasks => <<c, t>> \in tasks',
         \A t \in Threads : cur[t] = c /\ pc[t] \in Submitting =>
                             cur'[t] = c /\ pc'[t] \in Submitting
  PROVE  InCharge(c)'
BY DEF InCharge, Submitting

(* Once the callback is run or submitted nothing is left to prove. *)
LEMMA ChargeExecute ==
  ASSUME IInv, NEW c \in AsyncCalls, NEW t \in Threads, ExecuteInvokeCallback(c, t)
  PROVE  notified'[c] # 0 \/ InCharge(c)'
<1>1. CASE tasks' = tasks \cup {<<c, t>>}
  BY <1>1 DEF InCharge
<1>2. CASE RunCallback(c)
  <2>1. c \in Calls /\ notified[c] \in Nat /\ (c \in called => notified[c] = 1)
    BY DEF IInv, CalledOnce, TypeOK, Calls, Limited
  <2>2. QED
    BY <1>2, <2>1 DEF RunCallback, IInv, TypeOK
<1>3. QED
  BY <1>1, <1>2 DEF ExecuteInvokeCallback

LEMMA StepNoLostCallback ==
  ASSUME IInv, NoLostCallback, [Next]_vars
  PROVE  NoLostCallback'
<1> USE DEF Goto, callVars, futureVars, onceVars, netVars, threadVars
<1> DEFINE Owed(c) == caller[c] \in {"registered", "returned", "threw"} /\ notified[c] = 0
<1>0. /\ \A c \in AsyncCalls : c \in Calls /\ c \notin SyncCalls
      /\ \A ch \in Channels : Io(ch) \in Threads /\ Handler(ch) \in Threads
      /\ Timer \in Threads
      /\ \A c \in Calls : ChannelOf[c] \in Channels
      /\ \A ch \in Channels : IoConfined(ch) /\ HandlerConfined(ch)
      /\ pc[Timer] \in {"idle", "scan", "scanRelease", "scanRemove", "fire"}
      /\ TypeOK
  BY ThreadFacts, CallsAssumption DEF Calls, Limited, IInv, Confinement
<1> SUFFICES ASSUME NEW c \in AsyncCalls, Owed(c)'
             PROVE  InCharge(c)'
  BY DEF NoLostCallback
<1>1. \A d \in Calls : notified'[d] = 0 => notified[d] = 0
  <2>1. ASSUME NEW d, RunCallback(d) PROVE \A e \in Calls : notified'[e] = 0 => notified[e] = 0
    BY <1>0, <2>1 DEF RunCallback, TypeOK
  <2>2. ASSUME NEW d, NEW t, ExecuteInvokeCallback(d, t)
        PROVE  \A e \in Calls : notified'[e] = 0 => notified[e] = 0
    BY <2>1, <2>2 DEF ExecuteInvokeCallback
  <2>3. CASE UNCHANGED notified
    BY <2>3
  <2>4. CASE ~UNCHANGED notified
    <3>1. (\E d, t : ExecuteInvokeCallback(d, t)) \/ (\E d : RunCallback(d))
      <4>1. ASSUME NEW d, CallerStep(d) PROVE UNCHANGED notified
        BY <4>1 DEF CallerStep, TryAcquire, AcquiredTooLate, Register, Write, WriteThrows, Wake, Judge, Leave
      <4>2. ASSUME NEW d, Age(d) \/ WriteCompletes(d) \/ PeerReplies(d) \/ ReceiveResponse(d)
            PROVE  UNCHANGED notified
        BY <4>2 DEF Age, WriteCompletes, WriteSucceeds, WriteFails, PeerReplies, ReceiveResponse
      <4>3. ASSUME NEW t, RequestFail(t)
            PROVE  UNCHANGED notified \/ \E d : ExecuteInvokeCallback(d, t)
        BY <4>3 DEF RequestFail, RemoveFailed, MarkFailed, PutNull, FailCallback, FailRelease
      <4>4. ASSUME NEW ch, IoStep(ch) PROVE UNCHANGED notified \/ \E d, t : ExecuteInvokeCallback(d, t)
        BY <4>3, <4>4 DEF IoStep, MarkUnsent, DropEntry, WakeCaller
      <4>5. ASSUME NEW ch, HandlerStep(ch) PROVE UNCHANGED notified \/ \E d, t : ExecuteInvokeCallback(d, t)
        BY <4>3, <4>5 DEF HandlerStep, Encode, SetResponse, RemoveAnswered, Complete, FailFastVisit, FailFastEnd
      <4>6. ASSUME NEW ch, ChannelStep(ch) PROVE UNCHANGED notified
        BY <4>6 DEF ChannelStep, Close, SocketClosed, ConnectionLost, ChannelInactive
      <4>7. ASSUME ScanStep PROVE UNCHANGED notified \/ \E d, t : ExecuteInvokeCallback(d, t)
        BY <4>7 DEF ScanStep, ScanFinds, ScanRelease, ScanRemove, ScanEnd, Fire
      <4>8. ASSUME RunTask PROVE \E d : RunCallback(d)
        BY <4>8 DEF RunTask
      <4>9. QED
        BY <2>4, <4>1, <4>2, <4>4, <4>5, <4>6, <4>7, <4>8 DEF Next, vars
    <3>2. QED
      BY <2>1, <2>2, <3>1
  <2>5. QED
    BY <2>3, <2>4
<1>2. notified[c] = 0
  BY <1>0, <1>1
<1>3. caller[c] \in {"registered", "returned", "threw"} => InCharge(c)
  BY <1>2 DEF NoLostCallback
<1>4. ASSUME NEW d \in Calls, CallerStep(d) PROVE InCharge(c)'
  <2>1. UNCHANGED <<overdue, tasks, cur, pc>>
    BY <1>4 DEF CallerStep, TryAcquire, AcquiredTooLate, Register, Write, WriteThrows, Wake, Judge, Leave
  <2>2. c \in table => c \in table'
    BY <1>0, <1>4 DEF CallerStep, TryAcquire, AcquiredTooLate, Register, Write, WriteThrows, Wake, Judge, Leave
  <2>3. CASE Register(c)
    BY <2>3 DEF Register, InCharge
  <2>4. CASE ~Register(c)
    <3>1. caller[c] \in {"registered", "returned", "threw"}
      BY <1>0, <1>4, <2>4, CallsAssumption DEF CallerStep, TryAcquire, AcquiredTooLate, Register, Write,
         WriteThrows, Wake, Judge, Leave, ReadyToWrite, TypeOK
    <3>2. QED
      BY <1>3, <2>1, <2>2, <3>1, ChargeFrame
  <2>5. QED
    BY <2>3, <2>4
<1>5. CASE UNCHANGED caller
  <2>0. InCharge(c)
    BY <1>3, <1>5
  <2>1. ASSUME NEW d \in Calls, Age(d) \/ WriteCompletes(d) \/ PeerReplies(d) \/ ReceiveResponse(d) \/ Encode(d)
        PROVE  InCharge(c)'
    <3>1. UNCHANGED <<overdue, tasks, table>>
      BY <2>1 DEF Age, WriteCompletes, WriteSucceeds, WriteFails, PeerReplies, ReceiveResponse, Encode
    <3>2. \A t \in Threads : pc[t] # "idle" => cur'[t] = cur[t] /\ pc'[t] = pc[t]
      BY <1>0, <2>1 DEF Age, WriteCompletes, WriteSucceeds, WriteFails, PeerReplies, ReceiveResponse, Encode, TypeOK
    <3>3. QED
      BY <2>0, <3>1, <3>2, ChargeFrame DEF Submitting
  <2>2. ASSUME NEW t \in Threads, RequestFail(t) PROVE InCharge(c)'
    <3>1. \A u \in Threads \ {t} : pc'[u] = pc[u] /\ cur'[u] = cur[u]
      BY <1>0, <2>2 DEF RequestFail, RemoveFailed, MarkFailed, PutNull, FailCallback, FailRelease, Resume, TypeOK
    <3>2. CASE FailCallback(t)
      <4>1. CASE cur[t] = c
        BY <2>2, <3>2, <4>1, ChargeExecute DEF FailCallback
      <4>2. CASE cur[t] # c
        BY <2>0, <3>1, <3>2, <4>2, ChargeFrame DEF FailCallback, ExecuteInvokeCallback
      <4>3. QED
        BY <4>1, <4>2
    <3>3. CASE RemoveFailed(t)
      <4>1. CASE cur[t] = c /\ c \in table
        <5>1. pc'[t] = "markFailed" /\ cur'[t] = c
          BY <1>0, <3>3, <4>1 DEF RemoveFailed, TypeOK
        <5>2. QED
          BY <5>1 DEF InCharge
      <4>2. CASE ~(cur[t] = c /\ c \in table)
        BY <2>0, <3>1, <3>3, <4>2, ChargeFrame DEF RemoveFailed, Submitting
      <4>3. QED
        BY <4>1, <4>2
    <3>4. CASE MarkFailed(t) \/ PutNull(t) \/ FailRelease(t)
      <4>1. pc[t] \in Submitting => cur'[t] = cur[t] /\ pc'[t] \in Submitting
        BY <1>0, <3>4 DEF MarkFailed, PutNull, FailRelease, Submitting, TypeOK
      <4>2. UNCHANGED <<table, overdue, tasks>>
        BY <3>4 DEF MarkFailed, PutNull, FailRelease
      <4>3. QED
        BY <2>0, <3>1, <4>1, <4>2, ChargeFrame
    <3>5. QED
      BY <2>2, <3>2, <3>3, <3>4 DEF RequestFail
  <2>3. ASSUME NEW ch \in Channels, MarkUnsent(ch) \/ DropEntry(ch) \/ WakeCaller(ch) PROVE InCharge(c)'
    <3>1. pc[Io(ch)] \notin Submitting /\ cur[Io(ch)] # c
      BY <1>0, <2>3 DEF MarkUnsent, DropEntry, WakeCaller, Submitting, IoConfined
    <3>2. \A u \in Threads \ {Io(ch)} : pc'[u] = pc[u] /\ cur'[u] = cur[u]
      BY <1>0, <2>3 DEF MarkUnsent, DropEntry, WakeCaller, TypeOK
    <3>3. UNCHANGED <<overdue, tasks>> /\ (c \in table => c \in table')
      BY <2>3, <3>1 DEF MarkUnsent, DropEntry, WakeCaller
    <3>4. QED
      BY <2>0, <3>1, <3>2, <3>3, ChargeFrame
  <2>4. ASSUME NEW ch \in Channels,
               SetResponse(ch) \/ RemoveAnswered(ch) \/ Complete(ch) \/ FailFastVisit(ch) \/ FailFastEnd(ch)
        PROVE  InCharge(c)'
    <3> DEFINE h == Handler(ch)
    <3>1. \A u \in Threads \ {h} : pc'[u] = pc[u] /\ cur'[u] = cur[u]
      BY <1>0, <2>4 DEF SetResponse, RemoveAnswered, Complete, FailFastVisit, FailFastEnd, TypeOK
    <3>2. CASE SetResponse(ch) \/ FailFastVisit(ch) \/ FailFastEnd(ch)
      <4>1. UNCHANGED <<table, overdue, tasks>> /\ pc[h] \notin Submitting
        BY <3>2 DEF SetResponse, FailFastVisit, FailFastEnd, Submitting
      <4>2. QED
        BY <2>0, <3>1, <4>1, ChargeFrame
    <3>3. CASE RemoveAnswered(ch)
      <4>1. pc'[h] = "complete" /\ cur'[h] = cur[h] /\ pc[h] = "removeAnswered"
        BY <1>0, <3>3 DEF RemoveAnswered, TypeOK
      <4>2. CASE cur[h] = c
        BY <1>0, <4>1, <4>2 DEF InCharge
      <4>3. CASE cur[h] # c
        BY <2>0, <3>1, <3>3, <4>1, <4>3, ChargeFrame DEF RemoveAnswered
      <4>4. QED
        BY <4>2, <4>3
    <3>4. CASE Complete(ch)
      <4>1. CASE cur[h] = c
        BY <1>0, <3>4, <4>1, ChargeExecute DEF Complete
      <4>2. CASE cur[h] # c
        BY <2>0, <3>1, <3>4, <4>2, ChargeFrame DEF Complete, ExecuteInvokeCallback
      <4>3. QED
        BY <4>1, <4>2
    <3>5. QED
      BY <2>4, <3>2, <3>3, <3>4
  <2>5. ASSUME NEW ch \in Channels, ChannelStep(ch) PROVE InCharge(c)'
    <3>1. UNCHANGED <<table, overdue, tasks, cur>>
      BY <2>5 DEF ChannelStep, Close, SocketClosed, ConnectionLost, ChannelInactive
    <3>2. \A t \in Threads : pc[t] \in Submitting => pc'[t] = pc[t]
      BY <1>0, <2>5 DEF ChannelStep, Close, SocketClosed, ConnectionLost, ChannelInactive, StartFailFast,
         Submitting, TypeOK
    <3>3. QED
      BY <2>0, <3>1, <3>2, ChargeFrame
  <2>6. ASSUME ScanStep PROVE InCharge(c)'
    <3>1. \A u \in Threads \ {Timer} : pc'[u] = pc[u] /\ cur'[u] = cur[u]
      BY <1>0, <2>6 DEF ScanStep, ScanFinds, ScanRelease, ScanRemove, ScanEnd, Fire, TypeOK
    <3>2. pc[Timer] \notin Submitting
      BY <1>0 DEF Submitting
    <3>3. CASE ScanFinds \/ ScanRelease \/ ScanEnd
      BY <2>0, <3>1, <3>2, <3>3, ChargeFrame DEF ScanFinds, ScanRelease, ScanEnd
    <3>4. CASE ScanRemove
      <4>1. CASE cur[Timer] = c
        BY <3>4, <4>1 DEF ScanRemove, InCharge
      <4>2. CASE cur[Timer] # c
        BY <2>0, <3>1, <3>2, <3>4, <4>2, ChargeFrame DEF ScanRemove
      <4>3. QED
        BY <4>1, <4>2
    <3>5. CASE Fire
      <4>1. PICK d \in overdue : ExecuteInvokeCallback(d, Timer) /\ overdue' = overdue \ {d}
        BY <3>5 DEF Fire
      <4>2. CASE d = c
        BY <1>0, <4>1, <4>2, ChargeExecute
      <4>3. CASE d # c
        BY <2>0, <3>1, <3>2, <3>5, <4>1, <4>3, ChargeFrame DEF Fire, ExecuteInvokeCallback
      <4>4. QED
        BY <4>2, <4>3
    <3>6. QED
      BY <2>6, <3>3, <3>4, <3>5 DEF ScanStep
  <2>7. ASSUME RunTask PROVE InCharge(c)'
    <3>1. PICK task \in tasks : RunCallback(task[1]) /\ tasks' = tasks \ {task}
      BY <2>7 DEF RunTask
    <3>2. task[1] # c
      <4>1. c \in Calls /\ notified[c] \in Nat /\ c \notin called
        BY <1>0, <1>2 DEF IInv, CalledOnce, TypeOK
      <4>2. RunCallback(c) => notified'[c] # 0
        BY <1>0, <1>2, <4>1 DEF RunCallback, TypeOK
      <4>3. QED
        BY <3>1, <4>2
    <3>3. QED
      BY <2>0, <2>7, <3>1, <3>2, ChargeFrame DEF RunTask
  <2>8. CASE UNCHANGED vars
    BY <2>0, <2>8, ChargeFrame DEF vars
  <2>9. ASSUME NEW ch \in Channels, IoStep(ch) PROVE InCharge(c)'
    BY <1>0, <2>2, <2>3, <2>9 DEF IoStep
  <2>10. ASSUME NEW ch \in Channels, HandlerStep(ch) PROVE InCharge(c)'
    BY <1>0, <2>1, <2>2, <2>4, <2>10 DEF HandlerStep
  <2>11. QED
    BY <1>4, <2>1, <2>5, <2>6, <2>7, <2>8, <2>9, <2>10 DEF Next
<1>6. CASE ~UNCHANGED caller
  <2>1. \E d \in Calls : CallerStep(d)
    <3>1. ASSUME NEW d, Age(d) \/ WriteCompletes(d) \/ PeerReplies(d) \/ ReceiveResponse(d)
          PROVE  UNCHANGED caller
      BY <3>1 DEF Age, WriteCompletes, WriteSucceeds, WriteFails, PeerReplies, ReceiveResponse
    <3>2. ASSUME NEW t, RequestFail(t) PROVE UNCHANGED caller
      BY <3>2 DEF RequestFail, RemoveFailed, MarkFailed, PutNull, FailCallback, FailRelease
    <3>3. ASSUME NEW ch, IoStep(ch) \/ HandlerStep(ch) \/ ChannelStep(ch) PROVE UNCHANGED caller
      BY <3>2, <3>3 DEF IoStep, MarkUnsent, DropEntry, WakeCaller, HandlerStep, Encode, SetResponse,
         RemoveAnswered, Complete, FailFastVisit, FailFastEnd, ChannelStep, Close, SocketClosed,
         ConnectionLost, ChannelInactive
    <3>4. ASSUME ScanStep \/ RunTask PROVE UNCHANGED caller
      BY <3>4 DEF ScanStep, ScanFinds, ScanRelease, ScanRemove, ScanEnd, Fire, RunTask
    <3>5. QED
      BY <1>6, <3>1, <3>3, <3>4 DEF Next, vars
  <2>2. QED
    BY <1>4, <2>1
<1>7. QED
  BY <1>5, <1>6

(* A registered async call that was not called back is always in the table *)
(* or in the hands of a thread that will submit its callback.              *)
THEOREM CallbackNeverLost == Spec => []NoLostCallback
<1>1. IInv /\ NoLostCallback /\ [Next]_vars => NoLostCallback'
  BY StepNoLostCallback
<1>2. QED
  BY <1>1, InvariantHolds, InitNoLostCallback, PTL DEF Spec

=============================================================================
