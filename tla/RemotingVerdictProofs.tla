----------------------- MODULE RemotingVerdictProofs -----------------------
(***************************************************************************)
(* What a caller of the remoting layer is told, what stays behind in       *)
(* responseTable, and who gives back a permit: theorems for every set of   *)
(* calls and channels.                                                     *)
(***************************************************************************)
EXTENDS RemotingInvokeProofs

Failing == {"failFast", "removeFailed", "markFailed", "putNull", "failCallback", "failRelease"}

(* The caller of c has a reason to give up early: its write failed, or the *)
(* channel was closed after the write (whose listener cleared the mark).   *)
Excused(c) ==
  \/ c \in sendFailed
  \/ written[c] \in {"sent", "answered"} /\ chan[ChannelOf[c]] # "open"

(* Every null that wakes a sync caller is put by a thread that has marked  *)
(* the call as not sent, and it did so for a failed write or a close.      *)
NullHasCause ==
  /\ \A ch \in Channels :
       /\ pc[Handler(ch)] \in Failing => chan[ch] # "open"
       /\ pc[Io(ch)] \in {"dropEntry", "wakeCaller"} => cur[Io(ch)] \in sendFailed
  /\ \A t \in Threads : pc[t] = "putNull" => Excused(cur[t])
  /\ \A c \in sendFailed : written[c] = "failed" \/ chan[ChannelOf[c]] # "open"
  /\ \A c \in (SyncCalls \cap latched) \ response : Excused(c)
  /\ \A c \in SyncCalls : caller[c] = "judging" /\ age[c] = "fresh" => Excused(c)

(* A call was taken out of the table, for good: no entry is put back. *)
Taken(c) == c \notin table /\ UnderWay(c)

(* A callback is submitted only for a call that was taken out. *)
TakenFirst ==
  /\ \A c \in table \cap SyncCalls : caller[c] # "returned"
  /\ \A t \in Threads : pc[t] \in Submitting => Taken(cur[t])
  /\ \A c \in overdue : Taken(c)
  /\ \A task \in tasks : Taken(task[1])
  /\ \A c \in called : Taken(c)

(* After a close, failFast has still to visit the calls that got as far as *)
(* the wire; a call whose write failed is in the hands of the I/O thread.  *)
TodoWhileFailing ==
  \A ch \in Channels : pc[Handler(ch)] \notin Failing => todo[ch] = {}

FailedInHand ==
  \A c \in table : written[c] = "failed" =>
    cur[Io(ChannelOf[c])] = c /\ pc[Io(ChannelOf[c])] \in {"markUnsent", "dropEntry", "removeFailed"}

OnWire(c) == written[c] \in {"inFlight", "sent", "answered"}

Dead(ch) == FailsFastWhenInactive /\ chan[ch] \in {"closing", "closed"}

ToBeVisited(c) ==
  \/ c \in todo[ChannelOf[c]]
  \/ cur[Handler(ChannelOf[c])] = c /\ pc[Handler(ChannelOf[c])] = "removeFailed"

DeadAreVisited == \A c \in table : Dead(ChannelOf[c]) /\ OnWire(c) => ToBeVisited(c)

-----------------------------------------------------------------------------
(* What a step can do to the writes, the channels and the marks. *)
LEMMA StepWritten ==
  ASSUME IInv, [Next]_vars
  PROVE  /\ \A c \in Calls : written[c] = "failed" => written'[c] = "failed"
         /\ \A c \in Calls : /\ written[c] \in {"sent", "answered"} => written'[c] \in {"sent", "answered"}
                             /\ written[c] = "answered" => written'[c] = "answered"
         /\ \A ch \in Channels : chan[ch] # "open" => chan'[ch] # "open"
         /\ \A c \in sendFailed : c \in sendFailed' \/ (written[c] = "inFlight" /\ written'[c] = "sent")
<1> USE DEF callVars, futureVars, onceVars, netVars, threadVars
<1> DEFINE P == /\ \A c \in Calls : written[c] = "failed" => written'[c] = "failed"
                /\ \A c \in Calls : /\ written[c] \in {"sent", "answered"} => written'[c] \in {"sent", "answered"}
                                    /\ written[c] = "answered" => written'[c] = "answered"
                /\ \A ch \in Channels : chan[ch] # "open" => chan'[ch] # "open"
                /\ \A c \in sendFailed : c \in sendFailed' \/ (written[c] = "inFlight" /\ written'[c] = "sent")
<1>1. ASSUME NEW c \in Calls, CallerStep(c) PROVE P
  <2>1. UNCHANGED <<chan, sendFailed>>
    BY <1>1 DEF CallerStep, TryAcquire, AcquiredTooLate, Register, Write, WriteThrows, Wake, Judge, Leave
  <2>2. written'[c] = written[c] \/ written[c] = "no"
    BY <1>1 DEF CallerStep, TryAcquire, AcquiredTooLate, Register, Write, WriteThrows, Wake, Judge, Leave,
       ReadyToWrite, IInv, TypeOK, OnlyUnderWay, UnderWay, Confinement
  <2>3. \A d \in Calls \ {c} : written'[d] = written[d]
    BY <1>1 DEF CallerStep, TryAcquire, AcquiredTooLate, Register, Write, WriteThrows, Wake, Judge, Leave,
       IInv, TypeOK
  <2>4. QED
    BY <2>1, <2>2, <2>3
<1>2. ASSUME NEW c \in Calls, Age(c) \/ WriteCompletes(c) \/ PeerReplies(c) \/ ReceiveResponse(c) \/ Encode(c)
      PROVE  P
  BY <1>2 DEF Age, WriteCompletes, WriteSucceeds, WriteFails, PeerReplies, ReceiveResponse, Encode,
     IInv, TypeOK
<1>3. ASSUME NEW t, RequestFail(t) PROVE P
  BY <1>3 DEF RequestFail, RemoveFailed, MarkFailed, PutNull, FailCallback, FailRelease
<1>4. ASSUME NEW ch \in Channels, IoStep(ch) PROVE P
  BY <1>3, <1>4 DEF IoStep, MarkUnsent, DropEntry, WakeCaller
<1>5. ASSUME NEW ch \in Channels, HandlerStep(ch) PROVE P
  BY <1>2, <1>3, <1>5 DEF HandlerStep, SetResponse, RemoveAnswered, Complete, FailFastVisit, FailFastEnd
<1>6. ASSUME NEW ch \in Channels, ChannelStep(ch) PROVE P
  BY <1>6 DEF ChannelStep, Close, SocketClosed, ConnectionLost, ChannelInactive, IInv, TypeOK
<1>7. ASSUME ScanStep PROVE P
  BY <1>7 DEF ScanStep, ScanFinds, ScanRelease, ScanRemove, ScanEnd, Fire
<1>8. CASE RunTask \/ UNCHANGED vars
  BY <1>8 DEF RunTask, vars
<1>9. P
  BY <1>1, <1>2, <1>4, <1>5, <1>6, <1>7, <1>8 DEF Next
<1>10. QED
  BY <1>9

(* A reason to give up stays one. *)
LEMMA ExcusedStays ==
  ASSUME IInv, NullHasCause, [Next]_vars, NEW c \in Calls, Excused(c)
  PROVE  Excused(c)'
<1>1. ChannelOf[c] \in Channels
  BY ThreadFacts
<1>2. QED
  BY <1>1, StepWritten DEF Excused, NullHasCause

(* Which steps enter the stages that mark and wake a call. *)
LEMMA StepStages ==
  ASSUME IInv, [Next]_vars
  PROVE  /\ \A ch \in Channels :
              pc'[Handler(ch)] \in Failing => pc[Handler(ch)] \in Failing \/ chan'[ch] # "open"
         /\ \A ch \in Channels :
              pc'[Io(ch)] \in {"dropEntry", "wakeCaller"} =>
                /\ cur'[Io(ch)] = cur[Io(ch)]
                /\ \/ pc[Io(ch)] \in {"dropEntry", "wakeCaller"}
                   \/ pc[Io(ch)] = "markUnsent" /\ cur[Io(ch)] \in sendFailed'
         /\ \A t \in Threads :
              pc'[t] = "putNull" =>
                /\ cur'[t] = cur[t]
                /\ \/ pc[t] = "putNull"
                   \/ pc[t] = "markFailed" /\ cur[t] \in sendFailed'
<1> USE DEF Goto, callVars, futureVars, onceVars, netVars, threadVars
<1> DEFINE P(t) == /\ \A ch \in Channels :
                        t = Handler(ch) /\ pc'[t] \in Failing => pc[t] \in Failing \/ chan'[ch] # "open"
                   /\ pc'[t] \in {"dropEntry", "wakeCaller"} =>
                        /\ cur'[t] = cur[t]
                        /\ \/ pc[t] \in {"dropEntry", "wakeCaller"}
                           \/ pc[t] = "markUnsent" /\ cur[t] \in sendFailed'
                   /\ pc'[t] = "putNull" =>
                        /\ cur'[t] = cur[t]
                        /\ \/ pc[t] = "putNull"
                           \/ pc[t] = "markFailed" /\ cur[t] \in sendFailed'
<1>0. /\ \A ch \in Channels : Io(ch) \in Threads /\ Handler(ch) \in Threads
      /\ Timer \in Threads
      /\ \A c \in Calls : ChannelOf[c] \in Channels
      /\ TypeOK
  BY ThreadFacts DEF IInv
<1>1. SUFFICES \A t \in Threads : P(t)
  BY <1>0
<1>2. ASSUME NEW t \in Threads, pc'[t] = pc[t], cur'[t] = cur[t] PROVE P(t)
  BY <1>2
<1>3. ASSUME NEW c \in Calls, CallerStep(c) \/ Age(c) \/ WriteSucceeds(c) \/ PeerReplies(c) \/ Encode(c)
      PROVE  UNCHANGED <<pc, cur>>
  BY <1>3 DEF CallerStep, TryAcquire, AcquiredTooLate, Register, Write, WriteThrows, Wake, Judge, Leave,
     Age, WriteSucceeds, PeerReplies, Encode
<1>4. ASSUME NEW c \in Calls, WriteFails(c) \/ ReceiveResponse(c) PROVE \A t \in Threads : P(t)
  <2>1. \A t \in Threads : \/ pc'[t] = pc[t] /\ cur'[t] = cur[t]
                           \/ pc'[t] \in {"markUnsent", "gotResponse"}
                           \/ t = Io(ChannelOf[c]) /\ pc'[t] = "removeFailed"
    BY <1>4, <1>0 DEF WriteFails, ReceiveResponse, TypeOK
  <2>2. QED
    BY <2>1, <1>0, DistinctThreads DEF Failing
<1>5. ASSUME NEW t \in Threads, RequestFail(t), NEW u \in Threads PROVE P(u)
  <2>1. u # t => pc'[u] = pc[u] /\ cur'[u] = cur[u]
    BY <1>0, <1>5 DEF RequestFail, RemoveFailed, MarkFailed, PutNull, FailCallback, FailRelease, Resume, TypeOK
  <2>2. pc[t] \in Failing
    BY <1>5 DEF RequestFail, RemoveFailed, MarkFailed, PutNull, FailCallback, FailRelease, Failing
  <2>3. pc'[t] \notin {"dropEntry", "wakeCaller"}
    BY <1>0, <1>5 DEF RequestFail, RemoveFailed, MarkFailed, PutNull, FailCallback, FailRelease, Resume, TypeOK
  <2>4. pc'[t] = "putNull" => pc[t] = "markFailed" /\ cur'[t] = cur[t] /\ cur[t] \in sendFailed'
    BY <1>0, <1>5 DEF RequestFail, RemoveFailed, MarkFailed, PutNull, FailCallback, FailRelease, Resume, TypeOK
  <2>5. QED
    BY <2>1, <2>2, <2>3, <2>4
<1>6. ASSUME NEW ch \in Channels, IoStep(ch), NEW t \in Threads PROVE P(t)
  <2>1. CASE MarkUnsent(ch) \/ DropEntry(ch) \/ WakeCaller(ch)
    <3>1. t # Io(ch) => pc'[t] = pc[t] /\ cur'[t] = cur[t]
      BY <1>0, <2>1 DEF MarkUnsent, DropEntry, WakeCaller, TypeOK
    <3>2. \A b \in Channels : Io(ch) # Handler(b)
      BY DistinctThreads
    <3>3. /\ pc'[Io(ch)] # "putNull"
          /\ pc'[Io(ch)] \in {"dropEntry", "wakeCaller"} =>
                /\ cur'[Io(ch)] = cur[Io(ch)]
                /\ \/ pc[Io(ch)] = "dropEntry"
                   \/ pc[Io(ch)] = "markUnsent" /\ cur[Io(ch)] \in sendFailed'
      BY <1>0, <2>1 DEF MarkUnsent, DropEntry, WakeCaller, TypeOK
    <3>4. QED
      BY <3>1, <3>2, <3>3
  <2>2. QED
    BY <1>0, <1>5, <1>6, <2>1 DEF IoStep
<1>7. ASSUME NEW ch \in Channels, HandlerStep(ch), NEW t \in Threads PROVE P(t)
  <2>1. CASE SetResponse(ch) \/ RemoveAnswered(ch) \/ Complete(ch) \/ FailFastVisit(ch) \/ FailFastEnd(ch)
    <3>1. t # Handler(ch) => pc'[t] = pc[t] /\ cur'[t] = cur[t]
      BY <1>0, <2>1 DEF SetResponse, RemoveAnswered, Complete, FailFastVisit, FailFastEnd, TypeOK
    <3>2. /\ pc'[Handler(ch)] \notin {"dropEntry", "wakeCaller", "putNull"}
          /\ pc'[Handler(ch)] \in Failing => pc[Handler(ch)] \in Failing
      BY <1>0, <2>1 DEF SetResponse, RemoveAnswered, Complete, FailFastVisit, FailFastEnd, TypeOK, Failing
    <3>3. QED
      BY <3>1, <3>2
  <2>2. QED
    BY <1>0, <1>2, <1>3, <1>5, <1>7, <2>1 DEF HandlerStep
<1>8. ASSUME NEW ch \in Channels, ChannelStep(ch), NEW t \in Threads PROVE P(t)
  <2>1. /\ UNCHANGED cur
        /\ \/ pc'[t] = pc[t]
           \/ t = Handler(ch) /\ pc'[t] = "failFast" /\ chan'[ch] # "open"
    BY <1>0, <1>8 DEF ChannelStep, Close, SocketClosed, ConnectionLost, ChannelInactive, StartFailFast, TypeOK
  <2>2. QED
    BY <2>1, <1>2, DistinctThreads DEF Failing
<1>9. ASSUME ScanStep, NEW t \in Threads PROVE P(t)
  <2>1. t # Timer => pc'[t] = pc[t] /\ cur'[t] = cur[t]
    BY <1>0, <1>9 DEF ScanStep, ScanFinds, ScanRelease, ScanRemove, ScanEnd, Fire, TypeOK
  <2>2. pc'[Timer] \in {"idle", "scan", "scanRelease", "scanRemove", "fire"}
    BY StepConfinement DEF IInv, Confinement
  <2>3. \A ch \in Channels : Timer # Handler(ch)
    BY DistinctThreads
  <2>4. QED
    BY <2>1, <2>2, <2>3
<1>10. CASE RunTask \/ UNCHANGED vars
  BY <1>10 DEF RunTask, vars
<1>11. QED
  BY <1>2, <1>3, <1>4, <1>6, <1>7, <1>8, <1>9, <1>10 DEF Next, WriteCompletes

(* Which steps mark a call as not sent, wake its caller or let it judge. *)
LEMMA StepMarks ==
  ASSUME IInv, NullHasCause, [Next]_vars
  PROVE  /\ \A c \in sendFailed' : \/ c \in sendFailed
                                   \/ written'[c] = "failed"
                                   \/ chan'[ChannelOf[c]] # "open"
         /\ \A c \in latched' : c \in latched \/ c \in response' \/ Excused(c)
<1> USE DEF callVars, futureVars, onceVars, netVars, threadVars
<1> DEFINE P == /\ \A c \in sendFailed' : \/ c \in sendFailed
                                          \/ written'[c] = "failed"
                                          \/ chan'[ChannelOf[c]] # "open"
                /\ \A c \in latched' : c \in latched \/ c \in response' \/ Excused(c)
<1>0. /\ \A ch \in Channels : IoConfined(ch) /\ HandlerConfined(ch)
      /\ \A ch \in Channels : Io(ch) \in Threads /\ Handler(ch) \in Threads
      /\ \A c \in Calls : ChannelOf[c] \in Channels
      /\ TypeOK
  BY ThreadFacts DEF IInv, Confinement
<1>1. CASE sendFailed' \subseteq sendFailed /\ UNCHANGED latched
  BY <1>1
<1>2. ASSUME NEW c \in Calls,
             CallerStep(c) \/ Age(c) \/ WriteCompletes(c) \/ PeerReplies(c) \/ ReceiveResponse(c) \/ Encode(c)
      PROVE  P
  <2>1. sendFailed' \subseteq sendFailed /\ UNCHANGED latched
    BY <1>2 DEF CallerStep, TryAcquire, AcquiredTooLate, Register, Write, WriteThrows, Wake, Judge, Leave,
       Age, WriteCompletes, WriteSucceeds, WriteFails, PeerReplies, ReceiveResponse, Encode
  <2>2. QED
    BY <1>1, <2>1
<1>3. ASSUME NEW t \in Threads, RequestFail(t),
             \/ \E ch \in Channels : t = Io(ch)
             \/ \E ch \in Channels : t = Handler(ch)
      PROVE  P
  <2>1. CASE MarkFailed(t)
    <3>1. UNCHANGED <<latched, written, chan>> /\ sendFailed' = sendFailed \cup {cur[t]} /\ pc[t] = "markFailed"
      BY <2>1 DEF MarkFailed
    <3>2. written[cur[t]] = "failed" \/ chan[ChannelOf[cur[t]]] # "open"
      BY <1>0, <1>3, <3>1 DEF NullHasCause, Failing, IoConfined, HandlerConfined
    <3>3. QED
      BY <3>1, <3>2
  <2>2. CASE PutNull(t)
    BY <1>3, <2>2 DEF PutNull, NullHasCause
  <2>3. CASE RemoveFailed(t) \/ FailCallback(t) \/ FailRelease(t)
    BY <1>1, <2>3 DEF RemoveFailed, FailCallback, FailRelease
  <2>4. QED
    BY <1>3, <2>1, <2>2, <2>3 DEF RequestFail
<1>4. ASSUME NEW ch \in Channels, IoStep(ch) PROVE P
  <2>1. CASE MarkUnsent(ch)
    BY <1>0, <2>1 DEF MarkUnsent, IoConfined
  <2>2. CASE DropEntry(ch)
    BY <1>1, <2>2 DEF DropEntry
  <2>3. CASE WakeCaller(ch)
    BY <2>3 DEF WakeCaller, NullHasCause, Excused
  <2>4. QED
    BY <1>0, <1>3, <1>4, <2>1, <2>2, <2>3 DEF IoStep
<1>5. ASSUME NEW ch \in Channels, HandlerStep(ch) PROVE P
  <2>1. CASE SetResponse(ch) \/ RemoveAnswered(ch) \/ FailFastVisit(ch) \/ FailFastEnd(ch)
    BY <1>1, <2>1 DEF SetResponse, RemoveAnswered, FailFastVisit, FailFastEnd
  <2>2. CASE Complete(ch)
    BY <2>2 DEF Complete
  <2>3. QED
    BY <1>0, <1>2, <1>3, <1>5, <2>1, <2>2 DEF HandlerStep
<1>6. ASSUME NEW ch \in Channels, ChannelStep(ch) PROVE P
  BY <1>1, <1>6 DEF ChannelStep, Close, SocketClosed, ConnectionLost, ChannelInactive
<1>7. ASSUME ScanStep PROVE P
  BY <1>1, <1>7 DEF ScanStep, ScanFinds, ScanRelease, ScanRemove, ScanEnd, Fire
<1>8. CASE RunTask \/ UNCHANGED vars
  BY <1>1, <1>8 DEF RunTask, vars
<1>9. P
  BY <1>2, <1>4, <1>5, <1>6, <1>7, <1>8 DEF Next
<1>10. QED
  BY <1>9

(* What a step can do to a caller: only Wake makes it judge, and only Wake, *)
(* Judge and WriteThrows decide its verdict.                                *)
LEMMA StepVerdict ==
  ASSUME IInv, [Next]_vars, NEW c \in SyncCalls
  PROVE  /\ caller'[c] = "judging" /\ age'[c] = "fresh" =>
              \/ caller[c] = "judging" /\ age[c] = "fresh"
              \/ c \in latched \ response
         /\ outcome'[c] = "response" => outcome[c] = "response" \/ c \in response
         /\ outcome'[c] = "sendFailure" => outcome[c] = "sendFailure" \/ c \in sendFailed
         /\ outcome'[c] = "timeout" /\ age'[c] = "fresh" =>
              \/ outcome[c] = "timeout" /\ age[c] = "fresh"
              \/ caller[c] = "judging" /\ age[c] = "fresh" /\ c \notin sendFailed
<1> USE DEF callVars, futureVars, onceVars, netVars, threadVars
<1> DEFINE P ==
      /\ caller'[c] = "judging" /\ age'[c] = "fresh" =>
           \/ caller[c] = "judging" /\ age[c] = "fresh"
           \/ c \in latched \ response
      /\ outcome'[c] = "response" => outcome[c] = "response" \/ c \in response
      /\ outcome'[c] = "sendFailure" => outcome[c] = "sendFailure" \/ c \in sendFailed
      /\ outcome'[c] = "timeout" /\ age'[c] = "fresh" =>
           \/ outcome[c] = "timeout" /\ age[c] = "fresh"
           \/ caller[c] = "judging" /\ age[c] = "fresh" /\ c \notin sendFailed
<1>0. c \in Calls /\ c \notin AsyncCalls
  BY CallsAssumption DEF Calls, Limited
<1>1. ASSUME UNCHANGED <<caller, age>>, outcome'[c] = outcome[c] PROVE P
  BY <1>1
<1>2. ASSUME NEW d, RunCallback(d) PROVE outcome'[c] = outcome[c]
  BY <1>0, <1>2 DEF RunCallback, IInv, TypeOK
<1>3. ASSUME NEW d, NEW t, ExecuteInvokeCallback(d, t) PROVE outcome'[c] = outcome[c]
  BY <1>2, <1>3 DEF ExecuteInvokeCallback
<1>4. ASSUME NEW d \in Calls, CallerStep(d) PROVE P
  <2>1. UNCHANGED age
    BY <1>4 DEF CallerStep, TryAcquire, AcquiredTooLate, Register, Write, WriteThrows, Wake, Judge, Leave
  <2>2. CASE d # c
    <3>1. caller'[c] = caller[c] /\ outcome'[c] = outcome[c]
      BY <1>0, <1>4, <2>2 DEF CallerStep, TryAcquire, AcquiredTooLate, Register, Write, WriteThrows, Wake,
         Judge, Leave, IInv, TypeOK
    <3>2. QED
      BY <2>1, <3>1
  <2>3. CASE d = c
    BY <1>0, <1>4, <2>1, <2>3 DEF CallerStep, TryAcquire, AcquiredTooLate, Register, Write, WriteThrows, Wake,
       Judge, Leave, IInv, TypeOK
  <2>4. QED
    BY <2>2, <2>3
<1>5. ASSUME NEW d \in Calls, Age(d) PROVE P
  BY <1>0, <1>5 DEF Age, IInv, TypeOK
<1>6. ASSUME NEW d, WriteCompletes(d) \/ PeerReplies(d) \/ ReceiveResponse(d) \/ Encode(d) PROVE P
  BY <1>1, <1>6 DEF WriteCompletes, WriteSucceeds, WriteFails, PeerReplies, ReceiveResponse, Encode
<1>7. ASSUME NEW t, RequestFail(t) PROVE P
  BY <1>1, <1>3, <1>7 DEF RequestFail, RemoveFailed, MarkFailed, PutNull, FailCallback, FailRelease
<1>8. ASSUME NEW ch, IoStep(ch) PROVE P
  BY <1>1, <1>7, <1>8 DEF IoStep, MarkUnsent, DropEntry, WakeCaller
<1>9. ASSUME NEW ch, HandlerStep(ch) PROVE P
  BY <1>1, <1>3, <1>6, <1>7, <1>9 DEF HandlerStep, SetResponse, RemoveAnswered, Complete, FailFastVisit,
     FailFastEnd
<1>10. ASSUME NEW ch, ChannelStep(ch) PROVE P
  BY <1>1, <1>10 DEF ChannelStep, Close, SocketClosed, ConnectionLost, ChannelInactive
<1>11. ASSUME ScanStep PROVE P
  BY <1>1, <1>3, <1>11 DEF ScanStep, ScanFinds, ScanRelease, ScanRemove, ScanEnd, Fire
<1>12. CASE RunTask
  BY <1>1, <1>2, <1>12 DEF RunTask
<1>13. CASE UNCHANGED vars
  BY <1>1, <1>13 DEF vars
<1>14. P
  BY <1>4, <1>5, <1>6, <1>8, <1>9, <1>10, <1>11, <1>12, <1>13 DEF Next
<1>15. QED
  BY <1>14

LEMMA StepNullHasCause ==
  ASSUME IInv, NullHasCause, [Next]_vars
  PROVE  NullHasCause'
<1>0. /\ \A c \in Tracked : c \in Calls /\ ChannelOf[c] \in Channels
      /\ \A ch \in Channels : Io(ch) \in Threads /\ Handler(ch) \in Threads
      /\ \A t \in Threads : pc[t] # "idle" /\ cur[t] # NoCall => cur[t] \in Tracked
      /\ \A t \in Threads : pc[t] \notin {"idle", "failFast", "scan", "fire"} => cur[t] \in Tracked
      /\ sendFailed' \subseteq Tracked
  BY ThreadFacts, StepType DEF IInv, TypeOK, Tracked, Calls, Limited
<1>1. ASSUME NEW c \in Tracked, Excused(c) PROVE Excused(c)'
  BY <1>0, <1>1, ExcusedStays
<1>2. ASSUME NEW ch \in Channels, pc'[Handler(ch)] \in Failing PROVE chan'[ch] # "open"
  BY <1>2, StepStages, StepWritten DEF NullHasCause
<1>3. ASSUME NEW ch \in Channels, pc'[Io(ch)] \in {"dropEntry", "wakeCaller"}
      PROVE  cur'[Io(ch)] \in sendFailed'
  <2>1. written[cur[Io(ch)]] = "failed"
    BY <1>3, StepStages DEF IInv, Confinement, IoConfined
  <2>2. QED
    BY <1>3, <2>1, StepStages, StepWritten DEF NullHasCause
<1>4. ASSUME NEW t \in Threads, pc'[t] = "putNull" PROVE Excused(cur[t])' /\ cur'[t] = cur[t]
  <2>1. cur'[t] = cur[t] /\ cur[t] \in Tracked
    BY <1>0, <1>4, StepStages
  <2>2. Excused(cur[t])'
    BY <1>1, <1>4, <2>1, StepStages DEF NullHasCause, Excused
  <2>3. QED
    BY <2>1, <2>2
<1>5. ASSUME NEW c \in sendFailed' PROVE written'[c] = "failed" \/ chan'[ChannelOf[c]] # "open"
  <2>1. c \in Calls /\ ChannelOf[c] \in Channels
    BY <1>0, <1>5
  <2>2. QED
    BY <1>5, <2>1, StepMarks, StepWritten DEF NullHasCause
<1>6. ASSUME NEW c \in SyncCalls, c \in latched', c \notin response' PROVE Excused(c)'
  <2>1. Excused(c)
    BY <1>6, StepMarks, StepKeepsResponses DEF NullHasCause
  <2>2. QED
    BY <1>1, <2>1 DEF Tracked
<1>7. ASSUME NEW c \in SyncCalls, caller'[c] = "judging", age'[c] = "fresh" PROVE Excused(c)'
  <2>1. Excused(c)
    BY <1>7, StepVerdict DEF NullHasCause
  <2>2. QED
    BY <1>1, <2>1 DEF Tracked
<1>8. \A t \in Threads : pc'[t] = "putNull" => Excused(cur[t])' /\ cur'[t] = cur[t]
  BY <1>4
<1>9. (\A t \in Threads : pc[t] = "putNull" => Excused(cur[t]))'
  BY <1>8 DEF Excused
<1>10. QED
  BY <1>2, <1>3, <1>5, <1>6, <1>7, <1>9 DEF NullHasCause

LEMMA StepVerdictHasCause ==
  ASSUME IInv, NullHasCause, VerdictHasCause, [Next]_vars
  PROVE  VerdictHasCause'
<1> SUFFICES ASSUME NEW c \in SyncCalls
             PROVE  /\ outcome'[c] = "response" => written'[c] = "answered"
                    /\ outcome'[c] = "sendFailure" => \/ written'[c] = "failed"
                                                     \/ chan'[ChannelOf[c]] # "open"
                    /\ outcome'[c] = "timeout" /\ age'[c] = "fresh" =>
                         written'[c] \in {"sent", "answered"} /\ chan'[ChannelOf[c]] # "open"
  BY DEF VerdictHasCause
<1>0. c \in Calls /\ ChannelOf[c] \in Channels
  BY ThreadFacts DEF Calls
<1>1. written[c] = "answered" => written'[c] = "answered"
  BY <1>0, StepWritten
<1>2. outcome'[c] = "response" => written'[c] = "answered"
  BY <1>1, StepVerdict DEF IInv, ResponseStored, VerdictHasCause
<1>3. outcome'[c] = "sendFailure" => written'[c] = "failed" \/ chan'[ChannelOf[c]] # "open"
  BY <1>0, StepVerdict, StepWritten DEF NullHasCause, VerdictHasCause
<1>4. outcome'[c] = "timeout" /\ age'[c] = "fresh" =>
        written'[c] \in {"sent", "answered"} /\ chan'[ChannelOf[c]] # "open"
  BY <1>0, StepVerdict, StepWritten DEF NullHasCause, VerdictHasCause, Excused
<1>5. QED
  BY <1>2, <1>3, <1>4

(* A sync caller is never told of a response nobody gave, of a send failure *)
(* without a failed write or a close, or early of a timeout unless close()  *)
(* crossed a completed write.                                               *)
THEOREM VerdictsHaveCauses == Spec => []VerdictHasCause
<1>1. Init => NullHasCause /\ VerdictHasCause
  BY ThreadFacts DEF Init, NullHasCause, VerdictHasCause, Failing, Calls
<1>2. IInv /\ NullHasCause /\ VerdictHasCause /\ [Next]_vars => (NullHasCause /\ VerdictHasCause)'
  BY StepNullHasCause, StepVerdictHasCause
<1>3. QED
  BY <1>1, <1>2, InvariantHolds, PTL DEF Spec

-----------------------------------------------------------------------------
(* Entries are put into the table only by a call that was not under way. *)
LEMMA StepTable ==
  ASSUME IInv, [Next]_vars
  PROVE  /\ \A c \in table' : c \in table \/ (~UnderWay(c) /\ written'[c] = "no" /\ caller'[c] = "registered")
         /\ \A c \in Calls : UnderWay(c) => UnderWay(c)'
<1> USE DEF callVars, futureVars, onceVars, netVars, threadVars, UnderWay
<1> DEFINE P == /\ \A c \in table' : \/ c \in table
                                     \/ ~UnderWay(c) /\ written'[c] = "no" /\ caller'[c] = "registered"
                /\ \A c \in Calls : UnderWay(c) => UnderWay(c)'
<1>1. ASSUME table' \subseteq table, UNCHANGED caller PROVE P
  BY <1>1
<1>2. ASSUME NEW c \in Calls, CallerStep(c) PROVE P
  BY <1>2, CallsAssumption DEF CallerStep, TryAcquire, AcquiredTooLate, Register, Write, WriteThrows, Wake,
     Judge, Leave, ReadyToWrite, IInv, TypeOK, OnlyUnderWay, Calls, Limited
<1>3. ASSUME NEW c, Age(c) \/ WriteCompletes(c) \/ PeerReplies(c) \/ ReceiveResponse(c) \/ Encode(c) PROVE P
  BY <1>1, <1>3 DEF Age, WriteCompletes, WriteSucceeds, WriteFails, PeerReplies, ReceiveResponse, Encode
<1>4. ASSUME NEW t, RequestFail(t) PROVE P
  BY <1>1, <1>4 DEF RequestFail, RemoveFailed, MarkFailed, PutNull, FailCallback, FailRelease
<1>5. ASSUME NEW ch, IoStep(ch) PROVE P
  BY <1>1, <1>4, <1>5 DEF IoStep, MarkUnsent, DropEntry, WakeCaller
<1>6. ASSUME NEW ch, HandlerStep(ch) PROVE P
  BY <1>1, <1>3, <1>4, <1>6 DEF HandlerStep, SetResponse, RemoveAnswered, Complete, FailFastVisit, FailFastEnd
<1>7. ASSUME NEW ch, ChannelStep(ch) PROVE P
  BY <1>1, <1>7 DEF ChannelStep, Close, SocketClosed, ConnectionLost, ChannelInactive
<1>8. ASSUME ScanStep PROVE P
  BY <1>1, <1>8 DEF ScanStep, ScanFinds, ScanRelease, ScanRemove, ScanEnd, Fire
<1>9. CASE RunTask \/ UNCHANGED vars
  BY <1>1, <1>9 DEF RunTask, vars
<1>10. P
  BY <1>2, <1>3, <1>5, <1>6, <1>7, <1>8, <1>9 DEF Next
<1>11. QED
  BY <1>10

LEMMA TakenStays ==
  ASSUME IInv, [Next]_vars, NEW c \in Calls, Taken(c)
  PROVE  Taken(c)'
BY StepTable DEF Taken

(* A callback is submitted or run for a call that was taken out. *)
LEMMA ExecuteTaken ==
  ASSUME TakenFirst, NEW c, NEW t, ExecuteInvokeCallback(c, t), Taken(c)
  PROVE  /\ \A task \in tasks' : Taken(task[1])
         /\ \A d \in called' : Taken(d)
BY DEF ExecuteInvokeCallback, RunCallback, TakenFirst, onceVars

LEMMA StepCallbacks ==
  ASSUME IInv, TakenFirst, [Next]_vars
  PROVE  /\ \A task \in tasks' : Taken(task[1])
         /\ \A c \in called' : Taken(c)
<1> USE DEF callVars, futureVars, onceVars, netVars, threadVars
<1> DEFINE P == /\ \A task \in tasks' : Taken(task[1])
                /\ \A c \in called' : Taken(c)
<1>1. ASSUME UNCHANGED <<tasks, called>> PROVE P
  BY <1>1 DEF TakenFirst
<1>2. ASSUME NEW c, CallerStep(c) PROVE P
  BY <1>1, <1>2 DEF CallerStep, TryAcquire, AcquiredTooLate, Register, Write, WriteThrows, Wake, Judge, Leave
<1>3. ASSUME NEW c, Age(c) \/ WriteCompletes(c) \/ PeerReplies(c) \/ ReceiveResponse(c) \/ Encode(c) PROVE P
  BY <1>1, <1>3 DEF Age, WriteCompletes, WriteSucceeds, WriteFails, PeerReplies, ReceiveResponse, Encode
<1>4. ASSUME NEW t \in Threads, RequestFail(t) PROVE P
  <2>1. CASE FailCallback(t)
    BY <1>4, <2>1, ExecuteTaken DEF FailCallback, TakenFirst, Submitting
  <2>2. CASE RemoveFailed(t) \/ MarkFailed(t) \/ PutNull(t) \/ FailRelease(t)
    BY <1>1, <2>2 DEF RemoveFailed, MarkFailed, PutNull, FailRelease
  <2>3. QED
    BY <1>4, <2>1, <2>2 DEF RequestFail
<1>5. ASSUME NEW ch \in Channels, IoStep(ch) PROVE P
  BY <1>1, <1>4, <1>5, ThreadFacts DEF IoStep, MarkUnsent, DropEntry, WakeCaller
<1>6. ASSUME NEW ch \in Channels, HandlerStep(ch) PROVE P
  <2>1. CASE Complete(ch)
    BY <1>1, <1>6, <2>1, ExecuteTaken, ThreadFacts DEF Complete, TakenFirst, Submitting
  <2>2. CASE ~Complete(ch)
    BY <1>1, <1>3, <1>4, <1>6, <2>2, ThreadFacts
    DEF HandlerStep, SetResponse, RemoveAnswered, FailFastVisit, FailFastEnd
  <2>3. QED
    BY <2>1, <2>2
<1>7. ASSUME NEW ch, ChannelStep(ch) PROVE P
  BY <1>1, <1>7 DEF ChannelStep, Close, SocketClosed, ConnectionLost, ChannelInactive
<1>8. ASSUME ScanStep PROVE P
  <2>1. CASE Fire
    BY <2>1, ExecuteTaken DEF Fire, TakenFirst
  <2>2. CASE ScanFinds \/ ScanRelease \/ ScanRemove \/ ScanEnd
    BY <1>1, <2>2 DEF ScanFinds, ScanRelease, ScanRemove, ScanEnd
  <2>3. QED
    BY <1>8, <2>1, <2>2 DEF ScanStep
<1>9. CASE RunTask
  BY <1>9 DEF RunTask, RunCallback, TakenFirst
<1>10. CASE UNCHANGED vars
  BY <1>1, <1>10 DEF vars
<1>11. P
  BY <1>2, <1>3, <1>5, <1>6, <1>7, <1>8, <1>9, <1>10 DEF Next
<1>12. QED
  BY <1>11

(* A thread that is going to submit, and the list of the timer, hold calls *)
(* they have just taken out.                                               *)
LEMMA StepSubmitting ==
  ASSUME IInv, [Next]_vars
  PROVE  /\ \A t \in Threads : pc'[t] \in Submitting =>
              cur'[t] = cur[t] /\ (pc[t] \in Submitting \/ cur[t] \notin table')
         /\ \A c \in overdue' : c \in overdue \/ (c = cur[Timer] /\ c \notin table')
<1> USE DEF Goto, callVars, futureVars, onceVars, netVars, threadVars
<1> DEFINE P(t) == pc'[t] \in Submitting => cur'[t] = cur[t] /\ (pc[t] \in Submitting \/ cur[t] \notin table')
           Q == \A c \in overdue' : c \in overdue \/ (c = cur[Timer] /\ c \notin table')
<1>0. /\ \A ch \in Channels : Io(ch) \in Threads /\ Handler(ch) \in Threads
      /\ Timer \in Threads
      /\ \A c \in Calls : ChannelOf[c] \in Channels
      /\ TypeOK
  BY ThreadFacts DEF IInv
<1>1. ASSUME NEW t, UNCHANGED <<pc, cur>> PROVE P(t)
  BY <1>1
<1>2. ASSUME NEW c \in Calls,
             CallerStep(c) \/ Age(c) \/ WriteCompletes(c) \/ PeerReplies(c) \/ ReceiveResponse(c) \/ Encode(c)
      PROVE  (\A t \in Threads : P(t)) /\ Q
  <2>1. CASE UNCHANGED <<pc, cur, overdue>>
    BY <2>1
  <2>2. CASE WriteFails(c) \/ ReceiveResponse(c)
    BY <1>0, <2>2 DEF WriteFails, ReceiveResponse, Submitting, TypeOK
  <2>3. CASE ~(WriteFails(c) \/ ReceiveResponse(c))
    <3>1. UNCHANGED <<pc, cur, overdue>>
      BY <1>2, <2>3 DEF CallerStep, TryAcquire, AcquiredTooLate, Register, Write, WriteThrows, Wake, Judge, Leave,
         Age, WriteCompletes, WriteSucceeds, PeerReplies, Encode
    <3>2. QED
      BY <2>1, <3>1
  <2>4. QED
    BY <2>2, <2>3
<1>3. ASSUME NEW t \in Threads, RequestFail(t) PROVE (\A u \in Threads : P(u)) /\ Q
  <2>1. \A u \in Threads \ {t} : pc'[u] = pc[u] /\ cur'[u] = cur[u]
    BY <1>0, <1>3 DEF RequestFail, RemoveFailed, MarkFailed, PutNull, FailCallback, FailRelease, Resume, TypeOK
  <2>2. P(t)
    BY <1>0, <1>3 DEF RequestFail, RemoveFailed, MarkFailed, PutNull, FailCallback, FailRelease, Resume,
       Submitting, TypeOK
  <2>3. UNCHANGED overdue
    BY <1>3 DEF RequestFail, RemoveFailed, MarkFailed, PutNull, FailCallback, FailRelease
  <2>4. QED
    BY <2>1, <2>2, <2>3
<1>4. ASSUME NEW ch \in Channels, IoStep(ch) PROVE (\A u \in Threads : P(u)) /\ Q
  <2>1. CASE MarkUnsent(ch) \/ DropEntry(ch) \/ WakeCaller(ch)
    BY <1>0, <2>1 DEF MarkUnsent, DropEntry, WakeCaller, Submitting, TypeOK
  <2>2. QED
    BY <1>0, <1>3, <1>4, <2>1 DEF IoStep
<1>5. ASSUME NEW ch \in Channels, HandlerStep(ch) PROVE (\A u \in Threads : P(u)) /\ Q
  <2>1. CASE SetResponse(ch) \/ RemoveAnswered(ch) \/ Complete(ch) \/ FailFastVisit(ch) \/ FailFastEnd(ch)
    BY <1>0, <2>1 DEF SetResponse, RemoveAnswered, Complete, FailFastVisit, FailFastEnd, Submitting, TypeOK
  <2>2. QED
    BY <1>0, <1>2, <1>3, <1>5, <2>1 DEF HandlerStep
<1>6. ASSUME NEW ch \in Channels, ChannelStep(ch) PROVE (\A u \in Threads : P(u)) /\ Q
  BY <1>0, <1>6 DEF ChannelStep, Close, SocketClosed, ConnectionLost, ChannelInactive, StartFailFast,
     Submitting, TypeOK
<1>7. ASSUME ScanStep PROVE (\A u \in Threads : P(u)) /\ Q
  BY <1>0, <1>7 DEF ScanStep, ScanFinds, ScanRelease, ScanRemove, ScanEnd, Fire, Submitting, TypeOK
<1>8. CASE RunTask \/ UNCHANGED vars
  BY <1>8 DEF RunTask, vars
<1>9. QED
  BY <1>2, <1>4, <1>5, <1>6, <1>7, <1>8 DEF Next

(* A sync caller returns through its finally block. *)
LEMMA StepReturned ==
  ASSUME IInv, TakenFirst, [Next]_vars, NEW c \in SyncCalls, c \in table'
  PROVE  caller'[c] # "returned"
<1> USE DEF callVars, futureVars, onceVars, netVars, threadVars
<1>0. c \in Calls /\ (c \in table => caller[c] # "returned")
  BY DEF TakenFirst, Calls
<1>1. CASE c \notin table
  BY <1>1, StepTable
<1>2. CASE c \in table /\ UNCHANGED caller
  BY <1>0, <1>2
<1>3. CASE c \in table /\ \E d \in Calls : CallerStep(d)
  <2>1. PICK d \in Calls : CallerStep(d)
    BY <1>3
  <2>2. CASE d # c
    BY <1>0, <1>3, <2>1, <2>2 DEF CallerStep, TryAcquire, AcquiredTooLate, Register, Write, WriteThrows,
       Wake, Judge, Leave, IInv, TypeOK
  <2>3. CASE d = c
    BY <1>0, <1>3, <2>1, <2>3 DEF CallerStep, TryAcquire, AcquiredTooLate, Register, Write, WriteThrows,
       Wake, Judge, Leave, IInv, TypeOK
  <2>4. QED
    BY <2>2, <2>3
<1>4. (\E d \in Calls : CallerStep(d)) \/ UNCHANGED caller
  <2>1. ASSUME NEW d, Age(d) \/ WriteCompletes(d) \/ PeerReplies(d) \/ ReceiveResponse(d) \/ Encode(d)
        PROVE  UNCHANGED caller
    BY <2>1 DEF Age, WriteCompletes, WriteSucceeds, WriteFails, PeerReplies, ReceiveResponse, Encode
  <2>2. ASSUME NEW t, RequestFail(t) PROVE UNCHANGED caller
    BY <2>2 DEF RequestFail, RemoveFailed, MarkFailed, PutNull, FailCallback, FailRelease
  <2>3. ASSUME NEW ch, IoStep(ch) \/ HandlerStep(ch) \/ ChannelStep(ch) PROVE UNCHANGED caller
    BY <2>1, <2>2, <2>3 DEF IoStep, MarkUnsent, DropEntry, WakeCaller, HandlerStep, SetResponse,
       RemoveAnswered, Complete, FailFastVisit, FailFastEnd, ChannelStep, Close, SocketClosed,
       ConnectionLost, ChannelInactive
  <2>4. ASSUME ScanStep \/ RunTask PROVE UNCHANGED caller
    BY <2>4 DEF ScanStep, ScanFinds, ScanRelease, ScanRemove, ScanEnd, Fire, RunTask
  <2>5. QED
    BY <2>1, <2>3, <2>4 DEF Next, vars
<1>5. QED
  BY <1>1, <1>2, <1>3, <1>4

LEMMA StepTakenFirst ==
  ASSUME IInv, TakenFirst, [Next]_vars
  PROVE  TakenFirst'
<1>a. TypeOK /\ TypeOK' /\ Timer \in Threads /\ \A c \in Tracked : c \in Calls
  BY StepType, ThreadFacts DEF IInv, Tracked, Calls, Limited
<1>b. \A t \in Threads : cur[t] \in Tracked \cup {NoCall}
                       /\ (pc[t] \in Submitting => cur[t] # NoCall)
  BY <1>a DEF TypeOK, Submitting
<1>c. /\ \A c \in overdue' : c \in Calls
      /\ \A task \in tasks' : task[1] \in Calls
      /\ \A c \in called' : c \in Calls
      /\ \A t \in Threads : pc'[t] \in Submitting => cur'[t] # NoCall
  BY <1>a DEF TypeOK, Tracked, Submitting
<1>0. /\ \A t \in Threads : pc[t] \in Submitting => cur[t] \in Calls
      /\ \A t \in Threads : cur[t] # NoCall => cur[t] \in Calls /\ UnderWay(cur[t])
      /\ \A c \in overdue : c \in Calls
      /\ NoCall \notin Calls
  BY <1>a, <1>b, CallsAssumption DEF IInv, OnlyUnderWay, TypeOK
<1>1. ASSUME NEW c \in Calls, Taken(c) PROVE Taken(c)'
  BY <1>1, TakenStays
<1>2. \A c \in (table \cap SyncCalls)' : caller'[c] # "returned"
  BY StepReturned
<1>3. ASSUME NEW t \in Threads, pc'[t] \in Submitting PROVE Taken(cur[t])' /\ cur'[t] = cur[t]
  <2>1. cur'[t] = cur[t] /\ cur[t] \in Calls
    BY <1>0, <1>c, <1>3, StepSubmitting
  <2>2. CASE pc[t] \in Submitting
    BY <1>1, <2>1, <2>2 DEF TakenFirst, Taken
  <2>3. CASE cur[t] \notin table'
    <3>1. UnderWay(cur[t])
      BY <1>0, <2>1
    <3>2. QED
      BY <2>1, <2>3, <3>1, StepTable DEF Taken, UnderWay
  <2>4. QED
    BY <1>3, <2>1, <2>2, <2>3, StepSubmitting
<1>4. ASSUME NEW c \in overdue' PROVE Taken(c)'
  <2>0. c \in Calls
    BY <1>c, <1>4
  <2>1. CASE c \in overdue
    BY <1>1, <2>0, <2>1 DEF TakenFirst
  <2>2. CASE c = cur[Timer] /\ c \notin table'
    BY <1>a, <1>0, <2>0, <2>2, StepTable DEF Taken
  <2>3. QED
    BY <1>4, <2>1, <2>2, StepSubmitting
<1>5. ASSUME NEW task \in tasks' PROVE Taken(task[1])'
  BY <1>c, <1>1, <1>5, StepCallbacks
<1>6. ASSUME NEW c \in called' PROVE Taken(c)'
  BY <1>c, <1>1, <1>6, StepCallbacks
<1>7. \A t \in Threads : pc'[t] \in Submitting => Taken(cur[t])' /\ cur'[t] = cur[t]
  BY <1>3
<1>8. (\A t \in Threads : pc[t] \in Submitting => Taken(cur[t]))'
  BY <1>7 DEF Taken, UnderWay
<1>9. QED
  BY <1>2, <1>4, <1>5, <1>6, <1>8 DEF TakenFirst

(* responseTable holds no entry of a sync call that has returned nor of an *)
(* async call whose callback ran, whichever of the threads took it out.    *)
THEOREM TableOnlyPending == Spec => []TableHoldsOnlyPending
<1>1. Init => TakenFirst
  BY DEF Init, TakenFirst, Submitting
<1>2. IInv /\ TakenFirst /\ [Next]_vars => TakenFirst'
  BY StepTakenFirst
<1>3. IInv /\ TakenFirst => TableHoldsOnlyPending
  BY DEF IInv, TakenFirst, Taken, TableHoldsOnlyPending, OnlyUnderWay, UnderWay, CalledOnce, TypeOK,
     Tracked, Calls, Limited
<1>4. QED
  BY <1>1, <1>2, <1>3, InvariantHolds, PTL DEF Spec

-----------------------------------------------------------------------------
(* failFast reaches every call that got on the wire of a closed channel.   *)
LEMMA StepTodo ==
  ASSUME IInv, TodoWhileFailing, [Next]_vars
  PROVE  TodoWhileFailing'
<1> USE DEF Goto, callVars, futureVars, onceVars, netVars, threadVars
<1>0. /\ \A ch \in Channels : Io(ch) \in Threads /\ Handler(ch) \in Threads
      /\ Timer \in Threads
      /\ \A c \in Calls : ChannelOf[c] \in Channels
      /\ TypeOK
  BY ThreadFacts DEF IInv
<1>1. SUFFICES ASSUME NEW b \in Channels, pc'[Handler(b)] \notin Failing
               PROVE  todo'[b] = {}
  BY DEF TodoWhileFailing
<1> DEFINE P == todo'[b] = {}
<1>2. ASSUME todo'[b] = todo[b], pc[Handler(b)] \notin Failing PROVE P
  BY <1>2 DEF TodoWhileFailing
<1>3. ASSUME UNCHANGED <<pc, todo>> PROVE P
  BY <1>1, <1>3 DEF TodoWhileFailing
<1>4. ASSUME NEW c \in Calls,
             CallerStep(c) \/ Age(c) \/ WriteSucceeds(c) \/ PeerReplies(c) \/ Encode(c)
      PROVE  P
  BY <1>3, <1>4 DEF CallerStep, TryAcquire, AcquiredTooLate, Register, Write, WriteThrows, Wake, Judge, Leave,
     Age, WriteSucceeds, PeerReplies, Encode
<1>5. ASSUME NEW c \in Calls, WriteFails(c) PROVE P
  BY <1>0, <1>1, <1>5, DistinctThreads DEF WriteFails, TodoWhileFailing, TypeOK
<1>6. ASSUME NEW c \in Calls, ReceiveResponse(c) PROVE P
  BY <1>0, <1>1, <1>6, DistinctThreads DEF ReceiveResponse, TodoWhileFailing, Failing, TypeOK
<1>7. ASSUME NEW t \in Threads, RequestFail(t) PROVE P
  <2>1. UNCHANGED todo
    BY <1>7 DEF RequestFail, RemoveFailed, MarkFailed, PutNull, FailCallback, FailRelease
  <2>2. CASE t # Handler(b)
    BY <1>0, <1>1, <1>7, <2>1, <2>2 DEF RequestFail, RemoveFailed, MarkFailed, PutNull, FailCallback,
       FailRelease, Resume, TodoWhileFailing, TypeOK
  <2>3. CASE t = Handler(b)
    <3>1. t[1] = "handler"
      BY <2>3, DistinctThreads
    <3>2. pc'[t] \in Failing
      BY <1>0, <1>7, <3>1 DEF RequestFail, RemoveFailed, MarkFailed, PutNull, FailCallback, FailRelease, Resume,
         Failing, TypeOK
    <3>3. QED
      BY <1>1, <2>3, <3>2
  <2>4. QED
    BY <2>2, <2>3
<1>8. ASSUME NEW ch \in Channels, IoStep(ch) PROVE P
  <2>1. CASE MarkUnsent(ch) \/ DropEntry(ch) \/ WakeCaller(ch)
    BY <1>0, <1>1, <2>1, DistinctThreads DEF MarkUnsent, DropEntry, WakeCaller, TodoWhileFailing, TypeOK
  <2>2. QED
    BY <1>0, <1>7, <1>8, <2>1 DEF IoStep
<1>9. ASSUME NEW ch \in Channels, HandlerStep(ch) PROVE P
  <2>1. CASE SetResponse(ch) \/ RemoveAnswered(ch) \/ Complete(ch)
    BY <1>0, <1>1, <2>1, DistinctThreads DEF SetResponse, RemoveAnswered, Complete, TodoWhileFailing,
       Failing, TypeOK
  <2>2. CASE FailFastVisit(ch) \/ FailFastEnd(ch)
    BY <1>0, <1>1, <2>2, DistinctThreads DEF FailFastVisit, FailFastEnd, TodoWhileFailing, Failing, TypeOK
  <2>3. QED
    BY <1>0, <1>4, <1>7, <1>9, <2>1, <2>2 DEF HandlerStep
<1>10. ASSUME NEW ch \in Channels, ChannelStep(ch) PROVE P
  BY <1>0, <1>1, <1>10, DistinctThreads DEF ChannelStep, Close, SocketClosed, ConnectionLost, ChannelInactive,
     StartFailFast, TodoWhileFailing, Failing, TypeOK
<1>11. ASSUME ScanStep PROVE P
  BY <1>0, <1>1, <1>11, DistinctThreads DEF ScanStep, ScanFinds, ScanRelease, ScanRemove, ScanEnd, Fire,
     TodoWhileFailing, TypeOK
<1>12. CASE RunTask \/ UNCHANGED vars
  BY <1>3, <1>12 DEF RunTask, vars
<1>13. QED
  BY <1>4, <1>5, <1>6, <1>8, <1>9, <1>10, <1>11, <1>12 DEF Next, WriteCompletes

LEMMA StepInHand ==
  ASSUME IInv, FailedInHand, [Next]_vars
  PROVE  FailedInHand'
<1> USE DEF Goto, callVars, futureVars, onceVars, netVars, threadVars
<1>0. /\ \A ch \in Channels : Io(ch) \in Threads /\ Handler(ch) \in Threads
      /\ Timer \in Threads
      /\ \A c \in Calls : ChannelOf[c] \in Channels
      /\ TypeOK
  BY ThreadFacts DEF IInv
<1>1. SUFFICES ASSUME NEW c \in table', written'[c] = "failed"
               PROVE  /\ cur'[Io(ChannelOf[c])] = c
                      /\ pc'[Io(ChannelOf[c])] \in {"markUnsent", "dropEntry", "removeFailed"}
  BY DEF FailedInHand
<1> DEFINE io == Io(ChannelOf[c])
           P  == cur'[io] = c /\ pc'[io] \in {"markUnsent", "dropEntry", "removeFailed"}
<1>2. /\ c \in table /\ c \in Tracked /\ c \in Calls /\ c \notin OnewayCalls /\ io \in Threads
      /\ written[c] = "failed" => cur[io] = c /\ pc[io] \in {"markUnsent", "dropEntry", "removeFailed"}
  <2>1. c \in table
    BY <1>1, StepTable
  <2>2. c \in Tracked /\ c \in Calls /\ c \notin OnewayCalls
    BY <1>0, <2>1, CallsAssumption DEF TypeOK, Tracked, Calls, Limited
  <2>3. QED
    BY <1>0, <2>1, <2>2 DEF FailedInHand
<1>3. ASSUME written'[c] = written[c], cur'[io] = cur[io], pc'[io] = pc[io] PROVE P
  BY <1>1, <1>2, <1>3
<1>4. ASSUME NEW d \in Calls, CallerStep(d) PROVE P
  <2>1. UNCHANGED <<pc, cur>>
    BY <1>4 DEF CallerStep, TryAcquire, AcquiredTooLate, Register, Write, WriteThrows, Wake, Judge, Leave
  <2>2. written'[c] = written[c]
    BY <1>0, <1>1, <1>2, <1>4 DEF CallerStep, TryAcquire, AcquiredTooLate, Register, Write, WriteThrows, Wake,
       Judge, Leave, TypeOK
  <2>3. QED
    BY <1>3, <2>1, <2>2
<1>5. ASSUME NEW d \in Calls, Age(d) \/ WriteSucceeds(d) \/ PeerReplies(d) \/ Encode(d) PROVE P
  <2>1. UNCHANGED <<pc, cur>>
    BY <1>5 DEF Age, WriteSucceeds, PeerReplies, Encode
  <2>2. written'[c] = written[c]
    BY <1>0, <1>1, <1>2, <1>5 DEF Age, WriteSucceeds, PeerReplies, Encode, TypeOK
  <2>3. QED
    BY <1>3, <2>1, <2>2
<1>6. ASSUME NEW d \in Calls, WriteFails(d) PROVE P
  <2>1. CASE d = c
    BY <1>0, <1>2, <1>6, <2>1 DEF WriteFails, TypeOK, Tracked
  <2>2. CASE d # c
    <3>1. written'[c] = written[c] /\ written[c] = "failed"
      BY <1>0, <1>1, <1>2, <1>6, <2>2 DEF WriteFails, TypeOK
    <3>2. Io(ChannelOf[d]) # io
      BY <1>2, <1>6, <3>1 DEF WriteFails
    <3>3. cur'[io] = cur[io] /\ pc'[io] = pc[io]
      BY <1>0, <1>2, <1>6, <3>2 DEF WriteFails, TypeOK
    <3>4. QED
      BY <1>3, <3>1, <3>3
  <2>3. QED
    BY <2>1, <2>2
<1>7. ASSUME NEW d \in Calls, ReceiveResponse(d) PROVE P
  BY <1>0, <1>2, <1>3, <1>7, DistinctThreads DEF ReceiveResponse, TypeOK
<1>8. ASSUME NEW t \in Threads, RequestFail(t) PROVE P
  <2>1. UNCHANGED written
    BY <1>8 DEF RequestFail, RemoveFailed, MarkFailed, PutNull, FailCallback, FailRelease
  <2>2. CASE t # io
    <3>1. cur'[io] = cur[io] /\ pc'[io] = pc[io]
      BY <1>0, <1>2, <1>8, <2>2 DEF RequestFail, RemoveFailed, MarkFailed, PutNull, FailCallback, FailRelease,
         Resume, TypeOK
    <3>2. QED
      BY <1>3, <2>1, <3>1
  <2>3. CASE t = io
    <3>1. cur[t] = c /\ pc[t] = "removeFailed"
      BY <1>1, <1>2, <1>8, <2>1, <2>3 DEF RequestFail, RemoveFailed, MarkFailed, PutNull, FailCallback, FailRelease
    <3>2. c \notin table'
      BY <1>8, <3>1 DEF RequestFail, RemoveFailed, MarkFailed, PutNull, FailCallback, FailRelease
    <3>3. QED
      BY <1>1, <3>2
  <2>4. QED
    BY <2>2, <2>3
<1>9. ASSUME NEW ch \in Channels, IoStep(ch) PROVE P
  <2>1. CASE Io(ch) # io /\ (MarkUnsent(ch) \/ DropEntry(ch) \/ WakeCaller(ch))
    BY <1>0, <1>2, <1>3, <2>1 DEF MarkUnsent, DropEntry, WakeCaller, TypeOK
  <2>2. CASE Io(ch) = io /\ MarkUnsent(ch)
    BY <1>0, <1>1, <1>2, <2>2 DEF MarkUnsent, TypeOK
  <2>3. CASE Io(ch) = io /\ (DropEntry(ch) \/ WakeCaller(ch))
    BY <1>0, <1>1, <1>2, <2>3 DEF DropEntry, WakeCaller, TypeOK
  <2>4. QED
    BY <1>0, <1>8, <1>9, <2>1, <2>2, <2>3 DEF IoStep
<1>10. ASSUME NEW ch \in Channels, HandlerStep(ch) PROVE P
  <2>1. CASE SetResponse(ch) \/ RemoveAnswered(ch) \/ Complete(ch) \/ FailFastVisit(ch) \/ FailFastEnd(ch)
    <3>1. Handler(ch) # io
      BY <1>0, <1>2, DistinctThreads
    <3>2. cur'[io] = cur[io] /\ pc'[io] = pc[io] /\ written'[c] = written[c]
      BY <1>0, <1>2, <2>1, <3>1 DEF SetResponse, RemoveAnswered, Complete, FailFastVisit, FailFastEnd, TypeOK
    <3>3. QED
      BY <1>3, <3>2
  <2>2. QED
    BY <1>0, <1>5, <1>8, <1>10, <2>1 DEF HandlerStep
<1>11. ASSUME NEW ch \in Channels, ChannelStep(ch) PROVE P
  <2>1. Handler(ch) # io
    BY <1>0, <1>2, DistinctThreads
  <2>2. cur'[io] = cur[io] /\ pc'[io] = pc[io] /\ written'[c] = written[c]
    BY <1>0, <1>2, <1>11, <2>1 DEF ChannelStep, Close, SocketClosed, ConnectionLost, ChannelInactive,
       StartFailFast, TypeOK
  <2>3. QED
    BY <1>3, <2>2
<1>12. ASSUME ScanStep PROVE P
  <2>1. Timer # io
    BY <1>0, <1>2, DistinctThreads
  <2>2. cur'[io] = cur[io] /\ pc'[io] = pc[io] /\ written'[c] = written[c]
    BY <1>0, <1>2, <1>12, <2>1 DEF ScanStep, ScanFinds, ScanRelease, ScanRemove, ScanEnd, Fire, TypeOK
  <2>3. QED
    BY <1>3, <2>2
<1>13. CASE RunTask \/ UNCHANGED vars
  BY <1>3, <1>13 DEF RunTask, vars
<1>14. QED
  BY <1>4, <1>5, <1>6, <1>7, <1>9, <1>10, <1>11, <1>12, <1>13 DEF Next, WriteCompletes

LEMMA StepVisited ==
  ASSUME IInv, TodoWhileFailing, DeadAreVisited, [Next]_vars
  PROVE  DeadAreVisited'
<1> USE DEF Goto, callVars, futureVars, onceVars, netVars, threadVars
<1>0. /\ \A ch \in Channels : Io(ch) \in Threads /\ Handler(ch) \in Threads
      /\ Timer \in Threads
      /\ \A d \in Calls : ChannelOf[d] \in Channels
      /\ TypeOK
  BY ThreadFacts DEF IInv
<1>1. SUFFICES ASSUME NEW c \in table', Dead(ChannelOf[c])', OnWire(c)'
               PROVE  ToBeVisited(c)'
  BY DEF DeadAreVisited
<1> DEFINE b == ChannelOf[c]
           h == Handler(b)
           P == c \in todo'[b] \/ (cur'[h] = c /\ pc'[h] = "removeFailed")
<1> SUFFICES P
  BY DEF ToBeVisited
<1>2. /\ c \in table /\ c \in Calls /\ b \in Channels /\ h \in Threads
      /\ Dead(b) /\ OnWire(c) => c \in todo[b] \/ (cur[h] = c /\ pc[h] = "removeFailed")
  <2>1. c \in table
    BY <1>1, StepTable DEF OnWire
  <2>2. c \in Calls
    BY <1>0, <2>1 DEF TypeOK, Tracked, Calls, Limited
  <2>3. QED
    BY <1>0, <2>1, <2>2 DEF DeadAreVisited, ToBeVisited
<1>3. ASSUME Dead(b), OnWire(c), todo'[b] = todo[b], cur'[h] = cur[h], pc'[h] = pc[h] PROVE P
  BY <1>2, <1>3
<1>4. ASSUME UNCHANGED chan, OnWire(c), todo'[b] = todo[b], cur'[h] = cur[h], pc'[h] = pc[h] PROVE P
  BY <1>1, <1>3, <1>4 DEF Dead
<1>5. ASSUME NEW d \in Calls,
             CallerStep(d) \/ Age(d) \/ WriteSucceeds(d) \/ PeerReplies(d) \/ Encode(d) \/ WriteFails(d)
      PROVE  P
  <2>1. UNCHANGED <<chan, todo>>
    BY <1>5 DEF CallerStep, TryAcquire, AcquiredTooLate, Register, Write, WriteThrows, Wake, Judge, Leave,
       Age, WriteSucceeds, PeerReplies, Encode, WriteFails
  <2>2. cur'[h] = cur[h] /\ pc'[h] = pc[h]
    BY <1>0, <1>2, <1>5, DistinctThreads DEF CallerStep, TryAcquire, AcquiredTooLate, Register, Write, WriteThrows,
       Wake, Judge, Leave, Age, WriteSucceeds, PeerReplies, Encode, WriteFails, TypeOK
  <2>3. OnWire(c)
    <3>1. CASE d = c
      BY <1>0, <1>1, <1>2, <1>5, <2>1, <3>1 DEF CallerStep, TryAcquire, AcquiredTooLate, Register, Write, WriteThrows,
         Wake, Judge, Leave, Age, WriteSucceeds, PeerReplies, Encode, WriteFails, TypeOK, OnWire, Dead
    <3>2. CASE d # c
      BY <1>0, <1>1, <1>2, <1>5, <3>2 DEF CallerStep, TryAcquire, AcquiredTooLate, Register, Write, WriteThrows,
         Wake, Judge, Leave, Age, WriteSucceeds, PeerReplies, Encode, WriteFails, TypeOK, OnWire
    <3>3. QED
      BY <3>1, <3>2
  <2>4. QED
    BY <1>4, <2>1, <2>2, <2>3
<1>6. ASSUME NEW d \in Calls, ReceiveResponse(d) PROVE P
  <2>1. UNCHANGED <<chan, todo, written>> /\ pc[Handler(ChannelOf[d])] = "idle"
    BY <1>6 DEF ReceiveResponse
  <2>2. Dead(b) /\ OnWire(c)
    BY <1>1, <2>1 DEF Dead, OnWire
  <2>3. CASE Handler(ChannelOf[d]) # h
    BY <1>0, <1>2, <1>3, <1>6, <2>1, <2>2, <2>3 DEF ReceiveResponse, TypeOK
  <2>4. CASE Handler(ChannelOf[d]) = h
    BY <1>2, <2>1, <2>2, <2>4 DEF TodoWhileFailing, Failing
  <2>5. QED
    BY <2>3, <2>4
<1>7. ASSUME NEW t \in Threads, RequestFail(t) PROVE P
  <2>1. UNCHANGED <<chan, todo, written>>
    BY <1>7 DEF RequestFail, RemoveFailed, MarkFailed, PutNull, FailCallback, FailRelease
  <2>2. Dead(b) /\ OnWire(c)
    BY <1>1, <2>1 DEF Dead, OnWire
  <2>3. CASE t # h
    <3>1. cur'[h] = cur[h] /\ pc'[h] = pc[h]
      BY <1>0, <1>2, <1>7, <2>3 DEF RequestFail, RemoveFailed, MarkFailed, PutNull, FailCallback, FailRelease,
         Resume, TypeOK
    <3>2. QED
      BY <1>3, <2>1, <2>2, <3>1
  <2>4. CASE t = h /\ c \in todo[b]
    BY <2>1, <2>4
  <2>5. CASE t = h /\ cur[h] = c /\ pc[h] = "removeFailed"
    BY <1>1, <1>7, <2>5 DEF RequestFail, RemoveFailed, MarkFailed, PutNull, FailCallback, FailRelease
  <2>6. QED
    BY <1>2, <2>2, <2>3, <2>4, <2>5
<1>8. ASSUME NEW ch \in Channels, IoStep(ch) PROVE P
  <2>1. CASE MarkUnsent(ch) \/ DropEntry(ch) \/ WakeCaller(ch)
    <3>1. UNCHANGED <<chan, todo, written>> /\ Io(ch) # h
      BY <1>2, <2>1, DistinctThreads DEF MarkUnsent, DropEntry, WakeCaller
    <3>2. cur'[h] = cur[h] /\ pc'[h] = pc[h] /\ OnWire(c)
      BY <1>0, <1>1, <1>2, <2>1, <3>1 DEF MarkUnsent, DropEntry, WakeCaller, TypeOK, OnWire
    <3>3. QED
      BY <1>4, <3>1, <3>2
  <2>2. QED
    BY <1>0, <1>7, <1>8, <2>1 DEF IoStep
<1>9. ASSUME NEW ch \in Channels, HandlerStep(ch) PROVE P
  <2>1. CASE SetResponse(ch) \/ RemoveAnswered(ch) \/ Complete(ch)
    <3>1. UNCHANGED <<chan, todo, written>> /\ pc[Handler(ch)] \notin Failing
      BY <2>1 DEF SetResponse, RemoveAnswered, Complete, Failing
    <3>2. Dead(b) /\ OnWire(c)
      BY <1>1, <3>1 DEF Dead, OnWire
    <3>3. CASE ch # b
      BY <1>0, <1>2, <1>3, <2>1, <3>1, <3>2, <3>3, DistinctThreads DEF SetResponse, RemoveAnswered, Complete, TypeOK
    <3>4. CASE ch = b
      BY <1>2, <3>1, <3>2, <3>4 DEF TodoWhileFailing, Failing
    <3>5. QED
      BY <3>3, <3>4
  <2>2. CASE FailFastVisit(ch) \/ FailFastEnd(ch)
    <3>1. UNCHANGED <<chan, written>>
      BY <2>2 DEF FailFastVisit, FailFastEnd
    <3>2. Dead(b) /\ OnWire(c)
      BY <1>1, <3>1 DEF Dead, OnWire
    <3>3. CASE ch # b
      BY <1>0, <1>2, <1>3, <2>2, <3>2, <3>3, DistinctThreads DEF FailFastVisit, FailFastEnd, TypeOK
    <3>4. CASE ch = b
      <4>1. c \in todo[b]
        BY <1>2, <2>2, <3>2, <3>4 DEF FailFastVisit, FailFastEnd
      <4>2. CASE FailFastVisit(ch)
        BY <1>0, <1>2, <3>4, <4>1, <4>2 DEF FailFastVisit, TypeOK
      <4>3. CASE FailFastEnd(ch)
        BY <1>2, <3>4, <4>1, <4>3 DEF FailFastEnd
      <4>4. QED
        BY <2>2, <4>2, <4>3
    <3>5. QED
      BY <3>3, <3>4
  <2>3. QED
    BY <1>0, <1>5, <1>7, <1>9, <2>1, <2>2 DEF HandlerStep
<1>10. ASSUME NEW ch \in Channels, ChannelStep(ch) PROVE P
  <2>1. UNCHANGED <<written, cur, table>> /\ OnWire(c)
    BY <1>1, <1>10 DEF ChannelStep, Close, SocketClosed, ConnectionLost, ChannelInactive, OnWire
  <2>2. CASE ch # b
    <3>1. chan'[b] = chan[b] /\ todo'[b] = todo[b] /\ pc'[h] = pc[h]
      BY <1>0, <1>2, <1>10, <2>2, DistinctThreads DEF ChannelStep, Close, SocketClosed, ConnectionLost,
         ChannelInactive, StartFailFast, TypeOK
    <3>2. QED
      BY <1>1, <1>3, <2>1, <3>1 DEF Dead
  <2>3. CASE ch = b
    <3>1. CASE Close(ch) \/ ChannelInactive(ch)
      BY <1>0, <1>1, <1>2, <2>3, <3>1 DEF Close, ChannelInactive, StartFailFast, OnChannel, TypeOK, Dead
    <3>2. CASE SocketClosed(ch) \/ ConnectionLost(ch)
      BY <1>0, <1>1, <1>2, <1>3, <2>1, <2>3, <3>2 DEF SocketClosed, ConnectionLost, TypeOK, Dead
    <3>3. QED
      BY <1>10, <3>1, <3>2 DEF ChannelStep
  <2>4. QED
    BY <2>2, <2>3
<1>11. ASSUME ScanStep PROVE P
  <2>1. UNCHANGED <<chan, todo, written>> /\ Timer # h
    BY <1>2, <1>11, DistinctThreads DEF ScanStep, ScanFinds, ScanRelease, ScanRemove, ScanEnd, Fire
  <2>2. cur'[h] = cur[h] /\ pc'[h] = pc[h] /\ OnWire(c)
    BY <1>0, <1>1, <1>2, <1>11, <2>1 DEF ScanStep, ScanFinds, ScanRelease, ScanRemove, ScanEnd, Fire, TypeOK, OnWire
  <2>3. QED
    BY <1>4, <2>1, <2>2
<1>12. CASE RunTask \/ UNCHANGED vars
  BY <1>1, <1>4, <1>12 DEF RunTask, vars, OnWire
<1>13. QED
  BY <1>5, <1>6, <1>8, <1>9, <1>10, <1>11, <1>12 DEF Next, WriteCompletes

FailFastReaches == TodoWhileFailing /\ FailedInHand /\ DeadAreVisited

(* Once a channel of the client is closed and failFast is over, no call    *)
(* that reached the wire is left in the table: none waits out its timeout. *)
THEOREM NobodyWaitsOnDeadChannel == Spec => []NoneWaitsOnDeadChannel
<1>1. Init => FailFastReaches
  BY ThreadFacts DEF Init, FailFastReaches, TodoWhileFailing, FailedInHand, DeadAreVisited
<1>2. IInv /\ FailFastReaches /\ [Next]_vars => FailFastReaches'
  BY StepTodo, StepInHand, StepVisited DEF FailFastReaches
<1>3. ASSUME IInv, FailFastReaches PROVE NoneWaitsOnDeadChannel
  <2> SUFFICES ASSUME FailsFastWhenInactive, NEW c \in table,
                      chan[ChannelOf[c]] \in {"closing", "closed"},
                      pc[Handler(ChannelOf[c])] = "idle"
               PROVE  \/ written[c] \in {"no", "queued", "tooLate"}
                      \/ written[c] = "failed" /\ cur[Io(ChannelOf[c])] = c
    BY DEF NoneWaitsOnDeadChannel
  <2>1. c \in Calls /\ ChannelOf[c] \in Channels
    BY <1>3, ThreadFacts DEF IInv, TypeOK, Tracked, Calls, Limited
  <2>2. todo[ChannelOf[c]] = {}
    BY <1>3, <2>1 DEF FailFastReaches, TodoWhileFailing, Failing
  <2>3. ~OnWire(c)
    BY <1>3, <2>2 DEF FailFastReaches, DeadAreVisited, Dead, ToBeVisited
  <2>4. written[c] = "failed" => cur[Io(ChannelOf[c])] = c
    BY <1>3 DEF FailFastReaches, FailedInHand
  <2>5. QED
    BY <1>3, <2>1, <2>3, <2>4 DEF IInv, TypeOK, OnWire
<1>4. QED
  BY <1>1, <1>2, <1>3, InvariantHolds, PTL DEF Spec

-----------------------------------------------------------------------------
(***************************************************************************)
(* The permits that are out.                                               *)
(***************************************************************************)
(* A callback that ran has given the permit back, and so has a oneway call *)
(* whose write is completed.                                               *)
EndedIsReleased ==
  /\ called \subseteq released
  /\ \A c \in OnewayCalls :
       /\ written[c] \in {"sent", "answered", "failed"} => c \in released
       /\ caller[c] = "returned" => written[c] # "no"

(* Somebody is going to give back the permit of every call that has        *)
(* returned with one: a oneway call has a write to be completed, an async  *)
(* call a callback to be run.                                              *)
PermitOnItsWay ==
  \A c \in Limited :
    caller[c] = "returned" /\ c \notin released =>
      IF c \in OnewayCalls THEN written[c] \in {"queued", "inFlight", "tooLate"}
                           ELSE InCharge(c)

(* Steps that complete no write, move no caller and run no callback. *)
LEMMA ReleasedFrame ==
  ASSUME EndedIsReleased, called' \subseteq called \cup released', released \subseteq released',
         UNCHANGED <<caller, written>>
  PROVE  EndedIsReleased'
BY DEF EndedIsReleased

LEMMA RunReleases ==
  ASSUME NEW c, RunCallback(c), Release(c), called \subseteq released, TypeOK
  PROVE  called' \subseteq called \cup released' /\ released \subseteq released'
<1>1. released \subseteq released' /\ (c \in Limited => c \in released')
  BY DEF Release
<1>2. called' \subseteq called \cup {c} /\ (called' # called => c \in Limited)
  BY DEF RunCallback, Limited
<1> QED BY <1>1, <1>2

LEMMA ExecuteReleases ==
  ASSUME NEW c, NEW t, ExecuteInvokeCallback(c, t), called \subseteq released, TypeOK
  PROVE  called' \subseteq called \cup released' /\ released \subseteq released'
BY RunReleases DEF ExecuteInvokeCallback, onceVars

LEMMA StepReleased ==
  ASSUME IInv, EndedIsReleased, [Next]_vars
  PROVE  EndedIsReleased'
<1> USE DEF callVars, futureVars, onceVars, netVars, threadVars
<1>0. /\ TypeOK /\ called \subseteq released
      /\ \A c \in OnewayCalls : c \in Calls /\ c \in Limited /\ c \notin SyncCalls /\ c \notin AsyncCalls
  BY CallsAssumption DEF IInv, EndedIsReleased, Calls, Limited
<1>r. ASSUME NEW c, Release(c)
      PROVE  released \subseteq released' /\ (c \in Limited => c \in released')
  BY <1>r DEF Release
<1>1. ASSUME NEW c \in Calls, CallerStep(c) PROVE EndedIsReleased'
  <2>1. called' = called /\ released \subseteq released'
    BY <1>1, <1>r DEF CallerStep, TryAcquire, AcquiredTooLate, Register, Write, WriteThrows, Wake, Judge, Leave
  <2>2. \A d \in Calls \ {c} : written'[d] = written[d] /\ caller'[d] = caller[d]
    BY <1>0, <1>1 DEF CallerStep, TryAcquire, AcquiredTooLate, Register, Write, WriteThrows, Wake, Judge,
       Leave, TypeOK
  <2>3. c \in OnewayCalls =>
          \/ Write(c)
          \/ written'[c] = written[c] /\ caller'[c] # "returned"
    BY <1>0, <1>1 DEF CallerStep, TryAcquire, AcquiredTooLate, Register, WriteThrows, Wake, Judge,
       Leave, TypeOK
  <2>4. Write(c) => written'[c] = "queued"
    BY <1>0 DEF Write, TypeOK
  <2> QED BY <1>0, <2>1, <2>2, <2>3, <2>4 DEF EndedIsReleased
<1>2. ASSUME NEW c \in Calls, WriteCompletes(c) \/ PeerReplies(c) \/ Encode(c)
      PROVE  EndedIsReleased'
  <2>1. called' = called /\ caller' = caller /\ released \subseteq released'
    BY <1>2, <1>r DEF WriteCompletes, WriteSucceeds, WriteFails, PeerReplies, Encode
  <2>2. \A d \in Calls \ {c} : written'[d] = written[d]
    BY <1>0, <1>2 DEF WriteCompletes, WriteSucceeds, WriteFails, PeerReplies, Encode, TypeOK
  <2>3. c \in OnewayCalls =>
          /\ written'[c] \in {"sent", "answered", "failed"} => c \in released'
          /\ written'[c] # "no"
    <3>1. CASE WriteCompletes(c)
      BY <1>0, <1>r, <3>1 DEF WriteCompletes, WriteSucceeds, WriteFails, TypeOK
    <3>2. CASE PeerReplies(c)
      BY <1>0, <3>2 DEF PeerReplies, TypeOK, EndedIsReleased
    <3>3. CASE Encode(c)
      BY <1>0, <3>3 DEF Encode, TypeOK
    <3> QED BY <1>2, <3>1, <3>2, <3>3
  <2> QED BY <1>0, <2>1, <2>2, <2>3 DEF EndedIsReleased
<1>3. ASSUME NEW c, Age(c) \/ ReceiveResponse(c) PROVE EndedIsReleased'
  BY <1>3, ReleasedFrame DEF Age, ReceiveResponse
<1>4. ASSUME NEW t, RequestFail(t) PROVE EndedIsReleased'
  <2>1. CASE FailCallback(t)
    BY <1>0, <2>1, ExecuteReleases, ReleasedFrame DEF FailCallback
  <2>2. CASE FailRelease(t)
    BY <2>2, <1>r, ReleasedFrame DEF FailRelease
  <2>3. CASE RemoveFailed(t) \/ MarkFailed(t) \/ PutNull(t)
    BY <2>3, ReleasedFrame DEF RemoveFailed, MarkFailed, PutNull
  <2> QED BY <1>4, <2>1, <2>2, <2>3 DEF RequestFail
<1>5. ASSUME NEW ch, IoStep(ch) PROVE EndedIsReleased'
  BY <1>4, <1>5, ReleasedFrame DEF IoStep, MarkUnsent, DropEntry, WakeCaller
<1>6. ASSUME NEW ch, HandlerStep(ch) PROVE EndedIsReleased'
  <2>1. CASE Complete(ch)
    BY <1>0, <2>1, ExecuteReleases, ReleasedFrame DEF Complete
  <2>2. CASE SetResponse(ch) \/ RemoveAnswered(ch) \/ FailFastVisit(ch) \/ FailFastEnd(ch)
    BY <2>2, ReleasedFrame DEF SetResponse, RemoveAnswered, FailFastVisit, FailFastEnd
  <2> QED BY <1>2, <1>4, <1>6, <2>1, <2>2 DEF HandlerStep
<1>7. ASSUME NEW ch, ChannelStep(ch) PROVE EndedIsReleased'
  BY <1>7, ReleasedFrame DEF ChannelStep, Close, SocketClosed, ConnectionLost, ChannelInactive
<1>8. CASE ScanStep
  <2>1. CASE Fire
    BY <1>0, <2>1, ExecuteReleases, ReleasedFrame DEF Fire
  <2>2. CASE ScanRelease
    BY <2>2, <1>r, ReleasedFrame DEF ScanRelease
  <2>3. CASE ScanFinds \/ ScanRemove \/ ScanEnd
    BY <2>3, ReleasedFrame DEF ScanFinds, ScanRemove, ScanEnd
  <2> QED BY <1>8, <2>1, <2>2, <2>3 DEF ScanStep
<1>9. CASE RunTask
  BY <1>0, <1>9, RunReleases, ReleasedFrame DEF RunTask
<1>10. CASE UNCHANGED vars
  BY <1>10, ReleasedFrame DEF vars
<1> QED BY <1>1, <1>2, <1>3, <1>5, <1>6, <1>7, <1>8, <1>9, <1>10 DEF Next

(* The safety half of PermitsComeBack: a call that has returned with its   *)
(* permit is one that a write listener, the handler thread, the timer or   *)
(* the callback executor is still going to release.                        *)
THEOREM NoPermitForgotten == Spec => []PermitOnItsWay
<1>1. Init => EndedIsReleased
  BY CallsAssumption DEF Init, EndedIsReleased, Calls, Limited
<1>2. IInv /\ EndedIsReleased /\ [Next]_vars => EndedIsReleased'
  BY StepReleased
<1>3. ASSUME IInv, EndedIsReleased, NoLostCallback PROVE PermitOnItsWay
  <2> SUFFICES ASSUME NEW c \in Limited, caller[c] = "returned", c \notin released
               PROVE  IF c \in OnewayCalls THEN written[c] \in {"queued", "inFlight", "tooLate"}
                                           ELSE InCharge(c)
    BY DEF PermitOnItsWay
  <2>1. CASE c \in OnewayCalls
    BY <1>3, <2>1 DEF IInv, TypeOK, EndedIsReleased, Calls, Limited
  <2>2. CASE c \notin OnewayCalls
    <3>1. c \in AsyncCalls /\ c \in Calls /\ c \notin called
      BY <1>3, <2>2 DEF EndedIsReleased, Calls, Limited
    <3>2. notified[c] = 0
      BY <1>3, <3>1 DEF IInv, CalledOnce
    <3> QED BY <1>3, <2>2, <3>1, <3>2 DEF NoLostCallback
  <2> QED BY <2>1, <2>2
<1> QED BY <1>1, <1>2, <1>3, InvariantHolds, CallbackNeverLost, PTL DEF Spec

=============================================================================
