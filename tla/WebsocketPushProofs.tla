------------------------- MODULE WebsocketPushProofs -------------------------
(***************************************************************************)
(* For any parameters, messages and changes of the logs: the types of      *)
(* WebsocketPush, and that the push thread never asks for the log of no    *)
(* parameter at all (FetchesSomething).  The two need one another: a log   *)
(* that is fetched has a type only if there is a parameter.  Then, that no *)
(* cat is left unanswered, and in which one way the console can be left    *)
(* behind the digest.                                                      *)
(***************************************************************************)
EXTENDS WebsocketPush, TLAPS

USE ParamsAssumption, BoundsAssumption

PushStages == {"loop", "status", "session", "fetch", "compare", "send", "ended"}
HandlerStages == {"idle", "status", "fetch", "begin", "send"}

(* The two records keep their fields. *)
Shape ==
  /\ push \in [pc : PushStages, log : Logs \cup {Nothing}]
  /\ handler \in [pc : HandlerStages, msg : Messages \cup {Nothing}, log : Logs \cup {Nothing}]

(* A cat names nodes; only the stop button does not. *)
Asks(m) == m.status => m.param \in Params

(* What onMessage works on is what it has stored. *)
HandlerRight ==
  /\ handler.pc = "status" =>
       handler.msg \in Messages /\ Asks(handler.msg) /\ param = handler.msg.param
  /\ handler.pc = "fetch" => param \in Params

(* status is set after param, and param is never taken back. *)
StatusNeedsParam ==
  /\ status => param # Nothing
  /\ push.pc \in {"session", "fetch"} => param # Nothing

IInv ==
  /\ TypeOK
  /\ Shape
  /\ \A i \in 1..Len(inbox) : Asks(inbox[i])
  /\ HandlerRight
  /\ StatusNeedsParam

-----------------------------------------------------------------------------

LEMMA InitInv == Init => IInv
<1>. SUFFICES ASSUME Init PROVE IInv
  OBVIOUS
<1>1. TypeOK
  <2>1. open \in BOOLEAN /\ session \in BOOLEAN /\ status \in BOOLEAN
    BY DEF Init
  <2>2. /\ push.pc = "loop" /\ push.log = Nothing
        /\ handler.pc = "idle" /\ handler.msg = Nothing /\ handler.log = Nothing
    BY DEF Init, Idle
  <2>3. inbox \in Seq(Messages) /\ written \in 0..MaxMessages /\ version \in 0..MaxChanges
    BY DEF Init
  <2>. QED BY <2>1, <2>2, <2>3 DEF Init, TypeOK
<1>2. Shape
  BY DEF Init, Shape, Idle, PushStages, HandlerStages
<1>3. Len(inbox) = 0 /\ HandlerRight /\ StatusNeedsParam
  BY DEF Init, HandlerRight, StatusNeedsParam, Idle
<1>. QED BY <1>1, <1>2, <1>3 DEF IInv

(* A message that the user sends. *)
LEMMA UserSendsKeeps ==
  ASSUME IInv, NEW m \in Messages, Asks(m), UserSends(m)
  PROVE  IInv'
<1>1. inbox' \in Seq(Messages) /\ \A i \in 1..Len(inbox') : Asks(inbox'[i])
  BY DEF IInv, TypeOK, UserSends
<1>2. written' \in 0..MaxMessages
  BY DEF IInv, TypeOK, UserSends
<1>. QED
  BY <1>1, <1>2 DEF IInv, TypeOK, Shape, HandlerRight, StatusNeedsParam, UserSends, fields, console

LEMMA WorldKeeps ==
  ASSUME IInv, LogChanges \/ SocketCloses \/ OnClose
  PROVE  IInv'
<1>1. CASE LogChanges
  <2>1. version' \in 0..MaxChanges
    BY <1>1 DEF LogChanges, IInv, TypeOK
  <2>2. UNCHANGED <<open, param, status, session, lastMd5Hex, push, handler, sending, inbox, written, shown, overtaken>>
    BY <1>1 DEF LogChanges, fields, console
  <2>. QED BY <2>1, <2>2 DEF IInv, TypeOK, Shape, HandlerRight, StatusNeedsParam
<1>2. CASE SocketCloses
  <2>1. open' \in BOOLEAN
    BY <1>2 DEF SocketCloses
  <2>2. UNCHANGED <<param, status, session, lastMd5Hex, push, handler, sending, inbox, written, version, shown, overtaken>>
    BY <1>2 DEF SocketCloses, fields, world, console
  <2>. QED BY <2>1, <2>2 DEF IInv, TypeOK, Shape, HandlerRight, StatusNeedsParam
<1>3. CASE OnClose
  <2>1. session' \in BOOLEAN
    BY <1>3 DEF OnClose
  <2>2. UNCHANGED <<open, param, status, lastMd5Hex, push, handler, sending, inbox, written, version, shown, overtaken>>
    BY <1>3 DEF OnClose, world, console
  <2>3. TypeOK'
    BY <2>1, <2>2 DEF IInv, TypeOK
  <2>4. Shape' /\ HandlerRight' /\ StatusNeedsParam'
    BY <2>2 DEF IInv, Shape, HandlerRight, StatusNeedsParam
  <2>5. \A i \in 1..Len(inbox') : Asks(inbox'[i])
    BY <2>2 DEF IInv
  <2>. QED BY <2>3, <2>4, <2>5 DEF IInv
<1>. QED BY <1>1, <1>2, <1>3

(* The push thread comes to stage s. *)
LEMMA PushMoves ==
  ASSUME IInv, NEW s \in PushStages, PushGoes(s)
  PROVE  push' \in [pc : PushStages, log : Logs \cup {Nothing}] /\ push'.pc = s
BY DEF IInv, Shape, PushGoes

LEMMA PushThreadKeeps == ASSUME IInv, PushThread PROVE IInv'
<1>. USE DEF IInv, TypeOK, Shape, HandlerRight, StatusNeedsParam, PushStages
<1>1. CASE PushLoops
  BY <1>1, PushMoves DEF PushLoops, fields, world, console
<1>2. CASE PushReadsStatus
  BY <1>2, PushMoves DEF PushReadsStatus, fields, world, console
<1>3. CASE PushReadsSession
  BY <1>3, PushMoves DEF PushReadsSession, fields, world, console
<1>4. CASE PushFetches
  <2>1. push' \in [pc : PushStages, log : Logs \cup {Nothing}] /\ push'.pc \in {"compare", "ended"}
    BY <1>4 DEF PushFetches, Logs
  <2>. QED BY <1>4, <2>1 DEF PushFetches, fields, world, console
<1>5. CASE PushCompares
  <2>1. push' \in [pc : PushStages, log : Logs \cup {Nothing}] /\ push'.pc \in {"loop", "send", "ended"}
    BY <1>5, PushMoves DEF PushCompares
  <2>2. sending' \subseteq {"push", "handler"}
    BY <1>5 DEF PushCompares, EntersSend
  <2>. QED BY <1>5, <2>1, <2>2 DEF PushCompares, world, console
<1>6. CASE PushSends
  BY <1>6 DEF PushSends, LeavesSend, fields, world
<1>. QED BY <1>1, <1>2, <1>3, <1>4, <1>5, <1>6 DEF PushThread

LEMMA OnMessageKeeps == ASSUME IInv, OnMessage PROVE IInv'
<1>. USE DEF IInv, TypeOK, Shape, StatusNeedsParam, HandlerStages
<1>1. CASE OnMessageParam
  <2>1. /\ Head(inbox) \in Messages /\ Asks(Head(inbox))
        /\ inbox' \in Seq(Messages) /\ \A i \in 1..Len(inbox') : Asks(inbox'[i])
    <3>1. inbox # <<>> /\ inbox' = Tail(inbox)
      BY <1>1 DEF OnMessageParam
    <3>2. /\ Head(inbox) \in Messages /\ Head(inbox) = inbox[1] /\ 1 \in 1..Len(inbox)
          /\ Tail(inbox) \in Seq(Messages) /\ Len(Tail(inbox)) = Len(inbox) - 1
          /\ \A i \in 1..Len(Tail(inbox)) : Tail(inbox)[i] = inbox[i + 1] /\ i + 1 \in 1..Len(inbox)
      BY <3>1
    <3>. QED BY <3>1, <3>2
  <2>2. handler' \in [pc : HandlerStages, msg : Messages \cup {Nothing}, log : Logs \cup {Nothing}]
        /\ handler'.pc = "status" /\ handler'.msg = Head(inbox)
    BY <1>1, <2>1 DEF OnMessageParam
  <2>3. param' = handler'.msg.param /\ param' \in Params \cup {NoIp}
    BY <1>1, <2>1, <2>2 DEF OnMessageParam, Messages
  <2>. QED BY <1>1, <2>1, <2>2, <2>3 DEF OnMessageParam, HandlerRight, console
<1>2. CASE OnMessageStatus
  <2>1. status' \in BOOLEAN /\ (status' => param \in Params)
    BY <1>2 DEF OnMessageStatus, HandlerRight, Messages, Asks
  <2>2. /\ handler' \in [pc : HandlerStages, msg : Messages \cup {Nothing}, log : Logs \cup {Nothing}]
        /\ handler'.pc = "idle" \/ (handler'.pc = "fetch" /\ handler.msg.status)
    BY <1>2 DEF OnMessageStatus, Idle
  <2>3. handler'.pc # "status" /\ (handler'.pc = "fetch" => param \in Params)
    BY <1>2, <2>1, <2>2 DEF OnMessageStatus
  <2>. QED BY <1>2, <2>1, <2>2, <2>3 DEF OnMessageStatus, HandlerRight, world, console
<1>3. CASE OnMessageFetches
  <2>1. /\ handler' \in [pc : HandlerStages, msg : Messages \cup {Nothing}, log : Logs \cup {Nothing}]
        /\ handler'.pc \in {"begin", "idle"}
    <3>1. handler.pc = "fetch" /\ param \in Params
      BY <1>3 DEF OnMessageFetches, HandlerRight
    <3>2. <<param, version>> \in Logs
      BY <3>1 DEF Logs
    <3>3. CASE handler' = [handler EXCEPT !.pc = "begin", !.log = <<param, version>>]
      BY <3>2, <3>3
    <3>4. CASE handler' = Idle
      BY <3>4 DEF Idle
    <3>. QED BY <1>3, <3>3, <3>4 DEF OnMessageFetches, OnError
  <2>2. session' \in BOOLEAN
    BY <1>3 DEF OnMessageFetches, OnError
  <2>. QED BY <1>3, <2>1, <2>2 DEF OnMessageFetches, HandlerRight, world, console
<1>4. CASE OnMessageBeginsSend
  <2>1. /\ handler' \in [pc : HandlerStages, msg : Messages \cup {Nothing}, log : Logs \cup {Nothing}]
        /\ handler'.pc \in {"send", "idle"}
    BY <1>4 DEF OnMessageBeginsSend, OnError, Idle
  <2>2. session' \in BOOLEAN /\ sending' \subseteq {"push", "handler"}
    BY <1>4 DEF OnMessageBeginsSend, OnError, EntersSend
  <2>. QED BY <1>4, <2>1, <2>2 DEF OnMessageBeginsSend, HandlerRight, world, console
<1>5. CASE OnMessageSends
  <2>1. handler' = Idle /\ session' \in BOOLEAN
    BY <1>5 DEF OnMessageSends, OnError
  <2>2. sending' \subseteq {"push", "handler"} /\ shown' \in Logs \cup {Nothing} /\ overtaken' \in BOOLEAN
    BY <1>5 DEF OnMessageSends, LeavesSend
  <2>. QED BY <1>5, <2>1, <2>2 DEF OnMessageSends, HandlerRight, Idle, world, console
<1>. QED BY <1>1, <1>2, <1>3, <1>4, <1>5 DEF OnMessage

LEMMA StutterKeeps == ASSUME IInv, UNCHANGED vars PROVE IInv'
BY DEF IInv, TypeOK, Shape, HandlerRight, StatusNeedsParam, vars, fields, world, console

LEMMA NextKeeps == IInv /\ [Next]_vars => IInv'
<1>. SUFFICES ASSUME IInv, [Next]_vars PROVE IInv'
  OBVIOUS
<1>1. ASSUME NEW p \in Params, BtnCat(p) PROVE IInv'
  <2>. DEFINE m == [param |-> p, status |-> TRUE]
  <2>1. m \in Messages /\ Asks(m) /\ UserSends(m)
    BY <1>1 DEF Messages, Asks, BtnCat
  <2>. QED BY <2>1, UserSendsKeeps
<1>2. CASE BtnStop
  <2>. DEFINE m == [param |-> NoIp, status |-> FALSE]
  <2>1. m \in Messages /\ Asks(m) /\ UserSends(m)
    BY <1>2 DEF Messages, Asks, BtnStop
  <2>. QED BY <2>1, UserSendsKeeps
<1>. QED BY <1>1, <1>2, WorldKeeps, PushThreadKeeps, OnMessageKeeps, StutterKeeps DEF Next

LEMMA InductiveInvariant == Spec => []IInv
BY InitInv, NextKeeps, PTL DEF Spec

(* The endpoint's fields, its two threads and the socket keep their types. *)
THEOREM TypeCorrect == Spec => []TypeOK
<1>1. IInv => TypeOK
  BY DEF IInv
<1>. QED BY <1>1, InductiveInvariant, PTL

(* The push thread never asks getLog for no parameter, in whatever order   *)
(* onMessage writes and it reads the two fields.                           *)
THEOREM AlwaysFetchesSomething == Spec => []FetchesSomething
<1>1. IInv => FetchesSomething
  BY DEF IInv, StatusNeedsParam, FetchesSomething
<1>. QED BY <1>1, InductiveInvariant, PTL

-----------------------------------------------------------------------------
(***************************************************************************)
(* The answer to a cat.                                                    *)
(***************************************************************************)
(* onMessage works on one cat from beginning to end: the field that getLog *)
(* reads is still the one it has set, and the log is of this parameter.    *)
CatInHand ==
  /\ handler.pc = "idle" => handler = Idle
  /\ handler.pc \in {"fetch", "begin", "send"} =>
       /\ handler.msg \in Messages /\ handler.msg.status
       /\ param = handler.msg.param
  /\ handler.pc \in {"begin", "send"} =>
       handler.log \in Logs /\ handler.log[1] = handler.msg.param


(* A cat that onMessage is done with is on the console, or the endpoint    *)
(* has given the session up.                                               *)
CatGetsAnswer ==
  handler.msg # Nothing /\ handler.msg.status /\ handler' = Idle =>
    ~session' \/ (shown' \in Logs /\ shown'[1] = handler.msg.param)

LEMMA InitCat == Init => CatInHand
BY DEF Init, CatInHand, Idle

(* The user, the logs, the socket, onClose and the push thread leave       *)
(* onMessage alone.                                                        *)
LEMMA OthersKeepCat ==
  ASSUME CatInHand, [Next]_vars, ~OnMessage
  PROVE  CatInHand'
<1>1. UNCHANGED <<param, handler>>
  BY DEF Next, BtnCat, BtnStop, UserSends, LogChanges, SocketCloses, OnClose, PushThread, PushLoops,
         PushReadsStatus, PushReadsSession, PushFetches, PushCompares, PushSends, fields, vars
<1>. QED BY <1>1 DEF CatInHand

LEMMA OnMessageKeepsCat ==
  ASSUME IInv, CatInHand, OnMessage
  PROVE  CatInHand'
<1>0. handler \in [pc : HandlerStages, msg : Messages \cup {Nothing}, log : Logs \cup {Nothing}]
  BY DEF IInv, Shape
<1>1. CASE OnMessageParam
  <2>1. handler'.pc = "status"
    BY <1>0, <1>1 DEF OnMessageParam
  <2>. QED BY <2>1 DEF CatInHand
<1>2. CASE OnMessageStatus
  <2>1. handler.pc = "status" /\ param' = param
    BY <1>2 DEF OnMessageStatus
  <2>2. handler.msg \in Messages /\ param = handler.msg.param
    BY <2>1 DEF IInv, HandlerRight
  <2>3. CASE handler.msg.status
    <3>1. handler'.pc = "fetch" /\ handler'.msg = handler.msg
      BY <1>0, <1>2, <2>3 DEF OnMessageStatus
    <3>. QED BY <2>1, <2>2, <2>3, <3>1 DEF CatInHand
  <2>4. CASE ~handler.msg.status
    <3>1. handler' = Idle /\ handler'.pc = "idle"
      BY <1>2, <2>4 DEF OnMessageStatus, Idle
    <3>. QED BY <3>1 DEF CatInHand
  <2>. QED BY <2>3, <2>4
<1>3. CASE OnMessageFetches
  <2>1. handler.pc = "fetch" /\ param' = param
    BY <1>3 DEF OnMessageFetches
  <2>2. CASE handler' = Idle
    <3>1. handler'.pc = "idle"
      BY <2>2 DEF Idle
    <3>. QED BY <2>2, <3>1 DEF CatInHand
  <2>3. CASE handler' = [handler EXCEPT !.pc = "begin", !.log = <<param, version>>]
    <3>1. /\ handler'.pc = "begin" /\ handler'.msg = handler.msg
          /\ handler'.log = <<param, version>> /\ handler'.log[1] = param
      BY <1>0, <2>3
    <3>2. handler'.log \in Logs
      BY <2>1, <3>1 DEF IInv, TypeOK, HandlerRight, Logs
    <3>. QED BY <2>1, <3>1, <3>2 DEF CatInHand
  <2>. QED BY <1>3, <2>2, <2>3 DEF OnMessageFetches, OnError
<1>4. CASE OnMessageBeginsSend
  <2>1. handler.pc = "begin" /\ param' = param
    BY <1>4 DEF OnMessageBeginsSend
  <2>2. CASE EntersSend("handler") /\ handler' = [handler EXCEPT !.pc = "send"]
    <3>1. handler'.pc = "send" /\ handler'.msg = handler.msg /\ handler'.log = handler.log
      BY <1>0, <2>2
    <3>. QED BY <2>1, <3>1 DEF CatInHand
  <2>3. CASE handler' = Idle /\ sending' = sending
    <3>1. handler'.pc = "idle"
      BY <2>3 DEF Idle
    <3>. QED BY <2>3, <3>1 DEF CatInHand
  <2>. QED BY <1>4, <2>2, <2>3 DEF OnMessageBeginsSend, OnError
<1>5. CASE OnMessageSends
  <2>1. handler' = Idle /\ handler'.pc = "idle"
    BY <1>5 DEF OnMessageSends, OnError, Idle
  <2>. QED BY <2>1 DEF CatInHand
<1>. QED BY <1>1, <1>2, <1>3, <1>4, <1>5 DEF OnMessage

LEMMA CatStays == Spec => []CatInHand
<1>1. ASSUME IInv, CatInHand, [Next]_vars
      PROVE  CatInHand'
  BY <1>1, OthersKeepCat, OnMessageKeepsCat
<1>. QED BY <1>1, InitCat, InductiveInvariant, PTL DEF Spec

(* The safety half of CatIsAnswered: onMessage lets go of a cat only when  *)
(* the last log that the console was sent is of its parameter, or when the *)
(* session is given up - whatever the push thread does on the same socket. *)
THEOREM NoCatUnanswered == Spec => [][CatGetsAnswer]_vars
<1>1. ASSUME IInv, CatInHand, [Next]_vars
      PROVE  [CatGetsAnswer]_vars
  <2> SUFFICES ASSUME handler.msg # Nothing, handler.msg.status, handler' = Idle, vars' # vars
               PROVE  ~session' \/ (shown' \in Logs /\ shown'[1] = handler.msg.param)
    BY DEF CatGetsAnswer
  <2>1. handler.pc # "idle" /\ handler # Idle
    BY <1>1 DEF CatInHand, Idle
  <2>2. OnMessageStatus \/ OnMessageFetches \/ OnMessageBeginsSend \/ OnMessageSends
    <3>1. CASE handler' = handler
      BY <2>1, <3>1
    <3>2. CASE OnMessageParam
      BY <2>1, <3>2 DEF OnMessageParam
    <3>3. PushThread => handler' = handler
      BY DEF PushThread, PushLoops, PushReadsStatus, PushReadsSession, PushFetches, PushCompares, PushSends
    <3>4. OnMessage \/ handler' = handler
      BY <1>1, <3>3 DEF Next, BtnCat, BtnStop, UserSends, LogChanges, SocketCloses, OnClose, vars
    <3>. QED BY <3>1, <3>2, <3>4 DEF OnMessage
  <2>3. CASE OnMessageStatus
    <3>1. handler'.pc = "fetch"
      BY <1>1, <2>3 DEF OnMessageStatus, IInv, Shape
    <3>. QED BY <3>1 DEF Idle
  <2>4. CASE OnMessageFetches
    <3>1. handler' # [handler EXCEPT !.pc = "begin", !.log = <<param, version>>]
      <4>1. [handler EXCEPT !.pc = "begin", !.log = <<param, version>>].pc = "begin"
        BY <1>1 DEF IInv, Shape
      <4>. QED BY <4>1 DEF Idle
    <3>. QED BY <2>4, <3>1 DEF OnMessageFetches, OnError
  <2>5. CASE OnMessageBeginsSend
    <3>1. handler' # [handler EXCEPT !.pc = "send"]
      <4>1. [handler EXCEPT !.pc = "send"].pc = "send"
        BY <1>1 DEF IInv, Shape
      <4>. QED BY <4>1 DEF Idle
    <3>. QED BY <2>5, <3>1 DEF OnMessageBeginsSend, OnError
  <2>6. CASE OnMessageSends
    BY <1>1, <2>6 DEF OnMessageSends, LeavesSend, OnError, CatInHand
  <2>. QED BY <2>2, <2>3, <2>4, <2>5, <2>6
<1>. QED BY <1>1, InductiveInvariant, CatStays, PTL DEF Spec

-----------------------------------------------------------------------------
(***************************************************************************)
(* The digest and what the console shows.                                  *)
(***************************************************************************)
(* The push thread has sent the log of the digest, and lives. *)
Pushed == open /\ push.pc \notin {"send", "ended"} /\ lastMd5Hex # Nothing

ConsoleNotBehind ==
  Pushed =>
    /\ shown # Nothing
    /\ shown[1] = lastMd5Hex[1] => shown[2] >= lastMd5Hex[2] \/ overtaken

(* A log on its way is none that the nodes do not have yet; the log that   *)
(* is being pushed is the digest; and an answer older than the digest is   *)
(* older than what is shown, while onMessage has it in hand.               *)
InHand(log) == log # Nothing => log[2] <= version

DigestRight ==
  /\ InHand(push.log) /\ InHand(lastMd5Hex)
  /\ push.pc = "send" => push.log = lastMd5Hex
  /\ push.pc \in {"compare", "send"} => push.log # Nothing
  /\ Pushed /\ handler.pc \in {"begin", "send"} /\ Newer(lastMd5Hex, handler.log)
       => Newer(shown, handler.log)

LEMMA LogFacts ==
  ASSUME NEW log \in Logs
  PROVE  log # Nothing /\ log[1] \in Params /\ log[2] \in Nat
BY DEF Logs

LEMMA InitDigest == Init => DigestRight /\ ConsoleNotBehind
BY DEF Init, DigestRight, ConsoleNotBehind, Pushed, InHand

(* Neither a change of the logs nor what else the world does. *)
LEMMA WorldKeepsDigest ==
  ASSUME IInv, DigestRight, ConsoleNotBehind,
         UNCHANGED <<push, handler, lastMd5Hex, console>>,
         open' => open, version' \in Nat /\ version <= version'
  PROVE  DigestRight' /\ ConsoleNotBehind'
<1>1. \A log \in Logs \cup {Nothing} : InHand(log) => InHand(log)'
  BY LogFacts DEF InHand, IInv, TypeOK
<1>2. push.log \in Logs \cup {Nothing} /\ lastMd5Hex \in Logs \cup {Nothing}
  BY DEF IInv, TypeOK
<1>. QED BY <1>1, <1>2 DEF DigestRight, ConsoleNotBehind, Pushed, InHand, Newer, console

LEMMA PushKeepsDigest ==
  ASSUME IInv, DigestRight, ConsoleNotBehind, PushThread
  PROVE  DigestRight' /\ ConsoleNotBehind'
<1>0. /\ push \in [pc : PushStages, log : Logs \cup {Nothing}]
      /\ lastMd5Hex \in Logs \cup {Nothing} /\ version \in Nat
      /\ UNCHANGED <<open, handler, version>>
  BY DEF IInv, Shape, TypeOK, PushThread, PushLoops, PushReadsStatus, PushReadsSession, PushFetches,
         PushCompares, PushSends, fields, world
<1>1. CASE PushLoops \/ PushReadsStatus \/ PushReadsSession
  <2>1. /\ push'.pc \in {"loop", "status", "session", "fetch", "ended"} /\ push'.log = push.log
        /\ push.pc \in {"loop", "status", "session"} /\ UNCHANGED <<lastMd5Hex, shown, overtaken>>
    BY <1>0, <1>1 DEF PushLoops, PushReadsStatus, PushReadsSession, PushGoes, fields, console
  <2>. QED BY <1>0, <2>1 DEF DigestRight, ConsoleNotBehind, Pushed, InHand, Newer
<1>2. CASE PushFetches
  <2>1. /\ push.pc = "fetch" /\ UNCHANGED <<lastMd5Hex, shown, overtaken>>
        /\ \/ param # NoIp /\ push' = [pc |-> "compare", log |-> <<param, version>>]
           \/ push' = [pc |-> "ended", log |-> Nothing]
    BY <1>2 DEF PushFetches, fields, console
  <2>2. push'.pc = "compare" => push'.log # Nothing /\ InHand(push'.log)
    <3>1. CASE param # NoIp /\ push' = [pc |-> "compare", log |-> <<param, version>>]
      <4>1. <<param, version>> \in Logs
        BY <2>1, <3>1 DEF IInv, TypeOK, StatusNeedsParam, Logs
      <4>. QED BY <1>0, <3>1, <4>1, LogFacts DEF InHand
    <3>. QED BY <2>1, <3>1
  <2>. QED BY <1>0, <2>1, <2>2 DEF DigestRight, ConsoleNotBehind, Pushed, InHand, Newer
<1>3. CASE PushCompares
  <2>1. /\ push.pc = "compare" /\ lastMd5Hex' = push.log /\ UNCHANGED <<shown, overtaken>>
        /\ \/ push.log = lastMd5Hex /\ push' = [pc |-> "loop", log |-> Nothing]
           \/ push'.pc = "send" /\ push'.log = push.log
           \/ push' = [pc |-> "ended", log |-> Nothing]
    BY <1>0, <1>3 DEF PushCompares, PushGoes, console
  <2>. QED BY <1>0, <2>1 DEF DigestRight, ConsoleNotBehind, Pushed, InHand, Newer
<1>4. CASE PushSends
  <2>1. /\ push.pc = "send" /\ push' = [pc |-> "loop", log |-> Nothing] /\ UNCHANGED lastMd5Hex
        /\ open => shown' = push.log
    BY <1>4 DEF PushSends, LeavesSend, fields
  <2>2. push.log = lastMd5Hex /\ push.log \in Logs
    BY <1>0, <2>1 DEF DigestRight
  <2>3. shown'[2] >= lastMd5Hex[2] \/ ~open
    BY <2>1, <2>2, LogFacts
  <2>. QED BY <1>0, <2>1, <2>2, <2>3 DEF DigestRight, ConsoleNotBehind, Pushed, InHand, Newer
<1>. QED BY <1>1, <1>2, <1>3, <1>4 DEF PushThread

LEMMA OnMessageKeepsDigest ==
  ASSUME IInv, CatInHand, DigestRight, ConsoleNotBehind, OnMessage
  PROVE  DigestRight' /\ ConsoleNotBehind'
<1>0. /\ handler \in [pc : HandlerStages, msg : Messages \cup {Nothing}, log : Logs \cup {Nothing}]
      /\ lastMd5Hex \in Logs \cup {Nothing} /\ shown \in Logs \cup {Nothing} /\ version \in Nat
      /\ UNCHANGED <<open, push, lastMd5Hex, version>>
  BY DEF IInv, Shape, TypeOK, OnMessage, OnMessageParam, OnMessageStatus, OnMessageFetches,
         OnMessageBeginsSend, OnMessageSends, world
<1>1. CASE OnMessageParam \/ OnMessageStatus
  <2>1. UNCHANGED <<shown, overtaken>>
    BY <1>1 DEF OnMessageParam, OnMessageStatus, console
  <2>2. CASE OnMessageParam
    <3>1. handler'.pc = "status"
      BY <1>0, <2>2 DEF OnMessageParam
    <3>. QED BY <1>0, <2>1, <3>1 DEF DigestRight, ConsoleNotBehind, Pushed, InHand
  <2>3. CASE OnMessageStatus
    <3>1. handler'.pc = "fetch" \/ handler' = Idle
      BY <1>0, <2>3 DEF OnMessageStatus
    <3>2. handler'.pc \notin {"begin", "send"}
      BY <3>1 DEF Idle
    <3>. QED BY <1>0, <2>1, <3>2 DEF DigestRight, ConsoleNotBehind, Pushed, InHand
  <2>. QED BY <1>1, <2>2, <2>3
<1>2. CASE OnMessageFetches
  <2>1. UNCHANGED <<shown, overtaken>>
    BY <1>2 DEF OnMessageFetches, console
  <2>2. handler'.pc = "idle" \/ (handler'.pc = "begin" /\ handler'.log = <<param, version>>)
    <3>1. CASE handler' = Idle
      BY <3>1 DEF Idle
    <3>2. CASE handler' = [handler EXCEPT !.pc = "begin", !.log = <<param, version>>]
      BY <1>0, <3>2
    <3>. QED BY <1>2, <3>1, <3>2 DEF OnMessageFetches, OnError
  <2>3. handler'.pc = "begin" => ~Newer(lastMd5Hex, handler'.log)
    <3>1. lastMd5Hex # Nothing => lastMd5Hex[2] <= version /\ lastMd5Hex[2] \in Nat
      BY <1>0, LogFacts DEF DigestRight, InHand
    <3>. QED BY <1>0, <2>2, <3>1 DEF Newer
  <2>. QED BY <1>0, <2>1, <2>2, <2>3 DEF DigestRight, ConsoleNotBehind, Pushed, InHand, Newer
<1>3. CASE OnMessageBeginsSend
  <2>1. /\ UNCHANGED <<shown, overtaken>> /\ handler.pc = "begin"
        /\ handler'.pc = "idle" \/ (handler'.pc = "send" /\ handler'.log = handler.log)
    BY <1>0, <1>3 DEF OnMessageBeginsSend, OnError, Idle, console
  <2>. QED BY <1>0, <2>1 DEF DigestRight, ConsoleNotBehind, Pushed, InHand, Newer
<1>4. CASE OnMessageSends
  <2>1. /\ handler.pc = "send" /\ handler' = Idle
        /\ open => shown' = handler.log /\ (overtaken' <=> Newer(shown, handler.log))
    BY <1>4 DEF OnMessageSends, LeavesSend, OnError
  <2>2. handler'.pc = "idle" /\ handler.log \in Logs
    BY <2>1 DEF Idle, CatInHand
  <2>3. DigestRight'
    BY <1>0, <2>1, <2>2 DEF DigestRight, InHand
  <2>4. ConsoleNotBehind'
    <3>1. SUFFICES ASSUME Pushed, handler.log[1] = lastMd5Hex[1]
                   PROVE  handler.log[2] >= lastMd5Hex[2] \/ Newer(shown, handler.log)
      BY <1>0, <2>1, <2>2, LogFacts DEF ConsoleNotBehind, Pushed
    <3>2. lastMd5Hex \in Logs
      BY <1>0, <3>1 DEF Pushed
    <3>3. handler.log[2] >= lastMd5Hex[2] \/ Newer(lastMd5Hex, handler.log)
      BY <2>2, <3>1, <3>2, LogFacts DEF Newer
    <3>. QED BY <2>1, <3>1, <3>3 DEF DigestRight
  <2>. QED BY <2>3, <2>4
<1>. QED BY <1>1, <1>2, <1>3, <1>4 DEF OnMessage

(* The safety half of PushCatchesUp: whatever both threads send, the       *)
(* console never shows a log older than the digest that stops its being    *)
(* pushed again - unless onMessage has put an answer, fetched earlier,     *)
(* over a newer log of the push thread.                                    *)
THEOREM ConsoleNeverBehind == Spec => []ConsoleNotBehind
<1>1. ASSUME IInv, CatInHand, DigestRight, ConsoleNotBehind, [Next]_vars
      PROVE  DigestRight' /\ ConsoleNotBehind'
  <2>1. CASE PushThread \/ OnMessage
    BY <1>1, <2>1, PushKeepsDigest, OnMessageKeepsDigest
  <2>2. CASE ~(PushThread \/ OnMessage)
    <3>1. /\ UNCHANGED <<push, handler, lastMd5Hex, console>>
          /\ UNCHANGED open \/ open' = FALSE
          /\ version' = version \/ version' = version + 1
      BY <1>1, <2>2
      DEF Next, BtnCat, BtnStop, UserSends, LogChanges, SocketCloses, OnClose, fields, world, vars
    <3>2. version \in Nat
      BY <1>1 DEF IInv, TypeOK
    <3>. QED BY <1>1, <3>1, <3>2, WorldKeepsDigest
  <2>. QED BY <2>1, <2>2
<1>. QED BY <1>1, InitDigest, InductiveInvariant, CatStays, PTL DEF Spec
=============================================================================
