---------------------------- MODULE WebsocketPush ----------------------------
(***************************************************************************)
(* One browser console of the log center: the WebsocketServer endpoint of  *)
(* one websocket session.  Two threads share its fields without a lock:    *)
(* the push thread that onOpen starts, which fetches the log again and     *)
(* again and sends it when its digest has changed, and the container's     *)
(* thread, which runs onMessage, onError and onClose and, on a "cat",      *)
(* fetches and sends the log itself.                                       *)
(***************************************************************************)
EXTENDS Naturals, Sequences

CONSTANTS
  Params,       \* what a console may ask for: nodes, server, day, file ...
  NoIp,         \* the parameter of the stop button, which names no node
  Nothing,      \* no parameter, no log
  MaxMessages,  \* bound: messages the user sends
  MaxChanges    \* bound: changes of the logs, or of which nodes are online

ASSUME ParamsAssumption ==
  /\ NoIp \notin Params
  /\ Nothing \notin Params \cup {NoIp} \cup Params \X (0..MaxChanges)
ASSUME BoundsAssumption == MaxMessages \in Nat /\ MaxChanges \in Nat

VARIABLES
  open,        \* the socket is open: sends are accepted, messages handled
  param, status, session, lastMd5Hex,   \* the fields; a digest is its log
  push,        \* [pc, log]: the push thread, and the log it has fetched
  handler,     \* [pc, msg, log]: onMessage
  sending,     \* threads that are inside sendText
  inbox,       \* messages on their way to onMessage
  written,     \* number of messages the user has sent
  version,     \* of what getLog finds at the nodes
  shown,       \* the last log sent to the console
  overtaken    \* history: the last log sent is an answer of onMessage, and it
               \* replaced a newer log on the console

fields == <<param, status, session, lastMd5Hex>>
world == <<inbox, written, version>>
console == <<shown, overtaken>>
vars == <<open, fields, push, handler, sending, world, console>>

Logs == Params \X (0..MaxChanges)
Messages == [param : Params \cup {NoIp}, status : BOOLEAN]

Idle == [pc |-> "idle", msg |-> Nothing, log |-> Nothing]

-----------------------------------------------------------------------------

InitWatching ==
  /\ open = TRUE
  /\ param = Nothing /\ status = TRUE /\ session = TRUE
  /\ lastMd5Hex = Nothing
  /\ push = [pc |-> "loop", log |-> Nothing]
  /\ handler = Idle
  /\ sending = {}
  /\ inbox = <<>> /\ written = 0 /\ version = 0
  /\ shown = Nothing /\ overtaken = FALSE

(* onOpen has greeted the console and started the push thread. *)
Init ==
  /\ open = TRUE
  /\ param = Nothing /\ status = FALSE /\ session = TRUE
  /\ lastMd5Hex = Nothing
  /\ push = [pc |-> "loop", log |-> Nothing]
  /\ handler = Idle
  /\ sending = {}
  /\ inbox = <<>> /\ written = 0 /\ version = 0
  /\ shown = Nothing /\ overtaken = FALSE

(***************************************************************************)
(* The world: the buttons cat and stop of index.html, the logs, and a      *)
(* connection that ends.                                                   *)
(***************************************************************************)
UserSends(m) ==
  /\ open
  /\ written < MaxMessages
  /\ written' = written + 1
  /\ inbox' = Append(inbox, m)
  /\ UNCHANGED <<open, fields, push, handler, sending, version, console>>

BtnCat(p) == UserSends([param |-> p, status |-> TRUE])
BtnStop == UserSends([param |-> NoIp, status |-> FALSE])

LogChanges ==
  /\ version < MaxChanges
  /\ version' = version + 1
  /\ UNCHANGED <<open, fields, push, handler, sending, inbox, written, console>>

(* The socket is closed: from now on sendText fails. *)
SocketCloses ==
  /\ open
  /\ open' = FALSE
  /\ UNCHANGED <<fields, push, handler, sending, world, console>>

(* The container calls onClose, when onMessage is not running. *)
OnClose ==
  /\ ~open
  /\ session
  /\ handler = Idle
  /\ session' = FALSE
  /\ UNCHANGED <<open, param, status, lastMd5Hex, push, handler, sending, world, console>>

(***************************************************************************)
(* session.getBasicRemote().sendText(log), by both threads: it is refused  *)
(* with an IllegalStateException when the session is closed or the other   *)
(* thread is inside sendText (the container allows one message at a time). *)
(***************************************************************************)
MaySend == open /\ sending = {}
EntersSend(w) == MaySend /\ sending' = sending \cup {w}

(* Of two logs of the same parameter. *)
Newer(a, b) == a # Nothing /\ a[1] = b[1] /\ a[2] > b[2]

LeavesSend(w, log) ==
  /\ sending' = sending \ {w}
  /\ shown' = IF open THEN log ELSE shown
  /\ overtaken' = IF open THEN w = "handler" /\ Newer(shown, log) ELSE overtaken

(***************************************************************************)
(* The push thread.                                                        *)
(***************************************************************************)
PushGoes(pc) == push' = [push EXCEPT !.pc = pc]

(* while (this.session != null) { sleep; ... *)
LoopWhileStatus ==
  /\ push.pc = "loop"
  /\ IF status THEN PushGoes("status") ELSE PushGoes("ended")
  /\ UNCHANGED <<open, fields, handler, sending, world, console>>

PushLoops ==
  /\ push.pc = "loop"
  /\ IF session THEN PushGoes("status") ELSE PushGoes("ended")
  /\ UNCHANGED <<open, fields, handler, sending, world, console>>

PushWhateverStatus ==
  /\ push.pc = "status"
  /\ PushGoes("session")
  /\ UNCHANGED <<open, fields, handler, sending, world, console>>

(* if (status) *)
PushReadsStatus ==
  /\ push.pc = "status"
  /\ IF status THEN PushGoes("session") ELSE PushGoes("loop")
  /\ UNCHANGED <<open, fields, handler, sending, world, console>>

(* if (this.session != null) *)
PushReadsSession ==
  /\ push.pc = "session"
  /\ IF session THEN PushGoes("fetch") ELSE PushGoes("loop")
  /\ UNCHANGED <<open, fields, handler, sending, world, console>>

FetchForNoNode ==
  /\ push.pc = "fetch"
  /\ \/ push' = [pc |-> "compare", log |-> <<param, version>>]
     \/ push' = [pc |-> "ended", log |-> Nothing]
  /\ UNCHANGED <<open, fields, handler, sending, world, console>>

(* clientService.getLog(param): a stop that came after the status was read *)
(* leaves no nodes to ask, and the NullPointerException ends the thread,   *)
(* as does any other exception of getLog.                                  *)
PushFetches ==
  /\ push.pc = "fetch"
  /\ \/ param # NoIp /\ push' = [pc |-> "compare", log |-> <<param, version>>]
     \/ push' = [pc |-> "ended", log |-> Nothing]
  /\ UNCHANGED <<open, fields, handler, sending, world, console>>

PushSwallowsRefusal ==
  /\ push.pc = "compare"
  /\ lastMd5Hex' = push.log
  /\ IF push.log # lastMd5Hex /\ MaySend
     THEN PushGoes("send") /\ EntersSend("push")
     ELSE push' = [pc |-> "loop", log |-> Nothing] /\ UNCHANGED sending
  /\ UNCHANGED <<open, param, status, session, handler, world, console>>

(* The digest is remembered before the log is sent. *)
PushCompares ==
  /\ push.pc = "compare"
  /\ lastMd5Hex' = push.log
  /\ IF push.log = lastMd5Hex
     THEN push' = [pc |-> "loop", log |-> Nothing] /\ UNCHANGED sending
     ELSE IF MaySend THEN PushGoes("send") /\ EntersSend("push")
                     ELSE push' = [pc |-> "ended", log |-> Nothing] /\ UNCHANGED sending
  /\ UNCHANGED <<open, param, status, session, handler, world, console>>

(* The log is sent, or an IOException is logged: the loop goes on. *)
PushSends ==
  /\ push.pc = "send"
  /\ LeavesSend("push", push.log)
  /\ push' = [pc |-> "loop", log |-> Nothing]
  /\ UNCHANGED <<open, fields, handler, world>>

(***************************************************************************)
(* onMessage.  An exception that leaves it becomes a call of onError.      *)
(***************************************************************************)
OnError ==
  /\ session' = FALSE
  /\ handler' = Idle

OnMessageParam ==
  /\ handler = Idle
  /\ open
  /\ inbox # <<>>
  /\ param' = Head(inbox).param
  /\ inbox' = Tail(inbox)
  /\ handler' = [handler EXCEPT !.pc = "status", !.msg = Head(inbox)]
  /\ UNCHANGED <<open, status, session, lastMd5Hex, push, sending, written, version, console>>

AnswerFirstCat ==
  /\ handler.pc = "status"
  /\ status' = handler.msg.status
  /\ handler' = IF handler.msg.status /\ ~status THEN [handler EXCEPT !.pc = "fetch"] ELSE Idle
  /\ UNCHANGED <<open, param, session, lastMd5Hex, push, sending, world, console>>

OnMessageStatus ==
  /\ handler.pc = "status"
  /\ status' = handler.msg.status
  /\ handler' = IF handler.msg.status THEN [handler EXCEPT !.pc = "fetch"] ELSE Idle
  /\ UNCHANGED <<open, param, session, lastMd5Hex, push, sending, world, console>>

OnMessageFetches ==
  /\ handler.pc = "fetch"
  /\ \/ /\ handler' = [handler EXCEPT !.pc = "begin", !.log = <<param, version>>]
        /\ UNCHANGED session
     \/ OnError
  /\ UNCHANGED <<open, param, status, lastMd5Hex, push, sending, world, console>>

OnMessageBeginsSend ==
  /\ handler.pc = "begin"
  /\ \/ /\ EntersSend("handler")
        /\ handler' = [handler EXCEPT !.pc = "send"]
        /\ UNCHANGED session
     \/ ~MaySend /\ OnError /\ UNCHANGED sending
  /\ UNCHANGED <<open, param, status, lastMd5Hex, push, world, console>>

(* lastMd5Hex is left alone. *)
OnMessageSends ==
  /\ handler.pc = "send"
  /\ LeavesSend("handler", handler.log)
  /\ IF open THEN handler' = Idle /\ UNCHANGED session ELSE OnError
  /\ UNCHANGED <<open, param, status, lastMd5Hex, push, world>>

-----------------------------------------------------------------------------

PushThread ==
  PushLoops \/ PushReadsStatus \/ PushReadsSession \/ PushFetches \/ PushCompares \/ PushSends

OnMessage ==
  OnMessageParam \/ OnMessageStatus \/ OnMessageFetches \/ OnMessageBeginsSend \/ OnMessageSends

Next ==
  \/ \E p \in Params : BtnCat(p)
  \/ BtnStop \/ LogChanges \/ SocketCloses \/ OnClose
  \/ PushThread
  \/ OnMessage

Spec == Init /\ [][Next]_vars

(* The two threads go on: sleep and getLog come back, the latter because   *)
(* its invokeSync waits 30 seconds at most.  The container calls onClose.  *)
Fairness == WF_vars(PushThread) /\ WF_vars(OnMessage) /\ WF_vars(OnClose)
FairSpec == Spec /\ Fairness

-----------------------------------------------------------------------------

(* The types of the variables. *)
TypeOK ==
  /\ open \in BOOLEAN /\ session \in BOOLEAN /\ status \in BOOLEAN
  /\ param \in Params \cup {NoIp, Nothing}
  /\ lastMd5Hex \in Logs \cup {Nothing}
  /\ push.pc \in {"loop", "status", "session", "fetch", "compare", "send", "ended"}
  /\ push.log \in Logs \cup {Nothing}
  /\ handler.pc \in {"idle", "status", "fetch", "begin", "send"}
  /\ handler.msg \in Messages \cup {Nothing} /\ handler.log \in Logs \cup {Nothing}
  /\ sending \subseteq {"push", "handler"}
  /\ inbox \in Seq(Messages) /\ written \in 0..MaxMessages
  /\ version \in 0..MaxChanges
  /\ shown \in Logs \cup {Nothing} /\ overtaken \in BOOLEAN

(* The push thread never asks for the log of no parameter at all: status   *)
(* is only true once onMessage stored one, whichever order the push thread *)
(* reads the two fields in.                                                *)
FetchesSomething == push.pc = "fetch" => param # Nothing

(* The push thread of a session that is closed ends. *)
PushThreadEnds == ~open ~> push.pc = "ended"

(* Every "cat" is answered by onMessage itself before the next message is  *)
(* handled, or the endpoint gives the session up, though the push thread   *)
(* sends on the same socket and may end at any time.                       *)
CatIsAnswered ==
  \A p \in Params :
    (handler.pc = "status" /\ handler.msg = [param |-> p, status |-> TRUE])
      ~> (~session \/ (handler = Idle /\ shown # Nothing /\ shown[1] = p))

(* After a stop the push thread falls silent, however late it read it. *)
StopSilences ==
  <>[](~status) => <>[](push.pc \notin {"fetch", "compare", "send"})

(* While the push thread lives and the console watches p, the console and  *)
(* the digest that pushes are held against catch up with the log at the    *)
(* nodes, though the digest is remembered before the log is sent and both  *)
(* threads send.  There is one way for the console to be left with an      *)
(* older log of p: onMessage sends what it fetched earlier behind a newer  *)
(* log of the push thread, which does not send that one again.             *)
PushCatchesUp ==
  \A p \in Params :
    <>[](status /\ param = p /\ session /\ push.pc # "ended")
      => <>[](lastMd5Hex = <<p, version>> /\ (shown = <<p, version>> \/ overtaken))

(* "The center checks whether the log it pushes is the same as the one it  *)
(* pushed last time, and does not push it again" (README.md): the push     *)
(* thread never sends the log that the console was sent last.              *)
NoRepeatedPush == [][PushSends /\ open => push.log # shown]_vars
=============================================================================
