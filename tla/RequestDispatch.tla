--------------------------- MODULE RequestDispatch ---------------------------
(***************************************************************************)
(* The answering side of the remoting: processRequestCommand gives the     *)
(* requests of all connections to the thread pool of their processor, and  *)
(* the replies return to the handler thread of their connection, which     *)
(* writes them.  The reply of GET_LOG is written in many packages, the     *)
(* others at once.                                                         *)
(***************************************************************************)
EXTENDS Integers, Sequences, FiniteSets, SequencesExt

CONSTANTS
  Requests,     \* the requests that may come, each once
  Channels,     \* the connections
  ChannelOf,    \* the connection a request comes on
  PoolSize,     \* newFixedThreadPool(4)
  MaxPackages,  \* bound: the packages of a file reply
  Nothing       \* the handler thread is not writing a file

ASSUME DispatchAssumption ==
  /\ ChannelOf \in [Requests -> Channels]
  /\ PoolSize \in Nat \ {0}
  /\ MaxPackages \in Nat
  /\ Nothing \notin Requests

VARIABLES
  status,   \* what became of each request
  wants,    \* the requests that are to be answered (isOnewayRPC: rpcOneway is 1)
  size,     \* the packages of a reply behind its header, 0 unless it is a file
  queue,    \* the pool's work queue
  tasks,    \* writes queued for the handler thread of each connection
  writing,  \* the request whose file the handler thread is writing
  left,     \* the packages of it that are left
  wire,     \* what was written to each connection
  open,     \* connections that are open
  broken    \* history: requests whose file reply was broken off

requestVars == <<status, wants, size>>
wireVars == <<writing, left, wire, open, broken>>
vars == <<requestVars, queue, tasks, wireVars>>

(* "null": the processor returned null; "done": whatever else became of it. *)
Statuses == {"none", "queued", "running", "null", "done"}

(* Part 0 of a reply is its header, or all of it. *)
Part(r, i) == [request |-> r, part |-> i]
Parts == [request : Requests, part : 0..MaxPackages]

Waiting == {r \in Requests : status[r] = "queued"}
Running == {r \in Requests : status[r] = "running"}

Init ==
  /\ status = [r \in Requests |-> "none"]
  /\ wants = {}
  /\ size = [r \in Requests |-> 0]
  /\ queue = <<>>
  /\ tasks = [c \in Channels |-> <<>>]
  /\ writing = [c \in Channels |-> Nothing]
  /\ left = [c \in Channels |-> 0]
  /\ wire = [c \in Channels |-> <<>>]
  /\ open = Channels
  /\ broken = {}

(***************************************************************************)
(* Writing: what is written to a closed connection is lost.                *)
(***************************************************************************)
Put(c, p) == wire' = IF c \in open THEN [wire EXCEPT ![c] = Append(@, p)] ELSE wire

Goes(r, s) == status' = [status EXCEPT ![r] = s]

(* ctx.writeAndFlush by a worker: a task of the handler thread. *)
Reply(r) ==
  /\ tasks' = [tasks EXCEPT ![ChannelOf[r]] = Append(@, r)]
  /\ Goes(r, "done")

ReplyIfWanted(r) ==
  IF r \in wants THEN Reply(r) ELSE Goes(r, "done") /\ UNCHANGED tasks

(***************************************************************************)
(* The handler thread of a connection reads a request.                     *)
(***************************************************************************)
ReadRequest(r, w) ==
  /\ status[r] = "none"
  /\ ChannelOf[r] \in open
  /\ writing[ChannelOf[r]] = Nothing
  /\ wants' = IF w THEN wants \cup {r} ELSE wants
  /\ UNCHANGED <<size, tasks, writing, left, open, broken>>

(* No processor is registered, or its rejectRequest() is true: answered at *)
(* once by this thread, also to a peer that wants no answer.               *)
Decline(r, w) ==
  /\ ReadRequest(r, w)
  /\ Put(ChannelOf[r], Part(r, 0))
  /\ Goes(r, "done")
  /\ UNCHANGED queue

Submit(r, w) ==
  /\ ReadRequest(r, w)
  /\ queue' = Append(queue, r)
  /\ Goes(r, "queued")
  /\ UNCHANGED wire

(* RejectedExecutionException. *)
Overload(r, w) ==
  /\ ReadRequest(r, w)
  /\ IF w THEN Put(ChannelOf[r], Part(r, 0)) ELSE UNCHANGED wire
  /\ Goes(r, "done")
  /\ UNCHANGED queue

(***************************************************************************)
(* The worker threads.                                                     *)
(***************************************************************************)
Take ==
  /\ queue # <<>>
  /\ Cardinality(Running) < PoolSize
  /\ Goes(Head(queue), "running")
  /\ queue' = Tail(queue)
  /\ UNCHANGED <<wants, size, tasks, wireVars>>

(* The processor returns a response, of n packages behind its header if it *)
(* is a file, and the callback answers.                                    *)
Respond(r, n) ==
  /\ status[r] = "running"
  /\ size' = [size EXCEPT ![r] = IF r \in wants THEN n ELSE 0]
  /\ ReplyIfWanted(r)
  /\ UNCHANGED <<wants, queue, wireVars>>

RespondNull(r) ==
  /\ status[r] = "running"
  /\ Goes(r, "null")
  /\ UNCHANGED <<wants, size, queue, tasks, wireVars>>

ThrowSilently(r) ==
  /\ status[r] = "running"
  /\ Goes(r, "done")
  /\ UNCHANGED <<wants, size, queue, tasks, wireVars>>

(* A hook or the processor throws: the reply is a SYSTEM_ERROR. *)
Throw(r) ==
  /\ status[r] = "running"
  /\ ReplyIfWanted(r)
  /\ UNCHANGED <<wants, size, queue, wireVars>>

(***************************************************************************)
(* The handler thread of a connection writes.                              *)
(***************************************************************************)
WriteNext(c) ==
  /\ tasks[c] # <<>>
  /\ LET r == Head(tasks[c]) IN
       /\ Put(c, Part(r, 0))
       /\ writing' = [writing EXCEPT ![c] = IF size[r] = 0 THEN Nothing ELSE r]
       /\ left' = [left EXCEPT ![c] = size[r]]
  /\ tasks' = [tasks EXCEPT ![c] = Tail(@)]
  /\ UNCHANGED <<requestVars, queue, open, broken>>

WriteAnytime(c) == WriteNext(c)

(* A reply, or the header of a file. *)
Write(c) == writing[c] = Nothing /\ WriteNext(c)

(* NettyEncoder catches an exception of encode() and closes the channel;   *)
(* the reply that a file follows fails only by breaking off (BreakOff).    *)
EncodeFails(c) ==
  /\ writing[c] = Nothing
  /\ tasks[c] # <<>>
  /\ size[Head(tasks[c])] = 0
  /\ tasks' = [tasks EXCEPT ![c] = Tail(@)]
  /\ open' = open \ {c}
  /\ UNCHANGED <<requestVars, queue, writing, left, wire, broken>>

WriteBehindEnd(c) ==
  /\ writing[c] # Nothing
  /\ Put(c, Part(writing[c], size[writing[c]] - left[c] + 1))
  /\ left' = [left EXCEPT ![c] = @ - 1]
  /\ writing' = [writing EXCEPT ![c] = IF left[c] = 0 THEN Nothing ELSE @]
  /\ UNCHANGED <<requestVars, queue, tasks, open, broken>>

(* The next package, in the same task of the handler thread.  *)
WritePackage(c) ==
  /\ writing[c] # Nothing
  /\ Put(c, Part(writing[c], size[writing[c]] - left[c] + 1))
  /\ left' = [left EXCEPT ![c] = @ - 1]
  /\ writing' = [writing EXCEPT ![c] = IF left[c] = 1 THEN Nothing ELSE @]
  /\ UNCHANGED <<requestVars, queue, tasks, open, broken>>

(* read() throws an IOException, or memory is short: the loop is left, the *)
(* connection stays open.                                                  *)
BreakOff(c) ==
  /\ writing[c] # Nothing
  /\ writing' = [writing EXCEPT ![c] = Nothing]
  /\ left' = [left EXCEPT ![c] = 0]
  /\ broken' = broken \cup {writing[c]}
  /\ UNCHANGED <<requestVars, queue, tasks, wire, open>>

(* The connection ends, from either side. *)
ConnectionLost(c) ==
  /\ c \in open
  /\ open' = open \ {c}
  /\ UNCHANGED <<requestVars, queue, tasks, writing, left, wire, broken>>

-----------------------------------------------------------------------------

WorkerStep(r) ==
  \/ \E n \in 0..MaxPackages : Respond(r, n)
  \/ RespondNull(r)
  \/ Throw(r)

WriterStep(c) == Write(c) \/ WritePackage(c)

Next ==
  \/ \E r \in Requests :
       \/ \E w \in BOOLEAN : Decline(r, w) \/ Submit(r, w) \/ Overload(r, w)
       \/ WorkerStep(r)
  \/ Take
  \/ \E c \in Channels :
       WriterStep(c) \/ EncodeFails(c) \/ BreakOff(c) \/ ConnectionLost(c)

Spec == Init /\ [][Next]_vars

(* Processors return, the threads of the pool and of the handlers go on. *)
Fairness ==
  /\ WF_vars(Take)
  /\ \A r \in Requests : WF_vars(WorkerStep(r))
  /\ \A c \in Channels : WF_vars(WriterStep(c))

FairSpec == Spec /\ Fairness

(***************************************************************************)
(* Properties.                                                             *)
(***************************************************************************)
(* Types; a request is in the queue exactly while it waits, and no more    *)
(* run than the pool has threads.                                          *)
TypeOK ==
  /\ status \in [Requests -> Statuses]
  /\ wants \subseteq Requests
  /\ size \in [Requests -> 0..MaxPackages]
  /\ queue \in Seq(Requests)
  /\ IsInjective(queue) /\ ToSet(queue) = Waiting
  /\ Cardinality(Running) <= PoolSize
  /\ tasks \in [Channels -> Seq(Requests)]
  /\ writing \in [Channels -> Requests \cup {Nothing}]
  /\ left \in [Channels -> 0..MaxPackages]
  /\ \A c \in Channels : IF writing[c] = Nothing THEN left[c] = 0 ELSE left[c] \in 1..size[writing[c]]
  /\ wire \in [Channels -> Seq(Parts)]
  /\ open \subseteq Channels
  /\ broken \subseteq Requests

(* What was written to c are replies from their beginning, none of them    *)
(* twice and each in one piece up to its end - but for the last if it is   *)
(* being written or the connection has ended, and for files broken off.    *)
Whole(c) ==
  \A i \in 1..Len(wire[c]) :
    LET p == wire[c][i] IN
    /\ \A j \in 1..Len(wire[c]) : wire[c][j] = p => j = i
    /\ p.part > 0 => i > 1 /\ wire[c][i - 1] = Part(p.request, p.part - 1)
    /\ p.part < size[p.request] =>
         \/ i < Len(wire[c]) /\ wire[c][i + 1] = Part(p.request, p.part + 1)
         \/ i = Len(wire[c]) /\ (writing[c] = p.request \/ c \notin open)
         \/ p.request \in broken

(* However many workers answer the requests of one connection at the same  *)
(* time: no request gets two replies, and between the header of a file and *)
(* its last package nothing else is written.  Only a file that was broken  *)
(* off lacks its end; no package of it comes late, between the replies     *)
(* that follow it on the same connection, and these are whole again.       *)
FramesWhole == \A c \in Channels : Whole(c)

Answered(r) == \E i \in 1..Len(wire[ChannelOf[r]]) : wire[ChannelOf[r]][i] = Part(r, size[r])

(* A request that wants an answer gets one - from the processor, or an     *)
(* error when it throws or is refused - unless its connection ends, its    *)
(* file is broken off, or the processor returns null.  A file broken off   *)
(* costs no other request of the connection its answer.                    *)
EveryRequestAnswered ==
  \A r \in Requests :
    (status[r] # "none" /\ r \in wants) ~>
      \/ Answered(r)
      \/ status[r] = "null"
      \/ ChannelOf[r] \notin open
      \/ r \in broken
=============================================================================
