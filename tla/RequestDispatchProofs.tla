----------------------- MODULE RequestDispatchProofs -----------------------
(***************************************************************************)
(* Theorems about RequestDispatch, for any requests, connections, size of  *)
(* the pool and length of the files.                                       *)
(***************************************************************************)
EXTENDS RequestDispatch, FiniteSetTheorems, TLAPS

(* A reply is given its size when its processor returns; what the pool runs *)
(* are finitely many.                                                       *)
SizesLate ==
  /\ \A r \in Requests : status[r] \in {"none", "queued", "running"} => size[r] = 0
  /\ IsFiniteSet(Running)

(* The replies that wait for the handler thread have not been written. *)
TasksUnwritten(c) ==
  /\ IsInjective(tasks[c])
  /\ \A k \in 1..Len(tasks[c]) :
       /\ status[tasks[c][k]] = "done" /\ writing[c] # tasks[c][k]
       /\ \A i \in 1..Len(wire[c]) : wire[c][i].request # tasks[c][k]

(* What was written belongs to finished requests, and of the file that is  *)
(* being written it are the packages so far.                               *)
WrittenSoFar(c) ==
  \A i \in 1..Len(wire[c]) :
    /\ status[wire[c][i].request] = "done"
    /\ writing[c] = wire[c][i].request =>
         wire[c][i].part <= size[writing[c]] - left[c]

WritingLast(c) ==
  writing[c] # Nothing =>
    /\ status[writing[c]] = "done"
    /\ c \in open =>
         /\ wire[c] # <<>>
         /\ wire[c][Len(wire[c])] = Part(writing[c], size[writing[c]] - left[c])

WireInv == \A c \in Channels : TasksUnwritten(c) /\ WrittenSoFar(c) /\ WritingLast(c)

IInv == TypeOK /\ SizesLate /\ WireInv /\ FramesWhole

-----------------------------------------------------------------------------
(* The two queues of the program: a worker's, and those of the handlers.   *)
LEMMA Enqueued ==
  ASSUME NEW S, NEW q \in Seq(S), NEW x \in S, IsInjective(q), x \notin ToSet(q)
  PROVE  /\ Append(q, x) \in Seq(S)
         /\ IsInjective(Append(q, x))
         /\ ToSet(Append(q, x)) = ToSet(q) \cup {x}
BY DEF IsInjective, ToSet

LEMMA Dequeued ==
  ASSUME NEW S, NEW q \in Seq(S), q # <<>>, IsInjective(q)
  PROVE  /\ Head(q) \in S /\ Tail(q) \in Seq(S) /\ Head(q) \in ToSet(q)
         /\ IsInjective(Tail(q))
         /\ ToSet(Tail(q)) = ToSet(q) \ {Head(q)}
<1>1. Head(q) = q[1] /\ Len(q) \in Nat /\ Len(q) > 0
  OBVIOUS
<1>2. /\ Tail(q) \in Seq(S) /\ Len(Tail(q)) = Len(q) - 1
      /\ \A i \in 1..Len(Tail(q)) : Tail(q)[i] = q[i + 1]
  OBVIOUS
<1>3. IsInjective(Tail(q))
  BY <1>1, <1>2 DEF IsInjective
<1>4. ToSet(Tail(q)) = ToSet(q) \ {Head(q)}
  <2>1. ASSUME NEW y \in ToSet(Tail(q)) PROVE y \in ToSet(q) \ {Head(q)}
    <3>1. PICK i \in 1..Len(Tail(q)) : y = Tail(q)[i]
      BY <1>2 DEF ToSet
    <3>2. y = q[i + 1] /\ i + 1 \in 1..Len(q) /\ i + 1 # 1
      BY <1>1, <1>2, <3>1
    <3>3. QED
      BY <1>1, <3>2 DEF IsInjective, ToSet
  <2>2. ASSUME NEW y \in ToSet(q), y # Head(q) PROVE y \in ToSet(Tail(q))
    <3>1. PICK i \in 1..Len(q) : y = q[i]
      BY DEF ToSet
    <3>2. i - 1 \in 1..Len(Tail(q)) /\ Tail(q)[i - 1] = y
      BY <1>1, <1>2, <2>2, <3>1
    <3>3. DOMAIN Tail(q) = 1..Len(Tail(q))
      BY <1>2
    <3>4. QED
      BY <3>2, <3>3 DEF ToSet
  <2>3. QED
    BY <2>1, <2>2
<1>5. Head(q) \in S /\ Head(q) \in ToSet(q)
  BY <1>1 DEF ToSet
<1>6. QED
  BY <1>2, <1>3, <1>4, <1>5

-----------------------------------------------------------------------------
(* The pool.  A step moves one request along, or none.                     *)
PoolOK ==
  /\ queue \in Seq(Requests) /\ IsInjective(queue) /\ ToSet(queue) = Waiting
  /\ IsFiniteSet(Running) /\ Cardinality(Running) <= PoolSize

LEMMA StepPool ==
  ASSUME TypeOK, SizesLate, [Next]_vars
  PROVE  PoolOK' /\ status' \in [Requests -> Statuses]
<1> USE DEF requestVars, wireVars
<1>0. PoolOK /\ status \in [Requests -> Statuses]
  BY DEF TypeOK, SizesLate, PoolOK
<1>1. ASSUME UNCHANGED <<queue, status>> PROVE PoolOK' /\ status' \in [Requests -> Statuses]
  BY <1>0, <1>1 DEF PoolOK, Waiting, Running
<1>2. ASSUME NEW r \in Requests, NEW s \in {"null", "done"}, status[r] \in {"none", "running"}, Goes(r, s),
             UNCHANGED queue
      PROVE  PoolOK' /\ status' \in [Requests -> Statuses]
  <2>1. Waiting' = Waiting /\ Running' = Running \ {r}
    BY <1>0, <1>2 DEF Goes, Waiting, Running
  <2>2. /\ IsFiniteSet(Running')
        /\ \/ Cardinality(Running') = Cardinality(Running)
           \/ Cardinality(Running') = Cardinality(Running) - 1
    BY <1>0, <2>1, FS_RemoveElement DEF PoolOK
  <2>3. Cardinality(Running) \in Nat /\ PoolSize \in Nat
    BY <1>0, FS_CardinalityType, DispatchAssumption DEF PoolOK
  <2>4. status' \in [Requests -> Statuses]
    BY <1>0, <1>2 DEF Goes, Statuses
  <2>5. QED
    BY <1>0, <1>2, <2>1, <2>2, <2>3, <2>4 DEF PoolOK
<1>3. ASSUME NEW r \in Requests, NEW w \in BOOLEAN, Submit(r, w)
      PROVE  PoolOK' /\ status' \in [Requests -> Statuses]
  <2>1. status[r] = "none" /\ status' = [status EXCEPT ![r] = "queued"] /\ queue' = Append(queue, r)
    BY <1>3 DEF Submit, ReadRequest, Goes
  <2>2. Waiting' = Waiting \cup {r} /\ Running' = Running /\ r \notin Waiting
    BY <1>0, <2>1 DEF Waiting, Running
  <2>3. queue' \in Seq(Requests) /\ IsInjective(queue') /\ ToSet(queue') = Waiting'
    BY <1>0, <2>1, <2>2, Enqueued DEF PoolOK
  <2>4. QED
    BY <1>0, <2>1, <2>2, <2>3 DEF PoolOK, Statuses
<1>4. ASSUME Take PROVE PoolOK' /\ status' \in [Requests -> Statuses]
  <2> DEFINE r == Head(queue)
  <2>1. /\ queue # <<>> /\ Cardinality(Running) < PoolSize
        /\ status' = [status EXCEPT ![r] = "running"] /\ queue' = Tail(queue)
    BY <1>4 DEF Take, Goes
  <2>2. /\ r \in Requests /\ r \in Waiting
        /\ queue' \in Seq(Requests) /\ IsInjective(queue') /\ ToSet(queue') = Waiting \ {r}
    BY <1>0, <2>1, Dequeued DEF PoolOK
  <2>3. Waiting' = Waiting \ {r} /\ Running' = Running \cup {r} /\ r \notin Running
    BY <1>0, <2>1, <2>2 DEF Waiting, Running
  <2>4. IsFiniteSet(Running') /\ Cardinality(Running') = Cardinality(Running) + 1
    BY <1>0, <2>3, FS_AddElement DEF PoolOK
  <2>5. Cardinality(Running) \in Nat /\ PoolSize \in Nat
    BY <1>0, FS_CardinalityType, DispatchAssumption DEF PoolOK
  <2>6. QED
    BY <1>0, <2>1, <2>2, <2>3, <2>4, <2>5 DEF PoolOK, Statuses
<1>5. ASSUME NEW r \in Requests, NEW w \in BOOLEAN, Decline(r, w) \/ Overload(r, w)
      PROVE  PoolOK' /\ status' \in [Requests -> Statuses]
  BY <1>2, <1>5 DEF Decline, Overload, ReadRequest
<1>6. ASSUME NEW r \in Requests, WorkerStep(r)
      PROVE  PoolOK' /\ status' \in [Requests -> Statuses]
  BY <1>2, <1>6 DEF WorkerStep, Respond, RespondNull, Throw, ReplyIfWanted, Reply
<1>7. ASSUME NEW c \in Channels, WriterStep(c) \/ EncodeFails(c) \/ BreakOff(c) \/ ConnectionLost(c)
      PROVE  PoolOK' /\ status' \in [Requests -> Statuses]
  BY <1>1, <1>7 DEF WriterStep, Write, WriteNext, WritePackage, EncodeFails, BreakOff, ConnectionLost
<1>8. CASE UNCHANGED vars
  BY <1>1, <1>8 DEF vars
<1>9. QED
  BY <1>3, <1>4, <1>5, <1>6, <1>7, <1>8 DEF Next

-----------------------------------------------------------------------------
(* One connection.                                                         *)
ChannelOK(c) ==
  TasksUnwritten(c) /\ WrittenSoFar(c) /\ WritingLast(c) /\ Whole(c)

DoneStays == \A r \in Requests : status[r] = "done" => status'[r] = "done" /\ size'[r] = size[r]

LEMMA PartFacts ==
  ASSUME NEW r \in Requests, NEW i \in 0..MaxPackages
  PROVE  Part(r, i) \in Parts /\ Part(r, i).request = r /\ Part(r, i).part = i
BY DEF Part, Parts

LEMMA PutFacts ==
  ASSUME wire \in [Channels -> Seq(Parts)], NEW c \in Channels, NEW p \in Parts, Put(c, p)
  PROVE  /\ wire' \in [Channels -> Seq(Parts)]
         /\ \A d \in Channels \ {c} : wire'[d] = wire[d]
         /\ wire'[c] = IF c \in open THEN Append(wire[c], p) ELSE wire[c]
BY DEF Put

LEMMA Elements ==
  ASSUME TypeOK, NEW c \in Channels
  PROVE  /\ wire[c] \in Seq(Parts) /\ tasks[c] \in Seq(Requests)
         /\ \A i \in 1..Len(wire[c]) : wire[c][i] \in Parts /\ wire[c][i].request \in Requests
         /\ \A k \in 1..Len(tasks[c]) : tasks[c][k] \in Requests
         /\ writing[c] # Nothing => writing[c] \in Requests
<1>1. wire[c] \in Seq(Parts) /\ tasks[c] \in Seq(Requests) /\ writing[c] \in Requests \cup {Nothing}
  BY DEF TypeOK
<1>2. \A i \in 1..Len(wire[c]) : wire[c][i] \in Parts
  BY <1>1
<1>3. \A e \in Parts : e.request \in Requests
  BY DEF Parts
<1>4. \A k \in 1..Len(tasks[c]) : tasks[c][k] \in Requests
  BY <1>1
<1>5. QED
  BY <1>1, <1>2, <1>3, <1>4

(* A step that leaves the connection alone. *)
LEMMA ChannelFrame ==
  ASSUME TypeOK, DoneStays, NEW c \in Channels, ChannelOK(c),
         wire'[c] = wire[c], tasks'[c] = tasks[c], writing'[c] = writing[c], left'[c] = left[c],
         broken \subseteq broken', c \in open' => c \in open
  PROVE  ChannelOK(c)'
<1>0. /\ \A i \in 1..Len(wire[c]) : wire[c][i] \in Parts /\ wire[c][i].request \in Requests
      /\ \A k \in 1..Len(tasks[c]) : tasks[c][k] \in Requests
      /\ writing[c] # Nothing => writing[c] \in Requests
  BY Elements
<1>1. TasksUnwritten(c)'
  BY <1>0 DEF TasksUnwritten, ChannelOK, DoneStays
<1>2. WrittenSoFar(c)'
  BY <1>0 DEF WrittenSoFar, ChannelOK, DoneStays
<1>3. WritingLast(c)'
  BY <1>0 DEF WritingLast, ChannelOK, DoneStays
<1>4. Whole(c)'
  <2>1. \A i \in 1..Len(wire[c]) : size'[wire[c][i].request] = size[wire[c][i].request]
    BY <1>0 DEF WrittenSoFar, ChannelOK, DoneStays
  <2>2. QED
    BY <2>1 DEF ChannelOK, Whole
<1>5. QED
  BY <1>1, <1>2, <1>3, <1>4 DEF ChannelOK

(* What may be written behind whole replies. *)
LEMMA AppendWhole ==
  ASSUME NEW c \in Channels, wire[c] \in Seq(Parts), NEW p \in Parts, wire'[c] = Append(wire[c], p),
         Whole(c), broken' = broken,
         \A i \in 1..Len(wire[c]) : /\ wire[c][i] # p
                                    /\ size'[wire[c][i].request] = size[wire[c][i].request],
         p.part > 0 => /\ wire[c] # <<>>
                       /\ wire[c][Len(wire[c])] = Part(p.request, p.part - 1),
         LET e == wire[c][Len(wire[c])] IN
           wire[c] # <<>> /\ e.part < size[e.request] /\ e.request \notin broken =>
             p = Part(e.request, e.part + 1),
         p.part < size'[p.request] => writing'[c] = p.request \/ c \notin open'
  PROVE  Whole(c)'
<1> DEFINE n == Len(wire[c])
           w == wire'[c]
<1>0. /\ n \in Nat /\ Len(w) = n + 1 /\ w[n + 1] = p
      /\ \A i \in 1..n : w[i] = wire[c][i]
      /\ n > 0 <=> wire[c] # <<>>
  OBVIOUS
<1>1. ASSUME NEW i \in 1..Len(w), NEW j \in 1..Len(w), w[j] = w[i] PROVE j = i
  <2>1. CASE i \in 1..n /\ j \in 1..n
    <3>1. wire[c][j] = wire[c][i]
      BY <1>0, <1>1, <2>1
    <3>2. \A k, m \in 1..n : wire[c][m] = wire[c][k] => m = k
      BY DEF Whole
    <3>3. QED
      BY <2>1, <3>1, <3>2
  <2>2. CASE i = n + 1 \/ j = n + 1
    BY <1>0, <1>1, <2>2
  <2>3. QED
    BY <1>0, <2>1, <2>2
<1>2. ASSUME NEW i \in 1..Len(w), w[i].part > 0
      PROVE  i > 1 /\ w[i - 1] = Part(w[i].request, w[i].part - 1)
  <2>1. CASE i \in 1..n
    <3>1. i > 1 /\ wire[c][i - 1] = Part(wire[c][i].request, wire[c][i].part - 1)
      BY <1>0, <1>2, <2>1 DEF Whole
    <3>2. i - 1 \in 1..n
      BY <1>0, <2>1, <3>1
    <3>3. QED
      BY <1>0, <2>1, <3>1, <3>2
  <2>2. CASE i = n + 1
    BY <1>0, <1>2, <2>2
  <2>3. QED
    BY <1>0, <2>1, <2>2
<1>3. ASSUME NEW i \in 1..Len(w), w[i].part < size'[w[i].request], w[i].request \notin broken
      PROVE  \/ i < Len(w) /\ w[i + 1] = Part(w[i].request, w[i].part + 1)
             \/ i = Len(w) /\ (writing'[c] = w[i].request \/ c \notin open')
  <2>1. CASE i \in 1..(n - 1)
    <3>1. /\ wire[c][i].part < size[wire[c][i].request] /\ wire[c][i].request \notin broken
          /\ i < n /\ i # n /\ i \in 1..n /\ i + 1 \in 1..n
      BY <1>0, <1>3, <2>1
    <3>2. wire[c][i + 1] = Part(wire[c][i].request, wire[c][i].part + 1)
      BY <3>1 DEF Whole
    <3>3. QED
      BY <1>0, <3>1, <3>2
  <2>2. CASE i = n /\ n > 0
    BY <1>0, <1>3, <2>2
  <2>3. CASE i = n + 1
    BY <1>0, <1>3, <2>3
  <2>4. QED
    BY <1>0, <2>1, <2>2, <2>3
<1>4. QED
  BY <1>1, <1>2, <1>3 DEF Whole

(* A worker hands a reply to the handler thread. *)
LEMMA ReplyChannel ==
  ASSUME TypeOK, DoneStays, NEW c \in Channels, ChannelOK(c),
         NEW r \in Requests, status[r] = "running", status'[r] = "done",
         tasks'[c] = Append(tasks[c], r),
         wire'[c] = wire[c], writing'[c] = writing[c], left'[c] = left[c],
         broken' = broken, c \in open' => c \in open
  PROVE  ChannelOK(c)'
<1>0. /\ \A i \in 1..Len(wire[c]) : wire[c][i] \in Parts /\ wire[c][i].request \in Requests
      /\ \A k \in 1..Len(tasks[c]) : tasks[c][k] \in Requests
      /\ tasks[c] \in Seq(Requests)
  BY Elements
<1>1. WrittenSoFar(c)' /\ WritingLast(c)' /\ Whole(c)'
  <2>1. /\ writing[c] # Nothing => writing[c] \in Requests
        /\ \A i \in 1..Len(wire[c]) : size'[wire[c][i].request] = size[wire[c][i].request]
    BY <1>0 DEF TypeOK, WrittenSoFar, ChannelOK, DoneStays
  <2>2. WrittenSoFar(c)'
    BY <1>0, <2>1 DEF WrittenSoFar, ChannelOK, DoneStays
  <2>3. WritingLast(c)'
    BY <2>1 DEF WritingLast, ChannelOK, DoneStays
  <2>4. Whole(c)'
    BY <2>1 DEF ChannelOK, Whole
  <2>5. QED
    BY <2>2, <2>3, <2>4
<1>2. TasksUnwritten(c)'
  <2>1. /\ \A k \in 1..Len(tasks[c]) : tasks[c][k] # r
        /\ \A i \in 1..Len(wire[c]) : wire[c][i].request # r
        /\ writing[c] # r
    BY DispatchAssumption DEF ChannelOK, TasksUnwritten, WrittenSoFar, WritingLast
  <2>2. IsInjective(tasks'[c])
    <3>1. r \notin ToSet(tasks[c])
      BY <1>0, <2>1 DEF ToSet
    <3>2. QED
      BY <1>0, <3>1, Enqueued DEF ChannelOK, TasksUnwritten
  <2>3. /\ Len(tasks'[c]) = Len(tasks[c]) + 1 /\ Len(tasks[c]) \in Nat
        /\ tasks'[c][Len(tasks[c]) + 1] = r
        /\ \A k \in 1..Len(tasks[c]) : tasks'[c][k] = tasks[c][k]
    BY <1>0
  <2>4. ASSUME NEW k \in 1..Len(tasks'[c])
        PROVE  /\ status'[tasks'[c][k]] = "done" /\ writing'[c] # tasks'[c][k]
               /\ \A i \in 1..Len(wire'[c]) : wire'[c][i].request # tasks'[c][k]
    <3>1. CASE k \in 1..Len(tasks[c])
      BY <1>0, <2>3, <3>1 DEF ChannelOK, TasksUnwritten, DoneStays
    <3>2. CASE k = Len(tasks[c]) + 1
      BY <2>1, <2>3, <3>2
    <3>3. QED
      BY <2>3, <3>1, <3>2
  <2>5. QED
    BY <2>2, <2>4 DEF TasksUnwritten
<1>3. QED
  BY <1>1, <1>2 DEF ChannelOK

(* The handler thread answers a request at once. *)
LEMMA AnswerChannel ==
  ASSUME TypeOK, SizesLate, DoneStays, NEW c \in Channels, ChannelOK(c),
         NEW r \in Requests, status[r] = "none", status'[r] = "done", size' = size,
         writing[c] = Nothing, c \in open, Put(c, Part(r, 0)),
         tasks'[c] = tasks[c], writing'[c] = writing[c], left'[c] = left[c],
         UNCHANGED <<open, broken>>
  PROVE  ChannelOK(c)'
<1> DEFINE n == Len(wire[c])
           p == Part(r, 0)
<1>0. /\ wire[c] \in Seq(Parts) /\ tasks[c] \in Seq(Requests)
      /\ \A i \in 1..n : wire[c][i] \in Parts /\ wire[c][i].request \in Requests
      /\ \A k \in 1..Len(tasks[c]) : tasks[c][k] \in Requests
  BY Elements
<1>1. p \in Parts /\ p.request = r /\ p.part = 0 /\ size[r] = 0
  BY PartFacts, DispatchAssumption DEF SizesLate
<1>2. wire'[c] = Append(wire[c], p)
  BY <1>1, PutFacts DEF TypeOK
<1>3. /\ n \in Nat /\ Len(wire'[c]) = n + 1 /\ wire'[c][n + 1] = p
      /\ \A i \in 1..n : wire'[c][i] = wire[c][i]
  BY <1>0, <1>2
<1>4. /\ \A i \in 1..n : wire[c][i].request # r
      /\ \A k \in 1..Len(tasks[c]) : tasks[c][k] # r
  BY DEF ChannelOK, WrittenSoFar, TasksUnwritten
<1>5. TasksUnwritten(c)'
  <2>1. IsInjective(tasks'[c])
    BY DEF TasksUnwritten, ChannelOK
  <2>2. ASSUME NEW k \in 1..Len(tasks[c]), NEW i \in 1..Len(wire'[c])
        PROVE  wire'[c][i].request # tasks[c][k]
    <3>1. CASE i \in 1..n
      BY <1>3, <3>1 DEF TasksUnwritten, ChannelOK
    <3>2. CASE i = n + 1
      BY <1>1, <1>3, <1>4, <3>2
    <3>3. QED
      BY <1>3, <3>1, <3>2
  <2>3. ASSUME NEW k \in 1..Len(tasks[c])
        PROVE  status'[tasks[c][k]] = "done" /\ writing'[c] # tasks[c][k]
    BY <1>0 DEF TasksUnwritten, ChannelOK, DoneStays
  <2>4. QED
    BY <2>1, <2>2, <2>3 DEF TasksUnwritten
<1>6. WrittenSoFar(c)'
  <2>1. writing'[c] \notin Requests
    BY DispatchAssumption
  <2>2. ASSUME NEW i \in 1..Len(wire'[c])
        PROVE  wire'[c][i].request \in Requests /\ status'[wire'[c][i].request] = "done"
    <3>1. CASE i \in 1..n
      BY <1>0, <1>3, <3>1 DEF WrittenSoFar, ChannelOK, DoneStays
    <3>2. CASE i = n + 1
      BY <1>1, <1>3, <3>2
    <3>3. QED
      BY <1>3, <3>1, <3>2
  <2>3. QED
    BY <2>1, <2>2 DEF WrittenSoFar
<1>7. WritingLast(c)'
  BY DEF WritingLast
<1>8. Whole(c)'
  <2>1. Whole(c)
    BY DEF ChannelOK
  <2>2. \A i \in 1..n : wire[c][i] # p /\ size'[wire[c][i].request] = size[wire[c][i].request]
    BY <1>1, <1>4
  <2>3. wire[c] # <<>> /\ wire[c][n].part < size[wire[c][n].request] => wire[c][n].request \in broken
    <3>1. wire[c] # <<>> => n \in 1..n /\ ~(n < n)
      BY <1>0
    <3>2. QED
      BY <1>0, <2>1, <3>1, DispatchAssumption DEF Whole
  <2>4. p.part > 0 => FALSE
    BY <1>1
  <2>5. p.part < size'[p.request] => FALSE
    BY <1>1
  <2>6. QED
    BY <1>0, <1>1, <1>2, <2>1, <2>2, <2>3, <2>4, <2>5, AppendWhole
<1>9. QED
  BY <1>5, <1>6, <1>7, <1>8 DEF ChannelOK

(* The handler thread takes a reply from its queue and writes its header.  *)
LEMMA WriteChannel ==
  ASSUME TypeOK, NEW c \in Channels, ChannelOK(c), Write(c)
  PROVE  ChannelOK(c)'
<1> DEFINE n == Len(wire[c])
           r == Head(tasks[c])
           p == Part(r, 0)
<1> USE DEF requestVars
<1>0. /\ wire[c] \in Seq(Parts) /\ tasks[c] \in Seq(Requests)
      /\ \A i \in 1..n : wire[c][i] \in Parts /\ wire[c][i].request \in Requests
      /\ n \in Nat
  BY Elements
<1>1. /\ writing[c] = Nothing /\ tasks[c] # <<>>
      /\ Put(c, p) /\ UNCHANGED <<requestVars, open, broken>>
      /\ writing'[c] = IF size[r] = 0 THEN Nothing ELSE r
      /\ left'[c] = size[r]
      /\ tasks'[c] = Tail(tasks[c])
  BY DEF Write, WriteNext, TypeOK
<1>2. /\ r \in Requests /\ IsInjective(tasks'[c]) /\ ToSet(tasks'[c]) = ToSet(tasks[c]) \ {r}
      /\ tasks'[c] \in Seq(Requests)
      /\ r \in ToSet(tasks[c])
  BY <1>0, <1>1, Dequeued DEF ChannelOK, TasksUnwritten
<1>3. \A x \in ToSet(tasks[c]) : /\ status[x] = "done" /\ x \in Requests
                                 /\ \A i \in 1..n : wire[c][i].request # x
  <2>1. \A k \in 1..Len(tasks[c]) : /\ status[tasks[c][k]] = "done" /\ tasks[c][k] \in Requests
                                    /\ \A i \in 1..n : wire[c][i].request # tasks[c][k]
    BY <1>0 DEF ChannelOK, TasksUnwritten
  <2>2. ASSUME NEW x \in ToSet(tasks[c]) PROVE \E k \in 1..Len(tasks[c]) : x = tasks[c][k]
    BY <1>0 DEF ToSet
  <2>3. QED
    BY <2>1, <2>2
<1>4. p \in Parts /\ p.request = r /\ p.part = 0 /\ size[r] \in Nat /\ r # Nothing
  <2>1. 0 \in 0..MaxPackages /\ r # Nothing
    BY <1>2, DispatchAssumption
  <2>2. size[r] \in Nat
    BY <1>2, DispatchAssumption DEF TypeOK
  <2>3. QED
    BY <1>2, <2>1, <2>2, PartFacts
<1>5. wire'[c] = IF c \in open THEN Append(wire[c], p) ELSE wire[c]
  BY <1>1, <1>4, PutFacts DEF TypeOK
<1>6. /\ wire'[c] \in Seq(Parts)
      /\ \A i \in 1..Len(wire'[c]) : (i \in 1..n /\ wire'[c][i] = wire[c][i]) \/ wire'[c][i] = p
      /\ c \in open => Len(wire'[c]) = n + 1 /\ wire'[c][n + 1] = p
  BY <1>0, <1>4, <1>5
<1>7. \A k \in 1..Len(tasks'[c]) : tasks'[c][k] \in ToSet(tasks[c]) \ {r}
  <2>1. \A k \in 1..Len(tasks'[c]) : tasks'[c][k] \in ToSet(tasks'[c])
    <3>1. DOMAIN tasks'[c] = 1..Len(tasks'[c])
      BY <1>2
    <3>2. QED
      BY <3>1 DEF ToSet
  <2>2. QED
    BY <1>2, <2>1
<1>8. TasksUnwritten(c)'
  BY <1>1, <1>2, <1>3, <1>4, <1>6, <1>7, DispatchAssumption DEF TasksUnwritten
<1>9. WrittenSoFar(c)'
  <2>1. status[r] = "done" /\ writing'[c] \in {Nothing, r} /\ status' = status
    BY <1>1, <1>2, <1>3
  <2>2. ASSUME NEW i \in 1..Len(wire'[c])
        PROVE  /\ status'[wire'[c][i].request] = "done"
               /\ writing'[c] = wire'[c][i].request =>
                    wire'[c][i].part <= size'[writing'[c]] - left'[c]
    <3>1. CASE wire'[c][i] = p
      <4>1. writing'[c] = r => size'[writing'[c]] - left'[c] = 0
        BY <1>1, <1>4
      <4>2. QED
        BY <1>4, <2>1, <3>1, <4>1
    <3>2. CASE i \in 1..n /\ wire'[c][i] = wire[c][i]
      <4>1. status[wire[c][i].request] = "done"
        BY <3>2 DEF WrittenSoFar, ChannelOK
      <4>2. wire[c][i].request \notin {Nothing, r}
        BY <1>0, <1>2, <1>3, <3>2, DispatchAssumption
      <4>3. QED
        BY <2>1, <3>2, <4>1, <4>2
    <3>3. QED
      BY <1>6, <3>1, <3>2
  <2>3. QED
    BY <2>2 DEF WrittenSoFar
<1>10. WritingLast(c)'
  <2>1. size[r] - size[r] = 0
    BY <1>4
  <2>2. QED
    BY <1>1, <1>2, <1>3, <1>6, <2>1 DEF WritingLast
<1>11. Whole(c)'
  <2>1. Whole(c)
    BY DEF ChannelOK
  <2>2. CASE c \notin open
    BY <1>1, <1>5, <2>1, <2>2 DEF Whole
  <2>3. CASE c \in open
    <3>1. \A i \in 1..n : wire[c][i] # p /\ size'[wire[c][i].request] = size[wire[c][i].request]
      BY <1>1, <1>2, <1>3, <1>4
    <3>2. wire[c] # <<>> /\ wire[c][n].part < size[wire[c][n].request] => wire[c][n].request \in broken
      <4>1. wire[c] # <<>> => n \in 1..n /\ ~(n < n)
        BY <1>0
      <4>2. QED
        BY <1>0, <1>1, <2>1, <2>3, <4>1, DispatchAssumption DEF Whole
    <3>3. ~(p.part > 0)
      BY <1>4
    <3>4. p.part < size'[p.request] => writing'[c] = p.request
      BY <1>1, <1>4
    <3>5. QED
      BY <1>0, <1>1, <1>4, <1>5, <2>1, <2>3, <3>1, <3>2, <3>3, <3>4, AppendWhole
  <2>4. QED
    BY <2>2, <2>3
<1>12. QED
  BY <1>8, <1>9, <1>10, <1>11 DEF ChannelOK

(* The handler thread writes the next package of a file. *)
LEMMA PackageChannel ==
  ASSUME TypeOK, NEW c \in Channels, ChannelOK(c), WritePackage(c)
  PROVE  ChannelOK(c)'
<1> DEFINE n == Len(wire[c])
           r == writing[c]
           k == size[r] - left[c]
           p == Part(r, k + 1)
<1> USE DEF requestVars
<1>0. /\ wire[c] \in Seq(Parts) /\ tasks[c] \in Seq(Requests)
      /\ \A i \in 1..n : wire[c][i] \in Parts /\ wire[c][i].request \in Requests
      /\ n \in Nat
  BY Elements
<1>1. /\ r # Nothing /\ r \in Requests
      /\ Put(c, p) /\ UNCHANGED <<requestVars, tasks, open, broken>>
      /\ left'[c] = left[c] - 1
      /\ writing'[c] = IF left[c] = 1 THEN Nothing ELSE r
  BY DEF WritePackage, TypeOK
<1>2. /\ left[c] \in Nat /\ left[c] >= 1 /\ size[r] \in Nat /\ size[r] <= MaxPackages /\ MaxPackages \in Nat
      /\ left[c] <= size[r]
  BY <1>1, DispatchAssumption DEF TypeOK
<1>3. p \in Parts /\ p.request = r /\ p.part = k + 1 /\ k \in Nat
  BY <1>1, <1>2, PartFacts
<1>4. wire'[c] = IF c \in open THEN Append(wire[c], p) ELSE wire[c]
  BY <1>1, <1>3, PutFacts DEF TypeOK
<1>5. /\ \A i \in 1..Len(wire'[c]) : (i \in 1..n /\ wire'[c][i] = wire[c][i]) \/ wire'[c][i] = p
      /\ c \in open => Len(wire'[c]) = n + 1 /\ wire'[c][n + 1] = p /\ wire'[c] # <<>>
  <2> HIDE DEF p
  <2>1. CASE c \in open
    <3>1. wire'[c] = Append(wire[c], p) /\ wire'[c] \in Seq(Parts)
      BY <1>0, <1>3, <1>4, <2>1
    <3>2. Len(wire'[c]) = n + 1 /\ wire'[c][n + 1] = p /\ \A i \in 1..n : wire'[c][i] = wire[c][i]
      BY <1>0, <3>1
    <3>3. wire'[c] # <<>>
      BY <1>0, <3>2
    <3>4. ASSUME NEW i \in 1..Len(wire'[c])
          PROVE  (i \in 1..n /\ wire'[c][i] = wire[c][i]) \/ wire'[c][i] = p
      <4>1. i \in 1..n \/ i = n + 1
        BY <1>0, <3>2
      <4>2. QED
        BY <3>2, <4>1
    <3>5. QED
      BY <3>2, <3>3, <3>4
  <2>2. CASE c \notin open
    BY <1>0, <1>4, <2>2
  <2>3. QED
    BY <2>1, <2>2
<1>6. TasksUnwritten(c)'
  <2>1. \A j \in 1..Len(tasks[c]) : tasks[c][j] \in Requests
    BY <1>0
  <2>2. /\ IsInjective(tasks[c])
        /\ \A j \in 1..Len(tasks[c]) :
             /\ status[tasks[c][j]] = "done" /\ r # tasks[c][j]
             /\ \A i \in 1..n : wire[c][i].request # tasks[c][j]
    BY DEF ChannelOK, TasksUnwritten
  <2>3. writing'[c] \in {Nothing, r} /\ tasks' = tasks /\ status' = status
    BY <1>1
  <2>4. \A j \in 1..Len(tasks[c]) : \A i \in 1..Len(wire'[c]) : wire'[c][i].request # tasks[c][j]
    BY <1>3, <1>5, <2>2
  <2>5. QED
    BY <2>1, <2>2, <2>3, <2>4, DispatchAssumption DEF TasksUnwritten
<1>7. size'[r] - left'[c] = k + 1
  BY <1>1, <1>2
<1>8. WrittenSoFar(c)'
  <2>1. status[r] = "done"
    BY <1>1 DEF ChannelOK, WritingLast
  <2>2. ASSUME NEW i \in 1..Len(wire'[c])
        PROVE  /\ status'[wire'[c][i].request] = "done"
               /\ writing'[c] = wire'[c][i].request => wire'[c][i].part <= k + 1
    <3>1. CASE wire'[c][i] = p
      BY <1>1, <1>3, <2>1, <3>1
    <3>2. CASE i \in 1..n /\ wire'[c][i] = wire[c][i]
      <4>1. wire[c][i].part \in Nat
        BY <1>0, <3>2 DEF Parts
      <4>2. /\ status[wire[c][i].request] = "done"
            /\ r = wire[c][i].request => wire[c][i].part <= k
        BY <3>2 DEF ChannelOK, WrittenSoFar
      <4>3. writing'[c] = wire[c][i].request => r = wire[c][i].request
        BY <1>0, <1>1, <3>2, DispatchAssumption
      <4>4. QED
        BY <1>1, <1>3, <3>2, <4>1, <4>2, <4>3
    <3>3. QED
      BY <1>5, <3>1, <3>2
  <2>3. ASSUME writing'[c] # Nothing PROVE writing'[c] = r
    BY <1>1, <2>3
  <2>4. ASSUME NEW i \in 1..Len(wire'[c]), writing'[c] = wire'[c][i].request
        PROVE  wire'[c][i].part <= size'[writing'[c]] - left'[c]
    <3>1. wire'[c][i].request \in Requests
      BY <1>0, <1>1, <1>3, <1>5
    <3>2. writing'[c] = r
      BY <2>3, <2>4, <3>1, DispatchAssumption
    <3>3. QED
      BY <1>7, <2>2, <2>4, <3>2
  <2>5. QED
    BY <2>2, <2>4 DEF WrittenSoFar
<1>9. WritingLast(c)'
  <2>1. status[r] = "done"
    BY <1>1 DEF ChannelOK, WritingLast
  <2>2. writing'[c] # Nothing => writing'[c] = r
    BY <1>1
  <2>3. c \in open => wire'[c] # <<>> /\ wire'[c][Len(wire'[c])] = p
    BY <1>5
  <2>4. QED
    BY <1>1, <1>7, <2>1, <2>2, <2>3 DEF WritingLast
<1>10. Whole(c)'
  <2>1. Whole(c)
    BY DEF ChannelOK
  <2>2. CASE c \notin open
    <3>1. wire'[c] = wire[c] /\ size' = size /\ c \notin open' /\ broken' = broken
      BY <1>1, <1>4, <2>2
    <3>2. QED
      BY <2>1, <3>1 DEF Whole
  <2>3. CASE c \in open
    <3>1. \A i \in 1..n : wire[c][i] # p /\ size'[wire[c][i].request] = size[wire[c][i].request]
      BY <1>1, <1>3 DEF ChannelOK, WrittenSoFar
    <3>2. wire[c] # <<>> /\ wire[c][n] = Part(r, k)
      BY <1>1, <2>1, <2>3 DEF ChannelOK, WritingLast
    <3>3. Part(p.request, p.part - 1) = Part(r, k)
      BY <1>3
    <3>4. p = Part(wire[c][n].request, wire[c][n].part + 1)
      BY <3>2 DEF Part
    <3>5. p.part < size'[p.request] => writing'[c] = p.request
      BY <1>1, <1>2, <1>3
    <3>6. QED
      BY <1>0, <1>1, <1>3, <1>4, <2>1, <2>3, <3>1, <3>2, <3>3, <3>4, <3>5, AppendWhole
  <2>4. QED
    BY <2>2, <2>3
<1>11. QED
  BY <1>6, <1>8, <1>9, <1>10 DEF ChannelOK

(* The encoder fails: the reply is dropped and the connection closed. *)
LEMMA FailChannel ==
  ASSUME TypeOK, NEW c \in Channels, ChannelOK(c), EncodeFails(c)
  PROVE  ChannelOK(c)'
<1> DEFINE r == Head(tasks[c])
<1> USE DEF requestVars
<1>1. /\ tasks[c] # <<>> /\ tasks[c] \in Seq(Requests)
      /\ tasks'[c] = Tail(tasks[c]) /\ writing[c] = Nothing
      /\ UNCHANGED <<requestVars, writing, left, wire, broken>>
      /\ c \notin open'
  BY DEF EncodeFails, TypeOK
<1>2. /\ IsInjective(tasks'[c]) /\ tasks'[c] \in Seq(Requests)
      /\ \A k \in 1..Len(tasks'[c]) : tasks'[c][k] = tasks[c][k + 1] /\ k + 1 \in 1..Len(tasks[c])
  <2>1. IsInjective(tasks'[c])
    BY <1>1, Dequeued DEF ChannelOK, TasksUnwritten
  <2>2. QED
    BY <1>1, <2>1
<1>3. TasksUnwritten(c)'
  BY <1>1, <1>2 DEF TasksUnwritten, ChannelOK
<1>4. WrittenSoFar(c)' /\ WritingLast(c)'
  BY <1>1 DEF WrittenSoFar, WritingLast, ChannelOK
<1>5. Whole(c)'
  BY <1>1 DEF ChannelOK, Whole
<1>6. QED
  BY <1>3, <1>4, <1>5 DEF ChannelOK

(* A file is broken off. *)
LEMMA BreakChannel ==
  ASSUME TypeOK, NEW c \in Channels, ChannelOK(c), BreakOff(c)
  PROVE  ChannelOK(c)'
<1> USE DEF requestVars
<1>1. /\ writing'[c] = Nothing /\ broken' = broken \cup {writing[c]}
      /\ UNCHANGED <<requestVars, tasks, wire, open>>
  BY DEF BreakOff, TypeOK
<1>2. /\ \A i \in 1..Len(wire[c]) : wire[c][i].request \in Requests
      /\ \A k \in 1..Len(tasks[c]) : tasks[c][k] \in Requests
  BY Elements
<1>3. Whole(c)'
  BY <1>1 DEF ChannelOK, Whole
<1>4. QED
  BY <1>1, <1>2, <1>3, DispatchAssumption DEF ChannelOK, TasksUnwritten, WrittenSoFar, WritingLast

-----------------------------------------------------------------------------
(* What becomes of the requests: a finished one stays as it is.            *)
LEMMA StepRequests ==
  ASSUME TypeOK, SizesLate, [Next]_vars
  PROVE  /\ wants' \subseteq Requests
         /\ size' \in [Requests -> 0..MaxPackages]
         /\ SizesLate'
         /\ DoneStays
<1> USE DEF requestVars, wireVars
<1> DEFINE Goal == /\ wants' \subseteq Requests
                   /\ size' \in [Requests -> 0..MaxPackages]
                   /\ \A r \in Requests : status'[r] \in {"none", "queued", "running"} => size'[r] = 0
                   /\ DoneStays
<1>0. /\ wants \subseteq Requests /\ size \in [Requests -> 0..MaxPackages]
      /\ status \in [Requests -> Statuses]
      /\ \A r \in Requests : status[r] \in {"none", "queued", "running"} => size[r] = 0
  BY DEF TypeOK, SizesLate
<1>1. ASSUME NEW r \in Requests, NEW s \in Statuses, status[r] \in {"none", "queued", "running"}, Goes(r, s),
             UNCHANGED size, wants' \subseteq Requests
      PROVE  Goal
  BY <1>0, <1>1 DEF Goes, DoneStays
<1>2. ASSUME NEW r \in Requests, NEW n \in 0..MaxPackages, Respond(r, n)
      PROVE  Goal
  <2>1. /\ status[r] = "running" /\ status' = [status EXCEPT ![r] = "done"]
        /\ size' = [size EXCEPT ![r] = IF r \in wants THEN n ELSE 0] /\ wants' = wants
    BY <1>2 DEF Respond, ReplyIfWanted, Reply, Goes
  <2>2. size' \in [Requests -> 0..MaxPackages]
    BY <1>0, <2>1, DispatchAssumption
  <2>3. QED
    BY <1>0, <2>1, <2>2 DEF DoneStays
<1>3. ASSUME NEW r \in Requests, NEW w \in BOOLEAN, Decline(r, w) \/ Submit(r, w) \/ Overload(r, w)
      PROVE  Goal
  <2>1. status[r] = "none" /\ wants' \subseteq Requests /\ UNCHANGED size
        /\ (Goes(r, "done") \/ Goes(r, "queued"))
    BY <1>0, <1>3 DEF Decline, Submit, Overload, ReadRequest
  <2>2. QED
    BY <1>1, <2>1 DEF Statuses
<1>4. ASSUME Take PROVE Goal
  <2>1. queue # <<>> /\ queue \in Seq(Requests) /\ ToSet(queue) = Waiting /\ IsInjective(queue)
    BY <1>4 DEF Take, TypeOK
  <2>2. Head(queue) \in Requests /\ status[Head(queue)] = "queued"
    BY <2>1, Dequeued DEF Waiting
  <2>3. QED
    BY <1>0, <1>1, <1>4, <2>2 DEF Take, Statuses
<1>5. ASSUME NEW r \in Requests, RespondNull(r) \/ Throw(r) PROVE Goal
  <2>1. /\ status[r] = "running" /\ UNCHANGED <<wants, size>>
        /\ Goes(r, "null") \/ Goes(r, "done")
    BY <1>5 DEF RespondNull, Throw, ReplyIfWanted, Reply
  <2>2. QED
    BY <1>0, <1>1, <2>1 DEF Statuses
<1>6. ASSUME UNCHANGED requestVars PROVE Goal
  BY <1>0, <1>6 DEF DoneStays
<1>7. ASSUME NEW c \in Channels, WriterStep(c) \/ EncodeFails(c) \/ BreakOff(c) \/ ConnectionLost(c)
      PROVE  Goal
  BY <1>6, <1>7 DEF WriterStep, Write, WriteNext, WritePackage, EncodeFails, BreakOff, ConnectionLost
<1>8. Goal
  BY <1>2, <1>3, <1>4, <1>5, <1>6, <1>7 DEF Next, WorkerStep, vars
<1>9. IsFiniteSet(Running)'
  BY StepPool DEF PoolOK
<1>10. QED
  BY <1>8, <1>9 DEF SizesLate

(***************************************************************************)
(* Every connection after a step.                                          *)
(***************************************************************************)
LEMMA StepChannel ==
  ASSUME IInv, [Next]_vars, NEW c \in Channels
  PROVE  ChannelOK(c)'
<1> USE DEF requestVars, wireVars
<1>0. TypeOK /\ SizesLate /\ DoneStays /\ ChannelOK(c)
  BY StepRequests DEF IInv, WireInv, FramesWhole, ChannelOK
<1> DEFINE Alone == /\ wire'[c] = wire[c] /\ tasks'[c] = tasks[c]
                    /\ writing'[c] = writing[c] /\ left'[c] = left[c]
           Ends == broken \subseteq broken' /\ (c \in open' => c \in open)
<1>1. ASSUME Alone, Ends PROVE ChannelOK(c)'
  BY <1>0, <1>1, ChannelFrame
<1>2. ASSUME NEW r \in Requests, NEW w \in BOOLEAN, Decline(r, w) \/ Submit(r, w) \/ Overload(r, w)
      PROVE  ChannelOK(c)'
  <2>1. /\ status[r] = "none" /\ ChannelOf[r] \in open /\ writing[ChannelOf[r]] = Nothing
        /\ UNCHANGED <<size, tasks, writing, left, open, broken>>
    BY <1>2 DEF Decline, Submit, Overload, ReadRequest
  <2>2. UNCHANGED wire \/ (Put(ChannelOf[r], Part(r, 0)) /\ Goes(r, "done"))
    BY <1>2 DEF Decline, Submit, Overload
  <2>3. CASE UNCHANGED wire
    BY <1>1, <2>1, <2>3
  <2>4. CASE Put(ChannelOf[r], Part(r, 0)) /\ Goes(r, "done")
    <3>1. CASE ChannelOf[r] = c
      <4>1. status'[r] = "done"
        BY <1>0, <2>4 DEF Goes, TypeOK
      <4>2. QED
        BY <1>0, <2>1, <2>4, <3>1, <4>1, AnswerChannel
    <3>2. CASE ChannelOf[r] # c
      <4>1. wire'[c] = wire[c]
        BY <1>0, <2>4, <3>2 DEF Put, TypeOK
      <4>2. QED
        BY <1>1, <2>1, <4>1
    <3>3. QED
      BY <3>1, <3>2
  <2>5. QED
    BY <2>2, <2>3, <2>4
<1>3. ASSUME NEW r \in Requests, WorkerStep(r) PROVE ChannelOK(c)'
  <2>1. /\ status[r] = "running" /\ UNCHANGED wireVars
        /\ UNCHANGED tasks \/ Reply(r)
    BY <1>3 DEF WorkerStep, Respond, RespondNull, Throw, ReplyIfWanted
  <2>2. CASE Reply(r) /\ ChannelOf[r] = c
    <3>1. status'[r] = "done" /\ tasks'[c] = Append(tasks[c], r)
      BY <1>0, <2>2 DEF Reply, Goes, TypeOK
    <3>2. QED
      BY <1>0, <2>1, <3>1, ReplyChannel
  <2>3. CASE UNCHANGED tasks \/ (Reply(r) /\ ChannelOf[r] # c)
    <3>1. tasks'[c] = tasks[c]
      BY <1>0, <2>3 DEF Reply, TypeOK
    <3>2. QED
      BY <1>1, <2>1, <3>1
  <2>4. QED
    BY <2>1, <2>2, <2>3
<1>4. CASE Take
  BY <1>1, <1>4 DEF Take
<1>5. ASSUME NEW d \in Channels, WriterStep(d) \/ EncodeFails(d) \/ BreakOff(d) \/ ConnectionLost(d)
      PROVE  ChannelOK(c)'
  <2>1. CASE d = c /\ ~ConnectionLost(d)
    BY <1>0, <1>5, <2>1, WriteChannel, PackageChannel, FailChannel, BreakChannel DEF WriterStep
  <2>2. CASE ConnectionLost(d)
    BY <1>1, <2>2 DEF ConnectionLost
  <2>3. CASE d # c /\ ~ConnectionLost(d)
    <3>1. Ends
      BY <1>5, <2>3 DEF WriterStep, Write, WriteNext, WritePackage, EncodeFails, BreakOff
    <3>2. Alone
      BY <1>0, <1>5, <2>3 DEF WriterStep, Write, WriteNext, WritePackage, EncodeFails, BreakOff, Put, TypeOK
    <3>3. QED
      BY <1>1, <3>1, <3>2
  <2>4. QED
    BY <2>1, <2>2, <2>3
<1>6. CASE UNCHANGED vars
  BY <1>1, <1>6 DEF vars
<1>7. QED
  BY <1>2, <1>3, <1>4, <1>5, <1>6 DEF Next

(* What the handler threads hold keeps its type. *)
LEMMA StepWires ==
  ASSUME TypeOK, SizesLate, [Next]_vars
  PROVE  /\ tasks' \in [Channels -> Seq(Requests)]
         /\ wire' \in [Channels -> Seq(Parts)]
         /\ open' \subseteq Channels /\ broken' \subseteq Requests
<1> USE DEF requestVars, wireVars
<1> DEFINE Goal == /\ tasks' \in [Channels -> Seq(Requests)]
                   /\ wire' \in [Channels -> Seq(Parts)]
                   /\ open' \subseteq Channels /\ broken' \subseteq Requests
<1>0. /\ tasks \in [Channels -> Seq(Requests)] /\ wire \in [Channels -> Seq(Parts)]
      /\ open \subseteq Channels /\ broken \subseteq Requests
      /\ ChannelOf \in [Requests -> Channels]
  BY DispatchAssumption DEF TypeOK
<1>1. ASSUME NEW r \in Requests, NEW w \in BOOLEAN, Decline(r, w) \/ Submit(r, w) \/ Overload(r, w)
      PROVE  Goal
  <2>1. UNCHANGED <<tasks, open, broken>> /\ (UNCHANGED wire \/ Put(ChannelOf[r], Part(r, 0)))
    BY <1>1 DEF Decline, Submit, Overload, ReadRequest
  <2>2. Part(r, 0) \in Parts
    BY PartFacts, DispatchAssumption
  <2>3. wire' \in [Channels -> Seq(Parts)]
    BY <1>0, <2>1, <2>2, PutFacts
  <2>4. QED
    BY <1>0, <2>1, <2>3
<1>2. ASSUME NEW r \in Requests, WorkerStep(r) PROVE Goal
  <2>1. UNCHANGED wireVars /\ (UNCHANGED tasks \/ Reply(r))
    BY <1>2 DEF WorkerStep, Respond, RespondNull, Throw, ReplyIfWanted
  <2>2. tasks' \in [Channels -> Seq(Requests)]
    <3> DEFINE c == ChannelOf[r]
    <3>1. c \in Channels /\ tasks[c] \in Seq(Requests)
      BY <1>0
    <3>2. Append(tasks[c], r) \in Seq(Requests)
      BY <3>1
    <3>3. tasks' = tasks \/ tasks' = [tasks EXCEPT ![c] = Append(tasks[c], r)]
      BY <2>1 DEF Reply
    <3> HIDE DEF c
    <3>4. QED
      BY <1>0, <3>1, <3>2, <3>3
  <2>3. QED
    BY <1>0, <2>1, <2>2
<1>3. ASSUME NEW c \in Channels, Write(c) \/ EncodeFails(c) PROVE Goal
  <2>1. tasks[c] # <<>> /\ tasks[c] \in Seq(Requests)
    BY <1>0, <1>3 DEF Write, WriteNext, EncodeFails
  <2>2. Head(tasks[c]) \in Requests /\ Tail(tasks[c]) \in Seq(Requests)
    BY <2>1
  <2>3. /\ tasks' = [tasks EXCEPT ![c] = Tail(tasks[c])]
        /\ open' \subseteq open /\ broken' = broken
        /\ UNCHANGED wire \/ Put(c, Part(Head(tasks[c]), 0))
    BY <1>3 DEF Write, WriteNext, EncodeFails
  <2>4. Part(Head(tasks[c]), 0) \in Parts
    BY <2>2, PartFacts, DispatchAssumption
  <2>5. wire' \in [Channels -> Seq(Parts)]
    BY <1>0, <2>3, <2>4, PutFacts
  <2>6. tasks' \in [Channels -> Seq(Requests)]
    BY <1>0, <2>2, <2>3
  <2>7. QED
    BY <1>0, <2>3, <2>5, <2>6
<1>4. ASSUME NEW c \in Channels, WritePackage(c) PROVE Goal
  <2> DEFINE p == Part(writing[c], size[writing[c]] - left[c] + 1)
  <2>1. /\ writing[c] \in Requests /\ Put(c, p) /\ UNCHANGED <<tasks, open, broken>>
    BY <1>4 DEF WritePackage, TypeOK
  <2>2. /\ left[c] \in 1..size[writing[c]] /\ size[writing[c]] \in 0..MaxPackages
    BY <1>4, <2>1 DEF WritePackage, TypeOK
  <2>3. size[writing[c]] - left[c] + 1 \in 0..MaxPackages
    BY <2>2, DispatchAssumption
  <2>4. p \in Parts
    BY <2>1, <2>3, PartFacts
  <2>5. wire' \in [Channels -> Seq(Parts)]
    BY <1>0, <2>1, <2>4, PutFacts
  <2>6. QED
    BY <1>0, <2>1, <2>5
<1>5. ASSUME NEW c \in Channels, BreakOff(c) \/ ConnectionLost(c) PROVE Goal
  BY <1>0, <1>5 DEF BreakOff, ConnectionLost, TypeOK
<1>6. CASE Take \/ UNCHANGED vars
  BY <1>0, <1>6 DEF Take, vars
<1>7. QED
  BY <1>1, <1>2, <1>3, <1>4, <1>5, <1>6 DEF Next, WriterStep

(* A handler thread that writes a file has packages of it left. *)
LEMMA StepLeft ==
  ASSUME IInv, [Next]_vars
  PROVE  /\ writing' \in [Channels -> Requests \cup {Nothing}]
         /\ left' \in [Channels -> 0..MaxPackages]
         /\ \A c \in Channels : IF writing'[c] = Nothing THEN left'[c] = 0
                                ELSE left'[c] \in 1..size'[writing'[c]]
<1> USE DEF requestVars, wireVars
<1> DEFINE Fits(r, k) == IF r = Nothing THEN k = 0 ELSE k \in 1..size'[r]
           Goal == /\ writing' \in [Channels -> Requests \cup {Nothing}]
                   /\ left' \in [Channels -> 0..MaxPackages]
                   /\ \A c \in Channels : Fits(writing'[c], left'[c])
<1>0. /\ writing \in [Channels -> Requests \cup {Nothing}] /\ left \in [Channels -> 0..MaxPackages]
      /\ size \in [Requests -> 0..MaxPackages] /\ MaxPackages \in Nat
  BY DispatchAssumption DEF IInv, TypeOK
<1>1. \A c \in Channels : Fits(writing[c], left[c])
  <2>1. \A c \in Channels : writing[c] # Nothing => writing[c] \in Requests /\ status[writing[c]] = "done"
    BY <1>0 DEF IInv, WireInv, WritingLast
  <2>2. \A c \in Channels : writing[c] # Nothing => size'[writing[c]] = size[writing[c]]
    BY <2>1, StepRequests DEF IInv, DoneStays
  <2>3. QED
    BY <2>2 DEF IInv, TypeOK
<1>2. CASE UNCHANGED <<writing, left>>
  BY <1>0, <1>1, <1>2
<1>3. ASSUME NEW c \in Channels, NEW r \in Requests \cup {Nothing}, NEW k \in 0..MaxPackages,
             writing' = [writing EXCEPT ![c] = r], left' = [left EXCEPT ![c] = k], Fits(r, k)
      PROVE  Goal
  <2>1. \A d \in Channels : /\ writing'[d] = IF d = c THEN r ELSE writing[d]
                            /\ left'[d] = IF d = c THEN k ELSE left[d]
    BY <1>0, <1>3
  <2>2. \A d \in Channels : Fits(writing'[d], left'[d])
    BY <1>1, <1>3, <2>1
  <2>3. QED
    BY <1>0, <1>3, <2>2
<1>4. ASSUME NEW c \in Channels, Write(c) PROVE Goal
  <2> DEFINE r == Head(tasks[c])
  <2>1. /\ tasks[c] # <<>> /\ tasks[c] \in Seq(Requests) /\ size' = size
        /\ writing' = [writing EXCEPT ![c] = IF size[r] = 0 THEN Nothing ELSE r]
        /\ left' = [left EXCEPT ![c] = size[r]]
    BY <1>4 DEF Write, WriteNext, IInv, TypeOK
  <2>2. r \in Requests
    BY <2>1
  <2>3. size[r] \in 0..MaxPackages /\ Fits(IF size[r] = 0 THEN Nothing ELSE r, size[r])
    BY <1>0, <2>1, <2>2, DispatchAssumption
  <2>4. QED
    BY <1>3, <2>1, <2>2, <2>3
<1>5. ASSUME NEW c \in Channels, WritePackage(c) PROVE Goal
  <2> DEFINE r == writing[c]
  <2>1. /\ r # Nothing /\ r \in Requests /\ size' = size
        /\ writing' = [writing EXCEPT ![c] = IF left[c] = 1 THEN Nothing ELSE r]
        /\ left' = [left EXCEPT ![c] = left[c] - 1]
    BY <1>0, <1>5 DEF WritePackage
  <2>2. left[c] \in 1..size[r] /\ size[r] \in 0..MaxPackages
    BY <1>0, <1>1, <2>1
  <2>3. left[c] - 1 \in 0..MaxPackages /\ Fits(IF left[c] = 1 THEN Nothing ELSE r, left[c] - 1)
    BY <1>0, <2>1, <2>2
  <2>4. QED
    BY <1>3, <2>1, <2>3
<1>6. ASSUME NEW c \in Channels, BreakOff(c) PROVE Goal
  <2>1. writing' = [writing EXCEPT ![c] = Nothing] /\ left' = [left EXCEPT ![c] = 0]
    BY <1>6 DEF BreakOff
  <2>2. 0 \in 0..MaxPackages /\ Fits(Nothing, 0)
    BY <1>0
  <2>3. QED
    BY <1>3, <2>1, <2>2
<1>7. QED
  BY <1>2, <1>4, <1>5, <1>6
  DEF Next, WorkerStep, WriterStep, Decline, Submit, Overload, ReadRequest, Take,
      Respond, RespondNull, Throw, EncodeFails, ConnectionLost, vars

-----------------------------------------------------------------------------
LEMMA InitIInv == Init => IInv
<1> SUFFICES ASSUME Init PROVE IInv
  OBVIOUS
<1> USE DispatchAssumption DEF Init
<1>1. Waiting = {} /\ Running = {}
  BY DEF Waiting, Running
<1>2. IsFiniteSet(Running) /\ Cardinality(Running) = 0
  BY <1>1, FS_EmptySet
<1>3. IsInjective(queue) /\ ToSet(queue) = Waiting
  BY <1>1 DEF IsInjective, ToSet
<1>4. TypeOK
  BY <1>2, <1>3 DEF TypeOK, Statuses
<1>5. SizesLate
  BY <1>2 DEF SizesLate
<1>6. WireInv
  BY DEF WireInv, TasksUnwritten, WrittenSoFar, WritingLast, IsInjective
<1>7. FramesWhole
  BY DEF FramesWhole, Whole
<1>8. QED
  BY <1>4, <1>5, <1>6, <1>7 DEF IInv

LEMMA StepIInv == IInv /\ [Next]_vars => IInv'
<1> SUFFICES ASSUME IInv, [Next]_vars PROVE IInv'
  OBVIOUS
<1>0. TypeOK /\ SizesLate
  BY DEF IInv
<1>1. TypeOK'
  BY <1>0, StepPool, StepRequests, StepWires, StepLeft DEF TypeOK, PoolOK
<1>2. SizesLate'
  BY <1>0, StepRequests
<1>3. WireInv' /\ FramesWhole'
  BY StepChannel DEF WireInv, FramesWhole, ChannelOK
<1>4. QED
  BY <1>1, <1>2, <1>3 DEF IInv

(* The work queue of the pool holds each waiting request once, no more run *)
(* than it has threads, and a handler that writes a file has packages left *)
(* of it.                                                                  *)
THEOREM TypeCorrect == Spec => []TypeOK
<1>1. IInv => TypeOK
  BY DEF IInv
<1>2. QED
  BY <1>1, InitIInv, StepIInv, PTL DEF Spec

(* Whichever workers answer the requests of a connection, and however a    *)
(* file is cut in packages: what the handler thread writes are whole       *)
(* replies, each once; a file that is broken off lacks its end, and what   *)
(* follows it on the connection is whole again.                            *)
THEOREM FramesAlwaysWhole == Spec => []FramesWhole
<1>1. IInv => FramesWhole
  BY DEF IInv
<1>2. QED
  BY <1>1, InitIInv, StepIInv, PTL DEF Spec

(***************************************************************************)
(* No request that wants an answer is forgotten.                           *)
(***************************************************************************)
Excused(r) == ChannelOf[r] \notin open \/ r \in broken

(* It waits for a worker, or a worker has it, or its reply waits for the   *)
(* handler thread, is being written, or was written as a whole.            *)
OnItsWay(r) ==
  \/ status[r] \in {"queued", "running", "null"}
  \/ r \in ToSet(tasks[ChannelOf[r]])
  \/ writing[ChannelOf[r]] = r
  \/ Answered(r)

WantedOnItsWay ==
  \A r \in wants : status[r] # "none" /\ (OnItsWay(r) \/ Excused(r))

(* What was written stays written. *)
LEMMA WireGrows ==
  ASSUME IInv, [Next]_vars, NEW c \in Channels
  PROVE  /\ Len(wire[c]) \in Nat /\ Len(wire'[c]) \in Nat /\ Len(wire[c]) <= Len(wire'[c])
         /\ \A i \in 1..Len(wire[c]) : wire'[c][i] = wire[c][i]
         /\ \A r \in Requests : Excused(r) => Excused(r)'
<1> USE DEF requestVars, wireVars
<1>0. wire[c] \in Seq(Parts) /\ wire'[c] \in Seq(Parts)
  BY Elements, StepWires DEF IInv
<1>1. wire'[c] = wire[c] \/ \E p : wire'[c] = Append(wire[c], p)
  <2>1. ASSUME NEW d \in Channels, NEW p, Put(d, p)
        PROVE  wire'[c] = wire[c] \/ wire'[c] = Append(wire[c], p)
    BY <2>1 DEF Put, IInv, TypeOK
  <2>2. UNCHANGED wire \/ \E d \in Channels : \E p : Put(d, p)
    BY DispatchAssumption
    DEF Next, Decline, Submit, Overload, ReadRequest, WorkerStep, Respond, RespondNull, Throw, Take,
        WriterStep, Write, WriteNext, WritePackage, EncodeFails, BreakOff, ConnectionLost, vars
  <2>3. QED
    BY <2>1, <2>2
<1>2. open' \subseteq open /\ broken \subseteq broken'
  BY DEF Next, Decline, Submit, Overload, ReadRequest, WorkerStep, Respond, RespondNull, Throw, Take,
         WriterStep, Write, WriteNext, WritePackage, EncodeFails, BreakOff, ConnectionLost, vars
<1>3. QED
  BY <1>0, <1>1, <1>2 DEF Excused

LEMMA AnsweredStays ==
  ASSUME IInv, [Next]_vars, NEW r \in Requests, Answered(r)
  PROVE  Answered(r)'
<1> DEFINE c == ChannelOf[r]
<1>1. c \in Channels
  BY DispatchAssumption
<1>2. PICK i \in 1..Len(wire[c]) : wire[c][i] = Part(r, size[r])
  BY DEF Answered
<1>3. status[r] = "done"
  <2>1. wire[c][i].request = r
    BY <1>2 DEF Part
  <2>2. QED
    BY <1>1, <2>1 DEF IInv, WireInv, WrittenSoFar
<1>4. size'[r] = size[r]
  BY <1>3, StepRequests DEF IInv, DoneStays
<1>5. i \in 1..Len(wire'[c]) /\ wire'[c][i] = Part(r, size'[r])
  BY <1>1, <1>2, <1>4, WireGrows
<1>6. QED
  BY <1>5 DEF Answered

(* A part written to an open connection is there. *)
LEMMA PutAnswers ==
  ASSUME TypeOK, NEW r \in Requests, size' = size, ChannelOf[r] \in open, Put(ChannelOf[r], Part(r, size[r]))
  PROVE  Answered(r)'
<1> DEFINE c == ChannelOf[r]
           n == Len(wire[c])
<1>1. c \in Channels /\ wire[c] \in Seq(Parts) /\ Part(r, size[r]) \in Parts
  BY DispatchAssumption, PartFacts DEF TypeOK
<1>2. wire'[c] = Append(wire[c], Part(r, size[r]))
  BY <1>1, PutFacts DEF TypeOK
<1>3. n + 1 \in 1..Len(wire'[c]) /\ wire'[c][n + 1] = Part(r, size'[r])
  BY <1>1, <1>2
<1>4. QED
  BY <1>3 DEF Answered

(* The handler thread reads a request: one that wants an answer is queued  *)
(* or answered at once.                                                    *)
LEMMA ReadOnItsWay ==
  ASSUME IInv, WantedOnItsWay, NEW q \in Requests, NEW w \in BOOLEAN,
         Decline(q, w) \/ Submit(q, w) \/ Overload(q, w),
         NEW r \in wants'
  PROVE  status'[r] # "none" /\ (OnItsWay(r)' \/ Excused(r)')
<1>0. /\ status[q] = "none" /\ ChannelOf[q] \in open /\ UNCHANGED <<size, tasks, writing, open, broken>>
      /\ wants' = (IF w THEN wants \cup {q} ELSE wants) /\ wants \subseteq Requests
      /\ status \in [Requests -> Statuses]
  BY DEF Decline, Submit, Overload, ReadRequest, IInv, TypeOK
<1>1. CASE r = q
  <2>1. w
    BY <1>0, <1>1 DEF WantedOnItsWay
  <2>2. CASE Submit(q, w)
    BY <1>0, <1>1, <2>2 DEF Submit, Goes, OnItsWay
  <2>3. CASE Decline(q, w) \/ Overload(q, w)
    <3>1. status'[q] = "done" /\ Put(ChannelOf[q], Part(q, 0)) /\ size[q] = 0
      BY <1>0, <2>1, <2>3 DEF Decline, Overload, Goes, IInv, SizesLate
    <3>2. Answered(q)'
      BY <1>0, <3>1, PutAnswers DEF IInv
    <3>3. QED
      BY <1>1, <3>1, <3>2 DEF OnItsWay
  <2>4. QED
    BY <2>2, <2>3
<1>2. CASE r # q
  <2>1. r \in wants /\ r \in Requests
    BY <1>0, <1>2
  <2>2. status'[r] = status[r]
    BY <1>0, <1>2, <2>1 DEF Decline, Submit, Overload, Goes
  <2>3. Next
    BY DEF Next
  <2>4. QED
    BY <1>0, <2>1, <2>2, <2>3, AnsweredStays DEF WantedOnItsWay, OnItsWay, Excused
<1>3. QED
  BY <1>1, <1>2

(* A worker takes a request and hands its reply to the handler thread. *)
LEMMA WorkOnItsWay ==
  ASSUME IInv, WantedOnItsWay, Take \/ \E q \in Requests : WorkerStep(q),
         NEW r \in wants'
  PROVE  status'[r] # "none" /\ (OnItsWay(r)' \/ Excused(r)')
<1> USE DEF requestVars, wireVars
<1>0. /\ wants' = wants /\ wants \subseteq Requests /\ UNCHANGED wireVars
      /\ status \in [Requests -> Statuses] /\ tasks \in [Channels -> Seq(Requests)]
      /\ ChannelOf[r] \in Channels /\ r \in Requests
  BY DispatchAssumption
  DEF Take, WorkerStep, Respond, RespondNull, Throw, ReplyIfWanted, Reply, IInv, TypeOK
<1>1. Next
  BY DEF Next
<1>2. CASE Take
  <2>1. queue # <<>> /\ queue \in Seq(Requests) /\ ToSet(queue) = Waiting /\ IsInjective(queue)
    BY <1>2 DEF Take, IInv, TypeOK
  <2>2. Head(queue) \in Requests
    BY <2>1, Dequeued
  <2>3. UNCHANGED tasks /\ (status'[r] = "running" \/ status'[r] = status[r])
    BY <1>0, <1>2, <2>2 DEF Take, Goes
  <2>4. QED
    BY <1>0, <1>1, <2>3, AnsweredStays DEF WantedOnItsWay, OnItsWay, Excused
<1>3. ASSUME NEW q \in Requests, WorkerStep(q)
      PROVE  status'[r] # "none" /\ (OnItsWay(r)' \/ Excused(r)')
  <2>1. CASE r = q
    <3>1. status'[r] = "null" \/ (status'[r] = "done" /\ tasks'[ChannelOf[r]] = Append(tasks[ChannelOf[r]], r))
      BY <1>0, <1>3, <2>1 DEF WorkerStep, Respond, RespondNull, Throw, ReplyIfWanted, Reply, Goes
    <3>2. r \in ToSet(Append(tasks[ChannelOf[r]], r))
      <4> DEFINE s == tasks[ChannelOf[r]]
      <4>1. s \in Seq(Requests)
        BY <1>0
      <4> HIDE DEF s
      <4>2. /\ DOMAIN Append(s, r) = 1..(Len(s) + 1) /\ Len(s) + 1 \in 1..(Len(s) + 1)
            /\ Append(s, r)[Len(s) + 1] = r
        BY <1>0, <4>1
      <4>3. r \in ToSet(Append(s, r))
        BY <4>2 DEF ToSet
      <4>4. QED
        BY <4>3 DEF s
    <3>3. QED
      BY <3>1, <3>2 DEF OnItsWay
  <2>2. CASE r # q
    <3>1. status'[r] = status[r]
      BY <1>0, <1>3, <2>2 DEF WorkerStep, Respond, RespondNull, Throw, ReplyIfWanted, Reply, Goes
    <3>2. ToSet(tasks[ChannelOf[r]]) \subseteq ToSet(tasks'[ChannelOf[r]])
      <4>1. tasks[ChannelOf[r]] \in Seq(Requests)
        BY <1>0
      <4>2. \/ tasks'[ChannelOf[r]] = tasks[ChannelOf[r]]
            \/ tasks'[ChannelOf[r]] = Append(tasks[ChannelOf[r]], q)
        <5>1. UNCHANGED tasks \/ tasks' = [tasks EXCEPT ![ChannelOf[q]] = Append(@, q)]
          BY <1>3 DEF WorkerStep, Respond, RespondNull, Throw, ReplyIfWanted, Reply
        <5>2. QED
          BY <1>0, <5>1
      <4>3. QED
        BY <4>1, <4>2 DEF ToSet
    <3>3. QED
      BY <1>0, <1>1, <3>1, <3>2, AnsweredStays DEF WantedOnItsWay, OnItsWay, Excused
  <2>3. QED
    BY <2>1, <2>2
<1>4. QED
  BY <1>2, <1>3

(* The handler thread writes: the last part of a reply is the answer. *)
LEMMA WriteOnItsWay ==
  ASSUME IInv, WantedOnItsWay, NEW c \in Channels,
         WriterStep(c) \/ EncodeFails(c) \/ BreakOff(c) \/ ConnectionLost(c),
         NEW r \in wants'
  PROVE  status'[r] # "none" /\ (OnItsWay(r)' \/ Excused(r)')
<1> USE DEF requestVars
<1>0. /\ UNCHANGED requestVars /\ r \in wants /\ r \in Requests /\ ChannelOf[r] \in Channels
      /\ tasks \in [Channels -> Seq(Requests)] /\ writing \in [Channels -> Requests \cup {Nothing}]
  BY DispatchAssumption
  DEF WriterStep, Write, WriteNext, WritePackage, EncodeFails, BreakOff, ConnectionLost, IInv, TypeOK
<1>1. Next
  BY DEF Next
<1>2. status'[r] # "none" /\ (OnItsWay(r) \/ Excused(r))
  BY <1>0 DEF WantedOnItsWay
<1>3. CASE Excused(r)
  BY <1>0, <1>1, <1>2, <1>3, WireGrows
<1>4. CASE OnItsWay(r) /\ ~Excused(r) /\ ChannelOf[r] # c
  <2>1. tasks'[ChannelOf[r]] = tasks[ChannelOf[r]] /\ writing'[ChannelOf[r]] = writing[ChannelOf[r]]
    BY <1>0, <1>4 DEF WriterStep, Write, WriteNext, WritePackage, EncodeFails, BreakOff, ConnectionLost
  <2>2. QED
    BY <1>0, <1>1, <1>2, <1>4, <2>1, AnsweredStays DEF OnItsWay
<1>5. CASE OnItsWay(r) /\ ~Excused(r) /\ ChannelOf[r] = c
  <2>0. c \in open
    BY <1>5 DEF Excused
  <2>1. CASE EncodeFails(c) \/ ConnectionLost(c)
    <3>1. Excused(r)'
      BY <1>5, <2>1 DEF EncodeFails, ConnectionLost, Excused
    <3>2. QED
      BY <1>2, <3>1
  <2>2. CASE BreakOff(c)
    <3>1. CASE writing[c] = r
      <4>1. Excused(r)'
        BY <2>2, <3>1 DEF BreakOff, Excused
      <4>2. QED
        BY <1>2, <4>1
    <3>2. CASE writing[c] # r
      <4>1. UNCHANGED tasks
        BY <2>2 DEF BreakOff
      <4>2. QED
        BY <1>0, <1>1, <1>2, <1>5, <3>2, <4>1, AnsweredStays DEF OnItsWay
    <3>3. QED
      BY <3>1, <3>2
  <2>3. CASE Write(c)
    <3>1. /\ tasks[c] # <<>> /\ writing[c] = Nothing /\ Put(c, Part(Head(tasks[c]), 0))
          /\ tasks'[c] = Tail(tasks[c])
          /\ writing'[c] = IF size[Head(tasks[c])] = 0 THEN Nothing ELSE Head(tasks[c])
      BY <1>0, <2>3 DEF Write, WriteNext
    <3>2. ToSet(tasks'[c]) = ToSet(tasks[c]) \ {Head(tasks[c])}
      BY <1>0, <3>1, Dequeued DEF IInv, WireInv, TasksUnwritten
    <3>3. CASE r = Head(tasks[c])
      <4>1. CASE size[r] = 0
        BY <1>0, <1>2, <1>5, <2>0, <3>1, <3>3, <4>1, PutAnswers DEF OnItsWay, IInv
      <4>2. CASE size[r] # 0
        BY <1>2, <1>5, <3>1, <3>3, <4>2 DEF OnItsWay
      <4>3. QED
        BY <4>1, <4>2
    <3>4. CASE r # Head(tasks[c])
      <4>1. writing[c] # r
        BY <1>0, <3>1, DispatchAssumption
      <4>2. QED
        BY <1>0, <1>1, <1>2, <1>5, <3>2, <3>4, <4>1, AnsweredStays DEF OnItsWay
    <3>5. QED
      BY <3>3, <3>4
  <2>4. CASE WritePackage(c)
    <3>1. /\ Put(c, Part(writing[c], size[writing[c]] - left[c] + 1)) /\ UNCHANGED tasks
          /\ writing'[c] = IF left[c] = 1 THEN Nothing ELSE writing[c]
      BY <1>0, <2>4 DEF WritePackage
    <3>2. CASE writing[c] = r /\ left[c] = 1
      <4>1. size[r] - 1 + 1 = size[r]
        <5>1. size[r] \in Int
          BY <1>0, DispatchAssumption DEF IInv, TypeOK
        <5>2. QED
          BY <5>1
      <4>2. Put(c, Part(r, size[r]))
        BY <3>1, <3>2, <4>1
      <4>3. QED
        BY <1>0, <1>2, <1>5, <2>0, <4>2, PutAnswers DEF OnItsWay, IInv
    <3>3. CASE ~(writing[c] = r /\ left[c] = 1)
      BY <1>0, <1>1, <1>2, <1>5, <3>1, <3>3, AnsweredStays DEF OnItsWay
    <3>4. QED
      BY <3>2, <3>3
  <2>5. QED
    BY <1>5, <2>1, <2>2, <2>3, <2>4 DEF WriterStep
<1>6. QED
  BY <1>2, <1>3, <1>4, <1>5

(* The safety half of EveryRequestAnswered: at every moment a request that *)
(* wants an answer is waiting in the pool's queue, in the hands of a       *)
(* worker, or has its reply queued, being written or written - unless the  *)
(* processor returned null, its connection has ended, or its own file was  *)
(* broken off.                                                             *)
THEOREM NoRequestForgotten ==
  Spec => [](\A r \in wants :
               \/ r \in ToSet(queue) \/ status[r] \in {"running", "null"}
               \/ r \in ToSet(tasks[ChannelOf[r]]) \/ writing[ChannelOf[r]] = r
               \/ Answered(r)
               \/ ChannelOf[r] \notin open \/ r \in broken)
<1>1. Init => WantedOnItsWay
  BY DEF Init, WantedOnItsWay
<1>2. IInv /\ WantedOnItsWay /\ [Next]_vars => WantedOnItsWay'
  <2>1. ASSUME IInv, WantedOnItsWay, UNCHANGED vars PROVE WantedOnItsWay'
    BY <2>1 DEF WantedOnItsWay, OnItsWay, Excused, Answered, vars, requestVars, wireVars
  <2>2. ASSUME IInv, WantedOnItsWay, Next PROVE WantedOnItsWay'
    BY <2>2, ReadOnItsWay, WorkOnItsWay, WriteOnItsWay DEF Next, WantedOnItsWay
  <2>3. QED
    BY <2>1, <2>2
<1>3. IInv /\ WantedOnItsWay => \A r \in wants :
               \/ r \in ToSet(queue) \/ status[r] \in {"running", "null"}
               \/ r \in ToSet(tasks[ChannelOf[r]]) \/ writing[ChannelOf[r]] = r
               \/ Answered(r)
               \/ ChannelOf[r] \notin open \/ r \in broken
  BY DEF IInv, TypeOK, Waiting, WantedOnItsWay, OnItsWay, Excused
<1>4. QED
  BY <1>1, <1>2, <1>3, InitIInv, StepIInv, PTL DEF Spec
=============================================================================
