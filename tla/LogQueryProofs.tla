--------------------------- MODULE LogQueryProofs ---------------------------
(***************************************************************************)
(* Proofs about LogQuery, with ConfigReload and LogMerge: types, that a    *)
(* log that is shown leaves out nothing silently, that the merge keeps the *)
(* order, and that the configuration that is served is the one that was    *)
(* seen.  The inductive invariant says what is true of the half-made list  *)
(* of lines and of the half-made stacks.                                   *)
(***************************************************************************)
EXTENDS LogQuery, FiniteSetTheorems, TLAPS

(***************************************************************************)
(* The inductive invariant.                                                *)
(***************************************************************************)
(* What the loader has assigned of the text that it has read. *)
ConfigInv ==
  /\ loader = "mapping" => serverNodeLogs = json
  /\ loader = "publishing" => serverNodeLogs = json /\ serverNodeMap = json

(* The tasks: a task that returned has a result or an error. *)
TasksInv ==
  /\ task \in [Nodes -> TaskStages]
  /\ \A n \in Nodes : task[n] # "none" <=> n \in Asked
  /\ Cardinality(InPool) <= PoolThreads /\ IsFiniteSet(InPool)
  /\ DOMAIN result = Nodes
  /\ \A n \in Nodes : result[n] # None => result[n] \in Logs(n) /\ task[n] = "returned"
  /\ errors \subseteq {n \in Asked : task[n] = "returned"}
  /\ \A n \in Nodes : task[n] = "returned" /\ n \notin errors => result[n] # None

(* The variables of the merge, and the answer: all tasks are over when it  *)
(* begins, and no line is parsed before all are collected.                 *)
MergeInv ==
  /\ query \in QueryStages
  /\ ips \in Seq(Nodes) /\ IsInjective(ips)
  /\ lineList \in Seq(Lines)
  /\ parsed \in 0..Len(lineList) /\ collected \in 0..Len(ips)
  /\ logList \in Seq(Stacks) /\ answer \in Seq(Stacks)
  /\ misread \subseteq Lines
  /\ query # "merging" => collected = 0 /\ lineList = <<>> /\ logList = <<>>
  /\ query # "answered" => answer = <<>>
  /\ query \in {"merging", "answered"} => \A n \in Asked : task[n] = "returned"
  /\ collected < Len(ips) => parsed = 0 /\ logList = <<>>

(* The lines collected are those of the nodes before, ... *)
CollectedFromNodes ==
  \A p \in 1..Len(lineList) : \E k \in 1..collected :
    /\ result[ips[k]] # None
    /\ lineList[p].row \in 1..Len(result[ips[k]])
    /\ lineList[p] = LineOf(ips[k], lineList[p].row)

(* ... all of them, ... *)
CollectedAll ==
  \A k \in 1..collected :
    result[ips[k]] # None =>
      \A i \in 1..Len(result[ips[k]]) :
        \E p \in 1..Len(lineList) : lineList[p] = LineOf(ips[k], i)

(* ... in their order, ... *)
CollectedInOrder ==
  \A p, u \in 1..Len(lineList) :
    p < u /\ lineList[p].node = lineList[u].node => lineList[p].row < lineList[u].row

(* ... and without a gap. *)
CollectedAdjacent ==
  \A p \in 1..Len(lineList) :
    lineList[p].row > 1 =>
      /\ p > 1
      /\ lineList[p - 1].node = lineList[p].node
      /\ lineList[p - 1].row = lineList[p].row - 1

CollectedInv ==
  CollectedFromNodes /\ CollectedAll /\ CollectedInOrder /\ CollectedAdjacent

(* The stacks hold lines that were parsed, ... *)
StackedParsed ==
  \A s \in 1..Len(logList) : \A q \in 1..Len(logList[s].lines) :
    \E p \in 1..parsed : logList[s].lines[q] = lineList[p]

(* ... in their order, ... *)
StackedInOrder ==
  \A s, t \in 1..Len(logList) :
    \A q \in 1..Len(logList[s].lines), r \in 1..Len(logList[t].lines), p, u \in 1..parsed :
      /\ s < t \/ (s = t /\ q < r)
      /\ logList[s].lines[q] = lineList[p]
      /\ logList[t].lines[r] = lineList[u]
      => p < u

(* ... a stack without a gap, ... *)
StackedAdjacent ==
  \A s \in 1..Len(logList) :
    \A q \in 2..Len(logList[s].lines), p \in 1..parsed :
      logList[s].lines[q] = lineList[p] =>
        p > 1 /\ logList[s].lines[q - 1] = lineList[p - 1]

(* ... up to the line that was parsed last, ... *)
StackedLast ==
  logList # <<>> =>
    /\ parsed > 0
    /\ LET last == logList[Len(logList)].lines IN last[Len(last)] = lineList[parsed]

(* ... and all of them from the first whose time was read. *)
StackedAll ==
  \A p \in 1..parsed :
    (\E j \in 1..p : lineList[j].time # NoTime /\ lineList[j] \notin misread) =>
      \E s \in 1..Len(logList) : \E q \in 1..Len(logList[s].lines) :
        logList[s].lines[q] = lineList[p]

(* A line whose time was read begins a stack of this time, and one without *)
(* a time never does.                                                      *)
StackedHeads ==
  \A s \in 1..Len(logList) : \A q \in 1..Len(logList[s].lines) :
    LET line == logList[s].lines[q] IN
    /\ line.time = NoTime => q > 1
    /\ line.time # NoTime /\ line \notin misread => q = 1 /\ logList[s].time = line.time

StackedInv ==
  /\ StackedParsed /\ StackedInOrder /\ StackedAdjacent
  /\ StackedLast /\ StackedAll /\ StackedHeads

IInv ==
  /\ ConfigTypeOK /\ ConfigInv
  /\ TasksInv /\ MergeInv
  /\ query = "merging" => CollectedInv /\ StackedInv
  /\ NothingLostSilently /\ MergeKeepsOrder

(***************************************************************************)
(* The configuration.                                                      *)
(***************************************************************************)
(* The timer thread and the writers of the file keep the types and what is *)
(* known of the loader.                                                    *)
LEMMA ConfigStep ==
  ASSUME ConfigTypeOK, ConfigInv, [ConfigNext]_configVars
  PROVE  ConfigTypeOK' /\ ConfigInv'
<1> USE ConfigAssumption DEF ConfigTypeOK, ConfigInv, fileVars, loadedVars, LoaderStages, Good
<1>1. ASSUME NEW c \in Contents, NEW t \in 1..MaxTime, WriteFile(c, t)
      PROVE  ConfigTypeOK' /\ ConfigInv'
  BY <1>1 DEF WriteFile
<1>2. CASE DeleteFile
  BY <1>2 DEF DeleteFile
<1>3. CASE LoadConfig
  BY <1>3 DEF LoadConfig
<1>4. CASE Compare
  BY <1>4 DEF Compare
<1>5. CASE Note
  BY <1>5 DEF Note
<1>6. CASE ReadFile
  BY <1>6 DEF ReadFile, AfterRefresh
<1>7. CASE MapNodes
  BY <1>7 DEF MapNodes, AfterRefresh
<1>8. CASE Publish
  BY <1>8 DEF Publish, AfterRefresh
<1>9. CASE UNCHANGED configVars
  BY <1>9 DEF configVars
<1> QED BY <1>1, <1>2, <1>3, <1>4, <1>5, <1>6, <1>7, <1>8, <1>9 DEF ConfigNext, LoaderStep

(***************************************************************************)
(* Parsing a line.                                                         *)
(***************************************************************************)
(* The stacks "new" are the stacks "old" with a line that was read to have *)
(* the time t, in place Q of stack S.                                      *)
Grown(old, new, line, t, S, Q) ==
  /\ S \in 1..Len(new) /\ S = Len(new)
  /\ Q \in 1..Len(new[S].lines) /\ Q = Len(new[S].lines)
  /\ new[S].lines[Q] = line
  /\ \A s \in 1..Len(old) :
       /\ s \in 1..Len(new) /\ new[s].time = old[s].time
       /\ \A q \in 1..Len(old[s].lines) :
            /\ q \in 1..Len(new[s].lines) /\ new[s].lines[q] = old[s].lines[q]
            /\ s < S \/ (s = S /\ q < Q)
  /\ \A s \in 1..Len(new) : \A q \in 1..Len(new[s].lines) :
       s # S \/ q # Q => s \in 1..Len(old) /\ q \in 1..Len(old[s].lines)
  /\ t # NoTime => Q = 1 /\ new[S].time = t
  /\ t = NoTime => S = Len(old) /\ Q = Len(old[S].lines) + 1 /\ Q > 1

(* A stack is a record of its two fields, with a line at least. *)
LEMMA StackType ==
  ASSUME NEW stack \in Stacks
  PROVE  /\ stack.time \in Times
         /\ stack.lines \in Seq(Lines)
         /\ Len(stack.lines) \in Nat \ {0}
  BY DEF Stacks

(* A line appended to the lines of a stack. *)
LEMMA StackWithLine ==
  ASSUME NEW stack \in [time : Times, lines : Seq(Lines)], NEW line \in Lines
  PROVE  LET longer == [stack EXCEPT !.lines = Append(@, line)] IN
         /\ longer \in [time : Times, lines : Seq(Lines)]
         /\ longer.time = stack.time /\ longer.lines = Append(stack.lines, line)
  OBVIOUS

(* AddLine puts the line last, unless it has no stack to put it to. *)
LEMMA AddLineGrows ==
  ASSUME NEW old \in Seq(Stacks), NEW line \in Lines, NEW t \in Times \cup {NoTime},
         t # NoTime \/ old # <<>>
  PROVE  /\ AddLine(old, line, t) \in Seq(Stacks)
         /\ \E S, Q \in Nat : Grown(old, AddLine(old, line, t), line, t, S, Q)
<1> DEFINE new == AddLine(old, line, t)
<1>1. CASE t # NoTime
  <2> DEFINE stack == [time |-> t, lines |-> <<line>>]
  <2>1. new = Append(old, stack)
    BY <1>1 DEF AddLine
  <2>2. stack \in Stacks
    BY <1>1 DEF Stacks
  <2>3. new \in Seq(Stacks)
    BY <2>1, <2>2
  <2>4. Grown(old, new, line, t, Len(old) + 1, 1)
    BY <1>1, <2>1, <2>2, StackType DEF Grown
  <2> QED BY <2>3, <2>4
<1>2. CASE t = NoTime
  <2> DEFINE n == Len(old)
             last == [old[n] EXCEPT !.lines = Append(@, line)]
  <2>1. n \in 1..Len(old) /\ old[n] \in Stacks
    BY <1>2
  <2>2. new = [old EXCEPT ![n] = last]
    BY <1>2 DEF AddLine
  <2>3. last \in Stacks /\ last.time = old[n].time /\ last.lines = Append(old[n].lines, line)
    <3>1. old[n] \in [time : Times, lines : Seq(Lines)]
      BY <2>1 DEF Stacks
    <3>2. /\ last \in [time : Times, lines : Seq(Lines)]
          /\ last.time = old[n].time /\ last.lines = Append(old[n].lines, line)
      BY <3>1, StackWithLine
    <3>3. last.lines # <<>>
      BY <3>1, <3>2
    <3> QED BY <3>2, <3>3 DEF Stacks
  <2> HIDE DEF new, last
  <2>4. new \in Seq(Stacks) /\ Len(new) = n
    BY <2>1, <2>2, <2>3
  <2>5. /\ new[n] = last
        /\ \A s \in 1..n : s # n => new[s] = old[s]
    BY <2>1, <2>2, <2>3
  <2>6. \A s \in 1..n : Len(old[s].lines) \in Nat \ {0}
    BY StackType
  <2>7. Len(last.lines) = Len(old[n].lines) + 1 /\ last.lines[Len(last.lines)] = line
    BY <2>1, <2>3, StackType
  <2>8. \A q \in 1..Len(old[n].lines) : last.lines[q] = old[n].lines[q]
    BY <2>1, <2>3, StackType
  <2>9. Len(last.lines) > 1 /\ Len(last.lines) \in Nat
    BY <2>1, <2>6, <2>7
  <2>10. ASSUME NEW s \in 1..n
         PROVE  /\ new[s].time = old[s].time
                /\ \A q \in 1..Len(old[s].lines) :
                     /\ q \in 1..Len(new[s].lines) /\ new[s].lines[q] = old[s].lines[q]
                     /\ s < n \/ (s = n /\ q < Len(last.lines))
    <3>1. CASE s = n
      BY <3>1, <2>3, <2>5, <2>6, <2>7, <2>8
    <3>2. CASE s # n
      BY <3>2, <2>5
    <3> QED BY <3>1, <3>2
  <2>11. ASSUME NEW s \in 1..n, NEW q \in 1..Len(new[s].lines), s # n \/ q # Len(last.lines)
         PROVE  q \in 1..Len(old[s].lines)
    BY <2>5, <2>6, <2>7, <2>11
  <2>12. Grown(old, new, line, t, n, Len(last.lines))
    BY <1>2, <2>1, <2>4, <2>5, <2>7, <2>9, <2>10, <2>11 DEF Grown
  <2> QED BY <2>1, <2>4, <2>9, <2>12 DEF new
<1> QED BY <1>1, <1>2

(* No line is twice in the list. *)
LEMMA LinesDistinct ==
  ASSUME lineList \in Seq(Lines), CollectedInOrder,
         NEW p \in 1..Len(lineList), NEW u \in 1..Len(lineList), lineList[p] = lineList[u]
  PROVE  p = u
<1>1. lineList[p] \in Lines
  OBVIOUS
<1>2. lineList[p].row \in Nat
  BY <1>1 DEF Lines
<1>3. ~(p < u) /\ ~(u < p)
  BY <1>2 DEF CollectedInOrder
<1> QED BY <1>3

(* One more line is parsed: the stacks hold what they should. *)
LEMMA ParseKeepsStacks ==
  ASSUME TasksInv, MergeInv, CollectedInOrder, StackedInv, Parse
  PROVE  StackedInv' /\ logList' \in Seq(Stacks)
<1> DEFINE line == lineList[parsed + 1]
<1>1. /\ parsed \in Nat /\ parsed + 1 \in 1..Len(lineList) /\ parsed < parsed + 1
      /\ \A p \in 1..parsed : p \in 1..Len(lineList)
      /\ \A p \in 1..parsed + 1 : p \in 1..parsed \/ p = parsed + 1
      /\ lineList \in Seq(Lines) /\ line \in Lines
      /\ parsed' = parsed + 1 /\ lineList' = lineList
  BY DEF TasksInv, MergeInv, Parse, ParseLine
<1>2. PICK t \in ReadAs(line) :
        /\ logList' = AddLine(logList, line, t)
        /\ \/ t = line.time /\ misread' = misread
           \/ t # line.time /\ misread' = misread \cup {line}
  BY DEF Parse, ParseLine
<1>3. /\ logList \in Seq(Stacks)
      /\ t \in Times \cup {NoTime}
      /\ line.time = NoTime => t = NoTime
      /\ line.time # NoTime /\ line \notin misread' => t = line.time
      /\ misread \subseteq misread'
  BY <1>2 DEF TasksInv, MergeInv, ReadAs
<1>4. \A p, u \in 1..Len(lineList) : lineList[p] = lineList[u] => p = u
  BY <1>1, LinesDistinct
<1> HIDE DEF line
<1>5. CASE t = NoTime /\ logList = <<>>
  <2>1. logList' = <<>>
    BY <1>2, <1>5 DEF AddLine
  <2>2. StackedAll'
    <3> SUFFICES ASSUME NEW p \in 1..parsed + 1, NEW j \in 1..p,
                        lineList[j].time # NoTime, lineList[j] \notin misread'
                 PROVE  FALSE
      BY <1>1 DEF StackedAll
    <3>1. CASE j = parsed + 1
      BY <1>3, <1>5, <3>1 DEF line
    <3>2. CASE j \in 1..parsed
      BY <1>3, <1>5, <3>2 DEF StackedInv, StackedAll
    <3> QED BY <1>1, <3>1, <3>2
  <2> QED BY <2>1, <2>2 DEF StackedInv, StackedParsed, StackedInOrder, StackedAdjacent,
                             StackedLast, StackedHeads
<1>6. CASE t # NoTime \/ logList # <<>>
  <2>1. logList' \in Seq(Stacks)
    BY <1>1, <1>2, <1>3, <1>6, AddLineGrows
  <2>2. PICK S, Q \in Nat : Grown(logList, logList', line, t, S, Q)
    BY <1>1, <1>2, <1>3, <1>6, AddLineGrows
  <2>3. \A s \in 1..Len(logList) : \A q \in 1..Len(logList[s].lines) :
          \A p \in 1..parsed + 1 : logList[s].lines[q] = lineList[p] => p \in 1..parsed
    <3> SUFFICES ASSUME NEW s \in 1..Len(logList), NEW q \in 1..Len(logList[s].lines),
                        NEW p \in 1..parsed + 1, logList[s].lines[q] = lineList[p]
                 PROVE  p \in 1..parsed
      OBVIOUS
    <3>1. PICK u \in 1..parsed : logList[s].lines[q] = lineList[u]
      BY DEF StackedInv, StackedParsed
    <3> QED BY <1>1, <1>4, <3>1
  <2>4. \A p \in 1..parsed + 1 : lineList[p] = line => p = parsed + 1
    BY <1>1, <1>4 DEF line
  <2>5. StackedParsed'
    BY <1>1, <2>2 DEF StackedInv, StackedParsed, Grown, line
  <2>6. StackedInOrder'
    <3> SUFFICES ASSUME NEW s \in 1..Len(logList'), NEW r \in 1..Len(logList')
                 PROVE  \A q \in 1..Len(logList'[s].lines), v \in 1..Len(logList'[r].lines) :
                          \A p, u \in 1..parsed' :
                            /\ s < r \/ (s = r /\ q < v)
                            /\ logList'[s].lines[q] = lineList'[p]
                            /\ logList'[r].lines[v] = lineList'[u]
                            => p < u
      BY DEF StackedInOrder
    <3> SUFFICES ASSUME NEW q \in 1..Len(logList'[s].lines), NEW v \in 1..Len(logList'[r].lines),
                        NEW p \in 1..parsed', NEW u \in 1..parsed',
                        s < r \/ (s = r /\ q < v),
                        logList'[s].lines[q] = lineList'[p],
                        logList'[r].lines[v] = lineList'[u]
                 PROVE  p < u
      OBVIOUS
    <3>0. /\ p \in 1..parsed + 1 /\ logList'[s].lines[q] = lineList[p]
          /\ u \in 1..parsed + 1 /\ logList'[r].lines[v] = lineList[u]
      BY <1>1
    <3>1. s # S \/ q # Q
      BY <2>2 DEF Grown
    <3>2. /\ s \in 1..Len(logList) /\ q \in 1..Len(logList[s].lines)
          /\ logList[s].lines[q] = lineList[p]
      BY <2>2, <3>0, <3>1 DEF Grown
    <3>3. p \in 1..parsed
      BY <2>3, <3>0, <3>2
    <3>4. CASE r = S /\ v = Q
      BY <1>1, <2>2, <2>4, <3>0, <3>3, <3>4 DEF Grown
    <3>5. CASE r # S \/ v # Q
      <4>1. /\ r \in 1..Len(logList) /\ v \in 1..Len(logList[r].lines)
            /\ logList[r].lines[v] = lineList[u]
        BY <2>2, <3>0, <3>5 DEF Grown
      <4>2. u \in 1..parsed
        BY <2>3, <3>0, <4>1
      <4>3. \A x \in 1..Len(logList[s].lines), y \in 1..Len(logList[r].lines) :
              \A i, j \in 1..parsed :
                /\ s < r \/ (s = r /\ x < y)
                /\ logList[s].lines[x] = lineList[i]
                /\ logList[r].lines[y] = lineList[j]
                => i < j
        BY <3>2, <4>1 DEF StackedInv, StackedInOrder
      <4> QED BY <3>2, <3>3, <4>1, <4>2, <4>3
    <3> QED BY <3>4, <3>5
  <2>7. StackedAdjacent'
    <3> SUFFICES ASSUME NEW s \in 1..Len(logList'), NEW q \in 2..Len(logList'[s].lines),
                        NEW p \in 1..parsed + 1, logList'[s].lines[q] = lineList[p]
                 PROVE  p > 1 /\ logList'[s].lines[q - 1] = lineList[p - 1]
      BY <1>1 DEF StackedAdjacent
    <3>1. CASE s = S /\ q = Q
      <4>1. p = parsed + 1
        BY <2>2, <2>4, <3>1 DEF Grown
      <4>2. t = NoTime /\ S = Len(logList) /\ Q - 1 = Len(logList[S].lines)
        BY <2>2, <3>1 DEF Grown
      <4>3. logList # <<>> /\ S \in 1..Len(logList) /\ Q - 1 \in 1..Len(logList[S].lines)
        BY <1>3, <1>6, <2>2, <3>1, <4>2 DEF Grown
      <4>4. parsed > 0 /\ logList[S].lines[Q - 1] = lineList[parsed]
        BY <4>2, <4>3 DEF StackedInv, StackedLast
      <4>5. logList'[S].lines[Q - 1] = logList[S].lines[Q - 1]
        BY <2>2, <4>3 DEF Grown
      <4> QED BY <1>1, <3>1, <4>1, <4>4, <4>5
    <3>2. CASE s # S \/ q # Q
      <4>1. s \in 1..Len(logList) /\ q \in 2..Len(logList[s].lines)
        BY <2>2, <3>2 DEF Grown
      <4>2. /\ logList[s] \in Stacks
            /\ q - 1 \in 1..Len(logList[s].lines) /\ q \in 1..Len(logList[s].lines)
        BY <1>3, <4>1, StackType
      <4>3. /\ logList'[s].lines[q] = logList[s].lines[q]
            /\ logList'[s].lines[q - 1] = logList[s].lines[q - 1]
        BY <2>2, <4>1, <4>2 DEF Grown
      <4>4. p \in 1..parsed
        BY <2>3, <4>1, <4>2, <4>3
      <4> QED BY <4>1, <4>3, <4>4 DEF StackedInv, StackedAdjacent
    <3> QED BY <3>1, <3>2
  <2>8. StackedLast'
    BY <1>1, <2>2 DEF StackedLast, Grown, line
  <2>9. StackedAll'
    <3> SUFFICES ASSUME NEW p \in 1..parsed + 1, NEW j \in 1..p,
                        lineList[j].time # NoTime, lineList[j] \notin misread'
                 PROVE  \E s \in 1..Len(logList') : \E q \in 1..Len(logList'[s].lines) :
                          logList'[s].lines[q] = lineList[p]
      BY <1>1 DEF StackedAll
    <3>1. CASE p = parsed + 1
      BY <2>2, <3>1 DEF Grown, line
    <3>2. CASE p \in 1..parsed
      <4>1. PICK s \in 1..Len(logList) : \E q \in 1..Len(logList[s].lines) :
              logList[s].lines[q] = lineList[p]
        BY <1>3, <3>2 DEF StackedInv, StackedAll
      <4>2. PICK q \in 1..Len(logList[s].lines) : logList[s].lines[q] = lineList[p]
        BY <4>1
      <4> QED BY <2>2, <4>2 DEF Grown
    <3> QED BY <1>1, <3>1, <3>2
  <2>10. StackedHeads'
    <3> SUFFICES ASSUME NEW s \in 1..Len(logList'), NEW q \in 1..Len(logList'[s].lines)
                 PROVE  LET shown == logList'[s].lines[q] IN
                        /\ shown.time = NoTime => q > 1
                        /\ shown.time # NoTime /\ shown \notin misread' =>
                             q = 1 /\ logList'[s].time = shown.time
      BY DEF StackedHeads
    <3>1. CASE s = S /\ q = Q
      BY <1>3, <2>2, <3>1 DEF Grown
    <3>2. CASE s # S \/ q # Q
      <4>1. /\ s \in 1..Len(logList) /\ q \in 1..Len(logList[s].lines)
            /\ logList'[s].lines[q] = logList[s].lines[q] /\ logList'[s].time = logList[s].time
        BY <2>2, <3>2 DEF Grown
      <4> QED BY <1>3, <4>1 DEF StackedInv, StackedHeads
    <3> QED BY <3>1, <3>2
  <2> QED BY <2>1, <2>5, <2>6, <2>7, <2>8, <2>9, <2>10 DEF StackedInv
<1> QED BY <1>5, <1>6

(***************************************************************************)
(* Collecting the lines.                                                   *)
(***************************************************************************)
(* The lines of one node. *)
LEMMA LinesOfNode ==
  ASSUME NEW n \in Asked, NEW times \in Seq(Times \cup {NoTime})
  PROVE  /\ LinesOf(n, times) \in Seq(Lines)
         /\ Len(LinesOf(n, times)) = Len(times)
         /\ \A i \in 1..Len(times) : LinesOf(n, times)[i] = Line(n, i, times[i])
<1>1. \A i \in 1..Len(times) : Line(n, i, times[i]) \in Lines
  BY DEF Line, Lines
<1> QED BY <1>1 DEF LinesOf

(* The lines of one more node are collected: the list is as it should be. *)
LEMMA CollectKeepsLines ==
  ASSUME TasksInv, MergeInv, CollectedInv, Collect
  PROVE  CollectedInv' /\ lineList' \in Seq(Lines)
<1> DEFINE k == collected + 1
           n == ips[k]
           times == result[n]
           L == Len(lineList)
<1>1. /\ collected \in Nat /\ k \in 1..Len(ips) /\ collected < k
      /\ \A m \in 1..k : m \in 1..collected \/ m = k
      /\ \A m \in 1..k : m \in 1..Len(ips)
      /\ lineList \in Seq(Lines) /\ L \in Nat /\ ips \in Seq(Nodes)
      /\ collected' = k /\ ips' = ips /\ result' = result
      /\ lineList' = IF times = None THEN lineList ELSE lineList \o LinesOf(n, times)
  BY DEF TasksInv, MergeInv, Collect, taskVars
<1>2. n \in Asked /\ n \in Nodes
  BY <1>1 DEF Asked, ToSet
<1>3. \A m \in 1..collected : ips[m] # n
  BY <1>1 DEF TasksInv, MergeInv, IsInjective
<1> HIDE DEF k, n, times, L
<1>4. CASE times = None
  <2>1. lineList' = lineList
    BY <1>1, <1>4
  <2>2. CollectedInOrder' /\ CollectedAdjacent'
    BY <2>1 DEF CollectedInv, CollectedInOrder, CollectedAdjacent
  <2>3. CollectedFromNodes'
    <3> SUFFICES ASSUME NEW p \in 1..Len(lineList)
                 PROVE  \E m \in 1..k :
                          /\ result[ips[m]] # None
                          /\ lineList[p].row \in 1..Len(result[ips[m]])
                          /\ lineList[p] = LineOf(ips[m], lineList[p].row)
      BY <1>1, <2>1 DEF CollectedFromNodes, LineOf
    <3>1. PICK m \in 1..collected :
            /\ result[ips[m]] # None
            /\ lineList[p].row \in 1..Len(result[ips[m]])
            /\ lineList[p] = LineOf(ips[m], lineList[p].row)
      BY DEF CollectedInv, CollectedFromNodes
    <3>2. m \in 1..k
      BY <1>1 DEF k
    <3> QED BY <3>1, <3>2
  <2>4. CollectedAll'
    <3> SUFFICES ASSUME NEW m \in 1..collected', (result[ips[m]] # None)',
                        NEW i \in 1..Len(result[ips[m]])'
                 PROVE  (\E p \in 1..Len(lineList) : lineList[p] = LineOf(ips[m], i))'
      BY DEF CollectedAll
    <3>1. m \in 1..collected /\ result[ips[m]] # None /\ i \in 1..Len(result[ips[m]])
      BY <1>1, <1>4 DEF times, n
    <3>2. PICK p \in 1..Len(lineList) : lineList[p] = LineOf(ips[m], i)
      BY <3>1 DEF CollectedInv, CollectedAll
    <3> QED BY <1>1, <2>1, <3>2 DEF LineOf
  <2> QED BY <1>1, <2>1, <2>2, <2>3, <2>4 DEF CollectedInv
<1>5. CASE times # None
  <2>1. times \in Seq(Times \cup {NoTime})
    BY <1>2, <1>5, QueryAssumption DEF TasksInv, MergeInv, times
  <2> DEFINE new == LinesOf(n, times)
             N == Len(times)
  <2>2. /\ new \in Seq(Lines) /\ Len(new) = N /\ N \in Nat
        /\ \A i \in 1..N : new[i] = LineOf(n, i)
    BY <1>2, <2>1, LinesOfNode DEF LineOf, times
  <2>3. lineList' = lineList \o new
    BY <1>1, <1>5
  <2> HIDE DEF new, N
  <2>4. /\ lineList' \in Seq(Lines) /\ Len(lineList') = L + N
        /\ \A p \in 1..L : lineList'[p] = lineList[p]
        /\ \A i \in 1..N : L + i \in 1..L + N /\ lineList'[L + i] = LineOf(n, i)
    <3>1. lineList \o new \in Seq(Lines) /\ Len(lineList \o new) = Len(lineList) + Len(new)
      BY <1>1, <2>2
    <3>2. \A p \in 1..L : lineList'[p] = lineList[p]
      BY <1>1, <2>2, <2>3 DEF L
    <3>3. ASSUME NEW i \in 1..N
          PROVE  L + i \in 1..L + N /\ lineList'[L + i] = LineOf(n, i)
      <4>1. L + i \in 1..L + N /\ L + i > L /\ (L + i) - L = i
        BY <1>1, <2>2
      <4>2. lineList'[L + i] = new[(L + i) - L]
        BY <1>1, <2>2, <2>3, <4>1 DEF L
      <4> QED BY <2>2, <4>1, <4>2
    <3> QED BY <2>2, <2>3, <3>1, <3>2, <3>3 DEF L
  <2>5. \A p \in 1..L + N : p \in 1..L \/ \E i \in 1..N : p = L + i
    <3> SUFFICES ASSUME NEW p \in 1..L + N, p \notin 1..L
                 PROVE  p - L \in 1..N /\ p = L + (p - L)
      BY <1>1, <2>2
    <3> QED BY <1>1, <2>2
  <2>6. \A i \in 1..N : LineOf(n, i).node = n /\ LineOf(n, i).row = i
    BY DEF LineOf, Line
  <2>7. \A p \in 1..L : lineList[p].node # n
    <3> SUFFICES ASSUME NEW p \in 1..L
                 PROVE  lineList[p].node # n
      OBVIOUS
    <3>1. PICK m \in 1..collected : lineList[p] = LineOf(ips[m], lineList[p].row)
      BY DEF CollectedInv, CollectedFromNodes, L
    <3>2. lineList[p].node = ips[m]
      BY <3>1 DEF LineOf, Line
    <3> QED BY <1>3, <3>2
  <2>8. CollectedFromNodes'
    <3> SUFFICES ASSUME NEW p \in 1..L + N
                 PROVE  \E m \in 1..k :
                          /\ result[ips[m]] # None
                          /\ lineList'[p].row \in 1..Len(result[ips[m]])
                          /\ lineList'[p] = LineOf(ips[m], lineList'[p].row)
      BY <1>1, <2>4 DEF CollectedFromNodes, LineOf
    <3>1. CASE p \in 1..L
      <4>1. PICK m \in 1..collected :
              /\ result[ips[m]] # None
              /\ lineList[p].row \in 1..Len(result[ips[m]])
              /\ lineList[p] = LineOf(ips[m], lineList[p].row)
        BY <3>1 DEF CollectedInv, CollectedFromNodes, L
      <4>2. m \in 1..k
        BY <1>1 DEF k
      <4>3. lineList'[p] = lineList[p]
        BY <2>4, <3>1
      <4> QED BY <4>1, <4>2, <4>3
    <3>2. ASSUME NEW i \in 1..N, p = L + i
          PROVE  /\ result[ips[k]] # None
                 /\ lineList'[p].row \in 1..Len(result[ips[k]])
                 /\ lineList'[p] = LineOf(ips[k], lineList'[p].row)
      BY <1>5, <2>4, <2>6, <3>2 DEF n, times, N
    <3>3. k \in 1..k
      BY <1>1 DEF k
    <3>4. CASE \E i \in 1..N : p = L + i
      BY <3>2, <3>3, <3>4
    <3> QED BY <2>5, <3>1, <3>4
  <2>9. CollectedAll'
    <3> SUFFICES ASSUME NEW m \in 1..collected', (result[ips[m]] # None)',
                        NEW i \in 1..Len(result[ips[m]])'
                 PROVE  (\E p \in 1..Len(lineList) : lineList[p] = LineOf(ips[m], i))'
      BY DEF CollectedAll
    <3>1. /\ m \in 1..collected \/ m = k
          /\ result[ips[m]] # None /\ i \in 1..Len(result[ips[m]])
      BY <1>1
    <3> SUFFICES \E p \in 1..L + N : lineList'[p] = LineOf(ips[m], i)
      BY <1>1, <2>4 DEF LineOf
    <3>2. CASE m \in 1..collected
      <4>1. PICK p \in 1..L : lineList[p] = LineOf(ips[m], i)
        BY <3>1, <3>2 DEF CollectedInv, CollectedAll, L
      <4>2. p \in 1..L + N
        BY <1>1, <2>2
      <4> QED BY <2>4, <4>1, <4>2
    <3>3. CASE m = k
      BY <2>4, <3>1, <3>3 DEF n, times, N
    <3> QED BY <3>1, <3>2, <3>3
  <2>10. CollectedInOrder'
    <3> SUFFICES ASSUME NEW p \in 1..L + N, NEW u \in 1..L + N, p < u,
                        lineList'[p].node = lineList'[u].node
                 PROVE  lineList'[p].row < lineList'[u].row
      BY <2>4 DEF CollectedInOrder
    <3>1. CASE p \in 1..L /\ u \in 1..L
      BY <2>4, <3>1 DEF CollectedInv, CollectedInOrder, L
    <3>2. CASE u \notin 1..L
      <4>1. PICK i \in 1..N : u = L + i
        BY <2>5, <3>2
      <4>2. p \notin 1..L
        BY <2>4, <2>6, <2>7, <4>1
      <4>3. PICK j \in 1..N : p = L + j
        BY <2>5, <4>2
      <4>4. j < i
        BY <1>1, <4>1, <4>3
      <4> QED BY <2>4, <2>6, <4>1, <4>3, <4>4
    <3>3. p \notin 1..L => u \notin 1..L
      BY <1>1, <2>2
    <3> QED BY <3>1, <3>2, <3>3
  <2>11. CollectedAdjacent'
    <3> SUFFICES ASSUME NEW p \in 1..L + N, lineList'[p].row > 1
                 PROVE  /\ p > 1
                        /\ lineList'[p - 1].node = lineList'[p].node
                        /\ lineList'[p - 1].row = lineList'[p].row - 1
      BY <2>4 DEF CollectedAdjacent
    <3>1. CASE p \in 1..L
      <4>1. /\ p > 1 /\ lineList[p - 1].node = lineList[p].node
            /\ lineList[p - 1].row = lineList[p].row - 1
        BY <2>4, <3>1 DEF CollectedInv, CollectedAdjacent, L
      <4>2. p - 1 \in 1..L
        BY <1>1, <3>1, <4>1
      <4> QED BY <2>4, <3>1, <4>1, <4>2
    <3>2. ASSUME NEW i \in 1..N, p = L + i
          PROVE  /\ p > 1
                 /\ lineList'[p - 1].node = lineList'[p].node
                 /\ lineList'[p - 1].row = lineList'[p].row - 1
      <4>1. i > 1
        BY <2>4, <2>6, <3>2
      <4>2. i - 1 \in 1..N /\ p - 1 = L + (i - 1) /\ p > 1
        BY <1>1, <2>2, <3>2, <4>1
      <4> QED BY <2>4, <2>6, <3>2, <4>2
    <3> QED BY <2>5, <3>1, <3>2
  <2> QED BY <2>4, <2>8, <2>9, <2>10, <2>11 DEF CollectedInv
<1> QED BY <1>4, <1>5

(***************************************************************************)
(* The stacks when all lines are parsed.                                   *)
(***************************************************************************)
AllParsed ==
  /\ TasksInv /\ MergeInv /\ CollectedInv /\ StackedInv
  /\ collected = Len(ips) /\ parsed = Len(lineList)

(* A line has one place. *)
LEMMA PlacesDistinct ==
  ASSUME AllParsed,
         NEW s \in 1..Len(logList), NEW q \in 1..Len(logList[s].lines),
         NEW t \in 1..Len(logList), NEW r \in 1..Len(logList[t].lines),
         logList[s].lines[q] = logList[t].lines[r]
  PROVE  s = t /\ q = r
<1>1. StackedParsed /\ StackedInOrder
  BY DEF AllParsed, StackedInv
<1>2. PICK p \in 1..parsed : logList[s].lines[q] = lineList[p]
  BY <1>1 DEF StackedParsed
<1>3. parsed \in Nat
  BY DEF AllParsed, TasksInv, MergeInv
<1>4. ASSUME s < t \/ (s = t /\ q < r)
      PROVE  FALSE
  <2>1. p < p
    BY <1>1, <1>2, <1>4 DEF StackedInOrder
  <2> QED BY <1>3, <2>1
<1>5. ASSUME t < s \/ (t = s /\ r < q)
      PROVE  FALSE
  <2>1. p < p
    BY <1>1, <1>2, <1>5 DEF StackedInOrder
  <2> QED BY <1>3, <2>1
<1>6. s \in Int /\ t \in Int /\ q \in Int /\ r \in Int
  OBVIOUS
<1> QED BY <1>4, <1>5, <1>6

(* Every line in a stack is a line of a node's answer. *)
LEMMA PlacesFromNodes ==
  ASSUME AllParsed, NEW s \in 1..Len(logList), NEW q \in 1..Len(logList[s].lines)
  PROVE  LET line == logList[s].lines[q] IN
         /\ result[line.node] # None
         /\ line.row \in 1..Len(result[line.node])
         /\ line = LineOf(line.node, line.row)
<1>1. PICK p \in 1..parsed : logList[s].lines[q] = lineList[p]
  BY DEF AllParsed, StackedInv, StackedParsed
<1>2. PICK k \in 1..collected :
        /\ result[ips[k]] # None
        /\ lineList[p].row \in 1..Len(result[ips[k]])
        /\ lineList[p] = LineOf(ips[k], lineList[p].row)
  BY <1>1 DEF AllParsed, CollectedInv, CollectedFromNodes
<1>3. lineList[p].node = ips[k]
  BY <1>2 DEF LineOf, Line
<1> QED BY <1>1, <1>2, <1>3

(* The lines of a node from the first whose time is read have a place. *)
LEMMA PlacesOfAll ==
  ASSUME AllParsed, NEW n \in Asked, result[n] # None,
         NEW i \in 1..Len(result[n]), NEW j \in 1..i,
         result[n][j] # NoTime, LineOf(n, j) \notin misread
  PROVE  \E s \in 1..Len(logList) : \E q \in 1..Len(logList[s].lines) :
           logList[s].lines[q] = LineOf(n, i)
<1>1. PICK k \in 1..collected : ips[k] = n
  BY DEF AllParsed, TasksInv, MergeInv, Asked, ToSet
<1>2. i \in Nat /\ j \in 1..Len(result[n]) /\ j <= i
  <2>1. n \in Nodes
    BY DEF AllParsed, TasksInv, MergeInv, Asked, ToSet
  <2>2. result[n] \in Seq(Times \cup {NoTime})
    BY <2>1, QueryAssumption DEF AllParsed, TasksInv, MergeInv
  <2> QED BY <2>2
<1>3. PICK p \in 1..Len(lineList) : lineList[p] = LineOf(n, i)
  BY <1>1 DEF AllParsed, CollectedInv, CollectedAll
<1>4. PICK u \in 1..Len(lineList) : lineList[u] = LineOf(n, j)
  BY <1>1, <1>2 DEF AllParsed, CollectedInv, CollectedAll
<1>5. /\ lineList[p].node = n /\ lineList[p].row = i
      /\ lineList[u].node = n /\ lineList[u].row = j /\ lineList[u].time = result[n][j]
  BY <1>3, <1>4 DEF LineOf, Line
<1>6. u \in 1..p
  <2>1. ASSUME p < u
        PROVE  FALSE
    <3>1. lineList[p].row < lineList[u].row
      BY <1>5, <2>1 DEF AllParsed, CollectedInv, CollectedInOrder
    <3> QED BY <1>2, <1>5, <3>1
  <2> QED BY <2>1
<1>7. p \in 1..parsed
  BY DEF AllParsed
<1>8. lineList[u].time # NoTime /\ lineList[u] \notin misread
  BY <1>4, <1>5
<1>9. PICK s \in 1..Len(logList) : \E q \in 1..Len(logList[s].lines) :
        logList[s].lines[q] = lineList[p]
  BY <1>6, <1>7, <1>8 DEF AllParsed, StackedInv, StackedAll
<1> QED BY <1>3, <1>9

(* The lines of a node are in their order. *)
LEMMA PlacesInOrder ==
  ASSUME AllParsed,
         NEW s \in 1..Len(logList), NEW q \in 1..Len(logList[s].lines),
         NEW t \in 1..Len(logList), NEW r \in 1..Len(logList[t].lines),
         s < t \/ (s = t /\ q < r),
         logList[s].lines[q].node = logList[t].lines[r].node
  PROVE  logList[s].lines[q].row < logList[t].lines[r].row
<1>1. PICK p \in 1..parsed : logList[s].lines[q] = lineList[p]
  BY DEF AllParsed, StackedInv, StackedParsed
<1>2. PICK u \in 1..parsed : logList[t].lines[r] = lineList[u]
  BY DEF AllParsed, StackedInv, StackedParsed
<1>3. StackedInOrder
  BY DEF AllParsed, StackedInv
<1>4. p < u
  BY <1>1, <1>2, <1>3 DEF StackedInOrder
<1> QED BY <1>1, <1>2, <1>4 DEF AllParsed, CollectedInv, CollectedInOrder

(* A line without a time has its place behind the line before it. *)
LEMMA PlacesAdjacent ==
  ASSUME AllParsed,
         NEW s \in 1..Len(logList), NEW q \in 1..Len(logList[s].lines),
         NEW t \in 1..Len(logList), NEW r \in 1..Len(logList[t].lines),
         logList[t].lines[r].time = NoTime,
         Followed(logList[s].lines[q], logList[t].lines[r])
  PROVE  t = s /\ r = q + 1
<1> DEFINE a == logList[s].lines[q]
           b == logList[t].lines[r]
<1>1. PICK p \in 1..parsed : a = lineList[p]
  BY DEF AllParsed, StackedInv, StackedParsed
<1>2. PICK u \in 1..parsed : b = lineList[u]
  BY DEF AllParsed, StackedInv, StackedParsed
<1>3. /\ parsed = Len(lineList) /\ Len(lineList) \in Nat
      /\ lineList[p] \in Lines /\ lineList[u] \in Lines
  BY DEF AllParsed, TasksInv, MergeInv
<1>4. /\ lineList[p].row \in Nat \ {0} /\ lineList[u].row = lineList[p].row + 1
      /\ lineList[u].node = lineList[p].node
  BY <1>1, <1>2, <1>3 DEF Lines, Followed
<1>5. /\ u > 1
      /\ lineList[u - 1].node = lineList[u].node
      /\ lineList[u - 1].row = lineList[u].row - 1
  <2>1. lineList[u].row > 1
    BY <1>4
  <2>2. u \in 1..Len(lineList)
    BY <1>3
  <2> QED BY <2>1, <2>2 DEF AllParsed, CollectedInv, CollectedAdjacent
<1>6. u - 1 = p
  <2>1. u - 1 \in 1..Len(lineList)
    BY <1>3, <1>5
  <2>2. lineList[u - 1].node = lineList[p].node /\ lineList[u - 1].row = lineList[p].row
    BY <1>1, <1>2, <1>4, <1>5
  <2>3. ~(u - 1 < p)
    BY <1>3, <1>4, <2>1, <2>2 DEF AllParsed, CollectedInv, CollectedInOrder
  <2>4. ~(p < u - 1)
    BY <1>3, <1>4, <2>1, <2>2 DEF AllParsed, CollectedInv, CollectedInOrder
  <2> QED BY <1>3, <2>1, <2>3, <2>4
<1>7. r \in 2..Len(logList[t].lines)
  <2>1. r > 1
    BY DEF AllParsed, StackedInv, StackedHeads
  <2>2. Len(logList[t].lines) \in Nat
    BY StackType DEF AllParsed, TasksInv, MergeInv
  <2> QED BY <2>1, <2>2
<1>8. logList[t].lines[r - 1] = lineList[u - 1]
  BY <1>2, <1>7 DEF AllParsed, StackedInv, StackedAdjacent
<1>9. r - 1 \in 1..Len(logList[t].lines)
  BY <1>7
<1>10. s = t /\ q = r - 1
  <2>1. logList[s].lines[q] = logList[t].lines[r - 1]
    BY <1>1, <1>6, <1>8
  <2> QED BY <1>9, <2>1, PlacesDistinct
<1> QED BY <1>7, <1>10

(* The merged log is these stacks, each once, in a stable order of their   *)
(* times.                                                                  *)
StablyOrdered(stacks, merged, order) ==
  /\ \A k \in 1..Len(stacks) : merged[k] = stacks[order[k]]
  /\ \A k, m \in 1..Len(stacks) : order[k] = order[m] => k = m
  /\ \A s \in 1..Len(stacks) : \E k \in 1..Len(stacks) : order[k] = s
  /\ \A k, m \in 1..Len(stacks) : k < m => Precedes(stacks, order[k], order[m])

LEMMA SortedStacks ==
  ASSUME NEW stacks \in Seq(Stacks), NEW merged \in Sorted(stacks)
  PROVE  /\ merged \in Seq(Stacks) /\ Len(merged) = Len(stacks)
         /\ \E order \in [1..Len(stacks) -> 1..Len(stacks)] :
              StablyOrdered(stacks, merged, order)
<1>1. DOMAIN stacks = 1..Len(stacks) /\ Len(stacks) \in Nat
  OBVIOUS
<1>2. PICK order \in Bijection(1..Len(stacks), 1..Len(stacks)) :
        /\ merged = [k \in 1..Len(stacks) |-> stacks[order[k]]]
        /\ \A k, m \in 1..Len(stacks) : k < m => Precedes(stacks, order[k], order[m])
  BY <1>1 DEF Sorted
<1>3. /\ order \in [1..Len(stacks) -> 1..Len(stacks)]
      /\ \A k, m \in 1..Len(stacks) : order[k] = order[m] => k = m
      /\ \A s \in 1..Len(stacks) : \E k \in 1..Len(stacks) : order[k] = s
  <2>1. order \in Injection(1..Len(stacks), 1..Len(stacks))
    BY DEF Bijection
  <2>2. order \in [1..Len(stacks) -> 1..Len(stacks)] /\ IsInjective(order)
    BY <2>1 DEF Injection
  <2>3. \A k, m \in 1..Len(stacks) : order[k] = order[m] => k = m
    BY <2>2 DEF IsInjective
  <2>4. \A s \in 1..Len(stacks) : \E k \in 1..Len(stacks) : order[k] = s
    BY DEF Bijection, Surjection
  <2> QED BY <2>2, <2>3, <2>4
<1>4. merged \in Seq(Stacks) /\ Len(merged) = Len(stacks)
  <2>1. \A k \in 1..Len(stacks) : stacks[order[k]] \in Stacks
    BY <1>3
  <2>2. merged \in [1..Len(stacks) -> Stacks]
    BY <1>2, <2>1
  <2> QED BY <1>1, <2>2
<1>5. StablyOrdered(stacks, merged, order)
  BY <1>2, <1>3 DEF StablyOrdered
<1> QED BY <1>3, <1>4, <1>5

(* What is shown keeps what the stacks keep. *)
LEMMA MergeShows ==
  ASSUME AllParsed, query = "merging",
         answer' \in Sorted(logList),
         UNCHANGED <<ips, taskVars, misread>>
  PROVE  NothingLostSilently' /\ MergeKeepsOrder' /\ answer' \in Seq(Stacks)
<1>1. logList \in Seq(Stacks)
  BY DEF AllParsed, TasksInv, MergeInv
<1>2. answer' \in Seq(Stacks) /\ Len(answer') = Len(logList)
  BY <1>1, SortedStacks
<1>0. PICK order \in [1..Len(logList) -> 1..Len(logList)] : StablyOrdered(logList, answer', order)
  BY <1>1, SortedStacks
<1>3. /\ \A k \in 1..Len(logList) : answer'[k] = logList[order[k]]
      /\ \A k, m \in 1..Len(logList) : order[k] = order[m] => k = m
      /\ \A s \in 1..Len(logList) : \E k \in 1..Len(logList) : order[k] = s
      /\ \A k, m \in 1..Len(logList) : k < m => Precedes(logList, order[k], order[m])
  BY <1>0 DEF StablyOrdered
<1>4. /\ ips' = ips /\ errors' = errors /\ result' = result /\ misread' = misread /\ Asked' = Asked
      /\ \A n, i : LineOf(n, i)' = LineOf(n, i)
  BY DEF taskVars, LineOf, Asked
<1>5. DOMAIN answer' = 1..Len(logList)
  BY <1>2
<1>6. ASSUME NEW s \in 1..Len(logList)
      PROVE  /\ order[s] \in 1..Len(logList)
             /\ answer'[s] = logList[order[s]]
             /\ DOMAIN answer'[s].lines = 1..Len(logList[order[s]].lines)
  <2>1. order[s] \in 1..Len(logList) /\ answer'[s] = logList[order[s]]
    BY <1>3
  <2>2. logList[order[s]].lines \in Seq(Lines)
    BY <1>1, <2>1, StackType
  <2> QED BY <2>1, <2>2
<1>7. ASSUME NEW n \in Asked \ errors
      PROVE  /\ result[n] # None
             /\ \A i \in 1..Len(result[n]) :
                  (\E j \in 1..i : result[n][j] # NoTime /\ LineOf(n, j) \notin misread) =>
                    \E s \in DOMAIN answer' : \E q \in DOMAIN answer'[s].lines :
                      answer'[s].lines[q] = LineOf(n, i)
  <2>1. result[n] # None
    BY DEF AllParsed, TasksInv, MergeInv, Asked, ToSet
  <2>2. ASSUME NEW i \in 1..Len(result[n]), NEW j \in 1..i,
               result[n][j] # NoTime, LineOf(n, j) \notin misread
        PROVE  \E s \in DOMAIN answer' : \E q \in DOMAIN answer'[s].lines :
                 answer'[s].lines[q] = LineOf(n, i)
    <3>1. PICK u \in 1..Len(logList) : \E q \in 1..Len(logList[u].lines) :
            logList[u].lines[q] = LineOf(n, i)
      BY <2>1, <2>2, PlacesOfAll
    <3>2. PICK s \in 1..Len(logList) : order[s] = u
      BY <1>3
    <3>3. PICK q \in 1..Len(logList[order[s]].lines) : logList[order[s]].lines[q] = LineOf(n, i)
      BY <3>1, <3>2
    <3>4. s \in DOMAIN answer' /\ q \in DOMAIN answer'[s].lines /\ answer'[s].lines[q] = LineOf(n, i)
      BY <1>5, <1>6, <3>3
    <3> QED BY <3>4
  <2> QED BY <2>1, <2>2
<1>8. ASSUME NEW s \in DOMAIN answer', NEW t \in DOMAIN answer',
             NEW q \in DOMAIN answer'[s].lines, NEW r \in DOMAIN answer'[t].lines,
             answer'[s].lines[q] = answer'[t].lines[r]
      PROVE  s = t /\ q = r
  <2> DEFINE S == order[s]
             T == order[t]
  <2>1. /\ S \in 1..Len(logList) /\ q \in 1..Len(logList[S].lines)
        /\ T \in 1..Len(logList) /\ r \in 1..Len(logList[T].lines)
        /\ logList[S].lines[q] = logList[T].lines[r]
    BY <1>5, <1>6, <1>8
  <2> HIDE DEF S, T
  <2>2. S = T /\ q = r
    BY <2>1, PlacesDistinct
  <2> QED BY <1>3, <1>5, <2>2 DEF S, T
<1>9. ASSUME NEW s \in DOMAIN answer', NEW q \in DOMAIN answer'[s].lines
      PROVE  LET shown == answer'[s].lines[q] IN
             /\ result[shown.node] # None
             /\ shown.row \in 1..Len(result[shown.node])
             /\ shown = LineOf(shown.node, shown.row)
  <2> DEFINE S == order[s]
  <2>1. /\ S \in 1..Len(logList) /\ q \in 1..Len(logList[S].lines)
        /\ answer'[s].lines[q] = logList[S].lines[q]
    BY <1>5, <1>6
  <2> HIDE DEF S
  <2> QED BY <2>1, PlacesFromNodes
<1>10. NothingLostSilently'
  BY <1>4, <1>7, <1>8, <1>9 DEF NothingLostSilently
<1>11. ASSUME NEW s \in DOMAIN answer', NEW t \in DOMAIN answer',
              NEW q \in DOMAIN answer'[s].lines, NEW r \in DOMAIN answer'[t].lines
       PROVE  LET a == answer'[s].lines[q]
                  b == answer'[t].lines[r] IN
              /\ /\ a.time # NoTime /\ a \notin misread
                 /\ b.time # NoTime /\ b \notin misread
                 /\ s < t \/ (s = t /\ q < r)
                 => a.time < b.time \/ (a.time = b.time /\ (a.node = b.node => a.row < b.row))
              /\ b.time = NoTime /\ Followed(a, b) => t = s /\ r = q + 1
  <2> DEFINE a == answer'[s].lines[q]
             b == answer'[t].lines[r]
             S == order[s]
             T == order[t]
  <2>1. /\ s \in 1..Len(logList) /\ t \in 1..Len(logList)
        /\ S \in 1..Len(logList) /\ q \in 1..Len(logList[S].lines) /\ a = logList[S].lines[q]
        /\ T \in 1..Len(logList) /\ r \in 1..Len(logList[T].lines) /\ b = logList[T].lines[r]
    BY <1>5, <1>6
  <2> HIDE DEF a, b, S, T
  <2>2. ASSUME a.time # NoTime, a \notin misread, b.time # NoTime, b \notin misread,
               s < t \/ (s = t /\ q < r)
        PROVE  a.time < b.time \/ (a.time = b.time /\ (a.node = b.node => a.row < b.row))
    <3>1. q = 1 /\ logList[S].time = a.time /\ r = 1 /\ logList[T].time = b.time
      BY <2>1, <2>2 DEF AllParsed, StackedInv, StackedHeads
    <3>2. Precedes(logList, S, T)
      BY <1>3, <2>1, <2>2, <3>1 DEF S, T
    <3>3. CASE logList[S].time < logList[T].time
      BY <3>1, <3>3
    <3>4. CASE logList[S].time = logList[T].time /\ S < T
      BY <2>1, <3>1, <3>4, PlacesInOrder
    <3> QED BY <3>2, <3>3, <3>4 DEF Precedes
  <2>3. ASSUME b.time = NoTime, Followed(a, b)
        PROVE  t = s /\ r = q + 1
    <3>1. T = S /\ r = q + 1
      BY <2>1, <2>3, PlacesAdjacent
    <3> QED BY <1>3, <2>1, <3>1 DEF S, T
  <2> QED BY <2>2, <2>3 DEF a, b
<1>12. MergeKeepsOrder'
  BY <1>4, <1>11 DEF MergeKeepsOrder
<1> QED BY <1>2, <1>10, <1>12

(***************************************************************************)
(* The inductive invariant.                                                *)
(***************************************************************************)
(* A query that begins, with no task in the pool. *)
LEMMA GetLogTyped ==
  ASSUME TasksInv, MergeInv, NEW l \in IpLists, GetLog(l)
  PROVE  TasksInv'
<1>1. /\ ips' = l /\ l \in Seq(Nodes)
      /\ task' = [n \in Nodes |-> IF n \in ToSet(l) THEN "submitted" ELSE "none"]
      /\ result' = [n \in Nodes |-> None] /\ errors' = {}
  BY QueryAssumption DEF GetLog
<1>2. InPool' = {}
  BY <1>1 DEF InPool
<1>3. IsFiniteSet(InPool') /\ Cardinality(InPool') <= PoolThreads
  BY <1>2, FS_EmptySet, QueryAssumption
<1> QED BY <1>1, <1>3 DEF TasksInv, TaskStages, Asked

(* A query that fails, with no task left. *)
LEMMA FailTyped ==
  ASSUME Fail
  PROVE  TasksInv'
<1>1. InPool' = {}
  BY DEF Fail, InPool
<1>2. IsFiniteSet(InPool') /\ Cardinality(InPool') <= PoolThreads
  BY <1>1, FS_EmptySet, QueryAssumption
<1> QED BY <1>2 DEF Fail, TasksInv, TaskStages, Asked, ToSet

(* A step of a task. *)
LEMMA TaskStepTyped ==
  ASSUME TasksInv, MergeInv, NEW n \in Nodes, TaskStep(n)
  PROVE  TasksInv'
<1>1. TasksInv
  BY DEF TasksInv, MergeInv
<1>2. InPool' \subseteq InPool \cup {n} /\ (InPool' # InPool \cup {n} => InPool' = InPool \ {n})
      /\ ips' = ips /\ Asked' = Asked
  BY <1>1 DEF TaskStep, FindChannel, FindConfig, AnswersError, Throws, Answers, TaskGoes,
              InPool, TasksInv, Asked, TaskStages
<1>3. IsFiniteSet(InPool') /\ Cardinality(InPool') <= PoolThreads
  <2>1. IsFiniteSet(InPool) /\ Cardinality(InPool) \in Nat /\ Cardinality(InPool) <= PoolThreads
    BY <1>1, FS_CardinalityType DEF TasksInv
  <2>2. CASE InPool' = InPool \cup {n}
    <3>1. n \in InPool \/ Cardinality(InPool) < PoolThreads
      BY <1>1 DEF TaskStep, FindChannel, FindConfig, AnswersError, Throws, Answers, InPool
    <3>2. /\ IsFiniteSet(InPool \cup {n})
          /\ Cardinality(InPool \cup {n}) =
               IF n \in InPool THEN Cardinality(InPool) ELSE Cardinality(InPool) + 1
      BY <2>1, FS_AddElement
    <3> QED BY <2>1, <2>2, <3>1, <3>2, QueryAssumption
  <2>3. CASE InPool' = InPool \ {n}
    <3>1. /\ IsFiniteSet(InPool \ {n})
          /\ Cardinality(InPool \ {n}) =
               IF n \in InPool THEN Cardinality(InPool) - 1 ELSE Cardinality(InPool)
      BY <2>1, FS_RemoveElement
    <3> QED BY <2>1, <2>3, <3>1, QueryAssumption
  <2> QED BY <1>2, <2>2, <2>3
<1>4. CASE FindChannel(n)
  <2>1. result' = result /\ n \in Asked
    BY <1>1, <1>4 DEF FindChannel, TasksInv
  <2>2. CASE task' = [task EXCEPT ![n] = "configuring"] /\ errors' = errors
    BY <1>1, <1>2, <1>3, <1>4, <2>1, <2>2 DEF FindChannel, TasksInv, TaskStages
  <2>3. CASE task' = [task EXCEPT ![n] = "returned"] /\ errors' = errors \cup {n}
    BY <1>1, <1>2, <1>3, <1>4, <2>1, <2>3 DEF FindChannel, TasksInv, TaskStages
  <2> QED BY <1>4, <2>2, <2>3 DEF FindChannel, TaskGoes
<1>5. CASE FindConfig(n)
  BY <1>1, <1>2, <1>3, <1>5 DEF FindConfig, TaskGoes, TasksInv, TaskStages
<1>6. CASE AnswersError(n)
  BY <1>1, <1>2, <1>3, <1>6 DEF AnswersError, TaskGoes, TasksInv, TaskStages
<1>7. CASE Throws(n)
  BY <1>1, <1>2, <1>3, <1>7 DEF Throws, TaskGoes, TasksInv, TaskStages
<1>8. ASSUME NEW times \in Logs(n), Answers(n, times)
      PROVE  TasksInv'
  <2>1. times # None
    BY QueryAssumption
  <2> QED BY <1>1, <1>2, <1>3, <1>8, <2>1 DEF Answers, TaskGoes, TasksInv, TaskStages
<1> QED BY <1>4, <1>5, <1>6, <1>7, <1>8 DEF TaskStep

LEMMA InitInv == Init => IInv
<1> SUFFICES ASSUME Init
             PROVE  IInv
  OBVIOUS
<1>1. ConfigTypeOK /\ ConfigInv
  <2>1. ConfigInit
    BY DEF Init
  <2>2. /\ mtime \in 0..MaxTime /\ clock \in 0..MaxTime /\ lastModified \in 0..MaxTime
    BY <2>1, ConfigAssumption DEF ConfigInit
  <2>3. blurred \in BOOLEAN /\ first \in BOOLEAN
    BY <2>1 DEF ConfigInit
  <2> QED BY <2>1, <2>2, <2>3 DEF ConfigInit, ConfigTypeOK, ConfigInv, LoaderStages
<1>2. InPool = {}
  BY DEF Init, InPool
<1>3. IsFiniteSet(InPool) /\ Cardinality(InPool) <= PoolThreads
  BY <1>2, FS_EmptySet, QueryAssumption
<1>4. TasksInv
  BY <1>3 DEF Init, TasksInv, TaskStages, Asked, ToSet
<1>5. MergeInv
  BY DEF Init, MergeInit, MergeInv, QueryStages, IsInjective
<1> QED BY <1>1, <1>4, <1>5 DEF IInv, Init, NothingLostSilently, MergeKeepsOrder

(* The request begins. *)
LEMMA GetLogKeeps ==
  ASSUME IInv, NEW l \in IpLists, GetLog(l)
  PROVE  IInv'
<1>1. ConfigTypeOK' /\ ConfigInv'
  BY ConfigStep DEF IInv, GetLog
<1>2. TasksInv'
  BY GetLogTyped DEF IInv
<1>3. MergeInv'
  BY QueryAssumption DEF IInv, GetLog, MergeInv, mergeLocals, QueryStages
<1> QED BY <1>1, <1>2, <1>3 DEF IInv, GetLog, NothingLostSilently, MergeKeepsOrder

(* The request fails. *)
LEMMA FailKeeps ==
  ASSUME IInv, Fail, UNCHANGED configVars
  PROVE  IInv'
<1>1. ConfigTypeOK' /\ ConfigInv'
  BY ConfigStep DEF IInv
<1>2. TasksInv'
  BY FailTyped
<1>3. MergeInv'
  BY DEF Fail, MergeOver, MergeInv, QueryStages, IsInjective
<1> QED BY <1>1, <1>2, <1>3 DEF IInv, Fail, NothingLostSilently, MergeKeepsOrder

(* All tasks are over. *)
LEMMA JoinKeeps ==
  ASSUME IInv, Join
  PROVE  IInv'
<1>1. CASE Fail
  BY <1>1, FailKeeps DEF Join
<1>2. CASE query' = "merging" /\ UNCHANGED <<ips, taskVars, mergeVars, answer>>
                              /\ \A n \in Asked : task[n] = "returned"
  <2>1. ConfigTypeOK' /\ ConfigInv'
    BY ConfigStep DEF IInv, Join
  <2>2. TasksInv'
    BY <1>2 DEF IInv, TasksInv, taskVars, InPool, Asked
  <2>3. MergeInv /\ query = "asking"
    BY DEF IInv, Join
  <2>4. MergeInv'
    BY <1>2, <2>3 DEF MergeInv, taskVars, mergeVars, mergeLocals, Asked, Lines, Stacks, QueryStages
  <2>5. lineList' = <<>> /\ logList' = <<>> /\ collected' = 0 /\ parsed' = 0
    BY <1>2, <2>3 DEF MergeInv, mergeVars, mergeLocals
  <2>6. CollectedInv'
    BY <2>5 DEF CollectedInv, CollectedFromNodes, CollectedAll, CollectedInOrder, CollectedAdjacent
  <2>7. StackedInv'
    BY <2>5 DEF StackedInv, StackedParsed, StackedInOrder, StackedAdjacent, StackedLast,
                StackedAll, StackedHeads
  <2> QED BY <1>2, <2>1, <2>2, <2>4, <2>6, <2>7 DEF IInv, NothingLostSilently, MergeKeepsOrder
<1> QED BY <1>1, <1>2 DEF Join

(* The lines of a node are collected. *)
LEMMA CollectKeeps ==
  ASSUME IInv, Collect
  PROVE  IInv'
<1>1. ConfigTypeOK' /\ ConfigInv'
  BY ConfigStep DEF IInv, Collect
<1>2. /\ TasksInv /\ MergeInv /\ CollectedInv
      /\ query = "merging" /\ query' = "merging"
      /\ UNCHANGED <<ips, task, result, errors, parsed, logList, misread, answer>>
      /\ collected < Len(ips) /\ collected' = collected + 1
  BY DEF IInv, Collect, taskVars
<1>3. TasksInv'
  BY <1>2 DEF TasksInv, InPool, Asked
<1>4. CollectedInv' /\ lineList' \in Seq(Lines)
  BY <1>2, CollectKeepsLines
<1>5. parsed' = 0 /\ logList' = <<>>
  BY <1>2 DEF MergeInv
<1>6. MergeInv'
  BY <1>2, <1>4, <1>5 DEF MergeInv, Asked, Lines, Stacks
<1>7. StackedInv'
  BY <1>5 DEF StackedInv, StackedParsed, StackedInOrder, StackedAdjacent, StackedLast,
              StackedAll, StackedHeads
<1> QED BY <1>1, <1>2, <1>3, <1>4, <1>6, <1>7 DEF IInv, NothingLostSilently, MergeKeepsOrder

(* A line is parsed. *)
LEMMA ParseKeeps ==
  ASSUME IInv, Parse
  PROVE  IInv'
<1>1. ConfigTypeOK' /\ ConfigInv'
  BY ConfigStep DEF IInv, Parse
<1>2. /\ TasksInv /\ MergeInv /\ CollectedInv /\ StackedInv
      /\ query = "merging" /\ query' = "merging"
      /\ UNCHANGED <<ips, task, result, errors, lineList, collected, answer>>
      /\ collected = Len(ips)
      /\ parsed < Len(lineList) /\ parsed' = parsed + 1
  BY DEF IInv, Parse, ParseLine, taskVars
<1>3. TasksInv'
  BY <1>2 DEF TasksInv, InPool, Asked
<1>4. CollectedInv'
  BY <1>2 DEF CollectedInv, CollectedFromNodes, CollectedAll, CollectedInOrder,
              CollectedAdjacent, LineOf
<1>5. StackedInv' /\ logList' \in Seq(Stacks)
  BY <1>2, ParseKeepsStacks DEF CollectedInv
<1>6. misread' \subseteq Lines
  <2>1. lineList[parsed + 1] \in Lines /\ misread \subseteq Lines
    BY <1>2 DEF MergeInv
  <2> QED BY <2>1 DEF Parse, ParseLine
<1>7. Asked' = Asked /\ Lines' = Lines /\ Stacks' = Stacks
  BY <1>2 DEF Asked, Lines, Stacks
<1>8. parsed' \in 0..Len(lineList')
  BY <1>2 DEF MergeInv
<1>9. MergeInv'
  BY <1>2, <1>5, <1>6, <1>7, <1>8 DEF MergeInv
<1> QED BY <1>1, <1>2, <1>3, <1>4, <1>5, <1>9 DEF IInv, NothingLostSilently, MergeKeepsOrder

(* The stacks are sorted and shown, or there is none. *)
LEMMA MergeKeeps ==
  ASSUME IInv, Merge
  PROVE  IInv'
<1>1. CASE Fail
  BY <1>1, FailKeeps DEF Merge
<1>2. CASE /\ query' = "answered" /\ answer' \in Sorted(logList)
           /\ collected' = 0 /\ MergeOver
           /\ UNCHANGED <<ips, taskVars, misread>>
  <2>1. ConfigTypeOK' /\ ConfigInv'
    BY ConfigStep DEF IInv, Merge
  <2>2. TasksInv /\ MergeInv /\ query = "merging" /\ AllParsed
    BY DEF IInv, Merge, AllParsed
  <2>3. TasksInv'
    BY <1>2, <2>2 DEF TasksInv, InPool, Asked, taskVars
  <2>4. NothingLostSilently' /\ MergeKeepsOrder' /\ answer' \in Seq(Stacks)
    BY <1>2, <2>2, MergeShows
  <2>5. MergeInv'
    BY <1>2, <2>2, <2>4 DEF MergeInv, MergeOver, Asked, Lines, Stacks, taskVars, QueryStages
  <2> QED BY <1>2, <2>1, <2>3, <2>4, <2>5 DEF IInv
<1> QED BY <1>1, <1>2 DEF Merge

(* A step of a task is one of a query that waits for it. *)
LEMMA TaskStepKeeps ==
  ASSUME IInv, NEW n \in Nodes, TaskStep(n)
  PROVE  IInv'
<1>1. UNCHANGED <<configVars, query, ips, mergeVars, answer>>
  BY DEF TaskStep, FindChannel, FindConfig, AnswersError, Throws, Answers
<1>2. TasksInv /\ MergeInv /\ task[n] \in {"submitted", "configuring", "calling"}
  BY DEF IInv, TaskStep, FindChannel, FindConfig, AnswersError, Throws, Answers
<1>3. query \notin {"merging", "answered"}
  BY <1>2 DEF TasksInv, MergeInv
<1>4. ConfigTypeOK' /\ ConfigInv'
  BY <1>1, ConfigStep DEF IInv
<1>5. TasksInv'
  BY <1>2, TaskStepTyped
<1>6. MergeInv'
  BY <1>1, <1>2, <1>3 DEF MergeInv, mergeVars, mergeLocals, Asked, Lines, Stacks
<1> QED BY <1>1, <1>3, <1>4, <1>5, <1>6 DEF IInv, NothingLostSilently, MergeKeepsOrder

(* A step of the loader or of a writer of the file leaves the query alone. *)
LEMMA ConfigKeeps ==
  ASSUME IInv, [ConfigNext]_configVars, UNCHANGED queryVars
  PROVE  IInv'
<1>1. ConfigTypeOK' /\ ConfigInv'
  BY ConfigStep DEF IInv
<1>2. UNCHANGED <<query, ips, task, result, errors, collected, lineList, parsed, logList,
                  misread, answer>>
  BY DEF queryVars, taskVars, mergeVars, mergeLocals
<1>3. TasksInv' /\ MergeInv'
  BY <1>2 DEF IInv, TasksInv, MergeInv, InPool, Asked, Lines, Stacks
<1>4. (query = "merging" => CollectedInv /\ StackedInv)'
  <2>1. query = "merging" => CollectedInv /\ StackedInv
    BY DEF IInv
  <2>2. query = "merging" => CollectedInv'
    BY <1>2, <2>1 DEF CollectedInv, CollectedFromNodes, CollectedAll, CollectedInOrder,
                      CollectedAdjacent, LineOf
  <2>3. query = "merging" => StackedInv'
    <3>1. StackedParsed => StackedParsed'
      BY <1>2 DEF StackedParsed
    <3>2. StackedInOrder => StackedInOrder'
      BY <1>2 DEF StackedInOrder
    <3>3. StackedAdjacent => StackedAdjacent'
      BY <1>2 DEF StackedAdjacent
    <3>4. StackedLast => StackedLast'
      BY <1>2 DEF StackedLast
    <3>5. StackedAll => StackedAll'
      BY <1>2 DEF StackedAll
    <3>6. StackedHeads => StackedHeads'
      BY <1>2 DEF StackedHeads
    <3> QED BY <2>1, <3>1, <3>2, <3>3, <3>4, <3>5, <3>6 DEF StackedInv
  <2> QED BY <1>2, <2>2, <2>3
<1>5. NothingLostSilently'
  BY <1>2 DEF IInv, NothingLostSilently, LineOf, Asked
<1>6. MergeKeepsOrder'
  BY <1>2 DEF IInv, MergeKeepsOrder
<1> QED BY <1>1, <1>3, <1>4, <1>5, <1>6 DEF IInv

LEMMA NextInv == IInv /\ [Next]_vars => IInv'
<1> SUFFICES ASSUME IInv, [Next]_vars
             PROVE  IInv'
  OBVIOUS
<1>1. CASE ConfigNext /\ UNCHANGED queryVars
  BY <1>1, ConfigKeeps
<1>2. ASSUME NEW l \in IpLists, GetLog(l)
      PROVE  IInv'
  BY <1>2, GetLogKeeps
<1>3. CASE Join
  BY <1>3, JoinKeeps
<1>4. CASE Collect
  BY <1>4, CollectKeeps
<1>5. CASE Parse
  BY <1>5, ParseKeeps
<1>6. CASE Merge
  BY <1>6, MergeKeeps
<1>7. ASSUME NEW n \in Nodes, TaskStep(n)
      PROVE  IInv'
  BY <1>7, TaskStepKeeps
<1>8. CASE UNCHANGED vars
  BY <1>8, ConfigKeeps DEF vars
<1> QED BY <1>1, <1>2, <1>3, <1>4, <1>5, <1>6, <1>7, <1>8 DEF Next

(***************************************************************************)
(* The theorems.                                                           *)
(***************************************************************************)
LEMMA Invariant == Spec => []IInv
BY InitInv, NextInv, PTL DEF Spec

(* Types; a query has a task for exactly the nodes asked, never more in    *)
(* the pool than it has threads, and no locals of a merge when none goes   *)
(* on; and what the loader has assigned fits together.                     *)
THEOREM TypeCorrect == Spec => []TypeOK
<1>1. IInv => TypeOK
  BY DEF IInv, TasksInv, MergeInv, TypeOK
<1> QED BY <1>1, Invariant, PTL

(* A log that is shown leaves out no node silently, none of its lines from *)
(* the first whose time is read, shows none twice and makes none up:       *)
(* whatever nodes, files, failures, reloads and misread times there are.   *)
THEOREM ShownLogIsComplete == Spec => []NothingLostSilently
<1>1. IInv => NothingLostSilently
  BY DEF IInv
<1> QED BY <1>1, Invariant, PTL

(* The lines whose times were read are in the order of their times, stable *)
(* for each node, and a line without a time stays behind its predecessor.  *)
THEOREM ShownLogIsInOrder == Spec => []MergeKeepsOrder
<1>1. IInv => MergeKeepsOrder
  BY DEF IInv
<1> QED BY <1>1, Invariant, PTL

(***************************************************************************)
(* The configuration that is served.                                       *)
(***************************************************************************)
(* What the loader has seen as the time of the file and the file still     *)
(* has, unless a write was given no new time, it has loaded or is loading. *)
CurrentIsServed ==
  content \in Good /\ ~blurred /\ mtime = lastModified =>
    /\ loader \in {"mapping", "publishing"} => json = content
    /\ loader \in {"idle", "comparing", "noting"} =>
         serverNodeLogs = content /\ serverNodeMap = content /\ configJson = content

TimesSeen == mtime <= clock /\ lastModified <= clock

LEMMA ServedStep ==
  ASSUME ConfigTypeOK, ConfigInv, TimesSeen, CurrentIsServed, [ConfigNext]_configVars
  PROVE  TimesSeen' /\ CurrentIsServed'
<1> USE ConfigAssumption DEF TimesSeen, CurrentIsServed, fileVars, loadedVars, LoaderStages, Good
<1>0. mtime \in Nat /\ clock \in Nat /\ lastModified \in Nat
  BY DEF ConfigTypeOK
<1>1. ASSUME NEW c \in Contents, NEW t \in 1..MaxTime, WriteFile(c, t)
      PROVE  TimesSeen' /\ CurrentIsServed'
  <2> t \in Nat
    BY SMT
  <2>1. mtime' = t /\ lastModified' = lastModified /\ clock' = IF t > clock THEN t ELSE clock
    BY <1>1 DEF WriteFile
  <2>2. TimesSeen'
    BY <1>0, <2>1
  <2>3. CASE t <= clock
    <3>1. blurred'
      BY <1>1, <2>3, Zenon DEF WriteFile
    <3> QED BY <2>2, <3>1
  <2>4. CASE ~(t <= clock)
    <3>1. mtime' # lastModified'
      BY <1>0, <2>1, <2>4
    <3> QED BY <2>2, <3>1
  <2> QED BY <2>3, <2>4
<1>2. CASE DeleteFile
  BY <1>0, <1>2 DEF DeleteFile
<1>3. CASE LoadConfig
  BY <1>3 DEF LoadConfig
<1>4. CASE Compare
  BY <1>4 DEF Compare
<1>5. CASE Note
  BY <1>5 DEF Note
<1>6. CASE ReadFile
  BY <1>6 DEF ReadFile, AfterRefresh
<1>7. CASE MapNodes
  BY <1>7 DEF MapNodes, AfterRefresh
<1>8. CASE Publish
  BY <1>8 DEF Publish, AfterRefresh, ConfigInv
<1>9. CASE UNCHANGED configVars
  BY <1>9 DEF configVars
<1> QED BY <1>1, <1>2, <1>3, <1>4, <1>5, <1>6, <1>7, <1>8, <1>9 DEF ConfigNext, LoaderStep

(* The safety half of ConfigCatchesUp: the timer thread never takes a good *)
(* file for one that it has loaded.  When the times are equal and the      *)
(* thread is not about to read, the list, the map and the JSON are of this *)
(* file, whatever was written while it loaded another.                     *)
THEOREM NoChangeOverlooked == Spec => []CurrentIsServed
<1>1. Init => TimesSeen /\ CurrentIsServed
  BY ConfigAssumption DEF Init, ConfigInit, TimesSeen, CurrentIsServed, Good
<1>2. [Next]_vars => [ConfigNext]_configVars
  <2>1. ASSUME Next
        PROVE  ConfigNext \/ UNCHANGED configVars
    <3>1. CASE \E l \in IpLists : GetLog(l)
      BY <3>1 DEF GetLog
    <3>2. CASE Join
      BY <3>2 DEF Join
    <3>3. CASE Collect
      BY <3>3 DEF Collect
    <3>4. CASE Parse
      BY <3>4 DEF Parse
    <3>5. CASE Merge
      BY <3>5 DEF Merge
    <3>6. ASSUME NEW n \in Nodes, TaskStep(n)
          PROVE  UNCHANGED configVars
      BY <3>6 DEF TaskStep, FindChannel, FindConfig, Answers, AnswersError, Throws
    <3> QED BY <2>1, <3>1, <3>2, <3>3, <3>4, <3>5, <3>6 DEF Next
  <2>2. UNCHANGED vars => UNCHANGED configVars
    BY DEF vars
  <2> QED BY <2>1, <2>2
<1>3. IInv /\ TimesSeen /\ CurrentIsServed /\ [Next]_vars => (TimesSeen /\ CurrentIsServed)'
  BY <1>2, ServedStep DEF IInv
<1> QED BY <1>1, <1>3, Invariant, PTL DEF Spec
=============================================================================
