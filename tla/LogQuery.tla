------------------------------ MODULE LogQuery ------------------------------
(***************************************************************************)
(* LogClientService.getLog: the logs of several nodes are asked for at the *)
(* same time, by tasks of the common pool, and merged (LogMerge) when all  *)
(* of them are there.  Meanwhile nodes come and go (NodeRegistry: here a   *)
(* task finds the channel or does not), and the configuration with the     *)
(* paths of their logs is reloaded (ConfigReload).                         *)
(***************************************************************************)
EXTENDS ConfigReload, LogMerge, FiniteSets

CONSTANTS
  IpLists,     \* the lists of nodes that may be asked
  ConfiguredIn(_),  \* the nodes that a configuration has the service of
  Logs(_),     \* what a node may answer: the times of the lines
  PoolThreads  \* the threads of the common pool that this query gets

ASSUME QueryAssumption ==
  /\ \A l \in IpLists : l \in Seq(Nodes) /\ IsInjective(l)
  /\ \A c \in Good : ConfiguredIn(c) \subseteq Nodes
  /\ \A n \in Nodes : \A l \in Logs(n) : l \in Seq(Times \cup {NoTime}) /\ l # None
  /\ PoolThreads \in Nat \ {0}

VARIABLES
  query,    \* where the thread of the web request is
  ips,      \* param.getIp()
  task,     \* where the task of each node is
  result,   \* the value of its future: the times of the lines
  errors,   \* errorContext
  collected, \* the number of futures whose lines are in lineList
  answer    \* the merged log: its stacks, the lines of one after another

taskVars  == <<task, result, errors>>
mergeVars == <<collected, mergeLocals, misread>>
queryVars == <<query, ips, taskVars, mergeVars, answer>>
vars == <<configVars, queryVars>>

TaskStages == {"none", "submitted", "configuring", "calling", "returned", "threw"}
QueryStages == {"idle", "asking", "merging", "answered", "failed"}

Asked == ToSet(ips)

Init ==
  /\ ConfigInit
  /\ query = "idle" /\ ips = <<>>
  /\ task = [n \in Nodes |-> "none"]
  /\ result = [n \in Nodes |-> None]
  /\ errors = {}
  /\ collected = 0 /\ MergeInit /\ misread = {}
  /\ answer = <<>>

(***************************************************************************)
(* The web request.                                                        *)
(***************************************************************************)
GetLog(l) ==
  /\ query \in {"idle", "answered", "failed"}
  /\ query' = "asking"
  /\ ips' = l
  /\ task' = [n \in Nodes |-> IF n \in ToSet(l) THEN "submitted" ELSE "none"]
  /\ result' = [n \in Nodes |-> None]
  /\ errors' = {}
  /\ misread' = {}
  /\ answer' = <<>>
  /\ UNCHANGED <<configVars, collected, mergeLocals>>

(* The request fails, and its locals are gone. *)
Fail ==
  /\ query' = "failed"
  /\ ips' = <<>>
  /\ task' = [n \in Nodes |-> "none"]
  /\ result' = [n \in Nodes |-> None]
  /\ errors' = {}
  /\ collected' = 0 /\ MergeOver /\ misread' = {}
  /\ answer' = <<>>

(* CompletableFuture.allOf(...).join() waits for every task; one that      *)
(* threw makes it throw, and the request fails.                            *)
Join ==
  /\ query = "asking"
  /\ \A n \in Asked : task[n] \in {"returned", "threw"}
  /\ IF \E n \in Asked : task[n] = "threw"
     THEN Fail
     ELSE query' = "merging" /\ UNCHANGED <<ips, taskVars, mergeVars, answer>>
  /\ UNCHANGED configVars

LinesOf(n, times) == [i \in 1..Len(times) |-> Line(n, i, times[i])]

(* The lines of the next node, in the order asked; one without a result    *)
(* has null.                                                               *)
Collect ==
  /\ query = "merging"
  /\ collected < Len(ips)
  /\ LET n == ips[collected + 1] IN
     lineList' = IF result[n] = None THEN lineList
                 ELSE lineList \o LinesOf(n, result[n])
  /\ collected' = collected + 1
  /\ UNCHANGED <<configVars, query, ips, taskVars, parsed, logList, misread, answer>>

Parse ==
  /\ query = "merging"
  /\ collected = Len(ips)
  /\ ParseLine
  /\ UNCHANGED <<configVars, query, ips, taskVars, collected, answer>>

(* Without a single stack, reduce(...).get() throws - unless the lines are *)
(* shown with their IPs.                                                   *)
Merge ==
  /\ query = "merging"
  /\ collected = Len(ips)
  /\ parsed = Len(lineList)
  /\ \/ logList = <<>> /\ Fail
     \/ /\ query' = "answered"
        /\ answer' \in Sorted(logList)
        /\ collected' = 0 /\ MergeOver
        /\ UNCHANGED <<ips, taskVars, misread>>
  /\ UNCHANGED configVars

(***************************************************************************)
(* The tasks.                                                              *)
(***************************************************************************)
TaskGoes(n, s) == task' = [task EXCEPT ![n] = s]

InPool == {n \in Nodes : task[n] \in {"configuring", "calling"}}

(* A thread takes the task and looks for the channel, which is there or    *)
(* not; a node without one is an entry of errorContext.                    *)
FindChannel(n) ==
  /\ task[n] = "submitted"
  /\ Cardinality(InPool) < PoolThreads
  /\ \/ TaskGoes(n, "configuring") /\ UNCHANGED errors
     \/ TaskGoes(n, "returned") /\ errors' = errors \cup {n}
  /\ UNCHANGED <<configVars, query, ips, result, mergeVars, answer>>

Configured(n) == serverNodeMap # None /\ n \in ConfiguredIn(serverNodeMap)

(* A task that waits until the node is configured. *)
FindConfigWaits(n) ==
  /\ task[n] = "configuring"
  /\ Configured(n)
  /\ TaskGoes(n, "calling")
  /\ UNCHANGED <<configVars, query, ips, result, errors, mergeVars, answer>>

(* getServerNodeLog throws without a configuration of the node. *)
FindConfig(n) ==
  /\ task[n] = "configuring"
  /\ TaskGoes(n, IF Configured(n) THEN "calling" ELSE "threw")
  /\ UNCHANGED <<configVars, query, ips, result, errors, mergeVars, answer>>

(* The node answers with its log. *)
Answers(n, times) ==
  /\ task[n] = "calling"
  /\ TaskGoes(n, "returned")
  /\ result' = [result EXCEPT ![n] = times]
  /\ UNCHANGED <<configVars, query, ips, errors, mergeVars, answer>>

AnswersErrorSilently(n) ==
  /\ task[n] = "calling"
  /\ TaskGoes(n, "returned")
  /\ UNCHANGED <<configVars, query, ips, result, errors, mergeVars, answer>>

(* The node answers SYSTEM_ERROR. *)
AnswersError(n) ==
  /\ task[n] = "calling"
  /\ TaskGoes(n, "returned")
  /\ errors' = errors \cup {n}
  /\ UNCHANGED <<configVars, query, ips, result, mergeVars, answer>>

(* invokeSync throws, after 30 seconds at the latest; or another response  *)
(* code comes, whose missing body is a NullPointerException.               *)
Throws(n) ==
  /\ task[n] = "calling"
  /\ TaskGoes(n, "threw")
  /\ UNCHANGED <<configVars, query, ips, result, errors, mergeVars, answer>>

-----------------------------------------------------------------------------

TaskStep(n) ==
  \/ FindChannel(n) \/ FindConfig(n) \/ AnswersError(n) \/ Throws(n)
  \/ \E times \in Logs(n) : Answers(n, times)

Next ==
  \/ ConfigNext /\ UNCHANGED queryVars
  \/ \E l \in IpLists : GetLog(l)
  \/ Join \/ Collect \/ Parse \/ Merge
  \/ \E n \in Nodes : TaskStep(n)

Spec == Init /\ [][Next]_vars

(* Of what ends a call, only its timeout is certain. *)
Fairness ==
  /\ ConfigFairness
  /\ WF_vars(Join \/ Collect \/ Parse \/ Merge)
  /\ \A n \in Nodes : WF_vars(FindChannel(n) \/ FindConfig(n) \/ Throws(n))

FairSpec == Spec /\ Fairness

(***************************************************************************)
(* Properties.                                                             *)
(***************************************************************************)
Lines == [node : Asked, row : Nat \ {0}, time : Times \cup {NoTime}]
Stacks == [time : Times, lines : Seq(Lines) \ {<<>>}]

LineOf(n, i) == Line(n, i, result[n][i])

TypeOK ==
  /\ ConfigTypeOK
  /\ query \in QueryStages
  /\ ips \in Seq(Nodes)
  /\ task \in [Nodes -> TaskStages]
  /\ \A n \in Nodes : task[n] # "none" <=> n \in Asked
  /\ Cardinality(InPool) <= PoolThreads
  /\ DOMAIN result = Nodes
  /\ \A n \in Nodes : result[n] # None => result[n] \in Logs(n) /\ task[n] = "returned"
  /\ errors \subseteq {n \in Asked : task[n] = "returned"}
  /\ lineList \in Seq(Lines)
  /\ parsed \in 0..Len(lineList) /\ collected \in 0..Len(ips)
  /\ logList \in Seq(Stacks) /\ answer \in Seq(Stacks)
  /\ misread \subseteq Lines
  /\ query # "merging" => collected = 0 /\ lineList = <<>> /\ logList = <<>>
  /\ query # "answered" => answer = <<>>

(* A log that is shown leaves out no node silently: of every node asked,   *)
(* either errorContext names it or its lines are there, from the first one *)
(* whose time is read; none is there twice, and no other is.               *)
NothingLostSilently ==
  query = "answered" =>
    /\ \A n \in Asked \ errors :
         /\ result[n] # None
         /\ \A i \in 1..Len(result[n]) :
              (\E j \in 1..i : result[n][j] # NoTime /\ LineOf(n, j) \notin misread) =>
                \E s \in DOMAIN answer : \E q \in DOMAIN answer[s].lines :
                  answer[s].lines[q] = LineOf(n, i)
    /\ \A s, t \in DOMAIN answer :
         \A q \in DOMAIN answer[s].lines, r \in DOMAIN answer[t].lines :
           answer[s].lines[q] = answer[t].lines[r] => s = t /\ q = r
    /\ \A s \in DOMAIN answer : \A q \in DOMAIN answer[s].lines :
         LET shown == answer[s].lines[q] IN
         /\ result[shown.node] # None
         /\ shown.row \in 1..Len(result[shown.node])
         /\ shown = LineOf(shown.node, shown.row)

(* Line b followed line a in the answer of a node. *)
Followed(a, b) == a.node = b.node /\ b.row = a.row + 1

(* The lines with a time are shown in the order of their times, and those  *)
(* of a node with the same time in their order, except a line whose time   *)
(* was misread; and whatever was misread, a line without a time follows    *)
(* the line that it followed in the log of its node.                       *)
MergeKeepsOrder ==
  query = "answered" =>
    \A s, t \in DOMAIN answer :
      \A q \in DOMAIN answer[s].lines, r \in DOMAIN answer[t].lines :
        LET a == answer[s].lines[q]
            b == answer[t].lines[r] IN
        /\ /\ a.time # NoTime /\ a \notin misread
           /\ b.time # NoTime /\ b \notin misread
           /\ s < t \/ (s = t /\ q < r)
           => a.time < b.time \/ (a.time = b.time /\ (a.node = b.node => a.row < b.row))
        /\ b.time = NoTime /\ Followed(a, b) => t = s /\ r = q + 1

(* A query ends: no node keeps it, not even when the nodes before it have  *)
(* used up the pool.                                                       *)
QueryEnds == (query \in {"asking", "merging"}) ~> (query \in {"answered", "failed"})
=============================================================================
