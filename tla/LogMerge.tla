------------------------------ MODULE LogMerge ------------------------------
(***************************************************************************)
(* LogUtil.margeLog: lines that begin with a time start a stack, the lines *)
(* that follow it (of an exception, say) belong to it; the stacks of all   *)
(* nodes are sorted by their time.  The times are read by a                *)
(* SimpleDateFormat that all requests share, and it is not thread-safe.    *)
(***************************************************************************)
EXTENDS Integers, Sequences, FiniteSets, SequencesExt

CONSTANTS
  Nodes,     \* the IPs of the nodes
  Times,     \* the times that a line may begin with
  NoTime,    \* -1, of a line that does not begin with one
  MaxMisread \* bound: the lines of a request whose time is misread

ASSUME MergeAssumption ==
  /\ Times \subseteq Nat
  /\ NoTime \notin Times
  /\ MaxMisread \in Nat

VARIABLES
  lineList,  \* the lines of all nodes
  parsed,    \* the number of them that the loop is done with
  logList,   \* the stacks: the time read, and the lines
  misread    \* history: the lines whose time was not read as it is

mergeLocals == <<lineList, parsed, logList>>

(* A LogLine; "row" is its place in the answer of the node. *)
Line(n, i, t) == [node |-> n, row |-> i, time |-> t]

MergeInit == lineList = <<>> /\ parsed = 0 /\ logList = <<>>

(* margeLog is over, and its locals are gone. *)
MergeOver == lineList' = <<>> /\ parsed' = 0 /\ logList' = <<>>

(* parseTime: while another request parses, a time may be read as another  *)
(* one, or make the parser throw; a text without a time is never read as   *)
(* one, because the parser finds its digits in the text itself.            *)
ReadAs(line) == IF line.time = NoTime THEN {NoTime} ELSE Times \cup {NoTime}

(* A line without a time goes to the last stack; without a stack, nowhere. *)
AddLine(stacks, line, t) ==
  IF t # NoTime THEN Append(stacks, [time |-> t, lines |-> <<line>>])
  ELSE IF stacks = <<>> THEN stacks
  ELSE [stacks EXCEPT ![Len(stacks)].lines = Append(@, line)]

ParseLine ==
  /\ parsed < Len(lineList)
  /\ parsed' = parsed + 1
  /\ LET line == lineList[parsed + 1] IN
     \E t \in ReadAs(line) :
       /\ logList' = AddLine(logList, line, t)
       /\ \/ t = line.time /\ UNCHANGED misread
          \/ /\ t # line.time
             /\ Cardinality(misread) < MaxMisread
             /\ misread' = misread \cup {line}
  /\ UNCHANGED lineList

PrecedesUnstably(stacks, i, j) ==
  \/ stacks[i].time < stacks[j].time
  \/ stacks[i].time = stacks[j].time /\ i > j

Precedes(stacks, i, j) ==
  \/ stacks[i].time < stacks[j].time
  \/ stacks[i].time = stacks[j].time /\ i < j

(* sorted(comparing(Stack::getTimestamp)) is stable. *)
Sorted(stacks) ==
  {[k \in DOMAIN stacks |-> stacks[order[k]]] : order \in
    {b \in Bijection(DOMAIN stacks, DOMAIN stacks) :
      \A k, m \in DOMAIN stacks : k < m => Precedes(stacks, b[k], b[m])}}
=============================================================================
