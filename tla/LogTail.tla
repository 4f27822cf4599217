------------------------------- MODULE LogTail -------------------------------
(***************************************************************************)
(* How a log client answers GET_LOG: the file is opened, read backwards    *)
(* byte by byte until enough line separators are found, measured, and its  *)
(* end is streamed to the log center in packages behind one frame header.  *)
(* Meanwhile the application goes on writing the file, and a log rotation  *)
(* may empty it.                                                           *)
(***************************************************************************)
EXTENDS Integers, Sequences, FiniteSets

CONSTANTS
  Files,          \* the contents that a file may have when it is asked for
  RowsAsked,      \* the values of GetLogRequest.rows
  MaxGrowth,      \* bound: the bytes written since the opening, or the rotation
  PackageLength,  \* packageLength
  IntRange,       \* the number of values of an int
  HeaderLength,   \* the 28 bytes that the length of a frame counts besides the body
  FieldLength     \* the bytes of the length field

Bytes == {"newline", "other"}

ASSUME TailAssumption ==
  /\ \A f \in Files : f \in Seq(Bytes)
  /\ RowsAsked \subseteq Int
  /\ MaxGrowth \in Nat
  /\ PackageLength \in Nat \ {0}
  /\ IntRange \in Nat \ {0} /\ IntRange % 2 = 0
  /\ HeaderLength \in Nat /\ FieldLength \in Nat

VARIABLES
  file,     \* the bytes of the file
  cut,      \* history: the file was emptied since it was opened
  opened,   \* its length when it was opened
  stage,    \* where the request is
  rows, pointer, seps,  \* the loop of readLastRowsAndGetRandomAccessFile
  fp,       \* the file pointer
  tail,     \* history: the bytes behind the file pointer when they were measured
  length,   \* RandomAccessFileResponseCommand.length
  left,     \* the length that the writing loop counts down
  sent      \* the body bytes written: the position of each in the file, or 0

fileVars == <<file, cut, opened>>
scanVars == <<rows, pointer, seps>>
bodyVars == <<tail, length, left, sent>>
vars == <<fileVars, stage, scanVars, fp, bodyVars>>

Over == {"idle", "refused", "sent", "broken"}
Stages == Over \cup {"scanning", "found", "streaming"}

(* A cast to int. *)
ToIntUnsigned(x) == x % (IntRange \div 2)

ToInt(x) ==
  LET r == x % IntRange IN IF r < IntRange \div 2 THEN r ELSE r - IntRange

Init ==
  /\ file = <<>> /\ cut = FALSE /\ opened = 0
  /\ stage = "idle"
  /\ rows = 0 /\ pointer = 0 /\ seps = 0 /\ fp = 0
  /\ tail = 0 /\ length = 0 /\ left = 0 /\ sent = <<>>

(***************************************************************************)
(* The application and the log rotation.                                   *)
(***************************************************************************)
Log(b) ==
  /\ Len(file) < MaxGrowth + IF cut THEN 0 ELSE opened
  /\ file' = Append(file, b)
  /\ UNCHANGED <<cut, opened, stage, scanVars, fp, bodyVars>>

(* copytruncate: the open file is emptied in place. *)
Rotate ==
  /\ file # <<>>
  /\ file' = <<>>
  /\ cut' = TRUE
  /\ UNCHANGED <<opened, stage, scanVars, fp, bodyVars>>

(***************************************************************************)
(* The processor thread.                                                   *)
(***************************************************************************)
(* new RandomAccessFile and its length(), for a file of any content: the   *)
(* loop is entered unless no rows are to be counted.                       *)
Open(f, r) ==
  /\ stage \in Over
  /\ file' = f /\ cut' = FALSE /\ opened' = Len(f)
  /\ rows' = r /\ pointer' = Len(f) /\ seps' = 0 /\ fp' = 0
  /\ stage' = IF r > 0 THEN "scanning" ELSE "found"
  /\ tail' = 0 /\ length' = 0 /\ left' = 0 /\ sent' = <<>>

(* An iteration: seek(pointer--), read one byte. *)
Read(first, move, rewind) ==
  LET hit == pointer \in 0..(Len(file) - 1) IN
  /\ stage = "scanning"
  /\ seps' = IF hit /\ file[pointer + 1] = "newline" THEN seps + 1 ELSE seps
  /\ pointer' = IF hit \/ move THEN pointer - 1 ELSE pointer
  /\ fp' = IF rewind /\ pointer' = -1 /\ seps' < rows THEN 0
           ELSE IF hit THEN pointer + 1 ELSE pointer
  /\ stage' = IF pointer' >= first /\ seps' < rows THEN "scanning" ELSE "found"
  /\ UNCHANGED <<fileVars, rows, bodyVars>>

ScanPastStart   == Read(-1, TRUE, TRUE)
ScanStaysAtEnd  == Read(0, FALSE, TRUE)
ScanForgetsSeek == Read(0, TRUE, FALSE)

Scan == Read(0, TRUE, TRUE)

(* createResponse measures what is behind the file pointer now. *)
Measure ==
  /\ stage = "found"
  /\ tail' = Len(file) - fp
  /\ length' = ToInt(tail')
  /\ left' = length'
  /\ stage' = "streaming"
  /\ UNCHANGED <<fileVars, scanVars, fp, sent>>

(* An IOException of length(), seek() or read(): a SYSTEM_ERROR response. *)
Refuse ==
  /\ stage \in {"scanning", "found"}
  /\ stage' = "refused"
  /\ UNCHANGED <<fileVars, scanVars, fp, bodyVars>>

(***************************************************************************)
(* The handler thread: the writing loop of the outbound handler.           *)
(***************************************************************************)
(* One package: however few bytes read(bytes) returned, all are written.   *)
Write(size) ==
  LET read == IF fp + size <= Len(file) THEN size
              ELSE IF fp < Len(file) THEN Len(file) - fp ELSE 0 IN
  /\ stage = "streaming"
  /\ left > 0
  /\ sent' = sent \o [i \in 1..size |-> IF i <= read THEN fp + i ELSE 0]
  /\ fp' = fp + read
  /\ left' = left - PackageLength
  /\ UNCHANGED <<fileVars, stage, scanVars, tail, length>>

WriteFullPackage == Write(PackageLength)

WritePackage == Write(IF left < PackageLength THEN left ELSE PackageLength)

CloseFile ==
  /\ stage = "streaming"
  /\ left <= 0
  /\ stage' = "sent"
  /\ UNCHANGED <<fileVars, scanVars, fp, bodyVars>>

(* read() throws: the header is out, the rest of its frame never follows. *)
WriteFails ==
  /\ stage = "streaming"
  /\ left > 0
  /\ stage' = "broken"
  /\ UNCHANGED <<fileVars, scanVars, fp, bodyVars>>

-----------------------------------------------------------------------------

Answer == Scan \/ Measure \/ WritePackage \/ CloseFile

Next ==
  \/ \E b \in Bytes : Log(b)
  \/ Rotate
  \/ \E f \in Files, r \in RowsAsked : Open(f, r)
  \/ Answer
  \/ Refuse \/ WriteFails

Spec == Init /\ [][Next]_vars

(* The threads of the log client go on. *)
FairSpec == Spec /\ WF_vars(Answer)

(***************************************************************************)
(* The decoder of the log center.  The length field is a signed int; a     *)
(* negative or too long frame, and a negative body length, close the       *)
(* channel.                                                                *)
(***************************************************************************)
Accepted ==
  LET frame == ToInt(HeaderLength + length) IN
  /\ length >= 0
  /\ frame >= 0
  /\ frame + FieldLength < IntRange \div 2

(***************************************************************************)
(* Properties.                                                             *)
(***************************************************************************)
TypeOK ==
  /\ file \in Seq(Bytes)
  /\ cut \in BOOLEAN
  /\ opened \in Nat
  /\ stage \in Stages
  /\ rows \in Int /\ pointer \in Int /\ seps \in Nat
  /\ pointer >= IF stage = "scanning" THEN 0 ELSE -1
  /\ fp \in Nat
  /\ tail \in Int /\ length \in Int /\ left \in Int
  /\ sent \in Seq(Nat)

(* The line separators among the bytes "from" to "to". *)
Ends(from, to) == {p \in from..to : file[p] = "newline"}

(* Where the rows begin that the last separators of the first "end" bytes  *)
(* count to; the start of the file if there are not so many.               *)
Starts(end) == {p \in Ends(1, end) : Cardinality(Ends(p, end)) = rows}

RowStart(end) == IF Starts(end) = {} THEN 0 ELSE CHOOSE p \in Starts(end) : TRUE

(* Reading backwards in a growing file ends behind the separator that the  *)
(* rows asked for count to, or at the start of the file - of the bytes     *)
(* that were there at the start, or one more: the first read is behind the *)
(* end, where a byte may have been written meanwhile.                      *)
ScanFindsRowStart ==
  stage = "found" /\ ~cut =>
    \E end \in {opened, opened + 1} : end <= Len(file) /\ fp = RowStart(end)

(* A frame that the log center accepts has exactly the body its header     *)
(* announced, also when the file shrinks under the writer; unless it did,  *)
(* the body is the end of the file, in order and without filling bytes;    *)
(* and no end that is too long for an int is taken for a shorter one -     *)
(* below twice the range of a non-negative int.                            *)
FrameComplete ==
  stage = "sent" /\ Accepted =>
    /\ Len(sent) = length
    /\ ~cut => sent = [i \in 1..Len(sent) |-> fp - Len(sent) + i]
    /\ tail \in 0..(IntRange - 1) => length = tail

(* Neither a growing file nor one that was emptied keeps the threads       *)
(* of the client busy for ever.                                            *)
AnswerEnds == (stage \notin Over) ~> (stage \in Over)

(* LogUtil: "rows" lines are read from the end of the file (all of them    *)
(* if it has fewer), here of a file that does not change.                  *)
Rows(from, to) ==
  Cardinality(Ends(from + 1, to)) + IF to > from /\ file[to] # "newline" THEN 1 ELSE 0

LastRowsRead ==
  stage = "found" /\ ~cut /\ Len(file) = opened /\ rows > 0 =>
    Rows(fp, opened) = IF Rows(0, opened) < rows THEN Rows(0, opened) ELSE rows
=============================================================================
