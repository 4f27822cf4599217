---------------------------- MODULE LogTailProofs ----------------------------
(***************************************************************************)
(* For every file, number of rows, package length and range of int: the    *)
(* types of LogTail, that reading backwards stops at the right separator   *)
(* (ScanFindsRowStart) and that an accepted frame is whole (FrameComplete).*)
(***************************************************************************)
EXTENDS LogTail, FiniteSetTheorems, SequenceTheorems, TLAPS

USE TailAssumption

(***************************************************************************)
(* The cast to int.                                                        *)
(***************************************************************************)
LEMMA RemainderOfNat ==
  ASSUME NEW x \in Nat, NEW n \in Nat \ {0}
  PROVE  x % n \in 0..(n - 1) /\ x % n <= x /\ (x < n => x % n = x)
  <1>1. x % n \in 0..(n - 1)
    OBVIOUS
  <1>2. x = n * (x \div n) + (x % n) /\ x \div n \in Int
    OBVIOUS
  <1>3. x \div n >= 0
    BY <1>1, <1>2
  <1>4. n * (x \div n) >= 0
    BY <1>3
  <1>5. x % n <= x
    BY <1>1, <1>2, <1>4
  <1>6. x < n => x % n = x
    OBVIOUS
  <1>. QED BY <1>1, <1>5, <1>6

(* A number that is not negative is never cast to a greater one; below the *)
(* range of int it is kept or becomes negative.                            *)
LEMMA CastOfNat ==
  ASSUME NEW x \in Nat
  PROVE  /\ ToInt(x) \in Int /\ ToInt(x) <= x
         /\ x < IntRange /\ ToInt(x) >= 0 => ToInt(x) = x
  <1>1. x % IntRange \in 0..(IntRange - 1) /\ x % IntRange <= x
        /\ (x < IntRange => x % IntRange = x)
    BY RemainderOfNat
  <1>2. ToInt(x) = x % IntRange \/ ToInt(x) = (x % IntRange) - IntRange
    BY DEF ToInt
  <1>. QED BY <1>1, <1>2

LEMMA CastIsInt == ASSUME NEW x \in Int PROVE ToInt(x) \in Int
  BY DEF ToInt

(***************************************************************************)
(* Types.                                                                  *)
(***************************************************************************)
Package == IF left < PackageLength THEN left ELSE PackageLength

ReadOf(size) == IF fp + size <= Len(file) THEN size
                ELSE IF fp < Len(file) THEN Len(file) - fp ELSE 0

(* A package that is written, in the terms the proofs use. *)
LEMMA PackageWritten ==
  ASSUME TypeOK, WritePackage
  PROVE  /\ stage = "streaming" /\ left > 0 /\ Package \in 1..left
         /\ ReadOf(Package) \in 0..Package
         /\ sent' \in Seq(Nat) /\ Len(sent') = Len(sent) + Package
         /\ \A i \in 1..Len(sent') :
              sent'[i] = IF i <= Len(sent) THEN sent[i]
                         ELSE IF i - Len(sent) <= ReadOf(Package) THEN fp + (i - Len(sent)) ELSE 0
         /\ fp' = fp + ReadOf(Package) /\ left' = left - PackageLength
         /\ UNCHANGED <<file, cut, opened, stage, rows, pointer, seps, tail, length>>
  <1>1. Package \in 1..left /\ Package \in Nat
    BY DEF TypeOK, Package, WritePackage, Write
  <1>2. ReadOf(Package) \in 0..Package
    BY <1>1 DEF TypeOK, ReadOf
  <1> DEFINE byte(i) == IF i <= ReadOf(Package) THEN fp + i ELSE 0
             bytes == [i \in 1..Package |-> byte(i)]
  <1>3. sent' = sent \o bytes
    BY DEF WritePackage, Write, Package, ReadOf
  <1>4. bytes \in Seq(Nat) /\ Len(bytes) = Package /\ \A i \in 1..Package : bytes[i] = byte(i)
    BY <1>1, <1>2 DEF TypeOK
  <1>5. sent \in Seq(Nat) /\ Len(sent) \in Nat
    BY DEF TypeOK
  <1> HIDE DEF bytes
  <1>6. sent' \in Seq(Nat) /\ Len(sent') = Len(sent) + Package
        /\ \A i \in 1..(Len(sent) + Package) :
             sent'[i] = IF i <= Len(sent) THEN sent[i] ELSE bytes[i - Len(sent)]
    BY <1>3, <1>4, <1>5, ConcatProperties
  <1>7. \A i \in 1..Len(sent') :
          sent'[i] = IF i <= Len(sent) THEN sent[i]
                     ELSE IF i - Len(sent) <= ReadOf(Package) THEN fp + (i - Len(sent)) ELSE 0
    BY <1>1, <1>4, <1>5, <1>6
  <1>. QED
    BY <1>1, <1>2, <1>6, <1>7
    DEF WritePackage, Write, Package, ReadOf, fileVars, scanVars

LEMMA TypeKept == ASSUME TypeOK, [Next]_vars PROVE TypeOK'
  <1>1. CASE UNCHANGED vars
    BY <1>1 DEF vars, fileVars, scanVars, bodyVars, TypeOK
  <1>2. CASE Rotate \/ \E b \in Bytes : Log(b)
    <2>1. file' \in Seq(Bytes)
      <3>1. CASE Rotate
        BY <3>1, EmptySeq DEF Rotate
      <3>2. ASSUME NEW b \in Bytes, Log(b) PROVE file' \in Seq(Bytes)
        BY <3>2 DEF Log, TypeOK
      <3>. QED BY <1>2, <3>1, <3>2
    <2>2. cut' \in BOOLEAN
      BY <1>2, Zenon DEF Rotate, Log, TypeOK
    <2>. QED BY <1>2, <2>1, <2>2 DEF Rotate, Log, scanVars, bodyVars, TypeOK
  <1>3. ASSUME NEW f \in Files, NEW r \in RowsAsked, Open(f, r) PROVE TypeOK'
    <2>1. f \in Seq(Bytes) /\ Len(f) \in Nat /\ r \in Int
      OBVIOUS
    <2>2. file' \in Seq(Bytes) /\ sent' \in Seq(Nat)
      BY <1>3, <2>1, EmptySeq DEF Open
    <2>3. cut' \in BOOLEAN
      BY <1>3, Zenon DEF Open
    <2>. QED BY <1>3, <2>1, <2>2, <2>3 DEF Open, TypeOK, Stages
  <1>4. CASE Scan
    <2>1. UNCHANGED <<file, cut, opened, rows, tail, length, left, sent>>
      BY <1>4 DEF Scan, Read, fileVars, bodyVars
    <2>2. pointer' \in Int /\ pointer' >= -1 /\ seps' \in Nat /\ fp' \in Nat
      BY <1>4 DEF Scan, Read, TypeOK
    <2>3. stage' \in Stages /\ (stage' = "scanning" => pointer' >= 0)
      BY <1>4 DEF Scan, Read, Stages
    <2>. QED BY <2>1, <2>2, <2>3 DEF TypeOK
  <1>5. CASE Measure
    BY <1>5, CastIsInt DEF Measure, TypeOK, Stages, fileVars, scanVars
  <1>6. CASE WritePackage
    <2>1. sent' \in Seq(Nat) /\ ReadOf(Package) \in Nat
          /\ fp' = fp + ReadOf(Package) /\ left' = left - PackageLength
      BY <1>6, PackageWritten
    <2>2. fp' \in Nat /\ left' \in Int
      BY <2>1 DEF TypeOK
    <2>. QED BY <1>6, <2>1, <2>2, PackageWritten DEF TypeOK
  <1>7. CASE CloseFile \/ Refuse \/ WriteFails
    <2>1. UNCHANGED <<fileVars, scanVars, fp, bodyVars>> /\ stage' \in {"sent", "refused", "broken"}
      BY <1>7 DEF CloseFile, Refuse, WriteFails
    <2>2. UNCHANGED <<file, cut, opened, rows, pointer, seps, fp, tail, length, left, sent>>
      BY <2>1 DEF fileVars, scanVars, bodyVars
    <2>3. pointer >= -1
      BY DEF TypeOK
    <2>. QED BY <2>1, <2>2, <2>3 DEF TypeOK, Stages, Over
  <1>. QED BY <1>1, <1>2, <1>3, <1>4, <1>5, <1>6, <1>7 DEF Next, Answer

THEOREM TypeCorrect == Spec => []TypeOK
  <1>1. Init => TypeOK
    <2>1. Init => file \in Seq(Bytes) /\ sent \in Seq(Nat)
      BY EmptySeq DEF Init
    <2>2. Init => cut \in BOOLEAN
      BY Zenon DEF Init
    <2>. QED BY <2>1, <2>2 DEF Init, TypeOK, Stages, Over
  <1>. QED BY <1>1, TypeKept, PTL DEF Spec

(***************************************************************************)
(* Reading backwards.                                                      *)
(***************************************************************************)
LEMMA EndsFinite ==
  ASSUME NEW from \in Int, NEW to \in Int
  PROVE  IsFiniteSet(Ends(from, to)) /\ Cardinality(Ends(from, to)) \in Nat
  <1>1. IsFiniteSet(from..to) /\ Ends(from, to) \in SUBSET (from..to)
    BY FS_Interval DEF Ends
  <1>2. IsFiniteSet(Ends(from, to))
    BY <1>1, FS_Subset
  <1>. QED BY <1>2, FS_CardinalityType

(* A byte in front of them. *)
LEMMA EndsStep ==
  ASSUME NEW from \in Int, NEW to \in Int, from <= to
  PROVE  Cardinality(Ends(from, to)) =
           Cardinality(Ends(from + 1, to)) + IF file[from] = "newline" THEN 1 ELSE 0
  <1>1. IsFiniteSet(Ends(from + 1, to)) /\ from \notin Ends(from + 1, to)
        /\ Cardinality(Ends(from + 1, to)) \in Nat
    BY EndsFinite DEF Ends
  <1>2. CASE file[from] = "newline"
    <2>1. Ends(from, to) = Ends(from + 1, to) \cup {from}
      BY <1>2 DEF Ends
    <2>. QED BY <1>1, <1>2, <2>1, FS_AddElement
  <1>3. CASE file[from] # "newline"
    <2>1. Ends(from, to) = Ends(from + 1, to)
      BY <1>3 DEF Ends
    <2>. QED BY <1>1, <1>3, <2>1
  <1>. QED BY <1>2, <1>3

(* RowStart is the start of the row that the separators count to. *)
LEMMA RowStartIs ==
  ASSUME TypeOK, NEW end \in Nat, NEW p \in 1..end, rows > 0,
         file[p] = "newline", Cardinality(Ends(p, end)) = rows
  PROVE  RowStart(end) = p
  <1>. 1 \in Int /\ p \in Int /\ end \in Int /\ rows \in Int
    BY DEF TypeOK
  <1>1. p \in Ends(1, end)
    BY DEF Ends
  <1>2. ASSUME NEW q \in Ends(1, end), Cardinality(Ends(q, end)) = rows PROVE q = p
    <2>. q \in 1..end /\ q \in Int
      BY DEF Ends
    <2>1. IsFiniteSet(Ends(p, end)) /\ IsFiniteSet(Ends(q, end))
      BY EndsFinite, Zenon
    <2>2. q \in Ends(q, end) /\ p \in Ends(p, end)
      BY DEF Ends
    <2>3. CASE q < p
      <3>1. Ends(p, end) \in SUBSET Ends(q, end) /\ q \notin Ends(p, end)
        BY <2>3 DEF Ends
      <3>. QED BY <1>2, <2>1, <2>2, <3>1, FS_Subset
    <2>4. CASE p < q
      <3>1. Ends(q, end) \in SUBSET Ends(p, end) /\ p \notin Ends(q, end)
        BY <2>4 DEF Ends
      <3>. QED BY <1>2, <2>1, <2>2, <3>1, FS_Subset
    <2>. QED BY <2>3, <2>4
  <1>. QED BY <1>1, <1>2 DEF RowStart, Starts

LEMMA RowStartOfAll ==
  ASSUME TypeOK, NEW end \in Nat, rows <= 0 \/ Cardinality(Ends(1, end)) < rows
  PROVE  RowStart(end) = 0
  <1>. 1 \in Int /\ end \in Int /\ rows \in Int
    BY DEF TypeOK
  <1>1. ASSUME NEW p \in Starts(end) PROVE FALSE
    <2>. p \in 1..end /\ p \in Int
      BY DEF Starts, Ends
    <2>1. IsFiniteSet(Ends(p, end)) /\ IsFiniteSet(Ends(1, end))
          /\ Cardinality(Ends(p, end)) \in Nat /\ Cardinality(Ends(1, end)) \in Nat
      BY EndsFinite, Zenon
    <2>2. p \in Ends(p, end) /\ Ends(p, end) \in SUBSET Ends(1, end)
      BY DEF Starts, Ends
    <2>3. Cardinality(Ends(p, end)) # 0 /\ Cardinality(Ends(p, end)) <= Cardinality(Ends(1, end))
      BY <2>1, <2>2, FS_EmptySet, FS_Subset
    <2>. QED BY <2>1, <2>3 DEF Starts
  <1>. QED BY <1>1 DEF RowStart

(* The loop has counted the separators behind its pointer; and when it     *)
(* ends, the file pointer is where the rows begin.                         *)
Counted(end) ==
  /\ end <= Len(file)
  /\ seps = Cardinality(Ends(pointer + 2, end))

ScanInv ==
  /\ ~cut /\ stage \in {"scanning", "found"} => opened <= Len(file)
  /\ ~cut /\ stage = "scanning" =>
       /\ seps < rows
       /\ \/ pointer = opened /\ seps = 0
          \/ pointer < opened /\ \E end \in {opened, opened + 1} : Counted(end)

LEMMA ScanInvKept ==
  ASSUME TypeOK, ScanInv, ScanFindsRowStart, [Next]_vars
  PROVE  ScanInv' /\ ScanFindsRowStart'
  <1>1. CASE UNCHANGED vars
    <2>1. UNCHANGED <<file, cut, opened, stage, rows, pointer, seps, fp>>
      BY <1>1 DEF vars, fileVars, scanVars
    <2>2. ScanInv'
      BY <2>1 DEF ScanInv, Counted, Ends
    <2>3. ScanFindsRowStart'
      <3>1. \A end : Starts(end)' = Starts(end)
        BY <2>1 DEF Starts, Ends
      <3>2. ASSUME NEW end PROVE RowStart(end)' = RowStart(end)
        <4>1. Starts(end)' = Starts(end)
          BY <3>1
        <4>. QED BY <4>1 DEF RowStart
      <3>. QED BY <2>1, <3>2 DEF ScanFindsRowStart
    <2>. QED BY <2>2, <2>3
  <1>2. ASSUME NEW b \in Bytes, Log(b) PROVE ScanInv' /\ ScanFindsRowStart'
    <2>1. file' = Append(file, b) /\ file \in Seq(Bytes) /\ Len(file') = Len(file) + 1
          /\ UNCHANGED <<cut, opened, stage, rows, pointer, seps, fp>>
      BY <1>2 DEF Log, TypeOK, scanVars, bodyVars
    <2>2. ASSUME NEW end \in Nat, end <= Len(file), NEW from \in Int, from >= 1
          PROVE  Ends(from, end)' = Ends(from, end)
      BY <2>1, <2>2 DEF Ends
    <2>3. ASSUME NEW end \in Nat, end <= Len(file) PROVE RowStart(end)' = RowStart(end)
      <3>1. Ends(1, end)' = Ends(1, end) /\ \A p \in Ends(1, end) : Ends(p, end)' = Ends(p, end)
        BY <2>2, <2>3 DEF Ends
      <3>2. Starts(end)' = Starts(end)
        BY <2>1, <3>1 DEF Starts
      <3>. QED BY <3>2 DEF RowStart
    <2>. QED
      BY <2>1, <2>2, <2>3 DEF ScanInv, ScanFindsRowStart, Counted, TypeOK
  <1>3. CASE Rotate
    BY <1>3 DEF Rotate, ScanInv, ScanFindsRowStart
  <1>4. ASSUME NEW f \in Files, NEW r \in RowsAsked, Open(f, r) PROVE ScanInv' /\ ScanFindsRowStart'
    <2>1. /\ file' = f /\ opened' = Len(f) /\ rows' = r /\ pointer' = Len(f) /\ seps' = 0 /\ fp' = 0
          /\ stage' = IF r > 0 THEN "scanning" ELSE "found"
          /\ r \in Int /\ Len(f) \in Nat
      BY <1>4 DEF Open
    <2>2. ScanInv'
      BY <2>1 DEF ScanInv
    <2>3. stage' = "found" => RowStart(opened)' = 0
      <3>. SUFFICES ASSUME r <= 0, NEW p \in Starts(opened)' PROVE FALSE
        BY <2>1 DEF RowStart
      <3>1. p \in p..Len(f) /\ p \in Int /\ f[p] = "newline"
            /\ Cardinality({q \in p..Len(f) : f[q] = "newline"}) = r
        BY <2>1 DEF Starts, Ends
      <3> DEFINE T == {q \in p..Len(f) : f[q] = "newline"}
      <3>2. IsFiniteSet(p..Len(f)) /\ T \in SUBSET (p..Len(f)) /\ p \in T
        BY <2>1, <3>1, FS_Interval
      <3>3. IsFiniteSet(T)
        BY <3>2, FS_Subset
      <3>4. Cardinality(T) # 0 /\ Cardinality(T) \in Nat
        BY <3>2, <3>3, FS_CardinalityType, FS_EmptySet, Zenon
      <3>5. Cardinality(T) = r
        BY <3>1
      <3>. QED BY <2>1, <3>4, <3>5
    <2>. QED BY <2>1, <2>2, <2>3 DEF ScanFindsRowStart
  <1>5. CASE Scan
    <2> DEFINE hit == pointer \in 0..(Len(file) - 1)
    <2>1. /\ stage = "scanning" /\ UNCHANGED <<file, cut, opened, rows>> /\ pointer \in Nat
          /\ seps' = IF hit /\ file[pointer + 1] = "newline" THEN seps + 1 ELSE seps
          /\ pointer' = pointer - 1
          /\ fp' = IF pointer' = -1 /\ seps' < rows THEN 0 ELSE IF hit THEN pointer + 1 ELSE pointer
          /\ stage' = IF pointer' >= 0 /\ seps' < rows THEN "scanning" ELSE "found"
      BY <1>5 DEF Scan, Read, TypeOK, fileVars
    <2>. SUFFICES ASSUME ~cut PROVE ScanInv' /\ ScanFindsRowStart'
      BY <2>1 DEF ScanInv, ScanFindsRowStart
    <2>2. opened <= Len(file) /\ seps < rows /\ rows \in Int /\ opened \in Nat /\ Len(file) \in Nat
          /\ seps \in Nat
      BY <2>1 DEF ScanInv, TypeOK
    <2>3. PICK end \in {opened, opened + 1} :
            /\ end <= Len(file) /\ end \in Nat
            /\ pointer + 1 <= end <=> hit
            /\ seps = Cardinality(Ends(pointer + 2, end))
      <3>1. CASE pointer < opened
        BY <2>1, <2>2, <3>1 DEF ScanInv, Counted
      <3>2. CASE pointer = opened /\ seps = 0
        <4>1. \A e \in {opened, opened + 1} : Ends(pointer + 2, e) = {}
          BY <2>2, <3>2 DEF Ends
        <4>2. \A e \in {opened, opened + 1} : seps = Cardinality(Ends(pointer + 2, e))
          BY <3>2, <4>1, FS_EmptySet
        <4>3. CASE hit
          BY <2>2, <3>2, <4>2, <4>3
        <4>4. CASE ~hit
          BY <2>2, <3>2, <4>2, <4>4
        <4>. QED BY <4>3, <4>4
      <3>. QED BY <2>1, <3>1, <3>2 DEF ScanInv
    <2>4. seps' = Cardinality(Ends(pointer + 1, end))
      <3>1. CASE hit
        <4>1. pointer + 1 \in Int /\ end \in Int /\ pointer + 1 <= end /\ pointer + 2 = (pointer + 1) + 1
          BY <2>1, <2>3, <3>1
        <4>2. Cardinality(Ends(pointer + 1, end)) =
                Cardinality(Ends(pointer + 2, end)) + IF file[pointer + 1] = "newline" THEN 1 ELSE 0
          BY <4>1, EndsStep
        <4>. QED BY <2>1, <2>2, <2>3, <3>1, <4>2
      <3>2. CASE ~hit
        <4>1. Ends(pointer + 1, end) = {} /\ Ends(pointer + 2, end) = {}
          BY <2>1, <2>3, <3>2 DEF Ends
        <4>. QED BY <2>1, <2>3, <3>2, <4>1
      <3>. QED BY <3>1, <3>2
    <2>5. Ends(pointer + 2, end)' = Ends(pointer + 1, end) /\ RowStart(end)' = RowStart(end)
      BY <2>1 DEF Ends, RowStart, Starts
    <2>6. ScanInv'
      <3>1. stage' = "scanning" => Counted(end)'
        BY <2>1, <2>3, <2>4, <2>5 DEF Counted
      <3>. QED BY <2>1, <2>2, <2>3, <3>1 DEF ScanInv
    <2>7. ScanFindsRowStart'
      <3>1. CASE seps' = rows
        <4>1. hit /\ file[pointer + 1] = "newline" /\ pointer + 1 \in 1..end /\ fp' = pointer + 1
          BY <2>1, <2>2, <2>3, <3>1
        <4>2. RowStart(end) = pointer + 1
          BY <2>2, <2>3, <2>4, <3>1, <4>1, RowStartIs
        <4>. QED BY <2>1, <2>3, <2>5, <4>1, <4>2 DEF ScanFindsRowStart
      <3>2. CASE seps' < rows /\ pointer = 0
        <4>1. RowStart(end) = 0
          BY <2>3, <2>4, <3>2, RowStartOfAll
        <4>. QED BY <2>1, <2>3, <2>5, <3>2, <4>1 DEF ScanFindsRowStart
      <3>3. CASE seps' < rows /\ pointer > 0
        BY <2>1, <3>3 DEF ScanFindsRowStart
      <3>. QED BY <2>1, <2>2, <3>1, <3>2, <3>3
    <2>. QED BY <2>6, <2>7
  <1>6. CASE Measure \/ WritePackage \/ CloseFile \/ Refuse \/ WriteFails
    BY <1>6, PackageWritten
    DEF Measure, CloseFile, Refuse, WriteFails, ScanInv, ScanFindsRowStart, Stages
  <1>. QED BY <1>1, <1>2, <1>3, <1>4, <1>5, <1>6 DEF Next, Answer

THEOREM RowStartFound == Spec => []ScanFindsRowStart
  <1>1. Init => ScanInv /\ ScanFindsRowStart
    BY DEF Init, ScanInv, ScanFindsRowStart
  <1>2. TypeOK /\ ScanInv /\ ScanFindsRowStart /\ [Next]_vars => (ScanInv /\ ScanFindsRowStart)'
    BY ScanInvKept
  <1>. QED BY <1>1, <1>2, TypeCorrect, PTL DEF Spec

(***************************************************************************)
(* Streaming.                                                              *)
(***************************************************************************)
(* The loop has written what it counted down; and in a file that was not   *)
(* emptied it has not come to the end too early.                           *)
BodyInv ==
  /\ stage \in {"scanning", "found"} => sent = <<>>
  /\ stage = "found" /\ ~cut => fp <= Len(file)
  /\ stage = "sent" => left <= 0
  /\ stage \in {"streaming", "sent"} =>
       /\ length = ToInt(tail)
       /\ left <= length
       /\ Len(sent) = IF left > 0 THEN length - left ELSE IF length > 0 THEN length ELSE 0
       /\ ~cut => /\ left > 0 => fp + left <= Len(file)
                  /\ \A i \in 1..Len(sent) : sent[i] = fp - Len(sent) + i

LEMMA BodyInvKept ==
  ASSUME TypeOK, ScanInv, BodyInv, [Next]_vars
  PROVE  BodyInv'
  <1>1. CASE UNCHANGED vars
    <2>1. UNCHANGED <<file, cut, stage, fp, tail, length, left, sent>>
      BY <1>1 DEF vars, fileVars, bodyVars
    <2>. QED BY <2>1 DEF BodyInv
  <1>2. CASE Rotate
    BY <1>2 DEF Rotate, BodyInv, bodyVars
  <1>3. ASSUME NEW b \in Bytes, Log(b) PROVE BodyInv'
    <2>1. Len(file') = Len(file) + 1 /\ Len(file) \in Nat /\ fp \in Nat /\ left \in Int
          /\ UNCHANGED <<cut, stage, fp, tail, length, left, sent>>
      BY <1>3 DEF Log, TypeOK, bodyVars
    <2>. QED BY <2>1 DEF BodyInv
  <1>4. ASSUME NEW f \in Files, NEW r \in RowsAsked, Open(f, r) PROVE BodyInv'
    <2>1. /\ file' = f /\ fp' = 0 /\ sent' = <<>> /\ stage' \in {"scanning", "found"} /\ Len(f) \in Nat
      BY <1>4 DEF Open
    <2>. QED BY <2>1 DEF BodyInv
  <1>5. CASE Scan
    <2>1. /\ stage = "scanning" /\ stage' \in {"scanning", "found"}
          /\ UNCHANGED <<file, cut, sent>> /\ Len(file) \in Nat
      BY <1>5 DEF Scan, Read, TypeOK, fileVars, bodyVars
    <2>2. ~cut => fp' <= Len(file)
      BY <1>5, <2>1 DEF Scan, Read, TypeOK, ScanInv
    <2>. QED BY <2>1, <2>2 DEF BodyInv
  <1>6. CASE Measure
    <2>1. /\ stage = "found" /\ stage' = "streaming" /\ sent = <<>> /\ tail' = Len(file) - fp
          /\ length' = ToInt(tail') /\ left' = length' /\ UNCHANGED <<file, cut, fp, sent>>
          /\ Len(file) \in Nat /\ fp \in Nat
      BY <1>6 DEF Measure, BodyInv, TypeOK, fileVars
    <2>2. length' \in Int /\ (~cut => length' <= tail')
      BY <2>1, CastIsInt, CastOfNat DEF BodyInv
    <2>. QED BY <2>1, <2>2 DEF BodyInv
  <1>7. CASE WritePackage
    <2>1. /\ stage = "streaming" /\ stage' = "streaming" /\ left > 0 /\ left' = left - PackageLength
          /\ Package \in 1..left /\ left \in Int /\ length \in Int /\ fp \in Nat /\ Len(file) \in Nat
          /\ Len(sent) \in Nat /\ Len(sent') = Len(sent) + Package
          /\ UNCHANGED <<file, cut, tail, length>> /\ fp' = fp + ReadOf(Package)
      <3>1. left \in Int /\ length \in Int /\ fp \in Nat /\ Len(file) \in Nat /\ Len(sent) \in Nat
        BY DEF TypeOK
      <3>. QED BY <1>7, <3>1, PackageWritten
    <2>2. /\ length = ToInt(tail) /\ left <= length /\ Len(sent) = length - left
          /\ ~cut => fp + left <= Len(file) /\ \A i \in 1..Len(sent) : sent[i] = fp - Len(sent) + i
      BY <2>1 DEF BodyInv
    <2>3. Len(sent') = IF left' > 0 THEN length - left' ELSE IF length > 0 THEN length ELSE 0
      BY <2>1, <2>2, SMTT(30) DEF Package
    <2>4. ASSUME ~cut
          PROVE  /\ left' > 0 => fp' + left' <= Len(file)
                 /\ \A i \in 1..Len(sent') : sent'[i] = fp' - Len(sent') + i
      <3>1. ReadOf(Package) = Package /\ fp' = fp + Package
        BY <2>1, <2>2, <2>4 DEF ReadOf
      <3>2. left' > 0 => fp' + left' <= Len(file)
        BY <2>1, <2>2, <2>4, <3>1 DEF Package
      <3>3. ASSUME NEW i \in 1..Len(sent') PROVE sent'[i] = fp' - Len(sent') + i
        <4>1. sent'[i] = IF i <= Len(sent) THEN sent[i]
                         ELSE IF i - Len(sent) <= Package THEN fp + (i - Len(sent)) ELSE 0
          BY <1>7, <3>1, PackageWritten
        <4>2. i \in Int /\ i <= Len(sent) + Package /\ fp' - Len(sent') = fp - Len(sent)
          BY <2>1, <3>1
        <4>3. CASE i <= Len(sent)
          BY <2>1, <2>2, <2>4, <4>1, <4>2, <4>3
        <4>4. CASE i > Len(sent)
          <5>1. sent'[i] = fp + (i - Len(sent))
            BY <2>1, <4>1, <4>2, <4>4
          <5>. QED BY <2>1, <4>2, <5>1
        <4>. QED BY <2>1, <4>2, <4>3, <4>4
      <3>. QED BY <3>2, <3>3
    <2>5. left' <= length
      BY <2>1, <2>2
    <2>. QED BY <2>1, <2>2, <2>3, <2>4, <2>5 DEF BodyInv
  <1>8. CASE CloseFile \/ Refuse \/ WriteFails
    BY <1>8 DEF CloseFile, Refuse, WriteFails, BodyInv, fileVars, bodyVars
  <1>. QED BY <1>1, <1>2, <1>3, <1>4, <1>5, <1>6, <1>7, <1>8 DEF Next, Answer

LEMMA BodyInvGivesFrame == TypeOK /\ BodyInv => FrameComplete
  <1>. SUFFICES ASSUME TypeOK, BodyInv, stage = "sent", Accepted
                PROVE  /\ Len(sent) = length
                       /\ ~cut => sent = [i \in 1..Len(sent) |-> fp - Len(sent) + i]
                       /\ tail \in 0..(IntRange - 1) => length = tail
    BY DEF FrameComplete
  <1>1. /\ left <= 0 /\ length >= 0 /\ length = ToInt(tail) /\ Len(sent) = length
        /\ ~cut => \A i \in 1..Len(sent) : sent[i] = fp - Len(sent) + i
    BY DEF BodyInv, Accepted, TypeOK
  <1>2. tail \in 0..(IntRange - 1) => length = tail
    BY <1>1, CastOfNat
  <1>3. sent = [i \in 1..Len(sent) |-> sent[i]]
    BY LenProperties DEF TypeOK
  <1>. QED BY <1>1, <1>2, <1>3

(* Every frame that the decoder accepts is whole, and is the end of the file. *)
THEOREM FramesComplete == Spec => []FrameComplete
  <1>1. Init => ScanInv /\ ScanFindsRowStart /\ BodyInv
    BY DEF Init, ScanInv, ScanFindsRowStart, BodyInv
  <1>2. TypeOK /\ ScanInv /\ ScanFindsRowStart /\ BodyInv /\ [Next]_vars
          => (ScanInv /\ ScanFindsRowStart /\ BodyInv)'
    BY ScanInvKept, BodyInvKept
  <1>. QED BY <1>1, <1>2, TypeCorrect, BodyInvGivesFrame, PTL DEF Spec
=============================================================================
