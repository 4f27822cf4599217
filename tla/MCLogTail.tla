------------------------------ MODULE MCLogTail ------------------------------
(* Instances of LogTail for TLC: every short file, and files whose length *)
(* is near and beyond the range of a (very small) int.                    *)
EXTENDS LogTail, TLC

CONSTANT MaxShort   \* bound: the length of the short files

Lines(n) == [i \in 1..n |-> IF i % 3 = 0 THEN "newline" ELSE "other"]

MCFiles ==
  UNION {[1..n -> Bytes] : n \in 0..MaxShort} \cup {Lines(n) : n \in {5, 6, 7, 8, 9, 16, 17}}
=============================================================================
