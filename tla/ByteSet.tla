------------------------------ MODULE ByteSet ------------------------------
(***************************************************************************)
(* What `ByteRanges` (cache/bitmap.rs) promises to its callers: it is the  *)
(* set of the bytes of one sparse cache file that are on disk, and         *)
(* `insert` adds the half-open interval [start, end) to it.                *)
(***************************************************************************)
EXTENDS Naturals

CONSTANT FileSize

VARIABLES
  bytes,  \* the bytes on disk
  call    \* the arguments of the last `insert`

Interval(start, end) == {b \in 0..FileSize : start <= b /\ b < end}

Init == bytes = {} /\ call = << 0, 0 >>

Add(start, end) ==
  /\ bytes' = bytes \cup Interval(start, end)
  /\ call' = << start, end >>

Next == \E start, end \in 0..FileSize : Add(start, end)

Spec == Init /\ [][Next]_<< bytes, call >>
=============================================================================
