----------------------------- MODULE ByteRanges -----------------------------
(***************************************************************************)
(* cache/bitmap.rs: the sorted list of half-open intervals `<<start, end>>`*)
(* that records which bytes of a sparse cache file are on disk, and the    *)
(* blob cache/range_db.rs stores it as.  TLA+ sequences start at 1: index  *)
(* n of the code's Vec is index n + 1 here, and a *count* n is the same.   *)
(***************************************************************************)
EXTENDS Integers, Sequences

CONSTANT FileSize

ASSUME FileSizeNat == FileSize \in Nat

VARIABLES
  intervals,  \* the field `intervals`
  call        \* the arguments of the last `insert`

vars == << intervals, call >>

-----------------------------------------------------------------------------
(* `slice::partition_point`: the number of leading elements that satisfy   *)
(* P, in a sequence where those that satisfy it come first.                *)
PartitionPoint(iv, P(_)) ==
  CHOOSE n \in 0..Len(iv) : /\ \A i \in 1..n : P(iv[i])
                            /\ \A i \in (n + 1)..Len(iv) : ~P(iv[i])

(* How many intervals end strictly before `start`.                         *)
LeftBound(iv, start) == PartitionPoint(iv, LAMBDA v : v[2] < start)

(* Names with a suffix are faulty variants of the definition they stand    *)
(* before; the project's mutation runs put them in its place.              *)
RightBoundStrict(iv, left, end) ==
  CHOOSE r \in left..Len(iv) : /\ \A i \in (left + 1)..r : iv[i][1] < end
                               /\ r < Len(iv) => iv[r + 1][1] >= end

(* The `while` loop: extend over the intervals that start at or before end.*)
RightBound(iv, left, end) ==
  CHOOSE r \in left..Len(iv) : /\ \A i \in (left + 1)..r : iv[i][1] <= end
                               /\ r < Len(iv) => iv[r + 1][1] > end

MergedTakesLastEnd(iv, left, right, start, end) ==
  IF left < right
  THEN << IF iv[left + 1][1] < start THEN iv[left + 1][1] ELSE start,
          iv[right][2] >>
  ELSE << start, end >>

(* The interval that replaces those numbered left + 1 .. right.            *)
Merged(iv, left, right, start, end) ==
  IF left < right
  THEN << IF iv[left + 1][1] < start THEN iv[left + 1][1] ELSE start,
          IF iv[right][2] > end THEN iv[right][2] ELSE end >>
  ELSE << start, end >>

InsertInto(iv, start, end) ==
  IF start >= end
  THEN iv
  ELSE LET left  == LeftBound(iv, start)
           right == RightBound(iv, left, end)
       IN  SubSeq(iv, 1, left) \o << Merged(iv, left, right, start, end) >>
             \o SubSeq(iv, right + 1, Len(iv))

HasRangeStrict(iv, start, end) ==
  \/ start >= end
  \/ LET idx == PartitionPoint(iv, LAMBDA v : v[1] < start)
     IN  idx > 0 /\ iv[idx][2] >= end

HasRange(iv, start, end) ==
  \/ start >= end
  \/ LET idx == PartitionPoint(iv, LAMBDA v : v[1] <= start)
     IN  idx > 0 /\ iv[idx][2] >= end

None == <<>>

FindMissingFirstGapOnly(iv, start, end) ==
  IF HasRange(iv, start, end) THEN None
  ELSE IF \E i \in 1..Len(iv) : iv[i][1] <= start /\ start < iv[i][2]
       THEN << (CHOOSE v \in {iv[i] : i \in 1..Len(iv)} :
                  v[1] <= start /\ start < v[2])[2], end >>
       ELSE << start, end >>

(* The walk of `find_missing`: Cursor[i] is the cursor after i intervals,  *)
(* and the walk stops at the first interval that leaves a gap or at which  *)
(* the cursor reaches the end.                                             *)
FindMissing(iv, start, end) ==
  LET Cursor[i \in 0..Len(iv)] ==
        IF i = 0 THEN start
        ELSE IF iv[i][2] > Cursor[i - 1] THEN iv[i][2] ELSE Cursor[i - 1]
      Gap(i)   == iv[i][1] > Cursor[i - 1]
      Stops(i) == Gap(i) \/ Cursor[i] >= end
      stops    == {i \in 1..Len(iv) : Stops(i)}
  IN  IF HasRange(iv, start, end) THEN None
      ELSE IF stops = {} THEN << Cursor[Len(iv)], end >>
      ELSE LET i == CHOOSE n \in stops : \A m \in stops : n <= m
           IN  IF Gap(i)
               THEN << Cursor[i - 1], IF iv[i][1] < end THEN iv[i][1] ELSE end >>
               ELSE None

TotalBytes(iv) ==
  LET Sum[i \in 0..Len(iv)] ==
        IF i = 0 THEN 0 ELSE Sum[i - 1] + (iv[i][2] - iv[i][1])
  IN  Sum[Len(iv)]

FromIntervals(ivs) ==
  LET Built[i \in 0..Len(ivs)] ==
        IF i = 0 THEN <<>> ELSE InsertInto(Built[i - 1], ivs[i][1], ivs[i][2])
  IN  Built[Len(ivs)]

(* The row's blob: two words for each interval.                            *)
EncodeRangesBlob(iv) ==
  [w \in 1..(2 * Len(iv)) |-> iv[(w + 1) \div 2][IF w % 2 = 1 THEN 1 ELSE 2]]

DecodeRangesBlobOverlapping(blob) ==
  [i \in 1..(Len(blob) \div 2) |-> << blob[i], blob[i + 1] >>]

(* For blobs that EncodeRangesBlob has made; the code refuses one that does*)
(* not consist of whole intervals.                                         *)
DecodeRangesBlob(blob) ==
  [i \in 1..(Len(blob) \div 2) |-> << blob[2 * i - 1], blob[2 * i] >>]

-----------------------------------------------------------------------------
Init == intervals = <<>> /\ call = << 0, 0 >>

Insert(start, end) ==
  /\ intervals' = InsertInto(intervals, start, end)
  /\ call' = << start, end >>

Next == \E start, end \in 0..FileSize : Insert(start, end)

Spec == Init /\ [][Next]_vars

-----------------------------------------------------------------------------
(* The bytes an interval list stands for.                                  *)
Covered(iv) ==
  {b \in 0..FileSize :
     \E i \in 1..Len(iv) : iv[i][1] <= b /\ b < iv[i][2]}

NormalizedList(iv) ==
  /\ iv \in Seq((0..FileSize) \X (0..FileSize))
  /\ \A i \in 1..Len(iv) : iv[i][1] < iv[i][2]
  /\ \A i, j \in 1..Len(iv) : i < j => iv[i][2] < iv[j][1]

(* bitmap.rs, the invariant of the field `intervals`: "sorted by `start`,  *)
(* non-overlapping, non-adjacent".  Every other function relies on it: an  *)
(* adjacent pair left unmerged makes `has_range` deny a range that is      *)
(* entirely on disk.                                                       *)
Normalized == NormalizedList(intervals)

(* `has_range` answers for every query exactly whether all its bytes are   *)
(* recorded: a false hit makes `read_at` return zeroes of the sparse file, *)
(* a false miss makes a reader download for ever.                          *)
HasRangeExact ==
  \A s, e \in 0..FileSize :
    HasRange(intervals, s, e) <=> \A b \in s..(e - 1) : b \in Covered(intervals)

(* `find_missing` answers the first gap of the query, all of it and nothing*)
(* else, and answers None only when nothing is missing: the downloader     *)
(* loops on it, so an empty or a covered answer would never end its loop.  *)
FindMissingExact ==
  \A s, e \in 0..FileSize :
    LET have    == Covered(intervals)
        missing == {b \in s..(e - 1) : b \notin have}
        answer  == FindMissing(intervals, s, e)
    IN  IF missing = {} THEN answer = None
        ELSE /\ answer # None
             /\ s <= answer[1] /\ answer[1] < answer[2] /\ answer[2] <= e
             /\ \A b \in missing : answer[1] <= b
             /\ \A b \in answer[1]..(answer[2] - 1) : b \in missing
             /\ answer[2] \notin missing

(* A flush followed by a restart gives back the same list: the blob of     *)
(* range_db.rs decodes to the intervals it encodes, `from_intervals`       *)
(* rebuilds them one by one, and the size reported for them is their bytes.*)
PersistRoundTrip ==
  LET restored == FromIntervals(DecodeRangesBlob(EncodeRangesBlob(intervals)))
  IN  /\ restored = intervals
      /\ TotalBytes(restored) =
           LET Count[b \in 0..FileSize] ==
                 (IF b \in Covered(intervals) THEN 1 ELSE 0)
                   + (IF b = 0 THEN 0 ELSE Count[b - 1])
           IN  Count[FileSize]

Abstract == INSTANCE ByteSet WITH bytes <- Covered(intervals)

(* The interval list implements the set of bytes: every `insert` adds the  *)
(* bytes of [start, end) to those covered, loses none and invents none.    *)
ImplementsByteSet == Abstract!Spec
=============================================================================
