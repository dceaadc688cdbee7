-------------------------- MODULE ByteRangesProofs --------------------------
(***************************************************************************)
(* The interval list of cache/bitmap.rs stays normalized and implements    *)
(* the set of bytes, for files of every size and any sequence of inserts.  *)
(*                                                                         *)
(* `insert` replaces the intervals numbered left + 1 .. right by a merged  *)
(* one.  Both bounds are least numbers with a property, so they exist for  *)
(* every list; where they lie relative to start and end is all that the    *)
(* two results need.                                                       *)
(***************************************************************************)
EXTENDS ByteRanges, SequenceTheorems, FiniteSetTheorems, WellFoundedInduction, TLAPS

(* A non-empty set of natural numbers has a least element.                 *)
LEMMA LeastNumber ==
  ASSUME NEW S \in SUBSET Nat, S # {}
  PROVE  \E n \in S : \A m \in S : n <= m
<1>1. IsWellFoundedOn(OpToRel(<, Nat), Nat)
  BY NatLessThanWellFounded
<1>2. PICK n \in S : \A m \in S : ~(<< m, n >> \in OpToRel(<, Nat))
  BY <1>1, WFMin
<1>3. ASSUME NEW m \in S PROVE n <= m
  <2>1. n \in Nat /\ m \in Nat
    OBVIOUS
  <2>2. ~(m < n)
    BY <1>2, <2>1 DEF OpToRel
  <2> QED BY <2>1, <2>2
<1> QED BY <1>3

(* What a normalized list says of its elements, as facts of arithmetic.    *)
LEMMA NormalizedFacts ==
  ASSUME NEW iv, NormalizedList(iv)
  PROVE  /\ Len(iv) \in Nat
         /\ \A i \in 1..Len(iv) :
              /\ iv[i][1] \in Nat /\ iv[i][2] \in Nat
              /\ iv[i][1] < iv[i][2] /\ iv[i][2] <= FileSize
         /\ \A i, j \in 1..Len(iv) : i < j => iv[i][2] < iv[j][1]
<1>1. /\ iv \in Seq((0..FileSize) \X (0..FileSize))
      /\ \A i \in 1..Len(iv) : iv[i][1] < iv[i][2]
      /\ \A i, j \in 1..Len(iv) : i < j => iv[i][2] < iv[j][1]
  BY DEF NormalizedList
<1>2. ASSUME NEW i \in 1..Len(iv)
      PROVE  iv[i][1] \in Nat /\ iv[i][2] \in Nat /\ iv[i][2] <= FileSize
  <2>1. iv[i] \in (0..FileSize) \X (0..FileSize)
    BY <1>1
  <2> QED BY <2>1, FileSizeNat
<1> QED BY <1>1, <1>2

(* partition_point finds the intervals that end before `start`: those and  *)
(* no others are left of the bound.                                        *)
LEMMA LeftBoundFact ==
  ASSUME NEW iv, NormalizedList(iv), NEW start \in Nat
  PROVE  /\ LeftBound(iv, start) \in 0..Len(iv)
         /\ \A i \in 1..LeftBound(iv, start) : iv[i][2] < start
         /\ \A i \in (LeftBound(iv, start) + 1)..Len(iv) : start <= iv[i][2]
<1> DEFINE S == {n \in 0..Len(iv) : \A i \in (n + 1)..Len(iv) : start <= iv[i][2]}
           Bound(n) == /\ \A i \in 1..n : iv[i][2] < start
                       /\ \A i \in (n + 1)..Len(iv) : ~(iv[i][2] < start)
<1>1. /\ Len(iv) \in Nat
      /\ \A i \in 1..Len(iv) : iv[i][1] \in Nat /\ iv[i][2] \in Nat
  BY NormalizedFacts
<1>2. S \subseteq Nat /\ Len(iv) \in S
  BY <1>1
<1>3. PICK n \in S : \A m \in S : n <= m
  BY <1>2, LeastNumber
<1>4. \A i \in 1..n : iv[i][2] < start
  <2>1. SUFFICES ASSUME NEW i \in 1..n PROVE iv[i][2] < start
    OBVIOUS
  <2>2. /\ n \in Nat /\ i \in Nat /\ 1 <= i /\ i <= n /\ n <= Len(iv)
        /\ i \in 1..Len(iv) /\ n \in 1..Len(iv) /\ n - 1 \in 0..Len(iv)
    BY <1>1, <2>1
  <2>3. n - 1 \notin S
    <3>1. n - 1 \in S => n <= n - 1
      BY <1>3
    <3> HIDE DEF S
    <3> QED BY <3>1, <2>2
  <2>4. PICK k \in (n - 1 + 1)..Len(iv) : ~(start <= iv[k][2])
    BY <2>2, <2>3
  <2>5. k = n
    BY <1>1, <1>3, <2>2, <2>4
  <2>6. iv[n][2] < start
    BY <1>1, <2>2, <2>4, <2>5
  <2>7. i = n \/ iv[i][2] < iv[n][1]
    <3>1. i = n \/ i < n
      BY <2>2
    <3> QED BY <3>1, <2>2, NormalizedFacts
  <2>8. /\ iv[i][2] \in Nat /\ iv[n][1] \in Nat /\ iv[n][2] \in Nat
        /\ iv[n][1] < iv[n][2]
    BY <2>2, NormalizedFacts
  <2>9. CASE i = n
    BY <2>6, <2>9
  <2>10. CASE iv[i][2] < iv[n][1]
    BY <2>6, <2>8, <2>10
  <2> QED BY <2>7, <2>9, <2>10
<1>5. n \in 0..Len(iv) /\ Bound(n)
  BY <1>1, <1>3, <1>4
<1>6. LeftBound(iv, start) = CHOOSE m \in 0..Len(iv) : Bound(m)
  BY DEF LeftBound, PartitionPoint
<1>7. LeftBound(iv, start) \in 0..Len(iv) /\ Bound(LeftBound(iv, start))
  BY <1>5, <1>6
<1> QED BY <1>1, <1>7

(* The loop stops behind the last interval that starts at or before `end`. *)
LEMMA RightBoundFact ==
  ASSUME NEW iv, NormalizedList(iv), NEW left \in 0..Len(iv), NEW end \in Nat
  PROVE  /\ RightBound(iv, left, end) \in left..Len(iv)
         /\ \A i \in (left + 1)..RightBound(iv, left, end) : iv[i][1] <= end
         /\ RightBound(iv, left, end) < Len(iv)
              => end < iv[RightBound(iv, left, end) + 1][1]
<1> DEFINE Stops(r) == r < Len(iv) => iv[r + 1][1] > end
           S == {r \in left..Len(iv) : Stops(r)}
           Bound(r) == (\A i \in (left + 1)..r : iv[i][1] <= end) /\ Stops(r)
<1>1. /\ Len(iv) \in Nat
      /\ \A i \in 1..Len(iv) : iv[i][1] \in Nat /\ iv[i][2] \in Nat
  BY NormalizedFacts
<1>2. S \subseteq Nat /\ Len(iv) \in S
  BY <1>1
<1>3. PICK r \in S : \A m \in S : r <= m
  BY <1>2, LeastNumber
<1>4. \A i \in (left + 1)..r : iv[i][1] <= end
  <2>1. SUFFICES ASSUME NEW i \in (left + 1)..r PROVE iv[i][1] <= end
    OBVIOUS
  <2>2. /\ r \in Nat /\ i \in Nat /\ left + 1 <= i /\ i <= r /\ r <= Len(iv)
        /\ i - 1 \in left..Len(iv)
    BY <1>1, <2>1
  <2>3. i - 1 \notin S
    <3>1. i - 1 \in S => r <= i - 1
      BY <1>3
    <3> HIDE DEF S
    <3> QED BY <3>1, <2>2
  <2>4. ~Stops(i - 1)
    BY <2>2, <2>3
  <2>5. (i - 1) + 1 = i
    BY <2>2
  <2> QED BY <1>1, <2>2, <2>4, <2>5
<1>5. r \in left..Len(iv) /\ Bound(r)
  BY <1>3, <1>4
<1>6. RightBound(iv, left, end) = CHOOSE m \in left..Len(iv) : Bound(m)
  BY DEF RightBound
<1>7. RightBound(iv, left, end) \in left..Len(iv) /\ Bound(RightBound(iv, left, end))
  BY <1>5, <1>6
<1> QED BY <1>1, <1>7

Pair == (0..FileSize) \X (0..FileSize)

(* `res` is `iv` with the intervals left + 1 .. right replaced by `m`.     *)
Spliced(res, iv, left, right, m) ==
  /\ res \in Seq(Pair)
  /\ Len(res) = left + 1 + (Len(iv) - right)
  /\ \A i \in 1..left : res[i] = iv[i]
  /\ res[left + 1] = m
  /\ \A i \in (left + 2)..Len(res) : res[i] = iv[i - (left + 1) + right]

(* Where `m`, the merged interval, lies relative to the inserted one and   *)
(* to those it replaces and those that stay.                               *)
Placed(iv, start, end, left, right, m) ==
  /\ m[1] <= start /\ end <= m[2]
  /\ left = right => m = << start, end >>
  /\ left < right =>
       /\ iv[left + 1][1] <= end /\ start <= iv[left + 1][2]
       /\ iv[right][1] <= end    /\ start <= iv[right][2]
       /\ m[1] = iv[left + 1][1] \/ m[1] = start
       /\ m[2] = iv[right][2] \/ m[2] = end
  /\ \A i \in 1..left : iv[i][2] < m[1]
  /\ \A i \in (right + 1)..Len(iv) : m[2] < iv[i][1]
  /\ \A i \in (left + 1)..right : m[1] <= iv[i][1] /\ iv[i][2] <= m[2]

(* What `insert` builds: the intervals left of the bound, the merged one,  *)
(* and those right of the bound moved down.                                *)
LEMMA SpliceShape ==
  ASSUME NEW iv \in Seq(Pair), NEW left \in 0..Len(iv),
         NEW right \in left..Len(iv), NEW m \in Pair
  PROVE  Spliced(SubSeq(iv, 1, left) \o << m >> \o SubSeq(iv, right + 1, Len(iv)),
                 iv, left, right, m)
<1> DEFINE a   == SubSeq(iv, 1, left)
           c   == SubSeq(iv, right + 1, Len(iv))
           am  == a \o << m >>
           res == am \o c
<1>1. /\ Len(iv) \in Nat /\ left \in Nat /\ right \in Nat
      /\ left <= right /\ right <= Len(iv)
  OBVIOUS
<1>2. /\ a \in Seq(Pair) /\ Len(a) = left
      /\ \A i \in 1..left : a[i] = iv[i]
  BY <1>1
<1>3. /\ c \in Seq(Pair) /\ Len(c) = Len(iv) - right
      /\ \A i \in 1..(Len(iv) - right) : c[i] = iv[i + right]
  BY <1>1
<1>4. /\ << m >> \in Seq(Pair) /\ Len(<< m >>) = 1 /\ << m >>[1] = m
  OBVIOUS
<1> HIDE DEF a, c
<1>5. /\ am \in Seq(Pair) /\ Len(am) = left + 1
      /\ \A i \in 1..left : am[i] = iv[i]
      /\ am[left + 1] = m
  BY <1>1, <1>2, <1>4
<1> HIDE DEF am
<1>6. /\ res \in Seq(Pair) /\ Len(res) = Len(am) + Len(c)
      /\ \A i \in 1..(Len(am) + Len(c)) :
           res[i] = IF i <= Len(am) THEN am[i] ELSE c[i - Len(am)]
  BY <1>3, <1>5, ConcatProperties
<1> HIDE DEF res
<1>7. Len(res) = left + 1 + (Len(iv) - right)
  BY <1>1, <1>3, <1>5, <1>6
<1>8. ASSUME NEW i \in 1..(left + 1) PROVE res[i] = am[i]
  <2>1. i \in 1..(Len(am) + Len(c)) /\ i <= Len(am)
    BY <1>1, <1>3, <1>5
  <2> QED BY <1>6, <2>1
<1>9. ASSUME NEW i \in (left + 2)..Len(res)
      PROVE  res[i] = iv[i - (left + 1) + right]
  <2>1. i \in 1..(Len(am) + Len(c)) /\ ~(i <= Len(am))
    BY <1>1, <1>3, <1>5, <1>7
  <2>2. i - (left + 1) \in 1..(Len(iv) - right)
    BY <1>1, <1>7
  <2>3. res[i] = c[i - (left + 1)]
    BY <1>5, <1>6, <2>1
  <2> QED BY <1>3, <2>2, <2>3
<1>10. ASSUME NEW i \in 1..left PROVE res[i] = iv[i]
  <2>1. i \in 1..(left + 1)
    BY <1>1
  <2> QED BY <1>5, <1>8, <2>1
<1>11. res[left + 1] = m
  <2>1. left + 1 \in 1..(left + 1)
    BY <1>1
  <2> QED BY <1>5, <1>8, <2>1
<1>12. Spliced(res, iv, left, right, m)
  BY <1>6, <1>7, <1>9, <1>10, <1>11 DEF Spliced
<1> QED BY <1>12 DEF a, am, c, res

(* Everything the two results below need to know about a non-empty insert: *)
(* `left`, `right` and the merged interval `m`, and where the intervals    *)
(* that stay lie relative to it.                                           *)
LEMMA InsertFact ==
  ASSUME NEW iv, NormalizedList(iv),
         NEW start \in 0..FileSize, NEW end \in 0..FileSize, start < end
  PROVE  \E left \in 0..Len(iv), right \in 0..Len(iv), m \in Pair :
           /\ left <= right
           /\ Spliced(InsertInto(iv, start, end), iv, left, right, m)
           /\ Placed(iv, start, end, left, right, m)
<1> DEFINE left  == LeftBound(iv, start)
           right == RightBound(iv, left, end)
           m     == Merged(iv, left, right, start, end)
<1>1. /\ start \in Nat /\ end \in Nat /\ FileSize \in Nat
      /\ start <= FileSize /\ end <= FileSize
  BY FileSizeNat
<1>2. /\ Len(iv) \in Nat
      /\ \A i \in 1..Len(iv) :
           /\ iv[i][1] \in Nat /\ iv[i][2] \in Nat
           /\ iv[i][1] < iv[i][2] /\ iv[i][2] <= FileSize
      /\ \A i, j \in 1..Len(iv) : i < j => iv[i][2] < iv[j][1]
  BY NormalizedFacts
<1>3. /\ left \in 0..Len(iv)
      /\ \A i \in 1..left : iv[i][2] < start
      /\ \A i \in (left + 1)..Len(iv) : start <= iv[i][2]
  BY <1>1, LeftBoundFact
<1>4. /\ right \in left..Len(iv)
      /\ \A i \in (left + 1)..right : iv[i][1] <= end
      /\ right < Len(iv) => end < iv[right + 1][1]
  <2> HIDE DEF left
  <2> QED BY <1>1, <1>3, RightBoundFact
<1>5. InsertInto(iv, start, end)
        = SubSeq(iv, 1, left) \o << m >> \o SubSeq(iv, right + 1, Len(iv))
  <2>1. ~(start >= end)
    BY <1>1
  <2> QED BY <2>1, Zenon DEF InsertInto
<1>6. /\ left = right => m = << start, end >>
      /\ left < right =>
           m = << IF iv[left + 1][1] < start THEN iv[left + 1][1] ELSE start,
                  IF iv[right][2] > end THEN iv[right][2] ELSE end >>
  <2> HIDE DEF left, right
  <2> QED BY <1>2, <1>3, <1>4 DEF Merged
<1> HIDE DEF left, right, m
<1>7. /\ left \in Nat /\ right \in Nat /\ left <= right /\ right <= Len(iv)
      /\ left < right => left + 1 \in 1..Len(iv) /\ right \in 1..Len(iv)
      /\ left < right => left + 1 \in (left + 1)..right
      /\ left < right => right \in (left + 1)..Len(iv)
      /\ left < right => right \in (left + 1)..right
      /\ left < right => left + 1 \in (left + 1)..Len(iv)
  BY <1>2, <1>3, <1>4
<1>8. /\ m \in Pair
      /\ m[1] \in Nat /\ m[2] \in Nat
      /\ m[1] <= start /\ end <= m[2]
  <2>1. CASE left = right
    BY <1>1, <1>6, <2>1 DEF Pair
  <2>2. CASE left < right
    <3>1. /\ iv[left + 1][1] \in Nat /\ iv[left + 1][1] <= FileSize
          /\ iv[right][2] \in Nat /\ iv[right][2] <= FileSize
      BY <1>1, <1>2, <1>7, <2>2
    <3> QED BY <1>1, <1>6, <2>2, <3>1 DEF Pair
  <2> QED BY <1>7, <2>1, <2>2
<1>9. left < right =>
        /\ iv[left + 1][1] <= end /\ start <= iv[left + 1][2]
        /\ iv[right][1] <= end    /\ start <= iv[right][2]
        /\ m[1] = iv[left + 1][1] \/ m[1] = start
        /\ m[2] = iv[right][2] \/ m[2] = end
        /\ m[1] <= iv[left + 1][1] /\ iv[right][2] <= m[2]
  <2>1. HAVE left < right
  <2>2. /\ iv[left + 1][1] <= end /\ start <= iv[left + 1][2]
        /\ iv[right][1] <= end    /\ start <= iv[right][2]
    BY <1>3, <1>4, <1>7, <2>1
  <2>3. /\ iv[left + 1][1] \in Nat /\ iv[right][2] \in Nat
    BY <1>2, <1>7, <2>1
  <2> QED BY <1>1, <1>6, <2>1, <2>2, <2>3
<1>10. ASSUME NEW i \in 1..left PROVE iv[i][2] < m[1]
  <2>1. /\ i \in 1..Len(iv) /\ iv[i][2] < start /\ iv[i][2] \in Nat
    BY <1>2, <1>3, <1>7
  <2>2. CASE left = right
    BY <1>1, <1>6, <2>1, <2>2
  <2>3. CASE left < right
    <3>1. i < left + 1
      BY <1>7
    <3>2. iv[i][2] < iv[left + 1][1]
      BY <1>2, <1>7, <2>1, <2>3, <3>1
    <3> QED BY <1>9, <2>1, <2>3, <3>2
  <2> QED BY <1>7, <2>2, <2>3
<1>11. ASSUME NEW i \in (right + 1)..Len(iv) PROVE m[2] < iv[i][1]
  <2>1. /\ i \in 1..Len(iv) /\ right + 1 \in 1..Len(iv) /\ right < Len(iv)
        /\ (i = right + 1 \/ right + 1 < i) /\ right < i
    BY <1>2, <1>7
  <2>2. /\ iv[i][1] \in Nat /\ iv[right + 1][1] \in Nat /\ iv[right + 1][2] \in Nat
        /\ end < iv[right + 1][1] /\ iv[right + 1][1] < iv[right + 1][2]
    BY <1>2, <1>4, <2>1
  <2>3. end < iv[i][1]
    BY <1>1, <1>2, <2>1, <2>2
  <2>4. CASE left = right
    BY <1>1, <1>6, <2>3, <2>4
  <2>5. CASE left < right
    <3>1. right < i
      BY <1>7, <2>1
    <3>2. iv[right][2] < iv[i][1]
      BY <1>2, <1>7, <2>1, <2>5, <3>1
    <3> QED BY <1>9, <2>3, <2>5, <3>2
  <2> QED BY <1>7, <2>4, <2>5
<1>12. ASSUME NEW i \in (left + 1)..right
       PROVE  m[1] <= iv[i][1] /\ iv[i][2] <= m[2]
  <2>1. /\ left < right /\ i \in 1..Len(iv)
        /\ i = left + 1 \/ left + 1 < i
        /\ i = right \/ i < right
    BY <1>2, <1>7
  <2>2. /\ iv[i][1] \in Nat /\ iv[i][2] \in Nat /\ iv[i][1] < iv[i][2]
        /\ iv[left + 1][1] \in Nat /\ iv[left + 1][2] \in Nat
        /\ iv[left + 1][1] < iv[left + 1][2]
        /\ iv[right][1] \in Nat /\ iv[right][2] \in Nat
        /\ iv[right][1] < iv[right][2]
    BY <1>2, <1>7, <2>1
  <2>3. iv[left + 1][1] <= iv[i][1]
    <3>1. i = left + 1 \/ iv[left + 1][2] < iv[i][1]
      BY <1>2, <1>7, <2>1
    <3> QED BY <2>2, <3>1
  <2>4. iv[i][2] <= iv[right][2]
    <3>1. i = right \/ iv[i][2] < iv[right][1]
      BY <1>2, <1>7, <2>1
    <3> QED BY <2>2, <3>1
  <2> QED BY <1>8, <1>9, <2>1, <2>2, <2>3, <2>4, SMTT(30)
<1>13. Spliced(InsertInto(iv, start, end), iv, left, right, m)
  <2>1. iv \in Seq(Pair)
    BY DEF NormalizedList, Pair
  <2> QED BY <1>3, <1>4, <1>5, <1>8, <2>1, SpliceShape
<1>14. Placed(iv, start, end, left, right, m)
  BY <1>6, <1>8, <1>9, <1>10, <1>11, <1>12 DEF Placed
<1>15. left \in 0..Len(iv) /\ right \in 0..Len(iv) /\ left <= right /\ m \in Pair
  BY <1>2, <1>7, <1>8
<1> QED BY <1>13, <1>14, <1>15

(* One `insert` keeps the list sorted, disjoint and non-adjacent.          *)
LEMMA InsertNormalized ==
  ASSUME NEW iv, NormalizedList(iv),
         NEW start \in 0..FileSize, NEW end \in 0..FileSize
  PROVE  NormalizedList(InsertInto(iv, start, end))
<1>1. CASE start >= end
  BY <1>1 DEF InsertInto
<1>2. CASE ~(start >= end)
  <2> DEFINE res == InsertInto(iv, start, end)
  <2>1. start < end
    BY <1>2, FileSizeNat
  <2>2. PICK left \in 0..Len(iv), right \in 0..Len(iv), m \in Pair :
          /\ left <= right
          /\ Spliced(res, iv, left, right, m)
          /\ Placed(iv, start, end, left, right, m)
    BY <2>1, InsertFact
  <2> HIDE DEF res
  <2> DEFINE old(i) == i - (left + 1) + right
  <2>3. /\ m[1] <= start /\ end <= m[2]
        /\ \A i \in 1..left : iv[i][2] < m[1]
        /\ \A i \in (right + 1)..Len(iv) : m[2] < iv[i][1]
    BY <2>2 DEF Placed
  <2>4. /\ Len(iv) \in Nat
        /\ \A i \in 1..Len(iv) :
             iv[i][1] \in Nat /\ iv[i][2] \in Nat /\ iv[i][1] < iv[i][2]
        /\ \A i, j \in 1..Len(iv) : i < j => iv[i][2] < iv[j][1]
        /\ m[1] \in Nat /\ m[2] \in Nat /\ m[1] < m[2]
    <3>1. /\ Len(iv) \in Nat
          /\ \A i \in 1..Len(iv) :
               iv[i][1] \in Nat /\ iv[i][2] \in Nat /\ iv[i][1] < iv[i][2]
          /\ \A i, j \in 1..Len(iv) : i < j => iv[i][2] < iv[j][1]
      BY NormalizedFacts
    <3>2. /\ m[1] \in Nat /\ m[2] \in Nat
          /\ start \in Nat /\ end \in Nat
      BY FileSizeNat DEF Pair
    <3> QED BY <2>1, <2>3, <3>1, <3>2
  <2>5. /\ res \in Seq(Pair)
        /\ Len(res) = left + 1 + (Len(iv) - right)
        /\ \A i \in 1..left : res[i] = iv[i]
        /\ res[left + 1] = m
        /\ \A i \in (left + 2)..Len(res) : res[i] = iv[old(i)]
    BY <2>2 DEF Spliced
  <2>6. /\ left \in Nat /\ right \in Nat /\ Len(res) \in Nat
        /\ left <= right /\ right <= Len(iv) /\ left < Len(res)
        /\ \A i \in (left + 2)..Len(res) : old(i) \in (right + 1)..Len(iv)
    BY <2>2, <2>4, <2>5
  <2>7. ASSUME NEW i \in 1..Len(res) PROVE res[i][1] < res[i][2]
    <3>1. i \in 1..left \/ i = left + 1 \/ i \in (left + 2)..Len(res)
      BY <2>6
    <3>2. CASE i \in 1..left
      <4>1. i \in 1..Len(iv)
        BY <2>6, <3>2
      <4> QED BY <2>4, <2>5, <3>2, <4>1
    <3>3. CASE i = left + 1
      BY <2>4, <2>5, <3>3
    <3>4. CASE i \in (left + 2)..Len(res)
      <4>1. old(i) \in 1..Len(iv)
        BY <2>6, <3>4
      <4> QED BY <2>4, <2>5, <3>4, <4>1
    <3> QED BY <3>1, <3>2, <3>3, <3>4
  <2>8. ASSUME NEW i \in 1..Len(res), NEW j \in 1..Len(res), i < j
        PROVE  res[i][2] < res[j][1]
    <3>1. \/ i \in 1..left /\ j \in 1..left
          \/ i \in 1..left /\ j = left + 1
          \/ i \in 1..left /\ j \in (left + 2)..Len(res)
          \/ i = left + 1 /\ j \in (left + 2)..Len(res)
          \/ i \in (left + 2)..Len(res) /\ j \in (left + 2)..Len(res)
      BY <2>6, <2>8
    <3>2. CASE i \in 1..left /\ j \in 1..left
      <4>1. i \in 1..Len(iv) /\ j \in 1..Len(iv)
        BY <2>6, <3>2
      <4> QED BY <2>4, <2>5, <2>8, <3>2, <4>1
    <3>3. CASE i \in 1..left /\ j = left + 1
      BY <2>3, <2>5, <3>3
    <3>4. CASE i \in 1..left /\ j \in (left + 2)..Len(res)
      <4>1. old(j) \in (right + 1)..Len(iv) /\ old(j) \in 1..Len(iv) /\ i \in 1..Len(iv)
        BY <2>6, <3>4
      <4>2. res[i][2] < m[1] /\ m[2] < res[j][1]
        BY <2>3, <2>5, <3>4, <4>1
      <4>3. /\ res[i][2] \in Nat /\ res[j][1] \in Nat /\ m[1] \in Nat /\ m[2] \in Nat
            /\ m[1] < m[2]
        BY <2>4, <2>5, <3>4, <4>1
      <4> QED BY <4>2, <4>3, SMTT(30)
    <3>5. CASE i = left + 1 /\ j \in (left + 2)..Len(res)
      BY <2>3, <2>5, <2>6, <3>5
    <3>6. CASE i \in (left + 2)..Len(res) /\ j \in (left + 2)..Len(res)
      <4>1. old(i) \in 1..Len(iv) /\ old(j) \in 1..Len(iv) /\ old(i) < old(j)
        BY <2>6, <2>8, <3>6
      <4> QED BY <2>4, <2>5, <3>6, <4>1
    <3> QED BY <3>1, <3>2, <3>3, <3>4, <3>5, <3>6
  <2> QED BY <2>5, <2>7, <2>8 DEF NormalizedList, Pair, res
<1> QED BY <1>1, <1>2

(* `insert` covers the bytes it covered and those of [start, end), and no  *)
(* other.                                                                  *)
LEMMA InsertCovers ==
  ASSUME NEW iv, NormalizedList(iv),
         NEW start \in 0..FileSize, NEW end \in 0..FileSize
  PROVE  Covered(InsertInto(iv, start, end))
           = Covered(iv) \cup Abstract!Interval(start, end)
<1>1. CASE start >= end
  <2>1. Abstract!Interval(start, end) = {}
    BY <1>1, FileSizeNat DEF Abstract!Interval
  <2> QED BY <1>1, <2>1 DEF InsertInto
<1>2. CASE ~(start >= end)
  <2> DEFINE res == InsertInto(iv, start, end)
  <2>1. start < end
    BY <1>2, FileSizeNat
  <2>2. PICK left \in 0..Len(iv), right \in 0..Len(iv), m \in Pair :
          /\ left <= right
          /\ Spliced(res, iv, left, right, m)
          /\ Placed(iv, start, end, left, right, m)
    BY <2>1, InsertFact
  <2> HIDE DEF res
  <2> DEFINE old(i) == i - (left + 1) + right
             Holds(l, i, b) == l[i][1] <= b /\ b < l[i][2]
  <2>3. /\ m[1] <= start /\ end <= m[2]
        /\ left = right => m = << start, end >>
        /\ left < right =>
             /\ iv[left + 1][1] <= end /\ start <= iv[left + 1][2]
             /\ iv[right][1] <= end    /\ start <= iv[right][2]
             /\ m[1] = iv[left + 1][1] \/ m[1] = start
             /\ m[2] = iv[right][2] \/ m[2] = end
        /\ \A i \in (left + 1)..right : m[1] <= iv[i][1] /\ iv[i][2] <= m[2]
    BY <2>2 DEF Placed
  <2>4. /\ Len(iv) \in Nat
        /\ \A i \in 1..Len(iv) : iv[i][1] \in Nat /\ iv[i][2] \in Nat
        /\ m[1] \in Nat /\ m[2] \in Nat
        /\ start \in Nat /\ end \in Nat
    <3>1. Len(iv) \in Nat /\ \A i \in 1..Len(iv) : iv[i][1] \in Nat /\ iv[i][2] \in Nat
      BY NormalizedFacts
    <3> QED BY <3>1, FileSizeNat DEF Pair
  <2>5. /\ Len(res) = left + 1 + (Len(iv) - right)
        /\ \A i \in 1..left : res[i] = iv[i]
        /\ res[left + 1] = m
        /\ \A i \in (left + 2)..Len(res) : res[i] = iv[old(i)]
    BY <2>2 DEF Spliced
  <2>6. /\ left \in Nat /\ right \in Nat /\ Len(res) \in Nat
        /\ left <= right /\ right <= Len(iv) /\ left < Len(res)
        /\ \A i \in (left + 2)..Len(res) : old(i) \in 1..Len(iv)
    BY <2>2, <2>4, <2>5
  <2>7. ASSUME NEW b \in 0..FileSize, NEW i \in 1..Len(res), Holds(res, i, b)
        PROVE  b \in Covered(iv) \cup Abstract!Interval(start, end)
    <3>1. i \in 1..left \/ i = left + 1 \/ i \in (left + 2)..Len(res)
      BY <2>6
    <3>2. CASE i \in 1..left
      <4>1. i \in 1..Len(iv) /\ Holds(iv, i, b)
        BY <2>5, <2>6, <2>7, <3>2
      <4> QED BY <4>1 DEF Covered
    <3>3. CASE i \in (left + 2)..Len(res)
      <4>1. old(i) \in 1..Len(iv) /\ Holds(iv, old(i), b)
        BY <2>5, <2>6, <2>7, <3>3
      <4> QED BY <4>1 DEF Covered
    <3>4. CASE i = left + 1
      <4>1. b \in Nat /\ m[1] <= b /\ b < m[2]
        BY <2>5, <2>7, <3>4, FileSizeNat
      <4>2. CASE start <= b /\ b < end
        BY <4>2 DEF Abstract!Interval
      <4>3. CASE b < start
        <5>1. m[1] # start
          BY <2>4, <4>1, <4>3
        <5>2. left < right
          BY <2>3, <2>6, <5>1
        <5>3. left + 1 \in 1..Len(iv) /\ Holds(iv, left + 1, b)
          BY <2>3, <2>4, <2>6, <4>1, <4>3, <5>1, <5>2, SMTT(30)
        <5> QED BY <5>3 DEF Covered
      <4>4. CASE end <= b
        <5>1. m[2] # end
          BY <2>4, <4>1, <4>4
        <5>2. left < right
          BY <2>3, <2>6, <5>1
        <5>3. right \in 1..Len(iv) /\ Holds(iv, right, b)
          BY <2>3, <2>4, <2>6, <4>1, <4>4, <5>1, <5>2
        <5> QED BY <5>3 DEF Covered
      <4> QED BY <2>4, <4>1, <4>2, <4>3, <4>4
    <3> QED BY <3>1, <3>2, <3>3, <3>4
  <2>8. ASSUME NEW b \in 0..FileSize, NEW i \in 1..Len(iv), Holds(iv, i, b)
        PROVE  \E k \in 1..Len(res) : Holds(res, k, b)
    <3>1. i \in 1..left \/ i \in (left + 1)..right \/ i \in (right + 1)..Len(iv)
      BY <2>6
    <3>2. CASE i \in 1..left
      <4>1. i \in 1..Len(res) /\ Holds(res, i, b)
        BY <2>5, <2>6, <2>8, <3>2
      <4> QED BY <4>1
    <3>3. CASE i \in (left + 1)..right
      <4>1. /\ left + 1 \in 1..Len(res) /\ b \in Nat
            /\ m[1] <= iv[i][1] /\ iv[i][2] <= m[2]
        BY <2>3, <2>6, <3>3, FileSizeNat
      <4>2. /\ iv[i][1] \in Nat /\ iv[i][2] \in Nat
            /\ iv[i][1] <= b /\ b < iv[i][2]
        BY <2>4, <2>8
      <4>3. m[1] <= b /\ b < m[2]
        BY <2>4, <4>1, <4>2, SMTT(30)
      <4> QED BY <2>5, <4>1, <4>3
    <3>4. CASE i \in (right + 1)..Len(iv)
      <4> DEFINE k == i - right + (left + 1)
      <4>1. k \in (left + 2)..Len(res) /\ k \in 1..Len(res) /\ old(k) = i
        <5>1. i \in Nat /\ right + 1 <= i /\ i <= Len(iv)
          BY <2>4, <2>6, <3>4
        <5>2. Len(res) = left + 1 + (Len(iv) - right)
          BY <2>5
        <5>3. left \in Nat /\ right \in Nat /\ Len(iv) \in Nat /\ k \in Nat
          BY <2>4, <2>6, <5>1
        <5>4. left + 2 <= k /\ k <= Len(res) /\ old(k) = i
          BY <5>1, <5>2, <5>3
        <5> HIDE DEF k
        <5> QED BY <2>6, <5>3, <5>4
      <4> HIDE DEF k
      <4>2. res[k] = iv[i]
        BY <2>5, <4>1
      <4> QED BY <2>8, <4>1, <4>2
    <3> QED BY <3>1, <3>2, <3>3, <3>4
  <2>9. ASSUME NEW b \in 0..FileSize, start <= b, b < end
        PROVE  \E k \in 1..Len(res) : Holds(res, k, b)
    <3>1. left + 1 \in 1..Len(res) /\ Holds(res, left + 1, b)
      BY <2>3, <2>4, <2>5, <2>6, <2>9, FileSizeNat, SMTT(30)
    <3> QED BY <3>1
  <2>10. Covered(res) \subseteq Covered(iv) \cup Abstract!Interval(start, end)
    BY <2>7 DEF Covered
  <2>11. Covered(iv) \subseteq Covered(res)
    BY <2>8 DEF Covered
  <2>12. Abstract!Interval(start, end) \subseteq Covered(res)
    BY <2>9 DEF Covered, Abstract!Interval
  <2> QED BY <2>10, <2>11, <2>12 DEF res
<1> QED BY <1>1, <1>2

(* The field `intervals` of cache/bitmap.rs is "sorted by `start`,         *)
(* non-overlapping, non-adjacent" whatever is inserted in whatever order.  *)
THEOREM ListStaysNormalized == Spec => []Normalized
<1>1. Init => Normalized
  BY DEF Init, Normalized, NormalizedList
<1>2. Normalized /\ [Next]_vars => Normalized'
  <2> SUFFICES ASSUME Normalized, [Next]_vars PROVE Normalized'
    OBVIOUS
  <2>1. CASE Next
    <3>1. PICK start, end \in 0..FileSize : Insert(start, end)
      BY <2>1 DEF Next
    <3> QED BY <3>1, InsertNormalized DEF Insert, Normalized
  <2>2. CASE UNCHANGED vars
    BY <2>2 DEF vars, Normalized
  <2> QED BY <2>1, <2>2
<1> QED BY <1>1, <1>2, PTL DEF Spec

(* The list implements the set of bytes on disk: each `insert` is an       *)
(* addition of exactly the bytes of [start, end).                          *)
THEOREM ListImplementsByteSet == Spec => ImplementsByteSet
<1>1. Init => Abstract!Init
  BY DEF Init, Abstract!Init, Covered
<1>2. Normalized /\ [Next]_vars => [Abstract!Next]_<< Covered(intervals), call >>
  <2> SUFFICES ASSUME Normalized, [Next]_vars
               PROVE  [Abstract!Next]_<< Covered(intervals), call >>
    OBVIOUS
  <2>1. CASE Next
    <3>1. PICK start, end \in 0..FileSize : Insert(start, end)
      BY <2>1 DEF Next
    <3>2. Covered(intervals')
            = Covered(intervals) \cup Abstract!Interval(start, end)
      BY <3>1, InsertCovers DEF Insert, Normalized
    <3>3. Covered(intervals)' = Covered(intervals')
      BY DEF Covered
    <3>4. Abstract!Add(start, end)
      BY <3>1, <3>2, <3>3 DEF Abstract!Add, Insert
    <3> QED BY <3>4 DEF Abstract!Next
  <2>2. CASE UNCHANGED vars
    BY <2>2 DEF vars, Covered
  <2> QED BY <2>1, <2>2
<1> QED BY <1>1, <1>2, ListStaysNormalized, PTL
        DEF Spec, ImplementsByteSet, Abstract!Spec

-----------------------------------------------------------------------------
(* partition_point of `has_range`: the intervals that start at or before   *)
(* `start`, which are counted from the left.                               *)
StartBound(iv, start) == PartitionPoint(iv, LAMBDA v : v[1] <= start)

LEMMA StartBoundFact ==
  ASSUME NEW iv, NormalizedList(iv), NEW start \in Nat
  PROVE  /\ StartBound(iv, start) \in 0..Len(iv)
         /\ \A i \in 1..StartBound(iv, start) : iv[i][1] <= start
         /\ \A i \in (StartBound(iv, start) + 1)..Len(iv) : start < iv[i][1]
<1> DEFINE S == {n \in 0..Len(iv) : \A i \in (n + 1)..Len(iv) : start < iv[i][1]}
           Bound(n) == /\ \A i \in 1..n : iv[i][1] <= start
                       /\ \A i \in (n + 1)..Len(iv) : ~(iv[i][1] <= start)
<1>1. /\ Len(iv) \in Nat
      /\ \A i \in 1..Len(iv) : iv[i][1] \in Nat /\ iv[i][2] \in Nat
  BY NormalizedFacts
<1>2. S \subseteq Nat /\ Len(iv) \in S
  BY <1>1
<1>3. PICK n \in S : \A m \in S : n <= m
  BY <1>2, LeastNumber
<1>4. \A i \in 1..n : iv[i][1] <= start
  <2>1. SUFFICES ASSUME NEW i \in 1..n PROVE iv[i][1] <= start
    OBVIOUS
  <2>2. /\ n \in Nat /\ i \in Nat /\ 1 <= i /\ i <= n /\ n <= Len(iv)
        /\ i \in 1..Len(iv) /\ n \in 1..Len(iv) /\ n - 1 \in 0..Len(iv)
    BY <1>1, <2>1
  <2>3. n - 1 \notin S
    <3>1. n - 1 \in S => n <= n - 1
      BY <1>3
    <3> HIDE DEF S
    <3> QED BY <3>1, <2>2
  <2>4. PICK k \in (n - 1 + 1)..Len(iv) : ~(start < iv[k][1])
    BY <2>2, <2>3
  <2>5. k = n
    BY <1>1, <1>3, <2>2, <2>4
  <2>6. iv[n][1] <= start
    BY <1>1, <2>2, <2>4, <2>5
  <2>7. i = n \/ iv[i][2] < iv[n][1]
    <3>1. i = n \/ i < n
      BY <2>2
    <3> QED BY <3>1, <2>2, NormalizedFacts
  <2>8. /\ iv[i][1] \in Nat /\ iv[i][2] \in Nat /\ iv[n][1] \in Nat
        /\ iv[i][1] < iv[i][2]
    BY <2>2, NormalizedFacts
  <2>9. CASE i = n
    BY <2>6, <2>9
  <2>10. CASE iv[i][2] < iv[n][1]
    BY <2>6, <2>8, <2>10
  <2> QED BY <2>7, <2>9, <2>10
<1>5. n \in 0..Len(iv) /\ Bound(n)
  BY <1>1, <1>3, <1>4
<1>6. StartBound(iv, start) = CHOOSE m \in 0..Len(iv) : Bound(m)
  BY DEF StartBound, PartitionPoint
<1>7. StartBound(iv, start) \in 0..Len(iv) /\ Bound(StartBound(iv, start))
  BY <1>5, <1>6
<1> QED BY <1>1, <1>7

(* The last interval that starts at or before `start` decides: it holds    *)
(* every byte of the query, or the first byte it lacks is in no other.     *)
LEMMA HasRangeFact ==
  ASSUME NEW iv, NormalizedList(iv), NEW s \in 0..FileSize, NEW e \in 0..FileSize
  PROVE  HasRange(iv, s, e) <=> \A b \in s..(e - 1) : b \in Covered(iv)
<1>1. /\ s \in Nat /\ e \in Nat /\ FileSize \in Nat /\ s <= FileSize /\ e <= FileSize
  BY FileSizeNat
<1>2. /\ Len(iv) \in Nat
      /\ \A i \in 1..Len(iv) : /\ iv[i][1] \in Nat /\ iv[i][2] \in Nat
                               /\ iv[i][1] < iv[i][2] /\ iv[i][2] <= FileSize
      /\ \A i, j \in 1..Len(iv) : i < j => iv[i][2] < iv[j][1]
  BY NormalizedFacts
<1>3. CASE s >= e
  <2>1. HasRange(iv, s, e)
    BY <1>3 DEF HasRange
  <2>2. \A b \in s..(e - 1) : b \in Covered(iv)
    BY <1>1, <1>3
  <2> QED BY <2>1, <2>2
<1>4. CASE ~(s >= e)
  <2> DEFINE idx == StartBound(iv, s)
  <2>1. /\ idx \in 0..Len(iv)
        /\ \A i \in 1..idx : iv[i][1] <= s
        /\ \A i \in (idx + 1)..Len(iv) : s < iv[i][1]
    BY <1>1, StartBoundFact
  <2>2. HasRange(iv, s, e) <=> (idx > 0 /\ iv[idx][2] >= e)
    BY <1>4 DEF HasRange, StartBound
  <2> HIDE DEF idx
  <2>3. ASSUME idx > 0, iv[idx][2] >= e PROVE \A b \in s..(e - 1) : b \in Covered(iv)
    <3>1. idx \in 1..Len(iv) /\ iv[idx][1] <= s
      BY <1>2, <2>1, <2>3
    <3>2. ASSUME NEW b \in s..(e - 1) PROVE b \in Covered(iv)
      <4>1. b \in 0..FileSize /\ iv[idx][1] <= b /\ b < iv[idx][2]
        BY <1>1, <1>2, <2>3, <3>1
      <4> QED BY <3>1, <4>1 DEF Covered
    <3> QED BY <3>2
  <2>4. ASSUME \A b \in s..(e - 1) : b \in Covered(iv) PROVE idx > 0 /\ iv[idx][2] >= e
    <3>1. s \in Covered(iv)
      BY <1>1, <1>4, <2>4
    <3>2. PICK k \in 1..Len(iv) : iv[k][1] <= s /\ s < iv[k][2]
      BY <3>1 DEF Covered
    <3>3. k <= idx /\ idx \in 1..Len(iv)
      BY <1>1, <1>2, <2>1, <3>2
    <3>4. s < iv[idx][2]
      <4>1. CASE k = idx
        BY <3>2, <4>1
      <4>2. CASE k < idx
        <5>1. iv[k][2] < iv[idx][1] /\ iv[idx][1] <= s
          BY <1>2, <2>1, <3>2, <3>3, <4>2
        <5>2. iv[k][2] \in Nat /\ iv[idx][1] \in Nat
          BY <1>2, <3>2, <3>3
        <5> QED BY <1>1, <3>2, <5>1, <5>2
      <4> QED BY <3>2, <3>3, <4>1, <4>2
    <3>5. ASSUME iv[idx][2] < e PROVE FALSE
      <4> DEFINE b == iv[idx][2]
      <4>1. b \in Nat /\ b \in s..(e - 1)
        BY <1>1, <1>2, <3>3, <3>4, <3>5
      <4>2. PICK j \in 1..Len(iv) : iv[j][1] <= b /\ b < iv[j][2]
        BY <2>4, <4>1 DEF Covered
      <4>3. /\ iv[j][1] \in Nat /\ iv[j][2] \in Nat
            /\ iv[idx][1] \in Nat /\ iv[idx][1] < iv[idx][2]
        BY <1>2, <3>3, <4>2
      <4>4. j < idx => iv[j][2] < iv[idx][1]
        BY <1>2, <3>3, <4>2
      <4>5. idx < j => iv[idx][2] < iv[j][1]
        BY <1>2, <3>3, <4>2
      <4>6. j < idx \/ j = idx \/ idx < j
        BY <3>3, <4>2
      <4> QED BY <4>1, <4>2, <4>3, <4>4, <4>5, <4>6
    <3>6. iv[idx][2] \in Nat
      BY <1>2, <3>3
    <3> QED BY <1>1, <3>3, <3>5, <3>6
  <2> QED BY <2>2, <2>3, <2>4
<1> QED BY <1>3, <1>4

(* `has_range` gives no false hit and no false miss, for files of any size *)
(* and lists that any sequence of inserts has made.                        *)
THEOREM QueriesExact == Spec => []HasRangeExact
<1>1. Normalized => HasRangeExact
  BY HasRangeFact DEF Normalized, HasRangeExact
<1> QED BY <1>1, ListStaysNormalized, PTL

-----------------------------------------------------------------------------
(***************************************************************************)
(* The cursor of `find_missing` after each interval.  A recursive function *)
(* is the one its equation describes if there is one: the end of the last  *)
(* interval walked over, or `start`, satisfies the equation.               *)
(***************************************************************************)
CursorOf(iv, start) ==
  LET Cursor[i \in 0..Len(iv)] ==
        IF i = 0 THEN start
        ELSE IF iv[i][2] > Cursor[i - 1] THEN iv[i][2] ELSE Cursor[i - 1]
  IN  Cursor

Farther(x, y) == IF x > y THEN x ELSE y

LEMMA CursorEquation ==
  ASSUME NEW iv, NormalizedList(iv), NEW s \in Nat
  PROVE  CursorOf(iv, s) =
           [i \in 0..Len(iv) |-> IF i = 0 THEN s
             ELSE IF iv[i][2] > CursorOf(iv, s)[i - 1] THEN iv[i][2] ELSE CursorOf(iv, s)[i - 1]]
<1> DEFINE W == [i \in 0..Len(iv) |-> IF i = 0 THEN s ELSE Farther(iv[i][2], s)]
<1>1. /\ Len(iv) \in Nat
      /\ \A i \in 1..Len(iv) : /\ iv[i][1] \in Nat /\ iv[i][2] \in Nat
                               /\ iv[i][1] < iv[i][2] /\ iv[i][2] <= FileSize
      /\ \A i, j \in 1..Len(iv) : i < j => iv[i][2] < iv[j][1]
  BY NormalizedFacts
<1>2. ASSUME NEW i \in 0..Len(iv), i # 0
      PROVE  W[i] = IF iv[i][2] > W[i - 1] THEN iv[i][2] ELSE W[i - 1]
  <2>1. i \in 1..Len(iv) /\ i - 1 \in 0..Len(iv)
    BY <1>1, <1>2
  <2>2. CASE i = 1
    BY <2>1, <2>2 DEF Farther
  <2>3. CASE i # 1
    <3>1. i - 1 \in 1..Len(iv) /\ i - 1 < i
      BY <1>1, <2>1, <2>3
    <3>2. iv[i - 1][2] \in Nat /\ iv[i][2] \in Nat /\ iv[i - 1][2] < iv[i][2]
      BY <1>1, <2>1, <3>1
    <3>3. W[i] = Farther(iv[i][2], s) /\ W[i - 1] = Farther(iv[i - 1][2], s)
      BY <2>1, <3>1
    <3> QED BY <3>2, <3>3 DEF Farther
  <2> QED BY <2>2, <2>3
<1>3. W = [i \in 0..Len(iv) |-> IF i = 0 THEN s
             ELSE IF iv[i][2] > W[i - 1] THEN iv[i][2] ELSE W[i - 1]]
  BY <1>2
<1> HIDE DEF W
<1> QED BY <1>3, Zenon DEF CursorOf

LEMMA CursorFact ==
  ASSUME NEW iv, NormalizedList(iv), NEW s \in Nat
  PROVE  /\ CursorOf(iv, s)[0] = s
         /\ \A i \in 1..Len(iv) : CursorOf(iv, s)[i] = Farther(iv[i][2], s)
<1> DEFINE C == CursorOf(iv, s)
           Bad == {i \in 1..Len(iv) : C[i] # Farther(iv[i][2], s)}
<1>1. /\ Len(iv) \in Nat
      /\ \A i \in 1..Len(iv) : /\ iv[i][1] \in Nat /\ iv[i][2] \in Nat
                               /\ iv[i][1] < iv[i][2] /\ iv[i][2] <= FileSize
      /\ \A i, j \in 1..Len(iv) : i < j => iv[i][2] < iv[j][1]
  BY NormalizedFacts
<1>2. C = [i \in 0..Len(iv) |-> IF i = 0 THEN s
             ELSE IF iv[i][2] > C[i - 1] THEN iv[i][2] ELSE C[i - 1]]
  BY CursorEquation
<1> HIDE DEF C
<1>3. C[0] = s
  BY <1>1, <1>2
<1>4. \A i \in 1..Len(iv) : C[i] = IF iv[i][2] > C[i - 1] THEN iv[i][2] ELSE C[i - 1]
  <2>1. ASSUME NEW i \in 1..Len(iv)
        PROVE  C[i] = IF iv[i][2] > C[i - 1] THEN iv[i][2] ELSE C[i - 1]
    <3>1. i \in 0..Len(iv) /\ i # 0
      BY <1>1
    <3> QED BY <1>2, <3>1
  <2> QED BY <2>1
<1>5. ASSUME Bad # {} PROVE FALSE
  <2>1. PICK n \in Bad : \A m \in Bad : n <= m
    <3>1. Bad \in SUBSET Nat
      OBVIOUS
    <3> HIDE DEF Bad
    <3> QED BY <1>5, <3>1, LeastNumber
  <2>2. n \in 1..Len(iv) /\ C[n] # Farther(iv[n][2], s)
    BY <2>1
  <2>3. CASE n = 1
    BY <1>3, <1>4, <2>2, <2>3 DEF Farther
  <2>4. CASE n # 1
    <3>1. n - 1 \in 1..Len(iv) /\ n - 1 < n
      BY <1>1, <2>2, <2>4
    <3>2. C[n - 1] = Farther(iv[n - 1][2], s)
      <4>1. n - 1 \in Bad => n <= n - 1
        BY <2>1
      <4>2. n - 1 \notin Bad
        <5> HIDE DEF Bad
        <5> QED BY <2>2, <3>1, <4>1
      <4> QED BY <3>1, <4>2
    <3>3. iv[n - 1][2] \in Nat /\ iv[n][2] \in Nat /\ iv[n - 1][2] < iv[n][2]
      BY <1>1, <2>2, <3>1
    <3>4. C[n] = IF iv[n][2] > C[n - 1] THEN iv[n][2] ELSE C[n - 1]
      BY <1>4, <2>2
    <3> QED BY <2>2, <3>2, <3>3, <3>4 DEF Farther
  <2> QED BY <2>3, <2>4
<1> QED BY <1>3, <1>5 DEF C

(* As long as the walk meets no gap, everything before the cursor is there.*)
LEMMA WalkedIsCovered ==
  ASSUME NEW iv, NormalizedList(iv), NEW s \in Nat, NEW n \in 0..Len(iv),
         \A i \in 1..n : ~(iv[i][1] > CursorOf(iv, s)[i - 1])
  PROVE  \A b \in s..(CursorOf(iv, s)[n] - 1) : b \in Covered(iv)
<1> DEFINE C == CursorOf(iv, s)
           Bad == {i \in 0..n : \E b \in s..(C[i] - 1) : b \notin Covered(iv)}
<1>1. /\ Len(iv) \in Nat /\ FileSize \in Nat
      /\ \A i \in 1..Len(iv) : /\ iv[i][1] \in Nat /\ iv[i][2] \in Nat
                               /\ iv[i][1] < iv[i][2] /\ iv[i][2] <= FileSize
  BY NormalizedFacts, FileSizeNat
<1>2. C[0] = s /\ \A i \in 1..Len(iv) : C[i] = Farther(iv[i][2], s)
  BY CursorFact
<1>3. \A i \in 1..n : iv[i][1] <= C[i - 1]
  <2>1. ASSUME NEW i \in 1..n PROVE iv[i][1] <= C[i - 1]
    <3>1. i \in 1..Len(iv) /\ (i - 1 = 0 \/ i - 1 \in 1..Len(iv))
      BY <1>1
    <3>2. C[i - 1] \in Nat
      <4>1. CASE i - 1 = 0
        BY <1>2, <4>1
      <4>2. CASE i - 1 \in 1..Len(iv)
        BY <1>1, <1>2, <4>2 DEF Farther
      <4> QED BY <3>1, <4>1, <4>2
    <3>3. ~(iv[i][1] > C[i - 1]) /\ iv[i][1] \in Nat
      BY <1>1, <3>1
    <3> HIDE DEF C
    <3> QED BY <3>2, <3>3
  <2> QED BY <2>1
<1> HIDE DEF C
<1>4. ASSUME Bad # {} PROVE FALSE
  <2>1. PICK k \in Bad : \A m \in Bad : k <= m
    <3>1. Bad \in SUBSET Nat
      OBVIOUS
    <3> HIDE DEF Bad
    <3> QED BY <1>4, <3>1, LeastNumber
  <2>2. PICK b \in s..(C[k] - 1) : b \notin Covered(iv)
    BY <2>1
  <2>3. k # 0
    BY <1>2, <2>2
  <2>4. k \in 1..n /\ k \in 1..Len(iv) /\ k - 1 \in 0..n /\ k \in Nat
    BY <1>1, <2>1, <2>3
  <2>5. \A c \in s..(C[k - 1] - 1) : c \in Covered(iv)
    <3>1. k - 1 \in Bad => k <= k - 1
      BY <2>1
    <3>2. k - 1 \notin Bad
      <4> HIDE DEF Bad
      <4> QED BY <2>4, <3>1
    <3> QED BY <2>4, <3>2
  <2>6. iv[k][1] <= C[k - 1] /\ C[k] = Farther(iv[k][2], s) /\ C[k - 1] \in Nat
    <3>1. k - 1 = 0 \/ k - 1 \in 1..Len(iv)
      BY <2>4
    <3>2. C[k - 1] \in Nat
      <4>1. CASE k - 1 = 0
        BY <1>2, <4>1
      <4>2. CASE k - 1 \in 1..Len(iv)
        BY <1>1, <1>2, <4>2 DEF Farther
      <4> QED BY <3>1, <4>1, <4>2
    <3> QED BY <1>2, <1>3, <2>4, <3>2
  <2>7. b \in Nat /\ s <= b /\ b < C[k] /\ iv[k][1] \in Nat /\ iv[k][2] \in Nat
        /\ iv[k][2] <= FileSize
    BY <1>1, <2>2, <2>4, <2>6 DEF Farther
  <2>8. ~(b < C[k - 1])
    BY <2>2, <2>5, <2>6, <2>7
  <2>9. iv[k][1] <= b /\ b < iv[k][2] /\ b \in 0..FileSize
    <3>1. iv[k][1] <= b
      BY <2>6, <2>7, <2>8
    <3>2. C[k] = s \/ C[k] = iv[k][2]
      BY <2>6 DEF Farther
    <3>3. b < iv[k][2]
      BY <2>7, <3>2
    <3> QED BY FileSizeNat, <2>7, <3>1, <3>3
  <2> QED BY <2>2, <2>4, <2>9 DEF Covered
<1>5. n \notin Bad
  BY <1>4, Zenon
<1>6. n \in 0..n
  OBVIOUS
<1>7. \A b \in s..(C[n] - 1) : b \in Covered(iv)
  BY <1>5, <1>6, Zenon
<1> QED BY <1>7 DEF C

(* `find_missing` as a choice between three answers, cursor by cursor.     *)
GapAt(iv, s, i) == iv[i][1] > CursorOf(iv, s)[i - 1]
StopsAt(iv, s, e) == {i \in 1..Len(iv) : GapAt(iv, s, i) \/ CursorOf(iv, s)[i] >= e}
FirstStop(iv, s, e) ==
  CHOOSE n \in StopsAt(iv, s, e) : \A m \in StopsAt(iv, s, e) : n <= m

LEMMA FindMissingCases ==
  ASSUME NEW iv, NEW s, NEW e, ~HasRange(iv, s, e)
  PROVE  FindMissing(iv, s, e) =
           IF StopsAt(iv, s, e) = {} THEN << CursorOf(iv, s)[Len(iv)], e >>
           ELSE IF GapAt(iv, s, FirstStop(iv, s, e))
                THEN << CursorOf(iv, s)[FirstStop(iv, s, e) - 1],
                        IF iv[FirstStop(iv, s, e)][1] < e THEN iv[FirstStop(iv, s, e)][1] ELSE e >>
                ELSE None
BY Zenon DEF FindMissing, FirstStop, StopsAt, GapAt, CursorOf

(* What an answer << a1, a2 >> must be: the first gap of the query.        *)
FirstGap(iv, s, e, a1, a2) ==
  /\ s <= a1 /\ a1 < a2 /\ a2 <= e
  /\ \A b \in s..(a1 - 1) : b \in Covered(iv)
  /\ \A b \in a1..(a2 - 1) : b \notin Covered(iv)
  /\ a2 = e \/ a2 \in Covered(iv)

LEMMA CursorRange ==
  ASSUME NEW iv, NormalizedList(iv), NEW s \in Nat, NEW n \in 0..Len(iv)
  PROVE  /\ CursorOf(iv, s)[n] \in Nat /\ s <= CursorOf(iv, s)[n]
         /\ \A j \in 1..n : iv[j][2] <= CursorOf(iv, s)[n]
<1> DEFINE C == CursorOf(iv, s)
<1>1. /\ Len(iv) \in Nat
      /\ \A i \in 1..Len(iv) : /\ iv[i][1] \in Nat /\ iv[i][2] \in Nat
                               /\ iv[i][1] < iv[i][2] /\ iv[i][2] <= FileSize
      /\ \A i, j \in 1..Len(iv) : i < j => iv[i][2] < iv[j][1]
  BY NormalizedFacts
<1>2. C[0] = s /\ \A i \in 1..Len(iv) : C[i] = Farther(iv[i][2], s)
  BY CursorFact
<1> HIDE DEF C
<1>3. CASE n = 0
  <2>1. C[n] = s /\ \A j \in 1..n : FALSE
    BY <1>2, <1>3
  <2> QED BY <2>1 DEF C
<1>4. CASE n # 0
  <2>1. n \in 1..Len(iv) /\ C[n] = Farther(iv[n][2], s) /\ iv[n][2] \in Nat
    BY <1>1, <1>2, <1>4
  <2>2. C[n] \in Nat /\ s <= C[n] /\ iv[n][2] <= C[n]
    BY <2>1 DEF Farther
  <2>3. ASSUME NEW j \in 1..n PROVE iv[j][2] <= C[n]
    <3>1. j \in 1..Len(iv) /\ (j = n \/ j < n)
      BY <1>1
    <3>2. j < n => iv[j][2] < iv[n][1]
      BY <1>1, <2>1, <3>1
    <3>3. iv[j][2] \in Nat /\ iv[n][1] \in Nat /\ iv[n][1] < iv[n][2]
      BY <1>1, <2>1, <3>1
    <3> QED BY <2>1, <2>2, <3>1, <3>2, <3>3
  <2> QED BY <2>2, <2>3 DEF C
<1> QED BY <1>3, <1>4

LEMMA FindMissingFact ==
  ASSUME NEW iv, NormalizedList(iv), NEW s \in 0..FileSize, NEW e \in 0..FileSize,
         ~HasRange(iv, s, e)
  PROVE  \E a1, a2 \in Nat :
           FindMissing(iv, s, e) = << a1, a2 >> /\ FirstGap(iv, s, e, a1, a2)
<1> DEFINE C == CursorOf(iv, s)
           stops == StopsAt(iv, s, e)
<1>1. /\ Len(iv) \in Nat /\ FileSize \in Nat /\ s \in Nat /\ e \in Nat
      /\ \A i \in 1..Len(iv) : /\ iv[i][1] \in Nat /\ iv[i][2] \in Nat
                               /\ iv[i][1] < iv[i][2] /\ iv[i][2] <= FileSize
      /\ \A i, j \in 1..Len(iv) : i < j => iv[i][2] < iv[j][1]
  BY NormalizedFacts, FileSizeNat
<1>2. /\ C[0] = s
      /\ \A n \in 0..Len(iv) : /\ C[n] \in Nat /\ s <= C[n]
                               /\ \A j \in 1..n : iv[j][2] <= C[n]
  BY <1>1, CursorFact, CursorRange
<1>3. \A n \in 0..Len(iv) : (\A i \in 1..n : ~GapAt(iv, s, i))
                              => \A b \in s..(C[n] - 1) : b \in Covered(iv)
  BY <1>1, WalkedIsCovered DEF GapAt
<1>4. s < e
  BY <1>1 DEF HasRange
<1>5. \A i \in 1..Len(iv) : /\ i \in stops <=> (GapAt(iv, s, i) \/ C[i] >= e)
                            /\ GapAt(iv, s, i) <=> iv[i][1] > C[i - 1]
  BY DEF StopsAt, GapAt
<1>6. ASSUME NEW n \in 0..Len(iv), \A i \in 1..n : i \notin stops
      PROVE  C[n] < e /\ \A b \in s..(C[n] - 1) : b \in Covered(iv)
  <2>1. n = 0 \/ n \in 1..n
    BY <1>1
  <2>2. \A i \in 1..n : ~GapAt(iv, s, i) /\ ~(C[i] >= e)
    BY <1>1, <1>5, <1>6
  <2>3. C[n] < e
    <3> HIDE DEF C
    <3> QED BY <1>1, <1>2, <1>4, <2>1, <2>2
  <2> QED BY <1>3, <2>2, <2>3
<1>7. CASE stops = {}
  <2>1. FindMissing(iv, s, e) = << C[Len(iv)], e >>
    BY <1>7, FindMissingCases
  <2> HIDE DEF C, stops
  <2>2. Len(iv) \in 0..Len(iv)
    BY <1>1
  <2>3. C[Len(iv)] < e /\ \A b \in s..(C[Len(iv)] - 1) : b \in Covered(iv)
    BY <1>6, <1>7, <2>2
  <2>4. ASSUME NEW b \in C[Len(iv)]..(e - 1) PROVE b \notin Covered(iv)
    <3>1. ASSUME NEW j \in 1..Len(iv), b < iv[j][2] PROVE FALSE
      <4>1. iv[j][2] <= C[Len(iv)] /\ C[Len(iv)] \in Nat /\ iv[j][2] \in Nat
        BY <1>1, <1>2, <2>2
      <4> QED BY <1>1, <3>1, <4>1
    <3> QED BY <3>1 DEF Covered
  <2>5. FirstGap(iv, s, e, C[Len(iv)], e)
    BY <1>1, <1>2, <2>2, <2>3, <2>4 DEF FirstGap
  <2> QED BY <1>1, <1>2, <2>1, <2>2, <2>5
<1>8. CASE stops # {}
  <2> DEFINE i == FirstStop(iv, s, e)
  <2>1. i \in stops /\ \A m \in stops : i <= m
    <3>1. stops \in SUBSET Nat
      BY DEF StopsAt
    <3>2. \E n \in stops : \A m \in stops : n <= m
      <4> HIDE DEF stops
      <4> QED BY <1>8, <3>1, LeastNumber
    <3> QED BY <3>2 DEF FirstStop
  <2>2. FindMissing(iv, s, e) =
          IF GapAt(iv, s, i)
          THEN << C[i - 1], IF iv[i][1] < e THEN iv[i][1] ELSE e >>
          ELSE None
    BY <1>8, FindMissingCases
  <2>3. i \in 1..Len(iv)
    BY <2>1 DEF StopsAt
  <2> HIDE DEF C, stops, i
  <2>4. i - 1 \in 0..Len(iv) /\ \A j \in 1..(i - 1) : j \notin stops
    <3>1. \A j \in 1..(i - 1) : ~(i <= j)
      BY <1>1, <2>3
    <3> QED BY <1>1, <2>1, <2>3, <3>1
  <2>5. /\ C[i - 1] < e /\ C[i - 1] \in Nat /\ s <= C[i - 1]
        /\ \A b \in s..(C[i - 1] - 1) : b \in Covered(iv)
    BY <1>2, <1>6, <2>4
  <2>6. CASE ~GapAt(iv, s, i)
    <3>1. C[i] >= e
      BY <1>5, <2>1, <2>3, <2>6
    <3>2. i \in 0..Len(iv) /\ C[i] \in Nat
      BY <1>1, <1>2, <2>3
    <3>3. \A j \in 1..i : ~GapAt(iv, s, j)
      <4>1. ASSUME NEW j \in 1..i PROVE ~GapAt(iv, s, j)
        <5>1. j = i \/ j \in 1..(i - 1)
          BY <2>3
        <5>2. j \in 1..(i - 1) => ~GapAt(iv, s, j)
          BY <1>1, <1>5, <2>3, <2>4
        <5> QED BY <2>6, <5>1, <5>2
      <4> QED BY <4>1
    <3>4. \A b \in s..(C[i] - 1) : b \in Covered(iv)
      BY <1>3, <3>2, <3>3
    <3>5. \A b \in s..(e - 1) : b \in Covered(iv)
      BY <1>1, <3>1, <3>2, <3>4
    <3>6. HasRange(iv, s, e)
      BY <3>5, HasRangeFact
    <3> QED BY <3>6
  <2>7. CASE GapAt(iv, s, i)
    <3> DEFINE a2 == IF iv[i][1] < e THEN iv[i][1] ELSE e
    <3>1. C[i - 1] < iv[i][1] /\ iv[i][1] \in Nat /\ iv[i][1] < iv[i][2] /\ iv[i][2] \in Nat
      BY <1>1, <1>5, <2>3, <2>5, <2>7
    <3>2. a2 \in Nat /\ C[i - 1] < a2 /\ a2 <= e /\ a2 <= iv[i][1]
      BY <1>1, <2>5, <3>1
    <3>3. FindMissing(iv, s, e) = << C[i - 1], a2 >>
      BY <2>2, <2>7
    <3>4. ASSUME NEW b \in C[i - 1]..(a2 - 1) PROVE b \notin Covered(iv)
      <4>1. b \in Nat /\ C[i - 1] <= b /\ b < iv[i][1]
        <5> HIDE DEF a2
        <5> QED BY <2>5, <3>1, <3>2, <3>4
      <4>2. ASSUME NEW j \in 1..Len(iv), iv[j][1] <= b, b < iv[j][2] PROVE FALSE
        <5>1. iv[j][1] \in Nat /\ iv[j][2] \in Nat
          BY <1>1
        <5>2. CASE j < i
          <6>1. j \in 1..(i - 1)
            BY <1>1, <2>3, <5>2
          <6>2. iv[j][2] <= C[i - 1]
            BY <1>2, <2>4, <6>1
          <6> QED BY <2>5, <4>1, <4>2, <5>1, <6>2
        <5>3. CASE j = i
          BY <3>1, <4>1, <4>2, <5>1, <5>3
        <5>4. CASE i < j
          <6>1. iv[i][2] < iv[j][1]
            BY <1>1, <2>3, <5>4
          <6> QED BY <3>1, <4>1, <4>2, <5>1, <6>1
        <5> QED BY <2>3, <5>2, <5>3, <5>4
      <4> QED BY <4>2 DEF Covered
    <3>5. a2 = e \/ a2 \in Covered(iv)
      <4>1. CASE ~(iv[i][1] < e)
        BY <4>1
      <4>2. CASE iv[i][1] < e
        <5>1. a2 = iv[i][1] /\ iv[i][1] \in 0..FileSize
          BY <1>1, <3>1, <4>2
        <5>2. iv[i][1] \in Covered(iv)
          BY <2>3, <3>1, <5>1 DEF Covered
        <5> QED BY <5>1, <5>2
      <4> QED BY <4>1, <4>2
    <3>6. FirstGap(iv, s, e, C[i - 1], a2)
      <4> HIDE DEF a2
      <4> QED BY <2>5, <3>2, <3>4, <3>5 DEF FirstGap
    <3> HIDE DEF a2
    <3> QED BY <2>5, <3>2, <3>3, <3>6
  <2> QED BY <2>6, <2>7
<1> QED BY <1>7, <1>8

LEMMA FindMissingIsExact ==
  ASSUME Normalized, NEW s \in 0..FileSize, NEW e \in 0..FileSize
  PROVE  LET have    == Covered(intervals)
             missing == {b \in s..(e - 1) : b \notin have}
             answer  == FindMissing(intervals, s, e)
         IN  IF missing = {} THEN answer = None
             ELSE /\ answer # None
                  /\ s <= answer[1] /\ answer[1] < answer[2] /\ answer[2] <= e
                  /\ \A b \in missing : answer[1] <= b
                  /\ \A b \in answer[1]..(answer[2] - 1) : b \in missing
                  /\ answer[2] \notin missing
<1> DEFINE have    == Covered(intervals)
           missing == {b \in s..(e - 1) : b \notin have}
           answer  == FindMissing(intervals, s, e)
<1>1. NormalizedList(intervals) /\ s \in Nat /\ e \in Nat
  BY FileSizeNat DEF Normalized
<1>2. HasRange(intervals, s, e) <=> missing = {}
  BY <1>1, HasRangeFact
<1>3. CASE missing = {}
  <2>1. answer = None
    BY <1>2, <1>3, Zenon DEF FindMissing
  <2> QED BY <1>3, <2>1
<1>4. CASE missing # {}
  <2>1. PICK a1, a2 \in Nat : answer = << a1, a2 >> /\ FirstGap(intervals, s, e, a1, a2)
    BY <1>1, <1>2, <1>4, FindMissingFact
  <2>2. answer[1] = a1 /\ answer[2] = a2 /\ answer # None
    BY <2>1 DEF None
  <2> HIDE DEF answer, have
  <2>3. /\ s <= a1 /\ a1 < a2 /\ a2 <= e
        /\ \A b \in s..(a1 - 1) : b \in have
        /\ \A b \in a1..(a2 - 1) : b \notin have
        /\ a2 = e \/ a2 \in have
    BY <2>1 DEF FirstGap, have
  <2>4. \A b \in missing : a1 <= b
    BY <1>1, <2>1, <2>3
  <2>5. \A b \in a1..(a2 - 1) : b \in missing
    BY <1>1, <2>1, <2>3
  <2>6. a2 \notin missing
    BY <1>1, <2>1, <2>3
  <2> HIDE DEF missing
  <2>7. /\ answer # None
        /\ s <= answer[1] /\ answer[1] < answer[2] /\ answer[2] <= e
        /\ \A b \in missing : answer[1] <= b
        /\ \A b \in answer[1]..(answer[2] - 1) : b \in missing
        /\ answer[2] \notin missing
    BY <2>2, <2>3, <2>4, <2>5, <2>6
  <2> QED BY <1>4, <2>7 DEF answer, missing, have
<1> QED BY <1>3, <1>4

(* `find_missing` answers the first gap, all of it and nothing else, for   *)
(* files of any size: the downloader that asks again and again moves on.   *)
THEOREM GapsExact == Spec => []FindMissingExact
<1>1. Normalized => FindMissingExact
  BY FindMissingIsExact, Zenon DEF FindMissingExact
<1> QED BY <1>1, ListStaysNormalized, PTL

-----------------------------------------------------------------------------
(* The blob of range_db.rs holds the two ends of interval i in its words   *)
(* 2i - 1 and 2i.                                                          *)
LEMMA BlobRoundTrip ==
  ASSUME NEW iv \in Seq(Pair)
  PROVE  DecodeRangesBlob(EncodeRangesBlob(iv)) = iv
<1> DEFINE blob == EncodeRangesBlob(iv)
           back == DecodeRangesBlob(blob)
           n    == Len(iv)
<1>1. n \in Nat /\ \A i \in 1..n : iv[i] \in Pair
  OBVIOUS
<1>2. /\ \A w \in 1..(2 * n) : blob[w] = iv[(w + 1) \div 2][IF w % 2 = 1 THEN 1 ELSE 2]
      /\ blob = [w \in 1..(2 * n) |-> blob[w]]
  BY DEF EncodeRangesBlob
<1>3. Len(blob) = 2 * n
  <2> HIDE DEF n
  <2>1. 2 * n \in Nat
    BY <1>1
  <2> HIDE DEF blob
  <2>2. Len([w \in 1..(2 * n) |-> blob[w]]) = 2 * n
    BY <2>1
  <2> QED BY <1>2, <2>2
<1> HIDE DEF blob
<1>4. back = [i \in 1..n |-> << blob[2 * i - 1], blob[2 * i] >>]
  <2>1. Len(blob) \div 2 = n
    <3> HIDE DEF n
    <3> QED BY <1>1, <1>3
  <2> QED BY <2>1, Zenon DEF DecodeRangesBlob
<1> HIDE DEF back
<1>5. ASSUME NEW i \in 1..n PROVE << blob[2 * i - 1], blob[2 * i] >> = iv[i]
  <2>1. i \in Nat /\ 2 * i - 1 \in 1..(2 * n) /\ 2 * i \in 1..(2 * n)
    BY <1>1
  <2>2. /\ (2 * i - 1 + 1) \div 2 = i /\ (2 * i - 1) % 2 = 1
        /\ (2 * i + 1) \div 2 = i /\ (2 * i) % 2 = 0
    BY <2>1
  <2>3. blob[2 * i - 1] = iv[i][1]
    BY <1>2, <2>1, <2>2
  <2>4. blob[2 * i] = iv[i][2]
    BY <1>2, <2>1, <2>2
  <2>5. iv[i] = << iv[i][1], iv[i][2] >>
    BY <1>1 DEF Pair
  <2> QED BY <2>3, <2>4, <2>5
<1>6. back = [i \in 1..n |-> iv[i]]
  BY <1>4, <1>5
<1>7. iv = [i \in 1..n |-> iv[i]]
  OBVIOUS
<1> QED BY <1>6, <1>7 DEF back, blob

(* A prefix of a normalized list is one, and the next interval is inserted *)
(* behind it.                                                              *)
LEMMA InsertNext ==
  ASSUME NEW iv, NormalizedList(iv), NEW i \in 1..Len(iv)
  PROVE  InsertInto(SubSeq(iv, 1, i - 1), iv[i][1], iv[i][2]) = SubSeq(iv, 1, i)
<1> DEFINE p     == SubSeq(iv, 1, i - 1)
           start == iv[i][1]
           end   == iv[i][2]
           left  == LeftBound(p, start)
           right == RightBound(p, left, end)
<1>1. /\ Len(iv) \in Nat /\ iv \in Seq(Pair)
      /\ \A k \in 1..Len(iv) : /\ iv[k][1] \in Nat /\ iv[k][2] \in Nat
                               /\ iv[k][1] < iv[k][2] /\ iv[k][2] <= FileSize
      /\ \A k, j \in 1..Len(iv) : k < j => iv[k][2] < iv[j][1]
  BY NormalizedFacts DEF NormalizedList, Pair
<1>2. iv[i] \in Pair /\ iv[i] = << start, end >> /\ start \in Nat /\ end \in Nat /\ start < end
  <2>1. iv[i] \in Pair
    BY <1>1
  <2> QED BY <1>1, <2>1 DEF Pair
<1>3. /\ p \in Seq(Pair) /\ Len(p) = i - 1 /\ i - 1 \in Nat
      /\ \A k \in 1..(i - 1) : p[k] = iv[k]
  BY <1>1
<1> HIDE DEF p
<1>4. \A k \in 1..(i - 1) : k \in 1..Len(iv) /\ k < i
  BY <1>1
<1>5. NormalizedList(p)
  <2>1. \A k \in 1..Len(p) : p[k][1] < p[k][2]
    BY <1>1, <1>3, <1>4
  <2>2. \A k, j \in 1..Len(p) : k < j => p[k][2] < p[j][1]
    BY <1>1, <1>3, <1>4
  <2> QED BY <1>3, <2>1, <2>2 DEF NormalizedList, Pair
<1>6. \A k \in 1..(i - 1) : p[k][2] < start /\ p[k][2] \in Nat
  <2>1. ASSUME NEW k \in 1..(i - 1) PROVE p[k][2] < start /\ p[k][2] \in Nat
    <3>1. iv[k][2] < iv[i][1] /\ iv[k][2] \in Nat /\ p[k] = iv[k]
      BY <1>1, <1>3, <1>4
    <3> QED BY <3>1
  <2> QED BY <2>1
<1> HIDE DEF start, end
<1>7. left = i - 1
  <2>1. left \in 0..(i - 1) /\ \A k \in (left + 1)..(i - 1) : start <= p[k][2]
    BY <1>2, <1>3, <1>5, LeftBoundFact
  <2> HIDE DEF left
  <2>2. left # i - 1 => i - 1 \in (left + 1)..(i - 1) /\ i - 1 \in 1..(i - 1)
    BY <1>3, <2>1
  <2> QED BY <1>2, <1>6, <2>1, <2>2
<1> HIDE DEF left
<1>8. right = i - 1
  <2>1. left \in 0..Len(p)
    BY <1>3, <1>7
  <2>2. right \in left..Len(p)
    BY <1>2, <1>5, <2>1, RightBoundFact
  <2> HIDE DEF right
  <2> QED BY <1>3, <1>7, <2>2
<1>9. InsertInto(p, start, end)
        = SubSeq(p, 1, left) \o << Merged(p, left, right, start, end) >>
            \o SubSeq(p, right + 1, Len(p))
  <2>1. ~(start >= end)
    BY <1>2
  <2> QED BY <2>1, Zenon DEF InsertInto, left, right
<1> HIDE DEF right
<1>10. Merged(p, left, right, start, end) = iv[i]
  BY <1>2, <1>3, <1>7, <1>8 DEF Merged
<1>11. SubSeq(p, 1, left) = p
  BY <1>3, <1>7, SubSeqFull
<1>12. SubSeq(p, right + 1, Len(p)) = << >>
  <2>1. right + 1 \in Int /\ Len(p) \in Int /\ right + 1 > Len(p)
    BY <1>3, <1>8
  <2> QED BY <1>3, <2>1, SubSeqEmpty
<1>13. p \o << iv[i] >> \in Seq(Pair)
  BY <1>2, <1>3
<1>14. InsertInto(p, start, end) = p \o << iv[i] >>
  <2>1. (p \o << iv[i] >>) \o << >> = p \o << iv[i] >>
    BY <1>13, ConcatEmptySeq
  <2> QED BY <1>9, <1>10, <1>11, <1>12, <2>1
<1>15. SubSeq(iv, 1, i) = p \o << iv[i] >>
  <2>1. 1 \in Int /\ i \in Int /\ 1 <= i /\ 1 \in 1..Len(iv)+1 /\ i \in 1..Len(iv)
    BY <1>1
  <2> QED BY <1>1, <2>1, SubSeqRecursiveSecond DEF p
<1> QED BY <1>14, <1>15 DEF p, start, end

(* The lists that from_intervals builds on its way are the prefixes.       *)
BuiltOf(ivs) ==
  LET Built[i \in 0..Len(ivs)] ==
        IF i = 0 THEN <<>> ELSE InsertInto(Built[i - 1], ivs[i][1], ivs[i][2])
  IN  Built

LEMMA FromIntervalsFact ==
  ASSUME NEW iv, NormalizedList(iv)
  PROVE  FromIntervals(iv) = iv
<1> DEFINE W == [i \in 0..Len(iv) |-> SubSeq(iv, 1, i)]
           B == BuiltOf(iv)
           Bad == {i \in 0..Len(iv) : B[i] # SubSeq(iv, 1, i)}
<1>1. Len(iv) \in Nat /\ iv \in Seq(Pair)
  BY DEF NormalizedList, Pair
<1>2. SubSeq(iv, 1, 0) = << >>
  BY <1>1, SubSeqEmpty
<1>3. ASSUME NEW i \in 0..Len(iv)
      PROVE  W[i] = IF i = 0 THEN << >> ELSE InsertInto(W[i - 1], iv[i][1], iv[i][2])
  <2>1. CASE i = 0
    BY <1>2, <2>1
  <2>2. CASE i # 0
    <3>1. i \in 1..Len(iv) /\ i - 1 \in 0..Len(iv)
      BY <1>1, <2>2
    <3>2. W[i] = SubSeq(iv, 1, i) /\ W[i - 1] = SubSeq(iv, 1, i - 1)
      BY <3>1
    <3>3. InsertInto(SubSeq(iv, 1, i - 1), iv[i][1], iv[i][2]) = SubSeq(iv, 1, i)
      BY <3>1, InsertNext
    <3> HIDE DEF W
    <3> QED BY <2>2, <3>2, <3>3
  <2> QED BY <2>1, <2>2
<1>4. W = [i \in 0..Len(iv) |->
             IF i = 0 THEN << >> ELSE InsertInto(W[i - 1], iv[i][1], iv[i][2])]
  BY <1>3
<1> HIDE DEF W
<1>5. B = [i \in 0..Len(iv) |->
             IF i = 0 THEN << >> ELSE InsertInto(B[i - 1], iv[i][1], iv[i][2])]
  BY <1>4, Zenon DEF BuiltOf
<1> HIDE DEF B
<1>6. ASSUME Bad # {} PROVE FALSE
  <2>1. PICK n \in Bad : \A m \in Bad : n <= m
    <3>1. Bad \in SUBSET Nat
      OBVIOUS
    <3> HIDE DEF Bad
    <3> QED BY <1>6, <3>1, LeastNumber
  <2>2. n \in 0..Len(iv) /\ B[n] # SubSeq(iv, 1, n)
    BY <2>1
  <2>3. n # 0
    <3>1. 0 \in 0..Len(iv)
      BY <1>1
    <3> QED BY <1>2, <1>5, <2>2, <3>1
  <2>4. n \in 1..Len(iv) /\ n - 1 \in 0..Len(iv) /\ n - 1 < n /\ n \in Nat
    BY <1>1, <2>2, <2>3
  <2>5. B[n - 1] = SubSeq(iv, 1, n - 1)
    <3>1. n - 1 \in Bad => n <= n - 1
      BY <2>1
    <3>2. n - 1 \notin Bad
      <4> HIDE DEF Bad
      <4> QED BY <2>4, <3>1
    <3> QED BY <2>4, <3>2
  <2>6. B[n] = InsertInto(B[n - 1], iv[n][1], iv[n][2])
    BY <1>5, <2>2, <2>3
  <2>7. InsertInto(SubSeq(iv, 1, n - 1), iv[n][1], iv[n][2]) = SubSeq(iv, 1, n)
    BY <2>4, InsertNext
  <2> QED BY <2>2, <2>5, <2>6, <2>7
<1>7. Len(iv) \in 0..Len(iv)
  BY <1>1
<1>8. B[Len(iv)] = SubSeq(iv, 1, Len(iv))
  BY <1>6, <1>7
<1>9. SubSeq(iv, 1, Len(iv)) = iv
  BY <1>1, SubSeqFull
<1>10. FromIntervals(iv) = B[Len(iv)]
  BY Zenon DEF FromIntervals, BuiltOf, B
<1> QED BY <1>8, <1>9, <1>10

-----------------------------------------------------------------------------
(* The bytes on disk below n, and how many they are.                       *)
Below(iv, n) == {b \in Covered(iv) : b < n}
CountBelow(iv, n) == Cardinality(Below(iv, n))

LEMMA BelowFinite ==
  ASSUME NEW iv, NEW n
  PROVE  IsFiniteSet(Below(iv, n)) /\ CountBelow(iv, n) \in Nat
<1>1. IsFiniteSet(0..FileSize)
  BY FileSizeNat, FS_Interval
<1>2. Below(iv, n) \in SUBSET (0..FileSize)
  BY DEF Below, Covered
<1>3. IsFiniteSet(Below(iv, n))
  BY <1>1, <1>2, FS_Subset
<1> QED BY <1>3, FS_CardinalityType DEF CountBelow

LEMMA NothingBelowZero ==
  ASSUME NEW iv
  PROVE  CountBelow(iv, 0) = 0
<1>1. Below(iv, 0) = {}
  BY FileSizeNat DEF Below, Covered
<1> QED BY <1>1, FS_EmptySet DEF CountBelow

LEMMA OneMoreByte ==
  ASSUME NEW iv, NEW b \in 0..FileSize
  PROVE  CountBelow(iv, b + 1) = (IF b \in Covered(iv) THEN 1 ELSE 0) + CountBelow(iv, b)
<1>1. \A x \in Covered(iv) : x \in Int
  BY FileSizeNat DEF Covered
<1>2. CountBelow(iv, b) \in Nat /\ IsFiniteSet(Below(iv, b))
  BY BelowFinite
<1>3. CASE b \in Covered(iv)
  <2>0. b \in Int /\ \A x \in Covered(iv) : x < b + 1 <=> (x < b \/ x = b)
    BY <1>1, FileSizeNat
  <2>1. Below(iv, b + 1) = Below(iv, b) \cup {b}
    BY <1>3, <2>0 DEF Below
  <2>2. b \notin Below(iv, b)
    BY DEF Below
  <2>3. Cardinality(Below(iv, b) \cup {b}) = Cardinality(Below(iv, b)) + 1
    BY <1>2, <2>2, FS_AddElement
  <2>4. CountBelow(iv, b + 1) = CountBelow(iv, b) + 1
    BY <2>1, <2>3, Zenon DEF CountBelow
  <2> QED BY <1>2, <1>3, <2>4
<1>4. CASE b \notin Covered(iv)
  <2>1. Below(iv, b + 1) = Below(iv, b)
    BY <1>1, <1>4 DEF Below
  <2> QED BY <1>2, <1>4, <2>1 DEF CountBelow
<1> QED BY <1>3, <1>4

(* The bytes up to the end of one interval are those up to the end of the  *)
(* interval before it and its own.                                         *)
LEMMA OneMoreInterval ==
  ASSUME NEW iv, NormalizedList(iv), NEW i \in 1..Len(iv), NEW n \in Nat,
         i = 1 => n = 0,
         i # 1 => n = iv[i - 1][2]
  PROVE  CountBelow(iv, iv[i][2]) = CountBelow(iv, n) + (iv[i][2] - iv[i][1])
<1> DEFINE own == iv[i][1]..(iv[i][2] - 1)
<1>1. /\ Len(iv) \in Nat /\ FileSize \in Nat
      /\ \A k \in 1..Len(iv) : /\ iv[k][1] \in Nat /\ iv[k][2] \in Nat
                               /\ iv[k][1] < iv[k][2] /\ iv[k][2] <= FileSize
      /\ \A k, j \in 1..Len(iv) : k < j => iv[k][2] < iv[j][1]
  BY NormalizedFacts, FileSizeNat
<1>2. iv[i][1] \in Nat /\ iv[i][2] \in Nat /\ iv[i][1] < iv[i][2] /\ iv[i][2] <= FileSize
  BY <1>1
<1>3. n <= iv[i][1]
  <2>1. CASE i = 1
    BY <1>2, <2>1
  <2>2. CASE i # 1
    <3>1. i - 1 \in 1..Len(iv) /\ i - 1 < i
      BY <1>1, <2>2
    <3>2. iv[i - 1][2] < iv[i][1]
      BY <1>1, <3>1
    <3> QED BY <1>2, <2>2, <3>2
  <2> QED BY <2>1, <2>2
<1>4. ASSUME NEW b \in Below(iv, iv[i][2]) PROVE b \in Below(iv, n) \cup own
  <2>1. b \in Covered(iv) /\ b < iv[i][2] /\ b \in Nat
    BY <1>1 DEF Below, Covered
  <2>2. PICK k \in 1..Len(iv) : iv[k][1] <= b /\ b < iv[k][2]
    BY <2>1 DEF Covered
  <2>3. iv[k][1] \in Nat /\ iv[k][2] \in Nat
    BY <1>1
  <2>4. CASE k = i
    BY <1>2, <2>1, <2>2, <2>4
  <2>5. CASE i < k
    <3>1. iv[i][2] < iv[k][1]
      BY <1>1, <2>5
    <3> QED BY <1>2, <2>1, <2>2, <2>3, <3>1
  <2>6. CASE k < i
    <3>1. i # 1 /\ i - 1 \in 1..Len(iv) /\ (k = i - 1 \/ k < i - 1)
      BY <1>1, <2>6
    <3>2. k < i - 1 => iv[k][2] < iv[i - 1][1]
      BY <1>1, <3>1
    <3>3. iv[i - 1][1] \in Nat /\ iv[i - 1][2] \in Nat /\ iv[i - 1][1] < iv[i - 1][2]
      BY <1>1, <3>1
    <3>4. b < n
      BY <2>1, <2>2, <2>3, <3>1, <3>2, <3>3
    <3> QED BY <2>1, <3>4 DEF Below
  <2> QED BY <2>4, <2>5, <2>6
<1>5. Below(iv, n) \subseteq Below(iv, iv[i][2])
  <2>1. ASSUME NEW b \in Below(iv, n) PROVE b \in Below(iv, iv[i][2])
    <3>1. b \in Covered(iv) /\ b < n /\ b \in Int
      BY <1>1 DEF Below, Covered
    <3>2. b < iv[i][2]
      BY <1>2, <1>3, <3>1
    <3> QED BY <3>1, <3>2 DEF Below
  <2> QED BY <2>1
<1>6. own \subseteq Below(iv, iv[i][2])
  <2>1. ASSUME NEW b \in own PROVE b \in Below(iv, iv[i][2])
    <3>1. b \in 0..FileSize /\ iv[i][1] <= b /\ b < iv[i][2]
      BY <1>1, <1>2
    <3> QED BY <3>1 DEF Below, Covered
  <2> QED BY <2>1
<1>7. Below(iv, n) \cap own = {}
  <2>1. ASSUME NEW b \in own, b < n PROVE FALSE
    BY <1>2, <1>3, <2>1
  <2> QED BY <2>1 DEF Below
<1>8. /\ IsFiniteSet(own) /\ Cardinality(own) = iv[i][2] - iv[i][1]
  <2>1. iv[i][1] \in Int /\ iv[i][2] - 1 \in Int /\ ~(iv[i][1] > iv[i][2] - 1)
        /\ iv[i][2] - 1 - iv[i][1] + 1 = iv[i][2] - iv[i][1]
    BY <1>2
  <2> QED BY <2>1, FS_Interval
<1>9. Below(iv, iv[i][2]) = Below(iv, n) \cup own
  <2> HIDE DEF own
  <2> QED BY <1>4, <1>5, <1>6
<1> HIDE DEF own
<1>10. IsFiniteSet(Below(iv, n)) /\ CountBelow(iv, n) \in Nat
  BY BelowFinite
<1>11. Cardinality(Below(iv, n) \cup own)
         = Cardinality(Below(iv, n)) + Cardinality(own) - Cardinality(Below(iv, n) \cap own)
  BY <1>8, <1>10, FS_Union
<1>12. Cardinality(Below(iv, n) \cap own) = 0
  BY <1>7, FS_EmptySet
<1> QED BY <1>2, <1>8, <1>9, <1>10, <1>11, <1>12 DEF CountBelow

(* `total_bytes` adds the lengths from the left.                           *)
SumOf(iv) ==
  LET Sum[i \in 0..Len(iv)] ==
        IF i = 0 THEN 0 ELSE Sum[i - 1] + (iv[i][2] - iv[i][1])
  IN  Sum

BelowEnd(iv, i) == IF i = 0 THEN 0 ELSE CountBelow(iv, iv[i][2])

LEMMA BelowEndStep ==
  ASSUME NEW iv, NormalizedList(iv), NEW i \in 1..Len(iv)
  PROVE  BelowEnd(iv, i) = BelowEnd(iv, i - 1) + (iv[i][2] - iv[i][1])
<1>1. Len(iv) \in Nat /\ \A k \in 1..Len(iv) : iv[k][1] \in Nat /\ iv[k][2] \in Nat
  BY NormalizedFacts
<1>2. i # 0 /\ BelowEnd(iv, i) = CountBelow(iv, iv[i][2])
  BY DEF BelowEnd
<1>3. CASE i = 1
  <2>1. CountBelow(iv, iv[i][2]) = CountBelow(iv, 0) + (iv[i][2] - iv[i][1])
    BY <1>3, OneMoreInterval
  <2>2. BelowEnd(iv, i - 1) = 0
    BY <1>3 DEF BelowEnd
  <2> QED BY <1>2, <2>1, <2>2, NothingBelowZero
<1>4. CASE i # 1
  <2>1. i - 1 \in 1..Len(iv) /\ i - 1 # 0
    BY <1>1, <1>4
  <2>2. iv[i - 1][2] \in Nat
    BY <1>1, <2>1
  <2>3. CountBelow(iv, iv[i][2]) = CountBelow(iv, iv[i - 1][2]) + (iv[i][2] - iv[i][1])
    BY <1>4, <2>2, OneMoreInterval
  <2>4. BelowEnd(iv, i - 1) = CountBelow(iv, iv[i - 1][2])
    BY <2>1 DEF BelowEnd
  <2> QED BY <1>2, <2>3, <2>4
<1> QED BY <1>3, <1>4

LEMMA TotalBytesFact ==
  ASSUME NEW iv, NormalizedList(iv)
  PROVE  TotalBytes(iv) = BelowEnd(iv, Len(iv))
<1> DEFINE W == [i \in 0..Len(iv) |-> BelowEnd(iv, i)]
           S == SumOf(iv)
           Bad == {i \in 0..Len(iv) : S[i] # BelowEnd(iv, i)}
<1>1. Len(iv) \in Nat
  BY NormalizedFacts
<1>2. ASSUME NEW i \in 0..Len(iv)
      PROVE  W[i] = IF i = 0 THEN 0 ELSE W[i - 1] + (iv[i][2] - iv[i][1])
  <2>1. CASE i = 0
    BY <2>1 DEF BelowEnd
  <2>2. CASE i # 0
    <3>1. i \in 1..Len(iv) /\ i - 1 \in 0..Len(iv)
      BY <1>1, <2>2
    <3>2. W[i] = BelowEnd(iv, i) /\ W[i - 1] = BelowEnd(iv, i - 1)
      BY <3>1
    <3> HIDE DEF W
    <3> QED BY <2>2, <3>1, <3>2, BelowEndStep
  <2> QED BY <2>1, <2>2
<1>3. W = [i \in 0..Len(iv) |-> IF i = 0 THEN 0 ELSE W[i - 1] + (iv[i][2] - iv[i][1])]
  BY <1>2
<1> HIDE DEF W
<1>4. S = [i \in 0..Len(iv) |-> IF i = 0 THEN 0 ELSE S[i - 1] + (iv[i][2] - iv[i][1])]
  BY <1>3, Zenon DEF SumOf
<1> HIDE DEF S
<1>5. ASSUME Bad # {} PROVE FALSE
  <2>1. PICK n \in Bad : \A m \in Bad : n <= m
    <3>1. Bad \in SUBSET Nat
      OBVIOUS
    <3> HIDE DEF Bad
    <3> QED BY <1>5, <3>1, LeastNumber
  <2>2. n \in 0..Len(iv) /\ S[n] # BelowEnd(iv, n)
    BY <2>1
  <2>3. n # 0
    BY <1>4, <2>2 DEF BelowEnd
  <2>4. n \in 1..Len(iv) /\ n - 1 \in 0..Len(iv) /\ n - 1 < n /\ n \in Nat
    BY <1>1, <2>2, <2>3
  <2>5. S[n - 1] = BelowEnd(iv, n - 1)
    <3>1. n - 1 \in Bad => n <= n - 1
      BY <2>1
    <3>2. n - 1 \notin Bad
      <4> HIDE DEF Bad
      <4> QED BY <2>4, <3>1
    <3> QED BY <2>4, <3>2
  <2>6. S[n] = S[n - 1] + (iv[n][2] - iv[n][1])
    BY <1>4, <2>2, <2>3
  <2> QED BY <2>2, <2>4, <2>5, <2>6, BelowEndStep
<1>6. Len(iv) \in 0..Len(iv)
  BY <1>1
<1>7. S[Len(iv)] = BelowEnd(iv, Len(iv))
  BY <1>5, <1>6
<1>8. TotalBytes(iv) = S[Len(iv)]
  BY Zenon DEF TotalBytes, SumOf, S
<1> QED BY <1>7, <1>8

(* The property's own count goes byte by byte.                             *)
CountOf(iv) ==
  LET Count[b \in 0..FileSize] ==
        (IF b \in Covered(iv) THEN 1 ELSE 0) + (IF b = 0 THEN 0 ELSE Count[b - 1])
  IN  Count

LEMMA CountFact ==
  ASSUME NEW iv, NormalizedList(iv)
  PROVE  CountOf(iv)[FileSize] = CountBelow(iv, FileSize + 1)
<1> DEFINE W == [b \in 0..FileSize |-> CountBelow(iv, b + 1)]
           K == CountOf(iv)
           One(b) == IF b \in Covered(iv) THEN 1 ELSE 0
           Bad == {b \in 0..FileSize : K[b] # CountBelow(iv, b + 1)}
<1>1. FileSize \in Nat
  BY FileSizeNat
<1>2. \A b \in 0..FileSize : CountBelow(iv, b + 1) = One(b) + CountBelow(iv, b)
  BY OneMoreByte
<1>3. CountBelow(iv, 0) = 0
  BY NothingBelowZero
<1>4. ASSUME NEW b \in 0..FileSize
      PROVE  W[b] = One(b) + (IF b = 0 THEN 0 ELSE W[b - 1])
  <2> HIDE DEF One
  <2>1. CASE b = 0
    BY <1>2, <1>3, <2>1
  <2>2. CASE b # 0
    <3>1. b - 1 \in 0..FileSize /\ b - 1 + 1 = b
      BY <1>1, <2>2
    <3>2. W[b] = CountBelow(iv, b + 1) /\ W[b - 1] = CountBelow(iv, b)
      BY <3>1
    <3> HIDE DEF W
    <3> QED BY <1>2, <2>2, <3>2
  <2> QED BY <2>1, <2>2
<1>5. W = [b \in 0..FileSize |-> One(b) + (IF b = 0 THEN 0 ELSE W[b - 1])]
  <2> HIDE DEF One
  <2> QED BY <1>4
<1> HIDE DEF W
<1>6. K = [b \in 0..FileSize |-> One(b) + (IF b = 0 THEN 0 ELSE K[b - 1])]
  BY <1>5, Zenon DEF CountOf
<1> HIDE DEF K, One
<1>7. ASSUME Bad # {} PROVE FALSE
  <2>1. PICK n \in Bad : \A m \in Bad : n <= m
    <3>1. Bad \in SUBSET Nat
      OBVIOUS
    <3> HIDE DEF Bad
    <3> QED BY <1>7, <3>1, LeastNumber
  <2>2. n \in 0..FileSize /\ K[n] # CountBelow(iv, n + 1)
    BY <2>1
  <2>3. K[n] = One(n) + (IF n = 0 THEN 0 ELSE K[n - 1])
    BY <1>6, <2>2
  <2>4. n # 0
    BY <1>2, <1>3, <2>2, <2>3
  <2>5. n - 1 \in 0..FileSize /\ n - 1 + 1 = n /\ n - 1 < n /\ n \in Nat
    BY <1>1, <2>2, <2>4
  <2>6. K[n - 1] = CountBelow(iv, n)
    <3>1. n - 1 \in Bad => n <= n - 1
      BY <2>1
    <3>2. n - 1 \notin Bad
      <4> HIDE DEF Bad
      <4> QED BY <2>5, <3>1
    <3>3. K[n - 1] = CountBelow(iv, n - 1 + 1)
      BY <2>5, <3>2
    <3> QED BY <2>5, <3>3
  <2> QED BY <1>2, <2>2, <2>3, <2>4, <2>6
<1>8. FileSize \in 0..FileSize
  BY <1>1
<1>9. K[FileSize] = CountBelow(iv, FileSize + 1)
  BY <1>7, <1>8
<1> QED BY <1>9 DEF K

LEMMA TotalIsCount ==
  ASSUME NEW iv, NormalizedList(iv)
  PROVE  TotalBytes(iv) = CountOf(iv)[FileSize]
<1>1. /\ Len(iv) \in Nat /\ FileSize \in Nat
      /\ \A k \in 1..Len(iv) : /\ iv[k][1] \in Nat /\ iv[k][2] \in Nat
                               /\ iv[k][1] < iv[k][2] /\ iv[k][2] <= FileSize
      /\ \A k, j \in 1..Len(iv) : k < j => iv[k][2] < iv[j][1]
  BY NormalizedFacts, FileSizeNat
<1>2. BelowEnd(iv, Len(iv)) = CountBelow(iv, FileSize + 1)
  <2>1. CASE Len(iv) = 0
    <3>1. Below(iv, FileSize + 1) = {}
      BY <2>1 DEF Below, Covered
    <3> QED BY <2>1, <3>1, FS_EmptySet DEF BelowEnd, CountBelow
  <2>2. CASE Len(iv) # 0
    <3> DEFINE last == iv[Len(iv)][2]
    <3>1. Len(iv) \in 1..Len(iv) /\ last \in Nat /\ last <= FileSize
      BY <1>1, <2>2
    <3>2. ASSUME NEW b \in Covered(iv) PROVE b < last /\ b < FileSize + 1
      <4>1. b \in Nat
        BY <1>1 DEF Covered
      <4>2. PICK k \in 1..Len(iv) : iv[k][1] <= b /\ b < iv[k][2]
        BY DEF Covered
      <4>3. k = Len(iv) \/ iv[k][2] < iv[Len(iv)][1]
        BY <1>1, <3>1, <4>2
      <4>4. iv[k][2] \in Nat /\ iv[Len(iv)][1] \in Nat /\ iv[Len(iv)][1] < iv[Len(iv)][2]
        BY <1>1, <3>1, <4>2
      <4>5. CASE k = Len(iv)
        BY <1>1, <3>1, <4>1, <4>2, <4>5
      <4>6. CASE iv[k][2] < iv[Len(iv)][1]
        BY <1>1, <3>1, <4>1, <4>2, <4>4, <4>6
      <4> QED BY <4>3, <4>5, <4>6
    <3>3. Below(iv, FileSize + 1) = Below(iv, last)
      BY <3>2 DEF Below
    <3> QED BY <2>2, <3>3 DEF BelowEnd, CountBelow
  <2> QED BY <2>1, <2>2
<1> QED BY <1>2, TotalBytesFact, CountFact

(* A list that is flushed and read back after a restart is the same list,  *)
(* for files of any size, and total_bytes is the number of its bytes.      *)
THEOREM RestartsKeepTheList == Spec => []PersistRoundTrip
<1>1. Normalized => PersistRoundTrip
  <2> SUFFICES ASSUME Normalized PROVE PersistRoundTrip
    OBVIOUS
  <2>1. NormalizedList(intervals) /\ intervals \in Seq(Pair)
    BY DEF Normalized, NormalizedList, Pair
  <2>2. FromIntervals(DecodeRangesBlob(EncodeRangesBlob(intervals))) = intervals
    BY <2>1, BlobRoundTrip, FromIntervalsFact
  <2>3. TotalBytes(intervals) = CountOf(intervals)[FileSize]
    BY <2>1, TotalIsCount
  <2> QED BY <2>2, <2>3, Zenon DEF PersistRoundTrip, CountOf
<1> QED BY <1>1, ListStaysNormalized, PTL
=============================================================================
