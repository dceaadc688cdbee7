------------------------- MODULE DownloaderProofs -------------------------
(***************************************************************************)
(* Theorems about Downloader, for any window, chunk size, number of        *)
(* workers, permits, retries and link heals.                               *)
(***************************************************************************)
EXTENDS Downloader, FiniteSetTheorems, WellFoundedInduction, NaturalsInduction, TLAPS

Pcs == {"top", "pop"} \cup AwaitPc \cup EndPc
Slices == {s \in (0..Window) \X (0..Window) : s[1] <= s[2]}
Workings == [pc : Pcs, chunk : Slices, pos : Nat, retries : Nat, seen : Nat]

(***************************************************************************)
(* Where a block is: q the queue, ch the chunk of each worker, st what is  *)
(* over, wt what was missing.  Slices, chunks and st are disjoint, and     *)
(* together they are wt.                                                   *)
(***************************************************************************)
OneSlice(q) ==
  \A b \in Blocks : \A i, j \in 1..Len(q) :
    b \in Span(q[i]) /\ b \in Span(q[j]) => i = j
OneChunk(ch) ==
  \A b \in Blocks : \A v, w \in Workers :
    b \in Span(ch[v]) /\ b \in Span(ch[w]) => v = w
SliceOrChunk(q, ch) ==
  \A b \in Blocks : \A i \in 1..Len(q) : \A w \in Workers :
    ~(b \in Span(q[i]) /\ b \in Span(ch[w]))
NotAgain(q, ch, st) ==
  \A b \in st : /\ \A i \in 1..Len(q) : b \notin Span(q[i])
                /\ \A w \in Workers : b \notin Span(ch[w])
Together(q, ch, st, wt) ==
  \A b \in Blocks :
    b \in wt <=> \/ b \in st
                 \/ \E i \in 1..Len(q) : b \in Span(q[i])
                 \/ \E w \in Workers : b \in Span(ch[w])
Partition(q, ch, st, wt) ==
  /\ OneSlice(q) /\ OneChunk(ch) /\ SliceOrChunk(q, ch)
  /\ NotAgain(q, ch, st) /\ Together(q, ch, st, wt)

Chunks == [w \in Workers |-> wk[w].chunk]

TypeInv ==
  /\ have \subseteq Blocks /\ settled \subseteq Blocks /\ wanted \subseteq Blocks
  /\ queue \in Seq(Slices)
  /\ mult \in Nat
  /\ wk \in [Workers -> Workings]
  /\ pause \in [value : BOOLEAN, version : Nat]
  /\ cancelled \in BOOLEAN

(* Before it starts there is nothing; afterwards every block is somewhere. *)
PartInv ==
  /\ run = "init" => /\ queue = <<>> /\ settled = {}
                     /\ \A w \in Workers : wk[w] = Idle
  /\ run # "init" => Partition(queue, Chunks, settled, wanted)

(* A worker between two chunks has none, one that left without being       *)
(* cancelled neither; what a body has brought is on disk.                  *)
WorkInv ==
  \A w \in Workers :
    /\ wk[w].pc \in {"top", "paused", "pop"} => wk[w].chunk = << 0, 0 >>
    /\ wk[w].pc = "ok" /\ ~cancelled => wk[w].chunk = << 0, 0 >>
    /\ wk[w].pc = "body" => /\ wk[w].chunk[1] <= wk[w].pos /\ wk[w].pos <= wk[w].chunk[2]
                            /\ wk[w].chunk[1]..(wk[w].pos - 1) \subseteq have

(* The last worker that leaves has found the queue empty: whoever puts a   *)
(* slice back stays.                                                       *)
LeaveInv ==
  /\ (\A w \in Workers : wk[w].pc = "ok") /\ ~cancelled => queue = <<>>
  /\ run # "init" => Blocks \ wanted \subseteq have
  /\ ~ShortBodies => settled \subseteq have
  /\ ~ShortBodies => OkMeansComplete

DownInv == TypeInv /\ PartInv /\ WorkInv /\ LeaveInv

-----------------------------------------------------------------------------
(* A set of natural numbers has a least one.                               *)
LEMMA LeastNumber ==
  ASSUME NEW S \in SUBSET Nat, S # {}
  PROVE  \E n \in S : \A m \in S : n <= m
<1>1. IsWellFoundedOn(OpToRel(<, Nat), Nat)
  BY NatLessThanWellFounded
<1>2. PICK n \in S : \A m \in S : ~(<< m, n >> \in OpToRel(<, Nat))
  BY <1>1, WFMin
<1>3. ASSUME NEW m \in S PROVE n <= m
  <2>1. n \in Nat /\ m \in Nat
    OBVIOUS
  <2>2. ~(m < n)
    BY <1>2, <2>1 DEF OpToRel
  <2> QED BY <2>1, <2>2
<1> QED BY <1>3

(* Counting from below numbers the elements of a finite set one by one.    *)
LEMMA Ranking ==
  ASSUME NEW E \in SUBSET Nat, IsFiniteSet(E)
  PROVE  /\ Cardinality(E) \in Nat
         /\ \A n \in 1..Cardinality(E) :
              \E b \in E : Cardinality({c \in E : c < b}) = n - 1
         /\ \A b \in E : Cardinality({c \in E : c < b}) + 1 \in 1..Cardinality(E)
         /\ \A a, b \in E :
              Cardinality({c \in E : c < a}) = Cardinality({c \in E : c < b}) => a = b
<1> DEFINE Below(b) == {c \in E : c < b}
           rank == [b \in E |-> Cardinality(Below(b)) + 1]
           N == Cardinality(E)
<1>1. N \in Nat
  BY FS_CardinalityType
<1>2. ASSUME NEW b \in E
      PROVE  /\ IsFiniteSet(Below(b)) /\ Cardinality(Below(b)) \in Nat
             /\ Cardinality(Below(b)) < N
  <2>1. Below(b) \in SUBSET E /\ b \notin Below(b)
    OBVIOUS
  <2>2. /\ IsFiniteSet(Below(b)) /\ Cardinality(Below(b)) <= N
        /\ N = Cardinality(Below(b)) => E = Below(b)
    BY <2>1, FS_Subset
  <2>3. Cardinality(Below(b)) \in Nat
    BY <2>2, FS_CardinalityType
  <2> HIDE DEF Below, N
  <2> QED BY <1>1, <2>1, <2>2, <2>3
<1>3. ASSUME NEW a \in E, NEW b \in E, a < b
      PROVE  Cardinality(Below(a)) < Cardinality(Below(b))
  <2>1. Below(a) \in SUBSET Below(b) /\ a \in Below(b) /\ a \notin Below(a)
    <3>1. \A c \in E : c \in Nat
      OBVIOUS
    <3>2. (\A c \in E : c < a => c < b) /\ ~(a < a)
      BY <3>1, <1>3
    <3> QED BY <3>2, <1>3, Zenon
  <2>2. /\ Cardinality(Below(a)) <= Cardinality(Below(b))
        /\ Cardinality(Below(b)) = Cardinality(Below(a)) => Below(b) = Below(a)
    BY <2>1, <1>2, FS_Subset
  <2>3. Cardinality(Below(a)) \in Nat /\ Cardinality(Below(b)) \in Nat
    BY <1>2
  <2> HIDE DEF Below
  <2> QED BY <2>1, <2>2, <2>3
<1>4. ASSUME NEW a \in E, NEW b \in E, Cardinality(Below(a)) = Cardinality(Below(b))
      PROVE  a = b
  <2>1. a \in Nat /\ b \in Nat /\ Cardinality(Below(a)) \in Nat /\ Cardinality(Below(b)) \in Nat
    BY <1>2
  <2>2. ~(a < b) /\ ~(b < a)
    <3> HIDE DEF Below
    <3> QED BY <1>3, <1>4, <2>1
  <2> QED BY <2>1, <2>2
<1>5. rank \in [E -> 1..N]
  <2>1. \A b \in E : Cardinality(Below(b)) + 1 \in 1..N
    <3> HIDE DEF Below, N
    <3> QED BY <1>1, <1>2
  <2> QED BY <2>1
<1>6. rank \in Injection(E, 1..N)
  <2>1. \A a, b \in E : rank[a] = rank[b] => a = b
    <3> SUFFICES ASSUME NEW a \in E, NEW b \in E, rank[a] = rank[b] PROVE a = b
      OBVIOUS
    <3>1. Cardinality(Below(a)) + 1 = Cardinality(Below(b)) + 1
      OBVIOUS
    <3>2. Cardinality(Below(a)) \in Nat /\ Cardinality(Below(b)) \in Nat
      BY <1>2
    <3>3. Cardinality(Below(a)) = Cardinality(Below(b))
      <4> HIDE DEF Below, rank
      <4> QED BY <3>1, <3>2
    <3> QED BY <3>3, <1>4
  <2> HIDE DEF rank
  <2> QED BY <2>1, <1>5 DEF Injection, IsInjective
<1>7. rank \in Surjection(E, 1..N)
  <2>1. IsFiniteSet(1..N) /\ Cardinality(1..N) = N
    BY <1>1, FS_Interval
  <2> HIDE DEF rank
  <2> QED BY <2>1, <1>6, FS_Injection
<1>8. \A n \in 1..N : \E b \in E : rank[b] = n
  <2> HIDE DEF rank
  <2> QED BY <1>7 DEF Surjection
<1>9. ASSUME NEW n \in 1..N PROVE \E b \in E : Cardinality(Below(b)) = n - 1
  <2>1. PICK b \in E : rank[b] = n
    BY <1>8
  <2>2. Cardinality(Below(b)) + 1 = n /\ Cardinality(Below(b)) \in Nat /\ n \in Int
    BY <2>1, <1>2, <1>1
  <2>3. Cardinality(Below(b)) = n - 1
    <3> HIDE DEF Below, rank, N
    <3> QED BY <2>2
  <2> QED BY <2>3
<1>10. \A b \in E : Cardinality(Below(b)) + 1 \in 1..N
  <2> HIDE DEF Below, N
  <2> QED BY <1>1, <1>2
<1> QED BY <1>1, <1>4, <1>9, <1>10

(* The gaps of the window, in order: each missing block is in exactly one, *)
(* none on disk is in any.                                                 *)
LEMMA GapsFact ==
  ASSUME NEW disk \in SUBSET Blocks
  PROVE  /\ MissingSlices(disk) \in Seq(Slices)
         /\ OneSlice(MissingSlices(disk))
         /\ \A b \in Blocks : b \notin disk <=>
              \E i \in 1..Len(MissingSlices(disk)) : b \in Span(MissingSlices(disk)[i])
         /\ Blocks \subseteq disk => MissingSlices(disk) = <<>>
<1> DEFINE edges == {b \in Blocks \ disk : b = 0 \/ b - 1 \in disk}
           GapEnd(b) == CHOOSE e \in (b + 1)..Window :
                          /\ Span(<< b, e >>) \cap disk = {}
                          /\ e = Window \/ e \in disk
           Nth(n) == CHOOSE b \in edges : Cardinality({c \in edges : c < b}) = n - 1
           N == Cardinality(edges)
           q == [n \in 1..N |-> << Nth(n), GapEnd(Nth(n)) >>]
<1>1. MissingSlices(disk) = q
  BY DEF MissingSlices
<1>2. Window \in Nat /\ \A b \in Blocks : b \in Nat /\ b < Window
  BY Constants DEF Blocks
<1>3. edges \in SUBSET Nat /\ IsFiniteSet(edges)
  <2>1. IsFiniteSet(Blocks)
    BY <1>2, FS_Interval DEF Blocks
  <2> QED BY <2>1, <1>2, FS_Subset
<1>4. ASSUME NEW b \in edges
      PROVE  /\ GapEnd(b) \in (b + 1)..Window
             /\ \A c \in b..(GapEnd(b) - 1) : c \notin disk
             /\ GapEnd(b) = Window \/ GapEnd(b) \in disk
  <2>1. b \in Nat /\ b < Window /\ b \notin disk
    BY <1>2
  <2> DEFINE S == {e \in (b + 1)..Window : e = Window \/ e \in disk}
  <2>2. S \in SUBSET Nat /\ Window \in S
    BY <2>1, <1>2
  <2>3. PICK e \in S : \A m \in S : e <= m
    BY <2>2, LeastNumber
  <2>4. e \in (b + 1)..Window /\ (e = Window \/ e \in disk)
    OBVIOUS
  <2>5. Span(<< b, e >>) \cap disk = {}
    <3>1. SUFFICES ASSUME NEW c \in b..(e - 1), c \in disk PROVE FALSE
      BY DEF Span
    <3>2. c # b
      BY <3>1, <2>1
    <3>3. c \in S
      BY <3>1, <3>2, <2>1, <2>4, <1>2
    <3> QED BY <3>3, <2>3, <2>4, <2>1, <1>2
  <2>6. /\ GapEnd(b) \in (b + 1)..Window
        /\ Span(<< b, GapEnd(b) >>) \cap disk = {}
        /\ GapEnd(b) = Window \/ GapEnd(b) \in disk
    BY <2>4, <2>5, Zenon
  <2> HIDE DEF GapEnd
  <2> QED BY <2>6 DEF Span
<1>5. /\ N \in Nat
      /\ \A n \in 1..N : Nth(n) \in edges /\ Cardinality({c \in edges : c < Nth(n)}) = n - 1
  <2> HIDE DEF edges
  <2>1. N \in Nat /\ \A n \in 1..N : \E b \in edges : Cardinality({c \in edges : c < b}) = n - 1
    BY <1>3, Ranking
  <2> QED BY <2>1
<1>6. \A n, m \in 1..N : Nth(n) = Nth(m) => n = m
  <2> SUFFICES ASSUME NEW n \in 1..N, NEW m \in 1..N, Nth(n) = Nth(m) PROVE n = m
    OBVIOUS
  <2>1. n - 1 = m - 1
    <3> HIDE DEF edges, Nth, N
    <3> QED BY <1>5, Zenon
  <2>2. n \in Int /\ m \in Int
    BY <1>5
  <2> HIDE DEF N, Nth
  <2> QED BY <2>1, <2>2
<1>7. \A b \in edges : \E n \in 1..N : Nth(n) = b
  <2> SUFFICES ASSUME NEW b \in edges PROVE \E n \in 1..N : Nth(n) = b
    OBVIOUS
  <2> DEFINE R(x) == Cardinality({c \in edges : c < x})
  <2>1. /\ R(b) + 1 \in 1..N
        /\ \A x, y \in edges : R(x) = R(y) => x = y
    <3> HIDE DEF edges
    <3> QED BY <1>3, Ranking
  <2> DEFINE n == R(b) + 1
  <2>2. Nth(n) \in edges /\ R(Nth(n)) = n - 1
    BY <2>1, <1>5
  <2>3. IsFiniteSet({c \in edges : c < b})
    <3>1. {c \in edges : c < b} \in SUBSET edges
      OBVIOUS
    <3> QED BY <3>1, <1>3, FS_Subset
  <2>4. R(b) \in Nat
    BY <2>3, FS_CardinalityType
  <2>5. n - 1 = R(b)
    <3> HIDE DEF R
    <3> QED BY <2>4
  <2> HIDE DEF R, Nth, edges, N
  <2>6. Nth(n) = b
    BY <2>1, <2>2, <2>5
  <2> QED BY <2>1, <2>6
<1> HIDE DEF Nth, GapEnd, N
<1>8. \A n \in 1..N : /\ Nth(n) \in Nat /\ Nth(n) < Window /\ Nth(n) \notin disk
                      /\ Nth(n) = 0 \/ Nth(n) - 1 \in disk
                      /\ GapEnd(Nth(n)) \in (Nth(n) + 1)..Window
                      /\ \A c \in Nth(n)..(GapEnd(Nth(n)) - 1) : c \notin disk
                      /\ GapEnd(Nth(n)) = Window \/ GapEnd(Nth(n)) \in disk
  BY <1>2, <1>4, <1>5
<1>9. q \in Seq(Slices) /\ Len(q) = N /\ \A n \in 1..N : q[n] = << Nth(n), GapEnd(Nth(n)) >>
  <2>1. ASSUME NEW n \in 1..N PROVE << Nth(n), GapEnd(Nth(n)) >> \in Slices
    BY <1>2, <1>8 DEF Slices
  <2>2. q \in [1..N -> Slices]
    BY <2>1
  <2> QED BY <2>2, <1>5
<1> HIDE DEF q
<1>10. OneSlice(q)
  <2> SUFFICES ASSUME NEW b \in Blocks, NEW i \in 1..N, NEW j \in 1..N,
                      b \in Span(q[i]), b \in Span(q[j]) PROVE i = j
    BY <1>9 DEF OneSlice
  <2>1. /\ b \in Nth(i)..(GapEnd(Nth(i)) - 1) /\ b \in Nth(j)..(GapEnd(Nth(j)) - 1)
    BY <1>9 DEF Span
  <2>2. ASSUME NEW m \in 1..N, NEW n \in 1..N, Nth(m) < Nth(n),
               b \in Nth(m)..(GapEnd(Nth(m)) - 1), b \in Nth(n)..(GapEnd(Nth(n)) - 1)
        PROVE  FALSE
    <3>1. /\ Nth(m) \in Nat /\ Nth(n) \in Nat /\ GapEnd(Nth(m)) \in Int /\ b \in Int
          /\ Nth(n) = 0 \/ Nth(n) - 1 \in disk
          /\ \A c \in Nth(m)..(GapEnd(Nth(m)) - 1) : c \notin disk
      BY <1>2, <1>8
    <3>2. Nth(n) - 1 \in disk
      BY <3>1, <2>2
    <3>3. Nth(n) - 1 \in Nth(m)..(GapEnd(Nth(m)) - 1)
      BY <3>1, <2>2
    <3> QED BY <3>1, <3>2, <3>3
  <2>3. ~(Nth(i) < Nth(j)) /\ ~(Nth(j) < Nth(i)) /\ Nth(i) \in Nat /\ Nth(j) \in Nat
    BY <2>1, <2>2, <1>8
  <2> QED BY <2>3, <1>6
<1>11. ASSUME NEW b \in Blocks, NEW i \in 1..N, b \in Span(q[i]) PROVE b \notin disk
  BY <1>11, <1>8, <1>9 DEF Span
<1>12. ASSUME NEW b \in Blocks, b \notin disk PROVE \E i \in 1..N : b \in Span(q[i])
  <2>1. b \in Nat /\ b < Window
    BY <1>2
  <2> DEFINE S == {n \in 0..b : n = b \/ (b - n) - 1 \in disk}
  <2>2. S \in SUBSET Nat /\ b \in S
    BY <2>1
  <2>3. PICK n \in S : \A m \in S : n <= m
    BY <2>2, LeastNumber
  <2> DEFINE e == b - n
  <2>4. n \in 0..b /\ e \in Nat /\ e <= b /\ e < Window
    BY <2>1, <1>2
  <2>5. e = 0 \/ e - 1 \in disk
    BY <2>3, <2>4, <2>1
  <2>6. \A c \in e..b : c \notin disk
    <3>1. SUFFICES ASSUME NEW c \in e..b, c \in disk PROVE FALSE
      OBVIOUS
    <3>2. c # b
      BY <3>1, <1>12
    <3>3. b - (c + 1) \in S /\ b - (c + 1) < n
      <4>1. b - (c + 1) \in 0..b /\ (b - (b - (c + 1))) - 1 = c /\ b - (c + 1) < n
        BY <3>1, <3>2, <2>4, <2>1
      <4> QED BY <4>1, <3>1
    <3> HIDE DEF S
    <3> QED BY <3>3, <2>3, <2>4, <3>1, <2>1
  <2>7. e \in edges
    BY <2>4, <2>5, <2>6, <2>1, <1>2 DEF Blocks
  <2>8. PICK i \in 1..N : Nth(i) = e
    BY <2>7, <1>7
  <2>9. b < GapEnd(e)
    <3>1. GapEnd(e) \in (e + 1)..Window /\ (GapEnd(e) = Window \/ GapEnd(e) \in disk)
      BY <2>8, <1>8
    <3> HIDE DEF e, S
    <3> QED BY <3>1, <2>4, <2>6, <2>1, <1>2
  <2>10. b \in Span(q[i])
    <3>1. q[i] = << e, GapEnd(e) >> /\ GapEnd(e) \in Int
      BY <2>8, <1>8, <1>9
    <3> HIDE DEF e, S
    <3> QED BY <3>1, <2>9, <2>4, <2>1 DEF Span
  <2> QED BY <2>10
<1>13. Blocks \subseteq disk => q = <<>>
  <2> SUFFICES ASSUME Blocks \subseteq disk PROVE q = <<>>
    OBVIOUS
  <2>1. edges = {}
    OBVIOUS
  <2>2. N = 0
    BY <2>1, FS_EmptySet DEF N
  <2> QED BY <2>2, <1>9
<1> QED BY <1>1, <1>9, <1>10, <1>11, <1>12, <1>13

-----------------------------------------------------------------------------
LEMMA SpanIn ==
  ASSUME NEW s \in Slices
  PROVE  /\ s[1] \in Nat /\ s[2] \in Nat /\ s[1] <= s[2] /\ s[2] <= Window
         /\ \A b \in Blocks : b \in Nat /\ b < Window
         /\ \A b \in Blocks : b \in Span(s) <=> s[1] <= b /\ b < s[2]
         /\ Span(s) \subseteq Blocks
<1>1. Window \in Nat
  BY Constants
<1> QED BY <1>1 DEF Slices, Span, Blocks

LEMMA NothingSpanned == << 0, 0 >> \in Slices /\ \A b \in Blocks : b \notin Span(<< 0, 0 >>)
BY Constants DEF Slices, Span, Blocks

(* The window when the run begins.                                         *)
LEMMA PartitionStarts ==
  ASSUME NEW disk \in SUBSET Blocks, NEW ch, ch = [w \in Workers |-> << 0, 0 >>]
  PROVE  Partition(MissingSlices(disk), ch, {}, Blocks \ disk)
<1> DEFINE q == MissingSlices(disk)
<1>1. OneSlice(q) /\ \A b \in Blocks : b \notin disk <=> \E i \in 1..Len(q) : b \in Span(q[i])
  BY GapsFact
<1>2. \A w \in Workers : \A b \in Blocks : b \notin Span(ch[w])
  BY NothingSpanned
<1> HIDE DEF q
<1>3. OneChunk(ch) /\ SliceOrChunk(q, ch) /\ NotAgain(q, ch, {})
  BY <1>2 DEF OneChunk, SliceOrChunk, NotAgain
<1>4. Together(q, ch, {}, Blocks \ disk)
  BY <1>1, <1>2 DEF Together
<1>5. Partition(q, ch, {}, Blocks \ disk)
  BY <1>1, <1>3, <1>4 DEF Partition
<1> QED BY <1>5 DEF q

(* What moves between the queue and worker w: each new slice is a piece of *)
(* an old one, numbered by `from`, or of the chunk of w, and nothing is    *)
(* dropped or doubled.                                                     *)
Moves(q, ch, q2, ch2, w, from) ==
  /\ \A v \in Workers \ {w} : ch2[v] = ch[v]
  /\ \A i, j \in 1..Len(q2) : from[i] = from[j] => i = j
  /\ \A i \in 1..Len(q2) : \A b \in Blocks : b \in Span(q2[i]) =>
       \/ from[i] = 0 /\ b \in Span(ch[w])
       \/ from[i] # 0 /\ b \in Span(q[from[i]])
  /\ \A b \in Blocks : b \in Span(ch2[w]) =>
       /\ b \in Span(ch[w]) \/ \E i \in 1..Len(q) : b \in Span(q[i])
       /\ \A i \in 1..Len(q2) : b \notin Span(q2[i])
  /\ \A b \in Blocks : b \in Span(ch[w]) =>
       b \in Span(ch2[w]) \/ \E i \in 1..Len(q2) : b \in Span(q2[i])
  /\ \A i \in 1..Len(q) : \A b \in Blocks : b \in Span(q[i]) =>
       b \in Span(ch2[w]) \/ \E j \in 1..Len(q2) : b \in Span(q2[j])

LEMMA PartitionMoves ==
  ASSUME NEW q \in Seq(Slices), NEW ch \in [Workers -> Slices], NEW st \in SUBSET Blocks, NEW wt,
         Partition(q, ch, st, wt),
         NEW q2 \in Seq(Slices), NEW ch2 \in [Workers -> Slices], NEW w \in Workers,
         NEW from \in [1..Len(q2) -> 0..Len(q)], Moves(q, ch, q2, ch2, w, from)
  PROVE  Partition(q2, ch2, st, wt)
<1>1. OneSlice(q) /\ OneChunk(ch) /\ SliceOrChunk(q, ch) /\ NotAgain(q, ch, st)
      /\ Together(q, ch, st, wt)
  BY DEF Partition
<1>2. Len(q) \in Nat /\ Len(q2) \in Nat
  OBVIOUS
<1>3. OneSlice(q2)
  <2>0. \A i, j \in 1..Len(q2) : from[i] = from[j] => i = j
    BY DEF Moves
  <2> SUFFICES ASSUME NEW b \in Blocks, NEW i \in 1..Len(q2), NEW j \in 1..Len(q2),
                      b \in Span(q2[i]), b \in Span(q2[j]) PROVE from[i] = from[j]
    BY <2>0 DEF OneSlice
  <2>1. from[i] \in 0..Len(q) /\ from[j] \in 0..Len(q)
    OBVIOUS
  <2> QED BY <1>1, <1>2, <2>1 DEF OneSlice, SliceOrChunk, Moves
<1>4. ASSUME NEW b \in Blocks, NEW i \in 1..Len(q2), b \in Span(q2[i])
      PROVE  b \in Span(ch[w]) \/ \E j \in 1..Len(q) : b \in Span(q[j])
  <2>1. from[i] = 0 \/ from[i] \in 1..Len(q)
    BY <1>2
  <2> QED BY <1>4, <2>1 DEF Moves
<1>5. OneChunk(ch2)
  <2>1. ASSUME NEW b \in Blocks, NEW v \in Workers \ {w}, b \in Span(ch2[v]), b \in Span(ch2[w])
        PROVE  FALSE
    BY <2>1, <1>1 DEF OneChunk, SliceOrChunk, Moves
  <2> QED BY <2>1, <1>1 DEF OneChunk, Moves
<1>6. SliceOrChunk(q2, ch2)
  <2> SUFFICES ASSUME NEW b \in Blocks, NEW i \in 1..Len(q2), NEW v \in Workers,
                      b \in Span(q2[i]), b \in Span(ch2[v]) PROVE FALSE
    BY DEF SliceOrChunk
  <2>1. v # w
    BY DEF Moves
  <2>2. b \in Span(ch[v])
    BY <2>1 DEF Moves
  <2> QED BY <1>1, <1>4, <2>1, <2>2 DEF OneChunk, SliceOrChunk
<1>7. NotAgain(q2, ch2, st)
  <2> SUFFICES ASSUME NEW b \in st
               PROVE  /\ \A i \in 1..Len(q2) : b \notin Span(q2[i])
                      /\ \A v \in Workers : b \notin Span(ch2[v])
    BY DEF NotAgain
  <2>1. b \in Blocks /\ (\A i \in 1..Len(q) : b \notin Span(q[i]))
        /\ \A v \in Workers : b \notin Span(ch[v])
    BY <1>1 DEF NotAgain
  <2>2. \A i \in 1..Len(q2) : b \notin Span(q2[i])
    BY <1>4, <2>1
  <2>3. ASSUME NEW v \in Workers PROVE b \notin Span(ch2[v])
    <3>1. CASE v = w BY <3>1, <2>1 DEF Moves
    <3>2. CASE v # w BY <3>2, <2>1 DEF Moves
    <3> QED BY <3>1, <3>2
  <2> QED BY <2>2, <2>3
<1>8. Together(q2, ch2, st, wt)
  <2> SUFFICES ASSUME NEW b \in Blocks
               PROVE  b \in wt <=> \/ b \in st
                                   \/ \E i \in 1..Len(q2) : b \in Span(q2[i])
                                   \/ \E v \in Workers : b \in Span(ch2[v])
    BY DEF Together
  <2>1. b \in wt <=> \/ b \in st
                     \/ \E i \in 1..Len(q) : b \in Span(q[i])
                     \/ \E v \in Workers : b \in Span(ch[v])
    BY <1>1 DEF Together
  <2>2. (\E v \in Workers : b \in Span(ch[v])) =>
          \/ \E v \in Workers : b \in Span(ch2[v])
          \/ \E i \in 1..Len(q2) : b \in Span(q2[i])
    BY DEF Moves
  <2>3. (\E v \in Workers : b \in Span(ch2[v])) =>
          \/ \E v \in Workers : b \in Span(ch[v])
          \/ \E i \in 1..Len(q) : b \in Span(q[i])
    BY DEF Moves
  <2>4. (\E i \in 1..Len(q) : b \in Span(q[i])) =>
          \/ \E v \in Workers : b \in Span(ch2[v])
          \/ \E i \in 1..Len(q2) : b \in Span(q2[i])
    BY DEF Moves
  <2>5. (\E i \in 1..Len(q2) : b \in Span(q2[i])) =>
          \/ \E v \in Workers : b \in Span(ch[v])
          \/ \E i \in 1..Len(q) : b \in Span(q[i])
    BY <1>4
  <2> QED BY <2>1, <2>2, <2>3, <2>4, <2>5
<1> QED BY <1>3, <1>5, <1>6, <1>7, <1>8 DEF Partition

(* A chunk is cut off the first slice.                                     *)
AfterCut(q, to) ==
  IF to < q[1][2] THEN << << to, q[1][2] >> >> \o Tail(q) ELSE Tail(q)

LEMMA PartitionTakes ==
  ASSUME NEW q \in Seq(Slices), NEW ch \in [Workers -> Slices], NEW st \in SUBSET Blocks, NEW wt,
         Partition(q, ch, st, wt),
         NEW w \in Workers, q # <<>>, ch[w] = << 0, 0 >>,
         NEW to \in Nat, q[1][1] <= to, to <= q[1][2],
         NEW q2, q2 = AfterCut(q, to),
         NEW ch2, ch2 = [ch EXCEPT ![w] = << q[1][1], to >>]
  PROVE  /\ q2 \in Seq(Slices) /\ ch2 \in [Workers -> Slices]
         /\ Partition(q2, ch2, st, wt)
<1>1. Len(q) \in Nat /\ Len(q) >= 1 /\ q[1] \in Slices
  OBVIOUS
<1>2. /\ q[1][1] \in Nat /\ q[1][2] \in Nat /\ q[1][1] <= q[1][2] /\ q[1][2] <= Window
      /\ \A b \in Blocks : b \in Nat
      /\ \A b \in Blocks : b \in Span(q[1]) <=> q[1][1] <= b /\ b < q[1][2]
  BY <1>1, SpanIn
<1> DEFINE rest == << to, q[1][2] >>
           cut == << q[1][1], to >>
<1>3. rest \in Slices /\ cut \in Slices
  BY <1>2, Constants DEF Slices
<1>4. /\ \A b \in Blocks : b \in Span(rest) <=> to <= b /\ b < q[1][2]
      /\ \A b \in Blocks : b \in Span(cut) <=> q[1][1] <= b /\ b < to
  <2>1. rest[1] = to /\ rest[2] = q[1][2] /\ cut[1] = q[1][1] /\ cut[2] = to
    OBVIOUS
  <2> HIDE DEF rest, cut
  <2> QED BY <1>3, <2>1, SpanIn
<1>5. /\ ch2 \in [Workers -> Slices] /\ ch2[w] = cut /\ \A v \in Workers \ {w} : ch2[v] = ch[v]
  BY <1>3
<1>6. /\ Tail(q) \in Seq(Slices) /\ Len(Tail(q)) = Len(q) - 1
      /\ \A i \in 1..(Len(q) - 1) : Tail(q)[i] = q[i + 1]
  OBVIOUS
<1> HIDE DEF rest, cut
<1>7. \A b \in Blocks : b \in Span(q[1]) <=> b \in Span(cut) \/ b \in Span(rest)
  BY <1>2, <1>4
<1>8. \A b \in Blocks : ~(b \in Span(cut) /\ b \in Span(rest))
  BY <1>2, <1>4
<1>9. \A b \in Blocks : b \notin Span(ch[w])
  BY NothingSpanned
<1>10. ASSUME NEW b \in Blocks, NEW i \in 1..Len(q), b \in Span(q[1]), b \in Span(q[i])
       PROVE  i = 1
  BY <1>10, <1>1 DEF Partition, OneSlice
<1>11. CASE to < q[1][2]
  <2>1. q2 = << rest >> \o Tail(q)
    BY <1>11 DEF rest, AfterCut
  <2>2. /\ q2 \in Seq(Slices) /\ Len(q2) = Len(q) /\ q2[1] = rest
        /\ \A i \in 2..Len(q) : q2[i] = q[i]
    <3> DEFINE t == Tail(q)
    <3>1. t \in Seq(Slices) /\ Len(t) = Len(q) - 1 /\ \A i \in 1..(Len(q) - 1) : t[i] = q[i + 1]
      BY <1>6
    <3> HIDE DEF t
    <3>2. q2 = << rest >> \o t
      BY <2>1 DEF t
    <3>3. q2 \in Seq(Slices) /\ Len(q2) = Len(q) /\ q2[1] = rest
      BY <3>1, <3>2, <1>1, <1>3
    <3>4. ASSUME NEW i \in 2..Len(q) PROVE q2[i] = q[i]
      <4>1. i - 1 \in 1..(Len(q) - 1) /\ (i - 1) + 1 = i
        BY <1>1
      <4>2. q2[i] = t[i - 1]
        BY <3>1, <3>2, <1>1, <1>3, <4>1
      <4> QED BY <3>1, <4>1, <4>2
    <3> QED BY <3>3, <3>4
  <2> DEFINE from == [i \in 1..Len(q2) |-> i]
  <2>3. from \in [1..Len(q2) -> 0..Len(q)] /\ \A i \in 1..Len(q2) : from[i] = i /\ from[i] # 0
    BY <2>2, <1>1
  <2>4. \A i, j \in 1..Len(q2) : from[i] = from[j] => i = j
    OBVIOUS
  <2> HIDE DEF from
  <2>5. \A i \in 1..Len(q2) : \A b \in Blocks : b \in Span(q2[i]) => b \in Span(q[i])
    <3> SUFFICES ASSUME NEW i \in 1..Len(q2), NEW b \in Blocks, b \in Span(q2[i])
                 PROVE  b \in Span(q[i])
      OBVIOUS
    <3>1. CASE i = 1 BY <3>1, <2>2, <1>7
    <3>2. CASE i # 1
      <4>1. i \in 2..Len(q)
        BY <3>2, <2>2, <1>1
      <4> QED BY <4>1, <2>2
    <3> QED BY <3>1, <3>2
  <2>6. \A b \in Blocks : b \in Span(ch2[w]) => \A i \in 1..Len(q2) : b \notin Span(q2[i])
    <3> SUFFICES ASSUME NEW b \in Blocks, b \in Span(cut), NEW i \in 1..Len(q2), b \in Span(q2[i])
                 PROVE  FALSE
      BY <1>5
    <3>1. b \in Span(q[1]) /\ b \in Span(q[i])
      BY <1>7, <2>5
    <3>2. i = 1
      BY <3>1, <1>10, <2>2
    <3> QED BY <3>2, <2>2, <1>8
  <2>7. \A i \in 1..Len(q) : \A b \in Blocks : b \in Span(q[i]) =>
          b \in Span(ch2[w]) \/ \E j \in 1..Len(q2) : b \in Span(q2[j])
    <3> SUFFICES ASSUME NEW i \in 1..Len(q), NEW b \in Blocks, b \in Span(q[i])
                 PROVE  b \in Span(ch2[w]) \/ b \in Span(q2[i])
      BY <2>2
    <3>1. CASE i = 1 BY <3>1, <1>5, <1>7, <2>2
    <3>2. CASE i # 1 BY <3>2, <2>2, <1>1
    <3> QED BY <3>1, <3>2
  <2>8. \A b \in Blocks : b \in Span(ch2[w]) => \E i \in 1..Len(q) : b \in Span(q[i])
    BY <1>1, <1>5, <1>7
  <2>9. Moves(q, ch, q2, ch2, w, from)
    BY <1>5, <1>9, <2>3, <2>4, <2>5, <2>6, <2>7, <2>8 DEF Moves
  <2> QED BY <1>5, <2>2, <2>3, <2>9, PartitionMoves
<1>12. CASE ~(to < q[1][2])
  <2>1. q2 = Tail(q) /\ to = q[1][2]
    BY <1>12, <1>2 DEF AfterCut
  <2>2. /\ q2 \in Seq(Slices) /\ Len(q2) = Len(q) - 1
        /\ \A i \in 1..(Len(q) - 1) : q2[i] = q[i + 1]
    BY <2>1, <1>6
  <2> DEFINE from == [i \in 1..Len(q2) |-> i + 1]
  <2>3. /\ from \in [1..Len(q2) -> 0..Len(q)]
        /\ \A i \in 1..Len(q2) : from[i] = i + 1 /\ from[i] # 0
    <3>1. \A i \in 1..Len(q2) : i + 1 \in 0..Len(q) /\ i + 1 # 0
      BY <2>2, <1>1
    <3> QED BY <3>1, Zenon
  <2> HIDE DEF from
  <2>4. \A i, j \in 1..Len(q2) : from[i] = from[j] => i = j
    BY <2>2, <2>3, <1>1
  <2>5. \A i \in 1..Len(q2) : \A b \in Blocks : b \in Span(q2[i]) => b \in Span(q[from[i]])
    BY <2>2, <2>3
  <2>6. \A b \in Blocks : b \in Span(ch2[w]) => \A i \in 1..Len(q2) : b \notin Span(q2[i])
    <3> SUFFICES ASSUME NEW b \in Blocks, b \in Span(cut), NEW i \in 1..Len(q2), b \in Span(q2[i])
                 PROVE  FALSE
      BY <1>5
    <3>1. b \in Span(q[1]) /\ b \in Span(q[i + 1]) /\ i + 1 \in 1..Len(q)
      BY <1>7, <2>2, <1>1
    <3>2. i + 1 = 1
      BY <3>1, <1>10
    <3> QED BY <3>2, <2>2, <1>1
  <2>7. \A b \in Blocks : b \in Span(q[1]) <=> b \in Span(ch2[w])
    BY <2>1, <1>2, <1>4, <1>5
  <2>8. \A i \in 1..Len(q) : \A b \in Blocks : b \in Span(q[i]) =>
          b \in Span(ch2[w]) \/ \E j \in 1..Len(q2) : b \in Span(q2[j])
    <3> SUFFICES ASSUME NEW i \in 1..Len(q), NEW b \in Blocks, b \in Span(q[i])
                 PROVE  b \in Span(ch2[w]) \/ \E j \in 1..Len(q2) : b \in Span(q2[j])
      OBVIOUS
    <3>1. CASE i = 1 BY <3>1, <2>7
    <3>2. CASE i # 1
      <4>1. i - 1 \in 1..Len(q2) /\ q2[i - 1] = q[i]
        BY <3>2, <2>2, <1>1
      <4> QED BY <4>1
    <3> QED BY <3>1, <3>2
  <2>9. \A b \in Blocks : b \in Span(ch2[w]) => \E i \in 1..Len(q) : b \in Span(q[i])
    BY <1>1, <2>7
  <2>10. Moves(q, ch, q2, ch2, w, from)
    BY <1>5, <1>9, <2>3, <2>4, <2>5, <2>6, <2>8, <2>9 DEF Moves
  <2> QED BY <1>5, <2>2, <2>3, <2>10, PartitionMoves
<1> QED BY <1>5, <1>11, <1>12

Placed(q, ch, st, wt) ==
  /\ q \in Seq(Slices) /\ ch \in [Workers -> Slices] /\ st \in SUBSET Blocks
  /\ Partition(q, ch, st, wt)
CutOff(q, ch, w, to, q2, ch2) ==
  /\ w \in Workers /\ q # <<>> /\ ch[w] = << 0, 0 >>
  /\ to \in Nat /\ q[1][1] <= to /\ to <= q[1][2]
  /\ q2 = AfterCut(q, to)
  /\ ch2 = [ch EXCEPT ![w] = << q[1][1], to >>]

LEMMA CutPlaced ==
  ASSUME NEW q, NEW ch, NEW st, NEW wt, NEW w, NEW to, NEW q2, NEW ch2,
         Placed(q, ch, st, wt), CutOff(q, ch, w, to, q2, ch2)
  PROVE  Placed(q2, ch2, st, wt)
<1>1. /\ q \in Seq(Slices) /\ ch \in [Workers -> Slices] /\ st \in SUBSET Blocks
      /\ w \in Workers /\ q # <<>> /\ ch[w] = << 0, 0 >>
      /\ to \in Nat /\ q[1][1] <= to /\ to <= q[1][2]
      /\ q2 = AfterCut(q, to)
      /\ ch2 = [ch EXCEPT ![w] = << q[1][1], to >>]
  BY DEF Placed, CutOff
<1>2. Partition(q, ch, st, wt)
  BY DEF Placed
<1>3. q2 \in Seq(Slices)
  BY <1>1, <1>2, PartitionTakes
<1>4. ch2 \in [Workers -> Slices]
  <2>1. q[1] \in Slices
    BY <1>1
  <2>2. q[1][1] \in Nat /\ q[1][2] \in Nat /\ q[1][2] <= Window /\ Window \in Nat
    BY <2>1, SpanIn, Constants
  <2>3. << q[1][1], to >> \in Slices
    BY <1>1, <2>2 DEF Slices
  <2> QED BY <1>1, <2>3
<1>5. Partition(q2, ch2, st, wt)
  BY <1>1, <1>2, PartitionTakes
<1> QED BY <1>1, <1>3, <1>4, <1>5 DEF Placed

(* The end of a chunk goes back to the front of the queue.                 *)
PutBack(q, start, end) == << << start, end >> >> \o q

LEMMA PartitionPutsBack ==
  ASSUME NEW q \in Seq(Slices), NEW ch \in [Workers -> Slices], NEW st \in SUBSET Blocks, NEW wt,
         Partition(q, ch, st, wt),
         NEW w \in Workers, NEW to \in Nat, ch[w][1] <= to, to < ch[w][2],
         NEW q2, q2 = PutBack(q, to, ch[w][2]),
         NEW ch2, ch2 = [ch EXCEPT ![w] = << ch[w][1], to >>]
  PROVE  /\ q2 \in Seq(Slices) /\ ch2 \in [Workers -> Slices]
         /\ Partition(q2, ch2, st, wt)
<1>1. Len(q) \in Nat /\ ch[w] \in Slices
  OBVIOUS
<1>2. /\ ch[w][1] \in Nat /\ ch[w][2] \in Nat /\ ch[w][1] <= ch[w][2] /\ ch[w][2] <= Window
      /\ \A b \in Blocks : b \in Nat
      /\ \A b \in Blocks : b \in Span(ch[w]) <=> ch[w][1] <= b /\ b < ch[w][2]
  BY <1>1, SpanIn
<1> DEFINE rest == << to, ch[w][2] >>
           kept == << ch[w][1], to >>
<1>3. rest \in Slices /\ kept \in Slices
  BY <1>2, Constants DEF Slices
<1>4. /\ \A b \in Blocks : b \in Span(rest) <=> to <= b /\ b < ch[w][2]
      /\ \A b \in Blocks : b \in Span(kept) <=> ch[w][1] <= b /\ b < to
  <2>1. rest[1] = to /\ rest[2] = ch[w][2] /\ kept[1] = ch[w][1] /\ kept[2] = to
    OBVIOUS
  <2> HIDE DEF rest, kept
  <2> QED BY <1>3, <2>1, SpanIn
<1>5. /\ ch2 \in [Workers -> Slices] /\ ch2[w] = kept /\ \A v \in Workers \ {w} : ch2[v] = ch[v]
  BY <1>3
<1> HIDE DEF rest, kept
<1>6. \A b \in Blocks : b \in Span(ch[w]) <=> b \in Span(kept) \/ b \in Span(rest)
  BY <1>2, <1>4
<1>7. \A b \in Blocks : ~(b \in Span(kept) /\ b \in Span(rest))
  BY <1>2, <1>4
<1>8. /\ q2 \in Seq(Slices) /\ Len(q2) = Len(q) + 1 /\ q2[1] = rest
      /\ \A i \in 1..Len(q) : q2[i + 1] = q[i]
  <2>1. q2 = << rest >> \o q
    BY DEF rest, PutBack
  <2>2. q2 \in Seq(Slices) /\ Len(q2) = Len(q) + 1 /\ q2[1] = rest
    BY <2>1, <1>1, <1>3
  <2>3. ASSUME NEW i \in 1..Len(q) PROVE q2[i + 1] = q[i]
    <3>1. i + 1 \in 2..(Len(q) + 1) /\ (i + 1) - 1 = i
      BY <1>1
    <3> QED BY <2>1, <1>1, <1>3, <3>1
  <2> QED BY <2>2, <2>3
<1>9. \A i \in 1..Len(q2) : i # 1 => i - 1 \in 1..Len(q) /\ q2[i] = q[i - 1]
  <2> SUFFICES ASSUME NEW i \in 1..Len(q2), i # 1 PROVE i - 1 \in 1..Len(q) /\ q2[i] = q[i - 1]
    OBVIOUS
  <2>1. i - 1 \in 1..Len(q) /\ (i - 1) + 1 = i
    BY <1>8, <1>1
  <2> QED BY <2>1, <1>8
<1> DEFINE from == [i \in 1..Len(q2) |-> i - 1]
<1>10. from \in [1..Len(q2) -> 0..Len(q)] /\ \A i \in 1..Len(q2) : from[i] = i - 1
  BY <1>8, <1>1
<1> HIDE DEF from
<1>11. \A i, j \in 1..Len(q2) : from[i] = from[j] => i = j
  BY <1>8, <1>10, <1>1
<1>12. \A i \in 1..Len(q2) : \A b \in Blocks : b \in Span(q2[i]) =>
         \/ from[i] = 0 /\ b \in Span(ch[w])
         \/ from[i] # 0 /\ b \in Span(q[from[i]])
  <2> SUFFICES ASSUME NEW i \in 1..Len(q2), NEW b \in Blocks, b \in Span(q2[i])
               PROVE  \/ from[i] = 0 /\ b \in Span(ch[w])
                      \/ from[i] # 0 /\ b \in Span(q[from[i]])
    OBVIOUS
  <2>1. CASE i = 1
    <3>1. from[i] = 0
      BY <2>1, <1>10
    <3> QED BY <2>1, <3>1, <1>6, <1>8
  <2>2. CASE i # 1
    <3>1. from[i] = i - 1 /\ from[i] # 0
      BY <2>2, <1>10, <1>9
    <3> QED BY <2>2, <3>1, <1>9
  <2> QED BY <2>1, <2>2
<1>13. \A b \in Blocks : b \in Span(ch2[w]) => \A i \in 1..Len(q2) : b \notin Span(q2[i])
  <2> SUFFICES ASSUME NEW b \in Blocks, b \in Span(kept), NEW i \in 1..Len(q2), b \in Span(q2[i])
               PROVE  FALSE
    BY <1>5
  <2>1. CASE i = 1 BY <2>1, <1>7, <1>8
  <2>2. CASE i # 1
    <3>1. b \in Span(ch[w]) /\ b \in Span(q[i - 1]) /\ i - 1 \in 1..Len(q)
      BY <2>2, <1>6, <1>9
    <3> QED BY <3>1 DEF Partition, SliceOrChunk
  <2> QED BY <2>1, <2>2
<1>14. \A i \in 1..Len(q) : \A b \in Blocks : b \in Span(q[i]) =>
         \E j \in 1..Len(q2) : b \in Span(q2[j])
  <2> SUFFICES ASSUME NEW i \in 1..Len(q), NEW b \in Blocks, b \in Span(q[i])
               PROVE  i + 1 \in 1..Len(q2) /\ b \in Span(q2[i + 1])
    OBVIOUS
  <2> QED BY <1>1, <1>8
<1>15. \A b \in Blocks : b \in Span(ch[w]) =>
         b \in Span(ch2[w]) \/ \E i \in 1..Len(q2) : b \in Span(q2[i])
  <2>1. 1 \in 1..Len(q2)
    BY <1>1, <1>8
  <2> QED BY <2>1, <1>5, <1>6, <1>8
<1>16. \A b \in Blocks : b \in Span(ch2[w]) => b \in Span(ch[w])
  BY <1>5, <1>6
<1>17. Moves(q, ch, q2, ch2, w, from)
  BY <1>5, <1>11, <1>12, <1>13, <1>14, <1>15, <1>16 DEF Moves
<1> QED BY <1>5, <1>8, <1>10, <1>17, PartitionMoves

GivenBack(q, ch, w, to, q2, ch2) ==
  /\ w \in Workers /\ to \in Nat /\ ch[w][1] <= to /\ to < ch[w][2]
  /\ q2 = PutBack(q, to, ch[w][2])
  /\ ch2 = [ch EXCEPT ![w] = << ch[w][1], to >>]

LEMMA BackPlaced ==
  ASSUME NEW q, NEW ch, NEW st, NEW wt, NEW w, NEW to, NEW q2, NEW ch2,
         Placed(q, ch, st, wt), GivenBack(q, ch, w, to, q2, ch2)
  PROVE  Placed(q2, ch2, st, wt)
<1>1. /\ q \in Seq(Slices) /\ ch \in [Workers -> Slices] /\ st \in SUBSET Blocks
      /\ w \in Workers /\ to \in Nat /\ ch[w][1] <= to /\ to < ch[w][2]
      /\ q2 = PutBack(q, to, ch[w][2])
      /\ ch2 = [ch EXCEPT ![w] = << ch[w][1], to >>]
  BY DEF Placed, GivenBack
<1>2. Partition(q, ch, st, wt)
  BY DEF Placed
<1>3. q2 \in Seq(Slices)
  BY <1>1, <1>2, PartitionPutsBack
<1>4. ch2 \in [Workers -> Slices]
  <2>1. ch[w] \in Slices
    BY <1>1
  <2>2. ch[w][1] \in Nat /\ ch[w][2] \in Nat /\ ch[w][2] <= Window /\ Window \in Nat
    BY <2>1, SpanIn, Constants
  <2>3. << ch[w][1], to >> \in Slices
    BY <1>1, <2>2 DEF Slices
  <2> QED BY <1>1, <2>3
<1>5. Partition(q2, ch2, st, wt)
  BY <1>1, <1>2, PartitionPutsBack
<1> QED BY <1>1, <1>3, <1>4, <1>5 DEF Placed

(* A chunk is over.                                                        *)
LEMMA PartitionSettles ==
  ASSUME NEW q \in Seq(Slices), NEW ch \in [Workers -> Slices], NEW st \in SUBSET Blocks, NEW wt,
         Partition(q, ch, st, wt),
         NEW w \in Workers, NEW ch2, ch2 = [ch EXCEPT ![w] = << 0, 0 >>]
  PROVE  /\ ch2 \in [Workers -> Slices] /\ st \cup Span(ch[w]) \in SUBSET Blocks
         /\ Partition(q, ch2, st \cup Span(ch[w]), wt)
<1>1. /\ ch2 \in [Workers -> Slices] /\ \A v \in Workers \ {w} : ch2[v] = ch[v]
      /\ \A b \in Blocks : b \notin Span(ch2[w])
  BY NothingSpanned
<1>2. Span(ch[w]) \subseteq Blocks
  BY SpanIn
<1> DEFINE st2 == st \cup Span(ch[w])
<1>3. OneChunk(ch2) /\ SliceOrChunk(q, ch2) /\ OneSlice(q)
  BY <1>1 DEF Partition, OneChunk, SliceOrChunk
<1>4. NotAgain(q, ch2, st2)
  <2> SUFFICES ASSUME NEW b \in st2
               PROVE  /\ \A i \in 1..Len(q) : b \notin Span(q[i])
                      /\ \A v \in Workers : b \notin Span(ch2[v])
    BY DEF NotAgain
  <2>1. b \in Blocks
    BY <1>2
  <2>2. CASE b \in st
    BY <2>1, <2>2, <1>1 DEF Partition, NotAgain
  <2>3. CASE b \in Span(ch[w])
    BY <2>1, <2>3, <1>1 DEF Partition, SliceOrChunk, OneChunk
  <2> QED BY <2>2, <2>3
<1>5. Together(q, ch2, st2, wt)
  <2> SUFFICES ASSUME NEW b \in Blocks
               PROVE  b \in wt <=> \/ b \in st2
                                   \/ \E i \in 1..Len(q) : b \in Span(q[i])
                                   \/ \E v \in Workers : b \in Span(ch2[v])
    BY DEF Together
  <2>1. b \in wt <=> \/ b \in st
                     \/ \E i \in 1..Len(q) : b \in Span(q[i])
                     \/ \E v \in Workers : b \in Span(ch[v])
    BY DEF Partition, Together
  <2>2. (\E v \in Workers : b \in Span(ch[v])) <=>
          \/ b \in Span(ch[w])
          \/ \E v \in Workers : b \in Span(ch2[v])
    BY <1>1
  <2> QED BY <2>1, <2>2
<1> QED BY <1>1, <1>2, <1>3, <1>4, <1>5 DEF Partition

-----------------------------------------------------------------------------
LEMMA WorkerValues ==
  ASSUME NEW c \in Workings, NEW p \in Pcs
  PROVE  /\ [c EXCEPT !.pc = p] \in Workings
         /\ \A n \in Nat : [c EXCEPT !.seen = n, !.pc = p] \in Workings
         /\ \A n \in Nat : [c EXCEPT !.retries = n, !.pc = p] \in Workings
         /\ \A n \in Nat : [c EXCEPT !.pc = p, !.pos = n] \in Workings
         /\ \A n \in Nat : [c EXCEPT !.pos = n] \in Workings
         /\ \A n \in Nat : \A s \in Slices :
              [c EXCEPT !.chunk = s, !.retries = n, !.pc = p] \in Workings
BY DEF Workings

LEMMA IdleValues ==
  /\ Idle \in Workings /\ Idle.chunk = << 0, 0 >> /\ Idle.pc = "top"
  /\ \A n \in Nat : [Idle EXCEPT !.seen = n] \in Workings
  /\ \A p \in Pcs : [Idle EXCEPT !.pc = p] \in Workings
<1>1. Idle \in Workings
  BY NothingSpanned DEF Idle, Workings, Pcs
<1> QED BY <1>1 DEF Idle, Workings

LEMMA WorkerTyped ==
  ASSUME TypeInv, NEW w \in Workers
  PROVE  /\ wk[w] \in Workings /\ wk[w].pc \in Pcs /\ wk[w].chunk \in Slices
         /\ wk[w].pos \in Nat /\ wk[w].retries \in Nat /\ wk[w].seen \in Nat
         /\ Chunks \in [Workers -> Slices] /\ Chunks[w] = wk[w].chunk
BY DEF TypeInv, Workings, Chunks

(* A worker moves only after the run has started.                          *)
LEMMA StartedRun ==
  ASSUME PartInv, NEW w \in Workers, wk[w].pc # "top"
  PROVE  run # "init"
BY DEF PartInv, Idle

(* A step of one worker, whose state becomes x.                            *)
LEMMA WorkerMoves ==
  ASSUME DownInv, NEW w \in Workers, NEW x \in Workings, wk' = [wk EXCEPT ![w] = x],
         run # "init", UNCHANGED << wanted, cancelled, run, pause >>,
         mult' \in Nat, have \subseteq have', have' \subseteq Blocks,
         queue' \in Seq(Slices), settled' \in SUBSET Blocks,
         Partition(queue', [Chunks EXCEPT ![w] = x.chunk], settled', wanted),
         x.pc \in {"top", "paused", "pop"} => x.chunk = << 0, 0 >>,
         x.pc = "ok" /\ ~cancelled => x.chunk = << 0, 0 >> /\ queue' = <<>>,
         x.pc = "body" => /\ x.chunk[1] <= x.pos /\ x.pos <= x.chunk[2]
                          /\ x.chunk[1]..(x.pos - 1) \subseteq have',
         ~ShortBodies => settled' \subseteq have'
  PROVE  DownInv'
<1>1. TypeInv /\ PartInv /\ WorkInv /\ LeaveInv
  BY DEF DownInv
<1>2. /\ wk' \in [Workers -> Workings] /\ wk'[w] = x
      /\ \A v \in Workers \ {w} : wk'[v] = wk[v]
  BY <1>1 DEF TypeInv
<1>3. TypeInv'
  BY <1>1, <1>2 DEF TypeInv
<1>4. Chunks' = [Chunks EXCEPT ![w] = x.chunk]
  BY <1>2 DEF Chunks
<1>5. PartInv'
  BY <1>4 DEF PartInv
<1>6. WorkInv'
  <2> SUFFICES ASSUME NEW v \in Workers
               PROVE  /\ wk'[v].pc \in {"top", "paused", "pop"} => wk'[v].chunk = << 0, 0 >>
                      /\ wk'[v].pc = "ok" /\ ~cancelled' => wk'[v].chunk = << 0, 0 >>
                      /\ wk'[v].pc = "body" =>
                           /\ wk'[v].chunk[1] <= wk'[v].pos /\ wk'[v].pos <= wk'[v].chunk[2]
                           /\ wk'[v].chunk[1]..(wk'[v].pos - 1) \subseteq have'
    BY DEF WorkInv
  <2>1. CASE v = w
    BY <2>1, <1>2
  <2>2. CASE v # w
    <3>1. wk'[v] = wk[v]
      BY <2>2, <1>2
    <3>2. /\ wk[v].pc \in {"top", "paused", "pop"} => wk[v].chunk = << 0, 0 >>
          /\ wk[v].pc = "ok" /\ ~cancelled => wk[v].chunk = << 0, 0 >>
          /\ wk[v].pc = "body" =>
               /\ wk[v].chunk[1] <= wk[v].pos /\ wk[v].pos <= wk[v].chunk[2]
               /\ wk[v].chunk[1]..(wk[v].pos - 1) \subseteq have
      BY <1>1 DEF WorkInv
    <3> QED BY <3>1, <3>2
  <2> QED BY <2>1, <2>2
<1>7. LeaveInv'
  BY <1>1, <1>2 DEF LeaveInv, OkMeansComplete
<1> QED BY <1>3, <1>5, <1>6, <1>7 DEF DownInv

(* A worker that only goes on: chunk, queue and disk stay.                 *)
LEMMA WorkerGoesOn ==
  ASSUME DownInv, NEW w \in Workers, NEW x \in Workings, wk' = [wk EXCEPT ![w] = x],
         run # "init",
         UNCHANGED << have, queue, mult, pause, cancelled, run, wanted, settled >>,
         x.chunk = wk[w].chunk,
         x.pc \in {"top", "paused", "pop"} => x.chunk = << 0, 0 >>,
         x.pc = "ok" /\ ~cancelled => x.chunk = << 0, 0 >> /\ queue = <<>>,
         x.pc = "body" => x.pos = x.chunk[1]
  PROVE  DownInv'
<1>1. TypeInv /\ PartInv /\ LeaveInv
  BY DEF DownInv
<1>2. Chunks \in [Workers -> Slices] /\ Chunks[w] = wk[w].chunk /\ x.chunk \in Slices
  BY <1>1, WorkerTyped
<1>3. [Chunks EXCEPT ![w] = x.chunk] = Chunks
  BY <1>2
<1>4. Partition(queue', [Chunks EXCEPT ![w] = x.chunk], settled', wanted)
  BY <1>1, <1>3 DEF PartInv
<1>5. x.chunk[1] \in Nat /\ x.chunk[2] \in Nat /\ x.chunk[1] <= x.chunk[2]
  BY <1>2, SpanIn
<1>6. x.pc = "body" => /\ x.chunk[1] <= x.pos /\ x.pos <= x.chunk[2]
                       /\ x.chunk[1]..(x.pos - 1) \subseteq have'
  BY <1>5
<1>7. /\ mult' \in Nat /\ have' = have /\ have' \subseteq Blocks /\ queue' \in Seq(Slices)
      /\ settled' \in SUBSET Blocks /\ (~ShortBodies => settled' \subseteq have')
  BY <1>1 DEF TypeInv, LeaveInv
<1> QED BY <1>4, <1>6, <1>7, WorkerMoves

LEMMA GotoStep ==
  ASSUME DownInv, NEW w \in Workers, NEW p \in Pcs, Goto(w, p), p # "body",
         run # "init",
         UNCHANGED << have, queue, mult, pause, cancelled, run, wanted, settled >>,
         p \in {"top", "paused", "pop"} => wk[w].chunk = << 0, 0 >>,
         p = "ok" /\ ~cancelled => wk[w].chunk = << 0, 0 >> /\ queue = <<>>
  PROVE  DownInv'
<1> DEFINE x == [wk[w] EXCEPT !.pc = p]
<1>1. wk[w] \in Workings
  BY WorkerTyped DEF DownInv
<1>2. x \in Workings
  BY <1>1, WorkerValues
<1>3. x.pc = p /\ x.chunk = wk[w].chunk
  BY <1>1 DEF Workings
<1>4. wk' = [wk EXCEPT ![w] = x]
  BY DEF Goto
<1> HIDE DEF x
<1> QED BY <1>2, <1>3, <1>4, WorkerGoesOn

-----------------------------------------------------------------------------
LEMMA TopStep ==
  ASSUME DownInv, NEW w \in Workers, TopCancelled(w) \/ TopGo(w)
  PROVE  DownInv'
<1>1. wk[w].chunk = << 0, 0 >> /\ run # "init"
  BY DEF DownInv, WorkInv, TopCancelled, TopGo
<1>2. CASE TopCancelled(w)
  <2>1. "ok" \in Pcs /\ Goto(w, "ok") /\ cancelled
    BY <1>2 DEF TopCancelled, Pcs, EndPc
  <2> QED BY <1>1, <1>2, <2>1, GotoStep DEF TopCancelled
<1>3. CASE TopGo(w)
  <2> DEFINE p == IF pause.value THEN "paused" ELSE "pop"
  <2>1. p \in Pcs /\ Goto(w, p) /\ p # "ok" /\ p # "body"
    BY <1>3 DEF TopGo, Pcs, AwaitPc
  <2> HIDE DEF p
  <2> QED BY <1>1, <1>3, <2>1, GotoStep DEF TopGo
<1> QED BY <1>2, <1>3

LEMMA PauseStep ==
  ASSUME DownInv, NEW w \in Workers, PauseChanged(w)
  PROVE  DownInv'
<1> DEFINE x == [wk[w] EXCEPT !.seen = pause.version, !.pc = "pop"]
<1>1. wk[w].chunk = << 0, 0 >> /\ run # "init"
  BY StartedRun DEF DownInv, WorkInv, PauseChanged
<1>2. wk[w] \in Workings /\ pause.version \in Nat /\ "pop" \in Pcs
  BY WorkerTyped DEF DownInv, TypeInv, Pcs
<1>3. x \in Workings
  BY <1>2, WorkerValues
<1>4. x.pc = "pop" /\ x.chunk = wk[w].chunk
  BY <1>2 DEF Workings
<1>5. wk' = [wk EXCEPT ![w] = x]
  BY DEF PauseChanged
<1> HIDE DEF x
<1> QED BY <1>1, <1>3, <1>4, <1>5, WorkerGoesOn DEF PauseChanged

(* The chunk comes from the first slice, and both are as long as before.   *)
LEMMA TakeStep ==
  ASSUME DownInv, NEW w \in Workers, TakeChunk(w)
  PROVE  DownInv'
<1> DEFINE end == queue[1][1] + SmallerOf(BaseChunk * mult, queue[1][2] - queue[1][1])
           cut == << queue[1][1], end >>
           x == [wk[w] EXCEPT !.chunk = cut, !.retries = 0, !.pc = "try"]
<1>1. TypeInv /\ PartInv /\ wk[w].pc = "pop" /\ wk[w].chunk = << 0, 0 >> /\ run # "init"
      /\ LeaveInv
  BY StartedRun DEF DownInv, WorkInv, TakeChunk
<1>2. /\ queue \in Seq(Slices) /\ queue # <<>> /\ queue[1] \in Slices /\ Head(queue) = queue[1]
      /\ settled \in SUBSET Blocks
  BY <1>1 DEF TypeInv, TakeChunk
<1>3. queue[1][1] \in Nat /\ queue[1][2] \in Nat /\ queue[1][1] <= queue[1][2]
  BY <1>2, SpanIn
<1>4. BaseChunk * mult \in Nat
  BY <1>1, Constants DEF TypeInv
<1>5. end \in Nat /\ queue[1][1] <= end /\ end <= queue[1][2]
  <2> DEFINE m == BaseChunk * mult
  <2>1. m \in Nat
    BY <1>4
  <2> HIDE DEF m
  <2>2. LET e == queue[1][1] + SmallerOf(m, queue[1][2] - queue[1][1])
        IN  e \in Nat /\ queue[1][1] <= e /\ e <= queue[1][2]
    BY <2>1, <1>3 DEF SmallerOf
  <2> QED BY <2>2 DEF m
<1>6. /\ queue' = IF end < queue[1][2] THEN << << end, queue[1][2] >> >> \o Tail(queue)
                  ELSE Tail(queue)
      /\ wk' = [wk EXCEPT ![w] = x]
      /\ UNCHANGED << have, mult, pause, cancelled, run, wanted, settled >>
  BY <1>2 DEF TakeChunk
<1> HIDE DEF end
<1>7. /\ Chunks \in [Workers -> Slices] /\ Chunks[w] = << 0, 0 >> /\ wk[w] \in Workings
      /\ Partition(queue, Chunks, settled, wanted)
  BY <1>1, WorkerTyped DEF PartInv
<1>8. /\ queue' \in Seq(Slices) /\ [Chunks EXCEPT ![w] = cut] \in [Workers -> Slices]
      /\ Partition(queue', [Chunks EXCEPT ![w] = cut], settled, wanted)
  <2> DEFINE after == [Chunks EXCEPT ![w] = cut]
  <2>1. after = [Chunks EXCEPT ![w] = << queue[1][1], end >>]
    OBVIOUS
  <2> HIDE DEF after
  <2>3. /\ Chunks \in [Workers -> Slices] /\ queue \in Seq(Slices) /\ settled \in SUBSET Blocks
        /\ Chunks[w] = << 0, 0 >> /\ queue # <<>>
    BY <1>2, <1>7
  <2>4. Partition(queue, Chunks, settled, wanted)
    BY <1>7
  <2>5. queue' = AfterCut(queue, end)
    BY <1>6 DEF AfterCut
  <2>6. CutOff(queue, Chunks, w, end, queue', after)
    BY <2>1, <2>3, <2>5, <1>5 DEF CutOff
  <2>7. Placed(queue, Chunks, settled, wanted)
    BY <2>3, <2>4 DEF Placed
  <2>8. Placed(queue', after, settled, wanted)
    BY <2>6, <2>7, CutPlaced
  <2> QED BY <2>8 DEF after, Placed
<1>9. cut \in Slices
  BY <1>7, <1>8
<1> HIDE DEF cut
<1>10. x \in Workings
  <2>1. "try" \in Pcs /\ 0 \in Nat
    BY DEF Pcs, AwaitPc
  <2> QED BY <2>1, <1>7, <1>9, WorkerValues
<1>11. x.pc = "try" /\ x.chunk = cut
  BY <1>7 DEF Workings
<1> HIDE DEF x
<1>12. /\ mult' \in Nat /\ have \subseteq have' /\ have' \subseteq Blocks
       /\ settled' \in SUBSET Blocks /\ (~ShortBodies => settled' \subseteq have')
       /\ Partition(queue', [Chunks EXCEPT ![w] = x.chunk], settled', wanted)
  BY <1>1, <1>6, <1>8, <1>11 DEF TypeInv, LeaveInv
<1> QED BY <1>1, <1>6, <1>8, <1>10, <1>11, <1>12, WorkerMoves

LEMMA GoOnStep ==
  ASSUME DownInv, NEW w \in Workers,
         \/ QueueEmpty(w) \/ AcquirePermit(w) \/ LinkExpired(w) \/ HealLock(w)
         \/ BackoffOver(w) \/ SeesCancel(w) \/ AbortWorker(w)
  PROVE  DownInv'
<1>1. wk[w].pc # "top"
  BY DEF QueueEmpty, AcquirePermit, LinkExpired, HealLock, BackoffOver, SeesCancel,
         AbortWorker, AwaitPc
<1>2. run # "init"
  BY <1>1, StartedRun DEF DownInv
<1>3. /\ UNCHANGED << have, queue, mult, pause, cancelled, run, wanted, settled >>
      /\ \/ QueueEmpty(w) /\ Goto(w, "ok")
         \/ Goto(w, "headers") \/ Goto(w, "heal") \/ Goto(w, "healing") \/ Goto(w, "try")
         \/ cancelled /\ Goto(w, "ok")
         \/ Goto(w, "gone")
  BY DEF QueueEmpty, AcquirePermit, LinkExpired, HealLock, BackoffOver, SeesCancel, AbortWorker
<1>4. {"ok", "headers", "heal", "healing", "try", "gone"} \subseteq Pcs
  BY DEF Pcs, AwaitPc, EndPc
<1>5. QueueEmpty(w) => wk[w].chunk = << 0, 0 >> /\ queue = <<>>
  BY DEF DownInv, WorkInv, QueueEmpty
<1>6. CASE QueueEmpty(w) /\ Goto(w, "ok")
  BY <1>2, <1>3, <1>4, <1>5, <1>6, GotoStep
<1>7. CASE cancelled /\ Goto(w, "ok")
  BY <1>2, <1>3, <1>4, <1>7, GotoStep
<1>8. ASSUME NEW p \in {"headers", "heal", "healing", "try", "gone"}, Goto(w, p)
      PROVE  DownInv'
  <2>1. p \in Pcs /\ p # "body" /\ p # "ok" /\ p \notin {"top", "paused", "pop"}
    BY <1>4, <1>8
  <2> QED BY <1>2, <1>3, <1>8, <2>1, GotoStep
<1> QED BY <1>3, <1>6, <1>7, <1>8

(* A failed attempt: what exceeds one base chunk goes back, the rest stays.*)
LEMMA RetryStep ==
  ASSUME DownInv, NEW w \in Workers, NEW next \in {"try", "backoff"}, Retry(w, next),
         wk[w].pc \in {"headers", "healing", "body"},
         UNCHANGED << have, pause, cancelled, run, wanted, settled >>
  PROVE  DownInv'
<1> DEFINE c == wk[w].chunk
           n == wk[w].retries + 1
           cut == c[1] + BaseChunk
           kept == << c[1], SmallerOf(cut, c[2]) >>
           x == [wk[w] EXCEPT !.chunk = kept, !.retries = n, !.pc = next]
<1>1. TypeInv /\ PartInv /\ LeaveInv /\ run # "init"
  BY StartedRun DEF DownInv
<1>2. /\ wk[w] \in Workings /\ c \in Slices /\ wk[w].retries \in Nat /\ n \in Nat
      /\ Chunks \in [Workers -> Slices] /\ Chunks[w] = c
      /\ queue \in Seq(Slices) /\ settled \in SUBSET Blocks
      /\ Partition(queue, Chunks, settled, wanted)
  BY <1>1, WorkerTyped DEF PartInv, TypeInv
<1>3. c[1] \in Nat /\ c[2] \in Nat /\ c[1] <= c[2] /\ c = << c[1], c[2] >>
  <2>1. c = << c[1], c[2] >>
    <3> HIDE DEF c
    <3> QED BY <1>2 DEF Slices
  <2> QED BY <1>2, <2>1, SpanIn
<1>4. cut \in Nat /\ c[1] <= cut /\ 1 \in Nat
  BY <1>3, Constants
<1>5. CASE n >= MaxRetries
  <2>1. Goto(w, "err") /\ UNCHANGED << queue, mult >> /\ "err" \in Pcs
    BY <1>5 DEF Retry, Pcs, EndPc
  <2> QED BY <1>1, <2>1, GotoStep
<1>6. CASE ~(n >= MaxRetries)
  <2>1. /\ mult' = 1
        /\ queue' = IF cut < c[2] THEN << << cut, c[2] >> >> \o queue ELSE queue
        /\ wk' = [wk EXCEPT ![w] = x]
    BY <1>6 DEF Retry
  <2> HIDE DEF c, cut
  <2>2. /\ queue' \in Seq(Slices) /\ kept \in Slices
        /\ Partition(queue', [Chunks EXCEPT ![w] = kept], settled, wanted)
    <3>1. CASE cut < c[2]
      <4>1. kept = << c[1], cut >> /\ queue' = << << cut, c[2] >> >> \o queue
        BY <3>1, <2>1 DEF SmallerOf
      <4> HIDE DEF kept
      <4>2. /\ queue' \in Seq(Slices) /\ [Chunks EXCEPT ![w] = kept] \in [Workers -> Slices]
            /\ Partition(queue', [Chunks EXCEPT ![w] = kept], settled, wanted)
        <5> DEFINE after == [Chunks EXCEPT ![w] = kept]
        <5>1. after = [Chunks EXCEPT ![w] = << Chunks[w][1], cut >>] /\ Chunks[w] = c
          BY <4>1, <1>2
        <5> HIDE DEF after
        <5>2. /\ queue' \in Seq(Slices) /\ after \in [Workers -> Slices]
              /\ Partition(queue', after, settled, wanted)
          <6>1. /\ Chunks \in [Workers -> Slices] /\ queue \in Seq(Slices)
                /\ settled \in SUBSET Blocks
            BY <1>2
          <6>2. Partition(queue, Chunks, settled, wanted)
            BY <1>2
          <6>3. Chunks[w][1] <= cut /\ cut < Chunks[w][2] /\ cut \in Nat
            BY <3>1, <5>1, <1>4
          <6>4. queue' = PutBack(queue, cut, Chunks[w][2])
            BY <4>1, <5>1 DEF PutBack
          <6>5. GivenBack(queue, Chunks, w, cut, queue', after)
            BY <5>1, <6>3, <6>4 DEF GivenBack
          <6>6. Placed(queue, Chunks, settled, wanted)
            BY <6>1, <6>2 DEF Placed
          <6>7. Placed(queue', after, settled, wanted)
            BY <6>5, <6>6, BackPlaced
          <6> QED BY <6>7 DEF Placed
        <5> QED BY <5>2 DEF after
      <4> QED BY <4>2, <1>2
    <3>2. CASE ~(cut < c[2])
      <4>1. kept = c /\ queue' = queue
        BY <3>2, <2>1, <1>3, <1>4 DEF SmallerOf
      <4>2. [Chunks EXCEPT ![w] = kept] = Chunks
        <5> HIDE DEF kept
        <5> QED BY <4>1, <1>2
      <4> QED BY <4>1, <4>2, <1>2
    <3> QED BY <3>1, <3>2
  <2> HIDE DEF kept, n
  <2>3. next \in Pcs
    BY DEF Pcs, AwaitPc
  <2>4. x \in Workings
    BY <1>2, <2>2, <2>3, WorkerValues
  <2>5. x.pc = next /\ x.chunk = kept
    BY <1>2 DEF Workings
  <2> HIDE DEF x
  <2>6. /\ mult' \in Nat /\ have \subseteq have' /\ have' \subseteq Blocks
        /\ settled' \in SUBSET Blocks /\ (~ShortBodies => settled' \subseteq have')
        /\ Partition(queue', [Chunks EXCEPT ![w] = x.chunk], settled', wanted)
    BY <1>1, <2>1, <2>2, <2>5 DEF TypeInv, LeaveInv
  <2>7. x.pc \notin {"top", "paused", "pop", "ok", "body"}
    BY <2>5
  <2> QED BY <1>1, <2>1, <2>2, <2>4, <2>5, <2>6, <2>7, WorkerMoves
<1> QED BY <1>5, <1>6

LEMMA FailStep ==
  ASSUME DownInv, NEW w \in Workers, HeadersFail(w) \/ HealFails(w) \/ BodyFails(w)
  PROVE  DownInv'
<1>1. /\ wk[w].pc \in {"headers", "healing", "body"}
      /\ UNCHANGED << have, pause, cancelled, run, wanted, settled >>
      /\ Retry(w, "try") \/ Retry(w, "backoff")
  BY DEF HeadersFail, HealFails, BodyFails
<1> QED BY <1>1, RetryStep

LEMMA HealStep ==
  ASSUME DownInv, NEW w \in Workers, HealSucceeds(w)
  PROVE  DownInv'
<1> DEFINE x == [wk[w] EXCEPT !.retries = 0, !.pc = "try"]
<1>1. run # "init"
  BY StartedRun DEF DownInv, HealSucceeds
<1>2. wk[w] \in Workings /\ "try" \in Pcs /\ 0 \in Nat
  BY WorkerTyped DEF DownInv, Pcs, AwaitPc
<1>3. x \in Workings
  BY <1>2, WorkerValues
<1>4. x.pc = "try" /\ x.chunk = wk[w].chunk
  BY <1>2 DEF Workings
<1>5. wk' = [wk EXCEPT ![w] = x]
  BY DEF HealSucceeds
<1> HIDE DEF x
<1> QED BY <1>1, <1>3, <1>4, <1>5, WorkerGoesOn DEF HealSucceeds

LEMMA HeadersStep ==
  ASSUME DownInv, NEW w \in Workers, HeadersOk(w)
  PROVE  DownInv'
<1> DEFINE x == [wk[w] EXCEPT !.pc = "body", !.pos = wk[w].chunk[1]]
<1>1. run # "init"
  BY StartedRun DEF DownInv, HeadersOk
<1>2. wk[w] \in Workings /\ "body" \in Pcs /\ wk[w].chunk \in Slices
  BY WorkerTyped DEF DownInv, Pcs, AwaitPc
<1>3. wk[w].chunk[1] \in Nat
  BY <1>2, SpanIn
<1>4. x \in Workings
  BY <1>2, <1>3, WorkerValues
<1>5. x.pc = "body" /\ x.chunk = wk[w].chunk /\ x.pos = x.chunk[1]
  BY <1>2 DEF Workings
<1>6. wk' = [wk EXCEPT ![w] = x]
  BY DEF HeadersOk
<1> HIDE DEF x
<1> QED BY <1>1, <1>4, <1>5, <1>6, WorkerGoesOn DEF HeadersOk

LEMMA DataStep ==
  ASSUME DownInv, NEW w \in Workers, BodyData(w)
  PROVE  DownInv'
<1> DEFINE x == [wk[w] EXCEPT !.pos = wk[w].pos + 1]
<1>1. TypeInv /\ PartInv /\ LeaveInv /\ run # "init"
  BY StartedRun DEF DownInv, BodyData
<1>2. /\ wk[w] \in Workings /\ wk[w].chunk \in Slices /\ wk[w].pos \in Nat
      /\ wk[w].pc = "body" /\ wk[w].pos < wk[w].chunk[2]
      /\ wk[w].chunk[1] <= wk[w].pos
      /\ wk[w].chunk[1]..(wk[w].pos - 1) \subseteq have
      /\ Chunks \in [Workers -> Slices] /\ Chunks[w] = wk[w].chunk
  BY <1>1, WorkerTyped DEF BodyData, DownInv, WorkInv
<1>3. /\ wk[w].chunk[1] \in Nat /\ wk[w].chunk[2] \in Nat /\ wk[w].chunk[2] <= Window
      /\ Window \in Nat
  BY <1>2, SpanIn, Constants
<1>4. x \in Workings
  <2>1. wk[w].pos + 1 \in Nat /\ "body" \in Pcs
    BY <1>2 DEF Pcs, AwaitPc
  <2> QED BY <2>1, <1>2, WorkerValues
<1>5. x.pc = "body" /\ x.chunk = wk[w].chunk /\ x.pos = wk[w].pos + 1
  BY <1>2 DEF Workings
<1>6. wk' = [wk EXCEPT ![w] = x] /\ have' = have \cup {wk[w].pos}
  BY DEF BodyData
<1> HIDE DEF x
<1>7. /\ x.chunk[1] <= x.pos /\ x.pos <= x.chunk[2]
      /\ x.chunk[1]..(x.pos - 1) \subseteq have'
  BY <1>2, <1>3, <1>5, <1>6
<1>8. wk[w].pos \in Blocks
  BY <1>2, <1>3 DEF Blocks
<1>9. [Chunks EXCEPT ![w] = x.chunk] = Chunks
  BY <1>2, <1>5
<1>10. /\ mult' \in Nat /\ have \subseteq have' /\ have' \subseteq Blocks
       /\ queue' \in Seq(Slices)
       /\ settled' \in SUBSET Blocks /\ (~ShortBodies => settled' \subseteq have')
       /\ Partition(queue', [Chunks EXCEPT ![w] = x.chunk], settled', wanted)
       /\ UNCHANGED << wanted, cancelled, run, pause >>
  BY <1>1, <1>6, <1>8, <1>9 DEF TypeInv, LeaveInv, PartInv, BodyData
<1> QED BY <1>1, <1>4, <1>5, <1>6, <1>7, <1>10, WorkerMoves

LEMMA EofStep ==
  ASSUME DownInv, NEW w \in Workers, BodyEof(w)
  PROVE  DownInv'
<1> DEFINE x == [Idle EXCEPT !.seen = wk[w].seen]
<1>1. TypeInv /\ PartInv /\ LeaveInv /\ run # "init"
  BY StartedRun DEF DownInv, BodyEof
<1>2. /\ wk[w].chunk \in Slices /\ wk[w].pos \in Nat /\ wk[w].seen \in Nat
      /\ wk[w].pc = "body" /\ (ShortBodies \/ wk[w].pos = wk[w].chunk[2])
      /\ wk[w].chunk[1]..(wk[w].pos - 1) \subseteq have
      /\ Chunks \in [Workers -> Slices] /\ Chunks[w] = wk[w].chunk
      /\ queue \in Seq(Slices) /\ settled \in SUBSET Blocks
      /\ Partition(queue, Chunks, settled, wanted)
  BY <1>1, WorkerTyped DEF BodyEof, DownInv, WorkInv, PartInv, TypeInv
<1>3. x \in Workings
  BY <1>2, IdleValues
<1>4. x.pc = "top" /\ x.chunk = << 0, 0 >>
  BY DEF Idle
<1>5. /\ wk' = [wk EXCEPT ![w] = x] /\ settled' = settled \cup Span(wk[w].chunk)
      /\ mult' = SmallerOf(2 * mult, MaxMult)
      /\ UNCHANGED << have, queue, pause, cancelled, run, wanted >>
  BY DEF BodyEof
<1> HIDE DEF x
<1>6. /\ settled' \in SUBSET Blocks
      /\ Partition(queue', [Chunks EXCEPT ![w] = x.chunk], settled', wanted)
  <2> DEFINE after == [Chunks EXCEPT ![w] = x.chunk]
  <2>1. after = [Chunks EXCEPT ![w] = << 0, 0 >>]
    BY <1>4
  <2> HIDE DEF after
  <2>3. Chunks \in [Workers -> Slices] /\ queue \in Seq(Slices) /\ settled \in SUBSET Blocks
    BY <1>2
  <2>4. Partition(queue, Chunks, settled, wanted)
    BY <1>2
  <2>2. /\ settled \cup Span(Chunks[w]) \in SUBSET Blocks
        /\ Partition(queue, after, settled \cup Span(Chunks[w]), wanted)
    BY <2>1, <2>3, <2>4, PartitionSettles
  <2> QED BY <2>2, <1>2, <1>5 DEF after
<1>7. ~ShortBodies => settled' \subseteq have'
  BY <1>1, <1>2, <1>5 DEF LeaveInv, Span
<1>8. mult' \in Nat
  BY <1>1, <1>5, Constants DEF TypeInv, SmallerOf
<1>9. have \subseteq have' /\ have' \subseteq Blocks /\ queue' \in Seq(Slices)
  BY <1>1, <1>5 DEF TypeInv
<1> QED BY <1>1, <1>3, <1>4, <1>5, <1>6, <1>7, <1>8, <1>9, WorkerMoves

-----------------------------------------------------------------------------
LEMMA StartStep ==
  ASSUME DownInv, Start
  PROVE  DownInv'
<1> DEFINE x == [Idle EXCEPT !.pc = IF Blocks \subseteq have THEN "ok" ELSE "top"]
<1>1. TypeInv /\ PartInv /\ LeaveInv /\ run = "init"
  BY DEF DownInv, Start
<1>2. /\ queue' = MissingSlices(have) /\ wk' = [w \in Workers |-> x]
      /\ run' = IF Blocks \subseteq have THEN "ok" ELSE "running"
      /\ wanted' = Blocks \ have
      /\ UNCHANGED << have, mult, pause, cancelled, settled >>
  BY DEF Start
<1>3. have \in SUBSET Blocks /\ settled = {}
  BY <1>1 DEF TypeInv, PartInv
<1>4. /\ x \in Workings /\ x.chunk = << 0, 0 >>
      /\ x.pc = IF Blocks \subseteq have THEN "ok" ELSE "top"
  <2>1. (IF Blocks \subseteq have THEN "ok" ELSE "top") \in Pcs
    BY DEF Pcs, EndPc
  <2>2. x \in Workings
    BY <2>1, IdleValues
  <2> QED BY <2>2 DEF Idle
<1> HIDE DEF x
<1>5. /\ MissingSlices(have) \in Seq(Slices)
      /\ Blocks \subseteq have => MissingSlices(have) = <<>>
  BY <1>3, GapsFact
<1>6. TypeInv'
  <2>1. wk' \in [Workers -> Workings] /\ queue' \in Seq(Slices) /\ wanted' \subseteq Blocks
    BY <1>2, <1>4, <1>5
  <2> QED BY <1>1, <1>2, <2>1 DEF TypeInv
<1>7. Partition(queue', Chunks', settled', wanted')
  <2>1. Chunks' = [w \in Workers |-> << 0, 0 >>]
    BY <1>2, <1>4 DEF Chunks
  <2> QED BY <2>1, <1>2, <1>3, PartitionStarts
<1>8. PartInv'
  BY <1>2, <1>7 DEF PartInv
<1>9. WorkInv'
  BY <1>2, <1>4 DEF WorkInv
<1>10. LeaveInv'
  <2>1. PICK w \in Workers : TRUE
    BY Constants
  <2>2. wk'[w].pc = IF Blocks \subseteq have THEN "ok" ELSE "top"
    BY <1>2, <1>4
  <2> QED BY <2>2, <1>2, <1>3, <1>5 DEF LeaveInv, OkMeansComplete
<1> QED BY <1>6, <1>8, <1>9, <1>10 DEF DownInv

(* All workers have left uncancelled: every missing block is over.         *)
LEMMA JoinStep ==
  ASSUME DownInv, JoinAll
  PROVE  DownInv'
<1>1. TypeInv /\ PartInv /\ WorkInv /\ LeaveInv /\ run = "running" /\ run' = "ok"
      /\ (\A w \in Workers : wk[w].pc = "ok")
      /\ UNCHANGED << have, queue, mult, wk, heals, pause, cancelled, wanted, settled >>
  BY DEF DownInv, JoinAll
<1>2. Partition(queue, Chunks, settled, wanted)
  BY <1>1 DEF PartInv
<1>3. ASSUME ~ShortBodies, ~cancelled PROVE Blocks \subseteq have
  <2>1. queue = <<>> /\ settled \subseteq have /\ Blocks \ wanted \subseteq have
    BY <1>1, <1>3 DEF LeaveInv
  <2>2. \A w \in Workers : Chunks[w] = << 0, 0 >>
    BY <1>1, <1>3 DEF WorkInv, Chunks
  <2>3. ASSUME NEW b \in Blocks, b \in wanted PROVE b \in settled
    <3>1. \/ b \in settled
          \/ \E i \in 1..Len(queue) : b \in Span(queue[i])
          \/ \E w \in Workers : b \in Span(Chunks[w])
      BY <1>2, <2>3 DEF Partition, Together
    <3>2. ~\E w \in Workers : b \in Span(Chunks[w])
      BY <2>2, NothingSpanned
    <3>3. 1..Len(queue) = {}
      BY <2>1
    <3> QED BY <3>1, <3>2, <3>3
  <2> QED BY <2>1, <2>3
<1>4. Chunks' = Chunks
  BY <1>1 DEF Chunks
<1>5. TypeInv' /\ WorkInv'
  BY <1>1 DEF TypeInv, WorkInv
<1>6. PartInv'
  BY <1>1, <1>2, <1>4 DEF PartInv
<1>7. LeaveInv'
  BY <1>1, <1>3 DEF LeaveInv, OkMeansComplete
<1> QED BY <1>5, <1>6, <1>7 DEF DownInv

LEMMA OutsideStep ==
  ASSUME DownInv, JoinError \/ Cancel \/ AbortRun \/ CheckFreeSpace \/ UNCHANGED vars
  PROVE  DownInv'
<1>1. TypeInv /\ PartInv /\ WorkInv /\ LeaveInv
  BY DEF DownInv
<1>2. /\ UNCHANGED << have, queue, mult, wk, wanted, settled >>
      /\ run' = run \/ (run = "running" /\ run' \in {"err", "aborted"})
      /\ cancelled' = cancelled \/ (cancelled' = TRUE /\ run # "ok")
  BY DEF JoinError, Cancel, AbortRun, CheckFreeSpace, vars
<1>3. pause' \in [value : BOOLEAN, version : Nat]
  <2>1. pause \in [value : BOOLEAN, version : Nat]
    BY <1>1 DEF TypeInv
  <2>2. ASSUME pause' = [value |-> ~pause.value, version |-> pause.version + 1]
        PROVE  pause' \in [value : BOOLEAN, version : Nat]
    <3>1. pause.version + 1 \in Nat
      BY <2>1
    <3>2. (~pause.value) \in BOOLEAN
      OBVIOUS
    <3> QED BY <3>1, <3>2, <2>2, Zenon
  <2> QED BY <2>1, <2>2 DEF JoinError, Cancel, AbortRun, CheckFreeSpace, vars
<1>4. Chunks' = Chunks
  BY <1>2 DEF Chunks
<1>5. TypeInv'
  BY <1>1, <1>2, <1>3 DEF TypeInv
<1>6. PartInv'
  <2>1. run' = "init" <=> run = "init"
    BY <1>2
  <2> QED BY <1>1, <1>2, <1>4, <2>1 DEF PartInv
<1>7. WorkInv'
  BY <1>1, <1>2 DEF WorkInv, TypeInv
<1>8. LeaveInv'
  BY <1>1, <1>2 DEF LeaveInv, OkMeansComplete, TypeInv
<1> QED BY <1>5, <1>6, <1>7, <1>8 DEF DownInv

LEMMA DownInit == Init => DownInv
<1> SUFFICES ASSUME Init PROVE DownInv
  OBVIOUS
<1>1. have \subseteq Blocks /\ queue = <<>> /\ mult = 1 /\ wk = [w \in Workers |-> Idle]
      /\ pause \in [value : BOOLEAN, version : {0}] /\ cancelled = FALSE /\ run = "init"
      /\ wanted = {} /\ settled = {}
  BY DEF Init
<1>2. Idle \in Workings /\ Idle.chunk = << 0, 0 >> /\ Idle.pc = "top"
  BY IdleValues
<1>3. TypeInv
  <2>1. pause \in [value : BOOLEAN, version : Nat]
    <3>1. \A p \in [value : BOOLEAN, version : {0}] : p \in [value : BOOLEAN, version : Nat]
      OBVIOUS
    <3> QED BY <1>1, <3>1
  <2>2. queue \in Seq(Slices) /\ mult \in Nat
    <3>1. << >> \in Seq(Slices) /\ 1 \in Nat
      OBVIOUS
    <3> QED BY <1>1, <3>1
  <2>4. cancelled \in BOOLEAN
    BY <1>1
  <2>3. wk \in [Workers -> Workings]
    BY <1>1, <1>2
  <2> QED BY <1>1, <2>1, <2>2, <2>3, <2>4 DEF TypeInv
<1>4. PartInv
  BY <1>1 DEF PartInv
<1>5. WorkInv
  <2>1. \A w \in Workers : wk[w].pc = "top" /\ wk[w].chunk = << 0, 0 >>
    BY <1>1, <1>2
  <2> QED BY <2>1 DEF WorkInv
<1>6. LeaveInv
  BY <1>1 DEF LeaveInv, OkMeansComplete
<1> QED BY <1>3, <1>4, <1>5, <1>6 DEF DownInv

LEMMA DownStep == DownInv /\ [Next]_vars => DownInv'
<1> SUFFICES ASSUME DownInv, [Next]_vars PROVE DownInv'
  OBVIOUS
<1>1. CASE Start BY <1>1, StartStep
<1>2. CASE JoinAll BY <1>2, JoinStep
<1>3. CASE JoinError \/ Cancel \/ AbortRun \/ CheckFreeSpace \/ UNCHANGED vars
  BY <1>3, OutsideStep
<1>4. ASSUME NEW w \in Workers, WorkerStep(w) PROVE DownInv'
  BY <1>4, TopStep, PauseStep, TakeStep, GoOnStep, FailStep, HealStep, HeadersStep, DataStep,
     EofStep DEF WorkerStep
<1> QED BY <1>1, <1>2, <1>3, <1>4 DEF Next

-----------------------------------------------------------------------------
(* Disjoint places mean one hand for each block.                           *)
LEMMA OneHand == DownInv => EachBlockOnce
<1> SUFFICES ASSUME DownInv, run # "init", NEW b \in Blocks
             PROVE  Hands(b) = IF b \in wanted THEN 1 ELSE 0
  BY DEF EachBlockOnce
<1> DEFINE Q == {i \in 1..Len(queue) : b \in Span(queue[i])}
           W == {w \in Workers : b \in Span(wk[w].chunk)}
           s == IF b \in settled THEN 1 ELSE 0
<1>1. Hands(b) = Cardinality(Q) + Cardinality(W) + s
  BY DEF Hands
<1>2. /\ OneSlice(queue) /\ OneChunk(Chunks) /\ SliceOrChunk(queue, Chunks)
      /\ NotAgain(queue, Chunks, settled) /\ Together(queue, Chunks, settled, wanted)
      /\ \A w \in Workers : Chunks[w] = wk[w].chunk
  BY DEF DownInv, PartInv, Partition, Chunks
<1>3. (Q = {} \/ \E i : Q = {i}) /\ (W = {} \/ \E w : W = {w})
  <2>1. \A i, j \in Q : i = j
    BY <1>2 DEF OneSlice
  <2>2. \A v, w \in W : v = w
    BY <1>2 DEF OneChunk
  <2> HIDE DEF Q, W
  <2> QED BY <2>1, <2>2
<1>4. Cardinality(Q) = (IF Q = {} THEN 0 ELSE 1) /\ Cardinality(W) = (IF W = {} THEN 0 ELSE 1)
  <2> HIDE DEF Q, W
  <2> QED BY <1>3, FS_EmptySet, FS_Singleton
<1>5. /\ ~(Q # {} /\ W # {})
      /\ b \in settled => Q = {} /\ W = {}
      /\ b \in wanted <=> b \in settled \/ Q # {} \/ W # {}
  BY <1>2 DEF SliceOrChunk, NotAgain, Together
<1> HIDE DEF Q, W
<1> QED BY <1>1, <1>4, <1>5

(* run_downloader (worker.rs): through any interleaving of workers that cut*)
(* chunks off the queue, shrink them and put the rest back, every missing  *)
(* block is in exactly one place and no block on disk is fetched again.    *)
THEOREM BlocksFetchedOnce == Spec => []EachBlockOnce
<1>1. Spec => []DownInv
  BY DownInit, DownStep, PTL DEF Spec
<1> QED BY <1>1, OneHand, PTL

(* run_downloader returns Ok to a session nobody cancelled only when the   *)
(* window is on disk, if every body is as long as its range.               *)
THEOREM OkIsComplete == Spec => [](~ShortBodies => OkMeansComplete)
<1>1. Spec => []DownInv
  BY DownInit, DownStep, PTL DEF Spec
<1>2. DownInv => (~ShortBodies => OkMeansComplete)
  BY DEF DownInv, LeaveInv
<1> QED BY <1>1, <1>2, PTL

-----------------------------------------------------------------------------
(* run_downloader returns Ok after its last worker has left.               *)
JoinedInv == run = "ok" => \A w \in Workers : wk[w].pc = "ok"

LEMMA JoinedStep == DownInv /\ JoinedInv /\ [Next]_vars => JoinedInv'
<1> SUFFICES ASSUME DownInv, JoinedInv, [Next]_vars, run' = "ok", NEW v \in Workers
             PROVE  wk'[v].pc = "ok"
  BY DEF JoinedInv
<1>1. CASE Start
  <2>1. Blocks \subseteq have
    BY <1>1 DEF Start
  <2>2. wk'[v] = [Idle EXCEPT !.pc = "ok"]
    BY <1>1, <2>1 DEF Start
  <2> QED BY <2>2 DEF Idle
<1>2. CASE JoinAll
  BY <1>2 DEF JoinAll
<1>3. CASE JoinError \/ AbortRun
  BY <1>3 DEF JoinError, AbortRun
<1>4. CASE Cancel \/ CheckFreeSpace \/ UNCHANGED vars
  BY <1>4 DEF Cancel, CheckFreeSpace, vars, JoinedInv
<1>5. ASSUME NEW w \in Workers, WorkerStep(w) PROVE FALSE
  <2>1. run' = run
    BY <1>5 DEF WorkerStep, TopCancelled, TopGo, PauseChanged, TakeChunk, QueueEmpty, AcquirePermit,
       HeadersFail, LinkExpired, HealLock, HealFails, HealSucceeds, HeadersOk, BodyData, BodyEof,
       BodyFails, BackoffOver, SeesCancel, AbortWorker
  <2>2. wk[w].pc = "ok"
    BY <2>1 DEF JoinedInv
  <2>3. wk[w].pc # "ok"
    BY <1>5 DEF WorkerStep, TopCancelled, TopGo, PauseChanged, TakeChunk, QueueEmpty, AcquirePermit,
       HeadersFail, LinkExpired, HealLock, HealFails, HealSucceeds, HeadersOk, BodyData, BodyEof,
       BodyFails, BackoffOver, SeesCancel, AbortWorker, AwaitPc
  <2> QED BY <2>2, <2>3
<1> QED BY <1>1, <1>2, <1>3, <1>4, <1>5 DEF Next

(* Each step of the downloader is a step of the task or none at all.       *)
LEMMA TaskStep ==
  DownInv /\ JoinedInv /\ [Next]_vars
    => [Task!Next]_<< have, cancelled, IF run \in {"init", "running"} THEN "running" ELSE run >>
<1> DEFINE task == IF run \in {"init", "running"} THEN "running" ELSE run
<1> SUFFICES ASSUME DownInv, JoinedInv, [Next]_vars
             PROVE  Task!Next \/ UNCHANGED << have, cancelled, task >>
  OBVIOUS
<1>1. CASE Start
  <2>1. /\ have' = have /\ cancelled' = cancelled /\ run = "init"
        /\ run' = IF Blocks \subseteq have THEN "ok" ELSE "running"
    BY <1>1 DEF Start
  <2>2. CASE Blocks \subseteq have
    <3>1. task = "running" /\ task' = "ok" /\ Task!Blocks \subseteq have
      BY <2>1, <2>2 DEF Blocks, Task!Blocks
    <3> QED BY <2>1, <3>1 DEF Task!Next, Task!Succeed
  <2>3. CASE ~(Blocks \subseteq have)
    BY <2>1, <2>3
  <2> QED BY <2>2, <2>3
<1>2. CASE JoinAll
  <2>1. /\ have' = have /\ cancelled' = cancelled /\ run = "running" /\ run' = "ok"
    BY <1>2 DEF JoinAll
  <2>2. cancelled \/ ShortBodies \/ Blocks \subseteq have
    <3>1. (~ShortBodies => OkMeansComplete)'
      BY <1>2, JoinStep DEF DownInv, LeaveInv
    <3>2. ~ShortBodies /\ ~cancelled => Blocks \subseteq have
      BY <2>1, <3>1 DEF OkMeansComplete
    <3> QED BY <3>2
  <2>3. task = "running" /\ task' = "ok" /\ Task!Blocks = Blocks
    BY <2>1 DEF Blocks, Task!Blocks
  <2> QED BY <2>1, <2>2, <2>3 DEF Task!Next, Task!Succeed
<1>3. CASE JoinError
  <2>1. /\ have' = have /\ cancelled' = cancelled /\ task = "running" /\ task' = "err"
    BY <1>3 DEF JoinError
  <2> QED BY <2>1 DEF Task!Next, Task!Fail
<1>4. CASE AbortRun
  <2>1. /\ have' = have /\ cancelled' = cancelled /\ cancelled /\ task = "running" /\ task' = "aborted"
    BY <1>4 DEF AbortRun
  <2> QED BY <2>1 DEF Task!Next, Task!Abort
<1>5. CASE Cancel
  <2>1. /\ have' = have /\ ~cancelled /\ cancelled' = TRUE /\ task = "running" /\ task' = "running"
    BY <1>5 DEF Cancel
  <2> QED BY <2>1 DEF Task!Next, Task!Cancel
<1>6. CASE CheckFreeSpace \/ UNCHANGED vars
  BY <1>6 DEF CheckFreeSpace, vars
<1>7. ASSUME NEW w \in Workers, BodyData(w) PROVE Task!Next
  <2>1. /\ wk[w].pc = "body" /\ wk[w].pos < wk[w].chunk[2] /\ have' = have \cup {wk[w].pos}
        /\ cancelled' = cancelled /\ run' = run
    BY <1>7 DEF BodyData
  <2>2. /\ wk[w].chunk \in Slices /\ wk[w].pos \in Nat /\ wk[w].chunk[1] <= wk[w].pos
    BY <2>1, WorkerTyped DEF DownInv, WorkInv
  <2>3. wk[w].chunk[2] \in Nat /\ wk[w].chunk[2] <= Window /\ Window \in Nat
    BY <2>2, SpanIn, Constants
  <2>4. wk[w].pos \in Task!Blocks
    BY <2>1, <2>2, <2>3 DEF Task!Blocks
  <2>5. task # "ok" /\ task' = task
    BY <2>1 DEF JoinedInv
  <2>6. Task!Write(wk[w].pos)
    BY <2>1, <2>5 DEF Task!Write
  <2> QED BY <2>4, <2>6 DEF Task!Next
<1>8. ASSUME NEW w \in Workers, WorkerStep(w), ~BodyData(w)
      PROVE  UNCHANGED << have, cancelled, run >>
  BY <1>8 DEF WorkerStep, TopCancelled, TopGo, PauseChanged, TakeChunk, QueueEmpty, AcquirePermit,
     HeadersFail, LinkExpired, HealLock, HealFails, HealSucceeds, HeadersOk, BodyEof,
     BodyFails, BackoffOver, SeesCancel, AbortWorker
<1>9. ASSUME NEW w \in Workers, WorkerStep(w)
      PROVE  Task!Next \/ UNCHANGED << have, cancelled, task >>
  <2>1. CASE BodyData(w)
    BY <1>7, <2>1
  <2>2. CASE ~BodyData(w)
    BY <1>8, <1>9, <2>2
  <2> QED BY <2>1, <2>2
<1> QED BY <1>1, <1>2, <1>3, <1>4, <1>5, <1>6, <1>9 DEF Next

(* The queue, the chunks, retries, link heals, permits and the pause of    *)
(* run_downloader implement the task that the reads of a session wait for: *)
(* blocks of the window come, Ok means all of them and nothing after it.   *)
THEOREM DownloaderIsATask == Spec => ImplementsTask
<1>1. Init => Task!Init
  BY DEF Init, Task!Init, Blocks, Task!Blocks
<1>2. Init => JoinedInv
  BY DEF Init, JoinedInv
<1> QED BY <1>1, <1>2, DownInit, DownStep, JoinedStep, TaskStep, PTL
        DEF Spec, ImplementsTask, Task!Spec
=============================================================================
