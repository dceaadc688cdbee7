-------------------------- MODULE CacheStoreProofs --------------------------
(***************************************************************************)
(* Theorems about CacheStore, for any number of keys, sizes, reads, workers*)
(* and items, and for every setting: with or without TTL, LRU, invalidation*)
(* failing calls and kills.                                                *)
(***************************************************************************)
EXTENDS CacheStore, FiniteSetTheorems, TLAPS

(* Where an actor holds an Arc, and where a read still needs its request.  *)
ArcPc == {"mark", "work", "write", "insert"} \cup OpenPc \cup FlushPc
ReqPc == {"entry", "restore", "purge"}

(* Files, rows and items that know nothing beyond their size.              *)
Files == {f \in FileType : \A b \in f.data : b < f.size}
Rows  == {r \in RowType : /\ \A b \in r.ranges : b < r.size
                          /\ r.exists \/ r.ranges = {}}
Items == {i \in ItemType : \A b \in i.ranges : b < i.size}

(***************************************************************************)
(* The types, with what the actions need of the places where they are used:*)
(* which actor holds an item, which request is complete, which key the     *)
(* eviction pass is about to unlink.                                       *)
(***************************************************************************)
FileOK == file \in [Keys -> Files]
RowOK  == row \in [Keys -> Rows]
ItemOK == item \in [ItemIds -> Items]
MapOK ==
  /\ items \in [Keys -> ItemIds \cup {None}]
  /\ locked \subseteq Keys
  /\ destroyed \subseteq Keys
  /\ env \in Settings
PcOK ==
  /\ pc \in [Actors -> ReaderPc \cup WorkerPc \cup EvictorPc]
  /\ \A r \in Readers : pc[r] \in ReaderPc
  /\ \A w \in Workers : pc[w] \in WorkerPc
  /\ pc[Evictor] \in EvictorPc
ArcOK ==
  /\ arc \in [Actors -> ItemIds \cup {None}]
  /\ \A a \in Actors : pc[a] \in ArcPc => arc[a] \in ItemIds
ReqOK ==
  /\ req \in [Readers -> [key : Keys \cup {None}, size : Nat]]
  /\ \A r \in Readers : pc[r] \in ReqPc => req[r].key \in Keys
WriteOK ==
  /\ blk \in [Workers -> Nat]
  /\ fd \in [Workers -> {"live", "stale"}]
  /\ \A w \in Workers : pc[w] \in {"write", "insert"} =>
       blk[w] \in Blocks /\ blk[w] < item[arc[w]].size
SnapOK ==
  /\ snap \in [Actors -> SUBSET Blocks]
  /\ \A a \in Actors : pc[a] = "upsert" => snap[a] \subseteq item[arc[a]].ranges
EvOK ==
  /\ ev = [todo |-> ev.todo, doomed |-> ev.doomed, victim |-> ev.victim,
           cands |-> ev.cands, total |-> ev.total]
  /\ ev.todo \subseteq Keys
  /\ \A c \in ev.cands : c[1] \in Keys
  /\ pc[Evictor] = "ttlunlink" => ev.victim \in Keys
  /\ pc[Evictor] = "lruunlink" => ev.victim[1] \in Keys

(* An item in use belongs to a key, a mapped one to the key it is under.   *)
KeyOK ==
  /\ \A i \in Reachable : item[i].key \in Keys
  /\ \A k \in Keys : items[k] # None => item[items[k]].key = k

TypeInv ==
  /\ FileOK /\ RowOK /\ MapOK /\ ItemOK /\ PcOK /\ ArcOK /\ ReqOK /\ WriteOK
  /\ SnapOK /\ EvOK /\ KeyOK

LEMMA ActorKinds ==
  /\ \A r \in Readers : r \in Actors /\ r # Evictor /\ r \notin Workers
  /\ \A w \in Workers : w \in Actors /\ w # Evictor /\ w \notin Readers
  /\ Evictor \in Actors /\ Evictor \notin Readers /\ Evictor \notin Workers
  /\ None \notin ItemIds /\ None \notin Keys
BY Constants DEF Actors

LEMMA BlocksAreNats == Blocks \subseteq Nat
BY Constants DEF Blocks

(* Every way in which the code makes one file, row or item from another.   *)
LEMMA FileValues ==
  ASSUME NEW f \in Files
  PROVE  /\ NoFile \in Files
         /\ [f EXCEPT !.fresh = FALSE] \in Files
         /\ \A size \in Nat : SetLen(f, size) \in Files
         /\ \A b \in Blocks :
              [f EXCEPT !.data = @ \cup {b}, !.size = IF @ > b THEN @ ELSE b + 1] \in Files
<1>1. NoFile \in Files
  BY DEF NoFile, Files, FileType
<1>2. [f EXCEPT !.fresh = FALSE] \in Files
  BY DEF Files, FileType
<1>3. ASSUME NEW size \in Nat PROVE SetLen(f, size) \in Files
  <2>1. (IF f.exists THEN f.fresh ELSE InPass) \in BOOLEAN
    BY DEF Files, FileType, InPass
  <2> QED BY <2>1 DEF Files, FileType, SetLen
<1>4. ASSUME NEW b \in Blocks
      PROVE  [f EXCEPT !.data = @ \cup {b}, !.size = IF @ > b THEN @ ELSE b + 1] \in Files
  <2>1. b \in Nat /\ f.size \in Nat /\ f.data \subseteq Blocks /\ \A c \in f.data : c \in Nat
    BY BlocksAreNats DEF Files, FileType
  <2> DEFINE n == IF f.size > b THEN f.size ELSE b + 1
  <2>2. n \in Nat /\ f.size <= n /\ b < n
    BY <2>1
  <2>3. \A c \in f.data \cup {b} : c < n
    <3> HIDE DEF n
    <3> QED BY <2>1, <2>2 DEF Files
  <2>4. f.data \cup {b} \in SUBSET Blocks
    BY <2>1
  <2> HIDE DEF n
  <2>5. [f EXCEPT !.data = f.data \cup {b}, !.size = n] \in Files
    BY <2>2, <2>3, <2>4 DEF Files, FileType
  <2> QED BY <2>5 DEF n
<1> QED BY <1>1, <1>2, <1>3, <1>4

LEMMA RowValues ==
  ASSUME NEW r \in Rows
  PROVE  /\ NoRow \in Rows
         /\ [r EXCEPT !.fresh = FALSE] \in Rows
BY DEF Rows, RowType, NoRow

(* What flush_ranges stores for an item.                                   *)
LEMMA StoredRow ==
  ASSUME NEW i \in Items, NEW s \in SUBSET i.ranges
  PROVE  [exists |-> TRUE, size |-> i.size, ranges |-> s, fresh |-> InPass] \in Rows
<1>1. InPass \in BOOLEAN
  BY DEF InPass
<1> QED BY <1>1 DEF Items, ItemType, Rows, RowType

LEMMA ItemValues ==
  ASSUME NEW i \in Items
  PROVE  /\ NoItem \in Items
         /\ \A n \in Nat : [i EXCEPT !.opens = n] \in Items
         /\ [i EXCEPT !.dirty = FALSE] \in Items
         /\ \A b \in Blocks : b < i.size =>
              [i EXCEPT !.ranges = i.ranges \cup {b}, !.dirty = TRUE] \in Items
BY DEF Items, ItemType, NoItem

(* What get_or_create makes of a row.                                      *)
LEMMA InstalledItem ==
  ASSUME NEW k \in Keys, NEW size \in Nat, NEW s \in SUBSET Blocks, \A b \in s : b < size
  PROVE  [NoItem EXCEPT !.key = k, !.size = size, !.ranges = s] \in Items
BY DEF Items, ItemType, NoItem

LEMMA TypesImplyTypeOK == TypeInv => TypeOK
BY DEF TypeInv, TypeOK, FileOK, RowOK, MapOK, ItemOK, PcOK, ArcOK, ReqOK, WriteOK, SnapOK, Files,
   Rows, Items

LEMMA InitTypes == Init => TypeInv
<1> SUFFICES ASSUME Init PROVE TypeInv
  OBVIOUS
<1>1. NoFile \in Files /\ NoRow \in Rows /\ NoItem \in Items
  BY DEF NoFile, NoRow, NoItem, Files, Rows, Items, FileType, RowType, ItemType
<1>2. FileOK /\ RowOK /\ ItemOK
  BY <1>1 DEF Init, FileOK, RowOK, ItemOK
<1>3. MapOK /\ PcOK /\ ArcOK /\ ReqOK /\ WriteOK /\ SnapOK
  BY ActorKinds DEF Init, MapOK, PcOK, ArcOK, ReqOK, WriteOK, SnapOK, NoReq, ArcPc, ReqPc,
     OpenPc, FlushPc, ReaderPc, WorkerPc, EvictorPc
<1>4. EvOK /\ KeyOK
  BY ActorKinds DEF Init, EvOK, KeyOK, Reachable, NoPass
<1> QED BY <1>2, <1>3, <1>4 DEF TypeInv

LEMMA CollectedItems ==
  ASSUME NEW c \in [ItemIds -> Items], NEW m, NEW held
  PROVE  Collect(c, m, held) \in [ItemIds -> Items]
<1>1. NoItem \in Items
  BY DEF NoItem, Items, ItemType
<1> QED BY <1>1 DEF Collect

LEMMA GetHitTypes ==
  ASSUME TypeInv, NEW p \in Readers, NEW k \in Keys, GetHit(p, k), UNCHANGED env
  PROVE  TypeInv'
<1>1. FileOK' /\ RowOK'
  BY ActorKinds DEF TypeInv, FileOK, RowOK, ItemOK, MapOK, PcOK, ArcOK, ReqOK, WriteOK, SnapOK,
     EvOK, KeyOK, GetHit, disk, memory
<1>2. MapOK' /\ PcOK' /\ ArcOK' /\ ReqOK' /\ WriteOK' /\ SnapOK' /\ EvOK' /\ KeyOK'
  BY ActorKinds DEF TypeInv, MapOK, PcOK, ArcOK, ReqOK, WriteOK, SnapOK, EvOK, KeyOK, FileOK,
     RowOK, ItemOK, ReaderPc, WorkerPc, EvictorPc, OpenPc, FlushPc, ArcPc, ReqPc, Reachable,
     GetHit, disk, memory
<1>3. ItemOK'
  <2>1. item[items[k]] \in Items /\ item[items[k]].opens + 1 \in Nat
    BY DEF TypeInv, MapOK, ItemOK, Items, ItemType, GetHit
  <2> QED BY <2>1, ItemValues DEF TypeInv, ItemOK, GetHit
<1> QED BY <1>1, <1>2, <1>3 DEF TypeInv

LEMMA GetMissTypes ==
  ASSUME TypeInv, NEW p \in Readers, NEW k \in Keys, NEW size \in env.sizes,
     GetMiss(p, k, size), UNCHANGED env
  PROVE  TypeInv'
<1>1. FileOK' /\ RowOK' /\ ItemOK'
  BY ActorKinds DEF TypeInv, FileOK, RowOK, ItemOK, MapOK, PcOK, ArcOK, ReqOK, WriteOK, SnapOK,
     EvOK, KeyOK, GetMiss, disk, memory
<1>2. MapOK' /\ PcOK' /\ ArcOK' /\ WriteOK' /\ SnapOK' /\ EvOK' /\ KeyOK'
  BY ActorKinds DEF TypeInv, MapOK, PcOK, ArcOK, WriteOK, SnapOK, EvOK, KeyOK, FileOK, RowOK,
     ItemOK, ReqOK, ReaderPc, WorkerPc, EvictorPc, OpenPc, FlushPc, ArcPc, Reachable, GetMiss,
     disk, memory
<1>3. ReqOK'
  BY Constants DEF TypeInv, MapOK, ReqOK, ReqPc, GetMiss
<1> QED BY <1>1, <1>2, <1>3 DEF TypeInv

LEMMA EntryOccupiedTypes ==
  ASSUME TypeInv, NEW p \in Readers, EntryOccupied(p), UNCHANGED env
  PROVE  TypeInv'
<1>1. FileOK' /\ RowOK' /\ ItemOK'
  BY ActorKinds DEF TypeInv, FileOK, RowOK, ItemOK, MapOK, PcOK, ArcOK, ReqOK, WriteOK, SnapOK,
     EvOK, KeyOK, EntryOccupied, NoReq, disk, memory
<1>2. MapOK' /\ PcOK' /\ ArcOK' /\ ReqOK' /\ WriteOK' /\ SnapOK' /\ EvOK' /\ KeyOK'
  BY ActorKinds DEF TypeInv, MapOK, PcOK, ArcOK, ReqOK, WriteOK, SnapOK, EvOK, KeyOK, FileOK,
     RowOK, ItemOK, ReaderPc, WorkerPc, EvictorPc, OpenPc, FlushPc, ArcPc, ReqPc, Reachable,
     EntryOccupied, NoReq, disk, memory
<1> QED BY <1>1, <1>2 DEF TypeInv

LEMMA EntryVacantTypes ==
  ASSUME TypeInv, NEW p \in Readers, EntryVacant(p), UNCHANGED env
  PROVE  TypeInv'
<1>1. RowOK' /\ ItemOK'
  BY ActorKinds DEF TypeInv, RowOK, ItemOK, FileOK, MapOK, PcOK, ArcOK, ReqOK, WriteOK, SnapOK,
     EvOK, KeyOK, EntryVacant, OpenFile, disk, memory
<1>2. MapOK' /\ PcOK' /\ ArcOK' /\ ReqOK' /\ WriteOK' /\ SnapOK' /\ EvOK' /\ KeyOK'
  BY ActorKinds DEF TypeInv, MapOK, PcOK, ArcOK, ReqOK, WriteOK, SnapOK, EvOK, KeyOK, FileOK,
     RowOK, ItemOK, ReaderPc, WorkerPc, EvictorPc, OpenPc, FlushPc, ArcPc, ReqPc, Reachable,
     EntryVacant, OpenFile, disk, memory
<1>3. FileOK'
  <2>1. req[p].key \in Keys /\ req[p].size \in Nat
    BY DEF TypeInv, ReqOK, ReqPc, EntryVacant
  <2> QED BY <2>1, FileValues DEF TypeInv, FileOK, EntryVacant, OpenFile
<1> QED BY <1>1, <1>2, <1>3 DEF TypeInv

LEMMA EntryFailsTypes ==
  ASSUME TypeInv, NEW p \in Readers, EntryFails(p), UNCHANGED env
  PROVE  TypeInv'
<1>1. RowOK' /\ ItemOK'
  BY ActorKinds DEF TypeInv, FileOK, RowOK, ItemOK, MapOK, PcOK, ArcOK, ReqOK, WriteOK, SnapOK,
     EvOK, KeyOK, EntryFails, NoReq, disk, memory
<1>2. MapOK' /\ PcOK' /\ ArcOK' /\ ReqOK' /\ WriteOK' /\ SnapOK' /\ EvOK' /\ KeyOK'
  BY ActorKinds DEF TypeInv, MapOK, PcOK, ArcOK, ReqOK, WriteOK, SnapOK, EvOK, KeyOK, FileOK,
     RowOK, ItemOK, ReaderPc, WorkerPc, EvictorPc, OpenPc, FlushPc, ArcPc, ReqPc, Reachable,
     EntryFails, NoReq, disk, memory
<1>3. FileOK'
  <2>1. req[p].key \in Keys /\ file \in [Keys -> Files]
    BY DEF TypeInv, ReqOK, ReqPc, FileOK, EntryFails
  <2>2. SetLen(file[req[p].key], 0) \in Files
    BY <2>1, FileValues
  <2>3. [file EXCEPT ![req[p].key] = SetLen(@, 0)] \in [Keys -> Files]
    BY <2>1, <2>2
  <2>4. file' \in [Keys -> Files]
    BY <2>1, <2>3, Zenon DEF EntryFails
  <2> QED BY <2>4 DEF FileOK
<1> QED BY <1>1, <1>2, <1>3 DEF TypeInv

LEMMA RestoreTypes ==
  ASSUME TypeInv, NEW p \in Readers, Restore(p), UNCHANGED env
  PROVE  TypeInv'
<1>1. FileOK' /\ RowOK'
  BY ActorKinds DEF TypeInv, FileOK, RowOK, ItemOK, MapOK, PcOK, ArcOK, ReqOK, WriteOK, SnapOK,
     EvOK, KeyOK, Restore, Install, Unused, NoReq, disk, memory
<1>2. MapOK' /\ PcOK' /\ ArcOK' /\ ReqOK' /\ WriteOK' /\ SnapOK' /\ EvOK' /\ KeyOK'
  BY ActorKinds DEF TypeInv, MapOK, PcOK, ArcOK, ReqOK, WriteOK, SnapOK, EvOK, KeyOK, FileOK,
     RowOK, ItemOK, ReaderPc, WorkerPc, EvictorPc, OpenPc, FlushPc, ArcPc, ReqPc, Reachable,
     Restore, Install, Unused, NoReq, disk, memory
<1>3. ItemOK'
  <2>1. req[p].key \in Keys /\ req[p].size \in Nat /\ row[req[p].key] \in Rows
    BY DEF TypeInv, ReqOK, RowOK, ReqPc, Restore
  <2>2. /\ row[req[p].key].ranges \in SUBSET Blocks
        /\ \A b \in row[req[p].key].ranges : b < req[p].size
    BY <2>1 DEF Rows, RowType, Restore
  <2> DEFINE new == [NoItem EXCEPT !.key = req[p].key, !.size = req[p].size,
                                   !.ranges = row[req[p].key].ranges]
  <2>3. new \in Items
    BY <2>1, <2>2, InstalledItem
  <2>4. PICK i \in ItemIds : item' = [item EXCEPT ![i] = new]
    BY Zenon DEF Restore, Install, Unused
  <2> HIDE DEF new
  <2> QED BY <2>3, <2>4 DEF TypeInv, ItemOK
<1> QED BY <1>1, <1>2, <1>3 DEF TypeInv

LEMMA RestoreMismatchTypes ==
  ASSUME TypeInv, NEW p \in Readers, RestoreMismatch(p), UNCHANGED env
  PROVE  TypeInv'
<1>1. RowOK' /\ ItemOK'
  BY ActorKinds DEF TypeInv, RowOK, ItemOK, FileOK, MapOK, PcOK, ArcOK, ReqOK, WriteOK, SnapOK,
     EvOK, KeyOK, RestoreMismatch, OpenFile, disk, memory
<1>2. MapOK' /\ PcOK' /\ ArcOK' /\ ReqOK' /\ WriteOK' /\ SnapOK' /\ EvOK' /\ KeyOK'
  BY ActorKinds DEF TypeInv, MapOK, PcOK, ArcOK, ReqOK, WriteOK, SnapOK, EvOK, KeyOK, FileOK,
     RowOK, ItemOK, ReaderPc, WorkerPc, EvictorPc, OpenPc, FlushPc, ArcPc, ReqPc, Reachable,
     RestoreMismatch, OpenFile, disk, memory
<1>3. FileOK'
  <2>1. req[p].key \in Keys /\ req[p].size \in Nat
    BY DEF TypeInv, ReqOK, ReqPc, RestoreMismatch
  <2>2. CASE file[req[p].key].exists
    <3>1. OpenFile(p)
      BY <2>2 DEF RestoreMismatch
    <3> QED BY <2>1, <3>1, FileValues DEF TypeInv, FileOK, OpenFile
  <2>3. CASE ~file[req[p].key].exists
    BY <2>3 DEF TypeInv, FileOK, RestoreMismatch
  <2> QED BY <2>2, <2>3
<1> QED BY <1>1, <1>2, <1>3 DEF TypeInv

LEMMA PurgeTypes ==
  ASSUME TypeInv, NEW p \in Readers, Purge(p), UNCHANGED env
  PROVE  TypeInv'
<1>1. FileOK'
  BY ActorKinds DEF TypeInv, FileOK, RowOK, ItemOK, MapOK, PcOK, ArcOK, ReqOK, WriteOK, SnapOK,
     EvOK, KeyOK, Purge, Install, Unused, NoReq, disk, memory
<1>2. MapOK' /\ PcOK' /\ ArcOK' /\ ReqOK' /\ WriteOK' /\ SnapOK' /\ EvOK' /\ KeyOK'
  BY ActorKinds DEF TypeInv, MapOK, PcOK, ArcOK, ReqOK, WriteOK, SnapOK, EvOK, KeyOK, FileOK,
     RowOK, ItemOK, ReaderPc, WorkerPc, EvictorPc, OpenPc, FlushPc, ArcPc, ReqPc, Reachable,
     Purge, Install, Unused, NoReq, disk, memory
<1>3. RowOK'
  BY RowValues DEF TypeInv, RowOK, Purge
<1>4. ItemOK'
  <2>1. req[p].key \in Keys /\ req[p].size \in Nat
    BY DEF TypeInv, ReqOK, ReqPc, Purge
  <2> DEFINE new == [NoItem EXCEPT !.key = req[p].key, !.size = req[p].size,
                                   !.ranges = {}]
  <2>3. new \in Items
    BY <2>1, InstalledItem
  <2>4. PICK i \in ItemIds : item' = [item EXCEPT ![i] = new]
    BY Zenon DEF Purge, Install, Unused
  <2> HIDE DEF new
  <2> QED BY <2>3, <2>4 DEF TypeInv, ItemOK
<1> QED BY <1>1, <1>2, <1>3, <1>4 DEF TypeInv

LEMMA RestoreFailsTypes ==
  ASSUME TypeInv, NEW p \in Readers, RestoreFails(p), UNCHANGED env
  PROVE  TypeInv'
<1>1. FileOK' /\ RowOK' /\ ItemOK'
  BY ActorKinds DEF TypeInv, FileOK, RowOK, ItemOK, MapOK, PcOK, ArcOK, ReqOK, WriteOK, SnapOK,
     EvOK, KeyOK, RestoreFails, NoReq, disk, memory
<1>2. MapOK' /\ PcOK' /\ ArcOK' /\ ReqOK' /\ WriteOK' /\ SnapOK' /\ EvOK' /\ KeyOK'
  BY ActorKinds DEF TypeInv, MapOK, PcOK, ArcOK, ReqOK, WriteOK, SnapOK, EvOK, KeyOK, FileOK,
     RowOK, ItemOK, ReaderPc, WorkerPc, EvictorPc, OpenPc, FlushPc, ArcPc, ReqPc, Reachable,
     RestoreFails, NoReq, disk, memory
<1> QED BY <1>1, <1>2 DEF TypeInv

LEMMA MarkOpenTypes ==
  ASSUME TypeInv, NEW p \in Readers, MarkOpen(p), UNCHANGED env
  PROVE  TypeInv'
<1>1. FileOK' /\ RowOK'
  BY ActorKinds DEF TypeInv, FileOK, RowOK, ItemOK, MapOK, PcOK, ArcOK, ReqOK, WriteOK, SnapOK,
     EvOK, KeyOK, MarkOpen, disk, memory
<1>2. MapOK' /\ PcOK' /\ ArcOK' /\ ReqOK' /\ WriteOK' /\ SnapOK' /\ EvOK' /\ KeyOK'
  BY ActorKinds DEF TypeInv, MapOK, PcOK, ArcOK, ReqOK, WriteOK, SnapOK, EvOK, KeyOK, FileOK,
     RowOK, ItemOK, ReaderPc, WorkerPc, EvictorPc, OpenPc, FlushPc, ArcPc, ReqPc, Reachable,
     MarkOpen, disk, memory
<1>3. ItemOK'
  <2>1. arc[p] \in ItemIds
    BY ActorKinds DEF TypeInv, ArcOK, ArcPc, MarkOpen
  <2>2. item[arc[p]] \in Items /\ item[arc[p]].opens + 1 \in Nat
    BY <2>1 DEF TypeInv, ItemOK, Items, ItemType
  <2> QED BY <2>2, ItemValues DEF TypeInv, ItemOK, MarkOpen
<1> QED BY <1>1, <1>2, <1>3 DEF TypeInv

LEMMA ReleaseTypes ==
  ASSUME TypeInv, NEW p \in Readers, Release(p), UNCHANGED env
  PROVE  TypeInv'
<1>1. FileOK' /\ RowOK'
  BY ActorKinds DEF TypeInv, FileOK, RowOK, ItemOK, MapOK, PcOK, ArcOK, ReqOK, WriteOK, SnapOK,
     EvOK, KeyOK, Release, Collect, disk, memory
<1>2. MapOK' /\ PcOK' /\ ArcOK' /\ ReqOK' /\ WriteOK' /\ SnapOK' /\ EvOK' /\ KeyOK'
  BY ActorKinds DEF TypeInv, MapOK, PcOK, ArcOK, ReqOK, WriteOK, SnapOK, EvOK, KeyOK, FileOK,
     RowOK, ItemOK, ReaderPc, WorkerPc, EvictorPc, OpenPc, FlushPc, ArcPc, ReqPc, Reachable,
     Release, Collect, disk, memory
<1>3. ItemOK'
  <2>1. arc[p] \in ItemIds
    BY ActorKinds DEF TypeInv, ArcOK, ArcPc, OpenPc, Release
  <2> DEFINE n == IF item[arc[p]].opens = 0 THEN 0 ELSE item[arc[p]].opens - 1
  <2>2. item[arc[p]] \in Items /\ n \in Nat
    BY <2>1 DEF TypeInv, ItemOK, Items, ItemType
  <2>3. [item EXCEPT ![arc[p]].opens = n] \in [ItemIds -> Items]
    <3> HIDE DEF n
    <3> QED BY <2>1, <2>2, ItemValues DEF TypeInv, ItemOK
  <2> QED BY <2>3, CollectedItems DEF ItemOK, Release
<1> QED BY <1>1, <1>2, <1>3 DEF TypeInv

LEMMA ReleaseLastTypes ==
  ASSUME TypeInv, NEW p \in Readers, ReleaseLast(p), UNCHANGED env
  PROVE  TypeInv'
<1>1. FileOK' /\ RowOK'
  BY ActorKinds DEF TypeInv, FileOK, RowOK, ItemOK, MapOK, PcOK, ArcOK, ReqOK, WriteOK, SnapOK,
     EvOK, KeyOK, ReleaseLast, disk, memory
<1>2. MapOK' /\ PcOK' /\ ArcOK' /\ ReqOK' /\ WriteOK' /\ SnapOK' /\ EvOK' /\ KeyOK'
  BY ActorKinds DEF TypeInv, MapOK, PcOK, ArcOK, ReqOK, WriteOK, SnapOK, EvOK, KeyOK, FileOK,
     RowOK, ItemOK, ReaderPc, WorkerPc, EvictorPc, OpenPc, FlushPc, ArcPc, ReqPc, Reachable,
     ReleaseLast, disk, memory
<1>3. ItemOK'
  <2>1. arc[p] \in ItemIds
    BY ActorKinds DEF TypeInv, ArcOK, ArcPc, OpenPc, ReleaseLast
  <2> QED BY <2>1, ItemValues DEF TypeInv, ItemOK, ReleaseLast
<1> QED BY <1>1, <1>2, <1>3 DEF TypeInv

LEMMA InvalidateMapTypes ==
  ASSUME TypeInv, NEW p \in Readers, InvalidateMap(p), UNCHANGED env
  PROVE  TypeInv'
<1>1. FileOK' /\ RowOK'
  BY ActorKinds DEF TypeInv, FileOK, RowOK, ItemOK, MapOK, PcOK, ArcOK, ReqOK, WriteOK, SnapOK,
     EvOK, KeyOK, InvalidateMap, Collect, disk, memory
<1>2. MapOK' /\ PcOK' /\ ArcOK' /\ ReqOK' /\ WriteOK' /\ SnapOK' /\ EvOK' /\ KeyOK'
  BY ActorKinds DEF TypeInv, MapOK, PcOK, ArcOK, ReqOK, WriteOK, SnapOK, EvOK, KeyOK, FileOK,
     RowOK, ItemOK, ReaderPc, WorkerPc, EvictorPc, OpenPc, FlushPc, ArcPc, ReqPc, Reachable,
     InvalidateMap, Collect, disk, memory
<1>3. ItemOK'
  BY CollectedItems DEF TypeInv, ItemOK, InvalidateMap
<1> QED BY <1>1, <1>2, <1>3 DEF TypeInv

LEMMA InvalidateFileTypes ==
  ASSUME TypeInv, NEW p \in Readers, InvalidateFile(p), UNCHANGED env
  PROVE  TypeInv'
<1>1. RowOK' /\ ItemOK'
  BY ActorKinds DEF TypeInv, RowOK, ItemOK, FileOK, MapOK, PcOK, ArcOK, ReqOK, WriteOK, SnapOK,
     EvOK, KeyOK, InvalidateFile, Unlink, disk, memory
<1>2. MapOK' /\ PcOK' /\ ArcOK' /\ ReqOK' /\ WriteOK' /\ SnapOK' /\ EvOK' /\ KeyOK'
  BY ActorKinds DEF TypeInv, MapOK, PcOK, ArcOK, ReqOK, WriteOK, SnapOK, EvOK, KeyOK, FileOK,
     RowOK, ItemOK, ReaderPc, WorkerPc, EvictorPc, OpenPc, FlushPc, ArcPc, ReqPc, Reachable,
     InvalidateFile, Unlink, disk, memory
<1>3. FileOK'
  BY FileValues DEF TypeInv, FileOK, InvalidateFile, Unlink
<1> QED BY <1>1, <1>2, <1>3 DEF TypeInv

LEMMA InvalidateRowTypes ==
  ASSUME TypeInv, NEW p \in Readers, InvalidateRow(p), UNCHANGED env
  PROVE  TypeInv'
<1>1. FileOK' /\ ItemOK'
  BY ActorKinds DEF TypeInv, FileOK, ItemOK, RowOK, MapOK, PcOK, ArcOK, ReqOK, WriteOK, SnapOK,
     EvOK, KeyOK, InvalidateRow, disk, memory
<1>2. MapOK' /\ PcOK' /\ ArcOK' /\ ReqOK' /\ WriteOK' /\ SnapOK' /\ EvOK' /\ KeyOK'
  BY ActorKinds DEF TypeInv, MapOK, PcOK, ArcOK, ReqOK, WriteOK, SnapOK, EvOK, KeyOK, FileOK,
     RowOK, ItemOK, ReaderPc, WorkerPc, EvictorPc, OpenPc, FlushPc, ArcPc, ReqPc, Reachable,
     InvalidateRow, disk, memory
<1>3. RowOK'
  BY RowValues DEF TypeInv, RowOK, InvalidateRow
<1> QED BY <1>1, <1>2, <1>3 DEF TypeInv

LEMMA SpawnWorkerTypes ==
  ASSUME TypeInv, NEW w \in Workers, NEW p \in Readers, SpawnWorker(w, p), UNCHANGED env
  PROVE  TypeInv'
<1>1. FileOK' /\ RowOK' /\ ItemOK'
  BY ActorKinds DEF TypeInv, FileOK, RowOK, ItemOK, MapOK, PcOK, ArcOK, ReqOK, WriteOK, SnapOK,
     EvOK, KeyOK, SpawnWorker, disk, memory
<1>2. MapOK' /\ PcOK' /\ ArcOK' /\ ReqOK' /\ WriteOK' /\ SnapOK' /\ EvOK' /\ KeyOK'
  BY ActorKinds DEF TypeInv, MapOK, PcOK, ArcOK, ReqOK, WriteOK, SnapOK, EvOK, KeyOK, FileOK,
     RowOK, ItemOK, ReaderPc, WorkerPc, EvictorPc, OpenPc, FlushPc, ArcPc, ReqPc, Reachable,
     SpawnWorker, disk, memory
<1> QED BY <1>1, <1>2 DEF TypeInv

LEMMA EndWorkerTypes ==
  ASSUME TypeInv, NEW w \in Workers, EndWorker(w), UNCHANGED env
  PROVE  TypeInv'
<1>1. FileOK' /\ RowOK'
  BY ActorKinds DEF TypeInv, FileOK, RowOK, ItemOK, MapOK, PcOK, ArcOK, ReqOK, WriteOK, SnapOK,
     EvOK, KeyOK, EndWorker, Collect, disk, memory
<1>2. MapOK' /\ PcOK' /\ ArcOK' /\ ReqOK' /\ WriteOK' /\ SnapOK' /\ EvOK' /\ KeyOK'
  BY ActorKinds DEF TypeInv, MapOK, PcOK, ArcOK, ReqOK, WriteOK, SnapOK, EvOK, KeyOK, FileOK,
     RowOK, ItemOK, ReaderPc, WorkerPc, EvictorPc, OpenPc, FlushPc, ArcPc, ReqPc, Reachable,
     EndWorker, Collect, disk, memory
<1>3. ItemOK'
  BY CollectedItems DEF TypeInv, ItemOK, EndWorker
<1> QED BY <1>1, <1>2, <1>3 DEF TypeInv

LEMMA OpenForWriteTypes ==
  ASSUME TypeInv, NEW w \in Workers, NEW b \in Blocks, OpenForWrite(w, b), UNCHANGED env
  PROVE  TypeInv'
<1>1. FileOK' /\ RowOK' /\ ItemOK'
  BY ActorKinds DEF TypeInv, FileOK, RowOK, ItemOK, MapOK, PcOK, ArcOK, ReqOK, WriteOK, SnapOK,
     EvOK, KeyOK, OpenForWrite, disk, memory
<1>2. MapOK' /\ PcOK' /\ ArcOK' /\ ReqOK' /\ SnapOK' /\ EvOK' /\ KeyOK'
  BY ActorKinds DEF TypeInv, MapOK, PcOK, ArcOK, ReqOK, SnapOK, EvOK, KeyOK, FileOK, RowOK,
     ItemOK, WriteOK, ReaderPc, WorkerPc, EvictorPc, OpenPc, FlushPc, ArcPc, ReqPc, Reachable,
     OpenForWrite, disk, memory
<1>3. WriteOK'
  BY BlocksAreNats DEF TypeInv, WriteOK, PcOK, OpenForWrite, memory
<1> QED BY <1>1, <1>2, <1>3 DEF TypeInv

LEMMA WriteFileTypes ==
  ASSUME TypeInv, NEW w \in Workers, WriteFile(w), UNCHANGED env
  PROVE  TypeInv'
<1>1. RowOK' /\ ItemOK'
  BY ActorKinds DEF TypeInv, RowOK, ItemOK, FileOK, MapOK, PcOK, ArcOK, ReqOK, WriteOK, SnapOK,
     EvOK, KeyOK, WriteFile, disk, memory
<1>2. MapOK' /\ PcOK' /\ ArcOK' /\ ReqOK' /\ WriteOK' /\ SnapOK' /\ EvOK' /\ KeyOK'
  BY ActorKinds DEF TypeInv, MapOK, PcOK, ArcOK, ReqOK, WriteOK, SnapOK, EvOK, KeyOK, FileOK,
     RowOK, ItemOK, ReaderPc, WorkerPc, EvictorPc, OpenPc, FlushPc, ArcPc, ReqPc, Reachable,
     WriteFile, disk, memory
<1>3. FileOK'
  <2>1. blk[w] \in Blocks
    BY DEF TypeInv, WriteOK, WriteFile
  <2> QED BY <2>1, FileValues DEF TypeInv, FileOK, WriteFile
<1> QED BY <1>1, <1>2, <1>3 DEF TypeInv

LEMMA InsertRangeTypes ==
  ASSUME TypeInv, NEW w \in Workers, InsertRange(w), UNCHANGED env
  PROVE  TypeInv'
<1>1. FileOK' /\ RowOK'
  BY ActorKinds DEF TypeInv, FileOK, RowOK, ItemOK, MapOK, PcOK, ArcOK, ReqOK, WriteOK, SnapOK,
     EvOK, KeyOK, InsertRange, disk, memory
<1>2. MapOK' /\ PcOK' /\ ArcOK' /\ ReqOK' /\ WriteOK' /\ SnapOK' /\ EvOK' /\ KeyOK'
  BY ActorKinds DEF TypeInv, MapOK, PcOK, ArcOK, ReqOK, WriteOK, SnapOK, EvOK, KeyOK, FileOK,
     RowOK, ItemOK, ReaderPc, WorkerPc, EvictorPc, OpenPc, FlushPc, ArcPc, ReqPc, Reachable,
     InsertRange, disk, memory
<1>3. ItemOK'
  <2>1. arc[w] \in ItemIds /\ blk[w] \in Blocks /\ blk[w] < item[arc[w]].size
    BY ActorKinds DEF TypeInv, ArcOK, ArcPc, WriteOK, InsertRange
  <2> DEFINE new == [item[arc[w]] EXCEPT !.ranges = item[arc[w]].ranges \cup {blk[w]},
                                         !.dirty = TRUE]
  <2>2. new \in Items
    BY <2>1, ItemValues DEF TypeInv, ItemOK
  <2>3. item' = [item EXCEPT ![arc[w]] = new]
    BY <2>1, Zenon DEF InsertRange, TypeInv, ItemOK
  <2> HIDE DEF new
  <2> QED BY <2>1, <2>2, <2>3 DEF TypeInv, ItemOK
<1> QED BY <1>1, <1>2, <1>3 DEF TypeInv

LEMMA FlushSkipTypes ==
  ASSUME TypeInv, NEW a \in Actors, FlushSkip(a), UNCHANGED env
  PROVE  TypeInv'
<1>1. FileOK' /\ RowOK'
  BY ActorKinds DEF TypeInv, FileOK, RowOK, ItemOK, MapOK, PcOK, ArcOK, ReqOK, WriteOK, SnapOK,
     EvOK, KeyOK, FlushSkip, Collect, FlushReturn, disk, memory
<1>2. MapOK' /\ PcOK' /\ ArcOK' /\ ReqOK' /\ WriteOK' /\ SnapOK' /\ EvOK' /\ KeyOK'
  BY ActorKinds DEF TypeInv, MapOK, PcOK, ArcOK, ReqOK, WriteOK, SnapOK, EvOK, KeyOK, FileOK,
     RowOK, ItemOK, ReaderPc, WorkerPc, EvictorPc, OpenPc, FlushPc, ArcPc, ReqPc, Reachable,
     FlushSkip, Collect, FlushReturn, disk, memory
<1>3. ItemOK'
  BY CollectedItems DEF TypeInv, ItemOK, FlushSkip
<1> QED BY <1>1, <1>2, <1>3 DEF TypeInv

LEMMA FlushSnapshotTypes ==
  ASSUME TypeInv, NEW a \in Actors, FlushSnapshot(a), UNCHANGED env
  PROVE  TypeInv'
<1>1. FileOK' /\ RowOK' /\ ItemOK'
  BY ActorKinds DEF TypeInv, FileOK, RowOK, ItemOK, MapOK, PcOK, ArcOK, ReqOK, WriteOK, SnapOK,
     EvOK, KeyOK, FlushSnapshot, disk, memory
<1>2. MapOK' /\ PcOK' /\ ArcOK' /\ ReqOK' /\ WriteOK' /\ EvOK' /\ KeyOK'
  BY ActorKinds DEF TypeInv, MapOK, PcOK, ArcOK, ReqOK, WriteOK, EvOK, KeyOK, FileOK, RowOK,
     ItemOK, SnapOK, ReaderPc, WorkerPc, EvictorPc, OpenPc, FlushPc, ArcPc, ReqPc, Reachable,
     FlushSnapshot, disk, memory
<1>3. SnapOK'
  <2>1. arc[a] \in ItemIds /\ item[arc[a]].ranges \subseteq Blocks
    BY DEF TypeInv, ArcOK, ArcPc, FlushPc, ItemOK, Items, ItemType, FlushSnapshot
  <2> QED BY <2>1 DEF TypeInv, SnapOK, PcOK, FlushSnapshot, memory
<1> QED BY <1>1, <1>2, <1>3 DEF TypeInv

LEMMA UpsertTypes ==
  ASSUME TypeInv, NEW a \in Actors, Upsert(a), UNCHANGED env
  PROVE  TypeInv'
<1>1. FileOK' /\ ItemOK'
  BY ActorKinds DEF TypeInv, FileOK, ItemOK, RowOK, MapOK, PcOK, ArcOK, ReqOK, WriteOK, SnapOK,
     EvOK, KeyOK, Upsert, disk, memory
<1>2. MapOK' /\ PcOK' /\ ArcOK' /\ ReqOK' /\ WriteOK' /\ SnapOK' /\ EvOK' /\ KeyOK'
  BY ActorKinds DEF TypeInv, MapOK, PcOK, ArcOK, ReqOK, WriteOK, SnapOK, EvOK, KeyOK, FileOK,
     RowOK, ItemOK, ReaderPc, WorkerPc, EvictorPc, OpenPc, FlushPc, ArcPc, ReqPc, Reachable,
     Upsert, disk, memory
<1>3. RowOK'
  <2>1. arc[a] \in ItemIds /\ snap[a] \subseteq item[arc[a]].ranges
    BY DEF TypeInv, ArcOK, ArcPc, FlushPc, SnapOK, Upsert
  <2>2. item[arc[a]] \in Items
    BY <2>1 DEF TypeInv, ItemOK
  <2> QED BY <2>1, <2>2, StoredRow DEF TypeInv, RowOK, Upsert
<1> QED BY <1>1, <1>2, <1>3 DEF TypeInv

LEMMA UpsertFailsTypes ==
  ASSUME TypeInv, NEW a \in Actors, UpsertFails(a), UNCHANGED env
  PROVE  TypeInv'
<1>1. FileOK' /\ RowOK'
  BY ActorKinds DEF TypeInv, FileOK, RowOK, ItemOK, MapOK, PcOK, ArcOK, ReqOK, WriteOK, SnapOK,
     EvOK, KeyOK, UpsertFails, Collect, FlushReturn, disk, memory
<1>2. MapOK' /\ PcOK' /\ ArcOK' /\ ReqOK' /\ WriteOK' /\ SnapOK' /\ EvOK' /\ KeyOK'
  BY ActorKinds DEF TypeInv, MapOK, PcOK, ArcOK, ReqOK, WriteOK, SnapOK, EvOK, KeyOK, FileOK,
     RowOK, ItemOK, ReaderPc, WorkerPc, EvictorPc, OpenPc, FlushPc, ArcPc, ReqPc, Reachable,
     UpsertFails, Collect, FlushReturn, disk, memory
<1>3. ItemOK'
  BY CollectedItems DEF TypeInv, ItemOK, UpsertFails
<1> QED BY <1>1, <1>2, <1>3 DEF TypeInv

LEMMA FlushCleanTypes ==
  ASSUME TypeInv, NEW a \in Actors, FlushClean(a), UNCHANGED env
  PROVE  TypeInv'
<1>1. FileOK' /\ RowOK'
  BY ActorKinds DEF TypeInv, FileOK, RowOK, ItemOK, MapOK, PcOK, ArcOK, ReqOK, WriteOK, SnapOK,
     EvOK, KeyOK, FlushClean, Collect, FlushReturn, disk, memory
<1>2. MapOK' /\ PcOK' /\ ArcOK' /\ ReqOK' /\ WriteOK' /\ SnapOK' /\ EvOK' /\ KeyOK'
  BY ActorKinds DEF TypeInv, MapOK, PcOK, ArcOK, ReqOK, WriteOK, SnapOK, EvOK, KeyOK, FileOK,
     RowOK, ItemOK, ReaderPc, WorkerPc, EvictorPc, OpenPc, FlushPc, ArcPc, ReqPc, Reachable,
     FlushClean, Collect, FlushReturn, disk, memory
<1>3. ItemOK'
  <2>1. arc[a] \in ItemIds
    BY DEF TypeInv, ArcOK, ArcPc, FlushPc, FlushClean
  <2>2. [item EXCEPT ![arc[a]].dirty = FALSE] \in [ItemIds -> Items]
    BY <2>1, ItemValues DEF TypeInv, ItemOK
  <2> QED BY <2>2, CollectedItems DEF ItemOK, FlushClean
<1> QED BY <1>1, <1>2, <1>3 DEF TypeInv

LEMMA EvictScanTypes ==
  ASSUME TypeInv, EvictScan, UNCHANGED env
  PROVE  TypeInv'
<1>1. FileOK' /\ RowOK' /\ ItemOK'
  BY ActorKinds DEF TypeInv, FileOK, RowOK, ItemOK, MapOK, PcOK, ArcOK, ReqOK, WriteOK, SnapOK,
     EvOK, KeyOK, EvictScan, NoPass, disk, memory
<1>2. MapOK' /\ PcOK' /\ ArcOK' /\ ReqOK' /\ WriteOK' /\ SnapOK' /\ KeyOK'
  BY ActorKinds DEF TypeInv, MapOK, PcOK, ArcOK, ReqOK, WriteOK, SnapOK, KeyOK, FileOK, RowOK,
     ItemOK, EvOK, ReaderPc, WorkerPc, EvictorPc, OpenPc, FlushPc, ArcPc, ReqPc, Reachable,
     EvictScan, NoPass, disk, memory
<1>3. EvOK'
  BY DEF TypeInv, EvOK, PcOK, EvictScan, NoPass
<1> QED BY <1>1, <1>2, <1>3 DEF TypeInv

LEMMA EvictItemTypes ==
  ASSUME TypeInv, NEW k \in Keys, EvictItem(k), UNCHANGED env
  PROVE  TypeInv'
<1>1. FileOK' /\ RowOK' /\ ItemOK'
  BY ActorKinds DEF TypeInv, FileOK, RowOK, ItemOK, MapOK, PcOK, ArcOK, ReqOK, WriteOK, SnapOK,
     EvOK, KeyOK, EvictItem, disk, memory
<1>2. MapOK' /\ PcOK' /\ ReqOK'
  BY ActorKinds DEF TypeInv, MapOK, PcOK, ReqOK, FileOK, RowOK, ItemOK, ArcOK, WriteOK, SnapOK,
     EvOK, KeyOK, ReaderPc, WorkerPc, EvictorPc, OpenPc, FlushPc, ReqPc, EvictItem, disk,
     memory
<1>3. ArcOK'
  BY ActorKinds DEF TypeInv, MapOK, PcOK, ArcOK, ArcPc, FlushPc, OpenPc, EvictItem
<1>4. WriteOK'
  BY ActorKinds DEF TypeInv, PcOK, WriteOK, EvictItem
<1>5. SnapOK'
  BY ActorKinds DEF TypeInv, PcOK, SnapOK, EvictItem
<1>6. EvOK'
  BY ActorKinds DEF TypeInv, PcOK, EvOK, EvictItem
<1>7. KeyOK'
  BY ActorKinds DEF TypeInv, MapOK, ArcOK, KeyOK, Reachable, EvictItem
<1> QED BY <1>1, <1>2, <1>3, <1>4, <1>5, <1>6, <1>7 DEF TypeInv

LEMMA EvictKeepTypes ==
  ASSUME TypeInv, NEW k \in Keys, EvictKeep(k), UNCHANGED env
  PROVE  TypeInv'
<1>1. FileOK' /\ RowOK' /\ ItemOK'
  BY ActorKinds DEF TypeInv, FileOK, RowOK, ItemOK, MapOK, PcOK, ArcOK, ReqOK, WriteOK, SnapOK,
     EvOK, KeyOK, EvictKeep, disk, memory
<1>2. MapOK' /\ PcOK' /\ ArcOK' /\ ReqOK' /\ WriteOK' /\ SnapOK' /\ EvOK' /\ KeyOK'
  BY ActorKinds DEF TypeInv, MapOK, PcOK, ArcOK, ReqOK, WriteOK, SnapOK, EvOK, KeyOK, FileOK,
     RowOK, ItemOK, ReaderPc, WorkerPc, EvictorPc, OpenPc, FlushPc, ArcPc, ReqPc, Reachable,
     EvictKeep, disk, memory
<1> QED BY <1>1, <1>2 DEF TypeInv

LEMMA TtlSkipTypes ==
  ASSUME TypeInv, TtlSkip, UNCHANGED env
  PROVE  TypeInv'
<1>1. FileOK' /\ RowOK' /\ ItemOK'
  BY ActorKinds DEF TypeInv, FileOK, RowOK, ItemOK, MapOK, PcOK, ArcOK, ReqOK, WriteOK, SnapOK,
     EvOK, KeyOK, TtlSkip, disk, memory
<1>2. MapOK' /\ PcOK' /\ ArcOK' /\ ReqOK' /\ WriteOK' /\ SnapOK' /\ EvOK' /\ KeyOK'
  BY ActorKinds DEF TypeInv, MapOK, PcOK, ArcOK, ReqOK, WriteOK, SnapOK, EvOK, KeyOK, FileOK,
     RowOK, ItemOK, ReaderPc, WorkerPc, EvictorPc, OpenPc, FlushPc, ArcPc, ReqPc, Reachable,
     TtlSkip, disk, memory
<1> QED BY <1>1, <1>2 DEF TypeInv

LEMMA TtlQueryTypes ==
  ASSUME TypeInv, TtlQuery, UNCHANGED env
  PROVE  TypeInv'
<1>1. FileOK' /\ RowOK' /\ ItemOK'
  BY ActorKinds DEF TypeInv, FileOK, RowOK, ItemOK, MapOK, PcOK, ArcOK, ReqOK, WriteOK, SnapOK,
     EvOK, KeyOK, TtlQuery, disk, memory
<1>2. MapOK' /\ PcOK' /\ ArcOK' /\ ReqOK' /\ WriteOK' /\ SnapOK' /\ EvOK' /\ KeyOK'
  BY ActorKinds DEF TypeInv, MapOK, PcOK, ArcOK, ReqOK, WriteOK, SnapOK, EvOK, KeyOK, FileOK,
     RowOK, ItemOK, ReaderPc, WorkerPc, EvictorPc, OpenPc, FlushPc, ArcPc, ReqPc, Reachable,
     TtlQuery, disk, memory
<1> QED BY <1>1, <1>2 DEF TypeInv

LEMMA TtlKeepTypes ==
  ASSUME TypeInv, NEW k \in Keys, TtlKeep(k), UNCHANGED env
  PROVE  TypeInv'
<1>1. FileOK' /\ RowOK' /\ ItemOK'
  BY ActorKinds DEF TypeInv, FileOK, RowOK, ItemOK, MapOK, PcOK, ArcOK, ReqOK, WriteOK, SnapOK,
     EvOK, KeyOK, TtlKeep, disk, memory
<1>2. MapOK' /\ PcOK' /\ ArcOK' /\ ReqOK' /\ WriteOK' /\ SnapOK' /\ EvOK' /\ KeyOK'
  BY ActorKinds DEF TypeInv, MapOK, PcOK, ArcOK, ReqOK, WriteOK, SnapOK, EvOK, KeyOK, FileOK,
     RowOK, ItemOK, ReaderPc, WorkerPc, EvictorPc, OpenPc, FlushPc, ArcPc, ReqPc, Reachable,
     TtlKeep, disk, memory
<1> QED BY <1>1, <1>2 DEF TypeInv

LEMMA TtlChooseTypes ==
  ASSUME TypeInv, NEW k \in Keys, TtlChoose(k), UNCHANGED env
  PROVE  TypeInv'
<1>1. FileOK' /\ RowOK' /\ ItemOK'
  BY ActorKinds DEF TypeInv, FileOK, RowOK, ItemOK, MapOK, PcOK, ArcOK, ReqOK, WriteOK, SnapOK,
     EvOK, KeyOK, TtlChoose, disk, memory
<1>2. MapOK' /\ PcOK' /\ ArcOK' /\ ReqOK' /\ WriteOK' /\ SnapOK' /\ EvOK' /\ KeyOK'
  BY ActorKinds, ZenonT(60) DEF TypeInv, MapOK, PcOK, ArcOK, ReqOK, WriteOK, SnapOK, EvOK, KeyOK, FileOK,
     RowOK, ItemOK, ReaderPc, WorkerPc, EvictorPc, OpenPc, FlushPc, ArcPc, ReqPc, Reachable,
     TtlChoose, disk, memory
<1> QED BY <1>1, <1>2 DEF TypeInv

LEMMA TtlUnlinkTypes ==
  ASSUME TypeInv, TtlUnlink, UNCHANGED env
  PROVE  TypeInv'
<1>1. RowOK' /\ ItemOK'
  BY ActorKinds DEF TypeInv, RowOK, ItemOK, FileOK, MapOK, PcOK, ArcOK, ReqOK, WriteOK, SnapOK,
     EvOK, KeyOK, TtlUnlink, Unlink, disk, memory
<1>2. MapOK' /\ PcOK' /\ ArcOK' /\ ReqOK' /\ WriteOK' /\ SnapOK' /\ KeyOK'
  BY ActorKinds DEF TypeInv, MapOK, PcOK, ArcOK, ReqOK, WriteOK, SnapOK, KeyOK, FileOK, RowOK,
     ItemOK, EvOK, ReaderPc, WorkerPc, EvictorPc, OpenPc, FlushPc, ArcPc, ReqPc, Reachable,
     TtlUnlink, Unlink, disk, memory
<1>3. FileOK'
  BY FileValues DEF TypeInv, FileOK, TtlUnlink, Unlink
<1>4. EvOK'
  BY ActorKinds DEF TypeInv, EvOK, PcOK, TtlUnlink
<1> QED BY <1>1, <1>2, <1>3, <1>4 DEF TypeInv

LEMMA TtlDeleteTypes ==
  ASSUME TypeInv, TtlDelete, UNCHANGED env
  PROVE  TypeInv'
<1>1. FileOK' /\ ItemOK'
  BY ActorKinds DEF TypeInv, FileOK, ItemOK, RowOK, MapOK, PcOK, ArcOK, ReqOK, WriteOK, SnapOK,
     EvOK, KeyOK, TtlDelete, NoPass, disk, memory
<1>2. MapOK' /\ PcOK' /\ ArcOK' /\ ReqOK' /\ WriteOK' /\ SnapOK' /\ EvOK' /\ KeyOK'
  BY ActorKinds DEF TypeInv, MapOK, PcOK, ArcOK, ReqOK, WriteOK, SnapOK, EvOK, KeyOK, FileOK,
     RowOK, ItemOK, ReaderPc, WorkerPc, EvictorPc, OpenPc, FlushPc, ArcPc, ReqPc, Reachable,
     TtlDelete, NoPass, disk, memory
<1>3. RowOK'
  BY RowValues DEF TypeInv, RowOK, TtlDelete
<1> QED BY <1>1, <1>2, <1>3 DEF TypeInv

LEMMA LruSkipTypes ==
  ASSUME TypeInv, LruSkip, UNCHANGED env
  PROVE  TypeInv'
<1>1. ItemOK'
  BY ActorKinds DEF TypeInv, ItemOK, FileOK, RowOK, MapOK, PcOK, ArcOK, ReqOK, WriteOK, SnapOK,
     EvOK, KeyOK, LruSkip, EndPass, NoPass, disk, memory
<1>2. MapOK' /\ PcOK' /\ ArcOK' /\ ReqOK' /\ WriteOK' /\ SnapOK' /\ EvOK' /\ KeyOK'
  BY ActorKinds DEF TypeInv, MapOK, PcOK, ArcOK, ReqOK, WriteOK, SnapOK, EvOK, KeyOK, FileOK,
     RowOK, ItemOK, ReaderPc, WorkerPc, EvictorPc, OpenPc, FlushPc, ArcPc, ReqPc, Reachable,
     LruSkip, EndPass, NoPass, disk, memory
<1>3. FileOK'
  BY FileValues DEF TypeInv, FileOK, LruSkip, EndPass
<1>4. RowOK'
  BY RowValues DEF TypeInv, RowOK, LruSkip, EndPass
<1> QED BY <1>1, <1>2, <1>3, <1>4 DEF TypeInv

LEMMA LruScanTypes ==
  ASSUME TypeInv, LruScan, UNCHANGED env
  PROVE  TypeInv'
<1>1. FileOK' /\ RowOK' /\ ItemOK'
  BY ActorKinds DEF TypeInv, FileOK, RowOK, ItemOK, MapOK, PcOK, ArcOK, ReqOK, WriteOK, SnapOK,
     EvOK, KeyOK, LruScan, NoPass, disk, memory
<1>2. MapOK' /\ PcOK' /\ ArcOK' /\ ReqOK' /\ WriteOK' /\ SnapOK' /\ KeyOK'
  BY ActorKinds DEF TypeInv, MapOK, PcOK, ArcOK, ReqOK, WriteOK, SnapOK, KeyOK, FileOK, RowOK,
     ItemOK, EvOK, ReaderPc, WorkerPc, EvictorPc, OpenPc, FlushPc, ArcPc, ReqPc, Reachable,
     LruScan, NoPass, disk, memory
<1>3. EvOK'
  <2>1. PICK old \in SUBSET Keys :
          ev' = [NoPass EXCEPT !.cands = {<< k, Cardinality(file[k].data) >> : k \in old},
                               !.total = DiskUse(LruCounted)]
    BY Constants DEF LruScan, LruCounted
  <2>2. \A c \in {<< k, Cardinality(file[k].data) >> : k \in old} : c[1] \in Keys
    BY <2>1
  <2>3. pc'[Evictor] = "lruloop"
    BY ActorKinds DEF TypeInv, PcOK, LruScan
  <2> QED BY <2>1, <2>2, <2>3 DEF EvOK, NoPass
<1> QED BY <1>1, <1>2, <1>3 DEF TypeInv

LEMMA LruKeepTypes ==
  ASSUME TypeInv, NEW c \in ev.cands, LruKeep(c), UNCHANGED env
  PROVE  TypeInv'
<1>1. FileOK' /\ RowOK' /\ ItemOK'
  BY ActorKinds DEF TypeInv, FileOK, RowOK, ItemOK, MapOK, PcOK, ArcOK, ReqOK, WriteOK, SnapOK,
     EvOK, KeyOK, LruKeep, disk, memory
<1>2. MapOK' /\ PcOK' /\ ArcOK' /\ ReqOK' /\ WriteOK' /\ SnapOK' /\ EvOK' /\ KeyOK'
  BY ActorKinds DEF TypeInv, MapOK, PcOK, ArcOK, ReqOK, WriteOK, SnapOK, EvOK, KeyOK, FileOK,
     RowOK, ItemOK, ReaderPc, WorkerPc, EvictorPc, OpenPc, FlushPc, ArcPc, ReqPc, Reachable,
     LruKeep, disk, memory
<1> QED BY <1>1, <1>2 DEF TypeInv

LEMMA LruChooseTypes ==
  ASSUME TypeInv, NEW c \in ev.cands, LruChoose(c), UNCHANGED env
  PROVE  TypeInv'
<1>1. FileOK' /\ RowOK' /\ ItemOK'
  BY ActorKinds DEF TypeInv, FileOK, RowOK, ItemOK, MapOK, PcOK, ArcOK, ReqOK, WriteOK, SnapOK,
     EvOK, KeyOK, LruChoose, disk, memory
<1>2. MapOK' /\ PcOK' /\ ArcOK' /\ ReqOK' /\ WriteOK' /\ SnapOK' /\ EvOK' /\ KeyOK'
  BY ActorKinds, ZenonT(60) DEF TypeInv, MapOK, PcOK, ArcOK, ReqOK, WriteOK, SnapOK, EvOK, KeyOK, FileOK,
     RowOK, ItemOK, ReaderPc, WorkerPc, EvictorPc, OpenPc, FlushPc, ArcPc, ReqPc, Reachable,
     LruChoose, disk, memory
<1> QED BY <1>1, <1>2 DEF TypeInv

LEMMA LruUnlinkTypes ==
  ASSUME TypeInv, LruUnlink, UNCHANGED env
  PROVE  TypeInv'
<1>1. RowOK' /\ ItemOK'
  BY ActorKinds DEF TypeInv, RowOK, ItemOK, FileOK, MapOK, PcOK, ArcOK, ReqOK, WriteOK, SnapOK,
     EvOK, KeyOK, LruUnlink, Unlink, disk, memory
<1>2. MapOK' /\ PcOK' /\ ArcOK' /\ ReqOK' /\ WriteOK' /\ SnapOK' /\ KeyOK'
  BY ActorKinds DEF TypeInv, MapOK, PcOK, ArcOK, ReqOK, WriteOK, SnapOK, KeyOK, FileOK, RowOK,
     ItemOK, EvOK, ReaderPc, WorkerPc, EvictorPc, OpenPc, FlushPc, ArcPc, ReqPc, Reachable,
     LruUnlink, Unlink, disk, memory
<1>3. FileOK'
  BY FileValues DEF TypeInv, FileOK, LruUnlink, Unlink
<1>4. EvOK'
  BY ActorKinds DEF TypeInv, EvOK, PcOK, LruUnlink
<1> QED BY <1>1, <1>2, <1>3, <1>4 DEF TypeInv

LEMMA LruDoneTypes ==
  ASSUME TypeInv, LruDone, UNCHANGED env
  PROVE  TypeInv'
<1>1. ItemOK'
  BY ActorKinds DEF TypeInv, ItemOK, FileOK, RowOK, MapOK, PcOK, ArcOK, ReqOK, WriteOK, SnapOK,
     EvOK, KeyOK, LruDone, EndPass, NoPass, disk, memory
<1>2. MapOK' /\ PcOK' /\ ArcOK' /\ ReqOK' /\ WriteOK' /\ SnapOK' /\ EvOK' /\ KeyOK'
  BY ActorKinds DEF TypeInv, MapOK, PcOK, ArcOK, ReqOK, WriteOK, SnapOK, EvOK, KeyOK, FileOK,
     RowOK, ItemOK, ReaderPc, WorkerPc, EvictorPc, OpenPc, FlushPc, ArcPc, ReqPc, Reachable,
     LruDone, EndPass, NoPass, disk, memory
<1>3. FileOK'
  BY FileValues DEF TypeInv, FileOK, LruDone, EndPass
<1>4. RowOK'
  BY RowValues DEF TypeInv, RowOK, LruDone, EndPass
<1> QED BY <1>1, <1>2, <1>3, <1>4 DEF TypeInv

LEMMA RestartTypes ==
  ASSUME TypeInv, Restart, UNCHANGED env
  PROVE  TypeInv'
<1>1. MapOK' /\ PcOK' /\ ArcOK' /\ ReqOK' /\ WriteOK' /\ SnapOK' /\ EvOK' /\ KeyOK'
  BY ActorKinds DEF TypeInv, MapOK, PcOK, ArcOK, ReqOK, WriteOK, SnapOK, EvOK, KeyOK, FileOK,
     RowOK, ItemOK, ReaderPc, WorkerPc, EvictorPc, OpenPc, FlushPc, ArcPc, ReqPc, Reachable,
     Restart, EndPass, NoReq, NoPass, disk, memory
<1>2. FileOK'
  BY FileValues DEF TypeInv, FileOK, Restart, EndPass
<1>3. RowOK'
  BY RowValues DEF TypeInv, RowOK, Restart, EndPass
<1>4. ItemOK'
  BY DEF Restart, ItemOK, NoItem, Items, ItemType
<1> QED BY <1>1, <1>2, <1>3, <1>4 DEF TypeInv

-----------------------------------------------------------------------------
(***************************************************************************)
(* Why the ranges are backed.  A row may only be trusted if what is stored *)
(* in it was: the items are backed as well, and so is a block on its way   *)
(* from the file to the item, unless its handle is of an unlinked file.    *)
(***************************************************************************)
RowBacked ==
  \A k \in Keys : row[k].exists /\ k \notin destroyed =>
    file[k].exists /\ row[k].ranges \subseteq file[k].data
ItemBacked ==
  \A i \in Reachable : item[i].key \notin destroyed =>
    file[item[i].key].exists /\ item[i].ranges \subseteq file[item[i].key].data
OpeningBacked ==
  \A r \in Readers : pc[r] \in {"restore", "purge"} /\ req[r].key \notin destroyed =>
    file[req[r].key].exists
WriteLive ==
  \A w \in Workers : fd[w] = "stale" => pc[w] = "write" /\ item[arc[w]].key \in destroyed
InsertBacked ==
  \A w \in Workers : pc[w] = "insert" /\ item[arc[w]].key \notin destroyed =>
    blk[w] \in file[item[arc[w]].key].data

BackedInv == RowBacked /\ ItemBacked /\ OpeningBacked /\ WriteLive /\ InsertBacked

(* Nothing but what `destroyed` records takes bytes from a file.           *)
FilesKept ==
  /\ destroyed \subseteq destroyed'
  /\ \A k \in Keys \ destroyed' : file[k].exists =>
       file'[k].exists /\ file[k].data \subseteq file'[k].data

LEMMA OpenKeeps ==
  ASSUME TypeInv, NEW p \in Readers, pc[p] \in ReqPc, OpenFile(p)
  PROVE  FilesKept /\ file'[req[p].key].exists
<1>1. req[p].key \in Keys /\ req[p].size \in Nat /\ file \in [Keys -> Files]
  BY DEF TypeInv, ReqOK, FileOK
<1>2. file'[req[p].key].exists /\ \A k \in Keys \ {req[p].key} : file'[k] = file[k]
  BY <1>1 DEF OpenFile, SetLen
<1>3. destroyed \subseteq destroyed'
  BY DEF OpenFile
<1>4. ASSUME req[p].key \notin destroyed'
      PROVE  file[req[p].key].data \subseteq file'[req[p].key].data
  <2>1. \A b \in file[req[p].key].data : b < req[p].size
    <3>1. file[req[p].key].data \subseteq Nat
      BY <1>1, BlocksAreNats DEF Files, FileType
    <3> QED BY <1>1, <1>4, <3>1 DEF OpenFile
  <2> QED BY <1>1, <2>1 DEF OpenFile, SetLen
<1> QED BY <1>1, <1>2, <1>3, <1>4 DEF FilesKept

LEMMA UnlinkKeeps ==
  ASSUME TypeInv, BackedInv, NEW k \in Keys, Unlink(k)
  PROVE  /\ FilesKept
         /\ \A w \in Workers : fd'[w] = "stale" =>
              \/ fd[w] = "stale"
              \/ pc[w] = "write" /\ item[arc[w]].key \in destroyed'
<1>1. FilesKept
  BY DEF TypeInv, FileOK, Unlink, FilesKept
<1>2. ASSUME NEW w \in Workers, pc[w] = "write", item[arc[w]].key = k
      PROVE  k \in destroyed'
  <2>1. arc[w] \in Reachable
    BY <1>2, ActorKinds DEF TypeInv, ArcOK, ArcPc, Reachable
  <2> QED BY <1>2, <2>1 DEF BackedInv, ItemBacked, Unlink
<1> QED BY <1>1, <1>2 DEF Unlink, TypeInv, WriteOK

LEMMA EndPassKeeps ==
  ASSUME TypeInv, EndPass, UNCHANGED destroyed
  PROVE  /\ FilesKept
         /\ \A k \in Keys : row'[k].exists = row[k].exists /\ row'[k].ranges = row[k].ranges
<1>1. FilesKept
  BY DEF TypeInv, FileOK, Files, FileType, EndPass, FilesKept
<1>2. \A k \in Keys : row'[k].exists = row[k].exists /\ row'[k].ranges = row[k].ranges
  BY DEF TypeInv, RowOK, Rows, RowType, EndPass
<1> QED BY <1>1, <1>2

(* What stays backed when no item or row claims more than before.          *)
LEMMA RowsStayBacked ==
  ASSUME TypeInv, BackedInv, FilesKept,
         \A k \in Keys : row'[k].exists => row[k].exists /\ row'[k].ranges = row[k].ranges
  PROVE  RowBacked'
BY DEF BackedInv, RowBacked, FilesKept

LEMMA ItemsStayBacked ==
  ASSUME TypeInv, BackedInv, FilesKept,
         \A i \in Reachable' : /\ i \in Reachable
                               /\ item'[i].key = item[i].key /\ item'[i].ranges = item[i].ranges
  PROVE  ItemBacked'
<1>1. \A i \in Reachable : item[i].key \in Keys
  BY DEF TypeInv, KeyOK
<1> QED BY <1>1 DEF BackedInv, ItemBacked, FilesKept

LEMMA GetHitBacked ==
  ASSUME TypeInv, BackedInv, NEW p \in Readers, NEW k \in Keys, GetHit(p, k)
  PROVE  BackedInv'
<1>1. RowBacked' /\ ItemBacked' /\ OpeningBacked' /\ WriteLive' /\ InsertBacked'
  BY ActorKinds DEF TypeInv, PcOK, ArcOK, ArcPc, OpenPc, FlushPc, ReqOK, ReqPc, KeyOK, ItemOK,
     Items, ItemType, Reachable, BackedInv, RowBacked, ItemBacked, OpeningBacked, WriteLive,
     InsertBacked, GetHit, memory, disk
<1> QED BY <1>1 DEF BackedInv

LEMMA GetMissBacked ==
  ASSUME TypeInv, BackedInv, NEW p \in Readers, NEW k \in Keys, NEW size \in env.sizes,
     GetMiss(p, k, size)
  PROVE  BackedInv'
<1>1. RowBacked' /\ ItemBacked' /\ OpeningBacked' /\ WriteLive' /\ InsertBacked'
  BY ActorKinds DEF TypeInv, PcOK, ArcOK, ArcPc, OpenPc, FlushPc, ReqOK, ReqPc, KeyOK, ItemOK,
     Items, ItemType, Reachable, BackedInv, RowBacked, ItemBacked, OpeningBacked, WriteLive,
     InsertBacked, GetMiss, memory, disk
<1> QED BY <1>1 DEF BackedInv

LEMMA EntryOccupiedBacked ==
  ASSUME TypeInv, BackedInv, NEW p \in Readers, EntryOccupied(p)
  PROVE  BackedInv'
<1>1. RowBacked' /\ ItemBacked' /\ OpeningBacked' /\ WriteLive' /\ InsertBacked'
  BY ActorKinds DEF TypeInv, PcOK, ArcOK, ArcPc, OpenPc, FlushPc, ReqOK, ReqPc, KeyOK, ItemOK,
     Items, ItemType, Reachable, BackedInv, RowBacked, ItemBacked, OpeningBacked, WriteLive,
     InsertBacked, EntryOccupied, NoReq, memory, disk
<1> QED BY <1>1 DEF BackedInv

LEMMA EntryVacantBacked ==
  ASSUME TypeInv, BackedInv, NEW p \in Readers, EntryVacant(p)
  PROVE  BackedInv'
<1>1. FilesKept
  BY OpenKeeps DEF EntryVacant, ReqPc
<1>2. WriteLive' /\ InsertBacked'
  BY ActorKinds, <1>1 DEF TypeInv, PcOK, ArcOK, ArcPc, OpenPc, FlushPc, ReqOK, ReqPc, KeyOK,
     ItemOK, Items, ItemType, Reachable, BackedInv, RowBacked, ItemBacked, OpeningBacked,
     WriteLive, InsertBacked, EntryVacant, memory, disk, FilesKept
<1>3. RowBacked'
  BY <1>1, RowsStayBacked DEF EntryVacant
<1>4. ItemBacked'
  BY <1>1, ItemsStayBacked DEF EntryVacant, Reachable
<1>5. OpeningBacked'
  BY <1>1, OpenKeeps, ActorKinds DEF TypeInv, PcOK, ReqOK, ReqPc, BackedInv, OpeningBacked, FilesKept,
     EntryVacant
<1> QED BY <1>2, <1>3, <1>4, <1>5 DEF BackedInv

LEMMA EntryFailsBacked ==
  ASSUME TypeInv, BackedInv, NEW p \in Readers, EntryFails(p)
  PROVE  BackedInv'
<1>1. FilesKept
  <2>1. file \in [Keys -> Files] /\ destroyed' = destroyed
    BY DEF TypeInv, FileOK, EntryFails
  <2>2. \A k \in Keys : file[k].exists => file'[k] = file[k]
    BY <2>1 DEF EntryFails
  <2> QED BY <2>1, <2>2 DEF FilesKept
<1>2. WriteLive' /\ InsertBacked' /\ OpeningBacked'
  BY ActorKinds, <1>1 DEF TypeInv, PcOK, ArcOK, ArcPc, OpenPc, FlushPc, ReqOK, ReqPc, KeyOK,
     ItemOK, Items, ItemType, Reachable, BackedInv, RowBacked, ItemBacked, OpeningBacked,
     WriteLive, InsertBacked, EntryFails, NoReq, memory, FilesKept
<1>3. RowBacked'
  BY <1>1, RowsStayBacked DEF EntryFails
<1>4. ItemBacked'
  BY <1>1, ItemsStayBacked DEF EntryFails, Reachable, memory
<1> QED BY <1>2, <1>3, <1>4 DEF BackedInv

LEMMA RestoreBacked ==
  ASSUME TypeInv, BackedInv, NEW p \in Readers, Restore(p)
  PROVE  BackedInv'
<1>1. RowBacked' /\ OpeningBacked' /\ WriteLive' /\ InsertBacked'
  BY ActorKinds DEF TypeInv, PcOK, ArcOK, ArcPc, OpenPc, FlushPc, ReqOK, ReqPc, KeyOK, ItemOK,
     Items, ItemType, Reachable, BackedInv, RowBacked, ItemBacked, OpeningBacked, WriteLive,
     InsertBacked, Restore, Install, Unused, NoReq, memory, disk
<1>2. ItemBacked'
  <2>1. req[p].key \in Keys /\ arc[p] \notin Unused
    BY ActorKinds DEF TypeInv, ReqOK, ReqPc, Restore, Unused
  <2>2. req[p].key \notin destroyed =>
          /\ file[req[p].key].exists
          /\ row[req[p].key].ranges \subseteq file[req[p].key].data
    BY <2>1 DEF TypeInv, RowOK, Rows, BackedInv, RowBacked, OpeningBacked, Restore
  <2>3. PICK i \in Unused : /\ item' = [item EXCEPT ![i] = [NoItem EXCEPT !.key = req[p].key,
                                !.size = req[p].size, !.ranges = row[req[p].key].ranges]]
                            /\ items' = [items EXCEPT ![req[p].key] = i]
                            /\ arc' = [arc EXCEPT ![p] = i]
    BY Zenon DEF Restore, Install
  <2>4. /\ item'[i].key = req[p].key /\ item'[i].ranges = row[req[p].key].ranges
        /\ \A j \in ItemIds \ {i} : item'[j] = item[j]
    BY <2>3 DEF TypeInv, ItemOK, NoItem, Unused
  <2>5. \A j \in Reachable' : j = i \/ j \in Reachable
    BY <2>1, <2>3, ActorKinds DEF Reachable, TypeInv, MapOK, ArcOK
  <2> QED BY <2>2, <2>4, <2>5 DEF BackedInv, ItemBacked, Restore, disk, Reachable
<1> QED BY <1>1, <1>2 DEF BackedInv

LEMMA RestoreMismatchBacked ==
  ASSUME TypeInv, BackedInv, NEW p \in Readers, RestoreMismatch(p)
  PROVE  BackedInv'
<1>1. FilesKept
  <2>1. CASE file[req[p].key].exists
    BY <2>1, OpenKeeps DEF RestoreMismatch, ReqPc
  <2>2. CASE ~file[req[p].key].exists
    BY <2>2 DEF RestoreMismatch, FilesKept
  <2> QED BY <2>1, <2>2
<1>2. WriteLive' /\ InsertBacked'
  BY ActorKinds, <1>1 DEF TypeInv, PcOK, ArcOK, ArcPc, OpenPc, FlushPc, ReqOK, ReqPc, KeyOK,
     ItemOK, Items, ItemType, Reachable, BackedInv, RowBacked, ItemBacked, OpeningBacked,
     WriteLive, InsertBacked, RestoreMismatch, memory, disk, FilesKept
<1>3. RowBacked'
  BY <1>1, RowsStayBacked DEF RestoreMismatch
<1>4. ItemBacked'
  BY <1>1, ItemsStayBacked DEF RestoreMismatch, Reachable, memory
<1>5. OpeningBacked'
  BY <1>1, OpenKeeps, ActorKinds DEF TypeInv, PcOK, ReqOK, ReqPc, BackedInv, OpeningBacked, FilesKept,
     RestoreMismatch
<1> QED BY <1>2, <1>3, <1>4, <1>5 DEF BackedInv

LEMMA PurgeBacked ==
  ASSUME TypeInv, BackedInv, NEW p \in Readers, Purge(p)
  PROVE  BackedInv'
<1>1. OpeningBacked' /\ WriteLive' /\ InsertBacked'
  BY ActorKinds DEF TypeInv, PcOK, ArcOK, ArcPc, OpenPc, FlushPc, ReqOK, ReqPc, KeyOK, ItemOK,
     Items, ItemType, Reachable, BackedInv, RowBacked, ItemBacked, OpeningBacked, WriteLive,
     InsertBacked, Purge, Install, Unused, NoReq, memory, disk
<1>2. RowBacked'
  <2>1. FilesKept
    BY DEF FilesKept, Purge
  <2>2. \A k \in Keys : row'[k] \in {row[k], NoRow}
    BY DEF Purge, TypeInv, RowOK
  <2> QED BY <2>1, <2>2, RowsStayBacked DEF NoRow
<1>3. ItemBacked'
  <2>1. req[p].key \in Keys
    BY ActorKinds DEF TypeInv, ReqOK, ReqPc, Purge
  <2>2. req[p].key \notin destroyed => file[req[p].key].exists
    BY <2>1 DEF BackedInv, OpeningBacked, Purge
  <2>3. PICK i \in Unused : /\ item' = [item EXCEPT ![i] = [NoItem EXCEPT !.key = req[p].key,
                                !.size = req[p].size, !.ranges = {}]]
                            /\ items' = [items EXCEPT ![req[p].key] = i]
                            /\ arc' = [arc EXCEPT ![p] = i]
    BY Zenon DEF Purge, Install
  <2>4. /\ item'[i].key = req[p].key /\ item'[i].ranges = {}
        /\ \A j \in ItemIds \ {i} : item'[j] = item[j]
    BY <2>3 DEF TypeInv, ItemOK, NoItem, Unused
  <2>5. \A j \in Reachable' : j = i \/ j \in Reachable
    BY <2>1, <2>3, ActorKinds DEF Reachable, TypeInv, MapOK, ArcOK
  <2> QED BY <2>2, <2>4, <2>5 DEF BackedInv, ItemBacked, Purge, Reachable
<1> QED BY <1>1, <1>2, <1>3 DEF BackedInv

LEMMA RestoreFailsBacked ==
  ASSUME TypeInv, BackedInv, NEW p \in Readers, RestoreFails(p)
  PROVE  BackedInv'
<1>1. RowBacked' /\ ItemBacked' /\ OpeningBacked' /\ WriteLive' /\ InsertBacked'
  BY ActorKinds DEF TypeInv, PcOK, ArcOK, ArcPc, OpenPc, FlushPc, ReqOK, ReqPc, KeyOK, ItemOK,
     Items, ItemType, Reachable, BackedInv, RowBacked, ItemBacked, OpeningBacked, WriteLive,
     InsertBacked, RestoreFails, NoReq, memory, disk
<1> QED BY <1>1 DEF BackedInv

LEMMA MarkOpenBacked ==
  ASSUME TypeInv, BackedInv, NEW p \in Readers, MarkOpen(p)
  PROVE  BackedInv'
<1>1. RowBacked' /\ ItemBacked' /\ OpeningBacked' /\ WriteLive' /\ InsertBacked'
  BY ActorKinds DEF TypeInv, PcOK, ArcOK, ArcPc, OpenPc, FlushPc, ReqOK, ReqPc, KeyOK, ItemOK,
     Items, ItemType, Reachable, BackedInv, RowBacked, ItemBacked, OpeningBacked, WriteLive,
     InsertBacked, MarkOpen, memory, disk
<1> QED BY <1>1 DEF BackedInv

LEMMA ReleaseBacked ==
  ASSUME TypeInv, BackedInv, NEW p \in Readers, Release(p)
  PROVE  BackedInv'
<1>1. arc[p] \in ItemIds
  BY ActorKinds DEF TypeInv, ArcOK, ArcPc, OpenPc, Release
<1>2. \A i \in Reachable' : /\ i \in Reachable
                            /\ item'[i].key = item[i].key /\ item'[i].ranges = item[i].ranges
  BY <1>1, ActorKinds DEF TypeInv, ItemOK, Items, ItemType, ArcOK, Reachable, Release, Collect
<1>3. FilesKept
  BY DEF FilesKept, Release, disk
<1>4. RowBacked' /\ OpeningBacked'
  BY ActorKinds DEF TypeInv, PcOK, BackedInv, RowBacked, OpeningBacked, Release, disk
<1>5. ItemBacked'
  BY <1>2, <1>3, ItemsStayBacked
<1>6. WriteLive' /\ InsertBacked'
  <2>1. \A v \in Workers : pc'[v] = pc[v] /\ arc'[v] = arc[v]
    BY ActorKinds DEF TypeInv, PcOK, ArcOK, Release
  <2>2. \A v \in Workers : pc[v] \in {"write", "insert"} => item'[arc[v]].key = item[arc[v]].key
    BY <1>2, <2>1, ActorKinds DEF TypeInv, ArcOK, ArcPc, Reachable
  <2>3. UNCHANGED << file, destroyed, blk, fd >>
    BY DEF Release, disk
  <2> QED BY <2>1, <2>2, <2>3 DEF BackedInv, WriteLive, InsertBacked
<1> QED BY <1>4, <1>5, <1>6 DEF BackedInv

LEMMA ReleaseLastBacked ==
  ASSUME TypeInv, BackedInv, NEW p \in Readers, ReleaseLast(p)
  PROVE  BackedInv'
<1>1. RowBacked' /\ ItemBacked' /\ OpeningBacked' /\ WriteLive' /\ InsertBacked'
  BY ActorKinds, SMTT(30) DEF TypeInv, PcOK, ArcOK, ArcPc, OpenPc, FlushPc, ReqOK, ReqPc, KeyOK, ItemOK,
     Items, ItemType, Reachable, BackedInv, RowBacked, ItemBacked, OpeningBacked, WriteLive,
     InsertBacked, ReleaseLast, memory, disk
<1> QED BY <1>1 DEF BackedInv

LEMMA InvalidateMapBacked ==
  ASSUME TypeInv, BackedInv, NEW p \in Readers, InvalidateMap(p)
  PROVE  BackedInv'
<1>1. RowBacked'
  BY ActorKinds DEF TypeInv, PcOK, ArcOK, ArcPc, OpenPc, FlushPc, ReqOK, ReqPc, KeyOK, ItemOK,
     Items, ItemType, Reachable, BackedInv, RowBacked, ItemBacked, OpeningBacked, WriteLive,
     InsertBacked, InvalidateMap, Collect, memory, disk
<1>2. ItemBacked'
  BY ActorKinds DEF TypeInv, PcOK, ArcOK, ArcPc, OpenPc, FlushPc, ReqOK, ReqPc, KeyOK, ItemOK,
     Items, ItemType, Reachable, BackedInv, RowBacked, ItemBacked, OpeningBacked, WriteLive,
     InsertBacked, InvalidateMap, Collect, memory, disk
<1>3. OpeningBacked'
  BY ActorKinds DEF TypeInv, PcOK, ArcOK, ArcPc, OpenPc, FlushPc, ReqOK, ReqPc, KeyOK, ItemOK,
     Items, ItemType, Reachable, BackedInv, RowBacked, ItemBacked, OpeningBacked, WriteLive,
     InsertBacked, InvalidateMap, Collect, memory, disk
<1>4. WriteLive'
  BY ActorKinds DEF TypeInv, PcOK, ArcOK, ArcPc, OpenPc, FlushPc, ReqOK, ReqPc, KeyOK, ItemOK,
     Items, ItemType, Reachable, BackedInv, RowBacked, ItemBacked, OpeningBacked, WriteLive,
     InsertBacked, InvalidateMap, Collect, memory, disk
<1>5. InsertBacked'
  BY ActorKinds DEF TypeInv, PcOK, ArcOK, ArcPc, OpenPc, FlushPc, ReqOK, ReqPc, KeyOK, ItemOK,
     Items, ItemType, Reachable, BackedInv, RowBacked, ItemBacked, OpeningBacked, WriteLive,
     InsertBacked, InvalidateMap, Collect, memory, disk
<1> QED BY <1>1, <1>2, <1>3, <1>4, <1>5 DEF BackedInv

LEMMA InvalidateFileBacked ==
  ASSUME TypeInv, BackedInv, NEW p \in Readers, InvalidateFile(p)
  PROVE  BackedInv'
<1>1. FilesKept
  <2>1. item[arc[p]].key \in Keys
    BY ActorKinds DEF TypeInv, ArcOK, ArcPc, OpenPc, KeyOK, Reachable, InvalidateFile
  <2> QED BY <2>1, UnlinkKeeps DEF InvalidateFile, FilesKept
<1>2. RowBacked' /\ ItemBacked' /\ OpeningBacked' /\ InsertBacked'
  BY ActorKinds, <1>1 DEF TypeInv, PcOK, ArcOK, ArcPc, OpenPc, FlushPc, ReqOK, ReqPc, KeyOK,
     ItemOK, Items, ItemType, Reachable, BackedInv, RowBacked, ItemBacked, OpeningBacked,
     WriteLive, InsertBacked, InvalidateFile, memory, disk, FilesKept
<1>3. WriteLive'
  <2>1. item[arc[p]].key \in Keys
    BY ActorKinds DEF TypeInv, ArcOK, ArcPc, OpenPc, KeyOK, Reachable, InvalidateFile
  <2> QED BY <1>1, <2>1, UnlinkKeeps, ActorKinds DEF TypeInv, PcOK, BackedInv, WriteLive, FilesKept,
             InvalidateFile, memory
<1> QED BY <1>2, <1>3 DEF BackedInv

LEMMA InvalidateRowBacked ==
  ASSUME TypeInv, BackedInv, NEW p \in Readers, InvalidateRow(p)
  PROVE  BackedInv'
<1>1. ItemBacked' /\ OpeningBacked' /\ WriteLive' /\ InsertBacked'
  BY ActorKinds DEF TypeInv, PcOK, ArcOK, ArcPc, OpenPc, FlushPc, ReqOK, ReqPc, KeyOK, ItemOK,
     Items, ItemType, Reachable, BackedInv, RowBacked, ItemBacked, OpeningBacked, WriteLive,
     InsertBacked, InvalidateRow, memory, disk
<1>2. RowBacked'
  <2>1. FilesKept
    BY DEF FilesKept, InvalidateRow
  <2>2. \A k \in Keys : row'[k] \in {row[k], NoRow}
    BY DEF InvalidateRow, TypeInv, RowOK
  <2> QED BY <2>1, <2>2, RowsStayBacked DEF NoRow
<1> QED BY <1>1, <1>2 DEF BackedInv

LEMMA SpawnWorkerBacked ==
  ASSUME TypeInv, BackedInv, NEW w \in Workers, NEW p \in Readers, SpawnWorker(w, p)
  PROVE  BackedInv'
<1>1. RowBacked' /\ ItemBacked' /\ OpeningBacked' /\ WriteLive' /\ InsertBacked'
  BY ActorKinds DEF TypeInv, PcOK, ArcOK, ArcPc, OpenPc, FlushPc, ReqOK, ReqPc, KeyOK, ItemOK,
     Items, ItemType, Reachable, BackedInv, RowBacked, ItemBacked, OpeningBacked, WriteLive,
     InsertBacked, SpawnWorker, memory, disk
<1> QED BY <1>1 DEF BackedInv

LEMMA EndWorkerBacked ==
  ASSUME TypeInv, BackedInv, NEW w \in Workers, EndWorker(w)
  PROVE  BackedInv'
<1>1. RowBacked' /\ ItemBacked' /\ OpeningBacked' /\ WriteLive' /\ InsertBacked'
  BY ActorKinds DEF TypeInv, PcOK, ArcOK, ArcPc, OpenPc, FlushPc, ReqOK, ReqPc, KeyOK, ItemOK,
     Items, ItemType, Reachable, BackedInv, RowBacked, ItemBacked, OpeningBacked, WriteLive,
     InsertBacked, EndWorker, Collect, memory, disk
<1> QED BY <1>1 DEF BackedInv

LEMMA OpenForWriteBacked ==
  ASSUME TypeInv, BackedInv, NEW w \in Workers, NEW b \in Blocks, OpenForWrite(w, b)
  PROVE  BackedInv'
<1>1. RowBacked' /\ ItemBacked' /\ OpeningBacked' /\ WriteLive' /\ InsertBacked'
  BY ActorKinds DEF TypeInv, PcOK, ArcOK, ArcPc, OpenPc, FlushPc, ReqOK, ReqPc, KeyOK, ItemOK,
     Items, ItemType, Reachable, BackedInv, RowBacked, ItemBacked, OpeningBacked, WriteLive,
     InsertBacked, OpenForWrite, memory, disk
<1> QED BY <1>1 DEF BackedInv

LEMMA WriteFileBacked ==
  ASSUME TypeInv, BackedInv, NEW w \in Workers, WriteFile(w)
  PROVE  BackedInv'
<1>1. FilesKept
  BY DEF WriteFile, FilesKept, TypeInv, FileOK, Files, FileType
<1>2. RowBacked'
  BY <1>1, RowsStayBacked DEF WriteFile
<1>3. ItemBacked'
  BY <1>1, ItemsStayBacked DEF WriteFile, Reachable, memory
<1>4. OpeningBacked'
  BY <1>1, ActorKinds DEF TypeInv, PcOK, ReqOK, ReqPc, BackedInv, OpeningBacked, FilesKept, WriteFile
<1>5. WriteLive'
  BY ActorKinds DEF TypeInv, PcOK, WriteOK, BackedInv, WriteLive, WriteFile, memory
<1>6. InsertBacked'
  <2> SUFFICES ASSUME NEW v \in Workers, pc'[v] = "insert", item[arc[v]].key \notin destroyed
               PROVE  blk[v] \in file'[item[arc[v]].key].data
    BY DEF InsertBacked, WriteFile, memory
  <2>1. /\ item[arc[v]].key \in Keys /\ file[item[arc[v]].key].exists
    BY ActorKinds DEF TypeInv, PcOK, ArcOK, ArcPc, KeyOK, Reachable, BackedInv, ItemBacked, WriteFile
  <2>2. CASE v = w
    <3>1. fd[w] = "live"
      BY <2>2 DEF TypeInv, WriteOK, BackedInv, WriteLive
    <3> QED BY <2>1, <2>2, <3>1 DEF TypeInv, FileOK, Files, FileType, WriteFile
  <2>3. CASE v # w
    BY <1>1, <2>1, <2>3, ActorKinds DEF TypeInv, PcOK, BackedInv, InsertBacked, FilesKept, WriteFile
  <2> QED BY <2>2, <2>3
<1> QED BY <1>2, <1>3, <1>4, <1>5, <1>6 DEF BackedInv

LEMMA InsertRangeBacked ==
  ASSUME TypeInv, BackedInv, NEW w \in Workers, InsertRange(w)
  PROVE  BackedInv'
<1>1. arc[w] \in ItemIds /\ arc[w] \in Reachable
  BY ActorKinds DEF TypeInv, ArcOK, ArcPc, Reachable, InsertRange
<1>2. /\ \A i \in ItemIds : item'[i].key = item[i].key
      /\ item'[arc[w]].ranges = item[arc[w]].ranges \cup {blk[w]}
      /\ \A i \in ItemIds \ {arc[w]} : item'[i] = item[i]
  BY <1>1 DEF TypeInv, ItemOK, Items, ItemType, InsertRange
<1>3. Reachable' = Reachable /\ \A i \in Reachable : i \in ItemIds
  BY DEF Reachable, InsertRange
<1>4. RowBacked' /\ OpeningBacked'
  BY ActorKinds DEF TypeInv, PcOK, BackedInv, RowBacked, OpeningBacked, InsertRange, disk
<1>5. ItemBacked'
  <2>1. item[arc[w]].key \notin destroyed => blk[w] \in file[item[arc[w]].key].data
    BY DEF BackedInv, InsertBacked, InsertRange
  <2>2. UNCHANGED << file, destroyed >>
    BY DEF InsertRange, disk
  <2> QED BY <1>1, <1>2, <1>3, <2>1, <2>2 DEF BackedInv, ItemBacked
<1>6. WriteLive' /\ InsertBacked'
  <2>1. \A v \in Workers : pc'[v] \in {"write", "insert"} =>
          v # w /\ pc'[v] = pc[v] /\ blk'[v] = blk[v] /\ arc[v] \in ItemIds
    BY ActorKinds DEF TypeInv, PcOK, ArcOK, ArcPc, WriteOK, InsertRange
  <2>2. fd[w] = "live" /\ fd' = fd /\ fd \in [Workers -> {"live", "stale"}]
    BY DEF BackedInv, WriteLive, TypeInv, WriteOK, InsertRange
  <2>3. \A v \in Workers \ {w} : pc'[v] = pc[v]
    BY ActorKinds DEF TypeInv, PcOK, InsertRange
  <2>4. UNCHANGED << file, destroyed, arc >>
    BY DEF InsertRange, disk
  <2> QED BY <1>2, <2>1, <2>2, <2>3, <2>4 DEF BackedInv, WriteLive, InsertBacked
<1> QED BY <1>4, <1>5, <1>6 DEF BackedInv

LEMMA FlushSkipBacked ==
  ASSUME TypeInv, BackedInv, NEW a \in Actors, FlushSkip(a)
  PROVE  BackedInv'
<1>1. RowBacked' /\ ItemBacked' /\ OpeningBacked' /\ WriteLive' /\ InsertBacked'
  BY ActorKinds, ZenonT(60) DEF TypeInv, PcOK, ArcOK, ArcPc, OpenPc, FlushPc, ReqOK, ReqPc, KeyOK, ItemOK,
     Items, ItemType, Reachable, BackedInv, RowBacked, ItemBacked, OpeningBacked, WriteLive,
     InsertBacked, FlushSkip, Collect, FlushReturn, memory, disk
<1> QED BY <1>1 DEF BackedInv

LEMMA FlushSnapshotBacked ==
  ASSUME TypeInv, BackedInv, NEW a \in Actors, FlushSnapshot(a)
  PROVE  BackedInv'
<1>1. RowBacked' /\ ItemBacked' /\ OpeningBacked' /\ WriteLive' /\ InsertBacked'
  BY ActorKinds DEF TypeInv, PcOK, ArcOK, ArcPc, OpenPc, FlushPc, ReqOK, ReqPc, KeyOK, ItemOK,
     Items, ItemType, Reachable, BackedInv, RowBacked, ItemBacked, OpeningBacked, WriteLive,
     InsertBacked, FlushSnapshot, memory, disk
<1> QED BY <1>1 DEF BackedInv

LEMMA UpsertBacked ==
  ASSUME TypeInv, BackedInv, NEW a \in Actors, Upsert(a)
  PROVE  BackedInv'
<1>1. ItemBacked' /\ OpeningBacked' /\ WriteLive' /\ InsertBacked'
  BY ActorKinds DEF TypeInv, PcOK, ArcOK, ArcPc, OpenPc, FlushPc, ReqOK, ReqPc, KeyOK, ItemOK,
     Items, ItemType, Reachable, BackedInv, RowBacked, ItemBacked, OpeningBacked, WriteLive,
     InsertBacked, Upsert, memory, disk
<1>2. RowBacked'
  <2>1. /\ arc[a] \in Reachable /\ item[arc[a]].key \in Keys
        /\ snap[a] \subseteq item[arc[a]].ranges
    BY DEF TypeInv, ArcOK, ArcPc, FlushPc, SnapOK, KeyOK, Reachable, Upsert
  <2>2. /\ row'[item[arc[a]].key].ranges = snap[a]
        /\ \A k \in Keys \ {item[arc[a]].key} : row'[k] = row[k]
    BY <2>1 DEF TypeInv, RowOK, Upsert
  <2> QED BY <2>1, <2>2 DEF BackedInv, RowBacked, ItemBacked, Upsert
<1> QED BY <1>1, <1>2 DEF BackedInv

LEMMA UpsertFailsBacked ==
  ASSUME TypeInv, BackedInv, NEW a \in Actors, UpsertFails(a)
  PROVE  BackedInv'
<1>1. RowBacked' /\ ItemBacked' /\ OpeningBacked' /\ WriteLive' /\ InsertBacked'
  BY ActorKinds, ZenonT(60) DEF TypeInv, PcOK, ArcOK, ArcPc, OpenPc, FlushPc, ReqOK, ReqPc, KeyOK, ItemOK,
     Items, ItemType, Reachable, BackedInv, RowBacked, ItemBacked, OpeningBacked, WriteLive,
     InsertBacked, UpsertFails, Collect, FlushReturn, memory, disk
<1> QED BY <1>1 DEF BackedInv

LEMMA FlushCleanBacked ==
  ASSUME TypeInv, BackedInv, NEW a \in Actors, FlushClean(a)
  PROVE  BackedInv'
<1>1. RowBacked'
  BY ActorKinds DEF TypeInv, PcOK, ArcOK, ArcPc, OpenPc, FlushPc, ReqOK, ReqPc, KeyOK, ItemOK,
     Items, ItemType, Reachable, BackedInv, RowBacked, ItemBacked, OpeningBacked, WriteLive,
     InsertBacked, FlushClean, Collect, FlushReturn, memory, disk
<1>2. ItemBacked'
  BY ActorKinds DEF TypeInv, PcOK, ArcOK, ArcPc, OpenPc, FlushPc, ReqOK, ReqPc, KeyOK, ItemOK,
     Items, ItemType, Reachable, BackedInv, RowBacked, ItemBacked, OpeningBacked, WriteLive,
     InsertBacked, FlushClean, Collect, FlushReturn, memory, disk
<1>3. OpeningBacked'
  BY ActorKinds DEF TypeInv, PcOK, ArcOK, ArcPc, OpenPc, FlushPc, ReqOK, ReqPc, KeyOK, ItemOK,
     Items, ItemType, Reachable, BackedInv, RowBacked, ItemBacked, OpeningBacked, WriteLive,
     InsertBacked, FlushClean, Collect, FlushReturn, memory, disk
<1>4. WriteLive'
  BY ActorKinds DEF TypeInv, PcOK, ArcOK, ArcPc, OpenPc, FlushPc, ReqOK, ReqPc, KeyOK, ItemOK,
     Items, ItemType, Reachable, BackedInv, RowBacked, ItemBacked, OpeningBacked, WriteLive,
     InsertBacked, FlushClean, Collect, FlushReturn, memory, disk
<1>5. InsertBacked'
  BY ActorKinds DEF TypeInv, PcOK, ArcOK, ArcPc, OpenPc, FlushPc, ReqOK, ReqPc, KeyOK, ItemOK,
     Items, ItemType, Reachable, BackedInv, RowBacked, ItemBacked, OpeningBacked, WriteLive,
     InsertBacked, FlushClean, Collect, FlushReturn, memory, disk
<1> QED BY <1>1, <1>2, <1>3, <1>4, <1>5 DEF BackedInv

LEMMA EvictScanBacked ==
  ASSUME TypeInv, BackedInv, EvictScan
  PROVE  BackedInv'
<1>1. RowBacked' /\ ItemBacked' /\ OpeningBacked' /\ WriteLive' /\ InsertBacked'
  BY ActorKinds DEF TypeInv, PcOK, ArcOK, ArcPc, OpenPc, FlushPc, ReqOK, ReqPc, KeyOK, ItemOK,
     Items, ItemType, Reachable, BackedInv, RowBacked, ItemBacked, OpeningBacked, WriteLive,
     InsertBacked, EvictScan, NoPass, memory, disk
<1> QED BY <1>1 DEF BackedInv

LEMMA EvictItemBacked ==
  ASSUME TypeInv, BackedInv, NEW k \in Keys, EvictItem(k)
  PROVE  BackedInv'
<1>1. RowBacked' /\ ItemBacked' /\ OpeningBacked' /\ WriteLive' /\ InsertBacked'
  BY ActorKinds DEF TypeInv, PcOK, ArcOK, ArcPc, OpenPc, FlushPc, ReqOK, ReqPc, KeyOK, ItemOK,
     Items, ItemType, Reachable, BackedInv, RowBacked, ItemBacked, OpeningBacked, WriteLive,
     InsertBacked, EvictItem, memory, disk
<1> QED BY <1>1 DEF BackedInv

LEMMA EvictKeepBacked ==
  ASSUME TypeInv, BackedInv, NEW k \in Keys, EvictKeep(k)
  PROVE  BackedInv'
<1>1. RowBacked' /\ ItemBacked' /\ OpeningBacked' /\ WriteLive' /\ InsertBacked'
  BY ActorKinds DEF TypeInv, PcOK, ArcOK, ArcPc, OpenPc, FlushPc, ReqOK, ReqPc, KeyOK, ItemOK,
     Items, ItemType, Reachable, BackedInv, RowBacked, ItemBacked, OpeningBacked, WriteLive,
     InsertBacked, EvictKeep, memory, disk
<1> QED BY <1>1 DEF BackedInv

LEMMA TtlSkipBacked ==
  ASSUME TypeInv, BackedInv, TtlSkip
  PROVE  BackedInv'
<1>1. RowBacked' /\ ItemBacked' /\ OpeningBacked' /\ WriteLive' /\ InsertBacked'
  BY ActorKinds DEF TypeInv, PcOK, ArcOK, ArcPc, OpenPc, FlushPc, ReqOK, ReqPc, KeyOK, ItemOK,
     Items, ItemType, Reachable, BackedInv, RowBacked, ItemBacked, OpeningBacked, WriteLive,
     InsertBacked, TtlSkip, memory, disk
<1> QED BY <1>1 DEF BackedInv

LEMMA TtlQueryBacked ==
  ASSUME TypeInv, BackedInv, TtlQuery
  PROVE  BackedInv'
<1>1. RowBacked' /\ ItemBacked' /\ OpeningBacked' /\ WriteLive' /\ InsertBacked'
  BY ActorKinds DEF TypeInv, PcOK, ArcOK, ArcPc, OpenPc, FlushPc, ReqOK, ReqPc, KeyOK, ItemOK,
     Items, ItemType, Reachable, BackedInv, RowBacked, ItemBacked, OpeningBacked, WriteLive,
     InsertBacked, TtlQuery, memory, disk
<1> QED BY <1>1 DEF BackedInv

LEMMA TtlKeepBacked ==
  ASSUME TypeInv, BackedInv, NEW k \in Keys, TtlKeep(k)
  PROVE  BackedInv'
<1>1. RowBacked' /\ ItemBacked' /\ OpeningBacked' /\ WriteLive' /\ InsertBacked'
  BY ActorKinds DEF TypeInv, PcOK, ArcOK, ArcPc, OpenPc, FlushPc, ReqOK, ReqPc, KeyOK, ItemOK,
     Items, ItemType, Reachable, BackedInv, RowBacked, ItemBacked, OpeningBacked, WriteLive,
     InsertBacked, TtlKeep, memory, disk
<1> QED BY <1>1 DEF BackedInv

LEMMA TtlChooseBacked ==
  ASSUME TypeInv, BackedInv, NEW k \in Keys, TtlChoose(k)
  PROVE  BackedInv'
<1>1. RowBacked' /\ ItemBacked' /\ OpeningBacked' /\ WriteLive' /\ InsertBacked'
  BY ActorKinds DEF TypeInv, PcOK, ArcOK, ArcPc, OpenPc, FlushPc, ReqOK, ReqPc, KeyOK, ItemOK,
     Items, ItemType, Reachable, BackedInv, RowBacked, ItemBacked, OpeningBacked, WriteLive,
     InsertBacked, TtlChoose, memory, disk
<1> QED BY <1>1 DEF BackedInv

LEMMA TtlUnlinkBacked ==
  ASSUME TypeInv, BackedInv, TtlUnlink
  PROVE  BackedInv'
<1>1. FilesKept
  BY UnlinkKeeps DEF TypeInv, EvOK, TtlUnlink, FilesKept
<1>2. RowBacked' /\ ItemBacked' /\ OpeningBacked' /\ InsertBacked'
  BY ActorKinds, <1>1, SMTT(30) DEF TypeInv, PcOK, ArcOK, ArcPc, OpenPc, FlushPc, ReqOK, ReqPc, KeyOK,
     ItemOK, Items, ItemType, Reachable, BackedInv, RowBacked, ItemBacked, OpeningBacked,
     WriteLive, InsertBacked, TtlUnlink, memory, disk, FilesKept
<1>3. WriteLive'
  BY <1>1, UnlinkKeeps, ActorKinds DEF TypeInv, PcOK, EvOK, BackedInv, WriteLive, FilesKept, TtlUnlink,
     memory
<1> QED BY <1>2, <1>3 DEF BackedInv

LEMMA TtlDeleteBacked ==
  ASSUME TypeInv, BackedInv, TtlDelete
  PROVE  BackedInv'
<1>1. ItemBacked' /\ OpeningBacked' /\ WriteLive' /\ InsertBacked'
  BY ActorKinds DEF TypeInv, PcOK, ArcOK, ArcPc, OpenPc, FlushPc, ReqOK, ReqPc, KeyOK, ItemOK,
     Items, ItemType, Reachable, BackedInv, RowBacked, ItemBacked, OpeningBacked, WriteLive,
     InsertBacked, TtlDelete, NoPass, memory, disk
<1>2. RowBacked'
  <2>1. FilesKept
    BY DEF FilesKept, TtlDelete
  <2>2. \A k \in Keys : row'[k] \in {row[k], NoRow}
    BY DEF TtlDelete
  <2> QED BY <2>1, <2>2, RowsStayBacked DEF NoRow
<1> QED BY <1>1, <1>2 DEF BackedInv

LEMMA LruSkipBacked ==
  ASSUME TypeInv, BackedInv, LruSkip
  PROVE  BackedInv'
<1>1. FilesKept
  BY EndPassKeeps DEF LruSkip
<1>2. ItemBacked' /\ OpeningBacked' /\ WriteLive' /\ InsertBacked'
  BY ActorKinds, <1>1 DEF TypeInv, PcOK, ArcOK, ArcPc, OpenPc, FlushPc, ReqOK, ReqPc, KeyOK,
     ItemOK, Items, ItemType, Reachable, BackedInv, RowBacked, ItemBacked, OpeningBacked,
     WriteLive, InsertBacked, LruSkip, EndPass, NoPass, memory, disk, FilesKept
<1>3. RowBacked'
  BY <1>1, EndPassKeeps, RowsStayBacked DEF LruSkip
<1> QED BY <1>2, <1>3 DEF BackedInv

LEMMA LruScanBacked ==
  ASSUME TypeInv, BackedInv, LruScan
  PROVE  BackedInv'
<1>1. RowBacked' /\ ItemBacked' /\ OpeningBacked' /\ WriteLive' /\ InsertBacked'
  BY ActorKinds DEF TypeInv, PcOK, ArcOK, ArcPc, OpenPc, FlushPc, ReqOK, ReqPc, KeyOK, ItemOK,
     Items, ItemType, Reachable, BackedInv, RowBacked, ItemBacked, OpeningBacked, WriteLive,
     InsertBacked, LruScan, NoPass, memory, disk
<1> QED BY <1>1 DEF BackedInv

LEMMA LruKeepBacked ==
  ASSUME TypeInv, BackedInv, NEW c \in ev.cands, LruKeep(c)
  PROVE  BackedInv'
<1>1. RowBacked' /\ ItemBacked' /\ OpeningBacked' /\ WriteLive' /\ InsertBacked'
  BY ActorKinds DEF TypeInv, PcOK, ArcOK, ArcPc, OpenPc, FlushPc, ReqOK, ReqPc, KeyOK, ItemOK,
     Items, ItemType, Reachable, BackedInv, RowBacked, ItemBacked, OpeningBacked, WriteLive,
     InsertBacked, LruKeep, memory, disk
<1> QED BY <1>1 DEF BackedInv

LEMMA LruChooseBacked ==
  ASSUME TypeInv, BackedInv, NEW c \in ev.cands, LruChoose(c)
  PROVE  BackedInv'
<1>1. RowBacked' /\ ItemBacked' /\ OpeningBacked' /\ WriteLive' /\ InsertBacked'
  BY ActorKinds DEF TypeInv, PcOK, ArcOK, ArcPc, OpenPc, FlushPc, ReqOK, ReqPc, KeyOK, ItemOK,
     Items, ItemType, Reachable, BackedInv, RowBacked, ItemBacked, OpeningBacked, WriteLive,
     InsertBacked, LruChoose, memory, disk
<1> QED BY <1>1 DEF BackedInv

LEMMA LruUnlinkBacked ==
  ASSUME TypeInv, BackedInv, LruUnlink
  PROVE  BackedInv'
<1>1. FilesKept
  BY UnlinkKeeps DEF TypeInv, EvOK, LruUnlink, FilesKept
<1>2. RowBacked' /\ ItemBacked' /\ OpeningBacked' /\ InsertBacked'
  BY ActorKinds, <1>1 DEF TypeInv, PcOK, ArcOK, ArcPc, OpenPc, FlushPc, ReqOK, ReqPc, KeyOK,
     ItemOK, Items, ItemType, Reachable, BackedInv, RowBacked, ItemBacked, OpeningBacked,
     WriteLive, InsertBacked, LruUnlink, memory, disk, FilesKept
<1>3. WriteLive'
  BY <1>1, UnlinkKeeps, ActorKinds DEF TypeInv, PcOK, EvOK, BackedInv, WriteLive, FilesKept, LruUnlink,
     memory
<1> QED BY <1>2, <1>3 DEF BackedInv

LEMMA LruDoneBacked ==
  ASSUME TypeInv, BackedInv, LruDone
  PROVE  BackedInv'
<1>1. FilesKept
  BY EndPassKeeps DEF LruDone
<1>2. ItemBacked' /\ OpeningBacked' /\ WriteLive' /\ InsertBacked'
  BY ActorKinds, <1>1 DEF TypeInv, PcOK, ArcOK, ArcPc, OpenPc, FlushPc, ReqOK, ReqPc, KeyOK,
     ItemOK, Items, ItemType, Reachable, BackedInv, RowBacked, ItemBacked, OpeningBacked,
     WriteLive, InsertBacked, LruDone, EndPass, NoPass, memory, disk, FilesKept
<1>3. RowBacked'
  BY <1>1, EndPassKeeps, RowsStayBacked DEF LruDone
<1> QED BY <1>2, <1>3 DEF BackedInv

LEMMA RestartBacked ==
  ASSUME TypeInv, BackedInv, Restart
  PROVE  BackedInv'
<1>1. FilesKept
  BY EndPassKeeps DEF Restart
<1>2. OpeningBacked' /\ WriteLive' /\ InsertBacked'
  BY ActorKinds, <1>1 DEF TypeInv, PcOK, ArcOK, ArcPc, OpenPc, FlushPc, ReqOK, ReqPc, KeyOK,
     ItemOK, Items, ItemType, Reachable, BackedInv, RowBacked, ItemBacked, OpeningBacked,
     WriteLive, InsertBacked, Restart, EndPass, NoReq, NoPass, memory, disk, FilesKept
<1>3. RowBacked'
  BY <1>1, EndPassKeeps, RowsStayBacked DEF Restart
<1>4. ItemBacked'
  BY ActorKinds DEF ItemBacked, Reachable, Restart
<1> QED BY <1>2, <1>3, <1>4 DEF BackedInv

-----------------------------------------------------------------------------
(* The reads that `opens` of item i has to count.                          *)
HeldBy(i, at, held) == {r \in Readers : held[r] = i /\ at[r] \in OpenPc}

LEMMA CountsForm ==
  OpensCountsReaders <=> \A i \in Reachable : item[i].opens = Cardinality(HeldBy(i, pc, arc))
BY Zenon DEF OpensCountsReaders, HeldBy

LEMMA CountsFormNext ==
  OpensCountsReaders'
    <=> \A i \in Reachable' : item'[i].opens = Cardinality(HeldBy(i, pc', arc'))
BY Zenon DEF OpensCountsReaders, HeldBy

LEMMA HeldByFinite == ASSUME NEW i, NEW at, NEW held PROVE IsFiniteSet(HeldBy(i, at, held))
BY Constants, FS_Subset DEF HeldBy

(* A step that opens and closes nothing.                                   *)
SameHandles == \A r \in Readers : /\ pc'[r] \in OpenPc <=> pc[r] \in OpenPc
                                  /\ pc[r] \in OpenPc => arc'[r] = arc[r]

SameOpens == \A i \in Reachable' : i \in Reachable /\ item'[i].opens = item[i].opens

LEMMA OpensUnchanged ==
  ASSUME OpensCountsReaders, SameHandles, SameOpens
  PROVE  OpensCountsReaders'
<1> SUFFICES ASSUME NEW i \in Reachable'
             PROVE  item'[i].opens = Cardinality(HeldBy(i, pc', arc'))
  BY CountsFormNext
<1>1. HeldBy(i, pc', arc') = HeldBy(i, pc, arc)
  BY DEF HeldBy, SameHandles
<1>2. i \in Reachable /\ item'[i].opens = item[i].opens
  BY DEF SameOpens
<1> QED BY <1>1, <1>2, CountsForm

(* A read p begins to use item i, or ceases to; no other read does.        *)
OthersKeep(p, i) ==
  /\ \A r \in Readers \ {p} : pc'[r] = pc[r] /\ arc'[r] = arc[r]
  /\ \A j \in Reachable' \ {i} : j \in Reachable /\ item'[j].opens = item[j].opens

LEMMA OpensOneMore ==
  ASSUME OpensCountsReaders, NEW p \in Readers, NEW i \in Reachable, OthersKeep(p, i),
         pc[p] \notin OpenPc, pc'[p] \in OpenPc, arc'[p] = i,
         item'[i].opens = item[i].opens + 1
  PROVE  OpensCountsReaders'
<1> SUFFICES ASSUME NEW j \in Reachable'
             PROVE  item'[j].opens = Cardinality(HeldBy(j, pc', arc'))
  BY CountsFormNext
<1>1. CASE j = i
  <2>1. HeldBy(i, pc', arc') = HeldBy(i, pc, arc) \cup {p} /\ p \notin HeldBy(i, pc, arc)
    BY DEF HeldBy, OthersKeep
  <2>2. Cardinality(HeldBy(i, pc', arc')) = Cardinality(HeldBy(i, pc, arc)) + 1
    BY <2>1, HeldByFinite, FS_AddElement, ZenonT(60)
  <2> QED BY <1>1, <2>2, CountsForm
<1>2. CASE j # i
  <2>1. HeldBy(j, pc', arc') = HeldBy(j, pc, arc)
    BY <1>2 DEF HeldBy, OthersKeep
  <2>2. j \in Reachable /\ item'[j].opens = item[j].opens
    BY <1>2 DEF OthersKeep
  <2> QED BY <2>1, <2>2, CountsForm
<1> QED BY <1>1, <1>2

LEMMA OpensOneLess ==
  ASSUME OpensCountsReaders, NEW p \in Readers, NEW i \in Reachable, OthersKeep(p, i),
         pc[p] \in OpenPc, arc[p] = i, pc'[p] \notin OpenPc,
         i \in Reachable' => item'[i].opens = item[i].opens - 1
  PROVE  OpensCountsReaders'
<1> SUFFICES ASSUME NEW j \in Reachable'
             PROVE  item'[j].opens = Cardinality(HeldBy(j, pc', arc'))
  BY CountsFormNext
<1>1. CASE j = i
  <2>1. HeldBy(i, pc', arc') = HeldBy(i, pc, arc) \ {p} /\ p \in HeldBy(i, pc, arc)
    BY DEF HeldBy, OthersKeep
  <2>2. Cardinality(HeldBy(i, pc', arc')) = Cardinality(HeldBy(i, pc, arc)) - 1
    BY <2>1, HeldByFinite, FS_RemoveElement
  <2> QED BY <1>1, <2>2, CountsForm
<1>2. CASE j # i
  <2>1. HeldBy(j, pc', arc') = HeldBy(j, pc, arc)
    BY <1>2 DEF HeldBy, OthersKeep
  <2>2. j \in Reachable /\ item'[j].opens = item[j].opens
    BY <1>2 DEF OthersKeep
  <2> QED BY <2>1, <2>2, CountsForm
<1> QED BY <1>1, <1>2

LEMMA OpensPositive ==
  ASSUME TypeInv, OpensCountsReaders, NEW p \in Readers, pc[p] \in OpenPc
  PROVE  arc[p] \in Reachable /\ item[arc[p]].opens \in Nat \ {0}
<1>1. arc[p] \in Reachable
  BY ActorKinds DEF TypeInv, ArcOK, ArcPc, Reachable
<1>2. item[arc[p]].opens = Cardinality(HeldBy(arc[p], pc, arc))
  BY <1>1, CountsForm
<1>3. p \in HeldBy(arc[p], pc, arc)
  BY DEF HeldBy
<1>4. /\ Cardinality(HeldBy(arc[p], pc, arc)) \in Nat
      /\ Cardinality(HeldBy(arc[p], pc, arc)) # 0
  BY <1>3, HeldByFinite, FS_CardinalityType, FS_EmptySet
<1> QED BY <1>1, <1>2, <1>4

(***************************************************************************)
(* The steps that leave the items, the map, its locks and the Arcs alone   *)
(* and move a read only within its flush or its invalidation.              *)
(***************************************************************************)
Quiet ==
  /\ UNCHANGED << items, locked, item, arc, req >>
  /\ \A r \in Readers : \/ pc'[r] = pc[r]
                        \/ {pc[r], pc'[r]} \subseteq OpenPc
                        \/ {pc[r], pc'[r]} \subseteq FlushPc

LEMMA QuietReaders ==
  ASSUME TypeInv, NEW p \in Readers, InvalidateFile(p) \/ InvalidateRow(p)
  PROVE  Quiet
BY ActorKinds DEF TypeInv, PcOK, OpenPc, Quiet, InvalidateFile, InvalidateRow, memory

LEMMA QuietWorkers ==
  ASSUME TypeInv, NEW w \in Workers, WriteFile(w) \/ \E b \in Blocks : OpenForWrite(w, b)
  PROVE  Quiet
BY ActorKinds DEF TypeInv, PcOK, Quiet, WriteFile, OpenForWrite, memory

LEMMA QuietFlushes ==
  ASSUME TypeInv, NEW a \in Actors, FlushSnapshot(a) \/ Upsert(a)
  PROVE  Quiet
BY ActorKinds DEF TypeInv, PcOK, FlushPc, Quiet, FlushSnapshot, Upsert, memory

LEMMA QuietEvictor ==
  ASSUME TypeInv, EvictorStep, ~\E k \in Keys : EvictItem(k)
  PROVE  Quiet
<1>1. UNCHANGED << items, locked, item, arc, req >>
  BY DEF EvictorStep, EvictScan, EvictKeep, TtlSkip, TtlQuery, TtlKeep, TtlChoose, TtlUnlink,
     TtlDelete, LruSkip, LruScan, LruKeep, LruChoose, LruUnlink, LruDone, memory
<1>2. pc' = pc \/ \E x : pc' = [pc EXCEPT ![Evictor] = x]
  BY DEF EvictorStep, EvictScan, EvictKeep, TtlSkip, TtlQuery, TtlKeep, TtlChoose, TtlUnlink,
     TtlDelete, LruSkip, LruScan, LruKeep, LruChoose, LruUnlink, LruDone
<1>3. \A r \in Readers : pc'[r] = pc[r]
  BY <1>2, ActorKinds DEF TypeInv, PcOK
<1> QED BY <1>1, <1>3 DEF Quiet

LEMMA QuietCounts ==
  ASSUME OpensCountsReaders, Quiet
  PROVE  OpensCountsReaders'
BY OpensUnchanged DEF Quiet, OpenPc, FlushPc, SameHandles, SameOpens, Reachable

LEMMA GetHitCounts ==
  ASSUME TypeInv, OpensCountsReaders, NEW p \in Readers, NEW k \in Keys, GetHit(p, k)
  PROVE  OpensCountsReaders'
<1>1. items[k] \in ItemIds /\ items[k] \in Reachable
  BY DEF TypeInv, MapOK, Reachable, GetHit
<1>2. item'[items[k]].opens = item[items[k]].opens + 1
  BY <1>1 DEF TypeInv, ItemOK, Items, ItemType, GetHit
<1>3. \A j \in Reachable' \ {items[k]} : j \in Reachable /\ item'[j].opens = item[j].opens
  BY <1>1, ActorKinds DEF TypeInv, ArcOK, ItemOK, Reachable, GetHit
<1>4. /\ pc[p] \notin OpenPc /\ pc'[p] \in OpenPc /\ arc'[p] = items[k]
      /\ \A r \in Readers \ {p} : pc'[r] = pc[r] /\ arc'[r] = arc[r]
  BY ActorKinds DEF TypeInv, PcOK, ArcOK, OpenPc, GetHit
<1>5. OthersKeep(p, items[k])
  BY <1>3, <1>4 DEF OthersKeep
<1> QED BY <1>1, <1>2, <1>4, <1>5, OpensOneMore

LEMMA GetMissCounts ==
  ASSUME TypeInv, OpensCountsReaders, NEW p \in Readers, NEW k \in Keys, NEW size
     \in env.sizes, GetMiss(p, k, size)
  PROVE  OpensCountsReaders'
<1>1. SameHandles
  BY ActorKinds DEF TypeInv, PcOK, ArcOK, OpenPc, FlushPc, SameHandles, GetMiss, memory
<1>2. SameOpens
  BY ActorKinds DEF TypeInv, MapOK, ArcOK, ArcPc, OpenPc, FlushPc, ReqOK, ReqPc, ItemOK, Items,
     ItemType, Reachable, SameOpens, GetMiss, memory
<1> QED BY <1>1, <1>2, OpensUnchanged

LEMMA EntryOccupiedCounts ==
  ASSUME TypeInv, OpensCountsReaders, NEW p \in Readers, EntryOccupied(p)
  PROVE  OpensCountsReaders'
<1>1. SameHandles
  BY ActorKinds DEF TypeInv, PcOK, ArcOK, OpenPc, FlushPc, SameHandles, EntryOccupied, memory
<1>2. SameOpens
  BY ActorKinds DEF TypeInv, MapOK, ArcOK, ArcPc, OpenPc, FlushPc, ReqOK, ReqPc, ItemOK, Items,
     ItemType, Reachable, SameOpens, EntryOccupied, memory
<1> QED BY <1>1, <1>2, OpensUnchanged

LEMMA EntryVacantCounts ==
  ASSUME TypeInv, OpensCountsReaders, NEW p \in Readers, EntryVacant(p)
  PROVE  OpensCountsReaders'
<1>1. SameHandles
  BY ActorKinds DEF TypeInv, PcOK, ArcOK, OpenPc, FlushPc, SameHandles, EntryVacant, memory
<1>2. SameOpens
  BY ActorKinds DEF TypeInv, MapOK, ArcOK, ArcPc, OpenPc, FlushPc, ReqOK, ReqPc, ItemOK, Items,
     ItemType, Reachable, SameOpens, EntryVacant, memory
<1> QED BY <1>1, <1>2, OpensUnchanged

LEMMA EntryFailsCounts ==
  ASSUME TypeInv, OpensCountsReaders, NEW p \in Readers, EntryFails(p)
  PROVE  OpensCountsReaders'
<1>1. SameHandles
  BY ActorKinds DEF TypeInv, PcOK, ArcOK, OpenPc, FlushPc, SameHandles, EntryFails, memory
<1>2. SameOpens
  BY ActorKinds DEF TypeInv, MapOK, ArcOK, ArcPc, OpenPc, FlushPc, ReqOK, ReqPc, ItemOK, Items,
     ItemType, Reachable, SameOpens, EntryFails, memory
<1> QED BY <1>1, <1>2, OpensUnchanged

LEMMA RestoreCounts ==
  ASSUME TypeInv, OpensCountsReaders, NEW p \in Readers, Restore(p)
  PROVE  OpensCountsReaders'
<1>1. req[p].key \in Keys
  BY ActorKinds DEF TypeInv, ReqOK, ReqPc, Restore
<1>2. PICK i \in Unused : /\ item' = [item EXCEPT ![i] = [NoItem EXCEPT !.key = req[p].key,
                              !.size = req[p].size, !.ranges = row[req[p].key].ranges]]
                          /\ items' = [items EXCEPT ![req[p].key] = i]
                          /\ arc' = [arc EXCEPT ![p] = i]
  BY Zenon DEF Restore, Install
<1>3. item'[i].opens = 0 /\ \A j \in ItemIds \ {i} : item'[j] = item[j]
  BY <1>2 DEF TypeInv, ItemOK, NoItem, Unused
<1>4. \A r \in Readers : /\ pc'[r] \in OpenPc <=> pc[r] \in OpenPc
                         /\ pc[r] \in OpenPc => arc'[r] = arc[r]
  BY <1>2, ActorKinds DEF TypeInv, PcOK, ArcOK, OpenPc, Restore, Install
<1>5. \A j : HeldBy(j, pc', arc') = HeldBy(j, pc, arc)
  BY <1>4 DEF HeldBy
<1>6. HeldBy(i, pc, arc) = {} /\ Cardinality({}) = 0
  BY FS_EmptySet, ActorKinds DEF HeldBy, Unused
<1>7. \A j \in Reachable' : j = i \/ j \in Reachable
  BY <1>1, <1>2, ActorKinds DEF Reachable, TypeInv, MapOK, ArcOK
<1>8. ASSUME NEW j \in Reachable' PROVE item'[j].opens = Cardinality(HeldBy(j, pc', arc'))
  <2>1. CASE j = i
    BY <1>3, <1>5, <1>6, <2>1
  <2>2. CASE j # i /\ j \in Reachable
    <3>1. item'[j] = item[j]
      BY <1>3, <2>2 DEF Reachable
    <3> QED BY <1>5, <2>2, <3>1, CountsForm
  <2> QED BY <1>7, <2>1, <2>2
<1> QED BY <1>8, CountsFormNext

LEMMA RestoreMismatchCounts ==
  ASSUME TypeInv, OpensCountsReaders, NEW p \in Readers, RestoreMismatch(p)
  PROVE  OpensCountsReaders'
<1>1. SameHandles
  BY ActorKinds DEF TypeInv, PcOK, ArcOK, OpenPc, FlushPc, SameHandles, RestoreMismatch, memory
<1>2. SameOpens
  BY ActorKinds DEF TypeInv, MapOK, ArcOK, ArcPc, OpenPc, FlushPc, ReqOK, ReqPc, ItemOK, Items,
     ItemType, Reachable, SameOpens, RestoreMismatch, memory
<1> QED BY <1>1, <1>2, OpensUnchanged

LEMMA PurgeCounts ==
  ASSUME TypeInv, OpensCountsReaders, NEW p \in Readers, Purge(p)
  PROVE  OpensCountsReaders'
<1>1. req[p].key \in Keys
  BY ActorKinds DEF TypeInv, ReqOK, ReqPc, Purge
<1>2. PICK i \in Unused : /\ item' = [item EXCEPT ![i] = [NoItem EXCEPT !.key = req[p].key,
                              !.size = req[p].size, !.ranges = {}]]
                          /\ items' = [items EXCEPT ![req[p].key] = i]
                          /\ arc' = [arc EXCEPT ![p] = i]
  BY Zenon DEF Purge, Install
<1>3. item'[i].opens = 0 /\ \A j \in ItemIds \ {i} : item'[j] = item[j]
  BY <1>2 DEF TypeInv, ItemOK, NoItem, Unused
<1>4. \A r \in Readers : /\ pc'[r] \in OpenPc <=> pc[r] \in OpenPc
                         /\ pc[r] \in OpenPc => arc'[r] = arc[r]
  BY <1>2, ActorKinds DEF TypeInv, PcOK, ArcOK, OpenPc, Purge, Install
<1>5. \A j : HeldBy(j, pc', arc') = HeldBy(j, pc, arc)
  BY <1>4 DEF HeldBy
<1>6. HeldBy(i, pc, arc) = {} /\ Cardinality({}) = 0
  BY FS_EmptySet, ActorKinds DEF HeldBy, Unused
<1>7. \A j \in Reachable' : j = i \/ j \in Reachable
  BY <1>1, <1>2, ActorKinds DEF Reachable, TypeInv, MapOK, ArcOK
<1>8. ASSUME NEW j \in Reachable' PROVE item'[j].opens = Cardinality(HeldBy(j, pc', arc'))
  <2>1. CASE j = i
    BY <1>3, <1>5, <1>6, <2>1
  <2>2. CASE j # i /\ j \in Reachable
    <3>1. item'[j] = item[j]
      BY <1>3, <2>2 DEF Reachable
    <3> QED BY <1>5, <2>2, <3>1, CountsForm
  <2> QED BY <1>7, <2>1, <2>2
<1> QED BY <1>8, CountsFormNext

LEMMA RestoreFailsCounts ==
  ASSUME TypeInv, OpensCountsReaders, NEW p \in Readers, RestoreFails(p)
  PROVE  OpensCountsReaders'
<1>1. SameHandles
  BY ActorKinds DEF TypeInv, PcOK, ArcOK, OpenPc, FlushPc, SameHandles, RestoreFails, memory
<1>2. SameOpens
  BY ActorKinds DEF TypeInv, MapOK, ArcOK, ArcPc, OpenPc, FlushPc, ReqOK, ReqPc, ItemOK, Items,
     ItemType, Reachable, SameOpens, RestoreFails, memory
<1> QED BY <1>1, <1>2, OpensUnchanged

LEMMA MarkOpenCounts ==
  ASSUME TypeInv, OpensCountsReaders, NEW p \in Readers, MarkOpen(p)
  PROVE  OpensCountsReaders'
<1>1. arc[p] \in ItemIds /\ arc[p] \in Reachable
  BY ActorKinds DEF TypeInv, ArcOK, ArcPc, Reachable, MarkOpen
<1>2. item'[arc[p]].opens = item[arc[p]].opens + 1
  BY <1>1 DEF TypeInv, ItemOK, Items, ItemType, MarkOpen
<1>3. \A j \in Reachable' \ {arc[p]} : j \in Reachable /\ item'[j].opens = item[j].opens
  BY <1>1 DEF TypeInv, ItemOK, Reachable, MarkOpen
<1>4. /\ pc[p] \notin OpenPc /\ pc'[p] \in OpenPc /\ arc' = arc
      /\ \A r \in Readers \ {p} : pc'[r] = pc[r]
  BY ActorKinds DEF TypeInv, PcOK, OpenPc, MarkOpen
<1>5. OthersKeep(p, arc[p])
  BY <1>3, <1>4 DEF OthersKeep
<1> QED BY <1>1, <1>2, <1>4, <1>5, OpensOneMore

LEMMA ReleaseCounts ==
  ASSUME TypeInv, OpensCountsReaders, NEW p \in Readers, Release(p)
  PROVE  OpensCountsReaders'
<1>1. pc[p] \in OpenPc /\ arc[p] \in ItemIds /\ arc[p] \in Reachable /\ item[arc[p]].opens \in Nat \ {0}
  BY OpensPositive DEF OpenPc, Reachable, Release
<1> DEFINE n == IF item[arc[p]].opens = 0 THEN 0 ELSE item[arc[p]].opens - 1
           new == [item EXCEPT ![arc[p]].opens = n]
<1>2. /\ new[arc[p]].opens = item[arc[p]].opens - 1
      /\ \A j \in ItemIds \ {arc[p]} : new[j].opens = item[j].opens
  BY <1>1 DEF TypeInv, ItemOK, Items, ItemType
<1>3. item' = Collect(new, items, arc') /\ items' = items
  BY DEF Release
<1>4. /\ pc'[p] \notin OpenPc
      /\ \A r \in Actors \ {p} : pc'[r] = pc[r] /\ arc'[r] = arc[r]
      /\ arc'[p] = None
  BY ActorKinds DEF TypeInv, PcOK, ArcOK, OpenPc, Release
<1> HIDE DEF new
<1>5. arc[p] \in Reachable' => item'[arc[p]].opens = item[arc[p]].opens - 1
  BY <1>1, <1>2, <1>3 DEF Collect, Reachable
<1>6. \A j \in Reachable' \ {arc[p]} : j \in Reachable /\ item'[j].opens = item[j].opens
  BY <1>1, <1>2, <1>3, <1>4, ActorKinds DEF Collect, Reachable
<1>7. OthersKeep(p, arc[p])
  BY <1>4, <1>6, ActorKinds DEF OthersKeep
<1> QED BY <1>1, <1>4, <1>5, <1>7, OpensOneLess

LEMMA ReleaseLastCounts ==
  ASSUME TypeInv, OpensCountsReaders, NEW p \in Readers, ReleaseLast(p)
  PROVE  OpensCountsReaders'
<1>1. pc[p] \in OpenPc /\ arc[p] \in ItemIds /\ arc[p] \in Reachable
  BY OpensPositive DEF OpenPc, Reachable, ReleaseLast
<1>2. item'[arc[p]].opens = item[arc[p]].opens - 1
  BY <1>1 DEF TypeInv, ItemOK, Items, ItemType, ReleaseLast
<1>3. \A j \in Reachable' \ {arc[p]} : j \in Reachable /\ item'[j].opens = item[j].opens
  BY <1>1 DEF TypeInv, ItemOK, Reachable, ReleaseLast
<1>4. /\ pc'[p] \notin OpenPc /\ arc' = arc
      /\ \A r \in Readers \ {p} : pc'[r] = pc[r]
  BY ActorKinds DEF TypeInv, PcOK, OpenPc, ReleaseLast
<1>5. OthersKeep(p, arc[p])
  BY <1>3, <1>4 DEF OthersKeep
<1> QED BY <1>1, <1>2, <1>4, <1>5, OpensOneLess

LEMMA InvalidateMapCounts ==
  ASSUME TypeInv, OpensCountsReaders, NEW p \in Readers, InvalidateMap(p)
  PROVE  OpensCountsReaders'
<1>1. SameHandles
  BY ActorKinds DEF TypeInv, PcOK, ArcOK, OpenPc, FlushPc, SameHandles, InvalidateMap, memory
<1>2. SameOpens
  BY ActorKinds DEF TypeInv, MapOK, ArcOK, ArcPc, OpenPc, FlushPc, ReqOK, ReqPc, ItemOK, Items,
     ItemType, Reachable, SameOpens, InvalidateMap, Collect, memory
<1> QED BY <1>1, <1>2, OpensUnchanged

LEMMA SpawnWorkerCounts ==
  ASSUME TypeInv, OpensCountsReaders, NEW w \in Workers, NEW p \in Readers, SpawnWorker(w, p)
  PROVE  OpensCountsReaders'
<1>1. SameHandles
  BY ActorKinds DEF TypeInv, PcOK, ArcOK, OpenPc, FlushPc, SameHandles, SpawnWorker, memory
<1>2. SameOpens
  BY ActorKinds DEF TypeInv, MapOK, ArcOK, ArcPc, OpenPc, FlushPc, ReqOK, ReqPc, ItemOK, Items,
     ItemType, Reachable, SameOpens, SpawnWorker, memory
<1> QED BY <1>1, <1>2, OpensUnchanged

LEMMA EndWorkerCounts ==
  ASSUME TypeInv, OpensCountsReaders, NEW w \in Workers, EndWorker(w)
  PROVE  OpensCountsReaders'
<1>1. SameHandles
  BY ActorKinds DEF TypeInv, PcOK, ArcOK, OpenPc, FlushPc, SameHandles, EndWorker, memory
<1>2. SameOpens
  BY ActorKinds DEF TypeInv, MapOK, ArcOK, ArcPc, OpenPc, FlushPc, ReqOK, ReqPc, ItemOK, Items,
     ItemType, Reachable, SameOpens, EndWorker, Collect, memory
<1> QED BY <1>1, <1>2, OpensUnchanged

LEMMA InsertRangeCounts ==
  ASSUME TypeInv, OpensCountsReaders, NEW w \in Workers, InsertRange(w)
  PROVE  OpensCountsReaders'
<1>1. SameHandles
  BY ActorKinds DEF TypeInv, PcOK, ArcOK, OpenPc, FlushPc, SameHandles, InsertRange, memory
<1>2. SameOpens
  BY ActorKinds DEF TypeInv, MapOK, ArcOK, ArcPc, OpenPc, FlushPc, ReqOK, ReqPc, ItemOK, Items,
     ItemType, Reachable, SameOpens, InsertRange, memory
<1> QED BY <1>1, <1>2, OpensUnchanged

LEMMA FlushSkipCounts ==
  ASSUME TypeInv, OpensCountsReaders, NEW a \in Actors, FlushSkip(a)
  PROVE  OpensCountsReaders'
<1>1. SameHandles
  <2>1. CASE a \in Readers
    BY <2>1, ActorKinds DEF TypeInv, PcOK, ArcOK, OpenPc, FlushPc, SameHandles, Actors,
       FlushReturn, FlushSkip
  <2>2. CASE a \notin Readers
    BY <2>2, ActorKinds DEF TypeInv, PcOK, ArcOK, OpenPc, FlushPc, SameHandles, Actors,
       FlushReturn, FlushSkip
  <2> QED BY <2>1, <2>2
<1>2. SameOpens
  BY ActorKinds DEF TypeInv, MapOK, ArcOK, ArcPc, OpenPc, FlushPc, ReqOK, ReqPc, ItemOK, Items,
     ItemType, Reachable, SameOpens, FlushSkip, Collect, FlushReturn, memory
<1> QED BY <1>1, <1>2, OpensUnchanged

LEMMA UpsertFailsCounts ==
  ASSUME TypeInv, OpensCountsReaders, NEW a \in Actors, UpsertFails(a)
  PROVE  OpensCountsReaders'
<1>1. SameHandles
  <2>1. CASE a \in Readers
    BY <2>1, ActorKinds DEF TypeInv, PcOK, ArcOK, OpenPc, FlushPc, SameHandles, Actors,
       FlushReturn, UpsertFails
  <2>2. CASE a \notin Readers
    BY <2>2, ActorKinds DEF TypeInv, PcOK, ArcOK, OpenPc, FlushPc, SameHandles, Actors,
       FlushReturn, UpsertFails
  <2> QED BY <2>1, <2>2
<1>2. SameOpens
  BY ActorKinds DEF TypeInv, MapOK, ArcOK, ArcPc, OpenPc, FlushPc, ReqOK, ReqPc, ItemOK, Items,
     ItemType, Reachable, SameOpens, UpsertFails, Collect, FlushReturn, memory
<1> QED BY <1>1, <1>2, OpensUnchanged

LEMMA FlushCleanCounts ==
  ASSUME TypeInv, OpensCountsReaders, NEW a \in Actors, FlushClean(a)
  PROVE  OpensCountsReaders'
<1>1. SameHandles
  <2>1. CASE a \in Readers
    BY <2>1, ActorKinds DEF TypeInv, PcOK, ArcOK, OpenPc, FlushPc, SameHandles, Actors,
       FlushReturn, FlushClean
  <2>2. CASE a \notin Readers
    BY <2>2, ActorKinds DEF TypeInv, PcOK, ArcOK, OpenPc, FlushPc, SameHandles, Actors,
       FlushReturn, FlushClean
  <2> QED BY <2>1, <2>2
<1>2. SameOpens
  BY ActorKinds DEF TypeInv, MapOK, ArcOK, ArcPc, OpenPc, FlushPc, ReqOK, ReqPc, ItemOK, Items,
     ItemType, Reachable, SameOpens, FlushClean, Collect, FlushReturn, memory
<1> QED BY <1>1, <1>2, OpensUnchanged

LEMMA EvictItemCounts ==
  ASSUME TypeInv, OpensCountsReaders, NEW k \in Keys, EvictItem(k)
  PROVE  OpensCountsReaders'
<1>1. SameHandles
  BY ActorKinds DEF TypeInv, PcOK, ArcOK, OpenPc, FlushPc, SameHandles, EvictItem, memory
<1>2. SameOpens
  BY ActorKinds DEF TypeInv, MapOK, ArcOK, ArcPc, OpenPc, FlushPc, ReqOK, ReqPc, ItemOK, Items,
     ItemType, Reachable, SameOpens, EvictItem, memory
<1> QED BY <1>1, <1>2, OpensUnchanged

LEMMA RestartCounts ==
  ASSUME TypeInv, OpensCountsReaders, Restart
  PROVE  OpensCountsReaders'
<1>1. Reachable' = {}
  BY ActorKinds DEF Reachable, Restart
<1> QED BY <1>1, CountsFormNext

-----------------------------------------------------------------------------
(***************************************************************************)
(* Why there is one item per key.  While a vacant entry is being filled,   *)
(* its shard is locked for one read alone and the key has no item.         *)
(***************************************************************************)
FillPc == {"restore", "purge"}

ShardHeld ==
  \A r \in Readers : pc[r] \in FillPc => req[r].key \in locked /\ items[req[r].key] = None
ShardOwned ==
  \A r, s \in Readers : pc[r] \in FillPc /\ pc[s] \in FillPc /\ req[r].key = req[s].key => r = s

ShardInv == ShardHeld /\ ShardOwned

(***************************************************************************)
(* When no read stops for a minute within get_or_create and none           *)
(* invalidates, an item in use, or about to be, stays in the map: what the *)
(* eviction pass chose is nobody's.                                        *)
(***************************************************************************)
OpenMapped == \A i \in Reachable : item[i].opens > 0 => items[item[i].key] = i
MarkMapped == \A r \in Readers : pc[r] = "mark" => items[item[arc[r]].key] = arc[r]
ChosenIdle ==
  pc[Evictor] \in {"evict"} \cup FlushPc => \A k \in ev.todo : items[k] # None /\ ~Arriving(k)

CanonInv == OpenMapped /\ MarkMapped /\ ChosenIdle

LEMMA CanonImpliesOne == CanonInv => OneCanonicalItem
BY DEF CanonInv, OpenMapped, OneCanonicalItem

LEMMA InstallFacts ==
  ASSUME TypeInv, NEW p \in Readers, pc[p] \in FillPc, NEW ranges, Install(p, ranges)
  PROVE  \E i \in Unused : /\ items' = [items EXCEPT ![req[p].key] = i]
                           /\ arc' = [arc EXCEPT ![p] = i]
                           /\ item'[i].opens = 0 /\ item'[i].key = req[p].key
                           /\ \A j \in ItemIds \ {i} : item'[j] = item[j]
<1>1. PICK i \in Unused : /\ item' = [item EXCEPT ![i] = [NoItem EXCEPT !.key = req[p].key,
                              !.size = req[p].size, !.ranges = ranges]]
                          /\ items' = [items EXCEPT ![req[p].key] = i]
                          /\ arc' = [arc EXCEPT ![p] = i]
  BY Zenon DEF Install
<1>2. /\ item'[i].opens = 0 /\ item'[i].key = req[p].key
      /\ \A j \in ItemIds \ {i} : item'[j] = item[j]
  BY <1>1 DEF TypeInv, ItemOK, NoItem, Unused
<1> QED BY <1>1, <1>2

LEMMA InstallShard ==
  ASSUME TypeInv, ShardInv, NEW p \in Readers, pc[p] \in FillPc, NEW ranges, Install(p, ranges)
  PROVE  ShardInv'
<1>1. PICK i \in Unused : items' = [items EXCEPT ![req[p].key] = i]
  BY InstallFacts
<1>2. /\ locked' = locked \ {req[p].key}
      /\ req' = [req EXCEPT ![p] = NoReq]
      /\ pc' = [pc EXCEPT ![p] = "mark"]
  BY DEF Install
<1>3. \A r \in Readers : pc'[r] \in FillPc => r # p /\ pc[r] \in FillPc /\ req'[r] = req[r]
  BY <1>2, ActorKinds DEF TypeInv, PcOK, ReqOK, FillPc
<1> QED BY <1>1, <1>2, <1>3 DEF TypeInv, MapOK, ReqOK, ShardInv, ShardHeld, ShardOwned

LEMMA InstallCanon ==
  ASSUME TypeInv, ShardInv, CanonInv, NEW p \in Readers, pc[p] \in FillPc,
         NEW ranges, Install(p, ranges), ev' = ev
  PROVE  CanonInv'
<1>1. PICK i \in Unused : /\ items' = [items EXCEPT ![req[p].key] = i]
                          /\ arc' = [arc EXCEPT ![p] = i]
                          /\ item'[i].opens = 0 /\ item'[i].key = req[p].key
                          /\ \A j \in ItemIds \ {i} : item'[j] = item[j]
  BY InstallFacts
<1>2. req' = [req EXCEPT ![p] = NoReq] /\ pc' = [pc EXCEPT ![p] = "mark"]
  BY DEF Install
<1>3. req[p].key \in Keys /\ items[req[p].key] = None /\ i \in ItemIds /\ i # None
  BY Constants DEF TypeInv, ReqOK, ReqPc, FillPc, ShardInv, ShardHeld, Unused
<1>4. \A j \in Reachable' : j = i \/ j \in Reachable
  BY <1>1, <1>3, ActorKinds DEF Reachable, TypeInv, MapOK, ArcOK, Unused
<1>5. \A j \in Reachable : j # i /\ j \in ItemIds /\ item'[j] = item[j] /\ item[j].key \in Keys
  BY <1>1 DEF Reachable, Unused, TypeInv, KeyOK
<1>6. OpenMapped'
  <2> SUFFICES ASSUME NEW j \in Reachable', item'[j].opens > 0
               PROVE  items'[item'[j].key] = j
    BY DEF OpenMapped
  <2>1. j \in Reachable
    BY <1>1, <1>4
  <2>2. items[item[j].key] = j /\ item'[j] = item[j] /\ item[j].key \in Keys
    BY <2>1, <1>5 DEF CanonInv, OpenMapped
  <2>3. item[j].key # req[p].key
    BY <1>3, <2>1, <2>2, Constants DEF Reachable
  <2> QED BY <1>1, <2>2, <2>3 DEF TypeInv, MapOK
<1>7. MarkMapped'
  <2> SUFFICES ASSUME NEW r \in Readers, pc'[r] = "mark"
               PROVE  items'[item'[arc'[r]].key] = arc'[r]
    BY DEF MarkMapped
  <2>1. CASE r = p
    BY <2>1, <1>1, <1>3, ActorKinds DEF TypeInv, MapOK, ArcOK
  <2>2. CASE r # p
    <3>1. pc[r] = "mark" /\ arc'[r] = arc[r] /\ arc[r] \in Reachable
      BY <2>2, <1>1, <1>2, ActorKinds DEF TypeInv, PcOK, ArcOK, ArcPc, Reachable
    <3>2. items[item[arc[r]].key] = arc[r] /\ item'[arc[r]] = item[arc[r]]
          /\ item[arc[r]].key \in Keys /\ arc[r] \in ItemIds
      BY <3>1, <1>5 DEF CanonInv, MarkMapped
    <3>3. item[arc[r]].key # req[p].key
      BY <1>3, <3>2, Constants
    <3> QED BY <1>1, <3>1, <3>2, <3>3 DEF TypeInv, MapOK
  <2> QED BY <2>1, <2>2
<1>8. ChosenIdle'
  <2> SUFFICES ASSUME pc[Evictor] \in {"evict"} \cup FlushPc, NEW k \in ev.todo
               PROVE  items'[k] # None /\ ~Arriving(k)'
    BY <1>2, ActorKinds DEF ChosenIdle, TypeInv, PcOK
  <2>1. items[k] # None /\ ~Arriving(k) /\ k \in Keys
    BY DEF CanonInv, ChosenIdle, TypeInv, EvOK
  <2>2. k # req[p].key
    BY <1>3, <2>1
  <2>3. ASSUME NEW r \in Readers
        PROVE  /\ ~(pc'[r] \in {"entry", "restore", "purge"} /\ req'[r].key = k)
               /\ ~(pc'[r] = "mark" /\ item'[arc'[r]].key = k)
    <3>1. CASE r = p
      BY <3>1, <1>1, <1>2, <2>2, ActorKinds DEF TypeInv, PcOK, ArcOK
    <3>2. CASE r # p
      <4>1. pc'[r] = pc[r] /\ arc'[r] = arc[r] /\ req'[r] = req[r]
        BY <3>2, <1>1, <1>2, ActorKinds DEF TypeInv, PcOK, ArcOK, ReqOK
      <4>2. pc[r] = "mark" => item'[arc[r]] = item[arc[r]]
        BY <1>5, ActorKinds DEF TypeInv, ArcOK, ArcPc, Reachable
      <4> QED BY <2>1, <4>1, <4>2 DEF Arriving
    <3> QED BY <3>1, <3>2
  <2> QED BY <1>1, <2>1, <2>2, <2>3 DEF Arriving, TypeInv, MapOK
<1> QED BY <1>6, <1>7, <1>8 DEF CanonInv

LEMMA QuietShard ==
  ASSUME ShardInv, Quiet
  PROVE  ShardInv'
<1>1. \A r \in Readers : pc'[r] \in FillPc => pc[r] \in FillPc
  BY DEF Quiet, OpenPc, FlushPc, FillPc
<1> QED BY <1>1 DEF Quiet, ShardInv, ShardHeld, ShardOwned

(* What the pass has chosen only shrinks after its scan.                   *)
LEMMA QuietCanon ==
  ASSUME CanonInv, Quiet,
         pc'[Evictor] \in {"evict"} \cup FlushPc =>
           pc[Evictor] \in {"evict"} \cup FlushPc /\ ev'.todo \subseteq ev.todo
  PROVE  CanonInv'
<1>1. OpenMapped'
  BY DEF CanonInv, OpenMapped, Quiet, Reachable
<1>2. \A r \in Readers : pc'[r] \in {"entry", "restore", "purge", "mark"} => pc[r] = pc'[r]
  BY DEF Quiet, OpenPc, FlushPc
<1>3. MarkMapped'
  BY <1>2 DEF CanonInv, MarkMapped, Quiet
<1>4. \A k : Arriving(k)' => Arriving(k)
  BY <1>2 DEF Arriving, Quiet
<1>5. ChosenIdle'
  BY <1>4 DEF CanonInv, ChosenIdle, Quiet
<1> QED BY <1>1, <1>3, <1>5 DEF CanonInv

LEMMA ChosenShrinks ==
  ASSUME TypeInv, pc'[Evictor] \in {"evict"} \cup FlushPc,
         \/ \E p \in Readers : InvalidateFile(p) \/ InvalidateRow(p)
         \/ \E w \in Workers : WriteFile(w) \/ \E b \in Blocks : OpenForWrite(w, b)
         \/ \E a \in Actors : FlushSnapshot(a) \/ Upsert(a)
         \/ EvictorStep /\ ~EvictScan
  PROVE  pc[Evictor] \in {"evict"} \cup FlushPc /\ ev'.todo \subseteq ev.todo
<1>1. CASE \E p \in Readers : InvalidateFile(p) \/ InvalidateRow(p)
  BY <1>1, ActorKinds DEF TypeInv, PcOK, InvalidateFile, InvalidateRow
<1>2. CASE \E w \in Workers : WriteFile(w) \/ \E b \in Blocks : OpenForWrite(w, b)
  BY <1>2, ActorKinds DEF TypeInv, PcOK, WriteFile, OpenForWrite
<1>3. CASE \E a \in Actors : FlushSnapshot(a) \/ Upsert(a)
  BY <1>3, ActorKinds DEF TypeInv, PcOK, FlushPc, FlushSnapshot, Upsert
<1>4. CASE EvictorStep /\ ~EvictScan
  <2>1. CASE \E k \in Keys : EvictItem(k) \/ EvictKeep(k)
    BY <2>1 DEF TypeInv, EvOK, EvictItem, EvictKeep
  <2>2. CASE ~\E k \in Keys : EvictItem(k) \/ EvictKeep(k)
    BY <1>4, <2>2, ActorKinds DEF TypeInv, PcOK, FlushPc, EvictorStep, TtlSkip, TtlQuery, TtlKeep,
       TtlChoose, TtlUnlink, TtlDelete, LruSkip, LruScan, LruKeep, LruChoose, LruUnlink, LruDone
  <2> QED BY <2>1, <2>2
<1> QED BY <1>1, <1>2, <1>3, <1>4

LEMMA GetHitShard ==
  ASSUME TypeInv, ShardInv, NEW p \in Readers, NEW k \in Keys, GetHit(p, k)
  PROVE  ShardInv'
BY ActorKinds DEF TypeInv, PcOK, MapOK, ReqOK, ReqPc, FlushPc, OpenPc, FillPc, ShardInv,
   ShardHeld, ShardOwned, GetHit, memory

LEMMA GetMissShard ==
  ASSUME TypeInv, ShardInv, NEW p \in Readers, NEW k \in Keys, NEW size \in env.sizes,
     GetMiss(p, k, size)
  PROVE  ShardInv'
BY ActorKinds DEF TypeInv, PcOK, MapOK, ReqOK, ReqPc, FlushPc, OpenPc, FillPc, ShardInv,
   ShardHeld, ShardOwned, GetMiss, memory

LEMMA EntryOccupiedShard ==
  ASSUME TypeInv, ShardInv, NEW p \in Readers, EntryOccupied(p)
  PROVE  ShardInv'
BY ActorKinds DEF TypeInv, PcOK, MapOK, ReqOK, ReqPc, FlushPc, OpenPc, FillPc, ShardInv,
   ShardHeld, ShardOwned, EntryOccupied, memory

LEMMA EntryVacantShard ==
  ASSUME TypeInv, ShardInv, NEW p \in Readers, EntryVacant(p)
  PROVE  ShardInv'
BY ActorKinds DEF TypeInv, PcOK, MapOK, ReqOK, ReqPc, FlushPc, OpenPc, FillPc, ShardInv,
   ShardHeld, ShardOwned, EntryVacant, OpenFile, memory

LEMMA EntryFailsShard ==
  ASSUME TypeInv, ShardInv, NEW p \in Readers, EntryFails(p)
  PROVE  ShardInv'
BY ActorKinds DEF TypeInv, PcOK, MapOK, ReqOK, ReqPc, FlushPc, OpenPc, FillPc, ShardInv,
   ShardHeld, ShardOwned, EntryFails, memory

LEMMA RestoreShard ==
  ASSUME TypeInv, ShardInv, NEW p \in Readers, Restore(p)
  PROVE  ShardInv'
BY InstallShard DEF Restore, FillPc

LEMMA RestoreMismatchShard ==
  ASSUME TypeInv, ShardInv, NEW p \in Readers, RestoreMismatch(p)
  PROVE  ShardInv'
BY ActorKinds DEF TypeInv, PcOK, MapOK, ReqOK, ReqPc, FlushPc, OpenPc, FillPc, ShardInv,
   ShardHeld, ShardOwned, RestoreMismatch, OpenFile, memory

LEMMA PurgeShard ==
  ASSUME TypeInv, ShardInv, NEW p \in Readers, Purge(p)
  PROVE  ShardInv'
BY InstallShard DEF Purge, FillPc

LEMMA RestoreFailsShard ==
  ASSUME TypeInv, ShardInv, NEW p \in Readers, RestoreFails(p)
  PROVE  ShardInv'
BY ActorKinds DEF TypeInv, PcOK, MapOK, ReqOK, ReqPc, FlushPc, OpenPc, FillPc, ShardInv,
   ShardHeld, ShardOwned, RestoreFails, memory

LEMMA MarkOpenShard ==
  ASSUME TypeInv, ShardInv, NEW p \in Readers, MarkOpen(p)
  PROVE  ShardInv'
BY ActorKinds DEF TypeInv, PcOK, MapOK, ReqOK, ReqPc, FlushPc, OpenPc, FillPc, ShardInv,
   ShardHeld, ShardOwned, MarkOpen, memory

LEMMA ReleaseShard ==
  ASSUME TypeInv, ShardInv, NEW p \in Readers, Release(p)
  PROVE  ShardInv'
BY ActorKinds DEF TypeInv, PcOK, MapOK, ReqOK, ReqPc, FlushPc, OpenPc, FillPc, ShardInv,
   ShardHeld, ShardOwned, Release, Collect, memory

LEMMA ReleaseLastShard ==
  ASSUME TypeInv, ShardInv, NEW p \in Readers, ReleaseLast(p)
  PROVE  ShardInv'
BY ActorKinds DEF TypeInv, PcOK, MapOK, ReqOK, ReqPc, FlushPc, OpenPc, FillPc, ShardInv,
   ShardHeld, ShardOwned, ReleaseLast, memory

LEMMA InvalidateMapShard ==
  ASSUME TypeInv, ShardInv, NEW p \in Readers, InvalidateMap(p)
  PROVE  ShardInv'
BY ActorKinds DEF TypeInv, PcOK, MapOK, ReqOK, ReqPc, FlushPc, OpenPc, FillPc, ShardInv,
   ShardHeld, ShardOwned, InvalidateMap, Collect, memory

LEMMA SpawnWorkerShard ==
  ASSUME TypeInv, ShardInv, NEW w \in Workers, NEW p \in Readers, SpawnWorker(w, p)
  PROVE  ShardInv'
BY ActorKinds DEF TypeInv, PcOK, MapOK, ReqOK, ReqPc, FlushPc, OpenPc, FillPc, ShardInv,
   ShardHeld, ShardOwned, SpawnWorker, memory

LEMMA EndWorkerShard ==
  ASSUME TypeInv, ShardInv, NEW w \in Workers, EndWorker(w)
  PROVE  ShardInv'
BY ActorKinds DEF TypeInv, PcOK, MapOK, ReqOK, ReqPc, FlushPc, OpenPc, FillPc, ShardInv,
   ShardHeld, ShardOwned, EndWorker, Collect, memory

LEMMA InsertRangeShard ==
  ASSUME TypeInv, ShardInv, NEW w \in Workers, InsertRange(w)
  PROVE  ShardInv'
BY ActorKinds DEF TypeInv, PcOK, MapOK, ReqOK, ReqPc, FlushPc, OpenPc, FillPc, ShardInv,
   ShardHeld, ShardOwned, InsertRange, memory

LEMMA FlushSkipShard ==
  ASSUME TypeInv, ShardInv, NEW a \in Actors, FlushSkip(a)
  PROVE  ShardInv'
BY ActorKinds DEF TypeInv, PcOK, MapOK, ReqOK, ReqPc, FlushPc, OpenPc, FillPc, ShardInv,
   ShardHeld, ShardOwned, FlushSkip, Collect, FlushReturn, memory

LEMMA UpsertFailsShard ==
  ASSUME TypeInv, ShardInv, NEW a \in Actors, UpsertFails(a)
  PROVE  ShardInv'
BY ActorKinds DEF TypeInv, PcOK, MapOK, ReqOK, ReqPc, FlushPc, OpenPc, FillPc, ShardInv,
   ShardHeld, ShardOwned, UpsertFails, Collect, FlushReturn, memory

LEMMA FlushCleanShard ==
  ASSUME TypeInv, ShardInv, NEW a \in Actors, FlushClean(a)
  PROVE  ShardInv'
BY ActorKinds DEF TypeInv, PcOK, MapOK, ReqOK, ReqPc, FlushPc, OpenPc, FillPc, ShardInv,
   ShardHeld, ShardOwned, FlushClean, Collect, FlushReturn, memory

LEMMA EvictItemShard ==
  ASSUME TypeInv, ShardInv, NEW k \in Keys, EvictItem(k)
  PROVE  ShardInv'
BY ActorKinds DEF TypeInv, PcOK, MapOK, ReqOK, ReqPc, FlushPc, OpenPc, FillPc, ShardInv,
   ShardHeld, ShardOwned, EvictItem, memory

LEMMA RestartShard ==
  ASSUME TypeInv, ShardInv, Restart
  PROVE  ShardInv'
BY ActorKinds DEF TypeInv, PcOK, MapOK, ReqOK, ReqPc, FlushPc, OpenPc, FillPc, ShardInv,
   ShardHeld, ShardOwned, Restart, memory

LEMMA GetHitCanon ==
  ASSUME TypeInv, ShardInv, CanonInv, NEW p \in Readers, NEW k \in Keys, GetHit(p, k)
  PROVE  CanonInv'
<1>1. OpenMapped'
  BY ActorKinds DEF TypeInv, PcOK, MapOK, ArcOK, ArcPc, ReqOK, ReqPc, FlushPc, OpenPc, KeyOK,
     ItemOK, Items, ItemType, Reachable, CanonInv, OpenMapped, GetHit, memory
<1>2. MarkMapped'
  BY ActorKinds DEF TypeInv, PcOK, MapOK, ArcOK, ArcPc, ReqOK, ReqPc, FlushPc, OpenPc, KeyOK,
     ItemOK, Items, ItemType, Reachable, CanonInv, MarkMapped, GetHit, memory
<1>3. ChosenIdle'
  BY ActorKinds DEF TypeInv, PcOK, MapOK, ArcOK, ArcPc, ReqOK, ReqPc, FlushPc, OpenPc, KeyOK,
     ItemOK, Items, ItemType, Reachable, CanonInv, ChosenIdle, Arriving, GetHit, memory
<1> QED BY <1>1, <1>2, <1>3 DEF CanonInv

LEMMA GetMissCanon ==
  ASSUME TypeInv, ShardInv, CanonInv, NEW p \in Readers, NEW k \in Keys, NEW size
     \in env.sizes, GetMiss(p, k, size)
  PROVE  CanonInv'
<1>1. OpenMapped'
  BY ActorKinds DEF TypeInv, PcOK, MapOK, ArcOK, ArcPc, ReqOK, ReqPc, FlushPc, OpenPc, KeyOK,
     ItemOK, Items, ItemType, Reachable, CanonInv, OpenMapped, GetMiss, memory
<1>2. MarkMapped'
  BY ActorKinds DEF TypeInv, PcOK, MapOK, ArcOK, ArcPc, ReqOK, ReqPc, FlushPc, OpenPc, KeyOK,
     ItemOK, Items, ItemType, Reachable, CanonInv, MarkMapped, GetMiss, memory
<1>3. ChosenIdle'
  BY ActorKinds DEF TypeInv, PcOK, MapOK, ArcOK, ArcPc, ReqOK, ReqPc, FlushPc, OpenPc, KeyOK,
     ItemOK, Items, ItemType, Reachable, CanonInv, ChosenIdle, Arriving, GetMiss, memory
<1> QED BY <1>1, <1>2, <1>3 DEF CanonInv

LEMMA EntryOccupiedCanon ==
  ASSUME TypeInv, ShardInv, CanonInv, NEW p \in Readers, EntryOccupied(p)
  PROVE  CanonInv'
<1>1. OpenMapped'
  BY ActorKinds DEF TypeInv, PcOK, MapOK, ArcOK, ArcPc, ReqOK, ReqPc, FlushPc, OpenPc, KeyOK,
     ItemOK, Items, ItemType, Reachable, CanonInv, OpenMapped, EntryOccupied, memory
<1>2. MarkMapped'
  BY ActorKinds DEF TypeInv, PcOK, MapOK, ArcOK, ArcPc, ReqOK, ReqPc, FlushPc, OpenPc, KeyOK,
     ItemOK, Items, ItemType, Reachable, CanonInv, MarkMapped, EntryOccupied, memory
<1>3. ChosenIdle'
  BY ActorKinds DEF TypeInv, PcOK, MapOK, ArcOK, ArcPc, ReqOK, ReqPc, FlushPc, OpenPc, KeyOK,
     ItemOK, Items, ItemType, Reachable, CanonInv, ChosenIdle, Arriving, EntryOccupied, memory
<1> QED BY <1>1, <1>2, <1>3 DEF CanonInv

LEMMA EntryVacantCanon ==
  ASSUME TypeInv, ShardInv, CanonInv, NEW p \in Readers, EntryVacant(p)
  PROVE  CanonInv'
<1>1. OpenMapped'
  BY ActorKinds DEF TypeInv, PcOK, MapOK, ArcOK, ArcPc, ReqOK, ReqPc, FlushPc, OpenPc, KeyOK,
     ItemOK, Items, ItemType, Reachable, CanonInv, OpenMapped, EntryVacant, OpenFile, memory
<1>2. MarkMapped'
  BY ActorKinds DEF TypeInv, PcOK, MapOK, ArcOK, ArcPc, ReqOK, ReqPc, FlushPc, OpenPc, KeyOK,
     ItemOK, Items, ItemType, Reachable, CanonInv, MarkMapped, EntryVacant, OpenFile, memory
<1>3. ChosenIdle'
  BY ActorKinds DEF TypeInv, PcOK, MapOK, ArcOK, ArcPc, ReqOK, ReqPc, FlushPc, OpenPc, KeyOK,
     ItemOK, Items, ItemType, Reachable, CanonInv, ChosenIdle, Arriving, EntryVacant, OpenFile,
     memory
<1> QED BY <1>1, <1>2, <1>3 DEF CanonInv

LEMMA EntryFailsCanon ==
  ASSUME TypeInv, ShardInv, CanonInv, NEW p \in Readers, EntryFails(p)
  PROVE  CanonInv'
<1>1. OpenMapped'
  BY ActorKinds DEF TypeInv, PcOK, MapOK, ArcOK, ArcPc, ReqOK, ReqPc, FlushPc, OpenPc, KeyOK,
     ItemOK, Items, ItemType, Reachable, CanonInv, OpenMapped, EntryFails, memory
<1>2. MarkMapped'
  BY ActorKinds DEF TypeInv, PcOK, MapOK, ArcOK, ArcPc, ReqOK, ReqPc, FlushPc, OpenPc, KeyOK,
     ItemOK, Items, ItemType, Reachable, CanonInv, MarkMapped, EntryFails, memory
<1>3. ChosenIdle'
  BY ActorKinds DEF TypeInv, PcOK, MapOK, ArcOK, ArcPc, ReqOK, ReqPc, FlushPc, OpenPc, KeyOK,
     ItemOK, Items, ItemType, Reachable, CanonInv, ChosenIdle, Arriving, EntryFails, memory
<1> QED BY <1>1, <1>2, <1>3 DEF CanonInv

LEMMA RestoreCanon ==
  ASSUME TypeInv, ShardInv, CanonInv, NEW p \in Readers, Restore(p)
  PROVE  CanonInv'
BY InstallCanon DEF Restore, FillPc

LEMMA RestoreMismatchCanon ==
  ASSUME TypeInv, ShardInv, CanonInv, NEW p \in Readers, RestoreMismatch(p)
  PROVE  CanonInv'
<1>1. OpenMapped'
  BY ActorKinds DEF TypeInv, PcOK, MapOK, ArcOK, ArcPc, ReqOK, ReqPc, FlushPc, OpenPc, KeyOK,
     ItemOK, Items, ItemType, Reachable, CanonInv, OpenMapped, RestoreMismatch, OpenFile,
     memory
<1>2. MarkMapped'
  BY ActorKinds DEF TypeInv, PcOK, MapOK, ArcOK, ArcPc, ReqOK, ReqPc, FlushPc, OpenPc, KeyOK,
     ItemOK, Items, ItemType, Reachable, CanonInv, MarkMapped, RestoreMismatch, OpenFile,
     memory
<1>3. ChosenIdle'
  BY ActorKinds DEF TypeInv, PcOK, MapOK, ArcOK, ArcPc, ReqOK, ReqPc, FlushPc, OpenPc, KeyOK,
     ItemOK, Items, ItemType, Reachable, CanonInv, ChosenIdle, Arriving, RestoreMismatch,
     OpenFile, memory
<1> QED BY <1>1, <1>2, <1>3 DEF CanonInv

LEMMA PurgeCanon ==
  ASSUME TypeInv, ShardInv, CanonInv, NEW p \in Readers, Purge(p)
  PROVE  CanonInv'
BY InstallCanon DEF Purge, FillPc

LEMMA RestoreFailsCanon ==
  ASSUME TypeInv, ShardInv, CanonInv, NEW p \in Readers, RestoreFails(p)
  PROVE  CanonInv'
<1>1. OpenMapped'
  BY ActorKinds DEF TypeInv, PcOK, MapOK, ArcOK, ArcPc, ReqOK, ReqPc, FlushPc, OpenPc, KeyOK,
     ItemOK, Items, ItemType, Reachable, CanonInv, OpenMapped, RestoreFails, memory
<1>2. MarkMapped'
  BY ActorKinds DEF TypeInv, PcOK, MapOK, ArcOK, ArcPc, ReqOK, ReqPc, FlushPc, OpenPc, KeyOK,
     ItemOK, Items, ItemType, Reachable, CanonInv, MarkMapped, RestoreFails, memory
<1>3. ChosenIdle'
  BY ActorKinds DEF TypeInv, PcOK, MapOK, ArcOK, ArcPc, ReqOK, ReqPc, FlushPc, OpenPc, KeyOK,
     ItemOK, Items, ItemType, Reachable, CanonInv, ChosenIdle, Arriving, RestoreFails, memory
<1> QED BY <1>1, <1>2, <1>3 DEF CanonInv

LEMMA MarkOpenCanon ==
  ASSUME TypeInv, ShardInv, CanonInv, NEW p \in Readers, MarkOpen(p)
  PROVE  CanonInv'
<1>1. arc[p] \in ItemIds /\ arc[p] \in Reachable /\ arc' = arc /\ items' = items /\ Reachable' = Reachable
  BY ActorKinds DEF TypeInv, ArcOK, ArcPc, Reachable, MarkOpen
<1>2. /\ \A j \in ItemIds : item'[j].key = item[j].key
      /\ \A j \in ItemIds \ {arc[p]} : item'[j] = item[j]
  BY <1>1 DEF TypeInv, ItemOK, Items, ItemType, MarkOpen
<1>3. items[item[arc[p]].key] = arc[p]
  BY DEF CanonInv, MarkMapped, MarkOpen
<1>4. /\ \A r \in Readers : pc'[r] = "mark" => pc[r] = "mark"
      /\ \A r \in Readers : pc'[r] \in {"entry", "restore", "purge"} => pc[r] = pc'[r]
      /\ pc'[Evictor] = pc[Evictor] /\ ev' = ev /\ req' = req
  BY ActorKinds DEF TypeInv, PcOK, MarkOpen
<1>5. OpenMapped'
  BY <1>1, <1>2, <1>3 DEF CanonInv, OpenMapped, Reachable
<1>6. MarkMapped'
  BY <1>1, <1>2, <1>4, ActorKinds DEF CanonInv, MarkMapped, TypeInv, ArcOK, ArcPc
<1>7. \A k : Arriving(k)' => Arriving(k)
  BY <1>1, <1>2, <1>4, ActorKinds DEF Arriving, TypeInv, ArcOK, ArcPc
<1>8. ChosenIdle'
  BY <1>1, <1>4, <1>7 DEF CanonInv, ChosenIdle
<1> QED BY <1>5, <1>6, <1>8 DEF CanonInv

LEMMA ReleaseCanon ==
  ASSUME TypeInv, ShardInv, CanonInv, NEW p \in Readers, Release(p)
  PROVE  CanonInv'
<1>1. OpenMapped'
  BY ActorKinds DEF TypeInv, PcOK, MapOK, ArcOK, ArcPc, ReqOK, ReqPc, FlushPc, OpenPc, KeyOK,
     ItemOK, Items, ItemType, Reachable, CanonInv, OpenMapped, Release, Collect, memory
<1>2. MarkMapped'
  BY ActorKinds DEF TypeInv, PcOK, MapOK, ArcOK, ArcPc, ReqOK, ReqPc, FlushPc, OpenPc, KeyOK,
     ItemOK, Items, ItemType, Reachable, CanonInv, MarkMapped, Release, Collect, memory
<1>3. ChosenIdle'
  BY ActorKinds, SMTT(30) DEF TypeInv, PcOK, MapOK, ArcOK, ArcPc, ReqOK, ReqPc, FlushPc, OpenPc, KeyOK,
     ItemOK, Items, ItemType, Reachable, CanonInv, ChosenIdle, Arriving, Release, Collect,
     memory
<1> QED BY <1>1, <1>2, <1>3 DEF CanonInv

LEMMA ReleaseLastCanon ==
  ASSUME TypeInv, ShardInv, CanonInv, NEW p \in Readers, ReleaseLast(p)
  PROVE  CanonInv'
<1>1. OpenMapped'
  BY ActorKinds DEF TypeInv, PcOK, MapOK, ArcOK, ArcPc, ReqOK, ReqPc, FlushPc, OpenPc, KeyOK,
     ItemOK, Items, ItemType, Reachable, CanonInv, OpenMapped, ReleaseLast, memory
<1>2. MarkMapped'
  BY ActorKinds DEF TypeInv, PcOK, MapOK, ArcOK, ArcPc, ReqOK, ReqPc, FlushPc, OpenPc, KeyOK,
     ItemOK, Items, ItemType, Reachable, CanonInv, MarkMapped, ReleaseLast, memory
<1>3. ChosenIdle'
  BY ActorKinds DEF TypeInv, PcOK, MapOK, ArcOK, ArcPc, ReqOK, ReqPc, FlushPc, OpenPc, KeyOK,
     ItemOK, Items, ItemType, Reachable, CanonInv, ChosenIdle, Arriving, ReleaseLast, memory
<1> QED BY <1>1, <1>2, <1>3 DEF CanonInv

LEMMA SpawnWorkerCanon ==
  ASSUME TypeInv, ShardInv, CanonInv, NEW w \in Workers, NEW p \in Readers, SpawnWorker(w, p)
  PROVE  CanonInv'
<1>1. OpenMapped'
  BY ActorKinds DEF TypeInv, PcOK, MapOK, ArcOK, ArcPc, ReqOK, ReqPc, FlushPc, OpenPc, KeyOK,
     ItemOK, Items, ItemType, Reachable, CanonInv, OpenMapped, SpawnWorker, memory
<1>2. MarkMapped'
  BY ActorKinds DEF TypeInv, PcOK, MapOK, ArcOK, ArcPc, ReqOK, ReqPc, FlushPc, OpenPc, KeyOK,
     ItemOK, Items, ItemType, Reachable, CanonInv, MarkMapped, SpawnWorker, memory
<1>3. ChosenIdle'
  BY ActorKinds DEF TypeInv, PcOK, MapOK, ArcOK, ArcPc, ReqOK, ReqPc, FlushPc, OpenPc, KeyOK,
     ItemOK, Items, ItemType, Reachable, CanonInv, ChosenIdle, Arriving, SpawnWorker, memory
<1> QED BY <1>1, <1>2, <1>3 DEF CanonInv

LEMMA EndWorkerCanon ==
  ASSUME TypeInv, ShardInv, CanonInv, NEW w \in Workers, EndWorker(w)
  PROVE  CanonInv'
<1>1. OpenMapped'
  BY ActorKinds DEF TypeInv, PcOK, MapOK, ArcOK, ArcPc, ReqOK, ReqPc, FlushPc, OpenPc, KeyOK,
     ItemOK, Items, ItemType, Reachable, CanonInv, OpenMapped, EndWorker, Collect, memory
<1>2. MarkMapped'
  BY ActorKinds DEF TypeInv, PcOK, MapOK, ArcOK, ArcPc, ReqOK, ReqPc, FlushPc, OpenPc, KeyOK,
     ItemOK, Items, ItemType, Reachable, CanonInv, MarkMapped, EndWorker, Collect, memory
<1>3. ChosenIdle'
  BY ActorKinds, SMTT(30) DEF TypeInv, PcOK, MapOK, ArcOK, ArcPc, ReqOK, ReqPc, FlushPc, OpenPc, KeyOK,
     ItemOK, Items, ItemType, Reachable, CanonInv, ChosenIdle, Arriving, EndWorker, Collect,
     memory
<1> QED BY <1>1, <1>2, <1>3 DEF CanonInv

LEMMA InsertRangeCanon ==
  ASSUME TypeInv, ShardInv, CanonInv, NEW w \in Workers, InsertRange(w)
  PROVE  CanonInv'
<1>1. OpenMapped'
  BY ActorKinds DEF TypeInv, PcOK, MapOK, ArcOK, ArcPc, ReqOK, ReqPc, FlushPc, OpenPc, KeyOK,
     ItemOK, Items, ItemType, Reachable, CanonInv, OpenMapped, InsertRange, memory
<1>2. MarkMapped'
  BY ActorKinds, SMTT(30) DEF TypeInv, PcOK, MapOK, ArcOK, ArcPc, ReqOK, ReqPc, FlushPc, OpenPc, KeyOK,
     ItemOK, Items, ItemType, Reachable, CanonInv, MarkMapped, InsertRange, memory
<1>3. ChosenIdle'
  BY ActorKinds DEF TypeInv, PcOK, MapOK, ArcOK, ArcPc, ReqOK, ReqPc, FlushPc, OpenPc, KeyOK,
     ItemOK, Items, ItemType, Reachable, CanonInv, ChosenIdle, Arriving, InsertRange, memory
<1> QED BY <1>1, <1>2, <1>3 DEF CanonInv

LEMMA FlushSkipCanon ==
  ASSUME TypeInv, ShardInv, CanonInv, NEW a \in Actors, FlushSkip(a)
  PROVE  CanonInv'
<1>1. OpenMapped'
  BY ActorKinds DEF TypeInv, PcOK, MapOK, ArcOK, ArcPc, ReqOK, ReqPc, FlushPc, OpenPc, KeyOK,
     ItemOK, Items, ItemType, Reachable, CanonInv, OpenMapped, FlushSkip, Collect, FlushReturn,
     memory
<1>2. MarkMapped'
  BY ActorKinds DEF TypeInv, PcOK, MapOK, ArcOK, ArcPc, ReqOK, ReqPc, FlushPc, OpenPc, KeyOK,
     ItemOK, Items, ItemType, Reachable, CanonInv, MarkMapped, FlushSkip, Collect, FlushReturn,
     memory
<1>3. ChosenIdle'
  BY ActorKinds, SMTT(30) DEF TypeInv, PcOK, MapOK, ArcOK, ArcPc, ReqOK, ReqPc, FlushPc, OpenPc, KeyOK,
     ItemOK, Items, ItemType, Reachable, CanonInv, ChosenIdle, Arriving, FlushSkip, Collect,
     FlushReturn, memory
<1> QED BY <1>1, <1>2, <1>3 DEF CanonInv

LEMMA UpsertFailsCanon ==
  ASSUME TypeInv, ShardInv, CanonInv, NEW a \in Actors, UpsertFails(a)
  PROVE  CanonInv'
<1>1. OpenMapped'
  BY ActorKinds DEF TypeInv, PcOK, MapOK, ArcOK, ArcPc, ReqOK, ReqPc, FlushPc, OpenPc, KeyOK,
     ItemOK, Items, ItemType, Reachable, CanonInv, OpenMapped, UpsertFails, Collect,
     FlushReturn, memory
<1>2. MarkMapped'
  BY ActorKinds DEF TypeInv, PcOK, MapOK, ArcOK, ArcPc, ReqOK, ReqPc, FlushPc, OpenPc, KeyOK,
     ItemOK, Items, ItemType, Reachable, CanonInv, MarkMapped, UpsertFails, Collect,
     FlushReturn, memory
<1>3. ChosenIdle'
  BY ActorKinds, SMTT(30) DEF TypeInv, PcOK, MapOK, ArcOK, ArcPc, ReqOK, ReqPc, FlushPc, OpenPc, KeyOK,
     ItemOK, Items, ItemType, Reachable, CanonInv, ChosenIdle, Arriving, UpsertFails, Collect,
     FlushReturn, memory
<1> QED BY <1>1, <1>2, <1>3 DEF CanonInv

LEMMA FlushCleanCanon ==
  ASSUME TypeInv, ShardInv, CanonInv, NEW a \in Actors, FlushClean(a)
  PROVE  CanonInv'
<1>1. OpenMapped'
  BY ActorKinds DEF TypeInv, PcOK, MapOK, ArcOK, ArcPc, FlushPc, KeyOK, ItemOK, Items, ItemType,
     Reachable, CanonInv, OpenMapped, FlushClean, Collect, FlushReturn
<1>2. MarkMapped'
  BY ActorKinds, SMTT(30) DEF TypeInv, PcOK, MapOK, ArcOK, ArcPc, FlushPc, KeyOK, ItemOK, Items, ItemType,
     Reachable, CanonInv, MarkMapped, FlushClean, Collect, FlushReturn
<1>3. items' = items /\ ev' = ev /\ req' = req
  BY DEF FlushClean
<1>4. pc'[Evictor] \in {"evict"} \cup FlushPc => pc[Evictor] \in {"evict"} \cup FlushPc
  BY ActorKinds DEF TypeInv, PcOK, FlushPc, FlushClean, FlushReturn
<1>5. ASSUME NEW r \in Readers, pc'[r] \in {"entry", "restore", "purge", "mark"}
      PROVE  pc[r] = pc'[r] /\ (pc[r] = "mark" => arc'[r] = arc[r] /\ item'[arc[r]].key = item[arc[r]].key)
  BY <1>5, ActorKinds DEF TypeInv, PcOK, ArcOK, ArcPc, ItemOK, Items, ItemType, FlushClean,
     FlushReturn, Collect
<1>6. \A k : Arriving(k)' => Arriving(k)
  BY <1>3, <1>5 DEF Arriving
<1>7. ChosenIdle'
  BY <1>3, <1>4, <1>6 DEF CanonInv, ChosenIdle
<1> QED BY <1>1, <1>2, <1>7 DEF CanonInv

LEMMA EvictScanCanon ==
  ASSUME TypeInv, ShardInv, CanonInv, ~Stalls, EvictScan
  PROVE  CanonInv'
<1>1. OpenMapped'
  BY ActorKinds DEF TypeInv, PcOK, MapOK, ArcOK, ArcPc, ReqOK, ReqPc, FlushPc, OpenPc, KeyOK,
     ItemOK, Items, ItemType, Reachable, CanonInv, OpenMapped, EvictScan, memory
<1>2. MarkMapped'
  BY ActorKinds DEF TypeInv, PcOK, MapOK, ArcOK, ArcPc, ReqOK, ReqPc, FlushPc, OpenPc, KeyOK,
     ItemOK, Items, ItemType, Reachable, CanonInv, MarkMapped, EvictScan, memory
<1>3. ChosenIdle'
  BY ActorKinds DEF TypeInv, PcOK, MapOK, ArcOK, ArcPc, ReqOK, ReqPc, FlushPc, OpenPc, KeyOK,
     ItemOK, Items, ItemType, Reachable, CanonInv, ChosenIdle, Arriving, EvictScan, memory
<1> QED BY <1>1, <1>2, <1>3 DEF CanonInv

LEMMA EvictItemCanon ==
  ASSUME TypeInv, ShardInv, CanonInv, NEW k \in Keys, EvictItem(k)
  PROVE  CanonInv'
<1>1. OpenMapped'
  BY ActorKinds DEF TypeInv, MapOK, ArcOK, KeyOK, Reachable, CanonInv, OpenMapped, EvictItem
<1>2. ~Arriving(k)
  BY DEF CanonInv, ChosenIdle, EvictItem
<1>3. MarkMapped'
  <2> SUFFICES ASSUME NEW r \in Readers, pc'[r] = "mark"
               PROVE  items'[item'[arc'[r]].key] = arc'[r]
    BY DEF MarkMapped
  <2>1. pc[r] = "mark" /\ arc'[r] = arc[r] /\ item' = item
    BY ActorKinds DEF TypeInv, PcOK, ArcOK, EvictItem
  <2>2. item[arc[r]].key # k
    BY <1>2, <2>1 DEF Arriving
  <2> QED BY <2>1, <2>2 DEF CanonInv, MarkMapped, TypeInv, MapOK, EvictItem
<1>4. ChosenIdle'
  BY ActorKinds DEF TypeInv, PcOK, MapOK, ArcOK, ArcPc, EvOK, FlushPc, CanonInv, ChosenIdle,
     Arriving, EvictItem
<1> QED BY <1>1, <1>3, <1>4 DEF CanonInv

LEMMA RestartCanon ==
  ASSUME TypeInv, ShardInv, CanonInv, Restart
  PROVE  CanonInv'
<1>1. OpenMapped'
  BY ActorKinds DEF TypeInv, PcOK, MapOK, ArcOK, ArcPc, ReqOK, ReqPc, FlushPc, OpenPc, KeyOK,
     ItemOK, Items, ItemType, Reachable, CanonInv, OpenMapped, Restart, EndPass, memory
<1>2. MarkMapped'
  BY ActorKinds DEF TypeInv, PcOK, MapOK, ArcOK, ArcPc, ReqOK, ReqPc, FlushPc, OpenPc, KeyOK,
     ItemOK, Items, ItemType, Reachable, CanonInv, MarkMapped, Restart, EndPass, memory
<1>3. ChosenIdle'
  BY ActorKinds DEF TypeInv, PcOK, MapOK, ArcOK, ArcPc, ReqOK, ReqPc, FlushPc, OpenPc, KeyOK,
     ItemOK, Items, ItemType, Reachable, CanonInv, ChosenIdle, Arriving, Restart, EndPass,
     memory
<1> QED BY <1>1, <1>2, <1>3 DEF CanonInv

-----------------------------------------------------------------------------
(***************************************************************************)
(* The inductive invariant: each part needs the types, the last one the    *)
(* locking too.                                                            *)
(***************************************************************************)
CalmCanon == ~Stalls /\ ~FatalReads => CanonInv

CacheInv == TypeInv /\ BackedInv /\ OpensCountsReaders /\ ShardInv /\ CalmCanon

LEMMA InitInv == Init => CacheInv
<1> SUFFICES ASSUME Init PROVE CacheInv
  OBVIOUS
<1>1. TypeInv
  BY InitTypes
<1>2. Reachable = {}
  BY Constants DEF Init, Reachable
<1>3. BackedInv
  BY <1>2, ActorKinds DEF Init, NoRow, Actors, BackedInv, RowBacked, ItemBacked, OpeningBacked,
     WriteLive, InsertBacked
<1>4. OpensCountsReaders
  BY <1>2 DEF OpensCountsReaders
<1>5. ShardInv
  BY ActorKinds DEF Init, Actors, FillPc, ShardInv, ShardHeld, ShardOwned
<1>6. CanonInv
  BY <1>2, ActorKinds DEF Init, Actors, NoPass, FlushPc, CanonInv, OpenMapped, MarkMapped,
     ChosenIdle
<1> QED BY <1>1, <1>3, <1>4, <1>5, <1>6 DEF CacheInv, CalmCanon

LEMMA StutterInv == CacheInv /\ UNCHANGED vars => CacheInv'
<1> SUFFICES ASSUME CacheInv, UNCHANGED vars PROVE CacheInv'
  OBVIOUS
<1> USE DEF vars, disk, memory, locals
<1>1. FileOK' /\ RowOK' /\ MapOK' /\ ItemOK' /\ PcOK' /\ ArcOK'
  BY DEF CacheInv, TypeInv, FileOK, RowOK, MapOK, ItemOK, PcOK, ArcOK
<1>2. ReqOK' /\ WriteOK' /\ SnapOK' /\ EvOK' /\ KeyOK'
  BY DEF CacheInv, TypeInv, ReqOK, WriteOK, SnapOK, EvOK, KeyOK, Reachable
<1>3. BackedInv'
  BY DEF CacheInv, BackedInv, RowBacked, ItemBacked, OpeningBacked, WriteLive, InsertBacked,
     Reachable
<1>4. OpensCountsReaders'
  BY OpensUnchanged DEF CacheInv, SameHandles, SameOpens, Reachable
<1>5. ShardInv'
  BY DEF CacheInv, ShardInv, ShardHeld, ShardOwned
<1>6. CalmCanon'
  BY DEF CacheInv, CalmCanon, Stalls, FatalReads, CanonInv, OpenMapped, MarkMapped, ChosenIdle,
     Arriving, Reachable
<1> QED BY <1>1, <1>2, <1>3, <1>4, <1>5, <1>6 DEF CacheInv, TypeInv

LEMMA ReaderStepInv ==
  ASSUME CacheInv, NEW p \in Readers, ReaderStep(p), UNCHANGED env
  PROVE  CacheInv'
<1>1. ASSUME NEW k \in Keys, GetHit(p, k) PROVE CacheInv'
  BY <1>1, GetHitTypes, GetHitBacked, GetHitCounts, GetHitShard, GetHitCanon DEF CacheInv,
     CalmCanon, Stalls, FatalReads
<1>2. ASSUME NEW k \in Keys, NEW size \in env.sizes, GetMiss(p, k, size) PROVE CacheInv'
  BY <1>2, GetMissTypes, GetMissBacked, GetMissCounts, GetMissShard, GetMissCanon DEF CacheInv,
     CalmCanon, Stalls, FatalReads
<1>3. CASE EntryOccupied(p)
  BY <1>3, EntryOccupiedTypes, EntryOccupiedBacked, EntryOccupiedCounts, EntryOccupiedShard,
     EntryOccupiedCanon DEF CacheInv, CalmCanon, Stalls, FatalReads
<1>4. CASE EntryVacant(p)
  BY <1>4, EntryVacantTypes, EntryVacantBacked, EntryVacantCounts, EntryVacantShard,
     EntryVacantCanon DEF CacheInv, CalmCanon, Stalls, FatalReads
<1>5. CASE EntryFails(p)
  BY <1>5, EntryFailsTypes, EntryFailsBacked, EntryFailsCounts, EntryFailsShard,
     EntryFailsCanon DEF CacheInv, CalmCanon, Stalls, FatalReads
<1>6. CASE Restore(p)
  BY <1>6, RestoreTypes, RestoreBacked, RestoreCounts, RestoreShard, RestoreCanon DEF CacheInv,
     CalmCanon, Stalls, FatalReads
<1>7. CASE RestoreMismatch(p)
  BY <1>7, RestoreMismatchTypes, RestoreMismatchBacked, RestoreMismatchCounts,
     RestoreMismatchShard, RestoreMismatchCanon DEF CacheInv, CalmCanon, Stalls, FatalReads
<1>8. CASE Purge(p)
  BY <1>8, PurgeTypes, PurgeBacked, PurgeCounts, PurgeShard, PurgeCanon DEF CacheInv,
     CalmCanon, Stalls, FatalReads
<1>9. CASE RestoreFails(p)
  BY <1>9, RestoreFailsTypes, RestoreFailsBacked, RestoreFailsCounts, RestoreFailsShard,
     RestoreFailsCanon DEF CacheInv, CalmCanon, Stalls, FatalReads
<1>10. CASE MarkOpen(p)
  BY <1>10, MarkOpenTypes, MarkOpenBacked, MarkOpenCounts, MarkOpenShard, MarkOpenCanon DEF
     CacheInv, CalmCanon, Stalls, FatalReads
<1>11. CASE Release(p)
  BY <1>11, ReleaseTypes, ReleaseBacked, ReleaseCounts, ReleaseShard, ReleaseCanon DEF
     CacheInv, CalmCanon, Stalls, FatalReads
<1>12. CASE ReleaseLast(p)
  BY <1>12, ReleaseLastTypes, ReleaseLastBacked, ReleaseLastCounts, ReleaseLastShard,
     ReleaseLastCanon DEF CacheInv, CalmCanon, Stalls, FatalReads
<1>13. CASE InvalidateMap(p)
  BY <1>13, InvalidateMapTypes, InvalidateMapBacked, InvalidateMapCounts, InvalidateMapShard
     DEF CacheInv, CalmCanon, Stalls, FatalReads, InvalidateMap
<1>14. CASE InvalidateFile(p)
  BY <1>14, InvalidateFileTypes, InvalidateFileBacked, QuietReaders, QuietCounts, QuietShard,
     QuietCanon, ChosenShrinks DEF CacheInv, CalmCanon, Stalls, FatalReads
<1>15. CASE InvalidateRow(p)
  BY <1>15, InvalidateRowTypes, InvalidateRowBacked, QuietReaders, QuietCounts, QuietShard,
     QuietCanon, ChosenShrinks DEF CacheInv, CalmCanon, Stalls, FatalReads
<1> QED BY <1>1, <1>2, <1>3, <1>4, <1>5, <1>6, <1>7, <1>8, <1>9, <1>10, <1>11, <1>12, <1>13,
   <1>14, <1>15 DEF ReaderStep

LEMMA WorkerStepInv ==
  ASSUME CacheInv, NEW w \in Workers, WorkerStep(w), UNCHANGED env
  PROVE  CacheInv'
<1>1. ASSUME NEW p \in Readers, SpawnWorker(w, p) PROVE CacheInv'
  BY <1>1, SpawnWorkerTypes, SpawnWorkerBacked, SpawnWorkerCounts, SpawnWorkerShard,
     SpawnWorkerCanon DEF CacheInv, CalmCanon, Stalls, FatalReads
<1>2. CASE EndWorker(w)
  BY <1>2, EndWorkerTypes, EndWorkerBacked, EndWorkerCounts, EndWorkerShard, EndWorkerCanon DEF
     CacheInv, CalmCanon, Stalls, FatalReads
<1>3. ASSUME NEW b \in Blocks, OpenForWrite(w, b) PROVE CacheInv'
  BY <1>3, OpenForWriteTypes, OpenForWriteBacked, QuietWorkers, QuietCounts, QuietShard,
     QuietCanon, ChosenShrinks DEF CacheInv, CalmCanon, Stalls, FatalReads
<1>4. CASE WriteFile(w)
  BY <1>4, WriteFileTypes, WriteFileBacked, QuietWorkers, QuietCounts, QuietShard, QuietCanon,
     ChosenShrinks DEF CacheInv, CalmCanon, Stalls, FatalReads
<1>5. CASE InsertRange(w)
  BY <1>5, InsertRangeTypes, InsertRangeBacked, InsertRangeCounts, InsertRangeShard,
     InsertRangeCanon DEF CacheInv, CalmCanon, Stalls, FatalReads
<1> QED BY <1>1, <1>2, <1>3, <1>4, <1>5 DEF WorkerStep

LEMMA FlushStepInv ==
  ASSUME CacheInv, NEW a \in Actors, FlushStep(a), UNCHANGED env
  PROVE  CacheInv'
<1>1. CASE FlushSkip(a)
  BY <1>1, FlushSkipTypes, FlushSkipBacked, FlushSkipCounts, FlushSkipShard, FlushSkipCanon DEF
     CacheInv, CalmCanon, Stalls, FatalReads
<1>2. CASE FlushSnapshot(a)
  BY <1>2, FlushSnapshotTypes, FlushSnapshotBacked, QuietFlushes, QuietCounts, QuietShard,
     QuietCanon, ChosenShrinks DEF CacheInv, CalmCanon, Stalls, FatalReads
<1>3. CASE Upsert(a)
  BY <1>3, UpsertTypes, UpsertBacked, QuietFlushes, QuietCounts, QuietShard, QuietCanon,
     ChosenShrinks DEF CacheInv, CalmCanon, Stalls, FatalReads
<1>4. CASE UpsertFails(a)
  BY <1>4, UpsertFailsTypes, UpsertFailsBacked, UpsertFailsCounts, UpsertFailsShard,
     UpsertFailsCanon DEF CacheInv, CalmCanon, Stalls, FatalReads
<1>5. CASE FlushClean(a)
  BY <1>5, FlushCleanTypes, FlushCleanBacked, FlushCleanCounts, FlushCleanShard,
     FlushCleanCanon DEF CacheInv, CalmCanon, Stalls, FatalReads
<1> QED BY <1>1, <1>2, <1>3, <1>4, <1>5 DEF FlushStep

LEMMA EvictorStepInv ==
  ASSUME CacheInv, EvictorStep, UNCHANGED env
  PROVE  CacheInv'
<1>1. TypeInv' /\ BackedInv'
  <2>1. CASE EvictScan
    BY <2>1, EvictScanTypes, EvictScanBacked DEF CacheInv
  <2>2. ASSUME NEW k \in Keys, EvictItem(k) PROVE TypeInv' /\ BackedInv'
    BY <2>2, EvictItemTypes, EvictItemBacked DEF CacheInv
  <2>3. ASSUME NEW k \in Keys, EvictKeep(k) PROVE TypeInv' /\ BackedInv'
    BY <2>3, EvictKeepTypes, EvictKeepBacked DEF CacheInv
  <2>4. CASE TtlSkip
    BY <2>4, TtlSkipTypes, TtlSkipBacked DEF CacheInv
  <2>5. CASE TtlQuery
    BY <2>5, TtlQueryTypes, TtlQueryBacked DEF CacheInv
  <2>6. ASSUME NEW k \in Keys, TtlKeep(k) PROVE TypeInv' /\ BackedInv'
    BY <2>6, TtlKeepTypes, TtlKeepBacked DEF CacheInv
  <2>7. ASSUME NEW k \in Keys, TtlChoose(k) PROVE TypeInv' /\ BackedInv'
    BY <2>7, TtlChooseTypes, TtlChooseBacked DEF CacheInv
  <2>8. CASE TtlUnlink
    BY <2>8, TtlUnlinkTypes, TtlUnlinkBacked DEF CacheInv
  <2>9. CASE TtlDelete
    BY <2>9, TtlDeleteTypes, TtlDeleteBacked DEF CacheInv
  <2>10. CASE LruSkip
    BY <2>10, LruSkipTypes, LruSkipBacked DEF CacheInv
  <2>11. CASE LruScan
    BY <2>11, LruScanTypes, LruScanBacked DEF CacheInv
  <2>12. ASSUME NEW c \in ev.cands, LruKeep(c) PROVE TypeInv' /\ BackedInv'
    BY <2>12, LruKeepTypes, LruKeepBacked DEF CacheInv
  <2>13. ASSUME NEW c \in ev.cands, LruChoose(c) PROVE TypeInv' /\ BackedInv'
    BY <2>13, LruChooseTypes, LruChooseBacked DEF CacheInv
  <2>14. CASE LruUnlink
    BY <2>14, LruUnlinkTypes, LruUnlinkBacked DEF CacheInv
  <2>15. CASE LruDone
    BY <2>15, LruDoneTypes, LruDoneBacked DEF CacheInv
  <2> QED BY <2>1, <2>2, <2>3, <2>4, <2>5, <2>6, <2>7, <2>8, <2>9, <2>10, <2>11, <2>12, <2>13,
     <2>14, <2>15 DEF EvictorStep
<1>2. OpensCountsReaders' /\ ShardInv'
  <2>1. ASSUME NEW k \in Keys, EvictItem(k) PROVE OpensCountsReaders' /\ ShardInv'
    BY <2>1, EvictItemCounts, EvictItemShard DEF CacheInv
  <2> QED BY <2>1, QuietEvictor, QuietCounts, QuietShard DEF CacheInv
<1>3. ASSUME ~Stalls, ~FatalReads PROVE CanonInv'
  <2>1. CanonInv /\ TypeInv /\ ShardInv
    BY <1>3 DEF CacheInv, CalmCanon
  <2>2. ASSUME NEW k \in Keys, EvictItem(k) PROVE CanonInv'
    BY <2>1, <2>2, EvictItemCanon
  <2>3. CASE EvictScan
    BY <2>1, <2>3, <1>3, EvictScanCanon
  <2>4. CASE ~EvictScan /\ ~\E k \in Keys : EvictItem(k)
    BY <2>1, <2>4, QuietEvictor, ChosenShrinks, QuietCanon
  <2> QED BY <2>2, <2>3, <2>4
<1> QED BY <1>1, <1>2, <1>3 DEF CacheInv, CalmCanon, Stalls, FatalReads

LEMMA StepInv == CacheInv /\ [Next]_vars => CacheInv'
<1> SUFFICES ASSUME CacheInv, [Next]_vars PROVE CacheInv'
  OBVIOUS
<1>1. CASE Next
  <2>1. CASE Restart
    BY <1>1, <2>1, RestartTypes, RestartBacked, RestartCounts, RestartShard, RestartCanon
       DEF Next, CacheInv, CalmCanon, Stalls, FatalReads
  <2> QED BY <1>1, <2>1, ReaderStepInv, WorkerStepInv, FlushStepInv, EvictorStepInv DEF Next
<1>2. CASE UNCHANGED vars
  BY <1>2, StutterInv
<1> QED BY <1>1, <1>2

-----------------------------------------------------------------------------
(* The state keeps its types in every setting; no file, row or item knows  *)
(* bytes beyond its size, though sizes change between two opens.           *)
THEOREM CacheTyped == Spec => []TypeOK
<1>1. CacheInv => TypeOK
  BY TypesImplyTypeOK DEF CacheInv
<1> QED BY <1>1, InitInv, StepInv, PTL DEF Spec

(* Until bytes of a key's file are destroyed, its row and every item in use*)
(* claim only what is in the file, through the concurrent writes, flushes, *)
(* evictions, failing calls and kills that `write_range` is ordered for.   *)
THEOREM CacheBacked == Spec => []BackedUnlessDestroyed
<1>1. CacheInv => BackedUnlessDestroyed
  BY DEF CacheInv, BackedInv, RowBacked, ItemBacked, BackedUnlessDestroyed
<1> QED BY <1>1, InitInv, StepInv, PTL DEF Spec

(* `opens` is exactly the number of reads between get_or_create and        *)
(* release.                                                                *)
THEOREM OpensExact == Spec => []OpensCountsReaders
<1>1. CacheInv => OpensCountsReaders
  BY DEF CacheInv
<1> QED BY <1>1, InitInv, StepInv, PTL DEF Spec

(* If no read stalls for a minute in get_or_create and none invalidates,   *)
(* the reads of a key share one item, whatever the eviction pass does.     *)
THEOREM CanonicalItem == Spec => [](~Stalls /\ ~FatalReads => OneCanonicalItem)
<1>1. CacheInv => (~Stalls /\ ~FatalReads => OneCanonicalItem)
  BY CanonImpliesOne DEF CacheInv, CalmCanon
<1> QED BY <1>1, InitInv, StepInv, PTL DEF Spec

-----------------------------------------------------------------------------
(* A step that leaves the mapped items mapped.                             *)
StaysMapped == \A k \in Keys : items[k] # None => items'[k] # None

LEMMA InstallMaps ==
  ASSUME TypeInv, NEW p \in Readers, pc[p] \in FillPc, NEW ranges, Install(p, ranges)
  PROVE  StaysMapped
<1>1. PICK i \in Unused : items' = [items EXCEPT ![req[p].key] = i]
  BY InstallFacts
<1>2. i # None
  BY Constants DEF Unused
<1> QED BY <1>1, <1>2 DEF StaysMapped, TypeInv, MapOK

(* eviction.rs, `remove_if`: no step but `invalidate` and a restart takes  *)
(* an item that a read has open out of the map.                            *)
THEOREM OpenItemsSpared == Spec => EvictionSparesOpenItems
<1>1. ASSUME TypeInv, [Next]_vars PROVE [SparesOpenItems]_vars
  <2>1. StaysMapped => SparesOpenItems
    BY DEF StaysMapped, SparesOpenItems
  <2>2. ASSUME NEW p \in Readers, ReaderStep(p) PROVE SparesOpenItems
    <3>1. ASSUME Restore(p) \/ Purge(p) PROVE SparesOpenItems
      BY <3>1, <2>1, <1>1, InstallMaps DEF Restore, Purge, FillPc
    <3>2. ASSUME InvalidateMap(p) PROVE SparesOpenItems
      BY <3>2, <1>1, ActorKinds DEF TypeInv, PcOK, InvalidateMap, SparesOpenItems
    <3>3. ASSUME ~InvalidateMap(p), ~Restore(p), ~Purge(p) PROVE items' = items
      BY <2>2, <3>3 DEF ReaderStep, GetHit, GetMiss, EntryOccupied, EntryVacant, EntryFails,
         RestoreMismatch, RestoreFails, MarkOpen, Release, ReleaseLast, InvalidateFile,
         InvalidateRow, memory
    <3> QED BY <2>1, <3>1, <3>2, <3>3 DEF StaysMapped
  <2>3. ASSUME NEW w \in Workers, WorkerStep(w) PROVE items' = items
    BY <2>3 DEF WorkerStep, SpawnWorker, EndWorker, OpenForWrite, WriteFile, InsertRange, memory
  <2>4. ASSUME NEW a \in Actors, FlushStep(a) PROVE items' = items
    BY <2>4 DEF FlushStep, FlushSkip, FlushSnapshot, Upsert, UpsertFails, FlushClean, memory
  <2>5. ASSUME EvictorStep PROVE SparesOpenItems
    <3>1. ASSUME NEW k \in Keys, EvictItem(k) PROVE SparesOpenItems
      BY <3>1, <1>1 DEF EvictItem, TypeInv, MapOK, SparesOpenItems
    <3>2. ASSUME ~(\E k \in Keys : EvictItem(k)) PROVE items' = items
      BY <2>5, <3>2 DEF EvictorStep, EvictScan, EvictKeep, TtlSkip, TtlQuery, TtlKeep, TtlChoose,
         TtlUnlink, TtlDelete, LruSkip, LruScan, LruKeep, LruChoose, LruUnlink, LruDone, memory
    <3> QED BY <2>1, <3>1, <3>2 DEF StaysMapped
  <2>6. ASSUME Restart PROVE SparesOpenItems
    BY <2>6 DEF Restart, SparesOpenItems
  <2>7. ASSUME Next PROVE SparesOpenItems
    BY <2>1, <2>2, <2>3, <2>4, <2>5, <2>6, <2>7 DEF Next, StaysMapped
  <2> QED BY <1>1, <2>7
<1>2. CacheInv => TypeInv
  BY DEF CacheInv
<1> QED BY <1>1, <1>2, InitInv, StepInv, PTL DEF Spec, EvictionSparesOpenItems
=============================================================================
