----------------------------- MODULE CacheStore -----------------------------
(***************************************************************************)
(* The on-disk cache: cache/cache.rs, cache/item.rs, cache/eviction.rs and *)
(* cache/range_db.rs.  Per cache key there is one sparse file, one row of  *)
(* `cache_ranges.db` that says which of its bytes are real, and, while the *)
(* key is in use, one in-memory CacheItem with the same knowledge.  Threads*)
(* (FUSE reads and their download workers) and the eviction loop work on   *)
(* the three without a common lock; the process may be killed at any step. *)
(*                                                                         *)
(* Bytes are abstracted to blocks, and `ByteRanges` to the set of blocks   *)
(* it covers (module ByteRanges shows that it is that set).  Times are     *)
(* abstracted to choices: any closed item may have been idle for a minute, *)
(* any row or file not touched since the eviction pass read the clock may  *)
(* be old, and a write may or may not fall in the flush debounce.          *)
(***************************************************************************)
EXTENDS Integers, FiniteSets

CONSTANTS
  Keys,          \* cache keys "{access_key}/{filename}"
  Extensionless, \* the keys whose file name has no extension
  FileSizes,     \* the sizes, in blocks, a file may have
  Readers,       \* FUSE reads: open an item, release it, may invalidate it
  Workers,       \* download workers: write into the item of a read
  Evictor,       \* the task of `evict_loop`
  ItemIds,       \* identities of CacheItem allocations, as numbers
  None,
  Settings       \* the configurations and environments to start in

Actors == Readers \cup Workers \cup {Evictor}
Blocks == UNION {0..(s - 1) : s \in FileSizes}

ASSUME Constants ==
  /\ Extensionless \subseteq Keys
  /\ FileSizes \subseteq Nat /\ ItemIds \subseteq Nat
  /\ IsFiniteSet(Readers)
  /\ Evictor \notin Readers \cup Workers /\ Readers \cap Workers = {}
  /\ None \notin Actors \cup ItemIds \cup Keys
  /\ Settings \subseteq
       [reads : Nat,              \* bound: reads at the same time
        sizes : SUBSET FileSizes, \* the sizes a file is opened with
        maxAge : Nat, maxSize : Nat,
        stalls : BOOLEAN, fatal : BOOLEAN, faults : BOOLEAN, crashes : BOOLEAN]

VARIABLES
  env,       \* the member of Settings this process runs in
  file,      \* [Keys -> the sparse file at the key's path]
  row,       \* [Keys -> the key's row of cache_ranges.db]
  items,     \* [Keys -> the CacheItem in `Cache.items`, or None]
  locked,    \* keys whose map shard is locked by an `entry` in progress
  item,      \* [ItemIds -> the contents of that allocation]
  pc,        \* [Actors -> where the actor is]
  arc,       \* [Actors -> the CacheItem the actor holds an Arc of, or None]
  req,       \* [Readers -> the key and size `get_or_create` was called with]
  blk,       \* [Workers -> the block being written]
  fd,        \* [Workers -> "live" or "stale": the file handle of the write]
  snap,      \* [Actors -> the snapshot `flush_ranges` is about to store]
  ev,        \* the local variables of the eviction pass
  destroyed  \* history: keys whose file has lost bytes (unlinked or cut)

CacheMaxAge  == env.maxAge   \* vfs.cache_max_age: 0 turns TTL cleanup off
CacheMaxSize == env.maxSize  \* vfs.cache_max_size in blocks: 0 turns LRU off
Stalls       == env.stalls   \* may a thread stop for a minute in get_or_create?
FatalReads   == env.fatal    \* may a read meet a dead link and invalidate?
Faults       == env.faults   \* may calls of SQLite or of the file system fail?
Crashes      == env.crashes  \* may the process be killed and restarted?

disk    == << file, row, destroyed >>
memory  == << items, locked, item >>
locals  == << pc, arc, req, blk, fd, snap, ev >>
vars    == << env, disk, memory, locals >>

NoFile == [exists |-> FALSE, size |-> 0, data |-> {}, fresh |-> FALSE]
NoRow  == [exists |-> FALSE, size |-> 0, ranges |-> {}, fresh |-> FALSE]
NoReq  == [key |-> None, size |-> 0]
NoItem == [key |-> None, size |-> 0, ranges |-> {}, opens |-> 0, dirty |-> FALSE]
NoPass == [todo |-> {}, doomed |-> {}, victim |-> None, cands |-> {}, total |-> 0]

(* Where a read holds a handle that `opens` counts.                        *)
OpenPc == {"open", "unlink", "delrow"}
FlushPc == {"flush", "upsert", "clean"}
ReaderPc == {"idle", "entry", "restore", "purge", "mark"} \cup OpenPc \cup FlushPc
WorkerPc == {"idle", "work", "write", "insert"} \cup FlushPc
EvictorPc == {"start", "evict", "ttl", "ttlunlink", "lru", "lruloop", "lruunlink"}
               \cup FlushPc

-----------------------------------------------------------------------------
(* Helpers.                                                                *)

(* An Arc that nobody refers to any more is freed.                         *)
Collect(contents, m, held) ==
  [i \in ItemIds |-> IF \/ \E k \in Keys : m[k] = i
                        \/ \E a \in Actors : held[a] = i
                     THEN contents[i] ELSE NoItem]

Unused == {i \in ItemIds : /\ \A k \in Keys : items[k] # i
                           /\ \A a \in Actors : arc[a] # i}

(* Rows and files made since the current eviction pass read the clock are  *)
(* `fresh`: it cannot take them for old ones.  Only TTL and LRU ask.       *)
InPass == pc[Evictor] # "start" /\ (CacheMaxAge # 0 \/ CacheMaxSize # 0)

EndPass ==
  /\ file' = [k \in Keys |-> [file[k] EXCEPT !.fresh = FALSE]]
  /\ row' = [k \in Keys |-> [row[k] EXCEPT !.fresh = FALSE]]
  /\ ev' = NoPass

(* Names with a suffix are faulty variants of the definition they stand    *)
(* before; the project's mutation runs put them in its place.              *)
SetLenTruncating(f, size) ==
  [exists |-> TRUE, size |-> size, data |-> {},
   fresh |-> IF f.exists THEN f.fresh ELSE InPass]

(* `set_len`: extends with a hole or cuts.                                 *)
SetLen(f, size) ==
  [exists |-> TRUE, size |-> size, data |-> {b \in f.data : b < size},
   fresh |-> IF f.exists THEN f.fresh ELSE InPass]

(* `remove_file`: an open descriptor keeps writing to the unlinked inode.  *)
Unlink(k) ==
  /\ file' = [file EXCEPT ![k] = NoFile]
  /\ destroyed' = IF file[k].exists THEN destroyed \cup {k} ELSE destroyed
  /\ fd' = [w \in Workers |-> IF pc[w] = "write" /\ item[arc[w]].key = k
                              THEN "stale" ELSE fd[w]]

(* Where an actor goes when `flush_ranges` returns: a worker goes on, the  *)
(* others drop their Arc.                                                  *)
FlushReturn(a) ==
  /\ pc' = [pc EXCEPT ![a] = CASE a \in Workers -> "work"
                               [] a \in Readers -> "idle"
                               [] OTHER -> "evict"]
  /\ arc' = IF a \in Workers THEN arc ELSE [arc EXCEPT ![a] = None]
  /\ snap' = [snap EXCEPT ![a] = {}]

Init ==
  /\ env \in Settings
  /\ file = [k \in Keys |-> NoFile]
  /\ row = [k \in Keys |-> NoRow]
  /\ items = [k \in Keys |-> None]
  /\ locked = {}
  /\ item = [i \in ItemIds |-> NoItem]
  /\ pc = [a \in Actors |-> IF a = Evictor THEN "start" ELSE "idle"]
  /\ arc = [a \in Actors |-> None]
  /\ req = [r \in Readers |-> NoReq]
  /\ blk = [w \in Workers |-> 0]
  /\ fd = [w \in Workers |-> "live"]
  /\ snap = [a \in Actors |-> {}]
  /\ ev = NoPass
  /\ destroyed = {}

-----------------------------------------------------------------------------
(* Cache::get_or_create.                                                   *)

(* The fast path: the handle is counted while the shard is read-locked.    *)
GetHit(p, k) ==
  /\ pc[p] = "idle" /\ k \notin locked /\ items[k] # None
  /\ item' = [item EXCEPT ![items[k]].opens = @ + 1]
  /\ arc' = [arc EXCEPT ![p] = items[k]]
  /\ pc' = [pc EXCEPT ![p] = "open"]
  /\ UNCHANGED << disk, items, locked, req, blk, fd, snap, ev >>

GetMiss(p, k, size) ==
  /\ pc[p] = "idle" /\ k \notin locked /\ items[k] = None
  /\ req' = [req EXCEPT ![p] = [key |-> k, size |-> size]]
  /\ pc' = [pc EXCEPT ![p] = "entry"]
  /\ UNCHANGED << disk, memory, arc, blk, fd, snap, ev >>

(* `entry` finds an item another thread has just inserted.                 *)
EntryOccupied(p) ==
  /\ pc[p] = "entry" /\ req[p].key \notin locked /\ items[req[p].key] # None
  /\ arc' = [arc EXCEPT ![p] = items[req[p].key]]
  /\ req' = [req EXCEPT ![p] = NoReq]
  /\ pc' = [pc EXCEPT ![p] = "mark"]
  /\ UNCHANGED << disk, memory, blk, fd, snap, ev >>

(* Opens the file, creating it if need be, and gives it its length.        *)
OpenFile(p) ==
  LET k == req[p].key
  IN  /\ file' = [file EXCEPT ![k] = SetLen(@, req[p].size)]
      /\ destroyed' = IF \E b \in file[k].data : b >= req[p].size
                      THEN destroyed \cup {k} ELSE destroyed

(* The directory or the file cannot be opened, or the file, which may just *)
(* have been created, cannot be given its length: get_or_create returns the*)
(* error.                                                                  *)
EntryFails(p) ==
  LET k == req[p].key
  IN  /\ Faults /\ pc[p] = "entry"
      /\ k \notin locked /\ items[k] = None
      /\ \/ file' = file
         \/ ~file[k].exists /\ file' = [file EXCEPT ![k] = SetLen(@, 0)]
      /\ req' = [req EXCEPT ![p] = NoReq]
      /\ pc' = [pc EXCEPT ![p] = "idle"]
      /\ UNCHANGED << row, destroyed, memory, arc, blk, fd, snap, ev >>

EntryVacantUnlocked(p) ==
  /\ pc[p] = "entry" /\ req[p].key \notin locked /\ items[req[p].key] = None
  /\ OpenFile(p)
  /\ pc' = [pc EXCEPT ![p] = "restore"]
  /\ UNCHANGED << row, items, locked, item, arc, req, blk, fd, snap, ev >>

(* `entry` is vacant: the shard stays locked until the item is inserted.   *)
EntryVacant(p) ==
  /\ pc[p] = "entry" /\ req[p].key \notin locked /\ items[req[p].key] = None
  /\ OpenFile(p)
  /\ locked' = locked \cup {req[p].key}
  /\ pc' = [pc EXCEPT ![p] = "restore"]
  /\ UNCHANGED << row, items, item, arc, req, blk, fd, snap, ev >>

(* The new item enters the map and the shard is unlocked.                  *)
Install(p, ranges) ==
  \E i \in Unused :
    /\ \A j \in Unused : i <= j
    /\ item' = [item EXCEPT ![i] = [NoItem EXCEPT !.key = req[p].key,
                                                  !.size = req[p].size,
                                                  !.ranges = ranges]]
    /\ items' = [items EXCEPT ![req[p].key] = i]
    /\ locked' = locked \ {req[p].key}
    /\ arc' = [arc EXCEPT ![p] = i]
    /\ req' = [req EXCEPT ![p] = NoReq]
    /\ pc' = [pc EXCEPT ![p] = "mark"]

RestoreAnySize(p) ==
  /\ pc[p] = "restore"
  /\ Install(p, row[req[p].key].ranges)
  /\ UNCHANGED << disk, blk, fd, snap, ev >>

(* The row is missing, or it is of this file size and its ranges are taken *)
(* over.                                                                   *)
Restore(p) ==
  LET r == row[req[p].key]
  IN  /\ pc[p] = "restore"
      /\ r.exists => r.size = req[p].size
      /\ Install(p, r.ranges)
      /\ UNCHANGED << disk, blk, fd, snap, ev >>

(* The row is of another file size: the open file is cut again, which does *)
(* not bring it back where it was unlinked...                              *)
RestoreMismatch(p) ==
  /\ pc[p] = "restore" /\ row[req[p].key].exists
  /\ row[req[p].key].size # req[p].size
  /\ IF file[req[p].key].exists THEN OpenFile(p) ELSE UNCHANGED << file, destroyed >>
  /\ pc' = [pc EXCEPT ![p] = "purge"]
  /\ UNCHANGED << row, memory, arc, req, blk, fd, snap, ev >>

(* ... and the row deleted; a failure is only logged.                      *)
Purge(p) ==
  /\ pc[p] = "purge"
  /\ \/ row' = [row EXCEPT ![req[p].key] = NoRow]
     \/ Faults /\ row' = row
  /\ Install(p, {})
  /\ UNCHANGED << file, destroyed, blk, fd, snap, ev >>

(* `range_db.get`, or the second set_len, fails: get_or_create returns the *)
(* error.                                                                  *)
RestoreFails(p) ==
  /\ Faults /\ pc[p] = "restore"
  /\ locked' = locked \ {req[p].key}
  /\ req' = [req EXCEPT ![p] = NoReq]
  /\ pc' = [pc EXCEPT ![p] = "idle"]
  /\ UNCHANGED << disk, items, item, arc, blk, fd, snap, ev >>

MarkOpenUncounted(p) ==
  /\ pc[p] = "mark"
  /\ pc' = [pc EXCEPT ![p] = "open"]
  /\ UNCHANGED << disk, memory, arc, req, blk, fd, snap, ev >>

(* `item.open()` after the entry guard is gone.                            *)
MarkOpen(p) ==
  /\ pc[p] = "mark"
  /\ item' = [item EXCEPT ![arc[p]].opens = @ + 1]
  /\ pc' = [pc EXCEPT ![p] = "open"]
  /\ UNCHANGED << disk, items, locked, arc, req, blk, fd, snap, ev >>

-----------------------------------------------------------------------------
(* A read spawns a download worker, which has its own Arc of the item and  *)
(* may outlive the read: an abort takes effect at its next await.          *)
SpawnWorker(w, p) ==
  /\ pc[w] = "idle" /\ pc[p] = "open"
  /\ arc' = [arc EXCEPT ![w] = arc[p]]
  /\ pc' = [pc EXCEPT ![w] = "work"]
  /\ UNCHANGED << disk, memory, req, blk, fd, snap, ev >>

EndWorker(w) ==
  /\ pc[w] = "work"
  /\ arc' = [arc EXCEPT ![w] = None]
  /\ item' = Collect(item, items, arc')
  /\ pc' = [pc EXCEPT ![w] = "idle"]
  /\ UNCHANGED << disk, items, locked, req, blk, fd, snap, ev >>

(* CacheItem::write_range.  A missing file makes it fail before it changes *)
(* anything.                                                               *)
OpenForWrite(w, b) ==
  /\ pc[w] = "work" /\ b < item[arc[w]].size
  /\ file[item[arc[w]].key].exists
  /\ blk' = [blk EXCEPT ![w] = b]
  /\ pc' = [pc EXCEPT ![w] = "write"]
  /\ UNCHANGED << disk, memory, arc, req, fd, snap, ev >>

WriteFile(w) ==
  LET k == item[arc[w]].key
  IN  /\ pc[w] = "write"
      /\ file' = IF fd[w] = "stale" THEN file
                 ELSE [file EXCEPT ![k].data = @ \cup {blk[w]},
                                   ![k].size = IF @ > blk[w] THEN @ ELSE blk[w] + 1]
      /\ fd' = [fd EXCEPT ![w] = "live"]
      /\ pc' = [pc EXCEPT ![w] = "insert"]
      /\ UNCHANGED << row, destroyed, memory, arc, req, blk, snap, ev >>

(* Records the range and marks the item dirty.  Nothing reads one of the   *)
(* two between the assignments that would not have been possible before or *)
(* after both, so they are one step.                                       *)
InsertRange(w) ==
  /\ pc[w] = "insert"
  /\ item' = [item EXCEPT ![arc[w]].ranges = @ \cup {blk[w]},
                          ![arc[w]].dirty = TRUE]
  /\ blk' = [blk EXCEPT ![w] = 0]
  /\ pc' = [pc EXCEPT ![w] = "flush"]
  /\ UNCHANGED << disk, items, locked, arc, req, fd, snap, ev >>

-----------------------------------------------------------------------------
(* CacheItem::flush_ranges, forced except for a worker: nothing to do, or  *)
(* not yet (debounced).                                                    *)
FlushSkip(a) ==
  /\ pc[a] = "flush"
  /\ item[arc[a]].dirty => a \in Workers
  /\ FlushReturn(a)
  /\ item' = Collect(item, items, arc')
  /\ UNCHANGED << disk, items, locked, req, blk, fd, ev >>

FlushSnapshot(a) ==
  /\ pc[a] = "flush" /\ item[arc[a]].dirty
  /\ snap' = [snap EXCEPT ![a] = item[arc[a]].ranges]
  /\ pc' = [pc EXCEPT ![a] = "upsert"]
  /\ UNCHANGED << disk, memory, arc, req, blk, fd, ev >>

Upsert(a) ==
  LET i == item[arc[a]]
  IN  /\ pc[a] = "upsert"
      /\ row' = [row EXCEPT ![i.key] = [exists |-> TRUE, size |-> i.size,
                                        ranges |-> snap[a], fresh |-> InPass]]
      /\ pc' = [pc EXCEPT ![a] = "clean"]
      /\ UNCHANGED << file, destroyed, memory, arc, req, blk, fd, snap, ev >>

UpsertFails(a) ==
  /\ Faults /\ pc[a] = "upsert"
  /\ FlushReturn(a)
  /\ item' = Collect(item, items, arc')
  /\ UNCHANGED << disk, items, locked, req, blk, fd, ev >>

FlushClean(a) ==
  /\ pc[a] = "clean"
  /\ FlushReturn(a)
  /\ item' = Collect([item EXCEPT ![arc[a]].dirty = FALSE], items, arc')
  /\ UNCHANGED << disk, items, locked, req, blk, fd, ev >>

-----------------------------------------------------------------------------
(* CacheItem::release: the last handle flushes.                            *)
ReleaseLast(p) ==
  /\ pc[p] = "open" /\ item[arc[p]].opens = 1
  /\ item' = [item EXCEPT ![arc[p]].opens = 0]
  /\ pc' = [pc EXCEPT ![p] = "flush"]
  /\ UNCHANGED << disk, items, locked, arc, req, blk, fd, snap, ev >>

Release(p) ==
  /\ pc[p] = "open" /\ item[arc[p]].opens # 1
  /\ arc' = [arc EXCEPT ![p] = None]
  /\ item' = Collect([item EXCEPT ![arc[p]].opens = IF @ = 0 THEN 0 ELSE @ - 1],
                     items, arc')
  /\ pc' = [pc EXCEPT ![p] = "idle"]
  /\ UNCHANGED << disk, items, locked, req, blk, fd, snap, ev >>

(* Cache::invalidate, called by a FUSE read that still holds its item.     *)
InvalidateMap(p) ==
  LET k == item[arc[p]].key
  IN  /\ FatalReads /\ pc[p] = "open" /\ k \notin locked
      /\ items' = [items EXCEPT ![k] = None]
      /\ item' = Collect(item, items', arc)
      /\ pc' = [pc EXCEPT ![p] = "unlink"]
      /\ UNCHANGED << disk, locked, arc, req, blk, fd, snap, ev >>

InvalidateFile(p) ==
  /\ pc[p] = "unlink"
  /\ \/ Unlink(item[arc[p]].key)
     \/ Faults /\ UNCHANGED << file, destroyed, fd >>
  /\ pc' = [pc EXCEPT ![p] = "delrow"]
  /\ UNCHANGED << row, memory, arc, req, blk, snap, ev >>

InvalidateRow(p) ==
  /\ pc[p] = "delrow"
  /\ \/ row' = [row EXCEPT ![item[arc[p]].key] = NoRow]
     \/ Faults /\ row' = row
  /\ pc' = [pc EXCEPT ![p] = "open"]
  /\ UNCHANGED << file, destroyed, memory, arc, req, blk, fd, snap, ev >>

-----------------------------------------------------------------------------
(* A get_or_create of the key has begun and not yet returned: unless the   *)
(* thread stalls, the item it finds or makes was used within the minute.   *)
Arriving(k) ==
  \E r \in Readers : \/ pc[r] \in {"entry", "restore", "purge"} /\ req[r].key = k
                     \/ pc[r] = "mark" /\ item[arc[r]].key = k

(* eviction.rs: one pass.  The closed items idle for a minute are chosen...*)
EvictScan ==
  /\ pc[Evictor] = "start" /\ locked = {}
  /\ \E idle \in SUBSET {k \in Keys : /\ items[k] # None
                                      /\ item[items[k]].opens = 0
                                      /\ Stalls \/ ~Arriving(k)} :
       ev' = [NoPass EXCEPT !.todo = idle]
  /\ pc' = [pc EXCEPT ![Evictor] = "evict"]
  /\ UNCHANGED << disk, memory, arc, req, blk, fd, snap >>

EvictItemUnchecked(k) ==
  /\ pc[Evictor] = "evict" /\ k \in ev.todo /\ k \notin locked
  /\ items[k] # None
  /\ items' = [items EXCEPT ![k] = None]
  /\ arc' = [arc EXCEPT ![Evictor] = items[k]]
  /\ ev' = [ev EXCEPT !.todo = @ \ {k}]
  /\ pc' = [pc EXCEPT ![Evictor] = "flush"]
  /\ UNCHANGED << disk, locked, item, req, blk, fd, snap >>

(* ... `remove_if` looks again at the handle count under the shard lock... *)
EvictItem(k) ==
  /\ pc[Evictor] = "evict" /\ k \in ev.todo /\ k \notin locked
  /\ items[k] # None /\ item[items[k]].opens = 0
  /\ items' = [items EXCEPT ![k] = None]
  /\ arc' = [arc EXCEPT ![Evictor] = items[k]]
  /\ ev' = [ev EXCEPT !.todo = @ \ {k}]
  /\ pc' = [pc EXCEPT ![Evictor] = "flush"]
  /\ UNCHANGED << disk, locked, item, req, blk, fd, snap >>

EvictKeep(k) ==
  /\ pc[Evictor] = "evict" /\ k \in ev.todo /\ k \notin locked
  /\ items[k] # None => item[items[k]].opens # 0
  /\ ev' = [ev EXCEPT !.todo = @ \ {k}]
  /\ UNCHANGED << disk, memory, pc, arc, req, blk, fd, snap >>

(* ttl_cleanup: nothing stale, TTL off, or the query fails.                *)
TtlSkip ==
  /\ pc[Evictor] = "evict" /\ ev.todo = {}
  /\ pc' = [pc EXCEPT ![Evictor] = "lru"]
  /\ UNCHANGED << disk, memory, arc, req, blk, fd, snap, ev >>

TtlQuery ==
  /\ CacheMaxAge # 0 /\ pc[Evictor] = "evict" /\ ev.todo = {}
  /\ \E stale \in SUBSET {k \in Keys : row[k].exists /\ ~row[k].fresh} :
       stale # {} /\ ev' = [ev EXCEPT !.todo = stale]
  /\ pc' = [pc EXCEPT ![Evictor] = "ttl"]
  /\ UNCHANGED << disk, memory, arc, req, blk, fd, snap >>

TtlKeep(k) ==
  /\ pc[Evictor] = "ttl" /\ k \in ev.todo /\ k \notin locked /\ items[k] # None
  /\ ev' = [ev EXCEPT !.todo = @ \ {k}]
  /\ UNCHANGED << disk, memory, pc, arc, req, blk, fd, snap >>

TtlChoose(k) ==
  /\ pc[Evictor] = "ttl" /\ k \in ev.todo /\ k \notin locked /\ items[k] = None
  /\ ev' = [ev EXCEPT !.todo = @ \ {k}, !.victim = k]
  /\ pc' = [pc EXCEPT ![Evictor] = "ttlunlink"]
  /\ UNCHANGED << disk, memory, arc, req, blk, fd, snap >>

(* The file goes (or is gone already); if it cannot be removed, its row is *)
(* kept for the next pass.                                                 *)
TtlUnlink ==
  /\ pc[Evictor] = "ttlunlink"
  /\ \/ /\ Unlink(ev.victim)
        /\ ev' = [ev EXCEPT !.doomed = @ \cup {ev.victim}, !.victim = None]
     \/ /\ Faults
        /\ ev' = [ev EXCEPT !.victim = None]
        /\ UNCHANGED << file, destroyed, fd >>
  /\ pc' = [pc EXCEPT ![Evictor] = "ttl"]
  /\ UNCHANGED << row, memory, arc, req, blk, snap >>

(* One batch delete after all the files.                                   *)
TtlDelete ==
  /\ pc[Evictor] = "ttl" /\ ev.todo = {}
  /\ \/ row' = [k \in Keys |-> IF k \in ev.doomed THEN NoRow ELSE row[k]]
     \/ Faults /\ row' = row
  /\ ev' = NoPass
  /\ pc' = [pc EXCEPT ![Evictor] = "lru"]
  /\ UNCHANGED << file, destroyed, memory, arc, req, blk, fd, snap >>

-----------------------------------------------------------------------------
(* evict_disk_lru.                                                         *)
Threshold == (CacheMaxSize * 9) \div 10

(* The files the directory walk counts: those without an extension.        *)
LruCounted == {k \in Extensionless : file[k].exists}

DiskUse(keys) == Cardinality(UNION {{k} \X file[k].data : k \in keys})

(* Total within the threshold, or LRU off: the pass ends.                  *)
LruSkip ==
  /\ pc[Evictor] = "lru"
  /\ CacheMaxSize # 0 => DiskUse(LruCounted) <= Threshold
  /\ pc' = [pc EXCEPT ![Evictor] = "start"]
  /\ EndPass
  /\ UNCHANGED << destroyed, memory, arc, req, blk, fd, snap >>

(* Candidates with their sizes; the young ones would only be skipped.      *)
LruScan ==
  /\ pc[Evictor] = "lru" /\ CacheMaxSize # 0
  /\ DiskUse(LruCounted) > Threshold
  /\ \E old \in SUBSET {k \in LruCounted : ~file[k].fresh} :
       ev' = [NoPass EXCEPT !.cands = {<< k, Cardinality(file[k].data) >> : k \in old},
                            !.total = DiskUse(LruCounted)]
  /\ pc' = [pc EXCEPT ![Evictor] = "lruloop"]
  /\ UNCHANGED << disk, memory, arc, req, blk, fd, snap >>

LruKeep(c) ==
  /\ pc[Evictor] = "lruloop" /\ ev.total > Threshold
  /\ c \in ev.cands /\ c[1] \notin locked /\ items[c[1]] # None
  /\ ev' = [ev EXCEPT !.cands = @ \ {c}]
  /\ UNCHANGED << disk, memory, pc, arc, req, blk, fd, snap >>

LruChoose(c) ==
  /\ pc[Evictor] = "lruloop" /\ ev.total > Threshold
  /\ c \in ev.cands /\ c[1] \notin locked /\ items[c[1]] = None
  /\ ev' = [ev EXCEPT !.cands = @ \ {c}, !.victim = c]
  /\ pc' = [pc EXCEPT ![Evictor] = "lruunlink"]
  /\ UNCHANGED << disk, memory, arc, req, blk, fd, snap >>

(* The file goes, its row stays.  A file that is gone frees nothing.       *)
LruUnlink ==
  LET k == ev.victim[1]
  IN  /\ pc[Evictor] = "lruunlink"
      /\ \/ /\ Unlink(k)
            /\ ev' = [ev EXCEPT !.victim = None,
                                !.total = IF file[k].exists THEN @ - ev.victim[2] ELSE @]
         \/ /\ Faults
            /\ ev' = [ev EXCEPT !.victim = None]
            /\ UNCHANGED << file, destroyed, fd >>
      /\ pc' = [pc EXCEPT ![Evictor] = "lruloop"]
      /\ UNCHANGED << row, memory, arc, req, blk, snap >>

LruDone ==
  /\ pc[Evictor] = "lruloop" /\ (ev.total <= Threshold \/ ev.cands = {})
  /\ EndPass
  /\ pc' = [pc EXCEPT ![Evictor] = "start"]
  /\ UNCHANGED << destroyed, memory, arc, req, blk, fd, snap >>

(* The process is killed and started again: only the disk survives.        *)
Restart ==
  /\ Crashes
  /\ items' = [k \in Keys |-> None]
  /\ locked' = {}
  /\ item' = [i \in ItemIds |-> NoItem]
  /\ pc' = [a \in Actors |-> IF a = Evictor THEN "start" ELSE "idle"]
  /\ arc' = [a \in Actors |-> None]
  /\ req' = [r \in Readers |-> NoReq]
  /\ blk' = [w \in Workers |-> 0]
  /\ fd' = [w \in Workers |-> "live"]
  /\ snap' = [a \in Actors |-> {}]
  /\ EndPass
  /\ UNCHANGED destroyed

-----------------------------------------------------------------------------
ReaderStep(p) ==
  \/ /\ Cardinality({r \in Readers : pc[r] # "idle"}) < env.reads
     /\ \/ \E k \in Keys : GetHit(p, k)
        \/ \E k \in Keys, size \in env.sizes : GetMiss(p, k, size)
  \/ EntryOccupied(p) \/ EntryVacant(p) \/ EntryFails(p)
  \/ Restore(p) \/ RestoreMismatch(p) \/ Purge(p) \/ RestoreFails(p)
  \/ MarkOpen(p)
  \/ Release(p) \/ ReleaseLast(p)
  \/ InvalidateMap(p) \/ InvalidateFile(p) \/ InvalidateRow(p)

WorkerStep(w) ==
  \/ \E p \in Readers : SpawnWorker(w, p)
  \/ EndWorker(w)
  \/ \E b \in Blocks : OpenForWrite(w, b)
  \/ WriteFile(w) \/ InsertRange(w)

FlushStep(a) ==
  FlushSkip(a) \/ FlushSnapshot(a) \/ Upsert(a) \/ UpsertFails(a) \/ FlushClean(a)

EvictorStep ==
  \/ EvictScan \/ \E k \in Keys : EvictItem(k) \/ EvictKeep(k)
  \/ TtlSkip \/ TtlQuery \/ \E k \in Keys : TtlKeep(k) \/ TtlChoose(k)
  \/ TtlUnlink \/ TtlDelete
  \/ LruSkip \/ LruScan \/ \E c \in ev.cands : LruKeep(c) \/ LruChoose(c)
  \/ LruUnlink \/ LruDone

Next ==
  /\ \/ \E p \in Readers : ReaderStep(p)
     \/ \E w \in Workers : WorkerStep(w)
     \/ \E a \in Actors : FlushStep(a)
     \/ EvictorStep
     \/ Restart
  /\ UNCHANGED env

Spec == Init /\ [][Next]_vars

-----------------------------------------------------------------------------
FileType == [exists : BOOLEAN, size : Nat, data : SUBSET Blocks, fresh : BOOLEAN]
RowType  == [exists : BOOLEAN, size : Nat, ranges : SUBSET Blocks, fresh : BOOLEAN]
ItemType == [key : Keys \cup {None}, size : Nat, ranges : SUBSET Blocks,
             opens : Nat, dirty : BOOLEAN]

(* The types of the state; and no file has data, no row and no item knows  *)
(* ranges beyond the size it was made with: a row of another size must not *)
(* be taken over.                                                          *)
TypeOK ==
  /\ file \in [Keys -> FileType]
  /\ row \in [Keys -> RowType]
  /\ \A k \in Keys : \A b \in file[k].data : b < file[k].size
  /\ \A k \in Keys : \A b \in row[k].ranges : b < row[k].size
  /\ \A i \in ItemIds : \A b \in item[i].ranges : b < item[i].size
  /\ items \in [Keys -> ItemIds \cup {None}]
  /\ locked \subseteq Keys
  /\ item \in [ItemIds -> ItemType]
  /\ pc \in [Actors -> ReaderPc \cup WorkerPc \cup EvictorPc]
  /\ \A r \in Readers : pc[r] \in ReaderPc
  /\ \A w \in Workers : pc[w] \in WorkerPc
  /\ pc[Evictor] \in EvictorPc
  /\ arc \in [Actors -> ItemIds \cup {None}]
  /\ req \in [Readers -> [key : Keys \cup {None}, size : Nat]]
  /\ blk \in [Workers -> Nat]
  /\ fd \in [Workers -> {"live", "stale"}]
  /\ snap \in [Actors -> SUBSET Blocks]
  /\ destroyed \subseteq Keys
  /\ env \in Settings

-----------------------------------------------------------------------------
(* The items that somebody can still use: in the map or held by an Arc.    *)
Reachable == {i \in ItemIds : \/ \E k \in Keys : items[k] = i
                              \/ \E a \in Actors : arc[a] = i}

(* As long as nothing has destroyed bytes of a key's file (no unlink by    *)
(* `invalidate`, TTL or LRU, no `set_len` below data), everything that     *)
(* claims to know what is on disk tells the truth: the row that the next   *)
(* start restores and every item, mapped or evicted but still held.  This  *)
(* is the order of `write_range` (file, then ranges, then row) through     *)
(* concurrent workers, evictions, failed calls and kills at any step.      *)
BackedUnlessDestroyed ==
  \A k \in Keys \ destroyed :
    /\ row[k].exists => file[k].exists /\ row[k].ranges \subseteq file[k].data
    /\ \A i \in Reachable :
         item[i].key = k => item[i].ranges \subseteq file[k].data

(* `opens` counts exactly the reads between get_or_create and release, so  *)
(* that "closed" in the eviction pass means that no read uses the item.    *)
OpensCountsReaders ==
  \A i \in Reachable :
    item[i].opens = Cardinality({r \in Readers : arc[r] = i /\ pc[r] \in OpenPc})

(* cache.rs, get_or_create: "concurrent callers share one canonical `Arc`  *)
(* instead of duplicating items".  Reads that have the key open use the    *)
(* same item, whatever the eviction pass does between `get` and `entry`;   *)
(* two items of one key would not see each other's ranges and would store  *)
(* them over each other.                                                   *)
OneCanonicalItem ==
  \A i, j \in {n \in Reachable : item[n].opens > 0} :
    item[i].key = item[j].key => i = j

(* eviction.rs, `remove_if`: the eviction pass never takes an item away    *)
(* that a read has open, although it chose its victims earlier: only       *)
(* `invalidate` and a restart do.                                          *)
SparesOpenItems ==
  \A k \in Keys :
    (/\ items[k] # None /\ item[items[k]].opens > 0
     /\ items'[k] = None)
    => \/ \E r \in Readers : pc[r] = "open" /\ pc'[r] = "unlink"
       \/ \A a \in Actors : arc'[a] = None

(* Every step of the process is such a step.                               *)
EvictionSparesOpenItems == [][SparesOpenItems]_vars

-----------------------------------------------------------------------------
(* What comments and tests of the repository say, and the code does not do.*)

(* item.rs, field `ranges`: "Ranges of bytes already on disk."  `read_at`  *)
(* serves whatever has_range admits straight from the file: a block that   *)
(* is claimed but not in the file is served as zeroes.                     *)
RangesOnDisk ==
  \A k \in Keys :
    items[k] # None /\ file[k].exists => item[items[k]].ranges \subseteq file[k].data
=============================================================================
