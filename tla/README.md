# TLA+ models of rd-rs

rd-rs mounts a Real-Debrid library as a read-only FUSE file system. These
modules model its state machines from the source under `src/src/`, model-check
them with TLC on small instances and prove every invariant and action property
that the runs check with TLAPS, for all values of the constants.

## The system

| part | source | state | operations | what is hard |
| --- | --- | --- | --- | --- |
| interval list | `cache/bitmap.rs`, `cache/range_db.rs` (blob) | sorted list of half-open intervals | `insert`, `has_range`, `find_missing`, encode, decode | off-by-one at borders, merging |
| cache store | `cache/cache.rs`, `cache/item.rs`, `cache/range_db.rs` | per key: sparse file, database row, in-memory item with `opens` and `persist_dirty` | `get_or_create`, `open`, `release`, `write_range`, `flush_ranges`, `invalidate` | three copies of one truth, no common lock, kills at any step |
| eviction | `cache/eviction.rs` | one pass per minute | idle items, TTL cleanup, disk LRU, free-space pause | checks and acts while reads open the same keys |
| reads and sessions | `cache/item_read_at.rs`, `cache/download_session.rs` | `active_workers`, waiter counts, cancel tokens, abort handles | join or spawn, wait, kick, interrupt, return | lost wake-ups, orphan downloads, aborts of shared sessions |
| downloader | `cache/worker.rs`, `cache/link_heal.rs` | queue of slices, shared multiplier, permits, heal budget, pause flag | chunk loop, retry, heal, join | re-splitting between concurrent workers, termination |
| torrent registry, refresh | `torrent/` | map of torrents, repair states, database rows, repair queue | refresh merge, state updates, `mark_file_broken`, enqueue | read-modify-insert without a lock, stale snapshots |
| repair | `repair/` | jobs, torrents on Real-Debrid | engine loop, preflight, cascade of four strategies | partial failure after deletion, timeouts, crash |
| Real-Debrid client | `rd/` | token pool, unrestrict cache, rate limits | request with retries, token rotation | late answers, unbounded retry |
| FUSE layer | `fuse/` | handles, read buffers, inode maps | lookup, readdir, read, release | cancellation, inode reuse |
| rest | `db/`, `config/`, `rd/cdn/`, `main.rs` | | SQL statements, parsing, probing, wiring | |

A FUSE read opens the cache item of its file, calls `read_at`, and releases
the item. `read_at` finds or spawns a download session and waits; the session
runs `run_downloader`, whose chunk workers write blocks with `write_range` and
notify the readers. `write_range` writes the file, then records the range, then
(debounced) stores the row; the eviction loop works on the same items, files
and rows. A fatal link error makes the read invalidate its item, mark the file
and the torrent broken, queue a repair and wait for it. The repair engine takes
the key from the queue or from its periodic scan, probes the links, and runs the
cascade; the refresh loop merges Real-Debrid's list into the same entries. What
a round adds or removes goes to the inode cleanup through a broadcast channel
and to the hook worker through an unbounded one. Every link comes from
`unrestrict_link` and every download from `http_range_get`, which share the
token pool with the daily reset and the hot reload.

`PROJECT.json` lists all components, and the hazards with the properties
aimed at them.

## Modules

* **ByteSet** - what the interval list promises: a set of bytes to which
  `insert` adds an interval.
* **ByteRanges** - the list itself; `PartitionPoint`, `RightBound`, `Merged`
  follow `insert`, `Cursor` is the walk of `find_missing`. `call` remembers the
  arguments of the last insert, so that the refinement speaks of the same call.
* **ByteRangesProofs** - its theorems.
* **CacheStore** - file, row and item of every key as three variables; each
  actor (read, download worker, eviction loop) has a program counter with one
  step per lock, file-system call or SQL statement. `locked` is the shard lock
  that `DashMap::entry` holds while the file is opened. A descriptor that a
  worker opened before an unlink is `stale` and writes into nothing. Ranges are
  sets of blocks: ByteRanges shows that they are. Clocks are choices: `fresh`
  marks files and rows touched since the pass read its clock, which it cannot
  take for old ones; `Stalls` says whether a thread may sleep a minute inside
  `get_or_create`. `destroyed` is history. `env` is fixed at the start and says
  which readers, sizes, passes and faults there are (`Settings`), so that one
  run covers several combinations.
* **CacheStoreProofs** - its theorems.
* **ReadAt** - calls of `read_at` and the tasks they spawn. A task is `spawned`,
  `running` or `done`; its WorkerGuard exists only from its first poll on.
  `run_downloader` is abstracted to writing blocks of its window and ending.
* **ReadAtProofs** - its theorems.
* **DownloadTask** - what `run_downloader` promises the reads that wait for it:
  it writes blocks of its window, Ok to a session nobody cancelled means all of
  them, and nothing is written after Ok.
* **Downloader** - the inside of `run_downloader`. A worker's step ends at an
  await or before a lock. `wanted` and `settled` are history. Lines 230-251 of
  `worker.rs` cannot be reached (`http_range_get` already refuses a 200 without
  Content-Range) and have no action.
* **DownloaderProofs** - its theorems.
* **RepairCascade** - `execute_cascade` with its four strategies for one
  torrent: one action per API call and outcome (`DeleteOld`, `AddMagnet`,
  `SelectFiles`, `PollReady`, ...), the guard of `ephemeral_torrent.rs` and the
  cleanup tasks its drop spawns, the timeout of `repair_one.rs`, and the refresh
  loop, which takes a list of failed torrents (`listed`) and deletes by it later.
  `rd` is what is on Real-Debrid; `ready` is history: what each strategy found. A
  torrent that is listed does not get ready afterwards: errors are final, and a
  download counts as stalled after minutes, while `info_ready` asks for seconds.
* **RepairCascadeProofs** - its theorems.
* **Preflight** - `run_preflight` in front of the cascade, as `repair_one` runs
  them: `AssignOrphan`, `Probe` and `VerifyOneLink` take one link each, from any
  links and file states an earlier repair may have left. A selected file is its
  position, because the code finds its link by that; which files the download of
  an orphan fits (name and size) is a choice. A check of a link is
  `unrestrict_link` and `verify_link` in one step: the copy of the torrent that
  preflight works on is its own. `StartCascade` forgets the links and states,
  which the cascade does not read. `alive`, `sick` and `met` are history.
* **PreflightProofs** - its theorems.
* **TorrentRegistry** - one access key: its entry in the map, its row, the watch
  channel, the repair queue with the permit of `Notify`, the locks of
  `fuse_fatal_read_locks`; the repair engine, the refresh loop and the FUSE
  reads with a program counter each. `call[p]` is the `TorrentManager` call that
  task `p` is in: get, insert, database. `scene` says which reads and whether
  the refresh loop take part, how many events are left, and whether other tasks
  may run between get and insert (`windows`). Steps are merged where nothing can
  observe the difference: the get of `ensure_torrent_info` and the answer to its
  request, `diff` and the first access after it, storing the row and sending on
  the channel (nobody reads the row before a restart), begin-lock and subscribe,
  notify and end-lock. The key has one Real-Debrid id at a time, with one new id
  for each time it is added; the cascade is abstracted to what it does to that
  id. Repair and the wait of reads are enabled in the configuration. A torrent
  that is under repair may be found older than `timeout_mins` at any time.
* **TorrentRegistryProofs** - its theorems.
* **TokenPool** - the list of tokens with its flags, the index, the unrestrict
  cache, calls of `unrestrict_link` and of `http_range_get` (with `execute_impl`
  around each request), the daily reset and the reload. A call picks a token,
  waits for the server, and marks the token in whatever list is there then:
  `MarkLoad` and `MarkStore` are the two halves of `mark_exhausted`, and `gen`
  tells the list it found the token in from its successors. `refused` and `calm`
  are history. There is one source link, so a row of the cache is its token.
* **FuseRead** - `read` of one file: the broken test, the wait for a repair, the
  window of the handle, the attempts with `unrestrict_link` and `read_at`, whose
  outcomes are choices; `open`, `release`, `interrupt` and the registration of
  each request under the kernel's number. fuse3 (vendored) spawns a task for each
  read and each interrupt: `ReadRequested` and `Interrupt` are the kernel's
  requests, `ReadBegins` and `InterruptRuns` the tasks, in any order. `asked` and
  `early` are history; a number is free again when it is answered (Linux counts
  up, so this allows more). The bytes of block b are the number b, so that a reply
  shows where it was taken from.
* **InodeMap** - `key_to_inode`, `inode_to_key`, the cached listing, `lookup`,
  `readdir` (test and assignment are two steps, the guard is dropped between
  them), `readdirplus`, and the cleanup task with its two removals and the lag of
  its channel. The number of a file is made of its position when a directory is
  read (`ListFiles`) and looked up in the selection of the torrent when it is used
  (`ResolveFile`); a torrent that is inserted or selected anew may have another
  (`Reload`). `given`, `leaked` and `filesGiven` are history, the last forgetting
  the numbers of a selection that is no more.
* **HookWorker** - the debounce loop, its spawned batches and their one permit,
  reload and shutdown.
* **LibraryChanges** - composes InodeMap and HookWorker with the refresh round:
  add, change, remove and notify one key after the other, store the rows, tell
  the hook. The command of the hook looks for the changed keys in `__all__`.
  `owed` and `unstored` are history.
* **ProcessProofs** - the theorems of TokenPool, FuseRead and LibraryChanges.
* **MCCacheStore, MCRepairCascade, MCTorrentRegistry, MCLibraryChanges** - settings, symmetry and
  selections for TLC. **MCProcess** runs TokenPool, FuseRead and LibraryChanges:
  they share no state, so each behaviour moves one of them (`part`). **MCItem**
  does the same with ByteRanges and ReadAt. The other modules are run as they
  are.

Definitions whose name extends that of the definition after them
(`RightBoundStrict`, `EvictItemUnchecked`, ...) are faulty variants: each
property has one that it catches, listed under "mutants".

## Runs

| run | result | shows |
| --- | --- | --- |
| `item`, list | pass | all lists of a 6-byte file (up to three intervals, so an insert merges none, some or all, on both sides): normal form, exact queries, round trip through the blob, refinement of ByteSet |
| `cache` | pass | one read, one worker and the eviction loop with invalidation, TTL, LRU, failing calls and kills; one key opened with two sizes; two reads: what is claimed is backed by the file unless something destroyed its bytes, no row of another size is taken over, `opens` is exact, one open item per key, eviction spares open items |
| `item`, reads | pass | two reads of an item of three blocks, some beyond the window they joined: waiter counts, no download for nobody, no failure without a cause, every read returns |
| `downloader` | pass | two workers, three blocks, one permit: each missing block in exactly one place, Ok means complete, the session ends |
| `repair_cascade` | pass | preflight with any links and states, then four strategies over seven selections with failing calls, lost answers, the timeout and the refresh loop: a torrent whose links all work is not deleted and one called repaired has no dead playable link, no magnet is lost, the new id is complete and safe, a limit met by the cascade never makes a torrent unrepairable, success means that every selected file was found, everything ends |
| `registry` | pass | the engine with a read, the refresh loop and one event; with two reads of one file and two events; with a read, or the refresh loop, in the windows between get and insert: types, only broken torrents are unrepairable, no lost wake-up, one leader per file who alone gives up its lock |
| `registry_live` | pass | a read and the engine with two events, or with one event and the windows: no torrent stays under repair, every read returns |
| `process`, tokens | pass | two accounts, a call of each kind, two resets, reloads or exhaustions: only refused tokens are flagged, no call gives up while a token is usable, the requests of a call are bounded, every call ends |
| `process`, reads | pass | two reads of one handle and file: each gets the bytes it asked for, an interrupt hits the read it is for unless it runs before that read has registered, every read is answered |
| `process`, library | pass | two torrents, or one with its files: an inode never leads to another torrent, nor to another file while the selection is the same, the two maps agree, entries of removed torrents are purged, every change reaches the hook |
| `cache_invalidate` | violation | below |
| `repair_success` | violation | below |
| `repair_bandwidth` | violation | below |
| `registry_sync` | violation | below |
| `library_listing` | violation | below |

Bounds. The protocols of the cache are per key, so one key is enough; two
readers or two workers give every pairwise race, and the second read of
`item` also meets what the first has left behind. Three blocks with chunk
sizes 1 and 2 make a chunk that is cut, a rest that goes back and a slice for
the other worker. `ItemIds` and `Sessions` name allocations that are reused when
nobody refers to them; their number is large enough never to block a step.
`MaxReads`, `MaxPauses` bound what the environment does; the code's own limits
(`MaxRetries`, `MaxHeals`, `MaxMult`) are smaller than the real ones and play
the same part. `downloader` assumes that a server which grants a range sends all
of it (`ShortBodies`, see below).

The cascade runs with three files (none to three selected, playable or
not, with a duplicate), batches of two files, so that three make one that is
short, one old id, two polls and two faults (none with three files): a fault in
the repair of a fault. Preflight has up to two orphans, which
may fit the same file. The registry runs start from every row
that an earlier process may have left, so that two ids and one or two events
(faults, restarts, new reads, dying links and what the user does) reach what
would take longer from an empty database. `MCScenes` pairs the tasks that race:
one read with the refresh loop; two reads, of which one leads and one follows; a
read, or the refresh loop alone, with the windows between get and insert. The
theorems hold for every scene. `registry_live` has one read, which two events or
the windows disturb, and leaves the refresh loop out.
In `process`, two accounts and the lists `<< a, b >>` and `<< b >>` let a reload
move, drop and bring back an account while calls are out; `MaxPoolEvents` = 2
pairs any two of reset, reload, exhaustion, new day and "try again". A file of
three blocks with a buffer of two has reads that hit, miss, outrun the window
and lie at or behind the end; an interrupt, in one group of behaviours, and the
release of the handle, in another, come with reads of one block, because they do
not depend on offsets. The library starts
from every difference between the map and Real-Debrid; with the mount in use one
event follows (a torrent comes, goes and comes back), with the hook worker two.
`Capacity` = 1 makes two removals overflow the channel. The selections `<< 1 >>`
and `<< 2, 1, 3 >>` with `Stride` = 2 move a file, drop one and have a position
that runs into the numbers of the next inode.
CHECK_DEADLOCK is off where a bounded environment stops.

Fairness. `item` (reads), `downloader`, `repair_cascade` and the two liveness runs of
the registry assume that the runtime polls what is ready and fires elapsed
timers (weak fairness of each read, task, worker, call and loop). ReadAt also
assumes that a running task ends: Downloader shows it, if a pause is lifted.
Downloader assumes that healing a link gets an answer, which the HTTP client
gives unless Real-Debrid keeps answering with an error it asks to retry
(`rd/client/exec.rs` 170-187 has no bound; see the hazards). RepairCascade: weak
fairness of preflight, of the cascade and of the cleanup tasks. TorrentRegistry: strong
fairness of `EngineUnsticks`, because a torrent that is found under repair again
and again outlives `timeout_mins`. `process`: weak fairness of each call and of
the reload task, of each read, of the refresh loop, the hook worker and its
batches. A call under way gets an answer, because requests have timeouts; "try
again" is a bounded event, for `exec.rs` repeats it as long as it comes
(`CallsEnd` would not hold otherwise). The debounce timer of the hook is armed
again by every message, and rounds are 15 s apart, more than its half second.
Nothing forces new reads, interrupts,
cancellations, pauses or events.

### What the violations show

* `cache_invalidate`: `Cache::invalidate` removes item, file and row, but the
  read that calls it still holds the item. Its `release` flushes the ranges
  into a new row, the next open restores them over an empty file, and reads of
  them return zeroes. Two other paths lead to the same state: `evict_disk_lru`
  removes a file without its row, and `ttl_cleanup` removes a file that is
  opened between its test and its unlink.
* `repair_success`: strategy 1 deletes every old id. When it does not succeed
  and strategy 2 or 4 does, the magnets these added are deleted by their guards,
  `new_rd_ids` is None, and the torrent is marked ok although nothing of it is
  on Real-Debrid; the next refresh drops it.
* `repair_bandwidth`: `verify_head` and `verify_range` wrap the error of the
  client in a context, and `verify_failed_like_bandwidth` searches the text of
  that context, "verify_head", for "bandwidth". A limit that is met while a link
  is verified makes its file broken. If no later link meets the limit in
  `unrestrict_link`, where it is recognised, the torrent goes to the cascade,
  whose first step deletes it. `check_head_unreachable` (`repair/detect.rs`) has
  the same test.
* `registry_sync`: a torrent is deleted on Real-Debrid while it is under repair.
  `run_once` skips its removal but returns Ok, so `last_state` is the new state
  of the library; the repair ends broken or unrepairable, the library does not
  change any more, and every later round is skipped. The entry stays until the
  library changes in some other way.
* `library_listing`: nothing expires the listing of `__all__` when the library
  changes: `invalidate_cached_all_dir`, which says it is called then, is reached
  only from dead code. Somebody has listed the directory, a torrent is added, the
  hook runs half a second later, and the new directory is not found for up to
  15 s; no later hook is run for it.

Met while modelling, without a run of their own:

* cache: `flush_ranges` clears `persist_dirty` after its store, so a range
  recorded between snapshot and clear is in no row and not dirty;
  `evict_disk_lru` neither counts nor evicts files with an extension (line 85),
  so `cache_max_size` does not bound the cache; after `invalidate` two reads may
  hold two items of one key.
* reads: a task aborted before its first poll never builds its WorkerGuard, and
  a kicker's task may end before it is pushed; the session then stays in
  `active_workers`, and later reads of its window lose five seconds to the
  kicker (`EveryReadReturns` shows that they do return). A read that looked up a
  session but has not counted itself may lose it to the last waiter. A read that
  reaches beyond the window of the session it joined gets DownloadFailed
  although the download succeeded.
* downloader: the end of a body ends the chunk, however long it was
  (`OkMeansComplete` fails with `ShortBodies = TRUE`); a worker's first
  `changed()` returns for the very change that paused it, so it takes one chunk
  while paused.
* registry: a watch channel without receivers does not store what is sent, so
  that a later subscriber may see an old state (`Subscribe`); an answer of
  `ensure_torrent_info` for an old id is injected into an entry that has got a
  new one; a fatal read clears the unrepairable reason; a row of `repair_jobs`
  stays Running when setting `under_repair` fails.
* refresh and hook: when the batch of rows fails, `run_once` returns before it
  tells the hook, and no later round finds a difference (`unstored`); the hook
  gets `__all__/<access_key>`, while the mount names directories by the
  torrent's name.
* mount: `readdir` may assign an inode to a torrent that was removed after its
  test, and an event lost in a full channel is never made up for, although the
  warning says "until next sweep": the sweep only looks at `broken_read_warn_ts`
  (`leaked`). A removal that is handled after the torrent was added again purges
  the entry of a live torrent, which then gets another inode. A torrent with
  more than 10,000 selected files shares file numbers with the next one, and a
  changed selection shifts the meaning of file numbers that the kernel has
  (`InodeNeverMoves` says what is left: positions below the stride, as long as
  the selection stays).
* tokens: every save of the configuration clears the exhaustion flags, also when
  the tokens are the same.
* interrupts: one whose task runs before the read has registered finds no entry
  and is lost; the read goes on until it ends or its handle is released
  (`InterruptsHit` shows that no other interrupt is lost).
* reads: an interrupt is noticed in `read_at` and in the wait for a repair, not
  in `unrestrict_link` or a back-off; a cancelled wait is answered with ENOENT.
* preflight: a torrent with a playable file that has no link at all, while its
  other links work, is called repaired every time; `periodic_repair_eligible`
  finds the file unassigned and tries again, and the cascade, which could give it
  a link, never runs (`ShortcutJustified` speaks of files with a link). An orphan
  stays in `info.links` after its assignment, so that the next preflight may
  assign it to a second file of the same name and size.

## Proofs

`ByteRangesProofs` proves for every file size and every sequence of inserts

* `ListStaysNormalized`: Spec => []Normalized;
* `ListImplementsByteSet`: Spec => ImplementsByteSet;
* `QueriesExact`: Spec => []HasRangeExact;
* `GapsExact`: Spec => []FindMissingExact;
* `RestartsKeepTheList`: Spec => []PersistRoundTrip.

Assumption: `FileSize \in Nat`. `Normalized` is inductive as it stands. Both
bounds of `insert` are least numbers (`LeastNumber`, from well-foundedness of
`<` on Nat), so the CHOOSE of `LeftBound` and `RightBound` has a value
(`LeftBoundFact`, `RightBoundFact`). `SpliceShape` says what the spliced list
holds at each index, `InsertFact` where the merged interval lies relative to
its neighbours; from these follow `InsertNormalized` and `InsertCovers`, one
case per side of the splice, and the first two theorems. The others follow from
`Normalized` alone. `find_missing`, `from_intervals`, `total_bytes` and the count
of covered bytes are recursive functions, and a recursive function is whatever
satisfies its equation, if anything does: each time a closed form is shown to
satisfy it (the cursor is the farther of `start` and the last end,
`CursorEquation`; the lists built are the prefixes, `FromIntervalsFact`; sums and
counts are cardinalities of the bytes below a border, `TotalBytesFact`,
`CountFact`), and a least counterexample shows that the function is that form.
`WalkedIsCovered` is the loop invariant of the walk: without a gap so far,
everything before the cursor is on disk.

`RepairCascadeProofs` proves for every torrent, selection, batch size, number of
polls and of faults

* `NoMagnetLost`: Spec => []MagnetsOwned;
* `NewIdIsSafe`: Spec => []NewIdComplete;
* `BandwidthDefers`: Spec => []DeferExactlyForBandwidth;
* `SuccessIsWhole`: Spec => []SuccessCoversSelection.

Assumption: `Constants` of the module. The inductive invariant `IInv` adds to
the two properties that every id in use is one that was given out (`IdsInv`) and
what the guard holds at each place of the cascade (`GuardInv`): without them a
new magnet could have the id of a forgotten one, or the kept id a pending delete.
`VerdictInv` adds that no call has met the limit before the cascade is over, so
that no `continue` can drop it. `CoverInv` says that a strategy has found fewer
items ready than it has tried, or each of them with all its files (`CountInv`);
that the items together are the selection is division by the batch size
(`BatchOf`, `ItemsCover`).

`PreflightProofs` proves of the whole repair, for every torrent, selection, number
of orphan links and states left by earlier repairs

* `RepairLosesNoMagnet`: RepairSpec => []MagnetsOwned;
* `RepairKeepsPromises`: RepairSpec => [](NewIdComplete /\ DeferExactlyForBandwidth
  /\ SuccessCoversSelection);
* `HealthyTorrentSpared`: RepairSpec => []ShortcutJustified.

Assumptions: `Constants`, `PreflightConstants`. For the first two, every step
of a repair is a step of the cascade or leaves its variables alone, so that the
invariants of the cascade carry over. For the third, the inductive invariant `PreInv` says what the
probe knows of the files behind it (`ProbeInv`: a linked one is alive or broken,
and all are `ok` as long as nothing is wrong), that orphans are placed before
the probe starts (`CopyInv`), and that the torrent is untouched until it is
handed over, for a reason (`HandOverInv`).

`TorrentRegistryProofs` proves for any number of reads, files, ids and events,
in every scene

* `RegistryTyped`: Spec => []TypeOK;
* `UnrepairableIsBroken`: Spec => []ReasonOnlyBroken;
* `NoWakeUpLost`: Spec => []QueuedIsSeen;
* `OneLeaderPerFile`: Spec => []LeaderExact.

Assumption: `Constants`. Entries are replaced whole, so an invariant of the entry
has to hold of every copy a task may write back: `CopyInv` states it of the
entry, the row, the engine's and the refresh loop's snapshots and each call
under way, and one lemma per operator (`ChangedCopy`, `MergedCopy`,
`ProbedCopy`, ...) shows that the code makes such copies only from such copies.
`CopyStep` has one step per action. `QueuedIsSeen` is then inductive;
`LeaderExact` needs that a leader is between its lock and its release
(`LeaderInv`), for else a return could forget the lock.

`CacheStoreProofs` proves for any number of keys, file sizes, reads, workers and
items, and for every setting (TTL, LRU, invalidation, failing calls, kills)

* `CacheTyped`: Spec => []TypeOK;
* `CacheBacked`: Spec => []BackedUnlessDestroyed;
* `OpensExact`: Spec => []OpensCountsReaders;
* `CanonicalItem`: Spec => [](~Stalls /\ ~FatalReads => OneCanonicalItem);
* `OpenItemsSpared`: Spec => EvictionSparesOpenItems.

Assumption: `Constants`, with a finite set of readers, so that they can be
counted. The inductive invariant `CacheInv` starts from types with what each
place of an actor knows (`TypeInv`): who holds an item, which snapshot is still
part of its item, which key the pass is about to unlink. `BackedInv` states the
claim of each row, item, snapshot and half-written block, since any of them may
become a row later. `ShardInv` says that a vacant entry being filled holds its
shard lock alone while its key is unmapped; without it two `entry` calls could
install two items. `CalmCanon` needs that an open item is mapped and that a key
between choice and `remove_if` is idle, which is what a stall or an `invalidate`
breaks: that is why the theorem has the hypothesis (`Stalls` and `FatalReads` of
the setting, the second being a read that calls `invalidate`).

`ReadAtProofs` proves for any file and read size, read-ahead, number of reads and
of sessions

* `WaiterCountExact`: ReadSpec => []WaitersExact;
* `DownloadsWanted`: ReadSpec => []NoOrphanDownload;
* `FailuresHaveCause`: ReadSpec => []FailsOnlyForCause;
* `RegisteredAtMostOnce`: ReadSpec => []RegisteredOnce.

Assumption: `ReadConstants`, with a finite set of readers. The inductive
invariant `ReadInv` adds which session each read refers to at each place
(`LinksOK`), that a free session is nobody's (`FreeOK`), that the session a read
makes to replace another is its own until registered (`NextOwned`), that one is
registered once and while it goes on (`RegisteredOnce`, `Tracked`), and for the
failures that a read is never before the start of its download's window
(`Anchored`) and a complete window is on disk (`WindowOnDisk`). `Unregister`
removes one occurrence; `RegisteredOnce` shows that this is `retain`.

`DownloaderProofs` proves for any window, chunk size, number of workers, retries,
heals and permits

* `BlocksFetchedOnce`: Spec => []EachBlockOnce;
* `OkIsComplete`: Spec => [](~ShortBodies => OkMeansComplete);
* `DownloaderIsATask`: Spec => ImplementsTask, the refinement of DownloadTask.

Assumption: `Constants`, with a finite, non-empty set of workers. The inductive
invariant `DownInv` has four parts: types; the missing blocks are divided among
the slices of the queue, the chunks of the workers and what is settled
(`PartInv`, with lemmas for cutting a slice, putting a rest back and settling);
what each place of a worker says about its chunk (`WorkInv`); and why a worker
may leave when it finds the queue empty (`LeaveInv`): whoever still has a chunk
takes back what it does not finish. The hypothesis of the second is the hazard
at `worker.rs` 281. The refinement needs one invariant more (`JoinedInv`): Ok is
returned after the last worker has left. After an error or an abort a worker may
still be in the poll in which it writes (`abort_all` does not wait, `worker.rs`
350-351): DownloadTask allows that write, ReadAt's `TaskWrite` leaves it out (it
only adds to the ranges). The refinement is proved and not a property of a run.

`ProcessProofs` proves of the library, for any torrents, selections, stride,
capacity of the channel and number of events

* `InodesNeverReused`: LibrarySpec => []InodeNeverMoves;
* `InodeMapsAgree`: LibrarySpec => []MapsAgree;
* `RemovedTorrentsPurged`: LibrarySpec => []DeadInodesPurged,

of the reads of the mount, for any file, buffer and request sizes and number of
reads

* `RepliesExact`: FuseSpec => []RepliesAreTheFile;
* `InterruptsFindTheirRead`: FuseSpec => []InterruptsHit,

and of the token pool, for any lists, callers, retries, resets and reloads

* `MarksHitTheirToken`: TokensSpec => []FlagsHaveCause;
* `NoTokenSkipped`: TokensSpec => []RotatesThroughPool;
* `RequestsBounded`: TokensSpec => []SendsBounded.

Assumptions: `InodeConstants`, `LibraryConstants`, `FuseReadConstants`,
`PoolConstants`. `LibraryInv`: an inode leads to the key it was made for, the one
that the cleanup task is purging is nobody's (`InodeInv`), only a round that is
notifying has a key in hand (`RoundInv`); what was handed out under an inode and
not forgotten is the selection of its key (`FilesKept`), and a number below the
stride takes apart into the inode and position it was made of (`FileNumbers`).
`FuseInv`: a running read has a number of its own, an interrupt under way is for a
read that was asked to stop (`InterruptsAsked`), a window holds the file's blocks from its start, and what a
read is going to fetch is enough for its reply. `TokenInv`: the slot that
`mark_exhausted` found holds its token while the list is the same (`MarkInv`); a
call that nothing disturbed has tried as many tokens as are flagged, its current
one not among them, unless all are (`TryInv`); requests sent and requests still
allowed add up to the bound (`SendInv`).

Only model-checked: liveness (`EveryReadReturns`, `Terminates`, `EndsClean`,
`UnderRepairEnds`, `ReadsReturn`, `CallsEnd`, `ReadsAnswered`,
`ChangesReachHook`), which is out of the prover's reach, and the refutations.

## Plan

Done: the cache (ByteRanges, CacheStore, ReadAt, Downloader), RepairCascade,
Preflight, TorrentRegistry, the token pool and its callers, reads of the mount, inode maps
and hook, with proofs of all their invariants. Next, in this order:

1. Entries with several Real-Debrid ids in TorrentRegistry.
2. An abstract specification of a repair (the torrent is on Real-Debrid or known
   to be broken) that RepairCascade and TorrentRegistry implement.

## Not modelled

CDN probing and URL rewriting (`rd/cdn/`), configuration parsing, SQL text and
schema migration, statistics counters and traffic reports, names, attributes and
pages of directory listings, the command line. Each is a single request, a pure
formatting function or wiring. The rate limiter and all back-offs are delays,
which the models leave out: they are the time between two steps.

Within the modelled code: `download_bearer` reads the list of tokens and the
index in one step, though a reload may come between the two loads; a new watch
channel starts with the state of that moment, though `subscribe_repair_state`
read it a little earlier (the wait for a repair then ends with its timeout); two
selected files with the same path would share a state in `file_states`; a blob
that was not written by `encode_ranges_blob` is not decoded. A file that TTL
cleanup unlinks while it is opened with another size is not met in the runs
(`RestoreMismatch`), only in the proofs.
