---------------------------- MODULE MCCacheStore ----------------------------
(* CacheStore for TLC: the settings its runs start in.  Readers and workers*)
(* are interchangeable.                                                    *)
EXTENDS CacheStore, TLC

(* One read and its worker, and everything that can happen to them: TTL,   *)
(* LRU, invalidation, failing calls, kills.                                *)
Everything ==
  [reads |-> 1, sizes |-> {1}, maxAge |-> 1, maxSize |-> 1,
   stalls |-> TRUE, fatal |-> TRUE, faults |-> TRUE, crashes |-> TRUE]

(* A file that changes size between opens and restarts.                    *)
Resized ==
  [reads |-> 1, sizes |-> {1, 2}, maxAge |-> 0, maxSize |-> 0,
   stalls |-> TRUE, fatal |-> FALSE, faults |-> FALSE, crashes |-> TRUE]

(* Two reads share an item while the eviction pass runs and calls fail.    *)
Shared ==
  [reads |-> 2, sizes |-> {1}, maxAge |-> 0, maxSize |-> 0,
   stalls |-> FALSE, fatal |-> FALSE, faults |-> TRUE, crashes |-> FALSE]

(* A read invalidates the item it holds; nothing else goes wrong.          *)
Invalidated ==
  [reads |-> 1, sizes |-> {1}, maxAge |-> 0, maxSize |-> 0,
   stalls |-> FALSE, fatal |-> TRUE, faults |-> FALSE, crashes |-> FALSE]

MCSettings == {Everything, Resized, Shared}
MCInvalidated == {Invalidated}
Symmetry == Permutations(Readers) \cup Permutations(Workers)
=============================================================================
