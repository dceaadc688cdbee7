----------------------------- MODULE Downloader -----------------------------
(***************************************************************************)
(* `run_downloader` (cache/worker.rs) with link healing                    *)
(* (cache/link_heal.rs) and the free-space pause (cache/eviction.rs): the  *)
(* chunk workers of one download session share a queue of missing slices,  *)
(* an adaptive chunk size, the link-heal budget and its lock, and the      *)
(* connection permits.  Bytes are blocks.  A worker's step ends at each    *)
(* await and before each lock, where the others may run.                   *)
(***************************************************************************)
EXTENDS Integers, Sequences, FiniteSets

CONSTANTS
  Window,       \* target_end - start, in blocks; the session starts at 0
  BaseChunk,    \* base_chunk, in blocks
  MaxMult,      \* the cap of the shared multiplier: 16 in the code
  Workers,      \* max_parallel_streams chunk workers
  Permits,      \* connection_semaphore
  MaxRetries,   \* MAX_DOWNLOAD_RETRIES
  MaxHeals,     \* MAX_SESSION_LINK_HEALS
  ShortBodies,  \* may a response body end before its range does?
  Cancels,      \* may the session be cancelled?
  MaxPauses     \* bound: how often check_free_space flips the pause flag

ASSUME Constants ==
  /\ Window \in Nat /\ BaseChunk \in Nat \ {0} /\ MaxMult \in Nat \ {0}
  /\ Permits \in Nat \ {0} /\ MaxRetries \in Nat \ {0} /\ MaxHeals \in Nat
  /\ MaxPauses \in Nat /\ {ShortBodies, Cancels} \subseteq BOOLEAN
  /\ IsFiniteSet(Workers) /\ Workers # {}   \* max_parallel_streams.max(1)

VARIABLES
  have,       \* item.ranges
  queue,      \* missing slices << start, end >>
  mult,       \* shared_multiplier
  wk,         \* [Workers -> the local state of the worker]
  heals,      \* heal_remaining
  pause,      \* the watch channel pause_downloads: value and version
  cancelled,  \* the session's CancellationToken
  run,        \* run_downloader itself
  wanted,     \* history: the blocks missing when the run began
  settled     \* history: the blocks of the chunks that ended without error

vars == << have, queue, mult, wk, heals, pause, cancelled, run, wanted, settled >>

Blocks == 0..(Window - 1)
Span(s) == s[1]..(s[2] - 1)

Idle == [pc |-> "top", chunk |-> << 0, 0 >>, pos |-> 0, retries |-> 0, seen |-> 0]

(* A permit is held from its acquisition to the end of the iteration, over *)
(* link healing and back-off too.                                          *)
HoldsPermit(w) == wk[w].pc \in {"headers", "heal", "healing", "body", "backoff"}

AwaitPc == {"paused", "try", "headers", "heal", "healing", "body", "backoff"}
EndPc == {"ok", "err", "gone"}

SmallerOf(a, b) == IF a < b THEN a ELSE b

(* The `while` loop over find_missing: the gaps of the window, in order.   *)
MissingSlices(disk) ==
  LET edges == {b \in Blocks \ disk : b = 0 \/ b - 1 \in disk}
      GapEnd(b) == CHOOSE e \in (b + 1)..Window :
                     /\ Span(<< b, e >>) \cap disk = {}
                     /\ e = Window \/ e \in disk
      Nth(n) == CHOOSE b \in edges : Cardinality({c \in edges : c < b}) = n - 1
  IN  [n \in 1..Cardinality(edges) |-> << Nth(n), GapEnd(Nth(n)) >>]

Init ==
  /\ have \in SUBSET Blocks
  /\ queue = <<>> /\ mult = 1
  /\ wk = [w \in Workers |-> Idle]
  /\ heals = MaxHeals
  /\ pause \in [value : BOOLEAN, version : {0}]
  /\ cancelled = FALSE
  /\ run = "init"
  /\ wanted = {} /\ settled = {}

-----------------------------------------------------------------------------
Start ==
  /\ run = "init"
  /\ queue' = MissingSlices(have)
  /\ run' = IF Blocks \subseteq have THEN "ok" ELSE "running"
  /\ wk' = [w \in Workers |-> [Idle EXCEPT !.pc = IF Blocks \subseteq have
                                                  THEN "ok" ELSE "top"]]
  /\ wanted' = Blocks \ have
  /\ UNCHANGED << have, mult, heals, pause, cancelled, settled >>

Goto(w, pc) == wk' = [wk EXCEPT ![w].pc = pc]

(* The top of the chunk loop.                                              *)
TopCancelled(w) ==
  /\ run # "init" /\ wk[w].pc = "top" /\ cancelled
  /\ Goto(w, "ok")
  /\ UNCHANGED << have, queue, mult, heals, pause, cancelled, run, wanted, settled >>

TopGo(w) ==
  /\ run # "init" /\ wk[w].pc = "top" /\ ~cancelled
  /\ Goto(w, IF pause.value THEN "paused" ELSE "pop")
  /\ UNCHANGED << have, queue, mult, heals, pause, cancelled, run, wanted, settled >>

(* `changed()` returns when the channel has a version this receiver has    *)
(* not seen, whatever the value is by then.                                *)
PauseChanged(w) ==
  /\ wk[w].pc = "paused" /\ wk[w].seen # pause.version
  /\ wk' = [wk EXCEPT ![w].seen = pause.version, ![w].pc = "pop"]
  /\ UNCHANGED << have, queue, mult, heals, pause, cancelled, run, wanted, settled >>

(* Under the queue lock: cut a chunk off the first slice.                  *)
TakeChunk(w) ==
  LET slice == Head(queue)
      end   == slice[1] + SmallerOf(BaseChunk * mult, slice[2] - slice[1])
  IN  /\ wk[w].pc = "pop" /\ queue # <<>>
      /\ queue' = IF end < slice[2] THEN << << end, slice[2] >> >> \o Tail(queue)
                  ELSE Tail(queue)
      /\ wk' = [wk EXCEPT ![w].chunk = << slice[1], end >>, ![w].retries = 0,
                          ![w].pc = "try"]
      /\ UNCHANGED << have, mult, heals, pause, cancelled, run, wanted, settled >>

QueueEmpty(w) ==
  /\ wk[w].pc = "pop" /\ queue = <<>>
  /\ Goto(w, "ok")
  /\ UNCHANGED << have, queue, mult, heals, pause, cancelled, run, wanted, settled >>

-----------------------------------------------------------------------------
(* The retry loop.                                                         *)
AcquirePermit(w) ==
  /\ wk[w].pc = "try"
  /\ Cardinality({v \in Workers : HoldsPermit(v)}) < Permits
  /\ Goto(w, "headers")
  /\ UNCHANGED << have, queue, mult, heals, pause, cancelled, run, wanted, settled >>

RetryForgetsCut(w, next) ==
  LET c == wk[w].chunk
      n == wk[w].retries + 1
  IN  IF n >= MaxRetries
      THEN Goto(w, "err") /\ UNCHANGED << queue, mult >>
      ELSE /\ mult' = 1
           /\ queue' = IF c[2] - c[1] > BaseChunk
                       THEN << << c[1] + BaseChunk, c[2] >> >> \o queue ELSE queue
           /\ wk' = [wk EXCEPT ![w].retries = n, ![w].pc = next]

(* A failed attempt: give up at the limit; else the multiplier falls back  *)
(* to 1 for all workers and what exceeds one base chunk goes back to the   *)
(* queue.  (Names with a suffix, as RetryForgetsCut above, are faulty      *)
(* variants of the definition they stand before; the project's mutation    *)
(* runs put them in its place.)                                            *)
Retry(w, next) ==
  LET c   == wk[w].chunk
      n   == wk[w].retries + 1
      cut == c[1] + BaseChunk
  IN  IF n >= MaxRetries
      THEN Goto(w, "err") /\ UNCHANGED << queue, mult >>
      ELSE /\ mult' = 1
           /\ queue' = IF cut < c[2] THEN << << cut, c[2] >> >> \o queue ELSE queue
           /\ wk' = [wk EXCEPT ![w].chunk = << c[1], SmallerOf(cut, c[2]) >>,
                               ![w].retries = n, ![w].pc = next]

(* No headers for NO_PROGRESS_TIMEOUT, or an error that a fresh link will  *)
(* not cure.                                                               *)
HeadersFail(w) ==
  /\ wk[w].pc = "headers"
  /\ Retry(w, "try")
  /\ UNCHANGED << have, heals, pause, cancelled, run, wanted, settled >>

(* should_refresh_via_unrestrict: wait for the refresh lock.               *)
LinkExpired(w) ==
  /\ wk[w].pc = "headers"
  /\ Goto(w, "heal")
  /\ UNCHANGED << have, queue, mult, heals, pause, cancelled, run, wanted, settled >>

HealLock(w) ==
  /\ wk[w].pc = "heal" /\ \A v \in Workers : wk[v].pc # "healing"
  /\ Goto(w, "healing")
  /\ UNCHANGED << have, queue, mult, heals, pause, cancelled, run, wanted, settled >>

(* The budget is spent, or unrestrict fails: an ordinary retry.            *)
HealFails(w) ==
  /\ wk[w].pc = "healing"
  /\ Retry(w, "try")
  /\ UNCHANGED << have, heals, pause, cancelled, run, wanted, settled >>

HealSucceedsFree(w) ==
  /\ wk[w].pc = "healing" /\ heals > 0
  /\ wk' = [wk EXCEPT ![w].retries = 0, ![w].pc = "try"]
  /\ UNCHANGED << have, queue, mult, heals, pause, cancelled, run, wanted, settled >>

(* A fresh URL: the retry counter starts again, the budget shrinks.        *)
HealSucceeds(w) ==
  /\ wk[w].pc = "healing" /\ heals > 0
  /\ heals' = heals - 1
  /\ wk' = [wk EXCEPT ![w].retries = 0, ![w].pc = "try"]
  /\ UNCHANGED << have, queue, mult, pause, cancelled, run, wanted, settled >>

HeadersOk(w) ==
  /\ wk[w].pc = "headers"
  /\ wk' = [wk EXCEPT ![w].pc = "body", ![w].pos = wk[w].chunk[1]]
  /\ UNCHANGED << have, queue, mult, heals, pause, cancelled, run, wanted, settled >>

(* write_range of the next block of the body.                              *)
BodyData(w) ==
  /\ wk[w].pc = "body" /\ wk[w].pos < wk[w].chunk[2]
  /\ have' = have \cup {wk[w].pos}
  /\ wk' = [wk EXCEPT ![w].pos = @ + 1]
  /\ UNCHANGED << queue, mult, heals, pause, cancelled, run, wanted, settled >>

(* The body ends: the chunk counts as downloaded, however long it was.     *)
BodyEof(w) ==
  /\ wk[w].pc = "body" /\ (ShortBodies \/ wk[w].pos = wk[w].chunk[2])
  /\ mult' = SmallerOf(2 * mult, MaxMult)
  /\ settled' = settled \cup Span(wk[w].chunk)
  /\ wk' = [wk EXCEPT ![w] = [Idle EXCEPT !.seen = wk[w].seen]]
  /\ UNCHANGED << have, queue, heals, pause, cancelled, run, wanted >>

(* The body breaks off or stalls, or the block cannot be written.          *)
BodyFails(w) ==
  /\ wk[w].pc = "body"
  /\ Retry(w, "backoff")
  /\ UNCHANGED << have, heals, pause, cancelled, run, wanted, settled >>

BackoffOver(w) ==
  /\ wk[w].pc = "backoff"
  /\ Goto(w, "try")
  /\ UNCHANGED << have, queue, mult, heals, pause, cancelled, run, wanted, settled >>

(* Every await selects on the token, except those of link healing.         *)
SeesCancel(w) ==
  /\ cancelled /\ wk[w].pc \in AwaitPc \ {"heal", "healing"}
  /\ Goto(w, "ok")
  /\ UNCHANGED << have, queue, mult, heals, pause, cancelled, run, wanted, settled >>

-----------------------------------------------------------------------------
(* run_downloader joins its workers: the first error ends it and aborts    *)
(* the others at their next await.                                         *)
JoinFirst ==
  /\ run = "running" /\ \E w \in Workers : wk[w].pc = "ok"
  /\ run' = "ok"
  /\ UNCHANGED << have, queue, mult, wk, heals, pause, cancelled, wanted, settled >>

JoinAll ==
  /\ run = "running" /\ \A w \in Workers : wk[w].pc = "ok"
  /\ run' = "ok"
  /\ UNCHANGED << have, queue, mult, wk, heals, pause, cancelled, wanted, settled >>

JoinError ==
  /\ run = "running" /\ \E w \in Workers : wk[w].pc = "err"
  /\ run' = "err"
  /\ UNCHANGED << have, queue, mult, wk, heals, pause, cancelled, wanted, settled >>

(* DownloadSession::cancel: the token, then the task's abort handle.       *)
Cancel ==
  /\ Cancels /\ ~cancelled /\ run \in {"init", "running"}
  /\ cancelled' = TRUE
  /\ UNCHANGED << have, queue, mult, wk, heals, pause, run, wanted, settled >>

AbortRun ==
  /\ cancelled /\ run = "running"
  /\ run' = "aborted"
  /\ UNCHANGED << have, queue, mult, wk, heals, pause, cancelled, wanted, settled >>

AbortWorker(w) ==
  /\ run \in {"err", "aborted"} /\ wk[w].pc \in AwaitPc
  /\ Goto(w, "gone")
  /\ UNCHANGED << have, queue, mult, heals, pause, cancelled, run, wanted, settled >>

(* check_free_space: sends only when the flag has to change.               *)
CheckFreeSpace ==
  /\ run \in {"init", "running"} /\ pause.version < MaxPauses
  /\ pause' = [value |-> ~pause.value, version |-> pause.version + 1]
  /\ UNCHANGED << have, queue, mult, wk, heals, cancelled, run, wanted, settled >>

WorkerStep(w) ==
  \/ TopCancelled(w) \/ TopGo(w) \/ PauseChanged(w) \/ TakeChunk(w) \/ QueueEmpty(w)
  \/ AcquirePermit(w) \/ HeadersFail(w) \/ LinkExpired(w) \/ HealLock(w)
  \/ HealFails(w) \/ HealSucceeds(w) \/ HeadersOk(w)
  \/ BodyData(w) \/ BodyEof(w) \/ BodyFails(w) \/ BackoffOver(w)
  \/ SeesCancel(w) \/ AbortWorker(w)

Next ==
  \/ Start \/ JoinAll \/ JoinError \/ Cancel \/ AbortRun \/ CheckFreeSpace
  \/ \E w \in Workers : WorkerStep(w)

Spec == Init /\ [][Next]_vars

(* The runtime polls what is ready, every wait of a worker ends in a       *)
(* timeout if in nothing else, and RD answers an unrestrict call in the    *)
(* end.  Nothing forces a cancellation or a free-space check.              *)
Fairness ==
  /\ WF_vars(Start) /\ WF_vars(JoinAll) /\ WF_vars(JoinError) /\ WF_vars(AbortRun)
  /\ \A w \in Workers : WF_vars(WorkerStep(w))

FairSpec == Spec /\ Fairness

-----------------------------------------------------------------------------
(* How many hands a block is in: slices of the queue, chunks of workers,   *)
(* chunks that are over.                                                   *)
Hands(b) ==
  Cardinality({i \in 1..Len(queue) : b \in Span(queue[i])})
    + Cardinality({w \in Workers : b \in Span(wk[w].chunk)})
    + (IF b \in settled THEN 1 ELSE 0)

(* Slices are cut into chunks, chunks shrink and their rest goes back, all *)
(* by workers that run at once: every missing block is nevertheless in     *)
(* exactly one place, and no block on disk is fetched again.  A block in   *)
(* no place is never downloaded, one in two is downloaded twice.           *)
EachBlockOnce ==
  run # "init" => \A b \in Blocks : Hands(b) = IF b \in wanted THEN 1 ELSE 0

(* run_downloader returns Ok to a session nobody cancelled only when the   *)
(* whole window is on disk, although a worker leaves as soon as it finds   *)
(* the queue empty and another one may put a slice back after that.        *)
(* (Without ShortBodies; with them it does not hold, and worker.rs says    *)
(* "chunk downloaded successfully".)                                       *)
OkMeansComplete ==
  run = "ok" /\ ~cancelled => Blocks \subseteq have

(* The session ends, and no worker outlives it: retries are bounded for a  *)
(* chunk, healing a link starts the count again but only as often as the   *)
(* budget allows, permits and the refresh lock are given back on every     *)
(* path.  Only a pause that is never lifted may hold it up.                *)
Terminates ==
  <>[](~pause.value) => <>(/\ run \in {"ok", "err", "aborted"}
                           /\ \A w \in Workers : wk[w].pc \in EndPc)

Task == INSTANCE DownloadTask
          WITH task <- IF run \in {"init", "running"} THEN "running" ELSE run

(* Seen from outside, slices, chunks, retries, heals, permits and pauses   *)
(* are a task that writes blocks of its window and ends: what the reads of *)
(* ReadAt know of it.                                                      *)
ImplementsTask == Task!Spec
=============================================================================
