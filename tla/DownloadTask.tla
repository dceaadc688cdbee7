---------------------------- MODULE DownloadTask ----------------------------
(***************************************************************************)
(* What the task of a download session (`run_downloader`, cache/worker.rs) *)
(* promises the reads that wait for it: it writes blocks of its window and *)
(* nothing else, it returns Ok to a session that nobody cancelled with the *)
(* whole window on disk, and after Ok it writes no more.  After an error   *)
(* or an abort a chunk worker may still be in the poll in which it writes. *)
(***************************************************************************)
EXTENDS Integers

CONSTANTS
  Window,       \* the window of the session, in blocks
  ShortBodies   \* may a response body end before its range does?

VARIABLES
  have,         \* the blocks on disk
  cancelled,    \* the session's CancellationToken
  task          \* "running", or how the task ended: "ok", "err", "aborted"

Blocks == 0..(Window - 1)

Init == have \in SUBSET Blocks /\ cancelled = FALSE /\ task = "running"

Write(b) ==
  /\ task # "ok"
  /\ have' = have \cup {b}
  /\ UNCHANGED << cancelled, task >>

Cancel ==
  /\ task = "running" /\ ~cancelled
  /\ cancelled' = TRUE
  /\ UNCHANGED << have, task >>

Succeed ==
  /\ task = "running"
  /\ cancelled \/ ShortBodies \/ Blocks \subseteq have
  /\ task' = "ok"
  /\ UNCHANGED << have, cancelled >>

Fail ==
  /\ task = "running"
  /\ task' = "err"
  /\ UNCHANGED << have, cancelled >>

Abort ==
  /\ task = "running" /\ cancelled
  /\ task' = "aborted"
  /\ UNCHANGED << have, cancelled >>

Next == Cancel \/ Succeed \/ Fail \/ Abort \/ \E b \in Blocks : Write(b)

Spec == Init /\ [][Next]_<< have, cancelled, task >>
=============================================================================
