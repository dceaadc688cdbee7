------------------------------- MODULE ReadAt -------------------------------
(***************************************************************************)
(* `CacheItem::read_at` (cache/item_read_at.rs) with the download sessions *)
(* it shares (cache/download_session.rs): concurrent FUSE reads of one     *)
(* item, each waiting for its bytes, joining the session of another read   *)
(* or spawning one, and kicking a session that stalls.  The bytes are      *)
(* blocks; `run_downloader` is abstracted to a task that writes blocks of  *)
(* its window in some order and ends, well or not (module Downloader has   *)
(* its inside).                                                            *)
(***************************************************************************)
EXTENDS Integers, SequencesExt, FiniteSets

CONSTANTS
  ItemSize,   \* item.file_size, in blocks
  ReadSize,   \* the largest read, in blocks
  ReadAhead,  \* config.vfs.read_ahead, in blocks
  Readers,    \* concurrent calls of read_at
  Sessions,   \* identities of DownloadSession allocations, as numbers
  Failures,   \* may run_downloader end before its window is complete?
  Interrupts, \* may the kernel interrupt a read (fuse_ctx)?
  MaxReads    \* bound: how many reads the readers start together

ASSUME ReadConstants ==
  /\ ItemSize \in Nat \ {0} /\ ReadSize \in Nat \ {0} /\ ReadAhead \in Nat
  /\ Sessions \subseteq Nat \ {0} /\ MaxReads \in Nat
  /\ {Failures, Interrupts} \subseteq BOOLEAN
  /\ IsFiniteSet(Readers)

VARIABLES
  ranges,   \* item.ranges: the blocks on disk
  active,   \* item.active_workers: the registered sessions, oldest first
  sess,     \* [Sessions -> the session and its task]
  rd,       \* [Readers -> the state of the call]
  reads     \* reads started so far (bounded by MaxReads)

readVars == << ranges, active, sess, rd, reads >>

NoSession == 0
FreeSession == [anchor |-> 0, until |-> 0, waiters |-> 0, cancelled |-> FALSE,
                task |-> "free", complete |-> FALSE]
IdleRead == [pc |-> "idle", off |-> 0, end |-> 0, session |-> NoSession,
             next |-> NoSession, owner |-> FALSE, woken |-> FALSE]

Lesser(a, b) == IF a < b THEN a ELSE b

OnDisk(off, end) == off..(end - 1) \subseteq ranges

(* The readers that have a WaiterGuard on the session.                     *)
GuardPc == {"check", "sleep", "recheck", "push", "switch", "ok", "failed", "cancelled"}
Guards(s) == {r \in Readers : rd[r].session = s /\ rd[r].pc \in GuardPc}

(* The readers that still have something to do with the session.           *)
Users(s) == {r \in Readers : s \in {rd[r].session, rd[r].next}}

Unused == {s \in Sessions : sess[s].task = "free"}

(* A finished session that nobody refers to any more is freed.             *)
Collect(contents, act, calls) ==
  [s \in Sessions |->
     IF /\ contents[s].task = "done"
        /\ \A i \in 1..Len(act) : act[i] # s
        /\ \A r \in Readers : s \notin {calls[r].session, calls[r].next}
     THEN FreeSession ELSE contents[s]]

(* notify_waiters: every read that has created its `notified` is woken.    *)
Notified(calls) ==
  [r \in Readers |-> IF calls[r].pc = "sleep" THEN [calls[r] EXCEPT !.woken = TRUE]
                     ELSE calls[r]]

ReadInit ==
  /\ ranges = {}
  /\ active = <<>>
  /\ sess = [s \in Sessions |-> FreeSession]
  /\ rd = [r \in Readers |-> IdleRead]
  /\ reads = 0

-----------------------------------------------------------------------------
(* Names with a suffix are faulty variants of the definition they stand    *)
(* before; the project's mutation runs put them in its place.              *)
(* spawn_worker: the window is fixed here, the task is handed to the       *)
(* runtime and has not run yet.                                            *)
Spawned(off, end) ==
  [FreeSession EXCEPT !.anchor = off,
                      !.until = Lesser(end + ReadAhead, ItemSize),
                      !.task = "spawned"]

DropGuardTestsNewCount(s) ==
  [sess EXCEPT ![s].waiters = @ - 1,
               ![s].cancelled = IF sess[s].waiters = 0 THEN TRUE ELSE @]

(* WaiterGuard::drop: the last waiter cancels the session.                 *)
DropGuard(s) ==
  [sess EXCEPT ![s].waiters = @ - 1,
               ![s].cancelled = IF sess[s].waiters = 1 THEN TRUE ELSE @]

(* A read that finds its bytes in the cache returns at once; the others    *)
(* look for a session.                                                     *)
StartRead(r, off, size) ==
  LET end == Lesser(off + size, ItemSize)
  IN  /\ rd[r].pc = "idle" /\ reads < MaxReads
      /\ ~OnDisk(off, end)
      /\ rd' = [rd EXCEPT ![r] = [IdleRead EXCEPT !.pc = "join", !.off = off,
                                                  !.end = end]]
      /\ reads' = reads + 1
      /\ UNCHANGED << ranges, active, sess >>

Covers(s, off) == sess[s].anchor <= off /\ off < sess[s].until
Covering(off) == {i \in 1..Len(active) : Covers(active[i], off)}

(* Under the lock of active_workers: the first session that covers the     *)
(* offset...                                                               *)
JoinExisting(r) ==
  /\ rd[r].pc = "join" /\ Covering(rd[r].off) # {}
  /\ \E i \in Covering(rd[r].off) :
       /\ \A j \in Covering(rd[r].off) : i <= j
       /\ rd' = [rd EXCEPT ![r].session = active[i], ![r].pc = "guard"]
  /\ UNCHANGED << ranges, active, sess, reads >>

(* ... or a new one.                                                       *)
JoinSpawn(r) ==
  /\ rd[r].pc = "join" /\ Covering(rd[r].off) = {}
  /\ \E s \in Unused :
       /\ \A u \in Unused : s <= u
       /\ sess' = [sess EXCEPT ![s] = Spawned(rd[r].off, rd[r].end)]
       /\ active' = Append(active, s)
       /\ rd' = [rd EXCEPT ![r].session = s, ![r].owner = TRUE, ![r].pc = "guard"]
  /\ UNCHANGED << ranges, reads >>

(* WaiterGuard::new, after the lock is gone.                               *)
TakeGuard(r) ==
  /\ rd[r].pc = "guard"
  /\ sess' = [sess EXCEPT ![rd[r].session].waiters = @ + 1]
  /\ rd' = [rd EXCEPT ![r].pc = "check"]
  /\ UNCHANGED << ranges, active, reads >>

(* The top of the loop: the bytes are there, or `notified` is created.     *)
Check(r) ==
  /\ rd[r].pc = "check"
  /\ rd' = [rd EXCEPT ![r].pc = IF OnDisk(rd[r].off, rd[r].end) THEN "ok"
                                ELSE "sleep"]
  /\ UNCHANGED << ranges, active, sess, reads >>

(* A notification arrives, or the owner's second is over.                  *)
WakeUp(r) ==
  /\ rd[r].pc = "sleep" /\ (rd[r].woken \/ rd[r].owner)
  /\ rd' = [rd EXCEPT ![r].pc = "recheck", ![r].woken = FALSE]
  /\ UNCHANGED << ranges, active, sess, reads >>

(* The kicker: five seconds without a notification.  The session is        *)
(* cancelled and another one spawned...                                    *)
Kick(r) ==
  /\ rd[r].pc = "sleep" /\ ~rd[r].woken /\ ~rd[r].owner
  /\ \E s \in Unused :
       /\ \A u \in Unused : s <= u
       /\ sess' = [sess EXCEPT ![rd[r].session].cancelled = TRUE,
                               ![s] = Spawned(rd[r].off, rd[r].end)]
       /\ rd' = [rd EXCEPT ![r].next = s, ![r].pc = "push"]
  /\ UNCHANGED << ranges, active, reads >>

(* ... registered...                                                       *)
KickPush(r) ==
  /\ rd[r].pc = "push"
  /\ active' = Append(active, rd[r].next)
  /\ rd' = [rd EXCEPT ![r].pc = "switch"]
  /\ UNCHANGED << ranges, sess, reads >>

KickSwitchUncounted(r) ==
  LET old == rd[r].session  new == rd[r].next
  IN  /\ rd[r].pc = "switch"
      /\ rd' = [rd EXCEPT ![r].session = new, ![r].next = NoSession,
                          ![r].owner = TRUE, ![r].pc = "recheck"]
      /\ sess' = Collect(DropGuard(old), active, rd')
      /\ UNCHANGED << ranges, active, reads >>

(* ... and the guard moved to it.                                          *)
KickSwitch(r) ==
  LET old == rd[r].session  new == rd[r].next
  IN  /\ rd[r].pc = "switch"
      /\ rd' = [rd EXCEPT ![r].session = new, ![r].next = NoSession,
                          ![r].owner = TRUE, ![r].pc = "recheck"]
      /\ sess' = Collect([DropGuard(old) EXCEPT ![new].waiters = @ + 1], active, rd')
      /\ UNCHANGED << ranges, active, reads >>

Registered(s) == \E i \in 1..Len(active) : active[i] = s

RecheckIgnoresEnd(r) ==
  /\ rd[r].pc = "recheck"
  /\ rd' = [rd EXCEPT ![r].pc = IF OnDisk(rd[r].off, rd[r].end) THEN "ok"
                                ELSE IF ~rd[r].owner /\ ~Registered(rd[r].session)
                                     THEN "failed" ELSE "check"]
  /\ UNCHANGED << ranges, active, sess, reads >>

RecheckTestsTaskFirst(r) ==
  LET over == IF rd[r].owner THEN sess[rd[r].session].task = "done"
              ELSE ~Registered(rd[r].session)
  IN  /\ rd[r].pc = "recheck"
      /\ rd' = [rd EXCEPT ![r].pc = IF over THEN "failed"
                                    ELSE IF OnDisk(rd[r].off, rd[r].end) THEN "ok"
                                    ELSE "check"]
      /\ UNCHANGED << ranges, active, sess, reads >>

(* The bottom of the loop: done, given up because the task is finished     *)
(* (owner) or the session is not registered (the others), or again.        *)
Recheck(r) ==
  LET over == IF rd[r].owner THEN sess[rd[r].session].task = "done"
              ELSE ~Registered(rd[r].session)
  IN  /\ rd[r].pc = "recheck"
      /\ rd' = [rd EXCEPT ![r].pc = IF OnDisk(rd[r].off, rd[r].end) THEN "ok"
                                    ELSE IF over THEN "failed" ELSE "check"]
      /\ UNCHANGED << ranges, active, sess, reads >>

(* fuse_ctx is cancelled: the select drops the loop at its await.          *)
Interrupt(r) ==
  /\ Interrupts /\ rd[r].pc = "sleep"
  /\ rd' = [rd EXCEPT ![r].pc = "cancelled", ![r].woken = FALSE]
  /\ UNCHANGED << ranges, active, sess, reads >>

(* read_at returns and drops its guard.                                    *)
Return(r) ==
  /\ rd[r].pc \in {"ok", "failed", "cancelled"}
  /\ rd' = [rd EXCEPT ![r] = IdleRead]
  /\ sess' = Collect(DropGuard(rd[r].session), active, rd')
  /\ UNCHANGED << ranges, active, reads >>

-----------------------------------------------------------------------------
(* The spawned task.  Its WorkerGuard exists from its first poll on.       *)
TaskStart(s) ==
  /\ sess[s].task = "spawned" /\ ~sess[s].cancelled
  /\ sess' = [sess EXCEPT ![s].task = "running"]
  /\ UNCHANGED << ranges, active, rd, reads >>

(* write_range by one of its chunk workers; notifies the readers.          *)
TaskWrite(s, b) ==
  /\ sess[s].task = "running"
  /\ b \in (sess[s].anchor..(sess[s].until - 1)) \ ranges
  /\ ranges' = ranges \cup {b}
  /\ rd' = Notified(rd)
  /\ UNCHANGED << active, sess, reads >>

(* WorkerGuard::drop: unregisters the session, which `retain` finds at most*)
(* once, and notifies.                                                     *)
Unregister(s, complete) ==
  /\ \/ ~Registered(s) /\ active' = active
     \/ \E i \in 1..Len(active) : active[i] = s /\ active' = RemoveAt(active, i)
  /\ rd' = Notified(rd)
  /\ sess' = Collect([sess EXCEPT ![s].task = "done", ![s].complete = complete],
                     active', rd')
  /\ UNCHANGED << ranges, reads >>

(* run_downloader returns with its whole window on disk...                 *)
TaskComplete(s) ==
  /\ sess[s].task = "running"
  /\ sess[s].anchor..(sess[s].until - 1) \subseteq ranges
  /\ Unregister(s, TRUE)

(* ... with an error, or after a body that was too short...                *)
TaskFail(s) ==
  /\ Failures /\ sess[s].task = "running"
  /\ Unregister(s, FALSE)

(* ... or because it is cancelled and aborted.                             *)
TaskStop(s) ==
  /\ sess[s].task = "running" /\ sess[s].cancelled
  /\ Unregister(s, FALSE)

(* A task aborted before its first poll is dropped without ever having     *)
(* built its guard: nothing unregisters the session.                       *)
TaskDropUnpolled(s) ==
  /\ sess[s].task = "spawned" /\ sess[s].cancelled
  /\ sess' = Collect([sess EXCEPT ![s].task = "done"], active, rd)
  /\ UNCHANGED << ranges, active, rd, reads >>

-----------------------------------------------------------------------------
ReaderStep(r) ==
  \/ JoinExisting(r) \/ JoinSpawn(r) \/ TakeGuard(r) \/ Check(r)
  \/ WakeUp(r) \/ Kick(r) \/ KickPush(r) \/ KickSwitch(r) \/ Recheck(r) \/ Return(r)

TaskStep(s) ==
  \/ TaskStart(s) \/ TaskComplete(s) \/ TaskFail(s) \/ TaskStop(s) \/ TaskDropUnpolled(s)
  \/ \E b \in 0..(ItemSize - 1) : TaskWrite(s, b)

ReadNext ==
  \/ \E r \in Readers :
       \/ \E off \in 0..(ItemSize - 1), size \in 1..ReadSize : StartRead(r, off, size)
       \/ ReaderStep(r)
       \/ Interrupt(r)
  \/ \E s \in Sessions : TaskStep(s)

ReadSpec == ReadInit /\ [][ReadNext]_readVars

(* The runtime polls a ready future and fires an elapsed timer; a download *)
(* task ends, because every wait inside it has a timeout and its retries   *)
(* are bounded.  Nothing forces new reads or interrupts.                   *)
ReadFairness ==
  /\ \A r \in Readers : WF_readVars(ReaderStep(r))
  /\ \A s \in Sessions : WF_readVars(TaskStep(s))

-----------------------------------------------------------------------------
(* download_session.rs: the waiter count is exact through joins, kicks,    *)
(* interrupts and returns.  One too many and an abandoned download is never*)
(* stopped, one too few and a running one is.                              *)
WaitersExact ==
  \A s \in Sessions : sess[s].waiters = Cardinality(Guards(s))

(* No download goes on for nobody: a task that has not been told to stop   *)
(* always has a read that will, or that still wants it.                    *)
NoOrphanDownload ==
  \A s \in Sessions :
    sess[s].task \in {"spawned", "running"} /\ ~sess[s].cancelled => Users(s) # {}

(* No read hangs: whatever stalls, is aborted or stays registered by       *)
(* mistake, every read that starts returns.                                *)
EveryReadReturns ==
  \A r \in Readers : rd[r].pc = "join" ~> rd[r].pc = "idle"

(* A read fails only for a cause: the download it waited for is over, and  *)
(* it ended before its window was complete or the read reaches beyond that *)
(* window (a session is joined for the offset of a read, not for its end). *)
(* Blocks that arrive while the session ends are not overlooked.           *)
FailsOnlyForCause ==
  \A r \in Readers :
    rd[r].pc = "failed" =>
      /\ sess[rd[r].session].task = "done"
      /\ \/ ~sess[rd[r].session].complete
         \/ sess[rd[r].session].until < rd[r].end

=============================================================================
