------------------------------ MODULE FuseRead ------------------------------
(***************************************************************************)
(* `read` of the mount (fuse/read.rs) with the file handles and their      *)
(* read-ahead buffers (fuse/open_file.rs, fuse/vfs_read_buffer.rs) and the *)
(* registration that lets the kernel interrupt a read                      *)
(* (fuse/read_cancel_bridge.rs, `open`, `release`, `interrupt` and `read`  *)
(* of fuse/fs.rs).  The vendored fuse3 runs every request, an interrupt    *)
(* too, as a task of its own (handle_read and handle_interrupt of          *)
(* raw/session.rs): the order in which the kernel sends them is lost.      *)
(*                                                                         *)
(* One file of FileSize blocks.  unrestrict_link, read_at and the repair   *)
(* are their outcomes here: TokenPool, ReadAt and TorrentRegistry model    *)
(* them.  The bytes of block b are the number b, so that data is the list  *)
(* of the blocks it was taken from.                                        *)
(***************************************************************************)
EXTENDS Integers, Sequences

CONSTANTS
  FuseReads,     \* requests in flight
  NoFuseRead,
  Uniques,       \* the kernel's request numbers
  MaxHandles,    \* bound: handles opened
  BlocksInFile,  \* file.bytes
  BufferSize,    \* vfs.buffer_size
  ReadRetries,   \* MAX_RETRIES
  Kernels        \* what the kernel may do: [asks, interrupts, releases]

ASSUME FuseReadConstants ==
  /\ NoFuseRead \notin FuseReads
  /\ MaxHandles \in Nat /\ ReadRetries \in Nat
  /\ BlocksInFile \in Nat \ {0} /\ BufferSize \in Nat \ {0}
  /\ \A k \in Kernels : /\ k.asks \subseteq Nat \X (Nat \ {0})   \* offsets and sizes
                         /\ k.interrupts \in Nat                 \* bound
                         /\ k.releases \in BOOLEAN

Handles == 1..MaxHandles

VARIABLES
  kernel,     \* the member of Kernels in this process
  nextFh,     \* next_fh
  openFiles,  \* open_files: the handles in it
  buffers,    \* [Handles -> VfsReadBuffer]
  released,   \* handles whose token is cancelled
  kernelPending, \* pending_fuse_reads: [Uniques -> the read whose token it is]
  reads,      \* [FuseReads -> the read in progress]
  interrupting,  \* numbers for which an `interrupt` task is spawned and has not run
  interrupts

fuseVars == << kernel, nextFh, openFiles, buffers, released, kernelPending, reads, interrupting,
               interrupts >>

NoBuffer == [start |-> 0, data |-> << >>]

(* linked: the handle's token is bridged to the read's own.  History:      *)
(* asked: the kernel has interrupted this read; early: `interrupt` ran     *)
(* before this read was registered.                                        *)
IdleRead == [pc |-> "idle", unique |-> 0, fh |-> 0, offset |-> 0, size |-> 0, linked |-> FALSE,
             cancelled |-> FALSE, asked |-> FALSE, early |-> FALSE, waited |-> FALSE, attempt |-> 0,
             fill |-> 0, take |-> 0, res |-> "none", data |-> << >>]

FuseInit ==
  /\ kernel \in Kernels /\ nextFh = 1 /\ openFiles = {} /\ released = {}
  /\ buffers = [h \in Handles |-> NoBuffer]
  /\ kernelPending = [u \in Uniques |-> NoFuseRead]
  /\ reads = [r \in FuseReads |-> IdleRead] /\ interrupting = {} /\ interrupts = 0

InFlight == {r \in FuseReads : reads[r].pc # "idle"}
SetRead(r, new) == reads' = [reads EXCEPT ![r] = new]

(* The end of `read`: its locals are gone, the request and the answer stay.*)
Answer(p, res, data) == [p EXCEPT !.pc = "drop", !.res = res, !.data = data, !.waited = FALSE,
                                  !.attempt = 0, !.fill = 0, !.take = 0]
Finish(r, res) == SetRead(r, Answer(reads[r], res, << >>))

-----------------------------------------------------------------------------
(* VfsReadBuffer.                                                          *)
LeastOf(m, n) == IF m <= n THEN m ELSE n
GreatestOf(m, n) == IF m >= n THEN m ELSE n
Blocks(from, n) == [i \in 1..n |-> from + i - 1]

NeedLen(offset, size) == GreatestOf(LeastOf(offset + size, BlocksInFile) - offset, 0)
FillLen(offset, need) == LeastOf(BlocksInFile - offset, GreatestOf(BufferSize, need))

ServesAnyOffset(buf, offset, need) == Len(buf.data) >= need

(* prepare_read answers from a window that begins at the offset and is     *)
(* long enough, and forgets any other.                                     *)
Serves(buf, offset, need) == buf.start = offset /\ Len(buf.data) >= need
Consume(buf, need) == [start |-> buf.start + need, data |-> SubSeq(buf.data, need + 1, Len(buf.data))]

(* after_fetch keeps what was read ahead.                                  *)
AfterFetch(filled, offset, take) ==
  [start |-> offset + take, data |-> SubSeq(filled, take + 1, Len(filled))]

-----------------------------------------------------------------------------
(* The handles and the interrupts.                                         *)
OpenHandle ==
  /\ nextFh <= MaxHandles
  /\ nextFh' = nextFh + 1 /\ openFiles' = openFiles \cup {nextFh}
  /\ UNCHANGED << buffers, released, kernelPending, reads, interrupting, interrupts >>

ReleaseHandle(h) ==
  /\ h \in openFiles /\ kernel.releases
  /\ openFiles' = openFiles \ {h} /\ released' = released \cup {h}
  /\ UNCHANGED << nextFh, buffers, kernelPending, reads, interrupting, interrupts >>

(* The kernel's numbers count up: a new request has a number that neither  *)
(* a request in flight nor an interrupt on its way has.  The least of them *)
(* stands for it, since whoever had it before is forgotten.                *)
FreeUniques == Uniques \ (interrupting \cup {reads[r].unique : r \in InFlight})

(* The kernel sends a read, and handle_read spawns its task.               *)
ReadRequested(r, u, h, offset, size) ==
  /\ r \notin InFlight /\ u \in FreeUniques /\ \A v \in FreeUniques : u <= v
  /\ h < nextFh
  /\ SetRead(r, [IdleRead EXCEPT !.pc = "sent", !.unique = u, !.fh = h, !.offset = offset,
                                 !.size = size])
  /\ UNCHANGED << nextFh, openFiles, buffers, released, kernelPending, interrupting, interrupts >>

(* `read` of fs.rs: the handle's token, if it is still open, and the       *)
(* registration of this request.                                           *)
ReadBegins(r) ==
  /\ reads[r].pc = "sent"
  /\ kernelPending' = [kernelPending EXCEPT ![reads[r].unique] = r]
  /\ SetRead(r, [reads[r] EXCEPT !.pc = "info", !.linked = reads[r].fh \in openFiles])
  /\ UNCHANGED << nextFh, openFiles, buffers, released, interrupting, interrupts >>

(* The bridge task: the handle was released.  The end of `read` aborts it. *)
BridgeCancels(r) ==
  /\ reads[r].pc \notin {"idle", "reply"} /\ reads[r].linked /\ reads[r].fh \in released /\ ~reads[r].cancelled
  /\ SetRead(r, [reads[r] EXCEPT !.cancelled = TRUE])
  /\ UNCHANGED << nextFh, openFiles, buffers, released, kernelPending, interrupting, interrupts >>

(* The kernel interrupts a read, and handle_interrupt spawns a task ...    *)
Interrupt(r) ==
  /\ r \in InFlight /\ ~reads[r].asked
  /\ interrupts < kernel.interrupts /\ interrupts' = interrupts + 1
  /\ SetRead(r, [reads[r] EXCEPT !.asked = TRUE])
  /\ interrupting' = interrupting \cup {reads[r].unique}
  /\ UNCHANGED << nextFh, openFiles, buffers, released, kernelPending >>

(* ... in which `interrupt` cancels the token it finds under the number:   *)
(* none, if the task of the read has not yet come to its registration.     *)
InterruptRuns(u) ==
  /\ u \in interrupting /\ interrupting' = interrupting \ {u}
  /\ reads' = [q \in FuseReads |->
                 [reads[q] EXCEPT !.cancelled = @ \/ q = kernelPending[u],
                                  !.early = @ \/ (reads[q].pc = "sent" /\ reads[q].unique = u)]]
  /\ kernelPending' = [kernelPending EXCEPT ![u] = NoFuseRead]
  /\ UNCHANGED << nextFh, openFiles, buffers, released, interrupts >>

-----------------------------------------------------------------------------
(* `read` of read.rs.                                                      *)
ReadUnchanged == UNCHANGED << nextFh, openFiles, buffers, released, kernelPending, interrupting, interrupts >>

(* The inode, the torrent's info, the file or its link is missing, or the  *)
(* cache item cannot be made.                                              *)
ReadRefused(r) ==
  /\ reads[r].pc = "info"
  /\ Finish(r, "ENOENT") \/ Finish(r, "EIO")
  /\ ReadUnchanged

AwaitRepairAgain(r) ==
  SetRead(r, IF reads[r].waited THEN Answer(reads[r], "ENOENT", << >>)
             ELSE [reads[r] EXCEPT !.pc = "repair", !.attempt = 0, !.fill = 0, !.take = 0])

(* A broken file is waited for once.                                       *)
AwaitRepair(r) ==
  SetRead(r, IF reads[r].waited THEN Answer(reads[r], "ENOENT", << >>)
             ELSE [reads[r] EXCEPT !.pc = "repair", !.waited = TRUE, !.attempt = 0,
                                           !.fill = 0, !.take = 0])

FileBroken(r) ==
  /\ reads[r].pc = "info" /\ AwaitRepair(r) /\ ReadUnchanged

(* wait_for_repair_ok: the repair, or the timeout or a cancellation.       *)
RepairEnds(r) ==
  /\ reads[r].pc = "repair"
  /\ \/ SetRead(r, [reads[r] EXCEPT !.pc = "info"])
     \/ Finish(r, "ENOENT")
  /\ ReadUnchanged

(* The buffer of the handle, under its lock, which is given back before    *)
(* the fetch; a read whose handle is gone goes without one.                *)
ReadPrepares(r) ==
  LET p == reads[r]
      need == NeedLen(p.offset, p.size)
      buf == buffers[p.fh]
  IN  /\ p.pc = "info"
      /\ CASE p.fh \notin openFiles ->
                /\ SetRead(r, [p EXCEPT !.pc = "link", !.attempt = 0, !.fill = p.size, !.take = 0])
                /\ UNCHANGED buffers
           [] p.fh \in openFiles /\ need = 0 ->
                Finish(r, "ok") /\ UNCHANGED buffers
           [] p.fh \in openFiles /\ need > 0 /\ Serves(buf, p.offset, need) ->
                /\ SetRead(r, Answer(p, "ok", SubSeq(buf.data, 1, need)))
                /\ buffers' = [buffers EXCEPT ![p.fh] = Consume(buf, need)]
           [] OTHER ->
                /\ SetRead(r, [p EXCEPT !.pc = "link", !.attempt = 0, !.take = need,
                                        !.fill = FillLen(p.offset, need)])
                /\ buffers' = [buffers EXCEPT ![p.fh] = NoBuffer]
      /\ UNCHANGED << nextFh, openFiles, released, kernelPending, interrupting, interrupts >>

(* The next attempt, or EIO after the last.                                *)
Attempt(r) ==
  SetRead(r, IF reads[r].attempt < ReadRetries
             THEN [reads[r] EXCEPT !.pc = "link", !.attempt = @ + 1]
             ELSE Answer(reads[r], "EIO", << >>))

(* unrestrict_link: a link, an error to retry, a fatal error or the link   *)
(* of another file.                                                        *)
Unrestricts(r) ==
  /\ reads[r].pc = "link"
  /\ \/ SetRead(r, [reads[r] EXCEPT !.pc = "fetch"])
     \/ Attempt(r)
     \/ AwaitRepair(r)
  /\ ReadUnchanged

(* read_at: the blocks up to the end of the file; the reply is cut from    *)
(* them and the rest replaces the window.  `take` is 0 without a buffer.   *)
FetchOk(r) ==
  LET p == reads[r]
      filled == Blocks(p.offset, NeedLen(p.offset, p.fill))
  IN  /\ p.pc = "fetch"
      /\ IF p.take = 0
           THEN /\ SetRead(r, Answer(p, "ok", filled))
                /\ UNCHANGED buffers
           ELSE /\ SetRead(r, Answer(p, "ok", SubSeq(filled, 1, p.take)))
                /\ buffers' = [buffers EXCEPT ![p.fh] = AfterFetch(filled, p.offset, p.take)]
      /\ UNCHANGED << nextFh, openFiles, released, kernelPending, interrupting, interrupts >>

FetchFails(r) ==
  /\ reads[r].pc = "fetch"
  /\ \/ Attempt(r)
     \/ Finish(r, "EIO")
     \/ reads[r].cancelled /\ Finish(r, "EINTR")
  /\ ReadUnchanged

DropRegistrationForgotten(r) ==
  /\ reads[r].pc = "drop"
  /\ SetRead(r, [reads[r] EXCEPT !.pc = "reply"])
  /\ ReadUnchanged

(* The registration is dropped when `read` returns ...                     *)
DropRegistration(r) ==
  /\ reads[r].pc = "drop"
  /\ kernelPending' = [kernelPending EXCEPT ![reads[r].unique] = NoFuseRead]
  /\ SetRead(r, [reads[r] EXCEPT !.pc = "reply"])
  /\ UNCHANGED << nextFh, openFiles, buffers, released, interrupting, interrupts >>

(* ... and then handle_read sends the answer.                              *)
Reply(r) ==
  /\ reads[r].pc = "reply"
  /\ SetRead(r, IdleRead)
  /\ ReadUnchanged

ReadStep(r) ==
  \/ ReadBegins(r)
  \/ ReadRefused(r) \/ FileBroken(r) \/ RepairEnds(r) \/ ReadPrepares(r)
  \/ Unrestricts(r) \/ FetchOk(r) \/ FetchFails(r)
  \/ DropRegistration(r) \/ Reply(r)

KernelStep ==
  \/ OpenHandle
  \/ \E h \in Handles : ReleaseHandle(h)
  \/ \E r \in FuseReads : Interrupt(r)
  \/ \E r \in FuseReads, u \in Uniques, h \in Handles, ask \in kernel.asks :
       ReadRequested(r, u, h, ask[1], ask[2])

FuseNext ==
  /\ \/ KernelStep
     \/ \E r \in FuseReads : ReadStep(r) \/ BridgeCancels(r)
     \/ \E u \in Uniques : InterruptRuns(u)
  /\ UNCHANGED kernel

FuseFairness == \A r \in FuseReads : WF_fuseVars(ReadStep(r) /\ UNCHANGED kernel)

FuseSpec == FuseInit /\ [][FuseNext]_fuseVars /\ FuseFairness

-----------------------------------------------------------------------------
(* A read gets the bytes of the file at its own offset, as many as asked   *)
(* for or up to the end, although another read of the same handle empties, *)
(* fills or consumes the buffer while this one waits for its link or its   *)
(* download, without holding the buffer's lock.                            *)
RepliesAreTheFile ==
  \A r \in FuseReads :
    reads[r].res = "ok" =>
      reads[r].data = Blocks(reads[r].offset, NeedLen(reads[r].offset, reads[r].size))

(* An interrupt hits the read it is for and no other, although the tasks   *)
(* of reads and interrupts run in any order.  An entry leads to a read     *)
(* that has its number and has not ended; a registered read can be found   *)
(* until its interrupt has cancelled it; a read is cancelled only for its  *)
(* own interrupt or the release of its own handle; and an interrupt that   *)
(* has run has cancelled its read.  The one that may miss it is the one    *)
(* that runs before the registration: that is lost, and the read goes on   *)
(* until its end or the release.                                           *)
InterruptsHit ==
  /\ \A u \in Uniques : LET q == kernelPending[u] IN
       q # NoFuseRead => reads[q].pc \notin {"idle", "sent", "reply"} /\ reads[q].unique = u
  /\ \A r \in InFlight : LET p == reads[r] IN
       /\ p.pc \in {"sent", "reply"} \/ kernelPending[p.unique] = r \/ (p.asked /\ p.cancelled)
       /\ p.cancelled => p.asked \/ p.fh \in released
       /\ p.asked /\ p.pc # "reply" => p.cancelled \/ p.unique \in interrupting \/ p.early

(* Every read is answered: the attempts are bounded, a repair is waited    *)
(* for once, and what it waits for ends.                                   *)
ReadsAnswered == \A r \in FuseReads : []<>(reads[r].pc = "idle")
=============================================================================
