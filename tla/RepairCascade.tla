--------------------------- MODULE RepairCascade ---------------------------
(***************************************************************************)
(* `execute_cascade` (repair/strategies.rs) with the ephemeral torrents it *)
(* makes on Real-Debrid (repair/ephemeral_torrent.rs), as repair_one runs  *)
(* it: under a timeout, while guards that were dropped delete their        *)
(* torrents in tasks of their own and the refresh loop deletes torrents    *)
(* that went wrong.  The four strategies share one attempt: add a magnet,  *)
(* select files, poll until it is ready.  A call to Real-Debrid may fail,  *)
(* for bandwidth or otherwise, and may have had its effect although its    *)
(* answer was lost.                                                        *)
(***************************************************************************)
EXTENDS Integers, Sequences, FiniteSets

CONSTANTS
  Files,        \* file ids of the torrent's content
  Playable,     \* those whose path looks playable
  Selections,   \* the lists of selected files to explore
  BatchSize,    \* config.repair.batch_file_group_size, clamped
  OldIds,       \* how many rd_ids the torrent has when the repair starts
  Polls,        \* how often info_ready asks (3 in the code)
  MaxFaults(_)  \* bound, for so many files: failed deletes, lost answers, torrents gone wrong

ASSUME Constants ==
  /\ Playable \subseteq Files /\ Selections \subseteq Seq(Files)
  /\ BatchSize \in Nat \ {0} /\ OldIds \in Nat /\ Polls \in Nat \ {0}
  /\ \A sel \in Selections : MaxFaults(Len(sel)) \in Nat

VARIABLES
  torrent,   \* the snapshot repaired, with the configuration: never changes
  pc,        \* where execute_cascade is
  old,       \* the rd_ids that try_strategy_1_reinsert has still to delete
  at,        \* [strategy, item, good]: item of the strategy, items that were ready
  poll,      \* polls of info_ready that found the torrent not ready
  guard,     \* the EphemeralRdTorrent in scope
  cleanup,   \* [id -> tries left] of the tasks Drop has spawned
  orphans,   \* ids whose Drop task failed twice
  rd,        \* [id -> selected files] of the torrents on Real-Debrid
  lastId,    \* the last id Real-Debrid has given
  strays,    \* ids whose add_magnet answer was lost
  listed,    \* ids that a refresh round found in error or stalled
  ready,     \* history: << strategy, file >> that info_ready found ready
  faults,    \* faults of the environment so far (bounded by MaxFaults)
  limited,   \* has a call of an attempt failed for bandwidth?
  outcome    \* the CascadeOutcome, or "timeout" for repair_one's

vars == << torrent, pc, old, at, poll, guard, cleanup, orphans, rd, lastId, strays, listed, ready,
           faults, limited, outcome >>

NoId == 0
Errors == {"bandwidth", "other"}
Pending == [kind |-> "none", id |-> NoId]

SelectedCount == Len(torrent.selected)
SelectedSet == {torrent.selected[i] : i \in 1..SelectedCount}
DuplicateSelectedFileIds == Cardinality(SelectedSet) # SelectedCount
HasNonPlayableSelected == \E f \in SelectedSet : f \notin Playable

Init ==
  /\ torrent \in [detail : {"info", "hash", "none"}, restrictCached : BOOLEAN,
                  selected : Selections]
  /\ torrent.detail = "info" \/ torrent.selected = << >>
  /\ pc = "start" /\ old = [i \in 1..OldIds |-> i]
  /\ at = [strategy |-> 1, item |-> 1, good |-> 0] /\ poll = 0
  /\ guard = NoId /\ cleanup = << >> /\ orphans = {}
  /\ rd = [i \in 1..OldIds |-> SelectedSet]
  /\ lastId = OldIds /\ strays = {} /\ listed = {} /\ ready = {}
  /\ faults = 0 /\ limited = FALSE /\ outcome = Pending

(* Mutant: the batch that is short is left out.                            *)
ItemsWhole(s) == CASE s = 2 -> SelectedCount
                   [] s = 4 /\ BatchSize < SelectedCount -> SelectedCount \div BatchSize
                   [] OTHER -> 1

(***************************************************************************)
(* What a strategy attempts.  Strategy 1 and 3 have one item, 2 has one    *)
(* per selected file, 4 one per batch.                                     *)
(***************************************************************************)
Items(s) == CASE s = 2 -> SelectedCount
              [] s = 4 -> (SelectedCount + BatchSize - 1) \div BatchSize
              [] OTHER -> 1

ItemFiles(s, item) ==
  CASE s = 1 -> IF torrent.detail = "info" THEN SelectedSet ELSE Files
    [] s = 2 -> {torrent.selected[item]}
    [] s = 3 -> Files
    [] s = 4 -> {torrent.selected[i] :
                   i \in {j \in 1..SelectedCount : (j - 1) \div BatchSize = item - 1}}

Wanted == ItemFiles(at.strategy, at.item)

(* Mutant: a guard that is dropped on a path that gives up is forgotten.   *)
DropGuardForgets ==
  /\ guard' = NoId
  /\ cleanup' = [id \in DOMAIN cleanup \cup (IF pc = "poll" THEN {} ELSE {guard} \ {NoId}) |->
                   IF id = guard THEN 2 ELSE cleanup[id]]

(* Drop of the guard in scope: a task is spawned to delete what it holds.  *)
DropGuard ==
  /\ guard' = NoId
  /\ cleanup' = [id \in DOMAIN cleanup \cup ({guard} \ {NoId}) |->
                   IF id = guard THEN 2 ELSE cleanup[id]]

(* A return of execute_cascade, with whatever is in scope dropped.         *)
Return(kind, id) ==
  /\ outcome' = [kind |-> kind, id |-> id]
  /\ pc' = "done"
  /\ UNCHANGED << at, poll >>

(***************************************************************************)
(* The attempt is over and the cascade goes on: the next item, or, after   *)
(* the last one, the strategy's verdict and the next strategy that applies.*)
(* `good` tells whether this item was ready; strategies 2 and 4 succeed    *)
(* when all their items were.                                              *)
(***************************************************************************)
NextStrategy ==
  CASE at.strategy = 1 /\ torrent.detail = "info" -> 2
    [] at.strategy = 2 /\ HasNonPlayableSelected -> 3
    [] SelectedCount > 1 /\ (at.strategy = 3 \/ (at.strategy = 2 /\ ~ HasNonPlayableSelected)) -> 4
    [] OTHER -> 0

Advance(good) ==
  LET total == at.good + (IF good THEN 1 ELSE 0)
  IN \/ /\ at.item < Items(at.strategy)
        /\ at' = [at EXCEPT !.item = @ + 1, !.good = total]
        /\ pc' = "add" /\ poll' = 0 /\ UNCHANGED outcome
     \/ /\ at.item = Items(at.strategy)
        /\ at.strategy \in {2, 4} /\ total = Items(at.strategy)
        /\ Return("success", NoId)
     \/ /\ at.item = Items(at.strategy)
        /\ ~ (at.strategy \in {2, 4} /\ total = Items(at.strategy))
        /\ IF NextStrategy = 0
           THEN Return("unrepairable", NoId)
           ELSE /\ at' = [strategy |-> NextStrategy, item |-> 1, good |-> 0]
                /\ pc' = "add" /\ poll' = 0 /\ UNCHANGED outcome

(* Mutant: a failed select of strategy 2 is like any other failure.        *)
CallFailsIgnoresBandwidth(e) ==
  /\ limited' = (limited \/ e = "bandwidth")
  /\ IF at.strategy = 1 \/ (e = "bandwidth" /\ at.strategy # 2)
     THEN Return(IF e = "bandwidth" THEN "defer" ELSE "unrepairable", NoId)
     ELSE Advance(FALSE)

(* A call of the attempt failed with e.  Strategy 1 ends the cascade by    *)
(* map_rd; the others end it for bandwidth only.                           *)
MapRd(e) == IF e = "bandwidth" THEN "defer" ELSE "unrepairable"

CallFails(e) ==
  /\ limited' = (limited \/ e = "bandwidth")
  /\ IF at.strategy = 1 \/ e = "bandwidth"
     THEN Return(MapRd(e), NoId)
     ELSE Advance(FALSE)

----------------------------------------------------------------------------
(* execute_cascade up to strategy 1: what is unrepairable by its shape.    *)
Begin ==
  /\ pc = "start"
  /\ IF \/ torrent.detail = "none"
        \/ torrent.detail = "info" /\ (\/ DuplicateSelectedFileIds
                            \/ SelectedSet \cap Playable = {})
     THEN Return("unrepairable", NoId)
     ELSE pc' = "delete" /\ UNCHANGED << at, poll, outcome >>
  /\ UNCHANGED << torrent, listed, ready, old, guard, cleanup, orphans, rd, lastId,
                  strays, faults, limited >>

Fault == faults < MaxFaults(SelectedCount) /\ faults' = faults + 1

Without(id) == [i \in DOMAIN rd \ {id} |-> rd[i]]

(* delete_torrent of one old id; its failure is only logged.               *)
DeleteOld ==
  /\ pc = "delete" /\ old # << >>
  /\ \/ rd' = Without(Head(old)) /\ UNCHANGED faults
     \/ Fault /\ UNCHANGED rd
  /\ old' = Tail(old)
  /\ UNCHANGED << torrent, listed, ready, pc, at, poll, guard, cleanup, orphans, lastId,
                  strays, limited, outcome >>

Adding == pc = "add" \/ (pc = "delete" /\ old = << >>)

AddMagnet ==
  /\ Adding
  /\ lastId' = lastId + 1
  /\ rd' = [i \in DOMAIN rd \cup {lastId + 1} |-> IF i \in DOMAIN rd THEN rd[i] ELSE {}]
  /\ guard' = lastId + 1
  /\ pc' = "select"
  /\ UNCHANGED << torrent, listed, ready, old, at, poll, cleanup, orphans, strays, faults, limited,
                  outcome >>

(* The magnet was not added, or its id never reached the cascade.          *)
StrayOrNothing ==
  \/ UNCHANGED << lastId, rd, strays, faults >>
  \/ /\ Fault
     /\ lastId' = lastId + 1 /\ strays' = strays \cup {lastId + 1}
     /\ rd' = [i \in DOMAIN rd \cup {lastId + 1} |-> IF i \in DOMAIN rd THEN rd[i] ELSE {}]

AddMagnetFails ==
  /\ Adding
  /\ StrayOrNothing
  /\ \E e \in Errors : CallFails(e)
  /\ UNCHANGED << torrent, listed, ready, old, guard, cleanup, orphans >>

SelectFiles ==
  /\ pc = "select" /\ guard \in DOMAIN rd
  /\ rd' = [rd EXCEPT ![guard] = Wanted]
  /\ pc' = "poll"
  /\ UNCHANGED << torrent, listed, ready, old, at, poll, guard, cleanup, orphans, lastId,
                  strays, faults, limited, outcome >>

SelectFilesFails ==
  /\ pc = "select"
  /\ \/ UNCHANGED << rd, faults >>
     \/ Fault /\ guard \in DOMAIN rd /\ rd' = [rd EXCEPT ![guard] = Wanted]
  /\ \E e \in Errors : CallFails(e)
  /\ DropGuard
  /\ UNCHANGED << torrent, listed, ready, old, orphans, lastId, strays >>

(* Mutant: the id is read, but the guard keeps it.                         *)
DismissKeepsId ==
  /\ guard' = NoId
  /\ cleanup' = [id \in DOMAIN cleanup \cup {guard} |->
                   IF id = guard THEN 2 ELSE cleanup[id]]

(* info_ready finds 100% and links.  Strategies 1 and 3 dismiss the guard  *)
(* and return its id; 2 and 4 only count, and the guard is dropped.        *)
Dismiss == guard' = NoId /\ UNCHANGED cleanup

PollReady ==
  /\ pc = "poll" /\ guard \in DOMAIN rd \ listed
  /\ IF at.strategy \in {1, 3}
     THEN Dismiss /\ Return("success", guard)
     ELSE DropGuard /\ Advance(TRUE)
  /\ ready' = ready \cup ({at.strategy} \X Wanted)
  /\ UNCHANGED << torrent, listed, old, orphans, rd, lastId, strays, faults, limited >>

(* Mutant: info_ready asks until the torrent is ready.                     *)
PollNotReadyForever ==
  /\ pc = "poll" /\ guard \in DOMAIN rd
  /\ poll' = (poll + 1) % Polls
  /\ UNCHANGED << pc, at, outcome, guard, cleanup >>
  /\ UNCHANGED << torrent, listed, ready, old, orphans, rd, lastId, strays, faults, limited >>

(* info_ready finds it not ready: ask again, or give up.                   *)
PollNotReady ==
  /\ pc = "poll" /\ guard \in DOMAIN rd
  /\ IF poll + 1 < Polls
     THEN poll' = poll + 1 /\ UNCHANGED << pc, at, outcome, guard, cleanup >>
     ELSE IF torrent.restrictCached
          THEN pc' = "discard" /\ UNCHANGED << at, poll, outcome, guard, cleanup >>
          ELSE DropGuard /\ Advance(FALSE)
  /\ UNCHANGED << torrent, listed, ready, old, orphans, rd, lastId, strays, faults, limited >>

PollFails ==
  /\ pc = "poll"
  /\ \E e \in Errors : CallFails(e)
  /\ DropGuard
  /\ UNCHANGED << torrent, listed, ready, old, orphans, rd, lastId, strays, faults >>

(* delete_ephemeral, then NotCached.  On Err the guard keeps the id.       *)
DeleteEphemeral ==
  /\ pc = "discard"
  /\ rd' = Without(guard) /\ guard' = NoId
  /\ Return("unrepairable", NoId)
  /\ UNCHANGED << torrent, listed, ready, old, cleanup, orphans, lastId, strays, faults, limited >>

DeleteEphemeralFails ==
  /\ pc = "discard"
  /\ UNCHANGED << rd, faults >> \/ (Fault /\ rd' = Without(guard))
  /\ \E e \in Errors : /\ limited' = (limited \/ e = "bandwidth")
                       /\ Return(MapRd(e), NoId)
  /\ DropGuard
  /\ UNCHANGED << torrent, listed, ready, old, orphans, lastId, strays >>

----------------------------------------------------------------------------
(* repair_one's timeout drops the cascade at whatever it awaits.           *)
Timeout ==
  /\ pc \notin {"start", "done"}
  /\ IF Adding THEN StrayOrNothing ELSE UNCHANGED << lastId, rd, strays, faults >>
  /\ DropGuard
  /\ Return("timeout", NoId)
  /\ UNCHANGED << torrent, listed, ready, old, orphans, limited >>

(* The task of a dropped guard: delete, and once more if that fails.       *)
CleanupDeletes(id) ==
  /\ id \in DOMAIN cleanup
  /\ rd' = Without(id)
  /\ cleanup' = [i \in DOMAIN cleanup \ {id} |-> cleanup[i]]
  /\ UNCHANGED << torrent, listed, ready, pc, old, at, poll, guard, orphans, lastId,
                  strays, faults, limited, outcome >>

CleanupFails(id) ==
  /\ id \in DOMAIN cleanup /\ Fault
  /\ rd' \in {rd, Without(id)}
  /\ IF cleanup[id] = 2
     THEN cleanup' = [cleanup EXCEPT ![id] = 1] /\ UNCHANGED orphans
     ELSE /\ cleanup' = [i \in DOMAIN cleanup \ {id} |-> cleanup[i]]
          /\ orphans' = orphans \cup {id}
  /\ UNCHANGED << torrent, listed, ready, pc, old, at, poll, guard, lastId, strays,
                  limited, outcome >>

(***************************************************************************)
(* The refresh loop asks for the list of torrents and deletes those that   *)
(* the list says are in error or stalled, unless their id then belongs to  *)
(* a torrent under repair: ephemeral ids do not.  One that went wrong does *)
(* not get ready any more (a download counts as stalled after minutes,     *)
(* info_ready asks for three seconds); the new id is complete.             *)
(***************************************************************************)
RefreshLists(id) ==
  /\ id \in DOMAIN rd \ (listed \cup {outcome.id}) /\ Fault
  /\ listed' = listed \cup {id}
  /\ UNCHANGED << torrent, pc, old, at, poll, guard, cleanup, orphans, rd, lastId, strays, ready, limited,
                  outcome >>

RefreshDeletes(id) ==
  /\ id \in listed /\ (id \in 1..OldIds => pc = "done")
  /\ listed' = listed \ {id}
  /\ rd' \in {rd, Without(id)}
  /\ UNCHANGED << torrent, pc, old, at, poll, guard, cleanup, orphans, lastId, strays, ready, faults, limited,
                  outcome >>

CascadeStep ==
  \/ Begin \/ DeleteOld \/ AddMagnet \/ AddMagnetFails \/ SelectFiles
  \/ SelectFilesFails \/ PollReady \/ PollNotReady \/ PollFails
  \/ DeleteEphemeral \/ DeleteEphemeralFails

CleanupStep == \E id \in DOMAIN cleanup : CleanupDeletes(id) \/ CleanupFails(id)

Next ==
  \/ CascadeStep \/ Timeout \/ CleanupStep
  \/ \E id \in DOMAIN rd : RefreshLists(id)
  \/ \E id \in listed : RefreshDeletes(id)

Spec == Init /\ [][Next]_vars /\ WF_vars(CascadeStep) /\ WF_vars(CleanupStep)
----------------------------------------------------------------------------
Ids == 1..lastId
Magnets == (OldIds + 1)..lastId   \* what the cascade has added

(* No magnet of the cascade is lost on Real-Debrid: one that is still      *)
(* there is held by the guard, is being deleted by a dropped guard's task, *)
(* is the new id handed to the caller, failed to be deleted twice (the     *)
(* warning of Drop), or never became known because add_magnet's answer was *)
(* lost.  This holds for every return, `continue` and the timeout.         *)
MagnetsOwned ==
  \A id \in DOMAIN rd \cap Magnets :
    id \in {guard, outcome.id} \cup DOMAIN cleanup \cup orphans \cup strays

(* The id that Success hands to replace_rd_ids_after_repair is on          *)
(* Real-Debrid with every selected file, and nobody is about to            *)
(* delete it: not the guard, not a cleanup task, not the refresh loop.     *)
NewIdComplete ==
  outcome.id # NoId =>
    /\ outcome.kind = "success"
    /\ outcome.id \in DOMAIN rd
    /\ SelectedSet \subseteq rd[outcome.id]
    /\ outcome.id \notin DOMAIN cleanup \cup listed

(* A bandwidth limit never marks a torrent unrepairable, which would keep  *)
(* every later cycle from trying again: once a call of an attempt has met  *)
(* the limit the outcome is DeferBandwidth, and it is so for no other      *)
(* reason.                                                                 *)
DeferExactlyForBandwidth == limited <=> outcome.kind = "defer"

(* Success is never called for a part of the selection: one strategy has   *)
(* found every selected file ready, all in one torrent or, for strategies  *)
(* 2 and 4, each in its item.  They count items (all_fixed, batches_ok)    *)
(* and not files, some items fail, and the last batch may be short.        *)
SuccessCoversSelection ==
  outcome.kind = "success" =>
    \E s \in 1..4 : \A f \in SelectedSet : << s, f >> \in ready

(* "Repaired; caller should set `ok`" (repair/mod.rs:65): after Success    *)
(* every selected file is in a torrent on Real-Debrid that nobody is about *)
(* to delete.                                                              *)
SuccessIsOnRd ==
  outcome.kind = "success" =>
    \A f \in SelectedSet : \E id \in DOMAIN rd \ DOMAIN cleanup : f \in rd[id]
=============================================================================
