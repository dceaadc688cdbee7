-------------------------- MODULE TorrentRegistry --------------------------
(***************************************************************************)
(* `TorrentManager` (torrent/) and who writes to it: the refresh loop, the *)
(* repair engine (repair/engine/) and FUSE reads that meet a dead link     *)
(* (fuse/read.rs).  The registry is a concurrent map whose entries are     *)
(* replaced whole: a writer reads an entry, changes its copy and inserts   *)
(* it, without a lock in between, then stores it in SQLite and tells the   *)
(* waiters.  One access key is modelled; its torrent on Real-Debrid has    *)
(* one id, and a new one each time it is added again.  The cascade of a    *)
(* repair is abstracted to its outcomes (module RepairCascade).  The table *)
(* repair_jobs is written and never read, and left out.                    *)
(***************************************************************************)
EXTENDS Integers, FiniteSets

CONSTANTS
  Files,        \* the selected files, all playable
  Readers,      \* concurrent FUSE reads
  MaxId,        \* bound: ids Real-Debrid gives out
  Scenes        \* who takes part: [readers, refreshes, windows, left]

(* readers: the reads there may be; refreshes: the refresh loop runs;      *)
(* windows: other tasks may run between get and insert of one call; left:  *)
(* bound on what the environment does, faults and restarts included.       *)

Casts == [readers : SUBSET Readers, refreshes : BOOLEAN, windows : BOOLEAN, left : Nat]

ASSUME Constants == MaxId \in Nat \ {0} /\ "engine" \notin Readers /\ Scenes \subseteq Casts

VARIABLES
  reg,      \* torrents: the entry of the key, or Absent
  row,      \* its row in SQLite, or Absent
  rd,       \* Real-Debrid: [id, bad], id = NoId when it has no such torrent
  lastId,   \* the last id Real-Debrid has given
  chan,     \* repair_state_tx: [open, value]
  queued,   \* is the key in repair_queue?
  permit,   \* repair_notify has a stored permit
  locks,    \* fuse_fatal_read_locks: the files with a leader
  eng,      \* the repair engine: [pc, marked, m]
  ref,      \* the refresh loop: [pc, now, seen, snap, last]
  fuse,     \* [Readers -> a FUSE read]
  call,     \* [Writers -> the TorrentManager call it is in, or NoCall]
  scene     \* the member of Scenes in this behaviour; left counts down

vars == << reg, row, rd, lastId, chan, queued, permit, locks, eng, ref, fuse,
           call, scene >>
rdVars == << rd, lastId >>
queueVars == << queued, permit >>

NoId == 0
NoState == -1
NotOnRd == [id |-> NoId, bad |-> {}]
Absent == [id |-> NoId, info |-> NoId, state |-> "absent", reason |-> FALSE, broken |-> {}]
States == {"ok", "broken", "under_repair"}
Present(t) == t # Absent

(* An entry: info is the id whose TorrentInfo is loaded (NoId: none),      *)
(* broken the files marked so in file_states.                              *)
Torrents == [id : 1..MaxId, info : 0..MaxId, state : States, reason : BOOLEAN,
             broken : SUBSET Files]
Added(i) == [id |-> i, info |-> NoId, state |-> "ok", reason |-> FALSE, broken |-> {}]

Writers == Readers \cup {"engine"}
NoCall == [stage |-> "none"]
NoFile == "none"
IdleRead == [pc |-> "idle", file |-> NoFile, waited |-> FALSE, leader |-> FALSE,
             rx |-> "none", m |-> [info |-> NoId, broken |-> {}]]
IdleEngine == [pc |-> "idle", marked |-> FALSE, m |-> Absent]
IdleRefresh(last) == [pc |-> "idle", now |-> NoId, seen |-> NoId, snap |-> Absent,
                      last |-> last]
NoReceivers == \A r \in Readers : fuse[r].rx # "on"
Happens == scene.left > 0 /\ scene' = [scene EXCEPT !.left = @ - 1]
HappensIf(b) == IF b THEN Happens ELSE UNCHANGED scene

(* torrent_to_row and load_from_db: info is not stored.                    *)
Stored(t) == [t EXCEPT !.info = NoId]

(* The process starts from SQLite (TorrentManager::new) with what an       *)
(* earlier one has left there; run_loop queues a torrent under_repair.     *)
(* last_state starts as None.                                              *)
Resumed(t) == t.state = "under_repair"
NoReads == [r \in Readers |-> IdleRead]
NoCalls == [p \in Writers |-> NoCall]
Closed == [open |-> FALSE, value |-> "ok"]

Init ==
  /\ lastId = 1 /\ rd \in [id : {1}, bad : SUBSET Files]
  /\ row \in {t \in Torrents : t.id = 1 /\ t.info = NoId /\ (t.reason => t.state = "broken")}
  /\ reg = row /\ queued = Resumed(row) /\ permit = Resumed(row)
  /\ chan = Closed /\ locks = {} /\ eng = IdleEngine /\ ref = IdleRefresh(NoState)
  /\ fuse = NoReads /\ call = NoCalls
  /\ scene \in Scenes

----------------------------------------------------------------------------
(***************************************************************************)
(* The writing calls of state_ops.rs.  update_torrent_state,               *)
(* mark_file_broken and replace_rd_ids_after_repair read the entry first;  *)
(* persist_torrent_snapshot inserts what it is given.  Then the row is     *)
(* stored, and update_torrent_state tells the waiters.                     *)
(***************************************************************************)
UpdateState(s, reason) ==
  [stage |-> "get", kind |-> "state", state |-> s, reason |-> reason, snap |-> Absent]
MarkFileBroken(f) == [stage |-> "get", kind |-> "mark", file |-> f, snap |-> Absent]
ReplaceRdIds(i) == [stage |-> "get", kind |-> "ids", id |-> i, snap |-> Absent]
PersistSnapshot(t) == [stage |-> "insert", kind |-> "snapshot", snap |-> t]

Changed(c, t) ==
  CASE c.kind = "state" -> [t EXCEPT !.state = c.state, !.reason = c.reason]
    [] c.kind = "mark"  -> [t EXCEPT !.broken = @ \cup {c.file}]
    [] c.kind = "ids"   -> [t EXCEPT !.id = c.id, !.info = NoId, !.broken = {}]

CallGet(p) ==
  /\ call[p].stage = "get"
  /\ \/ ~ Present(reg) /\ call' = [call EXCEPT ![p] = NoCall] /\ UNCHANGED reg
     \/ /\ Present(reg)
        /\ call' = [call EXCEPT ![p].snap = Changed(call[p], reg),
                               ![p].stage = IF scene.windows THEN "insert" ELSE "db"]
        /\ reg' = IF scene.windows THEN reg ELSE Changed(call[p], reg)
  /\ UNCHANGED << row, rdVars, chan, queueVars, locks, eng, ref, fuse, scene >>

(* torrents.insert: also when the entry has been removed meanwhile.        *)
CallInsert(p) ==
  /\ call[p].stage = "insert"
  /\ reg' = call[p].snap
  /\ call' = [call EXCEPT ![p].stage = "db"]
  /\ UNCHANGED << row, rdVars, chan, queueVars, locks, eng, ref, fuse, scene >>

(* watch::Sender::send stores nothing when there is no receiver.  Nobody   *)
(* sees the row before a restart, so that storing and sending are one step. *)
CallDb(p) ==
  /\ call[p].stage = "db"
  /\ row' = Stored(call[p].snap)
  /\ chan' = IF call[p].kind = "state" /\ chan.open /\ ~ NoReceivers
             THEN [chan EXCEPT !.value = call[p].state] ELSE chan
  /\ call' = [call EXCEPT ![p] = NoCall]
  /\ UNCHANGED << reg, rdVars, queueVars, locks, eng, ref, fuse, scene >>

(* db.call fails: the callers log it and go on, but for the repair engine  *)
(* when it sets under_repair: it gives the torrent up.                     *)
CallDbFails(p) ==
  /\ call[p].stage = "db" /\ Happens
  /\ call' = [call EXCEPT ![p] = NoCall]
  /\ eng' = IF p = "engine" /\ eng.pc = "ensure" THEN IdleEngine ELSE eng
  /\ UNCHANGED << reg, row, rdVars, chan, queueVars, locks, ref, fuse >>

CallStep(p) == CallGet(p) \/ CallInsert(p) \/ CallDb(p) \/ CallDbFails(p)

(***************************************************************************)
(* ensure_torrent_info: the entry with its info, or else Real-Debrid is    *)
(* asked for the info of its id.  Ensured is what the caller then holds:   *)
(* an answer is still to be injected; a request may fail.  The injection   *)
(* goes into the entry as it is then, whatever id it has; without an entry *)
(* the caller keeps its copy.                                              *)
(***************************************************************************)
Ensured ==
  IF ~ Present(reg) THEN {}
  ELSE {[answered |-> FALSE, m |-> reg]} \cup
       {[answered |-> TRUE, m |-> [reg EXCEPT !.info = i]] :
          i \in {i \in {reg.id} : reg.info = NoId /\ rd.id = i}}

InjectInfo(m) == reg' = IF Present(reg) THEN [reg EXCEPT !.info = m.info] ELSE reg

----------------------------------------------------------------------------
(***************************************************************************)
(* The repair engine: run_loop, run_session_impl, repair_one_torrent.      *)
(* marked says that repair_one_torrent has set under_repair.               *)
(***************************************************************************)
(* Mutant: a torrent under_repair is left to the session that repairs it.  *)
PeriodicRepairEligibleIdle(t) ==
  /\ Present(t) /\ ~ t.reason
  /\ t.state = "broken" \/ (t.state = "ok" /\ t.broken # {})

PeriodicRepairEligible(t) ==
  /\ Present(t) /\ ~ t.reason
  /\ t.state # "ok" \/ t.broken # {}

(* A passive HEAD probe of the links of an ok torrent may find dead ones.  *)
HeadUnreachable(t) ==
  /\ Present(t) /\ ~ t.reason /\ t.info # NoId
  /\ t.info # rd.id \/ rd.bad # {}

EngineNotified ==
  /\ eng.pc = "idle" /\ call["engine"] = NoCall /\ permit
  /\ permit' = FALSE
  /\ eng' = [eng EXCEPT !.pc = "drain"]
  /\ UNCHANGED << reg, row, rdVars, chan, queued, locks, ref, fuse, call, scene >>

(* A session drains the queue; with the key in it the repair starts.       *)
EngineDrain ==
  /\ eng.pc = "drain"
  /\ queued' = FALSE
  /\ eng' = [eng EXCEPT !.pc = IF queued THEN "ensure" ELSE "idle"]
  /\ UNCHANGED << reg, row, rdVars, chan, permit, locks, ref, fuse, call, scene >>

(* A periodic session also scans the registry.                             *)
EngineTick ==
  /\ eng.pc = "idle" /\ call["engine"] = NoCall
  /\ queued \/ PeriodicRepairEligible(reg) \/ HeadUnreachable(reg)
  /\ queued' = FALSE
  /\ eng' = [eng EXCEPT !.pc = "ensure"]
  /\ UNCHANGED << reg, row, rdVars, chan, permit, locks, ref, fuse, call, scene >>

(* ensure_torrent_info, before and after the torrent is under_repair.      *)
AfterInfo == IF eng.marked THEN "preflight" ELSE "check"

EngineEnsure ==
  /\ eng.pc = "ensure" /\ call["engine"] = NoCall
  /\ \/ ~ Present(reg) /\ eng' = IdleEngine /\ UNCHANGED scene
     \/ \E e \in Ensured :
          /\ eng' = [eng EXCEPT !.m = e.m, !.pc = IF e.answered THEN "inject" ELSE AfterInfo]
          /\ HappensIf(e.m.info = NoId /\ rd.id = e.m.id)
  /\ UNCHANGED << reg, row, rdVars, chan, queueVars, locks, ref, fuse, call >>

EngineInject ==
  /\ eng.pc = "inject"
  /\ InjectInfo(eng.m)
  /\ eng' = [eng EXCEPT !.m = IF Present(reg) THEN reg' ELSE @, !.pc = AfterInfo]
  /\ UNCHANGED << row, rdVars, chan, queueVars, locks, ref, fuse, call, scene >>

(* Unrepairable, or no free slot on Real-Debrid: nothing is done.          *)
EngineSkips ==
  /\ eng.pc = "check" /\ HappensIf(~ eng.m.reason)
  /\ eng' = IdleEngine
  /\ UNCHANGED << reg, row, rdVars, chan, queueVars, locks, ref, fuse, call >>

(* Stuck: under_repair for longer than timeout_mins.                       *)
EngineUnsticks ==
  /\ eng.pc = "check" /\ eng.m.state = "under_repair" /\ ~ eng.m.reason
  /\ call' = [call EXCEPT !["engine"] = UpdateState("broken", FALSE)]
  /\ eng' = IdleEngine
  /\ UNCHANGED << reg, row, rdVars, chan, queueVars, locks, ref, fuse, scene >>

EngineTakes ==
  /\ eng.pc = "check" /\ ~ eng.m.reason
  /\ call' = [call EXCEPT !["engine"] = UpdateState("under_repair", FALSE)]
  /\ eng' = [pc |-> "ensure", marked |-> TRUE, m |-> Absent]
  /\ UNCHANGED << reg, row, rdVars, chan, queueVars, locks, ref, fuse, scene >>

(* run_preflight on the snapshot m: every link of its info is probed, and  *)
(* may fail though it is good; the links of a lost id may work or not.     *)
Probed(m) ==
  {[m EXCEPT !.broken = b] : b \in {b \in SUBSET Files : m.info = rd.id => rd.bad \subseteq b}}

EngineDefers ==
  /\ eng.pc = "preflight" /\ eng.m.info # NoId /\ Happens
  /\ call' = [call EXCEPT !["engine"] = UpdateState("broken", FALSE)]
  /\ eng' = IdleEngine
  /\ UNCHANGED << reg, row, rdVars, chan, queueVars, locks, ref, fuse >>

(* VerifiedOk, when no file is broken and one link is verified once more,  *)
(* or Proceed: the snapshot is written back as it is.                      *)
EnginePreflight ==
  /\ eng.pc = "preflight"
  /\ \E m \in IF eng.m.info = NoId THEN {eng.m} ELSE Probed(eng.m), verified \in BOOLEAN :
       /\ verified => m.info # NoId /\ m.broken = {}
       /\ HappensIf(/\ m.info = rd.id /\ m.info # NoId
                    /\ m.broken # rd.bad \/ (m.broken = {} /\ ~ verified))
       /\ call' = [call EXCEPT !["engine"] = PersistSnapshot(m)]
       /\ eng' = IF verified THEN [eng EXCEPT !.pc = "repaired", !.m = Absent]
                 ELSE [eng EXCEPT !.pc = "cascade", !.m = Added(m.id)]
  /\ UNCHANGED << reg, row, rdVars, chan, queueVars, locks, ref, fuse >>

EngineRepaired ==
  /\ eng.pc = "repaired" /\ call["engine"] = NoCall
  /\ call' = [call EXCEPT !["engine"] = UpdateState("ok", FALSE)]
  /\ eng' = IdleEngine
  /\ UNCHANGED << reg, row, rdVars, chan, queueVars, locks, ref, fuse, scene >>

(* The cascade: strategy 1 deletes the ids of the snapshot; any strategy   *)
(* adds the magnet, which gets a new id, and keeps or deletes it.          *)
CascadeDeletes ==
  /\ eng.pc = "cascade" /\ call["engine"] = NoCall
  /\ rd' = IF rd.id = eng.m.id THEN NotOnRd ELSE rd
  /\ eng' = [eng EXCEPT !.pc = "reinsert"]
  /\ UNCHANGED << reg, row, lastId, chan, queueVars, locks, ref, fuse, call, scene >>

CascadeAdds ==
  /\ eng.pc = "reinsert" /\ lastId < MaxId
  /\ lastId' = lastId + 1 /\ rd' = [id |-> lastId + 1, bad |-> {}]
  /\ eng' = [eng EXCEPT !.pc = "added", !.m = Added(lastId + 1)]
  /\ UNCHANGED << reg, row, chan, queueVars, locks, ref, fuse, call, scene >>

CascadeDrops ==
  /\ eng.pc = "added" /\ Happens
  /\ rd' = IF rd.id = eng.m.id THEN NotOnRd ELSE rd
  /\ eng' = [eng EXCEPT !.pc = "reinsert"]
  /\ UNCHANGED << reg, row, lastId, chan, queueVars, locks, ref, fuse, call >>

(* Success with a new id: the registry takes it over.                      *)
CascadeSucceeds ==
  /\ eng.pc = "added"
  /\ call' = [call EXCEPT !["engine"] = ReplaceRdIds(eng.m.id)]
  /\ eng' = [eng EXCEPT !.pc = "repaired", !.m = Absent]
  /\ UNCHANGED << reg, row, rdVars, chan, queueVars, locks, ref, fuse, scene >>

(* Any other end: unrepairable, deferred, timed out, or a success of       *)
(* strategy 2 or 4, which leaves no new id.                                *)
CascadeEnds ==
  /\ eng.pc \in {"cascade", "reinsert"} /\ call["engine"] = NoCall
  /\ \/ \E reason \in BOOLEAN :
          call' = [call EXCEPT !["engine"] = UpdateState("broken", reason)]
     \/ eng.pc = "reinsert" /\ call' = [call EXCEPT !["engine"] = UpdateState("ok", FALSE)]
  /\ eng' = IdleEngine
  /\ UNCHANGED << reg, row, rdVars, chan, queueVars, locks, ref, fuse, scene >>

EngineStep ==
  \/ EngineNotified \/ EngineDrain \/ EngineTick \/ EngineEnsure \/ EngineInject
  \/ EngineSkips \/ EngineUnsticks \/ EngineTakes \/ EngineDefers
  \/ EnginePreflight \/ EngineRepaired \/ CascadeDeletes \/ CascadeAdds
  \/ CascadeDrops \/ CascadeSucceeds \/ CascadeEnds

----------------------------------------------------------------------------
(***************************************************************************)
(* The refresh loop.  LibraryState is abstracted to the id of the torrent; *)
(* an unchanged one is skipped unless some download is running.  now is    *)
(* the state of this round, seen the id in the list (NoId: not listed).    *)
(***************************************************************************)
RefreshLists(seen) ==
  ref' = [ref EXCEPT !.pc = "diff", !.now = rd.id, !.seen = seen]

RefreshChanged ==
  /\ scene.refreshes /\ ref.pc = "idle" /\ rd.id # ref.last
  /\ RefreshLists(rd.id)
  /\ UNCHANGED << reg, row, rdVars, chan, queueVars, locks, eng, fuse, call, scene >>

RefreshDownloading ==
  /\ scene.refreshes /\ ref.pc = "idle" /\ rd.id = ref.last /\ Happens
  /\ RefreshLists(rd.id)
  /\ UNCHANGED << reg, row, rdVars, chan, queueVars, locks, eng, fuse, call >>

(* An errored torrent counts as absent, a stalled one does not; both are   *)
(* deleted unless their id belongs to a torrent under repair.              *)
IdUnderRepair(i) == reg.state = "under_repair" /\ reg.id = i

RefreshDeletes ==
  /\ scene.refreshes /\ ref.pc = "idle" /\ rd.id # NoId /\ ~ IdUnderRepair(rd.id) /\ Happens
  /\ \E seen \in {NoId, rd.id} : RefreshLists(seen)
  /\ rd' = NotOnRd
  /\ UNCHANGED << reg, row, lastId, chan, queueVars, locks, eng, fuse, call >>

(* Mutant: a changed torrent starts anew as ok, as an added one does.      *)
MergedAsOk(t, seen) ==
  [t EXCEPT !.id = seen, !.state = "ok", !.info = IF t.id = seen THEN @ ELSE NoId]

(* diff, and the first access of the loops after it.  A torrent with the   *)
(* same id may still differ in progress or status.  One under_repair is    *)
(* not removed.                                                            *)
Merged(t, seen) == [t EXCEPT !.id = seen, !.info = IF t.id = seen THEN @ ELSE NoId]

RefreshDiff ==
  /\ ref.pc = "diff"
  /\ \/ /\ ~ Present(reg) /\ ref.seen # NoId
        /\ ref' = [ref EXCEPT !.pc = "insert", !.snap = Added(ref.seen)]
        /\ UNCHANGED << reg, scene >>
     \/ /\ Present(reg) /\ ref.seen # NoId
        /\ ref' = [ref EXCEPT !.pc = IF scene.windows THEN "insert" ELSE "store",
                              !.snap = Merged(reg, ref.seen)]
        /\ reg' = IF scene.windows THEN reg ELSE Merged(reg, ref.seen)
        /\ HappensIf(reg.id = ref.seen)
     \/ /\ Present(reg) /\ ref.seen = NoId /\ reg.state # "under_repair"
        /\ ref' = [ref EXCEPT !.pc = "drop"]
        /\ UNCHANGED << reg, scene >>
     \/ /\ reg.id = ref.seen \/ (ref.seen = NoId /\ reg.state = "under_repair")
        /\ ref' = IdleRefresh(ref.now)
        /\ UNCHANGED << reg, scene >>
  /\ UNCHANGED << row, rdVars, chan, queueVars, locks, eng, fuse, call >>

RefreshInsert ==
  /\ ref.pc = "insert"
  /\ reg' = ref.snap
  /\ ref' = [ref EXCEPT !.pc = "store"]
  /\ UNCHANGED << row, rdVars, chan, queueVars, locks, eng, fuse, call, scene >>

RefreshStore ==
  /\ ref.pc = "store"
  /\ row' = Stored(ref.snap)
  /\ ref' = IdleRefresh(ref.now)
  /\ UNCHANGED << reg, rdVars, chan, queueVars, locks, eng, fuse, call, scene >>

(* run_once fails: last_state stays, the next interval tries again.        *)
RefreshStoreFails ==
  /\ ref.pc = "store" /\ Happens
  /\ ref' = IdleRefresh(ref.last)
  /\ UNCHANGED << reg, row, rdVars, chan, queueVars, locks, eng, fuse, call >>

(* The entry and the channel go; the row stays.  A receiver of the closed  *)
(* channel still sees its last value.                                      *)
RefreshDrop ==
  /\ ref.pc = "drop"
  /\ reg' = Absent /\ chan' = Closed
  /\ fuse' = [r \in Readers |->
       IF fuse[r].rx = "on"
       THEN [fuse[r] EXCEPT !.rx = IF chan.value = "ok" THEN "ok" ELSE "closed"]
       ELSE fuse[r]]
  /\ ref' = IdleRefresh(ref.now)
  /\ UNCHANGED << row, rdVars, queueVars, locks, eng, call, scene >>

RefreshStep ==
  \/ RefreshChanged \/ RefreshDeletes \/ RefreshDiff \/ RefreshInsert
  \/ RefreshStore \/ RefreshStoreFails \/ RefreshDrop

----------------------------------------------------------------------------
(***************************************************************************)
(* FUSE reads: `read` of fuse/read.rs without the cache.                   *)
(***************************************************************************)
FuseReturns(r) == fuse' = [fuse EXCEPT ![r] = IdleRead]

(* What a read uses of its copy: the info and the marks.                   *)
Links(m) == [info |-> m.info, broken |-> m.broken]
NoLinks == IdleRead.m

(* The top of 'read_retry: ENOENT without an entry or without info.        *)
FuseEnsure(r, read) ==
  \/ ~ Present(reg) /\ FuseReturns(r)
  \/ \E e \in Ensured :
       IF e.m.info = NoId THEN FuseReturns(r)
       ELSE fuse' = [fuse EXCEPT ![r] =
              [read EXCEPT !.m = Links(e.m), !.pc = IF e.answered THEN "inject" ELSE "check"]]

FuseStart(r, f) ==
  /\ r \in scene.readers /\ fuse[r].pc = "idle" /\ Happens
  /\ FuseEnsure(r, [IdleRead EXCEPT !.file = f])
  /\ UNCHANGED << reg, row, rdVars, chan, queueVars, locks, eng, ref, call >>

FuseInject(r) ==
  /\ fuse[r].pc = "inject"
  /\ InjectInfo(fuse[r].m)
  /\ fuse' = [fuse EXCEPT ![r].m = IF Present(reg) THEN Links(reg') ELSE @, ![r].pc = "check"]
  /\ UNCHANGED << row, rdVars, chan, queueVars, locks, eng, ref, call, scene >>

(* Mutant: no state is made up for a torrent that is gone.                 *)
SubscribeUnchecked ==
  chan' = IF ~ chan.open THEN [open |-> TRUE, value |-> reg.state]
          ELSE IF ~ NoReceivers THEN [chan EXCEPT !.value = reg.state]
          ELSE chan

(* subscribe_repair_state.  watch::channel starts with the current state;  *)
(* the send that brings an older channel up to date fails without a        *)
(* receiver, and stores nothing.  One step: a write of another thread after*)
(* the get would leave the older state in a new channel, and the wait for  *)
(* it would end with its timeout, as any wait here may.                    *)
Subscribe ==
  LET current == IF Present(reg) THEN reg.state ELSE "broken" IN
  chan' = IF ~ chan.open THEN [open |-> TRUE, value |-> current]
          ELSE IF Present(reg) /\ ~ NoReceivers THEN [chan EXCEPT !.value = current]
          ELSE chan

(* A file marked broken: the first time the read asks for a repair and     *)
(* waits, the second time it fails.                                        *)
FuseMarkedBroken(r) ==
  /\ fuse[r].pc = "check" /\ fuse[r].file \in fuse[r].m.broken
  /\ IF fuse[r].waited
     THEN FuseReturns(r) /\ UNCHANGED chan
     ELSE /\ Subscribe
          /\ fuse' = [fuse EXCEPT ![r].pc = "push", ![r].rx = "on", ![r].m = NoLinks]
  /\ UNCHANGED << reg, row, rdVars, queueVars, locks, eng, ref, call, scene >>

(* Data, EINTR, or EIO after the last attempt.                             *)
FuseServed(r) ==
  /\ fuse[r].pc = "check" /\ fuse[r].file \notin fuse[r].m.broken
  /\ FuseReturns(r)
  /\ UNCHANGED << reg, row, rdVars, chan, queueVars, locks, eng, ref, call, scene >>

(* A fatal unrestrict error or a corrupted link.  The first read of the    *)
(* file becomes the leader (fuse_begin_fatal_read_repair) and reports it;  *)
(* a read that has waited before neither subscribes nor waits again.       *)
FuseFatal(r) ==
  /\ fuse[r].pc = "check" /\ fuse[r].file \notin fuse[r].m.broken
  /\ fuse[r].m.info # rd.id \/ fuse[r].file \in rd.bad
  /\ locks' = locks \cup {fuse[r].file}
  /\ IF fuse[r].waited THEN UNCHANGED chan ELSE Subscribe
  /\ LET leader == fuse[r].file \notin locks IN
       /\ fuse' = [fuse EXCEPT ![r] =
            IF @.waited /\ ~ leader THEN IdleRead
            ELSE [@ EXCEPT !.leader = leader, !.m = NoLinks,
                           !.pc = IF leader THEN "mark" ELSE "wait",
                           !.rx = IF fuse[r].waited THEN "none" ELSE "on"]]
       /\ call' = IF leader THEN [call EXCEPT ![r] = UpdateState("broken", FALSE)] ELSE call
  /\ UNCHANGED << reg, row, rdVars, queueVars, eng, ref, scene >>

FuseMark(r) ==
  /\ fuse[r].pc = "mark" /\ call[r] = NoCall
  /\ call' = [call EXCEPT ![r] = MarkFileBroken(fuse[r].file)]
  /\ fuse' = [fuse EXCEPT ![r].pc = "push"]
  /\ UNCHANGED << reg, row, rdVars, chan, queueVars, locks, eng, ref, scene >>

(* enqueue_repair: the key once, then a permit for the engine.             *)
FusePush(r) ==
  /\ fuse[r].pc = "push" /\ call[r] = NoCall
  /\ queued' = TRUE
  /\ fuse' = [fuse EXCEPT ![r].pc = "notify"]
  /\ UNCHANGED << reg, row, rdVars, chan, permit, locks, eng, ref, call, scene >>

(* Mutant: only the leader wakes the engine.                               *)
FuseNotifyLeaderOnly(r) ==
  /\ fuse[r].pc = "notify"
  /\ permit' = (permit \/ fuse[r].leader)
  /\ locks' = IF fuse[r].leader THEN locks \ {fuse[r].file} ELSE locks
  /\ fuse' = [fuse EXCEPT ![r] = IF @.rx = "none" THEN IdleRead
                                 ELSE [@ EXCEPT !.pc = "wait", !.leader = FALSE]]
  /\ UNCHANGED << reg, row, rdVars, chan, queued, eng, ref, call, scene >>

(* The leader also ends its part (fuse_end_fatal_read_repair).             *)
FuseNotify(r) ==
  /\ fuse[r].pc = "notify"
  /\ permit' = TRUE
  /\ locks' = IF fuse[r].leader THEN locks \ {fuse[r].file} ELSE locks
  /\ fuse' = [fuse EXCEPT ![r] = IF @.rx = "none" THEN IdleRead
                                 ELSE [@ EXCEPT !.pc = "wait", !.leader = FALSE]]
  /\ UNCHANGED << reg, row, rdVars, chan, queued, eng, ref, call, scene >>

(* Mutant: the read may wait again after a retry.                          *)
FuseWaitOkForgets(r) ==
  /\ fuse[r].pc = "wait"
  /\ fuse[r].rx = "ok" \/ (fuse[r].rx = "on" /\ chan.value = "ok")
  /\ FuseEnsure(r, [fuse[r] EXCEPT !.rx = "none"])
  /\ UNCHANGED << reg, row, rdVars, chan, queueVars, locks, eng, ref, call, scene >>

(* wait_for_repair_ok: the state is or becomes ok, and the read starts     *)
(* over; or the time is over, the read is cancelled or the torrent is gone. *)
FuseWaitOk(r) ==
  /\ fuse[r].pc = "wait"
  /\ fuse[r].rx = "ok" \/ (fuse[r].rx = "on" /\ chan.value = "ok")
  /\ FuseEnsure(r, [fuse[r] EXCEPT !.rx = "none", !.waited = TRUE])
  /\ UNCHANGED << reg, row, rdVars, chan, queueVars, locks, eng, ref, call, scene >>

(* Mutant: whoever has waited ends the leader's part.                      *)
FuseWaitEndsUnlocks(r) ==
  /\ fuse[r].pc = "wait"
  /\ FuseReturns(r)
  /\ locks' = locks \ {fuse[r].file}
  /\ UNCHANGED << reg, row, rdVars, chan, queueVars, eng, ref, call, scene >>

FuseWaitEnds(r) ==
  /\ fuse[r].pc = "wait"
  /\ FuseReturns(r)
  /\ UNCHANGED << reg, row, rdVars, chan, queueVars, locks, eng, ref, call, scene >>

FuseStep(r) ==
  \/ FuseInject(r) \/ FuseMarkedBroken(r) \/ FuseServed(r) \/ FuseFatal(r) \/ FuseMark(r)
  \/ FusePush(r) \/ FuseNotify(r) \/ FuseWaitOk(r) \/ FuseWaitEnds(r)

----------------------------------------------------------------------------
(***************************************************************************)
(* The environment, and restarts of the process.                           *)
(***************************************************************************)
LinkDies(f) ==
  /\ rd.id # NoId /\ f \notin rd.bad /\ Happens
  /\ rd' = [rd EXCEPT !.bad = @ \cup {f}]
  /\ UNCHANGED << reg, row, lastId, chan, queueVars, locks, eng, ref, fuse, call >>

UserDeletes ==
  /\ rd.id # NoId /\ Happens
  /\ rd' = NotOnRd
  /\ UNCHANGED << reg, row, lastId, chan, queueVars, locks, eng, ref, fuse, call >>

UserReadds ==
  /\ rd.id = NoId /\ lastId < MaxId /\ Happens
  /\ lastId' = lastId + 1 /\ rd' = [id |-> lastId + 1, bad |-> {}]
  /\ UNCHANGED << reg, row, chan, queueVars, locks, eng, ref, fuse, call >>

(* The process is killed and starts again.                                 *)
Restart ==
  /\ Happens
  /\ reg' = row /\ queued' = Resumed(row) /\ permit' = Resumed(row)
  /\ chan' = Closed /\ locks' = {} /\ eng' = IdleEngine /\ ref' = IdleRefresh(NoState)
  /\ fuse' = NoReads /\ call' = NoCalls
  /\ UNCHANGED << row, rdVars >>

Environment ==
  \/ \E f \in Files : LinkDies(f)
  \/ \E r \in Readers, f \in Files : FuseStart(r, f)
  \/ UserDeletes \/ UserReadds \/ Restart \/ RefreshDownloading

Next ==
  \/ EngineStep \/ RefreshStep \/ Environment
  \/ \E r \in Readers : FuseStep(r)
  \/ \E p \in Writers : CallStep(p)

Spec == Init /\ [][Next]_vars

(***************************************************************************)
(* Every task is polled when it is ready, HTTP and database calls end, the *)
(* engine's timer ticks.  A torrent that stays under_repair outlives its   *)
(* timeout, so that the test of line 42 in repair_one.rs finds it.         *)
(***************************************************************************)
Fairness ==
  /\ WF_vars(EngineStep) /\ SF_vars(EngineUnsticks) /\ WF_vars(RefreshStep)
  /\ \A r \in Readers : WF_vars(FuseStep(r))
  /\ \A p \in Writers : WF_vars(CallStep(p))

FairSpec == Spec /\ Fairness

----------------------------------------------------------------------------
TypeOK ==
  /\ {reg, row} \subseteq Torrents \cup {Absent}
  /\ rd.id \in 0..lastId /\ lastId \in 1..MaxId /\ rd.bad \subseteq Files
  /\ chan \in [open : BOOLEAN, value : States]
  /\ {queued, permit} \subseteq BOOLEAN /\ locks \subseteq Files
  /\ eng.m \in Torrents \cup {Absent} /\ ref.snap \in Torrents \cup {Absent}
  /\ scene \in Casts

(* Each lock of fuse_fatal_read_locks is held by one read, which is on its *)
(* way to fuse_end_fatal_read_repair: a lock left behind would keep every  *)
(* later read of the file from reporting it.                               *)
Leads(r, f) == fuse[r].leader /\ fuse[r].file = f
LeaderExact ==
  /\ \A f \in Files : f \in locks <=> \E r \in Readers : Leads(r, f)
  /\ \A f \in Files : \A r, s \in Readers : Leads(r, f) /\ Leads(s, f) => r = s

(* Only a broken torrent is unrepairable, in memory and in SQLite: the     *)
(* engine never looks again at a torrent with a reason, so that one under  *)
(* repair would stay so.                                                   *)
ReasonOnlyBroken == \A t \in {reg, row} : t.reason => t.state = "broken"

(* No wake-up is lost: while the key is queued, the engine has a permit,   *)
(* or is about to drain, or a read is about to notify it.                  *)
QueuedIsSeen ==
  queued => permit \/ eng.pc = "drain" \/ \E r \in Readers : fuse[r].pc = "notify"

(* A torrent does not stay under_repair: not after a restart, a failing    *)
(* database, or a writer that put an old copy back.                        *)
UnderRepairEnds == (reg.state = "under_repair") ~> (reg.state # "under_repair")

(* Every read returns, however often the torrent breaks and is repaired.   *)
ReadsReturn == \A r \in Readers : (fuse[r].pc # "idle") ~> (fuse[r].pc = "idle")

(* What the refresh loop promises: once Real-Debrid is left alone, the     *)
(* registry gets the id that Real-Debrid has, or drops the torrent.        *)
SyncsWithRd == <>[](rd.id = reg.id)
=============================================================================
