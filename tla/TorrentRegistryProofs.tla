----------------------- MODULE TorrentRegistryProofs -----------------------
(***************************************************************************)
(* Theorems about TorrentRegistry, for any number of reads, files, ids and *)
(* events, with or without the refresh loop, and with other tasks running  *)
(* between get and insert of every call.                                   *)
(***************************************************************************)
EXTENDS TorrentRegistry, TLAPS

(* A copy of the entry that any task may hold, write back or store.        *)
Copies == {t \in Torrents : t.reason => t.state = "broken"}
Copy == Copies \cup {Absent}
Ids == 1..MaxId

Stages == {"get", "insert", "db"}
StateCalls == {c \in [stage : Stages, kind : {"state"}, state : States, reason : BOOLEAN,
                      snap : Copy] : c.reason => c.state = "broken"}
MarkCalls == [stage : Stages, kind : {"mark"}, file : Files, snap : Copy]
IdCalls == [stage : Stages, kind : {"ids"}, id : Ids, snap : Copy]
SnapCalls == [stage : {"insert", "db"}, kind : {"snapshot"}, snap : Copy]
Calls == StateCalls \cup MarkCalls \cup IdCalls \cup SnapCalls \cup {NoCall}

EnginePcs == {"idle", "drain", "ensure", "inject", "check", "preflight", "repaired",
              "cascade", "reinsert", "added"}
Holding == {"inject", "check", "preflight", "cascade", "reinsert", "added"}
RefreshPcs == {"idle", "diff", "insert", "store", "drop"}
FusePcs == {"idle", "inject", "check", "mark", "push", "notify", "wait"}
Reads == [pc : FusePcs, file : Files \cup {NoFile}, waited : BOOLEAN, leader : BOOLEAN,
          rx : {"none", "on", "ok", "closed"}, m : [info : 0..MaxId, broken : SUBSET Files]]

RegInv == reg \in Copy /\ row \in Copy
RdInv == lastId \in Ids /\ rd \in [id : 0..MaxId, bad : SUBSET Files] /\ rd.id <= lastId
ChanInv == chan \in [open : BOOLEAN, value : States]
QueueInv == queued \in BOOLEAN /\ permit \in BOOLEAN /\ locks \in SUBSET Files
EngInv ==
  /\ eng \in [pc : EnginePcs, marked : BOOLEAN, m : Copy]
  /\ eng.pc \in Holding => eng.m \in Copies
RefInv == ref \in [pc : RefreshPcs, now : 0..MaxId, seen : 0..MaxId, snap : Copy,
                   last : Int]
FuseInv ==
  /\ fuse \in [Readers -> Reads]
  /\ \A r \in Readers : fuse[r].pc # "idle" => fuse[r].file \in Files
CallInv == call \in [Writers -> Calls]
EventsInv == scene \in Casts

(* The inductive invariant for types and reasons: no task holds a copy     *)
(* that would put a reason on a torrent that is not broken.                *)
CopyInv ==
  /\ RegInv /\ RdInv /\ ChanInv /\ QueueInv /\ EngInv /\ RefInv /\ FuseInv /\ CallInv
  /\ EventsInv

USE Constants DEF NoId, NoState

LEMMA CopyFields ==
  ASSUME NEW t \in Copies
  PROVE  /\ t \in Torrents /\ Present(t) /\ (t.reason => t.state = "broken")
         /\ t.id \in Ids /\ t.info \in 0..MaxId /\ t.state \in States /\ t.broken \subseteq Files
BY DEF Copies, Torrents, Present, Absent, Ids, States

LEMMA PresentCopy ==
  ASSUME NEW t \in Copy, Present(t)
  PROVE  t \in Copies
BY DEF Copy, Present

LEMMA AbsentFields == Absent.id = 0 /\ Absent.info = 0 /\ Absent.state = "absent" /\ Absent.reason = FALSE
BY DEF Absent

(* Every way in which the code makes one copy from another.                *)
LEMMA AddedCopy ==
  ASSUME NEW i \in Ids
  PROVE  Added(i) \in Copies
BY DEF Added, Copies, Torrents, States, Ids

LEMMA InfoCopy ==
  ASSUME NEW t \in Copies, NEW i \in 0..MaxId
  PROVE  /\ [t EXCEPT !.info = i] \in Copies
         /\ [t EXCEPT !.info = i].info = i
         /\ [t EXCEPT !.info = i].broken = t.broken
BY DEF Copies, Torrents

LEMMA StoredCopy ==
  ASSUME NEW t \in Copy
  PROVE  Stored(t) \in Copy
<1>1. CASE t = Absent
  BY <1>1 DEF Stored, Copy, Absent
<1>2. CASE t \in Copies
  BY <1>2, InfoCopy, 0 \in 0..MaxId DEF Stored, Copy
<1> QED BY <1>1, <1>2 DEF Copy

LEMMA MergedCopy ==
  ASSUME NEW t \in Copies, NEW i \in Ids
  PROVE  Merged(t, i) \in Copies
<1> DEFINE j == IF t.id = i THEN t.info ELSE NoId
<1>1. j \in 0..MaxId
  BY CopyFields
<1>2. [t EXCEPT !.id = i, !.info = j] \in Copies
  <2> HIDE DEF j
  <2> QED BY <1>1 DEF Copies, Torrents, Ids
<1> QED BY <1>2 DEF Merged

LEMMA ProbedCopy ==
  ASSUME NEW t \in Copies, NEW m \in Probed(t)
  PROVE  m \in Copies /\ m.info = t.info /\ m.id = t.id
BY DEF Probed, Copies, Torrents

LEMMA ChangedCopy ==
  ASSUME NEW t \in Copies, NEW c \in Calls, c.stage = "get"
  PROVE  Changed(c, t) \in Copies
<1>1. CASE c \in StateCalls
  BY <1>1 DEF StateCalls, Changed, Copies, Torrents
<1>2. CASE c \in MarkCalls
  BY <1>2 DEF MarkCalls, Changed, Copies, Torrents
<1>3. CASE c \in IdCalls
  <2>1. c.kind = "ids" /\ c.id \in Ids
    BY <1>3 DEF IdCalls
  <2>2. Changed(c, t) = [t EXCEPT !.id = c.id, !.info = NoId, !.broken = {}]
    BY <2>1 DEF Changed
  <2>3. [t EXCEPT !.id = c.id, !.info = NoId, !.broken = {}] \in Copies
    <3>1. {} \in SUBSET Files /\ NoId \in 0..MaxId
      OBVIOUS
    <3>2. [t EXCEPT !.id = c.id, !.info = NoId] \in Copies
      BY <2>1, <3>1 DEF Copies, Torrents, Ids
    <3>3. \A u \in Copies : [u EXCEPT !.broken = {}] \in Copies
      BY <3>1 DEF Copies, Torrents
    <3>4. [t EXCEPT !.id = c.id, !.info = NoId, !.broken = {}]
          = [[t EXCEPT !.id = c.id, !.info = NoId] EXCEPT !.broken = {}]
      OBVIOUS
    <3> QED BY <3>2, <3>3, <3>4
  <2> QED BY <2>2, <2>3
<1> QED BY <1>1, <1>2, <1>3 DEF Calls, SnapCalls, NoCall

LEMMA NothingFields ==
  /\ Absent \in Copy /\ NoCall \in Calls /\ IdleRead \in Reads /\ IdleRead.pc = "idle"
  /\ IdleRead.leader = FALSE /\ IdleEngine \in [pc : EnginePcs, marked : BOOLEAN, m : Copy]
  /\ IdleEngine.pc = "idle" /\ Closed \in [open : BOOLEAN, value : States]
BY DEF Copy, Calls, IdleRead, Reads, FusePcs, IdleEngine, EnginePcs, Closed, States, NoFile

LEMMA NewCalls ==
  /\ \A s \in States : UpdateState(s, FALSE) \in Calls
  /\ \A reason \in BOOLEAN : UpdateState("broken", reason) \in Calls
  /\ \A f \in Files : MarkFileBroken(f) \in Calls
  /\ \A i \in Ids : ReplaceRdIds(i) \in Calls
  /\ \A t \in Copy : PersistSnapshot(t) \in Calls
<1>1. \A s \in States, reason \in BOOLEAN : (reason => s = "broken") =>
         UpdateState(s, reason) \in StateCalls
  BY DEF UpdateState, StateCalls, Stages, Copy
<1>2. "broken" \in States
  BY DEF States
<1>3. \A f \in Files : MarkFileBroken(f) \in MarkCalls
  BY DEF MarkFileBroken, MarkCalls, Stages, Copy
<1>4. \A i \in Ids : ReplaceRdIds(i) \in IdCalls
  BY DEF ReplaceRdIds, IdCalls, Stages, Copy
<1>5. \A t \in Copy : PersistSnapshot(t) \in SnapCalls
  BY DEF PersistSnapshot, SnapCalls
<1> QED BY <1>1, <1>2, <1>3, <1>4, <1>5 DEF Calls

LEMMA CallFields ==
  ASSUME NEW c \in Calls, c # NoCall
  PROVE  /\ c.snap \in Copy /\ c.kind \in {"state", "mark", "ids", "snapshot"}
         /\ c.kind = "state" => c.state \in States
         /\ c.stage \in Stages
         /\ \A t \in Copy, s \in {"insert", "db"} :
              [c EXCEPT !.snap = t, !.stage = s] \in Calls /\ [c EXCEPT !.stage = s] \in Calls
<1>1. CASE c \in StateCalls
  BY <1>1 DEF StateCalls, Calls, Stages
<1>2. CASE c \in MarkCalls
  BY <1>2 DEF MarkCalls, Calls, Stages
<1>3. CASE c \in IdCalls
  BY <1>3 DEF IdCalls, Calls, Stages
<1>4. CASE c \in SnapCalls
  BY <1>4 DEF SnapCalls, Calls, Stages
<1> QED BY <1>1, <1>2, <1>3, <1>4 DEF Calls

LEMMA EnsuredFacts ==
  ASSUME CopyInv, NEW e \in Ensured
  PROVE  e.m \in Copies /\ e.answered \in BOOLEAN
<1>1. reg \in Copies
  BY PresentCopy DEF Ensured, CopyInv, RegInv
<1>2. CASE e = [answered |-> FALSE, m |-> reg]
  BY <1>1, <1>2
<1>3. CASE \E i \in {reg.id} : e = [answered |-> TRUE, m |-> [reg EXCEPT !.info = i]]
  <2>1. reg.id \in 0..MaxId
    BY <1>1, CopyFields DEF Ids
  <2> QED BY <1>1, <1>3, <2>1, InfoCopy
<1> QED BY <1>1, <1>2, <1>3, CopyFields DEF Ensured

LEMMA HappensFact == scene \in Casts /\ Happens => scene' \in Casts
BY DEF Happens, Casts

LEMMA HappensIfFact ==
  ASSUME NEW b, scene \in Casts, HappensIf(b)
  PROVE  scene' \in Casts
BY HappensFact DEF HappensIf

LEMMA CopyInit == Init => CopyInv
<1> SUFFICES ASSUME Init PROVE CopyInv
  OBVIOUS
<1>1. RegInv /\ row \in Copies
  BY DEF Init, RegInv, Copy, Copies
<1>2. RdInv /\ EventsInv
  BY DEF Init, RdInv, Ids, EventsInv
<1>3. QueueInv
  BY DEF Init, QueueInv, Resumed
<1>4. ChanInv /\ EngInv /\ FuseInv /\ CallInv
  BY NothingFields DEF Init, ChanInv, EngInv, Holding, FuseInv, NoReads, CallInv, NoCalls
<1>5. RefInv
  BY DEF Init, RefInv, IdleRefresh, RefreshPcs, Copy
<1> QED BY <1>1, <1>2, <1>3, <1>4, <1>5 DEF CopyInv

LEMMA CopyCall ==
  ASSUME CopyInv, NEW p \in Writers, CallStep(p)
  PROVE  CopyInv'
<1> USE DEF CopyInv
<1>1. call[p] \in Calls /\ NoCall \in Calls /\ NoCall.stage = "none"
  BY NothingFields DEF CallInv, NoCall
<1>2. CASE CallGet(p)
  <2>1. RegInv' /\ CallInv'
    <3>1. CASE ~ Present(reg)
      BY <1>1, <1>2, <3>1 DEF CallGet, RegInv, CallInv
    <3>2. CASE Present(reg)
      <4>1. Changed(call[p], reg) \in Copy
        BY <1>1, <1>2, <3>2, PresentCopy, ChangedCopy DEF CallGet, RegInv, Copy
      <4>2. call[p] # NoCall
        BY <1>1, <1>2 DEF CallGet
      <4>3. [call[p] EXCEPT !.snap = Changed(call[p], reg),
                           !.stage = IF scene.windows THEN "insert" ELSE "db"] \in Calls
        BY <1>1, <4>1, <4>2, CallFields
      <4> QED BY <1>2, <3>2, <4>1, <4>3 DEF CallGet, RegInv, CallInv
    <3> QED BY <3>1, <3>2
  <2> QED BY <1>2, <2>1 DEF CallGet, rdVars, queueVars, RdInv, ChanInv, QueueInv, EngInv,
           RefInv, FuseInv, EventsInv
<1>3. CASE CallInsert(p)
  <2>1. call[p] # NoCall
    BY <1>1, <1>3 DEF CallInsert
  <2>2. call[p].snap \in Copy /\ [call[p] EXCEPT !.stage = "db"] \in Calls
    BY <1>1, <2>1, CallFields, NothingFields
  <2>3. RegInv' /\ CallInv'
    BY <1>3, <2>2 DEF CallInsert, RegInv, CallInv
  <2> QED BY <1>3, <2>3 DEF CallInsert, rdVars, queueVars, RdInv, ChanInv, QueueInv, EngInv,
           RefInv, FuseInv, EventsInv
<1>4. CASE CallDb(p)
  <2>1. call[p] # NoCall
    BY <1>1, <1>4 DEF CallDb
  <2>2. Stored(call[p].snap) \in Copy /\ (call[p].kind = "state" => call[p].state \in States)
    BY <1>1, <2>1, CallFields, StoredCopy
  <2>3. RegInv' /\ CallInv' /\ ChanInv'
    BY <1>1, <1>4, <2>2 DEF CallDb, RegInv, CallInv, ChanInv
  <2> QED BY <1>4, <2>3 DEF CallDb, rdVars, queueVars, RdInv, QueueInv, EngInv,
           RefInv, FuseInv, EventsInv
<1>5. CASE CallDbFails(p)
  <2>1. CallInv' /\ EventsInv'
    BY <1>1, <1>5, HappensFact DEF CallDbFails, CallInv, EventsInv
  <2>2. EngInv'
    BY <1>5, NothingFields DEF CallDbFails, EngInv, Holding
  <2> QED BY <1>5, <2>1, <2>2 DEF CallDbFails, rdVars, queueVars, RegInv, RdInv, ChanInv,
           QueueInv, RefInv, FuseInv
<1> QED BY <1>2, <1>3, <1>4, <1>5 DEF CallStep

(* What every step of the engine leaves alone.                             *)
EngineFrame == row' = row /\ chan' = chan /\ locks' = locks /\ ref' = ref /\ fuse' = fuse

LEMMA CopyFromFrame ==
  ASSUME CopyInv, EngineFrame, reg' \in Copy, RdInv', QueueInv', EngInv', CallInv', EventsInv'
  PROVE  CopyInv'
BY DEF CopyInv, EngineFrame, RegInv, ChanInv, RefInv, FuseInv

LEMMA CopyEngine ==
  ASSUME CopyInv, EngineStep
  PROVE  CopyInv'
<1> USE DEF CopyInv
<1>1. EngineFrame
  BY DEF EngineStep, EngineNotified, EngineDrain, EngineTick, EngineEnsure, EngineInject,
     EngineSkips, EngineUnsticks, EngineTakes, EngineDefers, EnginePreflight, EngineRepaired,
     CascadeDeletes, CascadeAdds, CascadeDrops, CascadeSucceeds, CascadeEnds, EngineFrame,
     queueVars, rdVars
<1>2. "engine" \in Writers /\ "broken" \in States /\ "ok" \in States /\ "under_repair" \in States
  BY DEF Writers, States
<1>3. \A c \in Calls : call' = [call EXCEPT !["engine"] = c] => CallInv'
  BY <1>2 DEF CallInv
<1>4. eng' = IdleEngine => EngInv'
  BY NothingFields DEF EngInv, Holding
<1>5. \A s \in EnginePcs \ Holding : eng' = [eng EXCEPT !.pc = s] => EngInv'
  BY DEF EngInv
<1>6. CASE EngineNotified
  <2>1. QueueInv' /\ EngInv'
    BY <1>6, <1>5 DEF EngineNotified, QueueInv, EnginePcs, Holding
  <2> QED BY <1>1, <1>6, <2>1, CopyFromFrame DEF EngineNotified, rdVars, RegInv, RdInv, CallInv, EventsInv
<1>7. CASE EngineDrain
  <2>1. QueueInv' /\ EngInv'
    BY <1>7, <1>5 DEF EngineDrain, QueueInv, EnginePcs, Holding
  <2> QED BY <1>1, <1>7, <2>1, CopyFromFrame DEF EngineDrain, rdVars, RegInv, RdInv, CallInv, EventsInv
<1>8. CASE EngineTick
  <2>1. QueueInv' /\ EngInv'
    BY <1>8, <1>5 DEF EngineTick, QueueInv, EnginePcs, Holding
  <2> QED BY <1>1, <1>8, <2>1, CopyFromFrame DEF EngineTick, rdVars, RegInv, RdInv, CallInv, EventsInv
<1>9. CASE EngineEnsure
  <2>1. EngInv' /\ EventsInv'
    <3>1. CASE ~ Present(reg) /\ eng' = IdleEngine /\ UNCHANGED scene
      BY <3>1, <1>4 DEF EventsInv
    <3>2. ASSUME NEW e \in Ensured,
                 eng' = [eng EXCEPT !.m = e.m, !.pc = IF e.answered THEN "inject" ELSE AfterInfo],
                 HappensIf(e.m.info = NoId /\ rd.id = e.m.id)
          PROVE  EngInv' /\ EventsInv'
      <4>1. e.m \in Copies
        BY EnsuredFacts
      <4>2. (IF e.answered THEN "inject" ELSE AfterInfo) \in EnginePcs
        BY DEF AfterInfo, EnginePcs
      <4>3. EngInv'
        BY <3>2, <4>1, <4>2 DEF EngInv, Copy
      <4> QED BY <3>2, <4>3, HappensIfFact DEF EventsInv
    <3> QED BY <1>9, <3>1, <3>2 DEF EngineEnsure
  <2> QED BY <1>1, <1>9, <2>1, CopyFromFrame DEF EngineEnsure, rdVars, queueVars, RegInv, RdInv,
           QueueInv, CallInv
<1>10. CASE EngineInject
  <2>1. eng.m \in Copies /\ eng.m.info \in 0..MaxId
    BY <1>10, CopyFields DEF EngineInject, EngInv, Holding
  <2>2. reg' \in Copy /\ (Present(reg) => reg' \in Copies)
    BY <1>10, <2>1, PresentCopy, InfoCopy DEF EngineInject, InjectInfo, RegInv, Copy
  <2>3. (IF Present(reg) THEN reg' ELSE eng.m) \in Copies /\ AfterInfo \in EnginePcs
    BY <2>1, <2>2 DEF AfterInfo, EnginePcs
  <2>4. EngInv'
    BY <1>10, <2>3 DEF EngineInject, EngInv, Copy
  <2> QED BY <1>1, <1>10, <2>2, <2>4, CopyFromFrame DEF EngineInject, rdVars, queueVars, RdInv,
           QueueInv, CallInv, EventsInv
<1>11. CASE EngineSkips
  <2>1. EngInv' /\ EventsInv'
    BY <1>11, <1>4, HappensIfFact DEF EngineSkips, EventsInv
  <2> QED BY <1>1, <1>11, <2>1, CopyFromFrame DEF EngineSkips, rdVars, queueVars, RegInv, RdInv,
           QueueInv, CallInv
<1>12. CASE EngineUnsticks
  <2>1. EngInv' /\ CallInv'
    BY <1>12, <1>2, <1>3, <1>4, NewCalls DEF EngineUnsticks
  <2> QED BY <1>1, <1>12, <2>1, CopyFromFrame DEF EngineUnsticks, rdVars, queueVars, RegInv, RdInv,
           QueueInv, EventsInv
<1>13. CASE EngineTakes
  <2>1. CallInv'
    BY <1>13, <1>2, <1>3, NewCalls DEF EngineTakes
  <2>2. EngInv'
    BY <1>13 DEF EngineTakes, EngInv, EnginePcs, Holding, Copy
  <2> QED BY <1>1, <1>13, <2>1, <2>2, CopyFromFrame DEF EngineTakes, rdVars, queueVars, RegInv, RdInv,
           QueueInv, EventsInv
<1>14. CASE EngineDefers
  <2>1. EngInv' /\ CallInv' /\ EventsInv'
    BY <1>14, <1>2, <1>3, <1>4, NewCalls, HappensFact DEF EngineDefers, EventsInv
  <2> QED BY <1>1, <1>14, <2>1, CopyFromFrame DEF EngineDefers, rdVars, queueVars, RegInv, RdInv, QueueInv
<1>15. CASE EnginePreflight
  <2>1. eng.m \in Copies
    BY <1>15 DEF EnginePreflight, EngInv, Holding
  <2>2. PICK m \in IF eng.m.info = NoId THEN {eng.m} ELSE Probed(eng.m), verified \in BOOLEAN :
          /\ HappensIf(/\ m.info = rd.id /\ m.info # NoId
                       /\ m.broken # rd.bad \/ (m.broken = {} /\ ~ verified))
          /\ call' = [call EXCEPT !["engine"] = PersistSnapshot(m)]
          /\ eng' = IF verified THEN [eng EXCEPT !.pc = "repaired", !.m = Absent]
                    ELSE [eng EXCEPT !.pc = "cascade", !.m = Added(m.id)]
    BY <1>15 DEF EnginePreflight
  <2>3. m \in Copies
    BY <2>1, <2>2, ProbedCopy
  <2>4. Added(m.id) \in Copies
    BY <2>3, AddedCopy, CopyFields
  <2>5. CallInv'
    BY <2>2, <2>3, <1>3, NewCalls DEF Copy
  <2>6. EngInv'
    BY <2>2, <2>4 DEF EngInv, EnginePcs, Holding, Copy
  <2>7. EventsInv'
    BY <2>2, HappensIfFact DEF EventsInv
  <2> QED BY <1>1, <1>15, <2>5, <2>6, <2>7, CopyFromFrame DEF EnginePreflight, rdVars, queueVars,
           RegInv, RdInv, QueueInv
<1>16. CASE EngineRepaired
  <2>1. EngInv' /\ CallInv'
    BY <1>16, <1>2, <1>3, <1>4, NewCalls DEF EngineRepaired
  <2> QED BY <1>1, <1>16, <2>1, CopyFromFrame DEF EngineRepaired, rdVars, queueVars, RegInv, RdInv,
           QueueInv, EventsInv
<1>17. CASE CascadeDeletes
  <2>1. EngInv'
    BY <1>17 DEF CascadeDeletes, EngInv, EnginePcs, Holding
  <2>2. RdInv'
    BY <1>17 DEF CascadeDeletes, RdInv, NotOnRd, Ids
  <2> QED BY <1>1, <1>17, <2>1, <2>2, CopyFromFrame DEF CascadeDeletes, queueVars, RegInv,
           QueueInv, CallInv, EventsInv
<1>18. CASE CascadeAdds
  <2>1. lastId + 1 \in Ids
    BY <1>18 DEF CascadeAdds, RdInv, Ids
  <2>2. EngInv'
    BY <1>18, <2>1, AddedCopy DEF CascadeAdds, EngInv, EnginePcs, Holding, Copy
  <2>3. RdInv'
    BY <1>18, <2>1 DEF CascadeAdds, RdInv, Ids
  <2> QED BY <1>1, <1>18, <2>2, <2>3, CopyFromFrame DEF CascadeAdds, queueVars, RegInv,
           QueueInv, CallInv, EventsInv
<1>19. CASE CascadeDrops
  <2>1. EngInv' /\ EventsInv'
    BY <1>19, HappensFact DEF CascadeDrops, EngInv, EnginePcs, Holding, EventsInv
  <2>2. RdInv'
    BY <1>19 DEF CascadeDrops, RdInv, NotOnRd, Ids
  <2> QED BY <1>1, <1>19, <2>1, <2>2, CopyFromFrame DEF CascadeDrops, queueVars, RegInv,
           QueueInv, CallInv
<1>20. CASE CascadeSucceeds
  <2>1. eng.m.id \in Ids
    BY <1>20, CopyFields DEF CascadeSucceeds, EngInv, Holding
  <2>2. EngInv' /\ CallInv'
    BY <1>20, <2>1, <1>3, NewCalls DEF CascadeSucceeds, EngInv, EnginePcs, Holding, Copy
  <2> QED BY <1>1, <1>20, <2>2, CopyFromFrame DEF CascadeSucceeds, rdVars, queueVars, RegInv, RdInv,
           QueueInv, EventsInv
<1>21. CASE CascadeEnds
  <2>1. EngInv' /\ CallInv'
    BY <1>21, <1>2, <1>3, <1>4, NewCalls DEF CascadeEnds
  <2> QED BY <1>1, <1>21, <2>1, CopyFromFrame DEF CascadeEnds, rdVars, queueVars, RegInv, RdInv,
           QueueInv, EventsInv
<1> QED BY <1>6, <1>7, <1>8, <1>9, <1>10, <1>11, <1>12, <1>13, <1>14, <1>15, <1>16, <1>17,
           <1>18, <1>19, <1>20, <1>21 DEF EngineStep

LEMMA CopyRefresh ==
  ASSUME CopyInv, RefreshStep \/ RefreshDownloading
  PROVE  CopyInv'
<1> USE DEF CopyInv
<1>1. rd.id \in 0..MaxId /\ 0 \in 0..MaxId
  BY DEF RdInv
<1>2. \A i \in 0..MaxId : RefreshLists(i) => RefInv'
  BY <1>1 DEF RefreshLists, RefInv, RefreshPcs
<1>3. \A i \in Int : ref' = IdleRefresh(i) => RefInv'
  BY DEF IdleRefresh, RefInv, RefreshPcs, Copy
<1>4. ref.now \in Int /\ ref.last \in Int
  BY DEF RefInv
<1>5. CASE RefreshChanged
  BY <1>1, <1>2, <1>5 DEF RefreshChanged, rdVars, queueVars, RegInv, RdInv, ChanInv, QueueInv,
     EngInv, FuseInv, CallInv, EventsInv
<1>6. CASE RefreshDownloading
  BY <1>1, <1>2, <1>6, HappensFact DEF RefreshDownloading, rdVars, queueVars, RegInv, RdInv, ChanInv,
     QueueInv, EngInv, FuseInv, CallInv, EventsInv
<1>7. CASE RefreshDeletes
  <2>1. RefInv' /\ EventsInv'
    BY <1>1, <1>2, <1>7, HappensFact DEF RefreshDeletes, EventsInv
  <2>2. RdInv'
    BY <1>7 DEF RefreshDeletes, RdInv, NotOnRd, Ids
  <2> QED BY <1>7, <2>1, <2>2 DEF RefreshDeletes, queueVars, RegInv, ChanInv, QueueInv, EngInv,
           FuseInv, CallInv
<1>8. CASE RefreshDiff
  <2>1. ref.seen \in 0..MaxId /\ (ref.seen # NoId => ref.seen \in Ids)
    BY DEF RefInv, Ids
  <2>2. RegInv' /\ RefInv' /\ EventsInv'
    <3>1. CASE /\ ~ Present(reg) /\ ref.seen # NoId
               /\ ref' = [ref EXCEPT !.pc = "insert", !.snap = Added(ref.seen)]
               /\ UNCHANGED << reg, scene, row >>
      BY <2>1, <3>1, AddedCopy DEF RegInv, RefInv, RefreshPcs, Copy, EventsInv
    <3>2. CASE /\ Present(reg) /\ ref.seen # NoId /\ row' = row
               /\ ref' = [ref EXCEPT !.pc = IF scene.windows THEN "insert" ELSE "store",
                                     !.snap = Merged(reg, ref.seen)]
               /\ reg' = IF scene.windows THEN reg ELSE Merged(reg, ref.seen)
               /\ HappensIf(reg.id = ref.seen)
      <4>1. Merged(reg, ref.seen) \in Copies
        BY <2>1, <3>2, PresentCopy, MergedCopy DEF RegInv
      <4>2. EventsInv'
        BY <3>2, HappensIfFact DEF EventsInv
      <4> QED BY <3>2, <4>1, <4>2 DEF RegInv, RefInv, RefreshPcs, Copy
    <3>3. CASE ref' = [ref EXCEPT !.pc = "drop"] /\ UNCHANGED << reg, scene, row >>
      BY <3>3 DEF RegInv, RefInv, RefreshPcs, EventsInv
    <3>4. CASE ref' = IdleRefresh(ref.now) /\ UNCHANGED << reg, scene, row >>
      BY <1>3, <1>4, <3>4 DEF RegInv, EventsInv
    <3> QED BY <1>8, <3>1, <3>2, <3>3, <3>4 DEF RefreshDiff
  <2> QED BY <1>8, <2>2 DEF RefreshDiff, rdVars, queueVars, RdInv, ChanInv, QueueInv, EngInv,
           FuseInv, CallInv
<1>9. CASE RefreshInsert
  <2>1. RegInv' /\ RefInv'
    BY <1>9 DEF RefreshInsert, RegInv, RefInv, RefreshPcs
  <2> QED BY <1>9, <2>1 DEF RefreshInsert, rdVars, queueVars, RdInv, ChanInv, QueueInv, EngInv,
           FuseInv, CallInv, EventsInv
<1>10. CASE RefreshStore
  <2>1. RegInv' /\ RefInv'
    BY <1>3, <1>4, <1>10, StoredCopy DEF RefreshStore, RegInv, RefInv
  <2> QED BY <1>10, <2>1 DEF RefreshStore, rdVars, queueVars, RdInv, ChanInv, QueueInv, EngInv,
           FuseInv, CallInv, EventsInv
<1>11. CASE RefreshStoreFails
  BY <1>3, <1>4, <1>11, HappensFact DEF RefreshStoreFails, rdVars, queueVars, RegInv, RdInv, ChanInv,
     QueueInv, EngInv, FuseInv, CallInv, EventsInv
<1>12. CASE RefreshDrop
  <2>1. RegInv' /\ RefInv' /\ ChanInv'
    BY <1>3, <1>4, <1>12, NothingFields DEF RefreshDrop, RegInv, ChanInv
  <2>2. FuseInv'
    <3>1. \A r \in Readers : fuse[r] \in Reads
      BY DEF FuseInv
    <3>2. \A r \in Readers : fuse'[r] \in Reads /\ fuse'[r].pc = fuse[r].pc /\ fuse'[r].file = fuse[r].file
      BY <1>12, <3>1 DEF RefreshDrop, Reads
    <3> QED BY <1>12, <3>2 DEF RefreshDrop, FuseInv
  <2> QED BY <1>12, <2>1, <2>2 DEF RefreshDrop, rdVars, queueVars, RdInv, QueueInv, EngInv,
           CallInv, EventsInv
<1> QED BY <1>5, <1>6, <1>7, <1>8, <1>9, <1>10, <1>11, <1>12 DEF RefreshStep

(* A read that is replaced by another one.                                 *)
LEMMA FuseUpdate ==
  ASSUME FuseInv, NEW r \in Readers, NEW x \in Reads, x.pc # "idle" => x.file \in Files,
         fuse' = [fuse EXCEPT ![r] = x]
  PROVE  FuseInv'
BY DEF FuseInv

LEMMA FuseEnsureInv ==
  ASSUME CopyInv, NEW r \in Readers, NEW x \in Reads, x.file \in Files, FuseEnsure(r, x)
  PROVE  FuseInv'
<1>1. CASE FuseReturns(r)
  BY <1>1, FuseUpdate, NothingFields DEF FuseReturns, CopyInv
<1>2. ASSUME NEW e \in Ensured, e.m.info # NoId,
             fuse' = [fuse EXCEPT ![r] =
               [x EXCEPT !.m = Links(e.m), !.pc = IF e.answered THEN "inject" ELSE "check"]]
      PROVE  FuseInv'
  <2>1. Links(e.m) \in [info : 0..MaxId, broken : SUBSET Files]
    BY EnsuredFacts, CopyFields DEF Links
  <2> DEFINE y == [x EXCEPT !.m = Links(e.m), !.pc = IF e.answered THEN "inject" ELSE "check"]
  <2>2. y \in Reads /\ y.file = x.file
    BY <2>1 DEF Reads, FusePcs
  <2> QED BY <1>2, <2>2, FuseUpdate DEF CopyInv
<1> QED BY <1>1, <1>2 DEF FuseEnsure

LEMMA SubscribeInv ==
  ASSUME RegInv, ChanInv, Subscribe
  PROVE  ChanInv'
<1>1. (IF Present(reg) THEN reg.state ELSE "broken") \in States
  BY PresentCopy, CopyFields DEF RegInv, States
<1> QED BY <1>1 DEF Subscribe, ChanInv

LEMMA CopyFuse ==
  ASSUME CopyInv, NEW r \in Readers, FuseStep(r)
  PROVE  CopyInv'
<1> USE DEF CopyInv
<1>1. fuse[r] \in Reads /\ r \in Writers /\ (fuse[r].pc # "idle" => fuse[r].file \in Files)
  BY DEF FuseInv, Writers
<1>2. FuseReturns(r) => FuseInv'
  BY FuseUpdate, NothingFields DEF FuseReturns
<1>3. \A c \in Calls : call' = [call EXCEPT ![r] = c] => CallInv'
  BY <1>1 DEF CallInv
<1>4. NoLinks \in [info : 0..MaxId, broken : SUBSET Files]
  BY NothingFields DEF NoLinks, Reads
<1>5. CASE FuseInject(r)
  <2>1. fuse[r].m.info \in 0..MaxId /\ fuse[r].m \in [info : 0..MaxId, broken : SUBSET Files]
    BY <1>1 DEF Reads
  <2>2. reg' \in Copy /\ (Present(reg) => reg' \in Copies)
    BY <1>5, <2>1, PresentCopy, InfoCopy DEF FuseInject, InjectInfo, RegInv, Copy
  <2> DEFINE m == IF Present(reg) THEN Links(reg') ELSE fuse[r].m
  <2>3. m \in [info : 0..MaxId, broken : SUBSET Files]
    BY <2>1, <2>2, CopyFields DEF Links
  <2>4. [fuse[r] EXCEPT !.m = m, !.pc = "check"] \in Reads
    BY <1>1, <2>3 DEF Reads, FusePcs
  <2>5. fuse' = [fuse EXCEPT ![r] = [fuse[r] EXCEPT !.m = m, !.pc = "check"]]
    BY <1>5 DEF FuseInject
  <2>6. [fuse[r] EXCEPT !.m = m, !.pc = "check"].file = fuse[r].file /\ fuse[r].pc # "idle"
    BY <1>1, <1>5 DEF Reads, FuseInject
  <2>7. FuseInv'
    BY <1>1, <2>4, <2>5, <2>6, FuseUpdate
  <2> QED BY <1>5, <2>2, <2>7 DEF FuseInject, RegInv, rdVars, queueVars, RdInv, ChanInv, QueueInv,
           EngInv, RefInv, CallInv, EventsInv
<1>6. CASE FuseMarkedBroken(r)
  <2>1. ChanInv'
    BY <1>6, SubscribeInv DEF FuseMarkedBroken, ChanInv
  <2>2. FuseInv'
    <3> DEFINE y == [fuse[r] EXCEPT !.pc = "push", !.rx = "on", !.m = NoLinks]
    <3>1. y \in Reads /\ y.file = fuse[r].file
      BY <1>1, <1>4 DEF Reads, FusePcs
    <3>2. FuseReturns(r) \/ fuse' = [fuse EXCEPT ![r] = y]
      BY <1>6 DEF FuseMarkedBroken
    <3>3. fuse[r].file \in Files
      BY <1>1, <1>6 DEF FuseMarkedBroken
    <3> QED BY <1>2, <3>1, <3>2, <3>3, FuseUpdate
  <2> QED BY <1>6, <2>1, <2>2 DEF FuseMarkedBroken, rdVars, queueVars, RegInv, RdInv, QueueInv,
           EngInv, RefInv, CallInv, EventsInv
<1>7. CASE FuseServed(r)
  BY <1>2, <1>7 DEF FuseServed, rdVars, queueVars, RegInv, RdInv, ChanInv, QueueInv, EngInv, RefInv,
     CallInv, EventsInv
<1>8. CASE FuseFatal(r)
  <2> DEFINE leader == fuse[r].file \notin locks
             y == [fuse[r] EXCEPT !.leader = leader, !.m = NoLinks,
                                  !.pc = IF leader THEN "mark" ELSE "wait",
                                  !.rx = IF fuse[r].waited THEN "none" ELSE "on"]
  <2>1. ChanInv'
    BY <1>8, SubscribeInv DEF FuseFatal, ChanInv
  <2>2. fuse[r].file \in Files
    BY <1>1, <1>8 DEF FuseFatal
  <2>3. QueueInv'
    BY <1>8, <2>2 DEF FuseFatal, queueVars, QueueInv
  <2>4. fuse' = [fuse EXCEPT ![r] = IdleRead] \/ fuse' = [fuse EXCEPT ![r] = y]
    BY <1>8 DEF FuseFatal, FuseInv
  <2>5. y \in Reads /\ y.file = fuse[r].file
    BY <1>1, <1>4 DEF Reads, FusePcs
  <2>6. FuseInv'
    BY <2>2, <2>4, <2>5, FuseUpdate, NothingFields
  <2>7. CallInv'
    BY <1>8, <1>3, NewCalls DEF FuseFatal, CallInv
  <2> QED BY <1>8, <2>1, <2>3, <2>6, <2>7 DEF FuseFatal, rdVars, RegInv, RdInv, EngInv, RefInv,
           EventsInv
<1>9. CASE FuseMark(r)
  <2>1. fuse[r].file \in Files
    BY <1>1, <1>9 DEF FuseMark
  <2>2. [fuse[r] EXCEPT !.pc = "push"] \in Reads /\ [fuse[r] EXCEPT !.pc = "push"].file = fuse[r].file
    BY <1>1 DEF Reads, FusePcs
  <2>3. FuseInv' /\ CallInv'
    BY <1>9, <1>3, <2>1, <2>2, FuseUpdate, NewCalls DEF FuseMark
  <2> QED BY <1>9, <2>3 DEF FuseMark, rdVars, queueVars, RegInv, RdInv, ChanInv, QueueInv, EngInv,
           RefInv, EventsInv
<1>10. CASE FusePush(r)
  <2>1. fuse[r].file \in Files
    BY <1>1, <1>10 DEF FusePush
  <2>2. [fuse[r] EXCEPT !.pc = "notify"] \in Reads /\ [fuse[r] EXCEPT !.pc = "notify"].file = fuse[r].file
    BY <1>1 DEF Reads, FusePcs
  <2>3. FuseInv' /\ QueueInv'
    BY <1>10, <2>1, <2>2, FuseUpdate DEF FusePush, QueueInv
  <2> QED BY <1>10, <2>3 DEF FusePush, rdVars, RegInv, RdInv, ChanInv, EngInv, RefInv, CallInv,
           EventsInv
<1>11. CASE FuseNotify(r)
  <2> DEFINE y == [fuse[r] EXCEPT !.pc = "wait", !.leader = FALSE]
  <2>1. fuse[r].file \in Files
    BY <1>1, <1>11 DEF FuseNotify
  <2>2. y \in Reads /\ y.file = fuse[r].file
    BY <1>1 DEF Reads, FusePcs
  <2>3. fuse' = [fuse EXCEPT ![r] = IdleRead] \/ fuse' = [fuse EXCEPT ![r] = y]
    BY <1>11 DEF FuseNotify, FuseInv
  <2>4. FuseInv' /\ QueueInv'
    BY <1>11, <2>1, <2>2, <2>3, FuseUpdate, NothingFields DEF FuseNotify, QueueInv
  <2> QED BY <1>11, <2>4 DEF FuseNotify, rdVars, RegInv, RdInv, ChanInv, EngInv, RefInv, CallInv,
           EventsInv
<1>12. CASE FuseWaitOk(r)
  <2> DEFINE y == [fuse[r] EXCEPT !.rx = "none", !.waited = TRUE]
  <2>1. y \in Reads /\ y.file = fuse[r].file /\ fuse[r].file \in Files
    BY <1>1, <1>12 DEF Reads, FusePcs, FuseWaitOk
  <2>2. FuseInv'
    BY <1>12, <2>1, FuseEnsureInv DEF FuseWaitOk
  <2> QED BY <1>12, <2>2 DEF FuseWaitOk, rdVars, queueVars, RegInv, RdInv, ChanInv, QueueInv,
           EngInv, RefInv, CallInv, EventsInv
<1>13. CASE FuseWaitEnds(r)
  BY <1>2, <1>13 DEF FuseWaitEnds, rdVars, queueVars, RegInv, RdInv, ChanInv, QueueInv, EngInv,
     RefInv, CallInv, EventsInv
<1> QED BY <1>5, <1>6, <1>7, <1>8, <1>9, <1>10, <1>11, <1>12, <1>13 DEF FuseStep

LEMMA CopyEnvironment ==
  ASSUME CopyInv, Environment
  PROVE  CopyInv'
<1> USE DEF CopyInv
<1>1. ASSUME NEW f \in Files, LinkDies(f)
      PROVE  CopyInv'
  <2>1. RdInv' /\ EventsInv'
    BY <1>1, HappensFact DEF LinkDies, RdInv, EventsInv
  <2> QED BY <1>1, <2>1 DEF LinkDies, queueVars, RegInv, ChanInv, QueueInv, EngInv, RefInv, FuseInv,
           CallInv
<1>2. ASSUME NEW r \in Readers, NEW f \in Files, FuseStart(r, f)
      PROVE  CopyInv'
  <2>1. [IdleRead EXCEPT !.file = f] \in Reads /\ [IdleRead EXCEPT !.file = f].file = f
    BY NothingFields DEF Reads
  <2>2. FuseInv' /\ EventsInv'
    BY <1>2, <2>1, FuseEnsureInv, HappensFact DEF FuseStart, EventsInv
  <2> QED BY <1>2, <2>2 DEF FuseStart, rdVars, queueVars, RegInv, RdInv, ChanInv, QueueInv, EngInv,
           RefInv, CallInv
<1>3. CASE UserDeletes
  <2>1. RdInv' /\ EventsInv'
    BY <1>3, HappensFact DEF UserDeletes, RdInv, NotOnRd, Ids, EventsInv
  <2> QED BY <1>3, <2>1 DEF UserDeletes, queueVars, RegInv, ChanInv, QueueInv, EngInv, RefInv,
           FuseInv, CallInv
<1>4. CASE UserReadds
  <2>1. RdInv' /\ EventsInv'
    BY <1>4, HappensFact DEF UserReadds, RdInv, Ids, EventsInv
  <2> QED BY <1>4, <2>1 DEF UserReadds, queueVars, RegInv, ChanInv, QueueInv, EngInv, RefInv,
           FuseInv, CallInv
<1>5. CASE Restart
  <2>1. RegInv' /\ EventsInv' /\ QueueInv'
    BY <1>5, HappensFact DEF Restart, RegInv, EventsInv, QueueInv, Resumed
  <2>2. ChanInv' /\ EngInv' /\ FuseInv' /\ CallInv'
    BY <1>5, NothingFields DEF Restart, ChanInv, EngInv, Holding, FuseInv, NoReads, CallInv, NoCalls
  <2>3. RefInv' /\ RdInv'
    BY <1>5 DEF Restart, RefInv, IdleRefresh, RefreshPcs, Copy, rdVars, RdInv
  <2> QED BY <2>1, <2>2, <2>3
<1> QED BY <1>1, <1>2, <1>3, <1>4, <1>5, CopyRefresh DEF Environment

LEMMA CopyStep == CopyInv /\ [Next]_vars => CopyInv'
<1> SUFFICES ASSUME CopyInv, [Next]_vars PROVE CopyInv'
  OBVIOUS
<1>1. CASE UNCHANGED vars
  BY <1>1 DEF vars, CopyInv, RegInv, RdInv, ChanInv, QueueInv, EngInv, RefInv, FuseInv, CallInv,
     EventsInv
<1> QED BY <1>1, CopyEngine, CopyRefresh, CopyFuse, CopyCall, CopyEnvironment DEF Next

(* The entry, the row and every copy on its way keep their types, whatever *)
(* the order in which reads, engine and refresh loop write them back.      *)
THEOREM RegistryTyped == Spec => []TypeOK
<1>1. Copy \subseteq Torrents \cup {Absent}
  BY DEF Copy, Copies
<1>2. ASSUME CopyInv PROVE TypeOK
  <2>1. {reg, row} \subseteq Torrents \cup {Absent}
    BY <1>1, <1>2 DEF CopyInv, RegInv
  <2>2. rd.id \in 0..lastId /\ lastId \in 1..MaxId /\ rd.bad \subseteq Files
    BY <1>2 DEF CopyInv, RdInv, Ids
  <2>3. eng.m \in Torrents \cup {Absent} /\ ref.snap \in Torrents \cup {Absent}
    BY <1>1, <1>2 DEF CopyInv, EngInv, RefInv
  <2>4. {queued, permit} \subseteq BOOLEAN /\ locks \subseteq Files
    BY <1>2 DEF CopyInv, QueueInv
  <2> QED BY <1>2, <2>1, <2>2, <2>3, <2>4 DEF CopyInv, TypeOK, ChanInv, EventsInv
<1> QED BY <1>2, CopyInit, CopyStep, PTL DEF Spec

(* Only a broken torrent is ever marked unrepairable, in memory and in the *)
(* database, although update_torrent_state, the refresh merge and the      *)
(* snapshots of the repair engine overwrite each other's entries.          *)
THEOREM UnrepairableIsBroken == Spec => []ReasonOnlyBroken
<1>1. CopyInv => ReasonOnlyBroken
  BY CopyFields, AbsentFields DEF CopyInv, RegInv, Copy, ReasonOnlyBroken
<1> QED BY <1>1, CopyInit, CopyStep, PTL DEF Spec

(***************************************************************************)
(* Wake-ups: QueuedIsSeen is inductive for well-typed states.              *)
(***************************************************************************)
LEMMA SeenStep == CopyInv /\ QueuedIsSeen /\ [Next]_vars => QueuedIsSeen'
<1> SUFFICES ASSUME CopyInv, QueuedIsSeen, [Next]_vars PROVE QueuedIsSeen'
  OBVIOUS
<1> USE DEF QueuedIsSeen
<1>1. fuse \in [Readers -> Reads] /\ eng.pc \in EnginePcs
      /\ eng \in [pc : EnginePcs, marked : BOOLEAN, m : Copy]
  BY DEF CopyInv, FuseInv, EngInv
<1>2. CASE UNCHANGED vars
  BY <1>2 DEF vars
<1>3. ASSUME NEW p \in Writers, CallStep(p)
      PROVE  QueuedIsSeen'
  BY <1>3 DEF CallStep, CallGet, CallInsert, CallDb, CallDbFails, queueVars, IdleEngine
<1>4. CASE EngineStep
  <2>1. CASE EngineNotified \/ EngineDrain \/ EngineTick
    BY <1>1, <2>1 DEF EngineNotified, EngineDrain, EngineTick
  <2>2. CASE ~ (EngineNotified \/ EngineDrain \/ EngineTick)
    <3>1. queued' = queued /\ permit' = permit /\ fuse' = fuse /\ eng.pc # "drain"
      BY <1>4, <2>2 DEF EngineStep, EngineEnsure, EngineInject, EngineSkips, EngineUnsticks,
         EngineTakes, EngineDefers, EnginePreflight, EngineRepaired, CascadeDeletes, CascadeAdds,
         CascadeDrops, CascadeSucceeds, CascadeEnds, queueVars
    <3> QED BY <3>1
  <2> QED BY <2>1, <2>2
<1>5. CASE RefreshStep \/ RefreshDownloading
  <2>1. queued' = queued /\ permit' = permit /\ eng' = eng
    BY <1>5 DEF RefreshStep, RefreshChanged, RefreshDownloading, RefreshDeletes, RefreshDiff,
       RefreshInsert, RefreshStore, RefreshStoreFails, RefreshDrop, queueVars
  <2>2. \A r \in Readers : fuse[r].pc = "notify" => fuse'[r].pc = "notify"
    BY <1>1, <1>5 DEF RefreshStep, RefreshChanged, RefreshDownloading, RefreshDeletes, RefreshDiff,
       RefreshInsert, RefreshStore, RefreshStoreFails, RefreshDrop, Reads
  <2> QED BY <2>1, <2>2
<1>6. ASSUME NEW r \in Readers, FuseStep(r) \/ \E f \in Files : FuseStart(r, f)
      PROVE  QueuedIsSeen'
  <2>1. CASE FuseNotify(r)
    BY <2>1 DEF FuseNotify
  <2>2. CASE FusePush(r)
    <3>1. fuse'[r].pc = "notify"
      BY <1>1, <2>2 DEF FusePush, Reads
    <3> QED BY <3>1
  <2>3. CASE ~ FuseNotify(r) /\ ~ FusePush(r)
    <3>1. queued' = queued /\ permit' = permit /\ eng' = eng /\ fuse[r].pc # "notify"
      BY <1>6, <2>3 DEF FuseStep, FuseStart, FuseInject, FuseMarkedBroken, FuseServed, FuseFatal,
         FuseMark, FuseWaitOk, FuseWaitEnds, queueVars
    <3>2. \A s \in Readers \ {r} : fuse'[s] = fuse[s]
      BY <1>1, <1>6, <2>3 DEF FuseStep, FuseStart, FuseInject, FuseMarkedBroken, FuseServed, FuseFatal,
         FuseMark, FuseWaitOk, FuseWaitEnds, FuseEnsure, FuseReturns
    <3> QED BY <3>1, <3>2
  <2> QED BY <2>1, <2>2, <2>3
<1>7. CASE \/ \E f \in Files : LinkDies(f)
           \/ UserDeletes \/ UserReadds \/ Restart
  BY <1>7 DEF LinkDies, UserDeletes, UserReadds, Restart, queueVars
<1> QED BY <1>2, <1>3, <1>4, <1>5, <1>6, <1>7 DEF Next, Environment

(* While the key is queued, the engine has been or is being woken: no      *)
(* order of push, notify_one, the engine's notified and its drain of the   *)
(* queue loses a repair.                                                   *)
THEOREM NoWakeUpLost == Spec => []QueuedIsSeen
<1>1. Init => QueuedIsSeen
  BY DEF Init, QueuedIsSeen
<1> QED BY <1>1, CopyInit, CopyStep, SeenStep, PTL DEF Spec

(***************************************************************************)
(* Leaders.  A leader is between its lock and fuse_end_fatal_read_repair,  *)
(* so that no return forgets the lock.                                     *)
(***************************************************************************)
LeaderInv ==
  /\ LeaderExact
  /\ \A r \in Readers : fuse[r].leader => fuse[r].pc \in {"mark", "push", "notify"}

(* A read that leads before and after, or neither before nor after.        *)
LEMMA SameLeaders ==
  ASSUME LeaderInv, locks' = locks,
         \A r \in Readers : /\ fuse'[r].leader = fuse[r].leader
                            /\ fuse[r].leader => /\ fuse'[r].file = fuse[r].file
                                                 /\ fuse'[r].pc \in {"mark", "push", "notify"}
  PROVE  LeaderInv'
<1>1. \A r \in Readers, f \in Files : Leads(r, f)' <=> Leads(r, f)
  BY DEF Leads
<1>2. LeaderExact'
  BY <1>1 DEF LeaderInv, LeaderExact
<1> QED BY <1>2 DEF LeaderInv

LEMMA LeaderStep == CopyInv /\ LeaderInv /\ [Next]_vars => LeaderInv'
<1> SUFFICES ASSUME CopyInv, LeaderInv, [Next]_vars PROVE LeaderInv'
  OBVIOUS
<1>1. fuse \in [Readers -> Reads] /\ \A r \in Readers : fuse[r].pc # "idle" => fuse[r].file \in Files
  BY DEF CopyInv, FuseInv
<1>2. \A r \in Readers : fuse[r].leader => fuse[r].pc \in {"mark", "push", "notify"}
  BY DEF LeaderInv
<1>3. CASE locks' = locks /\ fuse' = fuse
  BY <1>2, <1>3, SameLeaders
<1>4. ASSUME NEW r \in Readers, NEW x \in Reads, x.leader = fuse[r].leader,
             x.leader => x.file = fuse[r].file /\ x.pc \in {"mark", "push", "notify"},
             fuse' = [fuse EXCEPT ![r] = x], locks' = locks
      PROVE  LeaderInv'
  BY <1>1, <1>2, <1>4, SameLeaders
<1>5. CASE RefreshDrop
  <2>1. \A r \in Readers : /\ fuse'[r].leader = fuse[r].leader /\ fuse'[r].file = fuse[r].file
                           /\ fuse'[r].pc = fuse[r].pc
    BY <1>1, <1>5 DEF RefreshDrop, Reads
  <2> QED BY <1>2, <1>5, <2>1, SameLeaders DEF RefreshDrop
<1>6. CASE Restart
  <2>1. \A r \in Readers : fuse'[r].leader = FALSE
    BY <1>6, NothingFields DEF Restart, NoReads
  <2> QED BY <1>6, <2>1 DEF Restart, LeaderInv, LeaderExact, Leads
<1>7. ASSUME NEW r \in Readers, NEW x \in Reads, ~ x.leader, FuseEnsure(r, x),
             ~ fuse[r].leader, locks' = locks
      PROVE  LeaderInv'
  <2>1. CASE FuseReturns(r)
    <3>1. fuse[r].leader = FALSE
      BY <1>1, <1>7 DEF Reads
    <3> QED BY <1>4, <1>7, <2>1, <3>1, NothingFields DEF FuseReturns
  <2>2. ASSUME NEW e \in Ensured,
               fuse' = [fuse EXCEPT ![r] =
                 [x EXCEPT !.m = Links(e.m), !.pc = IF e.answered THEN "inject" ELSE "check"]]
        PROVE  LeaderInv'
    <3>1. \A s \in Readers : fuse'[s].leader = fuse[s].leader /\ (s # r => fuse'[s] = fuse[s])
      BY <1>1, <1>7, <2>2 DEF Reads
    <3> QED BY <1>2, <1>7, <3>1, SameLeaders
  <2> QED BY <1>7, <2>1, <2>2 DEF FuseEnsure
<1>8. ASSUME NEW r \in Readers, FuseStep(r) \/ \E f \in Files : FuseStart(r, f)
      PROVE  LeaderInv'
  <2>1. fuse[r] \in Reads
    BY <1>1, <1>8
  <2>2. CASE FuseReturns(r) /\ ~ fuse[r].leader /\ locks' = locks
    <3>1. fuse[r].leader = FALSE
      BY <2>1, <2>2 DEF Reads
    <3> QED BY <1>4, <2>2, <3>1, NothingFields DEF FuseReturns
  <2>3. CASE \E f \in Files : FuseStart(r, f)
    <3>1. PICK f \in Files : FuseStart(r, f)
      BY <2>3
    <3>2. [IdleRead EXCEPT !.file = f] \in Reads /\ ~ [IdleRead EXCEPT !.file = f].leader
      BY NothingFields DEF Reads
    <3> QED BY <1>2, <1>7, <3>1, <3>2 DEF FuseStart
  <2>4. CASE FuseInject(r)
    <3>1. \A s \in Readers : /\ fuse'[s].leader = fuse[s].leader
                             /\ (s # r => fuse'[s] = fuse[s])
      BY <1>1, <2>4 DEF FuseInject, Reads
    <3> QED BY <1>2, <2>4, <3>1, SameLeaders DEF FuseInject
  <2>5. CASE FuseMarkedBroken(r)
    <3>1. CASE fuse[r].waited
      BY <1>2, <2>2, <2>5, <3>1 DEF FuseMarkedBroken
    <3>2. CASE ~ fuse[r].waited
      <4>1. \A s \in Readers : /\ fuse'[s].leader = fuse[s].leader
                               /\ (s # r => fuse'[s] = fuse[s])
        BY <1>1, <2>5, <3>2 DEF FuseMarkedBroken, Reads
      <4> QED BY <1>2, <2>5, <4>1, SameLeaders DEF FuseMarkedBroken
    <3> QED BY <3>1, <3>2
  <2>6. CASE FuseServed(r) \/ FuseWaitEnds(r)
    BY <1>2, <2>2, <2>6 DEF FuseServed, FuseWaitEnds
  <2>7. CASE FuseFatal(r)
    <3> DEFINE f == fuse[r].file
    <3>1. ~ fuse[r].leader /\ f \in Files
      BY <1>1, <1>2, <2>7 DEF FuseFatal
    <3>2. \A s \in Readers \ {r} : fuse'[s] = fuse[s]
      BY <1>1, <2>7 DEF FuseFatal
    <3>3. CASE f \in locks
      <4>1. fuse'[r].leader = FALSE /\ locks' = locks
        BY <1>1, <2>1, <2>7, <3>3, NothingFields DEF FuseFatal, Reads
      <4> QED BY <1>1, <1>2, <3>1, <3>2, <4>1, SameLeaders DEF Reads
    <3>4. CASE f \notin locks
      <4>1. fuse'[r].leader = TRUE /\ fuse'[r].file = f /\ fuse'[r].pc = "mark" /\ locks' = locks \cup {f}
        BY <1>1, <2>1, <2>7, <3>4 DEF FuseFatal, Reads
      <4>2. \A s \in Readers : ~ Leads(s, f)
        BY <3>1, <3>4 DEF LeaderInv, LeaderExact
      <4>3. \A s \in Readers \ {r}, g \in Files : Leads(s, g)' <=> Leads(s, g)
        BY <3>2 DEF Leads
      <4>4. \A g \in Files : Leads(r, g)' <=> g = f
        BY <4>1 DEF Leads
      <4>5. \A g \in Files : ~ Leads(r, g)
        BY <3>1 DEF Leads
      <4>6. LeaderExact'
        BY <4>1, <4>2, <4>3, <4>4, <4>5 DEF LeaderInv, LeaderExact
      <4> QED BY <1>2, <3>2, <4>1, <4>6 DEF LeaderInv
    <3> QED BY <3>3, <3>4
  <2>8. CASE FuseMark(r) \/ FusePush(r)
    <3>1. \A s \in Readers : /\ fuse'[s].leader = fuse[s].leader /\ fuse'[s].file = fuse[s].file
                             /\ (s # r => fuse'[s] = fuse[s])
                             /\ fuse'[r].pc \in {"push", "notify"}
      BY <1>1, <2>1, <2>8 DEF FuseMark, FusePush, Reads
    <3> QED BY <1>2, <2>8, <3>1, SameLeaders DEF FuseMark, FusePush
  <2>9. CASE FuseNotify(r)
    <3> DEFINE f == fuse[r].file
    <3>1. f \in Files /\ fuse'[r].leader = FALSE /\ \A s \in Readers \ {r} : fuse'[s] = fuse[s]
      BY <1>1, <2>1, <2>9, NothingFields DEF FuseNotify, Reads
    <3>2. \A s \in Readers \ {r}, g \in Files : Leads(s, g)' <=> Leads(s, g)
      BY <3>1 DEF Leads
    <3>3. \A g \in Files : ~ Leads(r, g)'
      BY <3>1 DEF Leads
    <3>4. CASE ~ fuse[r].leader
      <4>1. locks' = locks /\ \A g \in Files : ~ Leads(r, g)
        BY <2>9, <3>4 DEF FuseNotify, Leads
      <4> QED BY <1>2, <3>1, <3>2, <3>3, <4>1 DEF LeaderInv, LeaderExact
    <3>5. CASE fuse[r].leader
      <4>1. locks' = locks \ {f} /\ \A g \in Files : Leads(r, g) <=> g = f
        BY <2>9, <3>5 DEF FuseNotify, Leads
      <4> QED BY <1>2, <3>1, <3>2, <3>3, <4>1 DEF LeaderInv, LeaderExact
    <3> QED BY <3>4, <3>5
  <2>10. CASE FuseWaitOk(r)
    <3>1. ~ fuse[r].leader /\ locks' = locks
      BY <1>2, <2>10 DEF FuseWaitOk
    <3>2. /\ [fuse[r] EXCEPT !.rx = "none", !.waited = TRUE] \in Reads
          /\ ~ [fuse[r] EXCEPT !.rx = "none", !.waited = TRUE].leader
      BY <2>1, <3>1 DEF Reads
    <3> QED BY <1>7, <2>10, <3>1, <3>2 DEF FuseWaitOk
  <2> QED BY <1>8, <2>3, <2>4, <2>5, <2>6, <2>7, <2>8, <2>9, <2>10 DEF FuseStep
<1>9. CASE \/ UNCHANGED vars \/ EngineStep \/ (RefreshStep /\ ~ RefreshDrop) \/ RefreshDownloading
           \/ \E p \in Writers : CallStep(p)
           \/ \E f \in Files : LinkDies(f)
           \/ UserDeletes \/ UserReadds
  BY <1>3, <1>9 DEF vars, EngineStep, EngineNotified, EngineDrain, EngineTick, EngineEnsure,
     EngineInject, EngineSkips, EngineUnsticks, EngineTakes, EngineDefers, EnginePreflight,
     EngineRepaired, CascadeDeletes, CascadeAdds, CascadeDrops, CascadeSucceeds, CascadeEnds,
     RefreshStep, RefreshChanged, RefreshDownloading, RefreshDeletes, RefreshDiff, RefreshInsert,
     RefreshStore, RefreshStoreFails, CallStep, CallGet, CallInsert, CallDb, CallDbFails, LinkDies,
     UserDeletes, UserReadds
<1> QED BY <1>5, <1>6, <1>8, <1>9 DEF Next, Environment, RefreshStep

(* fuse_begin_fatal_read_repair makes one read the leader of a file, and   *)
(* every leader gives its lock back: for any number of reads, the locks    *)
(* are exactly those of the reads that are reporting a dead link.          *)
THEOREM OneLeaderPerFile == Spec => []LeaderExact
<1>1. Init => LeaderInv
  BY NothingFields DEF Init, LeaderInv, LeaderExact, Leads, NoReads
<1>2. LeaderInv => LeaderExact
  BY DEF LeaderInv
<1> QED BY <1>1, <1>2, CopyInit, CopyStep, LeaderStep, PTL DEF Spec
=============================================================================
