---------------------------- MODULE ReadAtProofs ----------------------------
(***************************************************************************)
(* Theorems about ReadAt, for any file size, read size, read-ahead, number *)
(* of reads and of sessions.                                               *)
(***************************************************************************)
EXTENDS ReadAt, FiniteSetTheorems, SequenceTheorems, TLAPS

(* Where a read waits, whatever it waits for next.                         *)
LoopPc == {"check", "sleep", "recheck", "ok", "failed", "cancelled"}

Ids == Sessions \cup {NoSession}
Calls == [pc : {"idle", "join", "guard"} \cup GuardPc, off : Nat, end : Nat, session : Ids,
          next : Ids, owner : BOOLEAN, woken : BOOLEAN]
Downloads == [anchor : Int, until : Int, waiters : Int, cancelled : BOOLEAN,
              task : {"free", "spawned", "running", "done"}, complete : BOOLEAN]

(***************************************************************************)
(* The types, and what each read refers to.                                *)
(***************************************************************************)
CallsOK == rd \in [Readers -> Calls]
SessOK == sess \in [Sessions -> Downloads]
ActiveOK == active \in Seq(Sessions)

LinksOK ==
  \A r \in Readers :
    /\ rd[r].pc \in {"idle", "join"} <=> rd[r].session = NoSession
    /\ rd[r].pc \in {"push", "switch"} <=> rd[r].next # NoSession
    /\ rd[r].next # NoSession => rd[r].next # rd[r].session

(* A free session is nobody's.                                             *)
FreeOK ==
  \A s \in Sessions : sess[s].task = "free" =>
    /\ sess[s] = FreeSession /\ ~Registered(s)
    /\ \A r \in Readers : rd[r].session # s /\ rd[r].next # s

(* A session made by the kicker is its own until it is registered.         *)
NextOwned ==
  \A r, q \in Readers : rd[r].next # NoSession =>
    /\ q # r => rd[q].next # rd[r].next
    /\ rd[r].pc = "push" => rd[q].session # rd[r].next /\ ~Registered(rd[r].next)

(* A session is registered once; a download that goes on is registered, or *)
(* about to be.                                                            *)
RegisteredOnce ==
  \A i, j \in 1..Len(active) : active[i] = active[j] => i = j
Tracked ==
  \A s \in Sessions : sess[s].task \in {"spawned", "running"} =>
    Registered(s) \/ \E r \in Readers : rd[r].pc = "push" /\ rd[r].next = s

(* A read is within the window of its download or beyond its end, never    *)
(* before its start; a complete download has its window on disk.           *)
Anchored ==
  \A r \in Readers :
    /\ rd[r].session # NoSession => sess[rd[r].session].anchor <= rd[r].off
    /\ rd[r].next # NoSession => sess[rd[r].next].anchor <= rd[r].off
WindowOnDisk ==
  \A s \in Sessions : sess[s].complete =>
    sess[s].task = "done" /\ sess[s].anchor..(sess[s].until - 1) \subseteq ranges
FailedIsOver ==
  \A r \in Readers : rd[r].pc = "failed" =>
    /\ sess[rd[r].session].task = "done"
    /\ ~sess[rd[r].session].complete \/ sess[rd[r].session].until < rd[r].end

TypeInv == CallsOK /\ SessOK /\ ActiveOK
LinkInv == LinksOK /\ FreeOK /\ NextOwned /\ RegisteredOnce /\ Tracked
CauseInv == Anchored /\ WindowOnDisk /\ FailedIsOver

ReadInv == TypeInv /\ LinkInv /\ CauseInv /\ WaitersExact /\ NoOrphanDownload

-----------------------------------------------------------------------------
(* The counts, with the calls as a parameter.                              *)
GuardsOf(s, calls) == {r \in Readers : calls[r].session = s /\ calls[r].pc \in GuardPc}

LEMMA WaitersForm ==
  WaitersExact <=> \A s \in Sessions : sess[s].waiters = Cardinality(GuardsOf(s, rd))
BY Zenon DEF WaitersExact, Guards, GuardsOf

LEMMA WaitersFormNext ==
  WaitersExact' <=> \A s \in Sessions : sess'[s].waiters = Cardinality(GuardsOf(s, rd'))
BY Zenon DEF WaitersExact, Guards, GuardsOf

LEMMA GuardsFinite ==
  ASSUME NEW s, NEW calls
  PROVE  IsFiniteSet(GuardsOf(s, calls)) /\ Cardinality(GuardsOf(s, calls)) \in Nat
BY ReadConstants, FS_Subset, FS_CardinalityType DEF GuardsOf

LEMMA OrphanForm ==
  NoOrphanDownload <=>
    \A s \in Sessions : sess[s].task \in {"spawned", "running"} /\ ~sess[s].cancelled =>
      \E r \in Readers : rd[r].session = s \/ rd[r].next = s
BY DEF NoOrphanDownload, Users

LEMMA OrphanFormNext ==
  NoOrphanDownload' <=>
    \A s \in Sessions : sess'[s].task \in {"spawned", "running"} /\ ~sess'[s].cancelled =>
      \E r \in Readers : rd'[r].session = s \/ rd'[r].next = s
BY DEF NoOrphanDownload, Users

LEMMA NoSessionIsNone == NoSession \notin Sessions /\ NoSession \in Int /\ Sessions \subseteq Int
BY ReadConstants DEF NoSession

LEMMA RemoveAtFacts ==
  ASSUME NEW S, NEW q \in Seq(S), NEW i \in 1..Len(q)
  PROVE  /\ RemoveAt(q, i) \in Seq(S)
         /\ Len(RemoveAt(q, i)) = Len(q) - 1
         /\ \A j \in 1..(Len(q) - 1) : RemoveAt(q, i)[j] = IF j < i THEN q[j] ELSE q[j + 1]
<1> DEFINE head == SubSeq(q, 1, i - 1)
           tail == SubSeq(q, i + 1, Len(q))
<1>1. head \in Seq(S) /\ Len(head) = i - 1 /\ \A j \in 1..(i - 1) : head[j] = q[j]
  OBVIOUS
<1>2. tail \in Seq(S) /\ Len(tail) = Len(q) - i /\ \A j \in 1..(Len(q) - i) : tail[j] = q[j + i]
  OBVIOUS
<1>3. RemoveAt(q, i) = head \o tail
  BY DEF RemoveAt
<1> HIDE DEF head, tail
<1>4. head \o tail \in Seq(S) /\ Len(head \o tail) = Len(q) - 1
  BY <1>1, <1>2, ConcatProperties
<1>5. ASSUME NEW j \in 1..(Len(q) - 1)
      PROVE  (head \o tail)[j] = IF j < i THEN q[j] ELSE q[j + 1]
  <2>1. CASE j < i
    BY <1>1, <1>2, <2>1
  <2>2. CASE ~(j < i)
    <3>1. (head \o tail)[j] = tail[j - (i - 1)] /\ j - (i - 1) \in 1..(Len(q) - i)
      BY <1>1, <1>2, <2>2
    <3> QED BY <1>2, <2>2, <3>1, SMTT(30)
  <2> QED BY <2>1, <2>2
<1> QED BY <1>3, <1>4, <1>5

-----------------------------------------------------------------------------
(***************************************************************************)
(* A step that starts a read or moves one within the loop, and leaves the  *)
(* sessions alone; a read that fails has its cause.                        *)
(***************************************************************************)
LoopStep ==
  /\ UNCHANGED << active, sess >> /\ ranges \subseteq ranges' /\ CallsOK'
  /\ \A r \in Readers :
       /\ rd'[r].session = rd[r].session /\ rd'[r].next = rd[r].next
       /\ rd[r].pc # "idle" => rd'[r].off = rd[r].off /\ rd'[r].end = rd[r].end
       /\ \/ rd'[r].pc = rd[r].pc
          \/ {rd[r].pc, rd'[r].pc} \subseteq LoopPc
          \/ rd[r].pc = "idle" /\ rd'[r].pc = "join"
       /\ rd'[r].pc = "failed" /\ rd[r].pc # "failed" =>
            /\ sess[rd[r].session].task = "done"
            /\ ~sess[rd[r].session].complete \/ sess[rd[r].session].until < rd[r].end

LEMMA LoopKeeps ==
  ASSUME ReadInv, LoopStep
  PROVE  ReadInv'
<1>0. \A r \in Readers :
        /\ rd'[r].pc \in {"idle", "join"} <=> rd[r].pc \in {"idle", "join"}
        /\ \A x \in {"guard", "push", "switch"} : rd'[r].pc = x <=> rd[r].pc = x
        /\ rd[r].pc = "idle" => rd[r].session = NoSession /\ rd[r].next = NoSession
  BY DEF ReadInv, LinkInv, LinksOK, LoopStep, LoopPc
<1>1. TypeInv'
  BY DEF ReadInv, TypeInv, SessOK, ActiveOK, LoopStep
<1>2. LinksOK'
  BY <1>0 DEF ReadInv, LinkInv, LinksOK, LoopStep
<1>3. FreeOK'
  BY DEF ReadInv, LinkInv, FreeOK, LoopStep, Registered
<1>4. NextOwned'
  BY <1>0 DEF ReadInv, LinkInv, NextOwned, LoopStep, Registered
<1>5. RegisteredOnce' /\ Tracked'
  BY <1>0 DEF ReadInv, LinkInv, RegisteredOnce, Tracked, LoopStep, Registered
<1>6. Anchored' /\ WindowOnDisk'
  BY <1>0 DEF ReadInv, CauseInv, Anchored, WindowOnDisk, LoopStep
<1>7. FailedIsOver'
  <2> SUFFICES ASSUME NEW r \in Readers, rd'[r].pc = "failed"
               PROVE  /\ sess[rd[r].session].task = "done"
                      /\ ~sess[rd[r].session].complete \/ sess[rd[r].session].until < rd[r].end
    BY <1>0 DEF FailedIsOver, LoopStep
  <2> QED BY DEF ReadInv, CauseInv, FailedIsOver, LoopStep
<1>8. \A s \in Sessions : GuardsOf(s, rd') = GuardsOf(s, rd)
  BY DEF GuardsOf, LoopStep, LoopPc, GuardPc
<1>9. WaitersExact'
  BY <1>8, WaitersForm, WaitersFormNext DEF ReadInv, LoopStep
<1>10. NoOrphanDownload'
  BY OrphanForm, OrphanFormNext DEF ReadInv, LoopStep
<1> QED BY <1>1, <1>2, <1>3, <1>4, <1>5, <1>6, <1>7, <1>9, <1>10 DEF ReadInv, LinkInv, CauseInv

LEMMA StartReadInv ==
  ASSUME ReadInv, NEW r \in Readers, NEW off \in 0..(ItemSize - 1), NEW size \in 1..ReadSize,
         StartRead(r, off, size)
  PROVE  ReadInv'
<1> DEFINE e == Lesser(off + size, ItemSize)
           c == [IdleRead EXCEPT !.pc = "join", !.off = off, !.end = e]
<1>0. off \in Nat /\ e \in Nat
  BY ReadConstants DEF Lesser
<1>1. rd' = [rd EXCEPT ![r] = c]
  BY Zenon DEF StartRead
<1> HIDE DEF e
<1>2. c \in Calls /\ c.session = NoSession /\ c.next = NoSession /\ c.pc = "join"
  BY <1>0, NoSessionIsNone DEF IdleRead, Calls, Ids
<1> HIDE DEF c
<1>3. /\ rd'[r].session = NoSession /\ rd'[r].next = NoSession /\ rd'[r].pc = "join"
      /\ \A q \in Readers \ {r} : rd'[q] = rd[q]
      /\ CallsOK'
  BY <1>1, <1>2 DEF ReadInv, TypeInv, CallsOK
<1>4. rd[r].session = NoSession /\ rd[r].next = NoSession /\ rd[r].pc = "idle"
  BY DEF ReadInv, LinkInv, LinksOK, StartRead
<1>5. UNCHANGED << ranges, active, sess >>
  BY DEF StartRead
<1>6. LoopStep
  <2>1. ASSUME NEW q \in Readers, q # r PROVE rd'[q] = rd[q]
    BY <1>3, <2>1
  <2> QED BY <1>3, <1>4, <1>5, <2>1 DEF LoopStep
<1> QED BY <1>6, LoopKeeps

LEMMA CheckInv == ASSUME ReadInv, NEW r \in Readers, Check(r) PROVE ReadInv'
BY LoopKeeps DEF ReadInv, TypeInv, CallsOK, Calls, Check, LoopStep, LoopPc, GuardPc

LEMMA WakeUpInv == ASSUME ReadInv, NEW r \in Readers, WakeUp(r) PROVE ReadInv'
BY LoopKeeps, ZenonT(60) DEF ReadInv, TypeInv, CallsOK, Calls, WakeUp, LoopStep, LoopPc, GuardPc

LEMMA InterruptInv == ASSUME ReadInv, NEW r \in Readers, Interrupt(r) PROVE ReadInv'
BY LoopKeeps, ZenonT(60) DEF ReadInv, TypeInv, CallsOK, Calls, Interrupt, LoopStep, LoopPc, GuardPc

(* The one step that makes a read fail: its session is over, and had it    *)
(* been complete and long enough, the bytes would be there.                *)
LEMMA RecheckInv == ASSUME ReadInv, NEW r \in Readers, Recheck(r) PROVE ReadInv'
<1> DEFINE s == rd[r].session
<1>1. s \in Sessions /\ rd[r] \in Calls /\ rd[r].off \in Nat /\ rd[r].end \in Nat
      /\ sess[s] \in Downloads
  BY DEF ReadInv, TypeInv, CallsOK, SessOK, Calls, Ids, LinkInv, LinksOK, Recheck
<1>2. ASSUME rd'[r].pc = "failed"
      PROVE  sess[s].task = "done" /\ ~OnDisk(rd[r].off, rd[r].end)
  <2>1. ~OnDisk(rd[r].off, rd[r].end)
    BY <1>1, <1>2 DEF ReadInv, TypeInv, CallsOK, Calls, Recheck
  <2>2. IF rd[r].owner THEN sess[s].task = "done" ELSE ~Registered(s)
    BY <1>1, <1>2, <2>1 DEF ReadInv, TypeInv, CallsOK, Calls, Recheck
  <2>3. ASSUME ~Registered(s) PROVE sess[s].task = "done"
    <3>1. sess[s].task # "free"
      BY <1>1 DEF ReadInv, LinkInv, FreeOK
    <3>2. \A q \in Readers : ~(rd[q].pc = "push" /\ rd[q].next = s)
      BY <1>1, NoSessionIsNone DEF ReadInv, LinkInv, NextOwned
    <3> QED BY <1>1, <2>3, <3>1, <3>2 DEF ReadInv, LinkInv, Tracked, Downloads
  <2> QED BY <2>1, <2>2, <2>3
<1>3. ASSUME ~OnDisk(rd[r].off, rd[r].end), sess[s].complete
      PROVE  sess[s].until < rd[r].end
  <2>1. sess[s].anchor <= rd[r].off /\ sess[s].anchor..(sess[s].until - 1) \subseteq ranges
    BY <1>1, <1>3, NoSessionIsNone DEF ReadInv, CauseInv, Anchored, WindowOnDisk
  <2>2. PICK b \in rd[r].off..(rd[r].end - 1) : b \notin ranges
    BY <1>3 DEF OnDisk
  <2>3. ~(b \in sess[s].anchor..(sess[s].until - 1))
    BY <2>1, <2>2
  <2> QED BY <1>1, <2>1, <2>2, <2>3 DEF Downloads
<1>4. /\ UNCHANGED << active, sess, ranges >>
      /\ rd' = [rd EXCEPT ![r].pc = rd'[r].pc] /\ rd'[r].pc \in {"ok", "failed", "check"}
  BY <1>1 DEF ReadInv, TypeInv, CallsOK, Recheck
<1>5. rd[r].pc = "recheck"
  BY DEF Recheck
<1>6. LoopStep
  <2>1. CallsOK'
    BY <1>4 DEF ReadInv, TypeInv, CallsOK, Calls, GuardPc
  <2>2. \A q \in Readers \ {r} : rd'[q] = rd[q]
    BY <1>4 DEF ReadInv, TypeInv, CallsOK
  <2>3. /\ rd'[r].session = rd[r].session /\ rd'[r].next = rd[r].next
        /\ rd'[r].off = rd[r].off /\ rd'[r].end = rd[r].end
    BY <1>1, <1>4 DEF ReadInv, TypeInv, CallsOK, Calls
  <2> QED BY <1>2, <1>3, <1>4, <1>5, <2>1, <2>2, <2>3 DEF LoopStep, LoopPc
<1> QED BY <1>6, LoopKeeps

(* notify_waiters moves nobody.                                            *)
LEMMA NotifiedFacts ==
  ASSUME ReadInv
  PROVE  /\ Notified(rd) \in [Readers -> Calls]
         /\ \A r \in Readers :
              /\ Notified(rd)[r].session = rd[r].session /\ Notified(rd)[r].next = rd[r].next
              /\ Notified(rd)[r].off = rd[r].off /\ Notified(rd)[r].end = rd[r].end
              /\ Notified(rd)[r].pc = rd[r].pc
<1>1. \A c \in Calls : LET d == [c EXCEPT !.woken = TRUE]
                       IN  /\ d \in Calls /\ d.session = c.session /\ d.next = c.next
                           /\ d.off = c.off /\ d.end = c.end /\ d.pc = c.pc
  BY DEF Calls
<1> QED BY <1>1 DEF ReadInv, TypeInv, CallsOK, Notified

LEMMA TaskWriteInv ==
  ASSUME ReadInv, NEW s \in Sessions, NEW b, TaskWrite(s, b)
  PROVE  ReadInv'
<1>1. CallsOK' /\ \A r \in Readers :
        /\ rd'[r].session = rd[r].session /\ rd'[r].next = rd[r].next
        /\ rd'[r].off = rd[r].off /\ rd'[r].end = rd[r].end /\ rd'[r].pc = rd[r].pc
  BY NotifiedFacts DEF CallsOK, TaskWrite
<1>2. UNCHANGED << active, sess >> /\ ranges \subseteq ranges'
  BY DEF TaskWrite
<1> QED BY <1>1, <1>2, LoopKeeps DEF LoopStep

-----------------------------------------------------------------------------
(* The first session that covers the offset: it is registered.             *)
LEMMA JoinExistingInv == ASSUME ReadInv, NEW r \in Readers, JoinExisting(r) PROVE ReadInv'
<1>1. PICK i \in 1..Len(active) : /\ sess[active[i]].anchor <= rd[r].off
                                  /\ rd' = [rd EXCEPT ![r].session = active[i], ![r].pc = "guard"]
  BY DEF JoinExisting, Covering, Covers
<1> DEFINE s == active[i]
<1>2. s \in Sessions /\ Registered(s)
  BY <1>1 DEF ReadInv, TypeInv, ActiveOK, Registered
<1>3. /\ rd'[r].session = s /\ rd'[r].pc = "guard"
      /\ rd'[r].next = rd[r].next /\ rd'[r].off = rd[r].off /\ rd'[r].end = rd[r].end
      /\ \A q \in Readers \ {r} : rd'[q] = rd[q]
  BY <1>1 DEF ReadInv, TypeInv, CallsOK, Calls
<1>4. rd[r].pc = "join" /\ rd[r].session = NoSession /\ rd[r].next = NoSession
      /\ UNCHANGED << ranges, active, sess >>
  BY DEF ReadInv, LinkInv, LinksOK, JoinExisting
<1> HIDE DEF s
<1>5. TypeInv'
  BY <1>1, <1>2, <1>4, ZenonT(60) DEF s, ReadInv, TypeInv, CallsOK, SessOK, ActiveOK, Calls, Ids
<1>6. LinksOK'
  BY <1>2, <1>3, <1>4, NoSessionIsNone DEF ReadInv, LinkInv, LinksOK
<1>7. FreeOK' /\ NextOwned'
  BY <1>2, <1>3, <1>4, NoSessionIsNone DEF ReadInv, LinkInv, FreeOK, NextOwned, Registered
<1>8. RegisteredOnce' /\ Tracked'
  BY <1>3, <1>4 DEF ReadInv, LinkInv, RegisteredOnce, Tracked, Registered
<1>9. CauseInv'
  BY <1>1, <1>3, <1>4, ZenonT(60) DEF s, ReadInv, CauseInv, Anchored, WindowOnDisk, FailedIsOver
<1>10. \A t \in Sessions : GuardsOf(t, rd') = GuardsOf(t, rd)
  BY <1>3, <1>4 DEF GuardsOf, GuardPc
<1>11. WaitersExact'
  BY <1>4, <1>10, WaitersForm, WaitersFormNext DEF ReadInv
<1>12. NoOrphanDownload'
  BY <1>3, <1>4, NoSessionIsNone, OrphanForm, OrphanFormNext DEF ReadInv
<1> QED BY <1>5, <1>6, <1>7, <1>8, <1>9, <1>11, <1>12 DEF ReadInv, LinkInv

LEMMA TakeGuardInv == ASSUME ReadInv, NEW r \in Readers, TakeGuard(r) PROVE ReadInv'
<1> DEFINE s == rd[r].session
<1>1. s \in Sessions /\ rd[r].pc = "guard" /\ UNCHANGED << ranges, active >>
  BY DEF ReadInv, TypeInv, CallsOK, Calls, Ids, LinkInv, LinksOK, TakeGuard
<1>2. /\ rd'[r].pc = "check" /\ rd'[r].session = s
      /\ rd'[r].next = rd[r].next /\ rd'[r].off = rd[r].off /\ rd'[r].end = rd[r].end
      /\ \A q \in Readers \ {r} : rd'[q] = rd[q]
  BY DEF ReadInv, TypeInv, CallsOK, Calls, TakeGuard
<1>3. /\ sess'[s].waiters = sess[s].waiters + 1
      /\ sess'[s].anchor = sess[s].anchor /\ sess'[s].until = sess[s].until
      /\ sess'[s].task = sess[s].task /\ sess'[s].cancelled = sess[s].cancelled
      /\ sess'[s].complete = sess[s].complete
      /\ \A t \in Sessions \ {s} : sess'[t] = sess[t]
  BY <1>1 DEF ReadInv, TypeInv, SessOK, Downloads, TakeGuard
<1>4. sess[s].task # "free"
  BY <1>1 DEF ReadInv, LinkInv, FreeOK
<1>5. TypeInv'
  <2>1. CallsOK'
    BY DEF ReadInv, TypeInv, CallsOK, Calls, GuardPc, TakeGuard
  <2>2. [sess[s] EXCEPT !.waiters = @ + 1] \in Downloads
    BY <1>1 DEF ReadInv, TypeInv, SessOK, Downloads
  <2>3. SessOK'
    BY <1>1, <2>2 DEF ReadInv, TypeInv, SessOK, TakeGuard
  <2> QED BY <1>1, <2>1, <2>3 DEF ReadInv, TypeInv, ActiveOK
<1> HIDE DEF s
<1>6. LinksOK'
  BY <1>1, <1>2, NoSessionIsNone DEF ReadInv, LinkInv, LinksOK
<1>7. FreeOK' /\ NextOwned'
  BY <1>1, <1>2, <1>3, <1>4 DEF s, ReadInv, LinkInv, FreeOK, NextOwned, Registered
<1>8. RegisteredOnce' /\ Tracked'
  BY <1>1, <1>2, <1>3 DEF ReadInv, LinkInv, RegisteredOnce, Tracked, Registered
<1>9. CauseInv'
  <2>1. \A q \in Readers : /\ rd'[q].session = rd[q].session /\ rd'[q].next = rd[q].next
                           /\ rd'[q].off = rd[q].off /\ rd'[q].end = rd[q].end
                           /\ rd'[q].pc = "failed" => rd[q].pc = "failed"
    BY <1>2 DEF s
  <2>2. \A t \in Sessions : /\ sess'[t].anchor = sess[t].anchor /\ sess'[t].until = sess[t].until
                            /\ sess'[t].task = sess[t].task
                            /\ sess'[t].complete = sess[t].complete
    BY <1>3
  <2>0. \A q \in Readers : rd[q].session \in Ids /\ rd[q].next \in Ids
                           /\ (rd[q].pc = "failed" => rd[q].session # NoSession)
    BY DEF ReadInv, TypeInv, CallsOK, Calls, LinkInv, LinksOK
  <2>3. Anchored'
    BY <2>0, <2>1, <2>2 DEF ReadInv, Ids, CauseInv, Anchored
  <2>5. FailedIsOver'
    BY <2>0, <2>1, <2>2 DEF ReadInv, Ids, CauseInv, FailedIsOver
  <2>4. WindowOnDisk'
    BY <1>1, <2>2 DEF ReadInv, CauseInv, WindowOnDisk
  <2> QED BY <2>3, <2>4, <2>5 DEF CauseInv
<1>10. /\ \A t \in Sessions \ {s} : GuardsOf(t, rd') = GuardsOf(t, rd)
       /\ GuardsOf(s, rd') = GuardsOf(s, rd) \cup {r} /\ r \notin GuardsOf(s, rd)
  BY <1>1, <1>2 DEF s, GuardsOf, GuardPc
<1>11. Cardinality(GuardsOf(s, rd')) = Cardinality(GuardsOf(s, rd)) + 1
  BY <1>10, GuardsFinite, FS_AddElement, ZenonT(60)
<1>12. WaitersExact'
  BY <1>1, <1>3, <1>10, <1>11, WaitersForm, WaitersFormNext DEF ReadInv
<1>13. NoOrphanDownload'
  BY <1>1, <1>2, <1>3, OrphanForm, OrphanFormNext DEF s, ReadInv
<1> QED BY <1>5, <1>6, <1>7, <1>8, <1>9, <1>12, <1>13 DEF ReadInv, LinkInv

(* A new session.                                                          *)
LEMMA SpawnedFacts ==
  ASSUME NEW off \in Nat, NEW end \in Nat
  PROVE  /\ Spawned(off, end) \in Downloads
         /\ Spawned(off, end).anchor = off /\ Spawned(off, end).waiters = 0
         /\ Spawned(off, end).task = "spawned" /\ ~Spawned(off, end).complete
<1> DEFINE u == Lesser(end + ReadAhead, ItemSize)
<1>1. u \in Int
  BY ReadConstants DEF Lesser
<1>2. Spawned(off, end) = [FreeSession EXCEPT !.anchor = off, !.until = u, !.task = "spawned"]
  BY Zenon DEF Spawned
<1> HIDE DEF u
<1> DEFINE d == [FreeSession EXCEPT !.anchor = off, !.until = u, !.task = "spawned"]
<1>3. d.anchor = off /\ d.waiters = 0 /\ d.task = "spawned"
  BY DEF FreeSession
<1>4. d.complete = FALSE
  BY DEF FreeSession
<1>5. d \in Downloads
  <2>1. FreeSession \in Downloads
    BY DEF FreeSession, Downloads
  <2>2. \A x \in Downloads, i, j \in Int :
          [x EXCEPT !.anchor = i, !.until = j, !.task = "spawned"] \in Downloads
    BY DEF Downloads
  <2>3. off \in Int
    OBVIOUS
  <2> QED BY <1>1, <2>1, <2>2, <2>3, Zenon
<1> QED BY <1>2, <1>3, <1>4, <1>5

LEMMA JoinSpawnInv == ASSUME ReadInv, NEW r \in Readers, JoinSpawn(r) PROVE ReadInv'
<1>1. rd[r] \in Calls /\ rd[r].off \in Nat /\ rd[r].end \in Nat /\ rd[r].pc = "join"
      /\ rd[r].session = NoSession /\ rd[r].next = NoSession /\ UNCHANGED ranges
  BY DEF ReadInv, TypeInv, CallsOK, Calls, LinkInv, LinksOK, JoinSpawn
<1>2. PICK s \in Unused :
        /\ sess' = [sess EXCEPT ![s] = Spawned(rd[r].off, rd[r].end)]
        /\ active' = Append(active, s)
        /\ rd' = [rd EXCEPT ![r].session = s, ![r].owner = TRUE, ![r].pc = "guard"]
  BY Zenon DEF JoinSpawn
<1>3. s \in Sessions /\ sess[s].task = "free" /\ sess[s] = FreeSession /\ ~Registered(s)
      /\ \A q \in Readers : rd[q].session # s /\ rd[q].next # s
  BY DEF Unused, ReadInv, LinkInv, FreeOK
<1>4. /\ rd'[r].session = s /\ rd'[r].pc = "guard"
      /\ rd'[r].next = rd[r].next /\ rd'[r].off = rd[r].off /\ rd'[r].end = rd[r].end
      /\ \A q \in Readers \ {r} : rd'[q] = rd[q]
  BY <1>1, <1>2 DEF ReadInv, TypeInv, CallsOK, Calls
<1>5. /\ sess'[s].anchor = rd[r].off /\ sess'[s].waiters = 0
      /\ sess'[s].task = "spawned" /\ ~sess'[s].complete
      /\ \A t \in Sessions \ {s} : sess'[t] = sess[t]
  BY <1>1, <1>2, <1>3, SpawnedFacts DEF ReadInv, TypeInv, SessOK
<1>6. TypeInv'
  <2>1. CallsOK'
    <3>1. \A c \in Calls : [c EXCEPT !.session = s, !.owner = TRUE, !.pc = "guard"] \in Calls
      BY <1>3 DEF Calls, Ids
    <3> QED BY <1>2, <3>1 DEF ReadInv, TypeInv, CallsOK
  <2>2. SessOK'
    BY <1>1, <1>2, SpawnedFacts DEF ReadInv, TypeInv, SessOK
  <2>3. ActiveOK'
    BY <1>2, <1>3, AppendProperties DEF ReadInv, TypeInv, ActiveOK
  <2> QED BY <2>1, <2>2, <2>3 DEF TypeInv
<1>7. /\ Len(active') = Len(active) + 1 /\ Len(active) \in Nat
      /\ \A i \in 1..Len(active) : active'[i] = active[i]
      /\ active'[Len(active) + 1] = s
  BY <1>2, <1>3 DEF ReadInv, TypeInv, ActiveOK
<1>8. \A t \in Sessions : Registered(t)' <=> Registered(t) \/ t = s
  BY <1>7 DEF Registered
<1>9. LinksOK'
  BY <1>1, <1>3, <1>4, NoSessionIsNone DEF ReadInv, LinkInv, LinksOK
<1>10. FreeOK'
  BY <1>3, <1>4, <1>5, <1>8 DEF ReadInv, LinkInv, FreeOK
<1>11. NextOwned'
  <2> SUFFICES ASSUME NEW p \in Readers, NEW q \in Readers, rd'[p].next # NoSession
               PROVE  /\ q # p => rd'[q].next # rd'[p].next
                      /\ rd'[p].pc = "push" => rd'[q].session # rd'[p].next
                                               /\ ~\E i \in 1..Len(active') : active'[i] = rd[p].next
    BY <1>4, <1>1 DEF NextOwned, Registered
  <2>1. p # r /\ rd'[p] = rd[p] /\ rd[p].next \in Sessions /\ rd[p].next # s
    BY <1>1, <1>3, <1>4 DEF ReadInv, TypeInv, CallsOK, Calls, Ids
  <2>2. /\ q # p => rd[q].next # rd[p].next
        /\ rd[p].pc = "push" => rd[q].session # rd[p].next /\ ~Registered(rd[p].next)
    BY <2>1 DEF ReadInv, LinkInv, NextOwned
  <2>3. rd'[q].next = rd[q].next /\ (rd'[q].session = rd[q].session \/ rd'[q].session = s)
    BY <1>4
  <2> QED BY <1>8, <2>1, <2>2, <2>3 DEF Registered
<1>12. RegisteredOnce'
  BY <1>3, <1>7 DEF ReadInv, LinkInv, RegisteredOnce, Registered
<1>13. Tracked'
  BY <1>1, <1>4, <1>5, <1>8 DEF ReadInv, LinkInv, Tracked
<1>14. Anchored'
  <2>1. rd'[r].session # NoSession => sess'[rd'[r].session].anchor <= rd'[r].off
    BY <1>1, <1>4, <1>5
  <2>2. rd'[r].next = NoSession
    BY <1>1, <1>4
  <2>3. ASSUME NEW q \in Readers \ {r}
        PROVE  /\ rd'[q].session # NoSession => sess'[rd'[q].session].anchor <= rd'[q].off
               /\ rd'[q].next # NoSession => sess'[rd'[q].next].anchor <= rd'[q].off
    BY <1>3, <1>4, <1>5 DEF ReadInv, TypeInv, CallsOK, Calls, Ids, CauseInv, Anchored
  <2> QED BY <2>1, <2>2, <2>3 DEF Anchored
<1>15. WindowOnDisk'
  BY <1>1, <1>5 DEF ReadInv, CauseInv, WindowOnDisk
<1>16. FailedIsOver'
  <2> SUFFICES ASSUME NEW q \in Readers, rd'[q].pc = "failed"
               PROVE  /\ sess'[rd'[q].session].task = "done"
                      /\ \/ ~sess'[rd'[q].session].complete
                         \/ sess'[rd'[q].session].until < rd'[q].end
    BY DEF FailedIsOver
  <2>1. q # r /\ rd'[q] = rd[q]
    BY <1>4
  <2>2. rd[q].session \in Sessions \ {s}
    BY <1>3, <2>1 DEF ReadInv, TypeInv, CallsOK, Calls, Ids, LinkInv, LinksOK
  <2> QED BY <1>5, <2>1, <2>2 DEF ReadInv, CauseInv, FailedIsOver
<1>17. /\ \A t \in Sessions : GuardsOf(t, rd') = GuardsOf(t, rd)
       /\ GuardsOf(s, rd) = {} /\ Cardinality({}) = 0
  BY <1>1, <1>3, <1>4, FS_EmptySet DEF GuardsOf, GuardPc
<1>18. WaitersExact'
  BY <1>3, <1>5, <1>17, WaitersForm, WaitersFormNext DEF ReadInv
<1>19. NoOrphanDownload'
  BY <1>1, <1>3, <1>4, <1>5, NoSessionIsNone, OrphanForm, OrphanFormNext DEF ReadInv
<1> QED BY <1>6, <1>9, <1>10, <1>11, <1>12, <1>13, <1>14, <1>15, <1>16, <1>18, <1>19
        DEF ReadInv, LinkInv, CauseInv

(* The kicker cancels its session and makes another one.                   *)
LEMMA KickInv == ASSUME ReadInv, NEW r \in Readers, Kick(r) PROVE ReadInv'
<1> DEFINE o == rd[r].session
<1>1. /\ rd[r] \in Calls /\ rd[r].off \in Nat /\ rd[r].end \in Nat /\ rd[r].pc = "sleep"
      /\ o \in Sessions /\ rd[r].next = NoSession /\ UNCHANGED << ranges, active >>
  BY DEF ReadInv, TypeInv, CallsOK, Calls, Ids, LinkInv, LinksOK, Kick
<1>2. PICK s \in Unused :
        /\ sess' = [sess EXCEPT ![o].cancelled = TRUE, ![s] = Spawned(rd[r].off, rd[r].end)]
        /\ rd' = [rd EXCEPT ![r].next = s, ![r].pc = "push"]
  BY Zenon DEF Kick
<1>3. s \in Sessions /\ sess[s].task = "free" /\ sess[s] = FreeSession /\ ~Registered(s)
      /\ (\A q \in Readers : rd[q].session # s /\ rd[q].next # s) /\ s # NoSession
  BY NoSessionIsNone DEF Unused, ReadInv, LinkInv, FreeOK
<1>4. /\ rd'[r].next = s /\ rd'[r].pc = "push" /\ rd'[r].session = o
      /\ rd'[r].off = rd[r].off /\ rd'[r].end = rd[r].end
      /\ \A q \in Readers \ {r} : rd'[q] = rd[q]
  BY <1>1, <1>2 DEF ReadInv, TypeInv, CallsOK, Calls
<1>5. o # s
  BY <1>3
<1>6. /\ sess'[s].anchor = rd[r].off /\ sess'[s].waiters = 0
      /\ sess'[s].task = "spawned" /\ sess'[s].complete = FALSE
  BY <1>1, <1>2, <1>3, <1>5, SpawnedFacts DEF ReadInv, TypeInv, SessOK
<1>7. \A t \in Sessions \ {s} :
        /\ sess'[t].anchor = sess[t].anchor /\ sess'[t].until = sess[t].until
        /\ sess'[t].waiters = sess[t].waiters
        /\ sess'[t].task = sess[t].task /\ sess'[t].complete = sess[t].complete
        /\ t # o => sess'[t] = sess[t]
        /\ ~sess'[t].cancelled => ~sess[t].cancelled
  BY <1>1, <1>2, <1>3, <1>5 DEF ReadInv, TypeInv, SessOK, Downloads
<1>8. TypeInv'
  <2>1. CallsOK'
    <3>1. \A c \in Calls : [c EXCEPT !.next = s, !.pc = "push"] \in Calls
      BY <1>3 DEF Calls, Ids, GuardPc
    <3> QED BY <1>2, <3>1 DEF ReadInv, TypeInv, CallsOK
  <2>2. [sess[o] EXCEPT !.cancelled = TRUE] \in Downloads
    <3>1. \A d \in Downloads : [d EXCEPT !.cancelled = TRUE] \in Downloads
      BY DEF Downloads
    <3> QED BY <1>1, <3>1 DEF ReadInv, TypeInv, SessOK
  <2>3. SessOK'
    BY <1>1, <1>2, <1>3, <1>5, <2>2, SpawnedFacts DEF ReadInv, TypeInv, SessOK
  <2> QED BY <1>1, <2>1, <2>3 DEF ReadInv, TypeInv, ActiveOK
<1> HIDE DEF o
<1>9. LinksOK'
  BY <1>1, <1>3, <1>4, <1>5, NoSessionIsNone DEF ReadInv, LinkInv, LinksOK
<1>10. sess[o].task # "free"
  BY <1>1 DEF o, ReadInv, LinkInv, FreeOK
<1>11. FreeOK'
  BY <1>1, <1>3, <1>4, <1>6, <1>7, <1>10 DEF ReadInv, LinkInv, FreeOK, Registered
<1>12. NextOwned'
  <2>1. \A q \in Readers : rd'[q].session = rd[q].session /\ (q # r => rd'[q].next = rd[q].next)
                           /\ (q # r => rd'[q].pc = rd[q].pc)
    BY <1>4 DEF o
  <2>2. Registered(s)' = Registered(s)
    BY <1>1 DEF Registered
  <2> QED BY <1>1, <1>3, <1>4, <2>1, <2>2 DEF ReadInv, LinkInv, NextOwned, Registered
<1>13. RegisteredOnce'
  BY <1>1 DEF ReadInv, LinkInv, RegisteredOnce
<1>14. Tracked'
  BY <1>1, <1>4, <1>6, <1>7 DEF ReadInv, LinkInv, Tracked, Registered
<1>15. \A q \in Readers : /\ rd[q].session \in Ids /\ rd[q].next \in Ids
                          /\ rd[q].pc = "failed" => rd[q].session # NoSession
  BY DEF ReadInv, TypeInv, CallsOK, Calls, LinkInv, LinksOK
<1>16. Anchored'
  <2>1. ASSUME NEW q \in Readers, rd[q].session # NoSession
        PROVE  sess'[rd[q].session].anchor <= rd[q].off
    BY <1>3, <1>7, <1>15, <2>1 DEF Ids, ReadInv, CauseInv, Anchored
  <2>2. ASSUME NEW q \in Readers, rd[q].next # NoSession
        PROVE  sess'[rd[q].next].anchor <= rd[q].off
    BY <1>3, <1>7, <1>15, <2>2 DEF Ids, ReadInv, CauseInv, Anchored
  <2>3. sess'[s].anchor <= rd[r].off
    BY <1>1, <1>6
  <2> QED BY <1>1, <1>4, <2>1, <2>2, <2>3 DEF o, Anchored
<1>17. WindowOnDisk'
  BY <1>1, <1>6, <1>7 DEF ReadInv, CauseInv, WindowOnDisk
<1>18. FailedIsOver'
  BY <1>3, <1>4, <1>7, <1>15 DEF Ids, ReadInv, CauseInv, FailedIsOver
<1>19. /\ \A t \in Sessions : GuardsOf(t, rd') = GuardsOf(t, rd)
       /\ GuardsOf(s, rd) = {} /\ Cardinality({}) = 0
  BY <1>1, <1>3, <1>4, FS_EmptySet DEF o, GuardsOf, GuardPc
<1>20. WaitersExact'
  BY <1>3, <1>6, <1>7, <1>19, WaitersForm, WaitersFormNext DEF ReadInv
<1>21. NoOrphanDownload'
  <2>1. \A q \in Readers : rd'[q].session = rd[q].session /\ (q # r => rd'[q].next = rd[q].next)
    BY <1>4 DEF o
  <2> QED BY <1>1, <1>3, <1>4, <1>6, <1>7, <2>1, NoSessionIsNone, OrphanForm, OrphanFormNext
          DEF ReadInv
<1> QED BY <1>8, <1>9, <1>11, <1>12, <1>13, <1>14, <1>16, <1>17, <1>18, <1>20, <1>21
        DEF ReadInv, LinkInv, CauseInv

LEMMA KickPushInv == ASSUME ReadInv, NEW r \in Readers, KickPush(r) PROVE ReadInv'
<1> DEFINE s == rd[r].next
<1>1. /\ s \in Sessions /\ rd[r].pc = "push" /\ UNCHANGED << ranges, sess >>
      /\ active' = Append(active, s)
  BY DEF ReadInv, TypeInv, CallsOK, Calls, Ids, LinkInv, LinksOK, KickPush
<1>2. /\ rd'[r].pc = "switch" /\ rd'[r].next = s /\ rd'[r].session = rd[r].session
      /\ rd'[r].off = rd[r].off /\ rd'[r].end = rd[r].end
      /\ \A q \in Readers \ {r} : rd'[q] = rd[q]
  BY DEF ReadInv, TypeInv, CallsOK, Calls, KickPush
<1>3. ~Registered(s) /\ \A q \in Readers : rd[q].session # s /\ (q # r => rd[q].next # s)
  BY <1>1, NoSessionIsNone DEF ReadInv, LinkInv, NextOwned
<1>4. sess[s].task # "free"
  BY <1>1 DEF ReadInv, LinkInv, FreeOK
<1>5. TypeInv'
  <2>1. CallsOK'
    BY DEF ReadInv, TypeInv, CallsOK, Calls, GuardPc, KickPush
  <2> QED BY <1>1, <2>1, AppendProperties DEF ReadInv, TypeInv, SessOK, ActiveOK
<1>6. /\ Len(active') = Len(active) + 1 /\ Len(active) \in Nat
      /\ \A i \in 1..Len(active) : active'[i] = active[i]
      /\ active'[Len(active) + 1] = s
  BY <1>1 DEF ReadInv, TypeInv, ActiveOK
<1> HIDE DEF s
<1>7. \A t \in Sessions : Registered(t)' <=> Registered(t) \/ t = s
  BY <1>6 DEF Registered
<1>8. LinksOK'
  BY <1>1, <1>2 DEF s, ReadInv, LinkInv, LinksOK
<1>9. \A q \in Readers : /\ rd'[q].session = rd[q].session /\ rd'[q].next = rd[q].next
                         /\ rd'[q].off = rd[q].off /\ rd'[q].end = rd[q].end
                         /\ q # r => rd'[q].pc = rd[q].pc
  BY <1>2 DEF s
<1>10. FreeOK'
  BY <1>1, <1>4, <1>7, <1>9 DEF ReadInv, LinkInv, FreeOK
<1>11. NextOwned'
  <2>1. ASSUME NEW p \in Readers, rd'[p].pc = "push", rd'[p].next # NoSession
        PROVE  ~\E i \in 1..Len(active') : active'[i] = rd'[p].next
    <3>1. p # r /\ rd[p].pc = "push" /\ rd[p].next # s /\ rd[p].next \in Sessions
      BY <1>2, <1>3, <1>9, <2>1 DEF ReadInv, TypeInv, CallsOK, Calls, Ids
    <3>2. ~Registered(rd[p].next)
      BY <3>1, NoSessionIsNone DEF ReadInv, LinkInv, NextOwned
    <3> QED BY <1>7, <1>9, <3>1, <3>2 DEF Registered
  <2> QED BY <1>2, <1>9, <2>1 DEF ReadInv, LinkInv, NextOwned, Registered
<1>12. RegisteredOnce'
  BY <1>3, <1>6 DEF ReadInv, LinkInv, RegisteredOnce, Registered
<1>13. Tracked'
  BY <1>1, <1>7, <1>9 DEF s, ReadInv, LinkInv, Tracked
<1>14. CauseInv'
  BY <1>1, <1>2, <1>9 DEF ReadInv, CauseInv, Anchored, WindowOnDisk, FailedIsOver
<1>15. \A t \in Sessions : GuardsOf(t, rd') = GuardsOf(t, rd)
  BY <1>1, <1>2, <1>9 DEF GuardsOf, GuardPc
<1>16. WaitersExact'
  BY <1>1, <1>15, WaitersForm, WaitersFormNext DEF ReadInv
<1>17. NoOrphanDownload'
  BY <1>1, <1>9, OrphanForm, OrphanFormNext DEF ReadInv
<1> QED BY <1>5, <1>8, <1>10, <1>11, <1>12, <1>13, <1>14, <1>16, <1>17 DEF ReadInv, LinkInv

-----------------------------------------------------------------------------
(***************************************************************************)
(* A step after which the sessions have the contents c, the finished ones  *)
(* that nobody refers to being freed.                                      *)
(***************************************************************************)
Unreferenced(s) ==
  /\ ~\E i \in 1..Len(active') : active'[i] = s
  /\ \A r \in Readers : rd'[r].session # s /\ rd'[r].next # s

Settled(c) ==
  /\ SessOK'
  /\ \A s \in Sessions : \/ sess'[s] = c[s]
                         \/ sess'[s] = FreeSession /\ c[s].task = "done" /\ Unreferenced(s)

LEMMA CollectSettles ==
  ASSUME NEW c \in [Sessions -> Downloads], sess' = Collect(c, active', rd')
  PROVE  Settled(c)
<1>1. FreeSession \in Downloads
  BY DEF FreeSession, Downloads
<1> QED BY <1>1 DEF Collect, SessOK, Settled, Unreferenced

(* Only a session that goes on may be changed; those of the readers stay   *)
(* what they are, or are given up, or are the kicker's new ones.           *)
SessionsOnly(c) ==
  \A s \in Sessions :
    /\ c[s].anchor = sess[s].anchor /\ c[s].until = sess[s].until
    /\ c[s].task = "free" <=> sess[s].task = "free"
    /\ sess[s].task = "free" => c[s] = sess[s]
    /\ sess[s].task = "done" => c[s].task = "done" /\ c[s].complete = sess[s].complete
    /\ c[s].task \in {"spawned", "running"} => sess[s].task \in {"spawned", "running"}
    /\ c[s].complete => c[s].task = "done" /\ c[s].anchor..(c[s].until - 1) \subseteq ranges
ActiveOnly(c) ==
  \A s \in Sessions :
    /\ (\E i \in 1..Len(active') : active'[i] = s) => Registered(s)
    /\ c[s].task \in {"spawned", "running"} /\ Registered(s) =>
         \E i \in 1..Len(active') : active'[i] = s
CallsOnly ==
  \A r \in Readers :
    \/ /\ rd'[r].session = rd[r].session /\ rd'[r].next = rd[r].next /\ rd'[r].pc = rd[r].pc
       /\ rd'[r].off = rd[r].off /\ rd'[r].end = rd[r].end
    \/ /\ rd'[r].session = NoSession /\ rd'[r].next = NoSession /\ rd'[r].pc = "idle"
       /\ rd[r].pc \in LoopPc
    \/ /\ rd'[r].session = rd[r].next /\ rd'[r].next = NoSession
       /\ rd[r].pc = "switch" /\ rd'[r].pc = "recheck"
       /\ rd'[r].off = rd[r].off /\ rd'[r].end = rd[r].end

LEMMA SettleKeeps ==
  ASSUME ReadInv, NEW c \in [Sessions -> Downloads], Settled(c), UNCHANGED ranges,
         CallsOK', ActiveOK', RegisteredOnce', SessionsOnly(c), ActiveOnly(c),
         CallsOnly, \A s \in Sessions : c[s].waiters = Cardinality(GuardsOf(s, rd')),
         \A s \in Sessions : c[s].task \in {"spawned", "running"} /\ ~c[s].cancelled =>
           \E r \in Readers : rd'[r].session = s \/ rd'[r].next = s
  PROVE  ReadInv'
<1>1. SessOK' /\ \A s \in Sessions :
        \/ sess'[s] = c[s]
        \/ sess'[s] = FreeSession /\ c[s].task = "done" /\ Unreferenced(s)
  BY DEF Settled
<1>2. /\ FreeSession.task = "free" /\ FreeSession.complete = FALSE /\ FreeSession.waiters = 0
  BY DEF FreeSession
<1>3. \A r \in Readers : /\ rd[r].session \in Ids /\ rd[r].next \in Ids
                         /\ rd'[r].session \in Ids /\ rd'[r].next \in Ids
  BY DEF ReadInv, TypeInv, CallsOK, Calls
<1>4. \A r \in Readers : /\ rd'[r].session \in {rd[r].session, rd[r].next, NoSession}
                         /\ rd'[r].next \in {rd[r].next, NoSession}
                         /\ rd'[r].pc = "push" <=> rd[r].pc = "push"
  BY DEF CallsOnly, LoopPc
<1>5. LinksOK'
  BY DEF ReadInv, LinkInv, LinksOK, CallsOnly
<1>6. FreeOK'
  <2> SUFFICES ASSUME NEW s \in Sessions, sess'[s].task = "free"
               PROVE  /\ sess'[s] = FreeSession /\ ~Registered(s)'
                      /\ \A r \in Readers : rd'[r].session # s /\ rd'[r].next # s
    BY DEF FreeOK
  <2>1. CASE Unreferenced(s) /\ sess'[s] = FreeSession
    BY <2>1 DEF Unreferenced, Registered
  <2>2. CASE sess'[s] = c[s]
    <3>1. sess[s].task = "free" /\ sess'[s] = sess[s]
      BY <2>2 DEF SessionsOnly
    <3>2. /\ sess[s] = FreeSession /\ ~Registered(s)
          /\ \A r \in Readers : rd[r].session # s /\ rd[r].next # s
      BY <3>1 DEF ReadInv, LinkInv, FreeOK
    <3> QED BY <1>4, <3>1, <3>2, NoSessionIsNone DEF ActiveOnly, Registered
  <2> QED BY <1>1, <2>1, <2>2
<1>7. NextOwned'
  <2> SUFFICES ASSUME NEW p \in Readers, NEW q \in Readers, rd'[p].next # NoSession
               PROVE  /\ q # p => rd'[q].next # rd'[p].next
                      /\ rd'[p].pc = "push" =>
                           /\ rd'[q].session # rd'[p].next
                           /\ ~\E i \in 1..Len(active') : active'[i] = rd'[p].next
    BY DEF NextOwned, Registered
  <2>1. rd'[p].next = rd[p].next /\ rd[p].next \in Sessions
    BY <1>3, <1>4 DEF Ids
  <2>2. /\ q # p => rd[q].next # rd[p].next
        /\ rd[p].pc = "push" => rd[q].session # rd[p].next /\ ~Registered(rd[p].next)
    BY <2>1 DEF ReadInv, LinkInv, NextOwned
  <2>3. rd[p].pc = "push" => rd'[q].session # rd[p].next
    BY <2>1, <2>2, NoSessionIsNone DEF CallsOnly
  <2> QED BY <1>4, <2>1, <2>2, <2>3 DEF ActiveOnly
<1>8. Tracked'
  <2> SUFFICES ASSUME NEW s \in Sessions, sess'[s].task \in {"spawned", "running"}
               PROVE  \/ \E i \in 1..Len(active') : active'[i] = s
                      \/ \E r \in Readers : rd'[r].pc = "push" /\ rd'[r].next = s
    BY DEF Tracked, Registered
  <2>1. c[s].task \in {"spawned", "running"} /\ sess[s].task \in {"spawned", "running"}
    BY <1>1, <1>2 DEF SessionsOnly
  <2>2. Registered(s) \/ \E r \in Readers : rd[r].pc = "push" /\ rd[r].next = s
    BY <2>1 DEF ReadInv, LinkInv, Tracked
  <2> QED BY <2>1, <2>2 DEF ActiveOnly, CallsOnly, LoopPc
<1>9. \A s \in Sessions : ~Unreferenced(s) => sess'[s] = c[s]
  BY <1>1
<1>10. Anchored'
  <2>1. ASSUME NEW r \in Readers, rd'[r].session # NoSession
        PROVE  sess'[rd'[r].session].anchor <= rd'[r].off
    <3>1. rd'[r].session \in Sessions /\ sess'[rd'[r].session] = c[rd'[r].session]
      BY <1>3, <1>9, <2>1 DEF Ids, Unreferenced
    <3>2. sess[rd'[r].session].anchor <= rd'[r].off
      BY <2>1 DEF ReadInv, CauseInv, Anchored, CallsOnly
    <3> QED BY <3>1, <3>2 DEF SessionsOnly
  <2>2. ASSUME NEW r \in Readers, rd'[r].next # NoSession
        PROVE  sess'[rd'[r].next].anchor <= rd'[r].off
    <3>1. rd'[r].next \in Sessions /\ sess'[rd'[r].next] = c[rd'[r].next]
      BY <1>3, <1>9, <2>2 DEF Ids, Unreferenced
    <3>2. sess[rd'[r].next].anchor <= rd'[r].off
      BY <2>2 DEF ReadInv, CauseInv, Anchored, CallsOnly
    <3> QED BY <3>1, <3>2 DEF SessionsOnly
  <2> QED BY <2>1, <2>2 DEF Anchored
<1>11. WindowOnDisk'
  BY <1>1, <1>2 DEF WindowOnDisk, SessionsOnly
<1>12. FailedIsOver'
  <2> SUFFICES ASSUME NEW r \in Readers, rd'[r].pc = "failed"
               PROVE  /\ sess'[rd'[r].session].task = "done"
                      /\ \/ ~sess'[rd'[r].session].complete
                         \/ sess'[rd'[r].session].until < rd'[r].end
    BY DEF FailedIsOver
  <2>1. rd[r].pc = "failed" /\ rd'[r].session = rd[r].session /\ rd'[r].end = rd[r].end
    BY DEF CallsOnly
  <2>2. rd[r].session \in Sessions
    BY <1>3, <2>1 DEF Ids, ReadInv, LinkInv, LinksOK
  <2>3. sess'[rd[r].session] = c[rd[r].session]
    BY <1>9, <2>1, <2>2 DEF Unreferenced
  <2> QED BY <2>1, <2>2, <2>3 DEF SessionsOnly, ReadInv, CauseInv, FailedIsOver
<1>13. WaitersExact'
  <2>1. ASSUME NEW s \in Sessions, Unreferenced(s), sess'[s] = FreeSession
        PROVE  sess'[s].waiters = Cardinality(GuardsOf(s, rd'))
    <3>1. GuardsOf(s, rd') = {} /\ Cardinality({}) = 0
      BY <2>1, FS_EmptySet DEF GuardsOf, Unreferenced
    <3> QED BY <1>2, <2>1, <3>1
  <2> QED BY <1>1, <2>1, WaitersFormNext
<1>14. NoOrphanDownload'
  BY <1>1, <1>2, OrphanFormNext
<1> QED BY <1>1, <1>5, <1>6, <1>7, <1>8, <1>10, <1>11, <1>12, <1>13, <1>14
        DEF ReadInv, TypeInv, LinkInv, CauseInv

(* WaiterGuard::drop.                                                      *)
LEMMA DropFacts ==
  ASSUME ReadInv, NEW o \in Sessions
  PROVE  /\ DropGuard(o) \in [Sessions -> Downloads]
         /\ DropGuard(o)[o].waiters = sess[o].waiters - 1
         /\ sess[o].waiters = 1 => DropGuard(o)[o].cancelled
         /\ DropGuard(o)[o].anchor = sess[o].anchor /\ DropGuard(o)[o].until = sess[o].until
         /\ DropGuard(o)[o].task = sess[o].task /\ DropGuard(o)[o].complete = sess[o].complete
         /\ \A t \in Sessions \ {o} : DropGuard(o)[t] = sess[t]
<1>1. sess[o] \in Downloads /\ sess \in [Sessions -> Downloads]
  BY DEF ReadInv, TypeInv, SessOK
<1> DEFINE x == IF sess[o].waiters = 1 THEN TRUE ELSE sess[o].cancelled
           d == [sess[o] EXCEPT !.waiters = sess[o].waiters - 1, !.cancelled = x]
<1>2. DropGuard(o) = [sess EXCEPT ![o] = d]
  BY <1>1 DEF DropGuard
<1>3. x \in BOOLEAN
  BY <1>1 DEF Downloads
<1>4. sess[o].waiters = 1 => x = TRUE
  OBVIOUS
<1> HIDE DEF x
<1>5. d.waiters = sess[o].waiters - 1 /\ d.cancelled = x
  BY <1>1 DEF Downloads
<1>6. /\ d.anchor = sess[o].anchor /\ d.until = sess[o].until
      /\ d.task = sess[o].task /\ d.complete = sess[o].complete
  BY <1>1 DEF Downloads
<1>7. d \in Downloads
  <2>1. \A e \in Downloads, n \in Int, y \in BOOLEAN :
          [e EXCEPT !.waiters = n, !.cancelled = y] \in Downloads
    BY DEF Downloads
  <2>2. sess[o].waiters - 1 \in Int
    BY <1>1 DEF Downloads
  <2> QED BY <1>1, <1>3, <2>1, <2>2, Zenon
<1> HIDE DEF d
<1> QED BY <1>1, <1>2, <1>4, <1>5, <1>6, <1>7

(* A guard that is dropped while others are left leaves one of them.       *)
LEMMA AnotherGuard ==
  ASSUME ReadInv, NEW r \in Readers, rd[r].pc \in GuardPc, rd[r].session \in Sessions,
         sess[rd[r].session].waiters # 1
  PROVE  \E q \in Readers \ {r} : rd[q].session = rd[r].session
<1> DEFINE G == GuardsOf(rd[r].session, rd)
<1>1. r \in G /\ IsFiniteSet(G) /\ Cardinality(G) # 1
  BY WaitersForm, GuardsFinite DEF ReadInv, GuardsOf
<1>2. Cardinality(G \ {r}) = Cardinality(G) - 1 /\ Cardinality(G) \in Nat
  BY <1>1, FS_RemoveElement, FS_CardinalityType
<1> HIDE DEF G
<1>3. ASSUME G \ {r} = {} PROVE FALSE
  <2>1. Cardinality(G \ {r}) = 0
    BY <1>3, FS_EmptySet
  <2> QED BY <1>1, <1>2, <2>1
<1> QED BY <1>3 DEF G, GuardsOf

LEMMA ReturnInv == ASSUME ReadInv, NEW r \in Readers, Return(r) PROVE ReadInv'
<1> DEFINE o == rd[r].session
           c == DropGuard(o)
<1>1. /\ o \in Sessions /\ rd[r].pc \in LoopPc /\ rd[r].pc \in GuardPc /\ rd[r].next = NoSession
      /\ UNCHANGED << ranges, active >> /\ rd' = [rd EXCEPT ![r] = IdleRead]
  BY DEF ReadInv, TypeInv, CallsOK, Calls, Ids, LinkInv, LinksOK, LoopPc, GuardPc, Return
<1>2. sess' = Collect(c, active', rd')
  BY DEF Return
<1>3. IdleRead \in Calls /\ IdleRead.session = NoSession /\ IdleRead.next = NoSession
      /\ IdleRead.pc = "idle"
  BY NoSessionIsNone DEF IdleRead, Calls, Ids
<1>4. CallsOK' /\ rd'[r] = IdleRead /\ \A q \in Readers \ {r} : rd'[q] = rd[q]
  BY <1>1, <1>3 DEF ReadInv, TypeInv, CallsOK
<1>5. ActiveOK' /\ RegisteredOnce'
  BY <1>1 DEF ReadInv, TypeInv, ActiveOK, LinkInv, RegisteredOnce
<1>6. CallsOnly
  BY <1>1, <1>3, <1>4 DEF CallsOnly
<1>7. /\ c \in [Sessions -> Downloads] /\ c[o].waiters = sess[o].waiters - 1
      /\ sess[o].waiters = 1 => c[o].cancelled
      /\ c[o].anchor = sess[o].anchor /\ c[o].until = sess[o].until
      /\ c[o].task = sess[o].task /\ c[o].complete = sess[o].complete
      /\ \A t \in Sessions \ {o} : c[t] = sess[t]
  BY <1>1, DropFacts
<1> HIDE DEF c
<1>8. sess[o].task # "free"
  BY <1>1 DEF ReadInv, LinkInv, FreeOK
<1>9. SessionsOnly(c)
  BY <1>1, <1>7, <1>8 DEF SessionsOnly, ReadInv, CauseInv, WindowOnDisk
<1>10. ActiveOnly(c)
  BY <1>1 DEF ActiveOnly, Registered
<1>11. \A s \in Sessions : c[s].waiters = Cardinality(GuardsOf(s, rd'))
  <2>1. GuardsOf(o, rd') = GuardsOf(o, rd) \ {r} /\ r \in GuardsOf(o, rd)
    BY <1>1, <1>3, <1>4, NoSessionIsNone DEF GuardsOf
  <2>2. Cardinality(GuardsOf(o, rd')) = Cardinality(GuardsOf(o, rd)) - 1
    BY <2>1, GuardsFinite, FS_RemoveElement, ZenonT(60)
  <2>3. \A s \in Sessions \ {o} : GuardsOf(s, rd') = GuardsOf(s, rd)
    BY <1>3, <1>4, NoSessionIsNone DEF GuardsOf
  <2> QED BY <1>1, <1>7, <2>2, <2>3, WaitersForm DEF ReadInv
<1>12. ASSUME NEW s \in Sessions, c[s].task \in {"spawned", "running"}, ~c[s].cancelled
       PROVE  \E q \in Readers : rd'[q].session = s \/ rd'[q].next = s
  <2>1. CASE s = o
    BY <1>1, <1>4, <1>7, <1>12, <2>1, AnotherGuard
  <2>2. CASE s # o
    <3>1. PICK q \in Readers : rd[q].session = s \/ rd[q].next = s
      BY <1>7, <1>12, <2>2, OrphanForm DEF ReadInv
    <3> QED BY <1>1, <1>4, <2>2, <3>1, NoSessionIsNone
  <2> QED BY <2>1, <2>2
<1> QED BY <1>1, <1>2, <1>4, <1>5, <1>6, <1>7, <1>9, <1>10, <1>11, <1>12, SettleKeeps,
       CollectSettles

LEMMA KickSwitchInv == ASSUME ReadInv, NEW r \in Readers, KickSwitch(r) PROVE ReadInv'
<1> DEFINE o == rd[r].session
           n == rd[r].next
           d == DropGuard(o)
           c == [d EXCEPT ![n].waiters = @ + 1]
<1>1. /\ o \in Sessions /\ n \in Sessions /\ o # n /\ rd[r].pc = "switch"
      /\ UNCHANGED << ranges, active >>
  BY DEF ReadInv, TypeInv, CallsOK, Calls, Ids, LinkInv, LinksOK, KickSwitch
<1>2. sess' = Collect(c, active', rd')
  BY Zenon DEF KickSwitch
<1>3. /\ d \in [Sessions -> Downloads] /\ d[o].waiters = sess[o].waiters - 1
      /\ sess[o].waiters = 1 => d[o].cancelled
      /\ d[o].anchor = sess[o].anchor /\ d[o].until = sess[o].until
      /\ d[o].task = sess[o].task /\ d[o].complete = sess[o].complete
      /\ \A t \in Sessions \ {o} : d[t] = sess[t]
  BY <1>1, DropFacts
<1> HIDE DEF d
<1>4. /\ c[n].waiters = sess[n].waiters + 1
      /\ c[n].anchor = sess[n].anchor /\ c[n].until = sess[n].until
      /\ c[n].task = sess[n].task /\ c[n].complete = sess[n].complete
      /\ \A t \in Sessions \ {n} : c[t] = d[t]
  BY <1>1, <1>3 DEF Downloads
<1>5. c \in [Sessions -> Downloads]
  <2>1. \A e \in Downloads : [e EXCEPT !.waiters = @ + 1] \in Downloads
    BY DEF Downloads
  <2> QED BY <1>1, <1>3, <2>1
<1> HIDE DEF c
<1>6. /\ rd'[r].session = n /\ rd'[r].next = NoSession /\ rd'[r].pc = "recheck"
      /\ rd'[r].off = rd[r].off /\ rd'[r].end = rd[r].end
      /\ \A q \in Readers \ {r} : rd'[q] = rd[q]
  BY DEF ReadInv, TypeInv, CallsOK, Calls, KickSwitch
<1>7. CallsOK'
  <2>1. \A e \in Calls : [e EXCEPT !.session = n, !.next = NoSession, !.owner = TRUE,
                                   !.pc = "recheck"] \in Calls
    BY <1>1 DEF Calls, Ids, GuardPc
  <2> QED BY <2>1 DEF ReadInv, TypeInv, CallsOK, KickSwitch
<1>8. ActiveOK' /\ RegisteredOnce'
  BY <1>1 DEF ReadInv, TypeInv, ActiveOK, LinkInv, RegisteredOnce
<1>9. CallsOnly
  BY <1>1, <1>6 DEF CallsOnly
<1>10. sess[o].task # "free" /\ sess[n].task # "free"
  BY <1>1 DEF ReadInv, LinkInv, FreeOK
<1> HIDE DEF o, n
<1>11. SessionsOnly(c)
  <2>1. \A t \in Sessions : /\ c[t].anchor = sess[t].anchor /\ c[t].until = sess[t].until
                            /\ c[t].task = sess[t].task /\ c[t].complete = sess[t].complete
                            /\ t # o /\ t # n => c[t] = sess[t]
    BY <1>1, <1>3, <1>4
  <2> QED BY <1>10, <2>1 DEF SessionsOnly, ReadInv, CauseInv, WindowOnDisk
<1>12. ActiveOnly(c)
  BY <1>1 DEF ActiveOnly, Registered
<1>13. \A s \in Sessions : c[s].waiters = Cardinality(GuardsOf(s, rd'))
  <2>1. /\ GuardsOf(o, rd') = GuardsOf(o, rd) \ {r} /\ r \in GuardsOf(o, rd)
        /\ GuardsOf(n, rd') = GuardsOf(n, rd) \cup {r} /\ r \notin GuardsOf(n, rd)
    BY <1>1, <1>6 DEF o, GuardsOf, GuardPc
  <2>2. Cardinality(GuardsOf(o, rd')) = Cardinality(GuardsOf(o, rd)) - 1
    BY <2>1, GuardsFinite, FS_RemoveElement
  <2>3. Cardinality(GuardsOf(n, rd')) = Cardinality(GuardsOf(n, rd)) + 1
    BY <2>1, GuardsFinite, FS_AddElement
  <2>4. \A s \in Sessions \ {o, n} : GuardsOf(s, rd') = GuardsOf(s, rd)
    BY <1>6 DEF o, GuardsOf
  <2> QED BY <1>1, <1>3, <1>4, <2>2, <2>3, <2>4, WaitersForm DEF ReadInv
<1>14. ASSUME NEW s \in Sessions, c[s].task \in {"spawned", "running"}, ~c[s].cancelled
       PROVE  \E q \in Readers : rd'[q].session = s \/ rd'[q].next = s
  <2>1. CASE s = o
    <3>1. sess[o].waiters # 1
      BY <1>1, <1>3, <1>4, <1>14, <2>1
    <3>2. PICK q \in Readers \ {r} : rd[q].session = o
      BY <1>1, <3>1, AnotherGuard DEF o, GuardPc
    <3> QED BY <1>6, <2>1, <3>2
  <2>2. CASE s = n
    BY <1>6, <2>2
  <2>3. CASE s # o /\ s # n
    <3>1. PICK q \in Readers : rd[q].session = s \/ rd[q].next = s
      BY <1>3, <1>4, <1>14, <2>3, OrphanForm DEF ReadInv
    <3> QED BY <1>6, <2>3, <3>1 DEF o, n
  <2> QED BY <2>1, <2>2, <2>3
<1> QED BY <1>1, <1>2, <1>5, <1>7, <1>8, <1>9, <1>11, <1>12, <1>13, <1>14, SettleKeeps,
       CollectSettles

-----------------------------------------------------------------------------
(* The task of a session goes on or ends; the readers are at most woken.   *)
LEMMA TaskKeeps ==
  ASSUME ReadInv, NEW s \in Sessions, NEW task \in {"running", "done"}, NEW complete \in BOOLEAN,
         NEW c, c = [sess EXCEPT ![s].task = task, ![s].complete = complete],
         sess[s].task \in {"spawned", "running"}, Settled(c), UNCHANGED ranges,
         complete => task = "done" /\ sess[s].anchor..(sess[s].until - 1) \subseteq ranges,
         ActiveOK', RegisteredOnce', ActiveOnly(c), rd' = rd \/ rd' = Notified(rd)
  PROVE  ReadInv'
<1>1. /\ c[s].task = task /\ c[s].complete = complete /\ c[s].waiters = sess[s].waiters
      /\ c[s].anchor = sess[s].anchor /\ c[s].until = sess[s].until
      /\ c[s].cancelled = sess[s].cancelled
      /\ \A t \in Sessions \ {s} : c[t] = sess[t]
  BY DEF ReadInv, TypeInv, SessOK, Downloads
<1>2. c \in [Sessions -> Downloads]
  <2>1. \A d \in Downloads : [d EXCEPT !.task = task, !.complete = complete] \in Downloads
    BY DEF Downloads
  <2> QED BY <2>1 DEF ReadInv, TypeInv, SessOK
<1>3. CallsOK' /\ \A r \in Readers :
        /\ rd'[r].session = rd[r].session /\ rd'[r].next = rd[r].next /\ rd'[r].pc = rd[r].pc
        /\ rd'[r].off = rd[r].off /\ rd'[r].end = rd[r].end
  BY NotifiedFacts DEF ReadInv, TypeInv, CallsOK
<1>4. CallsOnly
  BY <1>3 DEF CallsOnly
<1>5. SessionsOnly(c)
  BY <1>1, ZenonT(60) DEF SessionsOnly, ReadInv, CauseInv, WindowOnDisk
<1>6. \A t \in Sessions : c[t].waiters = Cardinality(GuardsOf(t, rd'))
  <2>1. \A t \in Sessions : GuardsOf(t, rd') = GuardsOf(t, rd)
    BY <1>3 DEF GuardsOf
  <2> QED BY <1>1, <2>1, WaitersForm DEF ReadInv
<1>7. \A t \in Sessions : c[t].task \in {"spawned", "running"} /\ ~c[t].cancelled =>
        \E r \in Readers : rd'[r].session = t \/ rd'[r].next = t
  <2> SUFFICES ASSUME NEW t \in Sessions, c[t].task \in {"spawned", "running"}, ~c[t].cancelled
               PROVE  \E r \in Readers : rd'[r].session = t \/ rd'[r].next = t
    OBVIOUS
  <2>1. sess[t].task \in {"spawned", "running"} /\ ~sess[t].cancelled
    BY <1>1
  <2>2. PICK r \in Readers : rd[r].session = t \/ rd[r].next = t
    BY <2>1, OrphanForm DEF ReadInv
  <2> QED BY <1>3, <2>2
<1> QED BY <1>2, <1>3, <1>4, <1>5, <1>6, <1>7, SettleKeeps

LEMMA TaskStartInv == ASSUME ReadInv, NEW s \in Sessions, TaskStart(s) PROVE ReadInv'
<1> DEFINE c == [sess EXCEPT ![s].task = "running", ![s].complete = FALSE]
<1>1. sess[s] \in Downloads /\ sess[s].task = "spawned" /\ UNCHANGED << ranges, active, rd >>
      /\ sess' = [sess EXCEPT ![s].task = "running"]
  BY DEF ReadInv, TypeInv, SessOK, TaskStart
<1>2. sess[s].complete = FALSE
  BY <1>1 DEF ReadInv, CauseInv, WindowOnDisk, Downloads
<1>3. \A d \in Downloads : d.complete = FALSE =>
        [d EXCEPT !.task = "running"] = [d EXCEPT !.task = "running", !.complete = FALSE]
  BY DEF Downloads
<1>4. sess' = c
  BY <1>1, <1>2, <1>3 DEF ReadInv, TypeInv, SessOK
<1>5. SessOK'
  <2>1. \A d \in Downloads : [d EXCEPT !.task = "running"] \in Downloads
    BY DEF Downloads
  <2> QED BY <1>1, <2>1 DEF ReadInv, TypeInv, SessOK
<1> HIDE DEF c
<1>6. Settled(c) /\ ActiveOnly(c)
  BY <1>1, <1>4, <1>5 DEF Settled, ActiveOnly, Registered
<1>7. ActiveOK' /\ RegisteredOnce'
  BY <1>1 DEF ReadInv, TypeInv, ActiveOK, LinkInv, RegisteredOnce
<1> QED BY <1>1, <1>6, <1>7, TaskKeeps DEF c

LEMMA TaskDropUnpolledInv ==
  ASSUME ReadInv, NEW s \in Sessions, TaskDropUnpolled(s)
  PROVE  ReadInv'
<1> DEFINE c == [sess EXCEPT ![s].task = "done", ![s].complete = FALSE]
<1>1. sess[s] \in Downloads /\ sess[s].task = "spawned" /\ UNCHANGED << ranges, active, rd >>
      /\ sess' = Collect([sess EXCEPT ![s].task = "done"], active, rd)
  BY DEF ReadInv, TypeInv, SessOK, TaskDropUnpolled
<1>2. sess[s].complete = FALSE
  BY <1>1 DEF ReadInv, CauseInv, WindowOnDisk, Downloads
<1>3. \A d \in Downloads :
        /\ [d EXCEPT !.task = "done"] \in Downloads
        /\ d.complete = FALSE =>
             [d EXCEPT !.task = "done"] = [d EXCEPT !.task = "done", !.complete = FALSE]
  BY DEF Downloads
<1>4. c = [sess EXCEPT ![s].task = "done"] /\ c \in [Sessions -> Downloads]
  BY <1>1, <1>2, <1>3 DEF ReadInv, TypeInv, SessOK
<1> HIDE DEF c
<1>5. Settled(c)
  BY <1>1, <1>4, CollectSettles
<1>6. ActiveOnly(c)
  BY <1>1 DEF ActiveOnly, Registered
<1>7. ActiveOK' /\ RegisteredOnce'
  BY <1>1 DEF ReadInv, TypeInv, ActiveOK, LinkInv, RegisteredOnce
<1> QED BY <1>1, <1>5, <1>6, <1>7, TaskKeeps DEF c

(* WorkerGuard::drop.                                                      *)
LEMMA UnregisterInv ==
  ASSUME ReadInv, NEW s \in Sessions, NEW complete \in BOOLEAN, sess[s].task = "running",
         complete => sess[s].anchor..(sess[s].until - 1) \subseteq ranges,
         Unregister(s, complete)
  PROVE  ReadInv'
<1> DEFINE c == [sess EXCEPT ![s].task = "done", ![s].complete = complete]
<1>1. rd' = Notified(rd) /\ UNCHANGED ranges /\ sess' = Collect(c, active', rd')
  BY DEF Unregister
<1>2. c \in [Sessions -> Downloads] /\ c[s].task = "done"
  <2>1. \A d \in Downloads : [d EXCEPT !.task = "done", !.complete = complete] \in Downloads
    BY DEF Downloads
  <2>2. c[s].task = "done"
    BY DEF ReadInv, TypeInv, SessOK, Downloads
  <2> QED BY <2>1, <2>2 DEF ReadInv, TypeInv, SessOK
<1> HIDE DEF c
<1>3. Settled(c)
  BY <1>1, <1>2, CollectSettles
<1>4. ActiveOK' /\ RegisteredOnce' /\ ActiveOnly(c)
  <2>1. CASE active' = active
    BY <2>1 DEF ReadInv, TypeInv, ActiveOK, LinkInv, RegisteredOnce, ActiveOnly, Registered
  <2>2. ASSUME NEW i \in 1..Len(active), active[i] = s, active' = RemoveAt(active, i)
        PROVE  ActiveOK' /\ RegisteredOnce' /\ ActiveOnly(c)
    <3>1. active \in Seq(Sessions) /\ Len(active) \in Nat
      BY DEF ReadInv, TypeInv, ActiveOK
    <3>2. /\ active' \in Seq(Sessions) /\ Len(active') = Len(active) - 1
          /\ \A j \in 1..Len(active') : active'[j] = IF j < i THEN active[j] ELSE active[j + 1]
      BY <2>2, <3>1, RemoveAtFacts
    <3>3. RegisteredOnce'
      BY <3>1, <3>2 DEF ReadInv, LinkInv, RegisteredOnce
    <3>4. ASSUME NEW t \in Sessions, NEW j \in 1..Len(active), active[j] = t, t # s
          PROVE  \E k \in 1..Len(active') : active'[k] = t
      <4>1. CASE j < i
        BY <3>1, <3>2, <3>4, <4>1
      <4>2. CASE j > i
        <5>1. j - 1 \in 1..Len(active') /\ ~(j - 1 < i) /\ (j - 1) + 1 = j
          BY <3>1, <3>2, <4>2
        <5>2. active'[j - 1] = active[j]
          BY <3>2, <5>1
        <5> QED BY <3>4, <5>1, <5>2
      <4> QED BY <2>2, <3>1, <3>4, <4>1, <4>2
    <3>5. ASSUME NEW t \in Sessions, NEW j \in 1..Len(active'), active'[j] = t
          PROVE  Registered(t)
      BY <3>1, <3>2, <3>5 DEF Registered
    <3>6. ActiveOnly(c)
      BY <1>2, <3>4, <3>5 DEF ActiveOnly, Registered
    <3> QED BY <3>2, <3>3, <3>6 DEF ActiveOK
  <2> QED BY <2>1, <2>2 DEF Unregister
<1> QED BY <1>1, <1>3, <1>4, TaskKeeps DEF c

-----------------------------------------------------------------------------
LEMMA InitInv == ReadInit => ReadInv
<1> SUFFICES ASSUME ReadInit PROVE ReadInv
  OBVIOUS
<1>1. /\ IdleRead \in Calls /\ IdleRead.session = NoSession /\ IdleRead.next = NoSession
      /\ IdleRead.pc = "idle"
  BY NoSessionIsNone DEF IdleRead, Calls, Ids
<1>2. /\ FreeSession \in Downloads /\ FreeSession.task = "free"
      /\ FreeSession.complete = FALSE /\ FreeSession.waiters = 0
  BY DEF FreeSession, Downloads
<1>3. TypeInv
  BY <1>1, <1>2 DEF ReadInit, TypeInv, CallsOK, SessOK, ActiveOK
<1>4. LinkInv
  BY <1>1, <1>2, NoSessionIsNone DEF ReadInit, LinkInv, LinksOK, FreeOK, NextOwned,
     RegisteredOnce, Tracked, Registered
<1>5. CauseInv
  BY <1>1, <1>2 DEF ReadInit, CauseInv, Anchored, WindowOnDisk, FailedIsOver
<1>6. \A s \in Sessions : GuardsOf(s, rd) = {} /\ Cardinality({}) = 0
  BY <1>1, NoSessionIsNone, FS_EmptySet DEF ReadInit, GuardsOf
<1>7. WaitersExact
  BY <1>2, <1>6, WaitersForm DEF ReadInit
<1>8. NoOrphanDownload
  BY <1>2, OrphanForm DEF ReadInit
<1> QED BY <1>3, <1>4, <1>5, <1>7, <1>8 DEF ReadInv

LEMMA StepInv == ReadInv /\ [ReadNext]_readVars => ReadInv'
<1> SUFFICES ASSUME ReadInv, [ReadNext]_readVars PROVE ReadInv'
  OBVIOUS
<1>1. ASSUME NEW r \in Readers, ReaderStep(r) PROVE ReadInv'
  BY <1>1, JoinExistingInv, JoinSpawnInv, TakeGuardInv, CheckInv, WakeUpInv, KickInv,
     KickPushInv, KickSwitchInv, RecheckInv, ReturnInv DEF ReaderStep
<1>2. ASSUME NEW s \in Sessions, TaskStep(s) PROVE ReadInv'
  <2>1. CASE TaskComplete(s)
    BY <2>1, UnregisterInv DEF TaskComplete
  <2>2. CASE TaskFail(s) \/ TaskStop(s)
    BY <2>2, UnregisterInv DEF TaskFail, TaskStop
  <2> QED BY <1>2, <2>1, <2>2, TaskStartInv, TaskDropUnpolledInv, TaskWriteInv DEF TaskStep
<1>3. CASE UNCHANGED readVars
  <2>1. LoopStep
    BY <1>3 DEF readVars, LoopStep, ReadInv, TypeInv, CallsOK
  <2> QED BY <2>1, LoopKeeps
<1> QED BY <1>1, <1>2, <1>3, StartReadInv, InterruptInv DEF ReadNext

(* download_session.rs: the waiter count of every session is the number of *)
(* WaiterGuards on it.                                                     *)
THEOREM WaiterCountExact == ReadSpec => []WaitersExact
<1>1. ReadInv => WaitersExact
  BY DEF ReadInv
<1> QED BY <1>1, InitInv, StepInv, PTL DEF ReadSpec

(* A download that has not been told to stop has a read that wants it.     *)
THEOREM DownloadsWanted == ReadSpec => []NoOrphanDownload
<1>1. ReadInv => NoOrphanDownload
  BY DEF ReadInv
<1> QED BY <1>1, InitInv, StepInv, PTL DEF ReadSpec

(* A read fails only if its download ended early or its window was too     *)
(* short for the read: no block that arrived in time is overlooked.        *)
THEOREM FailuresHaveCause == ReadSpec => []FailsOnlyForCause
<1>1. ReadInv => FailsOnlyForCause
  BY DEF ReadInv, CauseInv, FailedIsOver, FailsOnlyForCause
<1> QED BY <1>1, InitInv, StepInv, PTL DEF ReadSpec

(* What `retain` removes is in the list at most once.                      *)
THEOREM RegisteredAtMostOnce == ReadSpec => []RegisteredOnce
<1>1. ReadInv => RegisteredOnce
  BY DEF ReadInv, LinkInv
<1> QED BY <1>1, InitInv, StepInv, PTL DEF ReadSpec
=============================================================================
