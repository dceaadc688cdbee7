------------------------ MODULE RepairCascadeProofs ------------------------
(***************************************************************************)
(* What the guards of repair/ephemeral_torrent.rs promise, for every       *)
(* torrent, selection, batch size and number of faults: no magnet of the   *)
(* cascade is lost on Real-Debrid, and the id a successful repair hands on *)
(* is there, complete, and out of reach of every pending delete; a limit   *)
(* defers, and a success is one for every selected file.                   *)
(***************************************************************************)
EXTENDS RepairCascade, TLAPS

(* Ids are handed out in order, and the containers hold known ids only.    *)
IdsInv ==
  /\ lastId \in Nat /\ OldIds <= lastId
  /\ rd = [i \in DOMAIN rd |-> rd[i]] /\ DOMAIN rd \subseteq 1..lastId
  /\ DOMAIN cleanup \subseteq 1..lastId
  /\ SelectedSet \subseteq Files

(* A guard is in scope exactly while an attempt uses it, and it is the only*)
(* one that will delete its torrent; there is no outcome before the end.   *)
GuardInv ==
  /\ guard \in 0..lastId
  /\ guard # NoId <=> pc \in {"select", "poll", "discard"}
  /\ guard \notin DOMAIN cleanup
  /\ pc # "done" => outcome.id = NoId
  /\ outcome.id \in 0..lastId
  /\ pc = "poll" /\ at.strategy \in {1, 3} /\ guard \in DOMAIN rd
       => SelectedSet \subseteq rd[guard]

IInv == IdsInv /\ GuardInv /\ MagnetsOwned /\ NewIdComplete

LEMMA DropGuardFact ==
  ASSUME IInv, DropGuard
  PROVE  /\ guard' = NoId
         /\ DOMAIN cleanup' = DOMAIN cleanup \cup ({guard} \ {NoId})
BY DEF DropGuard

(* What an attempt that failed, or an item that was ready, leads to.       *)
LEMMA AdvanceFact ==
  ASSUME NEW good \in BOOLEAN, Advance(good)
  PROVE  \/ pc' = "add" /\ outcome' = outcome
         \/ pc' = "done" /\ outcome'.id = NoId
BY DEF Advance, Return

LEMMA CallFailsFact ==
  ASSUME NEW e, CallFails(e)
  PROVE  \/ pc' = "add" /\ outcome' = outcome
         \/ pc' = "done" /\ outcome'.id = NoId
<1>1. CASE at.strategy = 1 \/ e = "bandwidth"
  <2>1. Return(MapRd(e), NoId)
    BY <1>1 DEF CallFails
  <2> QED BY <2>1 DEF Return
<1>2. CASE ~ (at.strategy = 1 \/ e = "bandwidth")
  <2>1. Advance(FALSE)
    BY <1>2 DEF CallFails
  <2> QED BY <2>1, AdvanceFact
<1> QED BY <1>1, <1>2

LEMMA InitInv == Init => IInv
<1> SUFFICES ASSUME Init PROVE IInv
  OBVIOUS
<1>1. /\ OldIds \in Nat /\ lastId = OldIds /\ DOMAIN rd = 1..OldIds
      /\ DOMAIN cleanup = {} /\ guard = 0 /\ outcome.id = 0 /\ pc = "start"
  BY Constants DEF Init, Pending, NoId
<1>2. torrent.selected \in Seq(Files)
  BY Constants DEF Init
<1>3. SelectedSet \subseteq Files
  BY <1>2 DEF SelectedSet, SelectedCount
<1>4. rd = [i \in DOMAIN rd |-> rd[i]]
  BY DEF Init
<1>5. IdsInv
  BY <1>1, <1>3, <1>4 DEF IdsInv
<1>6. GuardInv
  BY <1>1 DEF GuardInv, NoId
<1>7. MagnetsOwned
  BY <1>1 DEF MagnetsOwned, Magnets
<1>8. NewIdComplete
  BY <1>1 DEF NewIdComplete, NoId
<1> QED BY <1>5, <1>6, <1>7, <1>8 DEF IInv

(***************************************************************************)
(* The steps that end an attempt: a call fails, or the attempt is over.    *)
(* The guard's id goes to a cleanup task, so it stays owned.               *)
(***************************************************************************)
LEMMA AttemptEnds ==
  ASSUME IInv, DropGuard, IdsInv',
         pc # "done",
         \/ pc' = "add" /\ outcome' = outcome
         \/ pc' = "done" /\ outcome'.id = NoId,
         DOMAIN rd' \subseteq DOMAIN rd,
         lastId' = lastId, strays' = strays, orphans' = orphans
  PROVE  IInv'
<1>1. /\ outcome.id = NoId /\ outcome'.id = NoId
      /\ guard' = NoId /\ guard \in 0..lastId
      /\ DOMAIN cleanup' = DOMAIN cleanup \cup ({guard} \ {NoId})
      /\ DOMAIN cleanup \subseteq 1..lastId /\ lastId \in Nat
  BY DropGuardFact DEF IInv, GuardInv, IdsInv
<1>2. GuardInv'
  BY <1>1 DEF GuardInv, NoId
<1>3. MagnetsOwned'
  <2> SUFFICES ASSUME NEW id \in (DOMAIN rd \cap Magnets)'
               PROVE  (id \in {guard, outcome.id} \cup DOMAIN cleanup \cup orphans \cup strays)'
    BY DEF MagnetsOwned
  <2>1. id \in DOMAIN rd \cap Magnets /\ id # NoId
    BY Constants DEF Magnets, NoId
  <2>2. id \in {guard, outcome.id} \cup DOMAIN cleanup \cup orphans \cup strays
    BY <2>1 DEF IInv, MagnetsOwned
  <2> QED BY <1>1, <2>1, <2>2
<1>4. NewIdComplete'
  BY <1>1 DEF NewIdComplete
<1> QED BY <1>2, <1>3, <1>4 DEF IInv

LEMMA TorrentStays == Next => torrent' = torrent
BY DEF Next, CascadeStep, CleanupStep, Begin, DeleteOld, AddMagnet, AddMagnetFails,
       SelectFiles, SelectFilesFails, PollReady, PollNotReady, PollFails,
       DeleteEphemeral, DeleteEphemeralFails, Timeout, CleanupDeletes, CleanupFails,
       RefreshLists, RefreshDeletes

LEMMA SelectionStays == torrent' = torrent => SelectedSet' = SelectedSet
BY DEF SelectedSet, SelectedCount

(* A magnet whose answer was lost is a stray; everything else stays.       *)
LEMMA StrayFact ==
  ASSUME IdsInv, torrent' = torrent, DOMAIN cleanup' = DOMAIN cleanup,
         StrayOrNothing \/ UNCHANGED << lastId, rd, strays, faults >>
  PROVE  /\ IdsInv' /\ lastId <= lastId'
         /\ DOMAIN rd' \subseteq DOMAIN rd \cup strays' /\ strays \subseteq strays'
<1>1. SelectedSet' = SelectedSet
  BY SelectionStays
<1>2. CASE UNCHANGED << lastId, rd, strays >>
  BY <1>1, <1>2 DEF IdsInv
<1>3. CASE /\ lastId' = lastId + 1 /\ strays' = strays \cup {lastId + 1}
           /\ rd' = [i \in DOMAIN rd \cup {lastId + 1} |-> IF i \in DOMAIN rd THEN rd[i] ELSE {}]
  <2>1. DOMAIN rd' = DOMAIN rd \cup {lastId + 1}
    BY <1>3
  <2>2. rd' = [i \in DOMAIN rd' |-> rd'[i]]
    BY <1>3
  <2>3. lastId' \in Nat /\ OldIds <= lastId' /\ DOMAIN rd' \subseteq 1..lastId'
        /\ DOMAIN cleanup' \subseteq 1..lastId' /\ lastId <= lastId'
    BY <1>3, <2>1, Constants DEF IdsInv
  <2> QED BY <1>1, <1>3, <2>1, <2>2, <2>3 DEF IdsInv
<1> QED BY <1>2, <1>3 DEF StrayOrNothing

(* Taking a torrent off Real-Debrid.                                       *)
LEMMA WithoutFact ==
  ASSUME NEW id, rd' = Without(id)
  PROVE  /\ DOMAIN rd' = DOMAIN rd \ {id}
         /\ rd' = [i \in DOMAIN rd' |-> rd'[i]]
         /\ \A i \in DOMAIN rd' : rd'[i] = rd[i]
BY DEF Without

(***************************************************************************)
(* A step that takes torrents off Real-Debrid, but not the new id, while   *)
(* guard and outcome stay and the tasks of dropped guards may end.         *)
(***************************************************************************)
LEMMA TorrentGone ==
  ASSUME IInv, torrent' = torrent, UNCHANGED << pc, at, guard, lastId, strays, outcome >>,
         NEW id, id # outcome.id \/ outcome.id = NoId, listed' \subseteq listed,
         rd' = rd \/ rd' = Without(id),
         DOMAIN cleanup' \subseteq DOMAIN cleanup,
         orphans \subseteq orphans',
         DOMAIN cleanup \subseteq DOMAIN cleanup' \cup orphans' \cup (DOMAIN rd \ DOMAIN rd')
                                   \cup {i \in DOMAIN cleanup : i \notin DOMAIN rd}
  PROVE  IInv'
<1>1. SelectedSet' = SelectedSet
  BY SelectionStays
<1>2. /\ DOMAIN rd' \subseteq DOMAIN rd /\ DOMAIN rd \ {id} \subseteq DOMAIN rd'
      /\ rd' = [i \in DOMAIN rd' |-> rd'[i]]
      /\ \A i \in DOMAIN rd' : rd'[i] = rd[i]
  BY WithoutFact DEF IInv, IdsInv
<1>3. IdsInv'
  BY <1>1, <1>2 DEF IInv, IdsInv
<1>4. GuardInv'
  BY <1>1, <1>2 DEF IInv, GuardInv
<1>5. MagnetsOwned'
  <2> SUFFICES ASSUME NEW m \in (DOMAIN rd \cap Magnets)'
               PROVE  (m \in {guard, outcome.id} \cup DOMAIN cleanup \cup orphans \cup strays)'
    BY DEF MagnetsOwned
  <2>1. m \in DOMAIN rd \cap Magnets
    BY <1>2 DEF Magnets
  <2>2. m \in {guard, outcome.id} \cup DOMAIN cleanup \cup orphans \cup strays
    BY <2>1 DEF IInv, MagnetsOwned
  <2> QED BY <2>1, <2>2
<1>6. NewIdComplete'
  BY <1>1, <1>2 DEF IInv, NewIdComplete
<1> QED BY <1>3, <1>4, <1>5, <1>6 DEF IInv

(* The ids of a step that adds no torrent, when the guard may be dropped.  *)
LEMMA IdsStay ==
  ASSUME IInv, torrent' = torrent, lastId' = lastId, DropGuard,
         DOMAIN rd' \subseteq DOMAIN rd, rd' = [i \in DOMAIN rd' |-> rd'[i]]
  PROVE  IdsInv'
<1>1. SelectedSet' = SelectedSet
  BY SelectionStays
<1>2. DOMAIN cleanup' \subseteq 1..lastId
  BY DropGuardFact DEF IInv, IdsInv, GuardInv, NoId
<1> QED BY <1>1, <1>2 DEF IInv, IdsInv

(* add_magnet failed, or was cut off: there is no guard, so nothing else   *)
(* is owned and nothing else is lost.                                      *)
LEMMA LostAnswer ==
  ASSUME IInv, Adding, StrayOrNothing, torrent' = torrent,
         DOMAIN cleanup' = DOMAIN cleanup, UNCHANGED << guard, orphans >>,
         \/ pc' = "add" /\ outcome' = outcome
         \/ pc' = "done" /\ outcome'.id = NoId
  PROVE  IInv'
<1>1. /\ guard = NoId /\ guard' = NoId /\ outcome.id = NoId /\ outcome'.id = NoId
      /\ lastId \in Nat
  BY DEF Adding, IInv, GuardInv, IdsInv
<1>2. /\ IdsInv' /\ lastId <= lastId'
      /\ DOMAIN rd' \subseteq DOMAIN rd \cup strays' /\ strays \subseteq strays'
  BY StrayFact DEF IInv
<1>3. GuardInv'
  BY <1>1, <1>2 DEF IInv, GuardInv, IdsInv, NoId
<1>4. MagnetsOwned'
  <2> SUFFICES ASSUME NEW m \in (DOMAIN rd \cap Magnets)', m \notin strays'
               PROVE  m \in DOMAIN cleanup' \cup orphans'
    BY DEF MagnetsOwned
  <2>1. m \in DOMAIN rd /\ m \in 1..lastId /\ m >= OldIds + 1
    BY <1>2, Constants DEF IInv, IdsInv, Magnets
  <2>2. m \in DOMAIN rd \cap Magnets /\ m # NoId
    BY <2>1, <1>1, Constants DEF Magnets, NoId
  <2> QED BY <1>1, <1>2, <2>2 DEF IInv, MagnetsOwned
<1>5. NewIdComplete'
  BY <1>1 DEF NewIdComplete
<1> QED BY <1>2, <1>3, <1>4, <1>5 DEF IInv

LEMMA StepInv == IInv /\ [Next]_vars => IInv'
<1> SUFFICES ASSUME IInv, [Next]_vars PROVE IInv'
  OBVIOUS
<1>1. CASE Begin
  <2>1. /\ pc = "start" /\ outcome.id = NoId /\ guard = NoId
        /\ UNCHANGED << torrent, guard, cleanup, orphans, rd, lastId, strays, listed >>
        /\ outcome'.id = NoId /\ pc' \in {"delete", "done"}
    BY <1>1 DEF Begin, Return, IInv, GuardInv
  <2>2. SelectedSet' = SelectedSet
    BY <2>1, SelectionStays
  <2>3. IdsInv' /\ GuardInv'
    BY <2>1, <2>2 DEF IInv, IdsInv, GuardInv, NoId
  <2>4. MagnetsOwned' /\ NewIdComplete'
    BY <2>1 DEF IInv, MagnetsOwned, NewIdComplete, Magnets
  <2> QED BY <2>3, <2>4 DEF IInv
<1>2. CASE DeleteOld
  <2>1. /\ outcome.id = NoId /\ (rd' = rd \/ rd' = Without(Head(old)))
        /\ UNCHANGED << torrent, pc, at, guard, cleanup, orphans, lastId, strays, listed, outcome >>
    BY <1>2 DEF DeleteOld, IInv, GuardInv
  <2> QED BY <2>1, TorrentGone
<1>3. CASE AddMagnet
  <2>1. /\ guard = NoId /\ outcome.id = NoId /\ pc # "done"
        /\ lastId' = lastId + 1 /\ guard' = lastId + 1 /\ pc' = "select"
        /\ rd' = [i \in DOMAIN rd \cup {lastId + 1} |-> IF i \in DOMAIN rd THEN rd[i] ELSE {}]
        /\ UNCHANGED << torrent, cleanup, orphans, strays, outcome >>
    BY <1>3 DEF AddMagnet, Adding, IInv, GuardInv
  <2>2. /\ SelectedSet' = SelectedSet /\ DOMAIN rd' = DOMAIN rd \cup {lastId + 1}
        /\ rd' = [i \in DOMAIN rd' |-> rd'[i]]
    BY <2>1, SelectionStays
  <2>3. IdsInv'
    BY <2>1, <2>2, Constants DEF IInv, IdsInv
  <2>4. GuardInv'
    BY <2>1 DEF IInv, IdsInv, GuardInv, NoId
  <2>5. MagnetsOwned'
    <3> SUFFICES ASSUME NEW m \in (DOMAIN rd \cap Magnets)'
                 PROVE  (m \in {guard, outcome.id} \cup DOMAIN cleanup \cup orphans \cup strays)'
      BY DEF MagnetsOwned
    <3>1. m = lastId + 1 \/ m \in DOMAIN rd \cap Magnets
      BY <2>1, <2>2, Constants DEF IInv, IdsInv, Magnets
    <3>2. m # NoId
      BY Constants DEF IInv, IdsInv, Magnets, NoId
    <3> QED BY <2>1, <3>1, <3>2 DEF IInv, MagnetsOwned
  <2>6. NewIdComplete'
    BY <2>1 DEF NewIdComplete
  <2> QED BY <2>3, <2>4, <2>5, <2>6 DEF IInv
<1>4. CASE AddMagnetFails
  <2>1. /\ Adding /\ StrayOrNothing
        /\ UNCHANGED << torrent, guard, cleanup, orphans >>
    BY <1>4 DEF AddMagnetFails
  <2>2. \/ pc' = "add" /\ outcome' = outcome
        \/ pc' = "done" /\ outcome'.id = NoId
    BY <1>4, CallFailsFact DEF AddMagnetFails
  <2> QED BY <2>1, <2>2, LostAnswer DEF Adding
<1>5. CASE SelectFiles
  <2>1. /\ pc = "select" /\ guard \in DOMAIN rd /\ pc' = "poll" /\ outcome.id = NoId
        /\ rd' = [rd EXCEPT ![guard] = Wanted]
        /\ UNCHANGED << torrent, at, guard, cleanup, orphans, lastId, strays, listed, outcome >>
    BY <1>5 DEF SelectFiles, IInv, GuardInv
  <2>2. /\ SelectedSet' = SelectedSet /\ DOMAIN rd' = DOMAIN rd
        /\ rd' = [i \in DOMAIN rd' |-> rd'[i]] /\ rd'[guard] = Wanted
    BY <2>1, SelectionStays
  <2>3. at.strategy \in {1, 3} => SelectedSet \subseteq Wanted
    BY DEF Wanted, ItemFiles, IInv, IdsInv
  <2>4. IdsInv' /\ GuardInv'
    BY <2>1, <2>2, <2>3 DEF IInv, IdsInv, GuardInv
  <2>5. MagnetsOwned' /\ NewIdComplete'
    BY <2>1, <2>2 DEF IInv, MagnetsOwned, NewIdComplete, Magnets
  <2> QED BY <2>4, <2>5 DEF IInv
<1>6. CASE SelectFilesFails
  <2>1. /\ pc = "select" /\ DropGuard
        /\ (rd' = rd \/ (guard \in DOMAIN rd /\ rd' = [rd EXCEPT ![guard] = Wanted]))
        /\ UNCHANGED << torrent, orphans, lastId, strays >>
    BY <1>6 DEF SelectFilesFails
  <2>2. \/ pc' = "add" /\ outcome' = outcome
        \/ pc' = "done" /\ outcome'.id = NoId
    BY <1>6, CallFailsFact DEF SelectFilesFails
  <2>3. DOMAIN rd' = DOMAIN rd /\ rd' = [i \in DOMAIN rd' |-> rd'[i]]
    BY <2>1 DEF IInv, IdsInv
  <2> QED BY <2>1, <2>2, <2>3, IdsStay, AttemptEnds
<1>7. CASE PollReady
  <2>1. /\ pc = "poll" /\ guard \in DOMAIN rd \ listed /\ outcome.id = NoId
        /\ UNCHANGED << torrent, orphans, rd, lastId, strays, listed >>
    BY <1>7 DEF PollReady, IInv, GuardInv
  <2>2. CASE at.strategy \in {1, 3}
    <3>1. /\ guard' = NoId /\ cleanup' = cleanup /\ pc' = "done"
          /\ outcome' = [kind |-> "success", id |-> guard]
      BY <1>7, <2>2 DEF PollReady, Dismiss, Return
    <3>2. SelectedSet' = SelectedSet
      BY <2>1, SelectionStays
    <3>3. IdsInv' /\ GuardInv'
      BY <2>1, <3>1, <3>2 DEF IInv, IdsInv, GuardInv, NoId
    <3>4. MagnetsOwned'
      BY <2>1, <3>1, Constants DEF IInv, IdsInv, MagnetsOwned, Magnets, NoId
    <3>5. NewIdComplete'
      BY <2>1, <2>2, <3>1, <3>2 DEF IInv, GuardInv, NewIdComplete
    <3> QED BY <3>3, <3>4, <3>5 DEF IInv
  <2>3. CASE at.strategy \notin {1, 3}
    <3>1. DropGuard /\ Advance(TRUE)
      BY <1>7, <2>3 DEF PollReady
    <3>2. rd' = [i \in DOMAIN rd' |-> rd'[i]]
      BY <2>1 DEF IInv, IdsInv
    <3> QED BY <2>1, <3>1, <3>2, AdvanceFact, IdsStay, AttemptEnds
  <2> QED BY <2>2, <2>3
<1>8. CASE PollNotReady
  <2>1. /\ pc = "poll" /\ guard \in DOMAIN rd
        /\ UNCHANGED << torrent, orphans, rd, lastId, strays, listed >>
    BY <1>8 DEF PollNotReady
  <2>2. CASE poll + 1 < Polls \/ torrent.restrictCached
    <3>1. /\ pc' \in {"poll", "discard"}
          /\ UNCHANGED << at, outcome, guard, cleanup >>
      BY <1>8, <2>1, <2>2 DEF PollNotReady
    <3>2. SelectedSet' = SelectedSet
      BY <2>1, SelectionStays
    <3>3. IdsInv' /\ GuardInv'
      BY <2>1, <3>1, <3>2 DEF IInv, IdsInv, GuardInv
    <3>4. MagnetsOwned' /\ NewIdComplete'
      BY <2>1, <3>1, <3>2 DEF IInv, MagnetsOwned, NewIdComplete, Magnets
    <3> QED BY <3>3, <3>4 DEF IInv
  <2>3. CASE ~ (poll + 1 < Polls \/ torrent.restrictCached)
    <3>1. DropGuard /\ Advance(FALSE)
      BY <1>8, <2>3 DEF PollNotReady
    <3>2. rd' = [i \in DOMAIN rd' |-> rd'[i]]
      BY <2>1 DEF IInv, IdsInv
    <3> QED BY <2>1, <3>1, <3>2, AdvanceFact, IdsStay, AttemptEnds
  <2> QED BY <2>2, <2>3
<1>9. CASE PollFails
  <2>1. /\ pc = "poll" /\ DropGuard
        /\ UNCHANGED << torrent, orphans, rd, lastId, strays >>
    BY <1>9 DEF PollFails
  <2>2. \/ pc' = "add" /\ outcome' = outcome
        \/ pc' = "done" /\ outcome'.id = NoId
    BY <1>9, CallFailsFact DEF PollFails
  <2>3. rd' = [i \in DOMAIN rd' |-> rd'[i]]
    BY <2>1 DEF IInv, IdsInv
  <2> QED BY <2>1, <2>2, <2>3, IdsStay, AttemptEnds
<1>10. CASE DeleteEphemeral
  <2>1. /\ pc = "discard" /\ rd' = Without(guard) /\ guard' = NoId /\ pc' = "done"
        /\ outcome.id = NoId /\ outcome'.id = NoId
        /\ UNCHANGED << torrent, cleanup, orphans, lastId, strays >>
    BY <1>10 DEF DeleteEphemeral, Return, IInv, GuardInv
  <2>2. /\ SelectedSet' = SelectedSet /\ DOMAIN rd' = DOMAIN rd \ {guard}
        /\ rd' = [i \in DOMAIN rd' |-> rd'[i]]
    BY <2>1, SelectionStays, WithoutFact
  <2>3. IdsInv' /\ GuardInv'
    BY <2>1, <2>2 DEF IInv, IdsInv, GuardInv, NoId
  <2>4. MagnetsOwned' /\ NewIdComplete'
    BY <2>1, <2>2 DEF IInv, MagnetsOwned, NewIdComplete, Magnets
  <2> QED BY <2>3, <2>4 DEF IInv
<1>11. CASE DeleteEphemeralFails
  <2>1. /\ pc = "discard" /\ DropGuard
        /\ rd' = rd \/ rd' = Without(guard)
        /\ UNCHANGED << torrent, orphans, lastId, strays >>
    BY <1>11 DEF DeleteEphemeralFails
  <2>2. pc' = "done" /\ outcome'.id = NoId
    <3>1. PICK e \in Errors : Return(MapRd(e), NoId)
      BY <1>11 DEF DeleteEphemeralFails
    <3> QED BY <3>1 DEF Return
  <2>3. DOMAIN rd' \subseteq DOMAIN rd /\ rd' = [i \in DOMAIN rd' |-> rd'[i]]
    BY <2>1, WithoutFact DEF IInv, IdsInv
  <2> QED BY <2>1, <2>2, <2>3, IdsStay, AttemptEnds
<1>12. CASE Timeout
  <2>1. /\ pc \notin {"start", "done"} /\ DropGuard
        /\ UNCHANGED << torrent, orphans >> /\ pc' = "done" /\ outcome'.id = NoId
    BY <1>12 DEF Timeout, Return
  <2>2. CASE Adding
    <3>1. guard = NoId /\ guard' = guard /\ StrayOrNothing
      BY <1>12, <2>1, <2>2 DEF Timeout, Adding, DropGuard, IInv, GuardInv
    <3>2. DOMAIN cleanup' = DOMAIN cleanup
      BY <2>1, <3>1, DropGuardFact
    <3> QED BY <2>1, <2>2, <3>1, <3>2, LostAnswer
  <2>3. CASE ~ Adding
    <3>1. UNCHANGED << lastId, rd, strays >>
      BY <1>12, <2>3 DEF Timeout
    <3>2. rd' = [i \in DOMAIN rd' |-> rd'[i]]
      BY <3>1 DEF IInv, IdsInv
    <3> QED BY <2>1, <3>1, <3>2, IdsStay, AttemptEnds
  <2> QED BY <2>2, <2>3
<1>13. ASSUME NEW id \in DOMAIN cleanup, CleanupDeletes(id) PROVE IInv'
  <2>1. /\ rd' = Without(id) /\ DOMAIN cleanup' = DOMAIN cleanup \ {id}
        /\ UNCHANGED << torrent, pc, at, guard, orphans, lastId, strays, listed, outcome >>
    BY <1>13 DEF CleanupDeletes
  <2>2. id # outcome.id \/ outcome.id = NoId
    BY <1>13 DEF IInv, NewIdComplete
  <2>3. id \notin DOMAIN rd'
    BY <2>1, WithoutFact
  <2> QED BY <2>1, <2>2, <2>3, TorrentGone
<1>14. ASSUME NEW id \in DOMAIN cleanup, CleanupFails(id) PROVE IInv'
  <2>1. /\ rd' = rd \/ rd' = Without(id)
        /\ \/ DOMAIN cleanup' = DOMAIN cleanup /\ orphans' = orphans
           \/ DOMAIN cleanup' = DOMAIN cleanup \ {id} /\ orphans' = orphans \cup {id}
        /\ UNCHANGED << torrent, pc, at, guard, lastId, strays, listed, outcome >>
    BY <1>14 DEF CleanupFails
  <2>2. id # outcome.id \/ outcome.id = NoId
    BY <1>14 DEF IInv, NewIdComplete
  <2> QED BY <2>1, <2>2, TorrentGone
<1>15. ASSUME NEW id \in listed, RefreshDeletes(id) PROVE IInv'
  <2>1. /\ rd' = rd \/ rd' = Without(id)
        /\ listed' \subseteq listed
        /\ UNCHANGED << torrent, pc, at, guard, cleanup, orphans, lastId, strays, outcome >>
    BY <1>15 DEF RefreshDeletes
  <2>2. id # outcome.id \/ outcome.id = NoId
    BY <1>15 DEF IInv, NewIdComplete
  <2> QED BY <2>1, <2>2, TorrentGone
<1>17. ASSUME NEW id \in DOMAIN rd, RefreshLists(id) PROVE IInv'
  <2>1. /\ id # outcome.id /\ listed' = listed \cup {id}
        /\ UNCHANGED << torrent, pc, at, guard, cleanup, orphans, rd, lastId, strays, outcome >>
    BY <1>17 DEF RefreshLists
  <2>2. SelectedSet' = SelectedSet
    BY <2>1, SelectionStays
  <2>3. IdsInv' /\ GuardInv' /\ MagnetsOwned'
    BY <2>1, <2>2 DEF IInv, IdsInv, GuardInv, MagnetsOwned, Magnets
  <2>4. NewIdComplete'
    BY <2>1, <2>2 DEF IInv, NewIdComplete
  <2> QED BY <2>3, <2>4 DEF IInv
<1>16. CASE UNCHANGED vars
  <2>1. SelectedSet' = SelectedSet
    BY <1>16, SelectionStays DEF vars
  <2> QED BY <1>16, <2>1 DEF vars, IInv, IdsInv, GuardInv, MagnetsOwned, NewIdComplete, Magnets
<1> QED
  BY <1>1, <1>2, <1>3, <1>4, <1>5, <1>6, <1>7, <1>8, <1>9, <1>10, <1>11, <1>12,
     <1>13, <1>14, <1>15, <1>16, <1>17 DEF Next, CascadeStep, CleanupStep

(* Real-Debrid keeps no magnet that the cascade has forgotten: through     *)
(* every return, every failure and the timeout, each is in scope, handed   *)
(* on, being deleted, or reported.                                         *)
THEOREM NoMagnetLost == Spec => []MagnetsOwned
<1>1. IInv => MagnetsOwned
  BY DEF IInv
<1> QED BY InitInv, StepInv, <1>1, PTL DEF Spec

(* The id that a successful reinsert or archive repair hands to the        *)
(* registry is complete on Real-Debrid, and no pending delete is after it. *)
THEOREM NewIdIsSafe == Spec => []NewIdComplete
<1>1. IInv => NewIdComplete
  BY DEF IInv
<1> QED BY InitInv, StepInv, <1>1, PTL DEF Spec

-----------------------------------------------------------------------------
(* Before the end no call has met the limit, and the call that meets it    *)
(* ends the cascade with the verdict for it.                               *)
VerdictInv ==
  /\ limited \in BOOLEAN
  /\ DeferExactlyForBandwidth
  /\ pc # "done" => ~limited

LEMMA VerdictFromEnd ==
  ASSUME NEW e \in Errors, limited = FALSE,
         limited' = (limited \/ e = "bandwidth"), Return(MapRd(e), NoId)
  PROVE  VerdictInv'
<1>1. outcome'.kind = MapRd(e) /\ pc' = "done"
  BY DEF Return
<1>2. limited' = (e = "bandwidth")
  OBVIOUS
<1>3. CASE e = "bandwidth"
  <2>1. limited' = TRUE /\ outcome'.kind = "defer"
    BY <1>1, <1>2, <1>3 DEF MapRd
  <2> QED BY <1>1, <2>1 DEF VerdictInv, DeferExactlyForBandwidth
<1>4. CASE e # "bandwidth"
  <2>1. limited' = FALSE /\ outcome'.kind = "unrepairable"
    BY <1>1, <1>2, <1>4 DEF MapRd
  <2> QED BY <1>1, <2>1 DEF VerdictInv, DeferExactlyForBandwidth
<1> QED BY <1>3, <1>4

(* A step of the cascade that met no limit and does not answer for one.    *)
LEMMA VerdictKept ==
  ASSUME VerdictInv, pc # "done", limited' = limited,
         outcome' = outcome \/ outcome'.kind \in {"success", "unrepairable", "timeout"}
  PROVE  VerdictInv'
BY DEF VerdictInv, DeferExactlyForBandwidth

LEMMA AdvanceVerdict ==
  ASSUME NEW good \in BOOLEAN, Advance(good)
  PROVE  outcome' = outcome \/ outcome'.kind \in {"success", "unrepairable"}
BY DEF Advance, Return

LEMMA CallFailsVerdict ==
  ASSUME VerdictInv, pc # "done", NEW e \in Errors, CallFails(e)
  PROVE  VerdictInv'
<1>1. limited = FALSE /\ limited' = (limited \/ e = "bandwidth")
  BY DEF VerdictInv, CallFails
<1>2. CASE at.strategy = 1 \/ e = "bandwidth"
  <2>1. Return(MapRd(e), NoId)
    BY <1>2 DEF CallFails
  <2> QED BY <1>1, <2>1, VerdictFromEnd
<1>3. CASE ~ (at.strategy = 1 \/ e = "bandwidth")
  <2>1. Advance(FALSE) /\ limited' = limited
    BY <1>1, <1>3 DEF CallFails
  <2>2. outcome' = outcome \/ outcome'.kind \in {"success", "unrepairable"}
    BY <2>1, AdvanceVerdict
  <2> QED BY <2>1, <2>2, VerdictKept
<1> QED BY <1>2, <1>3

LEMMA VerdictStep == VerdictInv /\ [Next]_vars => VerdictInv'
<1> SUFFICES ASSUME VerdictInv, [Next]_vars PROVE VerdictInv'
  OBVIOUS
<1>1. CASE Begin
  <2>1. /\ pc # "done" /\ limited' = limited
        /\ outcome' = outcome \/ outcome'.kind = "unrepairable"
    BY <1>1 DEF Begin, Return
  <2> QED BY <2>1, VerdictKept
<1>2. CASE DeleteOld \/ AddMagnet \/ SelectFiles
  <2>1. pc # "done" /\ limited' = limited /\ outcome' = outcome
    BY <1>2 DEF DeleteOld, AddMagnet, Adding, SelectFiles
  <2> QED BY <2>1, VerdictKept
<1>3. CASE AddMagnetFails \/ SelectFilesFails \/ PollFails
  <2>1. pc # "done" /\ \E e \in Errors : CallFails(e)
    BY <1>3 DEF AddMagnetFails, SelectFilesFails, PollFails, Adding
  <2> QED BY <2>1, CallFailsVerdict
<1>4. CASE PollReady
  <2>1. pc # "done" /\ limited' = limited
    BY <1>4 DEF PollReady
  <2>2. \/ Return("success", guard)
        \/ Advance(TRUE)
    BY <1>4 DEF PollReady
  <2>3. Return("success", guard) => outcome'.kind = "success"
    BY DEF Return
  <2>4. Advance(TRUE) => outcome' = outcome \/ outcome'.kind \in {"success", "unrepairable"}
    BY AdvanceVerdict
  <2> QED BY <2>1, <2>2, <2>3, <2>4, VerdictKept
<1>5. CASE PollNotReady
  <2>1. pc # "done" /\ limited' = limited
    BY <1>5 DEF PollNotReady
  <2>2. outcome' = outcome \/ Advance(FALSE)
    BY <1>5 DEF PollNotReady
  <2>3. outcome' = outcome \/ outcome'.kind \in {"success", "unrepairable"}
    BY <2>2, AdvanceVerdict
  <2> QED BY <2>1, <2>3, VerdictKept
<1>6. CASE DeleteEphemeral
  <2>1. pc # "done" /\ limited' = limited /\ outcome'.kind = "unrepairable"
    BY <1>6 DEF DeleteEphemeral, Return
  <2> QED BY <2>1, VerdictKept
<1>7. CASE DeleteEphemeralFails
  <2>1. PICK e \in Errors : limited' = (limited \/ e = "bandwidth") /\ Return(MapRd(e), NoId)
    BY <1>7 DEF DeleteEphemeralFails
  <2>2. limited = FALSE
    BY <1>7 DEF DeleteEphemeralFails, VerdictInv
  <2> QED BY <2>1, <2>2, VerdictFromEnd
<1>8. CASE Timeout
  <2>1. pc # "done" /\ limited' = limited /\ outcome'.kind = "timeout"
    BY <1>8 DEF Timeout, Return
  <2> QED BY <2>1, VerdictKept
<1>9. CASE \/ CleanupStep \/ (\E id \in DOMAIN rd : RefreshLists(id))
          \/ (\E id \in listed : RefreshDeletes(id)) \/ UNCHANGED vars
  <2>1. pc' = pc /\ limited' = limited /\ outcome' = outcome
    BY <1>9 DEF CleanupStep, CleanupDeletes, CleanupFails, RefreshLists, RefreshDeletes, vars
  <2> QED BY <2>1 DEF VerdictInv, DeferExactlyForBandwidth
<1> QED
  BY <1>1, <1>2, <1>3, <1>4, <1>5, <1>6, <1>7, <1>8, <1>9 DEF Next, CascadeStep

LEMMA VerdictInit == Init => VerdictInv
<1> SUFFICES ASSUME Init PROVE VerdictInv
  OBVIOUS
<1>1. limited = FALSE /\ outcome.kind = "none"
  BY DEF Init, Pending
<1> QED BY <1>1 DEF VerdictInv, DeferExactlyForBandwidth

(* Whatever strategy, item and call the limit hits, the cascade defers; and*)
(* no later `continue`, verdict or timeout turns that into another answer. *)
THEOREM BandwidthDefers == Spec => []DeferExactlyForBandwidth
<1>1. VerdictInv => DeferExactlyForBandwidth
  BY DEF VerdictInv
<1> QED BY VerdictInit, VerdictStep, <1>1, PTL DEF Spec

-----------------------------------------------------------------------------
(* Item n of strategy s was found ready, with all its files.               *)
Found(s, n) == \A f \in ItemFiles(s, n) : << s, f >> \in ready

(* The counters of a strategy: fewer items were ready than were tried, or  *)
(* each of them was.                                                       *)
CountInv ==
  /\ torrent.selected \in Seq(Files)
  /\ at \in [strategy : 1..4, item : Nat \ {0}, good : Nat]
  /\ at.good < at.item
  /\ at.good = at.item - 1 => \A n \in 1..(at.item - 1) : Found(at.strategy, n)

CoverInv ==
  /\ CountInv
  /\ pc # "done" => outcome.kind = "none"
  /\ SuccessCoversSelection

(* Every position of a list is in one of its batches.                      *)
LEMMA BatchOf ==
  ASSUME NEW n \in Nat, NEW b \in Nat \ {0}, NEW j \in 1..n
  PROVE  (j - 1) \div b + 1 \in 1..((n + b - 1) \div b)
OBVIOUS

(* If every item of strategy 2 or 4 was found ready, every selected file   *)
(* was.                                                                    *)
LEMMA ItemsCover ==
  ASSUME torrent.selected \in Seq(Files), NEW s \in {2, 4},
         NEW R, \A n \in 1..Items(s) : \A f \in ItemFiles(s, n) : << s, f >> \in R
  PROVE  \A f \in SelectedSet : << s, f >> \in R
<1> SUFFICES ASSUME NEW i \in 1..SelectedCount
             PROVE  << s, torrent.selected[i] >> \in R
  BY DEF SelectedSet
<1>1. SelectedCount \in Nat
  BY DEF SelectedCount
<1>2. CASE s = 2
  <2>1. Items(s) = SelectedCount /\ ItemFiles(s, i) = {torrent.selected[i]}
    BY <1>2 DEF Items, ItemFiles
  <2> QED BY <2>1, <1>1
<1>3. CASE s = 4
  <2> DEFINE q == (i - 1) \div BatchSize
  <2>1. q \in Nat
    BY <1>1, Constants
  <2>2. q + 1 \in 1..Items(s)
    <3>1. q + 1 \in 1..((SelectedCount + BatchSize - 1) \div BatchSize)
      BY <1>1, BatchOf, Constants
    <3>2. Items(s) = (SelectedCount + BatchSize - 1) \div BatchSize
      BY <1>3 DEF Items
    <3> QED BY <3>1, <3>2
  <2>3. torrent.selected[i] \in ItemFiles(s, q + 1)
    <3>1. q = (q + 1) - 1
      BY <2>1
    <3> QED BY <1>3, <3>1 DEF ItemFiles
  <2> QED BY <2>2, <2>3
<1> QED BY <1>2, <1>3

LEMMA SelectionNamesStay ==
  ASSUME torrent' = torrent
  PROVE  /\ SelectedSet' = SelectedSet
         /\ \A s, n : ItemFiles(s, n)' = ItemFiles(s, n)
BY DEF SelectedSet, SelectedCount, ItemFiles

(* A step that leaves the counters alone and calls nothing a success.      *)
LEMMA CoverKept ==
  ASSUME CoverInv, torrent' = torrent, at' = at, ready \subseteq ready',
         \/ outcome' = outcome /\ (pc' # "done" => pc # "done")
         \/ outcome'.kind # "success" /\ pc' = "done"
  PROVE  CoverInv'
<1>1. SelectedSet' = SelectedSet /\ \A s, n : ItemFiles(s, n)' = ItemFiles(s, n)
  BY SelectionNamesStay
<1>2. CountInv'
  <2>1. \A n \in 1..(at.item - 1) : Found(at.strategy, n) => Found(at.strategy, n)'
    BY <1>1 DEF Found
  <2> QED BY <2>1 DEF CoverInv, CountInv
<1>3. SuccessCoversSelection'
  BY <1>1 DEF CoverInv, SuccessCoversSelection
<1> QED BY <1>2, <1>3 DEF CoverInv

(* An attempt is over.                                                     *)
LEMMA AdvanceCovers ==
  ASSUME CoverInv, torrent' = torrent, pc # "done", ready \subseteq ready',
         NEW good \in BOOLEAN, Advance(good),
         good => \A f \in ItemFiles(at.strategy, at.item) : << at.strategy, f >> \in ready'
  PROVE  CoverInv'
<1> DEFINE total == at.good + (IF good THEN 1 ELSE 0)
<1>0. SelectedSet' = SelectedSet /\ \A s, n : ItemFiles(s, n)' = ItemFiles(s, n)
  BY SelectionNamesStay
<1>1. /\ at \in [strategy : 1..4, item : Nat \ {0}, good : Nat] /\ at.good < at.item
      /\ torrent.selected \in Seq(Files) /\ outcome.kind = "none"
  BY DEF CoverInv, CountInv
<1>2. total \in Nat /\ total <= at.item
  BY <1>1
<1>3. total = at.item => \A n \in 1..at.item : (\A f \in ItemFiles(at.strategy, n) : << at.strategy, f >> \in ready')
  <2> SUFFICES ASSUME total = at.item, NEW n \in 1..at.item, NEW f \in ItemFiles(at.strategy, n)
               PROVE  << at.strategy, f >> \in ready'
    OBVIOUS
  <2>1. good /\ at.good = at.item - 1
    BY <1>1
  <2>2. CASE n = at.item
    BY <2>1, <2>2
  <2>3. CASE n # at.item
    BY <2>1, <2>3, <1>1 DEF Found, CoverInv, CountInv
  <2> QED BY <2>2, <2>3
<1>4. CASE at' = [at EXCEPT !.item = @ + 1, !.good = total] /\ pc' = "add" /\ outcome' = outcome
  <2>1. /\ at'.strategy = at.strategy /\ at'.item = at.item + 1 /\ at'.good = total
        /\ at' \in [strategy : 1..4, item : Nat \ {0}, good : Nat]
    <3>1. at = [strategy |-> at.strategy, item |-> at.item, good |-> at.good]
      BY <1>1
    <3>2. at' = [strategy |-> at.strategy, item |-> at.item + 1, good |-> total]
      BY <1>4, <3>1
    <3> HIDE DEF total
    <3> QED BY <1>1, <1>2, <3>2
  <2>2. CountInv'
    BY <1>0, <1>1, <1>2, <1>3, <2>1 DEF CountInv, Found
  <2> QED BY <1>1, <1>4, <2>2 DEF CoverInv, SuccessCoversSelection
<1>5. CASE /\ at.item = Items(at.strategy)
           /\ at.strategy \in {2, 4} /\ total = Items(at.strategy)
           /\ Return("success", NoId)
  <2>1. at' = at /\ pc' = "done"
    BY <1>5 DEF Return
  <2>2. CountInv'
    <3>1. \A n \in 1..(at.item - 1) : Found(at.strategy, n) => Found(at.strategy, n)'
      BY <1>0, <2>1 DEF Found
    <3> QED BY <2>1, <3>1 DEF CoverInv, CountInv
  <2>3. \A f \in SelectedSet : << at.strategy, f >> \in ready'
    BY <1>1, <1>3, <1>5, ItemsCover
  <2>4. SuccessCoversSelection'
    BY <1>0, <1>1, <2>3 DEF SuccessCoversSelection
  <2> QED BY <2>1, <2>2, <2>4 DEF CoverInv
<1>6. CASE Return("unrepairable", NoId)
  BY <1>6, CoverKept DEF Return
<1>7. CASE /\ NextStrategy # 0
           /\ at' = [strategy |-> NextStrategy, item |-> 1, good |-> 0]
           /\ pc' = "add" /\ outcome' = outcome
  <2>1. NextStrategy \in {2, 3, 4}
    BY <1>7 DEF NextStrategy
  <2>2. CountInv'
    BY <1>1, <1>7, <2>1 DEF CountInv
  <2> QED BY <1>1, <1>7, <2>2 DEF CoverInv, SuccessCoversSelection
<1> QED BY <1>4, <1>5, <1>6, <1>7 DEF Advance

LEMMA CallFailsCovers ==
  ASSUME CoverInv, torrent' = torrent, pc # "done", ready' = ready,
         NEW e \in Errors, CallFails(e)
  PROVE  CoverInv'
<1>1. CASE at.strategy = 1 \/ e = "bandwidth"
  <2>1. Return(MapRd(e), NoId) /\ MapRd(e) # "success"
    BY <1>1 DEF CallFails, MapRd
  <2> QED BY <2>1, CoverKept DEF Return
<1>2. CASE ~ (at.strategy = 1 \/ e = "bandwidth")
  BY <1>2, AdvanceCovers DEF CallFails
<1> QED BY <1>1, <1>2

LEMMA CoverInit == Init => CoverInv
<1> SUFFICES ASSUME Init PROVE CoverInv
  OBVIOUS
<1>1. /\ torrent.selected \in Seq(Files) /\ outcome.kind = "none"
      /\ at = [strategy |-> 1, item |-> 1, good |-> 0]
  BY Constants DEF Init, Pending
<1> QED BY <1>1 DEF CoverInv, CountInv, SuccessCoversSelection

LEMMA CoverStep == CoverInv /\ [Next]_vars => CoverInv'
<1> SUFFICES ASSUME CoverInv, [Next]_vars PROVE CoverInv'
  OBVIOUS
<1>0. torrent' = torrent
  BY TorrentStays DEF vars
<1>1. CASE Begin
  <2>1. /\ at' = at /\ ready' = ready /\ pc # "done"
        /\ \/ outcome' = outcome
           \/ outcome'.kind = "unrepairable" /\ pc' = "done"
    BY <1>1 DEF Begin, Return
  <2> QED BY <1>0, <2>1, CoverKept
<1>2. CASE DeleteOld \/ AddMagnet \/ SelectFiles
  <2>1. at' = at /\ ready' = ready /\ pc # "done" /\ outcome' = outcome
    BY <1>2 DEF DeleteOld, AddMagnet, Adding, SelectFiles
  <2> QED BY <1>0, <2>1, CoverKept
<1>3. CASE AddMagnetFails \/ SelectFilesFails \/ PollFails
  <2>1. pc # "done" /\ ready' = ready /\ \E e \in Errors : CallFails(e)
    BY <1>3 DEF AddMagnetFails, SelectFilesFails, PollFails, Adding
  <2> QED BY <1>0, <2>1, CallFailsCovers
<1>4. CASE PollReady
  <2>1. pc # "done" /\ ready' = ready \cup ({at.strategy} \X Wanted)
    BY <1>4 DEF PollReady
  <2>2. ready \subseteq ready' /\ \A f \in ItemFiles(at.strategy, at.item) : << at.strategy, f >> \in ready'
    BY <2>1 DEF Wanted
  <2>3. SelectedSet' = SelectedSet /\ \A s, n : ItemFiles(s, n)' = ItemFiles(s, n)
    BY <1>0, SelectionNamesStay
  <2>4. CASE at.strategy \in {1, 3}
    <3>1. at' = at /\ pc' = "done"
      BY <1>4, <2>4 DEF PollReady, Return
    <3>2. SelectedSet \subseteq ItemFiles(at.strategy, at.item)
      <4>1. SelectedSet \subseteq Files
        BY DEF CoverInv, CountInv, SelectedSet, SelectedCount
      <4> QED BY <2>4, <4>1 DEF ItemFiles
    <3>3. SuccessCoversSelection'
      BY <2>2, <2>3, <2>4, <3>2 DEF SuccessCoversSelection
    <3>4. CountInv'
      <4>1. \A n \in 1..(at.item - 1) : Found(at.strategy, n) => Found(at.strategy, n)'
        BY <2>2, <2>3, <3>1 DEF Found
      <4> QED BY <1>0, <3>1, <4>1 DEF CoverInv, CountInv
    <3> QED BY <3>1, <3>3, <3>4 DEF CoverInv
  <2>5. CASE at.strategy \notin {1, 3}
    <3>1. Advance(TRUE)
      BY <1>4, <2>5 DEF PollReady
    <3> QED BY <1>0, <2>1, <2>2, <3>1, AdvanceCovers
  <2> QED BY <2>4, <2>5
<1>5. CASE PollNotReady
  <2>1. pc # "done" /\ ready' = ready
    BY <1>5 DEF PollNotReady
  <2>2. (at' = at /\ outcome' = outcome) \/ Advance(FALSE)
    BY <1>5 DEF PollNotReady
  <2> QED BY <1>0, <2>1, <2>2, CoverKept, AdvanceCovers
<1>6. CASE DeleteEphemeral \/ Timeout
  <2>1. at' = at /\ ready' = ready /\ outcome'.kind # "success" /\ pc' = "done"
    BY <1>6 DEF DeleteEphemeral, Timeout, Return
  <2> QED BY <1>0, <2>1, CoverKept
<1>7. CASE DeleteEphemeralFails
  <2>1. at' = at /\ ready' = ready /\ outcome'.kind # "success" /\ pc' = "done"
    BY <1>7 DEF DeleteEphemeralFails, Return, MapRd
  <2> QED BY <1>0, <2>1, CoverKept
<1>8. CASE \/ CleanupStep \/ (\E id \in DOMAIN rd : RefreshLists(id))
          \/ (\E id \in listed : RefreshDeletes(id)) \/ UNCHANGED vars
  <2>1. pc' = pc /\ at' = at /\ ready' = ready /\ outcome' = outcome
    BY <1>8 DEF CleanupStep, CleanupDeletes, CleanupFails, RefreshLists, RefreshDeletes, vars
  <2> QED BY <1>0, <2>1, CoverKept
<1> QED
  BY <1>1, <1>2, <1>3, <1>4, <1>5, <1>6, <1>7, <1>8 DEF Next, CascadeStep

(* No success for a part of the selection: the strategies that count their *)
(* items have found every file of the torrent ready when they return it,   *)
(* for any number of files and any batch size.                             *)
THEOREM SuccessIsWhole == Spec => []SuccessCoversSelection
<1>1. CoverInv => SuccessCoversSelection
  BY DEF CoverInv
<1> QED BY CoverInit, CoverStep, <1>1, PTL DEF Spec
=============================================================================
