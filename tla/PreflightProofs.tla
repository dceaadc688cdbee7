-------------------------- MODULE PreflightProofs --------------------------
(***************************************************************************)
(* repair_one, preflight and cascade together, for every torrent: what is  *)
(* proved of the cascade holds of the whole repair, and the shortcut past  *)
(* the cascade is taken for the right torrents.                            *)
(***************************************************************************)
EXTENDS Preflight, RepairCascadeProofs

(* Seen through the cascade's variables a repair is a run of the cascade   *)
(* that starts late or never.                                              *)
LEMMA RepairStepIsCascadeStep == [RepairNext]_repairVars => [Next]_vars
<1>1. PreflightStep => UNCHANGED vars
  BY DEF PreflightStep
<1>2. StartCascade => Next
  BY DEF StartCascade, Next, CascadeStep
<1>3. UNCHANGED repairVars => UNCHANGED vars
  BY DEF repairVars
<1> QED BY <1>1, <1>2, <1>3 DEF RepairNext

(* No repair, deferred, cut short or run to its end, loses a magnet on     *)
(* Real-Debrid.                                                            *)
THEOREM RepairLosesNoMagnet == RepairSpec => []MagnetsOwned
<1>1. RepairInit => Init
  BY DEF RepairInit
<1>2. IInv => MagnetsOwned
  BY DEF IInv
<1> QED BY InitInv, StepInv, RepairStepIsCascadeStep, <1>1, <1>2, PTL DEF RepairSpec

(* What else the cascade promises holds of every repair: the id handed on  *)
(* is complete and safe, a bandwidth limit and nothing else defers, and a  *)
(* success is one for the whole selection.                                 *)
THEOREM RepairKeepsPromises ==
  RepairSpec => [](NewIdComplete /\ DeferExactlyForBandwidth /\ SuccessCoversSelection)
<1>1. RepairInit => IInv /\ VerdictInv /\ CoverInv
  BY InitInv, VerdictInit, CoverInit DEF RepairInit
<1>2. IInv /\ VerdictInv /\ CoverInv /\ [RepairNext]_repairVars
        => (IInv /\ VerdictInv /\ CoverInv)'
  BY StepInv, VerdictStep, CoverStep, RepairStepIsCascadeStep
<1>3. IInv => NewIdComplete
  BY DEF IInv
<1>4. VerdictInv => DeferExactlyForBandwidth
  BY DEF VerdictInv
<1>5. CoverInv => SuccessCoversSelection
  BY DEF CoverInv
<1> QED BY <1>1, <1>2, <1>3, <1>4, <1>5, PTL DEF RepairSpec

-----------------------------------------------------------------------------
(* Links and states are kept for each selected file; orphans are tried     *)
(* before the first probe.                                                 *)
CopyInv ==
  /\ torrent.selected \in Seq(Files)
  /\ step \in {"preflight", "deferred", "verified", "proceed", "cascade"}
  /\ step \in {"preflight", "verified", "proceed"} =>
       slots \in [Positions -> Nat] /\ DOMAIN states = Positions
  /\ extra \in Seq(Nat \ {0}) /\ position \in Nat \ {0}
  /\ extra # << >> => position = 1

(* What the probe has found so far: a linked file behind it is alive or    *)
(* broken, and alive and `ok` if nothing is wrong with the torrent.        *)
ProbeInv ==
  /\ step = "preflight" =>
       /\ \A i \in Positions : i < position /\ slots[i] # NoLink
                                 => i \in alive \/ states[i] = "broken"
       /\ ~sick => /\ AnyPlayableSelected /\ Linked = Positions
                   /\ \A i \in Positions : i < position => states[i] = "ok"
  /\ step = "verified" => {i \in Linked : PlayableAt(i)} \subseteq alive

(* The cascade has not begun before preflight lets it, and it lets it for  *)
(* a reason.                                                               *)
HandOverInv ==
  /\ step # "cascade" => 1..OldIds \subseteq DOMAIN rd
  /\ step \in {"proceed", "cascade"} => sick

PreInv == CopyInv /\ ProbeInv /\ HandOverInv

LEMMA PreInitInv == RepairInit => PreInv
<1> SUFFICES ASSUME RepairInit PROVE PreInv
  OBVIOUS
<1> USE DEF RepairInit, Init, PreflightInit
<1>1. torrent.selected \in Seq(Files) /\ SelectedCount \in Nat
  BY Constants DEF SelectedCount
<1>2. CopyInv
  <2>1. PICK filled \in SUBSET Positions :
          slots = [i \in Positions |-> IF i \in filled THEN i ELSE NoLink]
    OBVIOUS
  <2>2. slots \in [Positions -> Nat]
    BY <1>1, <2>1 DEF Positions, NoLink
  <2>3. PICK n \in 0..(IF torrent.detail = "info" THEN MaxOrphans ELSE 0) :
          extra = [j \in 1..n |-> SelectedCount + j]
    OBVIOUS
  <2>4. extra \in Seq(Nat \ {0})
    BY <1>1, <2>3, PreflightConstants
  <2> QED BY <1>1, <2>2, <2>4 DEF CopyInv
<1>3. ProbeInv
  <2>1. step = "preflight" /\ position = 1 /\ \A i \in Positions : ~(i < 1)
    BY <1>1 DEF Positions
  <2>2. ~sick => AnyPlayableSelected /\ Linked = Positions
    OBVIOUS
  <2> QED BY <2>1, <2>2 DEF ProbeInv
<1>4. HandOverInv
  BY DEF HandOverInv
<1> QED BY <1>2, <1>3, <1>4 DEF PreInv

LEMMA PreStepInv == PreInv /\ [RepairNext]_repairVars => PreInv'
<1> SUFFICES ASSUME PreInv, [RepairNext]_repairVars PROVE PreInv'
  OBVIOUS
<1>0. SelectedCount \in Nat /\ Positions = 1..SelectedCount
  BY DEF PreInv, CopyInv, SelectedCount, Positions
<1>a. torrent' = torrent
  BY DEF RepairNext, PreflightStep, StartCascade, Begin, repairVars, vars, Next, CascadeStep,
         CleanupStep, DeleteOld, AddMagnet, AddMagnetFails, SelectFiles, SelectFilesFails,
         PollReady, PollNotReady, PollFails, DeleteEphemeral, DeleteEphemeralFails, Timeout,
         CleanupDeletes, CleanupFails, RefreshLists, RefreshDeletes
<1>b. /\ SelectedCount' = SelectedCount /\ Positions' = Positions
      /\ AnyPlayableSelected' = AnyPlayableSelected
      /\ \A i : PlayableAt(i)' = PlayableAt(i)
  BY <1>a DEF SelectedCount, Positions, AnyPlayableSelected, PlayableAt
<1>1. CASE AssignOrphan /\ UNCHANGED vars
  <2>1. PICK c \in Checks, fits \in SUBSET {i \in Positions : states[i] = "broken" \/ slots[i] = NoLink} :
          IF Defers(c) THEN Defer
          ELSE /\ extra' = Tail(extra)
               /\ \/ /\ fits = {}
                     /\ UNCHANGED << slots, states >>
                  \/ /\ fits # {}
                     /\ slots' = [slots EXCEPT ![First(fits)] = Head(extra)]
                     /\ states' = StatesAfterAssign(First(fits))
               /\ UNCHANGED << step, position, alive >>
    BY <1>1 DEF AssignOrphan
  <2>2. /\ step = "preflight" /\ extra # << >> /\ sick' = sick /\ rd' = rd /\ position = 1
        /\ slots \in [Positions -> Nat] /\ DOMAIN states = Positions
    BY <1>1 DEF AssignOrphan, vars, PreInv, CopyInv
  <2>3. CASE Defers(c)
    BY <1>a, <1>b, <2>1, <2>2, <2>3 DEF Defer, PreInv, CopyInv, ProbeInv, HandOverInv
  <2>4. CASE ~Defers(c)
    <3>1. /\ Tail(extra) \in Seq(Nat \ {0}) /\ Head(extra) \in Nat /\ Head(extra) # NoLink
      BY <2>2 DEF PreInv, CopyInv, NoLink
    <3>2. /\ slots' \in [Positions -> Nat] /\ DOMAIN states' = Positions
          /\ \A i \in Positions : slots[i] # NoLink => slots'[i] # NoLink
      BY <2>1, <2>2, <2>4, <3>1 DEF StatesAfterAssign
    <3>3. Linked = Positions => Linked' = Positions
      BY <1>b, <3>2 DEF Linked
    <3>4. \A i \in Positions : ~(i < position)
      BY <1>0, <2>2
    <3>5. step' = step /\ position' = position /\ extra' = Tail(extra)
      BY <2>1, <2>4
    <3>6. CopyInv'
      BY <1>a, <1>b, <2>2, <3>1, <3>2, <3>5 DEF PreInv, CopyInv
    <3>7. ProbeInv'
      BY <1>b, <2>2, <3>3, <3>4, <3>5 DEF PreInv, ProbeInv
    <3>8. HandOverInv'
      BY <2>2, <3>5 DEF PreInv, HandOverInv
    <3> QED BY <3>6, <3>7, <3>8 DEF PreInv
  <2> QED BY <2>3, <2>4
<1>2. CASE ProbeSkip /\ UNCHANGED vars
  <2>1. /\ step = "preflight" /\ step' = step /\ slots' = slots /\ states' = states
        /\ alive' = alive /\ sick' = sick /\ rd' = rd /\ extra' = extra /\ extra = << >>
        /\ position' = position + 1 /\ position \in Positions /\ slots[position] = NoLink
    BY <1>0, <1>2 DEF ProbeSkip, Probing, vars, PreInv, CopyInv
  <2>2. Linked' = Linked /\ position \notin Linked
    BY <1>b, <2>1 DEF Linked
  <2>3. CopyInv'
    BY <1>a, <1>b, <2>1 DEF PreInv, CopyInv
  <2>4. ProbeInv'
    <3>1. sick
      BY <2>1, <2>2 DEF PreInv, ProbeInv
    <3>2. \A i \in Positions : i < position + 1 => i < position \/ i = position
      BY <1>0, <2>1
    <3> QED BY <1>b, <2>1, <3>1, <3>2 DEF PreInv, ProbeInv
  <2>5. HandOverInv'
    BY <2>1 DEF PreInv, HandOverInv
  <2> QED BY <2>3, <2>4, <2>5 DEF PreInv
<1>3. CASE Probe /\ UNCHANGED vars
  <2>1. PICK c \in Checks :
          /\ sick' = (sick \/ ~Passes(c))
          /\ IF Defers(c) THEN Defer
             ELSE /\ states' = [states EXCEPT ![position] = IF Passes(c) THEN "ok" ELSE "broken"]
                  /\ alive' = IF Passes(c) THEN alive \cup {position} ELSE alive
                  /\ position' = position + 1
                  /\ UNCHANGED << step, slots, extra >>
    BY <1>3 DEF Probe
  <2>2. /\ step = "preflight" /\ rd' = rd /\ extra = << >> /\ position \in Positions
        /\ slots \in [Positions -> Nat] /\ DOMAIN states = Positions
    BY <1>0, <1>3 DEF Probe, Probing, vars, PreInv, CopyInv
  <2>3. CASE Defers(c)
    BY <1>a, <1>b, <2>1, <2>2, <2>3 DEF Defer, PreInv, CopyInv, ProbeInv, HandOverInv
  <2>4. CASE ~Defers(c)
    <3>1. /\ step' = step /\ slots' = slots /\ extra' = extra /\ position' = position + 1
          /\ DOMAIN states' = Positions /\ Linked' = Linked
      BY <1>b, <2>1, <2>2, <2>4 DEF Linked
    <3>2. \A i \in Positions : i < position + 1 => i < position \/ i = position
      BY <1>0, <2>2
    <3>3. \A i \in Positions : i < position => states'[i] = states[i]
      BY <1>0, <2>1, <2>2, <2>4
    <3>4. position \in alive' \/ states'[position] = "broken"
      BY <2>1, <2>2, <2>4
    <3>5. ~sick' => ~sick /\ states'[position] = "ok"
      BY <2>1, <2>2, <2>4
    <3>6. alive \subseteq alive'
      BY <2>1, <2>4
    <3>7. CopyInv'
      BY <1>a, <1>b, <2>2, <3>1 DEF PreInv, CopyInv
    <3>8. ProbeInv'
      BY <1>b, <2>2, <3>1, <3>2, <3>3, <3>4, <3>5, <3>6 DEF PreInv, ProbeInv
    <3>9. HandOverInv'
      BY <2>2, <3>1 DEF PreInv, HandOverInv
    <3> QED BY <3>7, <3>8, <3>9 DEF PreInv
  <2> QED BY <2>3, <2>4
<1>4. CASE Proceed /\ UNCHANGED vars
  <2>1. /\ step = "preflight" /\ step' = "proceed" /\ slots' = slots /\ states' = states
        /\ sick' = sick /\ rd' = rd /\ extra' = extra /\ position' = position
        /\ \A i \in Positions : i < position
        /\ ~AnyPlayableSelected \/ BrokenPlayable # {} \/ Linked = {}
    BY <1>0, <1>4 DEF Proceed, Deciding, vars, PreInv, CopyInv
  <2>2. sick
    BY <2>1 DEF PreInv, ProbeInv, AnyPlayableSelected, BrokenPlayable
  <2> QED
    BY <1>a, <1>b, <2>1, <2>2 DEF PreInv, CopyInv, ProbeInv, HandOverInv
<1>5. CASE VerifyOneLink /\ UNCHANGED vars
  <2>1. PICK c \in Checks :
          /\ sick' = (sick \/ ~Passes(c))
          /\ IF Defers(c) THEN Defer
             ELSE /\ step' = IF Passes(c) THEN "verified" ELSE "proceed"
                  /\ states' = [i \in Positions |->
                       IF Passes(c) /\ (i = First(Linked) \/ (PlayableAt(i) /\ states[i] = "none"))
                       THEN "ok" ELSE states[i]]
                  /\ UNCHANGED << slots, extra, position, alive >>
    BY <1>5 DEF VerifyOneLink
  <2>2. /\ step = "preflight" /\ rd' = rd /\ BrokenPlayable = {}
        /\ \A i \in Positions : i < position
    BY <1>0, <1>5 DEF VerifyOneLink, Deciding, vars, PreInv, CopyInv
  <2>3. CASE Defers(c)
    BY <1>a, <1>b, <2>1, <2>2, <2>3 DEF Defer, PreInv, CopyInv, ProbeInv, HandOverInv
  <2>4. CASE ~Defers(c)
    <3>1. {i \in Linked : PlayableAt(i)} \subseteq alive
      BY <2>2 DEF PreInv, ProbeInv, Linked, BrokenPlayable
    <3>2. Linked' = Linked
      BY <1>b, <2>1, <2>4 DEF Linked
    <3>3. CopyInv'
      BY <1>a, <1>b, <2>1, <2>2, <2>4 DEF PreInv, CopyInv
    <3>4. ProbeInv'
      BY <1>b, <2>1, <2>4, <3>1, <3>2 DEF ProbeInv
    <3>5. HandOverInv'
      <4>1. step' = "proceed" => sick'
        BY <2>1, <2>4
      <4>2. step' \in {"verified", "proceed"}
        BY <2>1, <2>4
      <4> QED BY <2>2, <4>1, <4>2 DEF PreInv, HandOverInv
    <3> QED BY <3>3, <3>4, <3>5 DEF PreInv
  <2> QED BY <2>3, <2>4
<1>6. CASE StartCascade
  BY <1>6, <1>a, <1>b DEF StartCascade, PreInv, CopyInv, ProbeInv, HandOverInv
<1>7. CASE InCascade /\ Next
  BY <1>7, <1>a, <1>b DEF InCascade, preVars, PreInv, CopyInv, ProbeInv, HandOverInv
<1>8. CASE UNCHANGED repairVars
  <2>1. Linked' = Linked
    BY <1>8, <1>b DEF repairVars, preVars, Linked
  <2> QED
    BY <1>8, <1>a, <1>b, <2>1 DEF repairVars, preVars, vars, PreInv, CopyInv, ProbeInv, HandOverInv
<1> QED
  BY <1>1, <1>2, <1>3, <1>4, <1>5, <1>6, <1>7, <1>8 DEF RepairNext, PreflightStep

(* A torrent with nothing wrong is never deleted by its repair, and one    *)
(* that preflight calls repaired has no playable file with a dead link:    *)
(* for every selection, every number of orphans and every state an earlier *)
(* repair may have left.                                                   *)
THEOREM HealthyTorrentSpared == RepairSpec => []ShortcutJustified
<1>1. PreInv => ShortcutJustified
  BY DEF PreInv, ProbeInv, HandOverInv, ShortcutJustified
<1> QED BY PreInitInv, PreStepInv, <1>1, PTL DEF RepairSpec
=============================================================================
