----------------------------- MODULE Preflight -----------------------------
(***************************************************************************)
(* `run_preflight` (repair/preflight.rs), and repair_one                   *)
(* (repair/engine/repair_one.rs) around it: links that belong to no file   *)
(* are assigned to files without a working one, the link of every selected *)
(* file is probed, and if no playable file is broken one more check spares *)
(* the torrent the cascade (RepairCascade), which would delete it from     *)
(* Real-Debrid.  All of it works on a copy of the torrent, which is stored *)
(* unless the repair is deferred.                                          *)
(*                                                                         *)
(* A selected file is its position in the selection: the code finds the    *)
(* link of a file by it.  A link is a number, or NoLink for a slot that is *)
(* empty or missing.  A check of a link is unrestrict_link, then           *)
(* verify_link of the URL that returns.                                    *)
(***************************************************************************)
EXTENDS RepairCascade

CONSTANTS
  Rars,        \* the files whose path ends in .rar
  MaxOrphans   \* bound: links beyond those of the selected files

ASSUME PreflightConstants == Rars \subseteq Files /\ MaxOrphans \in Nat

VARIABLES
  step,      \* where repair_one is: "preflight", or what came of it
  slots,     \* [position -> link]: info.links of the selected files
  extra,     \* the orphan links that have still to be tried
  states,    \* [position -> file_states of its path, "none" if it has none]
  position,  \* the file whose link probe_selected_links checks next
  alive,     \* history: positions whose link the probe found alive
  sick,      \* history: is anything wrong with the torrent?
  met        \* history: has a call met the bandwidth limit?

preVars == << step, slots, extra, states, position, alive, sick, met >>
repairVars == << vars, preVars >>

NoLink == 0
Positions == 1..SelectedCount
PlayableAt(i) == torrent.selected[i] \in Playable
RarAt(i) == torrent.selected[i] \in Rars
Linked == {i \in Positions : slots[i] # NoLink}
First(S) == CHOOSE i \in S : \A j \in S : i <= j

AnyPlayableSelected == \E i \in Positions : PlayableAt(i)
BrokenPlayable == {i \in Positions : PlayableAt(i) /\ states[i] = "broken"}

(* Any slots may be filled, and the files may have any state: it is what an*)
(* earlier repair or a failed read has left.                               *)
PreflightInit ==
  /\ step = "preflight" /\ position = 1 /\ alive = {} /\ met = FALSE
  /\ \E filled \in SUBSET Positions :
       slots = [i \in Positions |-> IF i \in filled THEN i ELSE NoLink]
  /\ extra \in {[j \in 1..n |-> SelectedCount + j] :
                  n \in 0..(IF torrent.detail = "info" THEN MaxOrphans ELSE 0)}
  /\ states \in [Positions -> {"none", "ok", "broken"}]
  /\ sick = (~AnyPlayableSelected \/ Linked # Positions)

RepairInit == Init /\ PreflightInit

-----------------------------------------------------------------------------
(* How a check of a link ends: well, or in one of its two calls, for the   *)
(* bandwidth limit or for something else.                                  *)
Failures == {"unrestrict", "verify"} \X Errors
Checks == Failures \cup {<< "ok", "ok" >>}
Passes(c) == c[1] = "ok"
MeetsLimit(c) == c[2] = "bandwidth"

(* verify_head wraps the error it returns in a context, and `to_string` of *)
(* that is the context, whatever the cause.                                *)
VerifyErrorText(c) == "verify_head"
VerifyFailedLikeBandwidth(c) == VerifyErrorText(c) \in {"traffic", "bandwidth", "fair usage"}

(* The checks after which preflight returns DeferBandwidth.                *)
Defers(c) ==
  \/ c[1] = "unrestrict" /\ MeetsLimit(c)
  \/ c[1] = "verify" /\ VerifyFailedLikeBandwidth(c)

(* repair_one's return for DeferBandwidth: the copy is dropped.            *)
Defer == step' = "deferred" /\ UNCHANGED << slots, extra, states, position, alive >>

-----------------------------------------------------------------------------
(* apply_lone_selected_rar_ok_policy.                                      *)
StatesAfterAssign(i) ==
  IF RarAt(i) /\ {j \in Positions : RarAt(j)} = {i}
  THEN [j \in Positions |-> "ok"]
  ELSE [states EXCEPT ![i] = "ok"]

(* assign_orphan_links, for one link: it goes to the first file without a  *)
(* working link that its download fits.                                    *)
AssignOrphan ==
  /\ step = "preflight" /\ extra # << >>
  /\ \E c \in Checks, fits \in SUBSET {i \in Positions : states[i] = "broken" \/ slots[i] = NoLink} :
       /\ Passes(c) \/ fits = {}
       /\ met' = (met \/ MeetsLimit(c))
       /\ IF Defers(c) THEN Defer
          ELSE /\ extra' = Tail(extra)
               /\ \/ /\ fits = {}
                     /\ UNCHANGED << slots, states >>
                  \/ /\ fits # {}
                     /\ slots' = [slots EXCEPT ![First(fits)] = Head(extra)]
                     /\ states' = StatesAfterAssign(First(fits))
               /\ UNCHANGED << step, position, alive >>
  /\ UNCHANGED sick

Probing == step = "preflight" /\ extra = << >> /\ position <= SelectedCount

ProbeSkip ==
  /\ Probing /\ slots[position] = NoLink
  /\ position' = position + 1
  /\ UNCHANGED << step, slots, extra, states, alive, sick, met >>

(* Mutant: or_insert, which keeps a state that is there.                   *)
ProbeKeepsState ==
  /\ Probing /\ slots[position] # NoLink
  /\ \E c \in Checks :
       /\ met' = (met \/ MeetsLimit(c))
       /\ sick' = (sick \/ ~Passes(c))
       /\ IF Defers(c) THEN Defer
          ELSE /\ states' = IF Passes(c) /\ states[position] # "none" THEN states
                            ELSE [states EXCEPT ![position] = IF Passes(c) THEN "ok" ELSE "broken"]
               /\ alive' = IF Passes(c) THEN alive \cup {position} ELSE alive
               /\ position' = position + 1
               /\ UNCHANGED << step, slots, extra >>

(* probe_selected_links, for one file.  The state is kept under the path of*)
(* the file: selected files have different ones.                           *)
Probe ==
  /\ Probing /\ slots[position] # NoLink
  /\ \E c \in Checks :
       /\ met' = (met \/ MeetsLimit(c))
       /\ sick' = (sick \/ ~Passes(c))
       /\ IF Defers(c) THEN Defer
          ELSE /\ states' = [states EXCEPT ![position] = IF Passes(c) THEN "ok" ELSE "broken"]
               /\ alive' = IF Passes(c) THEN alive \cup {position} ELSE alive
               /\ position' = position + 1
               /\ UNCHANGED << step, slots, extra >>

Deciding == step = "preflight" /\ extra = << >> /\ position > SelectedCount

(* verify_one_link_and_clear has no reason to check, or no link.           *)
Proceed ==
  /\ Deciding
  /\ ~AnyPlayableSelected \/ BrokenPlayable # {} \/ Linked = {}
  /\ step' = "proceed"
  /\ UNCHANGED << slots, extra, states, position, alive, sick, met >>

(* It checks the first link again.                                         *)
VerifyOneLink ==
  /\ Deciding /\ AnyPlayableSelected /\ BrokenPlayable = {} /\ Linked # {}
  /\ \E c \in Checks :
       /\ met' = (met \/ MeetsLimit(c))
       /\ sick' = (sick \/ ~Passes(c))
       /\ IF Defers(c) THEN Defer
          ELSE /\ step' = IF Passes(c) THEN "verified" ELSE "proceed"
               /\ states' = [i \in Positions |->
                    IF Passes(c) /\ (i = First(Linked) \/ (PlayableAt(i) /\ states[i] = "none"))
                    THEN "ok" ELSE states[i]]
               /\ UNCHANGED << slots, extra, position, alive >>

PreflightStep ==
  /\ AssignOrphan \/ ProbeSkip \/ Probe \/ Proceed \/ VerifyOneLink
  /\ UNCHANGED vars

(* The cascade reads nothing of the copy but the files.                    *)
StartCascade ==
  /\ step = "proceed" /\ Begin
  /\ step' = "cascade"
  /\ slots' = << >> /\ states' = << >> /\ position' = 1 /\ alive' = {} /\ met' = FALSE
  /\ UNCHANGED << extra, sick >>

InCascade == step = "cascade" /\ UNCHANGED preVars

RepairNext == PreflightStep \/ StartCascade \/ (InCascade /\ Next)

(* Every call has a timeout, and the runtime runs the tasks of Drop.       *)
RepairSpec ==
  /\ RepairInit /\ [][RepairNext]_repairVars
  /\ WF_repairVars(PreflightStep) /\ WF_repairVars(StartCascade)
  /\ WF_repairVars(InCascade /\ CascadeStep) /\ WF_repairVars(InCascade /\ CleanupStep)

-----------------------------------------------------------------------------
(* The shortcut past the cascade is taken for the right torrents.  One     *)
(* whose files all have links that pass every check keeps its ids on       *)
(* Real-Debrid, whatever states earlier repairs have left and whatever     *)
(* orphans were assigned: the cascade does not delete it.  And one that is *)
(* set `ok` without the cascade has no playable file with a dead link.     *)
ShortcutJustified ==
  /\ ~sick => 1..OldIds \subseteq DOMAIN rd
  /\ step = "verified" => {i \in Linked : PlayableAt(i)} \subseteq alive

(* A repair ends, whatever fails, and so do the tasks of the guards: from  *)
(* then on only the new id, doubly failed deletes and lost answers are left*)
(* of the cascade's magnets.                                               *)
EndsClean ==
  <>[](/\ step \in {"deferred", "verified"} \/ pc = "done"
       /\ cleanup = << >>
       /\ DOMAIN rd \cap Magnets \subseteq {outcome.id} \cup orphans \cup strays)

(* RdError::is_bandwidth_limited: "True when repair should pause for this  *)
(* torrent and retry a later cycle" (rd/client/errors.rs:127).  Once a call*)
(* has met the limit, preflight does not hand the torrent to the cascade,  *)
(* nor call it repaired.                                                   *)
BandwidthPauses == met => step \in {"preflight", "deferred"}
=============================================================================
