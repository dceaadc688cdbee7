------------------------------- MODULE MCItem -------------------------------
(***************************************************************************)
(* One cache item for TLC: its list of intervals (ByteRanges), and the     *)
(* reads that wait for its blocks and share its downloads (ReadAt, which   *)
(* needs of the list only the set it stands for, as ImplementsByteSet      *)
(* allows).  One side moves in each behaviour; `side` says which.          *)
(***************************************************************************)
EXTENDS ByteRanges, ReadAt

VARIABLE side

itemVars == << side, vars, readVars >>

ItemInit == side \in {"list", "reads"} /\ Init /\ ReadInit

ItemNext ==
  \/ side = "list" /\ Next /\ UNCHANGED << side, readVars >>
  \/ side = "reads" /\ ReadNext /\ UNCHANGED << side, vars >>

ItemSpec == ItemInit /\ [][ItemNext]_itemVars /\ ReadFairness
=============================================================================
