-------------------------- MODULE MCRepairCascade --------------------------
(***************************************************************************)
(* A repair for TLC, preflight and cascade: a torrent of three files, one  *)
(* of them an archive, with selections that reach every strategy and every *)
(* shape that ends the cascade before the first.                           *)
(***************************************************************************)
EXTENDS Preflight

CONSTANTS f1, f2, r1

MCFiles == {f1, f2, r1}
MCPlayable == {f1, f2}
MCRars == {r1}
(* Nothing, an archive only, a duplicate, one file, two files, a file with *)
(* an archive, and all three.                                              *)
MCSelections == {<< >>, << r1 >>, << f1, f1 >>, << f1 >>, << f1, f2 >>, << f1, r1 >>, << f1, f2, r1 >>}
(* Two faults: a fault in the repair of a fault; none for three files,     *)
(* which are there for a batch that is short.                              *)
MCMaxFaults(n) == IF n > 2 THEN 0 ELSE 2
(* The smallest torrent there is to repair.                                *)
MCOneFile == {<< f1 >>}
=============================================================================
