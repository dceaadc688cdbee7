------------------------- MODULE MCTorrentRegistry -------------------------
(***************************************************************************)
(* The scenes of TorrentRegistry for TLC: each has the tasks that race for *)
(* one of its properties, and as many events as they need to meet.         *)
(***************************************************************************)
EXTENDS TorrentRegistry, TLC

CONSTANTS f1, r1, r2

MCFiles == {f1}
MCReaders == {r1, r2}
Symmetry == Permutations(MCReaders)

Scene(readers, refreshes, windows, left) ==
  [readers |-> readers, refreshes |-> refreshes, windows |-> windows, left |-> left]

(* A read with the refresh loop; two reads that meet at a file; a read or  *)
(* the refresh loop in the window between get and insert of the engine.    *)
MCScenes ==
  {Scene({r}, TRUE, FALSE, 1) : r \in MCReaders}
    \cup {Scene(MCReaders, FALSE, FALSE, 2)}
    \cup {Scene({r}, FALSE, TRUE, 1) : r \in MCReaders}
    \cup {Scene({}, TRUE, TRUE, 1)}

(* For liveness, a read with the windows, and one with two events that     *)
(* follow one another.                                                     *)
MCOneReader == {r1}
MCLiveScenes ==
  {Scene(MCOneReader, FALSE, FALSE, 2), Scene(MCOneReader, FALSE, TRUE, 1)}

MCSyncScenes == {Scene(MCOneReader, TRUE, FALSE, 1)}
=============================================================================
