\* One torrent of one file, one or two reads, the engine and the refresh loop,
\* from any row an earlier process may have left.
SPECIFICATION Spec
CONSTANTS
  f1 = f1
  r1 = r1
  r2 = r2
  Files <- MCFiles
  Readers <- MCReaders
  MaxId = 2
  Scenes <- MCScenes
SYMMETRY Symmetry
INVARIANTS
  TypeOK
  ReasonOnlyBroken
  QueuedIsSeen
  LeaderExact
\* The environment stops when no events are left.
CHECK_DEADLOCK FALSE
