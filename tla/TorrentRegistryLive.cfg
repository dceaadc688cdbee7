\* The engine and a read: whatever fails, repairs and reads come to an end.
SPECIFICATION FairSpec
CONSTANTS
  f1 = f1
  r1 = r1
  r2 = r2
  Files <- MCFiles
  Readers <- MCOneReader
  MaxId = 2
  Scenes <- MCLiveScenes
PROPERTIES
  UnderRepairEnds
  ReadsReturn
\* The environment stops when no events are left.
CHECK_DEADLOCK FALSE
