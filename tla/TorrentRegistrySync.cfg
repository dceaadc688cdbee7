\* One change on Real-Debrid, and the refresh loop that should take it over.
SPECIFICATION FairSpec
CONSTANTS
  f1 = f1
  r1 = r1
  r2 = r2
  Files <- MCFiles
  Readers <- MCOneReader
  MaxId = 2
  Scenes <- MCSyncScenes
PROPERTY SyncsWithRd
\* The environment stops when no events are left.
CHECK_DEADLOCK FALSE
