\* Two workers with one permit between them: the chunk size grows and falls
\* back, links expire, bodies break off, downloads are paused and resumed, the
\* session is cancelled.  A server that grants a range sends all of it.
CONSTANTS
  Window = 3
  BaseChunk = 1
  MaxMult = 2
  Workers = {w1, w2}
  Permits = 1
  MaxRetries = 2
  MaxHeals = 1
  ShortBodies = FALSE
  Cancels = TRUE
  MaxPauses = 1
SPECIFICATION FairSpec
\* A download ends.
CHECK_DEADLOCK FALSE
INVARIANTS
  EachBlockOnce
  OkMeansComplete
PROPERTIES
  Terminates
