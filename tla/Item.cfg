\* A list of six bytes: up to three separate intervals, so that one insert can
\* merge none, some or all of them, on both sides.  Two reads of an item of
\* three blocks, one more than the window of a short read: joins, reads beyond
\* the window they joined, kicks, interrupts, failed downloads, and sessions
\* left behind by an earlier read.
SPECIFICATION ItemSpec
CONSTANTS
  FileSize = 6
  ItemSize = 3
  ReadSize = 2
  ReadAhead = 1
  Readers = {r1, r2}
  Sessions = {1, 2, 3}
  Failures = TRUE
  Interrupts = TRUE
  MaxReads = 2
\* The readers stop after MaxReads reads.
CHECK_DEADLOCK FALSE
INVARIANTS
  Normalized
  HasRangeExact
  FindMissingExact
  PersistRoundTrip
  WaitersExact
  NoOrphanDownload
  FailsOnlyForCause
PROPERTIES
  ImplementsByteSet
  EveryReadReturns
