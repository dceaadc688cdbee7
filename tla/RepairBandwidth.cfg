\* One file with its link.  A link check meets the bandwidth limit.
SPECIFICATION RepairSpec
CONSTANTS
  f1 = f1
  f2 = f2
  r1 = r1
  Files <- MCFiles
  Playable <- MCPlayable
  Rars <- MCRars
  MaxOrphans = 0
  Selections <- MCOneFile
  BatchSize = 1
  OldIds = 1
  Polls = 2
  MaxFaults <- MCMaxFaults
CHECK_DEADLOCK FALSE
INVARIANT BandwidthPauses
