SPECIFICATION RepairSpec
CONSTANTS
  f1 = f1
  f2 = f2
  r1 = r1
  Files <- MCFiles
  Playable <- MCPlayable
  Rars <- MCRars
  MaxOrphans = 2
  Selections <- MCSelections
  BatchSize = 2
  OldIds = 1
  Polls = 2
  MaxFaults <- MCMaxFaults
CHECK_DEADLOCK FALSE
INVARIANTS MagnetsOwned NewIdComplete DeferExactlyForBandwidth SuccessCoversSelection ShortcutJustified
PROPERTY EndsClean
