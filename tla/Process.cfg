\* Two accounts with two callers; two reads of one handle; two torrents with
\* the mount, and with the hook worker.
SPECIFICATION ProcessSpec
CONSTANTS
  tokA = tokA
  tokB = tokB
  k1 = k1
  Tokens = {tokA, tokB}
  Configs <- MCConfigs
  Unrestricters = {u1}
  Fetchers = {g1}
  MaxRetries = 1
  MaxPoolEvents = 2
  NoToken = NoToken
  FuseReads = {r1, r2}
  NoFuseRead = NoFuseRead
  Uniques = {1, 2, 3}
  MaxHandles = 1
  BlocksInFile = 3
  BufferSize = 2
  ReadRetries = 1
  Kernels <- MCKernels
  Torrents = {k1, k2}
  NoTorrent = NoTorrent
  MaxInodes = 3
  Capacity = 1
  Selections <- MCSelections
  Stride = 2
  Commands = {"each", "none"}
  Scopes <- MCScopes
INVARIANTS
  FlagsHaveCause
  RotatesThroughPool
  SendsBounded
  RepliesAreTheFile
  InterruptsHit
  InodeNeverMoves
  MapsAgree
  DeadInodesPurged
PROPERTIES
  CallsEnd
  ReadsAnswered
  ChangesReachHook
\* Bounded environments stop.
CHECK_DEADLOCK FALSE
