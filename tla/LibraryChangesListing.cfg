\* One torrent is added on Real-Debrid; somebody has just listed the mount.
SPECIFICATION LibrarySpec
CONSTANTS
  Torrents = {k1}
  NoTorrent = NoTorrent
  MaxInodes = 1
  Capacity = 1
  Selections <- MCSelections
  Stride = 1
  Commands = {"each"}
  Scopes <- MCScopes
PROPERTY HookFindsChange
\* Bounded environments stop.
CHECK_DEADLOCK FALSE
