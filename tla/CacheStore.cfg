\* A process of each setting: everything at once, a file that changes size,
\* two reads of one key.
CONSTANTS
  Keys = {k1}
  Extensionless = {k1}
  FileSizes = {1, 2}
  Readers = {r1, r2}
  Workers = {w1}
  Evictor = Evictor
  ItemIds = {1, 2, 3, 4, 5}
  None = None
  Settings <- MCSettings
SYMMETRY Symmetry
SPECIFICATION Spec
INVARIANTS
  TypeOK
  BackedUnlessDestroyed
  OpensCountsReaders
  OneCanonicalItem
PROPERTIES
  EvictionSparesOpenItems
