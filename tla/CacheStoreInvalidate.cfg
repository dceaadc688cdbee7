\* Invalidation by the read that holds the item.
CONSTANTS
  Keys = {k1}
  Extensionless = {k1}
  FileSizes = {1, 2}
  Readers = {r1, r2}
  Workers = {w1}
  Evictor = Evictor
  ItemIds = {1, 2, 3, 4, 5}
  None = None
  Settings <- MCInvalidated
SYMMETRY Symmetry
SPECIFICATION Spec
INVARIANTS
  RangesOnDisk
