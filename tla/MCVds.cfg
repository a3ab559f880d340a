CONSTANTS
  b1 = b1
  b2 = b2
  b3 = b3
  d1 = d1
  d2 = d2
  Block = {b1, b2, b3}
  Data = {d1, d2}
  NrSect = 2
  NrPb = 2
  Rsv = 1
  None = None
  Junk = Junk
  MaxVersion = 2
  Faults = {}
SPECIFICATION Spec
INVARIANTS TypeOK VersionsDecide MapIsExact NeverFull ListsMatchFlash VdsInv
PROPERTIES BlockStore
SYMMETRY Sym
