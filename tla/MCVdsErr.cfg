CONSTANTS
  b1 = b1
  b2 = b2
  d1 = d1
  Block = {b1, b2}
  Data = {d1}
  NrSect = 2
  NrPb = 2
  Rsv = 2
  None = None
  Junk = Junk
  MaxVersion = 1
  Faults = {"mark", "scan", "copy", "Data", "Pbd", "Old"}
SPECIFICATION Spec
INVARIANT MapNamesCopies
PROPERTIES  ComesBack
