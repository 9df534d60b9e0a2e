SPECIFICATION Spec
CONSTANTS
  Proc = {p1, p2}
  NoProc = NoProc
  NINODE = 3
  NINUM = 3
  INOPB = 2
  NICINOD = 2
  Name = {a, b}
  MaxFiles = 2
  MaxFaults = 0
  Calls = {"pipe", "close", "rdwr"}
INVARIANT RefCount
SYMMETRY SymProcName
