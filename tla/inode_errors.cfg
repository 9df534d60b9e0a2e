SPECIFICATION Spec
CONSTANTS
  Proc = {p1, p2}
  NoProc = NoProc
  NINODE = 3
  NINUM = 2
  INOPB = 2
  NICINOD = 2
  Name = {a, b}
  MaxFiles = 1
  MaxFaults = 2
  Calls = {"open", "creat", "close", "unlink", "sync"}
INVARIANTS RefCount NoLostWakeup
SYMMETRY SymProcName
