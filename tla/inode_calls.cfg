SPECIFICATION Spec
CONSTANTS
  Proc = {p1, p2}
  NoProc = NoProc
  NINODE = 3
  NINUM = 3
  INOPB = 2
  NICINOD = 2
  Name = {a}
  MaxFiles = 1
  MaxFaults = 0
  Calls = {"open", "creat", "close", "unlink", "sync"}
INVARIANTS TypeOK UniqueInode OneLocker RefCount NoLostWakeup EntryAllocated FilesConsistent
PROPERTIES FreedUnlinked
SYMMETRY SymProcName
