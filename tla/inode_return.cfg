SPECIFICATION FairSpec
CONSTANTS
  Proc = {p1, p2}
  NoProc = NoProc
  NINODE = 2
  NINUM = 3
  INOPB = 2
  NICINOD = 2
  Name = {a}
  MaxFiles = 1
  MaxFaults = 0
  Calls = {"creat", "link", "unlink"}
INVARIANT RefCount
PROPERTIES CallsEnd
