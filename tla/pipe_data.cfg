SPECIFICATION Spec
CONSTANTS
  r1 = r1
  r2 = r2
  w1 = w1
  Proc = {r1, w1}
  NFADDR = 2
  BSIZE = 2
  Modes <- TwoEnds
  Counts = {3, 5}
  Signalled = {}
  FaultKinds = {"copy", "space", "disk"}
  MaxFaults = 1
  Junk = Junk
INVARIANTS TypeOK
PROPERTIES QueuePromise
CHECK_DEADLOCK FALSE
