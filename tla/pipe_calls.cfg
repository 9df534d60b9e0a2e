SPECIFICATION FairSpec
CONSTANTS
  r1 = r1
  r2 = r2
  w1 = w1
  Proc = {r1, r2, w1}
  NFADDR = 1
  BSIZE = 2
  Modes <- ThreeUsers
  Counts = {1, 3}
  Signalled = {w1}
  FaultKinds = {}
  MaxFaults = 0
  Junk = Junk
INVARIANTS EndsCounted LockHeld NoLostWakeup
PROPERTIES SleepersServed
CHECK_DEADLOCK FALSE
