SPECIFICATION Spec
CONSTANTS
  p1 = p1
  p2 = p2
  f1 = f1
  f2 = f2
  Proc = {p1, p2}
  File = {f1, f2}
  NBLOCK = 4
  NICFREE = 2
  NADDR = 3
  MaxErrors = 1
  NoFile = NoFile
SYMMETRY Alike
INVARIANTS TypeOK NoBlockTwice OnePlace SleeperWaits Counted SavedWhenClean
PROPERTIES PoolPromise
