SPECIFICATION FairSpec
CONSTANTS
  v0 = v0
  v1 = v1
  k1 = k1
  k2 = k2
  k3 = k3
  hp = hp
  ht = ht
  Proc = {p1, p2}
  NBuf = 2
  Block = {k1, k2, k3}
  Dev = {hp, ht}
  DevOf <- OneDev
  Tape = {}
  RaPairs <- CrossPairs
  Value = {v0}
  Junk = Junk
  NoBlock = NoBlock
  AsyncFree = 0
  RaFree = 0
  DiskErrors = {FALSE}
  Calls = {"breada", "bdwrite"}
PROPERTY SleepersWake
