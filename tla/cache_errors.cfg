SPECIFICATION Spec
CONSTANTS
  v0 = v0
  v1 = v1
  k1 = k1
  k2 = k2
  k3 = k3
  hp = hp
  ht = ht
  Proc = {p1, p2}
  NBuf = 2
  Block = {k1, k3}
  Dev = {hp, ht}
  DevOf <- TwoDevs
  Tape = {ht}
  RaPairs <- AllPairs
  Value = {v0}
  Junk = Junk
  NoBlock = NoBlock
  AsyncFree = 0
  RaFree = 1
  DiskErrors = {FALSE, TRUE}
  Calls = {"bread", "breada", "geteblk", "getblk", "bwrite", "bdwrite", "bawrite", "umount", "sync"}
INVARIANTS TypeOK FreeIffNotBusy OneHolder UniqueBlock NoLostWakeup
SYMMETRY SymProc
