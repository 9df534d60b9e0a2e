SPECIFICATION FairSpec
CONSTANTS
  MOD = 8
  WINDOWS = 3
  GETRIES = 5
  CONNODATA = 10
  PKMAXSTMSG = 40
  Script <- Talk
  Prompt = FALSE
  Faults = {"lost", "header", "sum", "cut"}
  MaxLine = 1
  MaxFaults = 3
INVARIANTS TypeOK OutputWindow InputBuffers PendingOutsideWindow
PROPERTIES StreamPromise Finishes
CHECK_DEADLOCK FALSE
