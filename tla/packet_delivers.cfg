SPECIFICATION FairSpec
CONSTANTS
  MOD = 8
  WINDOWS = 3
  GETRIES = 5
  CONNODATA = 10
  PKMAXSTMSG = 40
  Script <- Talk
  Prompt = TRUE
  Faults = {"sum"}
  MaxLine = 1
  MaxFaults = 4
PROPERTY Delivers
CHECK_DEADLOCK FALSE
