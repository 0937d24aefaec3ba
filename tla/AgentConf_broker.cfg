\* Several broker_agent lines in the configuration read by setFile (all_conf).
CONSTANTS
  ConfFiles <- MCBrokerFiles
  IncludeFiles <- MCIncludeFiles
  BrokerSlots = 2
  ExePaths <- MCExePaths
  Argvs <- MCArgvs
  Launches = {"console"}
  System32 <- MCSystem32
  ConsoleDir <- MCConsoleDir
  UINT_MAX <- MCUintMax
INIT ConfInit
NEXT ConfNext
INVARIANT BrokerSlotsKept
CHECK_DEADLOCK FALSE
