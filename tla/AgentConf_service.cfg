\* The agent started by the service control manager: its working directory
\* is System32.
CONSTANTS
  ConfFiles <- MCBrokerFiles
  IncludeFiles <- MCIncludeFiles
  BrokerSlots = 2
  ExePaths <- MCExePaths
  Argvs <- MCArgvs
  Launches = {"scm"}
  System32 <- MCSystem32
  ConsoleDir <- MCConsoleDir
  UINT_MAX <- MCUintMax
INIT ConfInit
NEXT ConfNext
INVARIANT BrokerConfPresent
CHECK_DEADLOCK FALSE
