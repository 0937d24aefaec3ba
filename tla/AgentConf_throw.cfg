\* The agent configuration loaded by an arbitrary client, with a file whose
\* lines end with include and broker_agent: checked for a setFile that
\* never returns.
CONSTANTS
  ConfFiles <- MCConfFiles
  IncludeFiles <- MCIncludeFiles
  BrokerSlots = 2
  ExePaths <- MCExePaths
  Argvs <- MCArgvs
  Launches = {"console"}
  System32 <- MCSystem32
  ConsoleDir <- MCConsoleDir
  UINT_MAX <- MCUintMax
SPECIFICATION ConfFairSpec
\* A use of a dangling collection iterator is undefined behaviour and ends
\* the process: such states have no successor.
CHECK_DEADLOCK FALSE
PROPERTY SetFileReturns
