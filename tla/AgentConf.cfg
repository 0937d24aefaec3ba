\* main, then reloads of the agent configuration by an arbitrary client of
\* the class, the agent started from a console in its install directory.
CONSTANTS
  ConfFiles <- MCConfFiles
  IncludeFiles <- MCIncludeFiles
  BrokerSlots = 2
  ExePaths <- MCExePaths
  Argvs <- MCArgvs
  Launches = {"console"}
  System32 <- MCSystem32
  ConsoleDir <- MCConsoleDir
  UINT_MAX <- MCUintMax
SPECIFICATION ConfSpec
INVARIANT ConfTypeOK
INVARIANT ConfMatchesFile
\* A use of a dangling collection iterator is undefined behaviour and ends
\* the process: such states have no successor.
CHECK_DEADLOCK FALSE
INVARIANT InstallDirIsExeDir
