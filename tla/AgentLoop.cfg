\* The agent cycle over the registry: scheduling, output, conditions,
\* intensive mode and export of up to two modules.
CONSTANTS
  Lines <- MCLines
  Files <- MCFiles
  FileExists = {TRUE}
  Values = {0, 1}
  Intervals = {1, 2}
  IntensiveIntervals = {1}
  CondLists <- MCCondLists
  IntensiveCondLists <- MCIntensiveCondLists
  MaxInterval = 2
  OutputError = OutputError
SPECIFICATION LoopSpec
INVARIANT LoopTypeOK
INVARIANT ExportedExactlyOnce
PROPERTY EveryModuleKeepsRunning
PROPERTY SchedulerRefined
