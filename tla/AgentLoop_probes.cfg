\* The value a proc or service module reports, against the state of what it watches.
CONSTANTS
  Lines <- MCLines
  Files <- MCFiles
  FileExists = {TRUE}
  Values = {0, 1}
  Intervals = {1}
  IntensiveIntervals = {1}
  CondLists <- MCEmptyLists
  IntensiveCondLists <- MCEmptyLists
  MaxInterval = 1
  OutputError = OutputError
SPECIFICATION LoopSpec
PROPERTY ProbesReportLiveness
