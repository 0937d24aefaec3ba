\* Standard time, west of UTC: the event window of getEventList.
CONSTANTS
  StdOffset <- MCStdOffset
  DstShift = 3600
  DstStart <- MCNoDst
  Start <- MCStart
  Step = 1800
  MaxTime <- MCMaxTime
  Intervals = {3600}
  Sources = {"", "System"}
  Words = {"", "disk"}
  MaxEvents = 3
SPECIFICATION Spec
INVARIANT EventWindowExact
INVARIANT ConvertWMIDateInverts
