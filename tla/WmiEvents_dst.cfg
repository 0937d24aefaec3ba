\* Daylight saving time on (summer), west of UTC: the event window of getEventList.
CONSTANTS
  StdOffset <- MCStdOffset
  DstShift = 3600
  DstStart <- MCSummerStart
  Start <- MCSummerStart
  Step = 1800
  MaxTime <- MCSummerMaxTime
  Intervals = {3600}
  Sources = {"", "System"}
  Words = {"", "disk"}
  MaxEvents = 3
SPECIFICATION Spec
INVARIANT EventWindowExact
