SPECIFICATION Spec
CONSTANTS
  Half = 1073741823
  apex = apex
  www = www
  n1 = n1
  n2 = n2
  a1 = a1
  a2 = a2
  host = host
  host2 = host2
  Apex = apex
  NoData = nodata
  MaxCount = 5
  Zones <- McZones
  FirstZones <- McFirstZones
  FirstSerials <- McFirstSerials
  EditDay <- McEditDay
  LastDay <- McLastDay
  Seconds <- McSeconds
  OtherEntries <- McOtherEntries
  MaxSends = 2
  MaxOthers = 1
INVARIANTS ZonesOK CalendarCorrect PublishedIsGoal UpdateReachesGoal
PROPERTIES GuardedIsGoal OthersSurvive SerialAdvances
CHECK_DEADLOCK FALSE
