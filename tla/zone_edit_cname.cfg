SPECIFICATION Spec
CONSTANTS
  Half = 1073741823
  apex = apex
  www = www
  n1 = n1
  n2 = n2
  a1 = a1
  a2 = a2
  host = host
  host2 = host2
  Apex = apex
  NoData = nodata
  MaxCount = 8
  Zones <- McZones
  FirstZones <- McFirstZones
  FirstSerials <- McFirstSerials
  EditDay = 0
  LastDay = 0
  Seconds <- McSeconds
  OtherEntries <- McOtherEntries
  MaxSends = 1
  MaxOthers = 0
INVARIANT UpdatesProduceTarget
CHECK_DEADLOCK FALSE
