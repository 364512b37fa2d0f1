SPECIFICATION Spec
CONSTANTS
  MaxLabel = 63
  MaxName = 255
  MaxString = 255
  MaxDepth = 128
  MaxMessage = 65535
  MaxRecords = 12
  Included <- MCIncluded
  ZoneFiles <- MCZoneFiles
  HeldZones <- MCHeldZones
  ZoneName <- MCZone
  TheKey <- MCKey
  Now = 1000
  Clocks = {700, 1000, 1300}
  MaxIncludeDepth = 2
  MaxTrips = 4
INVARIANTS
  RecordKept
  NothingRefused
  OwnersAsWritten
