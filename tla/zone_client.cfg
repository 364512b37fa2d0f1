SPECIFICATION FairZoneSpec
CONSTANTS
  Keepers = {k1, k2}
  Nobody = nobody
  MaxDirect = 1
  Updaters = {u1}
  Half = 2
  Jumps = {1}
  MaxOthers = 0
INVARIANTS GuardHolds FreezeAccounted
PROPERTIES HeldZoneIsStill GuardEnds
CHECK_DEADLOCK FALSE
