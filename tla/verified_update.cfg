SPECIFICATION FairSpec
CONSTANTS
  Updaters = {u1, u2}
  Half = 2
  Jumps = {1}
  MaxOthers = 1
INVARIANTS TypeOK VerifiedIsApplied NotAppliedIsTrue RejectedIsTrue
PROPERTIES UpdatesEnd
CHECK_DEADLOCK FALSE
