SPECIFICATION Spec
CONSTANTS
  Roles = {"KSK", "CSK"}
  Policies = {"default", ""}
INVARIANT PendingReported
CHECK_DEADLOCK FALSE
