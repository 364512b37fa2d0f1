SPECIFICATION Spec
CONSTANTS
  Calls = {c1, c2}
  Workers = {w1}
  None = None
  Error = Error
  CountMod = 4
  SerialMod = 2
  CancelPoints = {"waiting", "sent"}
  Stoppable = {}
INVARIANT
  AvailableWithinSize
