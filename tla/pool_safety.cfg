SPECIFICATION Spec
CONSTANTS
  Calls = {c1, c2, c3}
  Workers = {w1}
  None = None
  Error = Error
  CountMod = 4
  SerialMod = 2
  CancelPoints = {"waiting", "sending", "release", "sent"}
  Stoppable = {w1}
SYMMETRY CallSymmetry
INVARIANTS
  TypeOK
  TokenConserved
  CountAccounts
  OwnReply
  BacklogBounded
PROPERTY
  RefinesService
