SPECIFICATION FairSpec
CONSTANTS
  Calls = {c1, c2}
  Workers = {w1}
  None = None
  Error = Error
  CountMod = 4
  SerialMod = 2
  CancelPoints = {"waiting", "sending", "release", "sent"}
  Stoppable = {}
PROPERTIES
  EveryCallReturns
  PoolRecovers
  IdleConnectionsClose
  WorkersExit
