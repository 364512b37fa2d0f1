SPECIFICATION Spec
CONSTANTS
  b1 = b1
  d1 = d1
  n1 = n1
  n2 = n2
  zone = "example."
  view = "internal"
  Names = {"example."}
  Views = {"internal"}
  None = None
  NoNonce = NoNonce
  Clients = {b1}
  Directs = {d1}
  Users = {n1, n2}
  MaxConcurrent = 1
  Window = 1
  MaxMessage = 100
  SerialMod = 4
  Secret = "secret"
  FirstSerials = {3}
  Skews <- MCSkews
  Channels <- MCChannels
  Scenarios <- MCScenarios
  Keys <- MCKeys
  Texts <- MCTexts
  DirectCommands <- MCDirect
  MaxTime = 2
  MaxAttempts = 2
INVARIANTS
  ToldIsDone
  HonestReplyAccepted
  CommandsUnderstood
  SlotsBounded
CHECK_DEADLOCK FALSE
