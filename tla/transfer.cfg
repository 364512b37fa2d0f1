SPECIFICATION FairSpec
CONSTANTS
  Half = 4
  Names = {"a", "b"}
  NoSerial = NoSerial
  Exchanges <- MCExchanges
  MaxAnswers = 3
  MaxUnsigned = 2
  MaxRecords = 11
INVARIANTS LimitsOK CompleteCopy SignedEnd RefusalHasCause
PROPERTIES DeltasInOrder SerialsAdvance TransferEnds
