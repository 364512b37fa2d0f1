SPECIFICATION Spec
CONSTANTS
  Half = 4
  Names = {"a", "b"}
  NoSerial = NoSerial
  Exchanges <- MCExchanges
  MaxAnswers = 3
  MaxUnsigned = 2
  MaxRecords = 11
INVARIANT NoChangeIsCurrent
