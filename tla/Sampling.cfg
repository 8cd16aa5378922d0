SPECIFICATION FairSpec
CONSTANTS
  u = u
  v = v
  Users <- OneProcess
  Pins <- SomePins
  Requests <- OneOrTwo
  ArraySize = 4
  SMP = TRUE
  Program = "user"
INVARIANTS
  TypeOK
  OpensAndClosesBalance
PROPERTIES
  AveragesThisWrite
  WriteReturns
