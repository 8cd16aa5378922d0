SPECIFICATION Spec
CONSTANTS
  u = u
  v = v
  Users <- OneProcess
  Pins <- SomePins
  Requests <- OneOrTwo
  ArraySize = 4
  SMP = FALSE
  Program = "user"
INVARIANTS
  TriggersAsDocumented
