SPECIFICATION FairSpec
CONSTANTS
  shell = shell
  program = program
  Shells <- OneShell
  Programs <- OneProgram
  Attributes <- First
  Files <- Second
  TriggerPins <- Triggers
  EchoPins <- Echoes
  Requests <- One
  Recycles = FALSE
  Results <- Succeeds
  Rules <- AllRules
INVARIANTS
  TypeOK
  NothingDangles
  PinsAccounted
  UnloadReleases
PROPERTIES
  ShowsThisSampling
  SamplingEnds
