SPECIFICATION Spec
CONSTANTS
  shell = shell
  program = program
  Shells <- OneShell
  Programs <- OneProgram
  Attributes <- Devices
  Files <- First
  TriggerPins <- Triggers
  EchoPins <- Echoes
  Requests <- One
  Recycles = TRUE
  Results <- Succeeds
  Rules <- AllRules
INVARIANT
  HearsOnItsOwnPin
