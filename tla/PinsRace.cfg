SPECIFICATION Spec
CONSTANTS
  shell = shell
  program = program
  Shells <- OneShell
  Programs <- OneProgram
  Attributes <- Devices
  Files <- First
  TriggerPins <- Triggers
  EchoPins <- Echoes
  Requests <- One
  Recycles = FALSE
  Results <- Succeeds
  Rules <- NoTurns
INVARIANT
  UnloadReleases
