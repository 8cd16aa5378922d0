CONSTANTS
  a = a
  b = b
  c = c
  d = d
  Threads = {a, b, c, d}
  Count = 3
  TimeoutSet = TRUE
  SMP = TRUE
  Interruptible = {}
  FlagGarbage = {FALSE}
  UINT_MAX = 3
  NoThread = NoThread
SPECIFICATION Spec
SYMMETRY ThreadPermutations
INVARIANTS
  TypeOK
  LeftAccounting
  GateNeverStuck
  TimerWithinRound
  NoLostWakeup
  Core
PROPERTIES
  KeepsPromise
