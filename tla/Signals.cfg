CONSTANTS
  a = a
  b = b
  c = c
  d = d
  Threads = {a, b}
  Count = 2
  TimeoutSet = FALSE
  SMP = TRUE
  Interruptible = {a, b}
  FlagGarbage = {FALSE}
  UINT_MAX = 3
  NoThread = NoThread
SPECIFICATION FairSpec
INVARIANTS
  NoLostWakeup
PROPERTIES
  SignalledThreadLeaves
