CONSTANTS
  a = a
  b = b
  c = c
  d = d
  Threads = {a, b, c}
  Count = 3
  TimeoutSet = FALSE
  SMP = FALSE
  Interruptible = {}
  FlagGarbage = {FALSE, TRUE}
  UINT_MAX = 3
  NoThread = NoThread
SPECIFICATION Spec
PROPERTIES
  EtimeNeedsTimer
