CONSTANTS
  a = a
  b = b
  c = c
  d = d
  Threads = {a, b}
  Count = 2
  TimeoutSet = TRUE
  SMP = FALSE
  Interruptible = {}
  FlagGarbage = {FALSE}
  UINT_MAX = 3
  NoThread = NoThread
SPECIFICATION Spec
PROPERTIES
  ZeroMeansSynchronised
