CONSTANTS
  a = a
  b = b
  c = c
  d = d
  Threads = {a, b, c}
  Count = 3
  TimeoutSet = FALSE
  SMP = TRUE
  Interruptible = {}
  FlagGarbage = {FALSE}
  UINT_MAX = 3
  NoThread = NoThread
SPECIFICATION ProgramSpec
PROPERTIES
  EveryCallReturns
  KeepsStrictPromise
