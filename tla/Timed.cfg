CONSTANTS
  a = a
  b = b
  c = c
  d = d
  Threads = {a, b, c}
  Count = 3
  TimeoutSet = TRUE
  SMP = TRUE
  Interruptible = {}
  FlagGarbage = {FALSE, TRUE}
  UINT_MAX = 3
  NoThread = NoThread
SPECIFICATION FairSpec
PROPERTIES
  ArrivedThreadReturns
  EtimeMeansTimeout
