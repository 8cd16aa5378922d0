CONSTANTS
  P = P
  Q = Q
  p1 = p1
  p2 = p2
  q1 = q1
  q2 = q2
  n1 = n1
  n2 = n2
  n3 = n3
  Processes = {P}
  Threads = {p1, p2}
  Process <- OneByTwo
  Main <- MainP
  Nodes = {n1, n2}
  MaxId = 2
  MaxCount = 3
  Garbage = {NoProcess}
  FirstAlone = TRUE
  Program = "any"
  NoProcess = NoProcess
  NoNode = NoNode
  NoThread = NoThread
SPECIFICATION Spec
SYMMETRY NodeSymmetry
PROPERTY
  BusyIsRefused
CHECK_DEADLOCK FALSE
