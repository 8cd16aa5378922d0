SPECIFICATION RingSpec
CONSTANTS
  u = u
  Users = {u}
  Colours <- SomeColours
  data_buff_size = 3
  Setups <- SomeSetups
  Faulty = TRUE
  Careful = TRUE
  LEDs = 3
  Width = 2
  Garbage = {FALSE, TRUE}
  Results = {"ok"}
INVARIANTS
  RingTypeOK
  RingSafe
  BitsAccounted
  BoardIsFree
PROPERTIES
  CoversTheRing
  LoopEnds
  MessageShowsWrite
