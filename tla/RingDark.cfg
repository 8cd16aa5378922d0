SPECIFICATION RingSpec
CONSTANTS
  u = u
  Users = {u}
  Colours <- SomeColours
  data_buff_size = 3
  Setups <- SomeSetups
  Faulty = TRUE
  Careful = TRUE
  LEDs = 16
  Width = 7
  Garbage = {FALSE, TRUE}
  Results = {"ok"}
INVARIANT
  ShowsPixels
