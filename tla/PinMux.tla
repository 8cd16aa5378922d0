------------------------------- MODULE PinMux --------------------------------
(***************************************************************************)
(* The pin multiplexing of Projects 2 and 3 (three copies of pinmux.h):    *)
(* each IO pin of the board stands for up to four GPIOs, which a driver    *)
(* requests and frees together. What is requested is a set of GPIO         *)
(* numbers. The copies differ in how they free.                            *)
(***************************************************************************)
EXTENDS Integers

\* Columns: the GPIO, its level shifter and two multiplexers; -1 is none.
pin_array == <<
  <<11, 32, -1, -1>>, <<12, 28, 45, -1>>, <<13, 34, 77, -1>>,
  <<14, 16, 76, 64>>, <<6, 36, -1, -1>>,  <<0, 18, 66, -1>>,
  <<1, 20, 68, -1>>,  <<38, -1, -1, -1>>, <<40, -1, -1, -1>>,
  <<4, 22, 70, -1>>,  <<10, 26, 74, -1>>, <<5, 24, 44, 72>>,
  <<15, 42, -1, -1>>, <<7, 30, 46, -1>> >>

IOPins == 0 .. 13

Columns(io_pin) == {pin_array[io_pin + 1][i] : i \in 1 .. 4} \ {-1}

\* gpio_config requests the columns in order and gives up at the first one
\* that is taken; what it has requested by then it keeps.
gpio_config(requested, io_pin) ==
  LET row == pin_array[io_pin + 1]
      got == {i \in 1 .. 4 : \A j \in 1 .. i : row[j] \notin requested}
  IN  requested \cup ({row[i] : i \in got} \ {-1})

\* mutant: the echo pin is forgotten
gpio_deregister_trigger(requested, io_trigger, io_echo) ==
  requested \ {gpio \in Columns(io_trigger) : gpio > 0}

\* gpio_deregister frees the columns that are > 0, so never GPIO 0; the
\* columns are unsigned, so it also tries the absent ones, in vain.
gpio_deregister(requested, io_trigger, io_echo) ==
  requested \
    {gpio \in Columns(io_trigger) \cup Columns(io_echo) : gpio > 0}

\* Part 2 of Projects 2 and 3: the columns that are not -1, one pin a call.
gpio_deregister_out(requested, io_trigger) == requested \ Columns(io_trigger)
gpio_deregister_in(requested, io_echo)     == requested \ Columns(io_echo)
=============================================================================
