------------------------------- MODULE BitBang -------------------------------
(***************************************************************************)
(* The two drivers of Project3/part2 that bang the bits of an LED ring out *)
(* of IO pin 12: bbang_hrtimer.c sends half a bit in each callback of a    *)
(* timer while write waits for it, bbang_ndelay.c sends all of them in     *)
(* write. Both make a device hrt_1, so one of them is loaded at a time.    *)
(*                                                                         *)
(* A process is at one of these places:                                    *)
(*   closed, open                                                          *)
(*   loop      in write of bbang_ndelay.c                                  *)
(*   begun, rewound, filling, filled, waiting                              *)
(*             in write of bbang_hrtimer.c: with the completion, led_count,*)
(*             c and msg set, and the timer started. The timer of a write  *)
(*             that was interrupted may call back between any two of them. *)
(*                                                                         *)
(* The time between two writes to the register is left out. A pixel has    *)
(* three colours of Width bits, a message word a fourth part below them.   *)
(***************************************************************************)
EXTENDS Integers, FiniteSets, PinMux

CONSTANTS
  Users,          \* processes
  LEDs,           \* 16
  Width,          \* 8
  Garbage,        \* what done may hold in memory fresh from kmalloc
  Results         \* outcomes of module initialisation

BitBangAssumption ==
  /\ IsFiniteSet(Users)
  /\ LEDs \in Nat \ {0} /\ Width \in Nat \ {0}
  /\ LEDs <= 3 * Width        \* 16 <= 24
  /\ Garbage \subseteq BOOLEAN
  /\ Results \subseteq {"ok", "no memory", "no cdev"}

VARIABLES
  driver,         \* the driver that is loaded
  class,          \* the class hrt_1 and a device number exist
  led_count, c, i,  \* counters; c counts half bits down
  msg,            \* the word left to send to each LED
  bit, done,      \* the bit being sent; its first half is sent
  hrt,            \* the timer: corrupt after hrtimer_init while queued, and
                  \* then it does not call back any more
  biw,            \* completed
  reg_data,       \* the register is mapped
  gpios,          \* requested GPIOs of the board
  place,          \* where each process is
  fault,          \* something was used that is not there
  high,           \* what the pin of the ring is set to
  sent, ones,     \* history: bits and ones sent to the LEDs since c was set
  upright,        \* history: that was with the first half of a bit due, and
                  \* neither a close nor the next write has come since
  skipped         \* history: where led_count was then

counters == <<led_count, c, i, msg, bit, done>>
history  == <<high, sent, ones, upright, skipped>>
device   == <<driver, class, reg_data, gpios>>
vars     == <<driver, class, led_count, c, i, msg, bit, done, hrt, biw,
              reg_data, gpios, place, fault, high, sent, ones, upright,
              skipped>>

Bits == 3 * Width                 \* of a pixel
Word == 2 ^ (4 * Width)           \* unsigned int
White == Word - 2 ^ Width         \* g << 24 | r << 16 | b << 8
Test(word) == (word \div 2 ^ (Width - 1)) % 2 = 1    \* & 0x80
ShiftWide(word) == 2 * word       \* mutant: int is wide enough
Shift(word) == (2 * word) % Word

\* A pixel fits a word and c, for every width.
WordAssumption ==
  /\ Word \in Nat
  /\ 2 ^ Width \in 1 .. Word
  /\ 2 * Bits < Word

Writing == {"begun", "rewound", "filling", "filled", "waiting"}

TypeOK ==
  /\ driver \in {"none", "hrtimer", "ndelay"} /\ class \in BOOLEAN
  /\ led_count \in 0 .. LEDs /\ i \in 0 .. Bits - 1
  /\ c \in 0 .. Word - 1
  /\ msg \in [0 .. LEDs - 1 -> 0 .. Word - 1]
  /\ bit \in BOOLEAN /\ done \in BOOLEAN
  /\ hrt \in {"raw", "idle", "queued", "corrupt"} /\ biw \in BOOLEAN
  /\ reg_data \in BOOLEAN
  /\ gpios \subseteq UNION {Columns(io_pin) : io_pin \in IOPins}
  /\ place \in [Users -> {"closed", "open", "loop"} \cup Writing]
  /\ fault \in BOOLEAN /\ high \in BOOLEAN
  /\ upright \in BOOLEAN /\ skipped \in 0 .. LEDs
  /\ sent \in 0 .. LEDs * Bits /\ ones \in 0 .. sent

Init ==
  /\ driver = "none" /\ class = FALSE
  /\ led_count = 0 /\ c = 0 /\ i = 0
  /\ msg = [l \in 0 .. LEDs - 1 |-> 0]
  /\ bit = FALSE /\ done = FALSE
  /\ hrt = "raw" /\ biw = FALSE
  /\ reg_data = FALSE /\ gpios = {}
  /\ place = [u \in Users |-> "closed"]
  /\ fault = FALSE /\ high = FALSE
  /\ sent = 0 /\ ones = 0 /\ upright = FALSE /\ skipped = 0

Goto(u, from, to) ==
  place[u] = from /\ place' = [place EXCEPT ![u] = to]

Idle == \A u \in Users : place[u] = "closed"

-----------------------------------------------------------------------------
(* hrt_driver_init and hrt_driver_exit, the same in both *)

\* A failure leaves behind what it has made, and the next class_create fails.
hrt_driver_init(d, result) ==
  /\ driver = "none"
  /\ driver' = IF result = "ok" THEN d ELSE "none"
  /\ class' = TRUE
  /\ fault' = (fault \/ class)
  /\ done' \in Garbage /\ bit' \in BOOLEAN
  /\ UNCHANGED <<led_count, c, i, msg, hrt, biw, reg_data, gpios, place,
                 history>>

\* The structure is freed, and with it all that it holds.
hrt_driver_exit ==
  /\ driver # "none" /\ Idle
  /\ driver' = "none" /\ class' = FALSE
  /\ fault' = (fault \/ hrt \in {"queued", "corrupt"})
  /\ led_count' = 0 /\ c' = 0 /\ i' = 0
  /\ msg' = [l \in DOMAIN msg |-> 0]
  /\ bit' = FALSE /\ done' = FALSE
  /\ hrt' = "raw" /\ biw' = FALSE
  /\ sent' = 0 /\ ones' = 0 /\ upright' = FALSE /\ skipped' = 0
  /\ UNCHANGED <<reg_data, gpios, place, high>>

-----------------------------------------------------------------------------
(* bbang_hrtimer.c *)

RequestRing == gpio_config(gpios, 12)
FreeRing    == gpio_deregister_out(gpios, 12)

\* hrtimer_init wipes the timer, wherever it is queued.
hrt_open(u) ==
  /\ driver = "hrtimer" /\ Goto(u, "closed", "open")
  /\ gpios' = RequestRing
  /\ hrt' = IF hrt \in {"queued", "corrupt"} THEN "corrupt" ELSE "idle"
  /\ reg_data' = TRUE
  /\ UNCHANGED <<driver, class, counters, biw, fault, history>>

\* mutant: the timer goes on
CloseTicking(u) ==
  /\ driver = "hrtimer" /\ Goto(u, "open", "closed")
  /\ reg_data' = FALSE
  /\ gpios' = FreeRing
  /\ UNCHANGED <<driver, class, counters, hrt, biw, fault, history>>

\* A callback before hrtimer_cancel finds c = 0.
hrt_close(u) ==
  /\ driver = "hrtimer" /\ Goto(u, "open", "closed")
  /\ \/ c' = 0 /\ UNCHANGED biw
     \/ hrt = "queued" /\ c' = Word - 1 /\ biw' = TRUE
  /\ hrt' = IF hrt = "queued" THEN "idle" ELSE hrt
  /\ reg_data' = FALSE
  /\ gpios' = FreeRing
  /\ fault' = (fault \/ hrt = "corrupt")
  /\ upright' = FALSE
  /\ UNCHANGED <<driver, class, led_count, i, msg, bit, done, high, sent, ones,
                 skipped>>

\* Writes take turns here, as init_completion forgets who waits; one that is
\* interrupted gives up its turn.
hrt_write(u) ==
  /\ driver = "hrtimer" /\ Goto(u, "open", "begun")
  /\ \A v \in Users : place[v] \notin Writing
  /\ biw' = FALSE
  /\ UNCHANGED <<counters, device, hrt, fault, history>>

ResetLed(u) ==
  /\ Goto(u, "begun", "rewound")
  /\ led_count' = 0
  /\ upright' = FALSE
  /\ UNCHANGED <<c, i, msg, bit, done, device, hrt, biw, fault, high, sent,
                 ones, skipped>>

\* bit and done stay as an earlier write left them.
ResetCount(u) ==
  /\ Goto(u, "rewound", "filling")
  /\ c' = 2 * Bits /\ i' = 0
  /\ sent' = 0 /\ ones' = 0 /\ upright' = ~done /\ skipped' = led_count
  /\ UNCHANGED <<led_count, msg, bit, done, device, hrt, biw, fault, high>>

Fill(u) ==
  /\ IF i < LEDs - 1
       THEN place[u] = "filling" /\ i' = i + 1 /\ UNCHANGED place
       ELSE Goto(u, "filling", "filled") /\ UNCHANGED i
  /\ msg' = [msg EXCEPT ![i] = White]
  /\ UNCHANGED <<led_count, c, bit, done, device, hrt, biw, fault, history>>

StartTimer(u) ==
  /\ Goto(u, "filled", "waiting")
  /\ hrt' = IF hrt = "corrupt" THEN "corrupt" ELSE "queued"
  /\ UNCHANGED <<counters, device, biw, fault, history>>

\* wait_for_completion_interruptible; write returns zero in both cases.
hrt_write_returns(u) ==
  /\ Goto(u, "waiting", "open")
  /\ biw /\ biw' = FALSE
  /\ UNCHANGED <<counters, device, hrt, fault, history>>

Interrupted(u) ==
  /\ Goto(u, "waiting", "open")
  /\ ~biw
  /\ UNCHANGED <<counters, device, hrt, biw, fault, history>>

\* The ring takes as many bits as its LEDs have and passes the rest on.
Record(value) ==
  IF sent < LEDs * Bits
    THEN sent' = sent + 1 /\ ones' = IF value THEN ones + 1 ELSE ones
    ELSE UNCHANGED <<sent, ones>>

Raise ==
  /\ done' = TRUE /\ high' = TRUE
  /\ c' = c - 1
  /\ UNCHANGED <<led_count, msg, bit, sent, ones>>

\* mutant: the next LED has one half bit more
LowerLate ==
  /\ done' = FALSE /\ high' = FALSE
  /\ IF high THEN Record(bit) ELSE UNCHANGED <<sent, ones>>
  /\ msg' = [msg EXCEPT ![led_count % LEDs] = Shift(@)]
  /\ bit' = Test(msg'[led_count % LEDs])
  /\ IF c = 1 /\ led_count < LEDs
       THEN led_count' = led_count + 1 /\ c' = 2 * Bits + 1
       ELSE c' = c - 1 /\ UNCHANGED led_count

\* msg[16] is the field after it, which is c itself: doubled and diminished,
\* it comes to rest at 4 and not at 0. Lowering a pin that is low sends no bit.
Lower ==
  /\ done' = FALSE /\ high' = FALSE
  /\ IF high THEN Record(bit) ELSE UNCHANGED <<sent, ones>>
  /\ IF led_count < LEDs
       THEN /\ msg' = [msg EXCEPT ![led_count] = Shift(@)]
            /\ bit' = Test(msg'[led_count])
            /\ IF c = 1 THEN led_count' = led_count + 1 /\ c' = 2 * Bits
                        ELSE c' = c - 1 /\ UNCHANGED led_count
       ELSE /\ c' = Shift(c - 1)
            /\ bit' = Test(c')
            /\ UNCHANGED <<led_count, msg>>

my_hrtimer_callback ==
  /\ hrt = "queued"
  /\ IF c # 0
       THEN (IF done THEN Lower ELSE Raise) /\ UNCHANGED <<hrt, biw>>
       ELSE /\ c' = Word - 1
            /\ biw' = TRUE /\ hrt' = "idle"
            /\ UNCHANGED <<led_count, msg, bit, done, high, sent, ones>>
  /\ fault' = (fault \/ (c # 0 /\ ~reg_data))
  /\ UNCHANGED <<i, device, place, upright, skipped>>

-----------------------------------------------------------------------------
(* bbang_ndelay.c, which neither requests a GPIO nor unmaps the register *)

ndelay_open(u) ==
  /\ driver = "ndelay" /\ Goto(u, "closed", "open")
  /\ UNCHANGED <<counters, device, hrt, biw, fault, history>>

ndelay_close(u) ==
  /\ driver = "ndelay" /\ Goto(u, "open", "closed")
  /\ UNCHANGED <<counters, device, hrt, biw, fault, history>>

\* Writes take turns here: led_count and i are local to each.
ndelay_write(u) ==
  /\ driver = "ndelay" /\ Goto(u, "open", "loop")
  /\ \A v \in Users : place[v] # "loop"
  /\ msg' = [l \in DOMAIN msg |-> White]
  /\ bit' = Test(White)
  /\ led_count' = 0 /\ i' = 0
  /\ sent' = 0 /\ ones' = 0
  /\ UNCHANGED <<c, done, device, hrt, biw, fault, high, upright, skipped>>

\* mutant: the last LED is not given an end
SendForever(u) ==
  /\ place[u] = "loop"
  /\ Record(bit)
  /\ bit' = FALSE
  /\ i' = (i + 1) % Bits
  /\ led_count' = IF i = Bits - 1 /\ led_count < LEDs THEN led_count + 1
                                                      ELSE led_count
  /\ UNCHANGED <<c, done, msg, device, hrt, biw, place, fault, high, upright,
                 skipped>>

\* mutant: the loop ends with the last LED
SendShort(u) ==
  /\ place[u] = "loop"
  /\ Record(bit)
  /\ bit' = FALSE
  /\ IF i = Bits - 1
       THEN IF led_count < LEDs - 1
              THEN led_count' = led_count + 1 /\ i' = 1 /\ UNCHANGED place
              ELSE Goto(u, "loop", "open") /\ UNCHANGED <<led_count, i>>
       ELSE i' = i + 1 /\ UNCHANGED <<led_count, place>>
  /\ UNCHANGED <<c, done, msg, device, hrt, biw, fault, high, upright,
                 skipped>>

\* After the last bit of an LED i is set to 0 and then incremented. msg[16]
\* is the name that follows it.
SendBit(u) ==
  /\ place[u] = "loop"
  /\ Record(bit)
  /\ IF led_count < LEDs THEN /\ msg' = [msg EXCEPT ![led_count] = Shift(@)]
                              /\ bit' = Test(msg'[led_count])
                         ELSE bit' \in BOOLEAN /\ UNCHANGED msg
  /\ IF i = Bits - 1
       THEN IF led_count < LEDs
              THEN led_count' = led_count + 1 /\ i' = 1 /\ UNCHANGED place
              ELSE Goto(u, "loop", "open") /\ UNCHANGED <<led_count, i>>
       ELSE i' = i + 1 /\ UNCHANGED <<led_count, place>>
  /\ high' = FALSE
  /\ UNCHANGED <<c, done, device, hrt, biw, fault, upright, skipped>>

-----------------------------------------------------------------------------
Loads ==
  \E d \in {"hrtimer", "ndelay"}, result \in Results :
    hrt_driver_init(d, result)

Calls(u) ==
  \/ hrt_open(u) \/ hrt_close(u)
  \/ hrt_write(u) \/ ResetLed(u) \/ ResetCount(u) \/ Fill(u) \/ StartTimer(u)
  \/ hrt_write_returns(u) \/ Interrupted(u)
  \/ ndelay_open(u) \/ ndelay_close(u) \/ ndelay_write(u)

Next ==
  \/ Loads \/ hrt_driver_exit
  \/ \E u \in Users : Calls(u) \/ SendBit(u)
  \/ my_hrtimer_callback

Spec == Init /\ [][Next]_vars

\* The loop of bbang_ndelay.c runs.
FairSpec == Spec /\ \A u \in Users : WF_vars(SendBit(u))

-----------------------------------------------------------------------------
(* Correctness *)

\* The timer runs only with its driver loaded and the register mapped, and
\* the driver has the pins of the ring while it is open and no longer.
NothingDangles ==
  /\ ~fault
  /\ hrt = "queued" => driver = "hrtimer" /\ reg_data
  /\ driver = "hrtimer" /\ ~Idle <=> Columns(12) \subseteq gpios

\* The two counters of the callback say how much of the message is sent: from
\* where led_count was when write set c, which the timer of an interrupted
\* write may have moved, no half bit is left out or sent twice, if the first
\* half of a bit was due.
BitsAccounted ==
  upright =>
    IF led_count = LEDs
      THEN sent + Bits * skipped >= Bits * LEDs
      ELSE 2 * (sent + Bits * skipped) + (IF done THEN 1 ELSE 0)
             = 2 * (Bits * led_count) + (2 * Bits - c)

\* A write of bbang_ndelay.c gives the ring as many bits as its LEDs have:
\* the LED that is one too many makes up for the bit each later one loses.
CoversTheRing ==
  [][\A u \in Users :
       place[u] = "loop" /\ place'[u] = "open" => sent' = LEDs * Bits]_vars

\* It returns, though its loop sets its own counter back.
LoopEnds == \A u \in Users : place[u] = "loop" ~> place[u] = "open"

\* "Writing the GRB pixel data": what the LEDs are sent is white, but for the
\* first bit, which may be that of an earlier write.
ShowsPixels == ones + 1 >= sent

\* "Waiting for completion of timer function": which has sent the data then.
CompletesTheRing ==
  [][\A u \in Users :
       place[u] = "waiting" /\ biw' /\ ~biw => sent = LEDs * Bits]_vars
=============================================================================
