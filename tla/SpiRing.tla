------------------------------- MODULE SpiRing -------------------------------
(***************************************************************************)
(* The SPI driver of the LED ring of Project3/part1 (spi_ring_driver.c)    *)
(* and its device (spi_ring_device.c). write copies colours into tx_buffer,*)
(* encodes each of their bits as a byte, and hands these to the SPI core.  *)
(*                                                                         *)
(* A process is at one of these places:                                    *)
(*   closed, open                                                          *)
(*   copied    in write, about to encode                                   *)
(*   encoded   in write, about to hand the message over                    *)
(*                                                                         *)
(* What the SPI core and the controller do with a message is left out, so  *)
(* is the order of the bytes in a word of 32 bits.                         *)
(***************************************************************************)
EXTENDS Integers, Sequences, FiniteSets, PinMux

CONSTANTS
  Users,          \* processes
  Colours,        \* sequences of bytes that they write
  data_buff_size, \* bytes of tx_buffer: 48
  Setups,         \* arguments of RESET, records [speed, mode, bits_word]
  Faulty,         \* whether copy_from_user may stop half-way
  Results,        \* outcomes of a probe
  Careful         \* one opener, and no device is removed while it is open

Byte == 0 .. 255
Mosi == {24, 44, 72}    \* the GPIOs of IO pin 11 that are not its first
Buffer == 1 .. data_buff_size

SpiRingAssumption ==
  /\ IsFiniteSet(Users)
  /\ data_buff_size \in Nat \ {0}
  /\ \A colours \in Colours : /\ colours \in Seq(Byte)
                              /\ Len(colours) # 0
  /\ Setups \subseteq [speed : Nat, mode : Nat, bits_word : Nat]
  /\ {Faulty, Careful} \subseteq BOOLEAN
  /\ Results \subseteq {"ok", "no region", "no cdev", "no pins"}

\* write takes any length: that a buffer holds it is for the processes to see to.
Fits == \A colours \in Colours : Len(colours) <= data_buff_size

VARIABLES
  modules,        \* loaded modules
  bound,          \* the driver has the device
  class,          \* the class and the device number exist
  tx_buffer, encode_buffer,    \* contents
  buffers,        \* "null", "live", or tx_buffer is "freed"
  spi,            \* parameters of the SPI device
  speed_hz,       \* of a transfer
  message,        \* what was handed to the SPI core last
  gpios,          \* requested GPIOs of the board
  place,          \* where each process is
  data,           \* what it writes
  fault           \* memory was used that is not there

device == <<modules, bound, class, gpios>>
memory == <<tx_buffer, encode_buffer, buffers>>
bus    == <<spi, speed_hz, message>>
vars   == <<modules, bound, class, tx_buffer, encode_buffer, buffers, spi,
            speed_hz, message, gpios, place, data, fault>>

Board == [speed |-> 6400000, mode |-> 3, bits_word |-> 24]
Zeros == [j \in Buffer |-> 0]
Speeds == {Board.speed} \cup {set.speed : set \in Setups}

TypeOK ==
  /\ modules \subseteq {"device", "driver"}
  /\ bound \in BOOLEAN /\ class \in BOOLEAN /\ fault \in BOOLEAN
  /\ tx_buffer \in [Buffer -> Byte]
  /\ encode_buffer \in [1 .. 8 * data_buff_size -> Byte]
  /\ buffers \in {"null", "live", "freed"}
  /\ spi.speed \in Speeds /\ spi.mode \in 0 .. 3
  /\ speed_hz \in Speeds
  /\ message \in {<<>>} \cup [1 .. 8 * data_buff_size -> Byte]
  /\ gpios \subseteq UNION {Columns(io_pin) : io_pin \in IOPins}
  /\ place \in [Users -> {"closed", "open", "copied", "encoded"}]
  /\ data \in [Users -> Colours \cup {<<>>}]

NoCode == [j \in 1 .. 8 * data_buff_size |-> 0]

Init ==
  /\ modules = {} /\ bound = FALSE /\ class = FALSE
  /\ tx_buffer = Zeros /\ encode_buffer = NoCode /\ buffers = "null"
  /\ spi = Board /\ speed_hz = Board.speed /\ message = <<>>
  /\ gpios = {}
  /\ place = [u \in Users |-> "closed"]
  /\ data = [u \in Users |-> <<>>]
  /\ fault = FALSE

Goto(u, from, to) ==
  place[u] = from /\ place' = [place EXCEPT ![u] = to]

Idle == \A u \in Users : place[u] = "closed"

-----------------------------------------------------------------------------
(* The modules *)

\* gpio_init ignores the requests that fail.
ws2812_probe(result) ==
  /\ bound' = (result = "ok")
  /\ class' = TRUE
  /\ fault' = (fault \/ class)
  /\ speed_hz' = spi'.speed
  /\ gpios' = IF result \in {"ok", "no pins"} THEN gpios \cup Mosi ELSE gpios

Load(m) ==
  /\ m \notin modules /\ modules' = modules \cup {m}
  /\ spi' = IF m = "device" THEN Board ELSE spi
  /\ IF modules' = {"device", "driver"}
       THEN \E result \in Results : ws2812_probe(result)
       ELSE UNCHANGED <<bound, class, fault, speed_hz, gpios>>
  /\ UNCHANGED <<memory, message, place, data>>

\* mutant: one of the pins is kept
ws2812_remove_two ==
  /\ bound' = FALSE /\ class' = FALSE
  /\ gpios' = gpios \ {24, 72}

ws2812_remove ==
  /\ bound' = FALSE /\ class' = FALSE
  /\ gpios' = gpios \ Mosi

\* rmmod: the driver stays while the device is open. Its structure is freed,
\* and with it all that that holds; what RESET has set stays with the device.
Unload(m) ==
  /\ m \in modules /\ modules' = modules \ {m}
  /\ m = "driver" \/ Careful => Idle
  /\ IF bound THEN ws2812_remove ELSE UNCHANGED <<bound, class, gpios>>
  /\ tx_buffer' = Zeros /\ encode_buffer' = NoCode /\ buffers' = "null"
  /\ spi' = IF m = "device" THEN Board ELSE spi
  /\ speed_hz' = Board.speed /\ message' = <<>>
  /\ UNCHANGED <<place, data, fault>>

-----------------------------------------------------------------------------
(* The device file *)

Uses == fault' = (fault \/ ~bound \/ buffers # "live")

\* The buffers of an earlier open are lost: encode_buffer is never freed.
ws2812_open(u) ==
  /\ bound /\ (Careful => Idle)
  /\ Goto(u, "closed", "open")
  /\ tx_buffer' = Zeros /\ buffers' = "live"
  /\ encode_buffer' = NoCode
  /\ UNCHANGED <<device, bus, data, fault>>

ws2812_close(u) ==
  /\ Goto(u, "open", "closed")
  /\ buffers' = "freed"
  /\ Uses
  /\ UNCHANGED <<device, tx_buffer, encode_buffer, bus, data>>

\* copy_from_user, of all the bytes or of fewer: then it zeroes the others.
\* Bytes the buffer has no room for overwrite what follows it.
ws2812_write(u, colours, copied) ==
  /\ Goto(u, "open", "copied")
  /\ ~Faulty => copied = Len(colours)
  /\ data' = [data EXCEPT ![u] = IF copied = Len(colours) THEN colours
                                                          ELSE <<>>]
  /\ tx_buffer' = [j \in Buffer |->
                     IF j > Len(colours) THEN tx_buffer[j]
                     ELSE IF j <= copied THEN colours[j] ELSE 0]
  /\ fault' = (fault \/ ~bound \/ buffers # "live"
                     \/ Len(colours) > data_buff_size)
  /\ UNCHANGED <<device, encode_buffer, buffers, bus>>

One  == 240     \* 0xF0
Zero == 192     \* 0xC0

Weight == <<128, 64, 32, 16, 8, 4, 2, 1>>
Bit(byte, k) == (byte \div Weight[k + 1]) % 2 = 1    \* k = 0: num & 128

\* mutant: num is shifted before its first bit is tested
EncodeShifted(buffer) ==
  [j \in 1 .. 8 * data_buff_size |->
     IF Bit(2 * buffer[(j - 1) \div 8 + 1], (j - 1) % 8) THEN One ELSE Zero]

Encode(buffer) ==
  [j \in 1 .. 8 * data_buff_size |->
     IF Bit(buffer[(j - 1) \div 8 + 1], (j - 1) % 8) THEN One ELSE Zero]

\* It encodes what there is, and fails if the copy was short.
bits_encode(u) ==
  /\ Goto(u, "copied", IF data[u] = <<>> THEN "open" ELSE "encoded")
  /\ encode_buffer' = Encode(tx_buffer)
  /\ Uses
  /\ UNCHANGED <<device, tx_buffer, buffers, bus, data>>

\* The result of spi_sync_locked is dropped.
ws2812_write_sync(u) ==
  /\ Goto(u, "encoded", "open")
  /\ message' = encode_buffer
  /\ data' = [data EXCEPT ![u] = <<>>]
  /\ Uses
  /\ UNCHANGED <<device, memory, spi, speed_hz>>

\* RESET: a mode that does not exist is noticed after the rest is set.
\* Transfers go on at speed_hz, with 32 bits a word.
ws2812_ioctl(u, set) ==
  /\ place[u] = "open"
  /\ spi' = IF set.mode \in 0 .. 3 THEN set ELSE [set EXCEPT !.mode = spi.mode]
  /\ fault' = (fault \/ ~bound)
  /\ UNCHANGED <<device, memory, speed_hz, message, place, data>>

-----------------------------------------------------------------------------
Loads == \E m \in {"device", "driver"} : Load(m)

Calls(u) ==
  \/ ws2812_open(u) \/ ws2812_close(u)
  \/ \E colours \in Colours : \E copied \in 0 .. Len(colours) :
       ws2812_write(u, colours, copied)
  \/ bits_encode(u) \/ ws2812_write_sync(u)
  \/ \E set \in Setups : ws2812_ioctl(u, set)

Next ==
  \/ Loads
  \/ \E m \in {"device", "driver"} : Unload(m)
  \/ \E u \in Users : Calls(u)

Spec == Init /\ [][Next]_vars

-----------------------------------------------------------------------------
(* Correctness *)

\* What a ring shows that is handed a message: the bytes whose bits it is.
Decode(frame) ==
  [j \in Buffer |->
     LET Value(k) == IF frame[8 * (j - 1) + k + 1] = One THEN Weight[k + 1]
                                                         ELSE 0
     IN  Value(0) + Value(1) + Value(2) + Value(3)
           + Value(4) + Value(5) + Value(6) + Value(7)]

\* The message of a write decodes to what that write was given, and to what
\* an earlier write of the same open, or kzalloc, left in the rest.
MessageShowsWrite ==
  [][\A u \in Users :
       place[u] = "encoded" /\ place'[u] = "open" =>
         /\ SubSeq(Decode(message'), 1, Len(data[u])) = data[u]
         /\ Decode(message') = tx_buffer]_vars

\* A process with the device open has a driver with live buffers, none was
\* used that is not there or freed twice, and the driver has its pins for as
\* long as it has the device.
NothingDangles ==
  /\ ~fault
  /\ ~Idle => bound /\ buffers = "live"
  /\ Idle => buffers # "live"
  /\ bound = class
  /\ IF bound THEN Mosi \subseteq gpios ELSE Mosi \cap gpios = {}
=============================================================================
