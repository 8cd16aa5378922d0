------------------------------- MODULE LedRing -------------------------------
(***************************************************************************)
(* The LED ring of Project3: one board, whose GPIOs all drivers request,   *)
(* and on it BitBang, whose names these are, or the SPI driver. A driver   *)
(* is removed before another is inserted, as the README says.              *)
(***************************************************************************)
EXTENDS BitBang

CONSTANTS Colours, data_buff_size, Setups, Faulty, Careful    \* of SpiRing

VARIABLES
  modules, bound, spi_class, tx_buffer, encode_buffer, buffers, spi,
  speed_hz, message, spi_place, data, spi_fault

SpiRing == INSTANCE SpiRing
             WITH class <- spi_class, place <- spi_place, fault <- spi_fault

ASSUME LedRingAssumption ==
  SpiRing!SpiRingAssumption /\ BitBangAssumption /\ WordAssumption

spi_vars == <<modules, bound, spi_class, tx_buffer, encode_buffer, buffers,
              spi, speed_hz, message, spi_place, data, spi_fault>>

RingInit == SpiRing!Init /\ Init

\* What insmod of one driver waits for, when it is not loaded.
RingNext ==
  \/ driver = "none" /\ SpiRing!Next
       /\ UNCHANGED <<driver, class, counters, hrt, biw, reg_data, place,
                      fault, history>>
  \/ modules = {} /\ Next /\ UNCHANGED spi_vars

\* The loop of bbang_ndelay.c runs.
RingSpec ==
  /\ RingInit /\ [][RingNext]_<<vars, spi_vars>>
  /\ \A u \in Users : WF_vars(SendBit(u) /\ UNCHANGED spi_vars)

-----------------------------------------------------------------------------
(* Correctness, with that of BitBang *)

RingTypeOK == SpiRing!TypeOK /\ TypeOK

\* Neither driver leaves memory, a timer or a pin behind that the other, or
\* its own next load, finds.
RingSafe == SpiRing!NothingDangles /\ NothingDangles

\* That a message decodes to what was written: see there.
MessageShowsWrite == SpiRing!MessageShowsWrite

\* With no driver loaded the board is free.
BoardIsFree == ~bound /\ driver = "none" => gpios = {}
=============================================================================
