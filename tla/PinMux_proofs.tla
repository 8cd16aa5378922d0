---------------------------- MODULE PinMux_proofs ----------------------------
(***************************************************************************)
(* Lemmas about the pin table: which GPIOs an IO pin has, that no two IO   *)
(* pins share one, and what requesting and freeing does to a set of GPIOs. *)
(***************************************************************************)
EXTENDS PinMux, TLAPS

\* The rows of the table without their absent columns.
LEMMA Table ==
  /\ Columns(0) = {11, 32}         /\ Columns(1) = {12, 28, 45}
  /\ Columns(2) = {13, 34, 77}     /\ Columns(3) = {14, 16, 76, 64}
  /\ Columns(4) = {6, 36}          /\ Columns(5) = {0, 18, 66}
  /\ Columns(6) = {1, 20, 68}      /\ Columns(7) = {38}
  /\ Columns(8) = {40}             /\ Columns(9) = {4, 22, 70}
  /\ Columns(10) = {10, 26, 74}    /\ Columns(11) = {5, 24, 44, 72}
  /\ Columns(12) = {15, 42}        /\ Columns(13) = {7, 30, 46}
BY DEF Columns, pin_array

\* A GPIO belongs to one IO pin.
LEMMA OneOwner ==
  ASSUME NEW p \in IOPins, NEW q \in IOPins, p # q
  PROVE  Columns(p) \cap Columns(q) = {}
BY Table DEF IOPins

\* Every column that is there is a GPIO number, and only IO pin 5 has GPIO 0,
\* which gpio_deregister of part 1 would not free.
LEMMA Numbers ==
  ASSUME NEW p \in IOPins
  PROVE  /\ Columns(p) \subseteq Nat /\ Columns(p) # {}
         /\ p # 5 => \A gpio \in Columns(p) : gpio > 0
BY Table DEF IOPins

\* The first column is never absent.
LEMMA FirstColumn ==
  ASSUME NEW p \in IOPins
  PROVE  pin_array[p + 1][1] \in Columns(p)
<1>1. pin_array[p + 1][1] # -1
  BY DEF pin_array, IOPins
<1> QED
  BY <1>1 DEF Columns

\* gpio_config adds columns of its pin and takes nothing away.
LEMMA ConfigBounds ==
  ASSUME NEW requested, NEW p \in IOPins
  PROVE  /\ requested \subseteq gpio_config(requested, p)
         /\ gpio_config(requested, p) \subseteq requested \cup Columns(p)
BY DEF gpio_config, Columns

\* It adds them all when none is taken,
LEMMA ConfigFree ==
  ASSUME NEW requested, NEW p \in IOPins,
         requested \cap Columns(p) = {}, -1 \notin requested
  PROVE  gpio_config(requested, p) = requested \cup Columns(p)
<1>1. \A i \in 1 .. 4 : pin_array[p + 1][i] \notin requested
  BY DEF Columns
<1> QED
  BY <1>1 DEF gpio_config, Columns

\* and none when all are.
LEMMA ConfigTaken ==
  ASSUME NEW requested, NEW p \in IOPins, Columns(p) \subseteq requested
  PROVE  gpio_config(requested, p) = requested
<1>1. pin_array[p + 1][1] \in requested
  BY FirstColumn
<1>2. {i \in 1 .. 4 : \A j \in 1 .. i : pin_array[p + 1][j] \notin requested} = {}
  BY <1>1
<1> QED
  BY <1>2 DEF gpio_config
=============================================================================
