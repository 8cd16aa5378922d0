---------------------------- MODULE LedRing_proofs ----------------------------
(***************************************************************************)
(* Theorems about LedRing: the drivers share the board without meeting,    *)
(* for every number of LEDs, every size of the SPI buffer and everything   *)
(* written that fits it.                                                   *)
(***************************************************************************)
EXTENDS LedRing, BitBang_proofs, SequenceTheorems

-----------------------------------------------------------------------------
(* The encoding of a byte *)

LEMMA Assumed ==
  /\ BitBangAssumption /\ WordAssumption
  /\ data_buff_size \in Nat \ {0}
  /\ \A colours \in Colours : /\ colours \in Seq(0 .. 255)
                              /\ Len(colours) # 0
  /\ Setups \subseteq [speed : Nat, mode : Nat, bits_word : Nat]
BY LedRingAssumption DEF SpiRing!SpiRingAssumption, SpiRing!Byte

\* A byte is the sum of the weights of its bits.
LEMMA Spelled ==
  ASSUME NEW byte \in 0 .. 255
  PROVE  byte = (IF SpiRing!Bit(byte, 0) THEN 128 ELSE 0)
              + (IF SpiRing!Bit(byte, 1) THEN 64 ELSE 0)
              + (IF SpiRing!Bit(byte, 2) THEN 32 ELSE 0)
              + (IF SpiRing!Bit(byte, 3) THEN 16 ELSE 0)
              + (IF SpiRing!Bit(byte, 4) THEN 8 ELSE 0)
              + (IF SpiRing!Bit(byte, 5) THEN 4 ELSE 0)
              + (IF SpiRing!Bit(byte, 6) THEN 2 ELSE 0)
              + (IF SpiRing!Bit(byte, 7) THEN 1 ELSE 0)
BY DEF SpiRing!Bit, SpiRing!Weight

\* Where the encoder puts a bit.
LEMMA Places ==
  ASSUME NEW j \in SpiRing!Buffer, NEW k \in 0 .. 7
  PROVE  /\ 8 * (j - 1) + k + 1 \in 1 .. 8 * data_buff_size
         /\ ((8 * (j - 1) + k + 1) - 1) \div 8 + 1 = j
         /\ ((8 * (j - 1) + k + 1) - 1) % 8 = k
BY Assumed DEF SpiRing!Buffer

LEMMA EncodedBit ==
  ASSUME NEW buffer \in [SpiRing!Buffer -> 0 .. 255],
         NEW j \in SpiRing!Buffer, NEW k \in 0 .. 7
  PROVE  SpiRing!Encode(buffer)[8 * (j - 1) + k + 1] = SpiRing!One
           <=> SpiRing!Bit(buffer[j], k)
<1> HIDE DEF SpiRing!Bit
<1>1. SpiRing!Encode(buffer)[8 * (j - 1) + k + 1]
        = IF SpiRing!Bit(buffer[j], k) THEN SpiRing!One ELSE SpiRing!Zero
  BY Places DEF SpiRing!Encode
<1> QED
  BY <1>1 DEF SpiRing!One, SpiRing!Zero

\* The ring, which tells the bits from the frames, gets the bytes back.
LEMMA Decodes ==
  ASSUME NEW buffer \in [SpiRing!Buffer -> 0 .. 255]
  PROVE  SpiRing!Decode(SpiRing!Encode(buffer)) = buffer
<1> DEFINE frame == SpiRing!Encode(buffer)
<1>1. ASSUME NEW j \in SpiRing!Buffer
      PROVE  SpiRing!Decode(frame)[j] = buffer[j]
  <2> DEFINE Lit(k) == frame[8 * (j - 1) + k + 1] = SpiRing!One
  <2>1. \A k \in 0 .. 7 : Lit(k) <=> SpiRing!Bit(buffer[j], k)
    BY EncodedBit
  <2>2. SpiRing!Decode(frame)[j] =
          (IF Lit(0) THEN 128 ELSE 0) + (IF Lit(1) THEN 64 ELSE 0)
            + (IF Lit(2) THEN 32 ELSE 0) + (IF Lit(3) THEN 16 ELSE 0)
            + (IF Lit(4) THEN 8 ELSE 0) + (IF Lit(5) THEN 4 ELSE 0)
            + (IF Lit(6) THEN 2 ELSE 0) + (IF Lit(7) THEN 1 ELSE 0)
    <3> HIDE DEF frame
    <3> QED BY DEF SpiRing!Decode, SpiRing!Weight
  <2> HIDE DEF Lit, frame
  <2> QED
    BY <2>1, <2>2, Spelled
<1>2. /\ DOMAIN SpiRing!Decode(frame) = SpiRing!Buffer
      /\ SpiRing!Decode(frame) =
           [j \in SpiRing!Buffer |-> SpiRing!Decode(frame)[j]]
  <2> HIDE DEF frame
  <2> QED BY DEF SpiRing!Decode
<1> HIDE DEF frame
<1>3. SpiRing!Decode(frame) = buffer
  BY <1>1, <1>2
<1> QED
  BY <1>3 DEF frame

-----------------------------------------------------------------------------
(* Type correctness *)

\* Both drivers include the same table.
LEMMA SamePins ==
  UNION {SpiRing!Columns(io_pin) : io_pin \in SpiRing!IOPins}
    = UNION {Columns(io_pin) : io_pin \in IOPins}
<1>1. SpiRing!IOPins = IOPins
  BY DEF SpiRing!IOPins, IOPins
<1>2. SpiRing!pin_array = pin_array
  BY DEF SpiRing!pin_array, pin_array
<1>3. \A io_pin : SpiRing!Columns(io_pin) = Columns(io_pin)
  BY <1>2 DEF SpiRing!Columns, Columns
<1> QED
  BY <1>1, <1>3

LEMMA SpiSized ==
  /\ SpiRing!Buffer' = SpiRing!Buffer
  /\ SpiRing!Byte' = SpiRing!Byte
  /\ SpiRing!Speeds' = SpiRing!Speeds
BY DEF SpiRing!Buffer, SpiRing!Byte, SpiRing!Speeds, SpiRing!Board

\* What is on the board and in the buffers at first, or set by RESET.
LEMMA SpiValues ==
  /\ SpiRing!Zeros \in [SpiRing!Buffer -> SpiRing!Byte]
  /\ SpiRing!NoCode \in [1 .. 8 * data_buff_size -> SpiRing!Byte]
  /\ SpiRing!Board.speed \in SpiRing!Speeds /\ SpiRing!Board.mode \in 0 .. 3
  /\ \A set \in Setups : set.speed \in SpiRing!Speeds
  /\ SpiRing!Mosi \subseteq UNION {Columns(io_pin) : io_pin \in IOPins}
<1>1. SpiRing!Mosi \subseteq Columns(11) /\ 11 \in IOPins
  BY Table DEF SpiRing!Mosi, IOPins
<1>2. /\ SpiRing!Zeros \in [SpiRing!Buffer -> SpiRing!Byte]
      /\ SpiRing!NoCode \in [1 .. 8 * data_buff_size -> SpiRing!Byte]
  BY DEF SpiRing!Zeros, SpiRing!NoCode, SpiRing!Byte
<1> QED
  BY <1>1, <1>2 DEF SpiRing!Speeds, SpiRing!Board

LEMMA SpiInitTyped ==
  ASSUME RingInit
  PROVE  SpiRing!TypeOK
<1>1. SpiRing!Init
  BY DEF RingInit
<1>2. /\ spi_place \in [Users -> {"closed", "open", "copied", "encoded"}]
      /\ data \in [Users -> Colours \cup {<<>>}]
  BY <1>1 DEF SpiRing!Init
<1> QED
  BY <1>1, <1>2, SpiValues DEF SpiRing!Init, SpiRing!TypeOK

LEMMA SpiModulesTyped ==
  ASSUME SpiRing!TypeOK, NEW m \in {"device", "driver"},
         SpiRing!Load(m) \/ SpiRing!Unload(m)
  PROVE  SpiRing!TypeOK'
<1> USE SpiSized DEF SpiRing!TypeOK
<1>1. CASE SpiRing!Load(m)
  <2>1. spi' \in {SpiRing!Board, spi}
    BY <1>1 DEF SpiRing!Load
  <2>2. spi'.speed \in SpiRing!Speeds /\ spi'.mode \in 0 .. 3
    BY <2>1, SpiValues
  <2>3. /\ modules' \subseteq {"device", "driver"}
        /\ UNCHANGED <<tx_buffer, encode_buffer, buffers, message, spi_place,
                       data>>
    BY <1>1 DEF SpiRing!Load, SpiRing!memory
  <2>4. /\ bound' \in BOOLEAN /\ spi_class' \in BOOLEAN
        /\ spi_fault' \in BOOLEAN
        /\ speed_hz' \in {speed_hz, spi'.speed}
        /\ gpios' \subseteq gpios \cup SpiRing!Mosi
    BY <1>1 DEF SpiRing!Load, SpiRing!ws2812_probe
  <2>5. gpios' \subseteq UNION {SpiRing!Columns(io_pin) : io_pin \in SpiRing!IOPins}
    <3>1. SpiRing!Mosi \subseteq
            UNION {SpiRing!Columns(io_pin) : io_pin \in SpiRing!IOPins}
      BY SpiValues, SamePins
    <3> QED
      BY <2>4, <3>1
  <2>6. speed_hz' \in SpiRing!Speeds
    BY <2>2, <2>4
  <2> QED
    BY <2>2, <2>3, <2>4, <2>5, <2>6
<1>2. CASE SpiRing!Unload(m)
  <2>1. /\ modules' \subseteq {"device", "driver"}
        /\ tx_buffer' = SpiRing!Zeros /\ encode_buffer' = SpiRing!NoCode
        /\ buffers' = "null" /\ spi' \in {SpiRing!Board, spi}
        /\ speed_hz' = SpiRing!Board.speed /\ message' = <<>>
        /\ UNCHANGED <<spi_place, data, spi_fault>>
    BY <1>2 DEF SpiRing!Unload
  <2>2. bound' \in BOOLEAN /\ spi_class' \in BOOLEAN /\ gpios' \subseteq gpios
    BY <1>2 DEF SpiRing!Unload, SpiRing!ws2812_remove
  <2> QED
    BY <2>1, <2>2, SpiValues
<1> QED
  BY <1>1, <1>2

\* What a call does to the places.
LEMMA SpiMoves ==
  ASSUME SpiRing!TypeOK, NEW u \in Users, NEW from,
         NEW to \in {"closed", "open", "copied", "encoded"},
         SpiRing!Goto(u, from, to)
  PROVE  /\ spi_place[u] = from
         /\ spi_place' \in [Users -> {"closed", "open", "copied", "encoded"}]
         /\ \A v \in Users : spi_place'[v] = IF v = u THEN to ELSE spi_place[v]
BY DEF SpiRing!Goto, SpiRing!TypeOK

LEMMA CopyTyped ==
  ASSUME SpiRing!TypeOK, NEW u \in Users, NEW colours \in Colours,
         NEW copied \in 0 .. Len(colours),
         SpiRing!ws2812_write(u, colours, copied)
  PROVE  SpiRing!TypeOK'
<1>1. SpiRing!Goto(u, "open", "copied")
  BY DEF SpiRing!ws2812_write
<1>2. spi_place' \in [Users -> {"closed", "open", "copied", "encoded"}]
  BY <1>1, SpiMoves
<1>3. data' \in [Users -> Colours \cup {<<>>}]
  BY DEF SpiRing!ws2812_write, SpiRing!TypeOK
<1>4. tx_buffer' \in [SpiRing!Buffer -> SpiRing!Byte]
  <2>1. \A j \in SpiRing!Buffer : j \in Nat /\ j >= 1
    BY Assumed DEF SpiRing!Buffer
  <2>2. \A j \in 1 .. Len(colours) : colours[j] \in SpiRing!Byte
    <3>1. colours \in Seq(SpiRing!Byte)
      BY Assumed DEF SpiRing!Byte
    <3> QED
      BY <3>1, ElementOfSeq
  <2>3. Len(colours) \in Nat
    BY Assumed, LenProperties
  <2>4. \A j \in SpiRing!Buffer :
          (IF j > Len(colours) THEN tx_buffer[j]
           ELSE IF j <= copied THEN colours[j] ELSE 0) \in SpiRing!Byte
    <3> TAKE j \in SpiRing!Buffer
    <3>1. CASE j > Len(colours)
      BY <3>1 DEF SpiRing!TypeOK
    <3>2. CASE ~(j > Len(colours)) /\ j <= copied
      <4>1. j \in 1 .. Len(colours)
        BY <2>1, <2>3, <3>2
      <4> QED
        BY <2>2, <3>2, <4>1
    <3>3. CASE ~(j > Len(colours)) /\ ~(j <= copied)
      BY <3>3 DEF SpiRing!Byte
    <3> QED
      BY <3>1, <3>2, <3>3
  <2>5. tx_buffer' = [j \in SpiRing!Buffer |->
                        IF j > Len(colours) THEN tx_buffer[j]
                        ELSE IF j <= copied THEN colours[j] ELSE 0]
    BY DEF SpiRing!ws2812_write
  <2> HIDE DEF SpiRing!Buffer, SpiRing!Byte
  <2> QED
    BY <2>4, <2>5
<1>5. /\ spi_fault' \in BOOLEAN
      /\ UNCHANGED <<modules, bound, spi_class, gpios, encode_buffer, buffers,
                     spi, speed_hz, message>>
  BY DEF SpiRing!ws2812_write, SpiRing!device, SpiRing!bus, SpiRing!TypeOK
<1> QED
  BY <1>2, <1>3, <1>4, <1>5, SpiSized DEF SpiRing!TypeOK

LEMMA EncodeTyped ==
  ASSUME NEW buffer
  PROVE  SpiRing!Encode(buffer) \in [1 .. 8 * data_buff_size -> SpiRing!Byte]
<1> DEFINE lit(j) ==
      SpiRing!Bit(buffer[(j - 1) \div 8 + 1], (j - 1) % 8)
<1>1. SpiRing!Encode(buffer) =
        [j \in 1 .. 8 * data_buff_size |-> IF lit(j) THEN 240 ELSE 192]
  BY DEF SpiRing!Encode, SpiRing!One, SpiRing!Zero
<1> HIDE DEF lit
<1> QED
  BY <1>1 DEF SpiRing!Byte

LEMMA SpiCallTyped ==
  ASSUME SpiRing!TypeOK, NEW u \in Users, SpiRing!Calls(u)
  PROVE  SpiRing!TypeOK'
<1> USE DEF SpiRing!device, SpiRing!bus, SpiRing!memory
<1>1. CASE SpiRing!ws2812_open(u)
  <2>1. SpiRing!Goto(u, "closed", "open")
    BY <1>1 DEF SpiRing!ws2812_open
  <2>2. spi_place' \in [Users -> {"closed", "open", "copied", "encoded"}]
    BY <2>1, SpiMoves
  <2> QED
    BY <1>1, <2>2, SpiValues, SpiSized DEF SpiRing!ws2812_open, SpiRing!TypeOK
<1>2. CASE SpiRing!ws2812_close(u)
  <2>1. SpiRing!Goto(u, "open", "closed")
    BY <1>2 DEF SpiRing!ws2812_close
  <2>2. spi_place' \in [Users -> {"closed", "open", "copied", "encoded"}]
    BY <2>1, SpiMoves
  <2>3. spi_fault' \in BOOLEAN
    BY <1>2 DEF SpiRing!ws2812_close, SpiRing!Uses
  <2> QED
    BY <1>2, <2>2, <2>3, SpiSized DEF SpiRing!ws2812_close, SpiRing!TypeOK
<1>3. CASE \E colours \in Colours : \E copied \in 0 .. Len(colours) :
             SpiRing!ws2812_write(u, colours, copied)
  BY <1>3, CopyTyped
<1>4. CASE SpiRing!bits_encode(u)
  <2>1. PICK to \in {"open", "encoded"} : SpiRing!Goto(u, "copied", to)
    BY <1>4 DEF SpiRing!bits_encode
  <2>2. spi_place' \in [Users -> {"closed", "open", "copied", "encoded"}]
    BY <2>1, SpiMoves
  <2>3. spi_fault' \in BOOLEAN
    BY <1>4 DEF SpiRing!bits_encode, SpiRing!Uses
  <2>4. encode_buffer' \in [1 .. 8 * data_buff_size -> SpiRing!Byte]
    BY <1>4, EncodeTyped DEF SpiRing!bits_encode
  <2>5. UNCHANGED <<modules, bound, spi_class, gpios, tx_buffer, buffers, spi,
                    speed_hz, message, data>>
    BY <1>4 DEF SpiRing!bits_encode
  <2> QED
    BY <2>2, <2>3, <2>4, <2>5, SpiSized DEF SpiRing!TypeOK
<1>5. CASE SpiRing!ws2812_write_sync(u)
  <2>1. SpiRing!Goto(u, "encoded", "open")
    BY <1>5 DEF SpiRing!ws2812_write_sync
  <2>2. spi_place' \in [Users -> {"closed", "open", "copied", "encoded"}]
    BY <2>1, SpiMoves
  <2>3. spi_fault' \in BOOLEAN
    BY <1>5 DEF SpiRing!ws2812_write_sync, SpiRing!Uses
  <2>4. data' \in [Users -> Colours \cup {<<>>}]
    BY <1>5 DEF SpiRing!ws2812_write_sync, SpiRing!TypeOK
  <2> QED
    BY <1>5, <2>2, <2>3, <2>4, SpiSized
       DEF SpiRing!ws2812_write_sync, SpiRing!TypeOK
<1>6. ASSUME NEW set \in Setups, SpiRing!ws2812_ioctl(u, set)
      PROVE  SpiRing!TypeOK'
  <2>1. set \in [speed : Nat, mode : Nat, bits_word : Nat]
    BY Assumed
  <2>2. spi'.speed = set.speed /\ spi'.mode \in 0 .. 3
    BY <1>6, <2>1 DEF SpiRing!ws2812_ioctl, SpiRing!TypeOK
  <2>3. spi_fault' \in BOOLEAN
    BY <1>6 DEF SpiRing!ws2812_ioctl
  <2> QED
    BY <1>6, <2>2, <2>3, SpiValues, SpiSized
       DEF SpiRing!ws2812_ioctl, SpiRing!TypeOK
<1> QED
  BY <1>1, <1>2, <1>3, <1>4, <1>5, <1>6 DEF SpiRing!Calls

LEMMA RingTyped ==
  ASSUME RingTypeOK, [RingNext]_<<vars, spi_vars>>
  PROVE  RingTypeOK'
<1> USE DEF RingTypeOK
<1>1. CASE Next /\ UNCHANGED spi_vars
  <2>1. TypeOK'
    BY <1>1, Assumed, NextTyped
  <2>2. gpios' \subseteq
          UNION {SpiRing!Columns(io_pin) : io_pin \in SpiRing!IOPins}
    BY <2>1, SamePins DEF TypeOK
  <2> QED
    BY <1>1, <2>1, <2>2, SpiSized DEF spi_vars, SpiRing!TypeOK
<1>2. CASE SpiRing!Next /\ UNCHANGED <<driver, class, counters, hrt, biw, reg_data,
                               place, fault, history>>
  <2>1. SpiRing!TypeOK'
    BY <1>2, SpiModulesTyped, SpiCallTyped DEF SpiRing!Next, SpiRing!Loads
  <2>2. gpios' \subseteq UNION {Columns(io_pin) : io_pin \in IOPins}
    BY <2>1, SamePins DEF SpiRing!TypeOK
  <2> QED
    BY <1>2, <2>1, <2>2, Sized DEF counters, history, TypeOK
<1>3. CASE UNCHANGED <<vars, spi_vars>>
  BY <1>3, Sized, SpiSized DEF vars, spi_vars, TypeOK, SpiRing!TypeOK
<1> QED
  BY <1>1, <1>2, <1>3 DEF RingNext

LEMMA RingInitTyped ==
  ASSUME RingInit
  PROVE  RingTypeOK
BY Assumed, InitTyped, SpiInitTyped DEF RingInit, RingTypeOK

\* Every variable of both drivers keeps its type, whichever is loaded: the
\* counters index what they should, and only bytes are sent.
THEOREM RingTypeCorrect == RingSpec => []RingTypeOK
<1>1. RingTypeOK /\ [RingNext]_<<vars, spi_vars>> => RingTypeOK'
  BY RingTyped
<1>2. RingInit => RingTypeOK
  BY RingInitTyped
<1> QED
  BY <1>1, <1>2, PTL DEF RingSpec

-----------------------------------------------------------------------------
(* What the SPI driver sends *)

\* A buffer belongs to one open file. What that file has copied is in
\* tx_buffer, and what it has encoded is the code of all of tx_buffer.
OneOpener ==
  \A u, v \in Users : spi_place[u] # "closed" /\ spi_place[v] # "closed" => u = v

FrameAt(u) ==
  /\ spi_place[u] \in {"copied", "encoded"} =>
       \A j \in 1 .. Len(data[u]) : tx_buffer[j] = data[u][j]
  /\ spi_place[u] = "encoded" => encode_buffer = SpiRing!Encode(tx_buffer)

Frames == OneOpener /\ \A u \in Users : FrameAt(u)

\* A step that leaves the buffers and the places alone.
LEMMA FramesStay ==
  ASSUME Frames, UNCHANGED <<spi_place, data, tx_buffer, encode_buffer>>
  PROVE  Frames'
BY DEF Frames, OneOpener, FrameAt

LEMMA FramesCall ==
  ASSUME Careful, SpiRing!Fits, SpiRing!TypeOK, Frames, NEW u \in Users, SpiRing!Calls(u)
  PROVE  Frames'
<1> USE DEF SpiRing!device, SpiRing!bus, SpiRing!memory
<1>0. OneOpener /\ \A v \in Users : FrameAt(v)
  BY DEF Frames
<1>1. CASE SpiRing!ws2812_open(u)
  <2>1. /\ SpiRing!Goto(u, "closed", "open")
        /\ \A v \in Users : spi_place[v] = "closed"
    BY <1>1 DEF SpiRing!ws2812_open, SpiRing!Idle
  <2>2. \A v \in Users : spi_place'[v] = IF v = u THEN "open" ELSE "closed"
    BY <2>1, SpiMoves
  <2> QED
    BY <2>2 DEF Frames, OneOpener, FrameAt
<1>2. CASE SpiRing!ws2812_close(u)
  <2>1. SpiRing!Goto(u, "open", "closed")
    BY <1>2 DEF SpiRing!ws2812_close
  <2>2. /\ spi_place[u] = "open"
        /\ \A v \in Users : spi_place'[v] = IF v = u THEN "closed" ELSE spi_place[v]
    BY <2>1, SpiMoves
  <2>3. \A v \in Users : spi_place'[v] = "closed"
    BY <1>0, <2>2 DEF OneOpener
  <2> QED
    BY <2>3 DEF Frames, OneOpener, FrameAt
<1>3. ASSUME NEW colours \in Colours, NEW copied \in 0 .. Len(colours),
             SpiRing!ws2812_write(u, colours, copied)
      PROVE  Frames'
  <2>1. SpiRing!Goto(u, "open", "copied")
    BY <1>3 DEF SpiRing!ws2812_write
  <2>2. /\ spi_place[u] = "open"
        /\ \A v \in Users : spi_place'[v] = IF v = u THEN "copied" ELSE spi_place[v]
    BY <2>1, SpiMoves
  <2>3. \A v \in Users : v # u => spi_place'[v] = "closed"
    BY <1>0, <2>2 DEF OneOpener
  <2>4. \A j \in 1 .. Len(data'[u]) : tx_buffer'[j] = data'[u][j]
    <3>1. data'[u] = IF copied = Len(colours) THEN colours ELSE <<>>
      BY <1>3 DEF SpiRing!ws2812_write, SpiRing!TypeOK
    <3>2. CASE copied = Len(colours)
      <4>1. Len(colours) \in 1 .. data_buff_size
        BY Assumed DEF SpiRing!Fits
      <4>2. \A j \in 1 .. Len(colours) : j \in SpiRing!Buffer
        BY <4>1, Assumed DEF SpiRing!Buffer
      <4>3. \A j \in 1 .. Len(colours) : tx_buffer'[j] = colours[j]
        BY <1>3, <3>2, <4>1, <4>2 DEF SpiRing!ws2812_write
      <4> QED
        BY <3>1, <3>2, <4>3
    <3>3. CASE copied # Len(colours)
      <4>1. 1 .. Len(data'[u]) = {}
        BY <3>1, <3>3
      <4> QED
        BY <4>1
    <3> QED
      BY <3>2, <3>3
  <2> QED
    BY <2>2, <2>3, <2>4 DEF Frames, OneOpener, FrameAt
<1>4. CASE SpiRing!bits_encode(u)
  <2>1. PICK to \in {"open", "encoded"} : SpiRing!Goto(u, "copied", to)
    BY <1>4 DEF SpiRing!bits_encode
  <2>2. /\ spi_place[u] = "copied"
        /\ \A v \in Users : spi_place'[v] = IF v = u THEN to ELSE spi_place[v]
    BY <2>1, SpiMoves
  <2>3. \A v \in Users : v # u => spi_place'[v] = "closed"
    BY <1>0, <2>2 DEF OneOpener
  <2>4. \A j \in 1 .. Len(data[u]) : tx_buffer[j] = data[u][j]
    BY <1>0, <2>2 DEF FrameAt
  <2>5. encode_buffer' = SpiRing!Encode(tx_buffer) /\ UNCHANGED <<tx_buffer, data>>
    BY <1>4 DEF SpiRing!bits_encode
  <2>6. encode_buffer' = SpiRing!Encode(tx_buffer')
    BY <2>5
  <2> QED
    BY <2>2, <2>3, <2>4, <2>5, <2>6 DEF Frames, OneOpener, FrameAt
<1>5. CASE SpiRing!ws2812_write_sync(u)
  <2>1. SpiRing!Goto(u, "encoded", "open")
    BY <1>5 DEF SpiRing!ws2812_write_sync
  <2>2. /\ spi_place[u] = "encoded"
        /\ \A v \in Users : spi_place'[v] = IF v = u THEN "open" ELSE spi_place[v]
    BY <2>1, SpiMoves
  <2>3. \A v \in Users : v # u => spi_place'[v] = "closed"
    BY <1>0, <2>2 DEF OneOpener
  <2> QED
    BY <2>2, <2>3 DEF Frames, OneOpener, FrameAt
<1>6. CASE \E set \in Setups : SpiRing!ws2812_ioctl(u, set)
  <2>1. UNCHANGED <<spi_place, data, tx_buffer, encode_buffer>>
    BY <1>6 DEF SpiRing!ws2812_ioctl
  <2> QED
    BY <2>1, FramesStay
<1> QED
  BY <1>1, <1>2, <1>3, <1>4, <1>5, <1>6 DEF SpiRing!Calls

LEMMA FramesStep ==
  ASSUME Careful, SpiRing!Fits, RingTypeOK, Frames, [RingNext]_<<vars, spi_vars>>
  PROVE  Frames'
<1>0. SpiRing!TypeOK
  BY DEF RingTypeOK
<1>1. CASE UNCHANGED spi_vars \/ \E m \in {"device", "driver"} : SpiRing!Load(m)
  <2>1. UNCHANGED <<spi_place, data, tx_buffer, encode_buffer>>
    BY <1>1 DEF spi_vars, SpiRing!Load, SpiRing!memory
  <2> QED
    BY <2>1, FramesStay
<1>2. CASE \E m \in {"device", "driver"} : SpiRing!Unload(m)
  <2>1. spi_place' = spi_place /\ \A u \in Users : spi_place[u] = "closed"
    BY <1>2, <1>0 DEF SpiRing!Unload, SpiRing!Idle
  <2> QED
    BY <2>1 DEF Frames, OneOpener, FrameAt
<1>3. CASE \E u \in Users : SpiRing!Calls(u)
  BY <1>0, <1>3, FramesCall
<1>4. UNCHANGED spi_vars \/ SpiRing!Next
  BY DEF RingNext
<1> QED
  BY <1>1, <1>2, <1>3, <1>4 DEF SpiRing!Next, SpiRing!Loads

LEMMA FramesAlways ==
  ASSUME Careful, SpiRing!Fits
  PROVE  RingSpec => []Frames
<1>1. RingInit => Frames
  BY DEF RingInit, SpiRing!Init, Frames, OneOpener, FrameAt
<1>2. RingTypeOK /\ Frames /\ [RingNext]_<<vars, spi_vars>> => Frames'
  BY FramesStep
<1> QED
  BY <1>1, <1>2, RingTypeCorrect, PTL DEF RingSpec

\* Only handing the message over ends a write that has encoded.
LEMMA HandsOver ==
  ASSUME SpiRing!TypeOK, [RingNext]_<<vars, spi_vars>>, NEW u \in Users,
         spi_place[u] = "encoded", spi_place'[u] = "open"
  PROVE  message' = encode_buffer
<1>1. spi_place' # spi_place
  OBVIOUS
<1>2. PICK v \in Users : SpiRing!Calls(v)
  BY <1>1 DEF RingNext, spi_vars, SpiRing!Next, SpiRing!Loads, SpiRing!Load,
       SpiRing!Unload
<1>3. CASE SpiRing!ws2812_write_sync(v)
  BY <1>3 DEF SpiRing!ws2812_write_sync
<1>4. CASE ~SpiRing!ws2812_write_sync(v)
  <2>1. PICK from \in {"closed", "open", "copied"},
             to \in {"closed", "open", "copied", "encoded"} :
               SpiRing!Goto(v, from, to)
    BY <1>1, <1>2, <1>4
       DEF SpiRing!Calls, SpiRing!ws2812_open, SpiRing!ws2812_close,
       SpiRing!ws2812_write, SpiRing!bits_encode, SpiRing!ws2812_ioctl
  <2>2. /\ spi_place[v] = from
        /\ \A w \in Users : spi_place'[w] = IF w = v THEN to ELSE spi_place[w]
    BY <2>1, SpiMoves
  <2>3. v # u
    BY <2>2
  <2> QED
    BY <2>2, <2>3
<1> QED
  BY <1>3, <1>4

LEMMA Prefix ==
  ASSUME NEW S, NEW s \in Seq(S), NEW t,
         \A j \in 1 .. Len(s) : t[j] = s[j]
  PROVE  SubSeq(t, 1, Len(s)) = s
<1> DEFINE part == SubSeq(t, 1, Len(s))
<1>1. Len(s) \in Nat /\ \A j \in 1 .. Len(s) : t[j] \in S
  OBVIOUS
<1>2. /\ part \in Seq(S) /\ Len(part) = Len(s)
      /\ \A j \in 1 .. Len(s) : part[j] = t[j]
  BY <1>1
<1> HIDE DEF part
<1>3. part = s
  BY <1>2, SeqEqual
<1> QED
  BY <1>3 DEF part

\* Whatever was written before, with writes that fit tx_buffer and one opener
\* at a time, and however the calls fail half-way: a ring
\* that is handed a message shows the bytes of the write that sent it, and in
\* the rest what tx_buffer held.
THEOREM RingShowsWrite ==
  ASSUME Careful, SpiRing!Fits
  PROVE  RingSpec => MessageShowsWrite
<1>1. RingTypeOK /\ Frames /\ [RingNext]_<<vars, spi_vars>> =>
        [\A u \in Users :
           spi_place[u] = "encoded" /\ spi_place'[u] = "open" =>
             /\ SubSeq(SpiRing!Decode(message'), 1, Len(data[u])) = data[u]
             /\ SpiRing!Decode(message') = tx_buffer]_SpiRing!vars
  <2> SUFFICES ASSUME RingTypeOK, Frames, [RingNext]_<<vars, spi_vars>>,
                      NEW u \in Users,
                      spi_place[u] = "encoded", spi_place'[u] = "open"
               PROVE  /\ SubSeq(SpiRing!Decode(message'), 1, Len(data[u])) = data[u]
                      /\ SpiRing!Decode(message') = tx_buffer
    OBVIOUS
  <2>1. SpiRing!TypeOK /\ FrameAt(u)
    BY DEF RingTypeOK, Frames
  <2>2. message' = SpiRing!Encode(tx_buffer)
    BY <2>1, HandsOver DEF FrameAt
  <2>3. tx_buffer \in [SpiRing!Buffer -> 0 .. 255]
    BY <2>1 DEF SpiRing!TypeOK, SpiRing!Byte
  <2>4. SpiRing!Decode(message') = tx_buffer
    BY <2>2, <2>3, Decodes
  <2>5. SubSeq(tx_buffer, 1, Len(data[u])) = data[u]
    <3>1. data[u] \in Seq(0 .. 255)
      <4>1. data[u] \in Colours \cup {<<>>}
        BY <2>1 DEF SpiRing!TypeOK
      <4>2. Colours \subseteq Seq(0 .. 255) /\ <<>> \in Seq(0 .. 255)
        BY Assumed, EmptySeq
      <4> QED
        BY <4>1, <4>2
    <3>2. \A j \in 1 .. Len(data[u]) : tx_buffer[j] = data[u][j]
      BY <2>1 DEF FrameAt
    <3> QED
      BY <3>1, <3>2, Prefix
  <2> QED
    BY <2>4, <2>5
<1> QED
  BY <1>1, FramesAlways, RingTypeCorrect, PTL
     DEF RingSpec, MessageShowsWrite, SpiRing!MessageShowsWrite

-----------------------------------------------------------------------------
(* What the drivers hold *)

\* The SPI driver has its class and pins while it has the device, and live
\* buffers exactly while a process has the device open.
SpiHeld ==
  /\ ~spi_fault
  /\ bound <=> modules = {"device", "driver"}
  /\ spi_class <=> bound
  /\ \A u \in Users : spi_place[u] # "closed" => bound /\ buffers = "live"
  /\ SpiRing!Idle => buffers # "live"

SpiPins == IF bound THEN SpiRing!Mosi ELSE {}

\* One driver at a time, and the board belongs to both.
BoardInv ==
  /\ driver # "none" => modules = {}
  /\ gpios = Pins \cup SpiPins

RingInv == HeldInv /\ SpiHeld /\ BoardInv

LEMMA PinsDiffer ==
  SpiRing!Mosi \cap Columns(12) = {} /\ SpiRing!Mosi # {}
BY Table DEF SpiRing!Mosi

LEMMA RingInvInit ==
  ASSUME RingInit
  PROVE  RingInv
<1>1. HeldInv /\ PinsInv
  BY HeldInit DEF RingInit
<1>2. SpiHeld
  BY DEF RingInit, SpiRing!Init, SpiHeld
<1>3. BoardInv
  BY <1>1 DEF RingInit, SpiRing!Init, BoardInv, SpiPins, PinsInv, Init
<1> QED
  BY <1>1, <1>2, <1>3 DEF RingInv

\* insmod and rmmod of the modules of Project3/part1.
LEMMA SpiHeldModules ==
  ASSUME Alone, Careful, SpiRing!TypeOK, SpiHeld, gpios = SpiPins,
         NEW m \in {"device", "driver"}, SpiRing!Load(m) \/ SpiRing!Unload(m)
  PROVE  SpiHeld' /\ gpios' = SpiPins'
<1> USE DEF SpiHeld, SpiPins
<1>1. CASE SpiRing!Load(m)
  <2>1. ~bound /\ gpios = {} /\ \A u \in Users : spi_place[u] = "closed"
    BY <1>1 DEF SpiRing!Load
  <2>2. UNCHANGED <<buffers, spi_place>>
    BY <1>1 DEF SpiRing!Load, SpiRing!memory
  <2>3. SpiRing!Idle <=> SpiRing!Idle'
    BY <2>2 DEF SpiRing!Idle
  <2>4. CASE modules' = {"device", "driver"}
    <3>1. /\ bound' = TRUE /\ spi_class' = TRUE
          /\ spi_fault' = (spi_fault \/ spi_class)
          /\ gpios' = gpios \cup SpiRing!Mosi
      BY <1>1, <2>4 DEF SpiRing!Load, SpiRing!ws2812_probe, Alone
    <3> QED
      BY <2>1, <2>2, <2>3, <2>4, <3>1 DEF SpiRing!Mosi
  <2>5. CASE modules' # {"device", "driver"}
    <3>1. UNCHANGED <<bound, spi_class, spi_fault, gpios>>
      BY <1>1, <2>5 DEF SpiRing!Load
    <3> QED
      BY <2>1, <2>2, <2>3, <2>5, <3>1
  <2> QED
    BY <2>4, <2>5
<1>2. CASE SpiRing!Unload(m)
  <2>1. /\ modules' # {"device", "driver"} /\ buffers' = "null"
        /\ UNCHANGED <<spi_place, spi_fault>>
        /\ \A u \in Users : spi_place[u] = "closed"
    BY <1>2 DEF SpiRing!Unload, SpiRing!Idle
  <2>2. bound' = FALSE /\ spi_class' = FALSE /\ gpios' = {}
    <3>1. CASE bound
      BY <1>2, <3>1 DEF SpiRing!Unload, SpiRing!ws2812_remove
    <3>2. CASE ~bound
      BY <1>2, <3>2 DEF SpiRing!Unload, SpiRing!TypeOK
    <3> QED
      BY <3>1, <3>2
  <2> QED
    BY <2>1, <2>2
<1> QED
  BY <1>1, <1>2

\* The calls of a process.
LEMMA SpiHeldCalls ==
  ASSUME Careful, SpiRing!Fits, SpiRing!TypeOK, OneOpener, SpiHeld, gpios = SpiPins,
         NEW u \in Users, SpiRing!Calls(u)
  PROVE  SpiHeld' /\ gpios' = SpiPins'
<1> USE DEF SpiRing!device, SpiRing!bus, SpiRing!memory
<1>1. UNCHANGED <<modules, bound, spi_class, gpios>>
  BY DEF SpiRing!Calls, SpiRing!ws2812_open, SpiRing!ws2812_close,
     SpiRing!ws2812_write, SpiRing!bits_encode, SpiRing!ws2812_write_sync,
     SpiRing!ws2812_ioctl
<1>2. SpiPins' = SpiPins
  BY <1>1 DEF SpiPins, SpiRing!Mosi
<1>3. CASE SpiRing!ws2812_open(u)
  <2>1. /\ SpiRing!Goto(u, "closed", "open")
        /\ bound /\ \A v \in Users : spi_place[v] = "closed"
        /\ buffers' = "live" /\ spi_fault' = spi_fault
    BY <1>3 DEF SpiRing!ws2812_open, SpiRing!Idle
  <2>2. \A v \in Users : spi_place'[v] = IF v = u THEN "open" ELSE "closed"
    BY <2>1, SpiMoves
  <2>3. ~SpiRing!Idle'
    BY <2>2 DEF SpiRing!Idle
  <2> QED
    BY <1>1, <1>2, <2>1, <2>3 DEF SpiHeld
<1>4. CASE SpiRing!ws2812_close(u)
  <2>1. SpiRing!Goto(u, "open", "closed") /\ buffers' = "freed" /\ SpiRing!Uses
    BY <1>4 DEF SpiRing!ws2812_close
  <2>2. /\ spi_place[u] = "open"
        /\ \A v \in Users : spi_place'[v] = IF v = u THEN "closed" ELSE spi_place[v]
    BY <2>1, SpiMoves
  <2>3. \A v \in Users : spi_place'[v] = "closed"
    BY <2>2 DEF OneOpener
  <2>4. ~spi_fault'
    BY <2>1, <2>2 DEF SpiHeld, SpiRing!Uses
  <2> QED
    BY <1>1, <1>2, <2>1, <2>3, <2>4 DEF SpiHeld
<1>5. CASE ~SpiRing!ws2812_open(u) /\ ~SpiRing!ws2812_close(u)
  <2>1. /\ spi_place[u] # "closed" /\ buffers' = buffers
        /\ \/ SpiRing!Uses \/ spi_fault' = (spi_fault \/ ~bound)
           \/ \E colours \in Colours :
                spi_fault' = (spi_fault \/ ~bound \/ buffers # "live"
                                \/ Len(colours) > data_buff_size)
        /\ \/ spi_place' = spi_place
           \/ \E from \in {"open", "copied", "encoded"},
                to \in {"open", "copied", "encoded"} : SpiRing!Goto(u, from, to)
    BY <1>5 DEF SpiRing!Calls, SpiRing!ws2812_write, SpiRing!bits_encode,
       SpiRing!ws2812_write_sync, SpiRing!ws2812_ioctl, SpiRing!Goto
  <2>2. /\ spi_place'[u] # "closed"
        /\ \A v \in Users : v # u => spi_place'[v] = spi_place[v]
    <3>1. CASE spi_place' = spi_place
      BY <2>1, <3>1
    <3>2. ASSUME NEW from \in {"open", "copied", "encoded"},
                 NEW to \in {"open", "copied", "encoded"},
                 SpiRing!Goto(u, from, to)
          PROVE  /\ spi_place'[u] # "closed"
                 /\ \A v \in Users : v # u => spi_place'[v] = spi_place[v]
      <4>1. \A v \in Users : spi_place'[v] = IF v = u THEN to ELSE spi_place[v]
        BY <3>2, SpiMoves
      <4> QED
        BY <4>1
    <3> QED
      BY <2>1, <3>1, <3>2
  <2>3. bound /\ buffers = "live" /\ ~spi_fault
    BY <2>1 DEF SpiHeld
  <2>4. ~spi_fault'
    <3>1. \A colours \in Colours : ~(Len(colours) > data_buff_size)
      <4>1. \A colours \in Colours : /\ Len(colours) \in Nat
                                     /\ Len(colours) <= data_buff_size
        BY Assumed, LenProperties DEF SpiRing!Fits
      <4> QED
        BY <4>1, Assumed
    <3> QED
      BY <2>1, <2>3, <3>1 DEF SpiRing!Uses
  <2>5. ~SpiRing!Idle'
    BY <2>2 DEF SpiRing!Idle
  <2> QED
    BY <1>1, <1>2, <2>1, <2>3, <2>4, <2>5 DEF SpiHeld
<1> QED
  BY <1>3, <1>4, <1>5

LEMMA RingInvStep ==
  ASSUME Alone, Careful, SpiRing!Fits, RingTypeOK, Frames, RingInv,
         [RingNext]_<<vars, spi_vars>>
  PROVE  RingInv'
<1> USE DEF RingInv
<1>0. TypeOK /\ SpiRing!TypeOK /\ OneOpener
  BY DEF RingTypeOK, Frames
<1>1. CASE modules = {} /\ Next /\ UNCHANGED spi_vars
  <2>1. ~bound
    BY <1>1 DEF SpiHeld
  <2>2. HeldInv' /\ PinsInv'
    BY <1>0, <1>1, <2>1, HeldStep DEF BoardInv, SpiPins, PinsInv
  <2>3. SpiHeld'
    BY <1>1 DEF SpiHeld, spi_vars, SpiRing!Idle
  <2>4. BoardInv'
    BY <1>1, <2>1, <2>2 DEF BoardInv, SpiPins, PinsInv, spi_vars
  <2> QED
    BY <2>2, <2>3, <2>4
<1>2. CASE driver = "none" /\ SpiRing!Next
             /\ UNCHANGED <<driver, class, counters, hrt, biw, reg_data,
                            place, fault, history>>
  <2>1. Pins = {} /\ Pins' = {}
    BY <1>2 DEF Pins
  <2>2. gpios = SpiPins
    BY <2>1 DEF BoardInv
  <2>3. SpiHeld' /\ gpios' = SpiPins'
    BY <1>0, <1>2, <2>2, SpiHeldModules, SpiHeldCalls
       DEF SpiRing!Next, SpiRing!Loads
  <2>4. HeldInv'
    BY <1>2 DEF HeldInv, Idle
  <2>5. BoardInv'
    BY <1>2, <2>1, <2>3 DEF BoardInv
  <2> QED
    BY <2>3, <2>4, <2>5
<1>3. CASE UNCHANGED <<vars, spi_vars>>
  <2>1. HeldInv' /\ Pins' = Pins
    BY <1>3 DEF HeldInv, Pins, Idle, vars
  <2>2. SpiHeld' /\ SpiPins' = SpiPins
    BY <1>3 DEF SpiHeld, SpiPins, SpiRing!Idle, SpiRing!Mosi, spi_vars
  <2> QED
    BY <1>3, <2>1, <2>2 DEF BoardInv, vars, spi_vars
<1> QED
  BY <1>1, <1>2, <1>3 DEF RingNext

LEMMA RingAlways ==
  ASSUME Alone, Careful, SpiRing!Fits
  PROVE  RingSpec => []RingInv
<1>1. RingInit => RingInv
  BY RingInvInit
<1>2. RingTypeOK /\ Frames /\ RingInv /\ [RingNext]_<<vars, spi_vars>> =>
        RingInv'
  BY RingInvStep
<1> QED
  BY <1>1, <1>2, RingTypeCorrect, FramesAlways, PTL DEF RingSpec

\* With one process, whose writes fit tx_buffer, and drivers that load: no
\* driver of the board leaves a timer running, an interrupted write in
\* possession of what has been unmapped, or a buffer with the wrong file, in
\* whatever order the three are inserted, used and removed.
THEOREM RingIsSafe ==
  ASSUME Alone, Careful, SpiRing!Fits
  PROVE  RingSpec => []RingSafe
<1>1. RingTypeOK /\ RingInv => RingSafe
  <2> SUFFICES ASSUME RingTypeOK, RingInv PROVE RingSafe
    OBVIOUS
  <2> USE DEF RingInv
  <2>1. NothingDangles
    <3>1. SpiPins \cap Columns(12) = {}
      BY PinsDiffer DEF SpiPins
    <3> QED
      BY <3>1, HeldSafe DEF BoardInv
  <2>2. IF bound THEN SpiRing!Mosi \subseteq gpios
                 ELSE SpiRing!Mosi \cap gpios = {}
    BY PinsDiffer DEF BoardInv, SpiPins, Pins
  <2>3. bound = spi_class
    <3>1. bound \in BOOLEAN /\ spi_class \in BOOLEAN
      BY DEF RingTypeOK, SpiRing!TypeOK
    <3> QED
      BY <3>1 DEF SpiHeld
  <2>4. ~SpiRing!Idle => bound /\ buffers = "live"
    BY DEF SpiHeld, SpiRing!Idle
  <2> QED
    BY <2>1, <2>2, <2>3, <2>4 DEF SpiHeld, RingSafe, SpiRing!NothingDangles
<1> QED
  BY <1>1, RingTypeCorrect, RingAlways, PTL

\* When none of the drivers has the board no pin is left requested.
THEOREM BoardIsLeftFree ==
  ASSUME Alone, Careful, SpiRing!Fits
  PROVE  RingSpec => []BoardIsFree
<1>1. RingInv => BoardIsFree
  BY DEF RingInv, BoardInv, Pins, SpiPins, BoardIsFree
<1> QED
  BY <1>1, RingAlways, PTL

-----------------------------------------------------------------------------
\* What BitBang_proofs shows of the bits stays true on a board that is shared:
\* the SPI driver touches none of the counters.
THEOREM RingSendsItsBits == RingSpec => []BitsAccounted /\ CoversTheRing
<1>1. RingInit => Inv
  BY Assumed, InitInv DEF RingInit
<1>2. Inv /\ [RingNext]_<<vars, spi_vars>> => Inv'
  <2> SUFFICES ASSUME Inv, [RingNext]_<<vars, spi_vars>> PROVE Inv'
    OBVIOUS
  <2>1. CASE [Next]_vars
    BY <2>1, Assumed, NextInv
  <2>2. CASE UNCHANGED <<driver, counters, hrt, place, history>>
    BY <2>2 DEF counters, history, Inv, Bounds, OneDriver, HalfBits,
       BitsAccounted, LoopAccounted, Due, Total, Bits, Writing
  <2> QED
    BY <2>1, <2>2 DEF RingNext, vars
<1>3. Inv => BitsAccounted
  BY DEF Inv
<1>4. Inv /\ [RingNext]_<<vars, spi_vars>> =>
        [\A u \in Users : place[u] = "loop" /\ place'[u] = "open" =>
           sent' = LEDs * Bits]_vars
  <2> SUFFICES ASSUME Inv, [RingNext]_<<vars, spi_vars>>, NEW u \in Users,
                      place[u] = "loop", place'[u] = "open"
               PROVE  sent' = LEDs * Bits
    OBVIOUS
  <2>1. [Next]_vars
    BY DEF RingNext, vars
  <2> QED
    BY <2>1, Assumed, OnlyLastTurn
<1> QED
  BY <1>1, <1>2, <1>3, <1>4, PTL DEF RingSpec, CoversTheRing
===============================================================================
