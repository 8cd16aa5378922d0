---------------------------- MODULE BitBang_proofs ----------------------------
(***************************************************************************)
(* Theorems about BitBang: both drivers send the bits they should, for     *)
(* every number of LEDs and of bits and every number of processes.         *)
(***************************************************************************)
EXTENDS BitBang, PinMux_proofs

Total == LEDs * Bits

\* What the loop of bbang_ndelay.c has sent, were the ring without end: one
\* bit of each LED is left out, of the first one as of the last one too many.
Due == (Bits - 1) * led_count + i

Bounds ==
  /\ led_count \in 0 .. LEDs
  /\ sent \in 0 .. Total
  /\ done \in BOOLEAN
  /\ skipped \in 0 .. LEDs
  /\ place \in [Users -> {"closed", "open", "loop"} \cup Writing]

\* Only the driver that is loaded uses the counters, and one loop at a time.
OneDriver ==
  /\ hrt = "queued" \/ upright => driver = "hrtimer"
  /\ \A u \in Users : place[u] \in Writing => driver = "hrtimer"
  /\ \A u \in Users : place[u] = "loop" => driver = "ndelay"
  /\ \A u, v \in Users : place[u] = "loop" /\ place[v] = "loop" => u = v

\* Lowering the pin sends a bit, as it has been raised.
HalfBits ==
  upright => /\ led_count # LEDs => c \in 1 .. 2 * Bits
             /\ done => high

LoopAccounted ==
  \A u \in Users : place[u] = "loop" =>
    /\ i \in 0 .. Bits - 1
    /\ sent = Due \/ (sent = Total /\ Due >= sent)

Inv == Bounds /\ OneDriver /\ HalfBits /\ BitsAccounted /\ LoopAccounted

-----------------------------------------------------------------------------
(* Arithmetic *)

\* A further LED has as many bits as each of the others.
LEMMA OneMore ==
  ASSUME NEW k \in Nat, NEW n \in Nat
  PROVE  k * n \in Nat /\ k * (n + 1) = k * n + k
OBVIOUS

\* Fewer LEDs lack the bits of one at least.
LEMMA OneLess ==
  ASSUME NEW k \in Nat, NEW n \in Nat, NEW m \in Nat, n < m
  PROVE  k * n + k <= k * m
<1> DEFINE d == m - n - 1
<1>1. d \in Nat /\ m = (n + 1) + d
  OBVIOUS
<1>2. k * m = (k * n + k) + k * d
  BY <1>1
<1>3. k * d \in Nat /\ k * n \in Nat
  BY <1>1, OneMore
<1> QED
  BY <1>2, <1>3

LEMMA Sizes ==
  ASSUME BitBangAssumption
  PROVE  /\ LEDs \in Nat \ {0} /\ Bits \in Nat \ {0}
         /\ LEDs <= Bits /\ 3 <= Bits
         /\ Total \in Nat /\ Bits <= Total
<1>1. LEDs \in Nat \ {0} /\ Bits \in Nat \ {0} /\ LEDs <= Bits /\ 3 <= Bits
  <2>1. LEDs \in Nat \ {0} /\ Width \in Nat \ {0} /\ LEDs <= 3 * Width
    BY Zenon DEF BitBangAssumption
  <2> QED
    BY <2>1 DEF Bits
<1>2. Bits * 0 + Bits <= Bits * LEDs
  BY <1>1, OneLess
<1>3. Total = Bits * LEDs /\ Bits * LEDs \in Nat
  BY <1>1, OneMore DEF Total
<1> QED
  BY <1>1, <1>2, <1>3

-----------------------------------------------------------------------------
(* Initial states *)

LEMMA InitInv ==
  ASSUME BitBangAssumption, Init
  PROVE  Inv
<1>1. Bounds
  <2>1. 0 \in 0 .. LEDs /\ 0 \in 0 .. Total
    BY Sizes
  <2> QED
    BY <2>1 DEF Init, Bounds, Writing
<1>2. OneDriver /\ HalfBits /\ BitsAccounted /\ LoopAccounted
  BY DEF Init, OneDriver, HalfBits, BitsAccounted, LoopAccounted, Writing
<1> QED
  BY <1>1, <1>2 DEF Inv

-----------------------------------------------------------------------------
(* The loading and removal of a driver *)

LEMMA LoadInv ==
  ASSUME BitBangAssumption, Inv,
         NEW d \in {"hrtimer", "ndelay"}, NEW result \in Results,
         hrt_driver_init(d, result)
  PROVE  Inv'
<1>1. ~upright /\ \A u \in Users : place[u] # "loop"
  BY DEF Inv, OneDriver, hrt_driver_init
<1> QED
  BY <1>1 DEF Inv, Bounds, OneDriver, HalfBits, BitsAccounted, LoopAccounted,
       Total, Bits, BitBangAssumption, hrt_driver_init, history

LEMMA ExitInv ==
  ASSUME BitBangAssumption, Inv, hrt_driver_exit
  PROVE  Inv'
<1>1. Bounds'
  <2>1. 0 \in 0 .. LEDs /\ 0 \in 0 .. Total
    BY Sizes
  <2> QED
    BY <2>1 DEF Inv, Bounds, hrt_driver_exit, Total, Bits
<1>2. /\ hrt' # "queued" /\ ~upright'
      /\ \A u \in Users : place'[u] # "loop" /\ place'[u] \notin Writing
  BY DEF hrt_driver_exit, Idle, Writing
<1>3. OneDriver' /\ HalfBits' /\ BitsAccounted' /\ LoopAccounted'
  BY <1>2 DEF OneDriver, HalfBits, BitsAccounted, LoopAccounted
<1> QED
  BY <1>1, <1>3 DEF Inv

-----------------------------------------------------------------------------
(* The device file of bbang_hrtimer.c *)

\* Steps that only move a process, or start or stop the timer.
LEMMA QuietInv ==
  ASSUME BitBangAssumption, Inv, NEW u \in Users,
         \/ hrt_open(u) \/ hrt_close(u)
         \/ hrt_write(u) \/ StartTimer(u)
         \/ hrt_write_returns(u) \/ Interrupted(u)
         \/ ndelay_open(u) \/ ndelay_close(u)
  PROVE  Inv'
<1> USE DEF Goto, counters, history, device
<1>1. /\ driver' = driver /\ UNCHANGED <<led_count, sent, i>>
      /\ done' = done /\ high' = high /\ skipped' = skipped
      /\ upright' => upright /\ c' = c
      /\ hrt' = "queued" => hrt = "queued" \/ place[u] = "filled"
  BY DEF hrt_open, hrt_close, hrt_write, StartTimer, hrt_write_returns,
         Interrupted, ndelay_open, ndelay_close
<1>2. \E to \in {"open", "closed", "begun", "waiting"} :
        /\ place' = [place EXCEPT ![u] = to]
        /\ to \in {"begun", "waiting"} => driver = "hrtimer"
  <2>1. CASE StartTimer(u)
    <3>1. driver = "hrtimer"
      BY <2>1 DEF StartTimer, Inv, OneDriver, Writing
    <3> QED
      BY <2>1, <3>1 DEF StartTimer
  <2>2. CASE ~StartTimer(u)
    BY <2>2 DEF hrt_open, hrt_close, hrt_write, hrt_write_returns,
         Interrupted, ndelay_open, ndelay_close
  <2> QED
    BY <2>1, <2>2
<1>3. Bounds'
  BY <1>1, <1>2 DEF Inv, Bounds, Total, Bits, Writing
<1>4. \A v \in Users : /\ place'[v] = "loop" => place[v] = "loop"
                       /\ place'[v] \in Writing => driver = "hrtimer"
  BY <1>2 DEF Inv, Bounds, OneDriver, Writing
<1>5. OneDriver' /\ HalfBits'
  <2>1. hrt' = "queued" \/ upright' => driver = "hrtimer"
    BY <1>1 DEF Inv, OneDriver, Writing
  <2> QED
    BY <1>1, <1>4, <2>1 DEF Inv, OneDriver, HalfBits, Bits, Writing
<1>6. BitsAccounted'
  BY <1>1 DEF Inv, BitsAccounted, Bits
<1>7. LoopAccounted'
  BY <1>1, <1>4 DEF Inv, LoopAccounted, Due, Total, Bits
<1> QED
  BY <1>3, <1>5, <1>6, <1>7 DEF Inv

\* A process that is writing moves on; no loop is under way.
LEMMA WriterMoves ==
  ASSUME Inv, NEW u \in Users, NEW from \in Writing, NEW to \in Writing,
         Goto(u, from, to)
  PROVE  /\ driver = "hrtimer"
         /\ place' \in [Users -> {"closed", "open", "loop"} \cup Writing]
         /\ \A v \in Users : place[v] # "loop" /\ place'[v] # "loop"
<1>1. driver = "hrtimer"
  BY DEF Inv, OneDriver, Goto
<1>2. \A v \in Users : place[v] # "loop"
  BY <1>1 DEF Inv, OneDriver
<1>3. place' = [place EXCEPT ![u] = to] /\ to # "loop"
  BY DEF Goto, Writing
<1> QED
  BY <1>1, <1>2, <1>3 DEF Inv, Bounds

LEMMA ResetLedInv ==
  ASSUME BitBangAssumption, Inv, NEW u \in Users, ResetLed(u)
  PROVE  Inv'
<1>1. /\ driver = "hrtimer"
      /\ place' \in [Users -> {"closed", "open", "loop"} \cup Writing]
      /\ \A v \in Users : place[v] # "loop" /\ place'[v] # "loop"
  BY WriterMoves DEF ResetLed, Writing
<1>2. /\ led_count' = 0 /\ ~upright' /\ driver' = driver
      /\ UNCHANGED <<sent, done, skipped>>
  BY DEF ResetLed, device
<1>3. Bounds'
  BY <1>1, <1>2, Sizes DEF Inv, Bounds, Total, Bits, Writing
<1> QED
  BY <1>1, <1>2, <1>3
     DEF Inv, OneDriver, HalfBits, BitsAccounted, LoopAccounted

\* From here the bits count: nothing is sent, and all half bits are left of
\* the LED that led_count is at, be it the first or not.
LEMMA ResetCountInv ==
  ASSUME BitBangAssumption, Inv, NEW u \in Users, ResetCount(u)
  PROVE  Inv'
<1>1. /\ driver = "hrtimer"
      /\ place' \in [Users -> {"closed", "open", "loop"} \cup Writing]
      /\ \A v \in Users : place[v] # "loop" /\ place'[v] # "loop"
  BY WriterMoves DEF ResetCount, Writing
<1>2. /\ UNCHANGED <<led_count, done, driver>>
      /\ c' = 2 * Bits /\ sent' = 0 /\ upright' = ~done
      /\ skipped' = led_count
  BY DEF ResetCount, device
<1>3. Bounds'
  BY <1>1, <1>2, Sizes DEF Inv, Bounds, Total, Bits, Writing
<1>4. OneDriver' /\ LoopAccounted'
  BY <1>1, <1>2 DEF OneDriver, LoopAccounted
<1>5. HalfBits'
  <2>1. 2 * Bits \in 1 .. 2 * Bits
    BY Sizes
  <2>2. upright' => ~done'
    BY <1>2
  <2> QED
    BY <1>2, <2>1, <2>2 DEF HalfBits, Bits
<1>6. BitsAccounted'
  <2>1. Bits \in Nat /\ led_count \in Nat /\ Bits * led_count \in Nat
    BY Sizes, OneMore DEF Inv, Bounds
  <2>2. 2 * (0 + Bits * led_count) + 0
          = 2 * (Bits * led_count) + (2 * Bits - 2 * Bits)
        /\ 0 + Bits * led_count >= Bits * led_count
    BY <2>1
  <2>3. upright' => (IF done' THEN 1 ELSE 0) = 0
    <3>1. CASE done = TRUE
      BY <1>2, <3>1
    <3>2. CASE done = FALSE
      BY <1>2, <3>2
    <3> QED
      BY <3>1, <3>2 DEF Inv, Bounds
  <2> QED
    BY <1>2, <2>2, <2>3 DEF BitsAccounted, Bits
<1> QED
  BY <1>3, <1>4, <1>5, <1>6 DEF Inv

LEMMA FillInv ==
  ASSUME BitBangAssumption, Inv, NEW u \in Users, Fill(u)
  PROVE  Inv'
<1>1. /\ driver = "hrtimer"
      /\ place' \in [Users -> {"closed", "open", "loop"} \cup Writing]
      /\ \A v \in Users : place[v] # "loop" /\ place'[v] # "loop"
  <2>1. CASE Goto(u, "filling", "filled")
    BY <2>1, WriterMoves DEF Writing
  <2>2. CASE place[u] = "filling" /\ place' = place
    BY <2>2 DEF Inv, Bounds, OneDriver, Writing
  <2> QED
    BY <2>1, <2>2 DEF Fill
<1>2. UNCHANGED <<driver, led_count, c, done, high, sent, upright, skipped>>
  BY DEF Fill, device, history
<1>3. Bounds'
  BY <1>1, <1>2 DEF Inv, Bounds, Total, Bits, Writing
<1> QED
  BY <1>1, <1>2, <1>3
     DEF Inv, OneDriver, HalfBits, BitsAccounted, LoopAccounted, Bits

-----------------------------------------------------------------------------
(* The callback of bbang_hrtimer.c *)

\* The bits of the message that are sent or, before c was set, were skipped.
Given == sent + Bits * skipped

\* How many of them are left when so many half bits are.
LEMMA Equation ==
  ASSUME BitBangAssumption, Inv, upright
  PROVE  /\ sent \in Nat /\ Given \in Nat /\ sent <= Given
         /\ IF led_count = LEDs
              THEN Given >= Total
              ELSE /\ c \in 1 .. 2 * Bits
                   /\ 2 * Given + (IF done THEN 1 ELSE 0)
                        = 2 * (Bits * led_count) + (2 * Bits - c)
                   /\ sent < Total
<1>1. Total = Bits * LEDs /\ Total \in Nat
  BY Sizes DEF Total
<1>2. sent \in Nat /\ Given \in Nat /\ sent <= Given
  <2>1. Bits * skipped \in Nat /\ sent \in Nat
    <3>1. Bits \in Nat /\ skipped \in Nat /\ sent \in Nat
      BY Sizes DEF Inv, Bounds
    <3> QED
      BY <3>1, OneMore
  <2> HIDE DEF Bits
  <2> QED
    BY <2>1 DEF Given
<1>3. CASE led_count = LEDs
  BY <1>1, <1>2, <1>3 DEF Inv, BitsAccounted, Given
<1>4. CASE led_count # LEDs
  <2>1. c \in 1 .. 2 * Bits
    BY <1>4 DEF Inv, HalfBits
  <2>2. 2 * Given + (IF done THEN 1 ELSE 0)
          = 2 * (Bits * led_count) + (2 * Bits - c)
    BY <1>4 DEF Inv, BitsAccounted, Given
  <2>3. Bits * led_count + Bits <= Bits * LEDs
        /\ Bits * led_count \in Nat
    <3>1. led_count \in Nat /\ LEDs \in Nat /\ Bits \in Nat /\ led_count < LEDs
      BY <1>4, Sizes DEF Inv, Bounds
    <3> QED
      BY <3>1, OneLess, OneMore
  <2>4. sent < Total
    <3>1. Bits \in Nat
      BY Sizes
    <3> HIDE DEF Total, Bits, Given
    <3>2. 2 * Given <= 2 * (Bits * led_count) + (2 * Bits - c)
      BY <1>2, <2>1, <2>2, <2>3, <3>1
    <3> QED
      BY <1>1, <1>2, <3>1, <3>2, <2>1, <2>3
  <2> QED
    BY <1>2, <1>4, <2>1, <2>2, <2>4
<1> QED
  BY <1>3, <1>4

LEMMA RaiseInv ==
  ASSUME BitBangAssumption, Inv, my_hrtimer_callback, c # 0, ~done
  PROVE  Inv'
<1>1. /\ hrt = "queued" /\ hrt' = hrt /\ driver' = driver /\ place' = place
      /\ done' = TRUE /\ high' = TRUE /\ c' = c - 1 /\ upright' = upright
      /\ UNCHANGED <<led_count, sent, i, skipped>>
  BY DEF my_hrtimer_callback, Raise, device
<1>2. Bounds' /\ OneDriver' /\ LoopAccounted'
  BY <1>1 DEF Inv, Bounds, OneDriver, LoopAccounted, Due, Total, Bits, Writing
<1>3. Given' = Given
  BY <1>1 DEF Given, Bits
<1>4. ASSUME upright, led_count # LEDs
      PROVE  /\ c' \in 1 .. 2 * Bits
             /\ 2 * Given' + 1 = 2 * (Bits * led_count) + (2 * Bits - c')
  <2>1. /\ c \in 1 .. 2 * Bits /\ Given \in Nat
        /\ 2 * Given + 0 = 2 * (Bits * led_count) + (2 * Bits - c)
    <3>1. (IF done THEN 1 ELSE 0) = 0
      OBVIOUS
    <3> QED
      BY <1>4, <3>1, Equation
  <2>2. Bits * led_count \in Nat /\ Bits \in Nat
    BY Sizes, OneMore DEF Inv, Bounds
  <2> HIDE DEF Bits, Given
  <2>3. c # 1
    BY <2>1, <2>2
  <2>4. c' \in 1 .. 2 * Bits
    BY <1>1, <2>1, <2>2, <2>3
  <2>5. 2 * Given + 1 = 2 * (Bits * led_count) + (2 * Bits - (c - 1))
    BY <2>1, <2>2
  <2> QED
    BY <1>1, <1>3, <2>4, <2>5
<1>5. HalfBits'
  BY <1>1, <1>4 DEF HalfBits, Bits
<1>6. BitsAccounted'
  <2>1. CASE led_count = LEDs
    BY <1>1, <2>1 DEF Inv, BitsAccounted, Bits
  <2>2. CASE led_count # LEDs
    BY <1>1, <1>4, <2>2 DEF BitsAccounted, Bits, Given
  <2> QED
    BY <2>1, <2>2
<1> QED
  BY <1>2, <1>5, <1>6 DEF Inv

\* The second half of a bit sends it; the last half bit of an LED goes on to
\* the next LED.
LEMMA LowerInv ==
  ASSUME BitBangAssumption, Inv, my_hrtimer_callback, c # 0, done
  PROVE  Inv'
<1>1. /\ hrt = "queued" /\ hrt' = hrt /\ driver' = driver /\ place' = place
      /\ done' = FALSE /\ upright' = upright /\ i' = i /\ skipped' = skipped
  BY DEF my_hrtimer_callback, Lower, device
<1>2. /\ led_count < LEDs /\ c = 1 => led_count' = led_count + 1 /\ c' = 2 * Bits
      /\ led_count < LEDs /\ c # 1 => led_count' = led_count /\ c' = c - 1
      /\ ~(led_count < LEDs) => led_count' = led_count
  BY DEF my_hrtimer_callback, Lower
<1>3. /\ led_count \in Nat /\ LEDs \in Nat
      /\ led_count # LEDs <=> led_count < LEDs
  BY Sizes DEF Inv, Bounds
<1>4. /\ sent' \in 0 .. Total /\ sent' >= sent
      /\ upright /\ sent < Total => sent' = sent + 1
  <2>1. high \/ ~upright
    BY DEF Inv, HalfBits
  <2>2. sent \in 0 .. Total /\ Total \in Nat
    BY Sizes DEF Inv, Bounds
  <2>3. IF high THEN sent' = IF sent < Total THEN sent + 1 ELSE sent
                ELSE sent' = sent
    BY DEF my_hrtimer_callback, Lower, Record, Total
  <2> HIDE DEF Total
  <2> QED
    BY <2>1, <2>2, <2>3
<1>5. led_count' \in 0 .. LEDs
  BY <1>2, Sizes DEF Inv, Bounds
<1>6. Bounds'
  BY <1>1, <1>4, <1>5 DEF Inv, Bounds, Total, Bits, Writing
<1>7. OneDriver' /\ LoopAccounted'
  BY <1>1 DEF Inv, OneDriver, LoopAccounted, Writing
<1>8. CASE upright /\ led_count = LEDs
  <2>1. led_count' = LEDs
    BY <1>2, <1>3, <1>8
  <2>2. Given' >= Bits * LEDs
    <3>1. Given >= Total /\ Total = Bits * LEDs /\ Total \in Nat
      BY <1>8, Equation, Sizes DEF Total
    <3>2. Bits * skipped \in Nat /\ sent \in Nat /\ sent' \in Nat
      <4>1. Bits \in Nat /\ skipped \in Nat /\ Total \in Nat
        BY Sizes DEF Inv, Bounds
      <4> QED
        BY <1>4, <4>1, OneMore DEF Inv, Bounds
    <3>3. Given' = sent' + Bits * skipped
      BY <1>1 DEF Given, Bits
    <3> HIDE DEF Bits, Total
    <3> QED
      BY <1>4, <3>1, <3>2, <3>3 DEF Given
  <2> QED
    BY <1>1, <1>6, <1>7, <2>1, <2>2
       DEF Inv, HalfBits, BitsAccounted, Bits, Given
<1>9. CASE upright /\ led_count # LEDs
  <2>1. /\ c \in 1 .. 2 * Bits /\ sent \in Nat /\ Given \in Nat
        /\ 2 * Given + 1 = 2 * (Bits * led_count) + (2 * Bits - c)
        /\ sent < Total
    <3>1. (IF done THEN 1 ELSE 0) = 1
      OBVIOUS
    <3> QED
      BY <1>9, <3>1, Equation
  <2>2. Given' = Given + 1
    <3>1. sent' = sent + 1 /\ Given' = sent' + Bits * skipped
      BY <1>1, <1>4, <1>9, <2>1 DEF Given, Bits
    <3>2. Bits * skipped \in Nat
      <4>1. Bits \in Nat /\ skipped \in Nat
        BY Sizes DEF Inv, Bounds
      <4> QED
        BY <4>1, OneMore
    <3> HIDE DEF Bits
    <3> QED
      BY <2>1, <3>1, <3>2 DEF Given
  <2>3. /\ led_count \in Nat /\ Bits \in Nat \ {0}
        /\ Bits * led_count \in Nat
        /\ Bits * (led_count + 1) = Bits * led_count + Bits
    BY Sizes, OneMore DEF Inv, Bounds
  <2>4. CASE c = 1
    <3>1. led_count' = led_count + 1 /\ c' = 2 * Bits
      BY <1>2, <1>3, <1>9, <2>4
    <3>2. Given' = Bits * led_count' /\ Given' \in Nat
      <4> HIDE DEF Bits, Given
      <4> QED BY <2>1, <2>2, <2>3, <2>4, <3>1
    <3>3. HalfBits'
      BY <1>1, <2>3, <3>1 DEF HalfBits, Bits
    <3>4. BitsAccounted'
      <4>1. /\ Given' >= Bits * led_count'
            /\ 2 * Given' + 0 = 2 * (Bits * led_count') + (2 * Bits - c')
        <5> HIDE DEF Bits, Given
        <5> QED BY <2>3, <3>1, <3>2
      <4> QED
        BY <1>1, <4>1 DEF BitsAccounted, Bits, Given
    <3> QED
      BY <1>6, <1>7, <3>3, <3>4 DEF Inv
  <2>5. CASE c # 1
    <3>1. led_count' = led_count /\ c' = c - 1
      BY <1>2, <1>3, <1>9, <2>5
    <3>2. HalfBits'
      BY <1>1, <2>1, <2>3, <2>5, <3>1 DEF HalfBits, Bits
    <3>3. 2 * Given' + 0 = 2 * (Bits * led_count') + (2 * Bits - c')
      <4> HIDE DEF Bits, Given
      <4> QED BY <2>1, <2>2, <2>3, <3>1
    <3>4. BitsAccounted'
      BY <1>1, <1>9, <3>1, <3>3 DEF BitsAccounted, Bits, Given
    <3> QED
      BY <1>6, <1>7, <3>2, <3>4 DEF Inv
  <2> QED
    BY <2>4, <2>5
<1>10. CASE ~upright
  BY <1>1, <1>6, <1>7, <1>10 DEF Inv, HalfBits, BitsAccounted
<1> QED
  BY <1>8, <1>9, <1>10

\* The callback that finds no half bit left stops the timer.
LEMMA StopInv ==
  ASSUME BitBangAssumption, Inv, my_hrtimer_callback, c = 0
  PROVE  Inv'
<1>1. /\ hrt = "queued" /\ hrt' = "idle" /\ driver' = driver
      /\ UNCHANGED <<led_count, sent, i, done, high, upright, skipped, place>>
  BY DEF my_hrtimer_callback, device
<1>2. upright => led_count = LEDs
  BY Sizes DEF Inv, HalfBits
<1>3. HalfBits' /\ BitsAccounted'
  BY <1>1, <1>2 DEF Inv, HalfBits, BitsAccounted, Bits
<1> QED
  BY <1>1, <1>3 DEF Inv, Bounds, OneDriver, LoopAccounted, Due, Total, Bits,
       Writing

LEMMA CallbackInv ==
  ASSUME BitBangAssumption, Inv, my_hrtimer_callback
  PROVE  Inv'
BY RaiseInv, LowerInv, StopInv

-----------------------------------------------------------------------------
(* The loop of bbang_ndelay.c *)

LEMMA LoopBeginsInv ==
  ASSUME BitBangAssumption, Inv, NEW u \in Users, ndelay_write(u)
  PROVE  Inv'
<1>1. /\ driver = "ndelay" /\ driver' = driver /\ hrt' = hrt
      /\ place' = [place EXCEPT ![u] = "loop"]
      /\ led_count' = 0 /\ i' = 0 /\ sent' = 0 /\ done' = done
      /\ skipped' = skipped
      /\ \A v \in Users : place[v] # "loop"
  BY DEF ndelay_write, Goto, device
<1>2. 0 \in 0 .. LEDs /\ 0 \in 0 .. Total /\ 0 \in 0 .. Bits - 1
      /\ (Bits - 1) * 0 + 0 = 0
  BY Sizes
<1>3. Bounds'
  BY <1>1, <1>2 DEF Inv, Bounds, Total, Bits
<1>4. hrt' # "queued" /\ ~upright'
  BY DEF Inv, OneDriver, ndelay_write
<1>5. OneDriver' /\ HalfBits' /\ BitsAccounted'
  BY <1>1, <1>4 DEF Inv, Bounds, OneDriver, HalfBits, BitsAccounted, Writing
<1>6. LoopAccounted'
  BY <1>1, <1>2 DEF LoopAccounted, Due, Total, Bits
<1> QED
  BY <1>3, <1>5, <1>6 DEF Inv

\* The bit that a turn of the loop sends is the last one due: either the ring
\* has them all already, or the ones before have been sent.
LEMMA BitIsDue ==
  ASSUME BitBangAssumption, Inv, NEW u \in Users, SendBit(u)
  PROVE  /\ i \in 0 .. Bits - 1
         /\ Due \in Nat
         /\ \/ sent' = Due + 1
            \/ sent' = Total /\ Due + 1 >= Total
<1>1. i \in 0 .. Bits - 1 /\ (sent = Due \/ (sent = Total /\ Due >= sent))
  BY DEF SendBit, Inv, LoopAccounted
<1>2. Total \in Nat /\ sent \in 0 .. Total
      /\ Bits - 1 \in Nat /\ led_count \in Nat /\ i \in Nat
  BY <1>1, Sizes DEF Inv, Bounds
<1>3. Due \in Nat
  <2>1. (Bits - 1) * led_count \in Nat
    BY <1>2, OneMore
  <2> QED
    BY <1>2, <2>1 DEF Due
<1>4. sent' = IF sent < Total THEN sent + 1 ELSE sent
  BY DEF SendBit, Record, Total
<1> HIDE DEF Total, Due
<1> QED
  BY <1>1, <1>2, <1>3, <1>4

\* A turn that is not the last leaves another bit due.
LEMMA TurnInv ==
  ASSUME BitBangAssumption, Inv, NEW u \in Users, SendBit(u),
         i # Bits - 1 \/ led_count < LEDs
  PROVE  Inv'
<1>1. /\ place[u] = "loop" /\ driver' = driver /\ hrt' = hrt
      /\ done' = done /\ place' = place /\ UNCHANGED <<upright, skipped>>
      /\ IF i = Bits - 1 THEN led_count' = led_count + 1 /\ i' = 1
                         ELSE led_count' = led_count /\ i' = i + 1
  BY DEF SendBit, device
<1>2. /\ LEDs \in Nat /\ Bits \in Nat /\ 3 <= Bits /\ Total \in Nat
      /\ led_count \in 0 .. LEDs /\ sent \in 0 .. Total
      /\ i \in 0 .. Bits - 1
  BY Sizes, BitIsDue DEF Inv, Bounds
<1>3. led_count' \in 0 .. LEDs /\ i' \in 0 .. Bits - 1
  BY <1>1, <1>2
<1>4. Due' = Due + 1
  <2>1. CASE i = Bits - 1
    <3>1. (Bits - 1) * (led_count + 1) = (Bits - 1) * led_count + (Bits - 1)
          /\ (Bits - 1) * led_count \in Nat
      BY <1>2, OneMore
    <3>2. Due' = (Bits - 1) * (led_count + 1) + 1
          /\ Due = (Bits - 1) * led_count + (Bits - 1)
      BY <1>1, <2>1 DEF Due, Bits
    <3> QED
      BY <1>2, <3>1, <3>2
  <2>2. CASE i # Bits - 1
    <3>1. (Bits - 1) * led_count \in Nat
      BY <1>2, OneMore
    <3>2. Due' = (Bits - 1) * led_count + (i + 1)
          /\ Due = (Bits - 1) * led_count + i
      BY <1>1, <2>2 DEF Due, Bits
    <3> QED
      BY <1>2, <3>1, <3>2
  <2> QED
    BY <2>1, <2>2
<1>5. sent' \in 0 .. Total
  BY <1>2 DEF SendBit, Record, Total
<1>6. Bounds'
  BY <1>1, <1>3, <1>5 DEF Inv, Bounds, Total, Bits
<1>7. hrt' # "queued" /\ ~upright'
  BY <1>1 DEF Inv, OneDriver
<1>8. OneDriver' /\ HalfBits' /\ BitsAccounted'
  BY <1>1, <1>7 DEF Inv, OneDriver, HalfBits, BitsAccounted, Writing
<1>9. LoopAccounted'
  <2>1. sent' = Due' \/ (sent' = Total /\ Due' >= sent')
    BY <1>4, BitIsDue
  <2> QED
    BY <1>3, <2>1 DEF LoopAccounted, Total, Bits
<1> QED
  BY <1>6, <1>8, <1>9 DEF Inv

\* The turn that is the last sends the last bit of the ring, if it is not sent.
LEMMA LastTurnSent ==
  ASSUME BitBangAssumption, Inv, NEW u \in Users, SendBit(u),
         i = Bits - 1, ~(led_count < LEDs)
  PROVE  sent' = Total
<1>1. /\ LEDs \in Nat /\ Bits \in Nat /\ LEDs <= Bits /\ 3 <= Bits
      /\ led_count = LEDs /\ Total \in Nat
      /\ sent \in 0 .. Total
  BY Sizes DEF Inv, Bounds
<1>2. (Bits - 1) * LEDs + LEDs = Total
  <2>1. LEDs * ((Bits - 1) + 1) = LEDs * (Bits - 1) + LEDs
    BY <1>1, OneMore
  <2>2. (Bits - 1) * LEDs = LEDs * (Bits - 1) /\ (Bits - 1) + 1 = Bits
    BY <1>1
  <2> QED
    BY <2>1, <2>2 DEF Total
<1>3. (Bits - 1) * LEDs \in Nat
  BY <1>1, OneMore
<1>4. Due + 1 >= Total
  BY <1>1, <1>2, <1>3 DEF Due
<1>5. sent' <= Total
  BY <1>1 DEF SendBit, Record, Total
<1> HIDE DEF Total, Due
<1> QED
  BY <1>1, <1>4, <1>5, BitIsDue

LEMMA LastTurnInv ==
  ASSUME BitBangAssumption, Inv, NEW u \in Users, SendBit(u),
         i = Bits - 1, ~(led_count < LEDs)
  PROVE  Inv'
<1>1. /\ place[u] = "loop" /\ driver' = driver /\ hrt' = hrt
      /\ done' = done /\ place' = [place EXCEPT ![u] = "open"]
      /\ UNCHANGED <<upright, skipped>>
      /\ led_count' = led_count
  BY DEF SendBit, device, Goto
<1>2. sent' \in 0 .. Total
  BY Sizes, LastTurnSent
<1>3. Bounds'
  BY <1>1, <1>2 DEF Inv, Bounds, Total, Bits
<1>4. /\ hrt' # "queued" /\ ~upright'
      /\ \A v \in Users : place'[v] # "loop" /\ place'[v] \notin Writing
  BY <1>1 DEF Inv, OneDriver, Bounds, Writing
<1> QED
  BY <1>1, <1>3, <1>4
     DEF Inv, OneDriver, HalfBits, BitsAccounted, LoopAccounted

-----------------------------------------------------------------------------
(* Every step *)

LEMMA NextInv ==
  ASSUME BitBangAssumption, Inv, [Next]_vars
  PROVE  Inv'
<1>1. CASE Loads
  BY <1>1, LoadInv DEF Loads
<1>2. CASE hrt_driver_exit
  BY <1>2, ExitInv
<1>3. ASSUME NEW u \in Users, Calls(u) PROVE Inv'
  BY <1>3, QuietInv, ResetLedInv, ResetCountInv, FillInv, LoopBeginsInv
     DEF Calls
<1>4. ASSUME NEW u \in Users, SendBit(u) PROVE Inv'
  BY <1>4, TurnInv, LastTurnInv
<1>5. CASE my_hrtimer_callback
  BY <1>5, CallbackInv
<1>6. CASE UNCHANGED vars
  BY <1>6 DEF vars, Inv, Bounds, OneDriver, HalfBits, BitsAccounted,
       LoopAccounted, Due, Total, Bits, Writing
<1> QED
  BY <1>1, <1>2, <1>3, <1>4, <1>5, <1>6 DEF Next

LEMMA Invariance ==
  ASSUME BitBangAssumption
  PROVE  Spec => []Inv
<1>1. Init => Inv
  BY InitInv
<1>2. Inv /\ [Next]_vars => Inv'
  BY NextInv
<1> QED
  BY <1>1, <1>2, PTL DEF Spec

-----------------------------------------------------------------------------
(* The theorems *)

\* The state machine of my_hrtimer_callback, which counts half bits and LEDs
\* in two counters, neither skips nor repeats a half bit after write has set
\* its count, if the first half of a bit was due then and until a close clears
\* the count: for every number of LEDs, of bits and of processes. What the
\* timer of an interrupted write took before that is skipped, and counted so.
THEOREM BitsAreAccounted ==
  ASSUME BitBangAssumption
  PROVE  Spec => []BitsAccounted
<1>1. Inv => BitsAccounted
  BY DEF Inv
<1> QED
  BY <1>1, Invariance, PTL

\* Only the last turn of the loop lets a process leave it.
LEMMA OnlyLastTurn ==
  ASSUME BitBangAssumption, Inv, [Next]_vars, NEW u \in Users,
         place[u] = "loop", place'[u] = "open"
  PROVE  sent' = LEDs * Bits
<1> USE DEF Inv, Bounds
<1>1. CASE Loads \/ hrt_driver_exit \/ my_hrtimer_callback \/ UNCHANGED vars
  BY <1>1 DEF Loads, hrt_driver_init, hrt_driver_exit, my_hrtimer_callback,
       device, vars
<1>2. ASSUME NEW v \in Users, Calls(v) PROVE FALSE
  <2>1. place[v] # "loop"
        /\ \/ place' = place
           \/ \E to \in {"closed", "open", "loop"} \cup Writing :
                place' = [place EXCEPT ![v] = to]
    BY <1>2 DEF Calls, Goto, hrt_open, hrt_close, hrt_write, ResetLed,
         ResetCount, Fill, StartTimer, hrt_write_returns, Interrupted,
         ndelay_open, ndelay_close, ndelay_write, Writing
  <2> QED
    BY <2>1
<1>3. ASSUME NEW v \in Users, SendBit(v) PROVE sent' = LEDs * Bits
  <2>1. place[v] = "loop"
    BY <1>3 DEF SendBit
  <2>2. u = v
    BY <2>1 DEF OneDriver
  <2>3. i = Bits - 1 /\ ~(led_count < LEDs)
    BY <1>3, <2>2 DEF SendBit
  <2> QED
    BY <1>3, <2>3, LastTurnSent DEF Total
<1> QED
  BY <1>1, <1>2, <1>3 DEF Next

\* The loop of bbang_ndelay.c gives the ring a bit for each place it has, for
\* every ring with no more LEDs than a pixel has bits: it loses a bit of each
\* LED and makes up for it with one LED too many.
THEOREM LoopCoversTheRing ==
  ASSUME BitBangAssumption
  PROVE  Spec => CoversTheRing
<1>1. Inv /\ [Next]_vars =>
        [\A u \in Users : place[u] = "loop" /\ place'[u] = "open" =>
           sent' = LEDs * Bits]_vars
  BY OnlyLastTurn
<1> QED
  BY <1>1, Invariance, PTL DEF Spec, CoversTheRing

-----------------------------------------------------------------------------
(* Type correctness *)

LEMMA Words ==
  ASSUME BitBangAssumption, WordAssumption
  PROVE  /\ Word \in Nat \ {0} /\ White \in 0 .. Word - 1
         /\ 0 \in 0 .. Word - 1 /\ Word - 1 \in 0 .. Word - 1
         /\ 2 * Bits \in 0 .. Word - 1
         /\ \A word \in Nat : Shift(word) \in 0 .. Word - 1
<1>1. Word \in Nat /\ 2 ^ Width \in 1 .. Word /\ 2 * Bits < Word
  BY Zenon DEF WordAssumption
<1>2. Bits \in Nat
  BY Sizes
<1> HIDE DEF Word, Bits
<1>3. White \in 0 .. Word - 1
  BY <1>1 DEF White
<1>4. \A word \in Nat : Shift(word) \in 0 .. Word - 1
  BY <1>1 DEF Shift
<1> QED
  BY <1>1, <1>2, <1>3, <1>4

LEMMA Sized == Bits' = Bits /\ Word' = Word /\ Writing' = Writing
BY DEF Bits, Word, Writing

LEMMA InitTyped ==
  ASSUME BitBangAssumption, WordAssumption, Init
  PROVE  TypeOK
<1>1. 0 \in 0 .. LEDs /\ 0 \in 0 .. Bits - 1 /\ 0 \in 0 .. LEDs * Bits
  BY Sizes DEF Total
<1>2. 0 \in 0 .. Word - 1
  BY Words
<1>3. msg \in [0 .. LEDs - 1 -> 0 .. Word - 1]
  BY <1>2 DEF Init
<1>4. sent \in 0 .. LEDs * Bits /\ ones \in 0 .. sent
  BY <1>1 DEF Init
<1>5. led_count \in 0 .. LEDs /\ i \in 0 .. Bits - 1 /\ c \in 0 .. Word - 1
  BY <1>1, <1>2 DEF Init
<1> QED
  BY <1>1, <1>3, <1>4, <1>5 DEF Init, TypeOK

LEMMA DriverTyped ==
  ASSUME BitBangAssumption, WordAssumption, TypeOK, Loads \/ hrt_driver_exit
  PROVE  TypeOK'
<1> USE DEF TypeOK
<1>1. CASE Loads
  <2>1. driver' \in {"none", "hrtimer", "ndelay"}
        /\ class' \in BOOLEAN /\ fault' \in BOOLEAN
        /\ done' \in BOOLEAN /\ bit' \in BOOLEAN
        /\ UNCHANGED <<led_count, c, i, msg, hrt, biw, reg_data, gpios, place,
                        high, sent, ones, upright, skipped>>
    BY <1>1 DEF Loads, hrt_driver_init, history, BitBangAssumption
  <2> QED
    BY <2>1, Sized
<1>2. CASE hrt_driver_exit
  <2>1. 0 \in 0 .. LEDs /\ 0 \in 0 .. Bits - 1 /\ 0 \in 0 .. LEDs * Bits
    BY Sizes DEF Total
  <2>2. 0 \in 0 .. Word - 1
    BY Words
  <2>3. msg' \in [0 .. LEDs - 1 -> 0 .. Word - 1]
    BY <1>2, <2>2 DEF hrt_driver_exit
  <2>4. fault' \in BOOLEAN
    BY <1>2 DEF hrt_driver_exit
  <2>5. sent' \in 0 .. LEDs * Bits /\ ones' \in 0 .. sent'
    BY <1>2, <2>1 DEF hrt_driver_exit
  <2>6. /\ led_count' \in 0 .. LEDs /\ i' \in 0 .. Bits - 1
        /\ c' \in 0 .. Word - 1
    BY <1>2, <2>1, <2>2 DEF hrt_driver_exit
  <2> QED
    BY <1>2, <2>3, <2>4, <2>5, <2>6, Sized DEF hrt_driver_exit
<1> QED
  BY <1>1, <1>2

\* Where a call leaves its process.
LEMMA Moves ==
  ASSUME TypeOK, NEW u \in Users, NEW from,
         NEW to \in {"closed", "open", "loop"} \cup Writing, Goto(u, from, to)
  PROVE  place' \in [Users -> {"closed", "open", "loop"} \cup Writing]
BY DEF TypeOK, Goto

LEMMA CallTyped ==
  ASSUME BitBangAssumption, WordAssumption, TypeOK, NEW u \in Users, Calls(u)
  PROVE  TypeOK'
<1> USE DEF TypeOK
<1>0. {"closed", "open", "loop", "begun", "rewound", "filling", "filled",
       "waiting"} = {"closed", "open", "loop"} \cup Writing
  BY DEF Writing
<1>1. CASE hrt_open(u)
  <2>1. gpios' \subseteq UNION {Columns(io_pin) : io_pin \in IOPins}
    BY <1>1, ConfigBounds DEF hrt_open, RequestRing, IOPins
  <2>2. place' \in [Users -> {"closed", "open", "loop"} \cup Writing]
    BY <1>0, <1>1, Moves DEF hrt_open
  <2> QED
    BY <1>1, <2>1, <2>2, Sized DEF hrt_open, counters, history
<1>2. CASE hrt_close(u)
  <2>1. gpios' \subseteq gpios
    BY <1>2 DEF hrt_close, FreeRing, gpio_deregister_out
  <2>2. c' \in 0 .. Word - 1
    BY <1>2, Words DEF hrt_close
  <2>3. fault' \in BOOLEAN /\ biw' \in BOOLEAN
        /\ hrt' \in {"raw", "idle", "queued", "corrupt"}
    BY <1>2 DEF hrt_close
  <2>4. place' \in [Users -> {"closed", "open", "loop"} \cup Writing]
    BY <1>0, <1>2, Moves DEF hrt_close
  <2> QED
    BY <1>2, <2>1, <2>2, <2>3, <2>4, Sized DEF hrt_close
<1>3. CASE hrt_write(u) \/ StartTimer(u) \/ hrt_write_returns(u) \/ Interrupted(u)
  <2>1. /\ biw' \in BOOLEAN
        /\ hrt' \in {"raw", "idle", "queued", "corrupt"}
        /\ UNCHANGED <<counters, device, fault, history>>
    BY <1>3 DEF hrt_write, StartTimer, hrt_write_returns, Interrupted
  <2>2. place' \in [Users -> {"closed", "open", "loop"} \cup Writing]
    BY <1>0, <1>3, Moves
       DEF hrt_write, StartTimer, hrt_write_returns, Interrupted
  <2> QED
    BY <2>1, <2>2, Sized DEF counters, device, history
<1>4. CASE ResetLed(u) \/ ResetCount(u)
  <2>1. 0 \in 0 .. LEDs /\ 0 \in 0 .. LEDs * Bits /\ 0 \in 0 .. Bits - 1
    BY Sizes DEF Total
  <2>2. c' \in 0 .. Word - 1
    BY <1>4, Words DEF ResetLed, ResetCount
  <2>3. /\ led_count' \in 0 .. LEDs /\ i' \in 0 .. Bits - 1
        /\ skipped' \in 0 .. LEDs
        /\ sent' \in 0 .. LEDs * Bits /\ ones' \in 0 .. sent'
    <3>1. CASE ResetLed(u)
      BY <2>1, <3>1 DEF ResetLed
    <3>2. CASE ResetCount(u)
      BY <2>1, <3>2 DEF ResetCount
    <3> QED
      BY <1>4, <3>1, <3>2
  <2>6. upright' \in BOOLEAN
    BY <1>4 DEF ResetLed, ResetCount
  <2>4. place' \in [Users -> {"closed", "open", "loop"} \cup Writing]
    BY <1>0, <1>4, Moves DEF ResetLed, ResetCount
  <2>5. UNCHANGED <<driver, class, msg, bit, done, hrt, biw, reg_data, gpios,
                    fault, high>>
    BY <1>4 DEF ResetLed, ResetCount, device
  <2> QED
    BY <2>2, <2>3, <2>4, <2>5, <2>6, Sized
<1>5. CASE Fill(u)
  <2>1. msg' \in [0 .. LEDs - 1 -> 0 .. Word - 1]
    BY <1>5, Words DEF Fill
  <2>2. i' \in 0 .. Bits - 1
    <3>1. LEDs \in Nat /\ Bits \in Nat /\ LEDs <= Bits /\ i \in 0 .. Bits - 1
      BY Sizes
    <3>2. i' = i \/ (i < LEDs - 1 /\ i' = i + 1)
      BY <1>5 DEF Fill
    <3> QED
      BY <3>1, <3>2
  <2>3. place' \in [Users -> {"closed", "open", "loop"} \cup Writing]
    BY <1>0, <1>5, Moves DEF Fill
  <2> QED
    BY <1>5, <2>1, <2>2, <2>3, Sized DEF Fill, device, history
<1>6. CASE ndelay_open(u) \/ ndelay_close(u)
  <2>1. place' \in [Users -> {"closed", "open", "loop"} \cup Writing]
    BY <1>0, <1>6, Moves DEF ndelay_open, ndelay_close
  <2> QED
    BY <1>6, <2>1, Sized DEF ndelay_open, ndelay_close, counters, device, history
<1>7. CASE ndelay_write(u)
  <2>1. 0 \in 0 .. LEDs /\ 0 \in 0 .. LEDs * Bits /\ 0 \in 0 .. Bits - 1
    BY Sizes DEF Total
  <2>2. msg' \in [0 .. LEDs - 1 -> 0 .. Word - 1]
    BY <1>7, Words DEF ndelay_write
  <2>3. bit' \in BOOLEAN
    BY <1>7 DEF ndelay_write, Test
  <2>4. place' \in [Users -> {"closed", "open", "loop"} \cup Writing]
    BY <1>0, <1>7, Moves DEF ndelay_write
  <2> QED
    BY <1>7, <2>1, <2>2, <2>3, <2>4, Sized DEF ndelay_write, device
<1> QED
  BY <1>1, <1>2, <1>3, <1>4, <1>5, <1>6, <1>7 DEF Calls

\* The bits sent stay within those of the ring, and the ones among them.
LEMMA RecordTyped ==
  ASSUME BitBangAssumption, TypeOK, NEW value \in BOOLEAN, Record(value)
  PROVE  sent' \in 0 .. LEDs * Bits /\ ones' \in 0 .. sent'
<1>1. Total \in Nat
  BY Sizes
<1>2. sent \in 0 .. Total /\ ones \in 0 .. sent
  BY DEF TypeOK, Total
<1>3. IF sent < Total
        THEN sent' = sent + 1 /\ ones' = IF value THEN ones + 1 ELSE ones
        ELSE UNCHANGED <<sent, ones>>
  BY DEF Record, Total
<1>4. sent' \in 0 .. Total /\ ones' \in 0 .. sent'
  <2> HIDE DEF Total
  <2>1. CASE value = TRUE
    BY <1>1, <1>2, <1>3, <2>1
  <2>2. CASE value = FALSE
    BY <1>1, <1>2, <1>3, <2>2
  <2> QED
    BY <2>1, <2>2
<1> QED
  BY <1>4 DEF Total

\* The word of an LED that is shifted is still one.
LEMMA ShiftTyped ==
  ASSUME BitBangAssumption, WordAssumption, TypeOK,
         msg' = [msg EXCEPT ![led_count] = Shift(@)]
  PROVE  msg' \in [0 .. LEDs - 1 -> 0 .. Word - 1]
<1>1. \A l \in 0 .. LEDs - 1 : msg[l] \in Nat
  <2>1. Word \in Nat
    BY Words
  <2>2. \A l \in 0 .. LEDs - 1 : msg[l] \in 0 .. Word - 1
    BY DEF TypeOK
  <2> QED
    BY <2>1, <2>2
<1>2. \A l \in 0 .. LEDs - 1 : Shift(msg[l]) \in 0 .. Word - 1
  BY <1>1, Words
<1> HIDE DEF Word, Shift
<1> QED
  BY <1>2 DEF TypeOK

LEMMA CallbackTyped ==
  ASSUME BitBangAssumption, WordAssumption, TypeOK, my_hrtimer_callback
  PROVE  TypeOK'
<1>1. /\ UNCHANGED <<i, driver, class, reg_data, gpios, place, upright,
                     skipped>>
      /\ fault' \in BOOLEAN
  BY DEF my_hrtimer_callback, device, TypeOK
<1>2. c \in Nat /\ c <= Word - 1
  BY Words DEF TypeOK
<1>3. CASE c # 0 /\ ~done
  <2>1. c' \in 0 .. Word - 1
    BY <1>2, <1>3, Words DEF my_hrtimer_callback, Raise
  <2> QED
    BY <1>1, <1>3, <2>1, Sized
       DEF my_hrtimer_callback, Raise, TypeOK
<1>4. CASE c # 0 /\ done
  <2>1. Lower /\ UNCHANGED <<hrt, biw>>
    BY <1>4 DEF my_hrtimer_callback
  <2>2. sent' \in 0 .. LEDs * Bits /\ ones' \in 0 .. sent'
    <3>1. CASE Record(bit)
      BY <3>1, RecordTyped DEF TypeOK
    <3>2. CASE UNCHANGED <<sent, ones>>
      BY <3>2 DEF TypeOK
    <3> QED
      BY <2>1, <3>1, <3>2 DEF Lower
  <2>3. c - 1 \in Nat /\ c - 1 \in 0 .. Word - 1
    BY <1>2, <1>4, Words
  <2>4. c' \in 0 .. Word - 1
    BY <2>1, <2>3, Words DEF Lower
  <2>5. msg' \in [0 .. LEDs - 1 -> 0 .. Word - 1]
    BY <2>1, ShiftTyped DEF Lower, TypeOK
  <2>6. led_count' \in 0 .. LEDs
    <3>1. LEDs \in Nat /\ led_count \in 0 .. LEDs
      BY Sizes DEF TypeOK
    <3> QED
      BY <2>1, <3>1 DEF Lower
  <2>7. bit' \in BOOLEAN /\ done' \in BOOLEAN /\ high' \in BOOLEAN
    BY <2>1 DEF Lower, Test
  <2> QED
    BY <1>1, <2>1, <2>2, <2>4, <2>5, <2>6, <2>7, Sized DEF TypeOK
<1>5. CASE c = 0
  <2>1. c' \in 0 .. Word - 1
    BY <1>5, Words DEF my_hrtimer_callback
  <2> QED
    BY <1>1, <1>5, <2>1, Sized DEF my_hrtimer_callback, TypeOK
<1> QED
  BY <1>3, <1>4, <1>5

LEMMA SendTyped ==
  ASSUME BitBangAssumption, WordAssumption, TypeOK, NEW u \in Users, SendBit(u)
  PROVE  TypeOK'
<1>1. sent' \in 0 .. LEDs * Bits /\ ones' \in 0 .. sent'
  BY RecordTyped DEF SendBit, TypeOK
<1>2. msg' \in [0 .. LEDs - 1 -> 0 .. Word - 1] /\ bit' \in BOOLEAN
  BY ShiftTyped DEF SendBit, TypeOK, Test, Word
<1>3. led_count' \in 0 .. LEDs /\ i' \in 0 .. Bits - 1
  <2>1. LEDs \in Nat /\ Bits \in Nat /\ 3 <= Bits
        /\ led_count \in 0 .. LEDs /\ i \in 0 .. Bits - 1
    BY Sizes DEF TypeOK
  <2> HIDE DEF Bits
  <2> QED
    BY <2>1 DEF SendBit
<1>4. place' \in [Users -> {"closed", "open", "loop"} \cup Writing]
  BY DEF SendBit, Goto, TypeOK
<1> QED
  BY <1>1, <1>2, <1>3, <1>4, Sized DEF SendBit, device, TypeOK

LEMMA NextTyped ==
  ASSUME BitBangAssumption, WordAssumption, TypeOK, [Next]_vars
  PROVE  TypeOK'
<1>1. CASE UNCHANGED vars
  BY <1>1, Sized DEF vars, TypeOK
<1> QED
  BY <1>1, DriverTyped, CallTyped, SendTyped, CallbackTyped DEF Next

\* Every variable keeps its type: the counters index the message, c does not
\* leave its word however often it shifts itself, and the ring is never sent
\* more than it takes.
THEOREM TypeCorrect ==
  ASSUME BitBangAssumption, WordAssumption
  PROVE  Spec => []TypeOK
<1>1. Init => TypeOK
  BY InitTyped
<1>2. TypeOK /\ [Next]_vars => TypeOK'
  BY NextTyped
<1> QED
  BY <1>1, <1>2, PTL DEF Spec

-----------------------------------------------------------------------------
(* What the driver holds *)

\* One process, and drivers that load.
Alone ==
  /\ \E u \in Users : Users = {u}
  /\ Results \subseteq {"ok"}

\* A device is open only with its driver loaded, the timer of bbang_hrtimer.c
\* runs and its register is mapped while that is so.
HeldInv ==
  /\ ~fault
  /\ class <=> driver # "none"
  /\ driver = "none" => Idle
  /\ hrt = "queued" => driver = "hrtimer" /\ ~Idle
  /\ hrt # "corrupt"
  /\ driver = "hrtimer" /\ ~Idle => reg_data
  /\ \A u \in Users : place[u] \in Writing => driver = "hrtimer"

Pins == IF driver = "hrtimer" /\ ~Idle THEN Columns(12) ELSE {}
PinsInv == gpios = Pins

LEMMA HeldInit ==
  ASSUME Init
  PROVE  HeldInv /\ PinsInv
BY DEF Init, HeldInv, PinsInv, Pins, Idle, Writing

LEMMA HeldStep ==
  ASSUME Alone, TypeOK, HeldInv, PinsInv, [Next]_vars
  PROVE  HeldInv' /\ PinsInv'
<1> PICK u \in Users : Users = {u}
  BY DEF Alone
<1>1. Idle <=> place[u] = "closed"
  BY DEF Idle
<1>2. Idle' <=> place'[u] = "closed"
  BY DEF Idle
<1> USE <1>1, <1>2 DEF TypeOK, HeldInv, PinsInv, Pins, Goto, Writing
<1>3. CASE Loads
  BY <1>3 DEF Loads, hrt_driver_init, Alone
<1>4. CASE hrt_driver_exit
  BY <1>4 DEF hrt_driver_exit
<1>5. CASE hrt_open(u)
  <2>1. gpios = {}
    BY <1>5 DEF hrt_open
  <2>2. gpios' = Columns(12)
    <3>1. 12 \in IOPins
      BY DEF IOPins
    <3>2. gpio_config({}, 12) = {} \cup Columns(12)
      BY <3>1, ConfigFree
    <3> QED
      BY <1>5, <2>1, <3>2 DEF hrt_open, RequestRing
  <2>3. place'[u] = "open" /\ hrt' = "idle"
    BY <1>5 DEF hrt_open
  <2> QED
    BY <1>5, <2>2, <2>3 DEF hrt_open
<1>6. CASE hrt_close(u)
  <2>1. gpios' = {}
    BY <1>6 DEF hrt_close, FreeRing, gpio_deregister_out
  <2>2. place'[u] = "closed" /\ hrt' # "queued"
    BY <1>6 DEF hrt_close
  <2> QED
    BY <1>6, <2>1, <2>2 DEF hrt_close
<1>7. CASE hrt_write(u) \/ ResetLed(u) \/ ResetCount(u) \/ Fill(u)
             \/ StartTimer(u)
  <2>1. /\ driver = "hrtimer" /\ place[u] # "closed" /\ place'[u] # "closed"
        /\ place' \in [Users -> {"closed", "open", "loop"} \cup Writing]
    BY <1>7 DEF hrt_write, ResetLed, ResetCount, Fill, StartTimer
  <2>2. UNCHANGED <<driver, class, reg_data, gpios, fault>>
        /\ hrt' \in {hrt, "queued"}
    BY <1>7 DEF hrt_write, ResetLed, ResetCount, Fill, StartTimer, device
  <2> QED
    BY <2>1, <2>2
<1>8. CASE hrt_write_returns(u) \/ Interrupted(u)
  <2>1. place'[u] = "open" /\ place[u] = "waiting"
    BY <1>8 DEF hrt_write_returns, Interrupted
  <2>2. UNCHANGED <<driver, class, reg_data, gpios, hrt, fault>>
    BY <1>8 DEF hrt_write_returns, Interrupted, device
  <2> QED
    BY <2>1, <2>2
<1>9. CASE ndelay_open(u) \/ ndelay_close(u) \/ ndelay_write(u) \/ SendBit(u)
  <2>1. UNCHANGED <<driver, class, reg_data, gpios, hrt, fault>>
    BY <1>9 DEF ndelay_open, ndelay_close, ndelay_write, SendBit, device
  <2>2. /\ driver = "ndelay" \/ (place[u] # "closed" /\ place'[u] # "closed")
        /\ place'[u] \notin Writing
    BY <1>9 DEF ndelay_open, ndelay_close, ndelay_write, SendBit
  <2> QED
    BY <2>1, <2>2
<1>10. CASE my_hrtimer_callback
  <2>1. UNCHANGED <<driver, class, reg_data, gpios, place>>
        /\ hrt = "queued" /\ hrt' \in {"queued", "idle"}
        /\ (fault' => fault \/ ~reg_data) /\ fault' \in BOOLEAN
    BY <1>10 DEF my_hrtimer_callback, device
  <2> QED
    BY <2>1
<1>11. CASE UNCHANGED vars
  BY <1>11 DEF vars
<1> QED
  BY <1>3, <1>4, <1>5, <1>6, <1>7, <1>8, <1>9, <1>10, <1>11 DEF Next, Calls

\* What else has been requested of the board does not matter.
LEMMA HeldSafe ==
  ASSUME HeldInv, NEW others, others \cap Columns(12) = {},
         gpios = Pins \cup others
  PROVE  NothingDangles
<1>1. Columns(12) # {}
  BY Table
<1> QED
  BY <1>1 DEF HeldInv, Pins, NothingDangles

\* One process at a time finds its timer and its register there, and leaves
\* neither a timer nor a pin behind when it closes, after whatever signals.
THEOREM NothingIsLeftDangling ==
  ASSUME BitBangAssumption, WordAssumption, Alone
  PROVE  Spec => []NothingDangles
<1>1. Init => TypeOK /\ HeldInv /\ PinsInv
  BY InitTyped, HeldInit
<1>2. TypeOK /\ HeldInv /\ PinsInv /\ [Next]_vars =>
        TypeOK' /\ HeldInv' /\ PinsInv'
  BY NextTyped, HeldStep
<1>3. HeldInv /\ PinsInv => NothingDangles
  <2>1. {} \cap Columns(12) = {} /\ Pins = Pins \cup {}
    OBVIOUS
  <2> QED
    BY <2>1, HeldSafe DEF PinsInv
<1> QED
  BY <1>1, <1>2, <1>3, PTL DEF Spec
===============================================================================
