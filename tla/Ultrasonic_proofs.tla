-------------------------- MODULE Ultrasonic_proofs --------------------------
(***************************************************************************)
(* Theorems about Ultrasonic, on one processor or several, for every       *)
(* length of the arrays, every number of samples that fits them and every  *)
(* choice of pins: the types, and what user.c can rely on.                 *)
(***************************************************************************)
EXTENDS Ultrasonic, PinMux_proofs

-----------------------------------------------------------------------------
(* Type correctness *)

LEMMA InitTyped == Init => TypeOK
<1> SUFFICES ASSUME Init PROVE TypeOK
  OBVIOUS
<1>1. distance \in [Slots -> Pulses \cup {Wrong}]
  BY DEF Init
<1>2. trigger \in IOPins /\ echo \in IOPins
  BY DEF Init, IOPins
<1>3. samples \in 0 .. ArraySize /\ sample_num \in 0 .. ArraySize /\ trig \in Pulses
  BY UltrasonicAssumption DEF Init, Pulses
<1> QED
  BY <1>1, <1>2, <1>3 DEF Init, TypeOK, Places

LEMMA ConfigTyped ==
  ASSUME TypeOK, NEW u \in Users, Configure(u)
  PROVE  TypeOK'
<1>1. PICK p_trigger \in Pins, p_echo \in Pins :
        ConfigPins(u, p_trigger, p_echo)
  BY DEF Configure
<1>2. p_trigger \in IOPins /\ p_echo \in IOPins
  BY UltrasonicAssumption
<1>3. gpios' \subseteq gpios \cup Columns(p_trigger) \cup Columns(p_echo)
  BY <1>1, <1>2, ConfigBounds DEF ConfigPins
<1>4. gpios' \subseteq UNION {Columns(io_pin) : io_pin \in IOPins}
  BY <1>2, <1>3 DEF TypeOK
<1> QED
  BY <1>1, <1>2, <1>4 DEF ConfigPins, Then, TypeOK, timer, flags, world

LEMMA InsideTyped ==
  ASSUME TypeOK, NEW u \in Users, Inside(u)
  PROVE  TypeOK'
<1> USE DEF TypeOK, At, Goto, Places, InWrite, Pulsing, config, flags, timer,
        held, world
<1>1. CASE TestFlag1(u)     BY <1>1 DEF TestFlag1
<1>2. CASE TestFlag2(u)     BY <1>2 DEF TestFlag2
<1>3. CASE RaiseTrigger(u)  BY <1>3 DEF RaiseTrigger, Pulses
<1>4. CASE LowerTrigger(u)  BY <1>4 DEF LowerTrigger
<1>5. CASE ClearFlag2(u)    BY <1>5 DEF ClearFlag2
<1> QED
  BY <1>1, <1>2, <1>3, <1>4, <1>5 DEF Inside

LEMMA EchoTyped ==
  ASSUME TypeOK, Echo
  PROVE  TypeOK'
<1>1. Measured \in Pulses \cup {Wrong}
  BY DEF Measured, Echo, TypeOK
<1>2. distance' \in [Slots -> Pulses \cup {Wrong}]
  BY <1>1 DEF Echo, TypeOK
<1> QED
  BY <1>2 DEF Echo, TypeOK, config, flags, timer, held

LEMMA NextTyped == TypeOK /\ [Next]_vars => TypeOK'
<1> SUFFICES ASSUME TypeOK, [Next]_vars PROVE TypeOK'
  OBVIOUS
<1> USE DEF config, flags, timer, held, world
<1>1. ASSUME NEW u \in Users, Open(u) PROVE TypeOK'
  BY <1>1 DEF Open, TypeOK, At, Goto, Then, Places
<1>2. ASSUME NEW u \in Users, Configure(u) PROVE TypeOK'
  BY <1>2, ConfigTyped
<1>3. ASSUME NEW u \in Users, NEW c_samples \in Requests,
             SetParams(u, c_samples)
      PROVE  TypeOK'
  BY <1>3, UltrasonicAssumption DEF SetParams, TypeOK, Then
<1>4. ASSUME NEW u \in Users, StartWrite(u) PROVE TypeOK'
  <2>1. spoiled' \subseteq Pulses
    BY <1>4, UltrasonicAssumption DEF StartWrite, Pulses
  <2> QED
    BY <1>4, <2>1, UltrasonicAssumption DEF StartWrite, TypeOK, Then, Goto,
       Places, InWrite, InitTimer, ForgetEarlier
<1>5. ASSUME NEW u \in Users, Inside(u) PROVE TypeOK'
  BY <1>5, InsideTyped
<1>6. ASSUME NEW u \in Users, Close(u) PROVE TypeOK'
  BY <1>6 DEF Close, TypeOK, Goto, Places, gpio_deregister
<1>7. CASE CountSample
  <2>1. {sample_num, sample_num + 1} \subseteq Pulses
    BY <1>7, UltrasonicAssumption DEF CountSample, TypeOK, Pulses
  <2> QED
    BY <1>7, <2>1, UltrasonicAssumption DEF CountSample, Spoil, TypeOK
<1>8. CASE AskForPulse   BY <1>8 DEF AskForPulse, TypeOK
<1>9. CASE EndWrite      BY <1>9 DEF EndWrite, TypeOK
<1>10. CASE Echo         BY <1>10, EchoTyped
<1>11. CASE EchoLost     BY <1>11 DEF EchoLost, TypeOK
<1>12. CASE UNCHANGED vars BY <1>12 DEF TypeOK, vars
<1> QED
  BY <1>1, <1>2, <1>3, <1>4, <1>5, <1>6, <1>7, <1>8, <1>9, <1>10, <1>11,
     <1>12 DEF Next

\* The sample counter stays inside the arrays, and the driver holds only GPIOs
\* of the table, whatever programs call it.
THEOREM TypeCorrect == Spec => []TypeOK
BY InitTyped, NextTyped, PTL DEF Spec

-----------------------------------------------------------------------------
\* What user.c is: one process at a time makes its calls in order. IO pin 5
\* has GPIO 0, which close does not free.
UserProgram ==
  /\ Program = "user"
  /\ \E u \in Users : Users = {u}
  /\ 5 \notin Pins

-----------------------------------------------------------------------------
(* Calls and resources *)

Configured ==
  /\ trigger \in Pins /\ echo \in Pins
  /\ handlers = {echo}
  /\ gpios = Columns(trigger) \cup Columns(echo)

\* What the driver holds at each place of the program, and that the timer
\* runs exactly while flag1 lets the write go on.
AtCall(u) ==
  /\ pc[u] # "stuck"
  /\ pc[u] = "closed" \/ step[u] = "config" => gpios = {} /\ handlers = {}
  /\ pc[u] # "closed" /\ step[u] # "config" => Configured
  /\ pc[u] \in InWrite => step[u] = "close"
  /\ pc[u] \notin InWrite => hr_timer \in {"raw", "idle"}
  /\ pc[u] = "open" /\ step[u] = "close" => hr_timer = "idle"
  /\ pc[u] \in InWrite => hr_timer = IF flag1 THEN "queued" ELSE "idle"
  /\ pc[u] = "closed" => step[u] \in {"config", "close"}

CallInv == \A u \in Users : AtCall(u)

TimerInv == callback = "counted" => hr_timer = "queued"

LEMMA FreesAll ==
  ASSUME UserProgram, Configured
  PROVE  gpio_deregister(gpios, trigger, echo) = {}
<1>1. \A gpio \in Columns(trigger) \cup Columns(echo) : gpio > 0
  BY Numbers, UltrasonicAssumption DEF UserProgram, Configured
<1> QED
  BY <1>1 DEF gpio_deregister, Configured

LEMMA ConfiguresPins ==
  ASSUME UserProgram, gpios = {}, handlers = {},
         NEW u \in Users, Configure(u)
  PROVE  Configured'
<1>1. PICK p_trigger \in Pins, p_echo \in Pins :
        p_echo # p_trigger /\ ConfigPins(u, p_trigger, p_echo)
  BY DEF Configure
<1>2. p_trigger \in IOPins /\ p_echo \in IOPins
  BY UltrasonicAssumption
<1>3. gpio_config(gpios, p_trigger) = Columns(p_trigger)
  BY <1>2, ConfigFree
<1>4. -1 \notin Columns(p_trigger) /\ Columns(p_trigger) \cap Columns(p_echo) = {}
  BY <1>1, <1>2, OneOwner DEF Columns
<1>5. gpios' = Columns(p_trigger) \cup Columns(p_echo)
  BY <1>1, <1>2, <1>3, <1>4, ConfigFree DEF ConfigPins
<1> QED
  BY <1>1, <1>5 DEF ConfigPins, Configured

\* A process between two calls moves on to the next call of user.c.
LEMMA CallKept ==
  ASSUME UserProgram, TypeOK, CallInv, NEW u \in Users,
         \/ Open(u) \/ Configure(u) \/ StartWrite(u) \/ Close(u)
         \/ \E c_samples \in Requests : SetParams(u, c_samples)
  PROVE  CallInv'
<1> SUFFICES ASSUME NEW w \in Users PROVE AtCall(w)'
  BY DEF CallInv
<1>0. w = u
  BY DEF UserProgram
<1> USE <1>0 DEF TypeOK, CallInv, AtCall, config, flags, timer, held, world,
        Goto, Then, At, Calls, InWrite, Pulsing, Configured, UserProgram
<1>1. CASE Open(u)       BY <1>1 DEF Open
<1>2. CASE Configure(u)
  <2>1. gpios = {} /\ handlers = {}
    BY <1>2 DEF Configure, ConfigPins
  <2>2. Configured'
    BY <1>2, <2>1, ConfiguresPins
  <2> QED
    BY <1>2, <2>2 DEF Configure, ConfigPins
<1>3. CASE StartWrite(u) BY <1>3 DEF StartWrite, InitTimer
<1>4. CASE Close(u)
  <2>1. hr_timer = "idle" /\ Configured
    BY <1>4 DEF Close
  <2>2. gpios' = {} /\ handlers' = {}
    BY <1>4, <2>1, FreesAll DEF Close
  <2> QED
    BY <1>4, <2>1, <2>2 DEF Close
<1>5. CASE \E c_samples \in Requests : SetParams(u, c_samples)
  BY <1>5 DEF SetParams
<1> QED
  BY <1>1, <1>2, <1>3, <1>4, <1>5

\* So does a step inside write, and the ticks of the timer.
LEMMA CallsKept ==
  ASSUME UserProgram, TypeOK, CallInv, TimerInv, [Next]_vars
  PROVE  CallInv' /\ TimerInv'
<1> USE DEF CallInv, AtCall, TimerInv, config, flags, timer, held, world, At,
        Configured
<1>1. ASSUME NEW u \in Users,
             \/ Open(u) \/ Configure(u) \/ StartWrite(u) \/ Close(u)
             \/ \E c_samples \in Requests : SetParams(u, c_samples)
      PROVE  CallInv' /\ TimerInv'
  <2>1. CallInv'
    BY <1>1, CallKept
  <2> HIDE DEF CallInv
  <2>2. TimerInv'
    <3>1. AtCall(u)
      BY DEF CallInv
    <3>2. CASE StartWrite(u)
      BY <3>1, <3>2 DEF StartWrite, Calls, InitTimer, InWrite, Pulsing
    <3>3. CASE Close(u)
      BY <3>3 DEF Close
    <3>4. CASE ~StartWrite(u) /\ ~Close(u)
      BY <1>1, <3>4 DEF Open, Configure, ConfigPins, SetParams
    <3> QED
      BY <3>2, <3>3, <3>4
  <2> QED
    BY <2>1, <2>2
<1>2. ASSUME NEW u \in Users, Inside(u) PROVE CallInv' /\ TimerInv'
  <2> USE <1>2 DEF Goto, InWrite, Pulsing, TypeOK, UserProgram
  <2>1. CASE TestFlag1(u)     BY <2>1 DEF TestFlag1
  <2>2. CASE TestFlag2(u)     BY <2>2 DEF TestFlag2
  <2>3. CASE RaiseTrigger(u)  BY <2>3 DEF RaiseTrigger
  <2>4. CASE LowerTrigger(u)  BY <2>4 DEF LowerTrigger
  <2>5. CASE ClearFlag2(u)    BY <2>5 DEF ClearFlag2
  <2> QED
    BY <2>1, <2>2, <2>3, <2>4, <2>5 DEF Inside
<1>3. CASE CountSample   BY <1>3 DEF CountSample
<1>4. CASE AskForPulse   BY <1>4 DEF AskForPulse
<1>5. CASE EndWrite      BY <1>5 DEF EndWrite
<1>6. CASE Echo          BY <1>6 DEF Echo
<1>7. CASE EchoLost      BY <1>7 DEF EchoLost
<1>8. CASE UNCHANGED vars BY <1>8 DEF vars
<1> QED
  BY <1>1, <1>2, <1>3, <1>4, <1>5, <1>6, <1>7, <1>8 DEF Next

LEMMA CallsAlways == ASSUME UserProgram PROVE Spec => [](CallInv /\ TimerInv)
<1>1. Init => CallInv /\ TimerInv
  BY DEF Init, CallInv, AtCall, TimerInv, InWrite, Pulsing
<1>2. TypeOK /\ (CallInv /\ TimerInv) /\ [Next]_vars =>
        (CallInv /\ TimerInv)'
  BY CallsKept
<1> QED
  BY <1>1, <1>2, TypeCorrect, PTL DEF Spec

\* Whoever closes finds the timer initialised and at rest, its interrupt and
\* all columns of its pins, and leaves none of them to the next process.
THEOREM NothingIsLeftOpen ==
  ASSUME UserProgram
  PROVE  Spec => []OpensAndClosesBalance
<1>1. TypeOK /\ CallInv => OpensAndClosesBalance
  <2> SUFFICES ASSUME TypeOK, CallInv PROVE OpensAndClosesBalance
    OBVIOUS
  <2> QED
    BY DEF CallInv, AtCall, Configured, UserProgram, OpensAndClosesBalance
<1> QED
  BY <1>1, TypeCorrect, CallsAlways, PTL

-----------------------------------------------------------------------------
(* Pulses *)

\* A pulse is due from the moment its tick sets flag2 until it is sent.
Due(u) == flag2 /\ pc[u] # "clear"

AtPulse(u) ==
  pc[u] \in InWrite =>
    /\ pc[u] \in Pulsing => flag2
    /\ sample_num <= samples
    /\ ~flag1 => sample_num = samples

PulseInv == \A u \in Users : AtPulse(u)

\* In a sample that is not spoiled the echo of its pulse is stored before the
\* next tick, so every tick finds the element of the one before it filled.
InQuiet(u) ==
  pc[u] \in InWrite =>
    /\ sample_num \notin spoiled =>
         /\ callback = "counted" => ~flag2
         /\ Due(u) \/ callback = "counted" => sound = Silent
         /\ pc[u] \in {"low", "clear"} \/ sound # Silent => trig = sample_num
         /\ sound # Silent => sound = sample_num
         /\ sound = Silent /\ ~Due(u) /\ callback = "idle" /\ sample_num > 0 =>
              distance[sample_num - 1] = sample_num
    /\ \A k \in 1 .. sample_num - 1 : k \notin spoiled => distance[k - 1] = k

QuietInv == \A u \in Users : InQuiet(u)

\* Every step of the program, the timer and the sensor keeps the count of the
\* samples,
LEMMA PulsesKept ==
  ASSUME UserProgram, TypeOK, CallInv, TimerInv, PulseInv, [Next]_vars
  PROVE  PulseInv'
<1> SUFFICES ASSUME NEW u \in Users PROVE AtPulse(u)'
  BY DEF PulseInv
<1>0. Users = {u} /\ AtCall(u) /\ AtPulse(u)
  BY DEF UserProgram, CallInv, PulseInv
<1> USE <1>0 DEF TypeOK, AtPulse, InWrite, Pulsing, TimerInv,
        config, flags, timer, held, world, At, Calls, Goto
<1>1. CASE Open(u)           BY <1>1 DEF Open
<1>2. CASE Configure(u)      BY <1>2 DEF Configure, ConfigPins
<1>3. CASE \E c_samples \in Requests : SetParams(u, c_samples)
  BY <1>3 DEF SetParams
<1>4. CASE StartWrite(u)     BY <1>4 DEF StartWrite, AtCall
<1>5. CASE Close(u)          BY <1>5 DEF Close
<1>6. CASE TestFlag1(u)      BY <1>6 DEF TestFlag1
<1>7. CASE TestFlag2(u)      BY <1>7 DEF TestFlag2
<1>8. CASE RaiseTrigger(u)   BY <1>8 DEF RaiseTrigger
<1>9. CASE LowerTrigger(u)   BY <1>9 DEF LowerTrigger
<1>10. CASE ClearFlag2(u)    BY <1>10 DEF ClearFlag2
<1>11. CASE CountSample      BY <1>11 DEF CountSample, AtCall
<1>12. CASE AskForPulse      BY <1>12 DEF AskForPulse
<1>13. CASE EndWrite         BY <1>13 DEF EndWrite
<1>14. CASE Echo             BY <1>14 DEF Echo
<1>15. CASE EchoLost         BY <1>15 DEF EchoLost
<1>16. CASE UNCHANGED vars   BY <1>16 DEF vars
<1> QED
  BY <1>1, <1>2, <1>3, <1>4, <1>5, <1>6, <1>7, <1>8, <1>9, <1>10, <1>11,
     <1>12, <1>13, <1>14, <1>15, <1>16 DEF Next, Inside

\* and the elements filled so far.
LEMMA QuietKept ==
  ASSUME UserProgram, TypeOK, CallInv, TimerInv, PulseInv, QuietInv,
         [Next]_vars
  PROVE  QuietInv'
<1> SUFFICES ASSUME NEW u \in Users PROVE InQuiet(u)'
  BY DEF QuietInv
<1>0. Users = {u} /\ AtCall(u) /\ AtPulse(u) /\ InQuiet(u)
  BY DEF UserProgram, CallInv, PulseInv, QuietInv
<1> USE <1>0 DEF TypeOK, InQuiet, Due, InWrite, Pulsing, TimerInv,
        config, flags, timer, held, world, At, Calls, Goto
<1>1. CASE Open(u)           BY <1>1 DEF Open
<1>2. CASE Configure(u)      BY <1>2 DEF Configure, ConfigPins
<1>3. CASE \E c_samples \in Requests : SetParams(u, c_samples)
  BY <1>3 DEF SetParams
<1>4. CASE StartWrite(u)
  <2>1. callback = "idle"
    BY <1>4 DEF StartWrite, AtCall
  <2>2. 0 \in spoiled' \/ sound' = Silent
    BY <1>4 DEF StartWrite
  <2>3. /\ pc'[u] = "loop" /\ flag1' /\ flag2' /\ sample_num' = 0
        /\ callback' = "idle"
    BY <1>4, <2>1 DEF StartWrite
  <2> QED
    BY <2>2, <2>3
<1>5. CASE Close(u)          BY <1>5 DEF Close
<1>6. CASE TestFlag1(u)      BY <1>6 DEF TestFlag1
<1>7. CASE TestFlag2(u)      BY <1>7 DEF TestFlag2
<1>8. CASE RaiseTrigger(u)   BY <1>8 DEF RaiseTrigger, AtPulse
<1>9. CASE LowerTrigger(u)
  <2>1. flag2 /\ pc[u] = "low" /\ pc'[u] = "clear" /\ sound' = trig
    BY <1>9 DEF LowerTrigger, AtPulse
  <2>2. CASE sample_num \in spoiled
    BY <1>9, <2>1, <2>2 DEF LowerTrigger
  <2>3. CASE sample_num \notin spoiled
    <3>1. callback = "idle" /\ trig = sample_num /\ sound = Silent
      BY <2>1, <2>3
    <3>2. sound' # Silent
      BY <2>1, <3>1 DEF Silent
    <3> QED
      BY <1>9, <2>1, <2>3, <3>1, <3>2 DEF LowerTrigger
  <2> QED
    BY <2>2, <2>3
<1>10. CASE ClearFlag2(u)    BY <1>10 DEF ClearFlag2
<1>11. CASE CountSample
  <2>1. /\ callback = "idle" /\ sample_num' = sample_num + 1
        /\ pc' = pc /\ flag2' = flag2 /\ sound' = sound /\ distance' = distance
    BY <1>11 DEF CountSample
  <2>2. CASE Overtaken
    <3>1. spoiled' = spoiled \cup {sample_num, sample_num + 1}
      BY <1>11, <2>2 DEF CountSample, Spoil
    <3> QED
      BY <2>1, <3>1
  <2>3. CASE ~Overtaken
    <3>1. spoiled' = spoiled /\ ~flag2 /\ sound = Silent /\ pc[u] \notin Pulsing
      BY <1>11, <2>3 DEF CountSample, Spoil, Overtaken
    <3>2. pc[u] \in InWrite /\ sample_num > 0 /\ sample_num \notin spoiled =>
            distance[sample_num - 1] = sample_num
      BY <2>1, <3>1
    <3> QED
      BY <1>11, <2>1, <3>1, <3>2 DEF CountSample
  <2> QED
    BY <2>2, <2>3
<1>12. CASE AskForPulse
  <2>1. /\ callback = "counted" /\ callback' = "idle" /\ flag2'
        /\ hr_timer = "queued" /\ pc' = pc
    BY <1>12 DEF AskForPulse
  <2>2. CASE pc[u] \in InWrite /\ sample_num \notin spoiled
    <3>1. ~flag2 /\ sound = Silent /\ pc[u] \notin Pulsing
      BY <2>1, <2>2 DEF AtPulse, AtCall
    <3> QED
      BY <1>12, <2>1, <2>2, <3>1 DEF AskForPulse
  <2> QED
    BY <1>12, <2>2 DEF AskForPulse
<1>13. CASE EndWrite         BY <1>13 DEF EndWrite
<1>14. CASE Echo
  <2>1. /\ sound # Silent /\ sound' = Silent /\ pc' = pc
        /\ sample_num' = sample_num /\ spoiled' = spoiled
    BY <1>14 DEF Echo
  <2>2. \A k \in 1 .. sample_num - 1 : distance'[k - 1] = distance[k - 1]
    <3>1. \A k \in 1 .. sample_num : k - 1 \in Slots
      BY UltrasonicAssumption DEF Slots
    <3>2. CASE sample_num = 0
      BY <3>2
    <3>3. CASE sample_num > 0
      BY <1>14, <3>1, <3>3 DEF Echo
    <3> QED
      BY <3>2, <3>3
  <2>3. CASE pc[u] \in InWrite /\ sample_num \notin spoiled
    <3>1. ~Due(u) /\ callback = "idle" /\ trig = sample_num /\ sound = sample_num
      BY <2>1, <2>3
    <3>2. sample_num > 0 => sample_num - 1 \in Slots
      BY UltrasonicAssumption DEF Slots
    <3>3. sample_num > 0 => distance'[sample_num - 1] = sample_num
      BY <1>14, <3>1, <3>2 DEF Echo, Measured
    <3> QED
      BY <1>14, <2>1, <2>2, <2>3, <3>1, <3>3 DEF Echo
  <2> QED
    BY <1>14, <2>1, <2>2, <2>3 DEF Echo
<1>15. CASE EchoLost         BY <1>15 DEF EchoLost
<1>16. CASE UNCHANGED vars   BY <1>16 DEF vars
<1> QED
  BY <1>1, <1>2, <1>3, <1>4, <1>5, <1>6, <1>7, <1>8, <1>9, <1>10, <1>11,
     <1>12, <1>13, <1>14, <1>15, <1>16 DEF Next, Inside

LEMMA PulsesAlways ==
  ASSUME UserProgram
  PROVE  Spec => [](PulseInv /\ QuietInv)
<1>1. Init => PulseInv /\ QuietInv
  BY DEF Init, PulseInv, AtPulse, QuietInv, InQuiet, InWrite, Pulsing
<1>2. TypeOK /\ (CallInv /\ TimerInv) /\ (PulseInv /\ QuietInv) /\ [Next]_vars =>
        (PulseInv /\ QuietInv)'
  BY PulsesKept, QuietKept
<1> QED
  BY <1>1, <1>2, TypeCorrect, CallsAlways, PTL DEF Spec

\* Where a write leaves the loop: only TestFlag1 does, with flag1 cleared.
LEMMA LeavesLoop ==
  ASSUME TypeOK, CallInv, TimerInv, [Next]_vars, NEW u \in Users,
         pc[u] = "loop", pc'[u] = "open"
  PROVE  ~flag1 /\ callback = "idle"
<1> USE DEF TypeOK, At, Calls, Goto, config, flags, timer, held, world
<1>1. ASSUME NEW w \in Users,
             \/ Open(w) \/ Configure(w) \/ StartWrite(w) \/ Close(w)
             \/ \E c_samples \in Requests : SetParams(w, c_samples)
      PROVE  FALSE
  BY <1>1 DEF Open, Configure, ConfigPins, StartWrite, Close, SetParams
<1>2. ASSUME NEW w \in Users,
             \/ TestFlag2(w) \/ RaiseTrigger(w) \/ LowerTrigger(w)
             \/ ClearFlag2(w)
      PROVE  FALSE
  BY <1>2 DEF TestFlag2, RaiseTrigger, LowerTrigger, ClearFlag2
<1>3. ASSUME NEW w \in Users, TestFlag1(w)
      PROVE  ~flag1
  BY <1>3 DEF TestFlag1
<1>4. CASE UNCHANGED pc
  BY <1>4
<1>5. UNCHANGED pc \/ ~flag1
  BY <1>1, <1>2, <1>3 DEF Next, Inside, CountSample, AskForPulse, EndWrite,
     Echo, EchoLost, vars
<1>6. ~flag1
  BY <1>4, <1>5
<1> QED
  BY <1>6 DEF CallInv, AtCall, TimerInv, InWrite

\* Every element that the average of a write uses holds the echo of the pulse
\* sent for it, unless an early tick or a lost echo spoiled that very sample.
THEOREM AverageIsOfThisWrite ==
  ASSUME UserProgram
  PROVE  Spec => AveragesThisWrite
<1>1. TypeOK /\ (CallInv /\ TimerInv) /\ (PulseInv /\ QuietInv) /\ [Next]_vars =>
        [\A u \in Users :
           pc[u] = "loop" /\ pc'[u] = "open" =>
             \A i \in 1 .. samples - 2 :
               i + 1 \notin spoiled => distance[i] = i + 1]_vars
  <2> SUFFICES ASSUME TypeOK, CallInv, TimerInv, PulseInv, QuietInv,
                      [Next]_vars, NEW u \in Users,
                      pc[u] = "loop", pc'[u] = "open",
                      NEW i \in 1 .. samples - 2, i + 1 \notin spoiled
               PROVE  distance[i] = i + 1
    OBVIOUS
  <2>1. ~flag1
    BY LeavesLoop
  <2>2. sample_num = samples
    BY <2>1 DEF PulseInv, AtPulse, InWrite, TypeOK
  <2>3. i + 1 \in 1 .. sample_num - 1 /\ (i + 1) - 1 = i
    BY <2>2 DEF TypeOK
  <2>4. distance[(i + 1) - 1] = i + 1
    BY <2>3 DEF QuietInv, InQuiet, InWrite
  <2> QED
    BY <2>3, <2>4
<1> QED
  BY <1>1, TypeCorrect, CallsAlways, PulsesAlways, PTL
     DEF Spec, AveragesThisWrite
=============================================================================
