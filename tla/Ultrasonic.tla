----------------------------- MODULE Ultrasonic ------------------------------
(***************************************************************************)
(* The ultrasonic sensor driver of Project2/part1 (ultrasonic.c): a misc   *)
(* device whose only structure, struct1, is shared by the system calls of  *)
(* the processes that open it, an hrtimer callback that counts samples and *)
(* an interrupt handler that stores an echo.                               *)
(*                                                                         *)
(* A process is in these places (values of pc):                            *)
(*   closed   has not opened the device                                    *)
(*   open     between two calls                                            *)
(*   loop     in write, about to test flag1                                *)
(*   test     in write, after the sleep, about to test flag2               *)
(*   high     about to raise the trigger pin and take the time             *)
(*   low      about to lower the trigger pin: the sensor sends its burst   *)
(*   clear    about to clear flag2                                         *)
(*   stuck    in hrtimer_cancel on a timer that was never initialised      *)
(*                                                                         *)
(* A distance is modelled by the pulse it measures, and a pulse by the     *)
(* value of sample_num when it was sent. timestamp is written and never    *)
(* read; read itself is not in the file operations of the device.          *)
(***************************************************************************)
EXTENDS Integers, FiniteSets, PinMux

CONSTANTS
  Users,          \* processes
  Pins,           \* IO pins that a process may name in CONFIG_PINS
  Requests,       \* numbers of samples that a process may ask for
  ArraySize,      \* elements of distance and timestamp
  SMP,            \* whether a process runs while the timer callback runs
  Program         \* "user": a process makes the calls of user.c in order

ASSUME UltrasonicAssumption ==
  /\ IsFiniteSet(Users)
  /\ Pins \subseteq IOPins
  /\ ArraySize \in Nat
  /\ Requests \subseteq Nat /\ \A n \in Requests : n + 2 <= ArraySize
  /\ SMP \in BOOLEAN
  /\ Program \in {"user", "any"}

VARIABLES
  trigger, echo,  \* pins of struct1; irqnum is the interrupt of echo
  samples,        \* samples asked for, and two
  sample_num,     \* samples counted by the timer in this write
  flag1,          \* the write goes on
  flag2,          \* a pulse is due
  trig,           \* the pulse whose start time struct1 holds
  distance,       \* the pulse that each element measures
  hr_timer,       \* "raw" before hrtimer_init, "corrupt" after one too many
  callback,       \* "counted" between the two stores of the callback
  gpios,          \* GPIOs that the driver has requested
  handlers,       \* echo pins whose interrupt has sensor_handler
  pc,             \* where each process is
  step,           \* the next call of each process in user.c
  sound,          \* outside: the pulse whose echo is on its way
  pulses,         \* history: pulses sent in this write
  spoiled         \* history: samples of this write whose pulse or echo was
                  \* overtaken by a tick, or whose echo was lost

config  == <<trigger, echo, samples>>
flags   == <<flag1, flag2>>
timer   == <<hr_timer, callback>>
held    == <<gpios, handlers>>
world   == <<trig, distance, sound, pulses, spoiled>>
vars    == <<trigger, echo, samples, sample_num, flag1, flag2, trig, distance,
             hr_timer, callback, gpios, handlers, pc, step, sound, pulses,
             spoiled>>

Silent    == -1      \* no pulse
Wrong     == -2      \* not the distance of a pulse of this write
Pulses    == 0 .. ArraySize
Slots     == 0 .. ArraySize - 1
Pulsing   == {"high", "low", "clear"}
InWrite   == {"loop", "test"} \cup Pulsing
Places    == {"closed", "open", "stuck"} \cup InWrite

TypeOK ==
  /\ trigger \in IOPins /\ echo \in IOPins
  /\ samples \in 0 .. ArraySize
  /\ sample_num \in 0 .. ArraySize
  /\ flag1 \in BOOLEAN /\ flag2 \in BOOLEAN
  /\ trig \in Pulses /\ sound \in Pulses \cup {Silent}
  /\ distance \in [Slots -> Pulses \cup {Wrong}]
  /\ hr_timer \in {"raw", "idle", "queued", "corrupt"}
  /\ callback \in {"idle", "counted"}
  /\ gpios \subseteq UNION {Columns(io_pin) : io_pin \in IOPins}
  /\ handlers \subseteq IOPins
  /\ pc \in [Users -> Places]
  /\ step \in [Users -> {"config", "params", "write", "close"}]
  /\ pulses \in Nat
  /\ spoiled \subseteq Pulses

\* struct1 is static: all zero.
Init ==
  /\ trigger = 0 /\ echo = 0
  /\ samples = 0
  /\ sample_num = 0
  /\ flag1 = FALSE /\ flag2 = FALSE
  /\ trig = 0
  /\ distance = [i \in Slots |-> Wrong]
  /\ hr_timer = "raw"
  /\ callback = "idle"
  /\ gpios = {}
  /\ handlers = {}
  /\ pc = [u \in Users |-> "closed"]
  /\ step = [u \in Users |-> "config"]
  /\ sound = Silent
  /\ pulses = 0
  /\ spoiled = {}

-----------------------------------------------------------------------------
(* System calls *)

\* On a uniprocessor the callback runs between two steps of the processes.
At(u, place) == pc[u] = place /\ (SMP \/ callback = "idle")
Goto(u, place) == pc' = [pc EXCEPT ![u] = place]

\* user.c makes its calls in order; other programs in any order.
Calls(u, call) ==
  /\ At(u, "open")
  /\ Program = "user" => step[u] = call

Then(u, call) == step' = [step EXCEPT ![u] = call]

Open(u) ==
  /\ At(u, "closed")
  /\ Goto(u, "open")
  /\ Then(u, "config")
  /\ UNCHANGED <<config, sample_num, flags, timer, held, world>>

\* The results of gpio_config and request_irq are ignored; the interrupt
\* is not shared, so a second request of the same one has no effect.
ConfigPins(u, p_trigger, p_echo) ==
  /\ Calls(u, "config")
  /\ trigger' = p_trigger
  /\ echo' = p_echo
  /\ gpios' = gpio_config(gpio_config(gpios, p_trigger), p_echo)
  /\ handlers' = handlers \cup {p_echo}
  /\ Then(u, "params")
  /\ UNCHANGED <<samples, sample_num, flags, timer, world, pc>>

SetParams(u, c_samples) ==
  /\ Calls(u, "params")
  /\ samples' = c_samples + 2
  /\ Then(u, "write")
  /\ UNCHANGED <<trigger, echo, sample_num, flags, timer, held, world, pc>>

\* hrtimer_init wipes the timer, wherever it is queued.
InitTimer == IF hr_timer = "queued" THEN "corrupt" ELSE "queued"

\* The distances of an earlier write measure none of this one's pulses.
ForgetEarlier == distance' = [i \in Slots |-> Wrong]

StartWrite(u) ==
  /\ Calls(u, "write")
  /\ flag1' = TRUE /\ flag2' = TRUE
  /\ sample_num' = 0
  /\ hr_timer' = InitTimer
  /\ Goto(u, "loop")
  /\ Then(u, "close")
  /\ ForgetEarlier
  /\ pulses' = 0
  /\ spoiled' = IF sound = Silent THEN {} ELSE {0}
  /\ UNCHANGED <<config, callback, held, trig, sound>>

\* while (flag1) msleep_interruptible(1)
TestFlag1(u) ==
  /\ At(u, "loop")
  /\ Goto(u, IF flag1 THEN "test" ELSE "open")
  /\ UNCHANGED <<config, sample_num, flags, timer, held, world, step>>

TestFlag2(u) ==
  /\ At(u, "test")
  /\ Goto(u, IF flag2 THEN "high" ELSE "loop")
  /\ UNCHANGED <<config, sample_num, flags, timer, held, world, step>>

RaiseTrigger(u) ==
  /\ At(u, "high")
  /\ trig' = sample_num
  /\ Goto(u, "low")
  /\ UNCHANGED <<config, sample_num, flags, timer, held, distance, sound,
                 pulses, spoiled, step>>

LowerTrigger(u) ==
  /\ At(u, "low")
  /\ sound' = trig
  /\ pulses' = pulses + 1
  /\ Goto(u, "clear")
  /\ UNCHANGED <<config, sample_num, flags, timer, held, trig, distance,
                 spoiled, step>>

ClearFlag2(u) ==
  /\ At(u, "clear")
  /\ flag2' = FALSE
  /\ Goto(u, "loop")
  /\ UNCHANGED <<config, sample_num, flag1, timer, held, world, step>>

\* free_irq, hrtimer_cancel, gpio_deregister
Close(u) ==
  /\ Calls(u, "close")
  /\ callback = "idle"
  /\ handlers' = handlers \ {echo}
  /\ hr_timer' = IF hr_timer = "queued" THEN "idle" ELSE hr_timer
  /\ gpios' = IF hr_timer = "raw" THEN gpios
                                 ELSE gpio_deregister(gpios, trigger, echo)
  /\ Goto(u, IF hr_timer = "raw" THEN "stuck" ELSE "closed")
  /\ UNCHANGED <<config, sample_num, flags, callback, world, step>>

-----------------------------------------------------------------------------
(* my_hrtimer_callback *)

\* A tick comes too early when the pulse of the last one is not sent, or
\* its echo not stored: that sample is spoiled, and so is the next.
Overtaken ==
  flag2 \/ sound # Silent \/ \E u \in Users : pc[u] \in Pulsing

Spoil == spoiled' = IF Overtaken THEN spoiled \cup {sample_num, sample_num + 1}
                                 ELSE spoiled

\* mutant: one sample too many
CountSampleLong ==
  /\ hr_timer = "queued" /\ callback = "idle"
  /\ sample_num <= samples
  /\ sample_num' = sample_num + 1
  /\ callback' = "counted"
  /\ Spoil
  /\ UNCHANGED <<config, flags, hr_timer, held, trig, distance, sound,
                 pulses, pc, step>>

CountSample ==
  /\ hr_timer = "queued" /\ callback = "idle"
  /\ sample_num < samples
  /\ sample_num' = sample_num + 1
  /\ callback' = "counted"
  /\ Spoil
  /\ UNCHANGED <<config, flags, hr_timer, held, trig, distance, sound,
                 pulses, pc, step>>

\* mutant: the timer is not restarted
AskForLastPulse ==
  /\ callback = "counted"
  /\ flag2' = TRUE
  /\ callback' = "idle"
  /\ hr_timer' = "idle"
  /\ UNCHANGED <<config, sample_num, flag1, held, world, pc, step>>

AskForPulse ==
  /\ callback = "counted"
  /\ flag2' = TRUE
  /\ callback' = "idle"
  /\ UNCHANGED <<config, sample_num, flag1, hr_timer, held, world, pc, step>>

\* HRTIMER_NORESTART
EndWrite ==
  /\ hr_timer = "queued" /\ callback = "idle"
  /\ sample_num >= samples
  /\ flag1' = FALSE
  /\ hr_timer' = "idle"
  /\ UNCHANGED <<config, sample_num, flag2, callback, held, world, pc, step>>

-----------------------------------------------------------------------------
(* The echo *)

Measured == IF trig = sound THEN sound ELSE Wrong

\* mutant: the element after the one for this sample
EchoNextSlot ==
  /\ sound # Silent
  /\ echo \in handlers
  /\ SMP \/ callback = "idle"
  /\ distance' = [distance EXCEPT ![sample_num % ArraySize] = Measured]
  /\ sound' = Silent
  /\ UNCHANGED <<config, sample_num, flags, timer, held, trig, pulses,
                 spoiled, pc, step>>

\* sensor_handler. For sample 0 distance[-1] is end.tv_usec, which the next
\* echo sets anew, and timestamp[-1] is the last element of distance.
Echo ==
  /\ sound # Silent
  /\ echo \in handlers
  /\ SMP \/ callback = "idle"
  /\ distance' = IF sample_num = 0
                   THEN [distance EXCEPT ![ArraySize - 1] = Wrong]
                   ELSE [distance EXCEPT ![sample_num - 1] = Measured]
  /\ sound' = Silent
  /\ UNCHANGED <<config, sample_num, flags, timer, held, trig, pulses,
                 spoiled, pc, step>>

\* Nothing in range, or no handler for the interrupt.
EchoLost ==
  /\ sound # Silent
  /\ sound' = Silent
  /\ spoiled' = spoiled \cup {sound}
  /\ UNCHANGED <<config, sample_num, flags, timer, held, trig, distance,
                 pulses, pc, step>>

-----------------------------------------------------------------------------
Configure(u) ==
  \E p_trigger \in Pins : \E p_echo \in Pins \ {p_trigger} :
    ConfigPins(u, p_trigger, p_echo)

Inside(u) ==
  \/ TestFlag1(u) \/ TestFlag2(u)
  \/ RaiseTrigger(u) \/ LowerTrigger(u) \/ ClearFlag2(u)

Next ==
  \/ \E u \in Users :
       \/ Open(u) \/ Configure(u) \/ StartWrite(u) \/ Inside(u) \/ Close(u)
       \/ \E c_samples \in Requests : SetParams(u, c_samples)
  \/ CountSample \/ AskForPulse \/ EndWrite
  \/ Echo \/ EchoLost

Spec == Init /\ [][Next]_vars

\* The loop of write runs, and a queued timer ticks.
Fairness ==
  /\ \A u \in Users : WF_vars(Inside(u))
  /\ WF_vars(CountSample \/ AskForPulse \/ EndWrite)

FairSpec == Spec /\ Fairness

-----------------------------------------------------------------------------
(* Correctness *)

\* A write that returns has measured every element that the average of
\* read_common uses (1 to samples - 2): each holds the echo of the pulse sent
\* for it in this write, unless a tick overtook that very pulse or its echo,
\* or the echo was lost. What goes wrong with one sample spoils no other:
\* neither the pulse for sample 0, whose echo has no element, nor a pulse that
\* is sent late, twice or not at all.
AveragesThisWrite ==
  [][\A u \in Users :
       pc[u] = "loop" /\ pc'[u] = "open" =>
         \A i \in 1 .. samples - 2 : i + 1 \notin spoiled => distance[i] = i + 1
    ]_vars

\* Project2/part1/README.md:46 a write triggers the sensor "samples+2 times";
\* samples of struct1 is the number asked for, and two.
TriggersAsDocumented == pulses <= samples

\* user.c: a process closes a device whose timer has been initialised, whose
\* pins are all requested and whose interrupt is installed, and leaves
\* nothing behind, so the next process finds all pins free.
OpensAndClosesBalance ==
  /\ \A u \in Users :
       pc[u] = "open" /\ step[u] = "close" =>
         /\ hr_timer = "idle"
         /\ handlers = {echo}
         /\ gpios = Columns(trigger) \cup Columns(echo)
  /\ (\A u \in Users : pc[u] = "closed") => gpios = {} /\ handlers = {}

\* A write returns, whatever the sensor does.
WriteReturns ==
  \A u \in Users : pc[u] \in InWrite ~> pc[u] = "open"
=============================================================================
