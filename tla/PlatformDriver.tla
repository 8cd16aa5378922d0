---------------------------- MODULE PlatformDriver ---------------------------
(***************************************************************************)
(* The ultrasonic platform driver of Project2/part2 (platform_driver.c)    *)
(* and its two devices (platform_device.c): the loading and removal of the *)
(* two modules, the structure of each device (struct1), its attributes in  *)
(* sysfs, its file operations, and the sampling that both start.           *)
(*                                                                         *)
(* No lock is held while pins are set, so every call that requests or      *)
(* frees one is a step. probe, close, and remove up to device_destroy are  *)
(* one step each. The timer callback runs between two steps: the board has *)
(* one processor. interval, enable and timestamp are written and never     *)
(* used; read is not in the file operations.                               *)
(***************************************************************************)
EXTENDS Integers, FiniteSets, PinMux

CONSTANTS
  Shells,         \* processes that use the attributes (script.sh)
  Programs,       \* processes that use the device files (user.c)
  Attributes,     \* the devices whose attributes the former use, and
  Files,          \* whose files the latter use
  TriggerPins,    \* the IO pins that they name for each device
  EchoPins,
  Requests,       \* numbers of samples that they ask for
  Recycles,       \* whether kmalloc hands out the structures freed before
  Results,        \* outcomes of a probe
  Rules           \* what those who use the driver observe, see below

\* no loss    a module is removed when nobody samples or has a file open
\* sampled    and when every device has sampled once
\* both       then the other one is removed as well
\* one        a device samples for one process at a time
\* turns      and one process at a time sets its pins
\* same       a program names the pins that a device has, if it has some
\* in order   a device samples when its pins and its samples are set
AllRules ==
  {"no loss", "sampled", "both", "one", "turns", "same", "in order"}

NoPin == -1       \* outside of every range that the code tests
ArraySize == 20   \* elements of distance
Devices   == {"HSC_1", "HSC_2"}

ASSUME PlatformAssumption ==
  /\ IsFiniteSet(Shells) /\ IsFiniteSet(Programs)
  /\ Shells \cap Programs = {}
  /\ Attributes \subseteq Devices /\ Files \subseteq Devices
  /\ {TriggerPins, EchoPins} \subseteq [Devices -> SUBSET (IOPins \ {0})]
  /\ Requests \subseteq 1 .. ArraySize - 2
  /\ Recycles \in BOOLEAN
  /\ Results \subseteq {"ok", "no region", "no cdev"}
  /\ Rules \subseteq AllRules

Modules == {"driver", "device"}
Users   == Shells \cup Programs
Nothing == "nothing"

Silent  == -1     \* no echo on its way
Shown   == 3      \* DISTANCE is distance[2], where sample 3 is stored

\* Where a process is: in the loop of write_common, or setting pins.
Looping == {"loop", "clear"}
Places  == {"out", "set trigger", "take trigger", "free irq", "set echo",
            "config trigger", "take echo", "ask irq"} \cup Looping

VARIABLES
  modules,        \* loaded modules
  unloading,      \* the module that is being removed
  probed, bound,  \* devices that the driver has tried, and has accepted
  leaving,        \* the device in the middle of P_driver_remove
  memory,         \* what struct1 points to: "null", "live" or "freed"
  numbered,       \* devices whose minor_num is 5 or 6 and not -1
  class_flag,     \* the driver believes that the class exists
  class,          \* the class and the device numbers exist
  class_fault,    \* a class was destroyed that is not there
  fault,          \* other memory was used that is not there
  trigger, echo,  \* pins
  irqnum,         \* the pin whose interrupt a device has asked for
  samples,
  sample_num, flag1, flag2, hr_timer,
  sound,          \* outside: the sample whose echo is on its way
  shown,          \* the sample whose echo distance[2] holds, of the sampling
                  \* under way: 0 is an earlier one's
  spoiled,        \* history: devices whose sample 3, in the sampling under way,
                  \* had its pulse or echo overtaken by a tick, or its echo lost
  gpios,          \* requested GPIOs
  handlers,       \* pairs of an echo pin and the device told of its echo
  busy, at,       \* the device that a call of a process is about, and where
                  \* the process is in it
  stage           \* how far a program is with each device

loading  == <<modules, unloading, probed, bound, leaving>>
objects  == <<memory, numbered, class_flag, class, class_fault>>
settings == <<trigger, echo, irqnum, samples>>
sampling == <<sample_num, flag1, flag2, hr_timer, sound, shown, spoiled>>
held     == <<gpios, handlers>>
calls    == <<busy, at, stage>>
vars     == <<modules, unloading, probed, bound, leaving, memory, numbered,
              class_flag, class, class_fault, fault, trigger, echo, irqnum,
              samples, sample_num, flag1, flag2, hr_timer, sound, shown,
              spoiled, gpios, handlers, busy, at, stage>>

TypeOK ==
  /\ modules \subseteq Modules
  /\ unloading \in Modules \cup {Nothing}
  /\ bound \subseteq probed /\ probed \subseteq Devices
  /\ leaving \in Devices \cup {Nothing}
  /\ memory \in [Devices -> {"null", "live", "freed"}]
  /\ numbered \subseteq Devices
  /\ class_flag \in BOOLEAN /\ class \in BOOLEAN
  /\ class_fault \in BOOLEAN /\ fault \in BOOLEAN
  /\ trigger \in [Devices -> IOPins \cup {NoPin}]
  /\ echo \in [Devices -> IOPins \cup {NoPin}]
  /\ irqnum \in [Devices -> IOPins \cup {NoPin}]
  /\ samples \in [Devices -> 0 .. ArraySize]
  /\ sample_num \in [Devices -> 0 .. ArraySize]
  /\ flag1 \in [Devices -> BOOLEAN] /\ flag2 \in [Devices -> BOOLEAN]
  /\ hr_timer \in [Devices -> {"raw", "idle", "queued", "corrupt"}]
  /\ sound \in [Devices -> Silent .. ArraySize]
  /\ shown \in [Devices -> 0 .. ArraySize]
  /\ spoiled \subseteq Devices
  /\ gpios \subseteq UNION {Columns(io_pin) : io_pin \in IOPins}
  /\ handlers \subseteq (IOPins \cup {NoPin}) \X Devices
  /\ busy \in [Users -> Devices \cup {Nothing}]
  /\ at \in [Users -> Places]
  /\ stage \in [Programs -> [Devices ->
                  {"closed", "open", "pins", "params", "written"}]]

Init ==
  /\ modules = {} /\ unloading = Nothing
  /\ probed = {} /\ bound = {} /\ leaving = Nothing
  /\ memory = [d \in Devices |-> "null"]
  /\ numbered = {}
  /\ class_flag = FALSE /\ class = FALSE
  /\ class_fault = FALSE /\ fault = FALSE
  /\ trigger = [d \in Devices |-> NoPin] /\ echo = trigger /\ irqnum = trigger
  /\ samples = [d \in Devices |-> 0] /\ sample_num = samples
  /\ shown = samples /\ spoiled = {}
  /\ flag1 = [d \in Devices |-> FALSE] /\ flag2 = flag1
  /\ sound = [d \in Devices |-> Silent]
  /\ hr_timer = [d \in Devices |-> "raw"]
  /\ gpios = {} /\ handlers = {}
  /\ busy = [u \in Users |-> Nothing] /\ at = [u \in Users |-> "out"]
  /\ stage = [u \in Programs |-> [d \in Devices |-> "closed"]]

Observed(rule, condition) == rule \in Rules => condition
Other(d) == CHOOSE e \in Devices : e # d

Samples(u, d)    == busy[u] = d /\ at[u] \in Looping
Configures(u, d) == busy[u] = d /\ at[u] \notin Looping
Sampled(d)       == \E u \in Users : Samples(u, d)

-----------------------------------------------------------------------------
(* The modules *)

Quiet ==
  /\ Observed("no loss", /\ \A u \in Users : busy[u] = Nothing
                         /\ \A u \in Programs, d \in Devices :
                              stage[u][d] = "closed"
                         /\ \A d \in Devices : sound[d] = Silent)
  /\ Observed("sampled", \A d \in bound : hr_timer[d] # "raw")

Load(m) ==
  /\ m \notin modules /\ unloading = Nothing
  /\ m = "device" => Observed("both", ~class_flag)
  /\ modules' = modules \cup {m}
  /\ UNCHANGED <<unloading, probed, bound, leaving, objects, fault, settings,
                 sampling, held, calls>>

\* rmmod: the driver stays while a file of its devices is open.
Unload(m) ==
  /\ m \in modules /\ unloading = Nothing
  /\ modules = Modules => probed = Devices
  /\ m = "driver" => \A u \in Programs, d \in Devices : stage[u][d] = "closed"
  /\ Quiet
  /\ unloading' = m
  /\ UNCHANGED <<modules, probed, bound, leaving, objects, fault, settings,
                 sampling, held, calls>>

\* mutant: the module goes before its devices do
UnloadedEarly ==
  /\ unloading # Nothing
  /\ modules' = modules \ {unloading}
  /\ unloading' = Nothing
  /\ probed' = {}
  /\ UNCHANGED <<bound, leaving, objects, fault, settings, sampling, held,
                 calls>>

\* The static data of the driver goes with it.
Unloaded ==
  /\ unloading # Nothing /\ bound = {} /\ leaving = Nothing
  /\ modules' = modules \ {unloading}
  /\ unloading' = Nothing
  /\ probed' = {}
  /\ IF unloading = "driver"
       THEN /\ memory' = [d \in Devices |-> "null"]
            /\ numbered' = {}
            /\ class_flag' = FALSE
       ELSE UNCHANGED <<memory, numbered, class_flag>>
  /\ UNCHANGED <<bound, leaving, class, class_fault, fault, settings, sampling,
                 held, calls>>

-----------------------------------------------------------------------------
(* P_driver_probe and P_driver_remove *)

\* A structure holds what its memory held: no pins, or what the structures of
\* an earlier load did. The one that was freed last is handed out first.
Uninitialised(pin) ==
  IF probed # {} THEN pin
  ELSE [d \in Devices |-> IF Recycles THEN pin[Other(d)] ELSE NoPin]

\* A class of that name that is left over makes class_create fail, and the
\* handling of that failure crashes.
Probe(d, result) ==
  /\ modules = Modules /\ unloading = Nothing
  /\ d \notin probed /\ (d = "HSC_2" => "HSC_1" \in probed)
  /\ probed' = probed \cup {d}
  /\ bound' = IF result = "ok" THEN bound \cup {d} ELSE bound
  /\ memory' = [memory EXCEPT ![d] = "live"]
  /\ numbered' = numbered \cup {d}
  /\ class' = TRUE
  /\ class_flag' = (class_flag \/ result # "no region")
  /\ fault' = (fault \/ class_flag # class)
  /\ trigger' = Uninitialised(trigger)
  /\ echo' = Uninitialised(echo)
  /\ irqnum' = Uninitialised(irqnum)
  /\ samples' = [samples EXCEPT ![d] = 0]
  /\ sample_num' = [sample_num EXCEPT ![d] = 0]
  /\ hr_timer' = [hr_timer EXCEPT ![d] = "raw"]
  /\ flag1' = [flag1 EXCEPT ![d] = FALSE]
  /\ flag2' = [flag2 EXCEPT ![d] = FALSE]
  /\ UNCHANGED <<modules, unloading, leaving, class_fault, sound, shown,
                 spoiled, held, calls>>

Freed(d) ==
  LET out == IF trigger[d] = NoPin THEN gpios
                              ELSE gpio_deregister_out(gpios, trigger[d])
  IN  IF echo[d] = NoPin THEN out ELSE gpio_deregister_in(out, echo[d])

\* mutant: as in close, only a timer that was queued brings the trigger pin
RemoveLikeClose(d) ==
  /\ unloading # Nothing /\ leaving = Nothing /\ d \in bound
  /\ handlers' = handlers \ {<<irqnum[d], d>>}
  /\ hr_timer' = [hr_timer EXCEPT ![d] = IF @ = "queued" THEN "idle" ELSE @]
  /\ fault' = (fault \/ hr_timer[d] \in {"raw", "corrupt"})
  /\ gpios' = IF hr_timer[d] = "queued" THEN Freed(d)
                                        ELSE gpio_deregister_in(gpios, echo[d])
  /\ leaving' = d
  /\ UNCHANGED <<modules, unloading, probed, bound, objects, settings,
                 sample_num, flag1, flag2, sound, shown, spoiled, calls>>

\* free_irq, hrtimer_cancel, which cannot take a timer that was never
\* initialised, and the pins.
Remove(d) ==
  /\ unloading # Nothing /\ leaving = Nothing /\ d \in bound
  /\ handlers' = handlers \ {<<irqnum[d], d>>}
  /\ hr_timer' = [hr_timer EXCEPT ![d] = IF @ = "queued" THEN "idle" ELSE @]
  /\ fault' = (fault \/ hr_timer[d] \in {"raw", "corrupt"})
  /\ gpios' = Freed(d)
  /\ leaving' = d
  /\ UNCHANGED <<modules, unloading, probed, bound, objects, settings,
                 sample_num, flag1, flag2, sound, shown, spoiled, calls>>

\* mutant: one minor number gone is enough
LeaveEarly(d) ==
  /\ leaving = d
  /\ \A u \in Shells : busy[u] # d
  /\ leaving' = Nothing /\ bound' = bound \ {d}
  /\ numbered' = numbered \ {d}
  /\ class' = FALSE
  /\ class_fault' = TRUE
  /\ memory' = [e \in Devices |-> "freed"]
  /\ fault' = (fault \/ memory[Other(d)] # "live")
  /\ UNCHANGED <<modules, unloading, probed, class_flag, settings, sampling,
                 held, calls>>

\* device_destroy waits for the attributes in use. The last device to leave
\* takes the class and both structures with it: class_unregister, and
\* class_destroy of the same class, which is gone. class_flag stays.
Leave(d) ==
  /\ leaving = d
  /\ \A u \in Shells : busy[u] # d
  /\ leaving' = Nothing /\ bound' = bound \ {d}
  /\ numbered' = numbered \ {d}
  /\ class' = (class /\ numbered' # {})
  /\ class_fault' = (class_fault \/ numbered' = {})
  /\ memory' = IF numbered' = {} THEN [e \in Devices |-> "freed"] ELSE memory
  /\ fault' = (fault \/ ~class \/ memory[Other(d)] # "live")
  /\ UNCHANGED <<modules, unloading, probed, class_flag, settings, sampling,
                 held, calls>>

-----------------------------------------------------------------------------
(* The attributes, through get_structp *)

Configured(d) == trigger[d] # NoPin /\ echo[d] # NoPin /\ samples[d] # 0
Stores(u, d)  == d \in bound /\ busy[u] = Nothing
                 /\ Observed("no loss", unloading = Nothing)
Uses(d)       == fault' = (fault \/ memory[d] # "live")

Goes(u, d, place) == /\ busy' = [busy EXCEPT ![u] = d]
                     /\ at' = [at EXCEPT ![u] = place]
Returns(u)        == Goes(u, Nothing, "out")
In(u, d, place)   == busy[u] = d /\ at[u] = place
Turns(d)          == Observed("turns", \A v \in Users : ~Configures(v, d))

\* mutant: the pins of the old trigger stay requested
DropNothing(u, d) ==
  /\ Stores(u, d) /\ Turns(d)
  /\ gpios' = gpios
  /\ Goes(u, d, "set trigger")
  /\ Uses(d)
  /\ UNCHANGED <<loading, objects, settings, sampling, handlers, stage>>

\* trigger_store: the old pin is given back, if there is one,
DropTrigger(u, d) ==
  /\ Stores(u, d) /\ Turns(d)
  /\ gpios' = IF trigger[d] = NoPin THEN gpios
                                    ELSE gpio_deregister_out(gpios, trigger[d])
  /\ Goes(u, d, "set trigger")
  /\ Uses(d)
  /\ UNCHANGED <<loading, objects, settings, sampling, handlers, stage>>

\* the new one set,
SetTrigger(u, d, tmp) ==
  /\ In(u, d, "set trigger")
  /\ trigger' = [trigger EXCEPT ![d] = tmp]
  /\ Goes(u, d, "take trigger")
  /\ Uses(d)
  /\ UNCHANGED <<loading, objects, echo, irqnum, samples, sampling, held,
                 stage>>

\* and requested. CONFIG_PINS then requests the echo.
Requested(pin) == IF pin = NoPin THEN gpios ELSE gpio_config(gpios, pin)

TakeTrigger(u, d) ==
  /\ \/ In(u, d, "take trigger") /\ Returns(u)
     \/ In(u, d, "config trigger") /\ Goes(u, d, "take echo")
  /\ gpios' = Requested(trigger[d])
  /\ Uses(d)
  /\ UNCHANGED <<loading, objects, settings, sampling, handlers, stage>>

\* echo_store: likewise, and the interrupt after the pin.
DropEcho(u, d) ==
  /\ Stores(u, d) /\ Turns(d)
  /\ IF echo[d] = NoPin
       THEN Goes(u, d, "set echo") /\ UNCHANGED gpios
       ELSE /\ Goes(u, d, "free irq")
            /\ gpios' = gpio_deregister_in(gpios, echo[d])
  /\ Uses(d)
  /\ UNCHANGED <<loading, objects, settings, sampling, handlers, stage>>

FreeIrq(u, d) ==
  /\ In(u, d, "free irq")
  /\ handlers' = handlers \ {<<irqnum[d], d>>}
  /\ Goes(u, d, "set echo")
  /\ Uses(d)
  /\ UNCHANGED <<loading, objects, settings, sampling, gpios, stage>>

SetEcho(u, d, tmp) ==
  /\ In(u, d, "set echo")
  /\ echo' = [echo EXCEPT ![d] = tmp]
  /\ Goes(u, d, "take echo")
  /\ Uses(d)
  /\ UNCHANGED <<loading, objects, trigger, irqnum, samples, sampling, held,
                 stage>>

TakeEcho(u, d) ==
  /\ In(u, d, "take echo")
  /\ gpios' = Requested(echo[d])
  /\ Goes(u, d, "ask irq")
  /\ Uses(d)
  /\ UNCHANGED <<loading, objects, settings, sampling, handlers, stage>>

\* The interrupt is not shared: a second request of the same one fails.
Watch(d, pin) ==
  IF \E e \in Devices : <<pin, e>> \in handlers THEN handlers
                                                ELSE handlers \cup {<<pin, d>>}

AskIrq(u, d) ==
  /\ In(u, d, "ask irq")
  /\ irqnum' = [irqnum EXCEPT ![d] = echo[d]]
  /\ handlers' = Watch(d, echo[d])
  /\ Returns(u)
  /\ Uses(d)
  /\ UNCHANGED <<loading, objects, trigger, echo, samples, sampling, gpios,
                 stage>>

samples_store(u, d, tmp) ==
  /\ Stores(u, d)
  /\ samples' = [samples EXCEPT ![d] = tmp]
  /\ Uses(d)
  /\ UNCHANGED <<loading, objects, trigger, echo, irqnum, sampling, held,
                 calls>>

-----------------------------------------------------------------------------
(* write_common, the timer and the interrupt *)

\* hrtimer_init wipes a timer that is queued.
StartTimer(d) ==
  hr_timer' = [hr_timer EXCEPT ![d] = IF @ = "queued" THEN "corrupt"
                                                      ELSE "queued"]

StartSampling(u, d) ==
  /\ Observed("in order", Configured(d))
  /\ Observed("one", ~Sampled(d))
  /\ Goes(u, d, "loop")
  /\ flag1' = [flag1 EXCEPT ![d] = TRUE]
  /\ flag2' = [flag2 EXCEPT ![d] = TRUE]
  /\ sample_num' = [sample_num EXCEPT ![d] = 0]
  /\ shown' = [shown EXCEPT ![d] = 0]
  /\ spoiled' = spoiled \ {d}
  /\ StartTimer(d)
  /\ fault' = (fault \/ memory[d] # "live" \/ ~Configured(d))
  /\ UNCHANGED <<loading, objects, settings, sound, held>>

enable_store(u, d) ==
  /\ Stores(u, d)
  /\ StartSampling(u, d)
  /\ UNCHANGED stage

\* A turn of the loop that finds flag2 set; flag1 was tested before the sleep.
Pulse(u, d) ==
  /\ In(u, d, "loop") /\ flag2[d]
  /\ sound' = [sound EXCEPT ![d] = sample_num[d]]
  /\ Goes(u, d, "clear")
  /\ Uses(d)
  /\ UNCHANGED <<loading, objects, settings, sample_num, flag1, flag2, hr_timer,
                 shown, spoiled, held, stage>>

Clear(u, d) ==
  /\ In(u, d, "clear")
  /\ flag2' = [flag2 EXCEPT ![d] = FALSE]
  /\ Goes(u, d, "loop")
  /\ Uses(d)
  /\ UNCHANGED <<loading, objects, settings, sample_num, flag1, hr_timer, sound,
                 shown, spoiled, held, stage>>

EndSampling(u, d) ==
  /\ In(u, d, "loop") /\ ~flag1[d]
  /\ Returns(u)
  /\ shown' = [shown EXCEPT ![d] = 0]
  /\ spoiled' = spoiled \ {d}
  /\ Uses(d)
  /\ UNCHANGED <<loading, objects, settings, sample_num, flag1, flag2, hr_timer,
                 sound, held, stage>>

\* A tick comes too early when the pulse of the last one is not sent, or its
\* echo not heard: that sample is spoiled, and so is the next.
Overtaken(d) ==
  flag2[d] \/ sound[d] # Silent \/ \E u \in Users : In(u, d, "clear")

Spoil(d) ==
  spoiled' = IF /\ Sampled(d) /\ Overtaken(d)
                /\ Shown \in {sample_num[d], sample_num[d] + 1}
               THEN spoiled \cup {d} ELSE spoiled

\* mutant: the timer is not started again
TickOnce(d) ==
  /\ hr_timer[d] = "queued"
  /\ hr_timer' = [hr_timer EXCEPT ![d] = "idle"]
  /\ IF sample_num[d] < samples[d]
       THEN /\ sample_num' = [sample_num EXCEPT ![d] = @ + 1]
            /\ flag2' = [flag2 EXCEPT ![d] = TRUE]
            /\ UNCHANGED flag1
       ELSE /\ flag1' = [flag1 EXCEPT ![d] = FALSE]
            /\ UNCHANGED <<sample_num, flag2>>
  /\ Spoil(d)
  /\ Uses(d)
  /\ UNCHANGED <<loading, objects, settings, sound, shown, held, calls>>

\* my_hrtimer_callback
Tick(d) ==
  /\ hr_timer[d] = "queued"
  /\ IF sample_num[d] < samples[d]
       THEN /\ sample_num' = [sample_num EXCEPT ![d] = @ + 1]
            /\ flag2' = [flag2 EXCEPT ![d] = TRUE]
            /\ UNCHANGED <<flag1, hr_timer>>
       ELSE /\ flag1' = [flag1 EXCEPT ![d] = FALSE]
            /\ hr_timer' = [hr_timer EXCEPT ![d] = "idle"]
            /\ UNCHANGED <<sample_num, flag2>>
  /\ Spoil(d)
  /\ Uses(d)
  /\ UNCHANGED <<loading, objects, settings, sound, shown, held, calls>>

\* mutant: the element after the one for this sample
StoreNext(d) ==
  /\ sound[d] # Silent
  /\ <<irqnum[d], d>> \in handlers
  /\ sound' = [sound EXCEPT ![d] = Silent]
  /\ shown' = [shown EXCEPT ![d] =
                 IF Sampled(d) /\ sample_num[d] + 1 = Shown THEN sound[d]
                                                            ELSE @]
  /\ Uses(d)
  /\ UNCHANGED <<loading, objects, settings, sample_num, flag1, flag2, hr_timer,
                 spoiled, held, calls>>

\* sensor_handler stores the echo for the sample that is counted now.
Echo(d) ==
  /\ sound[d] # Silent
  /\ <<irqnum[d], d>> \in handlers
  /\ sound' = [sound EXCEPT ![d] = Silent]
  /\ shown' = [shown EXCEPT ![d] =
                 IF Sampled(d) /\ sample_num[d] = Shown THEN sound[d] ELSE @]
  /\ Uses(d)
  /\ UNCHANGED <<loading, objects, settings, sample_num, flag1, flag2, hr_timer,
                 spoiled, held, calls>>

\* Nothing in range, or no handler for the interrupt.
EchoLost(d) ==
  /\ sound[d] # Silent
  /\ sound' = [sound EXCEPT ![d] = Silent]
  /\ spoiled' = IF Sampled(d) /\ sound[d] = Shown THEN spoiled \cup {d}
                                                 ELSE spoiled
  /\ UNCHANGED <<loading, objects, fault, settings, sample_num, flag1, flag2,
                 hr_timer, shown, held, calls>>

-----------------------------------------------------------------------------
(* The device files *)

Stage(u, d, place) == stage[u][d] = place /\ busy[u] = Nothing
Goto(u, d, place)  == stage' = [stage EXCEPT ![u][d] = place]

Open(u, d) ==
  /\ Stage(u, d, "closed")
  /\ d \in bound
  /\ unloading # "driver" /\ Observed("no loss", unloading = Nothing)
  /\ Goto(u, d, "open")
  /\ UNCHANGED <<loading, objects, fault, settings, sampling, held, busy, at>>

\* sensor_ioctl
ConfigPins(u, d, p_trigger, p_echo) ==
  /\ Stage(u, d, "open") /\ Turns(d)
  /\ Observed("same", /\ trigger[d] \in {NoPin, p_trigger}
                      /\ echo[d] \in {NoPin, p_echo})
  /\ trigger' = [trigger EXCEPT ![d] = p_trigger]
  /\ echo' = [echo EXCEPT ![d] = p_echo]
  /\ Goes(u, d, "config trigger")
  /\ Goto(u, d, "pins")
  /\ Uses(d)
  /\ UNCHANGED <<loading, objects, irqnum, samples, sampling, held>>

SetParams(u, d, c_samples) ==
  /\ Stage(u, d, "pins")
  /\ samples' = [samples EXCEPT ![d] = c_samples + 2]
  /\ Goto(u, d, "params")
  /\ Uses(d)
  /\ UNCHANGED <<loading, objects, trigger, echo, irqnum, sampling, held, busy,
                 at>>

sensor_write(u, d) ==
  /\ Stage(u, d, "params")
  /\ StartSampling(u, d)
  /\ Goto(u, d, "written")

\* What follows if (ret) is the release of the trigger pin: only a timer that
\* was queued brings it, so the pin stays until the module is removed.
sensor_close(u, d) ==
  /\ IF "in order" \in Rules THEN Stage(u, d, "written")
                             ELSE stage[u][d] # "closed" /\ busy[u] = Nothing
  /\ Observed("one", ~Sampled(d)) /\ Turns(d)
  /\ handlers' = handlers \ {<<irqnum[d], d>>}
  /\ hr_timer' = [hr_timer EXCEPT ![d] = IF @ = "queued" THEN "idle" ELSE @]
  /\ gpios' = gpio_deregister_in(
                IF hr_timer[d] = "queued"
                  THEN gpio_deregister_out(gpios, trigger[d])
                  ELSE gpios, echo[d])
  /\ fault' = (fault \/ memory[d] # "live"
                     \/ hr_timer[d] \in {"raw", "corrupt"})
  /\ Goto(u, d, "closed")
  /\ UNCHANGED <<loading, objects, settings, sample_num, flag1, flag2, sound,
                 shown, spoiled, busy, at>>

-----------------------------------------------------------------------------
Store(u, d) ==
  \/ DropTrigger(u, d) \/ DropEcho(u, d) \/ enable_store(u, d)
  \/ \E tmp \in Requests : samples_store(u, d, tmp)

Call(u, d) ==
  \/ Open(u, d)
  \/ \E p_trigger \in TriggerPins[d], p_echo \in EchoPins[d] :
       ConfigPins(u, d, p_trigger, p_echo)
  \/ \E c_samples \in Requests : SetParams(u, d, c_samples)
  \/ sensor_write(u, d) \/ sensor_close(u, d)

Configure(u, d) ==
  \/ \E tmp \in TriggerPins[d] : SetTrigger(u, d, tmp)
  \/ \E tmp \in EchoPins[d] : SetEcho(u, d, tmp)
  \/ TakeTrigger(u, d) \/ FreeIrq(u, d) \/ TakeEcho(u, d) \/ AskIrq(u, d)

Loop(u, d) == Pulse(u, d) \/ Clear(u, d) \/ EndSampling(u, d)
Turn(u)    == \E d \in Devices : Configure(u, d) \/ Loop(u, d)
Sound(d)   == Echo(d) \/ EchoLost(d)
Detach     == Unloaded \/ \E d \in Devices : Remove(d) \/ Leave(d)

Next ==
  \/ \E m \in Modules : Load(m) \/ Unload(m)
  \/ \E d \in Devices, result \in Results : Probe(d, result)
  \/ Detach
  \/ \E u \in Shells, d \in Attributes : Store(u, d)
  \/ \E u \in Programs, d \in Files : Call(u, d)
  \/ \E d \in Devices : Tick(d) \/ Sound(d)
  \/ \E u \in Users : Turn(u)

Spec == Init /\ [][Next]_vars

\* A call that is under way runs, and a queued timer ticks.
Fairness ==
  /\ \A u \in Users : WF_vars(Turn(u))
  /\ \A d \in Devices : WF_vars(Tick(d))

FairSpec == Spec /\ Fairness

-----------------------------------------------------------------------------
(* Correctness *)

\* No timer, interrupt, open file or call is left with a device whose
\* structure is not there, and none has used one; a device has a minor number
\* while it is bound.
NothingDangles ==
  /\ ~fault
  /\ \A d \in Devices :
       \/ hr_timer[d] = "queued"
       \/ \E io_echo \in IOPins : <<io_echo, d>> \in handlers
       \/ \E u \in Users : busy[u] = d
       \/ \E u \in Programs : stage[u][d] # "closed"
       => d \in bound \cap numbered /\ memory[d] = "live" /\ class

\* script.sh:3 the modules are removed and reinserted: that destroys no class
\* which is not there.
ClassGoesOnce == ~class_fault

Settled(d) == \A u \in Users : ~Configures(u, d)

\* Whenever nobody is setting pins, the driver has requested the pins of its
\* devices' triggers, and of the echoes whose interrupt it has, and no others:
\* reconfiguring one device neither leaks a pin nor takes one from the other.
PinsAccounted ==
  (\A d \in Devices : Settled(d)) =>
    gpios = (UNION {Columns(trigger[d]) :
                      d \in {e \in bound \ {leaving} : trigger[e] # NoPin}})
       \cup (UNION {Columns(echo[d]) :
                      d \in {e \in bound : <<echo[e], e>> \in handlers}})

\* A device that is told of its echoes has requested the pin they come by.
HearsOnItsOwnPin ==
  \A d \in bound :
    <<echo[d], d>> \in handlers /\ Settled(d) =>
      Columns(echo[d]) \subseteq gpios

\* A module that has let go of both devices has given everything back: what
\* a program's close left requested, the class and both structures. So
\* script.sh works after user.c if the modules are removed and reinserted.
UnloadReleases ==
  unloading # Nothing /\ bound = {} /\ leaving = Nothing =>
    /\ gpios = {} /\ handlers = {}
    /\ ~class
    /\ \A d \in Devices : memory[d] # "live"

\* After a sampling that counted to three, DISTANCE shows sample 3 of this very
\* sampling, unless a tick overtook that sample or its echo was lost.
ShowsThisSampling ==
  [][\A u \in Users, d \in Devices :
       /\ Samples(u, d) /\ busy'[u] = Nothing
       /\ sample_num[d] >= Shown /\ d \notin spoiled
       => shown[d] = Shown]_vars

\* A store to ENABLE and a write return, also while the other device samples.
SamplingEnds ==
  \A u \in Users, d \in Devices : Samples(u, d) ~> ~Samples(u, d)
=============================================================================
