# Kinux kernel projects: TLA+ specifications and proofs

The repository holds three pieces of kernel code for the Intel Galileo board:
a barrier for user threads, added to the kernel as three system calls
(`Project4`); drivers for an ultrasonic distance sensor (`Project2`); drivers
for a ring of WS2812 LEDs (`Project3`). This directory models them in TLA+,
checks the models with TLC and proves theorems about them with TLAPS.

Paths below are relative to `src/`. `barrier.patch` adds the file
`barrier_sys.c`; its functions are quoted by their lines in the patch.

## The system

| Part | State it keeps | Operations | Interacts with |
|---|---|---|---|
| Barrier synchronisation, `Project4/barrier.patch` 884-924, 995-1096 | per barrier: `left`, `sync_num`, `cond_flag`, `timeout_flag`, `barrier_lock`, `my_queue`, `hr_timer` | `barrier_wait`, `my_callback` | registry (lookup), scheduler, hrtimers, signals |
| Barrier registry, `Project4/barrier.patch` 871-882, 930-988, 1000-1018, 1103-1141 | `first_flag`, `barrier_list`, `init_dest_lock`, `wait_lock`, memory of the barriers | `barrier_init`, `barrier_destroy`, lookup in `barrier_wait` | allocator, synchronisation (`waitqueue_active`) |
| Barrier test program, `Project4/user.c` | phases of two processes | create two barriers, start threads, join, destroy | the three calls |
| Ultrasonic driver, `Project2/part1/ultrasonic.c` | one `struct1`: pins, `samples`, `sample_num`, `flag1`, `flag2`, `distance`, timer | `open`, `ioctl`, `write`, `close`, timer callback, echo interrupt | pin multiplexing, hrtimers, interrupts |
| Ultrasonic platform driver and devices, `Project2/part2` | `struct1[2]`, `class_flag`, `devt`; the same fields per sensor | load and unload of two modules, probe, remove, six sysfs attributes, the calls above | driver core, allocator, pin multiplexing, hrtimers, interrupts |
| Pin multiplexing, `pinmux.h` (three copies) | the GPIOs requested | `gpio_config`, `gpio_deregister`, `gpio_deregister_out`, `gpio_deregister_in` | the drivers |
| Bit-banged LED ring, `Project3/part2` | counters of a state machine, or of a loop of `ndelay`; the words left to send | module init and exit, open, write, close, timer callback | hrtimers, the board's register, pin multiplexing |
| SPI LED ring, `Project3/part1` | one shared structure with two buffers, the parameters of the SPI device | load and unload of two modules, probe, remove, open, ioctl, write, close | SPI core, GPIOs of the board |

What is hard here, and what makes each part correct:

* **Synchronisation.** Threads of two rounds, a timer on another processor and
  early wake-ups share one counter, one flag and one wait queue. Correct means:
  a round releases exactly the threads that came; the counter returns to its
  start; the gate between rounds opens and shuts once; nobody sleeps on a
  condition that holds; the return value tells how the round ended; every call
  returns when it can.
* **Registry.** The list is initialised by its first user, counted before the
  lock is taken, and searched under two different mutexes, so that a walk may
  stand on a node that is added, moved or freed. Correct means:
  identifiers are unique, the list holds exactly the live barriers, a barrier
  in use is not freed, a thread waits at the barrier it named.
* **Ultrasonic drivers.** A polling loop, a timer and an interrupt share flags
  and a sample index with no common lock. Correct means: each element that is
  averaged holds the echo of its own pulse of this write, every write returns,
  `close` gives back what `ioctl` took.
* **Platform driver.** Two devices share a class, a device number and the
  decision when both structures are freed; attributes and files share each
  structure, without a lock, in memory that is not initialised. Correct means: resources
  outlive their users and are released once, each device owns the pins it was
  given, a sampling ends and its own sample is shown.
* **Bit banging.** A callback counts half bits and LEDs down in two counters
  that the next write sets one after the other while it may still run; an
  `ndelay` loop sets its own counter back. Correct means: the counters account
  for the bits sent, the ring gets as many as it has room for, the timer stops
  before what it uses goes.
* **SPI.** One structure, two buffers, a write in three steps. Correct means:
  the message decodes to what was written, a buffer belongs to one open file,
  the pins are free for the next driver.

The full list of hazards, each at its line and with the properties that watch
it, is `hazards` in `PROJECT.json`.

## Modules

| Module | Models |
|---|---|
| `BarrierSpec` | what a reusable barrier promises: threads gather, are released together, and leave before the next round gathers |
| `BarrierSync` | one live barrier: every step of `barrier_wait` and `my_callback` |
| `BarrierSync_proofs` | theorems about `BarrierSync` |
| `BarrierRegistry` | `barrier_init`, `barrier_destroy`, the lookup; several processes |
| `BarrierRegistry_proofs` | theorems about `BarrierRegistry` |
| `PinMux` | which GPIOs the IO pins request and free (operators only) |
| `PinMux_proofs` | lemmas about the table of pins and about requesting them |
| `Ultrasonic` | the driver of `Project2/part1`, with `PinMux` for its pins |
| `Ultrasonic_proofs` | theorems about `Ultrasonic` |
| `PlatformDriver` | the driver and the two devices of `Project2/part2`, with `PinMux` |
| `PlatformDriver_proofs` | theorems about `PlatformDriver` |
| `BitBang` | the two bit-banging drivers of `Project3/part2`, with `PinMux` |
| `BitBang_proofs` | theorems about `BitBang` |
| `SpiRing` | the SPI driver and device of `Project3/part1` |
| `LedRing` | `BitBang` and an instance of `SpiRing` on one board: they share `gpios`, and one driver is inserted at a time |
| `LedRing_proofs` | theorems about `LedRing`, and so about `SpiRing` and `BitBang` on one board |
| `MCBarrierSync`, `MCBarrierRegistry`, `MCUltrasonic`, `MCPlatformDriver`, `MCLedRing` | values for TLC |

`BarrierSync` and `BarrierRegistry` split `barrier_wait` at the end of the
lookup: `Call` of the first is the lookup that succeeds, and "gate, asleep,
woken" of the second is everything that follows it. They meet in the wait
queue: `BarrierRegistry` lets a thread fall asleep, wake and leave in every
order, so every behaviour of `BarrierSync` without signals is among its behaviours, and what it
shows of the memory holds for them.

### BarrierSync and the code

`pc` names places in `barrier_wait`. Each action is one store that others can
see, with the local computation before it.

| Action | Lines of `barrier.patch` | What it does |
|---|---|---|
| `Call` | 1000-1018 | the lookup has found this barrier |
| `SleepAtGate`, `PassGate` | 1021 | wait until the previous round is over (`cond_flag == 0`) |
| `LockFirst`, `StartRound` | 1025-1038 | first mutex; the first arrival arms the timer |
| `Arrive` | 1040-1049 | `left--`; the last one goes on, others unlock and sleep |
| `CancelTimer`, `Release` | 1051-1064 | the last arrival: `hrtimer_cancel`, open, wake all, `left++`, return 0 |
| `SleepInRound`, `WakeInRound` | 1048 | wait to be released (`cond_flag == 1`) |
| `LockSecond`, `Depart` | 1066-1074 | second mutex; `left++`; compare with the count |
| `ClearTimeout`, `CloseRound` | 1075-1082 | the last to leave: `timeout_flag = 0`; shut, count the round, wake all |
| `Return` | 1084-1096 | unlock; `-ETIME` if `timeout_flag`, else 0 |
| `TimerExpires`, `TimerWakes` | 915-924 | the callback's two stores, without the mutex |
| `Signal`, `InterruptedWait`, `InterruptedLock` | 1021, 1025, 1048, 1066 | the interruptible waits and locks return early and the result is ignored |

`wait_event` is a test and, if it fails, membership in `my_queue`;
`wake_up_all` empties the queue and each woken thread tests again. Waking and
the store that precedes it are one step, except in the callback: between the
two, a thread could only test its condition and find it true.
`timeout_flag` is not written by `barrier_init`; its first value is any member
of `FlagGarbage`. `unsigned int` wraps at `UINT_MAX`. On a uniprocessor
(`SMP = FALSE`, the Galileo) no thread steps between the two stores of the
callback.

### BarrierRegistry and the code

A node is an address `kmalloc` may return.

| Action | Lines of `barrier.patch` | What it does |
|---|---|---|
| `CheckFirst`, `SetFirst`, `InitGlobals` | 936-943 | `first_flag` is read, written and acted on |
| `StartCount`, `CountBarrier`, `EndCount` | 945-952 | the walk that counts, with no lock, one node a step |
| `LockInit`, `Publish`, `Fill` | 954-986 | the lock; `kmalloc`, identifier and `list_add`; the other fields and the unlock |
| `LockWait`, `WaitFinds`, `WaitRefused` | 1000-1018 | the lookup of `barrier_wait`, under `wait_lock` |
| `SleepOnQueue`, `WakeAll`, `LeaveBarrier` | 1020-1096 | what follows it: `BarrierSync` has the rest |
| `LockDestroy`, `DestroyFinds`, `DestroyRefused` | 1108-1124 | the lookup of `barrier_destroy`, under `init_dest_lock` |
| `TestBusy`, `Free` | 1126-1139 | `waitqueue_active`; `list_del`, `kfree`, unlock |
| `WalkOn`, `Stray` | 948, 1003, 1111 | a walk goes on to the next node, or stands on one that has been freed |

`found[t]` is the node a call stands on, from the first node of its walk to the
return; `NoNode` is the list head, where a walk ends. A node that is freed under
a walk and not allocated again leads it to `LIST_POISON1` (`Stray`); one that is
allocated again is at the head of the list, and the walk goes on from there.
`Publish` puts a barrier on the list with the `tgid` that the memory held: that
of the barrier it was before, or one of `Garbage`. `Oops` is the use of a list
head or mutex that is still zero. `Program` says how the calls are used: `any`
order, `joined` (no destroy while a thread of the process is in `barrier_wait`)
or `user`: the main thread makes its barriers, its threads wait on them, it
joins the threads and destroys the barriers (`NextPhase`). `FirstAlone`
says that the first `barrier_init` after boot has no concurrent call. That is
not so in `user.c`, whose two children race for it (run `first_race`); with it
the rest of the list can be looked at on its own.

### Ultrasonic and the code

The loop of `write` is five steps (`TestFlag1`, `TestFlag2`, `RaiseTrigger`,
`LowerTrigger`, `ClearFlag2`), the callback is three (`CountSample`,
`AskForPulse`; `EndWrite`), the echo interrupt one. `ioctl` and `close` are one
step each. A pulse is named by the `sample_num` at which it was sent and a
distance by the pulse it measures, so a sample in the wrong element, of the
wrong pulse or of an earlier write shows; clock arithmetic does not. Element -1
of `timestamp`, which the echo of the first pulse writes, is the last element
of `distance`, and the model stores there. The sensor is outside: an echo may
come at any time after its pulse, or never. The history variable `spoiled`
collects the samples of this write of which it cannot be expected: a tick that
finds `flag2` set, the pulse half-way or the echo on its way spoils the sample
that is counted and the next, and an echo that is lost its own. `StartWrite`
counts the echo of an earlier write that is still on its way as one of sample 0.
`hrtimer_init` on a queued timer leaves it `corrupt` (it never fires);
`hrtimer_cancel` on a timer never initialised does not return (`stuck`).

### PlatformDriver and the code

| Action | Lines | What it does |
|---|---|---|
| `Load`, `Unload`, `Unloaded` | `platform_device.c` 36-61, `platform_driver.c` 704-715 | insmod and rmmod; static data goes with the driver |
| `Probe` | 535-657 | allocate a structure, the class for the first device, the device |
| `Remove`, `Leave` | 660-701 | interrupt, timer and pins; then the device node, and with the last one the class and both structures |
| `DropTrigger`, `SetTrigger`, `TakeTrigger` | 320-348 | a store to `TRIGGER`: release the old pin, set, request the new one |
| `DropEcho`, `FreeIrq`, `SetEcho`, `TakeEcho`, `AskIrq` | 361-397 | a store to `ECHO`: the same, and the interrupt |
| `samples_store`, `enable_store` | 410-498 | the other attributes that matter, all through `get_structp` |
| `StartSampling`, `Pulse`, `Clear`, `EndSampling` | 159-189 | `write_common`, for `ENABLE` and for `write`: a pulse, then `flag2 = 0` |
| `Tick`, `Echo` | 237-286 | the timer callback, the interrupt |
| `ConfigPins`, then `TakeTrigger`, `TakeEcho`, `AskIrq` | 107-128 | `CONFIG_PINS`: set both pins, request them, ask for the interrupt |
| `Open`, `SetParams`, `sensor_write`, `sensor_close` | 86-97, 130-156, 214-227 | the other calls on the device files, in the order of `user.c` |

`memory` says what `struct1[i]` points to. `fault` says that memory was used that
is not there, that a class was made a second time, or that a timer was cancelled
that was never initialised; `class_fault`, that a class was destroyed that is not
there, which the last `remove` always does (694-695, `ClassTwice.cfg`).
`hr_timer` is `raw` until the first `hrtimer_init`, and `corrupt` when that wipes
a queued timer. `Uninitialised` is `kmalloc`: pins outside of every range, or,
with `Recycles`, the structures that were freed, the last one first.

No lock is held while pins are requested or released, and those calls sleep: each
is a step, between which another process may set the pins of the same or the
other device. The timer callback has no guard but that its timer is queued: it
may come before a pulse is sent, between the pulse and `flag2 = 0`, and before
the echo. `sound` is the sample whose echo is on its way, `shown` the one whose
echo is in the element that `DISTANCE` prints, `spoiled` the devices whose sample
3 has been overtaken by a tick or has lost its echo, as in `Ultrasonic`.

What those who use the driver observe is a set of `Rules`, each of which can be
dropped; the passing runs take all of them, and the table of settings below tells
what happens without each one.

| Rule | Says |
|---|---|
| `no loss` | a module is removed when nobody samples, sets pins or has a file open |
| `sampled` | and when every device has sampled once |
| `both` | then the other module is removed as well, before either is loaded again |
| `one` | a device samples for one process at a time |
| `turns` | one process at a time sets the pins of a device, or closes it |
| `same` | a program names the pins that a device has, if it has some |
| `in order` | a device samples when its pins and its samples are set, and is closed after that |

### The LED ring and the code

`BitBang` steps through `my_hrtimer_callback` one callback at a time (`Raise`,
`Lower`, the end) and through the loop of `bbang_ndelay.c` one bit at a time
(`SendBit`). `write` of `bbang_hrtimer.c` is a step for each of its stores, in
the order of the program: `hrt_write` (the completion, 183), `ResetLed` (197),
`ResetCount` (198), `Fill` (an element of `msg` each, 200-203), `StartTimer`
(206), then the wait. The timer of a write that was interrupted may call back
between any two. `c` counts half bits as in the code and wraps as `int` does;
`msg[16]`, which both drivers shift after the last LED, is the field that
follows `msg` in each structure: `c` itself, and the name. `bit` and `done` start as
what `kmalloc` left (`done` in `Garbage`). `high` is the pin: a bit is sent when it
goes down, and setting it low when it is low sends none. `sent` and `ones` record
what the ring was sent since `c` was set, `skipped` where `led_count` was then (not
0 if a callback has come after line 197), and `upright` whether the first half of
a bit was due. Writes of two processes take turns, which the code does not see to:
`init_completion` forgets who waits, and the two loops would mix their bits; a
write that a signal ends makes room for the next while its timer goes on.

`SpiRing` splits `write` where the code could be stopped or joined by another:
copy, encode, hand over. `Encode` is `bits_encode`, a byte for each bit;
`Decode`, the reference it is checked against, is what the ring does with the
message: 0xF0 is a one. `copy_from_user` may stop half-way (`Faulty`); it zeroes
the rest, `write` encodes and then fails. A write longer than `tx_buffer` is a
fault, as nobody compares its length; `Fits` is that there is none. `RESET` takes
effect field by field, and what it has set stays with the SPI device when the
driver is removed.

`LedRing` is the disjunction of both next-state relations, each with the other
module's variables unchanged, and with a driver inserted only when no other is
(`Project3/README.md` 43-51).

## Runs that pass

| Run | Instance | Shows |
|---|---|---|
| `crowd` | 4 threads, count 3, timeout, SMP | `LeftAccounting`: the counter is the count less the threads inside; `GateNeverStuck`: an open gate has somebody left to shut it; `TimerWithinRound`: a timer is armed only for a round that gathers; `NoLostWakeup`: a sleeper's condition is false; `Core`: the inductive invariant of the proofs; `KeepsPromise`: `BarrierSync` implements `BarrierSpec` |
| `program` | 3 threads, count 3, no timeout, all keep calling | `EveryCallReturns`; `KeepsStrictPromise`: rounds never overlap |
| `timed` | 3 threads, count 3, timeout, SMP, `timeout_flag` anything at first | `ArrivedThreadReturns`: a thread that came gets out even if nobody else calls; `EtimeMeansTimeout`: `-ETIME` is told of a round only if the timer, or what the memory held, raised the flag for it or for the round before |
| `signals` | 2 threads, count 2, both may be signalled anywhere | `SignalledThreadLeaves`; `NoLostWakeup` survives interrupted waits and unlocks by a thread that does not own the mutex |
| `registry` | 1 process, 2 threads, 3 addresses, `any` order of calls | `LiveBarriersListed`: list and memory agree; `LockedUseIsSafe`: a call that holds `init_dest_lock` stands on no barrier that was freed |
| `user_program` | 2 processes of 2 threads, 3 addresses, `user` | `UniqueIds`, though one process counts while the other destroys; `WaitsAtOwnBarrier`, though a node is on the list with the `tgid` of the barrier it was before |
| `sampling` | 1 process running `user.c` for ever, 2 pins, 1 or 2 samples, SMP | `AveragesThisWrite`: each element averaged is the echo of its own pulse, but for those a tick or a lost echo has spoiled; `OpensAndClosesBalance`, `WriteReturns` |
| `platform` | 2 devices, 1 process with the attributes of `HSC_1`, 1 with the file of `HSC_2`, all rules | `NothingDangles`: no timer, interrupt, file or process outlives its structure; `PinsAccounted`: when nobody is half-way the GPIOs requested are those of the pins the devices have; `UnloadReleases`: an unloaded module has given everything back; `ShowsThisSampling`: `DISTANCE` shows a sample of this sampling, unless a tick or a lost echo has spoiled it; `SamplingEnds`: the polling loop ends, in both of its callers |
| `led_ring` | 1 process, 3 LEDs of 3 x 2 bits, 3 bytes of SPI buffer | `BitsAccounted`: the two counters say how many bits were sent, with the LEDs skipped, whatever was interrupted before; `CoversTheRing`, `LoopEnds`: the `ndelay` loop ends when the ring has got as many bits as its LEDs have; `MessageShowsWrite`: the message decodes to the bytes written; `RingSafe`: no timer runs without its driver, no buffer is used that is not there; `BoardIsFree`: no pin outlives its driver |

Every property of these runs has a mutant: a plausible bug in a mapped
definition under which TLC finds the property violated.

**Bounds.** Count 3 has a first, a middle and a last thread in both
directions; the fourth thread of `crowd` arrives while a round drains, the case
the gate is for. Threads call again without bound, and `UINT_MAX = 3` lets
`sync_num` wrap, so the state space is finite and holds all long histories.
Three addresses allow two live barriers and one being created or reused; at
least as many as any property compares. `MaxId` is the largest identifier tried
as an argument, `MaxCount` the number at which a walk that goes in circles stops
counting: as many as there are addresses. Three or four samples (`Requests` plus two) have the first
pulse without an element, the averaged ones, and the aliased last one.
`ArraySize` is 4 for the code's 20; the code does not compare `samples` with
it, and the model assumes that `samples` fits. The registry's runs do not check
deadlock: all threads may have faulted, all addresses may be in use, or the
programs may have ended.

In `platform` the first device has two triggers to change between, so a
reconfiguration takes and gives back pins while the other device is configured or
samples, and the modules come and go without bound. `Attributes` and `Files` name the
devices used through sysfs and through a file. With the attributes of both devices all but
`SamplingEnds` have been checked as well (730 356 states), which adds a device that is used in both ways
in turn; with fairness that is too many states for one run. `Requests = {1}` gives samplings that
count to 1 through the attributes and to 3 through `SET_PARAMS`, the first that
reaches the element shown.

In `led_ring` each of 3 LEDs has 6 bits for the 24 of the code, and there are no more
LEDs than bits (`BitBangAssumption`, `LEDs <= 3 * Width`, 16 <= 24 in the code), which is what
`CoversTheRing` needs of the numbers: with 3 there is a first, a middle and a last,
and interrupted writes can end in each. In `RingDark.cfg` and `RingCut.cfg` the LEDs are the 16 of the
code and a colour has 7 bits: a word of 28 bits fits TLC's integers.
Three bytes of buffer hold one pixel: the encoder treats bytes alike, and
the colours differ in every bit position. A second process breaks
`RingSafe`, see the table below; what is said of the bits also holds with two, in
the model and by the theorems for any number.

**Fairness.** `FairSpec` of `BarrierSync` gives weak fairness to the steps of a
thread inside `barrier_wait`, to an armed timer and to a running callback: the
scheduler runs what can run, and hrtimers expire. Weak fairness of all steps of
one thread taken together is enough, as each mutex is only contended by threads
that reach the same place a bounded number of times per round. No thread is
assumed to call; only `ProgramSpec` (run `program`) adds that every thread comes
back, as the threads of `user.c` do. `FairSpec` of `Ultrasonic` makes the loop
and the timer run; it does not assume that an echo arrives. `FairSpec` of
`PlatformDriver` makes calls under way go on and queued timers tick; it does not
assume an echo either. `RingSpec` of `LedRing` makes the `ndelay` loop run, which
sleeps and waits for nothing.

## Runs that find a disagreement

| Run | Property, and where it comes from | What happens |
|---|---|---|
| `last_leaver` | `ZeroMeansSynchronised`, `Project4/README.md:25` | the last thread to leave a timed-out round has just cleared `timeout_flag` and returns 0 |
| `first_race` | `FaultsOnlyBeforeFirstInit`, `barrier.patch:868` | both children of `user.c` make the first `barrier_init`: one sets `first_flag`, the other goes on to a list head that is still zero |
| `reinserted` | `HearsOnItsOwnPin`, `Project2/part2/script.sh:3` | after the modules are removed and reinserted, as the script asks, the structures come back swapped with the old pins in them; `echo_store` of one sensor frees the echo pin of the other |

TLC finds these disagreements too, each with the configuration named, whose constants are
those of a run with one of its restrictions lifted:

| Configuration | Property, and where it comes from | What happens |
|---|---|---|
| `StaleFlag.cfg` of `MCBarrierSync` | `EtimeNeedsTimer`, `Project4/README.md:25` | `barrier_init` does not set `timeout_flag`: in memory that held a one the first round of a barrier without a timeout returns `-ETIME` |
| `FreedWalk.cfg` of `MCBarrierRegistry` | `NoUseAfterFree`, `barrier.patch:867` | one child of `user.c` counts the list without the lock and stands on a node that the other destroys |
| `BusyDestroy.cfg` of `MCBarrierRegistry` | `BusyIsRefused`, `Project4/README.md:29` | a thread past the lookup and not asleep does not keep its barrier from being destroyed |
| `StaleOwner.cfg` of `MCBarrierRegistry` | `WaitsWithinProcess`, `Project4/README.md:24` | a new barrier is on the list with the `tgid` of one that was freed, and a thread of that process finds it under its identifier |
| `Triggers.cfg` of `MCUltrasonic` | `TriggersAsDocumented`, `Project2/part1/README.md:46` | the file says "for samples+2 times"; `write` sends a pulse before the first tick and one for each of the request + 2 that it counts |
| `ClassTwice.cfg` of `MCPlatformDriver` | `ClassGoesOnce`, `Project2/part2/script.sh:3` | the last device to be removed unregisters the class (694) and destroys it again (695), at every removal of the modules |
| `PinsRace.cfg` of `MCPlatformDriver` | `UnloadReleases`, `Project2/part2/script.sh:3` | a store to `TRIGGER` has released the pin and not set the new one when `CONFIG_PINS` sets and requests its own, which the store then forgets: its GPIOs stay requested after both modules are gone |
| `RingDark.cfg` of `MCLedRing` | `ShowsPixels`, `bbang_ndelay.c:62` | the loop tests `0x80` of a word whose colours lie above it, and so does the callback of `bbang_hrtimer.c`: the ring is sent zeroes |
| `RingCut.cfg` of `MCLedRing` | `CompletesTheRing`, `bbang_hrtimer.c:208` | `done` is set in the memory of the driver, or was left so by a write that was interrupted: the write begins with the second half of a bit, `c` runs out after a first half, and it is completed after one LED with the pin left high |

Other settings in which a property above fails, each reproduced by changing the
constants of a run; those of `platform` have the attributes of both devices and the file of
`HSC_1`, as `PinsRace.cfg` has:

| Setting | Property | Why |
|---|---|---|
| `BarrierSync`, 1 thread, `Count = 1` | `GateNeverStuck` | the only thread opens the gate and returns; nobody runs the code that shuts it, and the second call sleeps for ever |
| 2 threads, `Count = 2`, one interruptible | `ZeroMeansSynchronised` | an interrupted wait goes on and returns 0 |
| 2 threads, `Count = 2`, timeout | `KeepsStrictPromise` | a thread that tested the gate before the timeout joins the round that drains (`JoinDrain` of `BarrierSpec`) |
| `timed` with `FlagGarbage = {FALSE}` | `EtimeNeedsTimer` (`Project4/README.md:25`) | the callback opens the gate, the whole round drains on another processor, and only then `timeout_flag` is set: the next, complete round returns `-ETIME`. With `SMP = FALSE` the property holds |
| `first_race` | `LiveBarriersListed` (`barrier.patch:936`) | two first calls see `first_flag` zero; the second `INIT_LIST_HEAD` drops the first one's barrier |
| `registry`, one thread, `MaxId = 3` | `UniqueIds` (`Project4/README.md:24`) | init, init, destroy(1), init: two barriers have identifier 2 |
| `registry` | `UniqueIds` | two threads count the barriers before either has the lock |
| `registry` | `NoUseAfterFree` | a lookup of `barrier_wait`, or the wait itself, meets a destroy of the same process |
| three processes of the kind of `user.c`, four addresses | `UniqueIds` | a counted node is freed by the second process and reused by the third at the head of the list: the walk counts twice |
| `user_program` with `Garbage = {P, NoProcess}` | `WaitsAtOwnBarrier` | memory that was no barrier before may also name a process, one that has not ended |
| `sampling` with two processes | `WriteReturns`, `OpensAndClosesBalance` | one structure serves both: the second `hrtimer_init` corrupts the first one's timer, a close frees the other's pins |
| `sampling` with `Pins = {3, 5}` | `OpensAndClosesBalance` | `gpio_deregister` frees columns `> 0`, so GPIO 0 of IO5 stays requested |
| `sampling` with `Program = "any"` | deadlock | close without write cancels a timer that was never initialised |
| `platform` without `"no loss"` | `NothingDangles`, `PinsAccounted`, `UnloadReleases`, deadlock | a device or module goes while a call uses the structure; a removal during `ENABLE` cancels the timer, so the loop polls for ever and the removal waits for it |
| `platform` without `"sampled"` | `NothingDangles` | remove or close cancels a timer that no sampling has initialised |
| `platform` without `"both"` | `NothingDangles` | the device module alone is removed and reinserted: `class_flag` is still set and the class is gone |
| `platform` without `"one"` | deadlock | two samplings of one device: the second `hrtimer_init` wipes the queued timer, and both loops poll for ever |
| `platform` without `"turns"` | `PinsAccounted`, `UnloadReleases` | `PinsRace.cfg` |
| `platform` without `"same"` | `PinsAccounted`, `UnloadReleases` | an attribute and `ioctl` give one device different pins, and those of the former stay requested |
| `platform` without `"in order"` | `NothingDangles` | a sampling or a close before the pins are set |
| `platform` with one echo pin for both devices | `PinsAccounted` | the device that gives the pin back takes it from the other, and the other's interrupt stays |
| `platform` with `"no region"` or `"no cdev"` in `Results` | `NothingDangles`, `UnloadReleases` | a probe that fails half-way keeps what it has made |
| `led_ring` with two processes | `RingSafe` | closing one of two opens of `bbang_hrtimer.c` frees the pins and unmaps the register under the other |
| `led_ring` with `data_buff_size = 2` | `RingSafe` | a write of 3 bytes overflows `tx_buffer` (`spi_ring_driver.c:111`); `user.c` writes the 48 it holds |
| `led_ring` with `Careful = FALSE` | `RingSafe` | the device of the SPI driver is removed while it is open |
| `led_ring` with `"no cdev"` in `Results` | `RingSafe` | module init or probe fails and leaves the class behind |

`sensor_read`, which `Project2/part1/README.md` describes, is not among the file
operations.

What else the LED models show, without a document to contradict: a write of
`bbang_hrtimer.c` waits until a signal comes, because after the last LED `c`
shifts itself and comes to rest at 4 and never at 0. Each LED after the first gets
one bit less than a colour has, in the `ndelay` loop, and one more turn sends what is missing of the total.
`bbang_ndelay.c` requests no pin and never unmaps the register. Each open of the
SPI device leaks an `encode_buffer`; `RESET` changes the SPI device but not
`speed_hz` of later transfers, and with a mode that does not exist it changes the
rest before it fails.

## Theorems

The theorems of `BarrierSync_proofs` hold for every finite set of threads, every
`UINT_MAX`, with or without a timeout.

| Theorem | Assumes | Says |
|---|---|---|
| `TypeCorrect` | - | `TypeOK` is an invariant |
| `WakeupsReachSleepers` | - | so is `NoLostWakeup`, signals included |
| `CoreInvariant` | no signals, count >= 1 | so is `Core` |
| `LeftIsAccounted` | no signals, count >= 1 | so is `LeftAccounting` |
| `GateIsShutAgain` | no signals, count >= 2 | so is `GateNeverStuck` |
| `TimerStaysWithinRound` | no signals, count >= 2 | so is `TimerWithinRound` |
| `ImplementsPromise` | no signals, count >= 1 | `BarrierSync` implements `BarrierSpec` under the mapping `Gathered`, `Leaving` |
| `ImplementsStrictPromise` | no signals, no timeout, as many threads as the count | it implements the barrier whose rounds never overlap |
| `EtimeIsHonest` | no signals, count >= 2 | every step satisfies `EtimeMeansTimeout`, on any number of processors and in any fresh memory |

Those of `BarrierRegistry_proofs` hold for every set of processes, threads and
addresses, every `MaxId` and every `MaxCount` (`RegistryAssumption`). `FirstAlone` is the
assumption that the first `barrier_init` after boot has no concurrent call;
`UserProgram` adds that programs call in the phases of `user.c`, and that memory which was no
barrier before does not hold the `tgid` of a process. Memory that was a barrier keeps its `tgid`.

| Theorem | Assumes | Says |
|---|---|---|
| `RegistryTypeCorrect` | - | `TypeOK` is an invariant |
| `LiveBarriersAreListed` | `FirstAlone` | so is `LiveBarriersListed`, for any use of the calls |
| `LockedCallsAreSafe` | `FirstAlone` | so is `LockedUseIsSafe`, for any use of the calls |
| `WaitsAtItsOwn` | `UserProgram` | so is `WaitsAtOwnBarrier`, for any number of processes |
| `IdentifiersAreUnique` | `UserProgram`, `TwoChildren` | so is `UniqueIds`, with at most two processes, as in `user.c` |

Those of `Ultrasonic_proofs` hold for every `ArraySize`, all `Requests` that
fit it (`UltrasonicAssumption`), all pins, on one processor or several. The last two
are about the program of `user.c` (`UserProgram`): one process, its calls in
order, and no IO pin 5, whose GPIO 0 `gpio_deregister` does not free.

| Theorem | Assumes | Says |
|---|---|---|
| `TypeCorrect` | - | `TypeOK` is an invariant |
| `NothingIsLeftOpen` | `UserProgram` | so is `OpensAndClosesBalance` |
| `AverageIsOfThisWrite` | `UserProgram` | every step satisfies `AveragesThisWrite`, whenever ticks and echoes come |

Those of `PlatformDriver_proofs` hold for any number of shells and programs with any
attributes and files, all pins and all `Requests` (`PlatformAssumption`). `Observing` is
that those who use the driver keep to all `Rules`, that probes succeed, and that
`kmalloc` does not hand the freed structures out again. So they say nothing of two processes that set the
pins of the same device at once, which loses pins (`PinsRace.cfg`). `PinsApart` is
that each trigger and echo has its own IO pins.

| Theorem | Assumes | Says |
|---|---|---|
| `TypeCorrect` | - | `TypeOK` is an invariant |
| `PinsAreAccounted` | `Observing`, `PinsApart` | so is `PinsAccounted` |
| `UnloadingReleases` | `Observing` | so is `UnloadReleases`, also with shared pins |
| `NothingIsLeftDangling` | `Observing` | so is `NothingDangles`, which leaves the class that is destroyed twice to `ClassGoesOnce` |
| `ShowsTheLatest` | `Observing` | every step satisfies `ShowsThisSampling`: sample 3, if no tick overtook it and its echo was not lost |

Those of `BitBang_proofs` hold for every set of processes, every number of LEDs
and every width of a colour with `LEDs <= 3 * Width` (`BitBangAssumption`), so
for the 16 LEDs of 24 bits of the code as for the run's 3 of 6.

| Theorem | Assumes | Says |
|---|---|---|
| `BitsAreAccounted` | `BitBangAssumption` | `BitsAccounted` is an invariant |
| `LoopCoversTheRing` | `BitBangAssumption` | every step of `BitBang` satisfies `CoversTheRing` |
| `TypeCorrect` | `BitBangAssumption`, `WordAssumption` | `TypeOK` is an invariant |
| `NothingIsLeftDangling` | the same, `Alone` | so is `NothingDangles` |

Those of `LedRing_proofs` are about `RingSpec`: the three drivers on one board,
for every size of the SPI buffer and all colours and set-ups that fit
(`LedRingAssumption`, which holds the two assumptions above). `Alone` is that there is
one process and that module initialisation and probe succeed; `Careful`, that the
SPI device has one opener and is not removed while it is open; `Fits`, that no
write is longer than `tx_buffer`, which the driver does not look at.

| Theorem | Assumes | Says |
|---|---|---|
| `RingTypeCorrect` | - | `RingTypeOK` is an invariant |
| `RingShowsWrite` | `Careful`, `Fits` | every step satisfies `MessageShowsWrite` |
| `RingIsSafe` | `Alone`, `Careful`, `Fits` | `RingSafe` is an invariant |
| `BoardIsLeftFree` | `Alone`, `Careful`, `Fits` | so is `BoardIsFree` |
| `RingSendsItsBits` | - | so is `BitsAccounted`, and every step satisfies `CoversTheRing` |

`WordAssumption` states three facts about powers of two: that `2 ^ (4 * Width)`
is a number, that `2 ^ Width` is at most that, and that it exceeds
`6 * Width`. They hold for every width of at least one, and TLC evaluates them for
the run's; they are assumed because the provers know nothing of `^`.

Apart from `WordAssumption`, no assumption is made to ease a proof: the tables of
settings above show what happens without each one. A signal lets a thread go on without its condition and
unlock a mutex it does not own, and a count of 1 never shuts the gate; two first calls race for the
list of barriers, and a third process could take a counted node; two processes
share one structure of the ultrasonic driver or one timer of the LED ring, and a long
write overflows the SPI buffer; a rule
of `PlatformDriver` that is dropped makes its property fail in TLC.

**The argument for the barrier.** `LeftAccounting` is not inductive: `left--` must not meet a
zero, and nothing in it says why. `Core` adds who may be where: only the owner
of the mutex is in a critical section, `left` is zero exactly while the last
arrival opens the gate, it equals the count while the last departure shuts it,
and a thread between its wake-up and its `left++` keeps the gate open. Each
action then moves `left` and the set of threads inside together, which the
lemmas about cardinality turn into the equation. `GateAndTimer` adds the gate,
and the fact that the timer is idle when the last arrival opens it.
`FlagHistory` follows `timeout_flag`: whoever raised it, the timer or the fresh memory, opened the gate
last or the time before; it is not raised twice, as the callback is over when the last arrival
opens the gate, and not kept, as the last to leave clears it. For the refinement each action is shown to
be a step of `BarrierSpec` (`Arrive` is `Gather` or `JoinDrain`, `Release` is
`Release`, `TimerExpires` is `Expire`, `Depart` is `Leave`, and `CloseRound` changes a
gate nobody is behind any more) or to leave `Gathered` and `Leaving` alone.

**The argument for the registry.** Nothing in `LiveBarriersListed` says why
`list_del` finds its barrier, or why `INIT_LIST_HEAD` does not empty a list in
use. `BootInv` says that before the list is ready at most one call is under
way, so only one thread initialises, and an empty list; `LockInv` that
`init_dest_lock` has one owner and `asleep` holds only sleepers; `ListInv` that the
list has no element twice, and that what the owner of the lock has found is
alive or the head: only an owner frees, so no walk under that lock strays. The lemmas `Added`, `Removed`
and `NextOne` say what `list_add` and `list_del` do to such a list and where a
walk comes to.

A lookup of `barrier_wait` holds another mutex, and may meet a barrier half made. `MainInv` says that only the
main thread of a process makes barriers, before the others run, and destroys them
after. `OwnerInv` says of all memory that was not returned by a `barrier_init` that it is `Stale`: it
names no process, or one that has ended and looks for nothing. So what
a lookup matches was returned to its own process, which does not free it before its waits are over.

**The argument for the identifiers.** `barrier_init` counts the list before it takes the
lock, while others add to it and free from it. `WalkInv` says that a walk has counted what is behind
it: its number and what is `Ahead` of its node make up the barriers of its process.
When its node is freed, the process that freed it has ended; with two processes nobody is left who could use the memory again and
send the walk round. `IdsInv` says that the barriers of a process
that makes them are numbered from one, and that what was counted is still their number.

**The argument for the bits.** `Inv` of `BitBang_proofs` is the equation of
`BitsAccounted` with what keeps it: only the driver that is loaded uses the
counters and one loop runs at a time (`OneDriver`), and `c` stays between 1 and the half bits of
an LED while there are LEDs left (`HalfBits`). `Given` is `sent` and the bits of the LEDs
that a callback between lines 197 and 198 has skipped. `Raise` moves a half bit from `c` to `done`,
`Lower` two of them from both to `sent`, and when `c` runs out a whole LED from
`led_count`. `LoopAccounted` says of the `ndelay` loop that it has sent
`Due = (Bits - 1) * led_count + i` bits, or as many as the ring takes. In its last
turn `Due + 1 = Bits * LEDs + Bits - LEDs`, which covers the ring because there
are no more LEDs than bits: the LED too many makes up for the bits lost.

**The argument for the strict barrier.** `KeepsStrictPromise` has no `JoinDrain`: a
thread must not arrive while others leave. With as many threads as the count and no
timeout the gate opens only when every thread has been counted, so none is between
the gate and its `left--` (`NoneBetween`), and none can get there before the gate
is shut.

**The argument for the pins.** `PinMux_proofs` reads the table once: `Table` lists
the GPIOs of each IO pin, `OneOwner` says that no two IO pins share one, `ConfigFree`
and `ConfigTaken` what `gpio_config` does when none or all are taken. The drivers
need no more of it.

**The argument for the ultrasonic driver.** `AtCall` says for each place of the
program what the driver holds there, and that during a write the timer is queued
exactly while `flag1` is set: so `hrtimer_init` never meets a queued timer, and
`close` never an uninitialised one. `AtPulse` says that
the loop pulses only when a tick has asked for it, and that a write which ends has counted its samples.
`InQuiet` is about each sample on its own: if nothing has spoiled the one that is counted, its
pulse is due, or its echo is on its way, or it is in its element; and every sample below it that is not
spoiled is in its element. So a sample that went wrong does no harm to the others.
Both must speak of the half-way points of the callback, which runs between any two steps of the loop.

**The argument for the platform driver.** `LoadInv` ties the class, the minor numbers
and both structures to the devices probed and bound; `UseInv` and `SampleInv` say
that only a bound device is in use, and not while a module goes, that one process
samples it and one sets its pins, and that its timer is queued exactly while `flag1` is set. So memory
is there when it is used, and no timer is cancelled that was never initialised. `PinInv` says
whose pins a device has, that a device not yet probed has none, and that it is told
of echoes on its own pin only. `PinsCovered` says
that every GPIO requested belongs to a pin of a device that is attached and is not replacing it (`TriggerMay`,
`EchoMay`); it holds with shared pins too, and is why an unloaded module has none.
`TriggerHeld` and `EchoHeld`, that conversely a device holds the pins it has but for the steps
at which it replaces them, need pins apart: each action changes the columns of one pin of one device, and
`HeldElsewhere` says that the other device's are not touched. `ShownInv` follows sample 3 of a sampling: not counted yet,
spoiled, its pulse due, its echo to come, or shown.

**The argument for the LED ring.** `HeldInv` says that the timer is queued only while
its driver is loaded and the device open, and that the register is mapped then;
`SpiHeld` the same of class, pins and buffers of the SPI driver; `BoardInv`, that
a driver of `Project3/part2` excludes the modules of part 1, and that the GPIOs requested are those of whoever has the board. A step of one driver
is taken while the other has nothing, so each half is proved on its own and the
board adds them up. `Frames` says that what an open file has copied is in `tx_buffer`, and
what it has encoded is the code of that whole buffer; `Decodes` that the code of a
buffer decodes to it, from `Spelled`, that a byte is the sum of the weights of its
bits.

Every invariant and every action property of the passing runs is a theorem.
Only model-checked are the liveness properties (`EveryCallReturns`,
`ArrivedThreadReturns`, `SignalledThreadLeaves`, `WriteReturns`, `SamplingEnds`,
`LoopEnds`), as the prover has no rule for `ENABLED` and fairness, and the
disagreements, which are counterexamples.

## Not modelled

* System call tables, `hello_world` and generated files of the patch: no state.
* Failure of `kmalloc` in `barrier_init`: the code does not look at it.
* Exit of a process that leaves barriers behind, and reuse of its tgid.
* Wall-clock arithmetic of the sensor (`tv_usec` wraps every second), direction
  and level of GPIOs, printing.
* `SAMPLE_PERIOD`, `timestamp`, the `show` attributes that print a setting, and
  `sensor_read`: nothing that is modelled depends on them. The timers run at
  60 ms whatever period is set.
* `gpio_validate` of the three tables: nobody calls it.
* The time between two writes to the register, which the LEDs tell bits apart
  by; the SPI core, and the order of bytes in its 32-bit words.

## Plan

1. Done: `BarrierSpec`, `BarrierSync`, `BarrierRegistry`, `PinMux`, `Ultrasonic`,
   `PlatformDriver`, `BitBang`, `SpiRing`, `LedRing`, and the proofs of their safety properties.
2. A module that composes registry and synchronisation for two barriers, in
   place of the argument given above.
3. Theorems with weaker assumptions: `OpensAndClosesBalance` for processes that take
   turns; what still holds of the pins of `PlatformDriver` when one rule is dropped;
   what the registry keeps when two first calls race.
