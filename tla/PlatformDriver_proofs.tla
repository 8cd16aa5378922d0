----------------------- MODULE PlatformDriver_proofs -----------------------
(***************************************************************************)
(* Theorems about PlatformDriver, for any number of shells and programs,   *)
(* any choice of pins and any numbers of samples.                          *)
(***************************************************************************)
EXTENDS PlatformDriver, PinMux_proofs

-----------------------------------------------------------------------------
(* Type correctness *)

LEMMA OtherDevice ==
  /\ Other("HSC_1") = "HSC_2"
  /\ Other("HSC_2") = "HSC_1"
BY DEF Other, Devices

\* Numbers that fit the counters.
LEMMA Indices ==
  /\ 0 \in 0 .. ArraySize
  /\ 0 .. ArraySize \subseteq Silent .. ArraySize
  /\ Silent \in Silent .. ArraySize
  /\ \A n \in Requests : n \in 0 .. ArraySize /\ n + 2 \in 0 .. ArraySize
<1>1. Requests \subseteq 1 .. ArraySize - 2
  BY PlatformAssumption
<1> QED
  BY <1>1 DEF ArraySize, Silent

LEMMA InitTyped == Init => TypeOK
<1> SUFFICES ASSUME Init PROVE TypeOK
  OBVIOUS
<1>1. /\ trigger \in [Devices -> IOPins \cup {NoPin}]
      /\ echo \in [Devices -> IOPins \cup {NoPin}]
      /\ irqnum \in [Devices -> IOPins \cup {NoPin}]
  BY DEF Init
<1>2. /\ samples \in [Devices -> 0 .. ArraySize]
      /\ sample_num \in [Devices -> 0 .. ArraySize]
      /\ shown \in [Devices -> 0 .. ArraySize]
      /\ sound \in [Devices -> Silent .. ArraySize]
  BY DEF Init, ArraySize, Silent
<1>3. busy \in [Users -> Devices \cup {Nothing}] /\ at \in [Users -> Places]
  BY DEF Init, Places
<1>4. stage \in [Programs -> [Devices ->
                   {"closed", "open", "pins", "params", "written"}]]
  BY DEF Init
<1>5. /\ memory \in [Devices -> {"null", "live", "freed"}]
      /\ hr_timer \in [Devices -> {"raw", "idle", "queued", "corrupt"}]
      /\ flag1 \in [Devices -> BOOLEAN] /\ flag2 \in [Devices -> BOOLEAN]
  BY DEF Init
<1> QED
  BY <1>1, <1>2, <1>3, <1>4, <1>5 DEF Init, TypeOK

\* The modules and their devices.
LEMMA ModulesTyped ==
  ASSUME TypeOK,
         \/ \E m \in Modules : Load(m) \/ Unload(m)
         \/ \E d \in Devices, result \in Results : Probe(d, result)
         \/ Detach
  PROVE  TypeOK'
<1> USE DEF TypeOK, objects, settings, sampling, held, calls
<1>1. ASSUME NEW m \in Modules, Load(m) PROVE TypeOK'
  BY <1>1 DEF Load
<1>2. ASSUME NEW m \in Modules, Unload(m) PROVE TypeOK'
  BY <1>2 DEF Unload
<1>3. ASSUME NEW d \in Devices, NEW result \in Results, Probe(d, result)
      PROVE  TypeOK'
  <2>1. /\ trigger' \in [Devices -> IOPins \cup {NoPin}]
        /\ echo' \in [Devices -> IOPins \cup {NoPin}]
        /\ irqnum' \in [Devices -> IOPins \cup {NoPin}]
    BY <1>3, OtherDevice DEF Probe, Uninitialised, Devices
  <2>2. /\ samples' \in [Devices -> 0 .. ArraySize]
        /\ sample_num' \in [Devices -> 0 .. ArraySize]
        /\ flag1' \in [Devices -> BOOLEAN] /\ flag2' \in [Devices -> BOOLEAN]
    BY <1>3, Indices DEF Probe
  <2>3. class_flag' \in BOOLEAN /\ class' \in BOOLEAN /\ fault' \in BOOLEAN
    BY <1>3 DEF Probe
  <2>4. bound' \subseteq probed' /\ probed' \subseteq Devices
    BY <1>3 DEF Probe
  <2>5. /\ memory' \in [Devices -> {"null", "live", "freed"}]
        /\ hr_timer' \in [Devices -> {"raw", "idle", "queued", "corrupt"}]
        /\ numbered' \subseteq Devices
    BY <1>3 DEF Probe
  <2> QED
    BY <1>3, <2>1, <2>2, <2>3, <2>4, <2>5 DEF Probe
<1>4. CASE Unloaded
  BY <1>4 DEF Unloaded
<1>5. ASSUME NEW d \in Devices, Remove(d) PROVE TypeOK'
  <2>1. gpios' \subseteq gpios
    BY <1>5 DEF Remove, Freed, gpio_deregister_out, gpio_deregister_in
  <2> QED
    BY <1>5, <2>1 DEF Remove
<1>6. ASSUME NEW d \in Devices, Leave(d) PROVE TypeOK'
  BY <1>6 DEF Leave
<1> QED
  BY <1>1, <1>2, <1>3, <1>4, <1>5, <1>6 DEF Detach

\* What the driver requests are GPIOs of the table.
LEMMA RequestTyped ==
  ASSUME TypeOK, NEW p \in IOPins \cup {NoPin}
  PROVE  Requested(p) \subseteq UNION {Columns(io_pin) : io_pin \in IOPins}
<1>1. CASE p = NoPin
  BY <1>1 DEF Requested, TypeOK
<1>2. CASE p # NoPin
  BY <1>2, ConfigBounds DEF Requested, TypeOK
<1> QED
  BY <1>1, <1>2

LEMMA WatchTyped ==
  ASSUME TypeOK, NEW d \in Devices, NEW p \in IOPins \cup {NoPin}
  PROVE  Watch(d, p) \subseteq (IOPins \cup {NoPin}) \X Devices
<1>1. handlers \subseteq (IOPins \cup {NoPin}) \X Devices
  BY DEF TypeOK
<1>2. <<p, d>> \in (IOPins \cup {NoPin}) \X Devices
  OBVIOUS
<1>3. Watch(d, p) \subseteq handlers \cup {<<p, d>>}
  BY DEF Watch
<1> QED
  BY <1>1, <1>2, <1>3

LEMMA PinsTyped ==
  ASSUME NEW d \in Devices
  PROVE  TriggerPins[d] \subseteq IOPins /\ EchoPins[d] \subseteq IOPins
BY PlatformAssumption

LEMMA UsesTyped ==
  ASSUME TypeOK, NEW d \in Devices, Uses(d)
  PROVE  fault' \in BOOLEAN
BY DEF Uses

LEMMA GoesTyped ==
  ASSUME TypeOK, NEW u \in Users, NEW d \in Devices \cup {Nothing},
         NEW place \in Places, Goes(u, d, place)
  PROVE  /\ busy' \in [Users -> Devices \cup {Nothing}]
         /\ at' \in [Users -> Places]
BY DEF Goes, TypeOK

\* write_common, up to its loop.
LEMMA StartTyped ==
  ASSUME TypeOK, NEW u \in Users, NEW d \in Devices, StartSampling(u, d),
         stage' \in [Programs -> [Devices ->
                      {"closed", "open", "pins", "params", "written"}]]
  PROVE  TypeOK'
<1> USE DEF StartSampling, TypeOK
<1>1. fault' \in BOOLEAN
  OBVIOUS
<1>2. /\ sample_num' \in [Devices -> 0 .. ArraySize]
      /\ shown' \in [Devices -> 0 .. ArraySize]
  BY Indices
<1>3. hr_timer' \in [Devices -> {"raw", "idle", "queued", "corrupt"}]
  BY DEF StartTimer
<1>4. flag1' \in [Devices -> BOOLEAN] /\ flag2' \in [Devices -> BOOLEAN]
  OBVIOUS
<1>5. /\ busy' \in [Users -> Devices \cup {Nothing}]
      /\ at' \in [Users -> Places]
  BY GoesTyped DEF Places, Looping
<1>6. spoiled' \subseteq Devices
  OBVIOUS
<1> HIDE DEF StartTimer
<1> QED
  BY <1>1, <1>2, <1>3, <1>4, <1>5, <1>6 DEF loading, objects, settings, held

\* The steps that set pins.
LEMMA SettingTyped ==
  ASSUME TypeOK, NEW u \in Users, NEW d \in Devices,
         DropTrigger(u, d) \/ DropEcho(u, d) \/ Configure(u, d)
  PROVE  TypeOK'
<1> USE DEF TypeOK, loading, objects, settings, sampling, held, calls
<1>1. fault' \in BOOLEAN
  BY UsesTyped DEF DropTrigger, DropEcho, Configure, SetTrigger, SetEcho,
     TakeTrigger, FreeIrq, TakeEcho, AskIrq
<1>2. /\ busy' \in [Users -> Devices \cup {Nothing}]
      /\ at' \in [Users -> Places]
  BY GoesTyped DEF DropTrigger, DropEcho, Configure, SetTrigger, SetEcho,
     TakeTrigger, FreeIrq, TakeEcho, AskIrq, Returns, Places
<1> USE <1>1, <1>2
<1>3. CASE DropTrigger(u, d)
  BY <1>3 DEF DropTrigger, gpio_deregister_out
<1>4. CASE DropEcho(u, d)
  <2>1. gpios' \subseteq gpios
    BY <1>4 DEF DropEcho, gpio_deregister_in
  <2> QED
    BY <1>4, <2>1 DEF DropEcho
<1>5. ASSUME NEW tmp \in TriggerPins[d], SetTrigger(u, d, tmp)
      PROVE  TypeOK'
  BY <1>5, PinsTyped DEF SetTrigger
<1>6. ASSUME NEW tmp \in EchoPins[d], SetEcho(u, d, tmp) PROVE TypeOK'
  BY <1>6, PinsTyped DEF SetEcho
<1>7. CASE TakeTrigger(u, d)
  BY <1>7, RequestTyped DEF TakeTrigger
<1>8. CASE FreeIrq(u, d)
  BY <1>8 DEF FreeIrq
<1>9. CASE TakeEcho(u, d)
  BY <1>9, RequestTyped DEF TakeEcho
<1>10. CASE AskIrq(u, d)
  BY <1>10, WatchTyped DEF AskIrq
<1> QED
  BY <1>3, <1>4, <1>5, <1>6, <1>7, <1>8, <1>9, <1>10 DEF Configure

\* The attributes.
LEMMA StoreTyped ==
  ASSUME TypeOK, NEW u \in Users, NEW d \in Devices, Store(u, d)
  PROVE  TypeOK'
<1> USE DEF TypeOK, loading, objects, settings, sampling, held, calls
<1>1. ASSUME NEW tmp \in Requests, samples_store(u, d, tmp)
      PROVE  TypeOK'
  <2>1. samples' \in [Devices -> 0 .. ArraySize]
    BY <1>1, Indices DEF samples_store
  <2>2. fault' \in BOOLEAN
    BY <1>1, UsesTyped DEF samples_store
  <2> QED
    BY <1>1, <2>1, <2>2 DEF samples_store
<1>2. CASE enable_store(u, d)
  <2>1. StartSampling(u, d) /\ UNCHANGED stage
    BY <1>2 DEF enable_store
  <2> QED
    BY <2>1, StartTyped
<1> QED
  BY <1>1, <1>2, SettingTyped DEF Store

\* The device files.
LEMMA CallTyped ==
  ASSUME TypeOK, NEW u \in Programs, NEW d \in Devices, Call(u, d)
  PROVE  TypeOK'
<1> USE DEF TypeOK, Goto, loading, objects, settings, sampling, held
<1>0. u \in Users
  BY DEF Users
<1>1. CASE Open(u, d)
  BY <1>1 DEF Open
<1>2. ASSUME NEW p_trigger \in TriggerPins[d], NEW p_echo \in EchoPins[d],
             ConfigPins(u, d, p_trigger, p_echo)
      PROVE  TypeOK'
  <2>1. p_trigger \in IOPins /\ p_echo \in IOPins
    BY PinsTyped
  <2>2. /\ busy' \in [Users -> Devices \cup {Nothing}]
        /\ at' \in [Users -> Places]
    BY <1>0, <1>2, GoesTyped DEF ConfigPins, Places
  <2>3. fault' \in BOOLEAN
    BY <1>2, UsesTyped DEF ConfigPins
  <2> QED
    BY <1>2, <2>1, <2>2, <2>3 DEF ConfigPins
<1>3. ASSUME NEW c_samples \in Requests, SetParams(u, d, c_samples)
      PROVE  TypeOK'
  <2>1. samples' \in [Devices -> 0 .. ArraySize]
    BY <1>3, Indices DEF SetParams
  <2> QED
    BY <1>3, <2>1, UsesTyped DEF SetParams
<1>4. CASE sensor_write(u, d)
  <2>1. StartSampling(u, d)
    BY <1>4 DEF sensor_write
  <2>2. stage' \in [Programs -> [Devices ->
                    {"closed", "open", "pins", "params", "written"}]]
    BY <1>4 DEF sensor_write
  <2> QED
    BY <2>1, <2>2, <1>0, StartTyped
<1>5. CASE sensor_close(u, d)
  <2>1. gpios' \subseteq gpios
    BY <1>5 DEF sensor_close, gpio_deregister_out, gpio_deregister_in
  <2> QED
    BY <1>5, <2>1 DEF sensor_close
<1> QED
  BY <1>1, <1>2, <1>3, <1>4, <1>5 DEF Call

\* The sampling.
LEMMA SamplingTyped ==
  ASSUME TypeOK,
         \/ \E d \in Devices : Tick(d) \/ Sound(d)
         \/ \E u \in Users, d \in Devices : Loop(u, d)
  PROVE  TypeOK'
<1> USE DEF TypeOK, Uses, loading, objects, settings, sampling, held, calls
<1>1. ASSUME NEW d \in Devices, Tick(d) PROVE TypeOK'
  <2>1. sample_num' \in [Devices -> 0 .. ArraySize]
    BY <1>1 DEF Tick, ArraySize
  <2>2. spoiled' \subseteq Devices
    BY <1>1 DEF Tick, Spoil
  <2> QED
    BY <1>1, <2>1, <2>2 DEF Tick
<1>2. ASSUME NEW d \in Devices, Echo(d) PROVE TypeOK'
  <2>1. shown' \in [Devices -> 0 .. ArraySize]
    BY <1>2 DEF Echo, ArraySize, Silent
  <2> QED
    BY <1>2, <2>1, Indices DEF Echo
<1>3. ASSUME NEW d \in Devices, EchoLost(d) PROVE TypeOK'
  <2>1. spoiled' \subseteq Devices
    BY <1>3 DEF EchoLost
  <2> QED
    BY <1>3, <2>1, Indices DEF EchoLost
<1>4. ASSUME NEW u \in Users, NEW d \in Devices, Pulse(u, d) PROVE TypeOK'
  <2>1. sound' \in [Devices -> Silent .. ArraySize]
    BY <1>4, Indices DEF Pulse
  <2> QED
    BY <1>4, <2>1, GoesTyped DEF Pulse, Places, Looping
<1>5. ASSUME NEW u \in Users, NEW d \in Devices, Clear(u, d) PROVE TypeOK'
  BY <1>5, GoesTyped DEF Clear, Places, Looping
<1>6. ASSUME NEW u \in Users, NEW d \in Devices, EndSampling(u, d)
      PROVE  TypeOK'
  <2>1. shown' \in [Devices -> 0 .. ArraySize]
    BY <1>6, Indices DEF EndSampling
  <2> QED
    BY <1>6, <2>1, GoesTyped DEF EndSampling, Returns, Places
<1> QED
  BY <1>1, <1>2, <1>3, <1>4, <1>5, <1>6 DEF Sound, Loop

\* The steps of Next, with what they are about.
LEMMA Steps ==
  ASSUME [Next]_vars
  PROVE  \/ \E m \in Modules : Load(m) \/ Unload(m)
         \/ \E d \in Devices, result \in Results : Probe(d, result)
         \/ Detach
         \/ \E u \in Users, d \in Devices : Store(u, d)
         \/ \E u \in Programs, d \in Devices : Call(u, d)
         \/ \E d \in Devices : Tick(d) \/ Sound(d)
         \/ \E u \in Users, d \in Devices : Configure(u, d) \/ Loop(u, d)
         \/ UNCHANGED vars
<1>1. Attributes \subseteq Devices /\ Files \subseteq Devices
  BY PlatformAssumption
<1>2. Shells \subseteq Users
  BY DEF Users
<1> QED
  BY <1>1, <1>2 DEF Next, Turn

\* Every variable keeps its type, whatever is observed: the sample counter
\* stays inside the arrays and only GPIOs of the table are held.
THEOREM TypeCorrect == Spec => []TypeOK
<1>1. TypeOK /\ [Next]_vars => TypeOK'
  <2> SUFFICES ASSUME TypeOK, [Next]_vars PROVE TypeOK'
    OBVIOUS
  <2>1. CASE UNCHANGED vars
    BY <2>1 DEF TypeOK, vars
  <2> QED
    BY <2>1, Steps, ModulesTyped, StoreTyped, CallTyped, SettingTyped,
       SamplingTyped
<1> QED
  BY <1>1, InitTyped, PTL DEF Spec

-----------------------------------------------------------------------------
\* What the users of the driver observe, with structures that kmalloc does not
\* hand out again, and probes that succeed.
Observing ==
  /\ Rules = AllRules
  /\ Results \subseteq {"ok"}
  /\ ~Recycles

\* An IO pin for each purpose, which only PinsAccounted asks for.
PinsApart ==
  \A d, e \in Devices :
    /\ TriggerPins[d] \cap EchoPins[e] = {}
    /\ d # e => /\ TriggerPins[d] \cap TriggerPins[e] = {}
                /\ EchoPins[d] \cap EchoPins[e] = {}

-----------------------------------------------------------------------------
(* What the steps leave alone *)

LEMMA NotNothing == Nothing \notin Devices
BY DEF Nothing, Devices

LEMMA UserTypes ==
  ASSUME TypeOK
  PROVE  busy \in [Users -> Devices \cup {Nothing}] /\ at \in [Users -> Places]
BY DEF TypeOK

\* A step that sets pins stays with its process and its device.
Stay(u, d) ==
  /\ UNCHANGED <<loading, objects, samples, sampling, stage>>
  /\ fault' = (fault \/ memory[d] # "live")
  /\ \A v \in Users : v # u => busy'[v] = busy[v] /\ at'[v] = at[v]

LEMMA DropMoves ==
  ASSUME TypeOK, NEW u \in Users, NEW d \in Devices,
         DropTrigger(u, d) \/ DropEcho(u, d)
  PROVE  /\ Stay(u, d) /\ Configures(u, d)'
         /\ Stores(u, d) /\ Turns(d)
<1> USE DEF Stay, Uses, settings
<1>1. CASE DropTrigger(u, d)
  <2>1. Configures(u, d)'
    BY <1>1, UserTypes DEF DropTrigger, Goes, Configures, Looping
  <2> QED
    BY <1>1, <2>1, UserTypes DEF DropTrigger, Goes
<1>2. CASE DropEcho(u, d)
  <2>1. Configures(u, d)'
    BY <1>2, UserTypes DEF DropEcho, Goes, Configures, Looping
  <2> QED
    BY <1>2, <2>1, UserTypes DEF DropEcho, Goes
<1> QED
  BY <1>1, <1>2

LEMMA ConfigureMoves ==
  ASSUME TypeOK, NEW u \in Users, NEW d \in Devices, Configure(u, d)
  PROVE  /\ Stay(u, d)
         /\ Configures(u, d) /\ (busy'[u] = Nothing \/ Configures(u, d)')
<1> USE DEF Stay, Uses, settings, Configures, Looping, In
<1>1. ASSUME NEW tmp \in TriggerPins[d], SetTrigger(u, d, tmp)
      PROVE  Stay(u, d) /\ Configures(u, d) /\ Configures(u, d)'
  BY <1>1, UserTypes DEF SetTrigger, Goes
<1>2. ASSUME NEW tmp \in EchoPins[d], SetEcho(u, d, tmp)
      PROVE  Stay(u, d) /\ Configures(u, d) /\ Configures(u, d)'
  BY <1>2, UserTypes DEF SetEcho, Goes
<1>3. ASSUME TakeTrigger(u, d)
      PROVE  /\ Stay(u, d) /\ Configures(u, d)
             /\ busy'[u] = Nothing \/ Configures(u, d)'
  BY <1>3, UserTypes DEF TakeTrigger, Goes, Returns
<1>4. ASSUME FreeIrq(u, d)
      PROVE  Stay(u, d) /\ Configures(u, d) /\ Configures(u, d)'
  BY <1>4, UserTypes DEF FreeIrq, Goes
<1>5. ASSUME TakeEcho(u, d)
      PROVE  Stay(u, d) /\ Configures(u, d) /\ Configures(u, d)'
  BY <1>5, UserTypes DEF TakeEcho, Goes
<1>6. ASSUME AskIrq(u, d)
      PROVE  Stay(u, d) /\ Configures(u, d) /\ busy'[u] = Nothing
  BY <1>6, UserTypes DEF AskIrq, Goes, Returns
<1> HIDE DEF Stay, Configures
<1> QED
  BY <1>1, <1>2, <1>3, <1>4, <1>5, <1>6 DEF Configure

\* A turn of the loop belongs to the process that samples.
LEMMA LoopMoves ==
  ASSUME TypeOK, NEW u \in Users, NEW d \in Devices, Loop(u, d)
  PROVE  /\ UNCHANGED <<loading, objects, settings, flag1, hr_timer, sample_num,
                        held, stage>>
         /\ fault' = (fault \/ memory[d] # "live")
         /\ Samples(u, d)
         /\ \A v \in Users : v # u => busy'[v] = busy[v] /\ at'[v] = at[v]
         /\ Pulse(u, d) \/ Clear(u, d) => Samples(u, d)'
         /\ EndSampling(u, d) => busy'[u] = Nothing /\ ~flag1[d]
<1> USE DEF Samples, Looping, Uses, Returns, In, sampling
<1>1. CASE Pulse(u, d)
  <2>1. ~EndSampling(u, d)
    <3>1. busy'[u] = d
      BY <1>1, UserTypes DEF Pulse, Goes
    <3>2. EndSampling(u, d) => busy'[u] = Nothing
      BY UserTypes DEF EndSampling, Goes
    <3> QED
      BY <3>1, <3>2, NotNothing
  <2> QED
    BY <1>1, <2>1, UserTypes DEF Pulse, Goes
<1>2. CASE Clear(u, d)
  <2>1. ~EndSampling(u, d)
    BY <1>2 DEF Clear, EndSampling
  <2> QED
    BY <1>2, <2>1, UserTypes DEF Clear, Goes
<1>3. CASE EndSampling(u, d)
  <2>1. busy'[u] = Nothing
    BY <1>3, UserTypes DEF EndSampling, Goes
  <2>2. ~Pulse(u, d) /\ ~Clear(u, d)
    <3>1. Pulse(u, d) \/ Clear(u, d) => busy'[u] = d
      BY UserTypes DEF Pulse, Goes, Clear
    <3> QED
      BY <2>1, <3>1, NotNothing
  <2> QED
    BY <1>3, <2>1, <2>2, UserTypes DEF EndSampling, Goes
<1> QED
  BY <1>1, <1>2, <1>3 DEF Loop

-----------------------------------------------------------------------------
(* Loading and removal *)

\* The class and both structures exist from the first probe to the last
\* device's leave, and a driver with a stale class_flag is not probed again.
LoadInv ==
  /\ unloading = Nothing => bound = probed /\ leaving = Nothing
  /\ leaving # Nothing => leaving \in bound
  /\ probed # {} => modules = Modules
  /\ probed # {} /\ unloading # Nothing => probed = Devices
  /\ class_flag => "driver" \in modules
  /\ modules = Modules /\ unloading = Nothing => (class_flag <=> probed # {})
  /\ numbered = bound
  /\ class <=> bound # {}
  /\ IF bound = {} THEN \A d \in Devices : memory[d] # "live"
                   ELSE \A d \in probed : memory[d] = "live"

\* The rest of the driver reads the modules and the structures only.
LEMMA ModulesStay ==
  ASSUME TypeOK, [Next]_vars,
         ~ \/ \E m \in Modules : Load(m) \/ Unload(m)
           \/ \E d \in Devices, result \in Results : Probe(d, result)
           \/ Detach
  PROVE  UNCHANGED <<loading, objects>>
<1> USE DEF loading, objects
<1>1. ASSUME NEW u \in Users, NEW d \in Devices, Store(u, d)
      PROVE  UNCHANGED <<loading, objects>>
  BY <1>1, DropMoves DEF Stay, Store, samples_store, enable_store, StartSampling
<1>2. ASSUME NEW u \in Programs, NEW d \in Devices, Call(u, d)
      PROVE  UNCHANGED <<loading, objects>>
  BY <1>2 DEF Call, Open, ConfigPins, SetParams, sensor_write, sensor_close,
     StartSampling
<1>3. ASSUME NEW d \in Devices, Tick(d) \/ Sound(d)
      PROVE  UNCHANGED <<loading, objects>>
  BY <1>3 DEF Tick, Sound, Echo, EchoLost
<1>4. ASSUME NEW u \in Users, NEW d \in Devices, Configure(u, d) \/ Loop(u, d)
      PROVE  UNCHANGED <<loading, objects>>
  BY <1>4, ConfigureMoves, LoopMoves DEF Stay
<1>5. CASE UNCHANGED vars
  BY <1>5 DEF vars
<1> QED
  BY <1>1, <1>2, <1>3, <1>4, <1>5, Steps

LEMMA LoadKept ==
  ASSUME Observing, TypeOK, LoadInv, [Next]_vars
  PROVE  LoadInv'
<1> USE DEF TypeOK, LoadInv, Modules, Nothing, Observed
<1>1. ASSUME NEW m \in Modules, Load(m) PROVE LoadInv'
  <2>1. m = "device" => ~class_flag
    BY <1>1 DEF Load, Observing, AllRules
  <2> QED
    BY <1>1, <2>1 DEF Load, objects
<1>2. ASSUME NEW m \in Modules, Unload(m) PROVE LoadInv'
  BY <1>2 DEF Unload, objects
<1>3. ASSUME NEW d \in Devices, NEW result \in Results, Probe(d, result)
      PROVE  LoadInv'
  <2>1. bound = probed /\ bound' = bound \cup {d} /\ probed' = bound'
    BY <1>3 DEF Probe, Observing
  <2>2. \A e \in probed' : memory'[e] = "live"
    <3>1. \A e \in Devices :
            memory'[e] = IF e = d THEN "live" ELSE memory[e]
      BY <1>3 DEF Probe
    <3>2. \A e \in probed : memory[e] = "live"
      BY <2>1
    <3> QED
      BY <2>1, <3>1, <3>2
  <2>3. class_flag' /\ class'
    BY <1>3 DEF Probe, Observing
  <2>4. modules' = Modules /\ unloading' = Nothing /\ leaving' = Nothing
    BY <1>3 DEF Probe
  <2>5. numbered' = bound' /\ probed' # {}
    BY <1>3, <2>1 DEF Probe
  <2> QED
    BY <2>1, <2>2, <2>3, <2>4, <2>5
<1>4. CASE Unloaded
  BY <1>4 DEF Unloaded
<1>5. ASSUME NEW d \in Devices, Remove(d) PROVE LoadInv'
  BY <1>5 DEF Remove, objects
<1>6. ASSUME NEW d \in Devices, Leave(d) PROVE LoadInv'
  <2>1. /\ unloading # Nothing /\ d \in bound /\ probed = Devices
        /\ probed' = probed /\ unloading' = unloading /\ modules' = modules
        /\ class_flag' = class_flag
    BY <1>6 DEF Leave, Devices
  <2>2. bound' = bound \ {d} /\ numbered' = bound' /\ leaving' = Nothing
    BY <1>6 DEF Leave
  <2>3. class' <=> bound' # {}
    BY <1>6, <2>1, <2>2 DEF Leave
  <2>4. IF bound' = {} THEN \A e \in Devices : memory'[e] # "live"
                       ELSE \A e \in probed' : memory'[e] = "live"
    BY <1>6, <2>1, <2>2 DEF Leave
  <2> QED
    BY <2>1, <2>2, <2>3, <2>4
<1>7. CASE UNCHANGED <<loading, objects>>
  BY <1>7 DEF loading, objects
<1> QED
  BY <1>1, <1>2, <1>3, <1>4, <1>5, <1>6, <1>7, ModulesStay DEF Detach

LEMMA LoadAlways == ASSUME Observing PROVE Spec => []LoadInv
<1>1. Init => LoadInv
  BY DEF Init, LoadInv, Modules
<1>2. TypeOK /\ LoadInv /\ [Next]_vars => LoadInv'
  BY LoadKept
<1> QED
  BY <1>1, <1>2, TypeCorrect, PTL DEF Spec

-----------------------------------------------------------------------------
(* Users *)

InUse(d) ==
  \/ sound[d] # Silent \/ hr_timer[d] = "queued"
  \/ \E u \in Users : busy[u] = d
  \/ \E u \in Programs : stage[u][d] # "closed"

\* Only a bound device is in use, and none while a module goes; by then every
\* device has sampled, so that its timer can be cancelled.
UseInv(d) ==
  /\ InUse(d) => d \in bound /\ unloading = Nothing
  /\ unloading # Nothing /\ d \in bound => hr_timer[d] # "raw"

\* One process at a time samples with a device, and one sets its pins. The
\* timer runs exactly while flag1 keeps the former in the loop, and a program
\* that has written has initialised the timer.
SampleInv(d) ==
  /\ \A u, v \in Users : Samples(u, d) /\ Samples(v, d) => u = v
  /\ \A u, v \in Users : Configures(u, d) /\ Configures(v, d) => u = v
  /\ Sampled(d) => hr_timer[d] = IF flag1[d] THEN "queued" ELSE "idle"
  /\ hr_timer[d] = "queued" => Sampled(d)
  /\ hr_timer[d] # "corrupt"
  /\ \A u \in Programs : stage[u][d] = "written" => hr_timer[d] # "raw"

UserInv == \A d \in Devices : UseInv(d) /\ SampleInv(d)

\* What a call does to the stages of the programs.
LEMMA Moves ==
  ASSUME TypeOK, NEW u \in Programs, NEW d \in Devices, NEW place,
         Goto(u, d, place)
  PROVE  \A v \in Programs, e \in Devices :
           stage'[v][e] = IF v = u /\ e = d THEN place ELSE stage[v][e]
<1>1. \A v \in Programs :
        stage'[v] = IF v = u THEN [stage[u] EXCEPT ![d] = place] ELSE stage[v]
  BY DEF Goto, TypeOK
<1>2. stage[u] \in [Devices ->
                      {"closed", "open", "pins", "params", "written"}]
  BY DEF TypeOK
<1> QED
  BY <1>1, <1>2

\* A start of the sampling finds nobody sampling with the device.
LEMMA StartKeeps ==
  ASSUME Observing, TypeOK, UserInv, NEW u \in Users, NEW d \in Devices,
         StartSampling(u, d), busy[u] = Nothing,
         d \in bound, unloading = Nothing,
         \A v \in Programs, e \in Devices :
           stage'[v][e] = stage[v][e] \/ (v = u /\ e = d)
  PROVE  UserInv'
<1> SUFFICES ASSUME NEW e \in Devices PROVE UseInv(e)' /\ SampleInv(e)'
  BY DEF UserInv
<1>1. UseInv(e) /\ SampleInv(e) /\ UseInv(d) /\ SampleInv(d)
  BY DEF UserInv
<1>2. ~Sampled(d)
  BY DEF StartSampling, Observing, Observed, AllRules
<1>3. /\ \A v \in Users : busy'[v] = IF v = u THEN d ELSE busy[v]
      /\ \A v \in Users : at'[v] = IF v = u THEN "loop" ELSE at[v]
  BY UserTypes DEF StartSampling, Goes
<1>4. hr_timer[d] # "queued"
  BY <1>1, <1>2 DEF SampleInv
<1>5. /\ hr_timer'[e] = IF e = d THEN "queued" ELSE hr_timer[e]
      /\ flag1'[e] = IF e = d THEN TRUE ELSE flag1[e]
      /\ sound' = sound /\ bound' = bound /\ unloading' = unloading
  BY <1>4 DEF StartSampling, StartTimer, TypeOK, loading
<1>6. \A v \in Users : /\ Samples(v, e)' <=> Samples(v, e) \/ (v = u /\ e = d)
                       /\ Configures(v, e)' <=> Configures(v, e)
  BY <1>3, NotNothing DEF Samples, Configures, Looping
<1>7. Sampled(e)' <=> Sampled(e) \/ e = d
  BY <1>6 DEF Sampled
<1>8. CASE e = d
  <2>1. UseInv(e)'
    BY <1>5, <1>8 DEF UseInv
  <2>2. SampleInv(e)'
    BY <1>1, <1>2, <1>5, <1>6, <1>7, <1>8 DEF SampleInv, Sampled
  <2> QED
    BY <2>1, <2>2
<1>9. CASE e # d
  <2>1. /\ \A v \in Users : busy'[v] = e <=> busy[v] = e
        /\ \A v \in Programs : stage'[v][e] = stage[v][e]
    BY <1>3, <1>9, NotNothing
  <2>2. UseInv(e)'
    BY <1>1, <1>5, <1>9, <2>1 DEF UseInv, InUse
  <2>3. SampleInv(e)'
    BY <1>1, <1>5, <1>6, <1>7, <1>9, <2>1 DEF SampleInv
  <2> QED
    BY <2>2, <2>3
<1> QED
  BY <1>8, <1>9

LEMMA ModulesKeepUsers ==
  ASSUME Observing, TypeOK, LoadInv, UserInv,
         \/ \E m \in Modules : Load(m) \/ Unload(m)
         \/ \E d \in Devices, result \in Results : Probe(d, result)
         \/ Detach
  PROVE  UserInv'
<1> SUFFICES ASSUME NEW e \in Devices PROVE UseInv(e)' /\ SampleInv(e)'
  BY DEF UserInv
<1>0. UseInv(e) /\ SampleInv(e)
  BY DEF UserInv
<1> USE <1>0 DEF UseInv, SampleInv, InUse, Samples, Configures, Sampled, TypeOK,
                 sampling, calls
<1>1. ASSUME NEW m \in Modules, Load(m) PROVE UseInv(e)' /\ SampleInv(e)'
  BY <1>1 DEF Load
<1>2. ASSUME NEW m \in Modules, Unload(m)
      PROVE  UseInv(e)' /\ SampleInv(e)'
  <2>1. /\ \A u \in Users : busy[u] = Nothing
        /\ \A u \in Programs : stage[u][e] = "closed"
        /\ sound[e] = Silent
        /\ e \in bound => hr_timer[e] # "raw"
    BY <1>2 DEF Unload, Quiet, Observing, Observed, AllRules
  <2>2. ~InUse(e)
    BY <2>1, NotNothing
  <2> QED
    BY <1>2, <2>1, <2>2 DEF Unload
<1>3. ASSUME NEW d \in Devices, NEW result \in Results, Probe(d, result)
      PROVE  UseInv(e)' /\ SampleInv(e)'
  <2>1. /\ unloading = Nothing /\ unloading' = unloading
        /\ d \notin bound /\ bound' = bound \cup {d}
        /\ UNCHANGED <<sound, busy, at, stage>>
        /\ hr_timer'[e] = IF e = d THEN "raw" ELSE hr_timer[e]
        /\ e # d => flag1'[e] = flag1[e]
    BY <1>3 DEF Probe, Observing, LoadInv
  <2>2. CASE e = d
    <3>1. ~InUse(e)
      BY <2>1, <2>2
    <3>2. /\ \A u \in Users : busy[u] # e
          /\ \A u \in Programs : stage[u][e] = "closed"
          /\ sound[e] = Silent
      BY <3>1
    <3> QED
      BY <2>1, <2>2, <3>2
  <2>3. CASE e # d
    BY <2>1, <2>3
  <2> QED
    BY <2>2, <2>3
<1>4. CASE Unloaded
  BY <1>4 DEF Unloaded
<1>5. ASSUME NEW d \in Devices, Remove(d)
      PROVE  UseInv(e)' /\ SampleInv(e)'
  <2>1. \A c \in Devices : hr_timer[c] # "queued"
    BY <1>5 DEF Remove, UserInv
  <2>2. hr_timer'[e] = hr_timer[e]
    BY <1>5, <2>1 DEF Remove
  <2> QED
    BY <1>5, <2>2 DEF Remove
<1>6. ASSUME NEW d \in Devices, Leave(d)
      PROVE  UseInv(e)' /\ SampleInv(e)'
  <2>1. unloading # Nothing /\ unloading' = unloading /\ bound' \subseteq bound
    BY <1>6, NotNothing DEF Leave, LoadInv
  <2> QED
    BY <1>6, <2>1 DEF Leave
<1> QED
  BY <1>1, <1>2, <1>3, <1>4, <1>5, <1>6 DEF Detach

\* Pins are set by a process that has the device for it alone.
LEMMA SettingKeepsUsers ==
  ASSUME TypeOK, UserInv, NEW u \in Users, NEW d \in Devices, Stay(u, d),
         d \in bound, unloading = Nothing,
         busy[u] = Nothing \/ Configures(u, d),
         busy'[u] = Nothing \/ Configures(u, d)',
         \A v \in Users : Configures(v, d) => v = u
  PROVE  UserInv'
<1> SUFFICES ASSUME NEW e \in Devices PROVE UseInv(e)' /\ SampleInv(e)'
  BY DEF UserInv
<1>0. UseInv(e) /\ SampleInv(e)
  BY DEF UserInv
<1>1. /\ UNCHANGED <<unloading, bound, flag1, hr_timer, sound, stage>>
      /\ \A v \in Users : v # u => busy'[v] = busy[v] /\ at'[v] = at[v]
  BY DEF Stay, loading, sampling
<1>2. \A v \in Users : Samples(v, e)' <=> Samples(v, e)
  BY <1>1, NotNothing DEF Samples, Configures
<1>3. \A v \in Users : Configures(v, e)' => Configures(v, e) \/ (v = u /\ e = d)
  BY <1>1, NotNothing DEF Configures
<1>4. Sampled(e)' <=> Sampled(e)
  BY <1>2 DEF Sampled
<1>5. UseInv(e)'
  <2>1. CASE e = d
    BY <1>0, <1>1, <2>1 DEF UseInv
  <2>2. CASE e # d
    <3>1. \A v \in Users : busy'[v] = e <=> busy[v] = e
      BY <1>1, <2>2, NotNothing DEF Configures
    <3> QED
      BY <1>0, <1>1, <3>1 DEF UseInv, InUse
  <2> QED
    BY <2>1, <2>2
<1>6. SampleInv(e)'
  BY <1>0, <1>1, <1>2, <1>3, <1>4 DEF SampleInv
<1> QED
  BY <1>5, <1>6

\* The attributes are used while the device is bound and nothing goes.
LEMMA StoreKeepsUsers ==
  ASSUME Observing, TypeOK, UserInv,
         NEW u \in Users, NEW d \in Devices, Store(u, d)
  PROVE  UserInv'
<1>1. d \in bound /\ busy[u] = Nothing /\ unloading = Nothing
  BY DEF Store, DropTrigger, DropEcho, samples_store, enable_store,
     Stores, Observing, Observed, AllRules
<1>2. CASE enable_store(u, d)
  <2>1. StartSampling(u, d) /\ UNCHANGED stage
    BY <1>2 DEF enable_store
  <2>2. \A v \in Programs, e \in Devices :
          stage'[v][e] = stage[v][e] \/ (v = u /\ e = d)
    BY <2>1
  <2> QED
    BY <1>1, <2>1, <2>2, StartKeeps
<1>3. CASE DropTrigger(u, d) \/ DropEcho(u, d)
  <2>1. \A v \in Users : ~Configures(v, d)
    BY <1>3, DropMoves DEF Turns, Observing, Observed, AllRules
  <2> QED
    BY <1>1, <1>3, <2>1, DropMoves, SettingKeepsUsers
<1>4. ASSUME NEW tmp \in Requests, samples_store(u, d, tmp) PROVE UserInv'
  <2>1. UNCHANGED <<unloading, bound, flag1, hr_timer, sound, busy, at, stage>>
    BY <1>4 DEF samples_store, loading, sampling, calls
  <2> QED
    BY <2>1 DEF UserInv, UseInv, SampleInv, InUse, Samples, Sampled, Configures
<1> QED
  BY <1>2, <1>3, <1>4 DEF Store

LEMMA ConfigureKeepsUsers ==
  ASSUME TypeOK, UserInv, NEW u \in Users, NEW d \in Devices, Configure(u, d)
  PROVE  UserInv'
<1>1. Stay(u, d) /\ Configures(u, d) /\ (busy'[u] = Nothing \/ Configures(u, d)')
  BY ConfigureMoves
<1>2. d \in bound /\ unloading = Nothing
  BY <1>1 DEF UserInv, UseInv, InUse, Configures
<1>3. \A v \in Users : Configures(v, d) => v = u
  BY <1>1 DEF UserInv, SampleInv
<1> QED
  BY <1>1, <1>2, <1>3, SettingKeepsUsers

\* A program opens a bound device, and has closed it before anything goes.
LEMMA CallKeepsUsers ==
  ASSUME Observing, TypeOK, UserInv,
         NEW u \in Programs, NEW d \in Devices, Call(u, d)
  PROVE  UserInv'
<1>0. UseInv(d) /\ SampleInv(d) /\ u \in Users
  BY DEF UserInv, Users
<1>1. CASE sensor_write(u, d)
  <2>1. d \in bound /\ unloading = Nothing /\ busy[u] = Nothing
    BY <1>0, <1>1 DEF sensor_write, Stage, UseInv, InUse
  <2>2. \A v \in Programs, e \in Devices :
          stage'[v][e] = stage[v][e] \/ (v = u /\ e = d)
    BY <1>1, Moves DEF sensor_write
  <2> QED
    BY <1>0, <1>1, <2>1, <2>2, StartKeeps DEF sensor_write
<1>2. ASSUME NEW p_trigger \in TriggerPins[d], NEW p_echo \in EchoPins[d],
             ConfigPins(u, d, p_trigger, p_echo)
      PROVE  UserInv'
  <2> SUFFICES ASSUME NEW e \in Devices PROVE UseInv(e)' /\ SampleInv(e)'
    BY DEF UserInv
  <2>0. UseInv(e) /\ SampleInv(e)
    BY DEF UserInv
  <2>1. /\ UNCHANGED <<unloading, bound, flag1, hr_timer, sound>>
        /\ d \in bound /\ unloading = Nothing /\ busy[u] = Nothing
        /\ \A v \in Users : ~Configures(v, d)
    BY <1>0, <1>2 DEF ConfigPins, Turns, Stage, UseInv, InUse, loading,
       sampling, Observing, Observed, AllRules
  <2>2. \A v \in Users : /\ busy'[v] = IF v = u THEN d ELSE busy[v]
                         /\ at'[v] = IF v = u THEN "config trigger" ELSE at[v]
    BY <1>0, <1>2, UserTypes DEF ConfigPins, Goes
  <2>3. \A v \in Users :
          /\ Samples(v, e)' <=> Samples(v, e)
          /\ Configures(v, e)' <=> Configures(v, e) \/ (v = u /\ e = d)
    BY <2>1, <2>2, NotNothing DEF Samples, Configures, Looping
  <2>4. Sampled(e)' <=> Sampled(e)
    BY <2>3 DEF Sampled
  <2>5. \A v \in Programs :
          stage'[v][e] = IF v = u /\ e = d THEN "pins" ELSE stage[v][e]
    <3>1. Goto(u, d, "pins")
      BY <1>2 DEF ConfigPins
    <3> QED
      BY <3>1, Moves
  <2>6. UseInv(e)'
    <3>1. CASE e = d
      BY <2>0, <2>1, <3>1 DEF UseInv
    <3>2. CASE e # d
      <4>1. \A v \in Users : busy'[v] = e <=> busy[v] = e
        BY <2>1, <2>2, <3>2, NotNothing
      <4> QED
        BY <2>0, <2>1, <2>5, <3>2, <4>1 DEF UseInv, InUse
    <3> QED
      BY <3>1, <3>2
  <2>7. SampleInv(e)'
    BY <2>0, <2>1, <2>3, <2>4, <2>5 DEF SampleInv
  <2> QED
    BY <2>6, <2>7
<1>3. ASSUME \/ Open(u, d) \/ sensor_close(u, d)
             \/ \E c_samples \in Requests : SetParams(u, d, c_samples)
      PROVE  UserInv'
  <2> SUFFICES ASSUME NEW e \in Devices PROVE UseInv(e)' /\ SampleInv(e)'
    BY DEF UserInv
  <2>0. UseInv(e) /\ SampleInv(e)
    BY DEF UserInv
  <2>1. /\ UNCHANGED <<unloading, bound, flag1, sound, busy, at>>
        /\ d \in bound /\ unloading = Nothing
        /\ \E place \in {"closed", "open", "params"} : Goto(u, d, place)
    BY <1>0, <1>3 DEF Open, SetParams, sensor_close, Stage,
       UseInv, InUse, loading, sampling, Observing, Observed, AllRules
  <2>2. hr_timer'[e] = hr_timer[e]
    <3>1. CASE sensor_close(u, d)
      <4>1. hr_timer[d] # "queued"
        BY <1>0, <3>1 DEF sensor_close, SampleInv, Observing, Observed,
           AllRules
      <4> QED
        BY <3>1, <4>1 DEF sensor_close, TypeOK
    <3>2. CASE ~sensor_close(u, d)
      BY <1>3, <3>2 DEF Open, SetParams, sampling
    <3> QED
      BY <3>1, <3>2
  <2>3. \A v \in Programs :
          stage'[v][e] = stage[v][e] \/ (e = d /\ stage'[v][e] # "written")
    BY <2>1, Moves
  <2> QED
    BY <2>0, <2>1, <2>2, <2>3 DEF UseInv, SampleInv, InUse, Samples, Sampled,
       Configures
<1> QED
  BY <1>1, <1>2, <1>3 DEF Call

\* A turn, a tick and an echo belong to the process that samples.
LEMMA SamplingKeepsUsers ==
  ASSUME TypeOK, UserInv,
         \/ \E d \in Devices : Tick(d) \/ Sound(d)
         \/ \E u \in Users, d \in Devices : Loop(u, d)
  PROVE  UserInv'
<1> SUFFICES ASSUME NEW e \in Devices PROVE UseInv(e)' /\ SampleInv(e)'
  BY DEF UserInv
<1>0. UseInv(e) /\ SampleInv(e)
  BY DEF UserInv
<1>1. ASSUME NEW d \in Devices, Tick(d) PROVE UseInv(e)' /\ SampleInv(e)'
  <2>1. UNCHANGED <<unloading, bound, sound, busy, at, stage>>
    BY <1>1 DEF Tick, loading, calls
  <2>2. e # d => hr_timer'[e] = hr_timer[e] /\ flag1'[e] = flag1[e]
    BY <1>1 DEF Tick, TypeOK
  <2>3. e = d => /\ hr_timer[e] = "queued" /\ Sampled(e)
                 /\ \/ hr_timer'[e] = "queued" /\ flag1'[e] = flag1[e]
                    \/ hr_timer'[e] = "idle" /\ ~flag1'[e]
    BY <1>0, <1>1 DEF Tick, TypeOK, SampleInv
  <2>4. InUse(e)' => InUse(e)
    BY <2>1, <2>2, <2>3 DEF InUse
  <2>5. UseInv(e)'
    BY <1>0, <2>1, <2>2, <2>3, <2>4 DEF UseInv
  <2>6. SampleInv(e)'
    BY <1>0, <2>1, <2>2, <2>3 DEF SampleInv, Samples, Sampled, Configures
  <2> QED
    BY <2>5, <2>6
<1>2. ASSUME NEW d \in Devices, Sound(d) PROVE UseInv(e)' /\ SampleInv(e)'
  <2>1. UNCHANGED <<unloading, bound, flag1, hr_timer, busy, at, stage>>
    BY <1>2 DEF Sound, Echo, EchoLost, loading, calls
  <2>2. sound'[e] # Silent => sound[e] # Silent
    BY <1>2 DEF Sound, Echo, EchoLost, TypeOK
  <2> QED
    BY <1>0, <2>1, <2>2 DEF UseInv, InUse, SampleInv, Samples, Sampled,
       Configures
<1>3. ASSUME NEW u \in Users, NEW d \in Devices, Loop(u, d)
      PROVE  UseInv(e)' /\ SampleInv(e)'
  <2>1. /\ UNCHANGED <<unloading, bound, flag1, hr_timer, stage>>
        /\ \A v \in Users : v # u => busy'[v] = busy[v] /\ at'[v] = at[v]
        /\ Samples(u, d)
        /\ Samples(u, d)' \/ (busy'[u] = Nothing /\ ~flag1[d])
    BY <1>3, LoopMoves DEF Loop, loading
  <2>2. e # d => sound'[e] = sound[e]
    BY <1>3 DEF Loop, Pulse, Clear, EndSampling, TypeOK
  <2>3. d \in bound /\ unloading = Nothing
    BY <2>1 DEF UserInv, UseInv, InUse, Samples
  <2>4. \A v \in Users : /\ Samples(v, e)' => Samples(v, e)
                         /\ Configures(v, e)' <=> Configures(v, e)
    BY <2>1, NotNothing DEF Samples, Configures
  <2>5. hr_timer[e] = "queued" => Sampled(e)'
    <3>1. CASE e = d
      BY <1>0, <2>1, <3>1 DEF SampleInv, Sampled
    <3>2. CASE e # d
      BY <1>0, <2>1, <3>2 DEF SampleInv, Sampled, Samples
    <3> QED
      BY <3>1, <3>2
  <2>6. UseInv(e)'
    <3>1. CASE e = d
      BY <1>0, <2>1, <2>3, <3>1 DEF UseInv
    <3>2. CASE e # d
      <4>1. \A v \in Users : busy'[v] = e => busy[v] = e
        BY <2>1, <3>2, NotNothing DEF Samples
      <4> QED
        BY <1>0, <2>1, <2>2, <3>2, <4>1 DEF UseInv, InUse
    <3> QED
      BY <3>1, <3>2
  <2>7. SampleInv(e)'
    BY <1>0, <2>1, <2>4, <2>5 DEF SampleInv, Sampled
  <2> QED
    BY <2>6, <2>7
<1> QED
  BY <1>1, <1>2, <1>3

LEMMA UsersAlways == ASSUME Observing PROVE Spec => []UserInv
<1>1. Init => UserInv
  BY NotNothing DEF Init, UserInv, UseInv, SampleInv, InUse, Samples, Sampled,
     Configures
<1>2. TypeOK /\ LoadInv /\ UserInv /\ [Next]_vars => UserInv'
  <2> SUFFICES ASSUME TypeOK, LoadInv, UserInv, [Next]_vars PROVE UserInv'
    OBVIOUS
  <2>1. CASE UNCHANGED vars
    BY <2>1 DEF UserInv, UseInv, SampleInv, InUse, Samples, Sampled, Configures,
       vars
  <2> QED
    BY <2>1, Steps, ModulesKeepUsers, StoreKeepsUsers, ConfigureKeepsUsers,
       CallKeepsUsers, SamplingKeepsUsers
<1> QED
  BY <1>1, <1>2, TypeCorrect, LoadAlways, PTL DEF Spec

-----------------------------------------------------------------------------
(* Pins *)

Stands(d, places) == \E u \in Users : busy[u] = d /\ at[u] \in places
Untold(d) == \A pin \in IOPins \cup {NoPin} : <<pin, d>> \notin handlers

\* Each device has pins of its own. While a later load still has a device to
\* probe, that device has none. A program that has configured its pins finds
\* them configured, and only a bound device is told of an echo: the one on its
\* pin, and none while that pin is replaced.
PinInv(d) ==
  /\ trigger[d] \in TriggerPins[d] \cup {NoPin}
  /\ echo[d] \in EchoPins[d] \cup {NoPin}
  /\ probed # {} /\ d \notin probed => trigger[d] = NoPin /\ echo[d] = NoPin
  /\ \A u \in Programs : stage[u][d] \in {"pins", "params", "written"} =>
       trigger[d] # NoPin /\ echo[d] # NoPin
  /\ \A pin \in IOPins \cup {NoPin} : <<pin, d>> \in handlers =>
       pin \in IOPins /\ pin = echo[d] /\ pin = irqnum[d]
       /\ d \in bound /\ d # leaving
  /\ Stands(d, {"set echo"}) => Untold(d)
  /\ Stands(d, {"take trigger", "config trigger"}) => trigger[d] # NoPin
  /\ Stands(d, {"config trigger", "take echo", "ask irq"}) => echo[d] # NoPin

PinsKnown == \A d \in Devices : PinInv(d)

LEMMA TwoDevices ==
  ASSUME NEW d \in Devices
  PROVE  Other(d) \in Devices /\ Other(d) # d /\ Devices = {d, Other(d)}
BY OtherDevice DEF Devices

LEMMA PinsAreNumbers ==
  /\ NoPin \notin IOPins
  /\ \A d \in Devices : NoPin \notin TriggerPins[d] \cup EchoPins[d]
BY PinsTyped DEF NoPin, IOPins

\* What the steps below leave alone.
pinning == <<bound, leaving, trigger, echo, irqnum, gpios, handlers>>

\* Whoever sets pins after the step did so before, at the same place.
NobodyConfigures ==
  \A v \in Users, e \in Devices :
    Configures(v, e)' => busy[v] = busy'[v] /\ at[v] = at'[v]

LEMMA PlacesStay ==
  ASSUME NobodyConfigures, NEW d \in Devices, NEW places,
         places \cap Looping = {}, Stands(d, places)'
  PROVE  Stands(d, places)
BY DEF NobodyConfigures, Stands, Configures

LEMMA PlacesApart ==
  /\ {"set echo"} \cap Looping = {}
  /\ {"take trigger", "config trigger"} \cap Looping = {}
  /\ {"config trigger", "take echo", "ask irq"} \cap Looping = {}
BY DEF Looping

\* PinInv reads these, and the modules.
LEMMA PinsStay ==
  ASSUME PinsKnown, UNCHANGED <<pinning, probed>>, NobodyConfigures,
         \A v \in Programs, e \in Devices :
           stage'[v][e] \in {"pins", "params", "written"} =>
             stage[v][e] \in {"pins", "params", "written"}
  PROVE  PinsKnown'
<1> SUFFICES ASSUME NEW e \in Devices PROVE PinInv(e)'
  BY DEF PinsKnown
<1>0. PinInv(e)
  BY DEF PinsKnown
<1>1. /\ Stands(e, {"set echo"})' => Stands(e, {"set echo"})
      /\ Stands(e, {"take trigger", "config trigger"})' =>
           Stands(e, {"take trigger", "config trigger"})
      /\ Stands(e, {"config trigger", "take echo", "ask irq"})' =>
           Stands(e, {"config trigger", "take echo", "ask irq"})
  BY PlacesStay, PlacesApart
<1> QED
  BY <1>0, <1>1 DEF PinInv, Untold, pinning

\* Who samples, ticks or hears sets no pins.
LEMMA SamplingStays ==
  ASSUME TypeOK, \/ \E d \in Devices : Tick(d) \/ Sound(d)
                 \/ \E u \in Users, d \in Devices : Loop(u, d)
                 \/ \E u \in Users, d \in Devices, tmp \in Requests :
                      samples_store(u, d, tmp)
                 \/ \E u \in Users, d \in Devices : StartSampling(u, d)
                 \/ UNCHANGED vars
  PROVE  UNCHANGED <<pinning, probed>> /\ NobodyConfigures
<1> USE DEF pinning, loading, settings, held, calls
<1>1. ASSUME NEW d \in Devices, Tick(d) \/ Sound(d)
      PROVE  UNCHANGED <<pinning, probed>> /\ NobodyConfigures
  BY <1>1 DEF Tick, Sound, Echo, EchoLost, NobodyConfigures
<1>2. ASSUME NEW u \in Users, NEW d \in Devices, Loop(u, d)
      PROVE  UNCHANGED <<pinning, probed>> /\ NobodyConfigures
  <2>1. UNCHANGED <<pinning, probed>>
    BY <1>2, LoopMoves
  <2>2. /\ \A v \in Users : v # u => busy'[v] = busy[v] /\ at'[v] = at[v]
        /\ Samples(u, d)' \/ busy'[u] = Nothing
    BY <1>2, LoopMoves DEF Loop
  <2> QED
    BY <2>1, <2>2, NotNothing DEF NobodyConfigures, Configures, Samples
<1>3. ASSUME NEW u \in Users, NEW d \in Devices, NEW tmp \in Requests,
             samples_store(u, d, tmp)
      PROVE  UNCHANGED <<pinning, probed>> /\ NobodyConfigures
  BY <1>3 DEF samples_store, NobodyConfigures
<1>4. ASSUME NEW u \in Users, NEW d \in Devices, StartSampling(u, d)
      PROVE  UNCHANGED <<pinning, probed>> /\ NobodyConfigures
  <2>1. \A v \in Users : /\ busy'[v] = IF v = u THEN d ELSE busy[v]
                         /\ at'[v] = IF v = u THEN "loop" ELSE at[v]
    BY <1>4, UserTypes DEF StartSampling, Goes
  <2> QED
    BY <1>4, <2>1 DEF StartSampling, NobodyConfigures, Configures, Looping
<1>5. CASE UNCHANGED vars
  BY <1>5 DEF vars, NobodyConfigures
<1> QED
  BY <1>1, <1>2, <1>3, <1>4, <1>5

\* A probe gives no pins, and a removal takes the interrupt first.
LEMMA ModulesKnowPins ==
  ASSUME Observing, TypeOK, LoadInv, UserInv, PinsKnown,
         \/ \E m \in Modules : Load(m) \/ Unload(m)
         \/ \E d \in Devices, result \in Results : Probe(d, result)
         \/ Detach
  PROVE  PinsKnown'
<1> SUFFICES ASSUME NEW e \in Devices PROVE PinInv(e)'
  BY DEF PinsKnown
<1>0. PinInv(e)
  BY DEF PinsKnown
<1> USE DEF settings, held, calls
<1>1. ASSUME NEW m \in Modules, Load(m) \/ Unload(m) PROVE PinInv(e)'
  BY <1>0, <1>1 DEF Load, Unload, PinInv, Stands, Untold
<1>2. ASSUME NEW d \in Devices, NEW result \in Results, Probe(d, result)
      PROVE  PinInv(e)'
  <2>1. /\ UNCHANGED <<stage, busy, at, handlers, leaving>>
        /\ bound \subseteq bound' /\ probed' = probed \cup {d}
        /\ bound = probed
    BY <1>2 DEF Probe, LoadInv
  <2>2. CASE probed = {}
    <3>1. trigger'[e] = NoPin /\ echo'[e] = NoPin
      BY <1>2, <2>2 DEF Probe, Uninitialised, Observing
    <3>2. /\ \A u \in Programs : stage[u][e] = "closed"
          /\ \A u \in Users : busy[u] # e
      BY <2>1, <2>2 DEF UserInv, UseInv, InUse
    <3>3. Untold(e)
      BY <1>0, <2>1, <2>2 DEF PinInv, Untold
    <3> QED
      BY <2>1, <3>1, <3>2, <3>3 DEF PinInv, Stands, Untold
  <2>3. CASE probed # {}
    <3>1. trigger' = trigger /\ echo' = echo /\ irqnum' = irqnum
      BY <1>2, <2>3 DEF Probe, Uninitialised
    <3> QED
      BY <1>0, <2>1, <2>3, <3>1 DEF PinInv, Stands, Untold
  <2> QED
    BY <2>2, <2>3
<1>3. CASE Unloaded
  BY <1>0, <1>3 DEF Unloaded, PinInv, Stands, Untold
<1>4. ASSUME NEW d \in Devices, Remove(d) PROVE PinInv(e)'
  <2>1. /\ UNCHANGED <<trigger, echo, irqnum, bound, probed, stage, busy, at>>
        /\ handlers' = handlers \ {<<irqnum[d], d>>} /\ leaving' = d
        /\ unloading # Nothing
    BY <1>4 DEF Remove
  <2>2. \A pin \in IOPins \cup {NoPin} : <<pin, e>> \in handlers' =>
          /\ <<pin, e>> \in handlers
          /\ e # d
    BY <1>0, <2>1 DEF PinInv
  <2> QED
    BY <1>0, <2>1, <2>2 DEF PinInv, Stands, Untold
<1>5. ASSUME NEW d \in Devices, Leave(d) PROVE PinInv(e)'
  <2>1. /\ UNCHANGED <<trigger, echo, irqnum, handlers, probed, stage, busy, at>>
        /\ bound' = bound \ {d} /\ leaving = d /\ leaving' = Nothing
    BY <1>5 DEF Leave
  <2> QED
    BY <1>0, <2>1, NotNothing DEF PinInv, Stands, Untold
<1> QED
  BY <1>1, <1>2, <1>3, <1>4, <1>5 DEF Detach

\* The device of another process is not where pins are set by this one.
LEMMA PlacesElsewhere ==
  ASSUME NEW u \in Users, NEW d \in Devices, NEW e \in Devices, e # d,
         busy[u] \in {d, Nothing}, busy'[u] \in {d, Nothing},
         \A v \in Users : v # u => busy'[v] = busy[v] /\ at'[v] = at[v],
         NEW places
  PROVE  Stands(e, places)' <=> Stands(e, places)
BY NotNothing DEF Stands

\* The steps that set the pins of a device, and their effect on the other one.
Sets(u, d) == DropTrigger(u, d) \/ DropEcho(u, d) \/ Configure(u, d)

LEMMA SetsMoves ==
  ASSUME Observing, TypeOK, UserInv, NEW u \in Users, NEW d \in Devices,
         Sets(u, d)
  PROVE  /\ Stay(u, d)
         /\ d \in bound /\ d \in probed /\ unloading = Nothing
         /\ busy[u] \in {d, Nothing} /\ busy'[u] \in {d, Nothing}
<1>1. CASE DropTrigger(u, d) \/ DropEcho(u, d)
  BY <1>1, DropMoves DEF Stores, Configures, Observing, Observed, AllRules,
     TypeOK
<1>2. CASE Configure(u, d)
  BY <1>2, ConfigureMoves DEF Configures, UserInv, UseInv, InUse, TypeOK
<1> QED
  BY <1>1, <1>2 DEF Sets

LEMMA SetsHere ==
  ASSUME TypeOK, NEW u \in Users, NEW d \in Devices, Sets(u, d),
         NEW e \in Devices, e # d
  PROVE  /\ trigger'[e] = trigger[e] /\ echo'[e] = echo[e]
         /\ irqnum'[e] = irqnum[e]
         /\ \A pin : <<pin, e>> \in handlers' <=> <<pin, e>> \in handlers
<1> USE DEF settings, held, TypeOK
<1>1. CASE DropTrigger(u, d) \/ DropEcho(u, d)
  BY <1>1 DEF DropTrigger, DropEcho
<1>2. ASSUME NEW tmp \in TriggerPins[d], SetTrigger(u, d, tmp)
      PROVE  /\ trigger'[e] = trigger[e] /\ echo'[e] = echo[e]
             /\ irqnum'[e] = irqnum[e] /\ handlers' = handlers
  BY <1>2 DEF SetTrigger
<1>3. ASSUME NEW tmp \in EchoPins[d], SetEcho(u, d, tmp)
      PROVE  /\ trigger'[e] = trigger[e] /\ echo'[e] = echo[e]
             /\ irqnum'[e] = irqnum[e] /\ handlers' = handlers
  BY <1>3 DEF SetEcho
<1>4. CASE TakeTrigger(u, d) \/ TakeEcho(u, d)
  BY <1>4 DEF TakeTrigger, TakeEcho
<1>5. CASE FreeIrq(u, d)
  BY <1>5 DEF FreeIrq
<1>6. CASE AskIrq(u, d)
  <2>1. handlers' = handlers \/ handlers' = handlers \cup {<<echo[d], d>>}
    BY <1>6 DEF AskIrq, Watch
  <2>2. \A pin : <<pin, e>> # <<echo[d], d>>
    OBVIOUS
  <2> QED
    BY <1>6, <2>1, <2>2 DEF AskIrq
<1> QED
  BY <1>1, <1>2, <1>3, <1>4, <1>5, <1>6 DEF Sets, Configure

LEMMA OthersKnowPins ==
  ASSUME Observing, TypeOK, UserInv, PinsKnown,
         NEW u \in Users, NEW d \in Devices, Sets(u, d),
         NEW e \in Devices, e # d
  PROVE  PinInv(e)'
<1>1. /\ UNCHANGED <<probed, bound, leaving, stage>>
      /\ busy[u] \in {d, Nothing} /\ busy'[u] \in {d, Nothing}
      /\ \A v \in Users : v # u => busy'[v] = busy[v] /\ at'[v] = at[v]
  BY SetsMoves DEF Stay, loading
<1>2. /\ Stands(e, {"set echo"})' <=> Stands(e, {"set echo"})
      /\ Stands(e, {"take trigger", "config trigger"})' <=>
           Stands(e, {"take trigger", "config trigger"})
      /\ Stands(e, {"config trigger", "take echo", "ask irq"})' <=>
           Stands(e, {"config trigger", "take echo", "ask irq"})
  BY <1>1, PlacesElsewhere
<1>3. PinInv(e)
  BY DEF PinsKnown
<1>4. trigger'[e] = trigger[e] /\ echo'[e] = echo[e] /\ irqnum'[e] = irqnum[e]
  BY SetsHere
<1>5. \A pin : <<pin, e>> \in handlers' <=> <<pin, e>> \in handlers
  BY SetsHere
<1> QED
  BY <1>1, <1>2, <1>3, <1>4, <1>5 DEF PinInv, Untold

\* What PinInv says of the process that sets the pins of the device, before
\* the step and after it.
LEMMA PlacesOf ==
  ASSUME UserInv, UserInv', NEW u \in Users, NEW d \in Devices,
         \A v \in Users : v # u => busy'[v] = busy[v] /\ at'[v] = at[v]
  PROVE  /\ Configures(u, d) =>
              /\ Stands(d, {"set echo"}) <=> at[u] = "set echo"
              /\ Stands(d, {"config trigger", "take echo", "ask irq"}) <=>
                   at[u] \in {"config trigger", "take echo", "ask irq"}
         /\ Configures(u, d)' =>
              /\ Stands(d, {"set echo"})' <=> at'[u] = "set echo"
              /\ Stands(d, {"take trigger", "config trigger"})' <=>
                   at'[u] \in {"take trigger", "config trigger"}
              /\ Stands(d, {"config trigger", "take echo", "ask irq"})' <=>
                   at'[u] \in {"config trigger", "take echo", "ask irq"}
         /\ Configures(u, d) /\ busy'[u] = Nothing =>
              /\ ~Stands(d, {"set echo"})'
              /\ ~Stands(d, {"take trigger", "config trigger"})'
              /\ ~Stands(d, {"config trigger", "take echo", "ask irq"})'
<1>1. ASSUME Configures(u, d)
      PROVE  /\ Stands(d, {"set echo"}) <=> at[u] = "set echo"
             /\ Stands(d, {"config trigger", "take echo", "ask irq"}) <=>
                  at[u] \in {"config trigger", "take echo", "ask irq"}
  <2>1. \A v \in Users : busy[v] = d /\ at[v] \notin Looping => v = u
    BY <1>1 DEF UserInv, SampleInv, Configures
  <2> QED
    BY <1>1, <2>1 DEF Stands, Configures, Looping
<1>2. ASSUME Configures(u, d)'
      PROVE  /\ Stands(d, {"set echo"})' <=> at'[u] = "set echo"
             /\ Stands(d, {"take trigger", "config trigger"})' <=>
                  at'[u] \in {"take trigger", "config trigger"}
             /\ Stands(d, {"config trigger", "take echo", "ask irq"})' <=>
                  at'[u] \in {"config trigger", "take echo", "ask irq"}
  <2>1. \A v \in Users : busy'[v] = d /\ at'[v] \notin Looping => v = u
    BY <1>2 DEF UserInv, SampleInv, Configures
  <2> QED
    BY <1>2, <2>1 DEF Stands, Configures, Looping
<1>3. ASSUME Configures(u, d), busy'[u] = Nothing
      PROVE  /\ ~Stands(d, {"set echo"})'
             /\ ~Stands(d, {"take trigger", "config trigger"})'
             /\ ~Stands(d, {"config trigger", "take echo", "ask irq"})'
  <2>1. \A v \in Users : busy[v] = d /\ at[v] \notin Looping => v = u
    BY <1>3 DEF UserInv, SampleInv, Configures
  <2> QED
    BY <1>3, <2>1, NotNothing DEF Stands, Looping
<1> QED
  BY <1>1, <1>2, <1>3

LEMMA SettingKnowsPins ==
  ASSUME Observing, TypeOK, LoadInv, UserInv, UserInv', PinsKnown,
         NEW u \in Users, NEW d \in Devices, Sets(u, d)
  PROVE  PinInv(d)'
<1>0. /\ PinInv(d) /\ d \in bound /\ d \in probed /\ leaving # d
      /\ UNCHANGED <<probed, bound, leaving, stage>>
      /\ \A v \in Users : v # u => busy'[v] = busy[v] /\ at'[v] = at[v]
  BY SetsMoves, NotNothing DEF PinsKnown, LoadInv, Stay, loading
<1>1. ASSUME DropTrigger(u, d) PROVE PinInv(d)'
  <2>1. /\ UNCHANGED <<trigger, echo, irqnum, handlers>>
        /\ Configures(u, d)' /\ at'[u] = "set trigger"
    BY <1>1, DropMoves, UserTypes DEF DropTrigger, settings, Goes
  <2> QED
    BY <1>0, <2>1, PlacesOf DEF PinInv, Untold
<1>2. ASSUME NEW tmp \in TriggerPins[d], SetTrigger(u, d, tmp)
      PROVE  PinInv(d)'
  <2>1. /\ UNCHANGED <<echo, irqnum, handlers>> /\ trigger'[d] = tmp
        /\ Configures(u, d)' /\ at'[u] = "take trigger"
    BY <1>2, UserTypes DEF SetTrigger, held, Goes, Configures, Looping, TypeOK
  <2>2. trigger'[d] # NoPin
    BY <2>1, PinsAreNumbers
  <2> QED
    BY <1>0, <2>1, <2>2, PlacesOf DEF PinInv, Untold
<1>3. ASSUME TakeTrigger(u, d) PROVE PinInv(d)'
  <2>1. /\ UNCHANGED <<trigger, echo, irqnum, handlers>> /\ Configures(u, d)
        /\ \/ busy'[u] = Nothing
           \/ /\ Configures(u, d)' /\ at'[u] = "take echo"
              /\ at[u] = "config trigger"
    BY <1>3, UserTypes DEF TakeTrigger, settings, Goes, Returns, In,
       Configures, Looping
  <2> QED
    BY <1>0, <2>1, PlacesOf DEF PinInv, Untold
<1>4. ASSUME DropEcho(u, d) PROVE PinInv(d)'
  <2>1. /\ UNCHANGED <<trigger, echo, irqnum, handlers>> /\ Configures(u, d)'
        /\ at'[u] = IF echo[d] = NoPin THEN "set echo" ELSE "free irq"
    BY <1>4, DropMoves, UserTypes DEF DropEcho, settings, Goes
  <2>2. echo[d] = NoPin => Untold(d)
    BY <1>0, PinsAreNumbers DEF PinInv, Untold
  <2> QED
    BY <1>0, <2>1, <2>2, PlacesOf DEF PinInv, Untold
<1>5. ASSUME FreeIrq(u, d) PROVE PinInv(d)'
  <2>1. /\ UNCHANGED <<trigger, echo, irqnum>> /\ Configures(u, d)'
        /\ handlers' = handlers \ {<<irqnum[d], d>>}
        /\ at'[u] = "set echo"
    BY <1>5, UserTypes DEF FreeIrq, settings, Goes, Configures, Looping
  <2>2. Untold(d)'
    BY <1>0, <2>1 DEF PinInv, Untold
  <2>3. \A pin \in IOPins \cup {NoPin} : <<pin, d>> \notin handlers'
    BY <2>2 DEF Untold
  <2> QED
    BY <1>0, <2>1, <2>2, <2>3, PlacesOf DEF PinInv
<1>6. ASSUME NEW tmp \in EchoPins[d], SetEcho(u, d, tmp) PROVE PinInv(d)'
  <2>1. /\ UNCHANGED <<trigger, irqnum, handlers>> /\ echo'[d] = tmp
        /\ Configures(u, d) /\ at[u] = "set echo"
        /\ Configures(u, d)' /\ at'[u] = "take echo"
    BY <1>6, UserTypes DEF SetEcho, held, Goes, Configures, Looping, TypeOK, In
  <2>2. echo'[d] # NoPin
    BY <2>1, PinsAreNumbers
  <2>3. Untold(d)
    BY <1>0, <2>1, PlacesOf DEF PinInv
  <2> QED
    BY <1>0, <2>1, <2>2, <2>3, PlacesOf DEF PinInv, Untold
<1>7. ASSUME TakeEcho(u, d) PROVE PinInv(d)'
  <2>1. /\ UNCHANGED <<trigger, echo, irqnum, handlers>>
        /\ Configures(u, d) /\ at[u] = "take echo"
        /\ Configures(u, d)' /\ at'[u] = "ask irq"
    BY <1>7, UserTypes DEF TakeEcho, settings, Goes, Configures, Looping, In
  <2> QED
    BY <1>0, <2>1, PlacesOf DEF PinInv, Untold
<1>8. ASSUME AskIrq(u, d) PROVE PinInv(d)'
  <2>1. /\ UNCHANGED <<trigger, echo>> /\ irqnum'[d] = echo[d]
        /\ handlers' = Watch(d, echo[d])
        /\ Configures(u, d) /\ at[u] = "ask irq" /\ busy'[u] = Nothing
    BY <1>8, UserTypes DEF AskIrq, Goes, Returns, Configures, Looping, In,
       TypeOK
  <2>2. echo[d] # NoPin
    BY <1>0, <2>1, PlacesOf DEF PinInv
  <2>3. echo[d] \in IOPins
    BY <1>0, <2>2, PinsTyped DEF PinInv
  <2>4. \A pin \in IOPins \cup {NoPin} : <<pin, d>> \in handlers' =>
          pin = echo[d]
    <3>1. handlers' \subseteq handlers \cup {<<echo[d], d>>}
      BY <2>1 DEF Watch
    <3> QED
      BY <1>0, <3>1 DEF PinInv
  <2> QED
    BY <1>0, <2>1, <2>2, <2>3, <2>4, PlacesOf DEF PinInv
<1> QED
  BY <1>1, <1>2, <1>3, <1>4, <1>5, <1>6, <1>7, <1>8 DEF Sets, Configure

LEMMA SetsKnowPins ==
  ASSUME Observing, TypeOK, LoadInv, UserInv, UserInv', PinsKnown,
         NEW u \in Users, NEW d \in Devices, Sets(u, d)
  PROVE  PinsKnown'
<1> SUFFICES ASSUME NEW e \in Devices PROVE PinInv(e)'
  BY DEF PinsKnown
<1>1. CASE e = d
  BY <1>1, SettingKnowsPins
<1>2. CASE e # d
  BY <1>2, OthersKnowPins
<1> QED
  BY <1>1, <1>2

\* A program that configures the pins of a device names those that it has.
LEMMA ConfigPinsKnowsPins ==
  ASSUME Observing, TypeOK, LoadInv, UserInv, UserInv', PinsKnown,
         NEW u \in Programs, NEW d \in Devices,
         NEW p_trigger \in TriggerPins[d], NEW p_echo \in EchoPins[d],
         ConfigPins(u, d, p_trigger, p_echo)
  PROVE  PinsKnown'
<1> SUFFICES ASSUME NEW e \in Devices PROVE PinInv(e)'
  BY DEF PinsKnown
<1>0. u \in Users /\ PinInv(e) /\ PinInv(d)
  BY DEF PinsKnown, Users
<1>1. /\ UNCHANGED <<probed, bound, leaving, irqnum, handlers>>
      /\ \A c \in Devices :
           /\ trigger'[c] = IF c = d THEN p_trigger ELSE trigger[c]
           /\ echo'[c] = IF c = d THEN p_echo ELSE echo[c]
      /\ busy[u] = Nothing /\ echo[d] \in {NoPin, p_echo}
      /\ stage[u][d] = "open"
  BY DEF ConfigPins, loading, held, TypeOK, Stage, Observing, Observed,
     AllRules
<1>2. \A v \in Users : /\ busy'[v] = IF v = u THEN d ELSE busy[v]
                       /\ at'[v] = IF v = u THEN "config trigger" ELSE at[v]
  BY <1>0, UserTypes DEF ConfigPins, Goes
<1>3. \A v \in Programs, c \in Devices :
        stage'[v][c] = IF v = u /\ c = d THEN "pins" ELSE stage[v][c]
  <2>1. Goto(u, d, "pins")
    BY DEF ConfigPins
  <2> QED
    BY <2>1, Moves
<1>4. CASE e # d
  <2>1. busy[u] \in {d, Nothing} /\ busy'[u] \in {d, Nothing}
    BY <1>0, <1>1, <1>2
  <2>2. \A v \in Users : v # u => busy'[v] = busy[v] /\ at'[v] = at[v]
    BY <1>2
  <2>3. /\ Stands(e, {"set echo"})' <=> Stands(e, {"set echo"})
        /\ Stands(e, {"take trigger", "config trigger"})' <=>
             Stands(e, {"take trigger", "config trigger"})
        /\ Stands(e, {"config trigger", "take echo", "ask irq"})' <=>
             Stands(e, {"config trigger", "take echo", "ask irq"})
    BY <1>0, <1>4, <2>1, <2>2, PlacesElsewhere
  <2> QED
    BY <1>0, <1>1, <1>3, <1>4, <2>3 DEF PinInv, Untold
<1>5. CASE e = d
  <2>1. trigger'[d] = p_trigger /\ echo'[d] = p_echo
    BY <1>1
  <2>2. trigger'[d] # NoPin /\ echo'[d] # NoPin
    BY <2>1, PinsAreNumbers
  <2>3. d \in bound /\ d \in probed
    BY <1>1 DEF UserInv, UseInv, InUse, TypeOK
  <2>4. \A pin \in IOPins \cup {NoPin} : <<pin, d>> \in handlers =>
          pin = p_echo /\ d # leaving /\ pin \in IOPins /\ pin = irqnum[d]
    BY <1>0, <1>1, <1>5, PinsAreNumbers DEF PinInv
  <2>5. ~Stands(d, {"set echo"})'
    <3>1. Configures(u, d)' /\ at'[u] = "config trigger"
      BY <1>0, <1>2 DEF Configures, Looping
    <3>2. \A v \in Users : v # u => busy'[v] = busy[v] /\ at'[v] = at[v]
      BY <1>2
    <3> QED
      BY <1>0, <3>1, <3>2, PlacesOf
  <2> QED
    BY <1>0, <1>1, <1>3, <1>5, <2>1, <2>2, <2>3, <2>4, <2>5 DEF PinInv, Untold
<1> QED
  BY <1>4, <1>5

LEMMA CallKnowsPins ==
  ASSUME Observing, TypeOK, LoadInv, UserInv, UserInv', PinsKnown,
         NEW u \in Programs, NEW d \in Devices, Call(u, d)
  PROVE  PinsKnown'
<1>0. u \in Users
  BY DEF Users
<1>1. ASSUME UNCHANGED <<pinning, probed>>, NobodyConfigures,
             NEW place, Goto(u, d, place),
             place \in {"pins", "params", "written"} =>
               stage[u][d] \in {"pins", "params", "written"}
      PROVE  PinsKnown'
  <2>1. \A v \in Programs, e \in Devices :
          stage'[v][e] = IF v = u /\ e = d THEN place ELSE stage[v][e]
    BY <1>1, Moves
  <2> QED
    BY <1>1, <2>1, PinsStay
<1>2. CASE Open(u, d)
  BY <1>1, <1>2 DEF Open, pinning, loading, settings, held, NobodyConfigures
<1>3. ASSUME NEW c_samples \in Requests, SetParams(u, d, c_samples)
      PROVE  PinsKnown'
  BY <1>1, <1>3 DEF SetParams, pinning, loading, held, NobodyConfigures, Stage
<1>4. CASE sensor_write(u, d)
  <2>1. StartSampling(u, d) /\ Goto(u, d, "written") /\ Stage(u, d, "params")
    BY <1>4 DEF sensor_write
  <2>2. UNCHANGED <<pinning, probed>> /\ NobodyConfigures
    BY <1>0, <2>1, SamplingStays
  <2> QED
    BY <1>1, <2>1, <2>2 DEF Stage
<1>5. CASE sensor_close(u, d)
  <2> SUFFICES ASSUME NEW e \in Devices PROVE PinInv(e)'
    BY DEF PinsKnown
  <2>1. /\ UNCHANGED <<probed, bound, leaving, trigger, echo, irqnum, busy,
                       at>>
        /\ handlers' \subseteq handlers
        /\ Goto(u, d, "closed")
    BY <1>5 DEF sensor_close, loading, settings
  <2>2. \A v \in Programs, c \in Devices :
          stage'[v][c] = IF v = u /\ c = d THEN "closed" ELSE stage[v][c]
    BY <2>1, Moves
  <2>3. \A v \in Programs : stage'[v][e] \in {"pins", "params", "written"} =>
                             stage[v][e] \in {"pins", "params", "written"}
    BY <2>2
  <2>4. PinInv(e)
    BY DEF PinsKnown
  <2> QED
    BY <2>1, <2>3, <2>4 DEF PinInv, Stands, Untold
<1> QED
  BY <1>2, <1>3, <1>4, <1>5, ConfigPinsKnowsPins DEF Call

LEMMA PinsAreKnown == ASSUME Observing PROVE Spec => []PinsKnown
<1>1. Init => PinsKnown
  BY NotNothing DEF Init, PinsKnown, PinInv, Stands, Untold
<1>2. TypeOK /\ LoadInv /\ UserInv /\ UserInv' /\ PinsKnown /\ [Next]_vars
      => PinsKnown'
  <2> SUFFICES ASSUME TypeOK, LoadInv, UserInv, UserInv', PinsKnown,
                      [Next]_vars
               PROVE  PinsKnown'
    OBVIOUS
  <2>1. ASSUME NEW u \in Users, NEW d \in Devices, Store(u, d)
        PROVE  PinsKnown'
    <3>1. CASE DropTrigger(u, d) \/ DropEcho(u, d)
      BY <3>1, SetsKnowPins DEF Sets
    <3>2. CASE enable_store(u, d)
      <4>1. StartSampling(u, d) /\ stage' = stage
        BY <3>2 DEF enable_store
      <4> QED
        BY <4>1, SamplingStays, PinsStay
    <3>3. ASSUME NEW tmp \in Requests, samples_store(u, d, tmp)
          PROVE  PinsKnown'
      <4>1. stage' = stage
        BY <3>3 DEF samples_store, calls
      <4> QED
        BY <3>3, <4>1, SamplingStays, PinsStay
    <3> QED
      BY <2>1, <3>1, <3>2, <3>3 DEF Store
  <2>2. ASSUME NEW u \in Users, NEW d \in Devices, Configure(u, d)
        PROVE  PinsKnown'
    BY <2>2, SetsKnowPins DEF Sets
  <2>3. ASSUME NEW u \in Users, NEW d \in Devices, Loop(u, d)
        PROVE  PinsKnown'
    <3>1. stage' = stage
      BY <2>3, LoopMoves
    <3> QED
      BY <2>3, <3>1, SamplingStays, PinsStay
  <2>4. ASSUME NEW d \in Devices, Tick(d) \/ Sound(d) PROVE PinsKnown'
    <3>1. stage' = stage
      BY <2>4 DEF Tick, Sound, Echo, EchoLost, calls
    <3> QED
      BY <2>4, <3>1, SamplingStays, PinsStay
  <2>5. CASE UNCHANGED vars
    <3>1. stage' = stage
      BY <2>5 DEF vars
    <3> QED
      BY <2>5, <3>1, SamplingStays, PinsStay
  <2> QED
    BY <2>1, <2>2, <2>3, <2>4, <2>5, Steps, ModulesKnowPins, CallKnowsPins
<1> QED
  BY <1>1, <1>2, TypeCorrect, LoadAlways, UsersAlways, PTL DEF Spec

-----------------------------------------------------------------------------
(* What the driver has requested *)

\* Where a process may have let go of the pins of a device.
TriggerOff   == {"set trigger", "take trigger"}
EchoOff      == {"free irq", "set echo"}
Configuring  == {"config trigger"}
Freeing      == {"free irq"}
Asking       == {"ask irq"}
SettingPlaces == {TriggerOff, EchoOff, Configuring, Freeing, Asking}

LEMMA SettingApart ==
  \A places \in SettingPlaces :
    /\ places \cap Looping = {} /\ "out" \notin places
BY DEF SettingPlaces, TriggerOff, EchoOff, Configuring, Freeing, Asking,
   Looping

\* Where a process is in setting pins.
Place(u) == IF busy[u] = Nothing THEN "out" ELSE at[u]

\* It is the only one with the device.
LEMMA SetsPlaces ==
  ASSUME Observing, TypeOK, UserInv, UserInv', NEW u \in Users,
         NEW d \in Devices, Sets(u, d)
  PROVE  \A places \in SettingPlaces :
           /\ Stands(d, places) <=> Place(u) \in places
           /\ Stands(d, places)' <=> Place(u)' \in places
<1> SUFFICES ASSUME NEW places \in SettingPlaces
             PROVE  /\ Stands(d, places) <=> Place(u) \in places
                    /\ Stands(d, places)' <=> Place(u)' \in places
  OBVIOUS
<1>0. /\ \A v \in Users : v # u => busy'[v] = busy[v] /\ at'[v] = at[v]
      /\ busy[u] \in {d, Nothing} /\ busy'[u] \in {d, Nothing}
      /\ d # Nothing
  BY SetsMoves, NotNothing DEF Stay
<1>1. \A v \in Users : busy[v] = d /\ at[v] \in places => v = u
  <2>1. CASE DropTrigger(u, d) \/ DropEcho(u, d)
    <3>1. \A v \in Users : ~Configures(v, d)
      BY <2>1, DropMoves DEF Turns, Observing, Observed, AllRules
    <3> QED
      BY <3>1, SettingApart DEF Configures
  <2>2. CASE Configure(u, d)
    <3>1. \A v \in Users : Configures(v, d) => v = u
      BY <2>2, ConfigureMoves DEF UserInv, SampleInv
    <3> QED
      BY <3>1, SettingApart DEF Configures
  <2> QED
    BY <2>1, <2>2 DEF Sets
<1>2. \A v \in Users : busy'[v] = d /\ at'[v] \in places => v = u
  BY <1>0, <1>1
<1> QED
  BY <1>0, <1>1, <1>2, SettingApart DEF Stands, Place

\* A bound device that is not being removed.
Attached(d) == d \in bound /\ d # leaving

TriggerMay(d) ==
  IF Attached(d) /\ trigger[d] # NoPin /\ ~Stands(d, TriggerOff)
  THEN Columns(trigger[d]) ELSE {}
EchoMay(d) ==
  IF Attached(d) /\ echo[d] # NoPin /\ ~Stands(d, EchoOff)
  THEN Columns(echo[d]) ELSE {}

\* Every GPIO that is requested belongs to a pin of such a device, and not to
\* one that is being replaced.
PinsCovered ==
  \A gpio \in gpios :
    \E d \in Devices : gpio \in TriggerMay(d) \cup EchoMay(d)

\* A step that adds nothing, and takes from no device what it had.
LEMMA StillCovered ==
  ASSUME PinsCovered, gpios' \subseteq gpios,
         \A d \in Devices :
           /\ TriggerMay(d) \cap gpios' \subseteq TriggerMay(d)'
           /\ EchoMay(d) \cap gpios' \subseteq EchoMay(d)'
  PROVE  PinsCovered'
BY DEF PinsCovered

LEMMA MayElsewhere ==
  ASSUME Observing, TypeOK, UserInv, NEW u \in Users, NEW d \in Devices,
         Sets(u, d), NEW e \in Devices, e # d
  PROVE  TriggerMay(e)' = TriggerMay(e) /\ EchoMay(e)' = EchoMay(e)
<1>1. /\ UNCHANGED <<bound, leaving>>
      /\ busy[u] \in {d, Nothing} /\ busy'[u] \in {d, Nothing}
      /\ \A v \in Users : v # u => busy'[v] = busy[v] /\ at'[v] = at[v]
  BY SetsMoves DEF Stay, loading
<1>2. /\ Stands(e, TriggerOff)' <=> Stands(e, TriggerOff)
      /\ Stands(e, EchoOff)' <=> Stands(e, EchoOff)
  <2>1. \A v \in Users : /\ busy'[v] = e <=> busy[v] = e
                         /\ busy[v] = e => at'[v] = at[v]
    BY <1>1, NotNothing
  <2> QED
    BY <2>1 DEF Stands, TriggerOff, EchoOff
<1>3. trigger'[e] = trigger[e] /\ echo'[e] = echo[e]
  BY SetsHere
<1> QED
  BY <1>1, <1>2, <1>3 DEF TriggerMay, EchoMay, Attached

LEMMA SetsCover ==
  ASSUME Observing, TypeOK, LoadInv, UserInv, UserInv', PinsKnown,
         NEW u \in Users, NEW d \in Devices, Sets(u, d)
  PROVE  gpios' \subseteq (gpios \ (TriggerMay(d) \cup EchoMay(d)))
                            \cup TriggerMay(d)' \cup EchoMay(d)'
<1>0. /\ PinInv(d) /\ Attached(d) /\ Attached(d)'
      /\ trigger[d] \in IOPins \cup {NoPin} /\ echo[d] \in IOPins \cup {NoPin}
      /\ d # Nothing
  BY SetsMoves, NotNothing
  DEF PinsKnown, LoadInv, Stay, loading, Attached, TypeOK
<1>1. /\ Stands(d, TriggerOff) <=> Place(u) \in TriggerOff
      /\ Stands(d, TriggerOff)' <=> Place(u)' \in TriggerOff
      /\ Stands(d, EchoOff) <=> Place(u) \in EchoOff
      /\ Stands(d, EchoOff)' <=> Place(u)' \in EchoOff
  BY SetsPlaces DEF SettingPlaces
<1>2. /\ TriggerMay(d) = IF trigger[d] # NoPin /\ Place(u) \notin TriggerOff
                           THEN Columns(trigger[d]) ELSE {}
      /\ TriggerMay(d)' = IF trigger'[d] # NoPin /\ Place(u)' \notin TriggerOff
                            THEN Columns(trigger'[d]) ELSE {}
      /\ EchoMay(d) = IF echo[d] # NoPin /\ Place(u) \notin EchoOff
                        THEN Columns(echo[d]) ELSE {}
      /\ EchoMay(d)' = IF echo'[d] # NoPin /\ Place(u)' \notin EchoOff
                         THEN Columns(echo'[d]) ELSE {}
  BY <1>0, <1>1 DEF TriggerMay, EchoMay
<1> USE DEF TriggerOff, EchoOff, Place
<1>3. ASSUME DropTrigger(u, d)
      PROVE  gpios' \subseteq (gpios \ (TriggerMay(d) \cup EchoMay(d)))
                                \cup TriggerMay(d)' \cup EchoMay(d)'
  <2>1. /\ UNCHANGED <<trigger, echo>> /\ Place(u) = "out"
        /\ Place(u)' = "set trigger"
        /\ gpios' = IF trigger[d] = NoPin THEN gpios
                    ELSE gpios \ Columns(trigger[d])
    BY <1>0, <1>3, UserTypes DEF DropTrigger, settings, Goes, Stores,
       gpio_deregister_out
  <2> QED
    BY <1>2, <2>1
<1>4. ASSUME NEW tmp \in TriggerPins[d], SetTrigger(u, d, tmp)
      PROVE  gpios' \subseteq (gpios \ (TriggerMay(d) \cup EchoMay(d)))
                                \cup TriggerMay(d)' \cup EchoMay(d)'
  <2>1. /\ UNCHANGED <<gpios, echo>> /\ Place(u) = "set trigger"
        /\ Place(u)' = "take trigger"
    BY <1>0, <1>4, UserTypes DEF SetTrigger, held, Goes, In
  <2> QED
    BY <1>2, <2>1
<1>5. ASSUME TakeTrigger(u, d)
      PROVE  gpios' \subseteq (gpios \ (TriggerMay(d) \cup EchoMay(d)))
                                \cup TriggerMay(d)' \cup EchoMay(d)'
  <2>1. /\ UNCHANGED <<trigger, echo>>
        /\ Place(u) \in {"take trigger", "config trigger"}
        /\ Place(u)' \in {"out", "take echo"}
        /\ gpios' = Requested(trigger[d])
    BY <1>0, <1>5, UserTypes DEF TakeTrigger, settings, Goes, Returns, In
  <2>2. trigger[d] # NoPin => gpios' \subseteq gpios \cup Columns(trigger[d])
    BY <1>0, <2>1, ConfigBounds DEF Requested
  <2>3. trigger[d] = NoPin => gpios' = gpios
    BY <2>1 DEF Requested
  <2> QED
    BY <1>2, <2>1, <2>2, <2>3
<1>6. ASSUME DropEcho(u, d)
      PROVE  gpios' \subseteq (gpios \ (TriggerMay(d) \cup EchoMay(d)))
                                \cup TriggerMay(d)' \cup EchoMay(d)'
  <2>1. /\ UNCHANGED <<trigger, echo>> /\ Place(u) = "out"
        /\ Place(u)' \in {"set echo", "free irq"}
        /\ gpios' = IF echo[d] = NoPin THEN gpios
                    ELSE gpios \ Columns(echo[d])
    BY <1>0, <1>6, UserTypes DEF DropEcho, settings, Goes, Stores,
       gpio_deregister_in
  <2> QED
    BY <1>2, <2>1
<1>7. ASSUME FreeIrq(u, d)
      PROVE  gpios' \subseteq (gpios \ (TriggerMay(d) \cup EchoMay(d)))
                                \cup TriggerMay(d)' \cup EchoMay(d)'
  <2>1. /\ UNCHANGED <<trigger, echo, gpios>> /\ Place(u) = "free irq"
        /\ Place(u)' = "set echo"
    BY <1>0, <1>7, UserTypes DEF FreeIrq, settings, Goes, In
  <2> QED
    BY <1>2, <2>1
<1>8. ASSUME NEW tmp \in EchoPins[d], SetEcho(u, d, tmp)
      PROVE  gpios' \subseteq (gpios \ (TriggerMay(d) \cup EchoMay(d)))
                                \cup TriggerMay(d)' \cup EchoMay(d)'
  <2>1. /\ UNCHANGED <<gpios, trigger>> /\ Place(u) = "set echo"
        /\ Place(u)' = "take echo"
    BY <1>0, <1>8, UserTypes DEF SetEcho, held, Goes, In
  <2> QED
    BY <1>2, <2>1
<1>9. ASSUME TakeEcho(u, d)
      PROVE  gpios' \subseteq (gpios \ (TriggerMay(d) \cup EchoMay(d)))
                                \cup TriggerMay(d)' \cup EchoMay(d)'
  <2>1. /\ UNCHANGED <<trigger, echo>>
        /\ Place(u) = "take echo" /\ Place(u)' = "ask irq"
        /\ gpios' = Requested(echo[d])
    BY <1>0, <1>9, UserTypes DEF TakeEcho, settings, Goes, In
  <2>2. echo[d] # NoPin => gpios' \subseteq gpios \cup Columns(echo[d])
    BY <1>0, <2>1, ConfigBounds DEF Requested
  <2>3. echo[d] = NoPin => gpios' = gpios
    BY <2>1 DEF Requested
  <2> QED
    BY <1>2, <2>1, <2>2, <2>3
<1>10. ASSUME AskIrq(u, d)
       PROVE  gpios' \subseteq (gpios \ (TriggerMay(d) \cup EchoMay(d)))
                                 \cup TriggerMay(d)' \cup EchoMay(d)'
  <2>1. /\ UNCHANGED <<trigger, echo, gpios>>
        /\ Place(u) = "ask irq" /\ Place(u)' = "out"
    BY <1>0, <1>10, UserTypes DEF AskIrq, Goes, Returns, In
  <2> QED
    BY <1>2, <2>1
<1> QED
  BY <1>3, <1>4, <1>5, <1>6, <1>7, <1>8, <1>9, <1>10 DEF Sets, Configure

LEMMA SetsKeepCover ==
  ASSUME Observing, TypeOK, LoadInv, UserInv, UserInv', PinsKnown, PinsCovered,
         NEW u \in Users, NEW d \in Devices, Sets(u, d)
  PROVE  PinsCovered'
<1> SUFFICES ASSUME NEW gpio \in gpios'
             PROVE  \E e \in Devices : gpio \in TriggerMay(e)' \cup EchoMay(e)'
  BY DEF PinsCovered
<1>1. gpio \in (gpios \ (TriggerMay(d) \cup EchoMay(d)))
                 \cup TriggerMay(d)' \cup EchoMay(d)'
  BY SetsCover
<1>2. CASE gpio \in gpios \ (TriggerMay(d) \cup EchoMay(d))
  <2>1. PICK e \in Devices : gpio \in TriggerMay(e) \cup EchoMay(e)
    BY <1>2 DEF PinsCovered
  <2>2. e # d
    BY <1>2, <2>1
  <2>3. TriggerMay(e)' = TriggerMay(e) /\ EchoMay(e)' = EchoMay(e)
    BY <2>2, MayElsewhere
  <2> QED
    BY <2>1, <2>3
<1> QED
  BY <1>1, <1>2

\* Whoever else stands nowhere.
LEMMA StandsLess ==
  ASSUME NobodyConfigures, NEW d \in Devices
  PROVE  /\ ~Stands(d, TriggerOff) => ~Stands(d, TriggerOff)'
         /\ ~Stands(d, EchoOff) => ~Stands(d, EchoOff)'
BY DEF NobodyConfigures, Stands, Configures, TriggerOff, EchoOff, Looping

LEMMA CoverStays ==
  ASSUME PinsCovered, UNCHANGED <<bound, leaving, trigger, echo>>,
         NobodyConfigures, gpios' \subseteq gpios
  PROVE  PinsCovered'
<1>1. \A d \in Devices : TriggerMay(d) \subseteq TriggerMay(d)'
                         /\ EchoMay(d) \subseteq EchoMay(d)'
  BY StandsLess DEF TriggerMay, EchoMay, Attached
<1> QED
  BY <1>1, StillCovered

LEMMA ModulesKeepCover ==
  ASSUME Observing, TypeOK, LoadInv, UserInv, PinsKnown, PinsCovered,
         \/ \E m \in Modules : Load(m) \/ Unload(m)
         \/ \E d \in Devices, result \in Results : Probe(d, result)
         \/ Detach
  PROVE  PinsCovered'
<1> USE DEF settings, held, calls
<1>1. ASSUME NEW m \in Modules, Load(m) \/ Unload(m) PROVE PinsCovered'
  BY <1>1, CoverStays DEF Load, Unload, loading, NobodyConfigures
<1>2. ASSUME NEW d \in Devices, NEW result \in Results, Probe(d, result)
      PROVE  PinsCovered'
  <2>1. /\ UNCHANGED <<busy, at, gpios, leaving>> /\ bound = probed
        /\ bound \subseteq bound'
    BY <1>2 DEF Probe, LoadInv
  <2>2. probed # {} => UNCHANGED <<trigger, echo>>
    BY <1>2 DEF Probe, Uninitialised
  <2>3. \A e \in Devices : TriggerMay(e) \subseteq TriggerMay(e)'
                           /\ EchoMay(e) \subseteq EchoMay(e)'
    BY <2>1, <2>2 DEF TriggerMay, EchoMay, Attached, Stands
  <2> QED
    BY <2>1, <2>3, StillCovered
<1>3. CASE Unloaded
  BY <1>3, CoverStays DEF Unloaded, NobodyConfigures
<1>4. ASSUME NEW d \in Devices, Remove(d) PROVE PinsCovered'
  <2>1. /\ UNCHANGED <<busy, at, bound, trigger, echo>> /\ leaving' = d
        /\ leaving = Nothing /\ d \in bound /\ unloading # Nothing
        /\ gpios' = Freed(d)
    BY <1>4 DEF Remove
  <2>2. /\ gpios' \subseteq gpios
        /\ gpios' \cap (TriggerMay(d) \cup EchoMay(d)) = {}
    BY <2>1 DEF Freed, gpio_deregister_out, gpio_deregister_in, TriggerMay,
       EchoMay
  <2>3. \A e \in Devices : e # d => TriggerMay(e) \subseteq TriggerMay(e)'
                                    /\ EchoMay(e) \subseteq EchoMay(e)'
    BY <2>1 DEF TriggerMay, EchoMay, Attached, Stands
  <2> QED
    BY <2>2, <2>3, StillCovered
<1>5. ASSUME NEW d \in Devices, Leave(d) PROVE PinsCovered'
  <2>1. /\ UNCHANGED <<busy, at, trigger, echo, gpios>> /\ leaving = d
        /\ leaving' = Nothing /\ bound' = bound \ {d}
    BY <1>5 DEF Leave
  <2>2. \A e \in Devices : TriggerMay(e) \subseteq TriggerMay(e)'
                           /\ EchoMay(e) \subseteq EchoMay(e)'
    BY <2>1, NotNothing DEF TriggerMay, EchoMay, Attached, Stands
  <2> QED
    BY <2>1, <2>2, StillCovered
<1> QED
  BY <1>1, <1>2, <1>3, <1>4, <1>5 DEF Detach

LEMMA CallKeepsCover ==
  ASSUME Observing, TypeOK, UserInv, PinsKnown, PinsCovered,
         NEW u \in Programs, NEW d \in Devices, Call(u, d)
  PROVE  PinsCovered'
<1>0. u \in Users
  BY DEF Users
<1>1. CASE Open(u, d)
  BY <1>1, CoverStays DEF Open, loading, settings, held, NobodyConfigures
<1>2. ASSUME NEW c_samples \in Requests, SetParams(u, d, c_samples)
      PROVE  PinsCovered'
  BY <1>2, CoverStays DEF SetParams, loading, held, NobodyConfigures
<1>3. CASE sensor_write(u, d)
  <2>1. UNCHANGED <<pinning, probed>> /\ NobodyConfigures
    BY <1>0, <1>3, SamplingStays DEF sensor_write
  <2> QED
    BY <2>1, CoverStays DEF pinning
<1>4. CASE sensor_close(u, d)
  <2>1. gpios' \subseteq gpios
    BY <1>4 DEF sensor_close, gpio_deregister_out, gpio_deregister_in
  <2> QED
    BY <1>4, <2>1, CoverStays
    DEF sensor_close, loading, settings, NobodyConfigures
<1>5. ASSUME NEW p_trigger \in TriggerPins[d], NEW p_echo \in EchoPins[d],
             ConfigPins(u, d, p_trigger, p_echo)
      PROVE  PinsCovered'
  <2>1. /\ UNCHANGED <<bound, leaving, gpios>>
        /\ \A c \in Devices :
             /\ trigger[c] # NoPin => trigger'[c] = trigger[c]
             /\ echo[c] # NoPin => echo'[c] = echo[c]
    BY <1>5 DEF ConfigPins, loading, held, TypeOK, Observing, Observed,
       AllRules
  <2>2. \A v \in Users : /\ busy'[v] = IF v = u THEN d ELSE busy[v]
                         /\ at'[v] = IF v = u THEN "config trigger" ELSE at[v]
    BY <1>0, <1>5, UserTypes DEF ConfigPins, Goes
  <2>3. \A c \in Devices :
          /\ ~Stands(c, TriggerOff) => ~Stands(c, TriggerOff)'
          /\ ~Stands(c, EchoOff) => ~Stands(c, EchoOff)'
    BY <2>2 DEF Stands, TriggerOff, EchoOff
  <2>4. \A c \in Devices : TriggerMay(c) \subseteq TriggerMay(c)'
                           /\ EchoMay(c) \subseteq EchoMay(c)'
    BY <2>1, <2>3 DEF TriggerMay, EchoMay, Attached
  <2> QED
    BY <2>1, <2>4, StillCovered
<1> QED
  BY <1>1, <1>2, <1>3, <1>4, <1>5 DEF Call

LEMMA CoverAlways == ASSUME Observing PROVE Spec => []PinsCovered
<1>1. Init => PinsCovered
  BY DEF Init, PinsCovered
<1>2. /\ TypeOK /\ LoadInv /\ UserInv /\ UserInv' /\ PinsKnown /\ PinsCovered
      /\ [Next]_vars
      => PinsCovered'
  <2> SUFFICES ASSUME TypeOK, LoadInv, UserInv, UserInv', PinsKnown,
                      PinsCovered, [Next]_vars
               PROVE  PinsCovered'
    OBVIOUS
  <2>1. ASSUME UNCHANGED <<pinning, probed>>, NobodyConfigures
        PROVE  PinsCovered'
    BY <2>1, CoverStays DEF pinning
  <2>2. ASSUME NEW u \in Users, NEW d \in Devices, Store(u, d)
        PROVE  PinsCovered'
    <3>1. CASE DropTrigger(u, d) \/ DropEcho(u, d)
      BY <3>1, SetsKeepCover DEF Sets
    <3>2. CASE enable_store(u, d)
      BY <2>1, <3>2, SamplingStays DEF enable_store
    <3>3. ASSUME NEW tmp \in Requests, samples_store(u, d, tmp)
          PROVE  PinsCovered'
      BY <2>1, <3>3, SamplingStays
    <3> QED
      BY <2>2, <3>1, <3>2, <3>3 DEF Store
  <2>3. ASSUME NEW u \in Users, NEW d \in Devices, Configure(u, d)
        PROVE  PinsCovered'
    BY <2>3, SetsKeepCover DEF Sets
  <2>4. CASE \/ \E d \in Devices : Tick(d) \/ Sound(d)
             \/ \E u \in Users, d \in Devices : Loop(u, d)
             \/ UNCHANGED vars
    BY <2>1, <2>4, SamplingStays
  <2> QED
    BY <2>2, <2>3, <2>4, Steps, ModulesKeepCover, CallKeepsCover
<1> QED
  BY <1>1, <1>2, TypeCorrect, LoadAlways, UsersAlways, PinsAreKnown, PTL
  DEF Spec

\* A module that has let go of both devices has given back every GPIO, every
\* interrupt, the class and the structures: what the code of remove leaves to
\* the removal of the other device is all released by the last one.
THEOREM UnloadingReleases ==
  ASSUME Observing PROVE Spec => []UnloadReleases
<1>1. LoadInv /\ PinsKnown /\ PinsCovered /\ TypeOK => UnloadReleases
  <2> SUFFICES ASSUME LoadInv, PinsKnown, PinsCovered, TypeOK, bound = {}
               PROVE  /\ gpios = {} /\ handlers = {} /\ ~class
                      /\ \A d \in Devices : memory[d] # "live"
    BY DEF UnloadReleases
  <2>1. gpios = {}
    BY DEF PinsCovered, TriggerMay, EchoMay, Attached
  <2>2. handlers = {}
    <3>1. \A pin \in IOPins \cup {NoPin}, d \in Devices :
            <<pin, d>> \notin handlers
      BY DEF PinsKnown, PinInv
    <3>2. ASSUME NEW h \in handlers PROVE FALSE
      <4>1. h \in (IOPins \cup {NoPin}) \X Devices
        BY <3>2 DEF TypeOK
      <4>2. PICK pin \in IOPins \cup {NoPin}, d \in Devices : h = <<pin, d>>
        BY <4>1
      <4> QED
        BY <3>1, <4>2
    <3> QED
      BY <3>2
  <2> QED
    BY <2>1, <2>2 DEF LoadInv
<1> QED
  BY <1>1, TypeCorrect, LoadAlways, PinsAreKnown, CoverAlways, PTL

-----------------------------------------------------------------------------
(* An IO pin for each purpose *)

\* An interrupt whose pin is requested: not while echo_store has freed the pin
\* and not yet the interrupt, and already before the interrupt is asked for.
Hears(d) == \/ <<echo[d], d>> \in handlers /\ ~Stands(d, Freeing)
            \/ Stands(d, Asking)

\* The trigger is held once it is set and requested, where CONFIG_PINS finds
\* it held or free; the echo is held exactly while the device hears.
TriggerHeld(d) ==
  Attached(d) /\ trigger[d] # NoPin /\ ~Stands(d, TriggerOff) =>
    \/ Columns(trigger[d]) \subseteq gpios
    \/ Stands(d, Configuring) /\ Columns(trigger[d]) \cap gpios = {}

EchoHeld(d) ==
  Attached(d) /\ echo[d] # NoPin =>
    IF Hears(d) THEN Columns(echo[d]) \subseteq gpios
                ELSE Columns(echo[d]) \cap gpios = {}

HeldInv(d) == TriggerHeld(d) /\ EchoHeld(d)
PinsHeld   == \A d \in Devices : HeldInv(d)

LEMMA PinsDiffer ==
  ASSUME PinsApart, PinsKnown
  PROVE  \A d, e \in Devices :
           /\ trigger[d] # NoPin => trigger[d] \in IOPins
           /\ echo[d] # NoPin => echo[d] \in IOPins
           /\ trigger[d] # NoPin => trigger[d] # echo[e]
           /\ d # e /\ trigger[d] # NoPin => trigger[d] # trigger[e]
           /\ d # e /\ echo[d] # NoPin => echo[d] # echo[e]
<1> SUFFICES ASSUME NEW d \in Devices, NEW e \in Devices
             PROVE  /\ trigger[d] # NoPin => trigger[d] \in IOPins
                    /\ echo[d] # NoPin => echo[d] \in IOPins
                    /\ trigger[d] # NoPin => trigger[d] # echo[e]
                    /\ d # e /\ trigger[d] # NoPin => trigger[d] # trigger[e]
                    /\ d # e /\ echo[d] # NoPin => echo[d] # echo[e]
  OBVIOUS
<1>1. /\ TriggerPins[d] \subseteq IOPins /\ EchoPins[d] \subseteq IOPins
      /\ TriggerPins[d] \cap EchoPins[e] = {}
      /\ d # e => /\ TriggerPins[d] \cap TriggerPins[e] = {}
                  /\ EchoPins[d] \cap EchoPins[e] = {}
  BY PinsTyped DEF PinsApart
<1>2. /\ trigger[d] \in TriggerPins[d] \cup {NoPin}
      /\ echo[d] \in EchoPins[d] \cup {NoPin}
      /\ trigger[e] \in TriggerPins[e] \cup {NoPin}
      /\ echo[e] \in EchoPins[e] \cup {NoPin}
  BY DEF PinsKnown, PinInv
<1> QED
  BY <1>1, <1>2

\* What a device has let go of, or never had, nobody holds.
LEMMA FreeTrigger ==
  ASSUME PinsApart, PinsKnown, PinsCovered, NEW d \in Devices,
         NEW p \in TriggerPins[d], TriggerMay(d) = {}
  PROVE  Columns(p) \cap gpios = {}
<1> SUFFICES ASSUME NEW gpio \in gpios, gpio \in Columns(p) PROVE FALSE
  OBVIOUS
<1>1. PICK e \in Devices : gpio \in TriggerMay(e) \cup EchoMay(e)
  BY DEF PinsCovered
<1>2. /\ trigger[e] \in TriggerPins[e] \cup {NoPin}
      /\ echo[e] \in EchoPins[e] \cup {NoPin}
  BY DEF PinsKnown, PinInv
<1>3. /\ TriggerPins[d] \subseteq IOPins
      /\ TriggerPins[e] \subseteq IOPins /\ EchoPins[e] \subseteq IOPins
  BY PinsTyped
<1>4. CASE gpio \in TriggerMay(e)
  <2>1. e # d /\ trigger[e] # NoPin /\ gpio \in Columns(trigger[e])
    BY <1>4 DEF TriggerMay
  <2>2. trigger[e] # p /\ trigger[e] \in IOPins /\ p \in IOPins
    BY <1>2, <1>3, <2>1 DEF PinsApart
  <2> QED
    BY <2>1, <2>2, OneOwner
<1>5. CASE gpio \in EchoMay(e)
  <2>1. echo[e] # NoPin /\ gpio \in Columns(echo[e])
    BY <1>5 DEF EchoMay
  <2>2. echo[e] # p /\ echo[e] \in IOPins /\ p \in IOPins
    BY <1>2, <1>3, <2>1 DEF PinsApart
  <2> QED
    BY <2>1, <2>2, OneOwner
<1> QED
  BY <1>1, <1>4, <1>5

LEMMA FreeEcho ==
  ASSUME PinsApart, PinsKnown, PinsCovered, NEW d \in Devices,
         NEW p \in EchoPins[d], EchoMay(d) = {}
  PROVE  Columns(p) \cap gpios = {}
<1> SUFFICES ASSUME NEW gpio \in gpios, gpio \in Columns(p) PROVE FALSE
  OBVIOUS
<1>1. PICK e \in Devices : gpio \in TriggerMay(e) \cup EchoMay(e)
  BY DEF PinsCovered
<1>2. /\ trigger[e] \in TriggerPins[e] \cup {NoPin}
      /\ echo[e] \in EchoPins[e] \cup {NoPin}
  BY DEF PinsKnown, PinInv
<1>3. /\ EchoPins[d] \subseteq IOPins
      /\ TriggerPins[e] \subseteq IOPins /\ EchoPins[e] \subseteq IOPins
  BY PinsTyped
<1>4. CASE gpio \in TriggerMay(e)
  <2>1. trigger[e] # NoPin /\ gpio \in Columns(trigger[e])
    BY <1>4 DEF TriggerMay
  <2>2. trigger[e] # p /\ trigger[e] \in IOPins /\ p \in IOPins
    BY <1>2, <1>3, <2>1 DEF PinsApart
  <2> QED
    BY <2>1, <2>2, OneOwner
<1>5. CASE gpio \in EchoMay(e)
  <2>1. e # d /\ echo[e] # NoPin /\ gpio \in Columns(echo[e])
    BY <1>5 DEF EchoMay
  <2>2. echo[e] # p /\ echo[e] \in IOPins /\ p \in IOPins
    BY <1>2, <1>3, <2>1 DEF PinsApart
  <2> QED
    BY <2>1, <2>2, OneOwner
<1> QED
  BY <1>1, <1>4, <1>5

\* A change of what is requested for one pin does not touch another.
Changes(q) == gpios' \in {gpios \ Columns(q), gpio_config(gpios, q)}

Unmoved(p) ==
  /\ Columns(p) \subseteq gpios <=> Columns(p) \subseteq gpios'
  /\ Columns(p) \cap gpios = {} <=> Columns(p) \cap gpios' = {}

LEMMA ChangesOne ==
  ASSUME NEW p \in IOPins, NEW q \in IOPins, p # q, Changes(q)
  PROVE  Unmoved(p)
<1> USE DEF Unmoved
<1>1. Columns(p) \cap Columns(q) = {}
  BY OneOwner
<1>2. CASE gpios' = gpios \ Columns(q)
  BY <1>1, <1>2
<1>3. CASE gpios' = gpio_config(gpios, q)
  <2>1. gpios \subseteq gpios' /\ gpios' \subseteq gpios \cup Columns(q)
    BY <1>3, ConfigBounds
  <2> QED
    BY <1>1, <2>1
<1> QED
  BY <1>2, <1>3 DEF Changes

LEMMA RequestWhole ==
  ASSUME TypeOK, NEW p \in IOPins, gpios' = Requested(p),
         Columns(p) \subseteq gpios \/ Columns(p) \cap gpios = {}
  PROVE  Columns(p) \subseteq gpios' /\ Changes(p)
<1>1. gpios' = gpio_config(gpios, p)
  BY PinsAreNumbers DEF Requested
<1>2. -1 \notin gpios
  BY Numbers DEF TypeOK
<1>3. CASE Columns(p) \subseteq gpios
  BY <1>1, <1>3, ConfigTaken DEF Changes
<1>4. CASE Columns(p) \cap gpios = {}
  BY <1>1, <1>2, <1>4, ConfigFree DEF Changes
<1> QED
  BY <1>3, <1>4

\* What the steps that set pins do to the GPIOs: at most one pin's change.
LEMMA SetsChange ==
  ASSUME TypeOK, NEW u \in Users, NEW d \in Devices, Sets(u, d)
  PROVE  \/ gpios' = gpios
         \/ \E q \in {trigger[d], echo[d]} \ {NoPin} : Changes(q)
<1> USE DEF held, Changes, gpio_deregister_out, gpio_deregister_in, Requested
<1>1. CASE DropTrigger(u, d)
  BY <1>1 DEF DropTrigger
<1>2. CASE DropEcho(u, d)
  BY <1>2 DEF DropEcho
<1>3. ASSUME NEW tmp \in TriggerPins[d], SetTrigger(u, d, tmp)
      PROVE  gpios' = gpios
  BY <1>3 DEF SetTrigger
<1>4. ASSUME NEW tmp \in EchoPins[d], SetEcho(u, d, tmp)
      PROVE  gpios' = gpios
  BY <1>4 DEF SetEcho
<1>5. CASE TakeTrigger(u, d)
  BY <1>5 DEF TakeTrigger
<1>6. CASE TakeEcho(u, d)
  BY <1>6 DEF TakeEcho
<1>7. CASE FreeIrq(u, d) \/ AskIrq(u, d)
  BY <1>7 DEF FreeIrq, AskIrq
<1> QED
  BY <1>1, <1>2, <1>3, <1>4, <1>5, <1>6, <1>7 DEF Sets, Configure

\* The other device keeps its pins.
StandsAlike(e) ==
  /\ Stands(e, TriggerOff)' <=> Stands(e, TriggerOff)
  /\ Stands(e, Configuring)' <=> Stands(e, Configuring)
  /\ Stands(e, Freeing)' <=> Stands(e, Freeing)
  /\ Stands(e, Asking)' <=> Stands(e, Asking)

LEMMA HeldElsewhere ==
  ASSUME PinsApart, PinsKnown,
         NEW d \in Devices, NEW e \in Devices, e # d, HeldInv(e),
         \/ gpios' = gpios
         \/ \E q \in {trigger[d], echo[d]} \ {NoPin} : Changes(q),
         Attached(e)' => /\ Attached(e)
                         /\ trigger'[e] = trigger[e] /\ echo'[e] = echo[e],
         \A pin : <<pin, e>> \in handlers' <=> <<pin, e>> \in handlers,
         StandsAlike(e)
  PROVE  HeldInv(e)'
<1>1. /\ trigger[e] # NoPin => Unmoved(trigger[e])
      /\ echo[e] # NoPin => Unmoved(echo[e])
  <2>1. CASE gpios' = gpios
    BY <2>1 DEF Unmoved
  <2>2. ASSUME NEW q \in {trigger[d], echo[d]} \ {NoPin}, Changes(q)
        PROVE  /\ trigger[e] # NoPin => Unmoved(trigger[e])
               /\ echo[e] # NoPin => Unmoved(echo[e])
    <3>1. q \in IOPins
      BY <2>2, PinsDiffer
    <3>2. ASSUME trigger[e] # NoPin PROVE Unmoved(trigger[e])
      <4>1. trigger[e] \in IOPins /\ trigger[e] # q
        BY <2>2, <3>2, PinsDiffer
      <4> QED
        BY <2>2, <3>1, <4>1, ChangesOne
    <3>3. ASSUME echo[e] # NoPin PROVE Unmoved(echo[e])
      <4>1. echo[e] \in IOPins /\ echo[e] # q
        BY <2>2, <3>3, PinsDiffer
      <4> QED
        BY <2>2, <3>1, <4>1, ChangesOne
    <3> QED
      BY <3>2, <3>3
  <2> QED
    BY <2>1, <2>2
<1>2. CASE ~Attached(e)'
  BY <1>2 DEF HeldInv, TriggerHeld, EchoHeld
<1>3. CASE Attached(e)'
  <2>1. Attached(e) /\ trigger'[e] = trigger[e] /\ echo'[e] = echo[e]
    BY <1>3
  <2>2. Hears(e)' <=> Hears(e)
    BY <2>1 DEF Hears, StandsAlike
  <2>3. TriggerHeld(e)'
    BY <1>1, <2>1 DEF HeldInv, TriggerHeld, StandsAlike, Unmoved
  <2>4. EchoHeld(e)'
    BY <1>1, <2>1, <2>2 DEF HeldInv, EchoHeld, Unmoved
  <2> QED
    BY <2>3, <2>4 DEF HeldInv
<1> QED
  BY <1>2, <1>3

\* The device whose pins are set.
LEMMA HeldHere ==
  ASSUME Observing, PinsApart, TypeOK, LoadInv, UserInv, UserInv', PinsKnown,
         PinsKnown', PinsCovered, NEW u \in Users, NEW d \in Devices,
         Sets(u, d), HeldInv(d)
  PROVE  HeldInv(d)'
<1>0. /\ PinInv(d) /\ PinInv(d)' /\ Attached(d) /\ Attached(d)'
      /\ d # Nothing
      /\ trigger[d] # NoPin => trigger[d] \in IOPins
      /\ echo[d] # NoPin => echo[d] \in IOPins
      /\ trigger[d] # NoPin => trigger[d] # echo[d]
  BY SetsMoves, NotNothing, PinsDiffer
  DEF PinsKnown, LoadInv, Stay, loading, Attached
<1>1. /\ Stands(d, TriggerOff) <=> Place(u) \in TriggerOff
      /\ Stands(d, TriggerOff)' <=> Place(u)' \in TriggerOff
      /\ Stands(d, EchoOff) <=> Place(u) \in EchoOff
      /\ Stands(d, EchoOff)' <=> Place(u)' \in EchoOff
      /\ Stands(d, Configuring) <=> Place(u) \in Configuring
      /\ Stands(d, Configuring)' <=> Place(u)' \in Configuring
      /\ Stands(d, Freeing) <=> Place(u) \in Freeing
      /\ Stands(d, Freeing)' <=> Place(u)' \in Freeing
      /\ Stands(d, Asking) <=> Place(u) \in Asking
      /\ Stands(d, Asking)' <=> Place(u)' \in Asking
  BY SetsPlaces DEF SettingPlaces
<1>2. TriggerHeld(d) /\ EchoHeld(d)
  BY DEF HeldInv
<1> SUFFICES TriggerHeld(d)' /\ EchoHeld(d)'
  BY DEF HeldInv
<1> DEFINE Goal == TriggerHeld(d)' /\ EchoHeld(d)'
<1> USE DEF TriggerOff, EchoOff, Configuring, Freeing, Asking, Place
<1>3. ASSUME DropTrigger(u, d) PROVE Goal
  <2>1. /\ UNCHANGED <<trigger, echo, handlers>> /\ Place(u) = "out"
        /\ Place(u)' = "set trigger"
        /\ gpios' = IF trigger[d] = NoPin THEN gpios
                    ELSE gpios \ Columns(trigger[d])
    BY <1>0, <1>3, UserTypes DEF DropTrigger, settings, Goes, Stores,
       gpio_deregister_out
  <2>2. TriggerHeld(d)'
    BY <1>1, <2>1 DEF TriggerHeld
  <2>3. echo[d] # NoPin => Unmoved(echo[d])
    BY <1>0, <2>1, ChangesOne DEF Changes, Unmoved
  <2>4. Hears(d)' <=> Hears(d)
    BY <1>1, <2>1 DEF Hears
  <2> QED
    BY <1>0, <1>2, <2>1, <2>2, <2>3, <2>4 DEF EchoHeld, Unmoved
<1>4. ASSUME NEW tmp \in TriggerPins[d], SetTrigger(u, d, tmp) PROVE Goal
  <2>1. /\ UNCHANGED <<gpios, echo, handlers>> /\ Place(u) = "set trigger"
        /\ Place(u)' = "take trigger"
    BY <1>0, <1>4, UserTypes DEF SetTrigger, held, Goes, In
  <2>2. TriggerHeld(d)'
    BY <1>1, <2>1 DEF TriggerHeld
  <2>3. Hears(d)' <=> Hears(d)
    BY <1>1, <2>1 DEF Hears
  <2> QED
    BY <1>0, <1>2, <2>1, <2>2, <2>3 DEF EchoHeld
<1>5. ASSUME TakeTrigger(u, d) PROVE Goal
  <2>1. /\ UNCHANGED <<trigger, echo, handlers>>
        /\ Place(u) \in {"take trigger", "config trigger"}
        /\ Place(u)' \in {"out", "take echo"}
        /\ gpios' = Requested(trigger[d])
    BY <1>0, <1>5, UserTypes DEF TakeTrigger, settings, Goes, Returns, In
  <2>2. trigger[d] # NoPin /\ trigger[d] \in IOPins
        /\ trigger[d] \in TriggerPins[d]
    <3>1. Stands(d, {"take trigger", "config trigger"})
      BY <2>1, <1>0, <1>5 DEF TakeTrigger, In, Stands
    <3> QED
      BY <1>0, <3>1 DEF PinInv
  <2>3. \/ Columns(trigger[d]) \subseteq gpios
        \/ Columns(trigger[d]) \cap gpios = {}
    <3>1. CASE Place(u) = "take trigger"
      <4>1. TriggerMay(d) = {}
        BY <1>1, <3>1 DEF TriggerMay
      <4> QED
        BY <2>2, <4>1, FreeTrigger
    <3>2. CASE Place(u) = "config trigger"
      BY <1>0, <1>1, <1>2, <2>2, <3>2 DEF TriggerHeld
    <3> QED
      BY <2>1, <3>1, <3>2
  <2>4. Columns(trigger[d]) \subseteq gpios' /\ Changes(trigger[d])
    BY <2>1, <2>2, <2>3, RequestWhole
  <2>5. TriggerHeld(d)'
    BY <2>1, <2>4 DEF TriggerHeld
  <2>6. echo[d] # NoPin => Unmoved(echo[d])
    BY <1>0, <2>2, <2>4, ChangesOne
  <2>7. Hears(d)' <=> Hears(d)
    BY <1>1, <2>1 DEF Hears
  <2> QED
    BY <1>0, <1>2, <2>1, <2>5, <2>6, <2>7 DEF EchoHeld, Unmoved
<1>6. ASSUME DropEcho(u, d) PROVE Goal
  <2>1. /\ UNCHANGED <<trigger, echo, handlers>> /\ Place(u) = "out"
        /\ Place(u)' = IF echo[d] = NoPin THEN "set echo" ELSE "free irq"
        /\ gpios' = IF echo[d] = NoPin THEN gpios
                    ELSE gpios \ Columns(echo[d])
    BY <1>0, <1>6, UserTypes DEF DropEcho, settings, Goes, Stores,
       gpio_deregister_in
  <2>2. trigger[d] # NoPin => Unmoved(trigger[d])
    BY <1>0, <2>1, ChangesOne DEF Changes, Unmoved
  <2>3. TriggerHeld(d)'
    BY <1>0, <1>1, <1>2, <2>1, <2>2 DEF TriggerHeld, Unmoved
  <2>4. echo[d] # NoPin => ~Hears(d)'
    BY <1>1, <2>1 DEF Hears
  <2> QED
    BY <2>1, <2>3, <2>4 DEF EchoHeld
<1>7. ASSUME FreeIrq(u, d) PROVE Goal
  <2>1. /\ UNCHANGED <<trigger, echo, gpios>> /\ Place(u) = "free irq"
        /\ Place(u)' = "set echo"
    BY <1>0, <1>7, UserTypes DEF FreeIrq, settings, Goes, In
  <2>2. TriggerHeld(d)'
    BY <1>0, <1>1, <1>2, <2>1 DEF TriggerHeld
  <2>3. ~Hears(d)
    BY <1>1, <2>1 DEF Hears
  <2>4. echo[d] # NoPin => ~Hears(d)'
    <3>1. Untold(d)'
      BY <1>0, <1>1, <2>1, <1>7 DEF FreeIrq, Untold, PinInv
    <3> QED
      BY <1>0, <1>1, <2>1, <3>1 DEF Hears, Untold
  <2> QED
    BY <1>0, <1>2, <2>1, <2>2, <2>3, <2>4 DEF EchoHeld
<1>8. ASSUME NEW tmp \in EchoPins[d], SetEcho(u, d, tmp) PROVE Goal
  <2>1. /\ UNCHANGED <<gpios, trigger, handlers>> /\ Place(u) = "set echo"
        /\ Place(u)' = "take echo" /\ echo'[d] = tmp
    BY <1>0, <1>8, UserTypes DEF SetEcho, held, Goes, In, TypeOK
  <2>2. TriggerHeld(d)'
    BY <1>0, <1>1, <1>2, <2>1 DEF TriggerHeld
  <2>3. ~Hears(d)'
    <3>1. Stands(d, {"set echo"})
      BY <1>0, <1>8, <2>1 DEF SetEcho, In, Stands
    <3>2. \A pin \in IOPins \cup {NoPin} : <<pin, d>> \notin handlers
      BY <1>0, <3>1 DEF PinInv, Untold
    <3>3. echo'[d] \in IOPins
      BY <2>1, PinsTyped
    <3> QED
      BY <1>1, <2>1, <3>2, <3>3 DEF Hears
  <2>4. Columns(tmp) \cap gpios = {}
    <3>1. EchoMay(d) = {}
      BY <1>1, <2>1 DEF EchoMay
    <3> QED
      BY <3>1, FreeEcho
  <2> QED
    BY <2>1, <2>2, <2>3, <2>4 DEF EchoHeld
<1>9. ASSUME TakeEcho(u, d) PROVE Goal
  <2>1. /\ UNCHANGED <<trigger, echo, handlers>>
        /\ Place(u) = "take echo" /\ Place(u)' = "ask irq"
        /\ gpios' = Requested(echo[d])
    BY <1>0, <1>9, UserTypes DEF TakeEcho, settings, Goes, In
  <2>2. echo[d] # NoPin /\ echo[d] \in IOPins
    <3>1. Stands(d, {"config trigger", "take echo", "ask irq"})
      BY <1>0, <1>9, <2>1 DEF TakeEcho, In, Stands
    <3> QED
      BY <1>0, <3>1 DEF PinInv
  <2>3. Columns(echo[d]) \subseteq gpios' /\ Changes(echo[d])
    BY <1>0, <1>2, <2>1, <2>2, RequestWhole DEF EchoHeld
  <2>4. trigger[d] # NoPin => Unmoved(trigger[d])
    BY <1>0, <2>2, <2>3, ChangesOne
  <2>5. TriggerHeld(d)'
    BY <1>0, <1>1, <1>2, <2>1, <2>4 DEF TriggerHeld, Unmoved
  <2>6. Hears(d)'
    BY <1>1, <2>1 DEF Hears
  <2> QED
    BY <2>1, <2>3, <2>5, <2>6 DEF EchoHeld
<1>10. ASSUME AskIrq(u, d) PROVE Goal
  <2>1. /\ UNCHANGED <<trigger, echo, gpios>>
        /\ Place(u) = "ask irq" /\ Place(u)' = "out"
        /\ handlers' = Watch(d, echo[d])
    BY <1>0, <1>10, UserTypes DEF AskIrq, Goes, Returns, In
  <2>2. TriggerHeld(d)'
    BY <1>0, <1>1, <1>2, <2>1 DEF TriggerHeld
  <2>3. Hears(d)
    BY <1>1, <2>1 DEF Hears
  <2>4. echo[d] # NoPin => Hears(d)'
    <3>1. ASSUME NEW e \in Devices, e # d, echo[d] # NoPin
          PROVE  <<echo[d], e>> \notin handlers
      <4>1. echo[d] # echo[e] /\ echo[d] \in IOPins
        BY <1>0, <3>1, PinsDiffer
      <4>2. PinInv(e)
        BY DEF PinsKnown
      <4> QED
        BY <4>1, <4>2 DEF PinInv
    <3>2. echo[d] # NoPin => <<echo[d], d>> \in handlers'
      BY <2>1, <3>1 DEF Watch
    <3> QED
      BY <1>1, <2>1, <3>2 DEF Hears
  <2> QED
    BY <1>0, <1>2, <2>1, <2>2, <2>3, <2>4 DEF EchoHeld
<1> QED
  BY <1>3, <1>4, <1>5, <1>6, <1>7, <1>8, <1>9, <1>10 DEF Sets, Configure

LEMMA SetsKeepHeld ==
  ASSUME Observing, PinsApart, TypeOK, LoadInv, UserInv, UserInv', PinsKnown,
         PinsKnown', PinsCovered, PinsHeld,
         NEW u \in Users, NEW d \in Devices, Sets(u, d)
  PROVE  PinsHeld'
<1> SUFFICES ASSUME NEW e \in Devices PROVE HeldInv(e)'
  BY DEF PinsHeld
<1>0. HeldInv(e)
  BY DEF PinsHeld
<1>1. CASE e = d
  BY <1>0, <1>1, HeldHere
<1>2. CASE e # d
  <2>1. /\ UNCHANGED <<bound, leaving>>
        /\ busy[u] \in {d, Nothing} /\ busy'[u] \in {d, Nothing}
        /\ \A v \in Users : v # u => busy'[v] = busy[v] /\ at'[v] = at[v]
    BY SetsMoves DEF Stay, loading
  <2>2. StandsAlike(e)
    <3>1. \A v \in Users : /\ busy'[v] = e <=> busy[v] = e
                           /\ busy[v] = e => at'[v] = at[v]
      BY <1>2, <2>1, NotNothing
    <3> QED
      BY <3>1
      DEF StandsAlike, Stands, TriggerOff, Configuring, Freeing, Asking
  <2>3. /\ trigger'[e] = trigger[e] /\ echo'[e] = echo[e]
        /\ \A pin : <<pin, e>> \in handlers' <=> <<pin, e>> \in handlers
    BY <1>2, SetsHere
  <2>4. \/ gpios' = gpios
        \/ \E q \in {trigger[d], echo[d]} \ {NoPin} : Changes(q)
    BY SetsChange
  <2>5. Attached(e)' => Attached(e)
    BY <2>1 DEF Attached
  <2> QED
    BY <1>0, <1>2, <2>2, <2>3, <2>4, <2>5, HeldElsewhere
<1> QED
  BY <1>1, <1>2

\* Who samples with a device does not stand where pins are set.
LEMMA HeldStays ==
  ASSUME PinsHeld, UNCHANGED pinning, \A e \in Devices : StandsAlike(e)
  PROVE  PinsHeld'
<1> SUFFICES ASSUME NEW e \in Devices PROVE HeldInv(e)'
  BY DEF PinsHeld
<1>1. HeldInv(e) /\ StandsAlike(e)
  BY DEF PinsHeld
<1>2. Hears(e)' <=> Hears(e)
  BY <1>1 DEF Hears, StandsAlike, pinning
<1>3. Attached(e)' <=> Attached(e)
  BY DEF Attached, pinning
<1> QED
  BY <1>1, <1>2, <1>3
  DEF HeldInv, TriggerHeld, EchoHeld, StandsAlike, pinning

\* The processes that set pins stay where they are.
KeepPlaces ==
  \A v \in Users, e \in Devices :
    /\ Configures(v, e)' <=> Configures(v, e)
    /\ Configures(v, e) => at'[v] = at[v]

LEMMA PlacesAlike ==
  ASSUME KeepPlaces, NEW e \in Devices
  PROVE  StandsAlike(e)
BY DEF KeepPlaces, StandsAlike, Stands, TriggerOff, Configuring, Freeing,
   Asking, Configures, Looping

LEMMA SamplingAlike ==
  ASSUME TypeOK, \/ \E d \in Devices : Tick(d) \/ Sound(d)
                 \/ \E u \in Users, d \in Devices : Loop(u, d)
                 \/ \E u \in Users, d \in Devices, tmp \in Requests :
                      samples_store(u, d, tmp)
                 \/ \E u \in Users, d \in Devices :
                      StartSampling(u, d) /\ busy[u] = Nothing
                 \/ UNCHANGED vars
  PROVE  KeepPlaces
<1>1. ASSUME UNCHANGED <<busy, at>> PROVE KeepPlaces
  BY <1>1 DEF KeepPlaces, Configures
<1>2. ASSUME NEW d \in Devices, Tick(d) \/ Sound(d) PROVE KeepPlaces
  BY <1>1, <1>2 DEF Tick, Sound, Echo, EchoLost, calls
<1>3. ASSUME NEW u \in Users, NEW d \in Devices, Loop(u, d) PROVE KeepPlaces
  <2>1. /\ \A v \in Users : v # u => busy'[v] = busy[v] /\ at'[v] = at[v]
        /\ Samples(u, d) /\ (Samples(u, d)' \/ busy'[u] = Nothing)
    BY <1>3, LoopMoves DEF Loop
  <2> QED
    BY <2>1, NotNothing DEF KeepPlaces, Configures, Samples
<1>4. ASSUME NEW u \in Users, NEW d \in Devices, NEW tmp \in Requests,
             samples_store(u, d, tmp)
      PROVE  KeepPlaces
  BY <1>1, <1>4 DEF samples_store, calls
<1>5. ASSUME NEW u \in Users, NEW d \in Devices, StartSampling(u, d),
             busy[u] = Nothing
      PROVE  KeepPlaces
  <2>1. \A v \in Users : /\ busy'[v] = IF v = u THEN d ELSE busy[v]
                         /\ at'[v] = IF v = u THEN "loop" ELSE at[v]
    BY <1>5, UserTypes DEF StartSampling, Goes
  <2> QED
    BY <1>5, <2>1, NotNothing DEF KeepPlaces, Configures, Looping
<1>6. CASE UNCHANGED vars
  BY <1>1, <1>6 DEF vars
<1> QED
  BY <1>2, <1>3, <1>4, <1>5, <1>6

LEMMA ModulesKeepHeld ==
  ASSUME Observing, PinsApart, TypeOK, LoadInv, UserInv, PinsKnown, PinsHeld,
         \/ \E m \in Modules : Load(m) \/ Unload(m)
         \/ \E d \in Devices, result \in Results : Probe(d, result)
         \/ Detach
  PROVE  PinsHeld'
<1> SUFFICES ASSUME NEW e \in Devices PROVE HeldInv(e)'
  BY DEF PinsHeld
<1>0. HeldInv(e) /\ PinInv(e)
  BY DEF PinsHeld, PinsKnown
<1> USE DEF settings, held, calls
<1>1. ASSUME NEW m \in Modules, Load(m) \/ Unload(m) PROVE HeldInv(e)'
  <2>1. UNCHANGED <<bound, leaving, trigger, echo, gpios, handlers, busy, at>>
    BY <1>1 DEF Load, Unload, loading
  <2> QED
    BY <1>0, <2>1
    DEF HeldInv, TriggerHeld, EchoHeld, Hears, Attached, Stands
<1>2. ASSUME NEW d \in Devices, NEW result \in Results, Probe(d, result)
      PROVE  HeldInv(e)'
  <2>1. /\ UNCHANGED <<busy, at, gpios, handlers, leaving>> /\ bound = probed
        /\ bound' = bound \cup {d} /\ d \notin bound
    BY <1>2 DEF Probe, LoadInv, Observing
  <2>2. CASE probed = {}
    <3>1. trigger'[e] = NoPin /\ echo'[e] = NoPin
      BY <1>2, <2>2 DEF Probe, Uninitialised, Observing
    <3> QED
      BY <3>1 DEF HeldInv, TriggerHeld, EchoHeld
  <2>3. CASE probed # {}
    <3>1. UNCHANGED <<trigger, echo>>
      BY <1>2, <2>3 DEF Probe, Uninitialised
    <3>2. CASE e = d
      BY <1>0, <2>1, <2>3, <3>1, <3>2
      DEF PinInv, HeldInv, TriggerHeld, EchoHeld
    <3>3. CASE e # d
      <4>1. Attached(e)' <=> Attached(e)
        BY <2>1, <3>3 DEF Attached
      <4> QED
        BY <1>0, <2>1, <3>1, <4>1
        DEF HeldInv, TriggerHeld, EchoHeld, Hears, Stands
    <3> QED
      BY <3>2, <3>3
  <2> QED
    BY <2>2, <2>3
<1>3. CASE Unloaded
  <2>1. UNCHANGED <<bound, leaving, trigger, echo, gpios, handlers, busy, at>>
    BY <1>3 DEF Unloaded
  <2> QED
    BY <1>0, <2>1
    DEF HeldInv, TriggerHeld, EchoHeld, Hears, Attached, Stands
<1>4. ASSUME NEW d \in Devices, Remove(d) PROVE HeldInv(e)'
  <2>1. /\ UNCHANGED <<busy, at, bound, trigger, echo>> /\ leaving' = d
        /\ leaving = Nothing
        /\ gpios' = Freed(d) /\ handlers' = handlers \ {<<irqnum[d], d>>}
    BY <1>4 DEF Remove
  <2>2. CASE e = d
    BY <2>1, <2>2 DEF HeldInv, TriggerHeld, EchoHeld, Attached
  <2>3. CASE e # d
    <3>1. /\ trigger[e] # NoPin => Unmoved(trigger[e])
          /\ echo[e] # NoPin => Unmoved(echo[e])
      <4>1. ASSUME NEW p \in IOPins, p # trigger[d], p # echo[d]
            PROVE  Unmoved(p)
        <5>1. /\ trigger[d] # NoPin =>
                   Columns(p) \cap Columns(trigger[d]) = {}
              /\ echo[d] # NoPin => Columns(p) \cap Columns(echo[d]) = {}
          BY <4>1, PinsDiffer, OneOwner
        <5> QED
          BY <2>1, <5>1
          DEF Freed, gpio_deregister_out, gpio_deregister_in, Unmoved
      <4>2. ASSUME trigger[e] # NoPin PROVE Unmoved(trigger[e])
        <5>1. /\ trigger[e] \in IOPins /\ trigger[e] # trigger[d]
              /\ trigger[e] # echo[d]
          BY <2>3, <4>2, PinsDiffer
        <5> QED
          BY <4>1, <5>1
      <4>3. ASSUME echo[e] # NoPin PROVE Unmoved(echo[e])
        <5>1. echo[e] \in IOPins /\ echo[e] # echo[d]
          BY <2>3, <4>3, PinsDiffer
        <5>2. trigger[d] # NoPin => trigger[d] # echo[e]
          BY PinsDiffer
        <5>3. echo[e] # trigger[d]
          BY <4>3, <5>2
        <5> QED
          BY <4>1, <5>1, <5>3
      <4> QED
        BY <4>2, <4>3
    <3>2. Attached(e)' <=> Attached(e)
      BY <2>1, <2>3, NotNothing DEF Attached
    <3>3. <<echo[e], e>> \in handlers' <=> <<echo[e], e>> \in handlers
      BY <2>1, <2>3
    <3> QED
      BY <1>0, <2>1, <3>1, <3>2, <3>3
      DEF HeldInv, TriggerHeld, EchoHeld, Hears, Stands, Unmoved
  <2> QED
    BY <2>2, <2>3
<1>5. ASSUME NEW d \in Devices, Leave(d) PROVE HeldInv(e)'
  <2>1. /\ UNCHANGED <<busy, at, trigger, echo, gpios, handlers>>
        /\ leaving = d /\ leaving' = Nothing /\ bound' = bound \ {d}
    BY <1>5 DEF Leave
  <2>2. Attached(e)' <=> Attached(e)
    BY <2>1, NotNothing DEF Attached
  <2> QED
    BY <1>0, <2>1, <2>2
    DEF HeldInv, TriggerHeld, EchoHeld, Hears, Stands
<1> QED
  BY <1>1, <1>2, <1>3, <1>4, <1>5 DEF Detach

LEMMA ConfigPinsKeepsHeld ==
  ASSUME Observing, PinsApart, TypeOK, LoadInv, UserInv, PinsKnown,
         PinsCovered, PinsHeld, NEW u \in Programs, NEW d \in Devices,
         NEW p_trigger \in TriggerPins[d], NEW p_echo \in EchoPins[d],
         ConfigPins(u, d, p_trigger, p_echo)
  PROVE  PinsHeld'
<1> SUFFICES ASSUME NEW e \in Devices PROVE HeldInv(e)'
  BY DEF PinsHeld
<1>0. u \in Users /\ HeldInv(e) /\ PinInv(e)
  BY DEF PinsKnown, Users, PinsHeld
<1>1. /\ UNCHANGED <<bound, leaving, gpios, handlers>>
      /\ \A c \in Devices :
           /\ trigger'[c] = IF c = d THEN p_trigger ELSE trigger[c]
           /\ echo'[c] = IF c = d THEN p_echo ELSE echo[c]
      /\ busy[u] = Nothing
      /\ trigger[d] \in {NoPin, p_trigger} /\ echo[d] \in {NoPin, p_echo}
      /\ \A v \in Users : ~Configures(v, d)
  BY DEF ConfigPins, loading, held, TypeOK, Stage, Turns, Observing, Observed,
     AllRules
<1>2. \A v \in Users : /\ busy'[v] = IF v = u THEN d ELSE busy[v]
                       /\ at'[v] = IF v = u THEN "config trigger" ELSE at[v]
  BY <1>0, UserTypes DEF ConfigPins, Goes
<1>3. CASE e # d
  <2>1. StandsAlike(e)
    <3>1. \A v \in Users : /\ busy'[v] = e <=> busy[v] = e
                           /\ busy[v] = e => at'[v] = at[v]
      BY <1>1, <1>2, <1>3, NotNothing
    <3> QED
      BY <3>1
      DEF StandsAlike, Stands, TriggerOff, Configuring, Freeing, Asking
  <2>2. Attached(e)' => /\ Attached(e)
                        /\ trigger'[e] = trigger[e] /\ echo'[e] = echo[e]
    BY <1>1, <1>3 DEF Attached
  <2> QED
    BY <1>0, <1>1, <1>3, <2>1, <2>2, HeldElsewhere
<1>4. CASE e = d
  <2>1. /\ ~Stands(d, TriggerOff) /\ ~Stands(d, EchoOff)
        /\ ~Stands(d, Configuring)
        /\ ~Stands(d, Freeing) /\ ~Stands(d, Asking)
    BY <1>1 DEF Stands, Configures, TriggerOff, EchoOff, Configuring, Freeing,
       Asking, Looping
  <2>2. /\ Stands(d, Configuring)'
        /\ ~Stands(d, Freeing)' /\ ~Stands(d, Asking)'
    BY <1>0, <1>1, <1>2
    DEF Stands, Configures, Configuring, Freeing, Asking, Looping
  <2>3. Attached(d)' <=> Attached(d)
    BY <1>1 DEF Attached
  <2>4. TriggerHeld(d)'
    <3>1. CASE trigger[d] = NoPin
      <4>1. TriggerMay(d) = {}
        BY <3>1 DEF TriggerMay
      <4>2. Columns(p_trigger) \cap gpios = {}
        BY <4>1, FreeTrigger
      <4> QED
        BY <1>1, <2>2, <4>2 DEF TriggerHeld
    <3>2. CASE trigger[d] # NoPin
      BY <1>0, <1>1, <1>4, <2>1, <2>3, <3>2 DEF HeldInv, TriggerHeld
    <3> QED
      BY <3>1, <3>2
  <2>5. EchoHeld(d)'
    <3>1. CASE echo[d] = NoPin
      <4>1. EchoMay(d) = {}
        BY <3>1 DEF EchoMay
      <4>2. Columns(p_echo) \cap gpios = {}
        BY <4>1, FreeEcho
      <4>3. p_echo \in IOPins
        BY PinsTyped
      <4>4. ~Hears(d)'
        BY <1>0, <1>1, <1>4, <2>2, <3>1, <4>3, PinsAreNumbers
        DEF Hears, PinInv
      <4> QED
        BY <1>1, <4>2, <4>4 DEF EchoHeld
    <3>2. CASE echo[d] # NoPin
      <4>1. echo'[d] = echo[d]
        BY <1>1, <3>2
      <4>2. Hears(d)' <=> Hears(d)
        BY <1>1, <2>1, <2>2, <4>1 DEF Hears
      <4> QED
        BY <1>0, <1>1, <1>4, <2>3, <4>1, <4>2 DEF HeldInv, EchoHeld
    <3> QED
      BY <3>1, <3>2
  <2> QED
    BY <1>4, <2>4, <2>5 DEF HeldInv
<1> QED
  BY <1>3, <1>4

\* close does not bring the trigger pin: nothing it can cancel is queued.
LEMMA CloseKeepsHeld ==
  ASSUME Observing, PinsApart, TypeOK, LoadInv, UserInv, PinsKnown, PinsHeld,
         NEW u \in Programs, NEW d \in Devices, sensor_close(u, d)
  PROVE  PinsHeld'
<1> SUFFICES ASSUME NEW e \in Devices PROVE HeldInv(e)'
  BY DEF PinsHeld
<1>0. HeldInv(e) /\ PinInv(e) /\ PinInv(d) /\ SampleInv(d)
  BY DEF PinsKnown, PinsHeld, UserInv
<1>1. /\ UNCHANGED <<bound, leaving, trigger, echo, irqnum, busy, at>>
      /\ handlers' = handlers \ {<<irqnum[d], d>>}
      /\ stage[u][d] = "written" /\ ~Sampled(d)
      /\ \A v \in Users : ~Configures(v, d)
  BY DEF sensor_close, loading, settings, Stage, Turns, Observing, Observed,
     AllRules
<1>2. hr_timer[d] # "queued"
  BY <1>0, <1>1 DEF SampleInv
<1>3. gpios' = gpios \ Columns(echo[d])
  BY <1>2 DEF sensor_close, gpio_deregister_in
<1>4. echo[d] # NoPin /\ trigger[d] # NoPin
  BY <1>0, <1>1 DEF PinInv
<1>5. Attached(e)' <=> Attached(e)
  BY <1>1 DEF Attached
<1>6. CASE e # d
  <2>1. StandsAlike(e)
    BY <1>1 DEF StandsAlike, Stands
  <2>2. Changes(echo[d])
    BY <1>3 DEF Changes
  <2>3. \A pin : <<pin, e>> \in handlers' <=> <<pin, e>> \in handlers
    BY <1>1, <1>6
  <2> QED
    BY <1>0, <1>1, <1>4, <1>5, <1>6, <2>1, <2>2, <2>3, HeldElsewhere
<1>7. CASE e = d
  <2>1. Unmoved(trigger[d])
    <3>1. /\ trigger[d] \in IOPins /\ echo[d] \in IOPins
          /\ trigger[d] # echo[d]
      BY <1>4, PinsDiffer
    <3> QED
      BY <1>3, <3>1, ChangesOne DEF Changes
  <2>2. TriggerHeld(d)'
    BY <1>0, <1>1, <1>5, <1>7, <2>1
    DEF HeldInv, TriggerHeld, Stands, Unmoved
  <2>3. ~Hears(d)'
    <3>1. echo[d] \in IOPins
      BY <1>4, PinsDiffer
    <3>2. <<echo[d], d>> \notin handlers'
      BY <1>0, <1>1, <3>1 DEF PinInv
    <3>3. ~Stands(d, Asking)'
      BY <1>1 DEF Stands, Configures, Asking, Looping
    <3> QED
      BY <1>1, <3>2, <3>3 DEF Hears
  <2>4. EchoHeld(d)'
    BY <1>1, <1>3, <2>3 DEF EchoHeld
  <2> QED
    BY <1>7, <2>2, <2>4 DEF HeldInv
<1> QED
  BY <1>6, <1>7

LEMMA CallKeepsHeld ==
  ASSUME Observing, PinsApart, TypeOK, LoadInv, UserInv, PinsKnown,
         PinsCovered, PinsHeld, NEW u \in Programs, NEW d \in Devices,
         Call(u, d)
  PROVE  PinsHeld'
<1>0. u \in Users
  BY DEF Users
<1>1. ASSUME UNCHANGED pinning, KeepPlaces PROVE PinsHeld'
  BY <1>1, PlacesAlike, HeldStays
<1>2. CASE Open(u, d)
  BY <1>1, <1>2
  DEF Open, pinning, loading, settings, held, KeepPlaces, Configures
<1>3. ASSUME NEW c_samples \in Requests, SetParams(u, d, c_samples)
      PROVE  PinsHeld'
  BY <1>1, <1>3 DEF SetParams, pinning, loading, held, KeepPlaces, Configures
<1>4. CASE sensor_write(u, d)
  <2>1. StartSampling(u, d) /\ busy[u] = Nothing
    BY <1>4 DEF sensor_write, Stage
  <2>2. UNCHANGED pinning /\ KeepPlaces
    BY <1>0, <2>1, SamplingStays, SamplingAlike
  <2> QED
    BY <1>1, <2>2
<1> QED
  BY <1>2, <1>3, <1>4, ConfigPinsKeepsHeld, CloseKeepsHeld DEF Call

LEMMA HeldAlways == ASSUME Observing, PinsApart PROVE Spec => []PinsHeld
<1>1. Init => PinsHeld
  BY DEF Init, PinsHeld, HeldInv, TriggerHeld, EchoHeld, Attached
<1>2. /\ TypeOK /\ LoadInv /\ UserInv /\ UserInv' /\ PinsKnown /\ PinsKnown'
      /\ PinsCovered /\ PinsHeld /\ [Next]_vars
      => PinsHeld'
  <2> SUFFICES ASSUME TypeOK, LoadInv, UserInv, UserInv', PinsKnown,
                      PinsKnown', PinsCovered, PinsHeld, [Next]_vars
               PROVE  PinsHeld'
    OBVIOUS
  <2>1. ASSUME UNCHANGED pinning, KeepPlaces PROVE PinsHeld'
    BY <2>1, PlacesAlike, HeldStays
  <2>2. ASSUME NEW u \in Users, NEW d \in Devices, Store(u, d)
        PROVE  PinsHeld'
    <3>1. CASE DropTrigger(u, d) \/ DropEcho(u, d)
      BY <3>1, SetsKeepHeld DEF Sets
    <3>2. CASE enable_store(u, d)
      <4>1. StartSampling(u, d) /\ busy[u] = Nothing
        BY <3>2 DEF enable_store, Stores
      <4> QED
        BY <2>1, <4>1, SamplingStays, SamplingAlike
    <3>3. ASSUME NEW tmp \in Requests, samples_store(u, d, tmp)
          PROVE  PinsHeld'
      BY <2>1, <3>3, SamplingStays, SamplingAlike
    <3> QED
      BY <2>2, <3>1, <3>2, <3>3 DEF Store
  <2>3. ASSUME NEW u \in Users, NEW d \in Devices, Configure(u, d)
        PROVE  PinsHeld'
    BY <2>3, SetsKeepHeld DEF Sets
  <2>4. CASE \/ \E d \in Devices : Tick(d) \/ Sound(d)
             \/ \E u \in Users, d \in Devices : Loop(u, d)
             \/ UNCHANGED vars
    BY <2>1, <2>4, SamplingStays, SamplingAlike
  <2> QED
    BY <2>2, <2>3, <2>4, Steps, ModulesKeepHeld, CallKeepsHeld
<1> QED
  BY <1>1, <1>2, TypeCorrect, LoadAlways, UsersAlways, PinsAreKnown,
     CoverAlways, PTL DEF Spec

\* With an IO pin for each purpose, the GPIOs requested are exactly those of
\* the pins in use whenever nobody is setting pins, however the stores, the
\* ioctls, the samplings and the removal of the modules interleave.
THEOREM PinsAreAccounted ==
  ASSUME Observing, PinsApart PROVE Spec => []PinsAccounted
<1>1. TypeOK /\ PinsKnown /\ PinsCovered /\ PinsHeld => PinsAccounted
  <2> SUFFICES ASSUME TypeOK, PinsKnown, PinsCovered, PinsHeld,
                      \A d \in Devices : Settled(d)
               PROVE  PinsAccounted
    BY DEF PinsAccounted
  <2> DEFINE Triggers == {e \in bound \ {leaving} : trigger[e] # NoPin}
             Echoes   == {e \in bound : <<echo[e], e>> \in handlers}
  <2>1. \A d \in Devices : /\ ~Stands(d, TriggerOff) /\ ~Stands(d, Configuring)
                           /\ ~Stands(d, EchoOff)
                           /\ ~Stands(d, Freeing) /\ ~Stands(d, Asking)
    BY DEF Settled, Stands, Configures, TriggerOff, Configuring, EchoOff,
       Freeing, Asking, Looping
  <2>2. \A d \in Devices : PinInv(d) /\ TriggerHeld(d) /\ EchoHeld(d)
    BY DEF PinsKnown, PinsHeld, HeldInv
  <2>3. \A gpio \in gpios :
          \/ \E d \in Devices : d \in Triggers /\ gpio \in Columns(trigger[d])
          \/ \E d \in Devices : d \in Echoes /\ gpio \in Columns(echo[d])
    <3> SUFFICES ASSUME NEW gpio \in gpios
                 PROVE  \/ \E d \in Devices : /\ d \in Triggers
                                              /\ gpio \in Columns(trigger[d])
                        \/ \E d \in Devices : /\ d \in Echoes
                                              /\ gpio \in Columns(echo[d])
      OBVIOUS
    <3>1. PICK d \in Devices : gpio \in TriggerMay(d) \cup EchoMay(d)
      BY DEF PinsCovered
    <3>2. CASE gpio \in TriggerMay(d)
      BY <3>2 DEF TriggerMay, Attached
    <3>3. CASE gpio \in EchoMay(d)
      <4>1. Attached(d) /\ echo[d] # NoPin /\ gpio \in Columns(echo[d])
        BY <3>3 DEF EchoMay
      <4>2. Hears(d)
        BY <2>2, <4>1 DEF EchoHeld
      <4> QED
        BY <2>1, <4>1, <4>2 DEF Hears, Attached
    <3> QED
      BY <3>1, <3>2, <3>3
  <2>4. \A d \in Devices :
          d \in Triggers => Columns(trigger[d]) \subseteq gpios
    BY <2>1, <2>2 DEF TriggerHeld, Attached
  <2>5. \A d \in Devices : d \in Echoes => Columns(echo[d]) \subseteq gpios
    <3> SUFFICES ASSUME NEW d \in Devices, d \in Echoes
                 PROVE  Columns(echo[d]) \subseteq gpios
      OBVIOUS
    <3>1. echo[d] \in EchoPins[d] \cup {NoPin} /\ EchoPins[d] \subseteq IOPins
      BY <2>2, PinsTyped DEF PinInv
    <3>2. d # leaving /\ echo[d] # NoPin
      BY <2>2, <3>1, PinsAreNumbers DEF PinInv
    <3>3. Hears(d)
      BY <2>1 DEF Hears
    <3> QED
      BY <2>2, <3>2, <3>3 DEF EchoHeld, Attached
  <2>6. Triggers \subseteq Devices /\ Echoes \subseteq Devices
    BY DEF TypeOK
  <2> HIDE DEF Triggers, Echoes
  <2>7. gpios \subseteq (UNION {Columns(trigger[d]) : d \in Triggers})
                         \cup (UNION {Columns(echo[d]) : d \in Echoes})
    BY <2>3
  <2>8. UNION {Columns(trigger[d]) : d \in Triggers} \subseteq gpios
    BY <2>4, <2>6
  <2>9. UNION {Columns(echo[d]) : d \in Echoes} \subseteq gpios
    BY <2>5, <2>6
  <2>10. gpios = (UNION {Columns(trigger[d]) : d \in Triggers})
                   \cup (UNION {Columns(echo[d]) : d \in Echoes})
    BY <2>7, <2>8, <2>9
  <2> QED
    BY <2>10 DEF PinsAccounted, Triggers, Echoes
<1> QED
  BY <1>1, TypeCorrect, PinsAreKnown, CoverAlways, HeldAlways, PTL

-----------------------------------------------------------------------------
(* No use of what is not there *)

LEMMA BoundIsLive ==
  ASSUME TypeOK, LoadInv, NEW d \in Devices, d \in bound
  PROVE  memory[d] = "live" /\ class /\ d \in numbered
BY DEF LoadInv, TypeOK

LEMMA InUseIsLive ==
  ASSUME TypeOK, LoadInv, UserInv, NEW d \in Devices, InUse(d)
  PROVE  d \in bound /\ memory[d] = "live"
BY BoundIsLive DEF UserInv, UseInv

LEMMA NeverFaults == ASSUME Observing PROVE Spec => []~fault
<1>1. Init => ~fault
  BY DEF Init
<1>2. TypeOK /\ LoadInv /\ UserInv /\ ~fault /\ [Next]_vars => ~fault'
  <2> SUFFICES ASSUME TypeOK, LoadInv, UserInv, ~fault, [Next]_vars
               PROVE  ~fault'
    OBVIOUS
  <2>1. ASSUME NEW m \in Modules, Load(m) \/ Unload(m) PROVE ~fault'
    BY <2>1 DEF Load, Unload
  <2>2. ASSUME NEW d \in Devices, NEW result \in Results, Probe(d, result)
        PROVE  ~fault'
    <3>1. class_flag = class
      <4>1. class_flag <=> class
        BY <2>2 DEF Probe, LoadInv
      <4>2. class_flag \in BOOLEAN /\ class \in BOOLEAN
        BY DEF TypeOK
      <4> QED
        BY <4>1, <4>2
    <3> QED
      BY <2>2, <3>1 DEF Probe
  <2>3. CASE Detach
    <3>1. CASE Unloaded
      BY <3>1 DEF Unloaded
    <3>2. ASSUME NEW d \in Devices, Remove(d) PROVE ~fault'
      <4>1. hr_timer[d] # "raw" /\ hr_timer[d] # "corrupt"
        BY <3>2 DEF Remove, UserInv, UseInv, SampleInv
      <4> QED
        BY <3>2, <4>1 DEF Remove
    <3>3. ASSUME NEW d \in Devices, Leave(d) PROVE ~fault'
      <4>1. /\ unloading # Nothing /\ d \in bound /\ probed = Devices
            /\ bound # {}
        BY <3>3, NotNothing DEF Leave, LoadInv, TypeOK
      <4>2. memory[Other(d)] = "live" /\ class
        BY <4>1, TwoDevices DEF LoadInv
      <4> QED
        BY <3>3, <4>2 DEF Leave
    <3> QED
      BY <2>3, <3>1, <3>2, <3>3 DEF Detach
  <2>4. ASSUME NEW u \in Users, NEW d \in Devices, StartSampling(u, d),
               memory[d] = "live"
        PROVE  ~fault'
    BY <2>4 DEF StartSampling, Observing, Observed, AllRules
  <2>5. ASSUME NEW u \in Users, NEW d \in Devices, Store(u, d) PROVE ~fault'
    <3>1. d \in bound
      BY <2>5 DEF Store, DropTrigger, DropEcho, samples_store, enable_store,
         Stores
    <3>2. memory[d] = "live"
      BY <3>1, BoundIsLive
    <3>3. CASE enable_store(u, d)
      BY <2>4, <3>2, <3>3 DEF enable_store
    <3>4. CASE ~enable_store(u, d)
      BY <2>5, <3>2, <3>4
      DEF Store, DropTrigger, DropEcho, samples_store, Uses
    <3> QED
      BY <3>3, <3>4
  <2>6. ASSUME NEW u \in Programs, NEW d \in Devices, Call(u, d)
        PROVE  ~fault'
    <3>0. u \in Users
      BY DEF Users
    <3>1. CASE Open(u, d)
      BY <3>1 DEF Open
    <3>2. CASE ~Open(u, d)
      <4>1. stage[u][d] # "closed"
        BY <2>6, <3>2 DEF Call, ConfigPins, SetParams, sensor_write,
           sensor_close, Stage, Observing, AllRules
      <4>2. memory[d] = "live"
        BY <4>1, InUseIsLive DEF InUse
      <4>3. CASE sensor_write(u, d)
        BY <2>4, <3>0, <4>2, <4>3 DEF sensor_write
      <4>4. CASE sensor_close(u, d)
        <5>1. stage[u][d] = "written"
          BY <4>4 DEF sensor_close, Stage, Observing, AllRules
        <5>2. hr_timer[d] # "raw" /\ hr_timer[d] # "corrupt"
          BY <5>1 DEF UserInv, SampleInv
        <5> QED
          BY <4>2, <4>4, <5>2 DEF sensor_close
      <4>5. ASSUME \/ \E p_trigger \in TriggerPins[d], p_echo \in EchoPins[d] :
                        ConfigPins(u, d, p_trigger, p_echo)
                   \/ \E c_samples \in Requests : SetParams(u, d, c_samples)
            PROVE  ~fault'
        BY <4>2, <4>5 DEF ConfigPins, SetParams, Uses
      <4> QED
        BY <2>6, <3>2, <4>3, <4>4, <4>5 DEF Call
    <3> QED
      BY <3>1, <3>2
  <2>7. ASSUME NEW d \in Devices, Tick(d) \/ Sound(d) PROVE ~fault'
    <3>1. CASE EchoLost(d)
      BY <3>1 DEF EchoLost
    <3>2. CASE Tick(d) \/ Echo(d)
      <4>1. InUse(d)
        BY <3>2 DEF Tick, Echo, InUse
      <4> QED
        BY <3>2, <4>1, InUseIsLive DEF Tick, Echo, Uses
    <3> QED
      BY <2>7, <3>1, <3>2 DEF Sound
  <2>8. ASSUME NEW u \in Users, NEW d \in Devices,
               Configure(u, d) \/ Loop(u, d)
        PROVE  ~fault'
    <3>1. /\ busy[u] = d
          /\ fault' = (fault \/ memory[d] # "live")
      BY <2>8, ConfigureMoves, LoopMoves DEF Stay, Configures, Samples
    <3> QED
      BY <3>1, InUseIsLive DEF InUse
  <2>9. CASE UNCHANGED vars
    BY <2>9 DEF vars
  <2> QED
    BY <2>1, <2>2, <2>3, <2>5, <2>6, <2>7, <2>8, <2>9, Steps
<1> QED
  BY <1>1, <1>2, TypeCorrect, LoadAlways, UsersAlways, PTL DEF Spec

\* No timer, interrupt, open file or call outlives the structure of its
\* device, and none has used one that was not there. The second destruction
\* of the class is not part of this: ClassGoesOnce is about that.
THEOREM NothingIsLeftDangling ==
  ASSUME Observing PROVE Spec => []NothingDangles
<1>1. TypeOK /\ LoadInv /\ UserInv /\ PinsKnown /\ ~fault => NothingDangles
  <2> SUFFICES ASSUME TypeOK, LoadInv, UserInv, PinsKnown, ~fault,
                      NEW d \in Devices,
                      \/ hr_timer[d] = "queued"
                      \/ \E io_echo \in IOPins : <<io_echo, d>> \in handlers
                      \/ \E u \in Users : busy[u] = d
                      \/ \E u \in Programs : stage[u][d] # "closed"
               PROVE  d \in bound \cap numbered /\ memory[d] = "live" /\ class
    BY DEF NothingDangles
  <2>1. d \in bound
    <3>1. CASE \E io_echo \in IOPins : <<io_echo, d>> \in handlers
      BY <3>1 DEF PinsKnown, PinInv
    <3>2. CASE InUse(d)
      BY <3>2, InUseIsLive
    <3> QED
      BY <3>1, <3>2 DEF InUse
  <2> QED
    BY <2>1, BoundIsLive
<1> QED
  BY <1>1, TypeCorrect, LoadAlways, UsersAlways, PinsAreKnown, NeverFaults, PTL

-----------------------------------------------------------------------------
(* What DISTANCE shows *)

\* From the tick for sample 3 on, unless that sample is spoiled: its pulse is
\* to be sent, or its echo is on its way, or distance[2] holds it; and the
\* latter once the next tick has come, or the one that ends the sampling.
ShownInv(d) ==
  Sampled(d) /\ d \notin spoiled /\ sample_num[d] >= Shown =>
    /\ \/ shown[d] = Shown /\ (sample_num[d] > Shown
                               \/ sound[d] \in {Silent, Shown})
       \/ sample_num[d] = Shown /\ sound[d] = Shown
       \/ /\ sample_num[d] = Shown /\ sound[d] = Silent /\ flag2[d]
          /\ \A u \in Users : ~In(u, d, "clear")
    /\ ~flag1[d] => shown[d] = Shown

\* The sampling is as it was.
Undisturbed(d) ==
  /\ spoiled' = spoiled /\ sample_num'[d] = sample_num[d]
  /\ shown'[d] = shown[d] /\ sound'[d] = sound[d]
  /\ flag1'[d] = flag1[d] /\ flag2'[d] = flag2[d]
  /\ \A u \in Users : Samples(u, d)' => Samples(u, d) /\ at'[u] = at[u]

LEMMA ShownStays ==
  ASSUME NEW d \in Devices, ShownInv(d), Undisturbed(d)
  PROVE  ShownInv(d)'
<1>1. Sampled(d)' => Sampled(d)
  BY DEF Undisturbed, Sampled
<1>2. \A u \in Users : In(u, d, "clear")' => In(u, d, "clear")
  BY DEF Undisturbed, Samples, In, Looping
<1> QED
  BY <1>1, <1>2 DEF ShownInv, Undisturbed

LEMMA SetsUndisturbed ==
  ASSUME Observing, TypeOK, UserInv, NEW u \in Users, NEW d \in Devices,
         Sets(u, d), NEW e \in Devices
  PROVE  Undisturbed(e)
<1>1. Stay(u, d)
  BY SetsMoves
<1>2. busy'[u] = Nothing \/ Configures(u, d)'
  BY DropMoves, ConfigureMoves DEF Sets
<1> QED
  BY <1>1, <1>2, NotNothing
  DEF Undisturbed, Stay, sampling, Samples, Configures

LEMMA StartShown ==
  ASSUME TypeOK, NEW u \in Users, NEW d \in Devices, StartSampling(u, d),
         NEW e \in Devices, ShownInv(e)
  PROVE  ShownInv(e)'
<1>1. CASE e = d
  <2>1. sample_num'[d] = 0
    BY DEF StartSampling, TypeOK
  <2> QED
    BY <1>1, <2>1 DEF ShownInv, Shown
<1>2. CASE e # d
  <2>1. /\ sample_num'[e] = sample_num[e] /\ shown'[e] = shown[e]
        /\ sound'[e] = sound[e] /\ flag1'[e] = flag1[e]
        /\ flag2'[e] = flag2[e] /\ (e \in spoiled' <=> e \in spoiled)
    BY <1>2 DEF StartSampling, TypeOK
  <2>2. \A v \in Users : Samples(v, e)' => Samples(v, e) /\ at'[v] = at[v]
    <3>1. \A v \in Users : /\ busy'[v] = IF v = u THEN d ELSE busy[v]
                           /\ at'[v] = IF v = u THEN "loop" ELSE at[v]
      BY UserTypes DEF StartSampling, Goes
    <3> QED
      BY <1>2, <3>1 DEF Samples
  <2>3. Sampled(e)' => Sampled(e)
    BY <2>2 DEF Sampled
  <2>4. \A v \in Users : In(v, e, "clear")' => In(v, e, "clear")
    BY <2>2 DEF Samples, In, Looping
  <2> QED
    BY <2>1, <2>3, <2>4 DEF ShownInv
<1> QED
  BY <1>1, <1>2

LEMMA SamplingShown ==
  ASSUME TypeOK, UserInv,
         \/ \E d \in Devices : Tick(d) \/ Sound(d)
         \/ \E u \in Users, d \in Devices : Loop(u, d),
         NEW e \in Devices, ShownInv(e)
  PROVE  ShownInv(e)'
<1>0. /\ sample_num[e] \in Nat /\ sound[e] \in Int /\ shown[e] \in Int
      /\ Silent = -1 /\ Shown = 3
  BY DEF TypeOK, ArraySize, Silent, Shown
<1>1. ASSUME NEW d \in Devices, Tick(d) PROVE ShownInv(e)'
  <2>1. /\ busy' = busy /\ at' = at /\ sound' = sound /\ shown' = shown
    BY <1>1 DEF Tick, calls
  <2>2. Sampled(e)' <=> Sampled(e)
    BY <2>1 DEF Sampled, Samples
  <2>3. CASE e # d
    <3>1. /\ sample_num'[e] = sample_num[e] /\ flag1'[e] = flag1[e]
          /\ flag2'[e] = flag2[e] /\ (e \in spoiled' <=> e \in spoiled)
      BY <1>1, <2>3 DEF Tick, Spoil, TypeOK
    <3> QED
      BY <2>1, <2>2, <3>1 DEF ShownInv, In
  <2>4. CASE e = d
    <3> SUFFICES ASSUME Sampled(e), d \notin spoiled', sample_num'[e] >= Shown
                 PROVE  ShownInv(e)'
      BY <2>2, <2>4 DEF ShownInv
    <3>1. /\ d \notin spoiled
          /\ Overtaken(d) => Shown \notin {sample_num[d], sample_num[d] + 1}
      BY <1>1, <2>4 DEF Tick, Spoil
    <3>2. \/ /\ sample_num'[d] = sample_num[d] + 1 /\ flag2'[d]
             /\ flag1'[d] = flag1[d]
          \/ /\ sample_num'[d] = sample_num[d] /\ ~flag1'[d]
             /\ flag2'[d] = flag2[d]
      BY <1>1 DEF Tick, TypeOK
    <3>3. flag1[d]
      <4>1. hr_timer[d] = "queued"
        BY <1>1 DEF Tick
      <4> QED
        BY <2>4, <4>1 DEF UserInv, SampleInv
    <3>4. CASE sample_num[d] = 2
      <4>1. ~Overtaken(d)
        BY <1>0, <3>1, <3>4
      <4>2. sample_num'[d] # sample_num[d]
        BY <1>0, <2>4, <3>4
      <4>3. /\ sample_num'[d] = sample_num[d] + 1
            /\ flag2'[d] /\ flag1'[d]
        BY <3>2, <3>3, <4>2
      <4>4. sample_num'[d] = 3
        BY <3>4, <4>3
      <4> QED
        BY <1>0, <2>1, <2>4, <4>1, <4>3, <4>4 DEF Overtaken, ShownInv, In
    <3>5. CASE sample_num[d] = 3
      <4>1. ~Overtaken(d)
        BY <1>0, <3>1, <3>5
      <4>2. shown[d] = 3 /\ sound[d] = Silent
        BY <1>0, <2>4, <3>1, <3>5, <4>1 DEF Overtaken, ShownInv
      <4> QED
        BY <1>0, <2>1, <2>4, <3>2, <3>5, <4>2 DEF ShownInv
    <3>6. CASE sample_num[d] > 3
      <4>1. shown[d] = 3
        BY <1>0, <2>4, <3>1, <3>6 DEF ShownInv
      <4> QED
        BY <1>0, <2>1, <2>4, <3>2, <3>6, <4>1 DEF ShownInv
    <3> QED
      BY <1>0, <2>4, <3>2, <3>4, <3>5, <3>6
  <2> QED
    BY <2>3, <2>4
<1>2. ASSUME NEW d \in Devices, Sound(d) PROVE ShownInv(e)'
  <2>1. UNCHANGED <<busy, at, sample_num, flag1, flag2>>
    BY <1>2 DEF Sound, Echo, EchoLost, calls
  <2>2. Sampled(e)' <=> Sampled(e)
    BY <2>1 DEF Sampled, Samples
  <2>3. CASE e # d
    <3>1. /\ shown'[e] = shown[e] /\ sound'[e] = sound[e]
          /\ e \in spoiled' <=> e \in spoiled
      BY <1>2, <2>3 DEF Sound, Echo, EchoLost, TypeOK
    <3> QED
      BY <2>1, <2>2, <3>1 DEF ShownInv, In
  <2>4. CASE e = d /\ Echo(d)
    <3>1. /\ sound[d] # Silent /\ sound'[d] = Silent /\ spoiled' = spoiled
          /\ Sampled(d) => shown'[d] = IF sample_num[d] = Shown THEN sound[d]
                                                              ELSE shown[d]
      BY <2>4 DEF Echo, TypeOK
    <3> QED
      BY <1>0, <2>1, <2>2, <2>4, <3>1 DEF ShownInv, In
  <2>5. CASE e = d /\ EchoLost(d)
    <3>1. /\ sound[d] # Silent /\ sound'[d] = Silent /\ shown' = shown
          /\ d \notin spoiled' => d \notin spoiled
          /\ Sampled(d) /\ sound[d] = Shown => d \in spoiled'
      BY <2>5 DEF EchoLost, TypeOK
    <3> QED
      BY <1>0, <2>1, <2>2, <2>5, <3>1 DEF ShownInv, In
  <2> QED
    BY <1>2, <2>3, <2>4, <2>5 DEF Sound
<1>3. ASSUME NEW u \in Users, NEW d \in Devices, Loop(u, d)
      PROVE  ShownInv(e)'
  <2>1. /\ UNCHANGED <<flag1, sample_num>> /\ Samples(u, d)
        /\ \A v \in Users : v # u => busy'[v] = busy[v] /\ at'[v] = at[v]
        /\ Samples(u, d)' \/ busy'[u] = Nothing
    BY <1>3, LoopMoves DEF Loop
  <2>2. Sampled(e)' => Sampled(e)
    BY <2>1, NotNothing DEF Sampled, Samples
  <2>3. CASE e # d
    <3>1. /\ shown'[e] = shown[e] /\ sound'[e] = sound[e]
          /\ flag2'[e] = flag2[e] /\ (e \in spoiled' <=> e \in spoiled)
      BY <1>3, <2>3 DEF Loop, Pulse, Clear, EndSampling, TypeOK
    <3>2. \A v \in Users : In(v, e, "clear")' => In(v, e, "clear")
      BY <2>1, <2>3, NotNothing DEF Samples, In
    <3> QED
      BY <2>1, <2>2, <3>1, <3>2 DEF ShownInv
  <2>4. CASE e = d /\ Pulse(u, d)
    <3>1. /\ sound'[d] = sample_num[d] /\ shown' = shown /\ spoiled' = spoiled
      BY <2>4 DEF Pulse, TypeOK
    <3> QED
      BY <1>0, <2>1, <2>2, <2>4, <3>1 DEF ShownInv
  <2>5. CASE e = d /\ Clear(u, d)
    <3>1. /\ UNCHANGED <<sound, shown, spoiled>> /\ In(u, d, "clear")
      BY <2>5 DEF Clear
    <3> QED
      BY <1>0, <2>1, <2>2, <2>5, <3>1 DEF ShownInv
  <2>6. CASE e = d /\ EndSampling(u, d)
    <3>1. busy'[u] = Nothing
      BY <1>3, <2>6, LoopMoves
    <3>2. \A v \in Users : Samples(v, d) => v = u
      BY <2>1 DEF UserInv, SampleInv
    <3>3. ~Sampled(d)'
      BY <2>1, <3>1, <3>2, NotNothing DEF Sampled, Samples
    <3> QED
      BY <2>6, <3>3 DEF ShownInv
  <2> QED
    BY <1>3, <2>3, <2>4, <2>5, <2>6 DEF Loop
<1> QED
  BY <1>1, <1>2, <1>3

LEMMA ModulesUndisturbed ==
  ASSUME TypeOK, LoadInv, UserInv, NEW e \in Devices, ShownInv(e),
         \/ \E m \in Modules : Load(m) \/ Unload(m)
         \/ \E d \in Devices, result \in Results : Probe(d, result)
         \/ Detach
  PROVE  ShownInv(e)'
<1> USE DEF calls
<1>1. CASE \/ \E m \in Modules : Load(m) \/ Unload(m)
           \/ Detach
  <2>1. /\ UNCHANGED <<sample_num, shown, spoiled, sound, flag1, flag2, busy,
                       at>>
    BY <1>1 DEF Load, Unload, Detach, Unloaded, Remove, Leave, sampling
  <2> QED
    BY <2>1, ShownStays DEF Undisturbed, Samples
<1>2. ASSUME NEW d \in Devices, NEW result \in Results, Probe(d, result)
      PROVE  ShownInv(e)'
  <2>1. UNCHANGED <<shown, spoiled, sound, busy, at>>
    BY <1>2 DEF Probe
  <2>2. CASE e = d
    <3>1. \A u \in Users : busy[u] # e
      BY <1>2, <2>2 DEF Probe, LoadInv, UserInv, UseInv, InUse
    <3> QED
      BY <2>1, <3>1 DEF ShownInv, Sampled, Samples
  <2>3. CASE e # d
    <3>1. /\ sample_num'[e] = sample_num[e] /\ flag1'[e] = flag1[e]
          /\ flag2'[e] = flag2[e]
      BY <1>2, <2>3 DEF Probe, TypeOK
    <3> QED
      BY <2>1, <3>1, ShownStays DEF Undisturbed, Samples
  <2> QED
    BY <2>2, <2>3
<1> QED
  BY <1>1, <1>2

LEMMA CallShown ==
  ASSUME TypeOK, NEW u \in Programs, NEW d \in Devices, Call(u, d),
         NEW e \in Devices, ShownInv(e)
  PROVE  ShownInv(e)'
<1>0. u \in Users
  BY DEF Users
<1>1. CASE sensor_write(u, d)
  BY <1>0, <1>1, StartShown DEF sensor_write
<1>2. ASSUME NEW p_trigger \in TriggerPins[d], NEW p_echo \in EchoPins[d],
             ConfigPins(u, d, p_trigger, p_echo)
      PROVE  ShownInv(e)'
  <2>1. \A v \in Users : /\ busy'[v] = IF v = u THEN d ELSE busy[v]
                         /\ at'[v] = IF v = u THEN "config trigger" ELSE at[v]
    BY <1>0, <1>2, UserTypes DEF ConfigPins, Goes
  <2>2. Undisturbed(e)
    BY <1>2, <2>1 DEF ConfigPins, sampling, Undisturbed, Samples, Looping
  <2> QED
    BY <2>2, ShownStays
<1>3. ASSUME \/ Open(u, d) \/ sensor_close(u, d)
             \/ \E c_samples \in Requests : SetParams(u, d, c_samples)
      PROVE  ShownInv(e)'
  <2>1. Undisturbed(e)
    BY <1>3 DEF Open, sensor_close, SetParams, sampling, Undisturbed, Samples
  <2> QED
    BY <2>1, ShownStays
<1> QED
  BY <1>1, <1>2, <1>3 DEF Call

\* Only a process that finds flag1 cleared leaves its sampling.
LEMMA LetsGo ==
  ASSUME Observing, TypeOK, UserInv, [Next]_vars, NEW u \in Users,
         NEW d \in Devices, Samples(u, d), busy'[u] = Nothing
  PROVE  ~flag1[d]
<1> SUFFICES ASSUME flag1[d] PROVE FALSE
  OBVIOUS
<1>0. busy[u] = d /\ d # Nothing
  BY NotNothing DEF Samples
<1>1. CASE \/ \E m \in Modules : Load(m) \/ Unload(m)
           \/ \E e \in Devices, result \in Results : Probe(e, result)
           \/ Detach \/ UNCHANGED vars
  <2>1. busy' = busy
    BY <1>1 DEF Load, Unload, Probe, Detach, Unloaded, Remove, Leave, calls,
       vars
  <2> QED
    BY <1>0, <2>1
<1>2. ASSUME NEW v \in Users, NEW e \in Devices, Sets(v, e) PROVE FALSE
  <2>1. v = u
    BY <1>0, <1>2, SetsMoves DEF Stay
  <2>2. busy[v] = Nothing \/ Configures(v, e)
    BY <1>2, DropMoves, ConfigureMoves DEF Sets, Stores
  <2> QED
    BY <1>0, <2>1, <2>2 DEF Samples, Configures
<1>3. ASSUME NEW v \in Users, NEW e \in Devices, StartSampling(v, e),
             busy[v] = Nothing
      PROVE  FALSE
  BY <1>0, <1>3, UserTypes DEF StartSampling, Goes
<1>4. ASSUME NEW v \in Users, NEW e \in Devices, Store(v, e) PROVE FALSE
  BY <1>0, <1>2, <1>3, <1>4
  DEF Store, Sets, enable_store, Stores, samples_store, calls
<1>5. ASSUME NEW v \in Programs, NEW e \in Devices, Call(v, e) PROVE FALSE
  <2>0. v \in Users
    BY DEF Users
  <2>1. CASE sensor_write(v, e)
    BY <1>3, <2>0, <2>1 DEF sensor_write, Stage
  <2>2. CASE \E p_trigger \in TriggerPins[e], p_echo \in EchoPins[e] :
               ConfigPins(v, e, p_trigger, p_echo)
    BY <1>0, <2>0, <2>2, UserTypes DEF ConfigPins, Goes, Stage
  <2>3. CASE \/ Open(v, e) \/ sensor_close(v, e)
             \/ \E c_samples \in Requests : SetParams(v, e, c_samples)
    BY <1>0, <2>3 DEF Open, sensor_close, SetParams
  <2> QED
    BY <1>5, <2>1, <2>2, <2>3 DEF Call
<1>6. ASSUME NEW e \in Devices, Tick(e) \/ Sound(e) PROVE FALSE
  BY <1>0, <1>6 DEF Tick, Sound, Echo, EchoLost, calls
<1>7. ASSUME NEW v \in Users, NEW e \in Devices, Loop(v, e) PROVE FALSE
  <2>1. v = u /\ e = d
    BY <1>0, <1>7, LoopMoves DEF Samples
  <2>2. EndSampling(v, e)
    BY <1>0, <1>7, <2>1, LoopMoves DEF Loop, Samples
  <2> QED
    BY <1>7, <2>1, <2>2, LoopMoves
<1> QED
  BY <1>1, <1>2, <1>4, <1>5, <1>6, <1>7, Steps DEF Sets

LEMMA ShownAlways ==
  ASSUME Observing PROVE Spec => [](\A d \in Devices : ShownInv(d))
<1> DEFINE Inv == \A d \in Devices : ShownInv(d)
<1>1. Init => Inv
  BY NotNothing DEF Init, ShownInv, Sampled, Samples
<1>2. TypeOK /\ LoadInv /\ UserInv /\ Inv /\ [Next]_vars => Inv'
  <2> SUFFICES ASSUME TypeOK, LoadInv, UserInv, Inv, [Next]_vars,
                      NEW e \in Devices
               PROVE  ShownInv(e)'
    OBVIOUS
  <2>0. ShownInv(e)
    OBVIOUS
  <2>1. ASSUME NEW u \in Users, NEW d \in Devices, Store(u, d)
        PROVE  ShownInv(e)'
    <3>1. CASE DropTrigger(u, d) \/ DropEcho(u, d)
      BY <2>0, <3>1, SetsUndisturbed, ShownStays DEF Sets
    <3>2. CASE enable_store(u, d)
      BY <2>0, <3>2, StartShown DEF enable_store
    <3>3. ASSUME NEW tmp \in Requests, samples_store(u, d, tmp)
          PROVE  ShownInv(e)'
      <4>1. Undisturbed(e)
        BY <3>3 DEF samples_store, sampling, calls, Undisturbed, Samples
      <4> QED
        BY <2>0, <4>1, ShownStays
    <3> QED
      BY <2>1, <3>1, <3>2, <3>3 DEF Store
  <2>2. ASSUME NEW u \in Users, NEW d \in Devices, Configure(u, d)
        PROVE  ShownInv(e)'
    BY <2>0, <2>2, SetsUndisturbed, ShownStays DEF Sets
  <2>3. ASSUME NEW u \in Programs, NEW d \in Devices, Call(u, d)
        PROVE  ShownInv(e)'
    BY <2>0, <2>3, CallShown
  <2>4. CASE UNCHANGED vars
    <3>1. Undisturbed(e)
      BY <2>4 DEF vars, Undisturbed, Samples
    <3> QED
      BY <2>0, <3>1, ShownStays
  <2>5. CASE \/ \E d \in Devices : Tick(d) \/ Sound(d)
             \/ \E u \in Users, d \in Devices : Loop(u, d)
    BY <2>0, <2>5, SamplingShown
  <2>6. CASE \/ \E m \in Modules : Load(m) \/ Unload(m)
             \/ \E d \in Devices, result \in Results : Probe(d, result)
             \/ Detach
    BY <2>0, <2>6, ModulesUndisturbed
  <2> QED
    BY <2>1, <2>2, <2>3, <2>4, <2>5, <2>6, Steps
<1> QED
  BY <1>1, <1>2, TypeCorrect, LoadAlways, UsersAlways, PTL DEF Spec

\* A sampling that counted to three ends with its own sample 3 in distance[2],
\* unless a tick came before the pulse or the echo of the sample before it, or
\* its echo was lost: whatever the other device does in the meantime.
THEOREM ShowsTheLatest ==
  ASSUME Observing PROVE Spec => ShowsThisSampling
<1> DEFINE Inv == \A d \in Devices : ShownInv(d)
<1>1. TypeOK /\ UserInv /\ Inv /\ [Next]_vars =>
        [\A u \in Users, d \in Devices :
           /\ Samples(u, d) /\ busy'[u] = Nothing
           /\ sample_num[d] >= Shown /\ d \notin spoiled
           => shown[d] = Shown]_vars
  <2> SUFFICES ASSUME TypeOK, UserInv, Inv, [Next]_vars,
                      NEW u \in Users, NEW d \in Devices,
                      Samples(u, d), busy'[u] = Nothing,
                      sample_num[d] >= Shown, d \notin spoiled
               PROVE  shown[d] = Shown
    OBVIOUS
  <2>1. ~flag1[d]
    BY LetsGo
  <2>2. Sampled(d) /\ ShownInv(d)
    BY DEF Sampled
  <2> QED
    BY <2>1, <2>2 DEF ShownInv
<1> QED
  BY <1>1, TypeCorrect, UsersAlways, ShownAlways, PTL
  DEF Spec, ShowsThisSampling
=============================================================================
