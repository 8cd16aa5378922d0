-------------------------- MODULE BarrierSync_proofs --------------------------
(***************************************************************************)
(* Theorems about BarrierSync, for every set of threads, every count, with *)
(* or without a timeout, on one processor or several.                      *)
(***************************************************************************)
EXTENDS BarrierSync, FiniteSetTheorems, TLAPS

-----------------------------------------------------------------------------
(* Type correctness *)

LEMMA InitTyped == Init => TypeOK
BY BarrierAssumption DEF Init, TypeOK, Places

\* A step of barrier_wait that is not interrupted keeps the types.
LEMMA InsideTyped ==
  ASSUME TypeOK, NEW t \in Threads, Inside(t)
  PROVE  TypeOK'
<1> USE BarrierAssumption DEF TypeOK, Places, Holding, At, Goto, Incr, Decr,
        round, flags, timer, caller
<1>1. CASE SleepAtGate(t)     BY <1>1 DEF SleepAtGate, Sleep
<1>2. CASE PassGate(t)        BY <1>2 DEF PassGate, Proceed
<1>3. CASE LockFirst(t)       BY <1>3 DEF LockFirst
<1>4. CASE StartRound(t)      BY <1>4 DEF StartRound
<1>5. CASE Arrive(t)          BY <1>5 DEF Arrive, Unlock
<1>6. CASE CancelTimer(t)     BY <1>6 DEF CancelTimer
<1>7. CASE Release(t)         BY <1>7 DEF Release, Open, Unlock, ReturnToUser
<1>8. CASE SleepInRound(t)    BY <1>8 DEF SleepInRound, Sleep
<1>9. CASE WakeInRound(t)     BY <1>9 DEF WakeInRound, Proceed
<1>10. CASE LockSecond(t)     BY <1>10 DEF LockSecond
<1>11. CASE Depart(t)         BY <1>11 DEF Depart
<1>12. CASE ClearTimeout(t)   BY <1>12 DEF ClearTimeout
<1>13. CASE CloseRound(t)     BY <1>13 DEF CloseRound
<1>14. CASE Return(t)         BY <1>14 DEF Return, Unlock, ReturnToUser
<1>15. CASE InterruptedWait(t) BY <1>15 DEF InterruptedWait
<1>16. CASE InterruptedLock(t) BY <1>16 DEF InterruptedLock
<1> QED
  BY <1>1, <1>2, <1>3, <1>4, <1>5, <1>6, <1>7, <1>8, <1>9, <1>10, <1>11,
     <1>12, <1>13, <1>14, <1>15, <1>16 DEF Inside

\* So does every step of the system.
LEMMA NextTyped == TypeOK /\ [Next]_vars => TypeOK'
<1> SUFFICES ASSUME TypeOK, [Next]_vars PROVE TypeOK'
  OBVIOUS
<1>1. ASSUME NEW t \in Threads, Call(t) PROVE TypeOK'
  BY <1>1 DEF Call, TypeOK, Places, At, Goto, round, flags, timer
<1>2. ASSUME NEW t \in Threads, Inside(t) PROVE TypeOK'
  BY <1>2, InsideTyped
<1>3. ASSUME NEW t \in Threads, Signal(t) PROVE TypeOK'
  BY <1>3 DEF Signal, TypeOK, round, flags, timer
<1>4. CASE TimerExpires
  BY <1>4 DEF TimerExpires, Open, TypeOK, round, caller
<1>5. CASE TimerWakes
  BY <1>5 DEF TimerWakes, TypeOK, round, caller
<1>6. CASE UNCHANGED vars
  BY <1>6 DEF TypeOK, vars
<1> QED
  BY <1>1, <1>2, <1>3, <1>4, <1>5, <1>6 DEF Next

\* Every variable keeps its type: unsigned counters in range, at most one
\* owner of the mutex, whatever the number of threads and signals.
THEOREM TypeCorrect == Spec => []TypeOK
BY InitTyped, NextTyped, PTL DEF Spec

-----------------------------------------------------------------------------
(* Wait queue *)

\* A thread that moves on is not asleep, and a thread that opens or shuts the
\* gate empties the queue.
LEMMA InsideWakes ==
  ASSUME TypeOK, NoLostWakeup, NEW t \in Threads, Inside(t)
  PROVE  NoLostWakeup'
<1> USE DEF TypeOK, NoLostWakeup, At, Goto, round, flags, timer, caller
<1>1. CASE SleepAtGate(t)     BY <1>1 DEF SleepAtGate, Sleep
<1>2. CASE PassGate(t)        BY <1>2 DEF PassGate, Proceed
<1>3. CASE LockFirst(t)       BY <1>3 DEF LockFirst
<1>4. CASE StartRound(t)      BY <1>4 DEF StartRound
<1>5. CASE Arrive(t)          BY <1>5 DEF Arrive
<1>6. CASE CancelTimer(t)     BY <1>6 DEF CancelTimer
<1>7. CASE Release(t)         BY <1>7 DEF Release
<1>8. CASE SleepInRound(t)    BY <1>8 DEF SleepInRound, Sleep
<1>9. CASE WakeInRound(t)     BY <1>9 DEF WakeInRound, Proceed
<1>10. CASE LockSecond(t)     BY <1>10 DEF LockSecond
<1>11. CASE Depart(t)         BY <1>11 DEF Depart
<1>12. CASE ClearTimeout(t)   BY <1>12 DEF ClearTimeout
<1>13. CASE CloseRound(t)     BY <1>13 DEF CloseRound
<1>14. CASE Return(t)         BY <1>14 DEF Return, ReturnToUser
<1>15. CASE InterruptedWait(t) BY <1>15 DEF InterruptedWait
<1>16. CASE InterruptedLock(t) BY <1>16 DEF InterruptedLock
<1> QED
  BY <1>1, <1>2, <1>3, <1>4, <1>5, <1>6, <1>7, <1>8, <1>9, <1>10, <1>11,
     <1>12, <1>13, <1>14, <1>15, <1>16 DEF Inside

\* No sleeper is forgotten: not by the last arrival, the last departure, the
\* timer or a signal, with any number of threads.
THEOREM WakeupsReachSleepers == Spec => []NoLostWakeup
<1>1. Init => NoLostWakeup
  BY DEF Init, NoLostWakeup
<1>2. TypeOK /\ NoLostWakeup /\ [Next]_vars => NoLostWakeup'
  <2> SUFFICES ASSUME TypeOK, NoLostWakeup, [Next]_vars PROVE NoLostWakeup'
    OBVIOUS
  <2>1. ASSUME NEW t \in Threads, Call(t) PROVE NoLostWakeup'
    BY <2>1 DEF Call, At, Goto, TypeOK, NoLostWakeup, flags, timer
  <2>2. ASSUME NEW t \in Threads, Inside(t) PROVE NoLostWakeup'
    BY <2>2, InsideWakes
  <2>3. ASSUME NEW t \in Threads, Signal(t) PROVE NoLostWakeup'
    BY <2>3 DEF Signal, NoLostWakeup, flags, timer
  <2>4. CASE TimerExpires
    BY <2>4 DEF TimerExpires, NoLostWakeup
  <2>5. CASE TimerWakes
    BY <2>5 DEF TimerWakes, NoLostWakeup
  <2>6. CASE UNCHANGED vars
    BY <2>6 DEF NoLostWakeup, vars
  <2> QED
    BY <2>1, <2>2, <2>3, <2>4, <2>5, <2>6 DEF Next
<1> QED
  BY <1>1, <1>2, TypeCorrect, PTL DEF Spec

-----------------------------------------------------------------------------
(* Counting *)

LEMMA RoundIsFinite ==
  /\ IsFiniteSet(InRound)
  /\ Cardinality(InRound) \in Nat
  /\ Cardinality(InRound) = 0 <=> InRound = {}
<1>1. InRound \in SUBSET Threads
  BY DEF InRound
<1> QED
  BY <1>1, BarrierAssumption, FS_Subset, FS_EmptySet, FS_CardinalityType

\* What one thread that changes place does to the set of threads inside.
LEMMA RoundMoves ==
  ASSUME pc \in [Threads -> Places], NEW t \in Threads, NEW place \in Places,
         Goto(t, place)
  PROVE  /\ (pc[t] \in RoundPlaces <=> place \in RoundPlaces) =>
              InRound' = InRound
         /\ pc[t] \notin RoundPlaces /\ place \in RoundPlaces =>
              /\ InRound' = InRound \cup {t}
              /\ Cardinality(InRound') = Cardinality(InRound) + 1
         /\ pc[t] \in RoundPlaces /\ place \notin RoundPlaces =>
              /\ InRound' = InRound \ {t}
              /\ Cardinality(InRound') = Cardinality(InRound) - 1
<1>1. InRound' = {s \in Threads : pc'[s] \in RoundPlaces}
  BY DEF InRound
<1>2. \A s \in Threads : pc'[s] = IF s = t THEN place ELSE pc[s]
  BY DEF Goto
<1>3. IsFiniteSet(InRound)
  BY RoundIsFinite
<1>4. t \in InRound <=> pc[t] \in RoundPlaces
  BY DEF InRound
<1>5. CASE pc[t] \in RoundPlaces <=> place \in RoundPlaces
  BY <1>1, <1>2, <1>5 DEF InRound
<1>6. CASE pc[t] \notin RoundPlaces /\ place \in RoundPlaces
  <2>1. InRound' = InRound \cup {t}
    BY <1>1, <1>2, <1>6 DEF InRound
  <2> QED
    BY <2>1, <1>3, <1>4, <1>6, FS_AddElement
<1>7. CASE pc[t] \in RoundPlaces /\ place \notin RoundPlaces
  <2>1. InRound' = InRound \ {t}
    BY <1>1, <1>2, <1>7 DEF InRound
  <2> QED
    BY <2>1, <1>3, <1>4, <1>7, FS_RemoveElement
<1> QED
  BY <1>5, <1>6, <1>7

-----------------------------------------------------------------------------
(* The core invariant: without signals, for a count of at least one *)

\* One step of one thread, by the store it makes. The cases that leave left
\* alone only move the thread; the others are the two ends of a round.
LEMMA InsideCore ==
  ASSUME Interruptible = {}, Count >= 1, Core, NEW t \in Threads, Inside(t)
  PROVE  Core'
<1>1. TypeOK'
  BY InsideTyped DEF Core
<1>2. /\ IsFiniteSet(InRound) /\ Cardinality(InRound) \in Nat
      /\ Cardinality(InRound) = 0 <=> InRound = {}
  BY RoundIsFinite
<1>3. pending = {}
  BY DEF Core, TypeOK
<1> USE <1>1, <1>2, BarrierAssumption
    DEF Core, TypeOK, Someone, At, round, flags, timer, caller
<1>4. CASE SleepAtGate(t) \/ SleepInRound(t)
  BY <1>4 DEF SleepAtGate, SleepInRound, Sleep, InRound
<1>5. CASE PassGate(t)
  <2>1. Goto(t, "lock1") /\ pc[t] = "gate"
    BY <1>5 DEF PassGate, Proceed
  <2>2. InRound' = InRound
    BY <2>1, RoundMoves DEF Places, RoundPlaces, Holding
  <2> QED
    BY <1>5, <2>1, <2>2 DEF PassGate, Proceed, Goto, Holding
<1>6. CASE LockFirst(t)
  <2>1. Goto(t, "first") /\ pc[t] = "lock1"
    BY <1>6 DEF LockFirst
  <2>2. InRound' = InRound
    BY <2>1, RoundMoves DEF Places, RoundPlaces, Holding
  <2> QED
    BY <1>6, <2>1, <2>2 DEF LockFirst, Goto, Holding
<1>7. CASE StartRound(t)
  <2>1. Goto(t, "arrive") /\ pc[t] = "first"
    BY <1>7 DEF StartRound
  <2>2. InRound' = InRound
    BY <2>1, RoundMoves DEF Places, RoundPlaces, Holding
  <2> QED
    BY <1>7, <2>1, <2>2 DEF StartRound, Goto, Holding
<1>8. CASE Arrive(t)
  <2>1. pc[t] = "arrive" /\ barrier_lock = t
    BY <1>8 DEF Arrive, Holding
  <2>2. left > 0 /\ left' = left - 1
    <3>1. left # 0
      BY <2>1 DEF Holding
    <3> QED
      BY <1>8, <3>1 DEF Arrive, Decr
  <2>3. CASE left' # 0
    <3>1. Goto(t, "sleep") /\ barrier_lock' = NoThread
      BY <1>8, <2>3 DEF Arrive, Unlock
    <3>2. Cardinality(InRound') = Cardinality(InRound) + 1
      BY <2>1, <3>1, RoundMoves DEF Places, RoundPlaces, Holding
    <3> QED
      BY <1>8, <2>1, <2>2, <2>3, <3>1, <3>2 DEF Arrive, Goto, Holding
  <2>4. CASE left' = 0
    <3>1. Goto(t, "cancel") /\ barrier_lock' = barrier_lock
      BY <1>8, <2>4 DEF Arrive
    <3>2. Cardinality(InRound') = Cardinality(InRound) + 1
      BY <2>1, <3>1, RoundMoves DEF Places, RoundPlaces, Holding
    <3> QED
      BY <1>8, <2>1, <2>2, <2>4, <3>1, <3>2 DEF Arrive, Goto, Holding
  <2> QED
    BY <2>3, <2>4
<1>9. CASE CancelTimer(t)
  <2>1. Goto(t, "release") /\ pc[t] = "cancel"
    BY <1>9 DEF CancelTimer
  <2>2. InRound' = InRound
    BY <2>1, RoundMoves DEF Places, RoundPlaces, Holding
  <2> QED
    BY <1>9, <2>1, <2>2 DEF CancelTimer, Goto, Holding
<1>10. CASE Release(t)
  <2>1. Goto(t, "out") /\ pc[t] = "release" /\ barrier_lock = t
    BY <1>10 DEF Release, ReturnToUser, Holding
  <2>2. Cardinality(InRound') = Cardinality(InRound) - 1
    BY <2>1, RoundMoves DEF Places, RoundPlaces, Holding
  <2>3. left = 0 /\ left' = 1
    BY <1>10, <2>1 DEF Release, Incr
  <2> QED
    BY <1>10, <2>1, <2>2, <2>3
    DEF Release, ReturnToUser, Unlock, Open, Goto, Holding
<1>11. CASE WakeInRound(t)
  <2>1. Goto(t, "lock2") /\ pc[t] = "sleep" /\ cond_flag = 1
    BY <1>11 DEF WakeInRound, Proceed
  <2>2. InRound' = InRound
    BY <2>1, RoundMoves DEF Places, RoundPlaces, Holding
  <2> QED
    BY <1>11, <2>1, <2>2 DEF WakeInRound, Proceed, Goto, Holding
<1>12. CASE LockSecond(t)
  <2>1. Goto(t, "depart") /\ pc[t] = "lock2"
    BY <1>12 DEF LockSecond
  <2>2. InRound' = InRound
    BY <2>1, RoundMoves DEF Places, RoundPlaces, Holding
  <2> QED
    BY <1>12, <2>1, <2>2 DEF LockSecond, Goto, Holding
<1>13. CASE Depart(t)
  <2>1. pc[t] = "depart" /\ barrier_lock = t
    BY <1>13 DEF Depart, Holding
  <2>2. PICK place \in {"clear", "return"} :
          Goto(t, place) /\ (place = "clear" <=> left' = Count)
    BY <1>13 DEF Depart
  <2>3. Cardinality(InRound') = Cardinality(InRound) - 1
    BY <2>1, <2>2, RoundMoves DEF Places, RoundPlaces, Holding
  <2>4. t \in InRound
    BY <2>1 DEF InRound, RoundPlaces
  <2>5. left < Count /\ left # 0 /\ left' = left + 1
    <3>1. left < Count
      BY <2>4
    <3>2. left # 0
      BY <2>1 DEF Holding
    <3> QED
      BY <1>13, <3>1, <3>2 DEF Depart, Incr
  <2> QED
    BY <1>13, <2>1, <2>2, <2>3, <2>5 DEF Depart, Goto, Holding
<1>14. CASE ClearTimeout(t)
  <2>1. Goto(t, "close") /\ pc[t] = "clear"
    BY <1>14 DEF ClearTimeout
  <2>2. InRound' = InRound
    BY <2>1, RoundMoves DEF Places, RoundPlaces, Holding
  <2> QED
    BY <1>14, <2>1, <2>2 DEF ClearTimeout, Goto, Holding
<1>15. CASE CloseRound(t)
  <2>1. Goto(t, "return") /\ pc[t] = "close"
    BY <1>15 DEF CloseRound
  <2>2. InRound' = InRound
    BY <2>1, RoundMoves DEF Places, RoundPlaces, Holding
  <2>3. InRound = {}
    BY <2>1
  <2>4. ~Someone({"lock2", "depart"})'
    BY <2>2, <2>3 DEF InRound, RoundPlaces
  <2> QED
    BY <1>15, <2>1, <2>2, <2>4 DEF CloseRound, Goto, Holding
<1>16. CASE Return(t)
  <2>1. Goto(t, "out") /\ pc[t] = "return"
    BY <1>16 DEF Return, ReturnToUser
  <2>2. InRound' = InRound
    BY <2>1, RoundMoves DEF Places, RoundPlaces, Holding
  <2> QED
    BY <1>16, <2>1, <2>2 DEF Return, ReturnToUser, Unlock, Goto, Holding
<1>17. ~InterruptedWait(t) /\ ~InterruptedLock(t)
  BY <1>3 DEF InterruptedWait, InterruptedLock
<1> QED
  BY <1>4, <1>5, <1>6, <1>7, <1>8, <1>9, <1>10, <1>11, <1>12, <1>13, <1>14,
     <1>15, <1>16, <1>17 DEF Inside

LEMMA InitCore == Count >= 1 /\ Init => Core
<1> SUFFICES ASSUME Count >= 1, Init PROVE Core
  OBVIOUS
<1>1. InRound = {}
  BY DEF Init, InRound, RoundPlaces
<1>2. Cardinality(InRound) = 0
  BY <1>1, FS_EmptySet
<1> QED
  BY <1>2, InitTyped, BarrierAssumption DEF Init, Core, Holding, Someone

\* Calls, signals and the timer move no counted thread.
LEMMA NextCore ==
  ASSUME Interruptible = {}, Count >= 1, Core, [Next]_vars
  PROVE  Core'
<1>1. TypeOK'
  BY NextTyped DEF Core
<1> USE <1>1 DEF Core, Someone
<1>2. ASSUME NEW t \in Threads, Call(t) PROVE Core'
  <2>1. Goto(t, "gate") /\ pc[t] = "out"
    BY <1>2 DEF Call, At
  <2>2. InRound' = InRound
    BY <2>1, RoundMoves DEF TypeOK, Places, RoundPlaces, Holding
  <2> QED
    BY <1>2, <2>1, <2>2
    DEF Call, Goto, TypeOK, Holding, round, flags, timer
<1>3. ASSUME NEW t \in Threads, Inside(t) PROVE Core'
  BY <1>3, InsideCore
<1>4. ASSUME NEW t \in Threads, Signal(t) PROVE Core'
  BY <1>4 DEF Signal, TypeOK
<1>5. CASE TimerExpires
  BY <1>5 DEF TimerExpires, Open, TypeOK, round, caller, InRound
<1>6. CASE TimerWakes
  BY <1>6 DEF TimerWakes, TypeOK, round, caller, InRound
<1>7. CASE UNCHANGED vars
  BY <1>7 DEF vars, InRound
<1> QED
  BY <1>2, <1>3, <1>4, <1>5, <1>6, <1>7 DEF Next

\* Uninterrupted, the threads between mutex_lock and mutex_unlock exclude
\* each other, and left, the number of threads inside and the place of the
\* first, the last to arrive and the last to leave always agree.
THEOREM CoreInvariant ==
  ASSUME Interruptible = {}, Count >= 1
  PROVE  Spec => []Core
<1>1. Init => Core
  BY InitCore
<1>2. Core /\ [Next]_vars => Core'
  BY NextCore
<1> QED
  BY <1>1, <1>2, PTL DEF Spec

LEMMA CoreAccounts ==
  ASSUME Core
  PROVE  LeftAccounting
<1>1. ASSUME NEW t \in Threads, pc[t] = "arrive" PROVE left > 0
  <2>1. barrier_lock = t
    BY <1>1 DEF Core, Holding
  <2>2. ~Someone({"cancel", "release"})
    BY <1>1, <2>1 DEF Core, Someone, Holding
  <2> QED
    BY <2>2, BarrierAssumption DEF Core, TypeOK
<1> QED
  BY <1>1 DEF Core, LeftAccounting

\* left never wraps and never drifts from the number of threads inside, with
\* more threads than the barrier counts and with timeouts.
THEOREM LeftIsAccounted ==
  ASSUME Interruptible = {}, Count >= 1
  PROVE  Spec => []LeftAccounting
<1>1. Core => LeftAccounting
  BY CoreAccounts
<1> QED
  BY <1>1, CoreInvariant, PTL

-----------------------------------------------------------------------------
(* Gate and timer: without signals, for a count of at least two *)

\* The timer is disarmed before the last arrival opens the gate.
GateAndTimer ==
  /\ GateNeverStuck
  /\ TimerWithinRound
  /\ Someone({"release"}) => hr_timer = "idle"

\* Steps that leave the gate, the timer and the set of threads inside alone
\* can only hurt by taking a thread out of a place the invariant names.
LEMMA QuietMoves ==
  ASSUME TypeOK, GateAndTimer, NEW t \in Threads, NEW place \in Places,
         Goto(t, place), InRound' = InRound,
         cond_flag' = cond_flag, hr_timer' = hr_timer,
         pc[t] \notin Closing, place # "release"
  PROVE  GateAndTimer'
<1>1. \A s \in Threads : s # t => pc'[s] = pc[s]
  BY DEF Goto, TypeOK
<1>2. pc'[t] = place
  BY DEF Goto, TypeOK
<1>3. Someone(Closing) => Someone(Closing)'
  BY <1>1 DEF Someone
<1>4. Someone({"arrive"}) => Someone({"arrive"})'
  BY <1>1 DEF Someone, Closing
<1>5. Someone({"release"})' => Someone({"release"})
  BY <1>1, <1>2 DEF Someone
<1> QED
  BY <1>3, <1>4, <1>5 DEF GateAndTimer, GateNeverStuck, TimerWithinRound

LEMMA InsideGate ==
  ASSUME Interruptible = {}, Count >= 2, Core, GateAndTimer,
         NEW t \in Threads, Inside(t)
  PROVE  GateAndTimer'
<1>1. TypeOK /\ TypeOK' /\ Core'
  BY InsideTyped, InsideCore, BarrierAssumption DEF Core
<1>2. /\ Cardinality(InRound) \in Nat
      /\ Cardinality(InRound) = 0 <=> InRound = {}
  BY RoundIsFinite
<1>3. /\ \A s \in Threads : pc[s] \in Holding => barrier_lock = s
      /\ left + Cardinality(InRound) = Count
      /\ pc[t] \in {"cancel", "release"} => left = 0
      /\ pc[t] \in {"clear", "close"} => left = Count
      /\ pc[t] \in {"lock2", "depart"} => cond_flag = 1
      /\ hr_timer = "queued" => TimeoutSet
  BY DEF Core, Someone
<1>4. CASE SleepAtGate(t) \/ SleepInRound(t)
  BY <1>4 DEF SleepAtGate, SleepInRound, Sleep, GateAndTimer, GateNeverStuck,
              TimerWithinRound, Someone, InRound, flags, timer
<1>5. CASE \/ PassGate(t) \/ LockFirst(t) \/ WakeInRound(t) \/ LockSecond(t)
           \/ Return(t)
  <2>1. PICK place \in {"lock1", "first", "lock2", "depart", "out"} :
          /\ Goto(t, place)
          /\ pc[t] \in {"gate", "lock1", "sleep", "lock2", "return"}
          /\ pc[t] \in RoundPlaces <=> place \in RoundPlaces
          /\ cond_flag' = cond_flag /\ hr_timer' = hr_timer
    BY <1>5 DEF PassGate, LockFirst, WakeInRound, LockSecond, Return, At,
                Proceed, ReturnToUser, RoundPlaces, flags, timer
  <2>2. InRound' = InRound
    BY <2>1, <1>1, RoundMoves DEF TypeOK, Places, Holding
  <2> QED
    BY <2>1, <2>2, <1>1, QuietMoves DEF Places, Holding, Closing
<1>6. CASE StartRound(t)
  <2>1. pc[t] = "first" /\ Goto(t, "arrive") /\ cond_flag' = cond_flag
    BY <1>6 DEF StartRound, At, flags
  <2>2. InRound' = InRound
    BY <2>1, <1>1, RoundMoves DEF TypeOK, Places, RoundPlaces, Holding
  <2>3. ~Someone(Closing \cup {"release"})
    BY <2>1, <1>3 DEF Someone, Closing, Holding
  <2>4. Someone({"arrive"})' /\ ~Someone({"release"})'
    BY <2>1, <2>3, <1>1 DEF Someone, Goto, TypeOK
  <2>5. Someone(Closing)'
    BY <2>4 DEF Someone, Closing
  <2>6. hr_timer' = "queued" => cond_flag = 0
    <3>1. CASE left = Count
      <4>1. InRound = {}
        BY <3>1, <1>1, <1>2, <1>3, BarrierAssumption DEF TypeOK
      <4> QED
        BY <4>1, <2>3, <1>1
        DEF GateAndTimer, GateNeverStuck, Someone, TypeOK
    <3>2. CASE left # Count
      BY <3>2, <1>6 DEF StartRound, GateAndTimer, TimerWithinRound
    <3> QED
      BY <3>1, <3>2
  <2> QED
    BY <2>1, <2>4, <2>5, <2>6
    DEF GateAndTimer, GateNeverStuck, TimerWithinRound
<1>7. CASE Arrive(t)
  <2>1. pc[t] = "arrive" /\ cond_flag' = cond_flag /\ hr_timer' = hr_timer
    BY <1>7 DEF Arrive, At, flags, timer
  <2>2. PICK place \in {"sleep", "cancel"} : Goto(t, place)
    BY <1>7 DEF Arrive
  <2>3. InRound' = InRound \cup {t}
    BY <2>1, <2>2, <1>1, RoundMoves DEF TypeOK, Places, RoundPlaces, Holding
  <2>4. ~Someone({"release"})'
    BY <2>1, <2>2, <1>1, <1>3 DEF Someone, Goto, TypeOK, Holding
  <2> QED
    BY <2>1, <2>3, <2>4 DEF GateAndTimer, GateNeverStuck, TimerWithinRound
<1>8. CASE CancelTimer(t)
  <2>1. /\ pc[t] = "cancel" /\ Goto(t, "release")
        /\ cond_flag' = cond_flag /\ hr_timer' = "idle"
    BY <1>8, <1>1, <1>3 DEF CancelTimer, At, flags, TypeOK
  <2>2. InRound' = InRound
    BY <2>1, <1>1, RoundMoves DEF TypeOK, Places, RoundPlaces, Holding
  <2>3. t \in InRound
    BY <2>1 DEF InRound, RoundPlaces
  <2> QED
    BY <2>1, <2>2, <2>3 DEF GateAndTimer, GateNeverStuck, TimerWithinRound
<1>9. CASE Release(t)
  <2>1. pc[t] = "release" /\ Goto(t, "out") /\ hr_timer' = hr_timer
    BY <1>9 DEF Release, At, ReturnToUser, timer
  <2>2. Cardinality(InRound') = Cardinality(InRound) - 1
    BY <2>1, <1>1, RoundMoves DEF TypeOK, Places, RoundPlaces, Holding
  <2>3. InRound' # {}
    <3>1. Cardinality(InRound') # 0
      BY <2>1, <2>2, <1>1, <1>2, <1>3, BarrierAssumption DEF TypeOK
    <3> QED
      BY <3>1, FS_EmptySet
  <2>4. hr_timer' = "idle"
    BY <2>1 DEF GateAndTimer, Someone
  <2> QED
    BY <2>3, <2>4 DEF GateAndTimer, GateNeverStuck, TimerWithinRound
<1>10. CASE Depart(t)
  <2>1. /\ pc[t] = "depart" /\ cond_flag = 1
        /\ cond_flag' = cond_flag /\ hr_timer' = hr_timer
    BY <1>10, <1>3 DEF Depart, At, flags, timer
  <2>2. PICK place \in {"clear", "return"} :
          Goto(t, place) /\ (place = "clear" <=> left' = Count)
    BY <1>10 DEF Depart
  <2>3. hr_timer' # "queued"
    BY <2>1 DEF GateAndTimer, TimerWithinRound
  <2>4. ~Someone({"release"})'
    BY <2>1, <2>2, <1>1, <1>3 DEF Someone, Goto, TypeOK, Holding
  <2>5. GateNeverStuck'
    <3>1. CASE place = "clear"
      BY <3>1, <2>2, <1>1 DEF GateNeverStuck, Someone, Closing, Goto, TypeOK
    <3>2. CASE place # "clear"
      <4>1. Cardinality(InRound') # 0
        BY <3>2, <2>2, <1>1, BarrierAssumption DEF Core, TypeOK
      <4>2. InRound' # {}
        BY <4>1, FS_EmptySet
      <4> QED
        BY <4>2 DEF GateNeverStuck
    <3> QED
      BY <3>1, <3>2
  <2> QED
    BY <2>3, <2>4, <2>5 DEF GateAndTimer, TimerWithinRound
<1>11. CASE ClearTimeout(t)
  <2>1. /\ pc[t] = "clear" /\ Goto(t, "close")
        /\ cond_flag' = cond_flag /\ hr_timer' = hr_timer
    BY <1>11 DEF ClearTimeout, At, timer
  <2>2. InRound' = InRound
    BY <2>1, <1>1, RoundMoves DEF TypeOK, Places, RoundPlaces, Holding
  <2>3. Someone(Closing)' /\ ~Someone({"release"})'
    BY <2>1, <1>1, <1>3 DEF Someone, Closing, Goto, TypeOK, Holding
  <2>4. hr_timer' = "queued" => InRound # {}
    BY <2>1, <1>3 DEF GateAndTimer, TimerWithinRound, Someone, Holding
  <2> QED
    BY <2>1, <2>2, <2>3, <2>4 DEF GateAndTimer, GateNeverStuck,
       TimerWithinRound
<1>12. CASE CloseRound(t)
  <2>1. /\ pc[t] = "close" /\ Goto(t, "return")
        /\ cond_flag' = 0 /\ hr_timer' = hr_timer
    BY <1>12 DEF CloseRound, At, timer
  <2>2. InRound = {}
    BY <2>1, <1>1, <1>2, <1>3, BarrierAssumption DEF TypeOK
  <2>3. hr_timer # "queued"
    BY <2>1, <2>2, <1>3 DEF GateAndTimer, TimerWithinRound, Someone, Holding
  <2>4. ~Someone({"release"})'
    BY <2>1, <1>1, <1>3 DEF Someone, Goto, TypeOK, Holding
  <2> QED
    BY <2>1, <2>3, <2>4 DEF GateAndTimer, GateNeverStuck, TimerWithinRound
<1>13. ~InterruptedWait(t) /\ ~InterruptedLock(t)
  BY <1>1 DEF InterruptedWait, InterruptedLock, TypeOK
<1> QED
  BY <1>4, <1>5, <1>6, <1>7, <1>8, <1>9, <1>10, <1>11, <1>12, <1>13
  DEF Inside

\* Here the timer fires: it may open the gate only because it was armed for a
\* round in which somebody waits, or is about to.
LEMMA NextGate ==
  ASSUME Interruptible = {}, Count >= 2, Core, GateAndTimer, [Next]_vars
  PROVE  GateAndTimer'
<1> USE DEF GateAndTimer, GateNeverStuck, TimerWithinRound
<1>1. ASSUME NEW t \in Threads, Call(t) PROVE GateAndTimer'
  <2>1. /\ pc[t] = "out" /\ Goto(t, "gate")
        /\ cond_flag' = cond_flag /\ hr_timer' = hr_timer
    BY <1>1 DEF Call, At, flags, timer
  <2>2. InRound' = InRound
    BY <2>1, RoundMoves DEF Core, TypeOK, Places, RoundPlaces, Holding
  <2> QED
    BY <2>1, <2>2, QuietMoves DEF Core, Places, Closing
<1>2. ASSUME NEW t \in Threads, Inside(t) PROVE GateAndTimer'
  BY <1>2, InsideGate
<1>3. ASSUME NEW t \in Threads, Signal(t) PROVE GateAndTimer'
  BY <1>3 DEF Signal
<1>4. CASE TimerExpires
  BY <1>4 DEF TimerExpires, InRound, Someone, Closing
<1>5. CASE TimerWakes
  BY <1>5 DEF TimerWakes, InRound, Someone
<1>6. CASE UNCHANGED vars
  BY <1>6 DEF vars, InRound, Someone
<1> QED
  BY <1>1, <1>2, <1>3, <1>4, <1>5, <1>6 DEF Next

LEMMA GateInvariant ==
  ASSUME Interruptible = {}, Count >= 2
  PROVE  Spec => []GateAndTimer
<1>1. Init => GateAndTimer
  BY DEF Init, GateAndTimer, GateNeverStuck, TimerWithinRound, Someone
<1>2. Core /\ GateAndTimer /\ [Next]_vars => GateAndTimer'
  BY NextGate
<1>3. Spec => []Core
  BY CoreInvariant, BarrierAssumption
<1> QED
  BY <1>1, <1>2, <1>3, PTL DEF Spec

\* A count of two or more and no signals: the gate is never left open by a
\* round that nobody will close, so a later caller is never shut out.
THEOREM GateIsShutAgain ==
  ASSUME Interruptible = {}, Count >= 2
  PROVE  Spec => []GateNeverStuck
BY GateInvariant, PTL DEF GateAndTimer

\* The timer of a round never fires into another round.
THEOREM TimerStaysWithinRound ==
  ASSUME Interruptible = {}, Count >= 2
  PROVE  Spec => []TimerWithinRound
BY GateInvariant, PTL DEF GateAndTimer

-----------------------------------------------------------------------------
(* The barrier keeps the promise of BarrierSpec *)

\* BarrierSpec counts its sets with the same operator.
LEMMA SameCardinality == \A S : Promise!Cardinality(S) = Cardinality(S)
BY DEF Promise!Cardinality, Cardinality

\* A step that moves no thread in or out and leaves the gate is invisible.
LEMMA InvisibleStep ==
  ASSUME InRound' = InRound, cond_flag' = cond_flag
  PROVE  UNCHANGED Promise!vars
BY DEF Promise!vars, Gathered, Leaving

\* A thread counted in: gathered while the gate is shut; once it is open the
\* thread joins the round that drains.
LEMMA ArriveRefines ==
  ASSUME Core, Core', NEW t \in Threads, Arrive(t)
  PROVE  IF cond_flag = 0 THEN Promise!Gather(t) ELSE Promise!JoinDrain(t)
<1>1. pc[t] = "arrive" /\ cond_flag' = cond_flag
  BY DEF Arrive, At, flags
<1>2. PICK place \in {"sleep", "cancel"} : Goto(t, place)
  BY DEF Arrive
<1>3. InRound' = InRound \cup {t} /\ t \notin InRound
  BY <1>1, <1>2, RoundMoves
  DEF Core, TypeOK, Places, RoundPlaces, Holding, InRound
<1>4. Cardinality(InRound) < Count
  BY <1>1, CoreAccounts, RoundIsFinite, BarrierAssumption
  DEF LeftAccounting, Core, TypeOK
<1>5. CASE cond_flag = 0
  <2>1. /\ Gathered = InRound /\ Gathered' = InRound'
        /\ Leaving = {} /\ Leaving' = {}
    BY <1>1, <1>5 DEF Gathered, Leaving
  <2> QED
    BY <1>3, <1>4, <1>5, <2>1, SameCardinality DEF Promise!Gather
<1>6. CASE cond_flag = 1
  <2>1. /\ Leaving = InRound /\ Leaving' = InRound'
        /\ Gathered = {} /\ Gathered' = {}
    BY <1>1, <1>6 DEF Gathered, Leaving
  <2> QED
    BY <1>3, <1>4, <1>6, <2>1, SameCardinality DEF Promise!JoinDrain
<1> QED
  BY <1>5, <1>6 DEF Core, TypeOK

\* The last arrival releases the others, or just leaves when the timer has
\* released them before it.
LEMMA ReleaseRefines ==
  ASSUME Core, NEW t \in Threads, Release(t)
  PROVE  [Promise!StrictNext]_(Promise!vars)
<1>1. pc[t] = "release" /\ Goto(t, "out") /\ cond_flag' = 1
  BY DEF Release, At, ReturnToUser, Open
<1>2. InRound' = InRound \ {t} /\ t \in InRound
  <2>1. t \in InRound
    BY <1>1 DEF InRound, RoundPlaces
  <2>2. InRound' = InRound \ {t}
    BY <1>1, RoundMoves DEF Core, TypeOK, Places, RoundPlaces, Holding
  <2> QED
    BY <2>1, <2>2
<1>3. Cardinality(InRound) = Count
  BY <1>1, RoundIsFinite, BarrierAssumption DEF Core, Someone
<1>4. CASE cond_flag = 0
  <2>1. Gathered = InRound /\ Gathered' = {} /\ Leaving' = InRound'
    BY <1>1, <1>4 DEF Gathered, Leaving
  <2>2. Promise!Release(t)
    BY <1>2, <1>3, <2>1, SameCardinality DEF Promise!Release
  <2> QED
    BY <2>2 DEF Promise!StrictNext
<1>5. CASE cond_flag = 1
  <2>1. /\ Leaving = InRound /\ Leaving' = InRound'
        /\ Gathered = {} /\ Gathered' = {}
    BY <1>1, <1>5 DEF Gathered, Leaving
  <2>2. Promise!Leave(t)
    BY <1>2, <2>1 DEF Promise!Leave
  <2> QED
    BY <2>2 DEF Promise!StrictNext
<1> QED
  BY <1>4, <1>5 DEF Core, TypeOK

LEMMA DepartRefines ==
  ASSUME Core, NEW t \in Threads, Depart(t)
  PROVE  [Promise!StrictNext]_(Promise!vars)
<1>1. pc[t] = "depart" /\ cond_flag = 1 /\ cond_flag' = 1
  BY DEF Depart, At, flags, Core, Someone
<1>2. PICK place \in {"clear", "return"} : Goto(t, place)
  BY DEF Depart
<1>3. InRound' = InRound \ {t} /\ t \in InRound
  BY <1>1, <1>2, RoundMoves
  DEF Core, TypeOK, Places, RoundPlaces, Holding, InRound
<1>4. /\ Leaving = InRound /\ Leaving' = InRound'
      /\ Gathered = {} /\ Gathered' = {}
  BY <1>1 DEF Gathered, Leaving
<1>5. Promise!Leave(t)
  BY <1>3, <1>4 DEF Promise!Leave
<1> QED
  BY <1>5 DEF Promise!StrictNext

\* The gate is shut on nobody: this is where a released thread that is slow
\* to wake could be taken into the next round.
LEMMA CloseRefines ==
  ASSUME Core, NEW t \in Threads, CloseRound(t)
  PROVE  UNCHANGED Promise!vars
<1>1. pc[t] = "close" /\ Goto(t, "return")
  BY DEF CloseRound, At
<1>2. InRound' = InRound
  BY <1>1, RoundMoves DEF Core, TypeOK, Places, RoundPlaces, Holding
<1>3. Cardinality(InRound) = 0
  BY <1>1, RoundIsFinite, BarrierAssumption DEF Core, Someone, TypeOK
<1>4. InRound = {}
  BY <1>3, RoundIsFinite
<1> QED
  BY <1>2, <1>4 DEF Promise!vars, Gathered, Leaving

\* The timer releases everybody who is there; a gate already open stays so.
LEMMA TimerRefines ==
  ASSUME Core, TimerExpires
  PROVE  [Promise!StrictNext]_(Promise!vars)
<1>1. TimeoutSet /\ cond_flag' = 1 /\ InRound' = InRound
  BY DEF TimerExpires, Open, Core, InRound
<1>2. CASE cond_flag = 0
  <2>1. /\ Gathered = InRound /\ Gathered' = {}
        /\ Leaving = {} /\ Leaving' = InRound'
    BY <1>1, <1>2 DEF Gathered, Leaving
  <2>2. Promise!Expire
    BY <1>1, <2>1 DEF Promise!Expire
  <2> QED
    BY <2>2 DEF Promise!StrictNext
<1>3. CASE cond_flag = 1
  BY <1>1, <1>3, InvisibleStep
<1> QED
  BY <1>2, <1>3 DEF Core, TypeOK

\* The other steps change neither the gate nor who is inside.
LEMMA OtherStepsInvisible ==
  ASSUME Core, NEW t \in Threads,
         \/ Call(t) \/ SleepAtGate(t) \/ PassGate(t) \/ LockFirst(t)
         \/ StartRound(t) \/ CancelTimer(t) \/ SleepInRound(t)
         \/ WakeInRound(t) \/ LockSecond(t) \/ ClearTimeout(t) \/ Return(t)
         \/ Signal(t)
  PROVE  UNCHANGED Promise!vars
<1>1. cond_flag' = cond_flag
  BY DEF Call, SleepAtGate, PassGate, LockFirst, StartRound, CancelTimer,
         SleepInRound, WakeInRound, LockSecond, ClearTimeout, Return, Signal,
         Sleep, Proceed, flags
<1>2. CASE SleepAtGate(t) \/ SleepInRound(t) \/ Signal(t)
  <2>1. InRound' = InRound
    BY <1>2 DEF SleepAtGate, SleepInRound, Signal, Sleep, InRound
  <2> QED
    BY <1>1, <2>1, InvisibleStep
<1>3. CASE ~(SleepAtGate(t) \/ SleepInRound(t) \/ Signal(t))
  <2>1. PICK place \in Places :
          Goto(t, place) /\ (pc[t] \in RoundPlaces <=> place \in RoundPlaces)
    BY <1>3 DEF Call, PassGate, LockFirst, StartRound, CancelTimer,
       WakeInRound, LockSecond, ClearTimeout, Return, Proceed, ReturnToUser,
       At, Places, Holding, RoundPlaces
  <2>2. InRound' = InRound
    BY <2>1, RoundMoves DEF Core, TypeOK
  <2> QED
    BY <1>1, <2>2, InvisibleStep
<1> QED
  BY <1>2, <1>3

LEMMA NextRefines ==
  ASSUME Interruptible = {}, Count >= 1, Core, [Next]_vars
  PROVE  \/ [Promise!StrictNext]_(Promise!vars)
         \/ \E t \in Threads :
              Arrive(t) /\ cond_flag # 0 /\ Promise!JoinDrain(t)
<1>1. Core'
  BY NextCore
<1>2. ASSUME NEW t \in Threads, Arrive(t), cond_flag = 0
      PROVE  [Promise!StrictNext]_(Promise!vars)
  <2>1. Promise!Gather(t)
    BY <1>1, <1>2, ArriveRefines
  <2> QED
    BY <2>1 DEF Promise!StrictNext
<1>3. ASSUME NEW t \in Threads, Arrive(t), cond_flag # 0
      PROVE  Promise!JoinDrain(t)
  BY <1>1, <1>3, ArriveRefines
<1>4. ASSUME NEW t \in Threads, Call(t) \/ Signal(t)
      PROVE  [Promise!StrictNext]_(Promise!vars)
  BY <1>4, OtherStepsInvisible
<1>5. ASSUME NEW t \in Threads, Inside(t), ~Arrive(t)
      PROVE  [Promise!StrictNext]_(Promise!vars)
  <2>1. ~InterruptedWait(t) /\ ~InterruptedLock(t)
    BY DEF InterruptedWait, InterruptedLock, Core, TypeOK
  <2> QED
    BY <1>5, <2>1, ReleaseRefines, DepartRefines, CloseRefines,
       OtherStepsInvisible DEF Inside
<1>6. CASE TimerExpires
  BY <1>6, TimerRefines
<1>7. CASE TimerWakes
  BY <1>7, InvisibleStep DEF TimerWakes, InRound
<1>8. CASE UNCHANGED vars
  BY <1>8, InvisibleStep DEF vars, InRound
<1> QED
  BY <1>2, <1>3, <1>4, <1>5, <1>6, <1>7, <1>8 DEF Next

LEMMA InitRefines == Init => Promise!Init
BY DEF Init, Promise!Init, Gathered, Leaving, InRound, RoundPlaces

\* Any number of threads, with or without a timeout: whoever is released
\* leaves before a new round gathers, and a round opens only when Count
\* threads are there or the timer has fired.
THEOREM ImplementsPromise ==
  ASSUME Interruptible = {}, Count >= 1
  PROVE  Spec => KeepsPromise
<1>1. Core /\ [Next]_vars => [Promise!Next]_(Promise!vars)
  BY NextRefines DEF Promise!Next
<1> QED
  BY InitRefines, <1>1, CoreInvariant, PTL DEF Spec, KeepsPromise, Promise!Spec

-----------------------------------------------------------------------------
(* As many threads as the barrier counts, no timeout, no signals *)

Exact ==
  /\ Interruptible = {}
  /\ ~TimeoutSet
  /\ Count >= 1 /\ Cardinality(Threads) = Count

\* The gate opens only when all threads there are have been counted, so none
\* has passed the gate without being counted yet.
NoneBetween == cond_flag = 1 => ~Someone({"lock1", "first", "arrive"})

\* When the last arrival opens the gate every thread is inside.
LEMMA AllInside ==
  ASSUME Exact, Core, NEW t \in Threads, pc[t] = "release"
  PROVE  InRound = Threads
<1>1. Cardinality(InRound) = Cardinality(Threads)
  BY RoundIsFinite, BarrierAssumption DEF Core, Someone, Exact
<1>2. InRound \in SUBSET Threads
  BY DEF InRound
<1> QED
  BY <1>1, <1>2, BarrierAssumption, FS_Subset

LEMMA NextNoneBetween ==
  ASSUME Exact, Core, NoneBetween, [Next]_vars
  PROVE  NoneBetween'
<1> USE DEF Core, TypeOK, NoneBetween, Someone, At, Goto, round, flags, timer
<1>1. ASSUME NEW t \in Threads, PassGate(t) \/ LockFirst(t) \/ StartRound(t)
      PROVE  NoneBetween'
  BY <1>1 DEF PassGate, Proceed, LockFirst, StartRound
<1>2. ASSUME NEW t \in Threads, Release(t) PROVE NoneBetween'
  <2>1. \A s \in Threads : pc[s] \in RoundPlaces
    BY <1>2, AllInside DEF Release, InRound
  <2> QED
    BY <1>2, <2>1 DEF Release, ReturnToUser, RoundPlaces
<1>3. ASSUME NEW t \in Threads,
             \/ Call(t) \/ SleepAtGate(t) \/ Arrive(t) \/ CancelTimer(t)
             \/ SleepInRound(t) \/ WakeInRound(t) \/ LockSecond(t) \/ Depart(t)
             \/ ClearTimeout(t) \/ CloseRound(t) \/ Return(t) \/ Signal(t)
      PROVE  NoneBetween'
  <2>1. cond_flag' = 1 => cond_flag = 1
    BY <1>3 DEF Call, SleepAtGate, Arrive, CancelTimer, SleepInRound,
         WakeInRound, LockSecond, Depart, ClearTimeout, CloseRound, Return,
         Signal, Sleep, Proceed
  <2>2. \/ pc' = pc
        \/ \E to \in {"gate", "sleep", "cancel", "release", "lock2", "depart",
                      "clear", "close", "return", "out"} :
             pc' = [pc EXCEPT ![t] = to]
    BY <1>3 DEF Call, SleepAtGate, Arrive, CancelTimer, SleepInRound,
         WakeInRound, LockSecond, Depart, ClearTimeout, CloseRound, Return,
         Signal, Sleep, Proceed, ReturnToUser
  <2> QED
    BY <2>1, <2>2
<1>4. ASSUME NEW t \in Threads PROVE ~InterruptedWait(t) /\ ~InterruptedLock(t)
  BY DEF InterruptedWait, InterruptedLock, Exact
<1>5. ~TimerExpires
  BY DEF TimerExpires, Exact
<1>6. CASE TimerWakes \/ UNCHANGED vars
  BY <1>6 DEF TimerWakes, vars
<1> QED
  BY <1>1, <1>2, <1>3, <1>4, <1>5, <1>6 DEF Next, Inside

\* The program of user.c, for any number of threads: with as many threads as
\* the barrier counts and no timeout, moreover nobody joins a round that
\* drains, so every round releases all threads.
THEOREM ImplementsStrictPromise ==
  ASSUME Exact
  PROVE  Spec => KeepsStrictPromise
<1>1. Init => NoneBetween
  BY DEF Init, NoneBetween
<1>2. Core /\ NoneBetween /\ [Next]_vars => NoneBetween'
  BY NextNoneBetween
<1>3. Core /\ NoneBetween /\ [Next]_vars => [Promise!StrictNext]_(Promise!vars)
  <2> SUFFICES ASSUME Core, NoneBetween, [Next]_vars
               PROVE  [Promise!StrictNext]_(Promise!vars)
    OBVIOUS
  <2>1. ASSUME NEW t \in Threads, Arrive(t) PROVE cond_flag = 0
    BY <2>1 DEF Arrive, At, NoneBetween, Someone, Core, TypeOK
  <2> QED
    BY <2>1, NextRefines DEF Exact
<1>4. Spec => []Core
  BY CoreInvariant DEF Exact
<1> QED
  BY InitRefines, <1>1, <1>2, <1>3, <1>4, PTL
  DEF Spec, KeepsStrictPromise, Promise!StrictSpec

-----------------------------------------------------------------------------
(* The result -ETIME, on any processors and in any fresh memory            *)

\* A raised timeout_flag has a culprit: whoever opened the gate last, or,
\* once it is open, whoever opened it the time before.
Culprits == {"timer", "garbage"}

\* The callback that is to raise the flag has opened the gate last, and is
\* over when the last arrival opens it; a flag that is still up when the gate
\* is about to be shut was raised by that callback.
FlagHistory ==
  /\ timeout_flag => \/ opened_by["now"] \in Culprits
                     \/ cond_flag = 1 /\ opened_by["before"] \in Culprits
  /\ callback = "opened" => opened_by["now"] = "timer"
  /\ Someone({"release"}) => callback = "idle" /\ hr_timer = "idle"
  /\ Someone({"close"}) /\ timeout_flag => opened_by["now"] = "timer"
  /\ ~TimeoutSet => callback = "idle"

LEMMA InitFlag == Init => FlagHistory
BY DEF Init, FlagHistory, Someone, Culprits

\* Only the owner of the mutex stands at a place that needs it.
LEMMA OneHolder ==
  ASSUME Core, NEW s \in Threads, NEW t \in Threads,
         pc[s] \in Holding, pc[t] \in Holding
  PROVE  s = t
BY DEF Core

LEMMA InsideFlag ==
  ASSUME Interruptible = {}, Core, FlagHistory, NEW t \in Threads, Inside(t)
  PROVE  FlagHistory'
<1>1. TypeOK /\ TypeOK'
  BY InsideTyped DEF Core
<1> USE <1>1 DEF FlagHistory, Someone, At, Goto, TypeOK, round, flags, timer
<1>2. CASE SleepAtGate(t) \/ SleepInRound(t)
  BY <1>2 DEF SleepAtGate, SleepInRound, Sleep
<1>3. CASE PassGate(t) \/ WakeInRound(t)
  BY <1>3 DEF PassGate, WakeInRound, Proceed
<1>4. CASE LockFirst(t) \/ LockSecond(t)
  BY <1>4 DEF LockFirst, LockSecond
<1>5. CASE StartRound(t)
  <2>1. ~Someone({"release"})'
    BY <1>5, OneHolder DEF StartRound, Holding
  <2> QED
    BY <1>5, <2>1 DEF StartRound
<1>6. CASE Arrive(t)       BY <1>6 DEF Arrive
<1>7. CASE CancelTimer(t)
  <2>1. callback' = "idle" /\ hr_timer' = "idle"
    BY <1>7 DEF CancelTimer, Core
  <2> QED
    BY <1>7, <2>1 DEF CancelTimer
<1>8. CASE Release(t)
  <2>1. callback = "idle" /\ callback' = "idle" /\ hr_timer' = "idle"
    BY <1>8 DEF Release
  <2>2. ~Someone({"close"})'
    BY <1>8, OneHolder DEF Release, ReturnToUser, Holding
  <2>3. timeout_flag' =>
          \/ opened_by["now"]' \in Culprits
          \/ cond_flag' = 1 /\ opened_by["before"]' \in Culprits
    <3>1. CASE cond_flag = 0
      BY <1>8, <3>1 DEF Release, Open
    <3>2. CASE cond_flag # 0
      BY <1>8, <3>2 DEF Release, Open
    <3> QED
      BY <3>1, <3>2
  <2> QED
    BY <2>1, <2>2, <2>3
<1>9. CASE Depart(t)       BY <1>9 DEF Depart
<1>10. CASE ClearTimeout(t) BY <1>10 DEF ClearTimeout
<1>11. CASE CloseRound(t)
  BY <1>11 DEF CloseRound, Culprits
<1>12. CASE Return(t)      BY <1>12 DEF Return, ReturnToUser
<1>13. ~InterruptedWait(t) /\ ~InterruptedLock(t)
  BY DEF InterruptedWait, InterruptedLock
<1> QED
  BY <1>2, <1>3, <1>4, <1>5, <1>6, <1>7, <1>8, <1>9, <1>10, <1>11, <1>12,
     <1>13 DEF Inside

LEMMA NextFlag ==
  ASSUME Interruptible = {}, Core, TimerWithinRound, FlagHistory, [Next]_vars
  PROVE  FlagHistory'
<1>1. ASSUME NEW t \in Threads, Call(t) PROVE FlagHistory'
  BY <1>1 DEF Call, Goto, Core, TypeOK, FlagHistory, Someone, flags, timer
<1>2. ASSUME NEW t \in Threads, Inside(t) PROVE FlagHistory'
  BY <1>2, InsideFlag
<1>3. ASSUME NEW t \in Threads, Signal(t) PROVE FlagHistory'
  BY <1>3 DEF Signal, FlagHistory, Someone, flags, timer
<1>4. CASE TimerExpires
  <2>1. ~Someone({"release"}) /\ TimeoutSet
    BY <1>4 DEF TimerExpires, FlagHistory, Core
  <2>2. ~Someone({"release"})'
    BY <1>4, <2>1 DEF TimerExpires, Someone
  <2>3. opened_by["now"]' = "timer"
    BY <1>4 DEF TimerExpires, TimerWithinRound, Open
  <2> QED
    BY <2>1, <2>2, <2>3 DEF FlagHistory, Culprits
<1>5. CASE TimerWakes
  BY <1>5 DEF TimerWakes, FlagHistory, Someone, Culprits
<1>6. CASE UNCHANGED vars
  BY <1>6 DEF vars, FlagHistory, Someone
<1> QED
  BY <1>1, <1>2, <1>3, <1>4, <1>5, <1>6 DEF Next

\* Without signals, for a count of two or more, -ETIME is returned only from a round the timer ended, the
\* round after such a one, or the first round of memory that was not zero:
\* on any number of processors, whatever kmalloc returns.
THEOREM EtimeIsHonest ==
  ASSUME Interruptible = {}, Count >= 2
  PROVE  Spec => EtimeMeansTimeout
<1> DEFINE Honest == \A t \in Threads :
       ret[t] # "-ETIME" /\ ret'[t] = "-ETIME" =>
         {opened_by["now"], opened_by["before"]} \cap {"timer", "garbage"} # {}
<1>1. Init => FlagHistory
  BY InitFlag
<1>2. Core /\ TimerWithinRound /\ FlagHistory /\ [Next]_vars => FlagHistory'
  BY NextFlag
<1>3. Core /\ FlagHistory /\ [Next]_vars => [Honest]_vars
  <2> SUFFICES ASSUME Core, FlagHistory, [Next]_vars, NEW s \in Threads,
                      ret[s] # "-ETIME", ret'[s] = "-ETIME"
               PROVE  {opened_by["now"], opened_by["before"]}
                        \cap {"timer", "garbage"} # {}
    OBVIOUS
  <2> USE DEF Core, TypeOK, caller
  <2>1. ASSUME NEW t \in Threads, Call(t) PROVE FALSE
    BY <2>1 DEF Call
  <2>2. ASSUME NEW t \in Threads, Release(t) PROVE FALSE
    BY <2>2 DEF Release, ReturnToUser
  <2>3. ASSUME NEW t \in Threads, Return(t) PROVE timeout_flag
    BY <2>3 DEF Return, ReturnToUser
  <2>4. ASSUME NEW t \in Threads, Inside(t), ~Release(t), ~Return(t)
        PROVE  FALSE
    BY <2>4 DEF Inside, SleepAtGate, PassGate, LockFirst, StartRound, Arrive,
       CancelTimer, SleepInRound, WakeInRound, LockSecond, Depart,
       ClearTimeout, CloseRound, InterruptedWait, InterruptedLock, Sleep,
       Proceed
  <2>5. ASSUME \/ TimerExpires \/ TimerWakes \/ UNCHANGED vars
               \/ \E t \in Threads : Signal(t)
        PROVE  FALSE
    BY <2>5 DEF TimerExpires, TimerWakes, Signal, vars
  <2>6. timeout_flag
    BY <2>1, <2>2, <2>3, <2>4, <2>5 DEF Next
  <2> QED
    BY <2>6 DEF FlagHistory, Culprits
<1>4. Spec => []Core /\ []TimerWithinRound
  BY CoreInvariant, TimerStaysWithinRound, BarrierAssumption
<1> QED
  BY <1>1, <1>2, <1>3, <1>4, PTL DEF Spec, EtimeMeansTimeout
=============================================================================
