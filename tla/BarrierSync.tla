----------------------------- MODULE BarrierSync -----------------------------
(***************************************************************************)
(* One kernel barrier of Project4 (barrier_sys.c, added by barrier.patch): *)
(* the system call barrier_wait and the hrtimer callback my_callback, run  *)
(* by any number of threads on one live barrier.                           *)
(*                                                                         *)
(* A thread crosses the barrier in these places (values of pc):            *)
(*   out      in user space                                                *)
(*   gate     first wait_event: the previous round must be over            *)
(*   lock1    first mutex_lock                                             *)
(*   first    holds the mutex, tests whether it opens the round            *)
(*   arrive   about to execute left--                                      *)
(*   cancel   last arrival, about to cancel the timer                      *)
(*   release  last arrival, about to open the gate                         *)
(*   sleep    second wait_event: waits to be released                      *)
(*   lock2    released, second mutex_lock                                  *)
(*   depart   holds the mutex, about to execute left++                     *)
(*   clear    last to depart, about to reset timeout_flag                  *)
(*   close    last to depart, about to reset cond_flag                     *)
(*   return   about to read timeout_flag, unlock and return                *)
(* Every step makes at most one store that a thread without the mutex, or  *)
(* the callback, can see.                                                  *)
(***************************************************************************)
EXTENDS Naturals, FiniteSets

CONSTANTS
  Threads,        \* threads of the process that use the barrier
  Count,          \* the argument count of barrier_init
  TimeoutSet,     \* whether the argument timeout of barrier_init is > 0
  SMP,            \* whether threads run while the timer callback runs
  Interruptible,  \* threads that may receive a signal inside barrier_wait
  FlagGarbage,    \* values of timeout_flag in the memory kmalloc returns
  UINT_MAX,       \* largest unsigned int
  NoThread        \* owner of a mutex that is free

ASSUME BarrierAssumption ==
  /\ IsFiniteSet(Threads)
  /\ NoThread \notin Threads
  /\ UINT_MAX \in Nat \ {0}
  /\ Count \in 0 .. UINT_MAX
  /\ TimeoutSet \in BOOLEAN
  /\ SMP \in BOOLEAN
  /\ Interruptible \subseteq Threads
  /\ FlagGarbage \subseteq BOOLEAN /\ FlagGarbage # {}

VARIABLES
  left,           \* threads still to come in this round
  sync_num,       \* rounds completed
  cond_flag,      \* 0: gate closed, threads gather; 1: open, threads drain
  timeout_flag,   \* the current drain was started by the timer
  hr_timer,       \* "queued" while the timer is armed
  callback,       \* "opened" while my_callback is between its two stores
  barrier_lock,   \* owner of the mutex of the barrier
  my_queue,       \* threads asleep on the wait queue
  pc,             \* where each thread is
  ret,            \* what its last call returned
  pending,        \* threads with a pending signal
  opened_by       \* history: who turned cond_flag from 0 to 1, the last time
                  \* ("now") and the time before; at first, who left
                  \* timeout_flag as it is

timer   == <<hr_timer, callback>>
round   == <<left, sync_num>>
flags   == <<cond_flag, timeout_flag, opened_by>>
caller  == <<ret, pending>>
vars    == <<left, sync_num, cond_flag, timeout_flag, hr_timer, callback,
             barrier_lock, my_queue, pc, ret, pending, opened_by>>

Holding == {"first", "arrive", "cancel", "release",
            "depart", "clear", "close", "return"}
Places  == {"out", "gate", "lock1", "sleep", "lock2"} \cup Holding

TypeOK ==
  /\ left \in 0 .. UINT_MAX
  /\ sync_num \in 0 .. UINT_MAX
  /\ cond_flag \in {0, 1}
  /\ timeout_flag \in BOOLEAN
  /\ hr_timer \in {"idle", "queued"}
  /\ callback \in {"idle", "opened"}
  /\ barrier_lock \in Threads \cup {NoThread}
  /\ my_queue \subseteq Threads
  /\ pc \in [Threads -> Places]
  /\ ret \in [Threads -> {"none", "0", "-ETIME"}]
  /\ pending \subseteq Interruptible
  /\ opened_by \in [{"now", "before"} -> {"nobody", "threads", "timer",
                                           "garbage"}]

\* barrier_init leaves the barrier like this; it never writes timeout_flag.
Init ==
  /\ left = Count
  /\ sync_num = 0
  /\ cond_flag = 0
  /\ timeout_flag \in FlagGarbage
  /\ hr_timer = "idle"
  /\ callback = "idle"
  /\ barrier_lock = NoThread
  /\ my_queue = {}
  /\ pc = [t \in Threads |-> "out"]
  /\ ret = [t \in Threads |-> "none"]
  /\ pending = {}
  /\ opened_by = [now |-> IF timeout_flag THEN "garbage" ELSE "nobody",
                  before |-> "nobody"]

-----------------------------------------------------------------------------
\* mutant: a counter without a width
IncrUnbounded(n) == n + 1

\* unsigned int arithmetic
Incr(n) == IF n = UINT_MAX THEN 0 ELSE n + 1
Decr(n) == IF n = 0 THEN UINT_MAX ELSE n - 1

\* The callback runs in hard interrupt context: on a uniprocessor no thread
\* takes a step between its two stores.
At(t, place) == pc[t] = place /\ (SMP \/ callback = "idle")
Goto(t, place) == pc' = [pc EXCEPT ![t] = place]

\* mutex_unlock hands the mutex back whoever calls it.
Unlock == barrier_lock' = NoThread

\* Back to user space with a result; a pending signal is delivered there.
ReturnToUser(t, value) ==
  /\ Goto(t, "out")
  /\ ret' = [ret EXCEPT ![t] = value]
  /\ pending' = pending \ {t}

Open(who) ==
  /\ cond_flag' = 1
  /\ opened_by' = IF cond_flag = 0
                  THEN [now |-> who, before |-> opened_by["now"]]
                  ELSE opened_by

-----------------------------------------------------------------------------
(* barrier_wait *)

\* The lookup of the identifier has found this barrier.
Call(t) ==
  /\ At(t, "out")
  /\ Goto(t, "gate")
  /\ ret' = [ret EXCEPT ![t] = "none"]
  /\ UNCHANGED <<round, flags, timer, barrier_lock, my_queue, pending>>

\* wait_event_interruptible(my_queue, cond): queue up unless cond holds or
\* a signal is pending.
Sleep(t, cond) ==
  /\ ~cond
  /\ t \notin pending
  /\ t \notin my_queue
  /\ my_queue' = my_queue \cup {t}
  /\ UNCHANGED <<round, flags, timer, barrier_lock, pc, caller>>

Proceed(t, cond, place) ==
  /\ cond
  /\ t \notin my_queue
  /\ Goto(t, place)
  /\ UNCHANGED <<round, flags, timer, barrier_lock, my_queue, caller>>

SleepAtGate(t) == At(t, "gate") /\ Sleep(t, cond_flag = 0)
\* mutant: no first wait_event
PassGateUnchecked(t) == At(t, "gate") /\ Proceed(t, TRUE, "lock1")

PassGate(t)    == At(t, "gate") /\ Proceed(t, cond_flag = 0, "lock1")

LockFirst(t) ==
  /\ At(t, "lock1")
  /\ barrier_lock = NoThread
  /\ barrier_lock' = t
  /\ Goto(t, "first")
  /\ UNCHANGED <<round, flags, timer, my_queue, caller>>

\* mutant: tests left as if it had been decremented already
StartRoundLate(t) ==
  /\ At(t, "first")
  /\ hr_timer' = IF left = Count - 1 /\ TimeoutSet THEN "queued" ELSE hr_timer
  /\ Goto(t, "arrive")
  /\ UNCHANGED <<round, flags, callback, barrier_lock, my_queue, caller>>

StartRound(t) ==
  /\ At(t, "first")
  /\ hr_timer' = IF left = Count /\ TimeoutSet THEN "queued" ELSE hr_timer
  /\ Goto(t, "arrive")
  /\ UNCHANGED <<round, flags, callback, barrier_lock, my_queue, caller>>

Arrive(t) ==
  /\ At(t, "arrive")
  /\ left' = Decr(left)
  /\ \/ left' # 0 /\ Goto(t, "sleep") /\ Unlock
     \/ left' = 0 /\ Goto(t, "cancel") /\ UNCHANGED barrier_lock
  /\ UNCHANGED <<sync_num, flags, timer, my_queue, caller>>

\* mutant: the timer is not cancelled
CancelNothing(t) ==
  /\ At(t, "cancel")
  /\ Goto(t, "release")
  /\ UNCHANGED <<round, flags, timer, barrier_lock, my_queue, caller>>

\* hrtimer_cancel waits for a running callback to finish.
CancelTimer(t) ==
  /\ At(t, "cancel")
  /\ TimeoutSet => callback = "idle"
  /\ hr_timer' = IF TimeoutSet THEN "idle" ELSE hr_timer
  /\ Goto(t, "release")
  /\ UNCHANGED <<round, flags, callback, barrier_lock, my_queue, caller>>

\* mutant: the last arrival does not give back its own left--
ReleaseUncounted(t) ==
  /\ At(t, "release")
  /\ Open("threads")
  /\ my_queue' = {}
  /\ Unlock
  /\ ReturnToUser(t, "0")
  /\ UNCHANGED <<round, timeout_flag, timer>>

\* mutant: no wake_up_all
ReleaseSilently(t) ==
  /\ At(t, "release")
  /\ Open("threads")
  /\ left' = Incr(left)
  /\ Unlock
  /\ ReturnToUser(t, "0")
  /\ UNCHANGED <<sync_num, timeout_flag, timer, my_queue>>

Release(t) ==
  /\ At(t, "release")
  /\ Open("threads")
  /\ my_queue' = {}
  /\ left' = Incr(left)
  /\ Unlock
  /\ ReturnToUser(t, "0")
  /\ UNCHANGED <<sync_num, timeout_flag, timer>>

SleepInRound(t) == At(t, "sleep") /\ Sleep(t, cond_flag = 1)
WakeInRound(t)  == At(t, "sleep") /\ Proceed(t, cond_flag = 1, "lock2")

\* mutant: left++ without the mutex
SecondUnlocked(t) ==
  /\ At(t, "lock2")
  /\ Goto(t, "depart")
  /\ UNCHANGED <<round, flags, timer, barrier_lock, my_queue, caller>>

LockSecond(t) ==
  /\ At(t, "lock2")
  /\ barrier_lock = NoThread
  /\ barrier_lock' = t
  /\ Goto(t, "depart")
  /\ UNCHANGED <<round, flags, timer, my_queue, caller>>

\* mutant: the test before the increment
DepartTestsFirst(t) ==
  /\ At(t, "depart")
  /\ left' = Incr(left)
  /\ Goto(t, IF left = Count THEN "clear" ELSE "return")
  /\ UNCHANGED <<sync_num, flags, timer, barrier_lock, my_queue, caller>>

\* mutant: the gate is shut one thread too early
DepartEarly(t) ==
  /\ At(t, "depart")
  /\ left' = Incr(left)
  /\ Goto(t, IF left' >= Count - 1 THEN "clear" ELSE "return")
  /\ UNCHANGED <<sync_num, flags, timer, barrier_lock, my_queue, caller>>

Depart(t) ==
  /\ At(t, "depart")
  /\ left' = Incr(left)
  /\ Goto(t, IF left' = Count THEN "clear" ELSE "return")
  /\ UNCHANGED <<sync_num, flags, timer, barrier_lock, my_queue, caller>>

\* mutant: timeout_flag survives its round
ClearNothing(t) ==
  /\ At(t, "clear")
  /\ Goto(t, "close")
  /\ UNCHANGED <<round, flags, timer, barrier_lock, my_queue, caller>>

ClearTimeout(t) ==
  /\ At(t, "clear")
  /\ timeout_flag' = FALSE
  /\ Goto(t, "close")
  /\ UNCHANGED <<round, cond_flag, opened_by, timer, barrier_lock, my_queue,
                 caller>>

\* mutant: the threads at the gate are not woken
CloseSilently(t) ==
  /\ At(t, "close")
  /\ cond_flag' = 0
  /\ sync_num' = Incr(sync_num)
  /\ Goto(t, "return")
  /\ UNCHANGED <<left, timeout_flag, opened_by, timer, barrier_lock, my_queue,
                 caller>>

CloseRound(t) ==
  /\ At(t, "close")
  /\ cond_flag' = 0
  /\ sync_num' = Incr(sync_num)
  /\ my_queue' = {}
  /\ Goto(t, "return")
  /\ UNCHANGED <<left, timeout_flag, opened_by, timer, barrier_lock, caller>>

Return(t) ==
  /\ At(t, "return")
  /\ Unlock
  /\ ReturnToUser(t, IF timeout_flag THEN "-ETIME" ELSE "0")
  /\ UNCHANGED <<round, flags, timer, my_queue>>

-----------------------------------------------------------------------------
(* my_callback: two stores and a wake-up, without the mutex *)

TimerExpires ==
  /\ hr_timer = "queued"
  /\ callback = "idle"
  /\ hr_timer' = "idle"
  /\ callback' = "opened"
  /\ Open("timer")
  /\ UNCHANGED <<round, timeout_flag, barrier_lock, my_queue, pc, caller>>

TimerWakes ==
  /\ callback = "opened"
  /\ timeout_flag' = TRUE
  /\ my_queue' = {}
  /\ callback' = "idle"
  /\ UNCHANGED <<round, cond_flag, opened_by, hr_timer, barrier_lock, pc,
                 caller>>

-----------------------------------------------------------------------------
(* Signals. barrier_wait ignores the result of every interruptible wait,   *)
(* so an interrupted thread goes on as if its condition held and as if it  *)
(* owned the mutex.                                                        *)

Signal(t) ==
  /\ t \in Interruptible \ pending
  /\ pc[t] # "out"
  /\ pending' = pending \cup {t}
  /\ UNCHANGED <<round, flags, timer, barrier_lock, my_queue, pc, ret>>

\* mutant: the second wait_event is not interruptible
InterruptedGate(t) ==
  /\ t \in pending
  /\ At(t, "gate") /\ Goto(t, "lock1")
  /\ my_queue' = my_queue \ {t}
  /\ UNCHANGED <<round, flags, timer, barrier_lock, caller>>

\* mutant: an interrupted thread stays on the wait queue
InterruptedQueued(t) ==
  /\ t \in pending
  /\ \/ At(t, "gate") /\ Goto(t, "lock1")
     \/ At(t, "sleep") /\ Goto(t, "lock2")
  /\ UNCHANGED <<round, flags, timer, barrier_lock, my_queue, caller>>

InterruptedWait(t) ==
  /\ t \in pending
  /\ \/ At(t, "gate") /\ Goto(t, "lock1")
     \/ At(t, "sleep") /\ Goto(t, "lock2")
  /\ my_queue' = my_queue \ {t}
  /\ UNCHANGED <<round, flags, timer, barrier_lock, caller>>

InterruptedLock(t) ==
  /\ t \in pending
  /\ barrier_lock # NoThread
  /\ \/ At(t, "lock1") /\ Goto(t, "first")
     \/ At(t, "lock2") /\ Goto(t, "depart")
  /\ UNCHANGED <<round, flags, timer, barrier_lock, my_queue, caller>>

-----------------------------------------------------------------------------
Inside(t) ==
  \/ SleepAtGate(t) \/ PassGate(t) \/ LockFirst(t) \/ StartRound(t)
  \/ Arrive(t) \/ CancelTimer(t) \/ Release(t)
  \/ SleepInRound(t) \/ WakeInRound(t) \/ LockSecond(t) \/ Depart(t)
  \/ ClearTimeout(t) \/ CloseRound(t) \/ Return(t)
  \/ InterruptedWait(t) \/ InterruptedLock(t)

Next ==
  \/ \E t \in Threads : Call(t) \/ Inside(t) \/ Signal(t)
  \/ TimerExpires
  \/ TimerWakes

Spec == Init /\ [][Next]_vars

\* The scheduler runs every thread that can run, and an armed timer expires.
Fairness ==
  /\ \A t \in Threads : WF_vars(Inside(t))
  /\ WF_vars(TimerExpires)
  /\ WF_vars(TimerWakes)

FairSpec == Spec /\ Fairness

\* The program of user.c: every thread comes back for the next round.
ProgramSpec == FairSpec /\ \A t \in Threads : WF_vars(Call(t))

-----------------------------------------------------------------------------
(* Correctness *)

\* The threads that left-- has counted and left++ has not.
RoundPlaces == {"sleep", "lock2", "depart", "cancel", "release"}
InRound     == {t \in Threads : pc[t] \in RoundPlaces}

Someone(places) == \E t \in Threads : pc[t] \in places

\* Places from which the thread that executes them will shut the gate, or
\* join the threads that will.
Closing == {"arrive", "clear", "close"}

\* left is exactly the number of threads the round still waits for, through
\* early wake-ups, timeouts and threads that arrive while others leave; so
\* left-- never wraps and the test left == init_count finds the last one.
LeftAccounting ==
  /\ left + Cardinality(InRound) = Count
  /\ \A t \in Threads : pc[t] = "arrive" => left > 0

\* What makes LeftAccounting inductive: a thread between a mutex_lock and the
\* matching unlock owns the mutex, the last arrival and the last departure
\* are at the ends of left, and the gate stays open for a thread that has
\* seen it open until that thread has been counted out.
Core ==
  /\ TypeOK
  /\ \A t \in Threads : pc[t] \in Holding <=> barrier_lock = t
  /\ left + Cardinality(InRound) = Count
  /\ left = 0 <=> Someone({"cancel", "release"})
  /\ Someone({"clear", "close"}) => left = Count
  /\ Someone({"lock2", "depart"}) => cond_flag = 1
  /\ hr_timer = "queued" => TimeoutSet

\* An open gate always has a thread left that will shut it: no interleaving
\* of the last departure, a late arrival and the timer leaves cond_flag at 1
\* with nobody inside, which would block every later caller at the gate.
GateNeverStuck ==
  cond_flag = 1 => InRound # {} \/ Someone(Closing)

\* The timer runs only for a round that is gathering: it is armed once per
\* round, and never left armed for a round that has opened or ended.
TimerWithinRound ==
  hr_timer = "queued" =>
    cond_flag = 0 /\ (InRound # {} \/ Someone({"arrive"}))

\* A thread asleep on the wait queue is waiting for something that is not
\* there yet, except while my_callback is on its way to wake it.
NoLostWakeup ==
  callback = "idle" =>
    \A t \in my_queue : \/ pc[t] = "gate" /\ cond_flag = 1
                        \/ pc[t] = "sleep" /\ cond_flag = 0

\* A thread gets -ETIME only when the timer ended its round; or, as the
\* callback raises timeout_flag after it has opened the gate and barrier_init
\* does not lower it, when the timer ended the round before or the flag is
\* the garbage of the first round. A raised flag never outlives one round.
EtimeMeansTimeout ==
  [][\A t \in Threads :
       ret[t] # "-ETIME" /\ ret'[t] = "-ETIME" =>
         {opened_by["now"], opened_by["before"]} \cap {"timer", "garbage"} # {}
    ]_vars

\* README.md:25 a thread gets -ETIME only when a timeout situation arose.
EtimeNeedsTimer ==
  [][\A t \in Threads :
       ret[t] # "-ETIME" /\ ret'[t] = "-ETIME" => opened_by["now"] = "timer"
    ]_vars

\* README.md:25 a thread gets zero only when all its threads came.
ZeroMeansSynchronised ==
  [][\A t \in Threads :
       ret[t] # "0" /\ ret'[t] = "0" => opened_by'["now"] = "threads"]_vars

\* The round as BarrierSpec sees it: the threads inside are gathered while
\* the gate is shut and leaving while it is open.
Gathered == IF cond_flag = 0 THEN InRound ELSE {}
Leaving  == IF cond_flag = 1 THEN InRound ELSE {}

Promise == INSTANCE BarrierSpec WITH gathered <- Gathered, leaving <- Leaving

\* Any number of threads, timeouts included, may only gather, be released
\* when Count are there or the timer fires, join a round that drains, and
\* leave; nobody released is taken back into the next round.
KeepsPromise == Promise!Spec

\* Exactly Count threads and no timeout: moreover nobody joins a round that
\* drains.
KeepsStrictPromise == Promise!StrictSpec

\* With as many callers as the barrier counts, every call returns.
EveryCallReturns ==
  \A t \in Threads : pc[t] = "gate" ~> pc[t] = "out"

\* With a timeout, a thread that has arrived returns even if no other
\* thread ever calls.
ArrivedThreadReturns ==
  \A t \in Threads : pc[t] = "sleep" ~> pc[t] = "out"

\* A thread with a pending signal (a kill included) leaves the call.
SignalledThreadLeaves ==
  \A t \in Threads : t \in pending ~> pc[t] = "out"
=============================================================================
