--------------------------- MODULE BarrierRegistry ---------------------------
(***************************************************************************)
(* The list of barriers of Project4 (barrier_sys.c): the system calls      *)
(* barrier_init and barrier_destroy, and the lookup at the head of         *)
(* barrier_wait, run by the threads of several processes. What a thread    *)
(* does inside barrier_wait is reduced here to being on the wait queue or  *)
(* off it; BarrierSync has the rest.                                       *)
(*                                                                         *)
(* A walk over the list takes a step for each node it visits. The list has *)
(* one mutex for barrier_init and barrier_destroy and another for the      *)
(* lookup of barrier_wait, and barrier_init counts before it takes either: *)
(* so the node a walk stands on may be freed under it.                     *)
(***************************************************************************)
EXTENDS Naturals, FiniteSets, Sequences, SequencesExt

CONSTANTS
  Processes,   \* values of tgid
  Threads,
  Process,     \* the process of each thread
  Main,        \* the main thread of each process
  Nodes,       \* addresses kmalloc may return; bounds the barriers alive
  MaxId,       \* bound on the barrier_id arguments tried
  MaxCount,    \* bound on the barriers one walk of barrier_init counts
  Garbage,     \* what else the tgid field of fresh memory may read as
  FirstAlone,  \* whether the first barrier_init runs with no other call
  Program,     \* how programs use the calls: "any", "joined" or "user"
  NoProcess,   \* a tgid of no process
  NoNode, NoThread

ASSUME RegistryAssumption ==
  /\ Process \in [Threads -> Processes]
  /\ Main \in [Processes -> Threads]
  /\ \A p \in Processes : Process[Main[p]] = p
  /\ IsFiniteSet(Nodes)
  /\ MaxId \in Nat /\ MaxCount \in Nat
  /\ NoProcess \notin Processes
  /\ Garbage \subseteq Processes \cup {NoProcess} /\ Garbage # {}
  /\ FirstAlone \in BOOLEAN
  /\ Program \in {"any", "joined", "user"}
  /\ NoNode \notin Nodes /\ NoThread \notin Threads

VARIABLES
  first_flag,      \* 0 until a barrier_init has claimed the initialisation
  ready,           \* the list head and the two mutexes are initialised
  barrier_list,    \* the list, head first
  init_dest_lock,  \* owner of the mutex of barrier_init and barrier_destroy
  wait_lock,       \* owner of the mutex of the lookup in barrier_wait
  barrier,         \* memory: is it allocated, and its identifying fields
  returned,        \* barriers whose identifier was given to the caller
  pc,
  num_barriers,    \* local of barrier_init
  argument,        \* the barrier_id argument of the current call
  found,           \* the node a call is at; NoNode is the list head
  asleep,          \* threads on the wait queue of the barrier they found
  phase            \* the program each process runs: start, run, ended

globals == <<first_flag, ready>>
locks   == <<init_dest_lock, wait_lock>>
memory  == <<barrier_list, barrier, returned>>
locals  == <<num_barriers, argument, found>>
vars    == <<first_flag, ready, barrier_list, init_dest_lock, wait_lock,
             barrier, returned, pc, num_barriers, argument, found, asleep,
             phase>>

InInit    == {"check", "flag", "head", "count", "counting", "lock_init",
              "publish", "fill"}
InWait    == {"lock_wait", "lookup", "gate", "asleep", "woken"}
InDestroy == {"lock_destroy", "find", "test", "free"}

Live    == {n \in Nodes : barrier[n].live}
Listed  == ToSet(barrier_list)
Waiters == {t \in Threads : pc[t] \in {"gate", "asleep", "woken"}}
Holders == {t \in Threads : pc[t] \in {"fill", "find", "test", "free"}}
Walkers == {t \in Threads : pc[t] \in {"counting", "lookup", "find"}}
Users   == {t \in Waiters \cup Holders \cup Walkers : found[t] # NoNode}
Team(p) == {t \in Threads : Process[t] = p}

TypeOK ==
  /\ first_flag \in {0, 1}
  /\ ready \in BOOLEAN
  /\ barrier_list \in Seq(Nodes)
  /\ init_dest_lock \in Threads \cup {NoThread}
  /\ wait_lock \in Threads \cup {NoThread}
  /\ barrier \in [Nodes -> [live : BOOLEAN, id : Nat,
                            tgid : Processes \cup {NoProcess}]]
  /\ returned \subseteq Nodes
  /\ pc \in [Threads -> {"out", "oops", "astray"}
                           \cup InInit \cup InWait \cup InDestroy]
  /\ num_barriers \in [Threads -> Nat]
  /\ argument \in [Threads -> 0 .. MaxId]
  /\ found \in [Threads -> Nodes \cup {NoNode}]
  /\ asleep \subseteq Threads
  /\ phase \in [Processes -> {"start", "run", "ended"}]
  /\ \A t \in Waiters : found[t] \in Nodes
  /\ \A t \in Holders : pc[t] # "find" => found[t] \in Nodes

Init ==
  /\ first_flag = 0
  /\ ready = FALSE
  /\ barrier_list = << >>
  /\ init_dest_lock = NoThread
  /\ wait_lock = NoThread
  /\ barrier = [n \in Nodes |-> [live |-> FALSE, id |-> 0, tgid |-> NoProcess]]
  /\ returned = {}
  /\ pc = [t \in Threads |-> "out"]
  /\ num_barriers = [t \in Threads |-> 0]
  /\ argument = [t \in Threads |-> 0]
  /\ found = [t \in Threads |-> NoNode]
  /\ asleep = {}
  /\ phase = [p \in Processes |-> "start"]

-----------------------------------------------------------------------------
Move(t, from, to) == pc[t] = from /\ pc' = [pc EXCEPT ![t] = to]

\* The list ends where it began, at its head.
First == IF barrier_list = << >> THEN NoNode ELSE barrier_list[1]

\* next of a node: after the last one, and after one that a second
\* initialisation took off the list, the head.
After(n) ==
  LET Before == {i \in 1 .. Len(barrier_list) - 1 : barrier_list[i] = n} IN
  IF Before = {} THEN NoNode ELSE barrier_list[1 + CHOOSE i \in Before : TRUE]

\* mutant: the lookup does not compare barrier_id
NamesAnyId(t) == barrier[found[t]].tgid = Process[t]

\* The test of the two lookups. It may read a node that has been freed: the
\* fields are still there.
Names(t) ==
  /\ barrier[found[t]].id = argument[t]
  /\ barrier[found[t]].tgid = Process[t]

\* A lookup goes on from a barrier that is not the one it is for.
WalkOn(t) ==
  /\ pc[t] \in {"lookup", "find"}
  /\ found[t] \in Live
  /\ ~Names(t)
  /\ found' = [found EXCEPT ![t] = After(found[t])]
  /\ UNCHANGED <<globals, locks, memory, pc, num_barriers, argument, asleep,
                 phase>>

\* next of a node that was freed is LIST_POISON1: the walk faults on it. The
\* mutex of the lookup stays locked.
Stray(t) ==
  /\ t \in Walkers
  /\ found[t] \in Nodes \ Live
  /\ pc[t] # "counting" => ~Names(t)
  /\ Move(t, pc[t], "astray")
  /\ UNCHANGED <<globals, locks, memory, locals, asleep, phase>>

\* The list head or a mutex is used while it is still all zeroes.
Oops(t, from) ==
  /\ ~ready
  /\ Move(t, from, "oops")
  /\ UNCHANGED <<globals, locks, memory, locals, asleep, phase>>

-----------------------------------------------------------------------------
(* What programs call. In "joined" a barrier is destroyed only while no    *)
(* thread of the process is in barrier_wait; "user" is user.c: the main    *)
(* thread makes its barriers, its threads wait on them, the main thread    *)
(* joins the threads and destroys the barriers.                            *)

\* With FirstAlone, no call starts while another runs before or in the first
\* barrier_init.
MayCall ==
  FirstAlone /\ ~ready => \A s \in Threads : pc[s] = "out"

Waiting(p) == \E t \in Team(p) : pc[t] \in InWait
Destroying(p) == \E t \in Team(p) : pc[t] \in InDestroy
Barriers(p) == {n \in returned : barrier[n].tgid = p}

MayInit(t) ==
  Program = "user" => t = Main[Process[t]] /\ phase[Process[t]] = "start"

MayWait(t, id) ==
  /\ Program \in {"joined", "user"} => ~Destroying(Process[t])
  /\ Program = "user" =>
       /\ t # Main[Process[t]]
       /\ phase[Process[t]] # "ended"
       /\ id \in {barrier[n].id : n \in Barriers(Process[t])}

MayDestroy(t, id) ==
  /\ Program \in {"joined", "user"} => ~Waiting(Process[t])
  /\ Program = "user" =>
       /\ t = Main[Process[t]]
       /\ phase[Process[t]] = "ended"
       /\ id \in {barrier[n].id : n \in Barriers(Process[t])}

\* The main thread has made its last barrier; it has joined its threads.
NextPhase(p) ==
  /\ Program = "user"
  /\ pc[Main[p]] = "out"
  /\ \/ phase[p] = "start" /\ phase' = [phase EXCEPT ![p] = "run"]
     \/ /\ phase[p] = "run"
        /\ ~Waiting(p)
        /\ phase' = [phase EXCEPT ![p] = "ended"]
  /\ UNCHANGED <<globals, locks, memory, pc, locals, asleep>>

-----------------------------------------------------------------------------
(* barrier_init *)

\* Calls under way and barriers alive are bounded by the memory.
CallInit(t) ==
  /\ MayCall /\ MayInit(t)
  /\ Cardinality(Live) + Cardinality({s \in Threads : pc[s] \in InInit})
       < Cardinality(Nodes)
  /\ Move(t, "out", "check")
  /\ UNCHANGED <<globals, locks, memory, locals, asleep, phase>>

\* mutant: every call initialises the list
CheckNothing(t) ==
  /\ Move(t, "check", "flag")
  /\ UNCHANGED <<globals, locks, memory, locals, asleep, phase>>

CheckFirst(t) ==
  /\ Move(t, "check", IF first_flag = 0 THEN "flag" ELSE "count")
  /\ UNCHANGED <<globals, locks, memory, locals, asleep, phase>>

SetFirst(t) ==
  /\ Move(t, "flag", "head")
  /\ first_flag' = 1
  /\ UNCHANGED <<ready, locks, memory, locals, asleep, phase>>

InitGlobals(t) ==
  /\ Move(t, "head", "count")
  /\ ready' = TRUE
  /\ barrier_list' = << >>
  /\ init_dest_lock' = NoThread
  /\ wait_lock' = NoThread
  /\ UNCHANGED <<first_flag, barrier, returned, locals, asleep, phase>>

\* The loop that counts runs before the mutex is taken.
StartCount(t) ==
  /\ ready
  /\ Move(t, "count", "counting")
  /\ num_barriers' = [num_barriers EXCEPT ![t] = 0]
  /\ found' = [found EXCEPT ![t] = First]
  /\ UNCHANGED <<globals, locks, memory, argument, asleep, phase>>

\* mutant: the test on tgid is reversed
CountForeign(t) ==
  /\ pc[t] = "counting"
  /\ found[t] \in Live
  /\ num_barriers[t] < MaxCount
  /\ num_barriers' = [num_barriers EXCEPT ![t] =
       IF barrier[found[t]].tgid # Process[t] THEN @ + 1 ELSE @]
  /\ found' = [found EXCEPT ![t] = After(found[t])]
  /\ UNCHANGED <<globals, locks, memory, pc, argument, asleep, phase>>

\* A node that is freed and allocated again goes to the head of the list, and
\* the walk with it: MaxCount bounds how often.
CountBarrier(t) ==
  /\ pc[t] = "counting"
  /\ found[t] \in Live
  /\ num_barriers[t] < MaxCount
  /\ num_barriers' = [num_barriers EXCEPT ![t] =
       IF barrier[found[t]].tgid = Process[t] THEN @ + 1 ELSE @]
  /\ found' = [found EXCEPT ![t] = After(found[t])]
  /\ UNCHANGED <<globals, locks, memory, pc, argument, asleep, phase>>

EndCount(t) ==
  /\ found[t] = NoNode
  /\ Move(t, "counting", "lock_init")
  /\ UNCHANGED <<globals, locks, memory, locals, asleep, phase>>

LockInit(t) ==
  /\ init_dest_lock = NoThread
  /\ Move(t, "lock_init", "publish")
  /\ init_dest_lock' = t
  /\ UNCHANGED <<globals, wait_lock, memory, locals, asleep, phase>>

\* kmalloc, barrier_id and list_add; the other fields are still what the
\* memory holds, which may be the barrier it was before.
Publish(t) ==
  /\ Move(t, "publish", "fill")
  /\ \E n \in Nodes \ Live : \E g \in Garbage \cup {barrier[n].tgid} :
       /\ barrier' = [barrier EXCEPT ![n] =
            [live |-> TRUE, id |-> num_barriers[t] + 1, tgid |-> g]]
       /\ barrier_list' = <<n>> \o barrier_list
       /\ found' = [found EXCEPT ![t] = n]
  /\ UNCHANGED <<globals, locks, returned, num_barriers, argument, asleep,
                 phase>>

\* The fields, the unlock and the return of the identifier.
Fill(t) ==
  /\ Move(t, "fill", "out")
  /\ barrier' = [barrier EXCEPT ![found[t]].tgid = Process[t]]
  /\ returned' = returned \cup {found[t]}
  /\ found' = [found EXCEPT ![t] = NoNode]
  /\ init_dest_lock' = NoThread
  /\ UNCHANGED <<globals, barrier_list, wait_lock, num_barriers, argument,
                 asleep, phase>>

-----------------------------------------------------------------------------
(* barrier_wait *)

CallWait(t, id) ==
  /\ MayCall /\ MayWait(t, id)
  /\ Move(t, "out", "lock_wait")
  /\ argument' = [argument EXCEPT ![t] = id]
  /\ UNCHANGED <<globals, locks, memory, num_barriers, found, asleep, phase>>

LockWait(t) ==
  /\ ready
  /\ wait_lock = NoThread
  /\ Move(t, "lock_wait", "lookup")
  /\ wait_lock' = t
  /\ found' = [found EXCEPT ![t] = First]
  /\ UNCHANGED <<globals, init_dest_lock, memory, num_barriers, argument,
                 asleep, phase>>

WaitFinds(t) ==
  /\ found[t] # NoNode
  /\ Names(t)
  /\ Move(t, "lookup", "gate")
  /\ wait_lock' = NoThread
  /\ UNCHANGED <<globals, init_dest_lock, memory, locals, asleep, phase>>

\* mutant: an identifier that is not found is not refused
WaitUnrefused(t) ==
  /\ found[t] = NoNode
  /\ Move(t, "lookup", "gate")
  /\ wait_lock' = NoThread
  /\ UNCHANGED <<globals, init_dest_lock, memory, locals, asleep, phase>>

\* -EINVAL
WaitRefused(t) ==
  /\ found[t] = NoNode
  /\ Move(t, "lookup", "out")
  /\ wait_lock' = NoThread
  /\ UNCHANGED <<globals, init_dest_lock, memory, locals, asleep, phase>>

\* Either wait_event finds its condition false.
SleepOnQueue(t) ==
  /\ \/ Move(t, "gate", "asleep")
     \/ Move(t, "woken", "asleep")
  /\ asleep' = asleep \cup {t}
  /\ UNCHANGED <<globals, locks, memory, locals, phase>>

\* The last arrival, the last departure or the timer: wake_up_all.
WakeAll(n) ==
  LET sleepers == {t \in asleep : found[t] = n} IN
  /\ sleepers # {}
  /\ asleep' = asleep \ sleepers
  /\ pc' = [t \in Threads |-> IF t \in sleepers THEN "woken" ELSE pc[t]]
  /\ UNCHANGED <<globals, locks, memory, locals, phase>>

LeaveBarrier(t) ==
  /\ \/ Move(t, "gate", "out")
     \/ Move(t, "woken", "out")
  /\ found' = [found EXCEPT ![t] = NoNode]
  /\ UNCHANGED <<globals, locks, memory, num_barriers, argument, asleep,
                 phase>>

-----------------------------------------------------------------------------
(* barrier_destroy *)

CallDestroy(t, id) ==
  /\ MayCall /\ MayDestroy(t, id)
  /\ Move(t, "out", "lock_destroy")
  /\ argument' = [argument EXCEPT ![t] = id]
  /\ UNCHANGED <<globals, locks, memory, num_barriers, found, asleep, phase>>

\* mutant: barrier_destroy does not take the mutex
DestroyUnlocked(t) ==
  /\ ready
  /\ Move(t, "lock_destroy", "find")
  /\ found' = [found EXCEPT ![t] = First]
  /\ UNCHANGED <<globals, locks, memory, num_barriers, argument, asleep, phase>>

LockDestroy(t) ==
  /\ ready
  /\ init_dest_lock = NoThread
  /\ Move(t, "lock_destroy", "find")
  /\ init_dest_lock' = t
  /\ found' = [found EXCEPT ![t] = First]
  /\ UNCHANGED <<globals, wait_lock, memory, num_barriers, argument, asleep,
                 phase>>

DestroyFinds(t) ==
  /\ found[t] # NoNode
  /\ Names(t)
  /\ Move(t, "find", "test")
  /\ UNCHANGED <<globals, locks, memory, locals, asleep, phase>>

\* -EINVAL
DestroyRefused(t) ==
  /\ found[t] = NoNode
  /\ Move(t, "find", "out")
  /\ init_dest_lock' = NoThread
  /\ UNCHANGED <<globals, wait_lock, memory, locals, asleep, phase>>

\* waitqueue_active: a busy barrier is refused with -EBUSY.
TestBusy(t) ==
  /\ \/ /\ \E s \in asleep : found[s] = found[t]
        /\ Move(t, "test", "out")
        /\ found' = [found EXCEPT ![t] = NoNode]
        /\ init_dest_lock' = NoThread
     \/ /\ \A s \in asleep : found[s] # found[t]
        /\ Move(t, "test", "free")
        /\ UNCHANGED <<found, init_dest_lock>>
  /\ UNCHANGED <<globals, wait_lock, memory, num_barriers, argument, asleep,
                 phase>>

\* list_del and kfree.
Free(t) ==
  /\ Move(t, "free", "out")
  /\ barrier_list' = RemoveFirst(barrier_list, found[t])
  /\ barrier' = [barrier EXCEPT ![found[t]].live = FALSE]
  /\ returned' = returned \ {found[t]}
  /\ found' = [found EXCEPT ![t] = NoNode]
  /\ init_dest_lock' = NoThread
  /\ UNCHANGED <<globals, wait_lock, num_barriers, argument, asleep, phase>>

-----------------------------------------------------------------------------
Inside(t) ==
  \/ CheckFirst(t) \/ SetFirst(t) \/ InitGlobals(t)
  \/ StartCount(t) \/ CountBarrier(t) \/ EndCount(t)
  \/ LockInit(t) \/ Publish(t) \/ Fill(t)
  \/ LockWait(t) \/ WaitFinds(t) \/ WaitRefused(t)
  \/ SleepOnQueue(t) \/ LeaveBarrier(t)
  \/ LockDestroy(t) \/ DestroyFinds(t) \/ DestroyRefused(t)
  \/ TestBusy(t) \/ Free(t)
  \/ WalkOn(t) \/ Stray(t)
  \/ \E from \in {"count", "lock_wait", "lock_destroy"} : Oops(t, from)

Next ==
  \/ \E t \in Threads :
       \/ CallInit(t)
       \/ \E id \in 1 .. MaxId : CallWait(t, id) \/ CallDestroy(t, id)
       \/ Inside(t)
  \/ \E n \in Nodes : WakeAll(n)
  \/ \E p \in Processes : NextPhase(p)

Spec == Init /\ [][Next]_vars

-----------------------------------------------------------------------------
(* Correctness *)

\* Init and destroy calls in any order, by any threads: every barrier alive
\* is on the list exactly once, and nothing freed is.
LiveBarriersListed ==
  /\ Listed = Live
  /\ Len(barrier_list) = Cardinality(Listed)

\* barrier.patch:868 first_flag tells whether it is the first barrier_init: once
\* one has claimed the initialisation, no call finds the list head or a mutex
\* uninitialised.
FaultsOnlyBeforeFirstInit ==
  (\E t \in Threads : pc[t] = "oops") => first_flag = 0

\* README.md:24 the identifier identifies the barrier: no two barriers that a
\* process holds have the same one.
UniqueIds ==
  \A n, m \in returned :
    n # m /\ barrier[n].tgid = barrier[m].tgid => barrier[n].id # barrier[m].id

\* Of the calls that hold init_dest_lock none uses a barrier that was freed, and
\* none frees one twice, whatever walks the list without it.
LockedUseIsSafe == \A t \in Users \cap Holders : found[t] \in Live

\* barrier.patch:866-867 the mutexes lock the list: no call uses the memory of a
\* barrier after it was freed.
NoUseAfterFree == \A t \in Users : found[t] \in Live

\* README.md:24 a thread waits at the barrier it named, of its own process,
\* and one whose barrier_init has returned.
WaitsAtOwnBarrier ==
  \A t \in Waiters : /\ found[t] \in returned
                     /\ barrier[found[t]].tgid = Process[t]
                     /\ barrier[found[t]].id = argument[t]

\* README.md:24 a thread that names a barrier its process holds does not wait
\* at another's.
WaitsWithinProcess ==
  \A t \in Waiters :
    (\E n \in Barriers(Process[t]) : barrier[n].id = argument[t])
      => barrier[found[t]].tgid = Process[t]

\* README.md:29 a barrier that is in use is not destroyed.
BusyIsRefused ==
  [][\A n \in Live \ Live' : \A t \in Waiters : found[t] # n]_vars
=============================================================================
