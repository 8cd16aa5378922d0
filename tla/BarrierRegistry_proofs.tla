------------------------ MODULE BarrierRegistry_proofs ------------------------
(***************************************************************************)
(* Theorems about BarrierRegistry, for every set of processes, threads and *)
(* addresses, when no other call runs before or during the first           *)
(* barrier_init (FirstAlone). What is said of lookups and of identifiers   *)
(* needs programs like user.c as well: see UserProgram.                    *)
(***************************************************************************)
EXTENDS BarrierRegistry, FiniteSetTheorems, SequenceTheorems, TLAPS

-----------------------------------------------------------------------------
(* Lists *)

\* A search that finds something finds a first.
LEMMA LeastIndex ==
  ASSUME NEW S, NEW s \in Seq(S), NEW I \in SUBSET DOMAIN s, I # {}
  PROVE  (CHOOSE i \in I : \A j \in I : i <= j) \in I
<1>1. I \subseteq Nat
  BY LenProperties
<1>2. \E i \in I : \A j \in I : ~(<<j, i>> \in OpToRel(<, Nat))
  BY <1>1, NatLessThanWellFounded, WFMin
<1>3. \A i, j \in Nat : j < i => <<j, i>> \in OpToRel(<, Nat)
  BY DEF OpToRel
<1>4. \E i \in I : \A j \in I : i <= j
  <2>1. PICK i \in I : \A j \in I : ~(<<j, i>> \in OpToRel(<, Nat))
    BY <1>2
  <2>2. \A j \in I : ~(j < i)
    BY <1>1, <1>3, <2>1
  <2> QED
    BY <1>1, <2>2
<1> QED
  BY <1>4

\* n comes before m, or is m.
Precedes(s, n, m) ==
  \E i \in DOMAIN s : \E j \in DOMAIN s : i <= j /\ s[i] = n /\ s[j] = m

\* list_add: one more element, at the head, before the others.
LEMMA Added ==
  ASSUME NEW S, NEW s \in Seq(S), NEW x \in S
  PROVE  /\ <<x>> \o s \in Seq(S)
         /\ ToSet(<<x>> \o s) = ToSet(s) \cup {x}
         /\ IsInjective(s) /\ x \notin ToSet(s) => IsInjective(<<x>> \o s)
         /\ \A n, m : n # x =>
              (Precedes(<<x>> \o s, n, m) <=> Precedes(s, n, m))
<1> DEFINE added == <<x>> \o s
<1>1. /\ added \in Seq(S)
      /\ DOMAIN s = 1 .. Len(s) /\ DOMAIN added = 1 .. Len(s) + 1
      /\ Len(s) \in Nat
  OBVIOUS
<1>2. \A i \in 1 .. Len(s) + 1 : added[i] = IF i = 1 THEN x ELSE s[i - 1]
  OBVIOUS
<1>3. \A i \in DOMAIN s : s[i] = added[i + 1] /\ i + 1 \in DOMAIN added
  BY <1>1, <1>2
<1>4. \A i \in DOMAIN added : i # 1 => i - 1 \in DOMAIN s /\ added[i] = s[i - 1]
  BY <1>1, <1>2
<1>5. 1 \in DOMAIN added /\ added[1] = x
  BY <1>1, <1>2
<1> HIDE DEF added
<1>6. ToSet(added) = ToSet(s) \cup {x}
  BY <1>3, <1>4, <1>5 DEF ToSet
<1>7. ASSUME IsInjective(s), x \notin ToSet(s) PROVE IsInjective(added)
  BY <1>1, <1>3, <1>4, <1>5, <1>7 DEF ToSet, IsInjective
<1>8. ASSUME NEW n, NEW m, n # x, Precedes(added, n, m) PROVE Precedes(s, n, m)
  <2>1. PICK a \in DOMAIN added, b \in DOMAIN added :
          a <= b /\ added[a] = n /\ added[b] = m
    BY <1>8 DEF Precedes
  <2>2. a # 1 /\ a \in Nat /\ b \in Nat /\ b # 1
    BY <1>1, <1>5, <1>8, <2>1
  <2>3. /\ a - 1 \in DOMAIN s /\ b - 1 \in DOMAIN s /\ a - 1 <= b - 1
        /\ s[a - 1] = n /\ s[b - 1] = m
    BY <1>1, <1>4, <2>1, <2>2
  <2> QED
    BY <2>3 DEF Precedes
<1>9. ASSUME NEW n, NEW m, Precedes(s, n, m) PROVE Precedes(added, n, m)
  <2>1. PICK a \in DOMAIN s, b \in DOMAIN s : a <= b /\ s[a] = n /\ s[b] = m
    BY <1>9 DEF Precedes
  <2>2. /\ a + 1 \in DOMAIN added /\ b + 1 \in DOMAIN added /\ a + 1 <= b + 1
        /\ added[a + 1] = n /\ added[b + 1] = m
    BY <1>1, <1>3, <2>1
  <2> QED
    BY <2>2 DEF Precedes
<1> QED
  BY <1>1, <1>6, <1>7, <1>8, <1>9 DEF added

\* list_del: the element that is there once is gone, and the others are in the
\* order they were in.
LEMMA Removed ==
  ASSUME NEW S, NEW s \in Seq(S), NEW x
  PROVE  /\ RemoveFirst(s, x) \in Seq(S)
         /\ IsInjective(s) =>
              /\ ToSet(RemoveFirst(s, x)) = ToSet(s) \ {x}
              /\ IsInjective(RemoveFirst(s, x))
              /\ \A n, m : n # x => (Precedes(RemoveFirst(s, x), n, m)
                                       <=> m # x /\ Precedes(s, n, m))
<1> DEFINE rest == RemoveFirst(s, x)
           I    == {i \in 1 .. Len(s) : s[i] = x}
           k    == CHOOSE i \in I : \A j \in I : i <= j
<1>1. CASE I = {}
  <2>1. ~\E i \in 1 .. Len(s) : s[i] = x
    BY <1>1
  <2>2. rest = s
    BY <2>1 DEF RemoveFirst
  <2>3. x \notin ToSet(s)
    BY <2>1 DEF ToSet
  <2>4. \A n, m : n # x => (Precedes(rest, n, m) <=> m # x /\ Precedes(s, n, m))
    BY <2>1, <2>2 DEF Precedes
  <2> QED
    BY <2>2, <2>3, <2>4
<1>2. CASE I # {}
  <2>1. DOMAIN s = 1 .. Len(s) /\ Len(s) \in Nat
    OBVIOUS
  <2>2. k \in I
    BY <1>2, <2>1, LeastIndex
  <2>3. rest = SubSeq(s, 1, k - 1) \o SubSeq(s, k + 1, Len(s))
    BY <1>2 DEF RemoveFirst, RemoveAt, SelectInSeq, Min
  <2> HIDE DEF k
  <2>4. /\ rest \in Seq(S) /\ DOMAIN rest = 1 .. Len(s) - 1
        /\ \A i \in 1 .. Len(s) - 1 : rest[i] = IF i < k THEN s[i] ELSE s[i + 1]
    <3> DEFINE front == SubSeq(s, 1, k - 1)
               back  == SubSeq(s, k + 1, Len(s))
    <3>1. k \in 1 .. Len(s) /\ \A i \in 1 .. Len(s) : s[i] \in S
      BY <2>1, <2>2
    <3>2. /\ front \in Seq(S) /\ Len(front) = k - 1
          /\ \A i \in 1 .. k - 1 : front[i] = s[i]
      BY <2>1, <3>1, SubSeqProperties
    <3>3. /\ back \in Seq(S) /\ Len(back) = Len(s) - k
          /\ \A i \in 1 .. Len(s) - k : back[i] = s[k + i]
      <4>1. /\ k + 1 \in Int /\ Len(s) \in Int
            /\ \A i \in k + 1 .. Len(s) : s[i] \in S
        BY <2>1, <3>1
      <4>2. /\ back \in Seq(S)
            /\ Len(back) = IF k + 1 <= Len(s) THEN Len(s) - (k + 1) + 1 ELSE 0
            /\ \A i \in 1 .. Len(s) - (k + 1) + 1 : back[i] = s[(k + 1) + i - 1]
        BY <4>1, SubSeqProperties
      <4> HIDE DEF back
      <4>3. Len(back) = Len(s) - k
        <5>1. k \in Int /\ Len(s) \in Int /\ k <= Len(s)
          BY <2>1, <3>1
        <5>2. CASE k + 1 <= Len(s)
          <6>1. Len(back) = Len(s) - (k + 1) + 1
            BY <4>2, <5>2
          <6> QED
            BY <5>1, <6>1
        <5>3. CASE ~(k + 1 <= Len(s))
          <6>1. Len(back) = 0
            BY <4>2, <5>3
          <6> QED
            BY <5>1, <5>3, <6>1
        <5> QED
          BY <5>2, <5>3
      <4>4. ASSUME NEW i \in 1 .. Len(s) - k PROVE back[i] = s[k + i]
        <5>1. i \in 1 .. Len(s) - (k + 1) + 1 /\ (k + 1) + i - 1 = k + i
          BY <2>1, <3>1
        <5> QED
          BY <4>2, <5>1
      <4> QED
        BY <4>2, <4>3, <4>4
    <3> HIDE DEF front, back
    <3>4. /\ front \o back \in Seq(S)
          /\ Len(front \o back) = Len(s) - 1
          /\ \A i \in 1 .. Len(s) - 1 :
               (front \o back)[i] = IF i <= k - 1 THEN front[i]
                                                  ELSE back[i - (k - 1)]
      <4>1. Len(front) + Len(back) = Len(s) - 1
        BY <2>1, <3>1, <3>2, <3>3
      <4>2. /\ front \o back \in Seq(S)
            /\ Len(front \o back) = Len(front) + Len(back)
            /\ \A i \in 1 .. Len(front) + Len(back) :
                 (front \o back)[i] = IF i <= Len(front) THEN front[i]
                                                    ELSE back[i - Len(front)]
        BY <3>2, <3>3, ConcatProperties
      <4> QED
        BY <3>2, <4>1, <4>2
    <3>5. \A i \in 1 .. Len(s) - 1 :
            (front \o back)[i] = IF i < k THEN s[i] ELSE s[i + 1]
      <4> SUFFICES ASSUME NEW i \in 1 .. Len(s) - 1
                   PROVE  (front \o back)[i] = IF i < k THEN s[i] ELSE s[i + 1]
        OBVIOUS
      <4>1. CASE i < k
        BY <2>1, <3>1, <3>2, <3>4, <4>1
      <4>2. CASE ~(i < k)
        <5>1. i - (k - 1) \in 1 .. Len(s) - k /\ k + (i - (k - 1)) = i + 1
          BY <2>1, <3>1, <4>2
        <5> QED
          BY <2>1, <3>1, <3>3, <3>4, <4>2, <5>1
      <4> QED
        BY <4>1, <4>2
    <3>6. rest = front \o back
      BY <2>3 DEF front, back
    <3>7. DOMAIN rest = 1 .. Len(s) - 1
      BY <3>4, <3>6
    <3> QED
      BY <3>4, <3>5, <3>6, <3>7
  <2> HIDE DEF rest
  <2>5. ASSUME IsInjective(s)
        PROVE  /\ ToSet(rest) = ToSet(s) \ {x} /\ IsInjective(rest)
               /\ \A n, m : n # x =>
                    (Precedes(rest, n, m) <=> m # x /\ Precedes(s, n, m))
    <3>1. \A i \in DOMAIN s : i # k => s[i] # x
      BY <2>1, <2>2, <2>5 DEF IsInjective
    <3>2. \A i \in DOMAIN rest : \E j \in DOMAIN s : j # k /\ rest[i] = s[j]
      BY <2>1, <2>2, <2>4
    <3>3. \A j \in DOMAIN s : j # k => \E i \in DOMAIN rest : rest[i] = s[j]
      <4>1. \A j \in DOMAIN s : j < k => j \in DOMAIN rest /\ rest[j] = s[j]
        BY <2>1, <2>2, <2>4
      <4>2. \A j \in DOMAIN s : j > k => j - 1 \in DOMAIN rest /\ rest[j - 1] = s[j]
        BY <2>1, <2>2, <2>4
      <4> QED
        BY <4>1, <4>2, <2>1, <2>2
    <3>4. ToSet(rest) = ToSet(s) \ {x}
      BY <2>2, <3>1, <3>2, <3>3 DEF ToSet
    <3>5. IsInjective(rest)
      <4> SUFFICES ASSUME NEW a \in DOMAIN rest, NEW b \in DOMAIN rest,
                          rest[a] = rest[b]
                   PROVE  a = b
        BY DEF IsInjective
      <4> DEFINE At(i) == IF i < k THEN i ELSE i + 1
      <4>1. At(a) \in DOMAIN s /\ At(b) \in DOMAIN s
        BY <2>1, <2>2, <2>4
      <4>2. rest[a] = s[At(a)] /\ rest[b] = s[At(b)]
        BY <2>4
      <4>3. At(a) = At(b)
        BY <2>5, <4>1, <4>2 DEF IsInjective
      <4> QED
        BY <2>1, <2>2, <2>4, <4>3
    <3>6. ASSUME NEW n, NEW m, n # x, Precedes(rest, n, m)
          PROVE  m # x /\ Precedes(s, n, m)
      <4>1. PICK a \in DOMAIN rest, b \in DOMAIN rest :
              a <= b /\ rest[a] = n /\ rest[b] = m
        BY <3>6 DEF Precedes
      <4> DEFINE At(i) == IF i < k THEN i ELSE i + 1
      <4>2. /\ At(a) \in DOMAIN s /\ At(b) \in DOMAIN s /\ At(a) <= At(b)
            /\ s[At(a)] = n /\ s[At(b)] = m
        BY <2>1, <2>2, <2>4, <4>1
      <4>3. m # x
        BY <3>4, <4>1 DEF ToSet
      <4> HIDE DEF At
      <4> QED
        BY <4>2, <4>3 DEF Precedes
    <3>7. ASSUME NEW n, NEW m, n # x, m # x, Precedes(s, n, m)
          PROVE  Precedes(rest, n, m)
      <4>1. PICK a \in DOMAIN s, b \in DOMAIN s :
              a <= b /\ s[a] = n /\ s[b] = m
        BY <3>7 DEF Precedes
      <4>2. a # k /\ b # k
        BY <2>2, <3>7, <4>1
      <4> DEFINE To(i) == IF i < k THEN i ELSE i - 1
      <4>3. /\ To(a) \in DOMAIN rest /\ To(b) \in DOMAIN rest /\ To(a) <= To(b)
            /\ rest[To(a)] = n /\ rest[To(b)] = m
        BY <2>1, <2>2, <2>4, <4>1, <4>2
      <4> HIDE DEF To
      <4> QED
        BY <4>3 DEF Precedes
    <3> QED
      BY <3>4, <3>5, <3>6, <3>7
  <2> QED
    BY <2>4, <2>5 DEF rest
<1> QED
  BY <1>1, <1>2

\* A list without repetition is as long as the set of its elements.
LEMMA LengthCounts ==
  ASSUME NEW S, NEW s \in Seq(S), IsInjective(s)
  PROVE  Len(s) = Cardinality(ToSet(s))
<1>1. /\ Len(s) \in Nat /\ DOMAIN s = 1 .. Len(s)
      /\ s \in [1 .. Len(s) -> ToSet(s)]
  BY LenProperties DEF ToSet
<1>2. s \in Bijection(1 .. Len(s), ToSet(s))
  BY <1>1 DEF Bijection, Injection, Surjection, IsInjective, ToSet
<1>3. ExistsBijection(1 .. Len(s), ToSet(s))
  BY <1>2 DEF ExistsBijection
<1> QED
  BY <1>1, <1>3, FS_CountingElements

\* next: the one after it, or the end.
LEMMA NextOne ==
  ASSUME TypeOK, IsInjective(barrier_list), NEW n \in Listed
  PROVE  /\ After(n) \in Listed \cup {NoNode}
         /\ ~Precedes(barrier_list, After(n), n)
         /\ \A m : Precedes(barrier_list, n, m)
              <=> m = n \/ Precedes(barrier_list, After(n), m)
<1> DEFINE s == barrier_list
           Before == {i \in 1 .. Len(s) - 1 : s[i] = n}
<1>1. DOMAIN s = 1 .. Len(s) /\ Len(s) \in Nat /\ \A i \in DOMAIN s : s[i] \in Nodes
  BY DEF TypeOK
<1>2. PICK k \in DOMAIN s : s[k] = n
  BY DEF Listed, ToSet
<1>3. \A i \in DOMAIN s : s[i] = n => i = k
  BY <1>2 DEF IsInjective
<1>4. \A i \in DOMAIN s : s[i] # NoNode
  BY <1>1, RegistryAssumption
<1>5. CASE k = Len(s)
  <2>1. Before = {}
    BY <1>1, <1>3, <1>5
  <2>2. After(n) = NoNode
    BY <2>1 DEF After
  <2>3. \A m : ~Precedes(s, NoNode, m)
    BY <1>4 DEF Precedes
  <2>4. \A m : Precedes(s, n, m) <=> m = n
    BY <1>1, <1>2, <1>3, <1>5 DEF Precedes
  <2> QED
    BY <2>2, <2>3, <2>4
<1>6. CASE k # Len(s)
  <2>1. k \in Before
    BY <1>1, <1>2, <1>6
  <2>2. (CHOOSE i \in Before : TRUE) = k
    BY <1>1, <1>3, <2>1
  <2>3. After(n) = s[1 + k]
    BY <2>1, <2>2 DEF After
  <2>4. 1 + k \in DOMAIN s
    BY <1>1, <1>2, <1>6
  <2>5. \A i \in DOMAIN s : s[i] = s[1 + k] => i = 1 + k
    BY <2>4 DEF IsInjective
  <2>6. s[1 + k] \in Listed
    BY <2>4 DEF Listed, ToSet
  <2>7. ~Precedes(s, s[1 + k], n)
    BY <1>1, <1>3, <2>4, <2>5 DEF Precedes
  <2>8. ASSUME NEW m, Precedes(s, n, m) PROVE m = n \/ Precedes(s, s[1 + k], m)
    <3>1. PICK j \in DOMAIN s : k <= j /\ s[j] = m
      BY <1>3, <2>8 DEF Precedes
    <3>2. j = k \/ 1 + k <= j
      BY <1>1, <3>1
    <3> QED
      BY <1>2, <2>4, <3>1, <3>2 DEF Precedes
  <2>9. ASSUME NEW m, m = n \/ Precedes(s, s[1 + k], m) PROVE Precedes(s, n, m)
    <3>1. CASE m = n
      BY <1>1, <1>2, <3>1 DEF Precedes
    <3>2. CASE Precedes(s, s[1 + k], m)
      <4>1. PICK j \in DOMAIN s : 1 + k <= j /\ s[j] = m
        BY <2>5, <3>2 DEF Precedes
      <4>2. k <= j
        BY <1>1, <4>1
      <4> QED
        BY <1>2, <4>1, <4>2 DEF Precedes
    <3> QED
      BY <2>9, <3>1, <3>2
  <2> QED
    BY <2>3, <2>6, <2>7, <2>8, <2>9
<1> QED
  BY <1>5, <1>6

\* A walk begins before everything that is on the list.
LEMMA FirstOne ==
  ASSUME TypeOK
  PROVE  /\ First \in Listed \cup {NoNode}
         /\ First = NoNode => Listed = {}
         /\ \A m : Precedes(barrier_list, First, m) => m \in Listed
         /\ \A m \in Listed : Precedes(barrier_list, First, m)
<1> DEFINE s == barrier_list
<1>1. DOMAIN s = 1 .. Len(s) /\ Len(s) \in Nat /\ \A i \in DOMAIN s : s[i] \in Nodes
  BY DEF TypeOK
<1>2. CASE s = << >>
  <2>1. First = NoNode /\ Listed = {} /\ DOMAIN s = {}
    BY <1>2 DEF First, Listed, ToSet
  <2> QED
    BY <2>1 DEF Precedes
<1>3. CASE s # << >>
  <2>1. First = s[1]
    BY <1>3 DEF First
  <2>2. 1 \in DOMAIN s
    BY <1>1, <1>3, EmptySeq DEF TypeOK
  <2>3. First \in Listed /\ First # NoNode
    BY <1>1, <2>1, <2>2, RegistryAssumption DEF Listed, ToSet
  <2>4. \A m : Precedes(s, First, m) => m \in Listed
    BY DEF Precedes, Listed, ToSet
  <2>5. ASSUME NEW m \in Listed PROVE Precedes(s, First, m)
    <3>1. PICK j \in DOMAIN s : s[j] = m
      BY DEF Listed, ToSet
    <3>2. 1 <= j
      BY <1>1
    <3> QED
      BY <2>1, <2>2, <3>1, <3>2 DEF Precedes
  <2> QED
    BY <2>3, <2>4, <2>5
<1> QED
  BY <1>2, <1>3

-----------------------------------------------------------------------------
(* Type correctness *)

\* A walk is at a node of the list, or at its end.
LEMMA WalkTyped ==
  ASSUME TypeOK
  PROVE  /\ Listed \subseteq Nodes
         /\ First \in Listed \cup {NoNode}
         /\ \A n : After(n) \in Listed \cup {NoNode}
<1>1. DOMAIN barrier_list = 1 .. Len(barrier_list) /\ Len(barrier_list) \in Nat
  BY DEF TypeOK
<1>2. Listed \subseteq Nodes
  BY <1>1 DEF TypeOK, Listed, ToSet
<1>3. ASSUME NEW n PROVE After(n) \in Listed \cup {NoNode}
  <2> DEFINE Before == {i \in 1 .. Len(barrier_list) - 1 : barrier_list[i] = n}
             k      == CHOOSE i \in Before : TRUE
  <2>1. CASE Before = {}
    BY <2>1 DEF After
  <2>2. CASE Before # {}
    <3>1. k \in Before
      BY <2>2
    <3>2. After(n) = barrier_list[1 + k]
      BY <2>2 DEF After
    <3>3. 1 + k \in DOMAIN barrier_list
      BY <1>1, <3>1
    <3> QED
      BY <3>2, <3>3 DEF Listed, ToSet
  <2> QED
    BY <2>1, <2>2
<1> QED
  BY <1>2, <1>3, FirstOne

LEMMA InitTyped == Init => TypeOK
<1> SUFFICES ASSUME Init PROVE TypeOK
  OBVIOUS
<1>1. << >> \in Seq(Nodes)
  OBVIOUS
<1>2. barrier \in [Nodes -> [live : BOOLEAN, id : Nat,
                            tgid : Processes \cup {NoProcess}]]
  BY DEF Init
<1>3. argument \in [Threads -> 0 .. MaxId]
  BY RegistryAssumption DEF Init
<1>4. Waiters = {} /\ Holders = {}
  BY DEF Init, Waiters, Holders
<1> QED
  BY <1>1, <1>2, <1>3, <1>4 DEF Init, TypeOK

\* A step of barrier_init keeps the types.
LEMMA InitStepTyped ==
  ASSUME TypeOK, NEW t \in Threads,
         \/ CallInit(t) \/ CheckFirst(t) \/ SetFirst(t) \/ InitGlobals(t)
         \/ StartCount(t) \/ CountBarrier(t) \/ EndCount(t)
         \/ LockInit(t) \/ Publish(t) \/ Fill(t)
  PROVE  TypeOK'
<1> USE DEF TypeOK, Waiters, Holders, InInit, InWait, InDestroy, Move,
        globals, locks, memory, locals
<1>1. CASE CallInit(t)      BY <1>1 DEF CallInit
<1>2. CASE CheckFirst(t)    BY <1>2 DEF CheckFirst
<1>3. CASE SetFirst(t)      BY <1>3 DEF SetFirst
<1>4. CASE InitGlobals(t)
  <2>1. << >> \in Seq(Nodes)
    OBVIOUS
  <2> QED
    BY <1>4, <2>1 DEF InitGlobals
<1>5. CASE StartCount(t)
  BY <1>5, WalkTyped DEF StartCount
<1>6. CASE CountBarrier(t)
  <2>1. /\ num_barriers' \in [Threads -> Nat]
        /\ found' \in [Threads -> Nodes \cup {NoNode}]
        /\ pc[t] = "counting" /\ \A s \in Threads : s # t => found'[s] = found[s]
    BY <1>6, WalkTyped DEF CountBarrier
  <2> QED
    BY <1>6, <2>1 DEF CountBarrier
<1>7. CASE EndCount(t)      BY <1>7 DEF EndCount
<1>8. CASE LockInit(t)      BY <1>8 DEF LockInit
<1>9. CASE Publish(t)
  <2>1. PICK n, g :
          /\ n \in Nodes \ Live /\ g \in Garbage \cup {barrier[n].tgid}
          /\ barrier' = [barrier EXCEPT ![n] =
               [live |-> TRUE, id |-> num_barriers[t] + 1, tgid |-> g]]
          /\ barrier_list' = <<n>> \o barrier_list
          /\ found' = [found EXCEPT ![t] = n]
    BY <1>9 DEF Publish
  <2>2. barrier_list' \in Seq(Nodes)
    BY <2>1, Added
  <2>3. g \in Processes \cup {NoProcess}
    BY <2>1, RegistryAssumption
  <2> QED
    BY <1>9, <2>1, <2>2, <2>3 DEF Publish
<1>10. CASE Fill(t)
  <2>1. Process[t] \in Processes
    BY RegistryAssumption
  <2>2. found[t] \in Nodes
    BY <1>10 DEF Fill
  <2> QED
    BY <1>10, <2>1, <2>2 DEF Fill
<1> QED
  BY <1>1, <1>2, <1>3, <1>4, <1>5, <1>6, <1>7, <1>8, <1>9, <1>10

\* So does one of barrier_wait.
LEMMA WaitStepTyped ==
  ASSUME TypeOK, NEW t \in Threads,
         \/ \E id \in 1 .. MaxId : CallWait(t, id)
         \/ LockWait(t) \/ WaitFinds(t) \/ WaitRefused(t)
         \/ SleepOnQueue(t) \/ LeaveBarrier(t)
  PROVE  TypeOK'
<1> USE DEF TypeOK, Waiters, Holders, InInit, InWait, InDestroy, Move,
        globals, locks, memory, locals
<1>1. CASE \E id \in 1 .. MaxId : CallWait(t, id)
  BY <1>1, RegistryAssumption DEF CallWait
<1>2. CASE LockWait(t)      BY <1>2, WalkTyped DEF LockWait
<1>3. CASE WaitFinds(t)     BY <1>3 DEF WaitFinds
<1>4. CASE WaitRefused(t)   BY <1>4 DEF WaitRefused
<1>5. CASE SleepOnQueue(t)  BY <1>5 DEF SleepOnQueue
<1>6. CASE LeaveBarrier(t)  BY <1>6 DEF LeaveBarrier
<1> QED
  BY <1>1, <1>2, <1>3, <1>4, <1>5, <1>6

\* So does one of barrier_destroy, of a walk, or a fault.
LEMMA DestroyStepTyped ==
  ASSUME TypeOK, NEW t \in Threads,
         \/ \E id \in 1 .. MaxId : CallDestroy(t, id)
         \/ LockDestroy(t) \/ DestroyFinds(t) \/ DestroyRefused(t)
         \/ TestBusy(t) \/ Free(t) \/ WalkOn(t) \/ Stray(t)
         \/ \E from \in {"count", "lock_wait", "lock_destroy"} : Oops(t, from)
  PROVE  TypeOK'
<1> USE DEF TypeOK, Waiters, Holders, InInit, InWait, InDestroy, Move,
        globals, locks, memory, locals
<1>1. CASE \E id \in 1 .. MaxId : CallDestroy(t, id)
  BY <1>1, RegistryAssumption DEF CallDestroy
<1>2. CASE LockDestroy(t)    BY <1>2, WalkTyped DEF LockDestroy
<1>3. CASE DestroyFinds(t)   BY <1>3 DEF DestroyFinds
<1>4. CASE DestroyRefused(t) BY <1>4 DEF DestroyRefused
<1>5. CASE TestBusy(t)       BY <1>5 DEF TestBusy
<1>6. CASE Free(t)
  <2>1. barrier_list' \in Seq(Nodes)
    BY <1>6, Removed DEF Free
  <2> QED
    BY <1>6, <2>1 DEF Free
<1>7. CASE WalkOn(t)
  <2>1. /\ found' \in [Threads -> Nodes \cup {NoNode}]
        /\ pc[t] \in {"lookup", "find"} /\ pc' = pc
        /\ \A s \in Threads : s # t => found'[s] = found[s]
    BY <1>7, WalkTyped DEF WalkOn
  <2> QED
    BY <1>7, <2>1 DEF WalkOn
<1>8. CASE Stray(t)          BY <1>8 DEF Stray, Walkers
<1>9. CASE \E from \in {"count", "lock_wait", "lock_destroy"} : Oops(t, from)
  BY <1>9 DEF Oops
<1> QED
  BY <1>1, <1>2, <1>3, <1>4, <1>5, <1>6, <1>7, <1>8, <1>9

LEMMA NextTyped == TypeOK /\ [Next]_vars => TypeOK'
<1> SUFFICES ASSUME TypeOK, [Next]_vars PROVE TypeOK'
  OBVIOUS
<1>1. ASSUME NEW n \in Nodes, WakeAll(n) PROVE TypeOK'
  <2> DEFINE sleepers == {t \in asleep : found[t] = n}
  <2>1. /\ pc' = [t \in Threads |-> IF t \in sleepers THEN "woken" ELSE pc[t]]
        /\ asleep' = asleep \ sleepers
        /\ UNCHANGED <<globals, locks, memory, locals, phase>>
    BY <1>1 DEF WakeAll
  <2>2. \A t \in sleepers : found[t] = n
    OBVIOUS
  <2> HIDE DEF sleepers
  <2>3. \A t \in Threads :
          pc'[t] = pc[t] \/ (pc'[t] = "woken" /\ found[t] = n)
    BY <2>1, <2>2
  <2>4. pc' \in [Threads -> {"out", "oops", "astray"}
                            \cup InInit \cup InWait \cup InDestroy]
    BY <2>1 DEF TypeOK, InWait
  <2>5. /\ \A t \in Waiters' : found'[t] \in Nodes
        /\ \A t \in Holders' : pc'[t] # "find" => found'[t] \in Nodes
    BY <2>1, <2>3 DEF TypeOK, Waiters, Holders, locals
  <2> QED
    BY <2>1, <2>4, <2>5 DEF TypeOK, globals, locks, memory, locals
<1>2. ASSUME NEW p \in Processes, NextPhase(p) PROVE TypeOK'
  BY <1>2 DEF NextPhase, TypeOK, Waiters, Holders, globals, locks, memory, locals
<1>3. CASE UNCHANGED vars
  BY <1>3 DEF vars, TypeOK, Waiters, Holders
<1> QED
  BY <1>1, <1>2, <1>3, InitStepTyped, WaitStepTyped, DestroyStepTyped
     DEF Next, Inside

\* Every variable keeps its type, and a thread that is to use a barrier has
\* found one.
THEOREM RegistryTypeCorrect == Spec => []TypeOK
BY InitTyped, NextTyped, PTL DEF Spec

-----------------------------------------------------------------------------
(* The inductive invariant, in parts *)

\* Before the list is initialised there is nothing, and one thread at most is
\* in a call; afterwards nobody initialises it again or finds it missing.
BootInv ==
  /\ ~ready =>
       /\ barrier_list = << >> /\ Live = {} /\ returned = {}
       /\ \A t \in Threads : pc[t] \in {"out", "oops", "check", "flag", "head",
                                        "lock_wait", "lock_destroy"}
       /\ \A s, t \in Threads : pc[s] # "out" /\ pc[t] # "out" => s = t
       /\ first_flag = 1 <=> \E t \in Threads : pc[t] = "head"
  /\ ready =>
       /\ first_flag = 1
       /\ \A t \in Threads : pc[t] \notin {"flag", "head", "oops"}

\* init_dest_lock excludes, and the wait queues hold who is asleep.
LockInv ==
  /\ \A t \in Threads :
       pc[t] \in {"publish", "fill", "find", "test", "free"}
         <=> init_dest_lock = t
  /\ \A t \in asleep : pc[t] = "asleep"

\* The list and the memory agree, and so does a call that has the mutex: that
\* is why barrier_destroy walks safely.
ListInv ==
  /\ IsInjective(barrier_list)
  /\ Listed = Live
  /\ \A t \in Threads :
       /\ pc[t] \in {"fill", "test", "free"} => found[t] \in Live
       /\ pc[t] = "find" => found[t] \in Live \cup {NoNode}

CoreInv == TypeOK /\ BootInv /\ LockInv /\ ListInv

LEMMA InitCore == Init => CoreInv
<1> SUFFICES ASSUME Init PROVE CoreInv
  OBVIOUS
<1>1. TypeOK
  BY InitTyped
<1>2. Live = {} /\ Listed = {} /\ barrier_list = << >>
  BY DEF Init, Live, Listed, ToSet
<1>3. BootInv
  BY <1>2 DEF Init, BootInv
<1>4. LockInv
  BY RegistryAssumption DEF Init, LockInv
<1>5. ListInv
  BY <1>2 DEF Init, ListInv, IsInjective
<1> QED
  BY <1>1, <1>3, <1>4, <1>5 DEF CoreInv

\* Only the first barrier_init initialises, and nobody is inside with it.
LEMMA BootStep ==
  ASSUME FirstAlone, TypeOK, BootInv, LockInv, [Next]_vars
  PROVE  BootInv'
<1> USE DEF TypeOK, BootInv, Live, Move, globals, locks, memory, locals
<1>1. ASSUME NEW t \in Threads,
             \/ CallInit(t)
             \/ \E id \in 1 .. MaxId : CallWait(t, id) \/ CallDestroy(t, id)
      PROVE  BootInv'
  BY <1>1 DEF CallInit, CallWait, CallDestroy, MayCall
<1>2. ASSUME NEW t \in Threads, CheckFirst(t) PROVE BootInv'
  <2>1. CASE ready
    <3>1. pc' = [pc EXCEPT ![t] = "count"]
      BY <1>2, <2>1 DEF CheckFirst
    <3> QED
      BY <1>2, <2>1, <3>1 DEF CheckFirst
  <2>2. CASE ~ready
    <3>1. first_flag = 0
      BY <1>2, <2>2 DEF CheckFirst
    <3>2. pc' = [pc EXCEPT ![t] = "flag"]
      BY <1>2, <3>1 DEF CheckFirst
    <3> QED
      BY <1>2, <2>2, <3>1, <3>2 DEF CheckFirst
  <2> QED
    BY <2>1, <2>2
<1>3. ASSUME NEW t \in Threads, SetFirst(t) PROVE BootInv'
  BY <1>3 DEF SetFirst
<1>4. ASSUME NEW t \in Threads, InitGlobals(t) PROVE BootInv'
  <2>1. /\ pc[t] = "head" /\ ready' = TRUE /\ first_flag' = first_flag
        /\ pc' = [pc EXCEPT ![t] = "count"]
    BY <1>4 DEF InitGlobals
  <2>2. ~ready
    BY <2>1
  <2>3. \A s \in Threads : s # t => pc[s] = "out"
    BY <2>1, <2>2
  <2>4. first_flag = 1
    BY <2>1, <2>2
  <2>5. pc'[t] = "count" /\ \A s \in Threads : s # t => pc'[s] = "out"
    BY <2>1, <2>3
  <2>6. \A s \in Threads : pc'[s] \notin {"flag", "head", "oops"}
    BY <2>5
  <2> QED
    BY <2>1, <2>4, <2>6
<1>5. ASSUME NEW t \in Threads, StartCount(t) \/ CountBarrier(t) \/ EndCount(t)
      PROVE  BootInv'
  BY <1>5 DEF StartCount, CountBarrier, EndCount
<1>6. ASSUME NEW t \in Threads, LockInit(t) PROVE BootInv'
  BY <1>6 DEF LockInit
<1>7. ASSUME NEW t \in Threads, Publish(t) PROVE BootInv'
  BY <1>7 DEF Publish
<1>8. ASSUME NEW t \in Threads, Fill(t) PROVE BootInv'
  BY <1>8 DEF Fill
<1>9. ASSUME NEW t \in Threads,
             \/ LockWait(t) \/ WaitFinds(t) \/ WaitRefused(t)
             \/ SleepOnQueue(t) \/ LeaveBarrier(t)
      PROVE  BootInv'
  BY <1>9 DEF LockWait, WaitFinds, WaitRefused, SleepOnQueue, LeaveBarrier
<1>10. ASSUME NEW t \in Threads,
              \/ LockDestroy(t) \/ DestroyFinds(t) \/ DestroyRefused(t)
              \/ TestBusy(t)
       PROVE  BootInv'
  BY <1>10 DEF LockDestroy, DestroyFinds, DestroyRefused, TestBusy
<1>11. ASSUME NEW t \in Threads, Free(t) PROVE BootInv'
  BY <1>11 DEF Free
<1>12. ASSUME NEW t \in Threads, WalkOn(t) PROVE BootInv'
  BY <1>12 DEF WalkOn
<1>13. ASSUME NEW t \in Threads, Stray(t) PROVE BootInv'
  <2>1. ready /\ pc' = [pc EXCEPT ![t] = "astray"]
    BY <1>13 DEF Stray, Walkers
  <2> QED
    BY <1>13, <2>1 DEF Stray
<1>14. ASSUME NEW t \in Threads,
              \E from \in {"count", "lock_wait", "lock_destroy"} : Oops(t, from)
       PROVE  BootInv'
  BY <1>14 DEF Oops
<1>15. ASSUME NEW n \in Nodes, WakeAll(n) PROVE BootInv'
  BY <1>15 DEF WakeAll, LockInv
<1>16. ASSUME NEW p \in Processes, NextPhase(p) PROVE BootInv'
  BY <1>16 DEF NextPhase
<1>17. CASE UNCHANGED vars
  BY <1>17 DEF vars
<1> QED
  BY <1>1, <1>2, <1>3, <1>4, <1>5, <1>6, <1>7, <1>8, <1>9, <1>10, <1>11,
     <1>12, <1>13, <1>14, <1>15, <1>16, <1>17 DEF Next, Inside

Locking == {"publish", "fill", "find", "test", "free"}

\* What the moves of one thread do to the mutex.
LEMMA LockMoves ==
  ASSUME TypeOK, LockInv, NEW t \in Threads, NEW from, NEW to,
         Move(t, from, to), from # "asleep", asleep' = asleep,
         \/ /\ from \in Locking <=> to \in Locking
            /\ init_dest_lock' = init_dest_lock
         \/ from \notin Locking /\ to \in Locking /\ init_dest_lock = NoThread
              /\ init_dest_lock' = t
         \/ from \in Locking /\ to \notin Locking /\ init_dest_lock' = NoThread
  PROVE  LockInv'
<1>1. /\ pc[t] = from /\ pc'[t] = to
      /\ \A s \in Threads : s # t => pc'[s] = pc[s]
  BY DEF Move, TypeOK
<1>2. \A s \in asleep' : pc'[s] = "asleep"
  BY <1>1 DEF LockInv, TypeOK
<1>3. \A s \in Threads : pc[s] \in Locking <=> init_dest_lock = s
  BY DEF LockInv, Locking
<1>4. \A s \in Threads : pc'[s] \in Locking <=> init_dest_lock' = s
  BY <1>1, <1>3, RegistryAssumption
<1> QED
  BY <1>2, <1>4 DEF LockInv, Locking

\* A thread takes the mutex when it is free and releases it as it leaves; only
\* a walk without it goes astray.
LEMMA LockStep ==
  ASSUME TypeOK, BootInv, LockInv, ListInv, [Next]_vars
  PROVE  LockInv'
<1> USE DEF Locking, globals, locks, memory, locals
<1>1. ASSUME NEW t \in Threads,
             \/ CallInit(t)
             \/ \E id \in 1 .. MaxId : CallWait(t, id) \/ CallDestroy(t, id)
             \/ CheckFirst(t) \/ SetFirst(t) \/ StartCount(t) \/ EndCount(t)
      PROVE  LockInv'
  <2>1. /\ \/ \E to \in {"check", "lock_wait", "lock_destroy"} : Move(t, "out", to)
           \/ \E to \in {"flag", "count"} : Move(t, "check", to)
           \/ Move(t, "flag", "head")
           \/ Move(t, "count", "counting")
           \/ Move(t, "counting", "lock_init")
        /\ init_dest_lock' = init_dest_lock /\ asleep' = asleep
    BY <1>1 DEF CallInit, CallWait, CallDestroy, CheckFirst, SetFirst,
         StartCount, EndCount
  <2> QED
    BY <2>1, LockMoves
<1>2. ASSUME NEW t \in Threads, InitGlobals(t) PROVE LockInv'
  <2>1. Move(t, "head", "count") /\ init_dest_lock' = NoThread /\ asleep' = asleep
    BY <1>2 DEF InitGlobals
  <2>2. ~ready
    BY <2>1 DEF BootInv, Move
  <2>3. init_dest_lock = NoThread
    <3>1. \A s \in Threads : pc[s] \notin Locking
      BY <2>2 DEF BootInv
    <3> QED
      BY <3>1 DEF LockInv, TypeOK
  <2> QED
    BY <2>1, <2>3, LockMoves
<1>3. ASSUME NEW t \in Threads, LockInit(t) \/ LockDestroy(t) PROVE LockInv'
  <2>1. /\ \/ Move(t, "lock_init", "publish") \/ Move(t, "lock_destroy", "find")
        /\ init_dest_lock = NoThread /\ init_dest_lock' = t /\ asleep' = asleep
    BY <1>3 DEF LockInit, LockDestroy
  <2> QED
    BY <2>1, LockMoves
<1>4. ASSUME NEW t \in Threads, Publish(t) PROVE LockInv'
  <2>1. /\ Move(t, "publish", "fill")
        /\ init_dest_lock' = init_dest_lock /\ asleep' = asleep
    BY <1>4 DEF Publish
  <2> QED
    BY <2>1, LockMoves
<1>5. ASSUME NEW t \in Threads, Fill(t) \/ Free(t) PROVE LockInv'
  <2>1. /\ Move(t, "fill", "out") \/ Move(t, "free", "out")
        /\ init_dest_lock' = NoThread /\ asleep' = asleep
    BY <1>5 DEF Fill, Free
  <2> QED
    BY <2>1, LockMoves
<1>6. ASSUME NEW t \in Threads, DestroyFinds(t) \/ DestroyRefused(t) \/ TestBusy(t)
      PROVE  LockInv'
  <2>1. /\ \/ /\ Move(t, "find", "test") \/ Move(t, "test", "free")
              /\ init_dest_lock' = init_dest_lock
           \/ /\ Move(t, "find", "out") \/ Move(t, "test", "out")
              /\ init_dest_lock' = NoThread
        /\ asleep' = asleep
    BY <1>6 DEF DestroyFinds, DestroyRefused, TestBusy
  <2> QED
    BY <2>1, LockMoves
<1>7. ASSUME NEW t \in Threads,
             \/ LockWait(t) \/ WaitFinds(t) \/ WaitRefused(t) \/ LeaveBarrier(t)
             \/ \E from \in {"count", "lock_wait", "lock_destroy"} : Oops(t, from)
      PROVE  LockInv'
  <2>1. /\ \/ Move(t, "lock_wait", "lookup")
           \/ \E to \in {"gate", "out"} : Move(t, "lookup", to)
           \/ Move(t, "gate", "out") \/ Move(t, "woken", "out")
           \/ \E from \in {"count", "lock_wait", "lock_destroy"} :
                Move(t, from, "oops")
        /\ init_dest_lock' = init_dest_lock /\ asleep' = asleep
    BY <1>7 DEF LockWait, WaitFinds, WaitRefused, LeaveBarrier, Oops
  <2> QED
    BY <2>1, LockMoves
<1>8. ASSUME NEW t \in Threads, SleepOnQueue(t) PROVE LockInv'
  BY <1>8 DEF SleepOnQueue, LockInv, Move, TypeOK
<1>9. ASSUME NEW t \in Threads, WalkOn(t) \/ CountBarrier(t) PROVE LockInv'
  BY <1>9 DEF WalkOn, CountBarrier, LockInv
<1>10. ASSUME NEW t \in Threads, Stray(t) PROVE LockInv'
  <2>1. pc[t] \in {"counting", "lookup", "find"} /\ found[t] \in Nodes \ Live
        /\ Move(t, pc[t], "astray")
        /\ init_dest_lock' = init_dest_lock /\ asleep' = asleep
    BY <1>10 DEF Stray, Walkers
  <2>2. pc[t] # "find"
    BY <2>1, RegistryAssumption DEF ListInv
  <2> QED
    BY <2>1, <2>2, LockMoves
<1>11. ASSUME NEW n \in Nodes, WakeAll(n) PROVE LockInv'
  BY <1>11 DEF WakeAll, LockInv, TypeOK
<1>12. ASSUME NEW p \in Processes, NextPhase(p) PROVE LockInv'
  BY <1>12 DEF NextPhase, LockInv
<1>13. CASE UNCHANGED vars
  BY <1>13 DEF vars, LockInv
<1> QED
  BY <1>1, <1>2, <1>3, <1>4, <1>5, <1>6, <1>7, <1>8, <1>9, <1>10, <1>11,
     <1>12, <1>13 DEF Next, Inside

\* A step that leaves the list and the memory alone, and whose thread moves on
\* with a barrier that is live.
LEMMA ListKept ==
  ASSUME TypeOK, ListInv, NEW t \in Threads,
         UNCHANGED <<barrier_list, barrier>>,
         \A s \in Threads : s # t => pc'[s] = pc[s] /\ found'[s] = found[s],
         pc'[t] \in {"fill", "test", "free"} => found'[t] \in Live,
         pc'[t] = "find" => found'[t] \in Live \cup {NoNode}
  PROVE  ListInv'
<1>1. Live' = Live /\ Listed' = Listed
  BY DEF Live, Listed
<1> QED
  BY <1>1 DEF ListInv

\* list_add and list_del do what kmalloc and kfree do, as their mutex makes
\* sure, and the list is initialised while it is empty.
LEMMA ListStep ==
  ASSUME TypeOK, BootInv, LockInv, ListInv, [Next]_vars
  PROVE  ListInv'
<1> USE DEF globals, locks, memory, locals
<1> DEFINE Locked == {"fill", "find", "test", "free"}
<1>1. ASSUME NEW t \in Threads,
             \/ CallInit(t)
             \/ \E id \in 1 .. MaxId : CallWait(t, id) \/ CallDestroy(t, id)
             \/ CheckFirst(t) \/ SetFirst(t) \/ StartCount(t) \/ EndCount(t)
             \/ LockInit(t) \/ LockWait(t) \/ WaitFinds(t) \/ WaitRefused(t)
             \/ SleepOnQueue(t) \/ LeaveBarrier(t) \/ DestroyRefused(t)
             \/ Stray(t)
             \/ \E from \in {"count", "lock_wait", "lock_destroy"} : Oops(t, from)
      PROVE  ListInv'
  <2>1. /\ \E from, to : to \notin Locked /\ Move(t, from, to)
        /\ UNCHANGED <<barrier_list, barrier>>
        /\ \A s \in Threads : s # t => found'[s] = found[s]
    BY <1>1 DEF CallInit, CallWait, CallDestroy, CheckFirst, SetFirst,
         StartCount, EndCount, LockInit, LockWait, WaitFinds, WaitRefused,
         SleepOnQueue, LeaveBarrier, DestroyRefused, Stray, Oops, TypeOK
  <2>2. pc'[t] \notin Locked /\ \A s \in Threads : s # t => pc'[s] = pc[s]
    BY <2>1 DEF Move, TypeOK
  <2> QED
    BY <2>1, <2>2, ListKept
<1>2. ASSUME NEW t \in Threads, InitGlobals(t) PROVE ListInv'
  <2>1. /\ Move(t, "head", "count") /\ barrier_list' = << >>
        /\ UNCHANGED <<barrier, found>>
    BY <1>2 DEF InitGlobals
  <2>2. barrier_list = << >>
    BY <2>1 DEF BootInv, Move
  <2>3. pc'[t] = "count" /\ \A s \in Threads : s # t => pc'[s] = pc[s]
    BY <2>1 DEF Move, TypeOK
  <2> QED
    BY <2>1, <2>2, <2>3, ListKept
<1>3. ASSUME NEW t \in Threads, Publish(t) PROVE ListInv'
  <2>1. PICK n, g :
          /\ n \in Nodes \ Live /\ g \in Garbage \cup {barrier[n].tgid}
          /\ barrier' = [barrier EXCEPT ![n] =
               [live |-> TRUE, id |-> num_barriers[t] + 1, tgid |-> g]]
          /\ barrier_list' = <<n>> \o barrier_list
          /\ found' = [found EXCEPT ![t] = n]
    BY <1>3 DEF Publish
  <2>2. Live' = Live \cup {n}
    BY <2>1 DEF Live, TypeOK
  <2>3. Listed' = Listed \cup {n} /\ IsInjective(barrier_list')
    <3>1. barrier_list \in Seq(Nodes) /\ n \notin ToSet(barrier_list)
          /\ IsInjective(barrier_list)
      BY <2>1 DEF TypeOK, ListInv, Listed
    <3> QED
      BY <2>1, <3>1, Added DEF Listed
  <2>4. /\ pc'[t] = "fill"
        /\ \A s \in Threads : s # t => pc'[s] = pc[s]
    BY <1>3 DEF Publish, Move, TypeOK
  <2>5. \A s \in Threads : found'[s] = IF s = t THEN n ELSE found[s]
    BY <2>1 DEF TypeOK
  <2> QED
    BY <2>2, <2>3, <2>4, <2>5 DEF ListInv
<1>4. ASSUME NEW t \in Threads, Fill(t) PROVE ListInv'
  <2>1. /\ Move(t, "fill", "out") /\ barrier_list' = barrier_list
        /\ barrier' = [barrier EXCEPT ![found[t]].tgid = Process[t]]
        /\ found' = [found EXCEPT ![t] = NoNode]
    BY <1>4 DEF Fill
  <2>2. Live' = Live /\ Listed' = Listed
    BY <2>1 DEF Live, Listed, TypeOK
  <2>3. \A s \in Threads : pc'[s] \in Locked =>
          s # t /\ pc'[s] = pc[s] /\ found'[s] = found[s]
    BY <2>1 DEF Move, TypeOK
  <2> QED
    BY <2>1, <2>2, <2>3 DEF ListInv
<1>5. ASSUME NEW t \in Threads, LockDestroy(t) PROVE ListInv'
  <2>1. /\ Move(t, "lock_destroy", "find") /\ UNCHANGED <<barrier_list, barrier>>
        /\ found' = [found EXCEPT ![t] = First]
    BY <1>5 DEF LockDestroy
  <2>2. First \in Live \cup {NoNode}
    BY WalkTyped DEF ListInv
  <2>3. /\ pc'[t] = "find" /\ found'[t] = First
        /\ \A s \in Threads : s # t => pc'[s] = pc[s] /\ found'[s] = found[s]
    BY <2>1 DEF Move, TypeOK
  <2> QED
    BY <2>1, <2>2, <2>3, ListKept
<1>6. ASSUME NEW t \in Threads, WalkOn(t) PROVE ListInv'
  <2>1. /\ pc' = pc /\ UNCHANGED <<barrier_list, barrier>>
        /\ pc[t] \in {"lookup", "find"}
        /\ found' = [found EXCEPT ![t] = After(found[t])]
    BY <1>6 DEF WalkOn
  <2>2. After(found[t]) \in Live \cup {NoNode}
    BY WalkTyped DEF ListInv
  <2>3. /\ found'[t] = After(found[t])
        /\ \A s \in Threads : s # t => found'[s] = found[s]
    BY <2>1 DEF TypeOK
  <2> QED
    BY <2>1, <2>2, <2>3, ListKept
<1>7. ASSUME NEW t \in Threads, CountBarrier(t) PROVE ListInv'
  <2>1. /\ pc' = pc /\ UNCHANGED <<barrier_list, barrier>>
        /\ pc[t] = "counting"
        /\ \A s \in Threads : s # t => found'[s] = found[s]
    BY <1>7 DEF CountBarrier, TypeOK
  <2> QED
    BY <2>1, ListKept
<1>8. ASSUME NEW t \in Threads, DestroyFinds(t) PROVE ListInv'
  <2>1. /\ Move(t, "find", "test") /\ UNCHANGED <<barrier_list, barrier, found>>
        /\ found[t] # NoNode
    BY <1>8 DEF DestroyFinds
  <2>2. found'[t] \in Live /\ pc'[t] = "test"
        /\ \A s \in Threads : s # t => pc'[s] = pc[s]
    BY <2>1 DEF Move, TypeOK, ListInv
  <2> QED
    BY <2>1, <2>2, ListKept
<1>9. ASSUME NEW t \in Threads, TestBusy(t) PROVE ListInv'
  <2>1. CASE Move(t, "test", "free") /\ found' = found
    <3>1. /\ UNCHANGED <<barrier_list, barrier>> /\ found'[t] \in Live
          /\ pc'[t] = "free" /\ \A s \in Threads : s # t => pc'[s] = pc[s]
      BY <1>9, <2>1 DEF TestBusy, ListInv, Move, TypeOK
    <3> QED
      BY <2>1, <3>1, ListKept
  <2>2. CASE Move(t, "test", "out") /\ found' = [found EXCEPT ![t] = NoNode]
    <3>1. /\ UNCHANGED <<barrier_list, barrier>> /\ pc'[t] = "out"
          /\ \A s \in Threads : s # t => pc'[s] = pc[s] /\ found'[s] = found[s]
      BY <1>9, <2>2 DEF TestBusy, Move, TypeOK
    <3> QED
      BY <3>1, ListKept
  <2> QED
    BY <1>9, <2>1, <2>2 DEF TestBusy
<1>10. ASSUME NEW t \in Threads, Free(t) PROVE ListInv'
  <2>1. /\ Move(t, "free", "out")
        /\ barrier_list' = RemoveFirst(barrier_list, found[t])
        /\ barrier' = [barrier EXCEPT ![found[t]].live = FALSE]
        /\ found' = [found EXCEPT ![t] = NoNode]
    BY <1>10 DEF Free
  <2>2. Live' = Live \ {found[t]}
    BY <2>1 DEF Live, TypeOK
  <2>3. Listed' = Listed \ {found[t]} /\ IsInjective(barrier_list')
    <3>1. barrier_list \in Seq(Nodes) /\ IsInjective(barrier_list)
      BY DEF TypeOK, ListInv
    <3> QED
      BY <2>1, <3>1, Removed DEF Listed
  <2>4. \A s \in Threads : pc'[s] \notin Locked
    BY <2>1 DEF LockInv, Move, TypeOK
  <2> QED
    BY <2>2, <2>3, <2>4 DEF ListInv
<1>11. ASSUME NEW n \in Nodes, WakeAll(n) PROVE ListInv'
  BY <1>11 DEF WakeAll, ListInv, Live, Listed, TypeOK
<1>12. ASSUME NEW p \in Processes, NextPhase(p) PROVE ListInv'
  BY <1>12 DEF NextPhase, ListInv, Live, Listed
<1>13. CASE UNCHANGED vars
  BY <1>13 DEF vars, ListInv, Live, Listed
<1> QED
  BY <1>1, <1>2, <1>3, <1>4, <1>5, <1>6, <1>7, <1>8, <1>9, <1>10, <1>11,
     <1>12, <1>13 DEF Next, Inside

LEMMA CoreInvariance ==
  ASSUME FirstAlone
  PROVE  Spec => []CoreInv
<1>1. CoreInv /\ [Next]_vars => CoreInv'
  BY NextTyped, BootStep, LockStep, ListStep DEF CoreInv
<1> QED
  BY InitCore, <1>1, PTL DEF Spec

\* When the first barrier_init runs alone, every barrier alive is on the list
\* exactly once, and nothing that was freed is.
THEOREM LiveBarriersAreListed ==
  ASSUME FirstAlone
  PROVE  Spec => []LiveBarriersListed
<1>1. CoreInv => LiveBarriersListed
  BY LengthCounts DEF CoreInv, TypeOK, ListInv, LiveBarriersListed, Listed
<1> QED
  BY CoreInvariance, <1>1, PTL

\* Then a call that holds init_dest_lock never uses a barrier that was freed,
\* whatever the other calls walk over without it.
THEOREM LockedCallsAreSafe ==
  ASSUME FirstAlone
  PROVE  Spec => []LockedUseIsSafe
<1>1. CoreInv => LockedUseIsSafe
  BY DEF CoreInv, ListInv, LockedUseIsSafe, Users, Holders
<1> QED
  BY CoreInvariance, <1>1, PTL

-----------------------------------------------------------------------------
(* Lookups in the program of user.c *)

\* Programs in the phases of user.c, in memory that names no process unless
\* it was a barrier before.
UserProgram == FirstAlone /\ Program = "user" /\ Garbage \cap Processes = {}

\* Only the main thread makes and destroys the barriers of a process, first
\* the one and at the end the other, when no thread waits any more.
MainInv ==
  \A t \in Threads :
    /\ pc[t] \in InInit =>
         t = Main[Process[t]] /\ phase[Process[t]] = "start"
    /\ pc[t] \in InWait => phase[Process[t]] # "ended"
    /\ pc[t] \in InDestroy => phase[Process[t]] = "ended"

Stale(n) == barrier[n].tgid = NoProcess \/ phase[barrier[n].tgid] = "ended"

\* Memory that is no barrier yet, or no longer, may still name the process
\* that had it: but that one has ended and looks for nothing. So what a lookup
\* finds was returned to the process that looks.
OwnerInv ==
  /\ returned \subseteq Live
  /\ \A n \in Live \ returned : \E t \in Threads : pc[t] = "fill" /\ found[t] = n
  /\ \A n \in Nodes \ returned : Stale(n)
  /\ \A n \in returned : barrier[n].tgid \in Processes
  /\ \A t \in Threads :
       /\ pc[t] = "fill" => found[t] \notin returned
       /\ pc[t] \in {"test", "free"} =>
            found[t] \in returned /\ barrier[found[t]].tgid = Process[t]
  /\ WaitsAtOwnBarrier

LEMMA MainStep ==
  ASSUME UserProgram, TypeOK, LockInv, MainInv, [Next]_vars
  PROVE  MainInv'
<1> USE DEF MainInv, TypeOK, Move, globals, locks, memory, locals
<1>1. ASSUME NEW t \in Threads, CallInit(t) PROVE MainInv'
  BY <1>1 DEF CallInit, MayInit, UserProgram, InInit, InWait, InDestroy
<1>2. ASSUME NEW t \in Threads, NEW id \in 1 .. MaxId, CallWait(t, id)
      PROVE  MainInv'
  BY <1>2 DEF CallWait, MayWait, UserProgram, InInit, InWait, InDestroy
<1>3. ASSUME NEW t \in Threads, NEW id \in 1 .. MaxId, CallDestroy(t, id)
      PROVE  MainInv'
  BY <1>3 DEF CallDestroy, MayDestroy, UserProgram, InInit, InWait, InDestroy
<1>4. ASSUME NEW t \in Threads, Inside(t) PROVE MainInv'
  <2>1. /\ phase' = phase
        /\ \A s \in Threads : s # t => pc'[s] = pc[s]
    BY <1>4 DEF Inside, CheckFirst, SetFirst, InitGlobals, StartCount,
         CountBarrier, EndCount, LockInit, Publish, Fill, LockWait, WaitFinds,
         WaitRefused, SleepOnQueue, LeaveBarrier, LockDestroy, DestroyFinds,
         DestroyRefused, TestBusy, Free, WalkOn, Stray, Oops
  <2>2. /\ pc'[t] \in InInit => pc[t] \in InInit
        /\ pc'[t] \in InWait => pc[t] \in InWait
        /\ pc'[t] \in InDestroy => pc[t] \in InDestroy
    BY <1>4 DEF Inside, CheckFirst, SetFirst, InitGlobals, StartCount,
         CountBarrier, EndCount, LockInit, Publish, Fill, LockWait, WaitFinds,
         WaitRefused, SleepOnQueue, LeaveBarrier, LockDestroy, DestroyFinds,
         DestroyRefused, TestBusy, Free, WalkOn, Stray, Oops, InInit, InWait,
         InDestroy
  <2> QED
    BY <2>1, <2>2
<1>5. ASSUME NEW n \in Nodes, WakeAll(n) PROVE MainInv'
  BY <1>5 DEF WakeAll, LockInv, InInit, InWait, InDestroy
<1>6. ASSUME NEW p \in Processes, NextPhase(p) PROVE MainInv'
  <2>1. \A t \in Threads : pc[t] \in InInit => Process[t] # p
    BY <1>6 DEF NextPhase, InInit
  <2>2. /\ pc' = pc /\ \A q \in Processes : q # p => phase'[q] = phase[q]
        /\ phase'[p] = "run" => phase[p] = "start"
        /\ phase[p] # "ended"
        /\ phase'[p] = "ended" => \A t \in Threads : Process[t] = p => pc[t] \notin InWait
    BY <1>6 DEF NextPhase, Waiting, Team
  <2> QED
    BY <2>1, <2>2, RegistryAssumption
<1>7. CASE UNCHANGED vars
  BY <1>7 DEF vars
<1> QED
  BY <1>1, <1>2, <1>3, <1>4, <1>5, <1>6, <1>7 DEF Next

AtBarrier == {"gate", "asleep", "woken"}

\* A step that leaves the memory alone, and whose thread moves on with a
\* barrier of its own.
LEMMA OwnerKept ==
  ASSUME TypeOK, OwnerInv, NEW t \in Threads,
         UNCHANGED <<barrier, returned, phase>>,
         \A s \in Threads : s # t => /\ pc'[s] = pc[s]
                                     /\ found'[s] = found[s]
                                     /\ argument'[s] = argument[s],
         pc[t] # "fill" /\ pc'[t] # "fill",
         pc'[t] \in {"test", "free"} \cup AtBarrier =>
           found'[t] \in returned /\ barrier[found'[t]].tgid = Process[t],
         pc'[t] \in AtBarrier => barrier[found'[t]].id = argument'[t]
  PROVE  OwnerInv'
<1>1. Live' = Live /\ \A n : Stale(n)' <=> Stale(n)
  BY DEF Live, Stale
<1>2. WaitsAtOwnBarrier'
  BY DEF OwnerInv, WaitsAtOwnBarrier, Waiters, AtBarrier
<1>3. \A n \in Live \ returned : \E s \in Threads : pc'[s] = "fill" /\ found'[s] = n
  <2> SUFFICES ASSUME NEW n \in Live \ returned
               PROVE  \E s \in Threads : pc'[s] = "fill" /\ found'[s] = n
    OBVIOUS
  <2>1. PICK s \in Threads : pc[s] = "fill" /\ found[s] = n
    BY DEF OwnerInv
  <2>2. s # t
    BY <2>1
  <2> QED
    BY <2>1, <2>2
<1>4. \A s \in Threads :
        /\ pc'[s] = "fill" => found'[s] \notin returned
        /\ pc'[s] \in {"test", "free"} =>
             found'[s] \in returned /\ barrier[found'[s]].tgid = Process[s]
  BY DEF OwnerInv
<1> QED
  BY <1>1, <1>2, <1>3, <1>4 DEF OwnerInv

LEMMA OwnerStep ==
  ASSUME UserProgram, CoreInv, MainInv, OwnerInv, [Next]_vars
  PROVE  OwnerInv'
<1> USE DEF CoreInv, globals, locks, memory, locals
<1>0. \A t \in Threads : Process[t] \in Processes /\ Process[t] # NoProcess
  BY RegistryAssumption
<1>1. ASSUME NEW t \in Threads,
             \/ CallInit(t)
             \/ \E id \in 1 .. MaxId : CallWait(t, id) \/ CallDestroy(t, id)
             \/ CheckFirst(t) \/ SetFirst(t) \/ InitGlobals(t)
             \/ StartCount(t) \/ EndCount(t) \/ LockInit(t)
             \/ LockWait(t) \/ WaitRefused(t) \/ LeaveBarrier(t)
             \/ LockDestroy(t) \/ DestroyRefused(t) \/ Stray(t)
             \/ \E from \in {"count", "lock_wait", "lock_destroy"} : Oops(t, from)
      PROVE  OwnerInv'
  <2>1. /\ \E from, to : /\ to \notin {"fill", "test", "free"} \cup AtBarrier
                         /\ from # "fill" /\ Move(t, from, to)
        /\ UNCHANGED <<barrier, returned, phase>>
        /\ \A s \in Threads : s # t => found'[s] = found[s] /\ argument'[s] = argument[s]
    BY <1>1 DEF CallInit, CallWait, CallDestroy, CheckFirst, SetFirst, InitGlobals,
         StartCount, EndCount, LockInit, LockWait, WaitRefused, LeaveBarrier,
         LockDestroy, DestroyRefused, Stray, Walkers, Oops, AtBarrier, TypeOK
  <2>2. /\ pc'[t] \notin {"fill", "test", "free"} \cup AtBarrier /\ pc[t] # "fill"
        /\ \A s \in Threads : s # t => pc'[s] = pc[s]
    BY <2>1 DEF Move, TypeOK
  <2> QED
    BY <2>1, <2>2, OwnerKept
<1>2. ASSUME NEW t \in Threads, WalkOn(t) \/ CountBarrier(t) PROVE OwnerInv'
  <2>1. /\ pc' = pc /\ pc[t] \in {"lookup", "find", "counting"}
        /\ UNCHANGED <<barrier, returned, phase, argument>>
        /\ \A s \in Threads : s # t => found'[s] = found[s]
    BY <1>2 DEF WalkOn, CountBarrier, TypeOK
  <2> QED
    BY <2>1, OwnerKept DEF AtBarrier
<1>3. ASSUME NEW t \in Threads, WaitFinds(t) PROVE OwnerInv'
  <2>1. /\ Move(t, "lookup", "gate") /\ found[t] # NoNode /\ Names(t)
        /\ UNCHANGED <<barrier, returned, phase, argument, found>>
    BY <1>3 DEF WaitFinds
  <2>2. /\ pc[t] = "lookup" /\ pc'[t] = "gate" /\ found[t] \in Nodes
        /\ \A s \in Threads : s # t => pc'[s] = pc[s]
    BY <2>1 DEF Move, TypeOK
  <2>3. barrier[found[t]].tgid = Process[t] /\ barrier[found[t]].id = argument[t]
    BY <2>1 DEF Names
  <2>4. phase[Process[t]] # "ended"
    BY <2>2 DEF MainInv, InWait
  <2>5. found[t] \in returned
    BY <1>0, <2>2, <2>3, <2>4 DEF OwnerInv, Stale
  <2> QED
    BY <2>1, <2>2, <2>3, <2>5, OwnerKept
<1>4. ASSUME NEW t \in Threads, SleepOnQueue(t) PROVE OwnerInv'
  <2>1. /\ \E from \in {"gate", "woken"} : Move(t, from, "asleep")
        /\ UNCHANGED <<barrier, returned, phase, argument, found>>
    BY <1>4 DEF SleepOnQueue
  <2>2. /\ pc[t] \in {"gate", "woken"} /\ pc'[t] = "asleep"
        /\ \A s \in Threads : s # t => pc'[s] = pc[s]
    BY <2>1 DEF Move, TypeOK
  <2>3. /\ found[t] \in returned /\ barrier[found[t]].tgid = Process[t]
        /\ barrier[found[t]].id = argument[t]
    BY <2>2 DEF OwnerInv, WaitsAtOwnBarrier, Waiters
  <2> QED
    BY <2>1, <2>2, <2>3, OwnerKept
<1>5. ASSUME NEW t \in Threads, DestroyFinds(t) PROVE OwnerInv'
  <2>1. /\ Move(t, "find", "test") /\ found[t] # NoNode /\ Names(t)
        /\ UNCHANGED <<barrier, returned, phase, argument, found>>
    BY <1>5 DEF DestroyFinds
  <2>2. /\ pc[t] = "find" /\ pc'[t] = "test" /\ found[t] \in Live
        /\ \A s \in Threads : s # t => pc'[s] = pc[s]
    BY <2>1 DEF Move, TypeOK, ListInv
  <2>3. \A s \in Threads : pc[s] # "fill"
    BY <2>2 DEF LockInv
  <2>4. found[t] \in returned /\ barrier[found[t]].tgid = Process[t]
    BY <2>1, <2>2, <2>3 DEF OwnerInv, Names
  <2> QED
    BY <2>1, <2>2, <2>4, OwnerKept DEF AtBarrier
<1>6. ASSUME NEW t \in Threads, TestBusy(t) PROVE OwnerInv'
  <2>1. /\ UNCHANGED <<barrier, returned, phase, argument>>
        /\ \/ Move(t, "test", "free") /\ found' = found
           \/ Move(t, "test", "out") /\ found' = [found EXCEPT ![t] = NoNode]
    BY <1>6 DEF TestBusy
  <2>2. found[t] \in returned /\ barrier[found[t]].tgid = Process[t]
    BY <2>1 DEF OwnerInv, Move
  <2>3. /\ pc[t] = "test" /\ pc'[t] \in {"free", "out"}
        /\ pc'[t] = "free" => found'[t] = found[t]
        /\ \A s \in Threads : s # t => pc'[s] = pc[s] /\ found'[s] = found[s]
    BY <2>1 DEF Move, TypeOK
  <2> QED
    BY <2>1, <2>2, <2>3, OwnerKept DEF AtBarrier
<1>7. ASSUME NEW t \in Threads, Publish(t) PROVE OwnerInv'
  <2>1. PICK n, g :
          /\ n \in Nodes \ Live /\ g \in Garbage \cup {barrier[n].tgid}
          /\ barrier' = [barrier EXCEPT ![n] =
               [live |-> TRUE, id |-> num_barriers[t] + 1, tgid |-> g]]
          /\ found' = [found EXCEPT ![t] = n]
    BY <1>7 DEF Publish
  <2>2. /\ returned' = returned /\ argument' = argument /\ phase' = phase
        /\ pc[t] = "publish" /\ pc'[t] = "fill" /\ found'[t] = n
        /\ \A s \in Threads : s # t => pc'[s] = pc[s] /\ found'[s] = found[s]
    BY <1>7, <2>1 DEF Publish, Move, TypeOK
  <2>3. /\ Live' = Live \cup {n} /\ n \notin returned
        /\ \A m \in Nodes : m # n => barrier'[m] = barrier[m]
        /\ barrier'[n].tgid = g
    BY <2>1 DEF Live, TypeOK, OwnerInv
  <2>4. \A m \in returned : barrier'[m] = barrier[m] /\ m # n
    BY <2>3 DEF TypeOK
  <2>5. \A m \in Nodes \ returned : Stale(m)'
    <3>1. Garbage \subseteq {NoProcess}
      BY RegistryAssumption DEF UserProgram
    <3>2. Stale(n)'
      BY <2>1, <2>2, <2>3, <3>1 DEF OwnerInv, Stale
    <3> QED
      BY <2>2, <2>3, <3>2 DEF OwnerInv, Stale
  <2>6. WaitsAtOwnBarrier'
    BY <2>2, <2>4 DEF OwnerInv, WaitsAtOwnBarrier, Waiters
  <2>7. \A m \in Live' \ returned : \E s \in Threads : pc'[s] = "fill" /\ found'[s] = m
    <3> SUFFICES ASSUME NEW m \in Live \ returned, m # n
                 PROVE  \E s \in Threads : pc'[s] = "fill" /\ found'[s] = m
      BY <2>2, <2>3
    <3>1. PICK s \in Threads : pc[s] = "fill" /\ found[s] = m
      BY DEF OwnerInv
    <3> QED
      BY <2>2, <3>1
  <2>8. \A s \in Threads :
          /\ pc'[s] = "fill" => found'[s] \notin returned
          /\ pc'[s] \in {"test", "free"} =>
               found'[s] \in returned /\ barrier'[found'[s]].tgid = Process[s]
    BY <2>2, <2>3, <2>4 DEF OwnerInv
  <2> QED
    BY <2>2, <2>3, <2>4, <2>5, <2>6, <2>7, <2>8 DEF OwnerInv
<1>8. ASSUME NEW t \in Threads, Fill(t) PROVE OwnerInv'
  <2> DEFINE n == found[t]
  <2>1. /\ n \in Live /\ n \in Nodes /\ n \notin returned
        /\ \A s \in Threads : s # t => pc[s] \notin {"fill", "test", "free"}
    BY <1>8 DEF Fill, Move, LockInv, ListInv, OwnerInv, Live
  <2>2. /\ Live' = Live /\ returned' = returned \cup {n}
        /\ \A m \in Nodes : m # n => barrier'[m] = barrier[m]
        /\ barrier'[n].tgid = Process[t]
    BY <1>8, <2>1 DEF Fill, Live, TypeOK
  <2>3. /\ argument' = argument /\ phase' = phase /\ pc'[t] = "out"
        /\ \A s \in Threads : s # t => pc'[s] = pc[s] /\ found'[s] = found[s]
    BY <1>8 DEF Fill, Move, TypeOK
  <2> HIDE DEF n
  <2>4. \A m \in returned : barrier'[m] = barrier[m] /\ m # n
    BY <2>1, <2>2 DEF TypeOK
  <2>5. WaitsAtOwnBarrier'
    <3>1. \A s \in Waiters' : s # t /\ s \in Waiters /\ found'[s] = found[s]
      BY <2>3 DEF Waiters
    <3> QED
      BY <2>2, <2>3, <2>4, <3>1 DEF OwnerInv, WaitsAtOwnBarrier
  <2>6. \A m \in Nodes \ returned' : Stale(m)'
    BY <2>2, <2>3 DEF OwnerInv, Stale
  <2>7. \A m \in Live' \ returned' : \E s \in Threads : pc'[s] = "fill" /\ found'[s] = m
    <3> SUFFICES ASSUME NEW m \in Live \ returned, m # n
                 PROVE  \E s \in Threads : pc'[s] = "fill" /\ found'[s] = m
      BY <2>2
    <3>1. PICK s \in Threads : pc[s] = "fill" /\ found[s] = m
      BY DEF OwnerInv
    <3> QED
      BY <2>3, <3>1 DEF n
  <2>8. \A s \in Threads : pc'[s] \notin {"fill", "test", "free"}
    BY <2>1, <2>3
  <2> QED
    BY <1>0, <2>1, <2>2, <2>4, <2>5, <2>6, <2>7, <2>8 DEF OwnerInv
<1>9. ASSUME NEW t \in Threads, Free(t) PROVE OwnerInv'
  <2> DEFINE n == found[t]
  <2>1. /\ n \in returned /\ barrier[n].tgid = Process[t] /\ n \in Nodes
        /\ pc[t] = "free"
        /\ \A s \in Threads : s # t => pc[s] \notin {"fill", "test", "free"}
    BY <1>9 DEF Free, Move, LockInv, OwnerInv, Live
  <2>2. phase[Process[t]] = "ended"
    BY <2>1 DEF MainInv, InDestroy
  <2>3. \A s \in Waiters : found[s] # n
    <3>1. \A s \in Waiters : Process[s] # Process[t]
      BY <2>2 DEF MainInv, Waiters, InWait
    <3> QED
      BY <2>1, <3>1 DEF OwnerInv, WaitsAtOwnBarrier
  <2>4. /\ Live' = Live \ {n} /\ returned' = returned \ {n}
        /\ \A m \in Nodes : barrier'[m].tgid = barrier[m].tgid
                            /\ barrier'[m].id = barrier[m].id
    BY <1>9, <2>1 DEF Free, Live, TypeOK
  <2>5. /\ argument' = argument /\ phase' = phase /\ pc'[t] = "out"
        /\ \A s \in Threads : s # t => pc'[s] = pc[s] /\ found'[s] = found[s]
    BY <1>9 DEF Free, Move, TypeOK
  <2> HIDE DEF n
  <2>6. WaitsAtOwnBarrier'
    BY <2>3, <2>4, <2>5 DEF OwnerInv, WaitsAtOwnBarrier, Waiters, TypeOK
  <2>7. \A m \in Nodes \ returned' : Stale(m)'
    BY <2>1, <2>2, <2>4, <2>5 DEF OwnerInv, Stale
  <2>8. Live' \ returned' = {}
    BY <2>1, <2>4 DEF OwnerInv
  <2>9. \A s \in Threads : pc'[s] \notin {"fill", "test", "free"}
    BY <2>1, <2>5
  <2>10. returned' \subseteq Live' /\ \A m \in returned' : barrier'[m].tgid \in Processes
    BY <2>4 DEF OwnerInv, Live
  <2> QED
    BY <2>6, <2>7, <2>8, <2>9, <2>10 DEF OwnerInv
<1>10. ASSUME NEW n \in Nodes, WakeAll(n) PROVE OwnerInv'
  <2>1. /\ UNCHANGED <<barrier, returned, argument, found, phase>>
        /\ \A s \in Threads : \/ pc'[s] = pc[s]
                              \/ pc[s] = "asleep" /\ pc'[s] = "woken"
    BY <1>10 DEF WakeAll, LockInv, TypeOK
  <2>2. Live' = Live /\ \A m : Stale(m)' <=> Stale(m)
    BY <2>1 DEF Live, Stale
  <2>3. WaitsAtOwnBarrier'
    BY <2>1 DEF OwnerInv, WaitsAtOwnBarrier, Waiters
  <2>4. \A s \in Threads : pc'[s] = pc[s] \/ pc[s] \notin {"fill", "test", "free"}
    BY <2>1
  <2>5. \A s \in Threads : pc'[s] \in {"fill", "test", "free"} <=>
                             pc[s] \in {"fill", "test", "free"} /\ pc'[s] = pc[s]
    BY <2>1
  <2> QED
    BY <2>1, <2>2, <2>3, <2>4, <2>5 DEF OwnerInv
<1>11. ASSUME NEW p \in Processes, NextPhase(p) PROVE OwnerInv'
  <2>1. /\ UNCHANGED <<barrier, returned, argument, found, pc>>
        /\ \A q \in Processes : phase[q] = "ended" => phase'[q] = "ended"
    BY <1>11 DEF NextPhase, TypeOK
  <2>2. Live' = Live /\ \A m \in Nodes : Stale(m) => Stale(m)'
    BY <2>1 DEF Live, Stale, TypeOK
  <2>3. WaitsAtOwnBarrier'
    BY <2>1 DEF OwnerInv, WaitsAtOwnBarrier, Waiters
  <2> QED
    BY <2>1, <2>2, <2>3 DEF OwnerInv
<1>12. CASE UNCHANGED vars
  BY <1>12 DEF vars, OwnerInv, WaitsAtOwnBarrier, Waiters, Live, Stale
<1> QED
  BY <1>1, <1>2, <1>3, <1>4, <1>5, <1>6, <1>7, <1>8, <1>9, <1>10, <1>11,
     <1>12 DEF Next, Inside

UseInv == CoreInv /\ MainInv /\ OwnerInv

LEMMA UseStart == Init => UseInv
<1> SUFFICES ASSUME Init PROVE MainInv /\ OwnerInv
  BY InitCore DEF UseInv
<1>1. Live = {} /\ Waiters = {}
  BY DEF Init, Live, Waiters
<1>2. \A n \in Nodes : Stale(n)
  BY DEF Init, Stale
<1>3. \A t \in Threads : pc[t] = "out"
  BY DEF Init
<1> QED
  BY <1>1, <1>2, <1>3
     DEF Init, MainInv, OwnerInv, WaitsAtOwnBarrier, InInit, InWait, InDestroy

LEMMA UseStep ==
  ASSUME UserProgram, UseInv, [Next]_vars
  PROVE  UseInv'
<1>1. CoreInv'
  BY NextTyped, BootStep, LockStep, ListStep DEF UseInv, CoreInv, UserProgram
<1>2. MainInv' /\ OwnerInv'
  BY MainStep, OwnerStep DEF UseInv, CoreInv
<1> QED
  BY <1>1, <1>2 DEF UseInv

LEMMA UseInvariance ==
  ASSUME UserProgram
  PROVE  Spec => []UseInv
BY UseStart, UseStep, PTL DEF Spec

\* With programs like user.c a thread waits at a barrier of its own process,
\* with the identifier it named, whose barrier_init has returned and which is
\* not destroyed meanwhile, though memory is used again with an old tgid in it.
THEOREM WaitsAtItsOwn ==
  ASSUME UserProgram
  PROVE  Spec => []WaitsAtOwnBarrier
<1>1. UseInv => WaitsAtOwnBarrier
  BY DEF UseInv, OwnerInv
<1> QED
  BY UseInvariance, <1>1, PTL

-----------------------------------------------------------------------------
(* Identifiers in the program of user.c *)

\* user.c forks two children, and its own process makes no calls. With a third
\* process the property fails: a node that a walk of barrier_init is at is
\* freed by one process and allocated by another, and takes the walk back to
\* the head of the list.
TwoChildren ==
  \A p, q, r \in Processes : p = q \/ q = r \/ p = r

\* What a walk at n has before it that belongs to p.
Ahead(n, p) ==
  {m \in Listed : Precedes(barrier_list, n, m) /\ barrier[m].tgid = p}

\* A walk that counts has counted what is behind it. When the node it is at
\* is freed, the process that freed it has ended, and nobody is left who could
\* use the memory again.
Counts(t, c) ==
  /\ c = NoNode => num_barriers[t] = Cardinality(Barriers(Process[t]))
  /\ c \in Live => num_barriers[t] + Cardinality(Ahead(c, Process[t]))
                     = Cardinality(Barriers(Process[t]))
  /\ c \in Nodes \ Live =>
       \A q \in Processes : q # Process[t] => phase[q] = "ended"

WalkInv ==
  \A t \in Threads, c \in Nodes \cup {NoNode} :
    pc[t] = "counting" /\ found[t] = c => Counts(t, c)

\* So while the main thread makes its barriers they are numbered from one,
\* and what barrier_init counts before it takes the lock is still the number
\* of them when it publishes.
IdsInv ==
  /\ UniqueIds
  /\ \A p \in Processes : phase[p] = "start" =>
       \A n \in Barriers(p) : barrier[n].id <= Cardinality(Barriers(p))
  /\ \A t \in Threads :
       /\ pc[t] \in {"lock_init", "publish"} =>
            num_barriers[t] = Cardinality(Barriers(Process[t]))
       /\ pc[t] = "fill" =>
            barrier[found[t]].id = Cardinality(Barriers(Process[t])) + 1

\* What a process holds, until it has ended, is what is on the list with its
\* tgid, and finitely many.
LEMMA OwnBarriers ==
  ASSUME UseInv, NEW p \in Processes
  PROVE  /\ Barriers(p) \subseteq Nodes /\ IsFiniteSet(Barriers(p))
         /\ Cardinality(Barriers(p)) \in Nat
         /\ phase[p] # "ended" =>
              Barriers(p) = {n \in Listed : barrier[n].tgid = p}
<1>1. Barriers(p) \in SUBSET Nodes
  BY DEF Barriers, UseInv, CoreInv, TypeOK
<1>2. phase[p] # "ended" => Barriers(p) = {n \in Listed : barrier[n].tgid = p}
  <2> SUFFICES ASSUME phase[p] # "ended"
               PROVE  Barriers(p) = {n \in Listed : barrier[n].tgid = p}
    OBVIOUS
  <2>1. \A n \in Live \ returned : barrier[n].tgid # p
    BY RegistryAssumption DEF UseInv, OwnerInv, Stale, Live
  <2> QED
    BY <2>1 DEF Barriers, UseInv, CoreInv, ListInv, OwnerInv
<1> QED
  BY <1>1, <1>2, RegistryAssumption, FS_Subset, FS_CardinalityType

LEMMA AheadIsFinite ==
  ASSUME TypeOK, NEW n, NEW p
  PROVE  IsFiniteSet(Ahead(n, p)) /\ Cardinality(Ahead(n, p)) \in Nat
<1>1. Ahead(n, p) \in SUBSET Nodes
  BY WalkTyped DEF Ahead
<1> QED
  BY <1>1, RegistryAssumption, FS_Subset, FS_CardinalityType

\* A step that neither makes nor frees a barrier nor counts.
LEMMA WalkKept ==
  ASSUME TypeOK, WalkInv, UNCHANGED <<barrier, returned, barrier_list>>,
         \A p \in Processes : phase[p] = "ended" => phase'[p] = "ended",
         \A t \in Threads : pc'[t] = "counting" =>
           pc[t] = "counting" /\ found'[t] = found[t]
             /\ num_barriers'[t] = num_barriers[t]
  PROVE  WalkInv'
<1>1. /\ Live' = Live
      /\ \A p : Barriers(p)' = Barriers(p)
      /\ \A n, p : Ahead(n, p)' = Ahead(n, p)
  BY DEF Live, Barriers, Ahead, Listed
<1> QED
  BY <1>1 DEF WalkInv, Counts

LEMMA WalkStep ==
  ASSUME UserProgram, TwoChildren, UseInv, WalkInv, [Next]_vars
  PROVE  WalkInv'
<1> USE DEF globals, locks, memory, locals
<1>typed. TypeOK
  BY DEF UseInv, CoreInv
<1>injective. IsInjective(barrier_list) /\ Listed = Live
  BY DEF UseInv, CoreInv, ListInv
<1>procs. \A t \in Threads : Process[t] \in Processes
  BY RegistryAssumption
<1>1. ASSUME NEW t \in Threads,
             \/ CallInit(t)
             \/ \E id \in 1 .. MaxId : CallWait(t, id) \/ CallDestroy(t, id)
             \/ CheckFirst(t) \/ SetFirst(t) \/ EndCount(t)
             \/ LockInit(t) \/ LockWait(t) \/ WaitFinds(t) \/ WaitRefused(t)
             \/ SleepOnQueue(t) \/ LeaveBarrier(t)
             \/ LockDestroy(t) \/ DestroyFinds(t) \/ DestroyRefused(t)
             \/ TestBusy(t) \/ WalkOn(t) \/ Stray(t)
             \/ \E from \in {"count", "lock_wait", "lock_destroy"} : Oops(t, from)
      PROVE  WalkInv'
  <2>1. /\ UNCHANGED <<barrier, returned, barrier_list, phase, num_barriers>>
        /\ pc'[t] # "counting"
        /\ \A s \in Threads : s # t => pc'[s] = pc[s] /\ found'[s] = found[s]
    BY <1>typed, <1>1
       DEF CallInit, CallWait, CallDestroy, CheckFirst, SetFirst, EndCount,
         LockInit, LockWait, WaitFinds, WaitRefused, SleepOnQueue,
         LeaveBarrier, LockDestroy, DestroyFinds, DestroyRefused, TestBusy,
         WalkOn, Stray, Oops, Move, TypeOK
  <2> QED
    BY <1>typed, <2>1, WalkKept
<1>2. ASSUME NEW t \in Threads, InitGlobals(t) PROVE WalkInv'
  <2>1. ~ready
    BY <1>2 DEF InitGlobals, Move, UseInv, CoreInv, BootInv
  <2>2. \A s \in Threads : pc[s] # "counting" /\ pc'[s] # "counting"
    BY <1>2, <1>typed, <2>1 DEF InitGlobals, Move, UseInv, CoreInv, BootInv, TypeOK
  <2> QED
    BY <2>2 DEF WalkInv
<1>3. ASSUME NEW t \in Threads, StartCount(t) PROVE WalkInv'
  <2>1. /\ UNCHANGED <<barrier, returned, barrier_list, phase>>
        /\ pc[t] = "count" /\ pc'[t] = "counting"
        /\ num_barriers'[t] = 0 /\ found'[t] = First
        /\ \A s \in Threads : s # t => /\ pc'[s] = pc[s] /\ found'[s] = found[s]
                                       /\ num_barriers'[s] = num_barriers[s]
    BY <1>3, <1>typed DEF StartCount, Move, TypeOK
  <2>2. phase[Process[t]] # "ended"
    BY <2>1 DEF UseInv, MainInv, InInit
  <2>3. Barriers(Process[t]) = {n \in Listed : barrier[n].tgid = Process[t]}
    BY <1>procs, <2>2, OwnBarriers
  <2>4. First \in Live \cup {NoNode}
    BY <1>typed, <1>injective, FirstOne
  <2>5. First = NoNode => Barriers(Process[t]) = {}
    BY <1>typed, <2>3, FirstOne
  <2>6. Ahead(First, Process[t]) = Barriers(Process[t])
    BY <1>typed, <2>3, FirstOne DEF Ahead
  <2>7. Cardinality(Barriers(Process[t])) \in Nat
    BY <1>procs, OwnBarriers
  <2>8. /\ Live' = Live
        /\ \A p : Barriers(p)' = Barriers(p)
        /\ \A n, p : Ahead(n, p)' = Ahead(n, p)
    BY <2>1 DEF Live, Barriers, Ahead, Listed
  <2>9. Cardinality({}) = 0
    BY FS_EmptySet
  <2>10. ASSUME NEW s \in Threads, NEW c \in Nodes \cup {NoNode},
                pc'[s] = "counting", found'[s] = c
         PROVE  Counts(s, c)'
    <3>1. CASE s = t
      <4>1. c = First /\ num_barriers'[s] = 0 /\ Process[s] = Process[t]
        BY <2>1, <2>10, <3>1
      <4>2. /\ c = NoNode => 0 = Cardinality(Barriers(Process[t]))
            /\ c \in Live => 0 + Cardinality(Ahead(c, Process[t]))
                               = Cardinality(Barriers(Process[t]))
            /\ c \notin Nodes \ Live
        BY <2>4, <2>5, <2>6, <2>7, <2>9, <4>1, RegistryAssumption
      <4> QED
        BY <2>8, <4>1, <4>2 DEF Counts
    <3>2. CASE s # t
      BY <2>1, <2>8, <2>10, <3>2 DEF WalkInv, Counts
    <3> QED
      BY <3>1, <3>2
  <2> QED
    BY <2>10 DEF WalkInv
<1>4. ASSUME NEW t \in Threads, CountBarrier(t) PROVE WalkInv'
  <2> DEFINE n == found[t]
             p == Process[t]
             k == After(n)
  <2>1. /\ UNCHANGED <<barrier, returned, barrier_list, phase, pc>>
        /\ pc[t] = "counting" /\ n \in Live /\ num_barriers[t] \in Nat
        /\ num_barriers'[t] = IF barrier[n].tgid = p THEN num_barriers[t] + 1
                                                     ELSE num_barriers[t]
        /\ found'[t] = k
        /\ \A s \in Threads : s # t => /\ found'[s] = found[s]
                                       /\ num_barriers'[s] = num_barriers[s]
    BY <1>4, <1>typed DEF CountBarrier, TypeOK
  <2>2. num_barriers[t] + Cardinality(Ahead(n, p)) = Cardinality(Barriers(p))
    BY <1>typed, <2>1 DEF WalkInv, Counts, TypeOK
  <2>3. n \in Listed /\ n \in Nodes /\ p \in Processes
    BY <1>injective, <1>procs, <2>1 DEF Live
  <2> HIDE DEF n, p, k
  <2>4. /\ k \in Listed \cup {NoNode}
        /\ ~Precedes(barrier_list, k, n)
        /\ \A m : Precedes(barrier_list, n, m) <=> m = n \/ Precedes(barrier_list, k, m)
    BY <1>typed, <1>injective, <2>3, NextOne DEF k
  <2>5. /\ IsFiniteSet(Ahead(n, p)) /\ Cardinality(Ahead(n, p)) \in Nat
        /\ IsFiniteSet(Ahead(k, p)) /\ Cardinality(Ahead(k, p)) \in Nat
    BY <1>typed, AheadIsFinite
  <2>6. num_barriers'[t] + Cardinality(Ahead(k, p)) = Cardinality(Barriers(p))
    <3>1. CASE barrier[n].tgid = p
      <4>1. Ahead(n, p) = Ahead(k, p) \cup {n} /\ n \notin Ahead(k, p)
        BY <2>3, <2>4, <3>1 DEF Ahead
      <4>2. Cardinality(Ahead(k, p) \cup {n}) = Cardinality(Ahead(k, p)) + 1
        BY <2>5, <4>1, FS_AddElement
      <4> QED
        BY <2>1, <2>2, <2>5, <3>1, <4>1, <4>2
    <3>2. CASE barrier[n].tgid # p
      <4>1. Ahead(n, p) = Ahead(k, p)
        BY <2>3, <2>4, <3>2 DEF Ahead
      <4> QED
        BY <2>1, <2>2, <3>2, <4>1
    <3> QED
      BY <3>1, <3>2
  <2>7. k = NoNode => Ahead(k, p) = {}
    <3>1. \A m \in Listed : m # NoNode
      BY <1>typed, WalkTyped, RegistryAssumption
    <3>2. \A m : ~Precedes(barrier_list, NoNode, m)
      BY <3>1 DEF Precedes, Listed, ToSet
    <3> QED
      BY <3>2 DEF Ahead
  <2>8. Cardinality({}) = 0
    BY FS_EmptySet
  <2>9. num_barriers'[t] \in Nat
    BY <2>1
  <2>10. /\ Live' = Live
         /\ \A q : Barriers(q)' = Barriers(q)
         /\ \A m, q : Ahead(m, q)' = Ahead(m, q)
    BY <2>1 DEF Live, Barriers, Ahead, Listed
  <2>11. ASSUME NEW s \in Threads, NEW c \in Nodes \cup {NoNode},
                pc'[s] = "counting", found'[s] = c
         PROVE  Counts(s, c)'
    <3>1. CASE s = t
      <4>1. Process[s] = p /\ c = k
        BY <2>1, <2>11, <3>1 DEF p
      <4>2. k \notin Nodes \ Live
        BY <1>injective, <2>4, RegistryAssumption
      <4>3. k = NoNode => num_barriers'[t] = Cardinality(Barriers(p))
        BY <2>6, <2>7, <2>8, <2>9
      <4> QED
        BY <2>6, <2>10, <3>1, <4>1, <4>2, <4>3 DEF Counts
    <3>2. CASE s # t
      BY <2>1, <2>10, <2>11, <3>2 DEF WalkInv, Counts
    <3> QED
      BY <3>1, <3>2
  <2> QED
    BY <2>11 DEF WalkInv
<1>5. ASSUME NEW t \in Threads, Publish(t) PROVE WalkInv'
  <2>1. PICK n, g :
          /\ n \in Nodes \ Live /\ g \in Garbage \cup {barrier[n].tgid}
          /\ barrier' = [barrier EXCEPT ![n] =
               [live |-> TRUE, id |-> num_barriers[t] + 1, tgid |-> g]]
          /\ barrier_list' = <<n>> \o barrier_list
          /\ found' = [found EXCEPT ![t] = n]
    BY <1>5 DEF Publish
  <2>2. /\ pc[t] = "publish" /\ pc'[t] = "fill"
        /\ returned' = returned /\ phase' = phase /\ num_barriers' = num_barriers
        /\ \A s \in Threads : s # t => pc'[s] = pc[s] /\ found'[s] = found[s]
    BY <1>5, <1>typed, <2>1 DEF Publish, Move, TypeOK
  <2>3. /\ n \notin returned /\ n \notin Listed
        /\ Live' = Live \cup {n} /\ barrier'[n].tgid = g
        /\ \A m \in Nodes : m # n => barrier'[m] = barrier[m]
    BY <1>typed, <1>injective, <2>1 DEF Live, UseInv, OwnerInv, TypeOK
  <2>4. Listed' = Listed \cup {n}
        /\ \A m, j : m # n =>
             (Precedes(barrier_list', m, j) <=> Precedes(barrier_list, m, j))
    BY <1>typed, <2>1, Added DEF Listed, TypeOK
  <2>5. \A q : Barriers(q)' = Barriers(q)
    <3>1. \A m \in returned : barrier'[m] = barrier[m]
      BY <1>typed, <2>3 DEF TypeOK
    <3> QED
      BY <2>2, <3>1 DEF Barriers
  <2>6. \A q \in Processes : phase[q] # "ended" => g # q
    <3>1. Garbage \subseteq {NoProcess}
      BY RegistryAssumption DEF UserProgram
    <3>2. Stale(n)
      BY <2>1, <2>3 DEF UseInv, OwnerInv
    <3> QED
      BY <2>1, <3>1, <3>2, RegistryAssumption DEF Stale
  <2>7. phase[Process[t]] = "start" /\ t = Main[Process[t]]
    BY <2>2 DEF UseInv, MainInv, InInit
  <2>8. ASSUME NEW s \in Threads, NEW c \in Nodes \cup {NoNode},
               pc'[s] = "counting", found'[s] = c
        PROVE  Counts(s, c)'
    <3>1. s # t /\ pc[s] = "counting" /\ found[s] = c
      BY <2>2, <2>8
    <3>2. phase[Process[s]] = "start" /\ s = Main[Process[s]]
      BY <3>1 DEF UseInv, MainInv, InInit
    <3>3. Process[s] # Process[t]
      BY <2>7, <3>1, <3>2
    <3>4. Counts(s, c)
      BY <2>8, <3>1 DEF WalkInv
    <3>5. c \in Live \cup {NoNode}
      BY <1>procs, <2>7, <2>8, <3>3, <3>4 DEF Counts
    <3>6. ASSUME c \in Live
          PROVE  Ahead(c, Process[s])' = Ahead(c, Process[s])
      <4>1. c # n
        BY <2>1, <3>6
      <4>2. \A m : Precedes(barrier_list, c, m) => m \in Listed /\ m # n
        BY <2>3 DEF Precedes, Listed, ToSet
      <4>3. \A m \in Listed : m # n => barrier'[m] = barrier[m]
        BY <1>typed, <2>3, WalkTyped
      <4> QED
        BY <2>4, <4>1, <4>2, <4>3 DEF Ahead
    <3>7. c # NoNode => c \in Live
      BY <3>5
    <3>8. NoNode \notin Live /\ NoNode \notin Live' /\ c \notin Nodes \ Live'
      BY <2>1, <2>3, <3>5, RegistryAssumption DEF Live
    <3> QED
      BY <2>2, <2>5, <3>4, <3>6, <3>7, <3>8 DEF Counts
  <2> QED
    BY <2>8 DEF WalkInv
<1>6. ASSUME NEW t \in Threads, Fill(t) PROVE WalkInv'
  <2> DEFINE n == found[t]
             p == Process[t]
  <2>1. /\ n \in Nodes /\ n \notin returned /\ p \in Processes /\ n \in Live
        /\ pc[t] = "fill" /\ pc'[t] = "out"
        /\ barrier_list' = barrier_list
        /\ \A s \in Threads : s # t => pc'[s] = pc[s] /\ found'[s] = found[s]
    BY <1>6, <1>typed, <1>procs
       DEF Fill, Move, UseInv, CoreInv, ListInv, OwnerInv, Live, TypeOK
  <2>2. /\ returned' = returned \cup {n} /\ Live' = Live
        /\ \A m \in Nodes : m # n => barrier'[m] = barrier[m]
        /\ barrier'[n].tgid = p
        /\ phase' = phase /\ num_barriers' = num_barriers
    BY <1>6, <1>typed, <2>1 DEF Fill, Live, TypeOK
  <2>3. phase[p] = "start" /\ t = Main[p]
    BY <2>1 DEF UseInv, MainInv, InInit
  <2>4. Stale(n)
    BY <2>1 DEF UseInv, OwnerInv
  <2> HIDE DEF n, p
  <2>5. ASSUME NEW q \in Processes, q # p, phase[q] # "ended"
        PROVE  /\ Barriers(q)' = Barriers(q)
               /\ \A m : Ahead(m, q)' = Ahead(m, q)
    <3>1. barrier[n].tgid # q /\ barrier'[n].tgid # q
      BY <2>2, <2>4, <2>5, RegistryAssumption DEF Stale
    <3>2. \A m \in Nodes : barrier'[m].tgid = q <=> barrier[m].tgid = q
      BY <2>2, <3>1
    <3>3. \A m \in returned \cup Listed : m \in Nodes
      BY <1>typed, WalkTyped DEF TypeOK
    <3>4. Barriers(q)' = Barriers(q)
      BY <2>1, <2>2, <3>1, <3>2, <3>3 DEF Barriers
    <3>5. \A m : Ahead(m, q)' = Ahead(m, q)
      BY <2>1, <3>2, <3>3 DEF Ahead, Listed
    <3> QED
      BY <3>4, <3>5
  <2>6. ASSUME NEW s \in Threads, NEW c \in Nodes \cup {NoNode},
               pc'[s] = "counting", found'[s] = c
        PROVE  Counts(s, c)'
    <3>1. s # t /\ pc[s] = "counting" /\ found[s] = c
      BY <2>1, <2>6
    <3>2. phase[Process[s]] = "start" /\ s = Main[Process[s]]
      BY <3>1 DEF UseInv, MainInv, InInit
    <3>3. Process[s] # p
      BY <2>3, <3>1, <3>2
    <3>4. /\ Barriers(Process[s])' = Barriers(Process[s])
          /\ Ahead(c, Process[s])' = Ahead(c, Process[s])
      BY <1>procs, <2>5, <3>2, <3>3
    <3>5. Counts(s, c)
      BY <2>6, <3>1 DEF WalkInv
    <3> QED
      BY <2>2, <3>4, <3>5 DEF Counts
  <2> QED
    BY <2>6 DEF WalkInv
<1>7. ASSUME NEW t \in Threads, Free(t) PROVE WalkInv'
  <2> DEFINE n == found[t]
             p == Process[t]
  <2>1. /\ n \in returned /\ barrier[n].tgid = p /\ p \in Processes /\ n \in Nodes
        /\ pc[t] = "free" /\ pc'[t] = "out"
        /\ barrier_list' = RemoveFirst(barrier_list, n)
        /\ \A s \in Threads : s # t => pc'[s] = pc[s] /\ found'[s] = found[s]
    BY <1>7, <1>typed, <1>procs
       DEF Free, Move, UseInv, OwnerInv, TypeOK
  <2>2. /\ returned' = returned \ {n} /\ Live' = Live \ {n}
        /\ \A m \in Nodes : barrier'[m].tgid = barrier[m].tgid
        /\ phase' = phase /\ num_barriers' = num_barriers
    BY <1>7, <1>typed, <2>1 DEF Free, Live, TypeOK
  <2>3. phase[p] = "ended"
    BY <2>1 DEF UseInv, MainInv, InDestroy
  <2> HIDE DEF n, p
  <2>4. /\ Listed' = Listed \ {n}
        /\ \A m, j : m # n => (Precedes(barrier_list', m, j)
                                <=> j # n /\ Precedes(barrier_list, m, j))
    BY <1>typed, <1>injective, <2>1, Removed DEF Listed, TypeOK
  <2>5. ASSUME NEW q \in Processes, q # p
        PROVE  /\ Barriers(q)' = Barriers(q)
               /\ \A m : m # n => Ahead(m, q)' = Ahead(m, q)
    <3>1. \A m \in returned \cup Listed : m \in Nodes
      BY <1>typed, WalkTyped DEF TypeOK
    <3>2. Barriers(q)' = Barriers(q)
      BY <2>1, <2>2, <2>5, <3>1 DEF Barriers
    <3>3. \A m : m # n => Ahead(m, q)' = Ahead(m, q)
      BY <2>1, <2>2, <2>4, <2>5, <3>1 DEF Ahead
    <3> QED
      BY <3>2, <3>3
  <2>6. ASSUME NEW s \in Threads, NEW c \in Nodes \cup {NoNode},
               pc'[s] = "counting", found'[s] = c
        PROVE  Counts(s, c)'
    <3>1. s # t /\ pc[s] = "counting" /\ found[s] = c
      BY <2>1, <2>6
    <3>2. phase[Process[s]] = "start"
      BY <3>1 DEF UseInv, MainInv, InInit
    <3>3. Process[s] # p /\ Process[s] \in Processes
      BY <1>procs, <2>3, <3>2
    <3>4. \A q \in Processes : q # Process[s] => phase'[q] = "ended"
      <4>1. \A q \in Processes : q # Process[s] => q = p
        BY <2>1, <3>3 DEF TwoChildren
      <4> QED
        BY <2>2, <2>3, <4>1
    <3>5. /\ Barriers(Process[s])' = Barriers(Process[s])
          /\ c # n => Ahead(c, Process[s])' = Ahead(c, Process[s])
      BY <2>5, <3>3
    <3>6. Counts(s, c)
      BY <2>6, <3>1 DEF WalkInv
    <3> QED
      BY <2>2, <3>4, <3>5, <3>6 DEF Counts
  <2> QED
    BY <2>6 DEF WalkInv
<1>8. ASSUME NEW n \in Nodes, WakeAll(n) PROVE WalkInv'
  <2>1. \A t \in Threads : pc'[t] = "counting" => pc[t] = "counting"
    BY <1>8 DEF WakeAll
  <2> QED
    BY <1>8, <1>typed, <2>1, WalkKept DEF WakeAll
<1>9. ASSUME NEW p \in Processes, NextPhase(p) PROVE WalkInv'
  <2>1. /\ UNCHANGED <<barrier, returned, barrier_list, pc, found, num_barriers>>
        /\ \A q \in Processes : phase[q] = "ended" => phase'[q] = "ended"
    BY <1>9, <1>typed DEF NextPhase, TypeOK
  <2> QED
    BY <1>typed, <2>1, WalkKept
<1>10. CASE UNCHANGED vars
  BY <1>10, <1>typed, WalkKept DEF vars
<1> QED
  BY <1>1, <1>2, <1>3, <1>4, <1>5, <1>6, <1>7, <1>8, <1>9, <1>10 DEF Next, Inside

\* A step that neither makes nor frees a barrier.
LEMMA IdsKept ==
  ASSUME IdsInv, UNCHANGED <<barrier, returned>>,
         \A p \in Processes : phase'[p] = "start" => phase[p] = "start",
         \A t \in Threads :
           /\ pc'[t] = "fill" => pc[t] = "fill" /\ found'[t] = found[t]
           /\ pc'[t] \in {"lock_init", "publish"} =>
                num_barriers'[t] = Cardinality(Barriers(Process[t]))
  PROVE  IdsInv'
<1>1. \A p \in Processes : Barriers(p)' = Barriers(p)
  BY DEF Barriers
<1>2. UniqueIds'
  BY DEF IdsInv, UniqueIds
<1> QED
  BY <1>1, <1>2, RegistryAssumption DEF IdsInv

LEMMA IdsStep ==
  ASSUME UserProgram, UseInv, WalkInv, IdsInv, [Next]_vars
  PROVE  IdsInv'
<1> USE DEF globals, locks, memory, locals
<1>typed. TypeOK
  BY DEF UseInv, CoreInv
<1>1. ASSUME NEW t \in Threads,
             \/ CallInit(t)
             \/ \E id \in 1 .. MaxId : CallWait(t, id) \/ CallDestroy(t, id)
             \/ CheckFirst(t) \/ SetFirst(t) \/ InitGlobals(t)
             \/ StartCount(t) \/ CountBarrier(t) \/ LockInit(t)
             \/ LockWait(t) \/ WaitFinds(t) \/ WaitRefused(t)
             \/ SleepOnQueue(t) \/ LeaveBarrier(t)
             \/ LockDestroy(t) \/ DestroyFinds(t) \/ DestroyRefused(t)
             \/ TestBusy(t) \/ WalkOn(t) \/ Stray(t)
             \/ \E from \in {"count", "lock_wait", "lock_destroy"} : Oops(t, from)
      PROVE  IdsInv'
  <2>1. UNCHANGED <<barrier, returned, phase>>
    BY <1>1 DEF CallInit, CallWait, CallDestroy, CheckFirst, SetFirst,
         InitGlobals, StartCount, CountBarrier, LockInit, LockWait, WaitFinds,
         WaitRefused, SleepOnQueue, LeaveBarrier, LockDestroy, DestroyFinds,
         DestroyRefused, TestBusy, WalkOn, Stray, Oops
  <2>2. /\ \A s \in Threads : s # t =>
             /\ pc'[s] = pc[s] /\ found'[s] = found[s]
             /\ num_barriers'[s] = num_barriers[s]
        /\ pc'[t] # "fill"
        /\ pc'[t] \in {"lock_init", "publish"} =>
             /\ pc[t] \in {"lock_init", "publish"}
             /\ num_barriers'[t] = num_barriers[t]
    BY <1>typed, <1>1
       DEF CallInit, CallWait, CallDestroy, CheckFirst, SetFirst,
         InitGlobals, StartCount, CountBarrier, LockInit, LockWait, WaitFinds,
         WaitRefused, SleepOnQueue, LeaveBarrier, LockDestroy, DestroyFinds,
         DestroyRefused, TestBusy, WalkOn, Stray, Oops, Move, TypeOK
  <2> QED
    BY <2>1, <2>2, IdsKept DEF IdsInv
<1>2. ASSUME NEW t \in Threads, EndCount(t) PROVE IdsInv'
  <2>1. num_barriers'[t] = Cardinality(Barriers(Process[t]))
    BY <1>2 DEF EndCount, Move, WalkInv, Counts
  <2>2. /\ UNCHANGED <<barrier, returned, phase, found>>
        /\ pc'[t] = "lock_init"
        /\ \A s \in Threads : s # t =>
             pc'[s] = pc[s] /\ num_barriers'[s] = num_barriers[s]
    BY <1>2, <1>typed DEF EndCount, Move, TypeOK
  <2> QED
    BY <2>1, <2>2, IdsKept DEF IdsInv
<1>3. ASSUME NEW t \in Threads, Publish(t) PROVE IdsInv'
  <2>1. PICK n, g :
          /\ n \in Nodes \ Live /\ g \in Garbage \cup {barrier[n].tgid}
          /\ barrier' = [barrier EXCEPT ![n] =
               [live |-> TRUE, id |-> num_barriers[t] + 1, tgid |-> g]]
          /\ found' = [found EXCEPT ![t] = n]
    BY <1>3 DEF Publish
  <2>2. /\ returned' = returned /\ n \notin returned
        /\ \A m \in returned : barrier'[m] = barrier[m]
        /\ barrier'[n].id = num_barriers[t] + 1
    BY <1>3, <1>typed, <2>1 DEF Publish, UseInv, OwnerInv, TypeOK
  <2>3. \A p \in Processes : Barriers(p)' = Barriers(p)
    BY <2>2 DEF Barriers
  <2>4. /\ phase' = phase /\ num_barriers' = num_barriers
        /\ pc[t] = "publish" /\ pc'[t] = "fill" /\ found'[t] = n
        /\ \A s \in Threads : s # t => pc'[s] = pc[s] /\ found'[s] = found[s]
    BY <1>3, <1>typed, <2>1 DEF Publish, Move, TypeOK
  <2>5. \A s \in Threads : s # t => pc[s] # "fill"
    BY <2>4 DEF UseInv, CoreInv, LockInv
  <2>6. UniqueIds'
    BY <2>2 DEF IdsInv, UniqueIds
  <2>7. \A p \in Processes : phase'[p] = "start" =>
          \A m \in Barriers(p)' : barrier'[m].id <= Cardinality(Barriers(p)')
    BY <2>2, <2>3, <2>4 DEF IdsInv, Barriers
  <2>8. \A s \in Threads :
          /\ pc'[s] \in {"lock_init", "publish"} =>
               num_barriers'[s] = Cardinality(Barriers(Process[s])')
          /\ pc'[s] = "fill" =>
               barrier'[found'[s]].id = Cardinality(Barriers(Process[s])') + 1
    BY <2>2, <2>3, <2>4, <2>5, RegistryAssumption DEF IdsInv
  <2> QED
    BY <2>6, <2>7, <2>8 DEF IdsInv
<1>4. ASSUME NEW t \in Threads, Fill(t) PROVE IdsInv'
  <2> DEFINE n == found[t]
             p == Process[t]
  <2>1. /\ n \in Nodes /\ n \notin returned /\ p \in Processes
        /\ pc[t] = "fill" /\ pc'[t] = "out"
        /\ \A s \in Threads : s # t => pc[s] # "fill" /\ pc'[s] = pc[s]
    BY <1>4, <1>typed, RegistryAssumption
       DEF Fill, Move, UseInv, CoreInv, LockInv, ListInv, OwnerInv, Live, TypeOK
  <2>2. /\ returned' = returned \cup {n}
        /\ \A m \in Nodes : m # n => barrier'[m] = barrier[m]
        /\ barrier'[n].tgid = p /\ barrier'[n].id = barrier[n].id
        /\ phase' = phase /\ num_barriers' = num_barriers
    BY <1>4, <1>typed, <2>1 DEF Fill, TypeOK
  <2>3. t = Main[p] /\ phase[p] = "start"
    BY <2>1 DEF UseInv, MainInv, InInit
  <2>4. /\ Barriers(p)' = Barriers(p) \cup {n} /\ n \notin Barriers(p)
        /\ \A q \in Processes : q # p => Barriers(q)' = Barriers(q)
    <3>1. \A m \in returned : barrier'[m] = barrier[m] /\ m # n
      BY <1>typed, <2>1, <2>2 DEF TypeOK
    <3> HIDE DEF n, p
    <3>2. Barriers(p)' = Barriers(p) \cup {n}
      BY <2>2, <3>1 DEF Barriers
    <3>3. \A q \in Processes : q # p => Barriers(q)' = Barriers(q)
      BY <2>2, <3>1 DEF Barriers
    <3> QED
      BY <3>1, <3>2, <3>3 DEF Barriers
  <2>5. Cardinality(Barriers(p)') = Cardinality(Barriers(p)) + 1
        /\ Cardinality(Barriers(p)) \in Nat
    <3>1. IsFiniteSet(Barriers(p)) /\ Cardinality(Barriers(p)) \in Nat
      BY <2>1, OwnBarriers
    <3> HIDE DEF n, p
    <3>2. Cardinality(Barriers(p) \cup {n}) = Cardinality(Barriers(p)) + 1
      BY <2>4, <3>1, FS_AddElement
    <3> QED
      BY <2>4, <3>1, <3>2
  <2>6. barrier[n].id = Cardinality(Barriers(p)) + 1
    BY <2>1 DEF IdsInv
  <2>7. /\ \A m \in Barriers(p) : barrier[m].id <= Cardinality(Barriers(p))
        /\ \A m \in returned : barrier[m].id \in Nat /\ barrier'[m] = barrier[m]
    BY <1>typed, <2>1, <2>2, <2>3 DEF IdsInv, TypeOK
  <2>8. \A s \in Threads : s # t /\ Process[s] = p => pc[s] \notin InInit
    BY <2>3 DEF UseInv, MainInv
  <2> HIDE DEF n, p
  <2>9. UniqueIds'
    <3> SUFFICES ASSUME NEW k \in returned', NEW m \in returned', k # m,
                        barrier'[k].tgid = barrier'[m].tgid
                 PROVE  barrier'[k].id # barrier'[m].id
      BY DEF UniqueIds
    <3>1. CASE k # n /\ m # n
      BY <2>2, <2>7, <3>1 DEF IdsInv, UniqueIds
    <3>2. ASSUME NEW j \in returned, barrier'[j].tgid = p
          PROVE  barrier'[j].id # barrier'[n].id
      <4>1. j \in Barriers(p) /\ barrier'[j] = barrier[j]
        BY <2>7, <3>2 DEF Barriers
      <4>2. barrier[j].id <= Cardinality(Barriers(p)) /\ barrier[j].id \in Nat
        BY <2>7, <4>1
      <4> QED
        BY <2>2, <2>5, <2>6, <4>1, <4>2
    <3> QED
      BY <2>2, <3>1, <3>2
  <2>10. ASSUME NEW q \in Processes, phase'[q] = "start", NEW m \in Barriers(q)'
         PROVE  barrier'[m].id <= Cardinality(Barriers(q)')
    <3>1. CASE q = p
      <4>1. CASE m = n
        BY <2>2, <2>5, <2>6, <3>1, <4>1
      <4>2. CASE m # n
        <5>1. m \in Barriers(p) /\ m \in returned
          BY <2>4, <2>2, <3>1, <4>2 DEF Barriers
        <5>2. barrier[m].id <= Cardinality(Barriers(p)) /\ barrier[m].id \in Nat
          BY <5>1, <2>7
        <5> QED
          BY <2>5, <2>7, <3>1, <5>1, <5>2
      <4> QED
        BY <4>1, <4>2
    <3>2. CASE q # p
      <4>1. m \in Barriers(q) /\ m \in returned
        BY <2>4, <3>2 DEF Barriers
      <4> QED
        BY <2>2, <2>4, <2>7, <2>10, <3>2, <4>1 DEF IdsInv
    <3> QED
      BY <3>1, <3>2
  <2>11. ASSUME NEW s \in Threads
         PROVE  /\ pc'[s] \in {"lock_init", "publish"} =>
                     num_barriers'[s] = Cardinality(Barriers(Process[s])')
                /\ pc'[s] = "fill" =>
                     barrier'[found'[s]].id = Cardinality(Barriers(Process[s])') + 1
    <3>1. CASE s = t
      BY <2>1, <3>1
    <3>2. CASE s # t
      <4>1. pc'[s] = pc[s] /\ pc'[s] # "fill"
        BY <2>1, <3>2
      <4>2. pc[s] \in {"lock_init", "publish"} => Process[s] # p
        BY <2>8, <3>2 DEF InInit
      <4>3. Process[s] \in Processes
        BY RegistryAssumption
      <4> QED
        BY <2>2, <2>4, <4>1, <4>2, <4>3 DEF IdsInv
    <3> QED
      BY <3>1, <3>2
  <2> QED
    BY <2>9, <2>10, <2>11 DEF IdsInv
<1>5. ASSUME NEW t \in Threads, Free(t) PROVE IdsInv'
  <2> DEFINE n == found[t]
             p == Process[t]
  <2>1. /\ n \in returned /\ barrier[n].tgid = p /\ p \in Processes
        /\ pc[t] = "free" /\ pc'[t] = "out"
        /\ \A s \in Threads : s # t => pc[s] # "fill" /\ pc'[s] = pc[s]
    BY <1>5, <1>typed, RegistryAssumption
       DEF Free, Move, UseInv, CoreInv, LockInv, OwnerInv, TypeOK
  <2>2. /\ returned' = returned \ {n}
        /\ \A m \in returned' : barrier'[m] = barrier[m]
        /\ phase' = phase /\ num_barriers' = num_barriers
    BY <1>5, <1>typed, <2>1 DEF Free, TypeOK
  <2>3. phase[p] = "ended"
    BY <2>1 DEF UseInv, MainInv, InDestroy
  <2>4. \A s \in Threads : pc[s] \in InInit => Process[s] # p
    BY <2>3 DEF UseInv, MainInv
  <2> HIDE DEF n, p
  <2>5. \A q \in Processes : q # p => Barriers(q)' = Barriers(q)
    BY <2>1, <2>2 DEF Barriers
  <2>6. UniqueIds'
    BY <2>2 DEF IdsInv, UniqueIds
  <2>7. ASSUME NEW q \in Processes, phase'[q] = "start", NEW m \in Barriers(q)'
        PROVE  barrier'[m].id <= Cardinality(Barriers(q)')
    <3>1. q # p /\ phase[q] = "start"
      BY <2>2, <2>3, <2>7
    <3>2. m \in Barriers(q) /\ barrier'[m] = barrier[m]
      BY <2>2, <2>5, <3>1 DEF Barriers
    <3> QED
      BY <2>5, <3>1, <3>2 DEF IdsInv
  <2>8. ASSUME NEW s \in Threads
        PROVE  /\ pc'[s] \in {"lock_init", "publish"} =>
                    num_barriers'[s] = Cardinality(Barriers(Process[s])')
               /\ pc'[s] # "fill"
    <3>1. pc'[s] # "fill" /\ (pc'[s] \in {"lock_init", "publish"} => pc'[s] = pc[s])
      BY <2>1
    <3>2. pc'[s] \in {"lock_init", "publish"} => Process[s] # p
      BY <2>4, <3>1 DEF InInit
    <3>3. Process[s] \in Processes
      BY RegistryAssumption
    <3> QED
      BY <2>2, <2>5, <3>1, <3>2, <3>3 DEF IdsInv
  <2> QED
    BY <2>6, <2>7, <2>8 DEF IdsInv
<1>6. ASSUME NEW n \in Nodes, WakeAll(n) PROVE IdsInv'
  BY <1>6, <1>typed, IdsKept DEF WakeAll, IdsInv, TypeOK
<1>7. ASSUME NEW p \in Processes, NextPhase(p) PROVE IdsInv'
  <2>1. /\ UNCHANGED <<barrier, returned, pc, found, num_barriers>>
        /\ \A q \in Processes : phase'[q] = "start" => phase[q] = "start"
    BY <1>7, <1>typed DEF NextPhase, TypeOK
  <2> QED
    BY <2>1, IdsKept DEF IdsInv
<1>8. CASE UNCHANGED vars
  BY <1>8, IdsKept DEF vars, IdsInv
<1> QED
  BY <1>1, <1>2, <1>3, <1>4, <1>5, <1>6, <1>7, <1>8 DEF Next, Inside

\* With two processes that use the calls like the children of user.c, no two
\* barriers that a process holds have the same identifier, though barrier_init
\* counts before it takes the lock, and the other process may free the node
\* the walk is at.
THEOREM IdentifiersAreUnique ==
  ASSUME UserProgram, TwoChildren
  PROVE  Spec => []UniqueIds
<1>1. Init => WalkInv /\ IdsInv
  BY DEF Init, WalkInv, IdsInv, UniqueIds, Barriers
<1>2. UseInv /\ WalkInv /\ IdsInv /\ [Next]_vars => WalkInv' /\ IdsInv'
  BY WalkStep, IdsStep
<1>3. IdsInv => UniqueIds
  BY DEF IdsInv
<1>4. Spec => []UseInv
  BY UseInvariance
<1> QED
  BY <1>1, <1>2, <1>3, <1>4, PTL DEF Spec
=============================================================================
