----------------------------- MODULE NucleusProofs -----------------------------
EXTENDS Nucleus, ProcQueueLemmas

(* The proofs about the nucleus (pcb.c, asl.c, syscalls.c, devices.c, scheduler.c).     *)
(* KernelOK(k, c) is what holds of the kernel data k between two procedures of a         *)
(* handler, c being the process that runs. One lemma per procedure shows that it keeps   *)
(* KernelOK; NextOK composes them, and the theorems follow from the invariant IInv.      *)

\* What is known of p_cursem: a queued process points to its queue.
CursemOK(k) == \A d \in Semd : \A p \in Members(k.s_procq[d]) : k.p_cursem[p] = d

\* The processes that wait for a device or the clock.
SoftBlocked(k) ==
    {p \in Pcb : \E d \in k.aslh : k.s_semAdd[d] \in DeviceSem /\ p \in Members(k.s_procq[d])}

\* The counters: process_c is exact, soft_block_c never too small. It may be too large,
\* because terminateFamily does not lower it.
CountsOK(k) ==
    /\ k.process_c = Cardinality(k.jobs)
    /\ Cardinality(SoftBlocked(k)) <= k.soft_block_c

\* What every procedure of the nucleus relies on and leaves behind it.
KernelOK(k, c) ==
    /\ k \in Kernel
    /\ c \in k.jobs \cup {NULL}
    /\ QueuesOK(k, c)
    /\ CursemOK(k)
    /\ CountsOK(k)

\* The demand of a finite set of processes is a number, which the demand of a subset does
\* not exceed; nobody demands nothing, and one more process adds what it needs.
LEMMA DemandNat ==
    ASSUME NEW k, NEW S \in SUBSET Pcb, NEW T \in SUBSET S
    PROVE  Demand(k, S) \in Nat /\ Demand(k, T) \in Nat /\ Demand(k, T) <= Demand(k, S)
<1> DEFINE units(X) == {u \in X \X (1 .. MaxWeight) : u[2] <= k.p_resources_needed[u[1]]}
<1>1. IsFiniteSet(S)
  BY NucleusAssumption, FS_Subset
<1>2. IsFiniteSet(1 .. MaxWeight)
  BY NucleusAssumption, FS_Interval
<1>3. IsFiniteSet(S \X (1 .. MaxWeight))
  BY <1>1, <1>2, FS_Product
<1>4. units(S) \in SUBSET (S \X (1 .. MaxWeight)) /\ units(T) \in SUBSET units(S)
  OBVIOUS
<1>5. Demand(k, S) = Cardinality(units(S)) /\ Demand(k, T) = Cardinality(units(T))
  BY DEF Demand
<1> HIDE DEF units
<1>6. IsFiniteSet(units(S))
  BY <1>3, <1>4, FS_Subset
<1>7. IsFiniteSet(units(T)) /\ Cardinality(units(T)) <= Cardinality(units(S))
  BY <1>4, <1>6, FS_Subset
<1> QED
  BY <1>5, <1>6, <1>7, FS_CardinalityType

\* Nobody demands nothing.
LEMMA DemandEmpty ==
    ASSUME NEW k
    PROVE  Demand(k, {}) = 0
<1>1. {u \in {} \X (1 .. MaxWeight) : u[2] <= k.p_resources_needed[u[1]]} = {}
  OBVIOUS
<1> QED
  BY <1>1, FS_EmptySet DEF Demand

\* One process demands the weight it still needs (p_resources_needed).
LEMMA DemandOne ==
    ASSUME NEW k, NEW p \in Pcb, k.p_resources_needed[p] \in 0 .. MaxWeight
    PROVE  Demand(k, {p}) = k.p_resources_needed[p]
<1> DEFINE need == k.p_resources_needed[p]
           units == {u \in {p} \X (1 .. MaxWeight) : u[2] <= k.p_resources_needed[u[1]]}
           f == [m \in 1 .. need |-> <<p, m>>]
<1>1. need \in Nat /\ need <= MaxWeight /\ MaxWeight \in Nat
  BY NucleusAssumption
<1>2. \A m \in 1 .. need : f[m] \in units
  BY <1>1
<1>3. \A u \in units : u[2] \in 1 .. need /\ f[u[2]] = u
  BY <1>1
<1>4. f \in Bijection(1 .. need, units)
  <2>1. f \in [1 .. need -> units]
    BY <1>2
  <2>2. \A a, b \in 1 .. need : f[a] = f[b] => a = b
    OBVIOUS
  <2>3. \A u \in units : \E m \in 1 .. need : f[m] = u
    BY <1>3
  <2> QED
    BY <2>1, <2>2, <2>3 DEF Bijection, Injection, IsInjective, Surjection
<1>5. ExistsBijection(1 .. need, units)
  BY <1>4 DEF ExistsBijection
<1>6. IsFiniteSet(1 .. need) /\ Cardinality(1 .. need) = need
  <2>1. \A n \in Nat : IsFiniteSet(1 .. n) /\ Cardinality(1 .. n) = n
    BY FS_Interval
  <2> QED
    BY <1>1, <2>1
<1>7. Cardinality(units) = need
  BY <1>5, <1>6, FS_Bijection
<1> QED
  BY <1>7 DEF Demand

\* The demand of two groups with no process in common is the sum of their demands.
LEMMA DemandAdd ==
    ASSUME NEW k, NEW S \in SUBSET Pcb, NEW T \in SUBSET Pcb, S \cap T = {}
    PROVE  Demand(k, S \cup T) = Demand(k, S) + Demand(k, T)
<1> DEFINE units(X) == {u \in X \X (1 .. MaxWeight) : u[2] <= k.p_resources_needed[u[1]]}
<1>1. units(S \cup T) = units(S) \cup units(T) /\ units(S) \cap units(T) = {}
  OBVIOUS
<1>2. ASSUME NEW X \in SUBSET Pcb
      PROVE  IsFiniteSet(units(X))
  <2>1. IsFiniteSet(X) /\ IsFiniteSet(1 .. MaxWeight)
    BY NucleusAssumption, FS_Subset, FS_Interval
  <2>2. IsFiniteSet(X \X (1 .. MaxWeight))
    BY <2>1, FS_Product
  <2>3. units(X) \in SUBSET (X \X (1 .. MaxWeight))
    OBVIOUS
  <2> QED
    BY <2>2, <2>3, FS_Subset
<1>3. \A X : Demand(k, X) = Cardinality(units(X))
  BY DEF Demand
<1> HIDE DEF units
<1>4. IsFiniteSet(units(S)) /\ IsFiniteSet(units(T))
  BY <1>2
<1>5. Cardinality({}) = 0 /\ Cardinality(units(S)) \in Nat /\ Cardinality(units(T)) \in Nat
  BY <1>4, FS_EmptySet, FS_CardinalityType
<1>6. Cardinality(units(S) \cup units(T)) = Cardinality(units(S)) + Cardinality(units(T))
  <2>1. Cardinality(units(S) \cup units(T)) =
            Cardinality(units(S)) + Cardinality(units(T)) - Cardinality(units(S) \cap units(T))
    BY <1>4, FS_Union
  <2>2. Cardinality(units(S) \cap units(T)) = 0
    BY <1>1, <1>5
  <2> QED
    BY <1>5, <2>1, <2>2
<1> QED
  BY <1>1, <1>3, <1>6

\* SYS1 (sys1_CREATEPROCESS with a free pcb) puts the child in the table, below its
\* parent, and in the ready queue.
LEMMA SpawnOK ==
    ASSUME NEW k, NEW c \in Pcb, KernelOK(k, c), NEW child \in Pcb \ k.jobs
    PROVE  KernelOK(spawn(k, c, child), c)
<1> DEFINE z == spawn(k, c, child)
<1>1. /\ k.jobs \in SUBSET Pcb
      /\ k.ready_queue \in Seq(Pcb)
      /\ c \in k.jobs /\ child \notin k.jobs /\ child # c
  BY NucleusAssumption DEF KernelOK, Kernel
<1>2. /\ z.jobs = k.jobs \cup {child}
      /\ z.ready_queue = Append(k.ready_queue, child)
      /\ z.process_c = k.process_c + 1
      /\ z.p_parent = [k.p_parent EXCEPT ![child] = c]
      /\ z.s_procq = k.s_procq
      /\ z.p_cursem = k.p_cursem
      /\ z.aslh = k.aslh
      /\ z.s_semAdd = k.s_semAdd
      /\ z.soft_block_c = k.soft_block_c
  BY DEF KernelOK, Kernel, spawn
<1>3. z \in Kernel
  <2>1. Append(k.ready_queue, child) \in Seq(Pcb)
    BY <1>1, AppendMembers
  <2>2. k.jobs \cup {child} \in SUBSET Pcb /\ k.process_c + 1 \in Int
    BY <1>1 DEF KernelOK, Kernel
  <2>3. [k.p_parent EXCEPT ![child] = c] \in [Pcb -> Pcb \cup {NULL}]
    BY DEF KernelOK, Kernel
  <2> QED
    BY <2>1, <2>2, <2>3 DEF KernelOK, Kernel, spawn
<1> HIDE DEF z
<1>4. /\ Members(z.ready_queue) = Members(k.ready_queue) \cup {child}
      /\ NoRepeats(z.ready_queue)
  BY <1>1, <1>2, AppendMembers DEF KernelOK, QueuesOK
<1>5. QueuesOK(z, c)
  BY <1>1, <1>2, <1>4 DEF KernelOK, QueuesOK
<1>6. CursemOK(z)
  BY <1>2 DEF KernelOK, CursemOK
<1>7. CountsOK(z)
  BY <1>1, <1>2, NucleusAssumption, FS_Subset, FS_AddElement DEF KernelOK, CountsOK, SoftBlocked
<1> QED
  BY <1>1, <1>2, <1>3, <1>5, <1>6, <1>7 DEF KernelOK, z

\* SEMOP releases the longest run of waiters from the head that w pays for.
LEMMA SatisfiedIsLongest ==
    ASSUME NEW k, NEW q \in Seq(Pcb), NEW w \in Nat
    PROVE  LET n == Satisfied(k, q, w)
           IN  /\ n \in 0 .. Len(q)
               /\ Demand(k, Members(SubSeq(q, 1, n))) <= w
               /\ n < Len(q) => Demand(k, Members(SubSeq(q, 1, n + 1))) > w
<1> DEFINE first(i) == Members(SubSeq(q, 1, i))
           S == {i \in 1 .. Len(q) : Demand(k, first(i)) <= w}
           n == Cardinality(S)
<1>1. Len(q) \in Nat
  BY LenProperties
<1>2. ASSUME NEW i \in 0 .. Len(q)
      PROVE  first(i) = {q[h] : h \in 1 .. i} /\ first(i) \in SUBSET Pcb
  <2>1. /\ Len(SubSeq(q, 1, i)) = i
        /\ \A h \in 1 .. i : SubSeq(q, 1, i)[h] = q[h]
    BY SplitMembers
  <2>2. \A h \in 1 .. i : q[h] \in Pcb
    BY <1>1, ElementOfSeq
  <2> QED
    BY <2>1, <2>2 DEF Members
<1> HIDE DEF first
<1>3. ASSUME NEW i \in 0 .. Len(q)
      PROVE  /\ Demand(k, first(i)) \in Nat
             /\ \A h \in 0 .. i : Demand(k, first(h)) <= Demand(k, first(i))
  <2>1. Demand(k, first(i)) \in Nat
    BY <1>2, DemandNat
  <2>2. ASSUME NEW h \in 0 .. i
        PROVE  Demand(k, first(h)) <= Demand(k, first(i))
    <3>1. first(h) \in SUBSET first(i)
      BY <1>1, <1>2
    <3> QED
      BY <1>2, <3>1, DemandNat
  <2> QED
    BY <2>1, <2>2
<1>4. \A i \in S : 1 .. i \subseteq S
  <2> SUFFICES ASSUME NEW i \in S, NEW h \in 1 .. i
               PROVE  h \in S
    OBVIOUS
  <2>1. i \in 0 .. Len(q) /\ h \in 0 .. Len(q) /\ h \in 0 .. i /\ h \in 1 .. Len(q)
    BY <1>1
  <2>2. Demand(k, first(h)) \in Nat /\ Demand(k, first(i)) \in Nat
        /\ Demand(k, first(h)) <= Demand(k, first(i))
    BY <1>3, <2>1
  <2> QED
    BY <2>1, <2>2
<1>5. n \in 0 .. Len(q) /\ S = 1 .. n
  BY <1>1, <1>4, InitialSegment
<1> HIDE DEF n
<1>6. Demand(k, first(n)) <= w
  <2>1. CASE n = 0
    <3>1. first(n) = {}
      BY <1>1, <1>2, <2>1
    <3> QED
      BY <3>1, DemandEmpty
  <2>2. CASE n # 0
    <3>1. n \in S
      <4> HIDE DEF S
      <4> QED
        BY <1>1, <1>5, <2>2
    <3> QED
      BY <3>1
  <2> QED
    BY <2>1, <2>2
<1>7. ASSUME n < Len(q)
      PROVE  Demand(k, first(n + 1)) > w
  <2>1. n + 1 \in 1 .. Len(q) /\ n + 1 \notin S
    <3> HIDE DEF S
    <3> QED
      BY <1>1, <1>5, <1>7
  <2>2. Demand(k, first(n + 1)) \in Nat
    BY <1>1, <1>3, <2>1
  <2> QED
    BY <2>1, <2>2
<1>8. n = Satisfied(k, q, w)
  BY DEF Satisfied, first, n
<1> QED
  BY <1>5, <1>6, <1>7, <1>8 DEF first

\* What SEMOP with a positive weight does to the queue of one descriptor.
LEMMA WakeUpOK ==
    ASSUME NEW k, NEW c, KernelOK(k, c), NEW s \in AllSem, NEW d \in searchAsl(k, s),
           NEW w \in Nat
    PROVE  KernelOK(wakeUp(k, s, d, w), c)
<1> DEFINE q == k.s_procq[d]
           n == Satisfied(k, q, w)
           a == SubSeq(q, 1, n)
           b == SubSeq(q, n + 1, Len(q))
           left == w - Demand(k, Members(a))
           z == wakeUp(k, s, d, w)
<1>1. /\ k \in Kernel /\ d \in Semd /\ d \in k.aslh /\ k.s_semAdd[d] = s
      /\ q \in Seq(Pcb) /\ NoRepeats(q) /\ Len(q) \in Nat
      /\ k.jobs \in SUBSET Pcb /\ k.ready_queue \in Seq(Pcb)
      /\ Members(q) \subseteq k.jobs \ ({c} \cup Members(k.ready_queue))
  BY LenProperties DEF KernelOK, Kernel, QueuesOK, searchAsl
<1>2. /\ z.jobs = k.jobs /\ z.process_c = k.process_c
      /\ z.p_parent = k.p_parent /\ z.p_cursem = k.p_cursem
      /\ z.s_semAdd = k.s_semAdd /\ z.sem = k.sem
      /\ z.ready_queue = k.ready_queue \o a
      /\ z.s_procq = [k.s_procq EXCEPT ![d] = b]
      /\ z.aslh = releaseSemd(k.aslh, d, n, b)
      /\ z.p_resources_needed = stillNeeded(k, Members(a), b, left)
      /\ z.soft_block_c = IF s \in DeviceSem THEN k.soft_block_c - n ELSE k.soft_block_c
  BY <1>1 DEF Kernel, wakeUp, isDeviceSem
<1>3. /\ n \in 0 .. Len(q)
      /\ Demand(k, Members(a)) <= w
      /\ n < Len(q) => Demand(k, Members(SubSeq(q, 1, n + 1))) > w
  BY <1>1, SatisfiedIsLongest
<1> HIDE DEF n
<1>4. /\ a \in Seq(Pcb) /\ b \in Seq(Pcb) /\ Len(a) = n /\ Len(b) = Len(q) - n
      /\ Members(q) = Members(a) \cup Members(b)
      /\ NoRepeats(a) /\ NoRepeats(b) /\ Members(a) \cap Members(b) = {}
  BY <1>1, <1>3, CutMembers
<1>5. stillNeeded(k, Members(a), b, left) \in [Pcb -> 0 .. MaxWeight]
  <2>0. /\ k.p_resources_needed \in [Pcb -> 0 .. MaxWeight] /\ MaxWeight \in Nat
        /\ Members(a) \in SUBSET Pcb
    BY <1>1, <1>4, NucleusAssumption DEF Kernel
  <2>1. ASSUME NEW p \in Pcb, p \notin Members(a), b # <<>>, p = Head(b)
        PROVE  k.p_resources_needed[p] - left \in 0 .. MaxWeight
    <3>1. n < Len(q)
      BY <1>1, <1>3, <1>4, <2>1, EmptySeq, LenProperties
    <3>2. /\ Members(SubSeq(q, 1, n + 1)) = Members(a) \cup {q[n + 1]}
          /\ p = q[n + 1]
      BY <1>1, <1>3, <2>1, <3>1, NextMember
    <3>3. Demand(k, {p}) = k.p_resources_needed[p] /\ k.p_resources_needed[p] \in 0 .. MaxWeight
      BY <2>0, DemandOne
    <3>4. {p} \in SUBSET Pcb /\ Members(a) \cap {p} = {}
      BY <2>1
    <3>5. Demand(k, Members(a) \cup {p}) = Demand(k, Members(a)) + Demand(k, {p})
      BY <2>0, <3>4, DemandAdd
    <3>6. Demand(k, Members(a)) \in Nat
      BY <2>0, DemandNat
    <3>7. Demand(k, Members(a) \cup {p}) > w
      BY <1>3, <3>1, <3>2
    <3> HIDE DEF a
    <3> QED
      BY <1>3, <2>0, <3>3, <3>5, <3>6, <3>7
  <2>2. 0 \in 0 .. MaxWeight
    BY <2>0
  <2> HIDE DEF left, a, b
  <2> QED
    BY <2>0, <2>1, <2>2 DEF stillNeeded
<1>6. releaseSemd(k.aslh, d, n, b) \in SUBSET k.aslh
  BY DEF releaseSemd
<1> HIDE DEF q, a, b, left, z
<1>7. /\ z.ready_queue \in Seq(Pcb)
      /\ Members(z.ready_queue) = Members(k.ready_queue) \cup Members(a)
      /\ NoRepeats(z.ready_queue)
  <2>1. NoRepeats(k.ready_queue) /\ Members(k.ready_queue) \cap Members(a) = {}
    BY <1>1, <1>4 DEF KernelOK, QueuesOK
  <2> QED
    BY <1>1, <1>2, <1>4, <2>1, ConcatMembers
<1>8. /\ z.s_procq[d] = b
      /\ \A e \in Semd \ {d} : z.s_procq[e] = k.s_procq[e]
  BY <1>1, <1>2 DEF Kernel
<1>9. z \in Kernel
  <2>1. (IF isDeviceSem(s) THEN k.soft_block_c - n ELSE k.soft_block_c) \in Int
    BY <1>1, <1>3 DEF Kernel
  <2>2. [k.s_procq EXCEPT ![d] = b] \in [Semd -> Seq(Pcb)]
    BY <1>1, <1>4 DEF Kernel
  <2>3. releaseSemd(k.aslh, d, n, b) \in SUBSET Semd
    BY <1>1, <1>6 DEF Kernel
  <2>4. k.ready_queue \o a \in Seq(Pcb)
    BY <1>2, <1>7
  <2> QED
    BY <1>1, <1>5, <2>1, <2>2, <2>3, <2>4 DEF Kernel, z, wakeUp, a, b, n, left, q
<1>10. \A e \in Semd : Members(z.s_procq[e]) \subseteq Members(k.s_procq[e])
  BY <1>4, <1>8 DEF q
<1>11. QueuesOK(z, c)
  <2>1. Members(z.ready_queue) \subseteq z.jobs \ {c}
    BY <1>1, <1>2, <1>4, <1>7 DEF KernelOK, QueuesOK
  <2>2. ASSUME NEW e \in Semd
        PROVE  NoRepeats(z.s_procq[e])
    BY <1>4, <1>8 DEF KernelOK, QueuesOK
  <2>3. ASSUME NEW e \in Semd
        PROVE  Members(z.s_procq[e]) \subseteq z.jobs \ ({c} \cup Members(z.ready_queue))
    <3>1. Members(z.s_procq[e]) \cap Members(a) = {}
      BY <1>1, <1>4, <1>8 DEF KernelOK, QueuesOK, q
    <3> QED
      BY <1>2, <1>7, <1>10, <3>1 DEF KernelOK, QueuesOK
  <2>4. ASSUME NEW e \in Semd, NEW f \in Semd \ {e}
        PROVE  Members(z.s_procq[e]) \cap Members(z.s_procq[f]) = {}
    BY <1>10 DEF KernelOK, QueuesOK
  <2> QED
    BY <1>7, <2>1, <2>2, <2>3, <2>4 DEF QueuesOK
<1>12. CursemOK(z)
  BY <1>2, <1>10 DEF KernelOK, CursemOK
<1>13. CountsOK(z)
  <2>1. IsFiniteSet(SoftBlocked(k)) /\ Cardinality(SoftBlocked(k)) \in Nat
        /\ k.soft_block_c \in Int /\ Cardinality(SoftBlocked(k)) <= k.soft_block_c
    <3>1. SoftBlocked(k) \in SUBSET Pcb
      BY DEF SoftBlocked
    <3> QED
      BY <1>1, <3>1, NucleusAssumption, FS_Subset, FS_CardinalityType
         DEF KernelOK, Kernel, CountsOK
  <2>2. SoftBlocked(z) \in SUBSET SoftBlocked(k)
    <3>1. z.aslh \subseteq k.aslh /\ z.aslh \subseteq Semd /\ z.s_semAdd = k.s_semAdd
      BY <1>2, <1>6, <1>9 DEF Kernel
    <3> QED
      BY <3>1, <1>10 DEF SoftBlocked
  <2>3. CASE s \notin DeviceSem
    <3>1. Cardinality(SoftBlocked(z)) <= Cardinality(SoftBlocked(k))
          /\ Cardinality(SoftBlocked(z)) \in Nat
      BY <2>1, <2>2, FS_Subset, FS_CardinalityType
    <3> QED
      BY <1>2, <2>1, <2>3, <3>1 DEF KernelOK, CountsOK
  <2>4. CASE s \in DeviceSem
    <3>1. Members(a) \in SUBSET SoftBlocked(k)
      BY <1>1, <1>4, <2>4 DEF SoftBlocked, q
    <3>2. SoftBlocked(z) \in SUBSET (SoftBlocked(k) \ Members(a))
      <4>1. \A e \in Semd : Members(z.s_procq[e]) \cap Members(a) = {}
        BY <1>1, <1>4, <1>8 DEF KernelOK, QueuesOK, q
      <4>2. z.aslh \subseteq Semd
        BY <1>9 DEF Kernel
      <4> QED
        BY <2>2, <4>1, <4>2 DEF SoftBlocked
    <3>3. Cardinality(Members(a)) = n
      BY <1>4, CountMembers
    <3>4. SoftBlocked(k) \cap Members(a) = Members(a)
      BY <3>1
    <3>5. /\ IsFiniteSet(SoftBlocked(k) \ Members(a))
          /\ Cardinality(SoftBlocked(k) \ Members(a)) = Cardinality(SoftBlocked(k)) - n
      BY <2>1, <3>3, <3>4, FS_Difference
    <3>6. /\ Cardinality(SoftBlocked(z)) <= Cardinality(SoftBlocked(k)) - n
          /\ Cardinality(SoftBlocked(z)) \in Nat
      BY <3>2, <3>5, FS_Subset, FS_CardinalityType
    <3>7. n \in Int
      BY <1>1, <1>3
    <3> QED
      BY <1>2, <2>1, <2>4, <3>6, <3>7 DEF KernelOK, CountsOK
  <2> QED
    BY <2>3, <2>4
<1> QED
  BY <1>1, <1>2, <1>9, <1>11, <1>12, <1>13 DEF KernelOK, z

\* KernelOK says nothing of the values of the semaphores, of the needs or of the tree.
LEMMA KernelOKFrame ==
    ASSUME NEW k, NEW c, KernelOK(k, c), NEW z \in Kernel,
           z.jobs = k.jobs, z.ready_queue = k.ready_queue, z.s_procq = k.s_procq,
           z.p_cursem = k.p_cursem, z.aslh = k.aslh, z.s_semAdd = k.s_semAdd,
           z.process_c = k.process_c, k.soft_block_c <= z.soft_block_c
    PROVE  KernelOK(z, c)
<1>1. SoftBlocked(z) = SoftBlocked(k)
  BY DEF SoftBlocked
<1>2. SoftBlocked(k) \in SUBSET Pcb
  BY DEF SoftBlocked
<1>3. Cardinality(SoftBlocked(k)) \in Nat
  BY <1>2, NucleusAssumption, FS_Subset, FS_CardinalityType
<1>4. k.soft_block_c \in Int /\ z.soft_block_c \in Int
  BY DEF KernelOK, Kernel
<1>5. CountsOK(z)
  BY <1>1, <1>3, <1>4 DEF KernelOK, CountsOK
<1>6. QueuesOK(z, c) /\ CursemOK(z)
  BY DEF KernelOK, QueuesOK, CursemOK
<1> QED
  BY <1>5, <1>6 DEF KernelOK

\* SEMOP with a positive weight.
LEMMA VOK ==
    ASSUME NEW k, NEW c, KernelOK(k, c), NEW s \in AllSem, NEW w \in Nat
    PROVE  KernelOK(V(k, s, w), c)
<1> DEFINE z == [k EXCEPT !.sem[s] = @ + w]
<1>1. k \in Kernel
  BY DEF KernelOK
<1>2. z \in Kernel
  <2>1. [k.sem EXCEPT ![s] = k.sem[s] + w] \in [AllSem -> Int]
    BY <1>1 DEF Kernel
  <2> QED
    BY <1>1, <2>1 DEF Kernel
<1>3. /\ z.jobs = k.jobs /\ z.ready_queue = k.ready_queue /\ z.s_procq = k.s_procq
      /\ z.p_cursem = k.p_cursem /\ z.aslh = k.aslh /\ z.s_semAdd = k.s_semAdd
      /\ z.process_c = k.process_c /\ z.soft_block_c = k.soft_block_c
      /\ k.soft_block_c \in Int
  BY <1>1 DEF Kernel
<1>4. V(k, s, w) = IF searchAsl(k, s) = {} THEN z
                   ELSE wakeUp(z, s, CHOOSE d \in searchAsl(k, s) : TRUE, w)
  BY DEF V
<1> HIDE DEF z
<1>5. KernelOK(z, c)
  BY <1>2, <1>3, KernelOKFrame
<1>6. searchAsl(z, s) = searchAsl(k, s)
  BY <1>3 DEF searchAsl
<1>7. ASSUME NEW d \in searchAsl(k, s)
      PROVE  KernelOK(wakeUp(z, s, d, w), c)
  BY <1>5, <1>6, WakeUpOK
<1> QED
  BY <1>4, <1>5, <1>7

\* Taking a free descriptor for a semaphore.
LEMMA TakeDescriptorOK ==
    ASSUME NEW k, NEW c, KernelOK(k, c), NEW s \in AllSem, NEW d \in Semd \ k.aslh
    PROVE  LET z == [k EXCEPT !.aslh = @ \cup {d}, !.s_semAdd[d] = s, !.s_procq[d] = <<>>]
           IN  /\ KernelOK(z, c)
               /\ z.s_semAdd[d] = s /\ z.soft_block_c = k.soft_block_c
               /\ Cardinality(SoftBlocked(z)) <= Cardinality(SoftBlocked(k))
<1> DEFINE z == [k EXCEPT !.aslh = @ \cup {d}, !.s_semAdd[d] = s, !.s_procq[d] = <<>>]
<1>1. k \in Kernel
  BY DEF KernelOK
<1>2. z \in Kernel
  <2>1. k.aslh \cup {d} \in SUBSET Semd
    BY <1>1 DEF Kernel
  <2>2. [k.s_semAdd EXCEPT ![d] = s] \in [Semd -> AllSem \cup {NULL}]
    BY <1>1 DEF Kernel
  <2>3. [k.s_procq EXCEPT ![d] = <<>>] \in [Semd -> Seq(Pcb)]
    BY <1>1, EmptySeq DEF Kernel
  <2> QED
    BY <1>1, <2>1, <2>2, <2>3 DEF Kernel
<1>3. /\ z.jobs = k.jobs /\ z.ready_queue = k.ready_queue /\ z.p_cursem = k.p_cursem
      /\ z.process_c = k.process_c /\ z.soft_block_c = k.soft_block_c
      /\ z.aslh = k.aslh \cup {d}
      /\ z.s_semAdd = [k.s_semAdd EXCEPT ![d] = s]
      /\ z.s_procq = [k.s_procq EXCEPT ![d] = <<>>]
  BY <1>1 DEF Kernel
<1> HIDE DEF z
<1>4. /\ z.s_semAdd[d] = s /\ z.s_procq[d] = <<>>
      /\ \A e \in Semd \ {d} : z.s_semAdd[e] = k.s_semAdd[e] /\ z.s_procq[e] = k.s_procq[e]
  BY <1>1, <1>3 DEF Kernel
<1>5. Members(z.s_procq[d]) = {} /\ NoRepeats(z.s_procq[d])
  <2>1. Members(<<>>) = {} /\ NoRepeats(<<>>)
    BY DEF Members, NoRepeats
  <2> QED
    BY <1>4, <2>1
<1>6. QueuesOK(z, c)
  BY <1>3, <1>4, <1>5 DEF KernelOK, QueuesOK
<1>7. CursemOK(z)
  BY <1>3, <1>4, <1>5 DEF KernelOK, CursemOK
<1>8. SoftBlocked(z) \in SUBSET SoftBlocked(k) /\ SoftBlocked(k) \in SUBSET Pcb
  <2>1. k.aslh \subseteq Semd
    BY <1>1 DEF Kernel
  <2> QED
    BY <1>3, <1>4, <1>5, <2>1 DEF SoftBlocked
<1>9. /\ Cardinality(SoftBlocked(z)) <= Cardinality(SoftBlocked(k))
      /\ Cardinality(SoftBlocked(z)) \in Nat /\ Cardinality(SoftBlocked(k)) \in Nat
  <2>1. IsFiniteSet(SoftBlocked(k))
    BY <1>8, NucleusAssumption, FS_Subset
  <2> QED
    BY <1>8, <2>1, FS_Subset, FS_CardinalityType
<1>10. CountsOK(z)
  <2>1. k.soft_block_c \in Int
    BY <1>1 DEF Kernel
  <2> QED
    BY <1>3, <1>9, <2>1 DEF KernelOK, CountsOK
<1> QED
  BY <1>2, <1>3, <1>4, <1>6, <1>7, <1>9, <1>10 DEF KernelOK, z

\* The running process queues up and nobody runs.
LEMMA EnqueueOK ==
    ASSUME NEW k, NEW c \in Pcb, KernelOK(k, c), NEW d \in Semd,
           k.s_semAdd[d] \in DeviceSem => Cardinality(SoftBlocked(k)) < k.soft_block_c
    PROVE  KernelOK(Enqueue(k, c, d), NULL)
<1> DEFINE z == Enqueue(k, c, d)
<1>1. /\ k \in Kernel /\ k.s_procq[d] \in Seq(Pcb) /\ c \in k.jobs
      /\ NULL \notin Pcb /\ k.jobs \subseteq Pcb
  BY NucleusAssumption DEF KernelOK, Kernel
<1>2. /\ Append(k.s_procq[d], c) \in Seq(Pcb)
      /\ Members(Append(k.s_procq[d], c)) = Members(k.s_procq[d]) \cup {c}
      /\ NoRepeats(Append(k.s_procq[d], c))
  BY <1>1, AppendMembers DEF KernelOK, QueuesOK
<1>3. z \in Kernel
  <2>1. [k.s_procq EXCEPT ![d] = Append(k.s_procq[d], c)] \in [Semd -> Seq(Pcb)]
    BY <1>1, <1>2 DEF Kernel
  <2>2. [k.p_cursem EXCEPT ![c] = d] \in [Pcb -> Semd \cup {NULL}]
    BY <1>1 DEF Kernel
  <2> QED
    BY <1>1, <2>1, <2>2 DEF Kernel, Enqueue
<1>4. /\ z.jobs = k.jobs /\ z.ready_queue = k.ready_queue
      /\ z.process_c = k.process_c /\ z.soft_block_c = k.soft_block_c
      /\ z.aslh = k.aslh /\ z.s_semAdd = k.s_semAdd
      /\ z.p_cursem = [k.p_cursem EXCEPT ![c] = d]
      /\ z.s_procq = [k.s_procq EXCEPT ![d] = Append(k.s_procq[d], c)]
  BY <1>1 DEF Kernel, Enqueue
<1> HIDE DEF z
<1>5. /\ Members(z.s_procq[d]) = Members(k.s_procq[d]) \cup {c} /\ NoRepeats(z.s_procq[d])
      /\ \A e \in Semd \ {d} : z.s_procq[e] = k.s_procq[e]
      /\ z.p_cursem[c] = d
      /\ \A p \in Pcb \ {c} : z.p_cursem[p] = k.p_cursem[p]
  BY <1>1, <1>2, <1>4 DEF Kernel
<1>6. QueuesOK(z, NULL)
  <2>0. NULL \notin k.jobs /\ c \notin Members(k.ready_queue)
        /\ \A e \in Semd : c \notin Members(k.s_procq[e])
    BY <1>1 DEF KernelOK, QueuesOK
  <2>1. NoRepeats(z.ready_queue) /\ Members(z.ready_queue) \subseteq z.jobs \ {NULL}
    BY <1>4, <2>0 DEF KernelOK, QueuesOK
  <2>2. ASSUME NEW e \in Semd
        PROVE  NoRepeats(z.s_procq[e])
    BY <1>5 DEF KernelOK, QueuesOK
  <2>3. ASSUME NEW e \in Semd
        PROVE  Members(z.s_procq[e]) \subseteq z.jobs \ ({NULL} \cup Members(z.ready_queue))
    <3>1. Members(k.s_procq[e]) \subseteq k.jobs \ ({NULL} \cup Members(k.ready_queue))
      BY <2>0 DEF KernelOK, QueuesOK
    <3> QED
      BY <1>1, <1>4, <1>5, <2>0, <3>1
  <2>4. ASSUME NEW e \in Semd, NEW f \in Semd \ {e}
        PROVE  Members(z.s_procq[e]) \cap Members(z.s_procq[f]) = {}
    <3>1. Members(k.s_procq[e]) \cap Members(k.s_procq[f]) = {}
      BY DEF KernelOK, QueuesOK
    <3> QED
      BY <1>5, <2>0, <3>1
  <2> QED
    BY <2>1, <2>2, <2>3, <2>4 DEF QueuesOK
<1>7. CursemOK(z)
  <2>1. \A e \in Semd : Members(k.s_procq[e]) \subseteq Pcb \ {c}
    BY <1>1 DEF KernelOK, QueuesOK
  <2> QED
    BY <1>5, <2>1 DEF KernelOK, CursemOK
<1>8. SoftBlocked(k) \in SUBSET Pcb /\ IsFiniteSet(SoftBlocked(k))
      /\ Cardinality(SoftBlocked(k)) \in Nat /\ k.soft_block_c \in Int
  <2>1. SoftBlocked(k) \in SUBSET Pcb
    BY DEF SoftBlocked
  <2> QED
    BY <1>1, <2>1, NucleusAssumption, FS_Subset, FS_CardinalityType DEF Kernel
<1>9. Cardinality(SoftBlocked(z)) <= k.soft_block_c
  <2>0. k.aslh \subseteq Semd
    BY <1>1 DEF Kernel
  <2>1. CASE k.s_semAdd[d] \notin DeviceSem
    <3>1. SoftBlocked(z) = SoftBlocked(k)
      BY <1>4, <1>5, <2>0, <2>1 DEF SoftBlocked
    <3> QED
      BY <3>1 DEF KernelOK, CountsOK
  <2>2. CASE k.s_semAdd[d] \in DeviceSem
    <3>1. SoftBlocked(z) \in SUBSET (SoftBlocked(k) \cup {c})
      BY <1>4, <1>5, <2>0 DEF SoftBlocked
    <3>2. /\ IsFiniteSet(SoftBlocked(k) \cup {c})
          /\ \/ Cardinality(SoftBlocked(k) \cup {c}) = Cardinality(SoftBlocked(k))
             \/ Cardinality(SoftBlocked(k) \cup {c}) = Cardinality(SoftBlocked(k)) + 1
      BY <1>8, FS_AddElement
    <3>3. /\ Cardinality(SoftBlocked(z)) <= Cardinality(SoftBlocked(k) \cup {c})
          /\ Cardinality(SoftBlocked(z)) \in Nat
      BY <3>1, <3>2, FS_Subset, FS_CardinalityType
    <3> QED
      BY <1>8, <2>2, <3>2, <3>3
  <2> QED
    BY <2>1, <2>2
<1>10. CountsOK(z)
  BY <1>4, <1>9 DEF KernelOK, CountsOK
<1> QED
  BY <1>3, <1>6, <1>7, <1>10 DEF KernelOK, z

\* insertBlocked with what SEMOP does before it, whether it finds a descriptor or not.
LEMMA InsertBlockedOK ==
    ASSUME NEW k, NEW c \in Pcb, KernelOK(k, c), NEW s \in AllSem,
           s \in DeviceSem => Cardinality(SoftBlocked(k)) < k.soft_block_c,
           NEW z \in insertBlocked(k, s, c)
    PROVE  KernelOK(z, NULL)
<1>1. CASE searchAsl(k, s) # {}
  <2>1. PICK d \in searchAsl(k, s) : z = Enqueue(k, c, d)
    BY <1>1 DEF insertBlocked
  <2>2. d \in Semd /\ k.s_semAdd[d] = s
    BY DEF searchAsl, KernelOK, Kernel
  <2> QED
    BY <2>1, <2>2, EnqueueOK
<1>2. CASE searchAsl(k, s) = {} /\ k.aslh = Semd
  <2>1. z = k
    BY <1>2 DEF insertBlocked
  <2>2. QueuesOK(k, NULL)
    <3>1. NULL \notin k.jobs
      BY NucleusAssumption DEF KernelOK, Kernel
    <3> QED
      BY <3>1 DEF KernelOK, QueuesOK
  <2> QED
    BY <2>1, <2>2 DEF KernelOK
<1>3. CASE searchAsl(k, s) = {} /\ k.aslh # Semd
  <2> DEFINE taken(d) ==
        [k EXCEPT !.aslh = @ \cup {d}, !.s_semAdd[d] = s, !.s_procq[d] = <<>>]
  <2>1. PICK d \in Semd \ k.aslh : z = Enqueue(taken(d), c, d)
    BY <1>3 DEF insertBlocked
  <2>2. /\ KernelOK(taken(d), c)
        /\ taken(d).s_semAdd[d] = s /\ taken(d).soft_block_c = k.soft_block_c
        /\ Cardinality(SoftBlocked(taken(d))) <= Cardinality(SoftBlocked(k))
    BY TakeDescriptorOK
  <2> HIDE DEF taken
  <2>3. /\ Cardinality(SoftBlocked(k)) \in Nat /\ Cardinality(SoftBlocked(taken(d))) \in Nat
        /\ k.soft_block_c \in Int
    <3>1. SoftBlocked(k) \in SUBSET Pcb /\ SoftBlocked(taken(d)) \in SUBSET Pcb
      BY DEF SoftBlocked
    <3> QED
      BY <3>1, NucleusAssumption, FS_Subset, FS_CardinalityType DEF KernelOK, Kernel
  <2>4. s \in DeviceSem => Cardinality(SoftBlocked(taken(d))) < taken(d).soft_block_c
    BY <2>2, <2>3
  <2> QED
    BY <2>1, <2>2, <2>4, EnqueueOK
<1> QED
  BY <1>1, <1>2, <1>3

\* terminateFamily of a process whose family does not hold the running one, unless it is
\* the running one; r runs afterwards.
LEMMA TerminateFamilyOK ==
    ASSUME NEW k, NEW c, KernelOK(k, c), NEW target \in k.jobs,
           NEW r \in {NULL, c}, r \notin Family(k, target)
    PROVE  KernelOK(terminateFamily(k, target), r)
<1> DEFINE F == Family(k, target)
           from(d) == {p \in F : k.p_cursem[p] = d}
           z == terminateFamily(k, target)
<1>1. /\ k \in Kernel /\ F \subseteq k.jobs /\ k.jobs \in SUBSET Pcb
      /\ k.ready_queue \in Seq(Pcb) /\ \A d \in Semd : k.s_procq[d] \in Seq(Pcb)
      /\ IsFiniteSet(k.jobs) /\ IsFiniteSet(F)
  <2>1. k \in Kernel /\ F \subseteq k.jobs /\ k.jobs \in SUBSET Pcb
    BY DEF KernelOK, Kernel, Family
  <2>2. F \in SUBSET Pcb
    BY <2>1
  <2> HIDE DEF F
  <2> QED
    BY <2>1, <2>2, NucleusAssumption, FS_Subset DEF Kernel
<1> HIDE DEF F
<1>2. z = [k EXCEPT
             !.jobs = k.jobs \ F,
             !.process_c = k.process_c - Cardinality(F),
             !.ready_queue = Without(k.ready_queue, F),
             !.sem = returned(k, F),
             !.s_procq = [d \in Semd |-> Without(k.s_procq[d], from(d))],
             !.p_parent = [p \in Pcb |-> IF p \in F THEN NULL ELSE k.p_parent[p]],
             !.p_cursem = [p \in Pcb |-> IF p \in F THEN NULL ELSE k.p_cursem[p]],
             !.p_resources_needed =
                 [p \in Pcb |-> IF p \in F THEN 0 ELSE k.p_resources_needed[p]]]
  BY DEF terminateFamily, F
<1> HIDE DEF z
<1>3. /\ z.jobs = k.jobs \ F
      /\ z.process_c = k.process_c - Cardinality(F)
      /\ z.ready_queue = Without(k.ready_queue, F)
      /\ z.s_procq = [d \in Semd |-> Without(k.s_procq[d], from(d))]
      /\ z.p_cursem = [p \in Pcb |-> IF p \in F THEN NULL ELSE k.p_cursem[p]]
      /\ z.aslh = k.aslh /\ z.s_semAdd = k.s_semAdd /\ z.soft_block_c = k.soft_block_c
  BY <1>1, <1>2 DEF Kernel
<1>4. /\ Without(k.ready_queue, F) \in Seq(Pcb)
      /\ Members(Without(k.ready_queue, F)) = Members(k.ready_queue) \ F
      /\ NoRepeats(Without(k.ready_queue, F))
  <2>1. NoRepeats(k.ready_queue)
    BY DEF KernelOK, QueuesOK
  <2> QED
    BY <1>1, <2>1, WithoutProperties
<1>5. ASSUME NEW d \in Semd
      PROVE  /\ Without(k.s_procq[d], from(d)) \in Seq(Pcb)
             /\ Members(Without(k.s_procq[d], from(d))) = Members(k.s_procq[d]) \ F
             /\ NoRepeats(Without(k.s_procq[d], from(d)))
  <2>1. NoRepeats(k.s_procq[d])
    BY DEF KernelOK, QueuesOK
  <2>2. Members(k.s_procq[d]) \ from(d) = Members(k.s_procq[d]) \ F
    BY DEF KernelOK, CursemOK
  <2> HIDE DEF from
  <2> QED
    BY <1>1, <2>1, <2>2, WithoutProperties
<1>6. z \in Kernel
  <2>1. k.jobs \ F \in SUBSET Pcb
    BY <1>1
  <2>2. k.process_c - Cardinality(F) \in Int
    BY <1>1, FS_CardinalityType DEF Kernel
  <2>3. returned(k, F) \in [AllSem -> Int]
    <3>1. ASSUME NEW s \in AllSem
          PROVE  Demand(k, {p \in F : k.p_cursem[p] # NULL /\ k.s_semAdd[k.p_cursem[p]] = s})
                     \in Nat
      <4>1. {p \in F : k.p_cursem[p] # NULL /\ k.s_semAdd[k.p_cursem[p]] = s} \in SUBSET Pcb
        BY <1>1
      <4> QED
        BY <4>1, DemandNat
    <3>2. \A s \in AllSem : k.sem[s] \in Int
      BY <1>1 DEF Kernel
    <3> QED
      BY <3>1, <3>2 DEF returned
  <2>4. [d \in Semd |-> Without(k.s_procq[d], from(d))] \in [Semd -> Seq(Pcb)]
    BY <1>5
  <2>5. [p \in Pcb |-> IF p \in F THEN NULL ELSE k.p_parent[p]] \in [Pcb -> Pcb \cup {NULL}]
    BY <1>1 DEF Kernel
  <2>6. [p \in Pcb |-> IF p \in F THEN NULL ELSE k.p_cursem[p]] \in [Pcb -> Semd \cup {NULL}]
    BY <1>1 DEF Kernel
  <2>7. [p \in Pcb |-> IF p \in F THEN 0 ELSE k.p_resources_needed[p]]
            \in [Pcb -> 0 .. MaxWeight]
    <3>1. 0 \in 0 .. MaxWeight
      BY NucleusAssumption
    <3> QED
      BY <1>1, <3>1 DEF Kernel
  <2> HIDE DEF from
  <2> QED
    BY <1>1, <1>2, <1>4, <2>1, <2>2, <2>3, <2>4, <2>5, <2>6, <2>7 DEF Kernel
<1>7. /\ Members(z.ready_queue) = Members(k.ready_queue) \ F /\ NoRepeats(z.ready_queue)
      /\ \A d \in Semd : /\ Members(z.s_procq[d]) = Members(k.s_procq[d]) \ F
                        /\ NoRepeats(z.s_procq[d])
  BY <1>3, <1>4, <1>5
<1>8. r \in z.jobs \cup {NULL}
  BY <1>3 DEF KernelOK, F
<1>9. QueuesOK(z, r)
  <2>0. NULL \notin k.jobs
    BY <1>1, NucleusAssumption
  <2>1. Members(z.ready_queue) \subseteq z.jobs \ {r}
    BY <1>3, <1>7, <2>0 DEF KernelOK, QueuesOK
  <2>2. ASSUME NEW e \in Semd
        PROVE  Members(z.s_procq[e]) \subseteq z.jobs \ ({r} \cup Members(z.ready_queue))
    <3>1. Members(k.s_procq[e]) \subseteq k.jobs \ ({r} \cup Members(k.ready_queue))
      BY <2>0 DEF KernelOK, QueuesOK
    <3> QED
      BY <1>3, <1>7, <3>1
  <2>3. ASSUME NEW e \in Semd, NEW f \in Semd \ {e}
        PROVE  Members(z.s_procq[e]) \cap Members(z.s_procq[f]) = {}
    <3>1. Members(k.s_procq[e]) \cap Members(k.s_procq[f]) = {}
      BY DEF KernelOK, QueuesOK
    <3> QED
      BY <1>7, <3>1
  <2> QED
    BY <1>7, <2>1, <2>2, <2>3 DEF QueuesOK
<1>10. CursemOK(z)
  <2>1. \A d \in Semd : \A p \in Members(z.s_procq[d]) : p \in Pcb \ F /\ k.p_cursem[p] = d
    BY <1>1, <1>7 DEF KernelOK, CursemOK, QueuesOK
  <2> QED
    BY <1>3, <2>1 DEF CursemOK
<1>11. CountsOK(z)
  <2>1. Cardinality(k.jobs \ F) = Cardinality(k.jobs) - Cardinality(F)
    <3>1. k.jobs \cap F = F
      BY <1>1
    <3> QED
      BY <1>1, <3>1, FS_Difference
  <2>2. SoftBlocked(z) \in SUBSET SoftBlocked(k)
    <3>1. k.aslh \subseteq Semd
      BY <1>1 DEF Kernel
    <3> QED
      BY <1>3, <1>7, <3>1 DEF SoftBlocked
  <2>3. IsFiniteSet(SoftBlocked(k))
    <3>1. SoftBlocked(k) \in SUBSET Pcb
      BY DEF SoftBlocked
    <3> QED
      BY <3>1, NucleusAssumption, FS_Subset
  <2>4. /\ Cardinality(SoftBlocked(z)) <= Cardinality(SoftBlocked(k))
        /\ Cardinality(SoftBlocked(z)) \in Nat /\ Cardinality(SoftBlocked(k)) \in Nat
    BY <2>2, <2>3, FS_Subset, FS_CardinalityType
  <2>5. k.soft_block_c \in Int
    BY <1>1 DEF Kernel
  <2> QED
    BY <1>3, <2>1, <2>4, <2>5 DEF KernelOK, CountsOK
<1> QED
  BY <1>6, <1>8, <1>9, <1>10, <1>11 DEF KernelOK, z

\* Another ready queue, made of the old one and the running process, and nobody runs.
LEMMA LineUpOK ==
    ASSUME NEW k, NEW c, KernelOK(k, c), NEW line \in Seq(Pcb), NoRepeats(line),
           Members(line) = Members(k.ready_queue) \cup ({c} \ {NULL})
    PROVE  KernelOK([k EXCEPT !.ready_queue = line], NULL)
<1> DEFINE z == [k EXCEPT !.ready_queue = line]
<1>1. k \in Kernel /\ NULL \notin k.jobs
  BY NucleusAssumption DEF KernelOK, Kernel
<1>2. /\ z \in Kernel
      /\ z.jobs = k.jobs /\ z.ready_queue = line /\ z.s_procq = k.s_procq
      /\ z.p_cursem = k.p_cursem /\ z.aslh = k.aslh /\ z.s_semAdd = k.s_semAdd
      /\ z.process_c = k.process_c /\ z.soft_block_c = k.soft_block_c
  BY <1>1 DEF Kernel
<1> HIDE DEF z
<1>3. QueuesOK(z, NULL)
  <2>1. Members(line) \subseteq k.jobs \ {NULL}
    BY <1>1 DEF KernelOK, QueuesOK
  <2>2. \A d \in Semd :
            Members(k.s_procq[d]) \subseteq k.jobs \ ({NULL} \cup Members(line))
    BY <1>1 DEF KernelOK, QueuesOK
  <2> QED
    BY <1>2, <2>1, <2>2 DEF KernelOK, QueuesOK
<1>4. CursemOK(z)
  BY <1>2 DEF KernelOK, CursemOK
<1>5. CountsOK(z)
  BY <1>2 DEF KernelOK, CountsOK, SoftBlocked
<1> QED
  BY <1>2, <1>3, <1>4, <1>5 DEF KernelOK, z

\* Sending processes to the tail keeps who is in the queue.
LEMMA TurnsKeepMembers ==
    ASSUME NEW q \in Seq(Pcb), NEW line \in Turns(q)
    PROVE  /\ line \in Seq(Pcb) /\ Members(line) = Members(q)
           /\ NoRepeats(q) => NoRepeats(line)
<1>1. CASE line = q
  BY <1>1
<1>2. CASE line # q
  <2>1. PICK n \in 1 .. Len(q) - 1 : line = Rotate(q, n)
    BY <1>2 DEF Turns
  <2>2. n \in 0 .. Len(q)
    BY LenProperties
  <2> QED
    BY <2>1, <2>2, RotateProperties
<1> QED
  BY <1>1, <1>2

\* The tick is a V of as many units as there are debts on the clock semaphore.
LEMMA PseudoTickOK ==
    ASSUME NEW k, NEW c, KernelOK(k, c)
    PROVE  KernelOK(pseudoTick(k), c)
<1>1. Clock \in AllSem
  BY DEF AllSem, DeviceSem, IODevice
<1>2. k.sem[Clock] \in Int
  BY <1>1 DEF KernelOK, Kernel
<1>3. k.sem[Clock] < 0 => -k.sem[Clock] \in Nat
  BY <1>2
<1> QED
  BY <1>1, <1>3, VOK DEF pseudoTick

\* What the CPU does agrees with the kernel.
CpuOK ==
    /\ cpu \in {"running", "waiting", "halted", "deadlock", "fatal"}
    /\ cpu = "running" => current_process # NULL
    /\ cpu = "deadlock" => kernel.ready_queue = <<>> /\ kernel.soft_block_c = 0
    /\ cpu = "halted" <=> kernel.process_c = 0

\* The end of scheduler().
LEMMA DispatchOK ==
    ASSUME NEW k, KernelOK(k, NULL), dispatch(k)
    PROVE  KernelOK(kernel', current_process') /\ CpuOK'
<1>1. /\ k \in Kernel /\ k.ready_queue \in Seq(Pcb) /\ NoRepeats(k.ready_queue)
      /\ k.jobs \in SUBSET Pcb /\ NULL \notin Pcb
  BY NucleusAssumption DEF KernelOK, Kernel, QueuesOK
<1>2. CASE k.ready_queue # <<>>
  <2> DEFINE h == Head(k.ready_queue)
  <2>1. kernel' = [k EXCEPT !.ready_queue = Tail(k.ready_queue)]
        /\ current_process' = h /\ cpu' = "running"
    BY <1>2 DEF dispatch
  <2>2. /\ h \in Pcb /\ Tail(k.ready_queue) \in Seq(Pcb)
        /\ Members(k.ready_queue) = {h} \cup Members(Tail(k.ready_queue))
        /\ NoRepeats(Tail(k.ready_queue)) /\ h \notin Members(Tail(k.ready_queue))
    BY <1>1, <1>2, HeadTailMembers
  <2> DEFINE z == [k EXCEPT !.ready_queue = Tail(k.ready_queue)]
  <2>3. /\ z \in Kernel
        /\ z.jobs = k.jobs /\ z.ready_queue = Tail(k.ready_queue) /\ z.s_procq = k.s_procq
        /\ z.p_cursem = k.p_cursem /\ z.aslh = k.aslh /\ z.s_semAdd = k.s_semAdd
        /\ z.process_c = k.process_c /\ z.soft_block_c = k.soft_block_c
    BY <1>1, <2>2 DEF Kernel
  <2> HIDE DEF z, h
  <2>4. h \in z.jobs
    BY <2>2, <2>3 DEF KernelOK, QueuesOK
  <2>5. QueuesOK(z, h)
    <3>1. Members(z.ready_queue) \subseteq z.jobs \ {h}
      BY <2>2, <2>3 DEF KernelOK, QueuesOK
    <3>2. \A d \in Semd :
            Members(z.s_procq[d]) \subseteq z.jobs \ ({h} \cup Members(z.ready_queue))
      BY <2>2, <2>3 DEF KernelOK, QueuesOK
    <3> QED
      BY <2>2, <2>3, <3>1, <3>2 DEF KernelOK, QueuesOK
  <2>6. CursemOK(z) /\ CountsOK(z)
    BY <2>3 DEF KernelOK, CursemOK, CountsOK, SoftBlocked
  <2>7. KernelOK(z, h)
    BY <2>3, <2>4, <2>5, <2>6 DEF KernelOK
  <2>8. z.process_c # 0
    <3>1. IsFiniteSet(z.jobs) /\ z.jobs # {}
      BY <1>1, <2>3, <2>4, NucleusAssumption, FS_Subset
    <3> QED
      BY <2>6, <3>1, FS_EmptySet DEF CountsOK
  <2>9. kernel' = z
    BY <2>1 DEF z
  <2> QED
    BY <1>1, <2>1, <2>2, <2>7, <2>8, <2>9 DEF CpuOK
<1>3. CASE k.ready_queue = <<>>
  <2>1. kernel' = k /\ current_process' = NULL /\ cpu' = stop(k)
    BY <1>3 DEF dispatch
  <2>2. stop(k) = IF k.process_c = 0 THEN "halted"
                  ELSE IF k.soft_block_c = 0 THEN "deadlock" ELSE "waiting"
    BY DEF stop
  <2> QED
    BY <1>3, <2>1, <2>2 DEF CpuOK
<1> QED
  BY <1>2, <1>3

\* The line that scheduler() begins with: the running process, then those that are ready.
LEMMA WholeLine ==
    ASSUME NEW k, NEW c, KernelOK(k, c)
    PROVE  LET all == (IF c = NULL THEN <<>> ELSE <<c>>) \o k.ready_queue
           IN  /\ all \in Seq(Pcb) /\ NoRepeats(all)
               /\ Members(all) = Members(k.ready_queue) \cup ({c} \ {NULL})
<1> DEFINE hd == IF c = NULL THEN <<>> ELSE <<c>>
<1>1. /\ hd \in Seq(Pcb) /\ Members(hd) = {c} \ {NULL} /\ NoRepeats(hd)
  <2>1. c # NULL => c \in Pcb
    BY DEF KernelOK, Kernel
  <2>2. Members(<<>>) = {} /\ NoRepeats(<<>>) /\ <<>> \in Seq(Pcb)
    BY DEF Members, NoRepeats
  <2>3. ASSUME c # NULL
        PROVE  Members(<<c>>) = {c} /\ NoRepeats(<<c>>) /\ <<c>> \in Seq(Pcb)
    BY <2>1, <2>3 DEF Members, NoRepeats
  <2> QED
    BY <2>2, <2>3
<1>2. /\ k.ready_queue \in Seq(Pcb) /\ NoRepeats(k.ready_queue)
      /\ c \notin Members(k.ready_queue)
  BY DEF KernelOK, Kernel, QueuesOK
<1> HIDE DEF hd
<1>3. /\ hd \o k.ready_queue \in Seq(Pcb) /\ NoRepeats(hd \o k.ready_queue)
      /\ Members(hd \o k.ready_queue) = Members(hd) \cup Members(k.ready_queue)
  BY <1>1, <1>2, ConcatMembers
<1> QED
  BY <1>1, <1>3 DEF hd

\* scheduler(), entered with c running.
LEMMA SchedulerOK ==
    ASSUME NEW k, NEW c, KernelOK(k, c), scheduler(k, c)
    PROVE  KernelOK(kernel', current_process') /\ CpuOK'
<1> DEFINE all == (IF c = NULL THEN <<>> ELSE <<c>>) \o k.ready_queue
<1>1. PICK line \in Turns(all) :
        LET lined  == [k EXCEPT !.ready_queue = line]
            ticked == pseudoTick(lined)
        IN  \/ dispatch(lined)
            \/ /\ k.sem[Clock] < 0
               /\ \E q \in Turns(ticked.ready_queue) :
                      dispatch([ticked EXCEPT !.ready_queue = q])
  BY DEF scheduler
<1>2. /\ all \in Seq(Pcb) /\ NoRepeats(all)
      /\ Members(all) = Members(k.ready_queue) \cup ({c} \ {NULL})
  BY WholeLine
<1> HIDE DEF all
<1> DEFINE lined  == [k EXCEPT !.ready_queue = line]
           ticked == pseudoTick(lined)
<1>3. KernelOK(lined, NULL)
  BY <1>2, TurnsKeepMembers, LineUpOK
<1> HIDE DEF lined
<1>4. KernelOK(ticked, NULL)
  BY <1>3, PseudoTickOK
<1> HIDE DEF ticked
<1>5. ASSUME NEW q \in Turns(ticked.ready_queue)
      PROVE  KernelOK([ticked EXCEPT !.ready_queue = q], NULL)
  <2>1. ticked.ready_queue \in Seq(Pcb) /\ NoRepeats(ticked.ready_queue)
    BY <1>4 DEF KernelOK, Kernel, QueuesOK
  <2>2. q \in Seq(Pcb) /\ NoRepeats(q) /\ Members(q) = Members(ticked.ready_queue)
    BY <2>1, TurnsKeepMembers
  <2>3. Members(q) = Members(ticked.ready_queue) \cup ({NULL} \ {NULL})
    BY <2>2
  <2> QED
    BY <1>4, <2>2, <2>3, LineUpOK
<1>6. \/ dispatch(lined)
      \/ \E q \in Turns(ticked.ready_queue) : dispatch([ticked EXCEPT !.ready_queue = q])
  BY <1>1 DEF lined, ticked
<1> QED
  BY <1>3, <1>5, <1>6, DispatchOK

--------------------------------------------------------------------------------

\* The inductive invariant.
IInv ==
    /\ KernelOK(kernel, current_process)
    /\ CpuOK
    /\ busy \in [IODevice -> BOOLEAN]

\* The nucleus starts with the invariant: main() of nucleus.c makes one process, ready.
LEMMA InitOK == Init => IInv
<1> SUFFICES ASSUME Init
             PROVE  IInv
  OBVIOUS
<1> DEFINE k == kernel
<1>1. PICK init \in Pcb :
        /\ current_process = init
        /\ kernel =
             [jobs               |-> {init},
              p_parent           |-> [p \in Pcb |-> NULL],
              p_cursem           |-> [p \in Pcb |-> NULL],
              p_resources_needed |-> [p \in Pcb |-> 0],
              ready_queue        |-> <<>>,
              sem                |-> [s \in AllSem |-> IF s \in Sem THEN InitValue ELSE 0],
              aslh               |-> {},
              s_semAdd           |-> [d \in Semd |-> NULL],
              s_procq            |-> [d \in Semd |-> <<>>],
              process_c          |-> 1,
              soft_block_c       |-> 0]
  BY DEF Init
<1>2. /\ k.jobs = {init} /\ k.ready_queue = <<>> /\ k.aslh = {}
      /\ k.s_procq = [d \in Semd |-> <<>>] /\ k.process_c = 1 /\ k.soft_block_c = 0
  BY <1>1
<1>3. k \in Kernel
  <2>1. <<>> \in Seq(Pcb) /\ 0 \in 0 .. MaxWeight /\ InitValue \in Int
    BY NucleusAssumption
  <2> QED
    BY <1>1, <2>1 DEF Kernel
<1> HIDE DEF k
<1>4. Members(<<>>) = {} /\ NoRepeats(<<>>)
  BY DEF Members, NoRepeats
<1>5. QueuesOK(k, init) /\ CursemOK(k)
  BY <1>2, <1>4 DEF QueuesOK, CursemOK
<1>6. CountsOK(k)
  <2>1. SoftBlocked(k) = {}
    BY <1>2 DEF SoftBlocked
  <2>2. Cardinality({init}) = 1
    BY FS_Singleton
  <2>3. Cardinality({}) = 0
    BY FS_EmptySet
  <2> QED
    BY <1>2, <2>1, <2>2, <2>3 DEF CountsOK
<1>7. KernelOK(kernel, current_process)
  BY <1>1, <1>2, <1>3, <1>5, <1>6 DEF KernelOK, k
<1>8. CpuOK
  BY <1>1, <1>2, NucleusAssumption DEF Init, CpuOK, k
<1> QED
  BY <1>7, <1>8 DEF Init, IInv

\* The kernels SEMOP with a negative weight gives to the scheduler, whoever calls it.
LEMMA PKernelsOK ==
    ASSUME IInv, cpu = "running", NEW s \in AllSem, NEW w \in 1 .. MaxWeight
    PROVE  LET c       == current_process
               lowered == [kernel EXCEPT !.sem[s] = @ - w]
               blocked == [lowered EXCEPT
                             !.p_resources_needed[c] = w,
                             !.soft_block_c = IF isDeviceSem(s) THEN @ + 1 ELSE @]
           IN  /\ KernelOK(lowered, c) /\ KernelOK(blocked, c)
               /\ \A z \in insertBlocked(blocked, s, c) : KernelOK(z, NULL)
<1> DEFINE c == current_process
           v == kernel.sem[s] - w
           lowered == [kernel EXCEPT !.sem[s] = @ - w]
           blocked == [lowered EXCEPT
                         !.p_resources_needed[c] = w,
                         !.soft_block_c = IF isDeviceSem(s) THEN @ + 1 ELSE @]
<1>1. KernelOK(kernel, c) /\ kernel \in Kernel /\ c \in Pcb
  BY DEF IInv, CpuOK, KernelOK, Kernel
<1>2. v \in Int
  <2>1. kernel.sem[s] \in Int /\ MaxWeight \in Nat
    BY <1>1, NucleusAssumption DEF Kernel
  <2> QED
    BY <2>1
<1>3. /\ lowered \in Kernel
      /\ lowered.jobs = kernel.jobs /\ lowered.ready_queue = kernel.ready_queue
      /\ lowered.s_procq = kernel.s_procq /\ lowered.p_cursem = kernel.p_cursem
      /\ lowered.aslh = kernel.aslh /\ lowered.s_semAdd = kernel.s_semAdd
      /\ lowered.process_c = kernel.process_c
      /\ lowered.soft_block_c = kernel.soft_block_c
      /\ lowered.p_resources_needed = kernel.p_resources_needed
  <2>1. [kernel.sem EXCEPT ![s] = v] \in [AllSem -> Int]
    BY <1>1, <1>2 DEF Kernel
  <2> QED
    BY <1>1, <2>1 DEF Kernel
<1>4. kernel.soft_block_c \in Int
  BY <1>1 DEF Kernel
<1> HIDE DEF lowered
<1>5. KernelOK(lowered, c)
  BY <1>1, <1>3, <1>4, KernelOKFrame
<1>6. /\ blocked \in Kernel
      /\ blocked.jobs = lowered.jobs /\ blocked.ready_queue = lowered.ready_queue
      /\ blocked.s_procq = lowered.s_procq /\ blocked.p_cursem = lowered.p_cursem
      /\ blocked.aslh = lowered.aslh /\ blocked.s_semAdd = lowered.s_semAdd
      /\ blocked.process_c = lowered.process_c
      /\ blocked.soft_block_c =
             IF s \in DeviceSem THEN lowered.soft_block_c + 1 ELSE lowered.soft_block_c
  <2>1. [lowered.p_resources_needed EXCEPT ![c] = w] \in [Pcb -> 0 .. MaxWeight]
    <3>1. w \in 0 .. MaxWeight
      OBVIOUS
    <3>2. lowered.p_resources_needed \in [Pcb -> 0 .. MaxWeight]
      BY <1>3 DEF Kernel
    <3> QED
      BY <3>1, <3>2
  <2>2. (IF isDeviceSem(s) THEN lowered.soft_block_c + 1 ELSE lowered.soft_block_c) \in Int
    BY <1>3 DEF Kernel
  <2> QED
    BY <1>3, <2>1, <2>2 DEF Kernel, isDeviceSem
<1> HIDE DEF blocked
<1>7. lowered.soft_block_c <= blocked.soft_block_c
  BY <1>3, <1>4, <1>6
<1>8. KernelOK(blocked, c)
  BY <1>5, <1>6, <1>7, KernelOKFrame
<1>9. s \in DeviceSem => Cardinality(SoftBlocked(blocked)) < blocked.soft_block_c
  <2>1. SoftBlocked(blocked) = SoftBlocked(lowered)
    BY <1>6 DEF SoftBlocked
  <2>2. SoftBlocked(lowered) \in SUBSET Pcb
    BY DEF SoftBlocked
  <2>3. Cardinality(SoftBlocked(lowered)) \in Nat
    BY <2>2, NucleusAssumption, FS_Subset, FS_CardinalityType
  <2>4. Cardinality(SoftBlocked(lowered)) <= lowered.soft_block_c
    BY <1>5 DEF KernelOK, CountsOK
  <2> QED
    BY <1>3, <1>4, <1>6, <2>1, <2>3, <2>4
<1>10. ASSUME NEW z \in insertBlocked(blocked, s, c)
       PROVE  KernelOK(z, NULL)
  BY <1>1, <1>8, <1>9, InsertBlockedOK
<1> QED
  BY <1>5, <1>8, <1>10 DEF blocked, lowered

\* SEMOP with a negative weight, up to the LDST, WAIT, HALT or PANIC.
LEMMA POK ==
    ASSUME IInv, cpu = "running", NEW s \in AllSem, NEW w \in 1 .. MaxWeight, P(s, w)
    PROVE  KernelOK(kernel', current_process') /\ CpuOK'
BY PKernelsOK, SchedulerOK DEF P

\* Every handler keeps the invariant: one step per action of Next.
LEMMA NextOK == IInv /\ [Next]_vars => IInv'
<1> SUFFICES ASSUME IInv, [Next]_vars
             PROVE  IInv'
  OBVIOUS
<1> USE DEF IInv
<1>0. /\ kernel \in Kernel /\ kernel.jobs \subseteq Pcb
      /\ cpu = "running" => current_process \in kernel.jobs
  BY DEF KernelOK, Kernel, CpuOK
<1>1. CASE NoEffect
  <2>1. KernelOK(kernel', current_process') /\ CpuOK'
    BY <1>1, SchedulerOK DEF NoEffect
  <2> QED
    BY <1>1, <2>1 DEF NoEffect
<1>2. CASE CreateProcess
  <2>1. CASE scheduler(kernel, current_process)
    BY <1>2, <2>1, SchedulerOK DEF CreateProcess
  <2>2. ASSUME NEW child \in Pcb \ kernel.jobs,
               scheduler(spawn(kernel, current_process, child), current_process)
        PROVE  IInv'
    <3>1. KernelOK(spawn(kernel, current_process, child), current_process)
      BY <1>0, <1>2, SpawnOK DEF CreateProcess
    <3>2. KernelOK(kernel', current_process') /\ CpuOK'
      BY <2>2, <3>1, SchedulerOK
    <3> QED
      BY <1>2, <3>2 DEF CreateProcess
  <2> QED
    BY <1>2, <2>1, <2>2 DEF CreateProcess
<1>3. ASSUME NEW target \in Pcb, TerminateProcess(target)
      PROVE  IInv'
  <2> DEFINE r == survivor(target)
  <2>1. /\ target \in kernel.jobs
        /\ target # current_process => current_process \notin Family(kernel, target)
        /\ scheduler(terminateFamily(kernel, target), r)
        /\ UNCHANGED busy
    BY <1>3 DEF TerminateProcess
  <2>2. r \in {NULL, current_process} /\ r \notin Family(kernel, target)
    BY <1>0, <2>1, NucleusAssumption DEF survivor, Family
  <2> HIDE DEF r
  <2>3. KernelOK(terminateFamily(kernel, target), r)
    BY <2>1, <2>2, TerminateFamilyOK
  <2>4. KernelOK(kernel', current_process') /\ CpuOK'
    BY <2>1, <2>3, SchedulerOK
  <2> QED
    BY <2>1, <2>4
<1>4. ASSUME NEW s \in Sem, NEW w \in Weights, SemP(s, w)
      PROVE  IInv'
  <2>1. s \in AllSem /\ w \in 1 .. MaxWeight
    BY NucleusAssumption DEF AllSem
  <2>2. KernelOK(kernel', current_process') /\ CpuOK'
    BY <1>4, <2>1, POK DEF SemP
  <2> QED
    BY <1>4, <2>2 DEF SemP
<1>5. ASSUME NEW s \in Sem, NEW w \in Weights, SemV(s, w)
      PROVE  IInv'
  <2>1. s \in AllSem /\ w \in Nat
    BY NucleusAssumption DEF AllSem
  <2>2. KernelOK(V(kernel, s, w), current_process)
    BY <2>1, VOK
  <2>3. KernelOK(kernel', current_process') /\ CpuOK'
    BY <1>5, <2>2, SchedulerOK DEF SemV
  <2> QED
    BY <1>5, <2>3 DEF SemV
<1>6. CASE WaitClock
  <2>1. Clock \in AllSem /\ 1 \in 1 .. MaxWeight
    BY NucleusAssumption DEF AllSem, DeviceSem, IODevice
  <2>2. KernelOK(kernel', current_process') /\ CpuOK'
    BY <1>6, <2>1, POK DEF WaitClock
  <2> QED
    BY <1>6, <2>2 DEF WaitClock
<1>7. ASSUME NEW d \in IODevice, IODevOp(d)
      PROVE  IInv'
  <2>1. d \in AllSem /\ 1 \in 1 .. MaxWeight
    BY NucleusAssumption DEF AllSem, DeviceSem, IODevice
  <2>2. KernelOK(kernel', current_process') /\ CpuOK'
    BY <1>7, <2>1, POK DEF IODevOp
  <2> QED
    BY <1>7, <2>2 DEF IODevOp
<1>8. ASSUME NEW tick \in BOOLEAN, TimerInterrupt(tick)
      PROVE  IInv'
  <2>1. KernelOK(IF tick THEN pseudoTick(kernel) ELSE kernel, current_process)
    BY PseudoTickOK
  <2>2. KernelOK(kernel', current_process') /\ CpuOK'
    BY <1>8, <2>1, SchedulerOK DEF TimerInterrupt
  <2> QED
    BY <1>8, <2>2 DEF TimerInterrupt
<1>9. ASSUME NEW d \in Device, DeviceInterrupt(d)
      PROVE  IInv'
  <2>1. CASE scheduler(V(kernel, d, 1), current_process) /\ busy' = [busy EXCEPT ![d] = FALSE]
    <3>1. d \in AllSem
      BY DEF AllSem, DeviceSem, IODevice
    <3>2. KernelOK(V(kernel, d, 1), current_process)
      BY <3>1, VOK
    <3> QED
      BY <2>1, <3>2, SchedulerOK
  <2>2. CASE fatal
    BY <1>9, <2>2 DEF DeviceInterrupt, CpuOK, fatal
  <2> QED
    BY <1>9, <2>1, <2>2 DEF DeviceInterrupt
<1>10. ASSUME NEW t \in Terminal, NEW done \in Halves(t), TerminalInterrupt(t, done)
       PROVE  IInv'
  <2>1. CASE fatal
    BY <1>10, <2>1 DEF TerminalInterrupt, CpuOK, fatal
  <2>2. CASE /\ busy' = [d \in IODevice |->
                           IF d \in done /\ Blocked(kernel, d) # {} THEN FALSE ELSE busy[d]]
             /\ scheduler(completed(completed(kernel, Transmitter(t), done), Receiver(t), done),
                          current_process)
    <3>1. ASSUME NEW k, KernelOK(k, current_process), NEW d \in {Transmitter(t), Receiver(t)}
          PROVE  KernelOK(completed(k, d, done), current_process)
      <4>1. d \in AllSem
        BY DEF AllSem, DeviceSem, IODevice, Transmitter, Receiver
      <4>2. KernelOK(V(k, d, 1), current_process)
        BY <3>1, <4>1, VOK
      <4> QED
        BY <3>1, <4>2 DEF completed
    <3>2. KernelOK(completed(completed(kernel, Transmitter(t), done), Receiver(t), done),
                   current_process)
      BY <3>1
    <3>3. KernelOK(kernel', current_process') /\ CpuOK'
      BY <2>2, <3>2, SchedulerOK
    <3> QED
      BY <2>2, <3>3
  <2> QED
    BY <1>10, <2>1, <2>2 DEF TerminalInterrupt
<1>11. CASE UNCHANGED vars
  BY <1>11 DEF vars, CpuOK
<1> QED
  BY <1>1, <1>2, <1>3, <1>4, <1>5, <1>6, <1>7, <1>8, <1>9, <1>10, <1>11 DEF Next

\* The invariant holds in every state of every execution.
LEMMA Invariance == Spec => []IInv
BY InitOK, NextOK, PTL DEF Spec

--------------------------------------------------------------------------------

\* Every variable keeps its type, whatever the processes request and the devices do.
THEOREM TypeCorrect == Spec => []TypeOK
<1>1. IInv => TypeOK
  BY DEF IInv, KernelOK, CpuOK, TypeOK
<1> QED
  BY <1>1, Invariance, PTL

\* No process is on two queues, twice on one, or on one while it runs.
THEOREM OneQueueAlways == Spec => []OneQueue
<1>1. IInv => OneQueue
  BY DEF IInv, KernelOK, OneQueue
<1> QED
  BY <1>1, Invariance, PTL

\* PANIC for a deadlock is never premature: soft_block_c does not fall below the number
\* of processes that wait for a device or the clock.
THEOREM DeadlockIsReal == Spec => []NoFalseDeadlock
<1>1. IInv => NoFalseDeadlock
  <2> SUFFICES ASSUME IInv, cpu = "deadlock"
               PROVE  /\ kernel.ready_queue = <<>>
                      /\ \A s \in DeviceSem : Blocked(kernel, s) = {}
    BY DEF NoFalseDeadlock
  <2>1. kernel.ready_queue = <<>> /\ kernel.soft_block_c = 0
    BY DEF IInv, CpuOK
  <2>2. SoftBlocked(kernel) \in SUBSET Pcb /\ Cardinality(SoftBlocked(kernel)) <= 0
    BY <2>1 DEF SoftBlocked, IInv, KernelOK, CountsOK
  <2>3. SoftBlocked(kernel) = {}
    <3>1. IsFiniteSet(SoftBlocked(kernel))
      BY <2>2, NucleusAssumption, FS_Subset
    <3> QED
      BY <2>2, <3>1, FS_CardinalityType, FS_EmptySet
  <2>4. \A d \in Semd : Members(kernel.s_procq[d]) \subseteq Pcb
    BY DEF IInv, KernelOK, QueuesOK, Kernel
  <2>5. ASSUME NEW s \in DeviceSem
        PROVE  Blocked(kernel, s) = {}
    <3>1. searchAsl(kernel, s) \subseteq Semd
      BY DEF searchAsl, IInv, KernelOK, Kernel
    <3> QED
      BY <2>3, <2>4, <3>1 DEF Blocked, SoftBlocked, searchAsl
  <2> QED
    BY <2>1, <2>5
<1> QED
  BY <1>1, Invariance, PTL

\* HALT exactly when the last process is gone: process_c counts the live processes.
THEOREM HaltIsRight == Spec => []HaltIffEmpty
<1>1. IInv => HaltIffEmpty
  <2> SUFFICES ASSUME IInv
               PROVE  cpu = "halted" <=> kernel.jobs = {}
    BY DEF HaltIffEmpty
  <2>1. IsFiniteSet(kernel.jobs)
    <3>1. kernel.jobs \in SUBSET Pcb
      BY DEF IInv, KernelOK, Kernel
    <3> QED
      BY <3>1, NucleusAssumption, FS_Subset
  <2> QED
    BY <2>1, FS_EmptySet DEF IInv, CpuOK, KernelOK, CountsOK
<1> QED
  BY <1>1, Invariance, PTL

--------------------------------------------------------------------------------
(* The live processes form one tree (p_parent, p_children of pcb.c). Only                *)
(* sys1_CREATEPROCESS and terminateFamily (syscalls.c) change it; what the other          *)
(* procedures keep is stated by SameTree.                                                 *)

\* One process has no parent, and all the others are its progeny.
TreeOK(k) ==
    k.jobs # {} => \E init \in k.jobs :
        /\ k.p_parent[init] = NULL
        /\ Family(k, init) = k.jobs

\* The children of the processes in S are in S.
Closed(k, S) == S \in SUBSET k.jobs /\ \A c \in k.jobs : k.p_parent[c] \in S => c \in S

\* Nobody was created, killed or adopted.
SameTree(k, z) == z.jobs = k.jobs /\ z.p_parent = k.p_parent

\* A family holds its root and is closed; every closed set with the root holds it.
LEMMA FamilyIsLeast ==
    ASSUME NEW k, NEW t \in k.jobs
    PROVE  /\ t \in Family(k, t) /\ Closed(k, Family(k, t))
           /\ \A S : Closed(k, S) /\ t \in S => Family(k, t) \subseteq S
<1>1. Family(k, t) = {p \in k.jobs : \A S \in SUBSET k.jobs :
                        t \in S /\ (\A c \in k.jobs : k.p_parent[c] \in S => c \in S) => p \in S}
  BY DEF Family
<1>2. t \in Family(k, t) /\ Family(k, t) \in SUBSET k.jobs
  BY <1>1
<1>3. ASSUME NEW c \in k.jobs, k.p_parent[c] \in Family(k, t)
      PROVE  c \in Family(k, t)
  BY <1>1, <1>3
<1>4. \A S : Closed(k, S) /\ t \in S => Family(k, t) \subseteq S
  BY <1>1 DEF Closed
<1> QED
  BY <1>2, <1>3, <1>4 DEF Closed

\* A family is everybody if no other closed set holds its root.
LEMMA WholeFamily ==
    ASSUME NEW k, NEW t \in k.jobs
    PROVE  Family(k, t) = k.jobs <=> \A S : Closed(k, S) /\ t \in S => S = k.jobs
<1>1. /\ t \in Family(k, t) /\ Closed(k, Family(k, t))
      /\ \A S : Closed(k, S) /\ t \in S => Family(k, t) \subseteq S
  BY FamilyIsLeast
<1> QED
  BY <1>1 DEF Closed

\* A kernel with the same tree has a tree if the other has.
LEMMA TreeFrame ==
    ASSUME NEW k, NEW z, TreeOK(k), SameTree(k, z)
    PROVE  TreeOK(z)
<1>1. \A t : Family(z, t) = Family(k, t)
  BY DEF SameTree, Family
<1> QED
  BY <1>1 DEF SameTree, TreeOK

\* SYS1: the child of a live process belongs to the tree.
LEMMA SpawnTree ==
    ASSUME NEW k \in Kernel, TreeOK(k), NEW c \in k.jobs, NEW child \in Pcb \ k.jobs
    PROVE  TreeOK(spawn(k, c, child))
<1> DEFINE z == spawn(k, c, child)
<1>1. /\ z.jobs = k.jobs \cup {child} /\ k.jobs \subseteq Pcb
      /\ z.p_parent[child] = c
      /\ \A p \in k.jobs : z.p_parent[p] = k.p_parent[p]
  BY DEF Kernel, spawn
<1> HIDE DEF z
<1>2. PICK init \in k.jobs : k.p_parent[init] = NULL /\ Family(k, init) = k.jobs
  BY DEF TreeOK
<1>3. ASSUME NEW S, Closed(z, S), init \in S
      PROVE  S = z.jobs
  <2>1. Closed(k, S \ {child})
    BY <1>1, <1>3 DEF Closed
  <2>2. S \ {child} = k.jobs
    BY <1>1, <1>2, <1>3, <2>1, WholeFamily
  <2>3. child \in S
    BY <1>1, <1>3, <2>2 DEF Closed
  <2> QED
    BY <1>1, <2>2, <2>3
<1>4. Family(z, init) = z.jobs
  BY <1>1, <1>3, WholeFamily
<1> QED
  BY <1>1, <1>2, <1>4 DEF TreeOK, z

\* SYS2: nobody is left behind. A victim other than the root cannot have the root in its
\* family, and whoever stays is still below the root.
LEMMA TerminateTree ==
    ASSUME NEW k \in Kernel, TreeOK(k), NEW target \in k.jobs
    PROVE  TreeOK(terminateFamily(k, target))
<1> DEFINE F == Family(k, target)
           z == terminateFamily(k, target)
<1>1. /\ z.jobs = k.jobs \ F /\ k.jobs \subseteq Pcb /\ NULL \notin Pcb
      /\ \A p \in k.jobs \ F : z.p_parent[p] = k.p_parent[p]
  BY NucleusAssumption DEF Kernel, terminateFamily
<1>2. /\ target \in F /\ Closed(k, F)
      /\ \A S : Closed(k, S) /\ target \in S => F \subseteq S
  BY FamilyIsLeast
<1> HIDE DEF z, F
<1>3. PICK init \in k.jobs : k.p_parent[init] = NULL /\ Family(k, init) = k.jobs
  BY DEF TreeOK
<1>4. CASE target = init
  <2>1. z.jobs = {}
    BY <1>1, <1>3, <1>4 DEF F
  <2> QED
    BY <2>1 DEF TreeOK, z
<1>5. CASE target # init
  <2>1. Closed(k, k.jobs \ {init})
    BY <1>1, <1>3 DEF Closed
  <2>2. init \in z.jobs
    BY <1>1, <1>2, <1>5, <2>1
  <2>3. ASSUME NEW S, Closed(z, S), init \in S
        PROVE  S = z.jobs
    <3>1. Closed(k, S \cup F)
      BY <1>1, <1>2, <2>3 DEF Closed
    <3>2. S \cup F = k.jobs
      BY <1>3, <2>3, <3>1, WholeFamily
    <3> QED
      BY <1>1, <2>3, <3>2 DEF Closed
  <2>4. Family(z, init) = z.jobs
    BY <2>2, <2>3, WholeFamily
  <2> QED
    BY <1>1, <1>3, <2>2, <2>4 DEF TreeOK, z
<1> QED
  BY <1>4, <1>5

\* SEMOP with a positive weight moves processes between queues.
LEMMA VTree ==
    ASSUME NEW k \in Kernel, NEW s, NEW w
    PROVE  SameTree(k, V(k, s, w))
<1> DEFINE z == [k EXCEPT !.sem[s] = @ + w]
<1>1. SameTree(k, z) /\ DOMAIN z = DOMAIN k
  BY DEF Kernel, SameTree
<1>2. ASSUME NEW d
      PROVE  SameTree(k, wakeUp(z, s, d, w))
  BY <1>1 DEF Kernel, SameTree, wakeUp
<1> QED
  BY <1>1, <1>2 DEF V

\* The tick is a V.
LEMMA PseudoTickTree ==
    ASSUME NEW k \in Kernel
    PROVE  SameTree(k, pseudoTick(k))
BY VTree DEF pseudoTick, SameTree

\* So does the scheduler.
LEMMA SchedulerTree ==
    ASSUME NEW k, NEW c, KernelOK(k, c), TreeOK(k), scheduler(k, c)
    PROVE  TreeOK(kernel')
<1> DEFINE all == (IF c = NULL THEN <<>> ELSE <<c>>) \o k.ready_queue
<1>1. PICK line \in Turns(all) :
        LET lined  == [k EXCEPT !.ready_queue = line]
            ticked == pseudoTick(lined)
        IN  \/ dispatch(lined)
            \/ /\ k.sem[Clock] < 0
               /\ \E q \in Turns(ticked.ready_queue) :
                      dispatch([ticked EXCEPT !.ready_queue = q])
  BY DEF scheduler
<1>2. KernelOK([k EXCEPT !.ready_queue = line], NULL) /\ line \in Seq(Pcb)
  <2>1. /\ all \in Seq(Pcb) /\ NoRepeats(all)
        /\ Members(all) = Members(k.ready_queue) \cup ({c} \ {NULL})
    BY WholeLine
  <2> HIDE DEF all
  <2> QED
    BY <2>1, TurnsKeepMembers, LineUpOK
<1> HIDE DEF all
<1> DEFINE lined  == [k EXCEPT !.ready_queue = line]
           ticked == pseudoTick(lined)
<1>3. lined \in Kernel /\ SameTree(k, lined)
  BY <1>2 DEF KernelOK, Kernel, SameTree
<1>4. ASSUME NEW z \in Kernel, dispatch(z), SameTree(k, z)
      PROVE  SameTree(k, kernel')
  BY <1>4 DEF dispatch, SameTree, Kernel
<1>5. ASSUME NEW q \in Turns(ticked.ready_queue)
      PROVE  /\ [ticked EXCEPT !.ready_queue = q] \in Kernel
             /\ SameTree(k, [ticked EXCEPT !.ready_queue = q])
  <2>1. ticked \in Kernel
    BY <1>2, PseudoTickOK DEF KernelOK
  <2>2. SameTree(k, ticked)
    BY <1>3, PseudoTickTree DEF SameTree
  <2> HIDE DEF ticked
  <2>3. q \in Seq(Pcb)
    BY <2>1, TurnsKeepMembers DEF Kernel
  <2> QED
    BY <2>1, <2>2, <2>3 DEF Kernel, SameTree
<1>6. \/ dispatch(lined)
      \/ \E q \in Turns(ticked.ready_queue) : dispatch([ticked EXCEPT !.ready_queue = q])
  BY <1>1
<1> HIDE DEF lined, ticked
<1> QED
  BY <1>3, <1>4, <1>5, <1>6, TreeFrame

\* The process that blocks keeps its place in the tree.
LEMMA InsertBlockedTree ==
    ASSUME NEW k \in Kernel, NEW s, NEW p, NEW z \in insertBlocked(k, s, p)
    PROVE  SameTree(k, z)
<1>1. ASSUME NEW d, NEW x, DOMAIN x = DOMAIN k, SameTree(k, x)
      PROVE  SameTree(k, Enqueue(x, p, d))
  BY <1>1 DEF Kernel, SameTree, Enqueue
<1>2. SameTree(k, k)
  BY DEF SameTree
<1>3. ASSUME NEW d
      PROVE  LET x == [k EXCEPT !.aslh = @ \cup {d}, !.s_semAdd[d] = s, !.s_procq[d] = <<>>]
             IN  DOMAIN x = DOMAIN k /\ SameTree(k, x)
  BY DEF Kernel, SameTree
<1> QED
  BY <1>1, <1>2, <1>3 DEF insertBlocked

\* A P queues its caller, at most.
LEMMA PTree ==
    ASSUME IInv, TreeOK(kernel), cpu = "running", NEW s \in AllSem, NEW w \in 1 .. MaxWeight,
           P(s, w)
    PROVE  TreeOK(kernel')
<1> DEFINE c == current_process
           lowered == [kernel EXCEPT !.sem[s] = @ - w]
           blocked == [lowered EXCEPT
                         !.p_resources_needed[c] = w,
                         !.soft_block_c = IF isDeviceSem(s) THEN @ + 1 ELSE @]
<1>1. kernel \in Kernel
  BY DEF IInv, KernelOK
<1>2. SameTree(kernel, lowered) /\ SameTree(kernel, blocked)
  BY <1>1 DEF Kernel, SameTree
<1>3. P(s, w) <=> \/ lowered.sem[s] >= 0 /\ scheduler(lowered, c)
                 \/ /\ lowered.sem[s] < 0
                    /\ \E z \in insertBlocked(blocked, s, c) : scheduler(z, NULL)
  BY DEF P
<1>4. /\ KernelOK(lowered, c) /\ KernelOK(blocked, c)
      /\ \A z \in insertBlocked(blocked, s, c) : KernelOK(z, NULL)
  BY PKernelsOK
<1> HIDE DEF lowered, blocked
<1>5. ASSUME NEW z \in insertBlocked(blocked, s, c)
      PROVE  SameTree(kernel, z)
  BY <1>2, <1>4, InsertBlockedTree DEF KernelOK, SameTree
<1> QED
  BY <1>2, <1>3, <1>4, <1>5, TreeFrame, SchedulerTree

\* main() makes one process, without a parent.
LEMMA InitTree == Init => TreeOK(kernel)
<1> SUFFICES ASSUME Init
             PROVE  TreeOK(kernel)
  OBVIOUS
<1>1. PICK init \in Pcb : kernel.jobs = {init} /\ kernel.p_parent[init] = NULL
  BY DEF Init
<1>2. ASSUME NEW S, Closed(kernel, S), init \in S
      PROVE  S = kernel.jobs
  BY <1>1, <1>2 DEF Closed
<1> QED
  BY <1>1, <1>2, WholeFamily DEF TreeOK

\* Every handler leaves a tree: one step per action of Next.
LEMMA NextTree == IInv /\ TreeOK(kernel) /\ [Next]_vars => TreeOK(kernel)'
<1> SUFFICES ASSUME IInv, TreeOK(kernel), [Next]_vars
             PROVE  TreeOK(kernel')
  BY DEF TreeOK, Family
<1>0. /\ KernelOK(kernel, current_process) /\ kernel \in Kernel
      /\ kernel.jobs \subseteq Pcb
      /\ cpu = "running" => current_process \in kernel.jobs
  BY DEF IInv, KernelOK, Kernel, CpuOK
<1>1. CASE NoEffect
  BY <1>0, <1>1, SchedulerTree DEF NoEffect
<1>2. CASE CreateProcess
  <2>1. CASE scheduler(kernel, current_process)
    BY <1>0, <2>1, SchedulerTree
  <2>2. ASSUME NEW child \in Pcb \ kernel.jobs,
               scheduler(spawn(kernel, current_process, child), current_process)
        PROVE  TreeOK(kernel')
    <3>1. current_process \in kernel.jobs
      BY <1>0, <1>2 DEF CreateProcess
    <3>2. KernelOK(spawn(kernel, current_process, child), current_process)
      BY <1>0, <3>1, SpawnOK
    <3>3. TreeOK(spawn(kernel, current_process, child))
      BY <1>0, <3>1, SpawnTree
    <3> QED
      BY <2>2, <3>2, <3>3, SchedulerTree
  <2> QED
    BY <1>2, <2>1, <2>2 DEF CreateProcess
<1>3. ASSUME NEW target \in Pcb, TerminateProcess(target)
      PROVE  TreeOK(kernel')
  <2> DEFINE r == survivor(target)
  <2>1. /\ target \in kernel.jobs
        /\ target # current_process => current_process \notin Family(kernel, target)
        /\ scheduler(terminateFamily(kernel, target), r)
    BY <1>3 DEF TerminateProcess
  <2>2. r \in {NULL, current_process} /\ r \notin Family(kernel, target)
    BY <1>0, <2>1, NucleusAssumption DEF survivor, Family
  <2> HIDE DEF r
  <2>3. KernelOK(terminateFamily(kernel, target), r)
    BY <1>0, <2>1, <2>2, TerminateFamilyOK
  <2>4. TreeOK(terminateFamily(kernel, target))
    BY <1>0, <2>1, TerminateTree
  <2> QED
    BY <2>1, <2>3, <2>4, SchedulerTree
<1>4. ASSUME NEW s \in AllSem, NEW w \in 1 .. MaxWeight, cpu = "running", P(s, w)
      PROVE  TreeOK(kernel')
  BY <1>4, PTree
<1>5. ASSUME NEW k, KernelOK(k, current_process), SameTree(kernel, k),
             scheduler(k, current_process)
      PROVE  TreeOK(kernel')
  BY <1>5, TreeFrame, SchedulerTree
<1>6. ASSUME NEW s \in Sem, NEW w \in Weights, SemP(s, w) \/ SemV(s, w)
      PROVE  TreeOK(kernel')
  <2>1. s \in AllSem /\ w \in 1 .. MaxWeight /\ w \in Nat
    BY NucleusAssumption DEF AllSem
  <2>2. KernelOK(V(kernel, s, w), current_process) /\ SameTree(kernel, V(kernel, s, w))
    BY <1>0, <2>1, VOK, VTree
  <2> QED
    BY <1>4, <1>5, <1>6, <2>1, <2>2 DEF SemP, SemV
<1>7. 1 \in 1 .. MaxWeight /\ DeviceSem \subseteq AllSem /\ Clock \in AllSem
      /\ IODevice \subseteq AllSem /\ Device \subseteq IODevice
  BY NucleusAssumption DEF AllSem, DeviceSem, IODevice
<1>8. CASE WaitClock
  BY <1>4, <1>7, <1>8 DEF WaitClock
<1>9. ASSUME NEW d \in IODevice, IODevOp(d)
      PROVE  TreeOK(kernel')
  BY <1>4, <1>7, <1>9 DEF IODevOp
<1>10. ASSUME NEW tick \in BOOLEAN, TimerInterrupt(tick)
       PROVE  TreeOK(kernel')
  <2>1. KernelOK(pseudoTick(kernel), current_process) /\ SameTree(kernel, pseudoTick(kernel))
    BY <1>0, PseudoTickOK, PseudoTickTree
  <2>2. SameTree(kernel, kernel)
    BY DEF SameTree
  <2> QED
    BY <1>0, <1>5, <1>10, <2>1, <2>2 DEF TimerInterrupt
<1>11. CASE fatal
  BY <1>11 DEF fatal
<1>12. ASSUME NEW d \in Device, DeviceInterrupt(d)
       PROVE  TreeOK(kernel')
  <2>1. KernelOK(V(kernel, d, 1), current_process) /\ SameTree(kernel, V(kernel, d, 1))
    BY <1>0, <1>7, VOK, VTree
  <2> QED
    BY <1>5, <1>11, <1>12, <2>1 DEF DeviceInterrupt
<1>13. ASSUME NEW t \in Terminal, NEW done \in Halves(t), TerminalInterrupt(t, done)
       PROVE  TreeOK(kernel')
  <2>1. ASSUME NEW k, KernelOK(k, current_process), SameTree(kernel, k),
               NEW d \in {Transmitter(t), Receiver(t)}
        PROVE  KernelOK(completed(k, d, done), current_process)
               /\ SameTree(kernel, completed(k, d, done))
    <3>1. d \in AllSem /\ k \in Kernel
      BY <2>1 DEF AllSem, DeviceSem, IODevice, Transmitter, Receiver, KernelOK
    <3>2. KernelOK(V(k, d, 1), current_process) /\ SameTree(k, V(k, d, 1))
      BY <2>1, <3>1, VOK, VTree
    <3> QED
      BY <2>1, <3>2 DEF completed, SameTree
  <2>2. SameTree(kernel, kernel)
    BY DEF SameTree
  <2> DEFINE k == completed(completed(kernel, Transmitter(t), done), Receiver(t), done)
  <2>3. KernelOK(k, current_process) /\ SameTree(kernel, k)
    BY <1>0, <2>1, <2>2
  <2>4. fatal \/ scheduler(k, current_process)
    BY <1>13 DEF TerminalInterrupt
  <2> HIDE DEF k
  <2> QED
    BY <1>5, <1>11, <2>3, <2>4
<1>14. CASE UNCHANGED vars
  BY <1>14 DEF vars
<1> QED
  BY <1>1, <1>2, <1>3, <1>6, <1>8, <1>9, <1>10, <1>12, <1>13, <1>14 DEF Next

--------------------------------------------------------------------------------

\* The live processes are one tree, and process_c counts them: SYS2 leaves nobody without
\* a parent but the init process, whichever processes are killed in whichever order.
THEOREM FamilyTreeAlways == Spec => []FamilyTree
<1>1. Init => TreeOK(kernel)
  BY InitTree
<1>2. IInv /\ IInv' /\ TreeOK(kernel) /\ [Next]_vars => TreeOK(kernel)'
  BY NextTree
<1>3. IInv /\ TreeOK(kernel) => FamilyTree
  BY DEF IInv, KernelOK, CountsOK, TreeOK, FamilyTree
<1> QED
  BY <1>1, <1>2, <1>3, Invariance, PTL DEF Spec

================================================================================
