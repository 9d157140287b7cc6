-------------------------- MODULE NucleusUnitsProofs ---------------------------
EXTENDS NucleusProofs

(* Where the processes and the units of the semaphores are (asl.c, syscalls.c), as long   *)
(* as the descriptors suffice: a process is never lost, and the value of a semaphore      *)
(* agrees with what its waiters still need.  From that, in the end: the nucleus           *)
(* implements Services.                                                                   *)

\* There is a descriptor for every semaphore.  It is needed: terminateFamily leaves empty
\* descriptors in the ASL, and insertBlocked fails when there is no free one.
Enough == IsFiniteSet(AllSem) /\ Cardinality(AllSem) <= Cardinality(Semd)

\* p waits in the queue of an active descriptor.
Queued(k, p) == \E d \in k.aslh : p \in Members(k.s_procq[d])

\* The ASL has one descriptor for a semaphore, at most.
AslOK(k) ==
    \A d \in k.aslh :
        /\ k.s_semAdd[d] \in AllSem
        /\ \A e \in k.aslh : k.s_semAdd[e] = k.s_semAdd[d] => e = d

\* CantHide, between two procedures of a handler.
SeenOK(k, c) ==
    \A p \in k.jobs : p = c \/ p \in Members(k.ready_queue) \/ Queued(k, p)

\* Only who waits needs something.
NeedsOK(k) == \A p \in Pcb : k.p_resources_needed[p] # 0 => Queued(k, p)

\* The value of s and the needs of its waiters; with weights of 1 they add up to 0 as soon
\* as somebody waits.
WaitersOK(k, s) ==
    /\ k.sem[s] + Demand(k, Blocked(k, s)) >= 0
    /\ s \in UnitSem =>
         /\ \A p \in Blocked(k, s) : k.p_resources_needed[p] = 1
         /\ k.sem[s] >= 0 => Blocked(k, s) = {}
         /\ k.sem[s] < 0 => k.sem[s] + Demand(k, Blocked(k, s)) = 0

AccountsOK(k, c) ==
    /\ AslOK(k)
    /\ SeenOK(k, c)
    /\ NeedsOK(k)
    /\ \A s \in AllSem : WaitersOK(k, s)

--------------------------------------------------------------------------------
(* Demand, beyond what NucleusProofs shows *)

\* Processes whose needs are the same demand the same.
LEMMA DemandSame ==
    ASSUME NEW k, NEW z, NEW S,
           \A p \in S : z.p_resources_needed[p] = k.p_resources_needed[p]
    PROVE  Demand(z, S) = Demand(k, S)
<1>1. {u \in S \X (1 .. MaxWeight) : u[2] <= z.p_resources_needed[u[1]]} =
      {u \in S \X (1 .. MaxWeight) : u[2] <= k.p_resources_needed[u[1]]}
  OBVIOUS
<1> QED
  BY <1>1 DEF Demand

\* Who needs nothing demands nothing.
LEMMA DemandZero ==
    ASSUME NEW k, NEW S, \A p \in S : k.p_resources_needed[p] = 0
    PROVE  Demand(k, S) = 0
<1>1. {u \in S \X (1 .. MaxWeight) : u[2] <= k.p_resources_needed[u[1]]} = {}
  BY NucleusAssumption
<1> QED
  BY <1>1, FS_EmptySet DEF Demand

\* Who needs one unit each demand as many as they are.
LEMMA DemandUnits ==
    ASSUME NEW k, NEW S \in SUBSET Pcb, \A p \in S : k.p_resources_needed[p] = 1
    PROVE  Demand(k, S) = Cardinality(S)
<1> DEFINE units == {u \in S \X (1 .. MaxWeight) : u[2] <= k.p_resources_needed[u[1]]}
           f == [p \in S |-> <<p, 1>>]
<1>1. 1 \in 1 .. MaxWeight /\ MaxWeight \in Nat
  BY NucleusAssumption
<1>2. \A p \in S : f[p] \in units
  BY <1>1
<1>3. \A u \in units : u[1] \in S /\ f[u[1]] = u
  BY <1>1
<1>4. f \in Bijection(S, units)
  <2>1. f \in [S -> units]
    BY <1>2
  <2>2. \A p, q \in S : f[p] = f[q] => p = q
    OBVIOUS
  <2>3. \A u \in units : \E p \in S : f[p] = u
    BY <1>3
  <2> QED
    BY <2>1, <2>2, <2>3 DEF Bijection, Injection, IsInjective, Surjection
<1>5. ExistsBijection(S, units)
  BY <1>4 DEF ExistsBijection
<1>6. IsFiniteSet(S)
  BY NucleusAssumption, FS_Subset
<1>7. Cardinality(units) = Cardinality(S)
  BY <1>5, <1>6, FS_Bijection
<1> QED
  BY <1>7 DEF Demand

\* The waiters of a semaphore are those of its descriptor.
LEMMA BlockedIsQueue ==
    ASSUME NEW k, AslOK(k), NEW s
    PROVE  /\ searchAsl(k, s) = {} => Blocked(k, s) = {}
           /\ \A d \in searchAsl(k, s) : Blocked(k, s) = Members(k.s_procq[d])
<1>1. \A d, e \in searchAsl(k, s) : d = e
  BY DEF searchAsl, AslOK
<1> QED
  BY <1>1 DEF Blocked

\* The waiters of a semaphore are processes, and its value is a number.
LEMMA WaitersType ==
    ASSUME NEW k, NEW c, KernelOK(k, c), NEW s \in AllSem
    PROVE  /\ Blocked(k, s) \in SUBSET Pcb /\ IsFiniteSet(Blocked(k, s))
           /\ Demand(k, Blocked(k, s)) \in Nat /\ k.sem[s] \in Int
<1>1. Blocked(k, s) \in SUBSET Pcb /\ k.sem[s] \in Int
  BY DEF KernelOK, Kernel, QueuesOK, Blocked, searchAsl
<1> QED
  BY <1>1, NucleusAssumption, FS_Subset, DemandNat

--------------------------------------------------------------------------------
(* The procedures *)

\* A kernel with the same semaphores in which the same processes run or are ready.
LEMMA AccountsFrame ==
    ASSUME NEW k, NEW c, AccountsOK(k, c), NEW z, NEW r,
           z.jobs = k.jobs, z.s_procq = k.s_procq, z.aslh = k.aslh, z.s_semAdd = k.s_semAdd,
           z.sem = k.sem, z.p_resources_needed = k.p_resources_needed,
           \A p \in k.jobs : p = c \/ p \in Members(k.ready_queue) =>
                                p = r \/ p \in Members(z.ready_queue)
    PROVE  AccountsOK(z, r)
<1>1. \A s : Blocked(z, s) = Blocked(k, s)
  BY DEF Blocked, searchAsl
<1>2. \A S : Demand(z, S) = Demand(k, S)
  BY DEF Demand
<1>3. AslOK(z) /\ NeedsOK(z)
  BY DEF AccountsOK, AslOK, NeedsOK, Queued
<1>4. SeenOK(z, r)
  BY DEF AccountsOK, SeenOK, Queued
<1>5. \A s \in AllSem : WaitersOK(z, s)
  BY <1>1, <1>2 DEF AccountsOK, WaitersOK
<1> QED
  BY <1>3, <1>4, <1>5 DEF AccountsOK

\* SYS1.
LEMMA SpawnAccounts ==
    ASSUME NEW k, NEW c \in Pcb, KernelOK(k, c), AccountsOK(k, c), NEW child \in Pcb \ k.jobs
    PROVE  AccountsOK(spawn(k, c, child), c)
<1> DEFINE z == spawn(k, c, child)
<1>1. /\ z.jobs = k.jobs \cup {child}
      /\ z.ready_queue = Append(k.ready_queue, child)
      /\ z.s_procq = k.s_procq /\ z.aslh = k.aslh /\ z.s_semAdd = k.s_semAdd
      /\ z.sem = k.sem /\ z.p_resources_needed = k.p_resources_needed
  BY DEF KernelOK, Kernel, spawn
<1> HIDE DEF z
<1>2. Members(z.ready_queue) = Members(k.ready_queue) \cup {child}
  <2>1. k.ready_queue \in Seq(Pcb)
    BY DEF KernelOK, Kernel
  <2> QED
    BY <1>1, <2>1, AppendMembers
<1>3. \A s : Blocked(z, s) = Blocked(k, s)
  BY <1>1 DEF Blocked, searchAsl
<1>4. \A S : Demand(z, S) = Demand(k, S)
  BY <1>1 DEF Demand
<1>5. AslOK(z) /\ NeedsOK(z)
  BY <1>1 DEF AccountsOK, AslOK, NeedsOK, Queued
<1>6. SeenOK(z, c)
  BY <1>1, <1>2 DEF AccountsOK, SeenOK, Queued
<1>7. \A s \in AllSem : WaitersOK(z, s)
  BY <1>1, <1>3, <1>4 DEF AccountsOK, WaitersOK
<1> QED
  BY <1>5, <1>6, <1>7 DEF AccountsOK, z

\* What a V of weight w makes of the queue of d: those of woken are paid in full, and what
\* remains of w goes to one of those who stay, who needs more than that.
WakesUp(k, z, d, w, woken, rest) ==
    /\ woken \cap rest = {} /\ Members(k.s_procq[d]) = woken \cup rest
    /\ Members(z.ready_queue) = Members(k.ready_queue) \cup woken
    /\ Members(z.s_procq[d]) = rest
    /\ \A e \in Semd \ {d} : z.s_procq[e] = k.s_procq[e]
    /\ z.aslh \subseteq k.aslh /\ k.aslh \ {d} \subseteq z.aslh
    /\ rest # {} => d \in z.aslh
    /\ Demand(k, woken) <= w
    /\ \A p \in Pcb \ (woken \cup rest) : z.p_resources_needed[p] = k.p_resources_needed[p]
    /\ \A p \in woken : z.p_resources_needed[p] = 0
    /\ rest # {} => \E h \in rest :
         /\ w - Demand(k, woken) < k.p_resources_needed[h]
         /\ z.p_resources_needed[h] = k.p_resources_needed[h] - (w - Demand(k, woken))
         /\ \A p \in rest \ {h} : z.p_resources_needed[p] = k.p_resources_needed[p]

\* The loop of SEMOP does that.
LEMMA WakeUpResult ==
    ASSUME NEW k, NEW c, KernelOK(k, c), NEW s \in AllSem, NEW d \in searchAsl(k, s),
           NEW w \in Nat
    PROVE  LET z == wakeUp(k, s, d, w)
           IN  /\ z.jobs = k.jobs /\ z.s_semAdd = k.s_semAdd /\ z.sem = k.sem
               /\ \E woken, rest \in SUBSET Pcb : WakesUp(k, z, d, w, woken, rest)
<1> DEFINE q == k.s_procq[d]
           n == Satisfied(k, q, w)
           a == SubSeq(q, 1, n)
           b == SubSeq(q, n + 1, Len(q))
           left == w - Demand(k, Members(a))
           z == wakeUp(k, s, d, w)
<1>1. /\ k \in Kernel /\ d \in Semd /\ d \in k.aslh
      /\ q \in Seq(Pcb) /\ NoRepeats(q) /\ Len(q) \in Nat
      /\ k.ready_queue \in Seq(Pcb)
  BY LenProperties DEF KernelOK, Kernel, QueuesOK, searchAsl
<1>2. /\ z.jobs = k.jobs /\ z.s_semAdd = k.s_semAdd /\ z.sem = k.sem
      /\ z.ready_queue = k.ready_queue \o a
      /\ z.s_procq = [k.s_procq EXCEPT ![d] = b]
      /\ z.aslh = releaseSemd(k.aslh, d, n, b)
      /\ z.p_resources_needed = stillNeeded(k, Members(a), b, left)
  BY <1>1 DEF Kernel, wakeUp
<1>3. /\ n \in 0 .. Len(q)
      /\ Demand(k, Members(a)) <= w
      /\ n < Len(q) => Demand(k, Members(SubSeq(q, 1, n + 1))) > w
  BY <1>1, SatisfiedIsLongest
<1> HIDE DEF n
<1>4. /\ a \in Seq(Pcb) /\ b \in Seq(Pcb) /\ Len(a) = n /\ Len(b) = Len(q) - n
      /\ Members(q) = Members(a) \cup Members(b)
      /\ Members(a) \cap Members(b) = {}
  BY <1>1, <1>3, CutMembers
<1>5. /\ Members(a) \in SUBSET Pcb /\ Members(b) \in SUBSET Pcb
      /\ Members(b) = {} <=> b = <<>>
  <2> HIDE DEF a, b
  <2> QED
    BY <1>4, MembersType
<1>6. b # <<>> => Head(b) \in Members(b)
  <2> HIDE DEF a, b
  <2> QED
    BY <1>4, HeadTailMembers
<1>7. ASSUME b # <<>>
      PROVE  /\ Head(b) \in Members(b)
             /\ left < k.p_resources_needed[Head(b)]
  <2>1. n < Len(q)
    BY <1>1, <1>3, <1>4, <1>7, EmptySeq, LenProperties
  <2> DEFINE h == Head(b)
  <2>2. /\ Members(SubSeq(q, 1, n + 1)) = Members(a) \cup {q[n + 1]}
        /\ h = q[n + 1]
    BY <1>1, <1>3, <2>1, NextMember
  <2>3. h \in Members(b)
    BY <1>6, <1>7
  <2> HIDE DEF h
  <2>4. /\ h \in Pcb /\ h \notin Members(a)
        /\ k.p_resources_needed[h] \in 0 .. MaxWeight /\ MaxWeight \in Nat
    BY <1>1, <1>4, <1>5, <2>3, NucleusAssumption DEF Kernel
  <2>5. Demand(k, {h}) = k.p_resources_needed[h]
    BY <2>4, DemandOne
  <2>6. Demand(k, Members(a) \cup {h}) = Demand(k, Members(a)) + Demand(k, {h})
    <3>1. {h} \in SUBSET Pcb /\ Members(a) \cap {h} = {}
      BY <2>4
    <3> QED
      BY <1>5, <3>1, DemandAdd
  <2>7. Demand(k, Members(a)) \in Nat
    BY <1>5, DemandNat
  <2>8. Demand(k, Members(a) \cup {h}) > w
    BY <1>3, <2>1, <2>2
  <2> HIDE DEF a, b
  <2> QED
    BY <2>3, <2>4, <2>5, <2>6, <2>7, <2>8 DEF h
<1>8. Members(z.ready_queue) = Members(k.ready_queue) \cup Members(a)
  <2> HIDE DEF a, b, z
  <2> QED
    BY <1>1, <1>2, <1>4, ConcatMembers
<1>9. /\ z.s_procq[d] = b
      /\ \A e \in Semd \ {d} : z.s_procq[e] = k.s_procq[e]
  BY <1>1, <1>2 DEF Kernel
<1>10. /\ z.aslh \subseteq k.aslh /\ k.aslh \ {d} \subseteq z.aslh
       /\ b # <<>> => d \in z.aslh
  BY <1>1, <1>2 DEF releaseSemd
<1> HIDE DEF a, b, z, left
<1>11. /\ \A p \in Pcb \ (Members(a) \cup Members(b)) :
              z.p_resources_needed[p] = k.p_resources_needed[p]
       /\ \A p \in Members(a) : z.p_resources_needed[p] = 0
       /\ b # <<>> =>
            /\ z.p_resources_needed[Head(b)] = k.p_resources_needed[Head(b)] - left
            /\ \A p \in Members(b) \ {Head(b)} :
                  z.p_resources_needed[p] = k.p_resources_needed[p]
  BY <1>2, <1>4, <1>5, <1>7 DEF stillNeeded
<1>12. WakesUp(k, z, d, w, Members(a), Members(b))
  BY <1>3, <1>4, <1>5, <1>7, <1>8, <1>9, <1>10, <1>11 DEF WakesUp, q, left
<1> QED
  BY <1>2, <1>5, <1>12 DEF z

\* The woken are ready, and what the V added to the value is what the waiters need less.
LEMMA WokenAccounts ==
    ASSUME NEW k, NEW c, KernelOK(k, c), AccountsOK(k, c), NEW s \in AllSem,
           NEW d \in searchAsl(k, s), NEW w \in Nat,
           NEW z, z.jobs = k.jobs, z.s_semAdd = k.s_semAdd, z.sem[s] = k.sem[s] + w,
           \A r \in AllSem \ {s} : z.sem[r] = k.sem[r],
           NEW woken \in SUBSET Pcb, NEW rest \in SUBSET Pcb, WakesUp(k, z, d, w, woken, rest)
    PROVE  AccountsOK(z, c)
<1>1. /\ k \in Kernel /\ d \in k.aslh /\ k.s_semAdd[d] = s /\ k.aslh \subseteq Semd
      /\ k.jobs \subseteq Pcb
      /\ \A p \in Pcb : k.p_resources_needed[p] \in 0 .. MaxWeight
      /\ MaxWeight \in Nat
      /\ Members(k.s_procq[d]) = woken \cup rest /\ woken \cap rest = {}
  BY NucleusAssumption DEF KernelOK, Kernel, searchAsl, WakesUp
<1>2. /\ z.aslh \subseteq k.aslh /\ k.aslh \ {d} \subseteq z.aslh
      /\ Members(z.s_procq[d]) = rest
      /\ rest # {} => d \in z.aslh
      /\ \A e \in k.aslh \ {d} : z.s_procq[e] = k.s_procq[e]
      /\ Members(z.ready_queue) = Members(k.ready_queue) \cup woken
      /\ \A p \in Pcb \ (woken \cup rest) : z.p_resources_needed[p] = k.p_resources_needed[p]
      /\ \A p \in woken : z.p_resources_needed[p] = 0
  BY <1>1 DEF WakesUp
<1>3. \A e \in k.aslh \ {d} :
         /\ Members(k.s_procq[e]) \subseteq Pcb
         /\ Members(k.s_procq[e]) \cap (woken \cup rest) = {}
  BY <1>1 DEF KernelOK, QueuesOK
<1>4. AslOK(k) /\ AslOK(z)
  BY <1>2 DEF AccountsOK, AslOK
<1>5. Blocked(k, s) = woken \cup rest /\ Blocked(z, s) = rest
  <2>1. Blocked(k, s) = woken \cup rest
    BY <1>1, <1>4, BlockedIsQueue
  <2>2. CASE d \in z.aslh
    <3>1. d \in searchAsl(z, s)
      BY <1>1, <2>2 DEF searchAsl
    <3> QED
      BY <1>2, <1>4, <2>1, <3>1, BlockedIsQueue
  <2>3. CASE d \notin z.aslh
    <3>1. searchAsl(z, s) = {}
      BY <1>1, <1>2, <1>4, <2>3 DEF searchAsl, AslOK
    <3> QED
      BY <1>2, <1>4, <2>1, <2>3, <3>1, BlockedIsQueue
  <2> QED
    BY <2>2, <2>3
<1>6. ASSUME NEW r \in AllSem \ {s}
      PROVE  WaitersOK(z, r)
  <2>1. searchAsl(z, r) = searchAsl(k, r) /\ d \notin searchAsl(k, r)
    BY <1>1, <1>2 DEF searchAsl
  <2>2. Blocked(z, r) = Blocked(k, r)
    BY <1>2, <2>1 DEF Blocked, searchAsl
  <2>3. \A p \in Blocked(k, r) : z.p_resources_needed[p] = k.p_resources_needed[p]
    BY <1>2, <1>3, <2>1 DEF Blocked, searchAsl
  <2>4. Demand(z, Blocked(k, r)) = Demand(k, Blocked(k, r))
    BY <2>3, DemandSame
  <2> QED
    BY <2>2, <2>3, <2>4 DEF AccountsOK, WaitersOK
<1>7. WaitersOK(z, s)
  <2> DEFINE Dw == Demand(k, woken)
             Dr == Demand(k, rest)
  <2>1. /\ Dw \in Nat /\ Dr \in Nat /\ Dw <= w /\ k.sem[s] \in Int
        /\ Demand(k, woken \cup rest) = Dw + Dr
    BY <1>1, DemandNat, DemandAdd, WaitersType DEF WakesUp
  <2>2. /\ k.sem[s] + (Dw + Dr) >= 0
        /\ s \in UnitSem =>
             /\ \A p \in woken \cup rest : k.p_resources_needed[p] = 1
             /\ k.sem[s] >= 0 => woken \cup rest = {}
             /\ k.sem[s] < 0 => k.sem[s] + (Dw + Dr) = 0
    BY <1>5, <2>1 DEF AccountsOK, WaitersOK
  <2>3. CASE rest = {}
    <3>1. Dr = 0 /\ Demand(z, rest) = 0
      BY <2>3, DemandEmpty
    <3>2. z.sem[s] >= 0 /\ z.sem[s] \in Int
      <4> HIDE DEF Dw, Dr
      <4> QED
        BY <2>1, <2>2, <3>1
    <3> QED
      BY <1>5, <2>3, <3>1, <3>2 DEF WaitersOK
  <2>4. CASE rest # {}
    <3>1. PICK h \in rest :
            /\ w - Dw < k.p_resources_needed[h]
            /\ z.p_resources_needed[h] = k.p_resources_needed[h] - (w - Dw)
            /\ \A p \in rest \ {h} : z.p_resources_needed[p] = k.p_resources_needed[p]
      BY <2>4 DEF WakesUp
    <3>2. /\ {h} \in SUBSET Pcb /\ rest \ {h} \in SUBSET Pcb /\ {h} \cap (rest \ {h}) = {}
          /\ rest = {h} \cup (rest \ {h})
      OBVIOUS
    <3>3. /\ Demand(k, rest) = Demand(k, {h}) + Demand(k, rest \ {h})
          /\ Demand(z, rest) = Demand(z, {h}) + Demand(z, rest \ {h})
      BY <3>2, DemandAdd
    <3>4. Demand(z, rest \ {h}) = Demand(k, rest \ {h}) /\ Demand(k, rest \ {h}) \in Nat
      BY <3>1, <3>2, DemandSame, DemandNat
    <3>5. k.p_resources_needed[h] \in 0 .. MaxWeight /\ h \in Pcb
      BY <1>1
    <3>6. z.p_resources_needed[h] \in 0 .. MaxWeight
      <4> HIDE DEF Dw
      <4> QED
        BY <1>1, <2>1, <3>1, <3>5
    <3>7. Demand(k, {h}) = k.p_resources_needed[h] /\ Demand(z, {h}) = z.p_resources_needed[h]
      BY <3>5, <3>6, DemandOne
    <3>8. Demand(z, rest) = Dr - (w - Dw) /\ Demand(z, rest) >= z.p_resources_needed[h]
      <4> HIDE DEF Dw
      <4> QED
        BY <1>1, <2>1, <3>1, <3>3, <3>4, <3>5, <3>6, <3>7
    <3> HIDE DEF Dw, Dr
    <3>9. z.sem[s] + Demand(z, rest) = k.sem[s] + (Dw + Dr)
      BY <2>1, <3>8
    <3>10. ASSUME s \in UnitSem
           PROVE  /\ \A p \in rest : z.p_resources_needed[p] = 1
                  /\ z.sem[s] + Demand(z, rest) = 0 /\ Demand(z, rest) >= 1
      <4>1. k.p_resources_needed[h] = 1 /\ ~ (k.sem[s] >= 0)
        BY <2>2, <2>4, <3>10
      <4>2. z.p_resources_needed[h] = 1
        BY <2>1, <3>1, <4>1
      <4> QED
        BY <2>1, <2>2, <3>1, <3>8, <3>9, <3>10, <4>1, <4>2
    <3>11. Demand(z, rest) \in Int /\ z.sem[s] \in Int
      BY <2>1, <3>8
    <3>12. s \in UnitSem => z.sem[s] < 0 /\ ~ (z.sem[s] >= 0)
      BY <3>10, <3>11
    <3> QED
      BY <1>5, <2>2, <3>9, <3>10, <3>12 DEF WaitersOK
  <2> QED
    BY <2>3, <2>4
<1>8. NeedsOK(z)
  <2> SUFFICES ASSUME NEW p \in Pcb, z.p_resources_needed[p] # 0
               PROVE  Queued(z, p)
    BY DEF NeedsOK
  <2>1. CASE p \in rest
    BY <1>2, <2>1 DEF Queued
  <2>2. CASE p \notin rest
    <3>1. k.p_resources_needed[p] # 0 /\ p \notin woken \cup rest
      BY <1>2, <2>2
    <3>2. PICK e \in k.aslh : p \in Members(k.s_procq[e])
      BY <3>1 DEF AccountsOK, NeedsOK, Queued
    <3> QED
      BY <1>1, <1>2, <3>1, <3>2 DEF Queued
  <2> QED
    BY <2>1, <2>2
<1>9. SeenOK(z, c)
  <2> SUFFICES ASSUME NEW p \in k.jobs, p # c, p \notin Members(z.ready_queue)
               PROVE  Queued(z, p)
    BY DEF SeenOK
  <2>1. PICK e \in k.aslh : p \in Members(k.s_procq[e])
    BY <1>2 DEF AccountsOK, SeenOK, Queued
  <2> QED
    BY <1>1, <1>2, <2>1 DEF Queued
<1> QED
  BY <1>4, <1>6, <1>7, <1>8, <1>9 DEF AccountsOK

\* SEMOP with a positive weight.
LEMMA VAccounts ==
    ASSUME NEW k, NEW c, KernelOK(k, c), AccountsOK(k, c), NEW s \in AllSem, NEW w \in Nat
    PROVE  AccountsOK(V(k, s, w), c)
<1> DEFINE x == [k EXCEPT !.sem[s] = @ + w]
<1>1. k \in Kernel /\ k.sem[s] \in Int
  BY DEF KernelOK, Kernel
<1>2. x \in Kernel
  <2>1. [k.sem EXCEPT ![s] = k.sem[s] + w] \in [AllSem -> Int]
    BY <1>1 DEF Kernel
  <2> QED
    BY <1>1, <2>1 DEF Kernel
<1>3. /\ x.jobs = k.jobs /\ x.ready_queue = k.ready_queue /\ x.s_procq = k.s_procq
      /\ x.p_cursem = k.p_cursem /\ x.aslh = k.aslh /\ x.s_semAdd = k.s_semAdd
      /\ x.process_c = k.process_c /\ x.soft_block_c = k.soft_block_c
      /\ x.p_resources_needed = k.p_resources_needed
      /\ k.soft_block_c \in Int
  BY <1>1 DEF Kernel
<1>4. x.sem[s] = k.sem[s] + w /\ \A r \in AllSem \ {s} : x.sem[r] = k.sem[r]
  BY <1>1 DEF Kernel
<1>5. V(k, s, w) = IF searchAsl(k, s) = {} THEN x
                   ELSE wakeUp(x, s, CHOOSE d \in searchAsl(k, s) : TRUE, w)
  BY DEF V
<1> HIDE DEF x
<1>6. KernelOK(x, c) /\ searchAsl(x, s) = searchAsl(k, s)
  BY <1>2, <1>3, KernelOKFrame DEF searchAsl
<1>7. CASE searchAsl(k, s) = {}
  <2>1. /\ \A r : Blocked(x, r) = Blocked(k, r)
        /\ \A S : Demand(x, S) = Demand(k, S)
    BY <1>3 DEF Blocked, searchAsl, Demand
  <2>2. Blocked(k, s) = {} /\ Demand(k, Blocked(k, s)) = 0
    BY <1>7, BlockedIsQueue, DemandEmpty DEF AccountsOK
  <2>3. k.sem[s] >= 0 /\ x.sem[s] >= 0 /\ x.sem[s] \in Int
    BY <1>1, <1>4, <2>2 DEF AccountsOK, WaitersOK
  <2>4. WaitersOK(x, s)
    BY <2>1, <2>2, <2>3 DEF WaitersOK
  <2>5. \A r \in AllSem \ {s} : WaitersOK(x, r)
    BY <1>3, <1>4, <2>1 DEF AccountsOK, WaitersOK
  <2>6. AslOK(x) /\ SeenOK(x, c) /\ NeedsOK(x)
    BY <1>3 DEF AccountsOK, AslOK, SeenOK, NeedsOK, Queued
  <2> QED
    BY <1>5, <1>7, <2>4, <2>5, <2>6 DEF AccountsOK
<1>8. ASSUME NEW d \in searchAsl(k, s)
      PROVE  AccountsOK(wakeUp(x, s, d, w), c)
  <2> DEFINE z == wakeUp(x, s, d, w)
  <2>1. /\ z.jobs = x.jobs /\ z.s_semAdd = x.s_semAdd /\ z.sem = x.sem
        /\ \E woken, rest \in SUBSET Pcb : WakesUp(x, z, d, w, woken, rest)
    BY <1>6, WakeUpResult
  <2> HIDE DEF z
  <2>2. PICK woken \in SUBSET Pcb, rest \in SUBSET Pcb : WakesUp(x, z, d, w, woken, rest)
    BY <2>1
  <2>3. Demand(x, woken) = Demand(k, woken)
    BY <1>3 DEF Demand
  <2>4. WakesUp(k, z, d, w, woken, rest)
    BY <1>3, <2>2, <2>3 DEF WakesUp
  <2> QED
    BY <1>3, <1>4, <2>1, <2>4, WokenAccounts DEF z
<1> QED
  BY <1>5, <1>7, <1>8

\* The tick is a V.
LEMMA PseudoTickAccounts ==
    ASSUME NEW k, NEW c, KernelOK(k, c), AccountsOK(k, c)
    PROVE  AccountsOK(pseudoTick(k), c)
<1>1. Clock \in AllSem
  BY DEF AllSem, DeviceSem, IODevice
<1>2. k.sem[Clock] \in Int
  BY <1>1 DEF KernelOK, Kernel
<1>3. k.sem[Clock] < 0 => -k.sem[Clock] \in Nat
  BY <1>2
<1> QED
  BY <1>1, <1>3, VAccounts DEF pseudoTick

\* p went to the end of the waiters of s.
WaitsToo(k, z, s, p) ==
    /\ z.jobs = k.jobs /\ z.ready_queue = k.ready_queue
    /\ z.sem = k.sem /\ z.p_resources_needed = k.p_resources_needed
    /\ AslOK(z)
    /\ Blocked(z, s) = Blocked(k, s) \cup {p}
    /\ \A r \in AllSem \ {s} : Blocked(z, r) = Blocked(k, r)
    /\ \A q : Queued(z, q) <=> q = p \/ Queued(k, q)

\* insertProcQ on the queue of the descriptor.
LEMMA EnqueueResult ==
    ASSUME NEW k \in Kernel, AslOK(k), NEW s \in AllSem, NEW d \in searchAsl(k, s), NEW p \in Pcb
    PROVE  WaitsToo(k, Enqueue(k, p, d), s, p)
<1> DEFINE z == Enqueue(k, p, d)
<1>1. /\ d \in k.aslh /\ d \in Semd /\ k.s_semAdd[d] = s /\ k.aslh \subseteq Semd
      /\ k.s_procq[d] \in Seq(Pcb)
  BY DEF searchAsl, Kernel
<1>2. /\ z.jobs = k.jobs /\ z.ready_queue = k.ready_queue
      /\ z.sem = k.sem /\ z.p_resources_needed = k.p_resources_needed
      /\ z.aslh = k.aslh /\ z.s_semAdd = k.s_semAdd
      /\ z.s_procq[d] = Append(k.s_procq[d], p)
      /\ \A e \in Semd \ {d} : z.s_procq[e] = k.s_procq[e]
  BY <1>1 DEF Kernel, Enqueue
<1> HIDE DEF z
<1>3. Members(z.s_procq[d]) = Members(k.s_procq[d]) \cup {p}
  BY <1>1, <1>2, AppendMembers
<1>4. AslOK(z) /\ \A r : searchAsl(z, r) = searchAsl(k, r)
  BY <1>2 DEF AslOK, searchAsl
<1>5. Blocked(z, s) = Blocked(k, s) \cup {p}
  <2>1. Blocked(k, s) = Members(k.s_procq[d])
    BY BlockedIsQueue
  <2>2. Blocked(z, s) = Members(z.s_procq[d])
    BY <1>4, BlockedIsQueue
  <2> QED
    BY <1>3, <2>1, <2>2
<1>6. ASSUME NEW r \in AllSem \ {s}
      PROVE  Blocked(z, r) = Blocked(k, r)
  <2>1. \A e \in searchAsl(k, r) : z.s_procq[e] = k.s_procq[e]
    BY <1>1, <1>2 DEF searchAsl
  <2> QED
    BY <1>4, <2>1 DEF Blocked
<1>7. ASSUME NEW q
      PROVE  Queued(z, q) <=> q = p \/ Queued(k, q)
  BY <1>1, <1>2, <1>3 DEF Queued
<1> QED
  BY <1>2, <1>4, <1>5, <1>6, <1>7 DEF WaitsToo, z

\* The active descriptors are of different semaphores: when all are active, and suffice,
\* each semaphore has its own.
LEMMA EverySemaphoreFound ==
    ASSUME Enough, NEW k \in Kernel, AslOK(k), k.aslh = Semd, NEW s \in AllSem
    PROVE  searchAsl(k, s) # {}
<1> SUFFICES ASSUME searchAsl(k, s) = {}
             PROVE  FALSE
  OBVIOUS
<1> DEFINE f == k.s_semAdd
           others == AllSem \ {s}
<1>1. f \in Injection(Semd, others)
  <2>1. f \in [Semd -> others]
    BY DEF Kernel, AslOK, searchAsl
  <2>2. \A d, e \in Semd : f[d] = f[e] => d = e
    BY DEF AslOK
  <2> QED
    BY <2>1, <2>2 DEF Injection, IsInjective
<1>2. /\ IsFiniteSet(others)
      /\ Cardinality(others) = Cardinality(AllSem) - 1
      /\ Cardinality(AllSem) \in Nat /\ Cardinality(AllSem) <= Cardinality(Semd)
  BY FS_RemoveElement, FS_CardinalityType DEF Enough
<1> HIDE DEF f, others
<1>3. Cardinality(Semd) <= Cardinality(others)
  BY <1>1, <1>2, FS_Injection
<1>4. Cardinality(Semd) \in Nat
  BY NucleusAssumption, FS_CardinalityType
<1> QED
  BY <1>2, <1>3, <1>4

\* insertBlocked always finds a descriptor.
LEMMA InsertBlockedResult ==
    ASSUME Enough, NEW k, NEW c, KernelOK(k, c), AslOK(k), NEW s \in AllSem, NEW p \in Pcb,
           NEW z \in insertBlocked(k, s, p)
    PROVE  WaitsToo(k, z, s, p)
<1>0. k \in Kernel /\ k.aslh \subseteq Semd
  BY DEF KernelOK, Kernel
<1>1. CASE searchAsl(k, s) # {}
  BY <1>0, <1>1, EnqueueResult DEF insertBlocked
<1>2. CASE searchAsl(k, s) = {}
  <2> DEFINE taken(d) ==
        [k EXCEPT !.aslh = @ \cup {d}, !.s_semAdd[d] = s, !.s_procq[d] = <<>>]
  <2>1. PICK d \in Semd \ k.aslh : z = Enqueue(taken(d), p, d)
    BY <1>0, <1>2, EverySemaphoreFound DEF insertBlocked
  <2> DEFINE x == taken(d)
  <2>2. KernelOK(x, c)
    BY TakeDescriptorOK
  <2>3. /\ x.jobs = k.jobs /\ x.ready_queue = k.ready_queue
        /\ x.sem = k.sem /\ x.p_resources_needed = k.p_resources_needed
        /\ x.aslh = k.aslh \cup {d} /\ x.s_semAdd[d] = s /\ x.s_procq[d] = <<>>
        /\ \A e \in Semd \ {d} : x.s_semAdd[e] = k.s_semAdd[e] /\ x.s_procq[e] = k.s_procq[e]
    BY <1>0 DEF Kernel
  <2> HIDE DEF x
  <2>4. Members(x.s_procq[d]) = {}
    BY <2>3 DEF Members
  <2>5. \A e \in k.aslh : e # d /\ k.s_semAdd[e] # s
    BY <1>2 DEF searchAsl
  <2>6. AslOK(x) /\ d \in searchAsl(x, s)
    BY <1>0, <2>3, <2>5 DEF AslOK, searchAsl
  <2>7. Blocked(x, s) = {} /\ Blocked(k, s) = {}
    BY <1>2, <2>4, <2>6, BlockedIsQueue
  <2>8. \A r \in AllSem \ {s} : Blocked(x, r) = Blocked(k, r)
    BY <1>0, <2>3, <2>5 DEF Blocked, searchAsl
  <2>9. \A q : Queued(x, q) <=> Queued(k, q)
    BY <1>0, <2>3, <2>4, <2>5 DEF Queued
  <2>10. WaitsToo(x, Enqueue(x, p, d), s, p)
    BY <2>2, <2>6, EnqueueResult DEF KernelOK
  <2> QED
    BY <2>1, <2>3, <2>7, <2>8, <2>9, <2>10 DEF WaitsToo, x
<1> QED
  BY <1>1, <1>2

\* SEMOP with a negative weight, before the scheduler.
LEMMA PAccounts ==
    ASSUME Enough, IInv, AccountsOK(kernel, current_process), cpu = "running",
           NEW s \in AllSem, NEW w \in 1 .. MaxWeight, s \in UnitSem => w = 1
    PROVE  LET c       == current_process
               lowered == [kernel EXCEPT !.sem[s] = @ - w]
               blocked == [lowered EXCEPT
                             !.p_resources_needed[c] = w,
                             !.soft_block_c = IF isDeviceSem(s) THEN @ + 1 ELSE @]
           IN  /\ lowered.sem[s] >= 0 => AccountsOK(lowered, c)
               /\ lowered.sem[s] < 0 =>
                    \A z \in insertBlocked(blocked, s, c) : AccountsOK(z, NULL)
<1> DEFINE c == current_process
           lowered == [kernel EXCEPT !.sem[s] = @ - w]
           blocked == [lowered EXCEPT
                         !.p_resources_needed[c] = w,
                         !.soft_block_c = IF isDeviceSem(s) THEN @ + 1 ELSE @]
           B == Blocked(kernel, s)
           D == Demand(kernel, B)
           v == kernel.sem[s]
<1>1. KernelOK(kernel, c) /\ kernel \in Kernel /\ c \in Pcb
  BY DEF IInv, CpuOK, KernelOK, Kernel
<1>2. KernelOK(lowered, c) /\ KernelOK(blocked, c)
  BY PKernelsOK
<1>3. /\ v \in Int /\ w \in Nat \ {0} /\ D \in Nat /\ B \in SUBSET Pcb
      /\ MaxWeight \in Nat
  BY <1>1, WaitersType, NucleusAssumption
<1>4. /\ lowered.jobs = kernel.jobs /\ lowered.ready_queue = kernel.ready_queue
      /\ lowered.s_procq = kernel.s_procq /\ lowered.aslh = kernel.aslh
      /\ lowered.s_semAdd = kernel.s_semAdd
      /\ lowered.p_resources_needed = kernel.p_resources_needed
      /\ lowered.sem[s] = v - w
      /\ \A r \in AllSem \ {s} : lowered.sem[r] = kernel.sem[r]
  BY <1>1 DEF Kernel
<1>5. /\ blocked.jobs = kernel.jobs /\ blocked.ready_queue = kernel.ready_queue
      /\ blocked.s_procq = kernel.s_procq /\ blocked.aslh = kernel.aslh
      /\ blocked.s_semAdd = kernel.s_semAdd /\ blocked.sem = lowered.sem
      /\ blocked.p_resources_needed[c] = w
      /\ \A p \in Pcb \ {c} :
            blocked.p_resources_needed[p] = kernel.p_resources_needed[p]
  BY <1>1 DEF Kernel
<1> HIDE DEF lowered, blocked, B, D, v
<1>6. \A r : c \notin Blocked(kernel, r)
  BY <1>1 DEF Blocked, searchAsl, KernelOK, Kernel, QueuesOK
<1>7. /\ v + D >= 0
      /\ s \in UnitSem =>
           /\ \A p \in B : kernel.p_resources_needed[p] = 1
           /\ v >= 0 => B = {}
           /\ v < 0 => v + D = 0
  BY DEF AccountsOK, WaitersOK, B, D, v
<1>8. \A S : Demand(lowered, S) = Demand(kernel, S)
  BY <1>4 DEF Demand
<1>9. \A r : Blocked(lowered, r) = Blocked(kernel, r) /\ Blocked(blocked, r) = Blocked(kernel, r)
  BY <1>4, <1>5 DEF Blocked, searchAsl
<1>10. ASSUME lowered.sem[s] >= 0
       PROVE  AccountsOK(lowered, c)
  <2>1. v >= 0 /\ ~ (lowered.sem[s] < 0) /\ lowered.sem[s] + D >= 0
    BY <1>3, <1>4, <1>10
  <2>2. WaitersOK(lowered, s)
    BY <1>4, <1>7, <1>8, <1>9, <2>1 DEF WaitersOK, B, D
  <2>3. \A r \in AllSem \ {s} : WaitersOK(lowered, r)
    BY <1>4, <1>8, <1>9 DEF AccountsOK, WaitersOK
  <2>4. AslOK(lowered) /\ SeenOK(lowered, c) /\ NeedsOK(lowered)
    BY <1>4 DEF AccountsOK, AslOK, SeenOK, NeedsOK, Queued
  <2> QED
    BY <2>2, <2>3, <2>4 DEF AccountsOK
<1>11. ASSUME lowered.sem[s] < 0, NEW z \in insertBlocked(blocked, s, c)
       PROVE  AccountsOK(z, NULL)
  <2>1. AslOK(blocked) /\ \A p : Queued(blocked, p) <=> Queued(kernel, p)
    BY <1>5 DEF AccountsOK, AslOK, Queued
  <2>2. WaitsToo(blocked, z, s, c)
    BY <1>1, <1>2, <2>1, InsertBlockedResult
  <2>3. /\ z.jobs = kernel.jobs /\ z.ready_queue = kernel.ready_queue /\ AslOK(z)
        /\ Blocked(z, s) = B \cup {c} /\ z.sem[s] = v - w
        /\ \A p : Queued(z, p) <=> p = c \/ Queued(kernel, p)
        /\ \A r \in AllSem \ {s} :
              Blocked(z, r) = Blocked(kernel, r) /\ z.sem[r] = kernel.sem[r]
        /\ z.p_resources_needed[c] = w
        /\ \A p \in Pcb \ {c} : z.p_resources_needed[p] = kernel.p_resources_needed[p]
    BY <1>4, <1>5, <1>9, <2>1, <2>2 DEF WaitsToo, B
  <2>4. Demand(z, B \cup {c}) = D + w
    <3>1. Demand(z, B) = D
      BY <1>3, <1>6, <2>3, DemandSame DEF B, D
    <3>2. Demand(z, {c}) = w
      <4>1. z.p_resources_needed[c] \in 0 .. MaxWeight
        BY <1>3, <2>3
      <4> QED
        BY <1>1, <2>3, <4>1, DemandOne
    <3>3. {c} \in SUBSET Pcb /\ B \cap {c} = {}
      BY <1>1, <1>6 DEF B
    <3> QED
      BY <1>3, <3>1, <3>2, <3>3, DemandAdd
  <2>5. z.sem[s] + Demand(z, Blocked(z, s)) = v + D
    BY <1>3, <2>3, <2>4
  <2>6. ASSUME s \in UnitSem
        PROVE  v + D = 0 /\ \A p \in B \cup {c} : z.p_resources_needed[p] = 1
    <3>1. w = 1 /\ \A p \in B \cup {c} : z.p_resources_needed[p] = 1
      BY <1>3, <1>6, <1>7, <2>3, <2>6 DEF B
    <3>2. CASE v < 0
      BY <1>7, <2>6, <3>1, <3>2
    <3>3. CASE v >= 0
      <4>1. D = 0
        BY <1>7, <2>6, <3>3, DemandEmpty DEF D
      <4>2. v = 0
        BY <1>3, <1>4, <1>11, <3>1, <3>3
      <4> QED
        BY <3>1, <4>1, <4>2
    <3> QED
      BY <1>3, <3>2, <3>3
  <2>7. WaitersOK(z, s)
    <3>1. ~ (z.sem[s] >= 0)
      BY <1>3, <1>4, <1>11, <2>3
    <3> QED
      BY <1>7, <2>3, <2>5, <2>6, <3>1 DEF WaitersOK
  <2>8. ASSUME NEW r \in AllSem \ {s}
        PROVE  WaitersOK(z, r)
    <3>1. Blocked(kernel, r) \in SUBSET Pcb
      BY <1>1, WaitersType
    <3>2. \A p \in Blocked(kernel, r) : z.p_resources_needed[p] = kernel.p_resources_needed[p]
      BY <1>6, <2>3, <3>1
    <3>3. Demand(z, Blocked(kernel, r)) = Demand(kernel, Blocked(kernel, r))
      BY <3>2, DemandSame
    <3> QED
      BY <2>3, <3>2, <3>3 DEF AccountsOK, WaitersOK
  <2>9. SeenOK(z, NULL) /\ NeedsOK(z)
    BY <1>1, <2>3 DEF AccountsOK, SeenOK, NeedsOK
  <2> QED
    BY <2>3, <2>7, <2>8, <2>9 DEF AccountsOK
<1> QED
  BY <1>10, <1>11 DEF lowered, blocked

\* SYS2: who is left waits as before, and what the dead still needed is back on the
\* semaphore; a p_cursem that points to another queue belongs to one who needs nothing.
LEMMA TerminateResult ==
    ASSUME NEW k, NEW c, KernelOK(k, c), AccountsOK(k, c), NEW target \in k.jobs
    PROVE  LET F == Family(k, target)
               z == terminateFamily(k, target)
           IN  /\ z.jobs = k.jobs \ F
               /\ Members(z.ready_queue) = Members(k.ready_queue) \ F
               /\ \A p : Queued(z, p) <=> Queued(k, p) /\ p \notin F
               /\ AslOK(z) /\ NeedsOK(z)
               /\ \A s \in AllSem :
                    /\ WaitersOK(z, s)
                    /\ z.sem[s] + Demand(z, Blocked(z, s)) = k.sem[s] + Demand(k, Blocked(k, s))
<1> DEFINE F == Family(k, target)
           from(d) == {p \in F : k.p_cursem[p] = d}
           debtors(s) == {p \in F : k.p_cursem[p] # NULL /\ k.s_semAdd[k.p_cursem[p]] = s}
           z == terminateFamily(k, target)
<1>1. /\ k \in Kernel /\ F \subseteq k.jobs /\ k.jobs \subseteq Pcb
      /\ k.aslh \subseteq Semd /\ NULL \notin Semd
      /\ k.ready_queue \in Seq(Pcb) /\ \A d \in Semd : k.s_procq[d] \in Seq(Pcb)
  BY NucleusAssumption DEF KernelOK, Kernel, Family
<1> HIDE DEF F
<1>2. /\ z.jobs = k.jobs \ F /\ z.aslh = k.aslh /\ z.s_semAdd = k.s_semAdd
      /\ z.ready_queue = Without(k.ready_queue, F)
      /\ \A s \in AllSem : z.sem[s] = k.sem[s] + Demand(k, debtors(s))
      /\ \A d \in Semd : z.s_procq[d] = Without(k.s_procq[d], from(d))
      /\ \A p \in Pcb : z.p_resources_needed[p] =
                           IF p \in F THEN 0 ELSE k.p_resources_needed[p]
  BY <1>1 DEF Kernel, terminateFamily, returned, F
<1> HIDE DEF z
<1>3. Members(z.ready_queue) = Members(k.ready_queue) \ F
  BY <1>1, <1>2, WithoutProperties
<1>4. ASSUME NEW d \in Semd
      PROVE  Members(z.s_procq[d]) = Members(k.s_procq[d]) \ F
  <2>1. Members(z.s_procq[d]) = Members(k.s_procq[d]) \ from(d)
    <3> HIDE DEF from
    <3> QED
      BY <1>1, <1>2, WithoutProperties
  <2> QED
    BY <2>1 DEF KernelOK, CursemOK
<1>5. \A s : searchAsl(z, s) = searchAsl(k, s) /\ searchAsl(k, s) \subseteq Semd
  BY <1>1, <1>2 DEF searchAsl
<1>6. \A s : Blocked(z, s) = Blocked(k, s) \ F
  BY <1>4, <1>5 DEF Blocked
<1>7. \A p : Queued(z, p) <=> Queued(k, p) /\ p \notin F
  BY <1>1, <1>2, <1>4 DEF Queued
<1>8. AslOK(z) /\ NeedsOK(z)
  BY <1>2, <1>7 DEF AccountsOK, AslOK, NeedsOK
<1>9. ASSUME NEW s \in AllSem
      PROVE  /\ WaitersOK(z, s)
             /\ z.sem[s] + Demand(z, Blocked(z, s)) = k.sem[s] + Demand(k, Blocked(k, s))
  <2> DEFINE B == Blocked(k, s)
             dead == B \cap F
             left == B \ F
             others == debtors(s) \ dead
  <2>1. /\ B \in SUBSET Pcb /\ Demand(k, B) \in Nat /\ k.sem[s] \in Int
        /\ dead \in SUBSET Pcb /\ left \in SUBSET Pcb /\ others \in SUBSET Pcb
        /\ dead \cap left = {} /\ dead \cup left = B /\ dead \cap others = {}
        /\ Demand(k, dead) \in Nat /\ Demand(k, left) \in Nat
    <3>1. B \in SUBSET Pcb /\ Demand(k, B) \in Nat /\ k.sem[s] \in Int
      BY WaitersType
    <3>2. dead \in SUBSET Pcb /\ left \in SUBSET Pcb
      BY <3>1
    <3>3. Demand(k, dead) \in Nat /\ Demand(k, left) \in Nat
      <4> HIDE DEF dead, left
      <4> QED
        BY <3>2, DemandNat
    <3> QED
      BY <1>1, <3>1, <3>2, <3>3
  <2>2. dead \subseteq debtors(s)
    <3>1. ASSUME NEW d \in searchAsl(k, s), NEW p \in Members(k.s_procq[d])
          PROVE  k.p_cursem[p] # NULL /\ k.s_semAdd[k.p_cursem[p]] = s
      BY <1>1, <3>1 DEF KernelOK, CursemOK, searchAsl
    <3> QED
      BY <3>1 DEF Blocked
  <2>3. ASSUME NEW p \in others
        PROVE  k.p_resources_needed[p] = 0
    <3> SUFFICES ASSUME k.p_resources_needed[p] # 0
                 PROVE  p \in B
      OBVIOUS
    <3>1. /\ p \in Pcb /\ k.s_semAdd[k.p_cursem[p]] = s
      BY <1>1
    <3>2. PICK d \in k.aslh : p \in Members(k.s_procq[d])
      BY <3>1 DEF AccountsOK, NeedsOK, Queued
    <3>3. d \in searchAsl(k, s)
      BY <1>1, <3>1, <3>2 DEF KernelOK, CursemOK, searchAsl
    <3> QED
      BY <3>2, <3>3 DEF Blocked
  <2>4. Demand(k, debtors(s)) = Demand(k, dead)
    <3>1. debtors(s) = dead \cup others
      BY <2>2
    <3> HIDE DEF dead, others, debtors
    <3>2. Demand(k, others) = 0
      BY <2>3, DemandZero
    <3> QED
      BY <2>1, <3>1, <3>2, DemandAdd
  <2>5. Demand(k, B) = Demand(k, dead) + Demand(k, left)
    <3> HIDE DEF B, dead, left
    <3> QED
      BY <2>1, DemandAdd
  <2>6. Blocked(z, s) = left
    BY <1>6
  <2>7. \A p \in left : z.p_resources_needed[p] = k.p_resources_needed[p]
    BY <1>2, <2>1
  <2> HIDE DEF B, dead, left, debtors, others
  <2>8. Demand(z, left) = Demand(k, left)
    BY <2>7, DemandSame
  <2>9. z.sem[s] + Demand(z, left) = k.sem[s] + Demand(k, B) /\ z.sem[s] >= k.sem[s]
        /\ z.sem[s] \in Int
    BY <1>2, <2>1, <2>4, <2>5, <2>8
  <2>10. /\ k.sem[s] + Demand(k, B) >= 0
         /\ s \in UnitSem =>
              /\ \A p \in B : k.p_resources_needed[p] = 1
              /\ k.sem[s] >= 0 => B = {}
              /\ k.sem[s] < 0 => k.sem[s] + Demand(k, B) = 0
    BY DEF AccountsOK, WaitersOK, B
  <2>11. ASSUME s \in UnitSem
         PROVE  /\ \A p \in left : z.p_resources_needed[p] = 1
                /\ z.sem[s] >= 0 => left = {}
                /\ z.sem[s] < 0 => z.sem[s] + Demand(z, left) = 0
    <3>1. left \subseteq B
      BY <2>1
    <3>2. \A p \in left : k.p_resources_needed[p] = 1
      BY <2>10, <2>11, <3>1
    <3>3. CASE k.sem[s] >= 0
      <4>1. left = {}
        BY <2>10, <2>11, <3>1, <3>3
      <4> QED
        BY <2>1, <2>9, <3>3, <4>1
    <3>4. CASE k.sem[s] < 0
      <4>1. z.sem[s] + Demand(k, left) = 0
        BY <2>8, <2>9, <2>10, <2>11, <3>4
      <4>2. ASSUME z.sem[s] >= 0
            PROVE  left = {}
        <5>1. Demand(k, left) = 0
          BY <2>1, <2>9, <4>1, <4>2
        <5>2. Cardinality(left) = 0 /\ IsFiniteSet(left)
          BY <2>1, <3>2, <5>1, DemandUnits, NucleusAssumption, FS_Subset
        <5> QED
          BY <5>2, FS_EmptySet
      <4> QED
        BY <2>7, <2>8, <3>2, <4>1, <4>2
    <3> QED
      BY <2>1, <3>3, <3>4
  <2>12. WaitersOK(z, s)
    BY <2>6, <2>9, <2>10, <2>11 DEF WaitersOK
  <2> QED
    BY <2>6, <2>8, <2>9, <2>12 DEF B
<1> QED
  BY <1>2, <1>3, <1>7, <1>8, <1>9 DEF F, z

\* So the accounts still agree, with the caller or, when it died, nobody running.
LEMMA TerminateAccounts ==
    ASSUME NEW k, NEW c, KernelOK(k, c), AccountsOK(k, c), NEW target \in k.jobs,
           NEW r \in {NULL, c}, r = c \/ c = NULL \/ c \in Family(k, target)
    PROVE  AccountsOK(terminateFamily(k, target), r)
<1> DEFINE F == Family(k, target)
           z == terminateFamily(k, target)
<1>1. /\ z.jobs = k.jobs \ F
      /\ Members(z.ready_queue) = Members(k.ready_queue) \ F
      /\ \A p : Queued(z, p) <=> Queued(k, p) /\ p \notin F
      /\ AslOK(z) /\ NeedsOK(z)
      /\ \A s \in AllSem : WaitersOK(z, s)
  BY TerminateResult
<1>2. \A p \in k.jobs \ F : p = c => p = r
  BY NucleusAssumption DEF KernelOK, Kernel
<1> HIDE DEF F, z
<1>3. SeenOK(z, r)
  BY <1>1, <1>2 DEF AccountsOK, SeenOK
<1> QED
  BY <1>1, <1>3 DEF AccountsOK, z

\* The end of scheduler(): the first in the ready queue leaves it, and runs.
LEMMA DispatchAccounts ==
    ASSUME NEW k, KernelOK(k, NULL), AccountsOK(k, NULL), dispatch(k)
    PROVE  AccountsOK(kernel', current_process')
<1>1. k \in Kernel /\ k.ready_queue \in Seq(Pcb) /\ NULL \notin k.jobs
  BY NucleusAssumption DEF KernelOK, Kernel
<1>2. CASE k.ready_queue # <<>>
  <2> DEFINE z == [k EXCEPT !.ready_queue = Tail(k.ready_queue)]
             h == Head(k.ready_queue)
  <2>1. kernel' = z /\ current_process' = h
    BY <1>2 DEF dispatch
  <2>2. /\ z.jobs = k.jobs /\ z.s_procq = k.s_procq /\ z.aslh = k.aslh
        /\ z.s_semAdd = k.s_semAdd /\ z.sem = k.sem
        /\ z.p_resources_needed = k.p_resources_needed
        /\ z.ready_queue = Tail(k.ready_queue)
    BY <1>1 DEF Kernel
  <2>3. Members(k.ready_queue) = {h} \cup Members(Tail(k.ready_queue))
    BY <1>1, <1>2, HeadTailMembers
  <2> HIDE DEF z, h
  <2>4. AccountsOK(z, h)
    BY <1>1, <2>2, <2>3, AccountsFrame
  <2> QED
    BY <2>1, <2>4
<1>3. CASE k.ready_queue = <<>>
  BY <1>3 DEF dispatch
<1> QED
  BY <1>2, <1>3

\* scheduler(), entered with c running.
LEMMA SchedulerAccounts ==
    ASSUME NEW k, NEW c, KernelOK(k, c), AccountsOK(k, c), scheduler(k, c)
    PROVE  AccountsOK(kernel', current_process')
<1> DEFINE all == (IF c = NULL THEN <<>> ELSE <<c>>) \o k.ready_queue
<1>1. PICK line \in Turns(all) :
        LET lined  == [k EXCEPT !.ready_queue = line]
            ticked == pseudoTick(lined)
        IN  \/ dispatch(lined)
            \/ /\ k.sem[Clock] < 0
               /\ \E q \in Turns(ticked.ready_queue) :
                      dispatch([ticked EXCEPT !.ready_queue = q])
  BY DEF scheduler
<1>2. /\ all \in Seq(Pcb) /\ NoRepeats(all)
      /\ Members(all) = Members(k.ready_queue) \cup ({c} \ {NULL})
  BY WholeLine
<1> HIDE DEF all
<1>3. ASSUME NEW x, NEW r, KernelOK(x, r), AccountsOK(x, r), NEW q \in Seq(Pcb), NoRepeats(q),
             Members(q) = Members(x.ready_queue) \cup ({r} \ {NULL})
      PROVE  /\ KernelOK([x EXCEPT !.ready_queue = q], NULL)
             /\ AccountsOK([x EXCEPT !.ready_queue = q], NULL)
  <2> DEFINE z == [x EXCEPT !.ready_queue = q]
  <2>1. KernelOK(z, NULL) /\ NULL \notin x.jobs
    BY <1>3, LineUpOK, NucleusAssumption DEF KernelOK, Kernel
  <2>2. /\ z.jobs = x.jobs /\ z.s_procq = x.s_procq /\ z.aslh = x.aslh
        /\ z.s_semAdd = x.s_semAdd /\ z.sem = x.sem
        /\ z.p_resources_needed = x.p_resources_needed /\ z.ready_queue = q
    BY <1>3 DEF KernelOK, Kernel
  <2> HIDE DEF z
  <2>3. AccountsOK(z, NULL)
    BY <1>3, <2>1, <2>2, AccountsFrame
  <2> QED
    BY <2>1, <2>3 DEF z
<1> DEFINE lined  == [k EXCEPT !.ready_queue = line]
           ticked == pseudoTick(lined)
<1>4. KernelOK(lined, NULL) /\ AccountsOK(lined, NULL)
  BY <1>2, <1>3, TurnsKeepMembers
<1> HIDE DEF lined
<1>5. KernelOK(ticked, NULL) /\ AccountsOK(ticked, NULL)
  BY <1>4, PseudoTickOK, PseudoTickAccounts
<1> HIDE DEF ticked
<1>6. ASSUME NEW q \in Turns(ticked.ready_queue)
      PROVE  /\ KernelOK([ticked EXCEPT !.ready_queue = q], NULL)
             /\ AccountsOK([ticked EXCEPT !.ready_queue = q], NULL)
  <2>1. ticked.ready_queue \in Seq(Pcb) /\ NoRepeats(ticked.ready_queue)
    BY <1>5 DEF KernelOK, Kernel, QueuesOK
  <2>2. q \in Seq(Pcb) /\ NoRepeats(q) /\ Members(q) = Members(ticked.ready_queue)
    BY <2>1, TurnsKeepMembers
  <2>3. Members(q) = Members(ticked.ready_queue) \cup ({NULL} \ {NULL})
    BY <2>2
  <2> QED
    BY <1>3, <1>5, <2>2, <2>3
<1>7. \/ dispatch(lined)
      \/ \E q \in Turns(ticked.ready_queue) : dispatch([ticked EXCEPT !.ready_queue = q])
  BY <1>1 DEF lined, ticked
<1> QED
  BY <1>4, <1>6, <1>7, DispatchAccounts

\* main(): one process, which runs, and no descriptor in use.
LEMMA InitAccounts == Init => AccountsOK(kernel, current_process)
<1> SUFFICES ASSUME Init
             PROVE  AccountsOK(kernel, current_process)
  OBVIOUS
<1>1. PICK init \in Pcb :
        /\ current_process = init /\ kernel.jobs = {init} /\ kernel.aslh = {}
        /\ kernel.p_resources_needed = [p \in Pcb |-> 0]
        /\ kernel.sem = [s \in AllSem |-> IF s \in Sem THEN InitValue ELSE 0]
  BY DEF Init
<1>2. \A s : Blocked(kernel, s) = {}
  BY <1>1 DEF Blocked, searchAsl
<1>3. ASSUME NEW s \in AllSem
      PROVE  WaitersOK(kernel, s)
  <2>1. Demand(kernel, {}) = 0
    BY DemandEmpty
  <2>2. kernel.sem[s] \in Nat
    BY <1>1, NucleusAssumption
  <2>3. kernel.sem[s] + 0 >= 0 /\ ~ (kernel.sem[s] < 0)
    BY <2>2
  <2> QED
    BY <1>2, <2>1, <2>3 DEF WaitersOK
<1>4. AslOK(kernel) /\ SeenOK(kernel, current_process) /\ NeedsOK(kernel)
  BY <1>1 DEF AslOK, SeenOK, NeedsOK
<1> QED
  BY <1>3, <1>4 DEF AccountsOK

\* Every handler keeps the accounts: one step per action of Next.
LEMMA NextAccounts ==
    ASSUME Enough, IInv, AccountsOK(kernel, current_process), [Next]_vars
    PROVE  AccountsOK(kernel', current_process')
<1>0. /\ KernelOK(kernel, current_process) /\ kernel \in Kernel
      /\ kernel.jobs \subseteq Pcb
      /\ cpu = "running" => current_process \in kernel.jobs
  BY DEF IInv, KernelOK, Kernel, CpuOK
<1>1. CASE NoEffect
  BY <1>0, <1>1, SchedulerAccounts DEF NoEffect
<1>2. CASE CreateProcess
  <2>1. CASE scheduler(kernel, current_process)
    BY <1>0, <2>1, SchedulerAccounts
  <2>2. ASSUME NEW child \in Pcb \ kernel.jobs,
               scheduler(spawn(kernel, current_process, child), current_process)
        PROVE  AccountsOK(kernel', current_process')
    <3>1. current_process \in Pcb
      BY <1>0, <1>2 DEF CreateProcess
    <3>2. /\ KernelOK(spawn(kernel, current_process, child), current_process)
          /\ AccountsOK(spawn(kernel, current_process, child), current_process)
      BY <1>0, <3>1, SpawnOK, SpawnAccounts
    <3> QED
      BY <2>2, <3>2, SchedulerAccounts
  <2> QED
    BY <1>2, <2>1, <2>2 DEF CreateProcess
<1>3. ASSUME NEW target \in Pcb, TerminateProcess(target)
      PROVE  AccountsOK(kernel', current_process')
  <2> DEFINE r == survivor(target)
  <2>1. /\ target \in kernel.jobs
        /\ target # current_process => current_process \notin Family(kernel, target)
        /\ scheduler(terminateFamily(kernel, target), r)
    BY <1>3 DEF TerminateProcess
  <2>2. /\ r \in {NULL, current_process} /\ r \notin Family(kernel, target)
        /\ r = current_process \/ current_process \in Family(kernel, target)
    BY <1>0, <2>1, NucleusAssumption DEF survivor, Family
  <2> HIDE DEF r
  <2>3. /\ KernelOK(terminateFamily(kernel, target), r)
        /\ AccountsOK(terminateFamily(kernel, target), r)
    BY <1>0, <2>1, <2>2, TerminateFamilyOK, TerminateAccounts
  <2> QED
    BY <2>1, <2>3, SchedulerAccounts
<1>4. ASSUME NEW s \in AllSem, NEW w \in 1 .. MaxWeight, s \in UnitSem => w = 1,
             cpu = "running", P(s, w)
      PROVE  AccountsOK(kernel', current_process')
  <2> DEFINE c == current_process
             lowered == [kernel EXCEPT !.sem[s] = @ - w]
             blocked == [lowered EXCEPT
                           !.p_resources_needed[c] = w,
                           !.soft_block_c = IF isDeviceSem(s) THEN @ + 1 ELSE @]
  <2>1. \/ lowered.sem[s] >= 0 /\ scheduler(lowered, c)
        \/ /\ lowered.sem[s] < 0
           /\ \E z \in insertBlocked(blocked, s, c) : scheduler(z, NULL)
    BY <1>4 DEF P
  <2>2. /\ KernelOK(lowered, c)
        /\ \A z \in insertBlocked(blocked, s, c) : KernelOK(z, NULL)
    BY <1>4, PKernelsOK
  <2>3. /\ lowered.sem[s] >= 0 => AccountsOK(lowered, c)
        /\ lowered.sem[s] < 0 =>
             \A z \in insertBlocked(blocked, s, c) : AccountsOK(z, NULL)
    BY <1>4, PAccounts
  <2> HIDE DEF lowered, blocked
  <2> QED
    BY <2>1, <2>2, <2>3, SchedulerAccounts
<1>5. ASSUME NEW k, KernelOK(k, current_process), AccountsOK(k, current_process),
             scheduler(k, current_process)
      PROVE  AccountsOK(kernel', current_process')
  BY <1>5, SchedulerAccounts
<1>6. 1 \in 1 .. MaxWeight /\ 1 \in Nat /\ DeviceSem \subseteq AllSem /\ Clock \in AllSem
      /\ IODevice \subseteq AllSem /\ Device \subseteq AllSem
  BY NucleusAssumption DEF AllSem, DeviceSem, IODevice
<1>7. ASSUME NEW s \in Sem, NEW w \in Weights, SemP(s, w) \/ SemV(s, w)
      PROVE  AccountsOK(kernel', current_process')
  <2>1. /\ s \in AllSem /\ w \in 1 .. MaxWeight /\ w \in Nat
        /\ MaxWeight = 1 => w = 1
    BY NucleusAssumption DEF AllSem
  <2>2. s \in UnitSem => w = 1
    BY <2>1 DEF UnitSem
  <2>3. /\ KernelOK(V(kernel, s, w), current_process)
        /\ AccountsOK(V(kernel, s, w), current_process)
    BY <1>0, <2>1, VOK, VAccounts
  <2> QED
    BY <1>4, <1>5, <1>7, <2>1, <2>2, <2>3 DEF SemP, SemV
<1>8. CASE WaitClock
  BY <1>4, <1>6, <1>8 DEF WaitClock
<1>9. ASSUME NEW d \in IODevice, IODevOp(d)
      PROVE  AccountsOK(kernel', current_process')
  BY <1>4, <1>6, <1>9 DEF IODevOp
<1>10. ASSUME NEW tick \in BOOLEAN, TimerInterrupt(tick)
       PROVE  AccountsOK(kernel', current_process')
  <2>1. /\ KernelOK(pseudoTick(kernel), current_process)
        /\ AccountsOK(pseudoTick(kernel), current_process)
    BY <1>0, PseudoTickOK, PseudoTickAccounts
  <2> QED
    BY <1>0, <1>5, <1>10, <2>1 DEF TimerInterrupt
<1>11. CASE fatal
  BY <1>11 DEF fatal
<1>12. ASSUME NEW d \in Device, DeviceInterrupt(d)
       PROVE  AccountsOK(kernel', current_process')
  <2>1. /\ KernelOK(V(kernel, d, 1), current_process)
        /\ AccountsOK(V(kernel, d, 1), current_process)
    BY <1>0, <1>6, VOK, VAccounts
  <2> QED
    BY <1>5, <1>11, <1>12, <2>1 DEF DeviceInterrupt
<1>13. ASSUME NEW t \in Terminal, NEW done \in Halves(t), TerminalInterrupt(t, done)
       PROVE  AccountsOK(kernel', current_process')
  <2>1. ASSUME NEW k, KernelOK(k, current_process), AccountsOK(k, current_process),
               NEW d \in {Transmitter(t), Receiver(t)}
        PROVE  /\ KernelOK(completed(k, d, done), current_process)
               /\ AccountsOK(completed(k, d, done), current_process)
    <3>1. d \in AllSem
      BY DEF AllSem, DeviceSem, IODevice, Transmitter, Receiver
    <3>2. /\ KernelOK(V(k, d, 1), current_process)
          /\ AccountsOK(V(k, d, 1), current_process)
      BY <1>6, <2>1, <3>1, VOK, VAccounts
    <3> QED
      BY <2>1, <3>2 DEF completed
  <2> DEFINE k == completed(completed(kernel, Transmitter(t), done), Receiver(t), done)
  <2>2. KernelOK(k, current_process) /\ AccountsOK(k, current_process)
    BY <1>0, <2>1
  <2>3. fatal \/ scheduler(k, current_process)
    BY <1>13 DEF TerminalInterrupt
  <2> HIDE DEF k
  <2> QED
    BY <1>5, <1>11, <2>2, <2>3
<1>14. CASE UNCHANGED vars
  BY <1>14 DEF vars
<1> QED
  BY <1>1, <1>2, <1>3, <1>7, <1>8, <1>9, <1>10, <1>12, <1>13, <1>14 DEF Next

--------------------------------------------------------------------------------

\* The accounts agree in every state, with a descriptor for every semaphore.
LEMMA AccountsInvariance ==
    ASSUME Enough
    PROVE  Spec => [](IInv /\ AccountsOK(kernel, current_process))
<1>1. Init => AccountsOK(kernel, current_process)
  BY InitAccounts
<1>2. IInv /\ AccountsOK(kernel, current_process) /\ [Next]_vars =>
          AccountsOK(kernel, current_process)'
  <2>1. AccountsOK(kernel, current_process)' <=> AccountsOK(kernel', current_process')
    BY DEF AccountsOK, AslOK, SeenOK, NeedsOK, Queued, WaitersOK, Blocked, searchAsl, Demand
  <2> QED
    BY <2>1, NextAccounts
<1> QED
  BY <1>1, <1>2, Invariance, PTL DEF Spec

\* No process gets lost: each one runs, is ready, or waits where a V finds it.
THEOREM CantHideWithEnough ==
    ASSUME Enough
    PROVE  Spec => []CantHide
<1>1. IInv /\ AccountsOK(kernel, current_process) => CantHide
  <2> SUFFICES ASSUME IInv, AccountsOK(kernel, current_process), NEW p,
                      Queued(kernel, p)
               PROVE  p \in Blockeds
    BY DEF AccountsOK, SeenOK, CantHide
  <2>1. PICK d \in kernel.aslh : p \in Members(kernel.s_procq[d])
    BY DEF Queued
  <2>2. kernel.s_semAdd[d] \in AllSem /\ d \in searchAsl(kernel, kernel.s_semAdd[d])
    BY DEF AccountsOK, AslOK, searchAsl
  <2> QED
    BY <2>1, <2>2 DEF Blockeds, Blocked
<1> QED
  BY <1>1, AccountsInvariance, PTL

\* No unit is made up or granted twice, whatever the weights.
THEOREM CreditsWithEnough ==
    ASSUME Enough
    PROVE  Spec => []CreditOK
<1>1. AccountsOK(kernel, current_process) => CreditOK
  BY DEF AccountsOK, WaitersOK, CreditOK
<1> QED
  BY <1>1, AccountsInvariance, PTL

\* With weights of 1, waiters need one unit each, and the value and the waiters add up to
\* the units that are free.
LEMMA FreeUnits ==
    ASSUME NEW k, NEW c, KernelOK(k, c), NEW s \in UnitSem, WaitersOK(k, s)
    PROVE  /\ k.sem[s] \in Int
           /\ Cardinality(Blocked(k, s)) = Demand(k, Blocked(k, s))
           /\ k.sem[s] + Cardinality(Blocked(k, s)) = IF k.sem[s] < 0 THEN 0 ELSE k.sem[s]
<1> DEFINE B == Blocked(k, s)
<1>1. s \in AllSem
  BY DEF UnitSem
<1>2. B \in SUBSET Pcb /\ Demand(k, B) \in Nat /\ k.sem[s] \in Int
  BY <1>1, WaitersType
<1>3. /\ \A p \in B : k.p_resources_needed[p] = 1
      /\ k.sem[s] >= 0 => B = {}
      /\ k.sem[s] < 0 => k.sem[s] + Demand(k, B) = 0
  BY <1>1 DEF WaitersOK
<1> HIDE DEF B
<1>4. Cardinality(B) = Demand(k, B) /\ Cardinality({}) = 0
  BY <1>2, <1>3, DemandUnits, FS_EmptySet
<1>5. k.sem[s] + Cardinality(B) = IF k.sem[s] < 0 THEN 0 ELSE k.sem[s]
  BY <1>2, <1>3, <1>4
<1> QED
  BY <1>2, <1>4, <1>5 DEF B

\* With weights of 1, the value of a semaphore says how many wait for it.
THEOREM UnitAccountingWithEnough ==
    ASSUME Enough
    PROVE  Spec => []UnitAccounting
<1>1. IInv /\ AccountsOK(kernel, current_process) => UnitAccounting
  <2> SUFFICES ASSUME IInv, AccountsOK(kernel, current_process), NEW s \in UnitSem
               PROVE  Cardinality(Blocked(kernel, s)) =
                          IF kernel.sem[s] < 0 THEN -kernel.sem[s] ELSE 0
    BY DEF UnitAccounting
  <2>1. WaitersOK(kernel, s)
    BY DEF AccountsOK, UnitSem
  <2>2. KernelOK(kernel, current_process)
    BY DEF IInv
  <2>3. /\ kernel.sem[s] \in Int
        /\ kernel.sem[s] + Cardinality(Blocked(kernel, s)) =
              IF kernel.sem[s] < 0 THEN 0 ELSE kernel.sem[s]
    BY <2>1, <2>2, FreeUnits
  <2>4. Cardinality(Blocked(kernel, s)) \in Nat
    BY <2>2, WaitersType, FS_CardinalityType DEF UnitSem
  <2> QED
    BY <2>3, <2>4
<1> QED
  BY <1>1, AccountsInvariance, PTL

--------------------------------------------------------------------------------
(* From one state to the next: in which order a semaphore serves its waiters, and how     *)
(* many units it has.  Every handler ends in scheduler(), so a step is what the service   *)
(* or the interrupt did to the kernel, and then what scheduler() does to that.            *)

\* From k to z waiters only leave, and nobody is passed over: when the one ahead stays, so
\* does the one behind, in this order.
KeepsOrder(k, z) ==
    /\ z.jobs \subseteq k.jobs
    /\ \A d \in z.aslh : d \in k.aslh /\ z.s_semAdd[d] = k.s_semAdd[d]
    /\ \A p : Queued(z, p) => Queued(k, p)
    /\ \A a, b : Ahead(z, a, b) => Ahead(k, a, b)
    /\ \A a, b : Ahead(k, a, b) /\ Queued(z, a) /\ b \in z.jobs => Ahead(z, a, b)

\* From k to z waiters may also come, each behind those who wait already.
ServesInOrder(k, z) ==
    /\ \A d \in z.aslh : \/ z.s_semAdd[d] \in AllSem
                         \/ d \in k.aslh /\ z.s_semAdd[d] = k.s_semAdd[d]
    /\ \A a, b : Ahead(z, b, a) => Ahead(k, b, a) \/ ~ Queued(k, a)
    /\ \A a, b : Ahead(k, a, b) /\ Queued(z, a) /\ b \in z.jobs => Ahead(z, a, b)

\* Two kernels that differ in the ready queue, in values and in counters.
SameQueues(k, z) ==
    z.jobs = k.jobs /\ z.aslh = k.aslh /\ z.s_semAdd = k.s_semAdd /\ z.s_procq = k.s_procq

\* Being ahead, with the order in one queue.
LEMMA AheadIsBefore ==
    ASSUME NEW k, NEW a, NEW b
    PROVE  Ahead(k, a, b) <=> \E d \in k.aslh : Before(k.s_procq[d], a, b)
BY DEF Ahead, Before

\* Who is ahead, or behind, is in the queue.
LEMMA AheadQueued ==
    ASSUME NEW k, NEW a, NEW b, Ahead(k, a, b)
    PROVE  Queued(k, a) /\ Queued(k, b)
BY DEF Ahead, Queued, Members

\* The order depends on the queues only.
LEMMA SameQueuesOrder ==
    ASSUME NEW k, NEW z, SameQueues(k, z)
    PROVE  KeepsOrder(k, z)
BY DEF SameQueues, KeepsOrder, Ahead, Queued

\* Two steps in order.
LEMMA OrderComposes ==
    ASSUME NEW k, NEW y, NEW z
    PROVE  /\ KeepsOrder(k, y) => ServesInOrder(k, y)
           /\ KeepsOrder(k, y) /\ KeepsOrder(y, z) => KeepsOrder(k, z)
           /\ ServesInOrder(k, y) /\ KeepsOrder(y, z) => ServesInOrder(k, z)
<1>1. KeepsOrder(k, y) => ServesInOrder(k, y)
  BY DEF KeepsOrder, ServesInOrder
<1>2. ASSUME KeepsOrder(k, y), KeepsOrder(y, z)
      PROVE  KeepsOrder(k, z)
  <2>1. \A a, b : Ahead(k, a, b) /\ Queued(z, a) /\ b \in z.jobs => Ahead(z, a, b)
    BY <1>2 DEF KeepsOrder
  <2>2. \A d \in z.aslh : d \in k.aslh /\ z.s_semAdd[d] = k.s_semAdd[d]
    BY <1>2 DEF KeepsOrder
  <2> QED
    BY <1>2, <2>1, <2>2 DEF KeepsOrder
<1>3. ASSUME ServesInOrder(k, y), KeepsOrder(y, z)
      PROVE  ServesInOrder(k, z)
  <2>1. \A a, b : Ahead(k, a, b) /\ Queued(z, a) /\ b \in z.jobs => Ahead(z, a, b)
    BY <1>3 DEF ServesInOrder, KeepsOrder
  <2>2. \A d \in z.aslh : \/ z.s_semAdd[d] \in AllSem
                          \/ d \in k.aslh /\ z.s_semAdd[d] = k.s_semAdd[d]
    BY <1>3 DEF ServesInOrder, KeepsOrder
  <2>3. \A a, b : Ahead(z, b, a) => Ahead(k, b, a) \/ ~ Queued(k, a)
    BY <1>3 DEF ServesInOrder, KeepsOrder
  <2> QED
    BY <2>1, <2>2, <2>3 DEF ServesInOrder
<1> QED
  BY <1>1, <1>2, <1>3

\* The loop of SEMOP takes processes from the head of a queue.
LEMMA WakeUpOrder ==
    ASSUME NEW k, NEW c, KernelOK(k, c), NEW s \in AllSem, NEW d \in searchAsl(k, s),
           NEW w \in Nat
    PROVE  KeepsOrder(k, wakeUp(k, s, d, w))
<1> DEFINE q == k.s_procq[d]
           n == Satisfied(k, q, w)
           rest == SubSeq(q, n + 1, Len(q))
           z == wakeUp(k, s, d, w)
<1>1. /\ k \in Kernel /\ d \in Semd /\ d \in k.aslh /\ k.aslh \subseteq Semd
      /\ q \in Seq(Pcb) /\ NoRepeats(q)
      /\ \A e \in Semd \ {d} : Members(k.s_procq[e]) \cap Members(q) = {}
  BY DEF KernelOK, Kernel, QueuesOK, searchAsl
<1>2. /\ z.jobs = k.jobs /\ z.s_semAdd = k.s_semAdd
      /\ z.aslh = releaseSemd(k.aslh, d, n, rest)
      /\ z.s_procq[d] = rest
      /\ \A e \in Semd \ {d} : z.s_procq[e] = k.s_procq[e]
  BY <1>1 DEF Kernel, wakeUp
<1>3. n \in 0 .. Len(q)
  BY <1>1, SatisfiedIsLongest
<1> HIDE DEF n, z
<1>4. /\ Members(rest) \subseteq Members(q)
      /\ Members(rest) = {} <=> rest = <<>>
  <2>1. rest \in Seq(Pcb) /\ Members(rest) \subseteq Members(q)
    BY <1>1, <1>3, CutMembers
  <2> HIDE DEF rest, q
  <2> QED
    BY <2>1, MembersType
<1>5. \A a, b : /\ Before(rest, a, b) => Before(q, a, b)
                /\ Before(q, a, b) /\ a \in Members(rest) => Before(rest, a, b)
  BY <1>1, <1>3, RestOrder
<1> HIDE DEF rest, q
<1>6. /\ z.aslh \subseteq k.aslh /\ k.aslh \ {d} \subseteq z.aslh
      /\ rest # <<>> => d \in z.aslh
  BY <1>1, <1>2 DEF releaseSemd
<1>7. \A p : Queued(z, p) => Queued(k, p)
  BY <1>1, <1>2, <1>4, <1>6 DEF Queued, q
<1>8. ASSUME NEW a, NEW b, Ahead(z, a, b)
      PROVE  Ahead(k, a, b)
  <2>1. PICK e \in z.aslh : Before(z.s_procq[e], a, b)
    BY <1>8, AheadIsBefore
  <2>2. e \in k.aslh /\ Before(k.s_procq[e], a, b)
    BY <1>1, <1>2, <1>5, <1>6, <2>1 DEF q
  <2> QED
    BY <2>2, AheadIsBefore
<1>9. ASSUME NEW a, NEW b, Ahead(k, a, b), Queued(z, a)
      PROVE  Ahead(z, a, b)
  <2>1. PICK e \in k.aslh : Before(k.s_procq[e], a, b)
    BY <1>9, AheadIsBefore
  <2>2. PICK x \in z.aslh : a \in Members(z.s_procq[x])
    BY <1>9 DEF Queued
  <2>3. a \in Members(k.s_procq[e])
    BY <2>1 DEF Before, Members
  <2>4. x \in Semd /\ e \in Semd
    BY <1>1, <1>6
  <2>5. CASE e = d
    <3>1. x = d
      BY <1>1, <1>2, <2>2, <2>3, <2>4, <2>5 DEF q
    <3>2. Before(z.s_procq[d], a, b)
      BY <1>2, <1>5, <2>1, <2>2, <2>5, <3>1 DEF q
    <3> QED
      BY <2>2, <3>1, <3>2, AheadIsBefore
  <2>6. CASE e # d
    <3>1. e \in z.aslh /\ Before(z.s_procq[e], a, b)
      BY <1>1, <1>2, <1>6, <2>1, <2>4, <2>6
    <3> QED
      BY <3>1, AheadIsBefore
  <2> QED
    BY <2>5, <2>6
<1>10. /\ z.jobs \subseteq k.jobs
       /\ \A e \in z.aslh : e \in k.aslh /\ z.s_semAdd[e] = k.s_semAdd[e]
  BY <1>2, <1>6
<1>11. KeepsOrder(k, z)
  BY <1>7, <1>8, <1>9, <1>10 DEF KeepsOrder
<1> QED
  BY <1>11 DEF z

\* SEMOP with a positive weight, and what it leaves in the semaphores.
LEMMA VOrder ==
    ASSUME NEW k, NEW c, KernelOK(k, c), NEW s \in AllSem, NEW w \in Nat
    PROVE  /\ KeepsOrder(k, V(k, s, w))
           /\ V(k, s, w).jobs = k.jobs
           /\ V(k, s, w).sem = [k.sem EXCEPT ![s] = @ + w]
<1> DEFINE x == [k EXCEPT !.sem[s] = @ + w]
<1>1. k \in Kernel /\ k.sem[s] \in Int
  BY DEF KernelOK, Kernel
<1>2. x \in Kernel
  <2>1. [k.sem EXCEPT ![s] = k.sem[s] + w] \in [AllSem -> Int]
    BY <1>1 DEF Kernel
  <2> QED
    BY <1>1, <2>1 DEF Kernel
<1>3. /\ x.jobs = k.jobs /\ x.ready_queue = k.ready_queue /\ x.s_procq = k.s_procq
      /\ x.p_cursem = k.p_cursem /\ x.aslh = k.aslh /\ x.s_semAdd = k.s_semAdd
      /\ x.process_c = k.process_c /\ x.soft_block_c = k.soft_block_c
      /\ x.sem = [k.sem EXCEPT ![s] = @ + w]
      /\ k.soft_block_c \in Int
  BY <1>1 DEF Kernel
<1>4. V(k, s, w) = IF searchAsl(k, s) = {} THEN x
                   ELSE wakeUp(x, s, CHOOSE d \in searchAsl(k, s) : TRUE, w)
  BY DEF V
<1> HIDE DEF x
<1>5. KernelOK(x, c) /\ searchAsl(x, s) = searchAsl(k, s)
  BY <1>2, <1>3, KernelOKFrame DEF searchAsl
<1>6. KeepsOrder(k, x)
  BY <1>3, SameQueuesOrder DEF SameQueues
<1>7. ASSUME NEW d \in searchAsl(x, s)
      PROVE  /\ KeepsOrder(k, wakeUp(x, s, d, w))
             /\ wakeUp(x, s, d, w).jobs = k.jobs
             /\ wakeUp(x, s, d, w).sem = x.sem
  <2>1. wakeUp(x, s, d, w).jobs = x.jobs /\ wakeUp(x, s, d, w).sem = x.sem
    BY <1>5, WakeUpResult
  <2>2. KeepsOrder(x, wakeUp(x, s, d, w))
    BY <1>5, WakeUpOrder
  <2> QED
    BY <1>3, <1>6, <2>1, <2>2, OrderComposes
<1>8. CASE searchAsl(k, s) = {}
  BY <1>3, <1>4, <1>6, <1>8
<1>9. CASE searchAsl(k, s) # {}
  <2>1. (CHOOSE d \in searchAsl(k, s) : TRUE) \in searchAsl(x, s)
    BY <1>5, <1>9
  <2> QED
    BY <1>3, <1>4, <1>7, <1>9, <2>1
<1> QED
  BY <1>8, <1>9

\* terminateFamily takes out the dead, wherever they stand.
LEMMA TerminateOrder ==
    ASSUME NEW k, NEW c, KernelOK(k, c), NEW target \in k.jobs
    PROVE  KeepsOrder(k, terminateFamily(k, target))
<1> DEFINE F == Family(k, target)
           from(d) == {p \in F : k.p_cursem[p] = d}
           z == terminateFamily(k, target)
<1>1. /\ k \in Kernel /\ k.aslh \subseteq Semd
      /\ \A d \in Semd : k.s_procq[d] \in Seq(Pcb)
  BY DEF KernelOK, Kernel
<1>2. /\ z.jobs = k.jobs \ F /\ z.aslh = k.aslh /\ z.s_semAdd = k.s_semAdd
      /\ \A d \in Semd : z.s_procq[d] = Without(k.s_procq[d], from(d))
  BY <1>1 DEF Kernel, terminateFamily
<1> HIDE DEF F, z
<1>3. ASSUME NEW d \in Semd
      PROVE  /\ \A p \in Members(k.s_procq[d]) : p \in from(d) <=> p \in F
             /\ Members(z.s_procq[d]) = Members(k.s_procq[d]) \ F
  <2>1. \A p \in Members(k.s_procq[d]) : p \in from(d) <=> p \in F
    BY DEF KernelOK, CursemOK
  <2>2. Members(z.s_procq[d]) = Members(k.s_procq[d]) \ from(d)
    <3> HIDE DEF from
    <3> QED
      BY <1>1, <1>2, WithoutProperties
  <2> QED
    BY <2>1, <2>2
<1>4. ASSUME NEW d \in Semd, NEW a, NEW b
      PROVE  Before(z.s_procq[d], a, b) <=>
                Before(k.s_procq[d], a, b) /\ a \notin from(d) /\ b \notin from(d)
  <2> HIDE DEF from
  <2> QED
    BY <1>1, <1>2, WithoutOrder
<1> HIDE DEF from
<1>5. \A p : Queued(z, p) => Queued(k, p) /\ p \notin F
  BY <1>1, <1>2, <1>3 DEF Queued
<1>6. ASSUME NEW a, NEW b, Ahead(z, a, b)
      PROVE  Ahead(k, a, b)
  <2>1. PICK d \in z.aslh : Before(z.s_procq[d], a, b)
    BY <1>6, AheadIsBefore
  <2>2. d \in k.aslh /\ Before(k.s_procq[d], a, b)
    BY <1>1, <1>2, <1>4, <2>1
  <2> QED
    BY <2>2, AheadIsBefore
<1>7. ASSUME NEW a, NEW b, Ahead(k, a, b), Queued(z, a), b \in z.jobs
      PROVE  Ahead(z, a, b)
  <2>1. PICK d \in k.aslh : Before(k.s_procq[d], a, b)
    BY <1>7, AheadIsBefore
  <2>2. d \in Semd /\ d \in z.aslh /\ a \notin F /\ b \notin F
    BY <1>1, <1>2, <1>5, <1>7, <2>1
  <2>3. a \in Members(k.s_procq[d]) /\ b \in Members(k.s_procq[d])
    BY <2>1 DEF Before, Members
  <2>4. Before(z.s_procq[d], a, b)
    BY <1>3, <1>4, <2>1, <2>2, <2>3
  <2> QED
    BY <2>2, <2>4, AheadIsBefore
<1>8. z.jobs \subseteq k.jobs /\ \A d \in z.aslh : d \in k.aslh /\ z.s_semAdd[d] = k.s_semAdd[d]
  BY <1>2
<1>9. KeepsOrder(k, z)
  BY <1>5, <1>6, <1>7, <1>8 DEF KeepsOrder
<1> QED
  BY <1>9 DEF z

\* insertProcQ, on a descriptor that is active or on a free one.
LEMMA EnqueueOrder ==
    ASSUME NEW k \in Kernel, NEW x \in Kernel, NEW d \in Semd, NEW p \in Pcb, ~ Queued(k, p),
           x.jobs = k.jobs, x.aslh = k.aslh \cup {d}, x.s_semAdd[d] \in AllSem,
           \A e \in k.aslh \ {d} : x.s_semAdd[e] = k.s_semAdd[e] /\ x.s_procq[e] = k.s_procq[e],
           x.s_procq[d] = IF d \in k.aslh THEN k.s_procq[d] ELSE <<>>
    PROVE  /\ ServesInOrder(k, Enqueue(x, p, d))
           /\ Enqueue(x, p, d).jobs = k.jobs
<1> DEFINE z == Enqueue(x, p, d)
<1>1. /\ z.jobs = k.jobs /\ z.aslh = k.aslh \cup {d} /\ z.s_semAdd = x.s_semAdd
      /\ z.s_procq[d] = Append(x.s_procq[d], p)
      /\ \A e \in k.aslh \ {d} : z.s_procq[e] = k.s_procq[e]
      /\ k.aslh \subseteq Semd /\ x.s_procq[d] \in Seq(Pcb)
  BY DEF Kernel, Enqueue
<1> HIDE DEF z
<1>2. \A a, b : Before(z.s_procq[d], a, b) <=>
                   Before(x.s_procq[d], a, b) \/ (b = p /\ a \in Members(x.s_procq[d]))
  <2>1. PICK q : q = x.s_procq[d]
    OBVIOUS
  <2>2. q \in Seq(Pcb)
    BY <1>1, <2>1
  <2>3. \A a, b : Before(Append(q, p), a, b) <=> Before(q, a, b) \/ (b = p /\ a \in Members(q))
    BY <2>2, AppendOrder
  <2> QED
    BY <1>1, <2>1, <2>3
<1>3. \A a, b : ~ Before(<<>>, a, b)
  BY DEF Before
<1>4. ASSUME NEW a, NEW b, Ahead(z, b, a)
      PROVE  Ahead(k, b, a) \/ ~ Queued(k, a)
  <2>1. PICK e \in z.aslh : Before(z.s_procq[e], b, a)
    BY <1>4, AheadIsBefore
  <2>2. CASE e = d
    BY <1>2, <1>3, <2>1, <2>2, AheadIsBefore
  <2>3. CASE e # d
    BY <1>1, <2>1, <2>3, AheadIsBefore
  <2> QED
    BY <2>2, <2>3
<1>5. ASSUME NEW a, NEW b, Ahead(k, a, b)
      PROVE  Ahead(z, a, b)
  <2>1. PICK e \in k.aslh : Before(k.s_procq[e], a, b)
    BY <1>5, AheadIsBefore
  <2>2. e \in z.aslh /\ Before(z.s_procq[e], a, b)
    BY <1>1, <1>2, <2>1
  <2> QED
    BY <2>2, AheadIsBefore
<1>6. \A e \in z.aslh : \/ z.s_semAdd[e] \in AllSem
                        \/ e \in k.aslh /\ z.s_semAdd[e] = k.s_semAdd[e]
  BY <1>1
<1>7. ServesInOrder(k, z)
  BY <1>4, <1>5, <1>6 DEF ServesInOrder
<1> QED
  BY <1>1, <1>7 DEF z

\* insertBlocked, also when it finds no descriptor.
LEMMA InsertBlockedOrder ==
    ASSUME NEW k \in Kernel, NEW s \in AllSem, NEW p \in Pcb, ~ Queued(k, p),
           NEW z \in insertBlocked(k, s, p)
    PROVE  ServesInOrder(k, z) /\ z.jobs = k.jobs
<1>1. ASSUME NEW d \in searchAsl(k, s), z = Enqueue(k, p, d)
      PROVE  ServesInOrder(k, z) /\ z.jobs = k.jobs
  <2>1. /\ d \in Semd /\ d \in k.aslh /\ k.aslh = k.aslh \cup {d}
        /\ k.s_semAdd[d] \in AllSem
    BY DEF searchAsl, Kernel
  <2> QED
    BY <1>1, <2>1, EnqueueOrder
<1>2. ASSUME NEW d \in Semd \ k.aslh,
             z = Enqueue([k EXCEPT !.aslh = @ \cup {d}, !.s_semAdd[d] = s,
                                   !.s_procq[d] = <<>>], p, d)
      PROVE  ServesInOrder(k, z) /\ z.jobs = k.jobs
  <2> DEFINE x == [k EXCEPT !.aslh = @ \cup {d}, !.s_semAdd[d] = s, !.s_procq[d] = <<>>]
  <2>1. x \in Kernel
    <3>1. <<>> \in Seq(Pcb) /\ s \in AllSem \cup {NULL}
      BY EmptySeq
    <3> QED
      BY <3>1 DEF Kernel
  <2>2. /\ x.jobs = k.jobs /\ x.aslh = k.aslh \cup {d} /\ x.s_semAdd[d] = s
        /\ x.s_procq[d] = <<>>
        /\ \A e \in k.aslh \ {d} : x.s_semAdd[e] = k.s_semAdd[e] /\ x.s_procq[e] = k.s_procq[e]
    BY DEF Kernel
  <2>3. z = Enqueue(x, p, d)
    BY <1>2
  <2> HIDE DEF x
  <2> QED
    BY <2>1, <2>2, <2>3, EnqueueOrder
<1>3. ASSUME z = k
      PROVE  ServesInOrder(k, z) /\ z.jobs = k.jobs
  BY <1>3, SameQueuesOrder, OrderComposes DEF SameQueues
<1> QED
  BY <1>1, <1>2, <1>3 DEF insertBlocked

\* Kernels that differ in the ready queue, the counters and stale pointers at most.
SameBooks(k, z) ==
    /\ SameQueues(k, z) /\ SameTree(k, z)
    /\ z.sem = k.sem /\ z.p_resources_needed = k.p_resources_needed

\* What scheduler() does: it may send the head of the line back, a tick may serve the
\* clock, and then who is first leaves the line.
LEMMA SchedulerPath ==
    ASSUME NEW k, NEW c, KernelOK(k, c), scheduler(k, c)
    PROVE  \E lined, ticked :
             /\ KernelOK(lined, NULL)
             /\ SameBooks(k, lined)
             /\ ticked \in {lined, pseudoTick(lined)}
             /\ SameBooks(ticked, kernel')
<1> DEFINE all == (IF c = NULL THEN <<>> ELSE <<c>>) \o k.ready_queue
<1>1. PICK line \in Turns(all) :
        LET lined  == [k EXCEPT !.ready_queue = line]
            ticked == pseudoTick(lined)
        IN  \/ dispatch(lined)
            \/ /\ k.sem[Clock] < 0
               /\ \E q \in Turns(ticked.ready_queue) :
                      dispatch([ticked EXCEPT !.ready_queue = q])
  BY DEF scheduler
<1>2. /\ all \in Seq(Pcb) /\ NoRepeats(all)
      /\ Members(all) = Members(k.ready_queue) \cup ({c} \ {NULL})
  BY WholeLine
<1> HIDE DEF all
<1>3. ASSUME NEW x \in Kernel, NEW q
      PROVE  SameBooks(x, [x EXCEPT !.ready_queue = q])
  BY DEF Kernel, SameBooks, SameQueues, SameTree
<1>4. ASSUME NEW x \in Kernel, NEW q, dispatch([x EXCEPT !.ready_queue = q])
      PROVE  SameBooks(x, kernel')
  <2>1. \E l : kernel' = [x EXCEPT !.ready_queue = l]
    <3> DEFINE y == [x EXCEPT !.ready_queue = q]
    <3>1. kernel' = y \/ kernel' = [y EXCEPT !.ready_queue = Tail(@)]
      BY <1>4 DEF dispatch
    <3>2. [y EXCEPT !.ready_queue = Tail(@)] = [x EXCEPT !.ready_queue = Tail(q)]
      BY DEF Kernel
    <3> QED
      BY <3>1, <3>2
  <2> QED
    BY <1>3, <2>1
<1> DEFINE lined  == [k EXCEPT !.ready_queue = line]
           ticked == pseudoTick(lined)
<1>5. /\ KernelOK(lined, NULL) /\ k \in Kernel
      /\ SameBooks(k, lined)
  BY <1>2, <1>3, TurnsKeepMembers, LineUpOK DEF KernelOK
<1>6. CASE dispatch(lined)
  <2>1. SameBooks(k, kernel')
    BY <1>4, <1>5, <1>6
  <2> HIDE DEF lined
  <2>2. SameBooks(lined, kernel')
    BY <1>5, <2>1 DEF SameBooks, SameQueues, SameTree
  <2> QED
    BY <1>5, <2>2
<1>7. ASSUME NEW q \in Turns(ticked.ready_queue), dispatch([ticked EXCEPT !.ready_queue = q])
      PROVE  SameBooks(ticked, kernel')
  <2>1. ticked \in Kernel
    BY <1>5, PseudoTickOK DEF KernelOK
  <2> HIDE DEF ticked
  <2> QED
    BY <1>4, <1>7, <2>1
<1> QED
  BY <1>1, <1>5, <1>6, <1>7

\* A tick serves the clock, and the clock only.
LEMMA PseudoTickOrder ==
    ASSUME NEW k, NEW c, KernelOK(k, c)
    PROVE  /\ KeepsOrder(k, pseudoTick(k)) /\ pseudoTick(k).jobs = k.jobs
           /\ \A s \in AllSem : IF k.sem[s] < 0 THEN pseudoTick(k).sem[s] <= 0
                                ELSE pseudoTick(k).sem[s] = k.sem[s]
<1>1. Clock \in AllSem /\ k \in Kernel /\ \A s \in AllSem : k.sem[s] \in Int
  BY DEF AllSem, DeviceSem, IODevice, KernelOK, Kernel
<1>2. CASE k.sem[Clock] < 0
  <2>1. -k.sem[Clock] \in Nat /\ pseudoTick(k) = V(k, Clock, -k.sem[Clock])
    BY <1>1, <1>2 DEF pseudoTick
  <2>2. /\ KeepsOrder(k, pseudoTick(k)) /\ pseudoTick(k).jobs = k.jobs
        /\ pseudoTick(k).sem = [k.sem EXCEPT ![Clock] = @ + -k.sem[Clock]]
    BY <1>1, <2>1, VOrder
  <2>3. /\ pseudoTick(k).sem[Clock] = 0
        /\ \A s \in AllSem \ {Clock} : pseudoTick(k).sem[s] = k.sem[s]
    BY <1>1, <2>2 DEF Kernel
  <2> QED
    BY <1>1, <1>2, <2>2, <2>3
<1>3. CASE ~ (k.sem[Clock] < 0)
  <2>1. pseudoTick(k) = k /\ SameQueues(k, k)
    BY <1>3 DEF pseudoTick, SameQueues
  <2> QED
    BY <1>1, <2>1, SameQueuesOrder
<1> QED
  BY <1>2, <1>3

\* scheduler() keeps the order and serves the clock only.
LEMMA SchedulerOrder ==
    ASSUME NEW k, NEW c, KernelOK(k, c), scheduler(k, c)
    PROVE  /\ KeepsOrder(k, kernel') /\ kernel'.jobs = k.jobs
           /\ \A s \in AllSem : IF k.sem[s] < 0 THEN kernel'.sem[s] <= 0
                                ELSE kernel'.sem[s] = k.sem[s]
<1>1. PICK lined, ticked :
         /\ KernelOK(lined, NULL)
         /\ SameQueues(k, lined) /\ lined.sem = k.sem
         /\ ticked \in {lined, pseudoTick(lined)}
         /\ SameQueues(ticked, kernel') /\ kernel'.sem = ticked.sem
  BY SchedulerPath DEF SameBooks
<1>2. KeepsOrder(k, lined) /\ KeepsOrder(ticked, kernel') /\ KeepsOrder(lined, lined)
  BY <1>1, SameQueuesOrder DEF SameQueues
<1>3. \A s \in AllSem : lined.sem[s] \in Int
  BY <1>1 DEF KernelOK, Kernel
<1>4. /\ KeepsOrder(lined, ticked) /\ ticked.jobs = lined.jobs
      /\ \A s \in AllSem : IF lined.sem[s] < 0 THEN ticked.sem[s] <= 0
                           ELSE ticked.sem[s] = lined.sem[s]
  <2>1. CASE ticked = lined
    BY <1>2, <1>3, <2>1
  <2>2. CASE ticked = pseudoTick(lined)
    BY <1>1, <2>2, PseudoTickOrder
  <2> QED
    BY <1>1, <2>1, <2>2
<1>5. KeepsOrder(k, kernel')
  BY <1>2, <1>4, OrderComposes
<1> QED
  BY <1>1, <1>4, <1>5 DEF SameQueues

\* What a handler made of kernel k when it enters scheduler().
Handled(k, z) ==
    /\ ServesInOrder(k, z)
    /\ k.jobs \subseteq z.jobs \/ \E target \in k.jobs : z = terminateFamily(k, target)

\* A step that leaves the kernel alone, or a handler that ends in scheduler().
HandlerRuns ==
    \/ kernel' = kernel
    \/ \E z, r : KernelOK(z, r) /\ Handled(kernel, z) /\ scheduler(z, r)

\* All steps are such.
LEMMA NextHandles ==
    ASSUME IInv, [Next]_vars
    PROVE  HandlerRuns
<1>0. /\ KernelOK(kernel, current_process) /\ kernel \in Kernel
      /\ kernel.jobs \subseteq Pcb
      /\ cpu = "running" => current_process \in kernel.jobs
  BY DEF IInv, KernelOK, Kernel, CpuOK
<1>01. /\ 1 \in 1 .. MaxWeight /\ 1 \in Nat /\ DeviceSem \subseteq AllSem /\ Clock \in AllSem
       /\ IODevice \subseteq AllSem /\ Device \subseteq AllSem
       /\ Weights \subseteq 1 .. MaxWeight /\ Weights \subseteq Nat
  BY NucleusAssumption DEF AllSem, DeviceSem, IODevice
<1>02. \A z : KeepsOrder(kernel, z) /\ z.jobs = kernel.jobs => Handled(kernel, z)
  BY OrderComposes DEF Handled
<1>03. \A z : SameQueues(kernel, z) => Handled(kernel, z)
  BY <1>02, SameQueuesOrder DEF SameQueues
<1>04. ASSUME NEW z, NEW r, KernelOK(z, r), Handled(kernel, z), scheduler(z, r)
       PROVE  HandlerRuns
  BY <1>04 DEF HandlerRuns
<1>05. Handled(kernel, kernel)
  BY <1>03 DEF SameQueues
<1>1. CASE NoEffect
  BY <1>0, <1>04, <1>05, <1>1 DEF NoEffect
<1>2. CASE CreateProcess
  <2>1. CASE scheduler(kernel, current_process)
    BY <1>0, <1>04, <1>05, <2>1
  <2>2. ASSUME NEW child \in Pcb \ kernel.jobs,
               scheduler(spawn(kernel, current_process, child), current_process)
        PROVE  HandlerRuns
    <3> DEFINE z == spawn(kernel, current_process, child)
    <3>1. KernelOK(z, current_process)
      BY <1>0, <1>2, SpawnOK DEF CreateProcess
    <3>2. /\ z.jobs = kernel.jobs \cup {child} /\ z.aslh = kernel.aslh
          /\ z.s_semAdd = kernel.s_semAdd /\ z.s_procq = kernel.s_procq
      BY <1>0 DEF Kernel, spawn
    <3>3. scheduler(z, current_process)
      BY <2>2
    <3> HIDE DEF z
    <3>4. Handled(kernel, z)
      BY <3>2 DEF Handled, ServesInOrder, Ahead
    <3> QED
      BY <1>04, <3>1, <3>3, <3>4
  <2> QED
    BY <1>2, <2>1, <2>2 DEF CreateProcess
<1>3. ASSUME NEW target \in Pcb, TerminateProcess(target)
      PROVE  HandlerRuns
  <2> DEFINE r == survivor(target)
             z == terminateFamily(kernel, target)
  <2>1. /\ target \in kernel.jobs
        /\ target # current_process => current_process \notin Family(kernel, target)
        /\ scheduler(z, r)
    BY <1>3 DEF TerminateProcess
  <2>2. r \in {NULL, current_process} /\ r \notin Family(kernel, target)
    BY <1>0, <2>1, NucleusAssumption DEF survivor, Family
  <2> HIDE DEF r
  <2>3. KernelOK(z, r)
    BY <1>0, <2>1, <2>2, TerminateFamilyOK
  <2>4. Handled(kernel, z)
    BY <1>0, <2>1, TerminateOrder, OrderComposes DEF Handled
  <2> QED
    BY <1>04, <2>1, <2>3, <2>4
<1>4. ASSUME NEW s \in AllSem, NEW w \in 1 .. MaxWeight, cpu = "running", P(s, w)
      PROVE  HandlerRuns
  <2> DEFINE c == current_process
             lowered == [kernel EXCEPT !.sem[s] = @ - w]
             blocked == [lowered EXCEPT
                           !.p_resources_needed[c] = w,
                           !.soft_block_c = IF isDeviceSem(s) THEN @ + 1 ELSE @]
  <2>1. \/ scheduler(lowered, c)
        \/ \E z \in insertBlocked(blocked, s, c) : scheduler(z, NULL)
    BY <1>4 DEF P
  <2>2. /\ KernelOK(lowered, c) /\ KernelOK(blocked, c)
        /\ \A z \in insertBlocked(blocked, s, c) : KernelOK(z, NULL)
    BY <1>4, PKernelsOK
  <2>3. SameQueues(kernel, lowered) /\ SameQueues(kernel, blocked)
    BY <1>0 DEF Kernel, SameQueues
  <2>4. c \in Pcb /\ c \notin {NULL} /\ blocked \in Kernel
    BY <1>0, <1>4, <2>2, NucleusAssumption DEF KernelOK
  <2> HIDE DEF lowered, blocked
  <2>5. ~ Queued(blocked, c)
    BY <2>2, <2>4 DEF KernelOK, Kernel, QueuesOK, Queued
  <2>6. ASSUME NEW z \in insertBlocked(blocked, s, c)
        PROVE  Handled(kernel, z)
    <3>1. ServesInOrder(blocked, z) /\ z.jobs = blocked.jobs
      BY <2>4, <2>5, InsertBlockedOrder
    <3> QED
      BY <2>3, <3>1 DEF SameQueues, Handled, ServesInOrder, Ahead, Queued
  <2> QED
    BY <1>03, <1>04, <2>1, <2>2, <2>3, <2>6
<1>5. ASSUME NEW s \in AllSem, NEW w \in Nat, scheduler(V(kernel, s, w), current_process)
      PROVE  HandlerRuns
  <2>1. KernelOK(V(kernel, s, w), current_process) /\ Handled(kernel, V(kernel, s, w))
    BY <1>0, <1>02, VOK, VOrder
  <2> QED
    BY <1>04, <1>5, <2>1
<1>6. ASSUME NEW s \in Sem, NEW w \in Weights, SemP(s, w) \/ SemV(s, w)
      PROVE  HandlerRuns
  BY <1>01, <1>4, <1>5, <1>6 DEF SemP, SemV, AllSem
<1>7. CASE WaitClock
  BY <1>01, <1>4, <1>7 DEF WaitClock
<1>8. ASSUME NEW d \in IODevice, IODevOp(d)
      PROVE  HandlerRuns
  BY <1>01, <1>4, <1>8 DEF IODevOp
<1>9. ASSUME NEW tick \in BOOLEAN, TimerInterrupt(tick)
      PROVE  HandlerRuns
  <2>1. /\ KernelOK(pseudoTick(kernel), current_process)
        /\ Handled(kernel, pseudoTick(kernel))
    BY <1>0, <1>02, PseudoTickOK, PseudoTickOrder
  <2> QED
    BY <1>0, <1>04, <1>05, <1>9, <2>1 DEF TimerInterrupt
<1>10. CASE fatal
  BY <1>10 DEF fatal, HandlerRuns
<1>11. ASSUME NEW d \in Device, DeviceInterrupt(d)
       PROVE  HandlerRuns
  BY <1>01, <1>5, <1>10, <1>11 DEF DeviceInterrupt
<1>12. ASSUME NEW t \in Terminal, NEW done \in Halves(t), TerminalInterrupt(t, done)
       PROVE  HandlerRuns
  <2>1. ASSUME NEW k, KernelOK(k, current_process), KeepsOrder(kernel, k),
               k.jobs = kernel.jobs, NEW d \in {Transmitter(t), Receiver(t)}
        PROVE  LET z == completed(k, d, done)
               IN  /\ KernelOK(z, current_process) /\ KeepsOrder(kernel, z)
                   /\ z.jobs = kernel.jobs
    <3>1. d \in AllSem
      BY DEF AllSem, DeviceSem, IODevice, Transmitter, Receiver
    <3>2. /\ KernelOK(V(k, d, 1), current_process)
          /\ KeepsOrder(k, V(k, d, 1)) /\ V(k, d, 1).jobs = k.jobs
      BY <1>01, <2>1, <3>1, VOK, VOrder
    <3> QED
      BY <2>1, <3>2, OrderComposes DEF completed
  <2> DEFINE y == completed(kernel, Transmitter(t), done)
             z == completed(y, Receiver(t), done)
  <2>2. KernelOK(y, current_process) /\ KeepsOrder(kernel, y) /\ y.jobs = kernel.jobs
    <3>1. KeepsOrder(kernel, kernel)
      BY SameQueuesOrder DEF SameQueues
    <3> QED
      BY <1>0, <2>1, <3>1
  <2> HIDE DEF y
  <2>3. KernelOK(z, current_process) /\ KeepsOrder(kernel, z) /\ z.jobs = kernel.jobs
    BY <2>1, <2>2
  <2>4. fatal \/ scheduler(z, current_process)
    BY <1>12 DEF TerminalInterrupt, y
  <2> HIDE DEF z
  <2> QED
    BY <1>02, <1>04, <1>10, <2>3, <2>4
<1>13. CASE UNCHANGED vars
  BY <1>13 DEF vars, HandlerRuns
<1> QED
  BY <1>1, <1>2, <1>3, <1>6, <1>7, <1>8, <1>9, <1>11, <1>12, <1>13 DEF Next

\* The active descriptors are those of semaphores.
AslTyped(k) == \A d \in k.aslh : k.s_semAdd[d] \in AllSem

\* Then the processes a V can find are those in the queues of active descriptors.
LEMMA BlockedsAreQueued ==
    ASSUME AslTyped(kernel)
    PROVE  \A p : p \in Blockeds <=> Queued(kernel, p)
BY DEF AslTyped, Blockeds, Blocked, searchAsl, Queued

\* Every step serves the waiters in order.
LEMMA NextInOrder ==
    ASSUME IInv, [Next]_vars
    PROVE  ServesInOrder(kernel, kernel')
<1>1. CASE kernel' = kernel
  BY <1>1 DEF ServesInOrder
<1>2. ASSUME NEW z, NEW r, KernelOK(z, r), Handled(kernel, z), scheduler(z, r)
      PROVE  ServesInOrder(kernel, kernel')
  BY <1>2, SchedulerOrder, OrderComposes DEF Handled
<1> QED
  BY <1>1, <1>2, NextHandles DEF HandlerRuns

\* Waiters are served in the order they came, with any number of descriptors and weights.
THEOREM FirstComeFirstServedAlways == Spec => FirstComeFirstServed
<1>1. Init => AslTyped(kernel)
  BY DEF Init, AslTyped
<1>2. IInv /\ AslTyped(kernel) /\ [Next]_vars => AslTyped(kernel)'
  <2> SUFFICES ASSUME IInv, AslTyped(kernel), [Next]_vars
               PROVE  AslTyped(kernel')
    BY DEF AslTyped
  <2>1. ServesInOrder(kernel, kernel')
    BY NextInOrder
  <2> QED
    BY <2>1 DEF AslTyped, ServesInOrder
<1>3. IInv /\ AslTyped(kernel) /\ AslTyped(kernel)' /\ [Next]_vars =>
        [\A a, b \in Pcb :
          /\ Ahead(kernel', b, a) => Ahead(kernel, b, a) \/ a \notin Blockeds
          /\ Ahead(kernel, a, b) /\ b \in kernel'.jobs /\ b \notin Blockeds' =>
                a \notin Blockeds']_vars
  <2> SUFFICES ASSUME IInv, AslTyped(kernel), AslTyped(kernel)', [Next]_vars,
                      NEW a \in Pcb, NEW b \in Pcb
               PROVE  /\ Ahead(kernel', b, a) => Ahead(kernel, b, a) \/ a \notin Blockeds
                      /\ Ahead(kernel, a, b) /\ b \in kernel'.jobs /\ b \notin Blockeds' =>
                            a \notin Blockeds'
    OBVIOUS
  <2>1. ServesInOrder(kernel, kernel')
    BY NextInOrder
  <2>2. \A p : p \in Blockeds <=> Queued(kernel, p)
    BY BlockedsAreQueued
  <2>3. \A p : p \in Blockeds' <=> Queued(kernel', p)
    BY DEF AslTyped, Blockeds, Blocked, searchAsl, Queued
  <2>4. Ahead(kernel', a, b) => Queued(kernel', b)
    BY AheadQueued
  <2> QED
    BY <2>1, <2>2, <2>3, <2>4 DEF ServesInOrder
<1> QED
  BY <1>1, <1>2, <1>3, Invariance, PTL DEF Spec, FirstComeFirstServed

\* A tick is a V of the clock: the other semaphores and their waiters are not concerned.
LEMMA TickElsewhere ==
    ASSUME NEW k, NEW c, KernelOK(k, c), AslOK(k), NEW s \in AllSem \ {Clock}
    PROVE  LET z == pseudoTick(k)
           IN  z.sem[s] = k.sem[s] /\ Demand(z, Blocked(z, s)) = Demand(k, Blocked(k, s))
<1>1. /\ Clock \in AllSem /\ k \in Kernel /\ k.sem[Clock] \in Int
      /\ k.aslh \subseteq Semd
  BY DEF AllSem, DeviceSem, KernelOK, Kernel
<1>2. PICK w : w = -k.sem[Clock]
  OBVIOUS
<1>3. ASSUME k.sem[Clock] < 0
      PROVE  /\ V(k, Clock, w).sem[s] = k.sem[s]
             /\ Demand(V(k, Clock, w), Blocked(V(k, Clock, w), s)) = Demand(k, Blocked(k, s))
  <2>1. w \in Nat
    BY <1>1, <1>2, <1>3
  <2>2. PICK x : x = [k EXCEPT !.sem[Clock] = @ + w]
    OBVIOUS
  <2>3. /\ x.jobs = k.jobs /\ x.ready_queue = k.ready_queue /\ x.s_procq = k.s_procq
        /\ x.p_cursem = k.p_cursem /\ x.aslh = k.aslh /\ x.s_semAdd = k.s_semAdd
        /\ x.process_c = k.process_c /\ x.soft_block_c = k.soft_block_c
        /\ x.p_resources_needed = k.p_resources_needed
        /\ k.soft_block_c \in Int /\ x.sem[s] = k.sem[s]
    BY <1>1, <2>2 DEF Kernel
  <2>4. x \in Kernel
    <3>1. [k.sem EXCEPT ![Clock] = k.sem[Clock] + w] \in [AllSem -> Int]
      BY <1>1, <2>1 DEF Kernel
    <3> QED
      BY <1>1, <2>2, <3>1 DEF Kernel
  <2>5. /\ KernelOK(x, c) /\ searchAsl(x, Clock) = searchAsl(k, Clock)
        /\ Blocked(x, s) = Blocked(k, s) /\ Demand(x, Blocked(x, s)) = Demand(k, Blocked(k, s))
    BY <2>3, <2>4, KernelOKFrame DEF searchAsl, Blocked, Demand
  <2>6. V(k, Clock, w) = IF searchAsl(k, Clock) = {} THEN x
                         ELSE wakeUp(x, Clock, CHOOSE d \in searchAsl(k, Clock) : TRUE, w)
    BY <2>2 DEF V
  <2>7. ASSUME NEW d \in searchAsl(k, Clock), NEW z, z = wakeUp(x, Clock, d, w)
        PROVE  /\ z.sem[s] = k.sem[s]
               /\ Demand(z, Blocked(z, s)) = Demand(k, Blocked(k, s))
    <3>1. /\ z.s_semAdd = x.s_semAdd /\ z.sem = x.sem
          /\ \E woken, rest \in SUBSET Pcb : WakesUp(x, z, d, w, woken, rest)
      BY <1>1, <2>1, <2>5, <2>7, WakeUpResult
    <3>2. PICK woken \in SUBSET Pcb, rest \in SUBSET Pcb : WakesUp(x, z, d, w, woken, rest)
      BY <3>1
    <3>3. d \in Semd /\ k.s_semAdd[d] = Clock /\ s # Clock
      BY <1>1 DEF searchAsl
    <3>4. searchAsl(z, s) = searchAsl(k, s)
      BY <2>3, <3>1, <3>2, <3>3 DEF searchAsl, WakesUp
    <3>5. \A e \in searchAsl(k, s) : e \in Semd \ {d} /\ z.s_procq[e] = k.s_procq[e]
      BY <1>1, <2>3, <3>2, <3>3 DEF searchAsl, WakesUp
    <3>6. Blocked(z, s) = Blocked(k, s)
      BY <3>4, <3>5 DEF Blocked
    <3>7. ASSUME NEW p \in Blocked(k, s)
          PROVE  z.p_resources_needed[p] = k.p_resources_needed[p]
      <4>1. PICK e \in searchAsl(k, s) : p \in Members(k.s_procq[e])
        BY DEF Blocked
      <4>2. e \in Semd \ {d} /\ d \in Semd
        BY <3>3, <3>5
      <4>3. p \notin Members(k.s_procq[d])
        BY <4>1, <4>2 DEF KernelOK, QueuesOK
      <4>4. p \in Pcb
        BY <4>1, <4>2 DEF KernelOK, QueuesOK, Kernel
      <4> QED
        BY <2>3, <3>2, <4>3, <4>4 DEF WakesUp
    <3>8. Demand(z, Blocked(k, s)) = Demand(k, Blocked(k, s))
      BY <3>7, DemandSame
    <3> QED
      BY <2>3, <3>1, <3>6, <3>8
  <2> QED
    BY <2>3, <2>5, <2>6, <2>7
<1> QED
  BY <1>2, <1>3 DEF pseudoTick

\* SYS2, a tick and the dispatcher make no units of a semaphore other than the clock, and
\* lose none.
LEMMA KillUnits ==
    ASSUME KernelOK(kernel, current_process), AccountsOK(kernel, current_process),
           NEW target \in kernel.jobs, NEW r, KernelOK(terminateFamily(kernel, target), r),
           scheduler(terminateFamily(kernel, target), r), NEW s \in Sem
    PROVE  kernel'.sem[s] + Demand(kernel', Blocked(kernel', s)) =
           kernel.sem[s] + Demand(kernel, Blocked(kernel, s))
<1>1. PICK z : z = terminateFamily(kernel, target)
  OBVIOUS
<1>2. s \in AllSem \ {Clock}
  BY NucleusAssumption DEF AllSem, DeviceSem
<1>3. /\ AslOK(z)
      /\ z.sem[s] + Demand(z, Blocked(z, s)) = kernel.sem[s] + Demand(kernel, Blocked(kernel, s))
  BY <1>1, <1>2, TerminateResult
<1>4. PICK lined, ticked :
        /\ KernelOK(lined, NULL)
        /\ SameBooks(z, lined)
        /\ ticked \in {lined, pseudoTick(lined)}
        /\ SameBooks(ticked, kernel')
  BY <1>1, SchedulerPath
<1>5. ASSUME NEW x, NEW y, SameBooks(x, y)
      PROVE  y.sem[s] = x.sem[s] /\ Demand(y, Blocked(y, s)) = Demand(x, Blocked(x, s))
  BY <1>5 DEF SameBooks, SameQueues, Blocked, searchAsl, Demand
<1>6. AslOK(lined)
  BY <1>3, <1>4 DEF AslOK, SameBooks, SameQueues
<1>7. /\ ticked.sem[s] = lined.sem[s]
      /\ Demand(ticked, Blocked(ticked, s)) = Demand(lined, Blocked(lined, s))
  BY <1>2, <1>4, <1>6, TickElsewhere
<1>8. /\ lined.sem[s] = z.sem[s] /\ Demand(lined, Blocked(lined, s)) = Demand(z, Blocked(z, s))
      /\ kernel'.sem[s] = ticked.sem[s]
      /\ Demand(kernel', Blocked(kernel', s)) = Demand(ticked, Blocked(ticked, s))
  BY <1>4, <1>5
<1> QED
  BY <1>3, <1>7, <1>8

\* Killing makes no units of an ordinary semaphore and loses none, whatever the weights,
\* with a descriptor for every semaphore.
THEOREM KillKeepsUnitsWithEnough ==
    ASSUME Enough
    PROVE  Spec => KillKeepsUnits
<1>1. /\ IInv /\ AccountsOK(kernel, current_process)
      /\ (IInv /\ AccountsOK(kernel, current_process))'
      /\ [Next]_vars
      => [kernel'.process_c < kernel.process_c =>
            \A s \in Sem :
               kernel'.sem[s] + Demand(kernel', Blocked(kernel', s)) =
               kernel.sem[s] + Demand(kernel, Blocked(kernel, s))]_vars
  <2> SUFFICES ASSUME IInv /\ AccountsOK(kernel, current_process),
                      (IInv /\ AccountsOK(kernel, current_process))', [Next]_vars,
                      kernel'.process_c < kernel.process_c, NEW s \in Sem
               PROVE  kernel'.sem[s] + Demand(kernel', Blocked(kernel', s)) =
                      kernel.sem[s] + Demand(kernel, Blocked(kernel, s))
    OBVIOUS
  <2>1. /\ KernelOK(kernel, current_process) /\ AccountsOK(kernel, current_process)
        /\ KernelOK(kernel', current_process') /\ AccountsOK(kernel', current_process')
    <3>1. KernelOK(kernel, current_process)' <=> KernelOK(kernel', current_process')
      BY DEF KernelOK, Kernel, QueuesOK, CursemOK, CountsOK, SoftBlocked
    <3>2. AccountsOK(kernel, current_process)' <=> AccountsOK(kernel', current_process')
      BY DEF AccountsOK, AslOK, SeenOK, NeedsOK, Queued, WaitersOK, Blocked, searchAsl, Demand
    <3> QED
      BY <3>1, <3>2 DEF IInv
  <2>2. ~ (kernel.jobs \subseteq kernel'.jobs)
    <3> SUFFICES ASSUME kernel.jobs \subseteq kernel'.jobs
                 PROVE  FALSE
      OBVIOUS
    <3>1. /\ kernel.process_c = Cardinality(kernel.jobs)
          /\ kernel'.process_c = Cardinality(kernel'.jobs)
          /\ kernel'.jobs \subseteq Pcb
      BY <2>1 DEF KernelOK, CountsOK, Kernel
    <3>2. IsFiniteSet(kernel'.jobs) /\ IsFiniteSet(kernel.jobs)
      BY <3>1, NucleusAssumption, FS_Subset
    <3>3. /\ Cardinality(kernel.jobs) <= Cardinality(kernel'.jobs)
          /\ Cardinality(kernel.jobs) \in Nat /\ Cardinality(kernel'.jobs) \in Nat
      BY <3>2, FS_Subset, FS_CardinalityType
    <3> QED
      BY <3>1, <3>3
  <2>3. \E z, r : KernelOK(z, r) /\ Handled(kernel, z) /\ scheduler(z, r)
    <3>1. kernel' # kernel
      BY <2>2
    <3> QED
      BY <3>1, NextHandles DEF HandlerRuns
  <2>4. PICK z, r : KernelOK(z, r) /\ Handled(kernel, z) /\ scheduler(z, r)
    BY <2>3
  <2>5. kernel'.jobs = z.jobs
    BY <2>4, SchedulerOrder
  <2>6. PICK target \in kernel.jobs : z = terminateFamily(kernel, target)
    BY <2>2, <2>4, <2>5 DEF Handled
  <2> QED
    BY <2>1, <2>4, <2>6, KillUnits
<1> QED
  BY <1>1, AccountsInvariance, PTL DEF Spec, KillKeepsUnits

--------------------------------------------------------------------------------
(* The nucleus implements Services.                                                       *)

\* The queue of each semaphore, and the whole of what Services sees of kernel k.
Waiting(k) ==
    [s \in AllSem |-> IF searchAsl(k, s) = {} THEN <<>>
                      ELSE k.s_procq[CHOOSE d \in searchAsl(k, s) : TRUE]]

Promise(k) ==
    [live |-> k.jobs, parent |-> k.p_parent, value |-> k.sem, waiting |-> Waiting(k),
     need |-> k.p_resources_needed]

\* Who waits needs something.
HungryOK(k) == \A d \in k.aslh : \A p \in Members(k.s_procq[d]) : k.p_resources_needed[p] # 0

\* The queue of a semaphore is a queue.
LEMMA WaitingIsQueue ==
    ASSUME NEW k, NEW c, KernelOK(k, c), AslOK(k), NEW s \in AllSem
    PROVE  /\ Waiting(k)[s] \in Seq(Pcb) /\ NoRepeats(Waiting(k)[s])
           /\ c \notin Members(Waiting(k)[s])
           /\ Members(Waiting(k)[s]) = Blocked(k, s)
           /\ searchAsl(k, s) = {} => Waiting(k)[s] = <<>>
           /\ \A d \in searchAsl(k, s) : Waiting(k)[s] = k.s_procq[d]
<1>1. CASE searchAsl(k, s) = {}
  <2>1. Waiting(k)[s] = <<>>
    BY <1>1 DEF Waiting
  <2>2. <<>> \in Seq(Pcb) /\ NoRepeats(<<>>) /\ Members(<<>>) = {}
    BY DEF NoRepeats, Members
  <2> QED
    BY <1>1, <2>1, <2>2, BlockedIsQueue
<1>2. ASSUME NEW d \in searchAsl(k, s)
      PROVE  /\ Waiting(k)[s] = k.s_procq[d] /\ d \in Semd
             /\ Members(k.s_procq[d]) = Blocked(k, s)
  <2>1. \A e \in searchAsl(k, s) : e = d
    BY DEF AslOK, searchAsl
  <2>2. searchAsl(k, s) # {} /\ d \in Semd
    BY DEF KernelOK, Kernel, searchAsl
  <2> QED
    BY <2>1, <2>2, BlockedIsQueue DEF Waiting
<1>3. \A d \in Semd : /\ k.s_procq[d] \in Seq(Pcb) /\ NoRepeats(k.s_procq[d])
                      /\ c \notin Members(k.s_procq[d])
  BY DEF KernelOK, Kernel, QueuesOK
<1>4. CASE searchAsl(k, s) # {}
  <2>1. PICK d \in searchAsl(k, s) : TRUE
    BY <1>4
  <2> QED
    BY <1>2, <1>3, <1>4, <2>1
<1> QED
  BY <1>1, <1>4

\* What Services sees depends on these parts of the kernel only.
LEMMA PromiseFrame ==
    ASSUME NEW k, NEW z, SameQueues(k, z), z.p_parent = k.p_parent, z.sem = k.sem,
           z.p_resources_needed = k.p_resources_needed
    PROVE  Promise(z) = Promise(k) /\ (HungryOK(k) => HungryOK(z)) /\ (AslOK(k) => AslOK(z))
BY DEF SameQueues, Promise, Waiting, searchAsl, HungryOK, AslOK

\* The first processes in the queue of s whose needs w units cover, and those behind.
Paid(k, s, w) == SubSeq(Waiting(k)[s], 1, Satisfied(k, Waiting(k)[s], w))
Unpaid(k, s, w) ==
    SubSeq(Waiting(k)[s], Satisfied(k, Waiting(k)[s], w) + 1, Len(Waiting(k)[s]))

\* What Services sees after w units were given to s.
Served(k, s, w) ==
    [live |-> k.jobs, parent |-> k.p_parent,
     value |-> [k.sem EXCEPT ![s] = @ + w],
     waiting |-> [Waiting(k) EXCEPT ![s] = Unpaid(k, s, w)],
     need |-> stillNeeded(k, Members(Paid(k, s, w)), Unpaid(k, s, w),
                          w - Demand(k, Members(Paid(k, s, w))))]

\* A V gives w units, whatever it does to the descriptor.
LEMMA VServes ==
    ASSUME NEW k, NEW c, KernelOK(k, c), AslOK(k), NEW s \in AllSem, NEW w \in Nat
    PROVE  Promise(V(k, s, w)) = Served(k, s, w)
<1> DEFINE x == [k EXCEPT !.sem[s] = @ + w]
           q == Waiting(k)[s]
           n == Satisfied(k, q, w)
<1>1. /\ k \in Kernel /\ q \in Seq(Pcb)
      /\ \A d \in searchAsl(k, s) : q = k.s_procq[d]
      /\ searchAsl(k, s) = {} => q = <<>>
  BY WaitingIsQueue DEF KernelOK
<1>2. /\ x.jobs = k.jobs /\ x.p_parent = k.p_parent /\ x.s_procq = k.s_procq
      /\ x.aslh = k.aslh /\ x.s_semAdd = k.s_semAdd
      /\ x.p_resources_needed = k.p_resources_needed
      /\ x.sem = [k.sem EXCEPT ![s] = @ + w]
      /\ x \in Kernel
  <2>1. k.sem[s] + w \in Int
    BY <1>1 DEF Kernel
  <2>2. [k.sem EXCEPT ![s] = @ + w] \in [AllSem -> Int]
    BY <1>1, <2>1 DEF Kernel
  <2> QED
    BY <1>1, <2>2 DEF Kernel
<1>3. V(k, s, w) = IF searchAsl(k, s) = {} THEN x
                   ELSE wakeUp(x, s, CHOOSE d \in searchAsl(k, s) : TRUE, w)
  <2>1. searchAsl(x, s) = searchAsl(k, s)
    BY <1>2 DEF searchAsl
  <2> QED
    BY <2>1 DEF V
<1>4. /\ \A S : Demand(x, S) = Demand(k, S)
      /\ \A S, b, l : stillNeeded(x, S, b, l) = stillNeeded(k, S, b, l)
      /\ \A r : Satisfied(x, r, w) = Satisfied(k, r, w)
  BY <1>2 DEF Demand, stillNeeded, Satisfied
<1> HIDE DEF x
<1>5. n \in 0 .. Len(q)
  BY <1>1, SatisfiedIsLongest
<1>6. Served(k, s, w) =
        [live |-> k.jobs, parent |-> k.p_parent, value |-> x.sem,
         waiting |-> [Waiting(k) EXCEPT ![s] = SubSeq(q, n + 1, Len(q))],
         need |-> stillNeeded(k, Members(SubSeq(q, 1, n)), SubSeq(q, n + 1, Len(q)),
                              w - Demand(k, Members(SubSeq(q, 1, n))))]
  BY <1>2 DEF Served, Paid, Unpaid
<1>7. CASE searchAsl(k, s) = {}
  <2>1. q = <<>> /\ n = 0 /\ Len(q) = 0
    BY <1>1, <1>5, <1>7
  <2>2. SubSeq(q, n + 1, Len(q)) = <<>> /\ SubSeq(q, 1, n) = <<>> /\ Members(<<>>) = {}
    BY <2>1 DEF Members
  <2>3. stillNeeded(k, {}, <<>>, w - Demand(k, {})) = k.p_resources_needed
    <3>1. k.p_resources_needed = [p \in Pcb |-> k.p_resources_needed[p]]
      BY <1>1 DEF Kernel
    <3> QED
      BY <3>1 DEF stillNeeded
  <2>4. [Waiting(k) EXCEPT ![s] = <<>>] = Waiting(k)
    <3>1. Waiting(k)[s] = <<>>
      BY <2>1
    <3> QED
      BY <3>1 DEF Waiting
  <2>5. Waiting(x) = Waiting(k)
    BY <1>2 DEF Waiting, searchAsl
  <2> HIDE DEF q, n
  <2> QED
    BY <1>2, <1>3, <1>6, <1>7, <2>2, <2>3, <2>4, <2>5 DEF Promise
<1>8. ASSUME NEW d \in searchAsl(k, s)
      PROVE  Promise(wakeUp(x, s, d, w)) = Served(k, s, w)
  <2> DEFINE z == wakeUp(x, s, d, w)
             b == SubSeq(q, n + 1, Len(q))
  <2>1. /\ d \in Semd /\ d \in k.aslh /\ k.s_semAdd[d] = s /\ q = k.s_procq[d]
        /\ searchAsl(k, s) = {d}
    BY <1>1 DEF searchAsl, Kernel, AslOK
  <2>2. /\ z.jobs = x.jobs /\ z.s_semAdd = x.s_semAdd /\ z.sem = x.sem
        /\ z.p_parent = x.p_parent
        /\ z.s_procq = [x.s_procq EXCEPT ![d] = b]
        /\ z.aslh = releaseSemd(x.aslh, d, n, b)
        /\ z.p_resources_needed = stillNeeded(k, Members(SubSeq(q, 1, n)), b,
                                              w - Demand(k, Members(SubSeq(q, 1, n))))
    <3>1. x.s_procq[d] = q /\ Satisfied(x, q, w) = n
      BY <1>2, <1>4, <2>1
    <3> DEFINE a == SubSeq(q, 1, n)
    <3>2. z = [x EXCEPT
                 !.ready_queue = @ \o a,
                 !.s_procq[d] = b,
                 !.aslh = releaseSemd(@, d, n, b),
                 !.p_resources_needed = stillNeeded(x, Members(a), b, w - Demand(x, Members(a))),
                 !.soft_block_c = IF isDeviceSem(s) THEN @ - n ELSE @]
      BY <3>1 DEF wakeUp
    <3>3. stillNeeded(x, Members(a), b, w - Demand(x, Members(a))) =
          stillNeeded(k, Members(a), b, w - Demand(k, Members(a)))
      BY <1>4
    <3> HIDE DEF z, a, b, n
    <3>4. /\ z.jobs = x.jobs /\ z.s_semAdd = x.s_semAdd /\ z.sem = x.sem
          /\ z.p_parent = x.p_parent
          /\ z.s_procq = [x.s_procq EXCEPT ![d] = b]
          /\ z.aslh = releaseSemd(x.aslh, d, n, b)
          /\ z.p_resources_needed =
                stillNeeded(x, Members(a), b, w - Demand(x, Members(a)))
      BY <1>2, <3>2 DEF Kernel
    <3> QED
      BY <3>3, <3>4 DEF a
  <2> HIDE DEF z, n
  <2>3. ASSUME NEW r \in AllSem, r # s
        PROVE  Waiting(z)[r] = Waiting(k)[r]
    <3>1. searchAsl(z, r) = searchAsl(k, r) /\ d \notin searchAsl(k, r)
      BY <1>2, <2>1, <2>2, <2>3 DEF searchAsl, releaseSemd
    <3>2. \A e \in searchAsl(k, r) : z.s_procq[e] = k.s_procq[e]
      BY <1>1, <1>2, <2>2, <3>1 DEF Kernel, searchAsl
    <3>3. searchAsl(k, r) # {} =>
             (CHOOSE e \in searchAsl(k, r) : TRUE) \in searchAsl(k, r)
      OBVIOUS
    <3> QED
      BY <3>1, <3>2, <3>3 DEF Waiting
  <2>4. Waiting(z)[s] = b
    <3>1. z.s_procq[d] = b
      BY <1>1, <1>2, <2>1, <2>2 DEF Kernel
    <3>2. searchAsl(z, s) = {d} \/ (searchAsl(z, s) = {} /\ b = <<>>)
      BY <1>2, <2>1, <2>2 DEF searchAsl, releaseSemd
    <3>3. \A e \in {d} : e = d
      OBVIOUS
    <3>4. (CHOOSE e \in {d} : TRUE) = d
      BY <3>3
    <3> HIDE DEF b
    <3> QED
      BY <3>1, <3>2, <3>4 DEF Waiting
  <2>5. Waiting(z) = [Waiting(k) EXCEPT ![s] = b]
    <3>1. /\ Waiting(z) = [r \in AllSem |-> Waiting(z)[r]]
          /\ Waiting(k) = [r \in AllSem |-> Waiting(k)[r]]
      BY DEF Waiting
    <3> HIDE DEF b
    <3> QED
      BY <2>3, <2>4, <3>1
  <2> HIDE DEF b
  <2> QED
    BY <1>2, <1>6, <2>2, <2>5 DEF Promise, z, b
<1> QED
  BY <1>3, <1>7, <1>8

\* What the first n processes in the queue of s need together.
Owed(k, s, n) == Demand(k, Members(SubSeq(Waiting(k)[s], 1, n)))

\* Each process further down the queue adds its need, which is not 0.
LEMMA OwedGrows ==
    ASSUME NEW k, NEW c, KernelOK(k, c), AslOK(k), HungryOK(k), NEW s \in AllSem
    PROVE  LET q == Waiting(k)[s]
           IN  /\ Owed(k, s, 0) = 0
               /\ \A n \in 0 .. Len(q) : Owed(k, s, n) \in Nat
               /\ \A n \in 0 .. Len(q) : n < Len(q) =>
                    /\ q[n + 1] \in Pcb /\ k.p_resources_needed[q[n + 1]] \in Nat \ {0}
                    /\ Owed(k, s, n + 1) = Owed(k, s, n) + k.p_resources_needed[q[n + 1]]
               /\ \A m, n \in 0 .. Len(q) : m <= n => Owed(k, s, m) <= Owed(k, s, n)
<1>1. PICK q : q = Waiting(k)[s]
  OBVIOUS
<1>2. /\ q \in Seq(Pcb) /\ NoRepeats(q) /\ Members(q) = Blocked(k, s) /\ Len(q) \in Nat
      /\ k \in Kernel /\ MaxWeight \in Nat
  BY <1>1, WaitingIsQueue, NucleusAssumption DEF KernelOK
<1>3. \A n : Owed(k, s, n) = Demand(k, Members(SubSeq(q, 1, n)))
  BY <1>1 DEF Owed
<1>4. Owed(k, s, 0) = 0
  <2>1. Len(SubSeq(q, 1, 0)) = 0
    BY <1>2, SplitMembers
  <2>2. Members(SubSeq(q, 1, 0)) = {}
    BY <2>1 DEF Members
  <2> QED
    BY <1>3, <2>2, DemandEmpty
<1>5. ASSUME NEW n \in 0 .. Len(q)
      PROVE  /\ Members(SubSeq(q, 1, n)) = {q[i] : i \in 1 .. n}
             /\ Members(SubSeq(q, 1, n)) \in SUBSET Pcb
  <2>1. /\ SubSeq(q, 1, n) \in Seq(Pcb) /\ Len(SubSeq(q, 1, n)) = n
        /\ \A i \in 1 .. n : SubSeq(q, 1, n)[i] = q[i]
    BY <1>2, SplitMembers
  <2>2. Members(SubSeq(q, 1, n)) \in SUBSET Pcb
    BY <2>1, MembersType
  <2> QED
    BY <2>1, <2>2 DEF Members
<1>6. ASSUME NEW n \in 0 .. Len(q)
      PROVE  Owed(k, s, n) \in Nat
  BY <1>3, <1>5, DemandNat
<1>7. ASSUME NEW m \in 0 .. Len(q), NEW n \in 0 .. Len(q), m <= n
      PROVE  Owed(k, s, m) <= Owed(k, s, n)
  <2>1. {q[i] : i \in 1 .. m} \subseteq {q[i] : i \in 1 .. n}
    BY <1>7
  <2>2. PICK S : S = Members(SubSeq(q, 1, n))
    OBVIOUS
  <2>3. PICK T : T = Members(SubSeq(q, 1, m))
    OBVIOUS
  <2>4. S \in SUBSET Pcb /\ T \in SUBSET S
    BY <1>5, <2>1, <2>2, <2>3
  <2>5. Demand(k, T) <= Demand(k, S)
    BY <2>4, DemandNat
  <2> QED
    BY <1>3, <2>2, <2>3, <2>5
<1>8. ASSUME NEW n \in 0 .. Len(q), n < Len(q)
      PROVE  /\ q[n + 1] \in Pcb /\ k.p_resources_needed[q[n + 1]] \in Nat \ {0}
             /\ Owed(k, s, n + 1) = Owed(k, s, n) + k.p_resources_needed[q[n + 1]]
  <2>1. n + 1 \in 1 .. Len(q) /\ n \in Nat
    BY <1>2, <1>8
  <2>2. PICK p : p = q[n + 1]
    OBVIOUS
  <2>3. p \in Pcb /\ p \in Members(q)
    BY <1>2, <2>1, <2>2, ElementOfSeq DEF Members
  <2>4. k.p_resources_needed[p] \in 0 .. MaxWeight /\ k.p_resources_needed[p] # 0
    BY <1>2, <2>3 DEF Kernel, HungryOK, Blocked, searchAsl
  <2>5. Members(SubSeq(q, 1, n + 1)) = Members(SubSeq(q, 1, n)) \cup {p}
    BY <1>2, <1>8, <2>2, NextMember
  <2>6. p \notin Members(SubSeq(q, 1, n))
    <3>1. \A i \in 1 .. n : i \in 1 .. Len(q) /\ i # n + 1
      BY <1>2, <2>1
    <3> QED
      BY <1>2, <1>5, <2>1, <2>2, <3>1 DEF NoRepeats
  <2>7. Demand(k, Members(SubSeq(q, 1, n)) \cup {p}) =
        Demand(k, Members(SubSeq(q, 1, n))) + Demand(k, {p})
    <3>1. Members(SubSeq(q, 1, n)) \in SUBSET Pcb /\ {p} \in SUBSET Pcb
      BY <1>5, <2>3
    <3>2. Members(SubSeq(q, 1, n)) \cap {p} = {}
      BY <2>6
    <3> QED
      BY <3>1, <3>2, DemandAdd
  <2>8. Demand(k, {p}) = k.p_resources_needed[p]
    BY <2>3, <2>4, DemandOne
  <2>9. k.p_resources_needed[p] \in Nat \ {0}
    BY <1>2, <2>4
  <2> QED
    BY <1>3, <2>2, <2>3, <2>5, <2>7, <2>8, <2>9
<1> QED
  BY <1>1, <1>4, <1>6, <1>7, <1>8

\* How many are paid is told by what they owe.
LEMMA SatisfiedUnique ==
    ASSUME NEW k, NEW c, KernelOK(k, c), AslOK(k), HungryOK(k), NEW s \in AllSem,
           NEW w \in Nat, NEW m \in 0 .. Len(Waiting(k)[s]), Owed(k, s, m) <= w,
           m < Len(Waiting(k)[s]) => Owed(k, s, m + 1) > w
    PROVE  Satisfied(k, Waiting(k)[s], w) = m
<1>1. PICK q : q = Waiting(k)[s]
  OBVIOUS
<1>2. q \in Seq(Pcb) /\ Len(q) \in Nat
  BY <1>1, WaitingIsQueue
<1>3. PICK n : n = Satisfied(k, q, w)
  OBVIOUS
<1>4. /\ n \in 0 .. Len(q) /\ Owed(k, s, n) <= w
      /\ n < Len(q) => Owed(k, s, n + 1) > w
  BY <1>1, <1>2, <1>3, SatisfiedIsLongest DEF Owed
<1>5. /\ \A i \in 0 .. Len(q) : Owed(k, s, i) \in Nat
      /\ \A i, j \in 0 .. Len(q) : i <= j => Owed(k, s, i) <= Owed(k, s, j)
  BY <1>1, OwedGrows
<1>6. m \in 0 .. Len(q) /\ (m < Len(q) => Owed(k, s, m + 1) > w)
  BY <1>1
<1>7. ~ (m < n)
  <2>1. m < n => m + 1 \in 0 .. Len(q) /\ m + 1 <= n /\ m < Len(q)
    BY <1>2, <1>4, <1>6
  <2>2. m < n => Owed(k, s, m + 1) <= Owed(k, s, n)
    BY <1>4, <1>5, <2>1
  <2> QED
    BY <1>4, <1>5, <1>6, <2>1, <2>2
<1>8. ~ (n < m)
  <2>1. n < m => n + 1 \in 0 .. Len(q) /\ n + 1 <= m /\ n < Len(q)
    BY <1>2, <1>4, <1>6
  <2>2. n < m => Owed(k, s, n + 1) <= Owed(k, s, m)
    BY <1>5, <1>6, <2>1
  <2> QED
    BY <1>4, <1>5, <1>6, <2>1, <2>2
<1> QED
  BY <1>1, <1>2, <1>3, <1>4, <1>6, <1>7, <1>8

\* Given nothing, nobody is served.
LEMMA ServedNothing ==
    ASSUME NEW k, NEW c, KernelOK(k, c), AslOK(k), HungryOK(k), NEW s \in AllSem
    PROVE  Served(k, s, 0) = Promise(k)
<1>1. PICK q : q = Waiting(k)[s]
  OBVIOUS
<1>2. q \in Seq(Pcb) /\ Len(q) \in Nat /\ k \in Kernel
  BY <1>1, WaitingIsQueue DEF KernelOK
<1>3. Owed(k, s, 0) = 0 /\ (0 < Len(q) => Owed(k, s, 1) > 0)
  <2>1. /\ Owed(k, s, 0) = 0
        /\ 0 < Len(q) => /\ k.p_resources_needed[q[0 + 1]] \in Nat \ {0}
                         /\ Owed(k, s, 0 + 1) = Owed(k, s, 0) + k.p_resources_needed[q[0 + 1]]
    BY <1>1, <1>2, OwedGrows
  <2> QED
    BY <2>1
<1>4. Satisfied(k, q, 0) = 0
  <2>1. 0 \in 0 .. Len(q) /\ 0 <= 0 /\ 0 + 1 = 1 /\ 0 \in Nat
    BY <1>2
  <2> QED
    BY <1>1, <1>3, <2>1, SatisfiedUnique
<1>5. Paid(k, s, 0) = SubSeq(q, 1, 0) /\ Unpaid(k, s, 0) = SubSeq(q, 1, Len(q))
  BY <1>1, <1>4 DEF Paid, Unpaid
<1>6. SubSeq(q, 1, 0) = <<>> /\ SubSeq(q, 1, Len(q)) = q
  <2>1. Len(SubSeq(q, 1, 0)) = 0 /\ SubSeq(q, 1, 0) \in Seq(Pcb)
    BY <1>2, SplitMembers
  <2>2. /\ SubSeq(q, 1, Len(q)) \in Seq(Pcb) /\ Len(SubSeq(q, 1, Len(q))) = Len(q)
        /\ \A i \in 1 .. Len(q) : SubSeq(q, 1, Len(q))[i] = q[i]
    BY <1>2, SplitMembers
  <2> QED
    BY <1>2, <2>1, <2>2, SeqEqual, EmptySeq
<1>7. Members(<<>>) = {}
  BY DEF Members
<1>8. stillNeeded(k, {}, q, 0 - 0) = k.p_resources_needed
  <2>1. \A p \in Pcb : k.p_resources_needed[p] \in Int
    BY <1>2, NucleusAssumption DEF Kernel
  <2>2. stillNeeded(k, {}, q, 0 - 0) =
          [p \in Pcb |-> IF q # <<>> /\ p = Head(q) THEN k.p_resources_needed[p] - (0 - 0)
                         ELSE k.p_resources_needed[p]]
    BY DEF stillNeeded
  <2>3. k.p_resources_needed = [p \in Pcb |-> k.p_resources_needed[p]]
    BY <1>2 DEF Kernel
  <2>4. \A p \in Pcb : k.p_resources_needed[p] - (0 - 0) = k.p_resources_needed[p]
    BY <2>1
  <2> QED
    BY <2>2, <2>3, <2>4
<1>9. [Waiting(k) EXCEPT ![s] = q] = Waiting(k)
  BY <1>1 DEF Waiting
<1>10. [k.sem EXCEPT ![s] = @ + 0] = k.sem
  <2>1. k.sem[s] + 0 = k.sem[s]
    BY <1>2 DEF Kernel
  <2>2. [k.sem EXCEPT ![s] = k.sem[s]] = k.sem
    BY <1>2 DEF Kernel
  <2> QED
    BY <2>1, <2>2
<1> QED
  BY <1>5, <1>6, <1>7, <1>8, <1>9, <1>10, DemandEmpty DEF Served, Promise

\* The three cases of Unit.
LEMMA UnitOfState ==
    ASSUME NEW st, NEW s,
           st = [live |-> st.live, parent |-> st.parent, value |-> st.value,
                 waiting |-> st.waiting, need |-> st.need]
    PROVE  LET more == [st.value EXCEPT ![s] = @ + 1]
               q == st.waiting[s]
           IN  /\ q = <<>> =>
                    Abstract!Unit(st, s) = [live |-> st.live, parent |-> st.parent,
                                            value |-> more,
                                            waiting |-> st.waiting, need |-> st.need]
               /\ q # <<>> /\ st.need[Head(q)] = 1 =>
                    Abstract!Unit(st, s) = [live |-> st.live, parent |-> st.parent,
                                            value |-> more,
                                            waiting |-> [st.waiting EXCEPT ![s] = Tail(@)],
                                            need |-> [st.need EXCEPT ![Head(q)] = 0]]
               /\ q # <<>> /\ st.need[Head(q)] # 1 =>
                    Abstract!Unit(st, s) = [live |-> st.live, parent |-> st.parent,
                                            value |-> more,
                                            waiting |-> st.waiting,
                                            need |-> [st.need EXCEPT ![Head(q)] = @ - 1]]
<1>1. PICK live : live = st.live
  OBVIOUS
<1>2. PICK parent : parent = st.parent
  OBVIOUS
<1>3. PICK value : value = st.value
  OBVIOUS
<1>4. PICK waiting : waiting = st.waiting
  OBVIOUS
<1>5. PICK need : need = st.need
  OBVIOUS
<1>6. PICK q : q = waiting[s]
  OBVIOUS
<1>7. st = [live |-> live, parent |-> parent, value |-> value, waiting |-> waiting,
            need |-> need]
  BY <1>1, <1>2, <1>3, <1>4, <1>5
<1>8. /\ st.live = live /\ st.parent = parent /\ st.value = value /\ st.waiting = waiting
      /\ st.need = need
  BY <1>1, <1>2, <1>3, <1>4, <1>5
<1>9. Abstract!Unit(st, s) =
         IF q = <<>> THEN [st EXCEPT !.value[s] = @ + 1]
         ELSE IF need[Head(q)] = 1
              THEN [st EXCEPT !.value[s] = @ + 1, !.need[Head(q)] = 0, !.waiting[s] = Tail(q)]
              ELSE [st EXCEPT !.value[s] = @ + 1, !.need[Head(q)] = @ - 1]
  BY <1>6, <1>8 DEF Abstract!Unit
<1>10. PICK h : h = Head(q)
  OBVIOUS
<1>11. [st EXCEPT !.value[s] = @ + 1] =
         [live |-> live, parent |-> parent, value |-> [value EXCEPT ![s] = @ + 1],
          waiting |-> waiting, need |-> need]
  BY <1>7
<1>12. ASSUME NEW t
      PROVE  [st EXCEPT !.value[s] = @ + 1, !.need[h] = 0, !.waiting[s] = t] =
             [live |-> live, parent |-> parent, value |-> [value EXCEPT ![s] = @ + 1],
              waiting |-> [waiting EXCEPT ![s] = t], need |-> [need EXCEPT ![h] = 0]]
  <2> DEFINE u == [live |-> live, parent |-> parent, value |-> [value EXCEPT ![s] = @ + 1],
                   waiting |-> waiting, need |-> need]
             v == [live |-> live, parent |-> parent, value |-> [value EXCEPT ![s] = @ + 1],
                   waiting |-> waiting, need |-> [need EXCEPT ![h] = 0]]
             w == [live |-> live, parent |-> parent, value |-> [value EXCEPT ![s] = @ + 1],
                   waiting |-> [waiting EXCEPT ![s] = t],
                   need |-> [need EXCEPT ![h] = 0]]
  <2>1. [st EXCEPT !.value[s] = @ + 1, !.need[h] = 0, !.waiting[s] = t] =
          [[[st EXCEPT !.value[s] = @ + 1] EXCEPT !.need[h] = 0] EXCEPT !.waiting[s] = t]
    OBVIOUS
  <2>2. [u EXCEPT !.need[h] = 0] = v
    OBVIOUS
  <2>3. [v EXCEPT !.waiting[s] = t] = w
    OBVIOUS
  <2> HIDE DEF u, v, w
  <2> QED
    BY <1>11, <2>1, <2>2, <2>3 DEF u, w
<1>13. [st EXCEPT !.value[s] = @ + 1, !.need[h] = @ - 1] =
         [live |-> live, parent |-> parent, value |-> [value EXCEPT ![s] = @ + 1],
          waiting |-> waiting, need |-> [need EXCEPT ![h] = @ - 1]]
  <2> DEFINE u == [live |-> live, parent |-> parent, value |-> [value EXCEPT ![s] = @ + 1],
                   waiting |-> waiting, need |-> need]
             v == [live |-> live, parent |-> parent, value |-> [value EXCEPT ![s] = @ + 1],
                   waiting |-> waiting, need |-> [need EXCEPT ![h] = @ - 1]]
  <2>1. [st EXCEPT !.value[s] = @ + 1, !.need[h] = @ - 1] =
          [[st EXCEPT !.value[s] = @ + 1] EXCEPT !.need[h] = @ - 1]
    OBVIOUS
  <2>2. [u EXCEPT !.need[h] = @ - 1] = v
    OBVIOUS
  <2> HIDE DEF u, v
  <2> QED
    BY <1>11, <2>1, <2>2 DEF u, v
<1> QED
  BY <1>1, <1>2, <1>3, <1>4, <1>5, <1>6, <1>9, <1>10, <1>11, <1>12, <1>13

\* One more unit goes to the head of those still unpaid.
LEMMA ServedOneMore ==
    ASSUME NEW k, NEW c, KernelOK(k, c), AslOK(k), HungryOK(k), NEW s \in AllSem, NEW i \in Nat
    PROVE  Abstract!Unit(Served(k, s, i), s) = Served(k, s, i + 1)
<1>0. PICK j : j = i + 1
  OBVIOUS
<1>1. PICK q : q = Waiting(k)[s]
  OBVIOUS
<1>2. PICK n : n = Satisfied(k, q, i)
  OBVIOUS
<1>3. PICK m : m = Satisfied(k, q, j)
  OBVIOUS
<1>4. PICK W : W = Waiting(k)
  OBVIOUS
<1>5. PICK N : N = k.p_resources_needed
  OBVIOUS
<1>6. /\ q \in Seq(Pcb) /\ Len(q) \in Nat /\ NoRepeats(q) /\ W[s] = q
      /\ k \in Kernel /\ N \in [Pcb -> Nat] /\ i + 1 \in Nat
      /\ W = [r \in AllSem |-> W[r]] /\ k.sem \in [AllSem -> Int]
  <2>1. N \in [Pcb -> 0 .. MaxWeight] /\ MaxWeight \in Nat /\ k.sem \in [AllSem -> Int]
    BY <1>5, NucleusAssumption DEF KernelOK, Kernel
  <2>2. N \in [Pcb -> Nat]
    BY <2>1
  <2> QED
    BY <1>1, <1>4, <2>1, <2>2, WaitingIsQueue DEF KernelOK, Waiting
<1> DEFINE a == SubSeq(q, 1, n)
           b == SubSeq(q, n + 1, Len(q))
           a2 == SubSeq(q, 1, m)
           b2 == SubSeq(q, m + 1, Len(q))
           D(x) == Owed(k, s, x)
           need == stillNeeded(k, Members(a), b, i - D(n))
           need2 == stillNeeded(k, Members(a2), b2, j - D(m))
           st == [live |-> k.jobs, parent |-> k.p_parent,
                  value |-> [k.sem EXCEPT ![s] = @ + i],
                  waiting |-> [W EXCEPT ![s] = b], need |-> need]
           st2 == [live |-> k.jobs, parent |-> k.p_parent,
                   value |-> [k.sem EXCEPT ![s] = @ + j],
                   waiting |-> [W EXCEPT ![s] = b2], need |-> need2]
<1>7. Served(k, s, i) = st /\ Served(k, s, j) = st2
  <2>1. /\ Paid(k, s, i) = a /\ Unpaid(k, s, i) = b
        /\ Paid(k, s, j) = a2 /\ Unpaid(k, s, j) = b2
    BY <1>1, <1>2, <1>3 DEF Paid, Unpaid
  <2>2. D(n) = Demand(k, Members(a)) /\ D(m) = Demand(k, Members(a2))
    BY <1>1 DEF Owed
  <2>3. need = stillNeeded(k, Members(a), b, i - Demand(k, Members(a)))
    BY Zenon, <2>2
  <2>4. need2 = stillNeeded(k, Members(a2), b2, j - Demand(k, Members(a2)))
    BY Zenon, <2>2
  <2> HIDE DEF a, b, a2, b2, need, need2
  <2>5. Served(k, s, i) = st
    BY Zenon, <1>4, <2>1, <2>3 DEF Served
  <2>6. Served(k, s, j) = st2
    BY Zenon, <1>4, <2>1, <2>4 DEF Served
  <2> QED
    BY <2>5, <2>6
<1>8. /\ n \in 0 .. Len(q) /\ D(n) <= i
      /\ n < Len(q) => D(n + 1) > i
  BY <1>1, <1>2, <1>6, SatisfiedIsLongest DEF Owed
<1>9. /\ \A x \in 0 .. Len(q) : D(x) \in Nat
      /\ \A x \in 0 .. Len(q) : x < Len(q) =>
           q[x + 1] \in Pcb /\ N[q[x + 1]] \in Nat \ {0} /\ D(x + 1) = D(x) + N[q[x + 1]]
  BY <1>1, <1>5, OwedGrows
<1>10. \A x \in 0 .. Len(q) : D(x) <= i + 1 /\ (x < Len(q) => D(x + 1) > i + 1) => m = x
  BY <1>0, <1>1, <1>3, <1>6, SatisfiedUnique
<1> HIDE DEF D
<1>11. /\ a \in Seq(Pcb) /\ b \in Seq(Pcb) /\ Len(b) = Len(q) - n
       /\ Members(a) \cap Members(b) = {} /\ Members(q) = Members(a) \cup Members(b)
       /\ b = <<>> <=> n = Len(q)
  <2>1. /\ a \in Seq(Pcb) /\ b \in Seq(Pcb) /\ Len(b) = Len(q) - n
        /\ Members(a) \cap Members(b) = {} /\ Members(q) = Members(a) \cup Members(b)
    BY <1>6, <1>8, CutMembers
  <2>2. b = <<>> <=> Len(b) = 0
    BY <2>1, EmptySeq
  <2> QED
    BY <1>6, <1>8, <2>1, <2>2
<1>12. [[k.sem EXCEPT ![s] = @ + i] EXCEPT ![s] = @ + 1] = [k.sem EXCEPT ![s] = @ + j]
  <2>1. PICK v : v = k.sem[s]
    OBVIOUS
  <2>2. v \in Int
    BY <1>6, <2>1
  <2>3. (v + i) + 1 = v + j
    BY <1>0, <2>2
  <2>4. [k.sem EXCEPT ![s] = v + i][s] = v + i
    BY <1>6
  <2> HIDE DEF st, st2
  <2> QED
    BY <1>6, <2>1, <2>3, <2>4
<1> DEFINE given == [k.sem EXCEPT ![s] = @ + i]
           behind == [W EXCEPT ![s] = b]
           more == [given EXCEPT ![s] = @ + 1]
<1>13. behind[s] = b
  BY <1>6
<1>14. /\ b = <<>> =>
            Abstract!Unit(st, s) = [live |-> k.jobs, parent |-> k.p_parent, value |-> more,
                                    waiting |-> behind, need |-> need]
       /\ b # <<>> /\ need[Head(b)] = 1 =>
            Abstract!Unit(st, s) = [live |-> k.jobs, parent |-> k.p_parent, value |-> more,
                                    waiting |-> [behind EXCEPT ![s] = Tail(@)],
                                    need |-> [need EXCEPT ![Head(b)] = 0]]
       /\ b # <<>> /\ need[Head(b)] # 1 =>
            Abstract!Unit(st, s) = [live |-> k.jobs, parent |-> k.p_parent, value |-> more,
                                    waiting |-> behind,
                                    need |-> [need EXCEPT ![Head(b)] = @ - 1]]
  <2>1. PICK x1 : x1 = given
    OBVIOUS
  <2>2. PICK x2 : x2 = behind
    OBVIOUS
  <2>3. PICK x3 : x3 = need
    OBVIOUS
  <2>4. PICK y : y = b
    OBVIOUS
  <2>5. st = [live |-> k.jobs, parent |-> k.p_parent, value |-> x1, waiting |-> x2,
              need |-> x3]
    BY <2>1, <2>2, <2>3
  <2>6. x2[s] = y
    BY <1>13, <2>2, <2>4
  <2>8. PICK L : L = k.jobs
    OBVIOUS
  <2>9. PICK R : R = k.p_parent
    OBVIOUS
  <2>10. PICK u : u = st
    OBVIOUS
  <2>11. u = [live |-> L, parent |-> R, value |-> x1, waiting |-> x2, need |-> x3]
    BY <2>5, <2>8, <2>9, <2>10
  <2>7. /\ y = <<>> =>
             Abstract!Unit(st, s) = [live |-> k.jobs, parent |-> k.p_parent,
                                     value |-> [x1 EXCEPT ![s] = @ + 1],
                                     waiting |-> x2, need |-> x3]
        /\ y # <<>> /\ x3[Head(y)] = 1 =>
             Abstract!Unit(st, s) = [live |-> k.jobs, parent |-> k.p_parent,
                                     value |-> [x1 EXCEPT ![s] = @ + 1],
                                     waiting |-> [x2 EXCEPT ![s] = Tail(@)],
                                     need |-> [x3 EXCEPT ![Head(y)] = 0]]
        /\ y # <<>> /\ x3[Head(y)] # 1 =>
             Abstract!Unit(st, s) = [live |-> k.jobs, parent |-> k.p_parent,
                                     value |-> [x1 EXCEPT ![s] = @ + 1],
                                     waiting |-> x2,
                                     need |-> [x3 EXCEPT ![Head(y)] = @ - 1]]
    <3> HIDE DEF st
    <3>1. y = x2[s]
      BY <2>6
    <3>2. /\ y = <<>> =>
               Abstract!Unit(u, s) = [live |-> L, parent |-> R,
                                      value |-> [x1 EXCEPT ![s] = @ + 1],
                                      waiting |-> x2, need |-> x3]
          /\ y # <<>> /\ x3[Head(y)] = 1 =>
               Abstract!Unit(u, s) = [live |-> L, parent |-> R,
                                      value |-> [x1 EXCEPT ![s] = @ + 1],
                                      waiting |-> [x2 EXCEPT ![s] = Tail(@)],
                                      need |-> [x3 EXCEPT ![Head(y)] = 0]]
          /\ y # <<>> /\ x3[Head(y)] # 1 =>
               Abstract!Unit(u, s) = [live |-> L, parent |-> R,
                                      value |-> [x1 EXCEPT ![s] = @ + 1],
                                      waiting |-> x2,
                                      need |-> [x3 EXCEPT ![Head(y)] = @ - 1]]
      <4>1. u = [live |-> u.live, parent |-> u.parent, value |-> u.value,
                 waiting |-> u.waiting, need |-> u.need]
        BY <2>11
      <4>2. u.live = L /\ u.parent = R /\ u.value = x1 /\ u.waiting = x2 /\ u.need = x3
        BY <2>11
      <4> QED
        BY <3>1, <4>1, <4>2, UnitOfState
    <3> QED
      BY <2>8, <2>9, <2>10, <3>2
  <2> HIDE DEF st, given, behind, need, b
  <2> QED
    BY <2>1, <2>2, <2>3, <2>4, <2>7
<1>15. CASE b = <<>>
  <2>1. n = Len(q) /\ D(n) <= i + 1 /\ D(n) \in Nat
    BY <1>6, <1>8, <1>9, <1>11, <1>15
  <2>2. m = n
    BY <1>8, <1>10, <2>1
  <2>3. need2 = need
    BY <1>15, <2>2 DEF stillNeeded
  <2> HIDE DEF a, b, a2, b2, need, need2
  <2>4. b2 = b
    BY <2>2 DEF b, b2
  <2> QED
    BY <1>0, <1>7, <1>12, <1>14, <1>15, <2>3, <2>4
<1>16. CASE b # <<>>
  <2>1. n < Len(q) /\ n + 1 \in 0 .. Len(q) /\ n \in Nat /\ D(n) \in Nat /\ D(n + 1) \in Nat
    BY <1>6, <1>8, <1>9, <1>11, <1>16
  <2>2. PICK h : h = Head(b)
    OBVIOUS
  <2>3. /\ h = q[n + 1] /\ h \in Members(b) /\ h \in Pcb /\ h \notin Members(a)
        /\ Members(SubSeq(q, 1, n + 1)) = Members(a) \cup {h}
    <3>1. h = q[n + 1] /\ Members(SubSeq(q, 1, n + 1)) = Members(a) \cup {q[n + 1]}
      BY <1>6, <1>8, <2>1, <2>2, NextMember
    <3> HIDE DEF a, b
    <3>2. h \in Members(b) /\ h \in Pcb
      BY <1>11, <1>16, <2>2, HeadTailMembers
    <3> QED
      BY <1>11, <3>1, <3>2
  <2>4. N[h] \in Nat \ {0} /\ D(n + 1) = D(n) + N[h] /\ D(n + 1) > i
    BY <1>8, <1>9, <2>1, <2>3
  <2>5. need[h] = N[h] - (i - D(n))
    BY <1>5, <1>16, <2>2, <2>3 DEF stillNeeded
  <2>6. need = [p \in Pcb |-> need[p]]
    BY DEF stillNeeded
  <2>7. CASE need[h] = 1
    <3>1. D(n + 1) = i + 1
      BY <1>8, <2>1, <2>4, <2>5, <2>7
    <3>2. m = n + 1
      <4>1. n + 1 < Len(q) => D((n + 1) + 1) > i + 1
        <5>1. n + 1 < Len(q) => N[q[(n + 1) + 1]] \in Nat \ {0}
                                /\ D((n + 1) + 1) = D(n + 1) + N[q[(n + 1) + 1]]
          BY <1>9, <2>1
        <5> QED
          BY <3>1, <5>1
      <4>2. D(n + 1) <= i + 1
        BY <3>1
      <4> QED
        BY <1>10, <2>1, <4>1, <4>2
    <3>3. Tail(b) = b2
      <4>1. /\ b2 \in Seq(Pcb) /\ Len(b2) = Len(q) - (n + 1)
            /\ \A x \in 1 .. Len(q) - (n + 1) : b2[x] = q[(n + 1) + x]
        BY <1>6, <2>1, <3>2, SplitMembers
      <4>2. \A x \in 1 .. Len(q) - n : b[x] = q[n + x]
        BY <1>6, <1>8, SplitMembers
      <4> HIDE DEF a, b, b2
      <4>3. /\ Tail(b) \in Seq(Pcb) /\ Len(Tail(b)) = Len(b) - 1
            /\ \A x \in 1 .. Len(b) - 1 : Tail(b)[x] = b[x + 1]
        BY <1>11, <1>16, HeadTailProperties
      <4>4. \A x \in 1 .. Len(q) - (n + 1) : Tail(b)[x] = b2[x]
        <5> TAKE x \in 1 .. Len(q) - (n + 1)
        <5>0. PICK l : l = Len(q)
          OBVIOUS
        <5>1. x \in 1 .. Len(b) - 1 /\ x + 1 \in 1 .. Len(q) - n /\ n + (x + 1) = (n + 1) + x
          <6>1. /\ l \in Nat /\ n \in Nat /\ n < l /\ Len(b) = l - n
                /\ x \in 1 .. l - (n + 1)
            BY <1>6, <1>11, <2>1, <5>0
          <6>2. x \in 1 .. (l - n) - 1 /\ x + 1 \in 1 .. l - n /\ n + (x + 1) = (n + 1) + x
            BY <6>1
          <6> QED
            BY <5>0, <6>1, <6>2
        <5>2. Tail(b)[x] = b[x + 1] /\ b[x + 1] = q[n + (x + 1)] /\ b2[x] = q[(n + 1) + x]
          BY <4>1, <4>2, <4>3, <5>1
        <5> QED
          BY <5>1, <5>2
      <4>5. Len(Tail(b)) = Len(b2) /\ Len(b2) = Len(q) - (n + 1)
        BY <1>6, <1>11, <2>1, <4>1, <4>3
      <4> QED
        BY <4>1, <4>3, <4>4, <4>5, SeqEqual
    <3>4. /\ Members(a2) = Members(a) \cup {h}
          /\ b2 # <<>> => Head(b2) \in Members(b) \ {h}
      <4>1. Members(a2) = Members(a) \cup {h}
        BY <2>3, <3>2
      <4>2. NoRepeats(b)
        BY <1>6, <1>8, CutMembers
      <4>3. b2 \in Seq(Pcb)
        BY <1>6, <2>1, <3>2, SplitMembers
      <4> HIDE DEF a, b, b2, a2
      <4>4. b2 # <<>> => Head(b2) \in Members(b2)
        BY <4>3, HeadTailMembers
      <4>5. Members(b) = {h} \cup Members(Tail(b)) /\ h \notin Members(Tail(b))
        BY <1>11, <1>16, <2>2, <4>2, HeadTailMembers
      <4> QED
        BY <3>3, <4>1, <4>4, <4>5
    <3>5. [need EXCEPT ![h] = 0] = need2
      <4>1. j - D(m) = 0
        BY <1>0, <3>1, <3>2
      <4>2. need2 = [p \in Pcb |-> IF p \in Members(a) \cup {h} THEN 0
                                   ELSE IF b2 # <<>> /\ p = Head(b2) THEN N[p] - 0 ELSE N[p]]
        BY <1>5, <3>4, <4>1 DEF stillNeeded
      <4>3. need = [p \in Pcb |-> IF p \in Members(a) THEN 0
                                  ELSE IF p = h THEN N[p] - (i - D(n)) ELSE N[p]]
        BY <1>5, <1>16, <2>2 DEF stillNeeded
      <4> HIDE DEF a, b, b2, a2, need, need2
      <4>4. \A p \in Pcb : N[p] - 0 = N[p]
        BY <1>6
      <4> QED
        BY <4>2, <4>3, <4>4
    <3> HIDE DEF a, b, a2, b2, need, need2
    <3>6. [behind EXCEPT ![s] = Tail(@)] = [W EXCEPT ![s] = b2]
      BY <1>6, <3>3
    <3> QED
      BY <1>0, <1>7, <1>12, <1>14, <1>16, <2>2, <2>7, <3>5, <3>6
  <2>8. CASE need[h] # 1
    <3>1. D(n + 1) > i + 1 /\ D(n) <= i + 1
      BY <1>8, <2>1, <2>4, <2>5, <2>8
    <3>2. m = n
      BY <1>8, <1>10, <3>1
    <3>3. [need EXCEPT ![h] = @ - 1] = need2
      <4>1. need2 = [p \in Pcb |-> IF p \in Members(a) THEN 0
                                   ELSE IF p = h THEN N[p] - (j - D(n)) ELSE N[p]]
        BY <1>5, <1>16, <2>2, <3>2 DEF stillNeeded
      <4>2. need = [p \in Pcb |-> IF p \in Members(a) THEN 0
                                  ELSE IF p = h THEN N[p] - (i - D(n)) ELSE N[p]]
        BY <1>5, <1>16, <2>2 DEF stillNeeded
      <4>3. (N[h] - (i - D(n))) - 1 = N[h] - (j - D(n))
        BY <1>0, <2>1, <2>4
      <4> HIDE DEF a, b, b2, a2, need, need2
      <4> QED
        BY <2>3, <2>5, <4>1, <4>2, <4>3
    <3> HIDE DEF a, b, a2, b2, need, need2
    <3>4. b2 = b
      BY <3>2 DEF b, b2
    <3> QED
      BY <1>0, <1>7, <1>12, <1>14, <1>16, <2>2, <2>8, <3>3, <3>4
  <2> QED
    BY <2>7, <2>8
<1> QED
  BY <1>0, <1>15, <1>16

\* Units given one by one add up.
LEMMA UnitsAddUp ==
    ASSUME NEW k, NEW c, KernelOK(k, c), AslOK(k), HungryOK(k), NEW s \in AllSem, NEW n \in Nat
    PROVE  Abstract!V(Promise(k), s, n) = Promise(V(k, s, n))
<1> DEFINE Given(t) == t = [i \in 0 .. n |-> IF i = 0 THEN Promise(k)
                                              ELSE Abstract!Unit(t[i - 1], s)]
           g == [i \in 0 .. n |-> Served(k, s, i)]
<1>1. Served(k, s, 0) = Promise(k)
  BY ServedNothing
<1>2. ASSUME NEW i \in 0 .. n, i # 0
      PROVE  Abstract!Unit(Served(k, s, i - 1), s) = Served(k, s, i)
  <2>1. i - 1 \in Nat /\ (i - 1) + 1 = i
    BY <1>2
  <2> QED
    BY <2>1, ServedOneMore
<1>3. Given(g)
  <2>1. \A i \in 0 .. n : i # 0 => g[i - 1] = Served(k, s, i - 1)
    OBVIOUS
  <2> QED
    BY <1>1, <1>2, <2>1
<1>4. PICK t : t = CHOOSE u : Given(u)
  OBVIOUS
<1>5. Given(t)
  BY <1>3, <1>4
<1>6. t[0] = g[0]
  <2>1. 0 \in 0 .. n
    OBVIOUS
  <2>2. t[0] = Promise(k)
    BY <1>5, <2>1
  <2>3. g[0] = Served(k, s, 0)
    BY <2>1
  <2> QED
    BY <1>1, <2>2, <2>3
<1>7. \A i \in 0 .. n : i < n /\ t[i] = g[i] => t[i + 1] = g[i + 1]
  <2> TAKE i \in 0 .. n
  <2> HAVE i < n /\ t[i] = g[i]
  <2>1. i + 1 \in 0 .. n /\ i + 1 # 0 /\ (i + 1) - 1 = i
    OBVIOUS
  <2>2. t[i + 1] = Abstract!Unit(t[i], s)
    BY <1>5, <2>1
  <2>3. g[i + 1] = Abstract!Unit(g[i], s)
    BY <1>3, <2>1
  <2> QED
    BY <2>2, <2>3
<1>8. t[n] = g[n]
  <2> HIDE DEF g, Given
  <2>1. \A i \in 0 .. n : t[i] = g[i]
    BY <1>6, <1>7, SameUpTo
  <2> QED
    BY <2>1
<1>9. Abstract!V(Promise(k), s, n) = t[n]
  BY Zenon, <1>4 DEF Abstract!V
<1>10. g[n] = Served(k, s, n)
  OBVIOUS
<1> QED
  BY <1>8, <1>9, <1>10, VServes

\* The clock and every device are semaphores.
LEMMA SomeSemaphores == Clock \in AllSem /\ IODevice \subseteq AllSem \ {Clock}
BY NucleusAssumption DEF AllSem, DeviceSem

\* A V leaves no need of 0 in a queue.
LEMMA VHungry ==
    ASSUME NEW k, NEW c, KernelOK(k, c), AslOK(k), HungryOK(k), NEW s \in AllSem, NEW w \in Nat
    PROVE  HungryOK(V(k, s, w)) /\ AslOK(V(k, s, w))
<1> DEFINE x == [k EXCEPT !.sem[s] = @ + w]
<1>1. k \in Kernel /\ k.sem[s] \in Int
  BY DEF KernelOK, Kernel
<1>2. x \in Kernel
  <2>1. [k.sem EXCEPT ![s] = k.sem[s] + w] \in [AllSem -> Int]
    BY <1>1 DEF Kernel
  <2> QED
    BY <1>1, <2>1 DEF Kernel
<1>3. /\ x.jobs = k.jobs /\ x.ready_queue = k.ready_queue /\ x.s_procq = k.s_procq
      /\ x.p_cursem = k.p_cursem /\ x.aslh = k.aslh /\ x.s_semAdd = k.s_semAdd
      /\ x.process_c = k.process_c /\ x.soft_block_c = k.soft_block_c
      /\ x.p_resources_needed = k.p_resources_needed
      /\ k.soft_block_c \in Int
  BY <1>1 DEF Kernel
<1>4. V(k, s, w) = IF searchAsl(k, s) = {} THEN x
                   ELSE wakeUp(x, s, CHOOSE d \in searchAsl(k, s) : TRUE, w)
  BY DEF V
<1> HIDE DEF x
<1>5. KernelOK(x, c) /\ searchAsl(x, s) = searchAsl(k, s)
  BY <1>2, <1>3, KernelOKFrame DEF searchAsl
<1>6. HungryOK(x) /\ AslOK(x)
  BY <1>3 DEF HungryOK, AslOK
<1>7. ASSUME NEW d \in searchAsl(k, s)
      PROVE  HungryOK(wakeUp(x, s, d, w)) /\ AslOK(wakeUp(x, s, d, w))
  <2> DEFINE z == wakeUp(x, s, d, w)
  <2>1. /\ z.s_semAdd = x.s_semAdd
        /\ \E woken, rest \in SUBSET Pcb : WakesUp(x, z, d, w, woken, rest)
    BY <1>5, WakeUpResult
  <2> HIDE DEF z
  <2>2. PICK woken \in SUBSET Pcb, rest \in SUBSET Pcb : WakesUp(x, z, d, w, woken, rest)
    BY <2>1
  <2>3. AslOK(z)
    BY <1>6, <2>1, <2>2 DEF AslOK, WakesUp
  <2>4. d \in x.aslh /\ d \in Semd /\ x.aslh \subseteq Semd
    BY <1>2, <1>5 DEF searchAsl, Kernel
  <2>5. ASSUME NEW p \in Members(z.s_procq[d]), d \in z.aslh
        PROVE  z.p_resources_needed[p] # 0
    <3>1. p \in rest /\ p \in Members(x.s_procq[d]) /\ p \in Pcb
      BY <2>2, <2>5 DEF WakesUp
    <3>2. x.p_resources_needed[p] # 0
      BY <1>6, <2>4, <3>1 DEF HungryOK
    <3>3. PICK h \in rest :
             /\ w - Demand(x, woken) < x.p_resources_needed[h]
             /\ z.p_resources_needed[h] = x.p_resources_needed[h] - (w - Demand(x, woken))
             /\ \A q \in rest \ {h} : z.p_resources_needed[q] = x.p_resources_needed[q]
      BY <2>2, <3>1 DEF WakesUp
    <3>4. CASE p # h
      BY <3>1, <3>2, <3>3, <3>4
    <3>5. CASE p = h
      <4>1. Demand(x, woken) \in Nat
        BY DemandNat
      <4>2. x.p_resources_needed[h] \in Int
        BY <1>2, <3>1, <3>5, NucleusAssumption DEF Kernel
      <4> QED
        BY <3>3, <3>5, <4>1, <4>2
    <3> QED
      BY <3>4, <3>5
  <2>6. ASSUME NEW e \in z.aslh, e # d, NEW p \in Members(z.s_procq[e])
        PROVE  z.p_resources_needed[p] # 0
    <3>1. e \in x.aslh /\ e \in Semd /\ z.s_procq[e] = x.s_procq[e]
      BY <2>2, <2>4, <2>6 DEF WakesUp
    <3>2. p \in Members(x.s_procq[e]) /\ p \in Pcb /\ p \notin Members(x.s_procq[d])
      <4>1. p \in Members(x.s_procq[e]) /\ x.s_procq[e] \in Seq(Pcb)
        BY <1>2, <2>6, <3>1 DEF Kernel
      <4>2. Members(x.s_procq[d]) \cap Members(x.s_procq[e]) = {}
        BY <1>5, <2>4, <2>6, <3>1 DEF KernelOK, QueuesOK
      <4>3. Members(x.s_procq[e]) \in SUBSET Pcb
        BY <4>1, MembersType
      <4> QED
        BY <4>1, <4>2, <4>3
    <3>3. p \notin woken \cup rest
      BY <2>2, <3>2 DEF WakesUp
    <3>4. z.p_resources_needed[p] = x.p_resources_needed[p]
      BY <2>2, <3>2, <3>3 DEF WakesUp
    <3> QED
      BY <1>6, <3>1, <3>2, <3>4 DEF HungryOK
  <2>7. HungryOK(z)
    BY <2>5, <2>6 DEF HungryOK
  <2> QED
    BY <2>3, <2>7 DEF z
<1> QED
  BY <1>4, <1>6, <1>7

\* What scheduler() does is seen as a tick, or not at all.
LEMMA SchedulerTicks ==
    ASSUME NEW k, NEW c, KernelOK(k, c), AslOK(k), HungryOK(k), scheduler(k, c)
    PROVE  /\ \/ Promise(kernel') = Promise(k)
              \/ k.sem[Clock] < 0 /\ Promise(kernel') = Abstract!Tick(Promise(k))
           /\ HungryOK(kernel')
<1>1. PICK lined, ticked :
         /\ KernelOK(lined, NULL)
         /\ SameBooks(k, lined)
         /\ ticked \in {lined, pseudoTick(lined)}
         /\ SameBooks(ticked, kernel')
  BY SchedulerPath
<1>2. ASSUME NEW y, NEW z, SameBooks(y, z)
      PROVE  Promise(z) = Promise(y) /\ (HungryOK(y) => HungryOK(z)) /\ (AslOK(y) => AslOK(z))
  BY <1>2, PromiseFrame DEF SameBooks, SameTree
<1>3. Promise(lined) = Promise(k) /\ HungryOK(lined) /\ AslOK(lined)
  BY <1>1, <1>2
<1>4. Promise(kernel') = Promise(ticked) /\ (HungryOK(ticked) => HungryOK(kernel'))
  BY <1>1, <1>2
<1>5. lined.sem = k.sem /\ Promise(k).value = k.sem
  BY <1>1 DEF SameBooks, Promise
<1>6. CASE ticked = lined
  BY <1>3, <1>4, <1>6
<1>7. CASE ticked = pseudoTick(lined) /\ k.sem[Clock] < 0
  <2>1. ticked = V(lined, Clock, -k.sem[Clock])
    BY <1>5, <1>7 DEF pseudoTick
  <2>2. -k.sem[Clock] \in Nat
    <3>1. k.sem[Clock] \in Int
      BY SomeSemaphores DEF KernelOK, Kernel
    <3> QED
      BY <1>7, <3>1
  <2>3. /\ Promise(ticked) = Abstract!V(Promise(k), Clock, -k.sem[Clock])
        /\ HungryOK(ticked)
    <3> PICK n \in Nat : n = -k.sem[Clock]
      BY <2>2
    <3>1. Abstract!V(Promise(lined), Clock, n) = Promise(V(lined, Clock, n))
      BY <1>1, <1>3, SomeSemaphores, UnitsAddUp
    <3>2. HungryOK(V(lined, Clock, n))
      BY <1>1, <1>3, SomeSemaphores, VHungry
    <3> QED
      BY <1>3, <2>1, <3>1, <3>2
  <2>4. Abstract!Tick(Promise(k)) = Abstract!V(Promise(k), Clock, -k.sem[Clock])
    BY <1>5 DEF Abstract!Tick
  <2> QED
    BY <1>4, <1>7, <2>3, <2>4
<1>8. ticked = pseudoTick(lined) /\ ~ (k.sem[Clock] < 0) => ticked = lined
  BY <1>5 DEF pseudoTick
<1> QED
  BY <1>1, <1>6, <1>7, <1>8

\* So scheduler() entered with z ends the service that made z of the kernel.
LEMMA ThenFollows ==
    ASSUME NEW z, NEW c, KernelOK(z, c), AslOK(z), HungryOK(z), scheduler(z, c)
    PROVE  /\ Abstract!Then(Promise(z))
           /\ kernel'.jobs = z.jobs
           /\ \A s \in AllSem \ {Clock} : kernel'.sem[s] = z.sem[s]
           /\ HungryOK(kernel')
<1>1. /\ \/ Promise(kernel') = Promise(z)
         \/ z.sem[Clock] < 0 /\ Promise(kernel') = Abstract!Tick(Promise(z))
      /\ HungryOK(kernel')
  BY SchedulerTicks
<1>2. ASSUME NEW st, Promise(kernel') = st
      PROVE  Abstract!Become(st)
  BY <1>2 DEF Promise, Waiting, Abstract!Become
<1>3. Promise(z).value = z.sem
  BY DEF Promise
<1>4. Abstract!Then(Promise(z))
  BY <1>1, <1>2, <1>3 DEF Abstract!Then
<1>5. kernel'.jobs = z.jobs
  BY SchedulerOrder
<1>6. ASSUME NEW s \in AllSem \ {Clock}
      PROVE  kernel'.sem[s] = z.sem[s]
  <2>1. CASE Promise(kernel') = Promise(z)
    BY <2>1 DEF Promise
  <2>2. CASE z.sem[Clock] < 0 /\ Promise(kernel') = Abstract!Tick(Promise(z))
    <3>1. z.sem[Clock] \in Int /\ Clock \in AllSem
      BY SomeSemaphores DEF KernelOK, Kernel
    <3> PICK n \in Nat : n = -z.sem[Clock]
      BY <2>2, <3>1
    <3>2. Promise(kernel') = Promise(V(z, Clock, n))
      <4>1. Abstract!Tick(Promise(z)) = Abstract!V(Promise(z), Clock, n)
        BY <1>3 DEF Abstract!Tick
      <4> QED
        BY <2>2, <3>1, <4>1, UnitsAddUp
    <3>3. V(z, Clock, n).sem = [z.sem EXCEPT ![Clock] = @ + n]
      BY <3>1, VOrder
    <3>4. kernel'.sem = [z.sem EXCEPT ![Clock] = @ + n]
      BY <3>2, <3>3 DEF Promise
    <3> QED
      BY <3>4 DEF KernelOK, Kernel
  <2> QED
    BY <1>1, <2>1, <2>2
<1> QED
  BY <1>1, <1>4, <1>5, <1>6

\* Who runs waits for nothing.
LEMMA RunnerIsRunnable ==
    ASSUME KernelOK(kernel, current_process), AslOK(kernel), current_process # NULL
    PROVE  current_process \in Abstract!Runnable
<1>1. \A s \in AllSem : current_process \notin Members(Waiting(kernel)[s])
  BY WaitingIsQueue
<1>2. current_process \in kernel.jobs
  BY DEF KernelOK
<1>3. \A q : Abstract!Members(q) = Members(q)
  BY DEF Abstract!Members, Members
<1> QED
  BY <1>1, <1>2, <1>3 DEF Abstract!Runnable, Waiting

\* Who queues up at a descriptor waits last for its semaphore.
LEMMA EnqueueWaiting ==
    ASSUME NEW k \in Kernel, AslOK(k), NEW s \in AllSem, NEW d \in searchAsl(k, s), NEW p \in Pcb
    PROVE  /\ Waiting(Enqueue(k, p, d)) = [Waiting(k) EXCEPT ![s] = Append(@, p)]
           /\ SameTree(k, Enqueue(k, p, d)) /\ Enqueue(k, p, d).sem = k.sem
           /\ Enqueue(k, p, d).p_resources_needed = k.p_resources_needed
           /\ AslOK(Enqueue(k, p, d))
           /\ HungryOK(k) /\ k.p_resources_needed[p] # 0 => HungryOK(Enqueue(k, p, d))
<1> DEFINE z == Enqueue(k, p, d)
<1>1. /\ d \in Semd /\ d \in k.aslh /\ k.s_semAdd[d] = s /\ searchAsl(k, s) = {d}
      /\ k.aslh \subseteq Semd
  BY DEF searchAsl, Kernel, AslOK
<1>2. /\ z.jobs = k.jobs /\ z.p_parent = k.p_parent /\ z.sem = k.sem /\ z.aslh = k.aslh
      /\ z.s_semAdd = k.s_semAdd /\ z.p_resources_needed = k.p_resources_needed
      /\ z.s_procq[d] = Append(k.s_procq[d], p)
      /\ \A e \in Semd \ {d} : z.s_procq[e] = k.s_procq[e]
  BY <1>1 DEF Enqueue, Kernel
<1> HIDE DEF z
<1>3. \A r : searchAsl(z, r) = searchAsl(k, r)
  BY <1>2 DEF searchAsl
<1>4. ASSUME NEW r \in AllSem, r # s
      PROVE  Waiting(z)[r] = Waiting(k)[r]
  <2>1. \A e \in searchAsl(k, r) : z.s_procq[e] = k.s_procq[e]
    BY <1>1, <1>2, <1>4 DEF searchAsl
  <2>2. searchAsl(k, r) # {} =>
           (CHOOSE e \in searchAsl(k, r) : TRUE) \in searchAsl(k, r)
    OBVIOUS
  <2> QED
    BY <1>3, <2>1, <2>2 DEF Waiting
<1>5. Waiting(z)[s] = Append(Waiting(k)[s], p)
  <2>1. (CHOOSE e \in {d} : TRUE) = d
    OBVIOUS
  <2> QED
    BY <1>1, <1>2, <1>3, <2>1 DEF Waiting
<1>6. Waiting(z) = [Waiting(k) EXCEPT ![s] = Append(@, p)]
  <2>1. /\ Waiting(z) = [r \in AllSem |-> Waiting(z)[r]]
        /\ Waiting(k) = [r \in AllSem |-> Waiting(k)[r]]
    BY DEF Waiting
  <2> QED
    BY <1>4, <1>5, <2>1
<1>7. AslOK(z)
  BY <1>2 DEF AslOK
<1>8. ASSUME HungryOK(k), k.p_resources_needed[p] # 0
      PROVE  HungryOK(z)
  <2>1. Members(Append(k.s_procq[d], p)) = Members(k.s_procq[d]) \cup {p}
    BY <1>1, AppendMembers DEF Kernel
  <2> QED
    BY <1>1, <1>2, <1>8, <2>1 DEF HungryOK
<1> QED
  BY <1>2, <1>6, <1>7, <1>8 DEF z, SameTree

\* A free descriptor taken for a semaphore without one changes nothing.
LEMMA TakeWaiting ==
    ASSUME NEW k \in Kernel, AslOK(k), NEW s \in AllSem, searchAsl(k, s) = {},
           NEW d \in Semd \ k.aslh
    PROVE  LET z == [k EXCEPT !.aslh = @ \cup {d}, !.s_semAdd[d] = s, !.s_procq[d] = <<>>]
           IN  /\ z \in Kernel /\ AslOK(z) /\ d \in searchAsl(z, s)
               /\ Promise(z) = Promise(k) /\ (HungryOK(k) => HungryOK(z))
<1> DEFINE z == [k EXCEPT !.aslh = @ \cup {d}, !.s_semAdd[d] = s, !.s_procq[d] = <<>>]
<1>1. z \in Kernel
  <2>1. <<>> \in Seq(Pcb) /\ s \in AllSem \cup {NULL}
    BY EmptySeq
  <2> QED
    BY <2>1 DEF Kernel
<1>2. /\ z.jobs = k.jobs /\ z.p_parent = k.p_parent /\ z.sem = k.sem
      /\ z.p_resources_needed = k.p_resources_needed
      /\ z.aslh = k.aslh \cup {d} /\ z.s_semAdd[d] = s /\ z.s_procq[d] = <<>>
      /\ \A e \in k.aslh : z.s_semAdd[e] = k.s_semAdd[e] /\ z.s_procq[e] = k.s_procq[e]
  BY DEF Kernel
<1> HIDE DEF z
<1>3. AslOK(z) /\ d \in searchAsl(z, s)
  BY <1>2 DEF AslOK, searchAsl
<1>4. \A r \in AllSem \ {s} : searchAsl(z, r) = searchAsl(k, r)
  BY <1>2 DEF searchAsl
<1>5. searchAsl(z, s) = {d}
  BY <1>2 DEF searchAsl
<1>6. ASSUME NEW r \in AllSem
      PROVE  Waiting(z)[r] = Waiting(k)[r]
  <2>1. CASE r = s
    <3>1. (CHOOSE e \in {d} : TRUE) = d
      OBVIOUS
    <3> QED
      BY <1>2, <1>5, <2>1, <3>1 DEF Waiting
  <2>2. CASE r # s
    <3>1. \A e \in searchAsl(k, r) : z.s_procq[e] = k.s_procq[e]
      BY <1>2 DEF searchAsl
    <3>2. searchAsl(k, r) # {} =>
             (CHOOSE e \in searchAsl(k, r) : TRUE) \in searchAsl(k, r)
      OBVIOUS
    <3> QED
      BY <1>4, <2>2, <3>1, <3>2 DEF Waiting
  <2> QED
    BY <2>1, <2>2
<1>7. Waiting(z) = Waiting(k)
  <2>1. /\ Waiting(z) = [r \in AllSem |-> Waiting(z)[r]]
        /\ Waiting(k) = [r \in AllSem |-> Waiting(k)[r]]
    BY DEF Waiting
  <2> QED
    BY <1>6, <2>1
<1>8. Promise(z) = Promise(k)
  BY <1>2, <1>7 DEF Promise
<1>9. HungryOK(k) => HungryOK(z)
  BY <1>2 DEF HungryOK, Members
<1> QED
  BY <1>1, <1>3, <1>8, <1>9 DEF z

\* So insertBlocked makes p the last to wait for s, whatever descriptor it takes.
LEMMA InsertBlockedWaiting ==
    ASSUME Enough, NEW k \in Kernel, AslOK(k), HungryOK(k), NEW s \in AllSem, NEW p \in Pcb,
           k.p_resources_needed[p] # 0, NEW z \in insertBlocked(k, s, p)
    PROVE  /\ Waiting(z) = [Waiting(k) EXCEPT ![s] = Append(@, p)]
           /\ SameTree(k, z) /\ z.sem = k.sem /\ z.p_resources_needed = k.p_resources_needed
           /\ AslOK(z) /\ HungryOK(z)
<1>1. ASSUME NEW d \in searchAsl(k, s), z = Enqueue(k, p, d)
      PROVE  /\ Waiting(z) = [Waiting(k) EXCEPT ![s] = Append(@, p)]
             /\ SameTree(k, z) /\ z.sem = k.sem
             /\ z.p_resources_needed = k.p_resources_needed
             /\ AslOK(z) /\ HungryOK(z)
  BY <1>1, EnqueueWaiting
<1>2. ASSUME searchAsl(k, s) = {}, NEW d \in Semd \ k.aslh,
             z = Enqueue([k EXCEPT !.aslh = @ \cup {d}, !.s_semAdd[d] = s,
                                   !.s_procq[d] = <<>>], p, d)
      PROVE  /\ Waiting(z) = [Waiting(k) EXCEPT ![s] = Append(@, p)]
             /\ SameTree(k, z) /\ z.sem = k.sem
             /\ z.p_resources_needed = k.p_resources_needed
             /\ AslOK(z) /\ HungryOK(z)
  <2> DEFINE y == [k EXCEPT !.aslh = @ \cup {d}, !.s_semAdd[d] = s, !.s_procq[d] = <<>>]
  <2>1. /\ y \in Kernel /\ AslOK(y) /\ d \in searchAsl(y, s)
        /\ Promise(y) = Promise(k) /\ HungryOK(y)
    BY <1>2, TakeWaiting
  <2>2. z = Enqueue(y, p, d)
    BY <1>2
  <2> HIDE DEF y
  <2>3. /\ Waiting(y) = Waiting(k) /\ SameTree(k, y) /\ y.sem = k.sem
        /\ y.p_resources_needed = k.p_resources_needed
    BY <2>1 DEF Promise, SameTree
  <2> QED
    BY <2>1, <2>2, <2>3, EnqueueWaiting DEF SameTree
<1>3. k.aslh = Semd => searchAsl(k, s) # {}
  BY EverySemaphoreFound
<1> QED
  BY <1>1, <1>2, <1>3 DEF insertBlocked

\* The two cases of P.
LEMMA POfState ==
    ASSUME NEW st, NEW p, NEW s, NEW w,
           st = [live |-> st.live, parent |-> st.parent, value |-> st.value,
                 waiting |-> st.waiting, need |-> st.need]
    PROVE  LET less == [st.value EXCEPT ![s] = @ - w]
           IN  /\ st.value[s] >= w =>
                    Abstract!P(st, p, s, w) = [live |-> st.live, parent |-> st.parent,
                                               value |-> less,
                                               waiting |-> st.waiting, need |-> st.need]
               /\ ~ (st.value[s] >= w) =>
                    Abstract!P(st, p, s, w) = [live |-> st.live, parent |-> st.parent,
                                               value |-> less,
                                               waiting |-> [st.waiting EXCEPT ![s] = Append(@, p)],
                                               need |-> [st.need EXCEPT ![p] = w]]
<1>1. PICK live : live = st.live
  OBVIOUS
<1>2. PICK parent : parent = st.parent
  OBVIOUS
<1>3. PICK value : value = st.value
  OBVIOUS
<1>4. PICK waiting : waiting = st.waiting
  OBVIOUS
<1>5. PICK need : need = st.need
  OBVIOUS
<1>6. st = [live |-> live, parent |-> parent, value |-> value, waiting |-> waiting,
            need |-> need]
  BY <1>1, <1>2, <1>3, <1>4, <1>5
<1>7. PICK t : t = Append(waiting[s], p)
  OBVIOUS
<1>8. Abstract!P(st, p, s, w) =
         IF value[s] >= w THEN [st EXCEPT !.value[s] = @ - w]
         ELSE [st EXCEPT !.value[s] = @ - w, !.need[p] = w, !.waiting[s] = t]
  BY <1>3, <1>4, <1>7 DEF Abstract!P
<1>9. [st EXCEPT !.value[s] = @ - w] =
         [live |-> live, parent |-> parent, value |-> [value EXCEPT ![s] = @ - w],
          waiting |-> waiting, need |-> need]
  BY <1>6
<1>10. [st EXCEPT !.value[s] = @ - w, !.need[p] = w, !.waiting[s] = t] =
         [live |-> live, parent |-> parent, value |-> [value EXCEPT ![s] = @ - w],
          waiting |-> [waiting EXCEPT ![s] = t], need |-> [need EXCEPT ![p] = w]]
  <2> DEFINE u == [live |-> live, parent |-> parent, value |-> [value EXCEPT ![s] = @ - w],
                   waiting |-> waiting, need |-> need]
             v == [live |-> live, parent |-> parent, value |-> [value EXCEPT ![s] = @ - w],
                   waiting |-> waiting, need |-> [need EXCEPT ![p] = w]]
             x == [live |-> live, parent |-> parent, value |-> [value EXCEPT ![s] = @ - w],
                   waiting |-> [waiting EXCEPT ![s] = t],
                   need |-> [need EXCEPT ![p] = w]]
  <2>1. [st EXCEPT !.value[s] = @ - w, !.need[p] = w, !.waiting[s] = t] =
          [[[st EXCEPT !.value[s] = @ - w] EXCEPT !.need[p] = w] EXCEPT !.waiting[s] = t]
    OBVIOUS
  <2>2. [u EXCEPT !.need[p] = w] = v
    OBVIOUS
  <2>3. [v EXCEPT !.waiting[s] = t] = x
    OBVIOUS
  <2> HIDE DEF u, v, x
  <2> QED
    BY <1>9, <2>1, <2>2, <2>3 DEF u, x
<1>11. [waiting EXCEPT ![s] = t] = [waiting EXCEPT ![s] = Append(@, p)]
  BY <1>7
<1> QED
  BY <1>1, <1>2, <1>3, <1>4, <1>5, <1>8, <1>9, <1>10, <1>11

\* A P takes its units or waits for them.
LEMMA PServes ==
    ASSUME Enough, IInv, AslOK(kernel), HungryOK(kernel), cpu = "running",
           NEW s \in AllSem, NEW w \in 1 .. MaxWeight, P(s, w)
    PROVE  kernel'.jobs = kernel.jobs /\ Abstract!Take(current_process, s, w) /\ HungryOK(kernel')
<1> DEFINE c       == current_process
           lowered == [kernel EXCEPT !.sem[s] = @ - w]
           blocked == [lowered EXCEPT
                         !.p_resources_needed[c] = w,
                         !.soft_block_c = IF isDeviceSem(s) THEN @ + 1 ELSE @]
           less    == [kernel.sem EXCEPT ![s] = @ - w]
<1>1. /\ kernel \in Kernel /\ c \in Pcb /\ kernel.sem[s] \in Int /\ w \in Int /\ w # 0
  BY NucleusAssumption DEF IInv, KernelOK, Kernel, CpuOK
<1>2. /\ KernelOK(lowered, c) /\ KernelOK(blocked, c)
      /\ \A z \in insertBlocked(blocked, s, c) : KernelOK(z, NULL)
  BY PKernelsOK
<1>3. /\ SameTree(kernel, lowered) /\ SameQueues(kernel, lowered)
      /\ lowered.sem = less /\ lowered.p_resources_needed = kernel.p_resources_needed
  BY <1>1 DEF Kernel, SameTree, SameQueues
<1>4. /\ SameTree(kernel, blocked) /\ SameQueues(kernel, blocked)
      /\ blocked.sem = less
      /\ blocked.p_resources_needed = [kernel.p_resources_needed EXCEPT ![c] = w]
      /\ blocked.p_resources_needed[c] = w
  BY <1>1 DEF Kernel, SameTree, SameQueues
<1>5. /\ \/ lowered.sem[s] >= 0 /\ scheduler(lowered, c)
         \/ lowered.sem[s] < 0 /\ \E z \in insertBlocked(blocked, s, c) : scheduler(z, NULL)
  BY DEF P
<1> HIDE DEF lowered, blocked
<1>6. PICK st : st = Promise(kernel)
  OBVIOUS
<1>7. /\ st.live = kernel.jobs /\ st.parent = kernel.p_parent /\ st.value = kernel.sem
      /\ st.waiting = Waiting(kernel) /\ st.need = kernel.p_resources_needed
      /\ st = [live |-> st.live, parent |-> st.parent, value |-> st.value,
               waiting |-> st.waiting, need |-> st.need]
  BY <1>6 DEF Promise
<1>8. lowered.sem[s] = kernel.sem[s] - w
  BY <1>1, <1>3 DEF Kernel
<1>9. st = Abstract!Now
  BY <1>6 DEF Promise, Waiting, Abstract!Now
<1>10. ASSUME NEW z, NEW r, KernelOK(z, r), AslOK(z), HungryOK(z), scheduler(z, r),
              SameTree(kernel, z), z.sem = less,
              Promise(z) = Abstract!P(st, c, s, w)
       PROVE  /\ kernel'.jobs = kernel.jobs /\ Abstract!Take(c, s, w)
              /\ HungryOK(kernel')
  <2>1. /\ Abstract!Then(Promise(z)) /\ kernel'.jobs = z.jobs
        /\ \A x \in AllSem \ {Clock} : kernel'.sem[x] = z.sem[x]
        /\ HungryOK(kernel')
    BY <1>10, ThenFollows
  <2>2. s # Clock => kernel'.sem[s] = kernel.sem[s] - w
    BY <1>1, <1>10, <2>1 DEF Kernel
  <2>3. Abstract!Then(Abstract!P(Abstract!Now, c, s, w))
    BY <1>9, <1>10, <2>1
  <2>4. Abstract!Take(c, s, w)
    BY <2>2, <2>3 DEF Abstract!Take
  <2> QED
    BY <1>10, <2>1, <2>4 DEF SameTree
<1>11. CASE lowered.sem[s] >= 0 /\ scheduler(lowered, c)
  <2>1. st.value[s] >= w
    BY <1>1, <1>7, <1>8, <1>11
  <2>2. Abstract!P(st, c, s, w) = [live |-> kernel.jobs, parent |-> kernel.p_parent,
                                   value |-> less, waiting |-> Waiting(kernel),
                                   need |-> kernel.p_resources_needed]
    BY <1>7, <2>1, POfState
  <2>3. Waiting(lowered) = Waiting(kernel)
    BY <1>3 DEF SameQueues, Waiting, searchAsl
  <2>4. Promise(lowered) = Abstract!P(st, c, s, w)
    BY <1>3, <2>2, <2>3 DEF Promise, SameTree
  <2>5. AslOK(lowered) /\ HungryOK(lowered)
    BY <1>3 DEF SameQueues, AslOK, HungryOK
  <2> QED
    BY <1>2, <1>3, <1>10, <1>11, <2>4, <2>5
<1>12. ASSUME lowered.sem[s] < 0, NEW z \in insertBlocked(blocked, s, c), scheduler(z, NULL)
       PROVE  /\ kernel'.jobs = kernel.jobs /\ Abstract!Take(c, s, w)
              /\ HungryOK(kernel')
  <2>1. ~ (st.value[s] >= w)
    BY <1>1, <1>7, <1>8, <1>12
  <2>2. Abstract!P(st, c, s, w) =
          [live |-> kernel.jobs, parent |-> kernel.p_parent, value |-> less,
           waiting |-> [Waiting(kernel) EXCEPT ![s] = Append(@, c)],
           need |-> [kernel.p_resources_needed EXCEPT ![c] = w]]
    BY <1>7, <2>1, POfState
  <2>3. AslOK(blocked) /\ Waiting(blocked) = Waiting(kernel)
    BY <1>4 DEF SameQueues, AslOK, Waiting, searchAsl
  <2>4. HungryOK(blocked)
    <3>1. \A p \in Pcb : kernel.p_resources_needed[p] # 0 => blocked.p_resources_needed[p] # 0
      BY <1>1, <1>4 DEF Kernel
    <3>2. \A d \in kernel.aslh : Members(kernel.s_procq[d]) \subseteq Pcb
      BY <1>1, MembersType DEF Kernel
    <3> QED
      BY <1>4, <3>1, <3>2 DEF HungryOK, SameQueues
  <2>5. /\ Waiting(z) = [Waiting(blocked) EXCEPT ![s] = Append(@, c)]
        /\ SameTree(blocked, z) /\ z.sem = blocked.sem
        /\ z.p_resources_needed = blocked.p_resources_needed
        /\ AslOK(z) /\ HungryOK(z)
    <3>1. blocked \in Kernel /\ blocked.p_resources_needed[c] # 0
      BY <1>1, <1>2, <1>4 DEF KernelOK
    <3> QED
      BY <1>1, <1>12, <2>3, <2>4, <3>1, InsertBlockedWaiting
  <2>6. Promise(z) = Abstract!P(st, c, s, w)
    BY <1>4, <2>2, <2>3, <2>5 DEF Promise, SameTree
  <2>7. SameTree(kernel, z) /\ z.sem = less
    BY <1>4, <2>5 DEF SameTree
  <2> QED
    BY <1>2, <1>10, <1>12, <2>5, <2>6, <2>7
<1> QED
  BY <1>5, <1>11, <1>12

\* What Services sees of kernel k without the processes of A: they left the family tree
\* and their queues, and took their needs back.
Left(k, A) ==
    [live    |-> k.jobs \ A,
     parent  |-> [p \in Pcb |-> IF p \in A THEN NULL ELSE k.p_parent[p]],
     value   |-> [s \in AllSem |-> k.sem[s] + Demand(k, A \cap Blocked(k, s))],
     waiting |-> [s \in AllSem |-> Without(Waiting(k)[s], A)],
     need    |-> [p \in Pcb |-> IF p \in A THEN 0 ELSE k.p_resources_needed[p]]]

\* Nobody left.
LEMMA LeftNothing ==
    ASSUME NEW k, NEW c, KernelOK(k, c), AslOK(k)
    PROVE  Left(k, {}) = Promise(k)
<1>1. k \in Kernel
  BY DEF KernelOK
<1>2. [p \in Pcb |-> IF p \in {} THEN NULL ELSE k.p_parent[p]] = k.p_parent
  BY <1>1 DEF Kernel
<1>3. [p \in Pcb |-> IF p \in {} THEN 0 ELSE k.p_resources_needed[p]] = k.p_resources_needed
  BY <1>1 DEF Kernel
<1>4. [s \in AllSem |-> k.sem[s] + Demand(k, {} \cap Blocked(k, s))] = k.sem
  <2>1. \A s \in AllSem : {} \cap Blocked(k, s) = {} /\ k.sem[s] \in Int
    BY <1>1 DEF Kernel
  <2>2. \A s \in AllSem : k.sem[s] + Demand(k, {} \cap Blocked(k, s)) = k.sem[s]
    BY <2>1, DemandEmpty
  <2>3. k.sem = [s \in AllSem |-> k.sem[s]]
    BY <1>1 DEF Kernel
  <2> QED
    BY <2>2, <2>3
<1>5. [s \in AllSem |-> Without(Waiting(k)[s], {})] = Waiting(k)
  <2>1. ASSUME NEW s \in AllSem
        PROVE  Without(Waiting(k)[s], {}) = Waiting(k)[s]
    <3>1. PICK q : q = Waiting(k)[s]
      OBVIOUS
    <3>2. q \in Seq(Pcb)
      BY <3>1, WaitingIsQueue
    <3>3. PICK S : S = {}
      OBVIOUS
    <3>4. Members(q) \cap S = {}
      BY <3>3
    <3>5. Without(q, S) = q
      BY <3>2, <3>4, WithoutNone
    <3> QED
      BY <3>1, <3>3, <3>5
  <2>2. Waiting(k) = [s \in AllSem |-> Waiting(k)[s]]
    BY DEF Waiting
  <2> QED
    BY <2>1, <2>2
<1> QED
  BY <1>2, <1>3, <1>4, <1>5 DEF Left, Promise

\* One more process leaves.
LEMMA LeftOneMore ==
    ASSUME NEW k, NEW c, KernelOK(k, c), AslOK(k), NEW A \in SUBSET Pcb, NEW p \in Pcb \ A
    PROVE  Abstract!Leave(Left(k, A), p) = Left(k, A \cup {p})
<1>1. PICK B : B = A \cup {p}
  OBVIOUS
<1>2. PICK st : st = Left(k, A)
  OBVIOUS
<1>3. k \in Kernel
  BY DEF KernelOK
<1>4. /\ st.live = k.jobs \ A
      /\ st.parent = [x \in Pcb |-> IF x \in A THEN NULL ELSE k.p_parent[x]]
      /\ st.value = [s \in AllSem |-> k.sem[s] + Demand(k, A \cap Blocked(k, s))]
      /\ st.waiting = [s \in AllSem |-> Without(Waiting(k)[s], A)]
      /\ st.need = [x \in Pcb |-> IF x \in A THEN 0 ELSE k.p_resources_needed[x]]
  BY <1>2 DEF Left
<1>5. Abstract!Leave(st, p) =
        [live    |-> st.live \ {p},
         parent  |-> [st.parent EXCEPT ![p] = NULL],
         value   |-> [s \in AllSem |-> IF p \in Members(st.waiting[s])
                                       THEN st.value[s] + st.need[p] ELSE st.value[s]],
         waiting |-> [s \in AllSem |-> Without(st.waiting[s], {p})],
         need    |-> [st.need EXCEPT ![p] = 0]]
  <2>1. \A q : Abstract!Members(q) = Members(q)
    BY Zenon DEF Abstract!Members, Members
  <2>2. \A q, S : Abstract!Without(q, S) = Without(q, S)
    BY Zenon DEF Abstract!Without, Without, Abstract!Cardinality, Cardinality
  <2> QED
    BY <2>1, <2>2 DEF Abstract!Leave
<1>6. st.live \ {p} = k.jobs \ B
  BY <1>1, <1>4
<1>7. [st.parent EXCEPT ![p] = NULL] = [x \in Pcb |-> IF x \in B THEN NULL ELSE k.p_parent[x]]
  BY <1>1, <1>4
<1>8. [st.need EXCEPT ![p] = 0] =
        [x \in Pcb |-> IF x \in B THEN 0 ELSE k.p_resources_needed[x]]
  BY <1>1, <1>4
<1>9. ASSUME NEW s \in AllSem
      PROVE  /\ Without(st.waiting[s], {p}) = Without(Waiting(k)[s], B)
             /\ (IF p \in Members(st.waiting[s]) THEN st.value[s] + st.need[p]
                 ELSE st.value[s]) = k.sem[s] + Demand(k, B \cap Blocked(k, s))
  <2>1. PICK q : q = Waiting(k)[s]
    OBVIOUS
  <2>2. q \in Seq(Pcb) /\ NoRepeats(q) /\ Members(q) = Blocked(k, s)
    BY <2>1, WaitingIsQueue
  <2>3. st.waiting[s] = Without(q, A)
    BY <1>4, <2>1
  <2>4. Without(Without(q, A), {p}) = Without(q, B)
    BY <1>1, <2>2, WithoutTwice
  <2>5. Members(Without(q, A)) = Blocked(k, s) \ A
    BY <2>2, WithoutProperties
  <2>6. /\ st.value[s] = k.sem[s] + Demand(k, A \cap Blocked(k, s))
        /\ st.need[p] = k.p_resources_needed[p]
    BY <1>4
  <2>7. PICK D : D = A \cap Blocked(k, s)
    OBVIOUS
  <2>8. D \in SUBSET Pcb /\ D \cap {p} = {} /\ {p} \in SUBSET Pcb
    BY <2>7
  <2>9. CASE p \in Blocked(k, s)
    <3>1. B \cap Blocked(k, s) = D \cup {p}
      BY <1>1, <2>7, <2>9
    <3>2. Demand(k, D \cup {p}) = Demand(k, D) + Demand(k, {p})
      BY <2>8, DemandAdd
    <3>3. /\ k.p_resources_needed[p] \in 0 .. MaxWeight /\ k.sem[s] \in Int
          /\ MaxWeight \in Nat
      BY <1>3, NucleusAssumption DEF Kernel
    <3>4. Demand(k, {p}) = k.p_resources_needed[p]
      BY <3>3, DemandOne
    <3>5. Demand(k, D) \in Nat
      BY <2>8, DemandNat
    <3>6. (k.sem[s] + Demand(k, D)) + k.p_resources_needed[p] =
          k.sem[s] + Demand(k, B \cap Blocked(k, s))
      <4>1. Demand(k, B \cap Blocked(k, s)) = Demand(k, D) + k.p_resources_needed[p]
        BY <3>1, <3>2, <3>4
      <4>2. k.p_resources_needed[p] \in Int
        BY <3>3
      <4> QED
        BY <3>3, <3>5, <4>1, <4>2
    <3> QED
      BY <2>1, <2>3, <2>4, <2>5, <2>6, <2>7, <2>9, <3>6
  <2>10. CASE p \notin Blocked(k, s)
    <3>1. B \cap Blocked(k, s) = D
      BY <1>1, <2>7, <2>10
    <3> QED
      BY <2>1, <2>3, <2>4, <2>5, <2>6, <2>7, <2>10, <3>1
  <2> QED
    BY <2>9, <2>10
<1>10. Abstract!Leave(st, p) =
        [live    |-> k.jobs \ B,
         parent  |-> [x \in Pcb |-> IF x \in B THEN NULL ELSE k.p_parent[x]],
         value   |-> [s \in AllSem |-> k.sem[s] + Demand(k, B \cap Blocked(k, s))],
         waiting |-> [s \in AllSem |-> Without(Waiting(k)[s], B)],
         need    |-> [x \in Pcb |-> IF x \in B THEN 0 ELSE k.p_resources_needed[x]]]
  <2>1. [s \in AllSem |-> IF p \in Members(st.waiting[s])
                          THEN st.value[s] + st.need[p] ELSE st.value[s]] =
        [s \in AllSem |-> k.sem[s] + Demand(k, B \cap Blocked(k, s))]
    BY <1>9
  <2>2. [s \in AllSem |-> Without(st.waiting[s], {p})] =
        [s \in AllSem |-> Without(Waiting(k)[s], B)]
    BY <1>9
  <2> QED
    BY <1>5, <1>6, <1>7, <1>8, <2>1, <2>2
<1> QED
  BY <1>1, <1>2, <1>10 DEF Left

\* terminateFamily makes all of the family leave.
LEMMA TerminateServes ==
    ASSUME NEW k, NEW c, KernelOK(k, c), AslOK(k), NeedsOK(k), HungryOK(k), NEW target \in k.jobs
    PROVE  /\ Promise(terminateFamily(k, target)) = Left(k, Family(k, target))
           /\ AslOK(terminateFamily(k, target)) /\ HungryOK(terminateFamily(k, target))
<1> DEFINE F == Family(k, target)
           from(d) == {p \in F : k.p_cursem[p] = d}
           debtors(s) == {p \in F : k.p_cursem[p] # NULL /\ k.s_semAdd[k.p_cursem[p]] = s}
           z == terminateFamily(k, target)
<1>1. /\ k \in Kernel /\ F \subseteq k.jobs /\ k.jobs \subseteq Pcb /\ F \in SUBSET Pcb
      /\ k.aslh \subseteq Semd /\ NULL \notin Semd
      /\ \A d \in Semd : k.s_procq[d] \in Seq(Pcb)
  BY NucleusAssumption DEF KernelOK, Kernel, Family
<1> HIDE DEF F
<1>2. /\ z.jobs = k.jobs \ F /\ z.aslh = k.aslh /\ z.s_semAdd = k.s_semAdd
      /\ z.p_parent = [p \in Pcb |-> IF p \in F THEN NULL ELSE k.p_parent[p]]
      /\ z.sem = [s \in AllSem |-> k.sem[s] + Demand(k, debtors(s))]
      /\ \A d \in Semd : z.s_procq[d] = Without(k.s_procq[d], from(d))
      /\ z.p_resources_needed =
            [p \in Pcb |-> IF p \in F THEN 0 ELSE k.p_resources_needed[p]]
  BY <1>1 DEF Kernel, terminateFamily, returned, F
<1> HIDE DEF z
<1>3. ASSUME NEW d \in Semd
      PROVE  /\ z.s_procq[d] = Without(k.s_procq[d], F)
             /\ Members(z.s_procq[d]) = Members(k.s_procq[d]) \ F
  <2>1. PICK q : q = k.s_procq[d]
    OBVIOUS
  <2>2. PICK G : G = from(d)
    OBVIOUS
  <2>3. PICK H : H = F \ from(d)
    OBVIOUS
  <2>4. q \in Seq(Pcb) /\ NoRepeats(q) /\ G \cup H = F
    BY <1>1, <2>1, <2>2, <2>3 DEF KernelOK, QueuesOK
  <2>5. Members(q) \cap H = {}
    BY <2>1, <2>3 DEF KernelOK, CursemOK
  <2>6. /\ Without(q, G) \in Seq(Pcb) /\ Members(Without(q, G)) = Members(q) \ G
        /\ Members(Without(q, F)) = Members(q) \ F
    BY <2>4, WithoutProperties
  <2>7. Without(Without(q, G), H) = Without(q, F)
    BY <2>4, WithoutTwice
  <2>8. Without(Without(q, G), H) = Without(q, G)
    <3>1. Members(Without(q, G)) \cap H = {}
      BY <2>5, <2>6
    <3> QED
      BY <2>6, <3>1, WithoutNone
  <2>9. z.s_procq[d] = Without(q, G)
    BY <1>2, <2>1, <2>2
  <2> QED
    BY <2>1, <2>6, <2>7, <2>8, <2>9
<1>4. \A s : searchAsl(z, s) = searchAsl(k, s) /\ searchAsl(k, s) \subseteq Semd
  BY <1>1, <1>2 DEF searchAsl
<1>5. Waiting(z) = [s \in AllSem |-> Without(Waiting(k)[s], F)]
  <2>1. ASSUME NEW s \in AllSem
        PROVE  Waiting(z)[s] = Without(Waiting(k)[s], F)
    <3>1. CASE searchAsl(k, s) = {}
      <4>1. Waiting(z)[s] = <<>> /\ Waiting(k)[s] = <<>>
        BY <1>4, <3>1 DEF Waiting
      <4>2. <<>> \in Seq(Pcb) /\ Members(<<>>) \cap F = {}
        BY DEF Members
      <4>3. Without(<<>>, F) = <<>>
        BY <4>2, WithoutNone
      <4> QED
        BY <4>1, <4>3
    <3>2. CASE searchAsl(k, s) # {}
      <4>1. PICK d : d = CHOOSE e \in searchAsl(k, s) : TRUE
        OBVIOUS
      <4>2. d \in searchAsl(k, s) /\ d \in Semd
        BY <1>4, <3>2, <4>1
      <4>3. Waiting(z)[s] = z.s_procq[d] /\ Waiting(k)[s] = k.s_procq[d]
        BY <1>4, <3>2, <4>1 DEF Waiting
      <4> QED
        BY <1>3, <4>2, <4>3
    <3> QED
      BY <3>1, <3>2
  <2>2. Waiting(z) = [s \in AllSem |-> Waiting(z)[s]]
    BY DEF Waiting
  <2> QED
    BY <2>1, <2>2
<1>6. z.sem = [s \in AllSem |-> k.sem[s] + Demand(k, F \cap Blocked(k, s))]
  <2>1. ASSUME NEW s \in AllSem
        PROVE  Demand(k, debtors(s)) = Demand(k, F \cap Blocked(k, s))
    <3> DEFINE dead == F \cap Blocked(k, s)
               others == debtors(s) \ dead
    <3>1. dead \subseteq debtors(s)
      <4>1. ASSUME NEW d \in searchAsl(k, s), NEW p \in Members(k.s_procq[d])
            PROVE  k.p_cursem[p] # NULL /\ k.s_semAdd[k.p_cursem[p]] = s
        BY <1>1, <4>1 DEF KernelOK, CursemOK, searchAsl
      <4> QED
        BY <4>1 DEF Blocked
    <3>2. ASSUME NEW p \in others
          PROVE  k.p_resources_needed[p] = 0
      <4> SUFFICES ASSUME k.p_resources_needed[p] # 0
                   PROVE  p \in Blocked(k, s)
        OBVIOUS
      <4>1. p \in Pcb /\ k.s_semAdd[k.p_cursem[p]] = s
        BY <1>1
      <4>2. PICK d \in k.aslh : p \in Members(k.s_procq[d])
        BY <4>1 DEF NeedsOK, Queued
      <4>3. d \in searchAsl(k, s)
        BY <1>1, <4>1, <4>2 DEF KernelOK, CursemOK, searchAsl
      <4> QED
        BY <4>2, <4>3 DEF Blocked
    <3>3. /\ debtors(s) = dead \cup others /\ dead \cap others = {}
          /\ dead \in SUBSET Pcb /\ others \in SUBSET Pcb
      BY <1>1, <3>1
    <3> HIDE DEF dead, others, debtors
    <3>4. Demand(k, others) = 0
      BY <3>2, DemandZero
    <3>5. Demand(k, dead) \in Nat
      BY <3>3, DemandNat
    <3>6. Demand(k, debtors(s)) = Demand(k, dead)
      BY <3>3, <3>4, <3>5, DemandAdd
    <3> QED
      BY <3>6 DEF dead
  <2> HIDE DEF debtors
  <2> QED
    BY <1>2, <2>1
<1>7. AslOK(z)
  BY <1>2 DEF AslOK
<1>8. HungryOK(z)
  <2>1. ASSUME NEW d \in z.aslh, NEW p \in Members(z.s_procq[d])
        PROVE  z.p_resources_needed[p] # 0
    <3>1. d \in k.aslh /\ d \in Semd
      BY <1>1, <1>2
    <3>2. p \in Members(k.s_procq[d]) /\ p \notin F
      BY <1>3, <3>1
    <3>3. p \in Pcb
      BY <1>1, <3>1, <3>2, MembersType
    <3> QED
      BY <1>2, <3>1, <3>2, <3>3 DEF HungryOK
  <2> QED
    BY <2>1 DEF HungryOK
<1>9. Promise(z) = Left(k, F)
  BY <1>2, <1>5, <1>6 DEF Promise, Left
<1> QED
  BY <1>7, <1>8, <1>9 DEF F, z

\* One after the other, the progeny leaves.
LEMMA KillIsLeft ==
    ASSUME NEW c, KernelOK(kernel, c), AslOK(kernel), NEW target,
           Abstract!Progeny(target) \in SUBSET Pcb
    PROVE  Abstract!Kill(target) = Left(kernel, Abstract!Progeny(target))
<1> DEFINE any(S) == CHOOSE p \in S : TRUE
<1>1. PICK G : G = Abstract!Progeny(target)
  OBVIOUS
<1>2. PICK st : st = Promise(kernel)
  OBVIOUS
<1> DEFINE All(t) == t = [S \in SUBSET G |->
                            IF S = {} THEN st ELSE Abstract!Leave(t[S \ {any(S)}], any(S))]
           g == [S \in SUBSET G |-> Left(kernel, S)]
<1>3. G \in SUBSET Pcb /\ IsFiniteSet(G) /\ Cardinality(G) \in Nat
      /\ \A S \in SUBSET G : IsFiniteSet(S) /\ Cardinality(S) \in 0 .. Cardinality(G)
  <2>1. G \in SUBSET Pcb /\ IsFiniteSet(G)
    BY <1>1, NucleusAssumption, FS_Subset
  <2>2. Cardinality(G) \in Nat
    BY <2>1, FS_CardinalityType
  <2>3. ASSUME NEW S \in SUBSET G
        PROVE  IsFiniteSet(S) /\ Cardinality(S) \in 0 .. Cardinality(G)
    <3>1. IsFiniteSet(S) /\ Cardinality(S) <= Cardinality(G)
      BY <2>1, FS_Subset
    <3>2. Cardinality(S) \in Nat
      BY <3>1, FS_CardinalityType
    <3> QED
      BY <2>2, <3>1, <3>2
  <2> QED
    BY <2>1, <2>2, <2>3
<1>4. \A S \in SUBSET G : S # {} => any(S) \in S
  OBVIOUS
<1> HIDE DEF any
<1>5. All(g)
  <2>1. Left(kernel, {}) = st
    BY <1>2, LeftNothing
  <2>2. ASSUME NEW S \in SUBSET G, S # {}
        PROVE  Abstract!Leave(g[S \ {any(S)}], any(S)) = Left(kernel, S)
    <3>1. /\ any(S) \in S /\ S \ {any(S)} \in SUBSET Pcb
          /\ any(S) \in Pcb \ (S \ {any(S)})
          /\ (S \ {any(S)}) \cup {any(S)} = S /\ S \ {any(S)} \in SUBSET G
      BY <1>3, <1>4, <2>2
    <3>2. g[S \ {any(S)}] = Left(kernel, S \ {any(S)})
      BY <3>1
    <3> HIDE DEF g
    <3>3. Abstract!Leave(Left(kernel, S \ {any(S)}), any(S)) =
          Left(kernel, (S \ {any(S)}) \cup {any(S)})
      BY <3>1, LeftOneMore
    <3> QED
      BY <3>1, <3>2, <3>3
  <2>3. \A S \in SUBSET G : Left(kernel, S) =
           IF S = {} THEN st ELSE Abstract!Leave(g[S \ {any(S)}], any(S))
    BY <2>1, <2>2
  <2> QED
    BY <2>3
<1>6. PICK t : t = CHOOSE u : All(u)
  OBVIOUS
<1>7. All(t)
  <2> HIDE DEF All
  <2> QED
    BY <1>5, <1>6
<1>8. t[{}] = g[{}]
  <2>1. {} \in SUBSET G
    OBVIOUS
  <2>2. t[{}] = st
    BY <1>7, <2>1
  <2>3. g[{}] = Left(kernel, {})
    BY <2>1
  <2> QED
    BY <1>2, <2>2, <2>3, LeftNothing
<1>9. ASSUME NEW S \in SUBSET G, S # {}, t[S \ {any(S)}] = g[S \ {any(S)}]
      PROVE  t[S] = g[S]
  <2>1. t[S] = Abstract!Leave(t[S \ {any(S)}], any(S))
    BY <1>7, <1>9
  <2>2. g[S] = Abstract!Leave(g[S \ {any(S)}], any(S))
    BY <1>5, <1>9
  <2> QED
    BY <1>9, <2>1, <2>2
<1>10. t[G] = g[G]
  <2> HIDE DEF g, All
  <2> DEFINE K == {n \in 1 .. Cardinality(G) : \E S \in SUBSET G : Cardinality(S) = n /\ t[S] # g[S]}
  <2>1. ASSUME NEW n \in K, \A m \in K : n <= m
        PROVE  FALSE
    <3>1. PICK S \in SUBSET G : Cardinality(S) = n /\ t[S] # g[S]
      OBVIOUS
    <3>2. S # {}
      BY <1>8, <3>1
    <3>3. PICK R : R = S \ {any(S)}
      OBVIOUS
    <3>4. R \in SUBSET G /\ any(S) \in S
      BY <1>4, <3>2, <3>3
    <3>5. Cardinality(R) = n - 1
      <4>1. IsFiniteSet(S)
        BY <1>3
      <4> QED
        BY <3>1, <3>3, <3>4, <4>1, FS_RemoveElement
    <3>6. t[R] = g[R]
      <4>1. CASE R = {}
        BY <1>8, <4>1
      <4>2. CASE R # {}
        <5>1. IsFiniteSet(R) /\ Cardinality(R) \in Nat
          BY <1>3, <3>4
        <5>2. Cardinality(R) # 0
          BY <4>2, <5>1, FS_EmptySet
        <5>3. n - 1 \in 1 .. Cardinality(G) /\ ~ (n <= n - 1)
          BY <1>3, <3>5, <5>1, <5>2
        <5>4. n - 1 \notin K
          BY <2>1, <5>3
        <5> QED
          BY <3>4, <3>5, <5>3, <5>4
      <4> QED
        BY <4>1, <4>2
    <3> QED
      BY <1>9, <3>1, <3>2, <3>3, <3>6
  <2>2. K = {}
    BY <1>3, <2>1, LeastIndex
  <2>3. CASE G = {}
    BY <1>8, <2>3
  <2>4. CASE G # {}
    <3>1. Cardinality(G) # 0
      BY <1>3, <2>4, FS_EmptySet
    <3>2. Cardinality(G) \in 1 .. Cardinality(G)
      BY <1>3, <3>1
    <3> QED
      BY <2>2, <3>2
  <2> QED
    BY <2>3, <2>4
<1>11. Abstract!Kill(target) = t[G]
  <2>1. st = Abstract!Now
    BY <1>2 DEF Promise, Waiting, Abstract!Now
  <2> QED
    BY Zenon, <1>1, <1>6, <2>1 DEF Abstract!Kill, any
<1>12. g[G] = Left(kernel, G)
  OBVIOUS
<1> QED
  BY <1>1, <1>10, <1>11, <1>12

\* The parent of each process, and NULL above the first.
Above(k) == [x \in Pcb \cup {NULL} |-> IF x = NULL THEN NULL ELSE k.p_parent[x]]

\* Descends goes up the line of parents.
LEMMA DescendsUp ==
    ASSUME NEW a \in Pcb, kernel \in Kernel
    PROVE  \E t : /\ Followed(t, Above(kernel), a)
                  /\ \A target : Abstract!Descends(a, target) <=>
                        \E i \in 0 .. Cardinality(Pcb) : t[i] = target
<1>1. PICK m : m = Above(kernel)
  OBVIOUS
<1>2. PICK M : M = Pcb \cup {NULL}
  OBVIOUS
<1>3. /\ m \in [M -> M] /\ a \in M
      /\ \A y \in M : m[y] = IF y = NULL THEN NULL ELSE kernel.p_parent[y]
  BY <1>1, <1>2 DEF Above, Kernel
<1>4. PICK t : Followed(t, m, a)
  <2>1. \A y \in M : m[y] \in M
    BY <1>3
  <2> QED
    BY <1>3, <2>1, FollowedExists
<1>5. /\ t[0] = a /\ \A i \in Nat : t[i + 1] = m[t[i]]
      /\ \A i \in Nat : t[i] \in M
  BY <1>3, <1>4, FollowedStays
<1> DEFINE Up(u) == u = [i \in Nat |-> IF i = 0 THEN a
                                       ELSE IF u[i - 1] = NULL THEN NULL
                                       ELSE kernel.p_parent[u[i - 1]]]
<1>6. ASSUME NEW i \in Nat
      PROVE  t[i] = IF i = 0 THEN a
                    ELSE IF t[i - 1] = NULL THEN NULL ELSE kernel.p_parent[t[i - 1]]
  <2>1. CASE i = 0
    BY <1>5, <2>1
  <2>2. CASE i # 0
    <3>1. i - 1 \in Nat /\ (i - 1) + 1 = i
      BY <2>2
    <3>2. t[i] = m[t[i - 1]] /\ t[i - 1] \in M
      BY <1>5, <3>1
    <3> QED
      BY <1>3, <2>2, <3>2
  <2> QED
    BY <2>1, <2>2
<1>7. Up(t)
  <2>1. t = [i \in Nat |-> t[i]]
    BY <1>4 DEF Followed
  <2> QED
    BY <1>6, <2>1
<1>8. PICK u : u = CHOOSE v : Up(v)
  OBVIOUS
<1>9. Up(u)
  <2> HIDE DEF Up
  <2> QED
    BY <1>7, <1>8
<1>10. u[0] = t[0]
  <2>1. 0 \in Nat
    OBVIOUS
  <2> QED
    BY <1>7, <1>9, <2>1
<1>11. ASSUME NEW i \in Nat, u[i] = t[i]
       PROVE  u[i + 1] = t[i + 1]
  <2>1. i + 1 \in Nat /\ i + 1 # 0 /\ (i + 1) - 1 = i
    OBVIOUS
  <2>2. u[i + 1] = IF u[i] = NULL THEN NULL ELSE kernel.p_parent[u[i]]
    BY <1>9, <2>1
  <2>3. t[i + 1] = IF t[i] = NULL THEN NULL ELSE kernel.p_parent[t[i]]
    BY <1>7, <2>1
  <2> QED
    BY <1>11, <2>2, <2>3
<1>12. ASSUME NEW n \in Nat
       PROVE  \A i \in 0 .. n : u[i] = t[i]
  <2>1. \A i \in 0 .. n : i < n /\ u[i] = t[i] => u[i + 1] = t[i + 1]
    <3> TAKE i \in 0 .. n
    <3> HAVE i < n /\ u[i] = t[i]
    <3>1. i \in Nat
      OBVIOUS
    <3> HIDE DEF Up
    <3> QED
      BY <1>11, <3>1
  <2> QED
    BY ONLY n \in Nat, <1>10, <2>1, SameUpTo
<1>13. ASSUME NEW target
       PROVE  Abstract!Descends(a, target) <=>
                 \E i \in 0 .. Cardinality(Pcb) : t[i] = target
  <2>1. Cardinality(Pcb) \in Nat
    BY NucleusAssumption, FS_CardinalityType
  <2>2. Abstract!Descends(a, target) <=> \E i \in 0 .. Cardinality(Pcb) : u[i] = target
    <3>1. Abstract!Cardinality(Pcb) = Cardinality(Pcb)
      BY Zenon DEF Abstract!Cardinality, Cardinality
    <3>2. Abstract!Descends(a, target) <=>
             \E i \in 0 .. Abstract!Cardinality(Pcb) : u[i] = target
      BY Zenon, <1>8 DEF Abstract!Descends
    <3> QED
      BY <3>1, <3>2
  <2> QED
    BY <1>12, <2>1, <2>2
<1> QED
  BY <1>1, <1>4, <1>13

\* The parent of a live process is live, if it has one.
LEMMA ParentsLive ==
    ASSUME NEW k, TreeOK(k), NEW p \in k.jobs
    PROVE  k.p_parent[p] \in k.jobs \cup {NULL}
<1>1. PICK init \in k.jobs : k.p_parent[init] = NULL /\ Family(k, init) = k.jobs
  BY DEF TreeOK
<1> DEFINE S == {x \in k.jobs : x = init \/ k.p_parent[x] \in k.jobs}
<1>2. Closed(k, S) /\ init \in S
  BY DEF Closed
<1>3. S = k.jobs
  <2> HIDE DEF S
  <2> QED
    BY <1>1, <1>2, WholeFamily
<1> QED
  BY <1>1, <1>3

\* Who descends from a process is of its family.
LEMMA ProgenyIsFamily ==
    ASSUME NEW c, KernelOK(kernel, c), TreeOK(kernel), NEW target \in kernel.jobs
    PROVE  Abstract!Progeny(target) = Family(kernel, target)
<1>1. /\ kernel \in Kernel /\ kernel.jobs \subseteq Pcb /\ NULL \notin Pcb
      /\ IsFiniteSet(Pcb) /\ Cardinality(Pcb) \in Nat
  BY NucleusAssumption, FS_CardinalityType DEF KernelOK, Kernel
<1>2. PICK m : m = Above(kernel)
  OBVIOUS
<1>3. PICK M : M = Pcb \cup {NULL}
  OBVIOUS
<1>4. /\ m \in [M -> M]
      /\ \A y \in M : m[y] = IF y = NULL THEN NULL ELSE kernel.p_parent[y]
  BY <1>1, <1>2, <1>3 DEF Above, Kernel
<1>5. IsFiniteSet(M) /\ Cardinality(M) - 1 = Cardinality(Pcb)
  <2>1. IsFiniteSet(M) /\ Cardinality(M) = Cardinality(Pcb) + 1
    BY <1>1, <1>3, FS_AddElement
  <2> QED
    BY <1>1, <2>1
<1>6. PICK F : F = Family(kernel, target)
  OBVIOUS
<1>7. target \in F /\ Closed(kernel, F) /\ \A S : Closed(kernel, S) /\ target \in S => F \subseteq S
  BY <1>6, FamilyIsLeast
<1>8. ASSUME NEW p \in kernel.jobs, Abstract!Descends(p, target)
      PROVE  p \in F
  <2>1. PICK t : Followed(t, m, p) /\ \E i \in 0 .. Cardinality(Pcb) : t[i] = target
    BY <1>1, <1>2, <1>8, DescendsUp
  <2>2. PICK n \in 0 .. Cardinality(Pcb) : t[n] = target
    BY <2>1
  <2>3. t[0] = p /\ \A i \in Nat : t[i + 1] = m[t[i]]
    <3>1. p \in M
      BY <1>1, <1>3
    <3> QED
      BY <1>4, <2>1, <3>1, FollowedStays
  <2> SUFFICES ASSUME p \notin F
               PROVE  FALSE
    OBVIOUS
  <2> DEFINE N == (kernel.jobs \ F) \cup {NULL}
             f == [i \in 0 .. n |-> t[i] \in N]
             g == [i \in 0 .. n |-> TRUE]
  <2>4. \A x \in N : m[x] \in N
    <3> TAKE x \in N
    <3>1. CASE x = NULL
      BY <1>3, <1>4, <3>1
    <3>2. CASE x # NULL
      <4>1. x \in kernel.jobs /\ x \notin F /\ m[x] = kernel.p_parent[x]
        BY <1>1, <1>3, <1>4, <3>2
      <4>2. m[x] \in kernel.jobs \cup {NULL}
        BY <4>1, ParentsLive
      <4>3. m[x] \notin F
        BY <1>7, <4>1 DEF Closed
      <4> QED
        BY <4>2, <4>3
    <3> QED
      BY <3>1, <3>2
  <2>5. n \in Nat /\ 0 \in 0 .. n /\ n \in 0 .. n
    BY <1>1
  <2>6. f[0] = g[0]
    BY <2>3, <2>5
  <2>7. \A i \in 0 .. n : i < n /\ f[i] = g[i] => f[i + 1] = g[i + 1]
    <3> TAKE i \in 0 .. n
    <3> HAVE i < n /\ f[i] = g[i]
    <3>1. i \in Nat /\ i + 1 \in 0 .. n
      BY <2>5
    <3>2. t[i] \in N
      OBVIOUS
    <3>3. t[i + 1] \in N
      BY <2>3, <2>4, <3>1, <3>2
    <3> QED
      BY <3>1, <3>3
  <2>8. f[n] = g[n]
    <3> HIDE DEF f, g
    <3>1. \A i \in 0 .. n : f[i] = g[i]
      BY ONLY <2>5, <2>6, <2>7, SameUpTo
    <3> QED
      BY <2>5, <3>1
  <2>9. target \in N
    BY <2>2, <2>5, <2>8
  <2> QED
    BY <1>1, <1>7, <2>9
<1>9. ASSUME NEW a \in kernel.jobs, NEW t, Followed(t, m, a), NEW i \in Nat, t[i] = target
      PROVE  Abstract!Descends(a, target)
  <2>1. a \in Pcb /\ a \in M
    BY <1>1, <1>3
  <2>2. PICK u : /\ Followed(u, m, a)
                 /\ \A x : Abstract!Descends(a, x) <=> \E j \in 0 .. Cardinality(Pcb) : u[j] = x
    BY <1>1, <1>2, <2>1, DescendsUp
  <2>3. \E j \in 0 .. Cardinality(M) - 1 : t[j] = t[i]
    BY <1>4, <1>5, <1>9, <2>1, FollowedSoon
  <2>4. PICK j \in 0 .. Cardinality(Pcb) : t[j] = target
    BY <1>5, <1>9, <2>3
  <2>5. /\ t[0] = a /\ \A h \in Nat : t[h + 1] = m[t[h]]
        /\ u[0] = a /\ \A h \in Nat : u[h + 1] = m[u[h]]
    BY <1>4, <1>9, <2>1, <2>2, FollowedStays
  <2>6. u[j] = t[j]
    <3>1. j \in Nat /\ 0 \in Nat /\ 0 + j = j
      BY <1>1
    <3>2. u[0] = t[0]
      BY <2>5
    <3>3. u[0 + j] = t[0 + j]
      <4>1. PICK z \in Nat : z = 0
        OBVIOUS
      <4>2. u[z] = t[z] /\ j \in Nat
        BY <3>1, <3>2, <4>1
      <4>3. \A h \in Nat : u[h + 1] = m[u[h]]
        BY <2>5
      <4>4. \A h \in Nat : t[h + 1] = m[t[h]]
        BY <2>5
      <4>5. u[z + j] = t[z + j]
        BY ONLY z \in Nat, <4>2, <4>3, <4>4, FollowedTogether
      <4> QED
        BY <4>1, <4>5
    <3> QED
      BY <3>1, <3>3
  <2> QED
    BY <2>2, <2>4, <2>6
<1> DEFINE S == {p \in kernel.jobs : Abstract!Descends(p, target)}
<1>10. target \in S
  <2>1. PICK t : Followed(t, m, target)
    BY <1>1, <1>2, DescendsUp
  <2>2. t[0] = target /\ 0 \in Nat
    <3>1. target \in M
      BY <1>1, <1>3
    <3> QED
      BY <1>4, <2>1, <3>1, FollowedStays
  <2> QED
    BY <1>9, <2>1, <2>2
<1>11. ASSUME NEW a \in kernel.jobs, kernel.p_parent[a] \in S
       PROVE  a \in S
  <2>1. PICK b : b = kernel.p_parent[a]
    OBVIOUS
  <2>2. b \in kernel.jobs /\ Abstract!Descends(b, target) /\ a \in M /\ b \in M
        /\ a \in Pcb /\ b \in Pcb
    BY <1>1, <1>3, <1>11, <2>1
  <2>3. PICK u : Followed(u, m, b) /\ \E j \in 0 .. Cardinality(Pcb) : u[j] = target
    BY <1>1, <1>2, <2>2, DescendsUp
  <2>4. PICK j \in 0 .. Cardinality(Pcb) : u[j] = target
    BY <2>3
  <2>5. PICK t : Followed(t, m, a)
    BY <1>1, <1>2, <2>2, DescendsUp
  <2>6. /\ t[0] = a /\ \A h \in Nat : t[h + 1] = m[t[h]]
        /\ u[0] = b /\ \A h \in Nat : u[h + 1] = m[u[h]]
    BY <1>4, <2>2, <2>3, <2>5, FollowedStays
  <2>7. t[1] = u[0]
    <3>1. 0 \in Nat /\ 0 + 1 = 1 /\ a # NULL
      BY <1>1, <2>2
    <3>2. t[0 + 1] = m[t[0]]
      BY <2>6, <3>1
    <3> QED
      BY <1>4, <2>1, <2>2, <2>6, <3>1, <3>2
  <2>8. t[1 + j] = target /\ 1 + j \in Nat
    <3>1. j \in Nat /\ 1 \in Nat /\ 0 \in Nat /\ 0 + j = j /\ 1 + j \in Nat
      BY <1>1
    <3>2. t[1 + j] = u[0 + j]
      BY <2>6, <2>7, <3>1, FollowedTogether
    <3> QED
      BY <2>4, <3>1, <3>2
  <2>9. Abstract!Descends(a, target)
    BY <1>9, <2>5, <2>8
  <2> QED
    BY <2>9
<1>12. Closed(kernel, S)
  BY <1>11 DEF Closed
<1>13. F \subseteq S
  BY <1>7, <1>10, <1>12
<1>14. S \subseteq F
  BY <1>8
<1>15. Abstract!Progeny(target) = S
  BY DEF Abstract!Progeny
<1> QED
  BY <1>6, <1>13, <1>14, <1>15

\* A V by the running process or for a device.
LEMMA VGives ==
    ASSUME NEW c, KernelOK(kernel, c), AslOK(kernel), HungryOK(kernel), NEW s \in AllSem,
           NEW w \in Nat, scheduler(V(kernel, s, w), c)
    PROVE  kernel'.jobs = kernel.jobs /\ Abstract!Give(s, w) /\ HungryOK(kernel')
<1>1. PICK z : z = V(kernel, s, w)
  OBVIOUS
<1>2. KernelOK(z, c) /\ AslOK(z) /\ HungryOK(z)
  BY <1>1, VOK, VHungry
<1>3. Promise(z) = Abstract!V(Promise(kernel), s, w)
  BY <1>1, UnitsAddUp
<1>4. z.jobs = kernel.jobs /\ z.sem = [kernel.sem EXCEPT ![s] = @ + w]
  BY <1>1, VOrder
<1>5. /\ Abstract!Then(Promise(z)) /\ kernel'.jobs = z.jobs
      /\ \A x \in AllSem \ {Clock} : kernel'.sem[x] = z.sem[x]
      /\ HungryOK(kernel')
  BY <1>1, <1>2, ThenFollows
<1>6. Abstract!Now = Promise(kernel)
  BY DEF Promise, Waiting, Abstract!Now
<1>7. s # Clock => kernel'.sem[s] = kernel.sem[s] + w
  BY <1>4, <1>5 DEF KernelOK, Kernel
<1>8. Abstract!Then(Abstract!V(Abstract!Now, s, w))
  BY <1>3, <1>5, <1>6
<1> QED
  BY <1>4, <1>5, <1>7, <1>8 DEF Abstract!Give

\* The same for both halves of a terminal.
LEMMA VGivesBoth ==
    ASSUME NEW c, KernelOK(kernel, c), AslOK(kernel), HungryOK(kernel),
           NEW s \in AllSem \ {Clock}, NEW t \in AllSem \ {Clock}, s # t,
           scheduler(V(V(kernel, s, 1), t, 1), c)
    PROVE  kernel'.jobs = kernel.jobs /\ Abstract!GiveBoth(s, t) /\ HungryOK(kernel')
<1>0. 1 \in Nat
  OBVIOUS
<1>1. PICK y : y = V(kernel, s, 1)
  OBVIOUS
<1>2. PICK z : z = V(y, t, 1)
  OBVIOUS
<1>3. KernelOK(y, c) /\ AslOK(y) /\ HungryOK(y)
  BY <1>0, <1>1, VOK, VHungry
<1>4. KernelOK(z, c) /\ AslOK(z) /\ HungryOK(z)
  BY <1>0, <1>2, <1>3, VOK, VHungry
<1>5. Promise(y) = Abstract!V(Promise(kernel), s, 1)
  BY <1>0, <1>1, UnitsAddUp
<1>6. Promise(z) = Abstract!V(Promise(y), t, 1)
  BY <1>0, <1>2, <1>3, UnitsAddUp
<1>7. y.jobs = kernel.jobs /\ y.sem = [kernel.sem EXCEPT ![s] = @ + 1]
  BY <1>0, <1>1, VOrder
<1>8. z.jobs = y.jobs /\ z.sem = [y.sem EXCEPT ![t] = @ + 1]
  BY <1>0, <1>2, <1>3, VOrder
<1>9. /\ Abstract!Then(Promise(z)) /\ kernel'.jobs = z.jobs
      /\ \A x \in AllSem \ {Clock} : kernel'.sem[x] = z.sem[x]
      /\ HungryOK(kernel')
  BY <1>1, <1>2, <1>4, ThenFollows
<1>10. Abstract!Now = Promise(kernel)
  BY DEF Promise, Waiting, Abstract!Now
<1>11. kernel'.sem[s] = kernel.sem[s] + 1 /\ kernel'.sem[t] = kernel.sem[t] + 1
  BY <1>7, <1>8, <1>9 DEF KernelOK, Kernel
<1>12. Abstract!Then(Abstract!V(Abstract!V(Abstract!Now, s, 1), t, 1))
  BY <1>5, <1>6, <1>9, <1>10
<1> QED
  BY <1>7, <1>8, <1>9, <1>11, <1>12 DEF Abstract!GiveBoth

\* SYS1 brings a child into the world.
LEMMA SpawnServes ==
    ASSUME NEW c \in Pcb, KernelOK(kernel, c), AslOK(kernel), HungryOK(kernel),
           NEW child \in Pcb \ kernel.jobs, scheduler(spawn(kernel, c, child), c)
    PROVE  Abstract!Born(c, child) /\ HungryOK(kernel')
<1>1. PICK z : z = spawn(kernel, c, child)
  OBVIOUS
<1>2. KernelOK(z, c)
  BY <1>1, SpawnOK
<1>3. /\ z.jobs = kernel.jobs \cup {child}
      /\ z.p_parent = [kernel.p_parent EXCEPT ![child] = c]
      /\ z.aslh = kernel.aslh /\ z.s_semAdd = kernel.s_semAdd
      /\ z.s_procq = kernel.s_procq /\ z.sem = kernel.sem
      /\ z.p_resources_needed = kernel.p_resources_needed
  BY <1>1 DEF spawn, KernelOK, Kernel
<1>4. AslOK(z) /\ HungryOK(z) /\ Waiting(z) = Waiting(kernel)
  BY <1>3 DEF AslOK, HungryOK, Waiting, searchAsl
<1>5. PICK st : st = Promise(kernel)
  OBVIOUS
<1>6. st = [live |-> kernel.jobs, parent |-> kernel.p_parent, value |-> kernel.sem,
            waiting |-> Waiting(kernel), need |-> kernel.p_resources_needed]
  BY <1>5 DEF Promise
<1>7. Abstract!Create(st, c, child) = Promise(z)
  <2>1. PICK u : u = [st EXCEPT !.live = @ \cup {child}]
    OBVIOUS
  <2>2. u = [live |-> z.jobs, parent |-> kernel.p_parent, value |-> kernel.sem,
             waiting |-> Waiting(kernel), need |-> kernel.p_resources_needed]
    BY <1>3, <1>6, <2>1
  <2>3. [u EXCEPT !.parent[child] = c] =
            [live |-> z.jobs, parent |-> z.p_parent, value |-> kernel.sem,
             waiting |-> Waiting(kernel), need |-> kernel.p_resources_needed]
    BY <1>3, <2>2
  <2>4. Abstract!Create(st, c, child) = [u EXCEPT !.parent[child] = c]
    BY <2>1 DEF Abstract!Create
  <2> QED
    BY <1>3, <1>4, <2>3, <2>4 DEF Promise
<1>8. st = Abstract!Now
  BY <1>5 DEF Promise, Waiting, Abstract!Now
<1>9. /\ Abstract!Then(Promise(z)) /\ kernel'.jobs = z.jobs
      /\ HungryOK(kernel')
  BY <1>1, <1>2, <1>4, ThenFollows
<1>10. Abstract!Then(Abstract!Create(Abstract!Now, c, child))
  BY <1>7, <1>8, <1>9
<1>11. child \in kernel'.jobs
  BY <1>3, <1>9
<1> QED
  BY <1>9, <1>10, <1>11 DEF Abstract!Born

\* SYS2 ends a process with its progeny.
LEMMA KillServes ==
    ASSUME NEW c, KernelOK(kernel, c), AslOK(kernel), NeedsOK(kernel), HungryOK(kernel),
           TreeOK(kernel), NEW target \in kernel.jobs, NEW r \in {NULL, c},
           r \notin Family(kernel, target), scheduler(terminateFamily(kernel, target), r)
    PROVE  Abstract!Die(target) /\ HungryOK(kernel')
<1>1. PICK z : z = terminateFamily(kernel, target)
  OBVIOUS
<1>2. PICK F : F = Family(kernel, target)
  OBVIOUS
<1>3. KernelOK(z, r)
  BY <1>1, TerminateFamilyOK
<1>4. Promise(z) = Left(kernel, F) /\ AslOK(z) /\ HungryOK(z)
  BY <1>1, <1>2, TerminateServes
<1>5. Abstract!Progeny(target) = F
  BY <1>2, ProgenyIsFamily
<1>6. Abstract!Kill(target) = Left(kernel, F)
  <2>1. F \in SUBSET Pcb
    BY <1>2 DEF Family, KernelOK, Kernel
  <2> QED
    BY <1>5, <2>1, KillIsLeft
<1>7. /\ Abstract!Then(Promise(z)) /\ kernel'.jobs = z.jobs
      /\ HungryOK(kernel')
  BY <1>1, <1>3, <1>4, ThenFollows
<1>8. z.jobs = kernel.jobs \ F
  BY <1>4 DEF Promise, Left
<1>9. Abstract!Then(Abstract!Kill(target))
  BY <1>4, <1>6, <1>7
<1> QED
  BY <1>5, <1>7, <1>8, <1>9 DEF Abstract!Die

\* The tick of the timer is a tick, and scheduler() adds none to it.
LEMMA TimerTicks ==
    ASSUME NEW c, KernelOK(kernel, c), AslOK(kernel), HungryOK(kernel),
           scheduler(pseudoTick(kernel), c)
    PROVE  Abstract!Then(Abstract!Now) /\ HungryOK(kernel')
<1>1. PICK z : z = pseudoTick(kernel)
  OBVIOUS
<1>2. PICK v : v = kernel.sem[Clock]
  OBVIOUS
<1>3. v \in Int /\ Clock \in AllSem
  BY <1>2, SomeSemaphores DEF KernelOK, Kernel
<1>4. Abstract!Now = Promise(kernel)
  BY DEF Promise, Waiting, Abstract!Now
<1>5. CASE ~ (v < 0)
  <2>1. z = kernel
    BY <1>1, <1>2, <1>5 DEF pseudoTick
  <2> QED
    BY <1>1, <1>4, <2>1, ThenFollows
<1>6. CASE v < 0
  <2>1. PICK n \in Nat : n = -v
    BY <1>3, <1>6
  <2>2. z = V(kernel, Clock, n)
    BY <1>1, <1>2, <1>6, <2>1 DEF pseudoTick
  <2>3. KernelOK(z, c) /\ AslOK(z) /\ HungryOK(z)
    BY <1>3, <2>2, VOK, VHungry
  <2>4. Promise(z) = Abstract!V(Promise(kernel), Clock, n)
    BY <1>3, <2>2, UnitsAddUp
  <2>5. z.sem = [kernel.sem EXCEPT ![Clock] = @ + n]
    BY <1>3, <2>2, VOrder
  <2>6. z.sem[Clock] = 0
    <3>1. z.sem[Clock] = v + n
      BY <1>2, <1>3, <2>5 DEF KernelOK, Kernel
    <3> QED
      BY <1>3, <2>1, <3>1
  <2>7. /\ Abstract!Then(Promise(z))
        /\ HungryOK(kernel')
    BY <1>1, <2>3, ThenFollows
  <2>8. Promise(z).value = z.sem /\ Promise(kernel).value = kernel.sem
    BY DEF Promise
  <2>9. Abstract!Become(Promise(z))
    <3>1. ~ (Promise(z).value[Clock] < 0)
      BY <2>6, <2>8
    <3> QED
      BY <2>7, <3>1 DEF Abstract!Then
  <2>10. Promise(z) = Abstract!Tick(Promise(kernel))
    BY <1>2, <2>1, <2>4, <2>8 DEF Abstract!Tick
  <2>11. Promise(kernel).value[Clock] < 0
    BY <1>2, <1>6, <2>8
  <2> QED
    BY <1>4, <2>7, <2>9, <2>10, <2>11 DEF Abstract!Then
<1> QED
  BY <1>5, <1>6

\* What the step of the nucleus is for Services.
Serves == (Abstract!Next \/ UNCHANGED Abstract!vars) /\ HungryOK(kernel')

\* Nothing happens to the kernel.
LEMMA StandsStill ==
    ASSUME HungryOK(kernel), kernel' = kernel
    PROVE  Serves
BY DEF Serves, HungryOK, Abstract!vars, Waiting

\* A terminal interrupt gives a unit for each half that is done and waited for.
LEMMA TerminalServes ==
    ASSUME KernelOK(kernel, current_process), AslOK(kernel), HungryOK(kernel),
           NEW t \in Terminal, NEW done,
           scheduler(completed(completed(kernel, Transmitter(t), done), Receiver(t), done),
                     current_process)
    PROVE  Serves
<1>1. PICK c : c = current_process
  OBVIOUS
<1>2. PICK a \in AllSem \ {Clock} : a = Transmitter(t)
  BY SomeSemaphores DEF IODevice, Transmitter
<1>3. PICK b \in AllSem \ {Clock} : b = Receiver(t)
  BY SomeSemaphores DEF IODevice, Receiver
<1>4. a # b /\ 1 \in Nat /\ 1 \in Weights \cup {1}
  BY <1>2, <1>3 DEF Transmitter, Receiver
<1>5. ASSUME NEW s \in AllSem, scheduler(V(kernel, s, 1), c)
      PROVE  Serves
  <2>1. kernel'.jobs = kernel.jobs /\ Abstract!Give(s, 1) /\ HungryOK(kernel')
    BY <1>1, <1>4, <1>5, VGives
  <2> QED
    BY <1>4, <2>1 DEF Serves, Abstract!Next
<1>6. CASE scheduler(kernel, c)
  <2>1. Abstract!Then(Promise(kernel)) /\ HungryOK(kernel')
    BY <1>1, <1>6, ThenFollows
  <2> QED
    BY <2>1 DEF Serves, Abstract!Next, Abstract!Now, Promise, Waiting
<1>7. CASE scheduler(V(V(kernel, a, 1), b, 1), c)
  <2>1. kernel'.jobs = kernel.jobs /\ Abstract!GiveBoth(a, b) /\ HungryOK(kernel')
    BY <1>1, <1>4, <1>7, VGivesBoth
  <2> QED
    BY <1>4, <2>1 DEF Serves, Abstract!Next
<1>8. /\ completed(kernel, a, done) \in {kernel, V(kernel, a, 1)}
      /\ \A y : completed(y, b, done) \in {y, V(y, b, 1)}
  BY DEF completed
<1>9. PICK y : y = completed(kernel, a, done)
  OBVIOUS
<1>10. scheduler(y, c) \/ scheduler(V(y, b, 1), c)
  <2>1. scheduler(completed(y, b, done), c)
    BY <1>1, <1>2, <1>3, <1>9
  <2>2. completed(y, b, done) = y \/ completed(y, b, done) = V(y, b, 1)
    BY <1>8
  <2> QED
    BY <2>1, <2>2
<1>11. y = kernel \/ y = V(kernel, a, 1)
  BY <1>8, <1>9
<1> QED
  BY <1>5, <1>6, <1>7, <1>10, <1>11

\* Every handler does what Services promises: one step per action of Next.
LEMMA NextServes ==
    ASSUME Enough, IInv, AccountsOK(kernel, current_process), TreeOK(kernel),
           HungryOK(kernel), [Next]_vars
    PROVE  Serves
<1>0. /\ KernelOK(kernel, current_process) /\ AslOK(kernel) /\ NeedsOK(kernel)
      /\ kernel.jobs \subseteq Pcb
      /\ cpu = "running" => current_process \in kernel.jobs
  BY DEF IInv, KernelOK, Kernel, CpuOK, AccountsOK
<1>01. /\ 1 \in 1 .. MaxWeight /\ 1 \in Nat /\ Clock \in AllSem
       /\ IODevice \subseteq AllSem /\ Device \subseteq AllSem /\ Sem \subseteq AllSem
       /\ Weights \subseteq 1 .. MaxWeight /\ Weights \subseteq Nat
       /\ 1 \in Weights \cup {1}
  BY NucleusAssumption DEF AllSem, DeviceSem, IODevice
<1>02. cpu = "running" => current_process \in Abstract!Runnable
  <2>1. NULL \notin Pcb
    BY NucleusAssumption
  <2> QED
    BY <1>0, <2>1, RunnerIsRunnable
<1>03. ASSUME Abstract!Next, HungryOK(kernel')
       PROVE  Serves
  BY <1>03 DEF Serves
<1>04. ASSUME scheduler(kernel, current_process)
       PROVE  Serves
  <2>1. Abstract!Then(Promise(kernel)) /\ HungryOK(kernel')
    BY <1>0, <1>04, ThenFollows
  <2> QED
    BY <1>03, <2>1 DEF Abstract!Next, Abstract!Now, Promise, Waiting
<1>1. CASE NoEffect
  BY <1>04, <1>1 DEF NoEffect
<1>2. CASE CreateProcess
  <2>1. ASSUME NEW child \in Pcb \ kernel.jobs,
               scheduler(spawn(kernel, current_process, child), current_process)
        PROVE  Serves
    <3>1. cpu = "running" /\ current_process \in Pcb
      BY <1>0, <1>2 DEF CreateProcess
    <3>2. Abstract!Born(current_process, child) /\ HungryOK(kernel')
      BY <1>0, <2>1, <3>1, SpawnServes
    <3> QED
      BY <1>02, <1>03, <3>1, <3>2 DEF Abstract!Next
  <2> QED
    BY <1>2, <1>04, <2>1 DEF CreateProcess
<1>3. ASSUME NEW target \in Pcb, TerminateProcess(target)
      PROVE  Serves
  <2> DEFINE r == survivor(target)
  <2>1. /\ target \in kernel.jobs
        /\ target # current_process => current_process \notin Family(kernel, target)
        /\ scheduler(terminateFamily(kernel, target), r)
    BY <1>3 DEF TerminateProcess
  <2>2. r \in {NULL, current_process} /\ r \notin Family(kernel, target)
    BY <1>0, <2>1, NucleusAssumption DEF survivor, Family
  <2> HIDE DEF r
  <2>3. Abstract!Die(target) /\ HungryOK(kernel')
    BY <1>0, <2>1, <2>2, KillServes
  <2> QED
    BY <1>03, <2>1, <2>3 DEF Abstract!Next
<1>4. ASSUME NEW s \in AllSem, NEW w \in 1 .. MaxWeight, w \in Weights \cup {1},
             cpu = "running", P(s, w)
      PROVE  Serves
  <2>1. /\ kernel'.jobs = kernel.jobs /\ Abstract!Take(current_process, s, w)
        /\ HungryOK(kernel')
    BY <1>0, <1>4, PServes
  <2>2. current_process \in Abstract!Runnable
    BY <1>02, <1>4
  <2> QED
    BY <1>03, <1>4, <2>1, <2>2 DEF Abstract!Next
<1>5. ASSUME NEW s \in AllSem, NEW w \in Nat, w \in Weights \cup {1},
             scheduler(V(kernel, s, w), current_process)
      PROVE  Serves
  <2>1. kernel'.jobs = kernel.jobs /\ Abstract!Give(s, w) /\ HungryOK(kernel')
    BY <1>0, <1>5, VGives
  <2> QED
    BY <1>03, <1>5, <2>1 DEF Abstract!Next
<1>6. ASSUME NEW s \in Sem, NEW w \in Weights, SemP(s, w) \/ SemV(s, w)
      PROVE  Serves
  BY <1>01, <1>4, <1>5, <1>6 DEF SemP, SemV
<1>7. CASE WaitClock
  BY <1>01, <1>4, <1>7 DEF WaitClock
<1>8. ASSUME NEW d \in IODevice, IODevOp(d)
      PROVE  Serves
  BY <1>01, <1>4, <1>8 DEF IODevOp
<1>9. ASSUME NEW tick \in BOOLEAN, TimerInterrupt(tick)
      PROVE  Serves
  <2>1. CASE scheduler(pseudoTick(kernel), current_process)
    <3>1. Abstract!Then(Abstract!Now) /\ HungryOK(kernel')
      BY <1>0, <2>1, TimerTicks
    <3> QED
      BY <1>03, <3>1 DEF Abstract!Next
  <2> QED
    BY <1>04, <1>9, <2>1 DEF TimerInterrupt
<1>10. CASE fatal
  BY <1>10, StandsStill DEF fatal
<1>11. ASSUME NEW d \in Device, DeviceInterrupt(d)
       PROVE  Serves
  BY <1>01, <1>5, <1>10, <1>11 DEF DeviceInterrupt
<1>12. ASSUME NEW t \in Terminal, NEW done \in Halves(t), TerminalInterrupt(t, done)
       PROVE  Serves
  BY <1>0, <1>10, <1>12, TerminalServes DEF TerminalInterrupt
<1>13. CASE UNCHANGED vars
  BY <1>13, StandsStill DEF vars
<1> QED
  BY <1>1, <1>2, <1>3, <1>6, <1>7, <1>8, <1>9, <1>11, <1>12, <1>13 DEF Next

\* The nucleus starts as Services does: one process, which waits for nothing.
LEMMA InitServes == Init => Abstract!Init /\ HungryOK(kernel)
<1> SUFFICES ASSUME Init
             PROVE  Abstract!Init /\ HungryOK(kernel)
  OBVIOUS
<1>1. PICK init \in Pcb :
        /\ kernel.jobs = {init} /\ kernel.aslh = {}
        /\ kernel.p_parent = [p \in Pcb |-> NULL]
        /\ kernel.p_resources_needed = [p \in Pcb |-> 0]
        /\ kernel.sem = [s \in AllSem |-> IF s \in Sem THEN InitValue ELSE 0]
  BY DEF Init
<1>2. \A s : searchAsl(kernel, s) = {}
  BY <1>1 DEF searchAsl
<1>3. Waiting(kernel) = [s \in AllSem |-> <<>>]
  BY <1>2 DEF Waiting
<1>4. kernel.sem \in [AllSem -> Nat]
  BY <1>1, NucleusAssumption
<1>5. HungryOK(kernel)
  BY <1>1 DEF HungryOK
<1> QED
  BY <1>1, <1>3, <1>4, <1>5 DEF Abstract!Init, Waiting

\* The nucleus implements Services, with any processes, semaphores and weights, while there
\* is a descriptor for every semaphore.
THEOREM ImplementsServicesWithEnough ==
    ASSUME Enough
    PROVE  Spec => ImplementsServices
<1>1. Init => Abstract!Init /\ HungryOK(kernel)
  BY InitServes
<1>2. IInv /\ TreeOK(kernel) /\ [Next]_vars => TreeOK(kernel)'
  BY NextTree
<1>3. /\ IInv /\ AccountsOK(kernel, current_process) /\ TreeOK(kernel) /\ HungryOK(kernel)
      /\ [Next]_vars
      => HungryOK(kernel)' /\ [Abstract!Next]_(Abstract!vars)
  <2>1. HungryOK(kernel)' <=> HungryOK(kernel')
    BY DEF HungryOK
  <2> QED
    BY <2>1, NextServes DEF Serves
<1>4. Init => TreeOK(kernel)
  BY InitTree
<1> QED
  BY <1>1, <1>2, <1>3, <1>4, AccountsInvariance, PTL DEF Spec, ImplementsServices, Abstract!Spec

================================================================================
