---------------------------- MODULE ExceptionsProofs ----------------------------
EXTENDS Exceptions, ProcQueueLemmas

(* The proofs about time slices (scheduler.c) and about exceptions that are passed up      *)
(* (exceptions.c, syscalls.c, passups.c), for any number of processes and any times.       *)

--------------------------------------------------------------------------------
(* The sum of the times charged.  MapThenSumSet is a recursive function over the subsets of  *)
(* Proc; instead of unfolding it, the units of time are counted.                             *)

\* The times f of the processes of s, unit by unit.
Units(f, s) == {u \in s \X (1 .. 2 * MaxTime) : u[2] <= f[u[1]]}
Total(f, s) == Cardinality(Units(f, s))

Times == [Proc -> 0 .. 2 * MaxTime]

\* No units for nobody, those of one process, and those of all but one.
LEMMA TotalProperties ==
    ASSUME NEW f \in Times, NEW s \in SUBSET Proc
    PROVE  /\ Total(f, s) \in Nat
           /\ Total(f, {}) = 0
           /\ \A p \in s : Total(f, s) = f[p] + Total(f, s \ {p})
<1>1. IsFiniteSet(Proc) /\ 2 * MaxTime \in Nat
  BY CpuTimeAssumption
<1>2. ASSUME NEW t \in SUBSET Proc
      PROVE  IsFiniteSet(Units(f, t)) /\ Total(f, t) \in Nat
  <2>1. IsFiniteSet(t) /\ IsFiniteSet(1 .. 2 * MaxTime)
    BY <1>1, FS_Subset, FS_Interval
  <2>2. IsFiniteSet(t \X (1 .. 2 * MaxTime))
    BY <2>1, FS_Product
  <2>3. Units(f, t) \in SUBSET (t \X (1 .. 2 * MaxTime))
    BY DEF Units
  <2> QED
    BY <2>2, <2>3, FS_Subset, FS_CardinalityType DEF Total
<1>3. Total(f, {}) = 0
  <2>1. Units(f, {}) = {}
    BY DEF Units
  <2> QED
    BY <2>1, FS_EmptySet DEF Total
<1>4. ASSUME NEW p \in s
      PROVE  Total(f, s) = f[p] + Total(f, s \ {p})
  <2>1. f[p] \in Nat /\ f[p] <= 2 * MaxTime
    BY <1>1 DEF Times
  <2>2. Units(f, s) = Units(f, {p}) \cup Units(f, s \ {p})
    BY DEF Units
  <2>3. Units(f, {p}) \cap Units(f, s \ {p}) = {}
    BY DEF Units
  <2>4. Total(f, {p}) = f[p]
    <3>1. PICK g : g = [m \in 1 .. f[p] |-> <<p, m>>]
      OBVIOUS
    <3>2. \A m \in 1 .. f[p] : g[m] = <<p, m>> /\ g[m] \in Units(f, {p})
      BY <1>1, <2>1, <3>1 DEF Units
    <3>3. \A u \in Units(f, {p}) : u[2] \in 1 .. f[p] /\ u = <<p, u[2]>>
      BY <1>1, <2>1 DEF Units
    <3>4. g \in Bijection(1 .. f[p], Units(f, {p}))
      <4>1. g \in [1 .. f[p] -> Units(f, {p})]
        BY <3>1, <3>2
      <4>2. \A a, b \in 1 .. f[p] : g[a] = g[b] => a = b
        BY <3>2
      <4>3. \A u \in Units(f, {p}) : \E m \in 1 .. f[p] : g[m] = u
        BY <3>2, <3>3
      <4> QED
        BY <4>1, <4>2, <4>3 DEF Bijection, Injection, IsInjective, Surjection
    <3>5. ExistsBijection(1 .. f[p], Units(f, {p}))
      BY <3>4 DEF ExistsBijection
    <3>6. \A n \in Nat : IsFiniteSet(1 .. n) /\ Cardinality(1 .. n) = n
      BY FS_Interval
    <3>7. IsFiniteSet(1 .. f[p]) /\ Cardinality(1 .. f[p]) = f[p]
      BY <2>1, <3>6
    <3> QED
      BY <3>5, <3>7, FS_Bijection DEF Total
  <2>5. /\ IsFiniteSet(Units(f, {p})) /\ IsFiniteSet(Units(f, s \ {p}))
        /\ Cardinality(Units(f, {p})) = f[p] /\ Cardinality(Units(f, s \ {p})) \in Nat
    BY <1>2, <2>4 DEF Total
  <2>6. Cardinality(Units(f, {p}) \cup Units(f, s \ {p})) =
            Cardinality(Units(f, {p})) + Cardinality(Units(f, s \ {p}))
              - Cardinality(Units(f, {p}) \cap Units(f, s \ {p}))
    BY <2>5, FS_Union
  <2>7. Cardinality(Units(f, {p}) \cap Units(f, s \ {p})) = 0
    BY <2>3, FS_EmptySet
  <2>8. Cardinality(Units(f, {p}) \cup Units(f, s \ {p})) =
            f[p] + Cardinality(Units(f, s \ {p}))
    BY <2>1, <2>5, <2>6, <2>7
  <2> QED
    BY <2>2, <2>8 DEF Total
<1> QED
  BY <1>2, <1>3, <1>4

\* When the time of one process changes, so does the total.
LEMMA TotalChange ==
    ASSUME NEW f \in Times, NEW g \in Times, NEW p \in Proc,
           \A q \in Proc \ {p} : g[q] = f[q]
    PROVE  Total(g, Proc) = Total(f, Proc) + g[p] - f[p]
<1>1. Units(g, Proc \ {p}) = Units(f, Proc \ {p})
  BY DEF Units
<1>2. Total(g, Proc \ {p}) = Total(f, Proc \ {p})
  BY <1>1 DEF Total
<1>3. Total(g, Proc) = g[p] + Total(g, Proc \ {p}) /\ Total(f, Proc) = f[p] + Total(f, Proc \ {p})
  BY TotalProperties
<1>4. Total(f, Proc \ {p}) \in Nat
  BY TotalProperties
<1>5. f[p] \in Int /\ g[p] \in Int
  BY CpuTimeAssumption DEF Times
<1> QED
  BY <1>2, <1>3, <1>4, <1>5

\* The equation that defines the recursive function of MapThenSumSet.
Sums(f, iter) ==
    iter = [s \in SUBSET Proc |->
              IF s = {} THEN 0
              ELSE f[CHOOSE x \in s : TRUE] + iter[s \ {CHOOSE x \in s : TRUE}]]

\* It has a solution, and Total is the only one.
LEMMA SumIsTotal ==
    ASSUME NEW f \in Times
    PROVE  /\ \E iter : Sums(f, iter)
           /\ \A iter : Sums(f, iter) => iter[Proc] = Total(f, Proc)
<1>1. IsFiniteSet(Proc)
  BY CpuTimeAssumption
<1>2. ASSUME NEW s \in SUBSET Proc, s # {}
      PROVE  Total(f, s) = f[CHOOSE x \in s : TRUE] + Total(f, s \ {CHOOSE x \in s : TRUE})
  <2>1. (CHOOSE x \in s : TRUE) \in s
    BY <1>2
  <2> QED
    BY <2>1, TotalProperties
<1>3. \E iter : Sums(f, iter)
  <2>1. PICK w : w = [s \in SUBSET Proc |-> Total(f, s)]
    OBVIOUS
  <2>2. \A s \in SUBSET Proc : w[s] = Total(f, s)
    BY <2>1
  <2>3. Total(f, {}) = 0
    BY TotalProperties
  <2>4. ASSUME NEW s \in SUBSET Proc
        PROVE  w[s] = IF s = {} THEN 0
                      ELSE f[CHOOSE x \in s : TRUE] + w[s \ {CHOOSE x \in s : TRUE}]
    <3>1. s \ {CHOOSE x \in s : TRUE} \in SUBSET Proc
      OBVIOUS
    <3> QED
      BY <1>2, <2>2, <2>3, <3>1
  <2>5. Sums(f, w)
    BY <2>1, <2>4 DEF Sums
  <2> QED
    BY <2>5
<1>4. ASSUME NEW iter, Sums(f, iter)
      PROVE  iter[Proc] = Total(f, Proc)
  <2>1. \A s \in SUBSET Proc :
          iter[s] = IF s = {} THEN 0
                    ELSE f[CHOOSE x \in s : TRUE] + iter[s \ {CHOOSE x \in s : TRUE}]
    BY <1>4 DEF Sums
  <2>2. SUFFICES ASSUME NEW z \in SUBSET Proc, iter[z] # Total(f, z)
                 PROVE  FALSE
    OBVIOUS
  <2>3. PICK c : c = Cardinality(Proc)
    OBVIOUS
  <2>4. \A s \in SUBSET Proc : /\ IsFiniteSet(s) /\ Cardinality(s) \in 0 .. c
                               /\ s # {} => Cardinality(s) \in 1 .. c
    BY <1>1, <2>3, FS_Subset, FS_CardinalityType, FS_EmptySet
  <2>5. c \in Nat
    BY <1>1, <2>3, FS_CardinalityType
  <2>6. PICK K : K = {n \in 1 .. c : \E s \in SUBSET Proc : Cardinality(s) = n /\ iter[s] # Total(f, s)}
    OBVIOUS
  <2>7. \A s \in SUBSET Proc : iter[s] # Total(f, s) => s # {} /\ Cardinality(s) \in K
    <3>1. iter[{}] = 0 /\ Total(f, {}) = 0
      BY <2>1, TotalProperties
    <3> QED
      BY <2>4, <2>6, <3>1
  <2>8. PICK n \in K : \A h \in K : n <= h
    <3>1. K \in SUBSET (1 .. c) /\ K # {}
      BY <2>2, <2>6, <2>7
    <3> QED
      BY <2>5, <3>1, LeastIndex
  <2>9. PICK s \in SUBSET Proc : Cardinality(s) = n /\ iter[s] # Total(f, s)
    BY <2>6
  <2>10. PICK x : x = CHOOSE y \in s : TRUE
    OBVIOUS
  <2>11. x \in s
    BY <2>7, <2>9, <2>10
  <2>12. iter[s \ {x}] # Total(f, s \ {x})
    <3>1. s # {} /\ iter[s] = f[x] + iter[s \ {x}]
      BY <2>1, <2>7, <2>9, <2>10
    <3>2. Total(f, s) = f[x] + Total(f, s \ {x})
      BY <1>2, <2>10, <3>1
    <3> QED
      BY <2>9, <3>1, <3>2
  <2>13. Cardinality(s \ {x}) = n - 1 /\ n \in Nat
    BY <2>4, <2>6, <2>9, <2>11, FS_RemoveElement
  <2>14. Cardinality(s \ {x}) \in K
    BY <2>7, <2>12
  <2> QED
    BY <2>8, <2>13, <2>14
<1> QED
  BY <1>3, <1>4

\* What was charged to each process.
Charges == [p \in Proc |-> p_usr_time[p] + p_sys_time[p]]

\* ChargedOnce is about their total.
LEMMA ChargedIsTotal ==
    ASSUME Charges \in Times
    PROVE  ChargedOnce <=> Total(Charges, Proc) <= now
<1>1. PICK iter : iter = CHOOSE it : it = [s \in SUBSET Proc |->
              IF s = {} THEN 0
              ELSE charged(CHOOSE x \in s : TRUE) + it[s \ {CHOOSE x \in s : TRUE}]]
  OBVIOUS
<1>2. ChargedOnce <=> iter[Proc] <= now
  BY <1>1 DEF MapThenSumSet, MapThenFoldSet, ChargedOnce
<1>3. ASSUME NEW it
      PROVE  Sums(Charges, it) <=>
                it = [s \in SUBSET Proc |->
                        IF s = {} THEN 0
                        ELSE charged(CHOOSE x \in s : TRUE) + it[s \ {CHOOSE x \in s : TRUE}]]
  <2>1. \A p \in Proc : Charges[p] = charged(p)
    BY DEF Charges, charged
  <2>2. \A s \in SUBSET Proc : s # {} => (CHOOSE x \in s : TRUE) \in Proc
    OBVIOUS
  <2>3. [s \in SUBSET Proc |->
           IF s = {} THEN 0
           ELSE Charges[CHOOSE x \in s : TRUE] + it[s \ {CHOOSE x \in s : TRUE}]]
        = [s \in SUBSET Proc |->
             IF s = {} THEN 0
             ELSE charged(CHOOSE x \in s : TRUE) + it[s \ {CHOOSE x \in s : TRUE}]]
    BY <2>1, <2>2
  <2> QED
    BY <2>3 DEF Sums
<1>4. \E it : Sums(Charges, it)
  BY SumIsTotal
<1>5. Sums(Charges, iter)
  BY <1>1, <1>3, <1>4
<1>6. iter[Proc] = Total(Charges, Proc)
  BY <1>5, SumIsTotal
<1> QED
  BY <1>2, <1>6

--------------------------------------------------------------------------------
(* The scheduler *)

\* The loop of scheduler() passes those whose slice is almost finished, and stops at the
\* first other one.
LEMMA SkippedProperties ==
    ASSUME NEW line \in Seq(Proc), NEW left
    PROVE  /\ skipped(line, left) \in 0 .. Len(line)
           /\ \A i \in 1 .. skipped(line, left) : left[line[i]] \in 1 .. Almost
           /\ skipped(line, left) < Len(line) =>
                left[line[skipped(line, left) + 1]] \notin 1 .. Almost
<1>1. PICK len : len = Len(line)
  OBVIOUS
<1>2. len \in Nat
  BY <1>1, LenProperties
<1>3. PICK K : K = {i \in 1 .. len : left[line[i]] \notin 1 .. Almost}
  OBVIOUS
<1>4. \E n \in 0 .. len : /\ \A i \in 1 .. n : left[line[i]] \in 1 .. Almost
                          /\ n < len => left[line[n + 1]] \notin 1 .. Almost
  <2>1. CASE K = {}
    BY <1>2, <1>3, <2>1
  <2>2. CASE K # {}
    <3>1. PICK i \in K : \A h \in K : i <= h
      BY <1>2, <1>3, <2>2, LeastIndex
    <3>2. PICK n : n = i - 1
      OBVIOUS
    <3>3. i \in 1 .. len /\ left[line[i]] \notin 1 .. Almost
      BY <1>3
    <3>4. n \in 0 .. len /\ n + 1 = i
      BY <1>2, <3>2, <3>3
    <3>5. \A h \in 1 .. n : h \in 1 .. len /\ ~ (i <= h)
      BY <1>2, <3>2, <3>3
    <3>6. \A h \in 1 .. n : left[line[h]] \in 1 .. Almost
      BY <1>3, <3>1, <3>5
    <3> QED
      BY <3>3, <3>4, <3>6
  <2> QED
    BY <2>1, <2>2
<1> QED
  BY <1>1, <1>4 DEF skipped

\* The line keeps its processes, and who is then at its head was passed, or has more than
\* almost nothing left, or nothing.
LEMMA TurnedProperties ==
    ASSUME NEW line \in Seq(Proc), line # <<>>, NEW left
    PROVE  /\ Head(turned(line, left)) \in Proc /\ Tail(turned(line, left)) \in Seq(Proc)
           /\ Head(turned(line, left)) = turned(line, left)[1]
           /\ \/ \E i \in 1 .. skipped(line, left) : line[i] = Head(turned(line, left))
              \/ left[Head(turned(line, left))] \notin 1 .. Almost
<1>1. PICK n : n = skipped(line, left)
  OBVIOUS
<1>2. PICK t : t = turned(line, left)
  OBVIOUS
<1>3. /\ n \in 0 .. Len(line) /\ Len(line) \in Nat \ {0}
      /\ n < Len(line) => left[line[n + 1]] \notin 1 .. Almost
  BY <1>1, SkippedProperties, LenProperties, EmptySeq
<1>4. PICK a : a = SubSeq(line, n + 1, Len(line))
  OBVIOUS
<1>5. PICK b : b = SubSeq(line, 1, n)
  OBVIOUS
<1>6. t = a \o b
  BY <1>1, <1>2, <1>4, <1>5 DEF turned
<1>7. /\ b \in Seq(Proc) /\ Len(b) = n /\ a \in Seq(Proc) /\ Len(a) = Len(line) - n
      /\ \A i \in 1 .. n : b[i] = line[i]
      /\ \A i \in 1 .. Len(line) - n : a[i] = line[n + i]
  BY <1>3, <1>4, <1>5, SplitMembers
<1>8. /\ t \in Seq(Proc) /\ Len(t) = Len(line)
      /\ \A i \in 1 .. Len(a) : t[i] = a[i]
      /\ \A i \in Len(a) + 1 .. Len(a) + Len(b) : t[i] = b[i - Len(a)]
  BY <1>3, <1>6, <1>7, ConcatProperties
<1>9. /\ t # <<>> /\ Head(t) = t[1] /\ Head(t) \in Proc /\ Tail(t) \in Seq(Proc)
  BY <1>3, <1>8, HeadTailProperties, EmptySeq
<1>10. CASE n < Len(line)
  <2>1. 1 \in 1 .. Len(a) /\ 1 \in 1 .. Len(line) - n
    BY <1>3, <1>7, <1>10
  <2>2. t[1] = line[n + 1]
    BY <1>7, <1>8, <2>1
  <2> QED
    BY <1>2, <1>3, <1>9, <1>10, <2>2
<1>11. CASE n = Len(line)
  <2>1. Len(a) = 0 /\ Len(b) = n /\ 1 \in 1 .. n
    BY <1>3, <1>7, <1>11
  <2>2. 1 \in Len(a) + 1 .. Len(a) + Len(b) /\ 1 - Len(a) = 1
    BY <1>3, <2>1
  <2>3. t[1] = line[1]
    BY <1>7, <1>8, <2>1, <2>2
  <2> QED
    BY <1>1, <1>2, <1>9, <2>1, <2>3
<1> QED
  BY <1>3, <1>10, <1>11

\* What is known of times: nobody was charged for a time that has not come, and who runs has a
\* slice before it.
TimeInv ==
    /\ TimeTypeOK
    /\ TimerPositive
    /\ \A p \in Proc : p_usr_time[p] <= now /\ p_sys_time[p] <= now
    /\ current_process # NULL =>
         \A p \in Proc : p_usr_time[p] <= last_ldst /\ p_sys_time[p] <= last_ldst
    /\ Total(Charges, Proc) <= now
    /\ current_process # NULL => Total(Charges, Proc) <= last_ldst

\* Times in their type give charges that can be counted.
LEMMA ChargesType ==
    ASSUME TimeTypeOK
    PROVE  Charges \in Times /\ Total(Charges, Proc) \in Nat
<1>1. MaxTime \in Nat
  BY CpuTimeAssumption
<1>2. \A p \in Proc : p_usr_time[p] \in 0 .. MaxTime /\ p_sys_time[p] \in 0 .. MaxTime
  BY DEF TimeTypeOK
<1>3. \A p \in Proc : p_usr_time[p] + p_sys_time[p] \in 0 .. 2 * MaxTime
  BY <1>1, <1>2
<1>4. Charges \in Times
  BY <1>3 DEF Charges, Times
<1> QED
  BY <1>4, TotalProperties

\* A handler charges usr and sys to p, and nothing to the others.
LEMMA ChargeOne ==
    ASSUME TimeTypeOK, TimeTypeOK', NEW p \in Proc, NEW usr \in Nat, NEW sys \in Nat,
           p_usr_time' = [p_usr_time EXCEPT ![p] = @ + usr],
           p_sys_time' = [p_sys_time EXCEPT ![p] = @ + sys]
    PROVE  /\ Total(Charges, Proc) \in Nat
           /\ Total(Charges, Proc)' = Total(Charges, Proc) + usr + sys
<1>1. Charges \in Times /\ Total(Charges, Proc) \in Nat
  BY ChargesType
<1>2. (Charges \in Times)'
  <2>1. (TimeTypeOK => Charges \in Times)'
    BY ChargesType, PTL
  <2> QED
    BY <2>1
<1>3. PICK g : g = Charges'
  OBVIOUS
<1>4. \A q \in Proc : /\ p_usr_time'[q] = p_usr_time[q] + (IF q = p THEN usr ELSE 0)
                      /\ p_sys_time'[q] = p_sys_time[q] + (IF q = p THEN sys ELSE 0)
                      /\ p_usr_time[q] \in Nat /\ p_sys_time[q] \in Nat
  BY CpuTimeAssumption DEF TimeTypeOK
<1>5. \A q \in Proc : /\ g[q] = p_usr_time'[q] + p_sys_time'[q]
                      /\ Charges[q] = p_usr_time[q] + p_sys_time[q]
  BY <1>3 DEF Charges
<1>6. (\A q \in Proc \ {p} : g[q] = Charges[q]) /\ g[p] = Charges[p] + usr + sys
      /\ Charges[p] \in Nat
  BY <1>4, <1>5
<1>7. Total(g, Proc) = Total(Charges, Proc) + g[p] - Charges[p]
  BY <1>1, <1>2, <1>3, <1>6, TotalChange
<1>8. Total(g, Proc) = Total(Charges, Proc) + usr + sys
  BY <1>1, <1>6, <1>7
<1> QED
  BY <1>1, <1>3, <1>8

\* The end of every handler.
LEMMA SchedulerResult ==
    ASSUME NEW line \in Seq(Proc), NEW left \in [Proc -> Int], NEW time,
           \A p \in Proc : - MaxTime <= left[p] /\ left[p] <= SCHED_TIME_SLICE,
           scheduler(line, left, time)
    PROVE  /\ current_process' \in Proc \cup {NULL} /\ ready_queue' \in Seq(Proc)
           /\ p_slice_time' \in [Proc -> - MaxTime .. SCHED_TIME_SLICE]
           /\ TimerPositive'
           /\ current_process' = NULL => last_ldst' = last_ldst
           /\ current_process' # NULL => last_ldst' = time
<1>1. /\ SCHED_TIME_SLICE \in Nat /\ Almost \in Nat /\ Almost < SCHED_TIME_SLICE
      /\ MaxTime \in Nat /\ NULL \notin Proc
  BY CpuTimeAssumption
<1>2. \A p \in Proc : left[p] \in - MaxTime .. SCHED_TIME_SLICE
  BY <1>1
<1>3. CASE line = <<>>
  <2>1. /\ current_process' = NULL /\ ready_queue' = <<>>
        /\ p_slice_time' = left /\ last_ldst' = last_ldst
    BY <1>3 DEF scheduler
  <2>2. ready_queue' \in Seq(Proc)
    BY <2>1, EmptySeq
  <2> QED
    BY <1>2, <2>1, <2>2 DEF TimerPositive
<1>4. CASE line # <<>>
  <2>1. PICK p : p = Head(turned(line, left))
    OBVIOUS
  <2>2. /\ p \in Proc /\ Tail(turned(line, left)) \in Seq(Proc) /\ p = turned(line, left)[1]
        /\ \/ \E i \in 1 .. skipped(line, left) : line[i] = p
           \/ left[p] \notin 1 .. Almost
    BY <1>4, <2>1, TurnedProperties
  <2>3. /\ current_process' = p /\ ready_queue' = Tail(turned(line, left))
        /\ p_slice_time' = [q \in Proc |->
               IF renewed(q, line, left) THEN SCHED_TIME_SLICE ELSE left[q]]
        /\ last_ldst' = time
    BY <1>4, <2>1 DEF scheduler, ldst
  <2>4. \A q \in Proc : /\ renewed(q, line, left) => p_slice_time'[q] = SCHED_TIME_SLICE
                        /\ ~ renewed(q, line, left) => p_slice_time'[q] = left[q]
    BY <2>3
  <2>5. p_slice_time' \in [Proc -> - MaxTime .. SCHED_TIME_SLICE]
    <3>1. \A q \in Proc : p_slice_time'[q] \in - MaxTime .. SCHED_TIME_SLICE
      BY <1>1, <1>2, <2>4
    <3> QED
      BY <2>3, <3>1
  <2>6. p_slice_time'[p] \in Almost + 1 .. SCHED_TIME_SLICE
    <3>1. CASE renewed(p, line, left)
      BY <1>1, <2>2, <2>4, <3>1
    <3>2. CASE ~ renewed(p, line, left)
      <4>1. ~ (left[p] <= 0) /\ left[p] \notin 1 .. Almost
        BY <2>2, <3>2 DEF renewed
      <4>2. left[p] \in Int /\ left[p] <= SCHED_TIME_SLICE
        BY <2>2
      <4>3. left[p] \in Almost + 1 .. SCHED_TIME_SLICE
        BY <1>1, <4>1, <4>2
      <4> QED
        BY <2>2, <2>4, <3>2, <4>3
    <3> QED
      BY <3>1, <3>2
  <2> QED
    BY <1>1, <2>2, <2>3, <2>5, <2>6 DEF TimerPositive
<1> QED
  BY <1>3, <1>4

\* An exception of the running process.
LEMMA ExceptionTime ==
    ASSUME TimeInv, current_process \in Proc, NEW d \in Runs, NEW k \in Nat,
           NEW freed \in BOOLEAN, NEW line \in Seq(Proc),
           Exception(last_ldst + d, k, freed, line)
    PROVE  TimeInv'
<1> DEFINE p == current_process
<1>1. PICK sys : sys = IF freed THEN 0 ELSE k
  OBVIOUS
<1>2. PICK left : left = [p_slice_time EXCEPT ![p] = @ - d - sys]
  OBVIOUS
<1>3. /\ SCHED_TIME_SLICE \in Nat /\ Almost \in Nat /\ Late \in Nat
      /\ MaxTime \in Nat /\ NULL \notin Proc
  BY CpuTimeAssumption
<1>4. /\ now \in 0 .. MaxTime /\ last_ldst \in 0 .. now
      /\ p_usr_time \in [Proc -> 0 .. MaxTime] /\ p_sys_time \in [Proc -> 0 .. MaxTime]
      /\ p_slice_time \in [Proc -> - MaxTime .. SCHED_TIME_SLICE]
      /\ p_slice_time[p] \in Almost + 1 .. SCHED_TIME_SLICE
      /\ \A q \in Proc : p_usr_time[q] <= last_ldst /\ p_sys_time[q] <= last_ldst
  BY <1>3 DEF TimeInv, TimeTypeOK, TimerPositive
<1>5. d \in Nat
  BY <1>3, <1>4 DEF Runs
<1>6. (last_ldst + d) - last_ldst = d /\ sys \in 0 .. k
  BY <1>1, <1>4, <1>5
<1>7. /\ last_ldst + d + k <= MaxTime /\ now' = last_ldst + d + k
      /\ p_usr_time' = [p_usr_time EXCEPT ![p] = @ + d]
      /\ p_sys_time' = [p_sys_time EXCEPT ![p] = @ + sys]
      /\ scheduler(line, left, now')
  BY <1>1, <1>2, <1>6 DEF Exception
<1> HIDE DEF p
<1>8. p \in Proc
  BY DEF p
<1>9. /\ left \in [Proc -> Int]
      /\ \A q \in Proc : - MaxTime <= left[q] /\ left[q] <= SCHED_TIME_SLICE
  <2>1. left[p] = p_slice_time[p] - d - sys /\ \A q \in Proc \ {p} : left[q] = p_slice_time[q]
    BY <1>2, <1>4, <1>8
  <2>2. /\ left[p] \in Int /\ - MaxTime <= left[p] /\ left[p] <= SCHED_TIME_SLICE
    BY <1>3, <1>4, <1>5, <1>6, <1>7, <2>1
  <2>3. \A q \in Proc \ {p} :
          left[q] \in Int /\ - MaxTime <= left[q] /\ left[q] <= SCHED_TIME_SLICE
    BY <1>3, <1>4, <2>1
  <2>4. DOMAIN left = Proc /\ left = [q \in Proc |-> left[q]]
    BY <1>2, <1>4
  <2> QED
    BY <2>2, <2>3, <2>4
<1>10. /\ current_process' \in Proc \cup {NULL} /\ ready_queue' \in Seq(Proc)
       /\ p_slice_time' \in [Proc -> - MaxTime .. SCHED_TIME_SLICE]
       /\ TimerPositive'
       /\ current_process' = NULL => last_ldst' = last_ldst
       /\ current_process' # NULL => last_ldst' = now'
  BY <1>7, <1>9, SchedulerResult
<1>11. now' \in 0 .. MaxTime /\ last_ldst' \in 0 .. now'
  BY <1>3, <1>4, <1>5, <1>7, <1>10
<1>12. \A q \in Proc : /\ p_usr_time'[q] = p_usr_time[q] \/ p_usr_time'[q] = p_usr_time[q] + d
                       /\ p_sys_time'[q] = p_sys_time[q] \/ p_sys_time'[q] = p_sys_time[q] + sys
  BY <1>4, <1>7
<1>13. \A q \in Proc : /\ p_usr_time'[q] \in 0 .. MaxTime /\ p_usr_time'[q] <= now'
                       /\ p_sys_time'[q] \in 0 .. MaxTime /\ p_sys_time'[q] <= now'
  <2> SUFFICES ASSUME NEW q \in Proc
               PROVE  /\ p_usr_time'[q] \in 0 .. MaxTime /\ p_usr_time'[q] <= now'
                      /\ p_sys_time'[q] \in 0 .. MaxTime /\ p_sys_time'[q] <= now'
    OBVIOUS
  <2>1. last_ldst + d + k <= MaxTime /\ now' = last_ldst + d + k
    BY <1>7
  <2>2. /\ p_usr_time[q] \in Nat /\ p_usr_time[q] <= last_ldst
        /\ p_sys_time[q] \in Nat /\ p_sys_time[q] <= last_ldst /\ last_ldst \in Nat
    BY <1>4
  <2>3. p_usr_time'[q] \in Nat /\ p_usr_time'[q] <= last_ldst + d
    BY <1>5, <1>12, <2>2
  <2>4. p_sys_time'[q] \in Nat /\ p_sys_time'[q] <= last_ldst + k
    BY <1>6, <1>12, <2>2
  <2> QED
    BY <1>3, <1>5, <2>1, <2>2, <2>3, <2>4
<1>14. /\ p_usr_time' \in [Proc -> 0 .. MaxTime] /\ p_sys_time' \in [Proc -> 0 .. MaxTime]
  <2>1. DOMAIN p_usr_time' = Proc /\ DOMAIN p_sys_time' = Proc
    BY <1>4, <1>7
  <2>2. p_usr_time' = [q \in Proc |-> p_usr_time'[q]] /\ p_sys_time' = [q \in Proc |-> p_sys_time'[q]]
    BY <1>4, <1>7
  <2> QED
    BY <1>13, <2>2
<1>15. TimeTypeOK' /\ TimeTypeOK
  BY <1>10, <1>11, <1>14 DEF TimeInv, TimeTypeOK
<1>16. /\ Total(Charges, Proc) \in Nat
       /\ Total(Charges, Proc)' = Total(Charges, Proc) + d + sys
  <2>1. /\ d \in Nat /\ sys \in Nat /\ p \in Proc
        /\ p_usr_time' = [p_usr_time EXCEPT ![p] = @ + d]
        /\ p_sys_time' = [p_sys_time EXCEPT ![p] = @ + sys]
    BY <1>5, <1>6, <1>7, <1>8
  <2> QED
    BY <1>15, <2>1, ChargeOne
<1>17. Total(Charges, Proc) <= last_ldst
  BY <1>3 DEF TimeInv
<1>18. Total(Charges, Proc)' <= now'
  BY <1>4, <1>5, <1>6, <1>7, <1>16, <1>17
<1> QED
  BY <1>10, <1>11, <1>13, <1>15, <1>18 DEF TimeInv

\* An interrupt, of a process or while the CPU waits.
LEMMA InterruptedTime ==
    ASSUME TimeInv, NEW d \in Nat, NEW k \in Nat, NEW woken \in Seq(Proc), NEW exc_start,
           exc_start = IF current_process = NULL THEN now + d ELSE last_ldst + d,
           Interrupted(exc_start, k, woken)
    PROVE  TimeInv'
<1>1. /\ SCHED_TIME_SLICE \in Nat /\ Almost \in Nat /\ MaxTime \in Nat /\ NULL \notin Proc
  BY CpuTimeAssumption
<1>2. /\ now \in 0 .. MaxTime /\ last_ldst \in 0 .. now
      /\ current_process \in Proc \cup {NULL} /\ ready_queue \in Seq(Proc)
      /\ p_usr_time \in [Proc -> 0 .. MaxTime] /\ p_sys_time \in [Proc -> 0 .. MaxTime]
      /\ p_slice_time \in [Proc -> - MaxTime .. SCHED_TIME_SLICE]
      /\ \A q \in Proc : p_usr_time[q] <= now /\ p_sys_time[q] <= now
  BY DEF TimeInv, TimeTypeOK
<1>3. /\ exc_start + k <= MaxTime /\ now' = exc_start + k /\ p_sys_time' = p_sys_time
  BY DEF Interrupted
<1>4. exc_start \in Nat /\ exc_start >= last_ldst
  BY <1>2
<1>5. CASE current_process = NULL
  <2>1. p_usr_time' = p_usr_time /\ scheduler(ready_queue \o woken, p_slice_time, now')
    BY <1>5 DEF Interrupted
  <2>2. ready_queue \o woken \in Seq(Proc)
    BY <1>2, ConcatProperties
  <2>3. /\ p_slice_time \in [Proc -> Int]
        /\ \A q \in Proc : - MaxTime <= p_slice_time[q] /\ p_slice_time[q] <= SCHED_TIME_SLICE
    BY <1>1, <1>2
  <2>4. /\ current_process' \in Proc \cup {NULL} /\ ready_queue' \in Seq(Proc)
        /\ p_slice_time' \in [Proc -> - MaxTime .. SCHED_TIME_SLICE]
        /\ TimerPositive'
        /\ current_process' = NULL => last_ldst' = last_ldst
        /\ current_process' # NULL => last_ldst' = now'
    BY <2>1, <2>2, <2>3, SchedulerResult
  <2>5. now' \in 0 .. MaxTime /\ last_ldst' \in 0 .. now' /\ now <= now'
    BY <1>1, <1>2, <1>3, <1>4, <1>5, <2>4
  <2>6. \A q \in Proc : p_usr_time'[q] <= now' /\ p_sys_time'[q] <= now'
    BY <1>1, <1>2, <1>3, <2>1, <2>5
  <2>7. TimeTypeOK'
    BY <1>2, <1>3, <2>1, <2>4, <2>5 DEF TimeTypeOK
  <2>8. Total(Charges, Proc)' = Total(Charges, Proc) /\ Total(Charges, Proc) \in Nat
    BY <1>3, <2>1, ChargesType DEF Charges, TimeInv
  <2>9. Total(Charges, Proc)' <= now'
    BY <1>2, <2>5, <2>8 DEF TimeInv
  <2> QED
    BY <2>4, <2>6, <2>7, <2>9 DEF TimeInv
<1>6. CASE current_process # NULL
  <2>1. PICK p : p = current_process
    OBVIOUS
  <2>2. p \in Proc /\ exc_start - last_ldst = d /\ exc_start = last_ldst + d
    BY <1>2, <1>6, <2>1
  <2>3. PICK left : left = [p_slice_time EXCEPT ![p] = @ - d]
    OBVIOUS
  <2>4. /\ p_usr_time' = [p_usr_time EXCEPT ![p] = @ + d]
        /\ scheduler(<<p>> \o ready_queue \o woken, left, now')
    BY <1>6, <2>1, <2>2, <2>3 DEF Interrupted
  <2>5. <<p>> \o ready_queue \o woken \in Seq(Proc)
    BY <1>2, <2>2, ConcatProperties
  <2>6. /\ p_slice_time[p] \in Almost + 1 .. SCHED_TIME_SLICE
        /\ \A q \in Proc : p_usr_time[q] <= last_ldst /\ p_sys_time[q] <= last_ldst
    BY <1>6, <2>1 DEF TimeInv, TimerPositive
  <2>7. /\ left \in [Proc -> Int]
        /\ \A q \in Proc : - MaxTime <= left[q] /\ left[q] <= SCHED_TIME_SLICE
    <3>1. left[p] = p_slice_time[p] - d /\ \A q \in Proc \ {p} : left[q] = p_slice_time[q]
      BY <1>2, <2>2, <2>3
    <3>2. /\ left[p] \in Int /\ - MaxTime <= left[p] /\ left[p] <= SCHED_TIME_SLICE
      BY <1>1, <1>2, <1>3, <2>2, <2>6, <3>1
    <3>3. \A q \in Proc \ {p} :
            left[q] \in Int /\ - MaxTime <= left[q] /\ left[q] <= SCHED_TIME_SLICE
      BY <1>1, <1>2, <3>1
    <3>4. left = [q \in Proc |-> left[q]]
      BY <1>2, <2>3
    <3> QED
      BY <3>2, <3>3, <3>4
  <2>8. /\ current_process' \in Proc \cup {NULL} /\ ready_queue' \in Seq(Proc)
        /\ p_slice_time' \in [Proc -> - MaxTime .. SCHED_TIME_SLICE]
        /\ TimerPositive'
        /\ current_process' = NULL => last_ldst' = last_ldst
        /\ current_process' # NULL => last_ldst' = now'
    BY <2>4, <2>5, <2>7, SchedulerResult
  <2>9. now' \in 0 .. MaxTime /\ last_ldst' \in 0 .. now'
    <3>1. exc_start + k <= MaxTime /\ now' = exc_start + k
      BY <1>3
    <3>2. exc_start \in Nat /\ exc_start >= last_ldst /\ last_ldst \in Nat
      BY <1>2, <1>4
    <3>3. last_ldst' = last_ldst \/ last_ldst' = now'
      BY <2>8
    <3> QED
      BY <1>1, <3>1, <3>2, <3>3
  <2>10. \A q \in Proc : p_usr_time'[q] = p_usr_time[q] \/ p_usr_time'[q] = p_usr_time[q] + d
    BY <1>2, <2>4
  <2>11. \A q \in Proc : /\ p_usr_time'[q] \in 0 .. MaxTime /\ p_usr_time'[q] <= now'
                         /\ p_sys_time'[q] <= now'
    <3> SUFFICES ASSUME NEW q \in Proc
                 PROVE  /\ p_usr_time'[q] \in 0 .. MaxTime /\ p_usr_time'[q] <= now'
                        /\ p_sys_time'[q] <= now'
      OBVIOUS
    <3>1. exc_start + k <= MaxTime /\ now' = exc_start + k /\ exc_start = last_ldst + d
      BY <1>3, <2>2
    <3>2. /\ p_usr_time[q] \in Nat /\ p_usr_time[q] <= last_ldst
          /\ p_sys_time[q] \in Nat /\ p_sys_time[q] <= last_ldst /\ last_ldst \in Nat
      BY <1>2, <2>6
    <3>3. p_usr_time'[q] \in Nat /\ p_usr_time'[q] <= last_ldst + d
      BY <2>10, <3>2
    <3>4. p_sys_time'[q] = p_sys_time[q]
      BY <1>3
    <3> QED
      BY <1>1, <3>1, <3>2, <3>3, <3>4
  <2>12. p_usr_time' \in [Proc -> 0 .. MaxTime]
    <3>1. p_usr_time' = [q \in Proc |-> p_usr_time'[q]]
      BY <1>2, <2>4
    <3> QED
      BY <2>11, <3>1
  <2>13. TimeTypeOK' /\ TimeTypeOK
    BY <1>2, <1>3, <2>8, <2>9, <2>12 DEF TimeInv, TimeTypeOK
  <2>14. p_sys_time' = [p_sys_time EXCEPT ![p] = @ + 0]
    <3>1. \A q \in Proc : p_sys_time[q] \in Int
      BY <1>1, <1>2
    <3> QED
      BY <1>2, <1>3, <2>2, <3>1
  <2>15. /\ Total(Charges, Proc) \in Nat
         /\ Total(Charges, Proc)' = Total(Charges, Proc) + d
    <3>1. p \in Proc /\ 0 \in Nat /\ p_usr_time' = [p_usr_time EXCEPT ![p] = @ + d]
      BY <2>2, <2>4
    <3>2. /\ Total(Charges, Proc) \in Nat
          /\ Total(Charges, Proc)' = Total(Charges, Proc) + d + 0
      BY <2>13, <2>14, <3>1, ChargeOne
    <3> QED
      BY <3>2
  <2>16. Total(Charges, Proc) <= last_ldst
    BY <1>6 DEF TimeInv
  <2>17. Total(Charges, Proc)' <= now'
    BY <1>2, <1>3, <2>2, <2>15, <2>16
  <2> QED
    BY <2>8, <2>11, <2>13, <2>17 DEF TimeInv
<1> QED
  BY <1>5, <1>6

--------------------------------------------------------------------------------
(* How far a process is, and what its areas hold then *)

\* boot_proc gives the process its three handlers before the program runs.
FlagsAt(p, code) ==
    /\ code \in {"none", "boot SYS"} => p_flags[p] = {}
    /\ code = "boot TLB" => p_flags[p] = {"SYS"}
    /\ code = "boot PGMT" => p_flags[p] = {"SYS", "TLB"}
    /\ code \notin {"none", "init", "boot SYS", "boot TLB", "boot PGMT"} => p_flags[p] = Kind

\* The exception at place i is the SYSCALL of the program that the SYS old area holds.
CallAt(p, i) ==
    /\ raised[p][i].kind = "SYS"
    /\ raised[p][i].state = p_excpvec[p].old["SYS"]
    /\ p_excpvec[p].old["SYS"].at = "program"

\* The last exception is the fault that the TLB old area holds, of the program or of a call
\* it made.
FaultFirst(p) ==
    /\ raised[p][1].kind = "TLB"
    /\ raised[p][1].state = p_excpvec[p].old["TLB"]
    /\ \/ Len(raised[p]) = 1 /\ p_excpvec[p].old["TLB"].at = "program"
       \/ Len(raised[p]) = 2 /\ p_excpvec[p].old["TLB"].at = "usrcall" /\ CallAt(p, 2)

\* What holds of p when it is in state s.  A SYS exception is a call of the program or the
\* TERMINATE of the trap handler.
StageAt(p, s) ==
    /\ s.at = "init" => p = InitProc
    /\ FlagsAt(p, s.at)
    /\ \A k \in p_flags[p] : p_excpvec[p].new[k].at = k
    /\ s.at \in {"none", "init", "boot SYS", "boot TLB", "boot PGMT", "program"} =>
         Len(raised[p]) = 0
    /\ s.at = "TLB" => s.a1 \in {"page fault", "bad address"}
    /\ s.at = "SYS" => \/ Len(raised[p]) = 1 /\ CallAt(p, 1)
                       \/ s.a1 = "syscall" /\ p_excpvec[p].old["SYS"].a1 = "TERMINATE"
    /\ s.at = "usrcall" => Len(raised[p]) = 1 /\ CallAt(p, 1)
    /\ s.at \in {"TLB", "pager"} => FaultFirst(p)

Stages == \A p \in Proc : StageAt(p, p_s[p])

EInv == TypeOK /\ TimeInv /\ Stages

\* What ReturnsRight and DiesInTerminate say of a step.
ReturnsStep ==
    \A p \in Proc :
        Len(raised'[p]) < Len(raised[p]) =>
            LET last == Head(raised[p])
            IN  /\ p_s'[p].at = last.state.at
                /\ p_s'[p].step = last.state.step
                /\ last.kind = "TLB" => p_s'[p] = last.state

MayEnd(u) ==
    \/ p_s[u].at = "usr21"
    \/ p_s[u].at = "program" /\ p_flags[u] = Kind
    \/ p_s[u].at = "TLB" /\ p_s[u].a1 = "bad address"
    \/ servesCall(p_s[u]) /\ p_excpvec[u].old["SYS"].a1 = "TERMINATE"

DiesStep == \A u \in live \ live' : InitProc \notin live' \/ MayEnd(u)

\* From where an exception of some kind is passed up, with some cause.
PassedFrom(q, kind, old, cause) ==
    /\ kind = "TLB" => /\ cause \in {"page fault", "bad address"}
                       /\ \/ old.at = "program" /\ Len(raised[q]) = 0
                          \/ old.at = "usrcall" /\ Len(raised[q]) = 1 /\ CallAt(q, 1)
    /\ kind = "SYS" => \/ old.at = "program" /\ Len(raised[q]) = 0
                       \/ cause = "syscall" /\ old.a1 = "TERMINATE"

Vec == [new : [Kind -> State], old : [Kind -> State]]
Raise == [kind : Kind, state : State]

\* The parts of TypeOK that are not about time.
LEMMA TypeParts ==
    TypeOK <=> /\ TimeTypeOK /\ p_s \in [Proc -> State] /\ p_flags \in [Proc -> SUBSET Kind]
               /\ p_excpvec \in [Proc -> Vec] /\ live \subseteq Proc
               /\ cpu \in {"up", "halted", "fatal"} /\ raised \in [Proc -> Seq(Raise)]
BY DEF TypeOK, Vec, Raise

\* Places in the code are states.
LEMMA Places ==
    ASSUME NEW code \in Code
    PROVE  at(code) \in State /\ at(code).at = code /\ anywhere(code) \subseteq State
           /\ \A s \in anywhere(code) : s.at = code
BY DEF at, anywhere, State, Call, Cause, Result

\* What the running process can have reached from its p_s.
LEMMA ReachedFrom ==
    ASSUME TypeOK, NEW q \in Proc, q = self, NEW s \in Reached
    PROVE  /\ s \in State
           /\ \/ s = p_s[q]
              \/ s.at = p_s[q].at /\ s.at \in {"program", "usrcall", "pager", "usr21"}
              \/ /\ s.at = "usrcall" /\ servesCall(p_s[q])
                 /\ p_excpvec[q].old["SYS"].a1 = "12 to 20"
              \/ /\ s.at = "usr21" /\ servesCall(p_s[q])
                 /\ p_excpvec[q].old["SYS"].a1 = "TERMINATE"
              \/ s.at = "pager" /\ p_s[q].at = "TLB" /\ p_s[q].a1 = "page fault"
              \/ s.at = "usr21" /\ p_s[q].at = "TLB" /\ p_s[q].a1 # "page fault"
<1> PICK r : r = p_s[q]
  OBVIOUS
<1>1. r \in State /\ r.at \in Code
  BY DEF TypeOK, State
<1>2. CASE r.at \in {"program", "usrcall", "pager", "usr21"}
  <2>1. s \in anywhere(r.at)
    BY <1>2 DEF Reached
  <2> QED
    BY <1>1, <1>2, <2>1, Places
<1>3. CASE /\ r.at \notin {"program", "usrcall", "pager", "usr21"}
           /\ servesCall(r) /\ servedCall = "12 to 20"
  <2>1. s \in anywhere("usrcall")
    BY <1>3 DEF Reached
  <2>2. "usrcall" \in Code
    BY DEF Code
  <2> QED
    BY <1>3, <2>1, <2>2, Places DEF servedCall
<1>4. CASE /\ r.at \notin {"program", "usrcall", "pager", "usr21"}
           /\ servesCall(r) /\ servedCall = "TERMINATE"
  <2>1. s = at("usr21")
    BY <1>4 DEF Reached
  <2>2. "usr21" \in Code
    BY DEF Code
  <2> QED
    BY <1>4, <2>1, <2>2, Places DEF servedCall
<1>5. CASE r.at = "TLB"
  <2>1. "usr21" \in Code /\ "pager" \in Code
    BY DEF Code
  <2>2. CASE r.a1 = "page fault"
    <3>1. s \in anywhere("pager")
      BY <1>5, <2>2 DEF Reached, servesCall
    <3> QED
      BY <1>5, <2>1, <2>2, <3>1, Places
  <2>3. CASE r.a1 # "page fault"
    <3>1. s = at("usr21")
      BY <1>5, <2>3 DEF Reached, servesCall
    <3> QED
      BY <1>5, <2>1, <2>3, <3>1, Places
  <2> QED
    BY <2>2, <2>3
<1>6. CASE /\ r.at \notin {"program", "usrcall", "pager", "usr21", "TLB"}
           /\ ~ (servesCall(r) /\ servedCall \in {"12 to 20", "TERMINATE"})
  <2>1. s = r
    BY <1>6 DEF Reached
  <2> QED
    BY <1>1, <2>1
<1> QED
  BY <1>2, <1>3, <1>4, <1>5, <1>6

\* So what holds of its p_s holds of a state it reached.
LEMMA ReachedStage ==
    ASSUME EInv, NEW q \in Proc, q = self, NEW s \in Reached
    PROVE  s \in State /\ StageAt(q, s)
<1>1. TypeOK /\ StageAt(q, p_s[q])
  BY DEF EInv, Stages
<1>2. s \in State
  BY <1>1, ReachedFrom
<1>3. CASE s = p_s[q]
  BY <1>1, <1>2, <1>3
<1>4. CASE s.at = p_s[q].at /\ s.at \in {"program", "usrcall", "pager", "usr21"}
  BY <1>1, <1>2, <1>4 DEF StageAt, FlagsAt
<1>5. CASE /\ s.at = "usrcall" /\ servesCall(p_s[q])
           /\ p_excpvec[q].old["SYS"].a1 = "12 to 20"
  BY <1>1, <1>2, <1>5 DEF StageAt, FlagsAt, servesCall
<1>6. CASE s.at = "usr21" /\ p_s[q].at \in {"SYS", "TLB"}
  BY <1>1, <1>2, <1>6 DEF StageAt, FlagsAt
<1>7. CASE s.at = "pager" /\ p_s[q].at = "TLB"
  BY <1>1, <1>2, <1>7 DEF StageAt, FlagsAt
<1> QED
  BY <1>1, <1>2, <1>3, <1>4, <1>5, <1>6, <1>7, ReachedFrom DEF servesCall

\* Who runs in some code is a process, in a state it reached.
LEMMA RunningFacts ==
    ASSUME EInv, NEW code, NEW s \in Running(code)
    PROVE  /\ self \in Proc /\ s \in Reached /\ s.at = code /\ s \in State /\ cpu = "up"
           /\ StageAt(self, s)
<1>1. cpu = "up" /\ self # NULL /\ s \in Reached /\ s.at = code
  BY DEF Running
<1>2. self \in Proc
  BY <1>1 DEF EInv, TypeOK, TimeTypeOK, self
<1> QED
  BY <1>1, <1>2, ReachedStage

--------------------------------------------------------------------------------
(* The kinds of steps *)

\* A step that changes only what belongs to the running process, and ends nobody.
LEMMA OwnStep ==
    ASSUME EInv, NEW q \in Proc, TimeInv', live' = live, cpu' = cpu,
           p_s' \in [Proc -> State], p_flags' \in [Proc -> SUBSET Kind],
           p_excpvec' \in [Proc -> Vec], raised' \in [Proc -> Seq(Raise)],
           \A p \in Proc \ {q} : /\ p_s'[p] = p_s[p] /\ p_flags'[p] = p_flags[p]
                                 /\ p_excpvec'[p] = p_excpvec[p] /\ raised'[p] = raised[p],
           StageAt(q, p_s[q])',
           Len(raised'[q]) < Len(raised[q]) =>
             /\ p_s'[q].at = Head(raised[q]).state.at
             /\ p_s'[q].step = Head(raised[q]).state.step
             /\ Head(raised[q]).kind = "TLB" => p_s'[q] = Head(raised[q]).state
    PROVE  EInv' /\ ReturnsStep /\ DiesStep
<1>1. TypeOK'
  BY TypeParts DEF EInv, TimeInv, TypeOK, Vec, Raise
<1>2. Stages'
  <2> SUFFICES ASSUME NEW p \in Proc PROVE StageAt(p, p_s[p])'
    BY DEF Stages
  <2>1. CASE p = q
    BY <2>1
  <2>2. CASE p # q
    <3>1. StageAt(p, p_s[p])
      BY DEF EInv, Stages
    <3> QED
      BY <2>2, <3>1 DEF StageAt, FlagsAt, CallAt, FaultFirst
  <2> QED
    BY <2>1, <2>2
<1>3. ReturnsStep
  <2> SUFFICES ASSUME NEW p \in Proc, Len(raised'[p]) < Len(raised[p])
               PROVE  p = q
    BY DEF ReturnsStep
  <2>1. Len(raised[p]) \in Nat
    BY LenProperties DEF EInv, TypeOK
  <2> QED
    BY <2>1
<1>4. DiesStep
  BY DEF DiesStep
<1> QED
  BY <1>1, <1>2, <1>3, <1>4 DEF EInv

\* The kernel takes over and gives the CPU to somebody.
LEMMA KernelTime ==
    ASSUME TimeInv, self \in Proc, NEW t \in Timing, NEW freed \in BOOLEAN,
           NEW line \in Seq(Proc), Exception(t[1], t[2], freed, line)
    PROVE  TimeInv'
<1>1. PICK d \in Runs, k \in 0 .. Busy : t = <<last_ldst + d, k>>
  BY DEF Timing
<1>2. k \in Nat /\ t[1] = last_ldst + d /\ t[2] = k
  BY <1>1, CpuTimeAssumption
<1> QED
  BY <1>1, <1>2, ExceptionTime DEF self

\* Who goes on is at the head of the line.
LEMMA GoOnStep ==
    ASSUME TypeOK, TimeInv, NEW q \in Proc, q = self, NEW s \in State, GoOn(s)
    PROVE  /\ TimeInv' /\ live' = live /\ cpu' = cpu
           /\ p_s' \in [Proc -> State] /\ p_s'[q] = s
           /\ \A p \in Proc \ {q} : p_s'[p] = p_s[p]
<1>1. PICK t \in Timing : Exception(t[1], t[2], FALSE, <<self>> \o ready_queue)
  BY DEF GoOn
<1>2. <<self>> \o ready_queue \in Seq(Proc)
  BY ConcatProperties DEF TypeOK, TimeTypeOK
<1>3. TimeInv'
  BY <1>1, <1>2, KernelTime
<1> QED
  BY <1>3 DEF GoOn, TypeOK

\* SYS2 ends the running process, with all others if it is the init process.
LEMMA TerminateStep ==
    ASSUME EInv, self \in Proc, Terminate, self # InitProc => MayEnd(self)
    PROVE  EInv' /\ ReturnsStep /\ DiesStep
<1>1. PICK family : family = IF self = InitProc THEN Proc ELSE {self}
  OBVIOUS
<1>2. /\ live' = live \ family /\ cpu' = IF live' = {} THEN "halted" ELSE cpu
      /\ UNCHANGED <<areas, raised>>
      /\ \E t \in Timing : Exception(t[1], t[2], TRUE, Without(ready_queue, family))
  BY <1>1 DEF Terminate
<1>3. Without(ready_queue, family) \in Seq(Proc)
  BY WithoutProperties DEF EInv, TypeOK, TimeTypeOK
<1>4. TimeInv'
  BY <1>2, <1>3, KernelTime DEF EInv
<1>5. UNCHANGED <<p_s, p_flags, p_excpvec, raised>>
  BY <1>2 DEF areas
<1>6. TypeOK'
  BY <1>2, <1>4, <1>5 DEF EInv, TypeOK, TimeInv
<1>7. Stages'
  BY <1>5 DEF EInv, Stages, StageAt, FlagsAt, CallAt, FaultFirst
<1>8. ReturnsStep
  <2> SUFFICES ASSUME NEW p \in Proc, Len(raised'[p]) < Len(raised[p])
               PROVE  FALSE
    BY DEF ReturnsStep
  <2>1. Len(raised[p]) \in Nat
    BY LenProperties DEF EInv, TypeOK
  <2>2. raised'[p] = raised[p]
    BY <1>5
  <2> QED
    BY <2>1, <2>2
<1>9. DiesStep
  <2> SUFFICES ASSUME NEW u \in live \ live', InitProc \in live'
               PROVE  u = self /\ self # InitProc
    BY DEF DiesStep
  <2>1. live \subseteq Proc
    BY DEF EInv, TypeOK
  <2> QED
    BY <1>1, <1>2, <2>1
<1> QED
  BY <1>4, <1>6, <1>7, <1>8, <1>9 DEF EInv

\* What passup writes to the vectors v, and init_handler.
Passed(v, q, kind, old, cause) ==
    [v EXCEPT ![q].old[kind] = old, ![q].new[kind].a1 = cause]

Handled(v, q, kind, h) == [v EXCEPT ![q].new[kind] = h]

\* They change one vector in one place.
LEMMA VectorUpdate ==
    ASSUME NEW v \in [Proc -> Vec], NEW q \in Proc, NEW kind \in Kind, NEW old \in State,
           NEW cause \in Cause, NEW w,
           w = Passed(v, q, kind, old, cause)
    PROVE  /\ w \in [Proc -> Vec] /\ \A p \in Proc \ {q} : w[p] = v[p]
           /\ w[q].old[kind] = old
           /\ \A k \in Kind \ {kind} : w[q].old[k] = v[q].old[k]
           /\ \A k \in Kind : w[q].new[k].at = v[q].new[k].at
<1>1. v[q].new[kind] \in State
  BY DEF Vec
<1>2. PICK e : e = [v[q].new[kind] EXCEPT !.a1 = cause]
  OBVIOUS
<1>3. e \in State /\ e.at = v[q].new[kind].at
  BY <1>1, <1>2 DEF State
<1>4. /\ w[q].old = [v[q].old EXCEPT ![kind] = old]
      /\ w[q].new = [v[q].new EXCEPT ![kind] = e]
      /\ w[q] = [new |-> w[q].new, old |-> w[q].old]
      /\ DOMAIN w = Proc /\ w = [p \in Proc |-> w[p]]
      /\ \A p \in Proc \ {q} : w[p] = v[p]
  BY <1>2 DEF Vec, Passed
<1>5. /\ w[q].old \in [Kind -> State] /\ w[q].new \in [Kind -> State]
      /\ w[q].old[kind] = old
      /\ \A k \in Kind \ {kind} : w[q].old[k] = v[q].old[k]
      /\ \A k \in Kind : w[q].new[k].at = v[q].new[k].at
  BY <1>3, <1>4 DEF Vec
<1>6. w[q] \in Vec
  BY <1>4, <1>5 DEF Vec
<1> QED
  BY <1>4, <1>5, <1>6

\* The same of a new handler.
LEMMA HandlerUpdate ==
    ASSUME NEW v \in [Proc -> Vec], NEW q \in Proc, NEW kind \in Kind, NEW h \in State,
           NEW w, w = Handled(v, q, kind, h)
    PROVE  /\ w \in [Proc -> Vec] /\ \A p \in Proc \ {q} : w[p] = v[p]
           /\ w[q].new[kind] = h
           /\ \A k \in Kind \ {kind} : w[q].new[k] = v[q].new[k]
<1>1. /\ w[q].new = [v[q].new EXCEPT ![kind] = h] /\ w[q].old = v[q].old
      /\ w[q] = [new |-> w[q].new, old |-> w[q].old] /\ w = [p \in Proc |-> w[p]]
      /\ \A p \in Proc \ {q} : w[p] = v[p]
  BY DEF Vec, Handled
<1>2. v[q].new \in [Kind -> State] /\ v[q].old \in [Kind -> State]
  BY DEF Vec
<1>3. /\ w[q].new \in [Kind -> State] /\ w[q].new[kind] = h
      /\ \A k \in Kind \ {kind} : w[q].new[k] = v[q].new[k]
  BY <1>1, <1>2
<1>4. w[q] \in Vec
  BY <1>1, <1>2, <1>3 DEF Vec
<1> QED
  BY <1>1, <1>3, <1>4

\* One more exception, in front of the others.
LEMMA OneMore ==
    ASSUME NEW r \in Seq(Raise), NEW x \in Raise
    PROVE  /\ <<x>> \o r \in Seq(Raise) /\ Len(<<x>> \o r) = Len(r) + 1 /\ Len(r) \in Nat
           /\ (<<x>> \o r)[1] = x
           /\ \A i \in 1 .. Len(r) : (<<x>> \o r)[i + 1] = r[i]
<1>1. <<x>> \in Seq(Raise) /\ Len(<<x>>) = 1 /\ <<x>>[1] = x /\ Len(r) \in Nat
  BY LenProperties
<1>2. /\ <<x>> \o r \in Seq(Raise) /\ Len(<<x>> \o r) = 1 + Len(r)
      /\ \A i \in 1 .. 1 : (<<x>> \o r)[i] = <<x>>[i]
      /\ \A i \in 2 .. 1 + Len(r) : (<<x>> \o r)[i] = r[i - 1]
  BY <1>1, ConcatProperties
<1>3. \A i \in 1 .. Len(r) : i + 1 \in 2 .. 1 + Len(r) /\ (i + 1) - 1 = i
  BY <1>1
<1> QED
  BY <1>1, <1>2, <1>3

\* An exception that the process has a handler for.
LEMMA PassupStep ==
    ASSUME EInv, NEW q \in Proc, q = self, NEW kind \in Kind, p_flags[q] = Kind,
           NEW old \in State, NEW cause \in Cause, passup(kind, old, cause),
           PassedFrom(q, kind, old, cause)
    PROVE  EInv' /\ ReturnsStep /\ DiesStep
<1>1. PICK new : new = entry(p_excpvec[q].new[kind], cause)
  OBVIOUS
<1>2. PICK x : x = [kind |-> kind, state |-> old]
  OBVIOUS
<1>3. /\ p_excpvec' = [p_excpvec EXCEPT ![q].old[kind] = old, ![q].new[kind].a1 = cause]
      /\ raised' = [raised EXCEPT ![q] = <<x>> \o @]
      /\ GoOn(new) /\ p_flags' = p_flags
  BY <1>1, <1>2 DEF passup
<1>4. /\ p_excpvec \in [Proc -> Vec] /\ raised \in [Proc -> Seq(Raise)]
      /\ p_flags \in [Proc -> SUBSET Kind] /\ TypeOK /\ TimeInv
  BY TypeParts DEF EInv
<1>18. p_excpvec[q] \in Vec /\ raised[q] \in Seq(Raise)
  BY <1>4
<1>5. \A k \in Kind : p_excpvec[q].new[k].at = k
  BY DEF EInv, Stages, StageAt
<1>6. new \in State /\ new.at = kind /\ new.a1 = cause
  <2>1. p_excpvec[q].new[kind] \in State
    BY <1>18 DEF Vec
  <2> QED
    BY <1>1, <1>5, <2>1 DEF entry, State
<1>7. /\ TimeInv' /\ live' = live /\ cpu' = cpu
      /\ p_s' \in [Proc -> State] /\ p_s'[q] = new
      /\ \A p \in Proc \ {q} : p_s'[p] = p_s[p]
  BY <1>3, <1>4, <1>6, GoOnStep
<1>8. /\ p_excpvec' \in [Proc -> Vec] /\ \A p \in Proc \ {q} : p_excpvec'[p] = p_excpvec[p]
      /\ p_excpvec'[q].old[kind] = old
      /\ \A k \in Kind \ {kind} : p_excpvec'[q].old[k] = p_excpvec[q].old[k]
      /\ \A k \in Kind : p_excpvec'[q].new[k].at = k
  <2>1. p_excpvec \in [Proc -> Vec]
    BY <1>4
  <2>2. p_excpvec' = [p_excpvec EXCEPT ![q].old[kind] = old, ![q].new[kind].a1 = cause]
    BY <1>3
  <2>3. /\ p_excpvec' \in [Proc -> Vec] /\ \A p \in Proc \ {q} : p_excpvec'[p] = p_excpvec[p]
        /\ p_excpvec'[q].old[kind] = old
        /\ \A k \in Kind \ {kind} : p_excpvec'[q].old[k] = p_excpvec[q].old[k]
        /\ \A k \in Kind : p_excpvec'[q].new[k].at = p_excpvec[q].new[k].at
    <3>1. PICK v, w : v = p_excpvec /\ w = p_excpvec'
      OBVIOUS
    <3>2. v \in [Proc -> Vec] /\ w = Passed(v, q, kind, old, cause)
      BY <2>1, <2>2, <3>1 DEF Passed
    <3>3. /\ w \in [Proc -> Vec] /\ \A p \in Proc \ {q} : w[p] = v[p]
          /\ w[q].old[kind] = old
          /\ \A k \in Kind \ {kind} : w[q].old[k] = v[q].old[k]
          /\ \A k \in Kind : w[q].new[k].at = v[q].new[k].at
      BY <3>2, VectorUpdate
    <3> QED
      BY <3>1, <3>3
  <2> QED
    BY <1>5, <2>3
<1>9. /\ raised'[q] = <<x>> \o raised[q] /\ \A p \in Proc \ {q} : raised'[p] = raised[p]
      /\ raised' = [p \in Proc |-> raised'[p]]
  BY <1>3, <1>4
<1>10. x \in Raise /\ x.kind = kind /\ x.state = old
  BY <1>2 DEF Raise
<1>11. /\ raised'[q] \in Seq(Raise) /\ Len(raised'[q]) = Len(raised[q]) + 1
       /\ Len(raised[q]) \in Nat /\ raised'[q][1] = x
       /\ \A i \in 1 .. Len(raised[q]) : raised'[q][i + 1] = raised[q][i]
  <2>1. PICK r : r = raised[q]
    OBVIOUS
  <2>2. PICK w : w = <<x>> \o r
    OBVIOUS
  <2>3. r \in Seq(Raise) /\ x \in Raise
    BY <1>10, <1>18, <2>1
  <2>4. /\ w \in Seq(Raise) /\ Len(w) = Len(r) + 1 /\ Len(r) \in Nat /\ w[1] = x
        /\ \A i \in 1 .. Len(r) : w[i + 1] = r[i]
    BY <2>2, <2>3, OneMore
  <2>5. raised'[q] = w
    BY <1>9, <2>1, <2>2
  <2> QED
    BY <2>1, <2>4, <2>5
<1>12. raised' \in [Proc -> Seq(Raise)]
  BY <1>4, <1>9, <1>11
<1>13. kind = "TLB" => FaultFirst(q)'
  <2> SUFFICES ASSUME kind = "TLB" PROVE FaultFirst(q)'
    OBVIOUS
  <2>4. /\ cause \in {"page fault", "bad address"}
        /\ \/ old.at = "program" /\ Len(raised[q]) = 0
           \/ old.at = "usrcall" /\ Len(raised[q]) = 1 /\ CallAt(q, 1)
    BY DEF PassedFrom
  <2>1. raised'[q][1].kind = "TLB" /\ raised'[q][1].state = p_excpvec'[q].old["TLB"]
    BY <1>8, <1>10, <1>11
  <2>2. CASE old.at = "program" /\ Len(raised[q]) = 0
    <3>1. Len(raised'[q]) = 1 /\ p_excpvec'[q].old["TLB"].at = "program"
      BY <1>8, <1>11, <2>2
    <3> QED
      BY <2>1, <3>1 DEF FaultFirst
  <2>3. CASE old.at = "usrcall" /\ Len(raised[q]) = 1 /\ CallAt(q, 1)
    <3>1. "SYS" \in Kind \ {kind}
      BY DEF Kind
    <3>2. p_excpvec'[q].old["SYS"] = p_excpvec[q].old["SYS"]
      BY <1>8, <3>1
    <3>4. Len(raised'[q]) = 2 /\ raised'[q][2] = raised[q][1]
      <4>1. 1 \in 1 .. Len(raised[q]) /\ 1 + 1 = 2
        BY <2>3
      <4>2. raised'[q][1 + 1] = raised[q][1]
        BY <1>11, <4>1
      <4> QED
        BY <1>11, <2>3, <4>1, <4>2
    <3>3. CallAt(q, 2)'
      BY <2>3, <3>2, <3>4 DEF CallAt
    <3>5. p_excpvec'[q].old["TLB"].at = "usrcall"
      BY <1>8, <2>3
    <3> QED
      BY <2>1, <3>3, <3>4, <3>5 DEF FaultFirst
  <2> QED
    BY <2>2, <2>3, <2>4
<1>14. kind = "SYS" => \/ Len(raised'[q]) = 1 /\ CallAt(q, 1)'
                       \/ cause = "syscall" /\ p_excpvec'[q].old["SYS"].a1 = "TERMINATE"
  <2> SUFFICES ASSUME kind = "SYS"
               PROVE  \/ Len(raised'[q]) = 1 /\ CallAt(q, 1)'
                      \/ cause = "syscall" /\ p_excpvec'[q].old["SYS"].a1 = "TERMINATE"
    OBVIOUS
  <2>1. CASE old.at = "program" /\ Len(raised[q]) = 0
    BY <1>8, <1>10, <1>11, <2>1 DEF CallAt
  <2>2. CASE cause = "syscall" /\ old.a1 = "TERMINATE"
    BY <1>8, <2>2
  <2> QED
    BY <2>1, <2>2 DEF PassedFrom
<1>15. StageAt(q, p_s[q])'
  <2>1. /\ p_flags'[q] = Kind /\ p_s'[q].at = kind /\ p_s'[q].a1 = cause
        /\ kind = "TLB" => cause \in {"page fault", "bad address"}
    BY <1>3, <1>6, <1>7 DEF PassedFrom
  <2> QED
    BY <1>8, <1>13, <1>14, <2>1 DEF StageAt, FlagsAt, Kind
<1>16. ~ (Len(raised'[q]) < Len(raised[q]))
  <2>1. PICK m, n : m = Len(raised'[q]) /\ n = Len(raised[q])
    OBVIOUS
  <2>2. m = n + 1 /\ n \in Nat
    BY <1>11, <2>1
  <2> QED
    BY <2>1, <2>2
<1>17. p_flags' \in [Proc -> SUBSET Kind]
  BY <1>3, <1>4
<1> QED
  BY <1>3, <1>7, <1>8, <1>9, <1>12, <1>15, <1>16, <1>17, OwnStep

\* Where boot_proc is after it gave the process a handler.
Booted(q, kind, next) ==
    /\ next.at \in {"boot TLB", "boot PGMT", "program"}
    /\ next.at = "boot TLB" => p_flags[q] \cup {kind} = {"SYS"}
    /\ next.at = "boot PGMT" => p_flags[q] \cup {kind} = {"SYS", "TLB"}
    /\ next.at = "program" => p_flags[q] \cup {kind} = Kind

\* The new handler of the running process, which must not have one.
LEMMA HandlerStep ==
    ASSUME EInv, NEW q \in Proc, q = self, NEW kind \in Kind, kind \notin p_flags[q],
           NEW next \in State, SpecifyHandler(kind, next), Len(raised[q]) = 0,
           Booted(q, kind, next)
    PROVE  EInv' /\ ReturnsStep /\ DiesStep
<1>1. /\ p_excpvec \in [Proc -> Vec] /\ raised \in [Proc -> Seq(Raise)]
      /\ p_flags \in [Proc -> SUBSET Kind] /\ TypeOK /\ TimeInv
  BY TypeParts DEF EInv
<1>2. PICK h : h = at(kind)
  OBVIOUS
<1>3. h \in State /\ h.at = kind
  BY <1>2, Places DEF Kind, Code
<1>4. /\ p_flags' = [p_flags EXCEPT ![q] = @ \cup {kind}]
      /\ p_excpvec' = [p_excpvec EXCEPT ![q].new[kind] = h]
      /\ GoOn(next) /\ raised' = raised
  BY <1>2 DEF SpecifyHandler
<1>5. /\ TimeInv' /\ live' = live /\ cpu' = cpu
      /\ p_s' \in [Proc -> State] /\ p_s'[q] = next
      /\ \A p \in Proc \ {q} : p_s'[p] = p_s[p]
  BY <1>1, <1>4, GoOnStep
<1>6. /\ p_flags' \in [Proc -> SUBSET Kind] /\ p_flags'[q] = p_flags[q] \cup {kind}
      /\ \A p \in Proc \ {q} : p_flags'[p] = p_flags[p]
  BY <1>1, <1>4
<1>7. /\ p_excpvec' \in [Proc -> Vec] /\ \A p \in Proc \ {q} : p_excpvec'[p] = p_excpvec[p]
      /\ p_excpvec'[q].new[kind] = h
      /\ \A k \in Kind \ {kind} : p_excpvec'[q].new[k] = p_excpvec[q].new[k]
  <2>1. PICK v, w : v = p_excpvec /\ w = p_excpvec'
    OBVIOUS
  <2>2. v \in [Proc -> Vec] /\ w = Handled(v, q, kind, h)
    BY <1>1, <1>4, <2>1 DEF Handled
  <2>3. /\ w \in [Proc -> Vec] /\ \A p \in Proc \ {q} : w[p] = v[p]
        /\ w[q].new[kind] = h
        /\ \A k \in Kind \ {kind} : w[q].new[k] = v[q].new[k]
    BY <1>3, <2>2, HandlerUpdate
  <2> QED
    BY <2>1, <2>3
<1>8. StageAt(q, p_s[q])'
  <2>1. \A k \in p_flags[q] : p_excpvec[q].new[k].at = k
    BY DEF EInv, Stages, StageAt
  <2>2. \A k \in p_flags'[q] : p_excpvec'[q].new[k].at = k
    BY <1>1, <1>3, <1>6, <1>7, <2>1
  <2>3. Len(raised'[q]) = 0 /\ p_s'[q].at \in {"boot TLB", "boot PGMT", "program"}
    BY <1>4, <1>5 DEF Booted
  <2>4. FlagsAt(q, p_s[q].at)'
    BY <1>5, <1>6, <2>3 DEF FlagsAt, Booted
  <2> QED
    BY <2>2, <2>3, <2>4 DEF StageAt
<1>9. ~ (Len(raised'[q]) < Len(raised[q]))
  <2>1. raised'[q] = raised[q]
    BY <1>4
  <2>2. Len(raised'[q]) = 0 /\ Len(raised[q]) = 0
    BY <2>1
  <2> QED
    BY <2>2
<1>10. raised' \in [Proc -> Seq(Raise)] /\ \A p \in Proc \ {q} : raised'[p] = raised[p]
  BY <1>1, <1>4
<1> QED
  BY <1>5, <1>6, <1>7, <1>8, <1>9, <1>10, OwnStep

\* The exception at the head of raised is the one the handler of a kind returns from.
Returnable(q, kind) ==
    /\ kind \in {"SYS", "TLB"} /\ p_flags[q] = Kind
    /\ raised[q][1].kind = kind /\ raised[q][1].state = p_excpvec[q].old[kind]
    /\ \/ Len(raised[q]) = 1 /\ p_excpvec[q].old[kind].at = "program"
       \/ /\ kind = "TLB" /\ Len(raised[q]) = 2
          /\ p_excpvec[q].old[kind].at = "usrcall" /\ CallAt(q, 2)

\* SYS7 of a handler.
LEMMA ExitStep ==
    ASSUME EInv, NEW q \in Proc, q = self, NEW kind, NEW ret \in Call \cup Cause \cup Result,
           Returnable(q, kind), sys7_EXITTRAP(kind, ret)
    PROVE  EInv' /\ ReturnsStep /\ DiesStep
<1>1. /\ p_excpvec \in [Proc -> Vec] /\ raised \in [Proc -> Seq(Raise)]
      /\ p_flags \in [Proc -> SUBSET Kind] /\ TypeOK /\ TimeInv
  BY TypeParts DEF EInv
<1>2. p_excpvec[q] \in Vec /\ raised[q] \in Seq(Raise) /\ kind \in {"SYS", "TLB"}
  BY <1>1 DEF Returnable
<1>3. PICK old, back : old = p_excpvec[q].old[kind] /\ back = restored(kind, ret)
  OBVIOUS
<1>4. kind \in Kind /\ old \in State
  BY <1>2, <1>3 DEF Vec, Kind
<1>5. /\ back \in State /\ back.at = old.at /\ back.step = old.step
      /\ kind = "TLB" => back = old
  BY <1>3, <1>4 DEF restored, State
<1>6. /\ p_excpvec' = [p_excpvec EXCEPT ![q].old[kind] = back]
      /\ GoOn(back) /\ p_flags' = p_flags
      /\ raised' = [raised EXCEPT ![q] = Tail(@)]
  BY <1>3 DEF sys7_EXITTRAP
<1>7. /\ TimeInv' /\ live' = live /\ cpu' = cpu
      /\ p_s' \in [Proc -> State] /\ p_s'[q] = back
      /\ \A p \in Proc \ {q} : p_s'[p] = p_s[p]
  BY <1>1, <1>5, <1>6, GoOnStep
<1>8. /\ p_excpvec' \in [Proc -> Vec] /\ \A p \in Proc \ {q} : p_excpvec'[p] = p_excpvec[p]
      /\ p_excpvec'[q].old[kind] = back
      /\ \A k \in Kind \ {kind} : p_excpvec'[q].old[k] = p_excpvec[q].old[k]
      /\ p_excpvec'[q].new = p_excpvec[q].new
  BY <1>1, <1>4, <1>5, <1>6 DEF Vec
<1>9. PICK r, w : r = raised[q] /\ w = Tail(r)
  OBVIOUS
<1>10. r \in Seq(Raise) /\ Len(r) \in {1, 2}
  BY <1>2, <1>9 DEF Returnable
<1>11. /\ r # <<>> /\ w \in Seq(Raise) /\ Len(w) = Len(r) - 1 /\ Head(r) = r[1]
       /\ \A i \in 1 .. Len(w) : w[i] = r[i + 1]
  <2>1. r # <<>>
    BY <1>10, EmptySeq
  <2> QED
    BY <1>9, <1>10, <2>1, HeadTailProperties
<1>12. /\ raised'[q] = w /\ \A p \in Proc \ {q} : raised'[p] = raised[p]
       /\ raised' \in [Proc -> Seq(Raise)]
  BY <1>1, <1>6, <1>9, <1>11
<1>13. StageAt(q, p_s[q])'
  <2>1. p_flags'[q] = Kind /\ \A k \in p_flags'[q] : p_excpvec'[q].new[k].at = k
    <3>1. p_flags[q] = Kind
      BY DEF Returnable
    <3>2. \A k \in Kind : p_excpvec[q].new[k].at = k
      BY <3>1 DEF EInv, Stages, StageAt
    <3> QED
      BY <1>6, <1>8, <3>1, <3>2
  <2>2. CASE Len(r) = 1 /\ old.at = "program"
    <3>1. Len(raised'[q]) = 0 /\ p_s'[q].at = "program"
      BY <1>5, <1>7, <1>11, <1>12, <2>2
    <3> QED
      BY <2>1, <3>1 DEF StageAt, FlagsAt
  <2>3. CASE kind = "TLB" /\ Len(r) = 2 /\ old.at = "usrcall" /\ CallAt(q, 2)
    <3>1. Len(w) = 1 /\ w[1] = r[2]
      <4>1. Len(w) = 1
        BY <1>11, <2>3
      <4>2. 1 \in 1 .. Len(w) /\ 1 + 1 = 2
        BY <4>1
      <4>3. w[1] = r[1 + 1]
        BY <1>11, <4>2
      <4> QED
        BY <4>1, <4>2, <4>3
    <3>2. raised'[q][1] = raised[q][2] /\ Len(raised'[q]) = 1
      BY <1>9, <1>12, <3>1
    <3>3. p_excpvec'[q].old["SYS"] = p_excpvec[q].old["SYS"]
      BY <1>8, <2>3 DEF Kind
    <3>4. CallAt(q, 1)'
      BY <2>3, <3>2, <3>3 DEF CallAt
    <3>5. p_s'[q].at = "usrcall"
      BY <1>5, <1>7, <2>3
    <3> QED
      BY <2>1, <3>2, <3>4, <3>5 DEF StageAt, FlagsAt
  <2> QED
    BY <1>3, <1>9, <2>2, <2>3 DEF Returnable
<1>14. /\ Head(raised[q]).state = old /\ Head(raised[q]).kind = kind
  BY <1>3, <1>9, <1>11 DEF Returnable
<1>15. p_flags' \in [Proc -> SUBSET Kind] /\ \A p \in Proc \ {q} : p_flags'[p] = p_flags[p]
  BY <1>1, <1>6
<1> QED
  BY <1>5, <1>7, <1>8, <1>12, <1>13, <1>14, <1>15, OwnStep

\* Who an interrupt or a V makes ready.
LEMMA WakeableSeq ==
    ASSUME TypeOK, NEW woken \in Wakeable
    PROVE  woken \in Seq(Proc)
<1>1. live \subseteq Proc
  BY DEF TypeOK
<1>2. CASE woken = <<>>
  BY <1>2, EmptySeq
<1>3. CASE \E q \in live : woken = <<q>>
  BY <1>1, <1>3
<1> QED
  BY <1>2, <1>3 DEF Wakeable

\* A service of the nucleus.
LEMMA ServiceStep ==
    ASSUME EInv, NEW q \in Proc, q = self, NEW s \in State, StageAt(q, s), Service(s)
    PROVE  EInv' /\ ReturnsStep /\ DiesStep
<1>1. /\ p_s' = [p_s EXCEPT ![q] = s]
      /\ p_flags' = p_flags /\ p_excpvec' = p_excpvec /\ live' = live /\ cpu' = cpu
      /\ raised' = raised
  BY DEF Service
<1>2. PICK t \in Timing, first \in {<<>>, <<self>>}, woken \in Wakeable :
          Exception(t[1], t[2], FALSE, first \o ready_queue \o woken)
  BY DEF Service
<1>3. TypeOK /\ TimeInv /\ ready_queue \in Seq(Proc) /\ p_s \in [Proc -> State]
  BY DEF EInv, TypeOK, TimeTypeOK
<1>4. first \in Seq(Proc) /\ woken \in Seq(Proc)
  <2>1. woken \in Seq(Proc)
    BY <1>3, WakeableSeq
  <2>2. <<>> \in Seq(Proc) /\ <<self>> \in Seq(Proc)
    BY EmptySeq
  <2> QED
    BY <2>1, <2>2
<1>5. first \o ready_queue \o woken \in Seq(Proc)
  BY <1>3, <1>4, ConcatProperties
<1>6. TimeInv'
  BY <1>2, <1>3, <1>5, KernelTime
<1>7. StageAt(q, p_s[q])'
  <2>1. p_s'[q] = s
    BY <1>1, <1>3
  <2> QED
    BY <1>1, <2>1 DEF StageAt, FlagsAt, CallAt, FaultFirst
<1>8. ~ (Len(raised'[q]) < Len(raised[q]))
  <2>1. Len(raised[q]) \in Nat
    BY LenProperties DEF EInv, TypeOK
  <2>2. raised'[q] = raised[q]
    BY <1>1
  <2> QED
    BY <2>1, <2>2
<1>9. /\ p_s' \in [Proc -> State] /\ p_flags' \in [Proc -> SUBSET Kind]
      /\ p_excpvec' \in [Proc -> Vec] /\ raised' \in [Proc -> Seq(Raise)]
      /\ \A p \in Proc \ {q} : /\ p_s'[p] = p_s[p] /\ p_flags'[p] = p_flags[p]
                               /\ p_excpvec'[p] = p_excpvec[p] /\ raised'[p] = raised[p]
  BY <1>1, <1>3, TypeParts
<1> QED
  BY <1>1, <1>6, <1>7, <1>8, <1>9, OwnStep

\* An interrupt, of the running process or while the CPU waits.
LEMMA InterruptStep ==
    ASSUME EInv, Interrupt
    PROVE  EInv' /\ ReturnsStep /\ DiesStep
<1>1. PICK woken \in Wakeable, k \in 0 .. Busy :
         \/ /\ self = NULL
            /\ \E d \in 0 .. Busy : Interrupted(now + d, k, woken)
            /\ UNCHANGED p_s
         \/ /\ self # NULL
            /\ \E s \in Reached \cup {p_s[self]} : p_s' = [p_s EXCEPT ![self] = s]
            /\ \E d \in Runs : Interrupted(last_ldst + d, k, woken)
  BY DEF Interrupt
<1>2. /\ p_flags' = p_flags /\ p_excpvec' = p_excpvec /\ live' = live /\ cpu' = cpu
      /\ raised' = raised
  BY DEF Interrupt
<1>3. TypeOK /\ TimeInv /\ woken \in Seq(Proc) /\ k \in Nat
  BY <1>1, WakeableSeq, CpuTimeAssumption DEF EInv
<1>4. /\ current_process \in Proc \cup {NULL} /\ p_s \in [Proc -> State]
  BY <1>3 DEF TypeOK, TimeTypeOK
<1>5. TimeInv'
  <2>1. CASE self = NULL /\ \E d \in 0 .. Busy : Interrupted(now + d, k, woken)
    <3>1. PICK d \in 0 .. Busy : Interrupted(now + d, k, woken)
      BY <2>1
    <3>2. d \in Nat
      BY CpuTimeAssumption
    <3>3. PICK exc_start : exc_start = now + d
      OBVIOUS
    <3>4. exc_start = IF current_process = NULL THEN now + d ELSE last_ldst + d
      BY <2>1, <3>3 DEF self
    <3> QED
      BY <1>3, <3>1, <3>2, <3>3, <3>4, InterruptedTime
  <2>2. CASE self # NULL /\ \E d \in Runs : Interrupted(last_ldst + d, k, woken)
    <3>1. PICK d \in Runs : Interrupted(last_ldst + d, k, woken)
      BY <2>2
    <3>2. d \in Nat
      BY <2>2, CpuTimeAssumption DEF Runs
    <3>3. PICK exc_start : exc_start = last_ldst + d
      OBVIOUS
    <3>4. exc_start = IF current_process = NULL THEN now + d ELSE last_ldst + d
      BY <2>2, <3>3 DEF self
    <3> QED
      BY <1>3, <3>1, <3>2, <3>3, <3>4, InterruptedTime
  <2> QED
    BY <1>1, <2>1, <2>2
<1>6. \A p \in Proc : p_s'[p] \in State /\ StageAt(p, p_s'[p])
  <2>1. \A p \in Proc : p_s[p] \in State /\ StageAt(p, p_s[p])
    BY <1>4 DEF EInv, Stages
  <2>2. CASE UNCHANGED p_s
    BY <2>1, <2>2
  <2>3. CASE self # NULL /\ \E s \in Reached \cup {p_s[self]} : p_s' = [p_s EXCEPT ![self] = s]
    <3>1. PICK q \in Proc : q = self
      BY <1>4, <2>3 DEF self
    <3>2. PICK s \in Reached \cup {p_s[q]} : p_s' = [p_s EXCEPT ![q] = s]
      BY <2>3, <3>1
    <3>3. s \in State /\ StageAt(q, s)
      BY <2>1, <3>1, ReachedStage
    <3>4. p_s'[q] = s /\ \A p \in Proc \ {q} : p_s'[p] = p_s[p]
      BY <1>4, <3>2
    <3> QED
      BY <2>1, <3>3, <3>4
  <2> QED
    BY <1>1, <2>2, <2>3
<1>7. Stages'
  BY <1>2, <1>6 DEF Stages, StageAt, FlagsAt, CallAt, FaultFirst
<1>8. p_s' \in [Proc -> State]
  <2>1. p_s' = [p \in Proc |-> p_s'[p]]
    BY <1>1, <1>4
  <2> QED
    BY <1>6, <2>1
<1>9. TypeOK'
  BY <1>2, <1>3, <1>5, <1>8 DEF TypeOK, TimeInv
<1>10. ReturnsStep
  <2> SUFFICES ASSUME NEW p \in Proc, Len(raised'[p]) < Len(raised[p])
               PROVE  FALSE
    BY DEF ReturnsStep
  <2>1. Len(raised[p]) \in Nat
    BY LenProperties DEF EInv, TypeOK
  <2>2. raised'[p] = raised[p]
    BY <1>2
  <2> QED
    BY <2>1, <2>2
<1>11. DiesStep
  BY <1>2 DEF DiesStep
<1> QED
  BY <1>5, <1>7, <1>9, <1>10, <1>11 DEF EInv

\* SYS1 of the init process.
LEMMA CreateStep ==
    ASSUME EInv, Create
    PROVE  EInv' /\ ReturnsStep /\ DiesStep
<1>1. PICK s \in Running("init"), u \in UProc \ live :
        /\ p_s[u].at = "none"
        /\ p_s' = [p_s EXCEPT ![self] = s, ![u] = at("boot SYS")]
        /\ live' = live \cup {u}
        /\ \E t \in Timing : Exception(t[1], t[2], FALSE, <<self>> \o ready_queue \o <<u>>)
        /\ UNCHANGED <<p_flags, p_excpvec, cpu, raised>>
  BY DEF Create
<1>2. PICK q \in Proc : q = self /\ s \in State /\ s.at = "init" /\ StageAt(q, s)
  BY RunningFacts
<1>3. u \in Proc /\ u # q
  BY <1>2, ExceptionsAssumption DEF StageAt
<1>4. PICK b : b = at("boot SYS")
  OBVIOUS
<1>5. b \in State /\ b.at = "boot SYS"
  BY <1>4, Places DEF Code
<1>6. TypeOK /\ TimeInv /\ ready_queue \in Seq(Proc) /\ p_s \in [Proc -> State] /\ live \subseteq Proc
  BY DEF EInv, TypeOK, TimeTypeOK
<1>7. /\ p_s' \in [Proc -> State] /\ p_s'[q] = s /\ p_s'[u] = b
      /\ \A p \in Proc \ {q, u} : p_s'[p] = p_s[p]
  BY <1>1, <1>2, <1>3, <1>4, <1>5, <1>6
<1>8. TimeInv'
  <2>1. PICK t \in Timing : Exception(t[1], t[2], FALSE, <<self>> \o ready_queue \o <<u>>)
    BY <1>1
  <2>2. <<self>> \o ready_queue \o <<u>> \in Seq(Proc)
    BY <1>2, <1>3, <1>6, ConcatProperties
  <2> QED
    BY <1>2, <1>6, <2>1, <2>2, KernelTime
<1>9. p_flags' = p_flags /\ p_excpvec' = p_excpvec /\ cpu' = cpu /\ raised' = raised
  BY <1>1
<1>10. TypeOK'
  BY <1>1, <1>3, <1>6, <1>7, <1>8, <1>9 DEF TypeOK, TimeInv
<1>11. Stages'
  <2> SUFFICES ASSUME NEW p \in Proc PROVE StageAt(p, p_s[p])'
    BY DEF Stages
  <2>1. StageAt(p, p_s[p])
    BY DEF EInv, Stages
  <2>2. StageAt(p, p_s'[p])
    <3>1. CASE p = q
      BY <1>2, <1>7, <3>1
    <3>2. CASE p = u
      BY <1>1, <1>5, <1>7, <2>1, <3>2 DEF StageAt, FlagsAt
    <3>3. CASE p \notin {q, u}
      BY <1>7, <2>1, <3>3
    <3> QED
      BY <3>1, <3>2, <3>3
  <2> QED
    BY <1>9, <2>2 DEF StageAt, FlagsAt, CallAt, FaultFirst
<1>12. ReturnsStep
  <2> SUFFICES ASSUME NEW p \in Proc, Len(raised'[p]) < Len(raised[p])
               PROVE  FALSE
    BY DEF ReturnsStep
  <2>1. Len(raised[p]) \in Nat
    BY LenProperties DEF EInv, TypeOK
  <2>2. raised'[p] = raised[p]
    BY <1>9
  <2> QED
    BY <2>1, <2>2
<1>13. DiesStep
  BY <1>1 DEF DiesStep
<1> QED
  BY <1>8, <1>10, <1>11, <1>12, <1>13 DEF EInv

--------------------------------------------------------------------------------
(* The actions *)

\* Who runs the program or code that it calls has all handlers.
LEMMA InCode ==
    ASSUME EInv, NEW code, NEW s \in Running(code),
           code \in {"program", "SYS", "TLB", "PGMT", "usrcall", "pager", "usr21"}
    PROVE  \E q \in Proc : /\ q = self /\ s \in State /\ s.at = code /\ StageAt(q, s)
                          /\ s \in Reached /\ p_flags[q] = Kind
<1>1. PICK q \in Proc : /\ q = self /\ s \in State /\ s.at = code /\ StageAt(q, s)
                       /\ s \in Reached
  BY RunningFacts
<1>2. p_flags[q] = Kind
  BY <1>1 DEF StageAt, FlagsAt
<1> QED
  BY <1>1, <1>2

\* A SYSCALL of the program.
LEMMA ProgramCallsStep ==
    ASSUME EInv, ProgramCalls
    PROVE  EInv' /\ ReturnsStep /\ DiesStep
<1>1. PICK s \in Running("program"), call \in Call : SysFromProgram([s EXCEPT !.a1 = call])
  BY DEF ProgramCalls
<1>2. PICK q \in Proc : /\ q = self /\ s \in State /\ s.at = "program" /\ StageAt(q, s)
                       /\ s \in Reached /\ p_flags[q] = Kind
  BY InCode
<1>3. PICK old : old = [s EXCEPT !.a1 = call]
  OBVIOUS
<1>4. old \in State /\ old.at = "program" /\ Len(raised[q]) = 0
  BY <1>2, <1>3 DEF State, StageAt
<1>5. CASE Terminate
  <2>1. p_s[q].at = "program"
    BY <1>2, ReachedFrom DEF EInv
  <2>2. MayEnd(q)
    BY <1>2, <2>1 DEF MayEnd
  <2> QED
    BY <1>2, <1>5, <2>2, TerminateStep
<1>6. CASE passup("PGMT", old, "reserved")
  <2>1. PassedFrom(q, "PGMT", old, "reserved") /\ "PGMT" \in Kind /\ "reserved" \in Cause
    BY DEF PassedFrom, Kind, Cause
  <2> QED
    BY <1>2, <1>4, <1>6, <2>1, PassupStep
<1>7. CASE passup("SYS", old, "syscall")
  <2>1. PassedFrom(q, "SYS", old, "syscall") /\ "SYS" \in Kind /\ "syscall" \in Cause
    BY <1>4 DEF PassedFrom, Kind, Cause
  <2> QED
    BY <1>2, <1>4, <1>7, <2>1, PassupStep
<1> QED
  BY <1>1, <1>3, <1>5, <1>6, <1>7 DEF SysFromProgram

\* A fault or another trap, or a breakpoint.
LEMMA FaultStep ==
    ASSUME EInv, Fault \/ Trap \/ Breakpoint
    PROVE  EInv' /\ ReturnsStep /\ DiesStep
<1>1. "TLB" \in Kind /\ "PGMT" \in Kind /\ "SYS" \in Kind
  BY DEF Kind
<1>2. ASSUME NEW s \in Running("program") \cup Running("usrcall")
      PROVE  \E q \in Proc : /\ q = self /\ s \in State /\ p_flags[q] = Kind
                            /\ \/ s.at = "program" /\ Len(raised[q]) = 0
                               \/ s.at = "usrcall" /\ Len(raised[q]) = 1 /\ CallAt(q, 1)
  <2>1. CASE s \in Running("program")
    BY <2>1, InCode DEF StageAt
  <2>2. CASE s \in Running("usrcall")
    BY <2>2, InCode DEF StageAt
  <2> QED
    BY <1>2, <2>1, <2>2
<1>3. CASE Fault
  <2>1. PICK s \in Running("program") \cup Running("usrcall"),
             cause \in {"page fault", "bad address"} : passup("TLB", s, cause)
    BY <1>3 DEF Fault
  <2>2. PICK q \in Proc : /\ q = self /\ s \in State /\ p_flags[q] = Kind
                         /\ \/ s.at = "program" /\ Len(raised[q]) = 0
                            \/ s.at = "usrcall" /\ Len(raised[q]) = 1 /\ CallAt(q, 1)
    BY <1>2
  <2>3. PassedFrom(q, "TLB", s, cause) /\ cause \in Cause
    BY <2>2 DEF PassedFrom, Cause
  <2> QED
    BY <1>1, <2>1, <2>2, <2>3, PassupStep
<1>4. CASE Trap
  <2>1. PICK s \in Running("program") \cup Running("usrcall") : passup("PGMT", s, "other trap")
    BY <1>4 DEF Trap
  <2>2. PICK q \in Proc : q = self /\ s \in State /\ p_flags[q] = Kind
    BY <1>2
  <2>3. PassedFrom(q, "PGMT", s, "other trap") /\ "other trap" \in Cause
    BY DEF PassedFrom, Cause
  <2> QED
    BY <1>1, <2>1, <2>2, <2>3, PassupStep
<1>5. CASE Breakpoint
  <2>1. PICK s \in Running("program") : passup("SYS", s, "breakpoint")
    BY <1>5 DEF Breakpoint
  <2>2. PICK q \in Proc : /\ q = self /\ s \in State /\ p_flags[q] = Kind
                         /\ s.at = "program" /\ Len(raised[q]) = 0
    BY InCode DEF StageAt
  <2>3. PassedFrom(q, "SYS", s, "breakpoint") /\ "breakpoint" \in Cause
    BY <2>2 DEF PassedFrom, Cause
  <2> QED
    BY <1>1, <2>1, <2>2, <2>3, PassupStep
<1> QED
  BY <1>3, <1>4, <1>5

\* The trap handler asks for the end of the process.
LEMMA EndAfterTrapStep ==
    ASSUME EInv, EndAfterTrap
    PROVE  EInv' /\ ReturnsStep /\ DiesStep
<1>1. PICK s \in Running("PGMT") : passup("SYS", [s EXCEPT !.a1 = "TERMINATE"], "syscall")
  BY DEF EndAfterTrap
<1>2. PICK q \in Proc : q = self /\ s \in State /\ p_flags[q] = Kind
  BY InCode
<1>3. PICK old : old = [s EXCEPT !.a1 = "TERMINATE"]
  OBVIOUS
<1>4. old \in State /\ old.a1 = "TERMINATE"
  BY <1>2, <1>3 DEF State, Call
<1>5. PassedFrom(q, "SYS", old, "syscall") /\ "SYS" \in Kind /\ "syscall" \in Cause
  BY <1>4 DEF PassedFrom, Kind, Cause
<1> QED
  BY <1>1, <1>2, <1>3, <1>4, <1>5, PassupStep

\* boot_proc.
LEMMA BootStep ==
    ASSUME EInv, BootSYS \/ BootTLB \/ BootPGMT
    PROVE  EInv' /\ ReturnsStep /\ DiesStep
<1>1. /\ at("boot TLB") \in State /\ at("boot TLB").at = "boot TLB"
      /\ at("boot PGMT") \in State /\ at("boot PGMT").at = "boot PGMT"
      /\ at("program") \in State /\ at("program").at = "program"
  BY Places DEF Code
<1>2. "TLB" \in Kind /\ "PGMT" \in Kind /\ "SYS" \in Kind
  BY DEF Kind
<1>3. CASE BootSYS
  <2>1. SpecifyHandler("SYS", at("boot TLB")) /\ \E s : s \in Running("boot SYS")
    BY <1>3 DEF BootSYS
  <2>2. PICK q \in Proc : q = self /\ p_flags[q] = {} /\ Len(raised[q]) = 0
    BY <2>1, RunningFacts DEF StageAt, FlagsAt
  <2>3. Booted(q, "SYS", at("boot TLB")) /\ "SYS" \notin p_flags[q]
    BY <1>1, <2>2 DEF Booted
  <2> QED
    BY <1>1, <1>2, <2>1, <2>2, <2>3, HandlerStep
<1>4. CASE BootTLB
  <2>1. SpecifyHandler("TLB", at("boot PGMT")) /\ \E s : s \in Running("boot TLB")
    BY <1>4 DEF BootTLB
  <2>2. PICK q \in Proc : q = self /\ p_flags[q] = {"SYS"} /\ Len(raised[q]) = 0
    BY <2>1, RunningFacts DEF StageAt, FlagsAt
  <2>3. Booted(q, "TLB", at("boot PGMT")) /\ "TLB" \notin p_flags[q]
    BY <1>1, <2>2 DEF Booted
  <2> QED
    BY <1>1, <1>2, <2>1, <2>2, <2>3, HandlerStep
<1>5. CASE BootPGMT
  <2>1. SpecifyHandler("PGMT", at("program")) /\ \E s : s \in Running("boot PGMT")
    BY <1>5 DEF BootPGMT
  <2>2. PICK q \in Proc : q = self /\ p_flags[q] = {"SYS", "TLB"} /\ Len(raised[q]) = 0
    BY <2>1, RunningFacts DEF StageAt, FlagsAt
  <2>3. Booted(q, "PGMT", at("program")) /\ "PGMT" \notin p_flags[q]
    BY <1>1, <2>2 DEF Booted, Kind
  <2> QED
    BY <1>1, <1>2, <2>1, <2>2, <2>3, HandlerStep
<1> QED
  BY <1>3, <1>4, <1>5

\* The services that device calls, the pager, SYS21 and the init process ask for.
LEMMA AskStep ==
    ASSUME EInv, AskNucleus \/ CallEnds
    PROVE  EInv' /\ ReturnsStep /\ DiesStep
<1>1. CASE AskNucleus
  <2>1. PICK s \in Running("usrcall") \cup Running("pager") \cup Running("usr21")
                    \cup Running("init") : Service(s)
    BY <1>1 DEF AskNucleus
  <2>2. PICK q \in Proc : q = self /\ s \in State /\ StageAt(q, s)
    BY RunningFacts
  <2> QED
    BY <2>1, <2>2, ServiceStep
<1>2. CASE CallEnds
  <2>1. PICK s \in Running("usrcall") : Service(at("usr21"))
    BY <1>2 DEF CallEnds
  <2>2. PICK q \in Proc : q = self /\ StageAt(q, s) /\ p_flags[q] = Kind
    BY InCode
  <2>3. at("usr21") \in State /\ at("usr21").at = "usr21"
    BY Places DEF Code
  <2>4. StageAt(q, at("usr21"))
    BY <2>2, <2>3 DEF StageAt, FlagsAt
  <2> QED
    BY <2>1, <2>2, <2>3, <2>4, ServiceStep
<1> QED
  BY <1>1, <1>2

\* SYS7 at the end of a device call or of the pager.
LEMMA ReturnStep ==
    ASSUME EInv, CallReturns \/ PagerReturns
    PROVE  EInv' /\ ReturnsStep /\ DiesStep
<1>1. CASE CallReturns
  <2>1. PICK s \in Running("usrcall") : sys7_EXITTRAP("SYS", s.a1)
    BY <1>1 DEF CallReturns
  <2>2. PICK q \in Proc : /\ q = self /\ s \in State /\ p_flags[q] = Kind
                         /\ Len(raised[q]) = 1 /\ CallAt(q, 1)
    BY InCode DEF StageAt
  <2>3. s.a1 \in Call \cup Cause \cup Result /\ Returnable(q, "SYS")
    BY <2>2 DEF State, Returnable, CallAt
  <2> QED
    BY <2>1, <2>2, <2>3, ExitStep
<1>2. CASE PagerReturns
  <2>1. PICK s \in Running("pager") : sys7_EXITTRAP("TLB", s.a1)
    BY <1>2 DEF PagerReturns
  <2>2. PICK q \in Proc : q = self /\ s \in State /\ p_flags[q] = Kind /\ FaultFirst(q)
    BY InCode DEF StageAt
  <2>3. s.a1 \in Call \cup Cause \cup Result /\ Returnable(q, "TLB")
    BY <2>2 DEF State, Returnable, FaultFirst
  <2> QED
    BY <2>1, <2>2, <2>3, ExitStep
<1> QED
  BY <1>1, <1>2

\* The end of a process.
LEMMA EndStep ==
    ASSUME EInv, End
    PROVE  EInv' /\ ReturnsStep /\ DiesStep
<1>1. Terminate /\ \E s : s \in Running("usr21") \cup Running("init")
  BY DEF End
<1>2. PICK s : s \in Running("usr21") \cup Running("init")
  BY <1>1
<1>3. PICK q \in Proc : q = self /\ s \in State /\ StageAt(q, s) /\ s \in Reached
                       /\ s.at \in {"usr21", "init"}
  BY <1>2, RunningFacts
<1>4. CASE s.at = "init"
  BY <1>1, <1>3, <1>4, TerminateStep DEF StageAt
<1>5. CASE s.at = "usr21"
  <2>1. StageAt(q, p_s[q]) /\ TypeOK
    BY DEF EInv, Stages
  <2>2. \/ s = p_s[q] \/ p_s[q].at = "usr21"
        \/ servesCall(p_s[q]) /\ p_excpvec[q].old["SYS"].a1 = "TERMINATE"
        \/ p_s[q].at = "TLB" /\ p_s[q].a1 # "page fault"
    BY <1>3, <1>5, <2>1, ReachedFrom
  <2>3. MayEnd(q)
    BY <1>5, <2>1, <2>2 DEF MayEnd, StageAt
  <2> QED
    BY <1>1, <1>3, <2>3, TerminateStep
<1> QED
  BY <1>3, <1>4, <1>5

\* What leaves all this as it is.
LEMMA StutterStep ==
    ASSUME EInv, UNCHANGED <<areas, live, raised, timeVars>>, cpu' \in {"up", "halted", "fatal"}
    PROVE  EInv' /\ ReturnsStep /\ DiesStep
<1>1. /\ UNCHANGED <<p_s, p_flags, p_excpvec>> /\ live' = live /\ raised' = raised
      /\ UNCHANGED <<current_process, ready_queue, now, last_ldst, p_usr_time, p_sys_time,
                     p_slice_time>>
  BY DEF areas, timeVars
<1>2. TimeInv'
  <2>1. Total(Charges, Proc)' = Total(Charges, Proc)
    BY <1>1 DEF Charges
  <2> QED
    BY <1>1, <2>1 DEF EInv, TimeInv, TimeTypeOK, TimerPositive
<1>3. TypeOK'
  BY <1>1, <1>2 DEF EInv, TypeOK, TimeInv
<1>4. Stages'
  <2> SUFFICES ASSUME NEW p \in Proc PROVE StageAt(p, p_s[p])'
    BY DEF Stages
  <2>1. StageAt(p, p_s[p])
    BY DEF EInv, Stages
  <2> QED
    BY <1>1, <2>1 DEF StageAt, FlagsAt, CallAt, FaultFirst
<1>5. ReturnsStep
  <2> SUFFICES ASSUME NEW p \in Proc, Len(raised'[p]) < Len(raised[p])
               PROVE  FALSE
    BY DEF ReturnsStep
  <2>1. Len(raised[p]) \in Nat
    BY LenProperties DEF EInv, TypeOK
  <2>2. raised'[p] = raised[p]
    BY <1>1
  <2> QED
    BY <2>1, <2>2
<1>6. DiesStep
  BY <1>1 DEF DiesStep
<1> QED
  BY <1>2, <1>3, <1>4, <1>5, <1>6 DEF EInv

\* Every step.
LEMMA NextStep ==
    ASSUME EInv, [Next]_vars
    PROVE  EInv' /\ ReturnsStep /\ DiesStep
<1>1. CASE UnknownCall
  <2>1. UNCHANGED <<areas, live, raised, timeVars>> /\ cpu' = "fatal"
    BY <1>1 DEF UnknownCall, fatal
  <2> QED
    BY <2>1, StutterStep
<1>2. CASE UNCHANGED vars
  <2>1. UNCHANGED <<areas, live, raised, timeVars>> /\ cpu' = cpu
    BY <1>2 DEF vars
  <2>2. cpu \in {"up", "halted", "fatal"}
    BY DEF EInv, TypeOK
  <2> QED
    BY <2>1, <2>2, StutterStep
<1> QED
  BY <1>1, <1>2, CreateStep, BootStep, ProgramCallsStep, FaultStep, EndAfterTrapStep, AskStep,
     ReturnStep, EndStep, InterruptStep DEF Next

\* schedStart and the init process.
LEMMA InitInv == Init => EInv
<1> SUFFICES ASSUME Init PROVE EInv
  OBVIOUS
<1>1. /\ IsFiniteSet(Proc) /\ NULL \notin Proc
      /\ SCHED_TIME_SLICE \in Nat /\ Almost \in Nat /\ Almost < SCHED_TIME_SLICE
      /\ MaxTime \in Nat /\ InitProc \in Proc
  BY CpuTimeAssumption, ExceptionsAssumption
<1>2. /\ current_process = InitProc /\ ready_queue = <<>> /\ now = 0 /\ last_ldst = 0
      /\ p_usr_time = [p \in Proc |-> 0] /\ p_sys_time = [p \in Proc |-> 0]
      /\ p_slice_time = [p \in Proc |-> IF p = InitProc THEN SCHED_TIME_SLICE ELSE 0]
  BY DEF Init, TimeInit
<1>3. p_slice_time \in [Proc -> - MaxTime .. SCHED_TIME_SLICE]
  <2>1. 0 \in - MaxTime .. SCHED_TIME_SLICE /\ SCHED_TIME_SLICE \in - MaxTime .. SCHED_TIME_SLICE
    BY <1>1
  <2> QED
    BY <1>2, <2>1
<1>4. p_usr_time \in [Proc -> 0 .. MaxTime] /\ p_sys_time \in [Proc -> 0 .. MaxTime]
  <2>1. 0 \in 0 .. MaxTime
    BY <1>1
  <2> QED
    BY <1>2, <2>1
<1>5. TimeInv
  <2>1. TimeTypeOK
    BY <1>1, <1>2, <1>3, <1>4, EmptySeq DEF TimeTypeOK
  <2>2. SCHED_TIME_SLICE \in Almost + 1 .. SCHED_TIME_SLICE
    BY <1>1
  <2>3. TimerPositive
    BY <1>1, <1>2, <2>2 DEF TimerPositive
  <2>4. Total(Charges, Proc) = 0
    <3>1. Units(Charges, Proc) = {}
      BY <1>1, <1>2 DEF Units, Charges
    <3> QED
      BY <3>1, FS_EmptySet DEF Total
  <2> QED
    BY <1>2, <2>1, <2>3, <2>4 DEF TimeInv
<1>6. PICK n, i : n = at("none") /\ i = at("init")
  OBVIOUS
<1>7. n \in State /\ n.at = "none" /\ i \in State /\ i.at = "init"
  BY <1>6, Places DEF Code
<1>8. /\ \A p \in Proc : p_s[p] = IF p = InitProc THEN i ELSE n
      /\ DOMAIN p_s = Proc /\ p_s = [p \in Proc |-> p_s[p]]
  BY <1>6 DEF Init
<1>9. p_s \in [Proc -> State]
  BY <1>7, <1>8
<1>10. p_excpvec = [p \in Proc |-> [new |-> [k \in Kind |-> n], old |-> [k \in Kind |-> n]]]
  BY <1>6 DEF Init
<1>11. p_excpvec \in [Proc -> Vec]
  BY <1>7, <1>10 DEF Vec
<1>12. /\ p_flags = [p \in Proc |-> {}] /\ raised = [p \in Proc |-> <<>>]
       /\ live = {InitProc} /\ cpu = "up"
  BY DEF Init
<1>13. p_flags \in [Proc -> SUBSET Kind] /\ raised \in [Proc -> Seq(Raise)]
  BY <1>12, EmptySeq
<1>14. TypeOK
  BY <1>1, <1>5, <1>9, <1>11, <1>12, <1>13, TypeParts DEF TimeInv
<1>15. Stages
  <2> SUFFICES ASSUME NEW p \in Proc PROVE StageAt(p, p_s[p])
    BY DEF Stages
  <2>1. p_flags[p] = {} /\ Len(raised[p]) = 0
    BY <1>12, EmptySeq
  <2>2. p_s[p].at = "none" \/ (p_s[p].at = "init" /\ p = InitProc)
    BY <1>7, <1>8
  <2> QED
    BY <2>1, <2>2 DEF StageAt, FlagsAt
<1> QED
  BY <1>5, <1>14, <1>15 DEF EInv

--------------------------------------------------------------------------------
(* The theorems *)

\* The inductive invariant.
THEOREM Invariant == Spec => []EInv
<1>1. EInv /\ [Next]_vars => EInv'
  BY NextStep
<1> QED
  BY InitInv, <1>1, PTL DEF Spec

\* The types: no time goes past the clock and no slice past its bounds, and the old areas hold
\* states.
THEOREM TypeCorrect == Spec => []TypeOK
<1>1. EInv => TypeOK
  BY DEF EInv
<1> QED
  BY <1>1, Invariant, PTL

\* scheduler() never loads a timer with nothing, or with a negative slice.
THEOREM TimerPositiveAlways == Spec => []TimerPositive
<1>1. EInv => TimerPositive
  BY DEF EInv, TimeInv
<1> QED
  BY <1>1, Invariant, PTL

\* No time is charged twice, whatever the handlers, blocked and dead processes and interrupts
\* take: what all processes are charged is at most the time that has passed.
THEOREM ChargedOnceAlways == Spec => []ChargedOnce
<1>1. EInv => ChargedOnce
  BY ChargesType, ChargedIsTotal DEF EInv, TimeInv
<1> QED
  BY <1>1, Invariant, PTL

\* sys7_EXITTRAP goes back to what the last exception interrupted.
THEOREM ReturnsRightAlways == Spec => ReturnsRight
<1>1. EInv /\ [Next]_vars =>
        [\A p \in Proc :
           Len(raised'[p]) < Len(raised[p]) =>
             LET last == Head(raised[p])
             IN  /\ p_s'[p].at = last.state.at
                 /\ p_s'[p].step = last.state.step
                 /\ last.kind = "TLB" => p_s'[p] = last.state]_vars
  BY NextStep DEF ReturnsStep
<1> QED
  BY <1>1, Invariant, PTL DEF Spec, ReturnsRight

\* A user process dies in usr21_TERMINATE, or for a call below 1.
THEOREM DiesInTerminateAlways == Spec => DiesInTerminate
<1>1. EInv /\ [Next]_vars =>
        [\A u \in live \ live' :
           \/ InitProc \notin live'
           \/ p_s[u].at = "usr21"
           \/ p_s[u].at = "program" /\ p_flags[u] = Kind
           \/ p_s[u].at = "TLB" /\ p_s[u].a1 = "bad address"
           \/ servesCall(p_s[u]) /\ p_excpvec[u].old["SYS"].a1 = "TERMINATE"]_vars
  BY NextStep DEF DiesStep, MayEnd
<1> QED
  BY <1>1, Invariant, PTL DEF Spec, DiesInTerminate

\* Nothing but its end follows a trap of a process.
THEOREM TrapEndsAlways == Spec => []TrapEnds
<1>1. ASSUME EInv PROVE TrapEnds
  <2> SUFFICES ASSUME NEW p \in Proc, NEW i \in DOMAIN raised[p], raised[p][i].kind = "PGMT"
               PROVE  p_s[p].at \in {"PGMT", "SYS", "usr21"}
    BY DEF TrapEnds
  <2>1. PICK r : r = raised[p]
    OBVIOUS
  <2>2. r \in Seq(Raise) /\ p_s[p].at \in Code /\ StageAt(p, p_s[p])
    BY <1>1, <2>1, TypeParts DEF EInv, Stages, State
  <2>3. Len(r) \in Nat /\ i \in 1 .. Len(r) /\ r[i].kind = "PGMT"
    BY <2>1, <2>2, LenProperties
  <2>4. Len(r) # 0
    BY <2>3
  <2>5. CASE p_s[p].at = "usrcall"
    <3>1. Len(r) = 1 /\ r[1].kind = "SYS"
      BY <2>1, <2>2, <2>5 DEF StageAt, CallAt
    <3> QED
      BY <2>3, <3>1
  <2>6. CASE p_s[p].at \in {"TLB", "pager"}
    <3>1. r[1].kind = "TLB" /\ (Len(r) = 1 \/ (Len(r) = 2 /\ r[2].kind = "SYS"))
      BY <2>1, <2>2, <2>6 DEF StageAt, FaultFirst, CallAt
    <3> QED
      BY <2>3, <3>1
  <2>7. p_s[p].at \notin {"none", "init", "boot SYS", "boot TLB", "boot PGMT", "program"}
    BY <2>1, <2>2, <2>4 DEF StageAt
  <2> QED
    BY <2>2, <2>5, <2>6, <2>7 DEF Code
<1> QED
  BY <1>1, Invariant, PTL

================================================================================
