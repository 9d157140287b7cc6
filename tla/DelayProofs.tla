------------------------------ MODULE DelayProofs ------------------------------
EXTENDS Delay, ProcQueueLemmas

(* The proofs about the delay facility (adl.c, delay.c, SYS16 in usrcalls.c), for any    *)
(* number of callers, nodes and seconds.  The ADL stays sorted, which is why it is       *)
(* enough for the daemon to look at its head; and the callers that use the semaphore of  *)
(* a node are as many as the Vs that are still to come, wherever they are.               *)

Sorted(q, w) == \A i, j \in 1 .. Len(q) : i <= j => w[q[i]] <= w[q[j]]

\* The ADL is in the order of its wake times.
AdlSorted == Sorted(adl, wake)

\* Who is blocked on the semaphore of a node is in its queue, once.
SleepersOK ==
    \A n \in Node :
        /\ NoRepeats(sleepers[n])
        /\ Members(sleepers[n]) = {u \in UProc : pc[u] = "blocked" /\ index[u] = n}

\* What EverySleeperHasACall says of one node.
Counted(n) ==
    /\ Cardinality(Delayed(n)) = WakeUps(n)
    /\ Len(sleepers[n]) = IF uproc_semaphore[n] < 0 THEN -uproc_semaphore[n] ELSE 0

--------------------------------------------------------------------------------
(* The lists of adl.c *)

\* clist_insert_asc finds its place in a sorted list: what it passes is not later, what it
\* stops at is later.
LEMMA PlaceFound ==
    ASSUME NEW q \in Seq(Node), NEW w \in [Node -> Int], Sorted(q, w), NEW n \in Node
    PROVE  \E k \in 0 .. Len(q) :
             /\ insertAsc(q, n, w) = SubSeq(q, 1, k) \o <<n>> \o SubSeq(q, k + 1, Len(q))
             /\ \A j \in 1 .. k : w[q[j]] <= w[n]
             /\ k < Len(q) => w[q[k + 1]] > w[n]
<1> DEFINE Place(i) == /\ i <= Len(q) => w[q[i]] > w[n]
                       /\ \A j \in 1 .. i - 1 : w[q[j]] <= w[n]
           at == CHOOSE i \in 1 .. Len(q) + 1 : Place(i)
           K == {i \in 1 .. Len(q) : w[q[i]] <= w[n]}
<1>1. Len(q) \in Nat /\ \A i \in 1 .. Len(q) : q[i] \in Node /\ w[q[i]] \in Int
  BY LenProperties, ElementOfSeq
<1>2. \E i \in 1 .. Len(q) + 1 : Place(i)
  <2>1. \A i \in K : 1 .. i \subseteq K
    BY <1>1 DEF Sorted
  <2>2. Cardinality(K) \in 0 .. Len(q) /\ K = 1 .. Cardinality(K)
    BY <1>1, <2>1, InitialSegment
  <2> HIDE DEF K
  <2>3. \A i \in 1 .. Len(q) : i \in K <=> w[q[i]] <= w[n]
    BY DEF K
  <2>4. Place(Cardinality(K) + 1)
    <3>1. ASSUME Cardinality(K) + 1 <= Len(q)
          PROVE  w[q[Cardinality(K) + 1]] > w[n]
      BY <1>1, <2>2, <2>3, <3>1
    <3>2. \A j \in 1 .. (Cardinality(K) + 1) - 1 : w[q[j]] <= w[n]
      BY <1>1, <2>2, <2>3
    <3> QED
      BY <3>1, <3>2
  <2> QED
    BY <1>1, <2>2, <2>4
<1>3. at \in 1 .. Len(q) + 1 /\ Place(at)
  BY <1>2
<1>4. insertAsc(q, n, w) = SubSeq(q, 1, at - 1) \o <<n>> \o SubSeq(q, at, Len(q))
  BY DEF insertAsc
<1> HIDE DEF at
<1> DEFINE k == at - 1
<1>5. k \in 0 .. Len(q) /\ k + 1 = at
  BY <1>1, <1>3
<1>6. insertAsc(q, n, w) = SubSeq(q, 1, k) \o <<n>> \o SubSeq(q, k + 1, Len(q))
  BY <1>4, <1>5
<1>7. /\ \A j \in 1 .. k : w[q[j]] <= w[n]
      /\ k < Len(q) => w[q[k + 1]] > w[n]
  BY <1>1, <1>3, <1>5
<1> HIDE DEF k
<1> QED
  BY <1>5, <1>6, <1>7

\* clist_insert_asc adds the node, and the list stays sorted.
LEMMA InsertAscProperties ==
    ASSUME NEW q \in Seq(Node), NEW w \in [Node -> Int], Sorted(q, w), NoRepeats(q),
           NEW n \in Node, n \notin Members(q)
    PROVE  /\ insertAsc(q, n, w) \in Seq(Node)
           /\ Members(insertAsc(q, n, w)) = Members(q) \cup {n}
           /\ NoRepeats(insertAsc(q, n, w))
           /\ Sorted(insertAsc(q, n, w), w)
<1>1. PICK k \in 0 .. Len(q) :
        /\ insertAsc(q, n, w) = SubSeq(q, 1, k) \o <<n>> \o SubSeq(q, k + 1, Len(q))
        /\ \A j \in 1 .. k : w[q[j]] <= w[n]
        /\ k < Len(q) => w[q[k + 1]] > w[n]
  BY PlaceFound
<1> DEFINE a == SubSeq(q, 1, k)
           an == Append(a, n)
           b == SubSeq(q, k + 1, Len(q))
           c == an \o b
<1>2. /\ a \in Seq(Node) /\ Len(a) = k /\ \A i \in 1 .. k : a[i] = q[i]
      /\ b \in Seq(Node) /\ Len(b) = Len(q) - k
      /\ \A i \in 1 .. Len(q) - k : b[i] = q[k + i]
      /\ Members(q) = Members(a) \cup Members(b)
      /\ NoRepeats(a) /\ NoRepeats(b) /\ Members(a) \cap Members(b) = {}
  BY SplitMembers, CutMembers
<1>3. a \o <<n>> = an
  BY <1>2
<1> HIDE DEF a, b
<1>4. /\ an \in Seq(Node) /\ Len(an) = k + 1
      /\ \A i \in 1 .. k : an[i] = q[i]
      /\ an[k + 1] = n
      /\ Members(an) = Members(a) \cup {n} /\ NoRepeats(an)
  <2>1. n \notin Members(a) /\ k \in Nat
    BY <1>2, LenProperties
  <2>2. /\ an \in Seq(Node) /\ Members(an) = Members(a) \cup {n} /\ NoRepeats(an)
    BY <1>2, <2>1, AppendMembers
  <2>3. /\ Len(an) = Len(a) + 1
        /\ \A i \in 1 .. Len(a) : an[i] = a[i]
        /\ an[Len(a) + 1] = n
    BY <1>2, AppendProperties
  <2> QED
    BY <1>2, <2>1, <2>2, <2>3
<1> HIDE DEF an
<1>5. /\ c \in Seq(Node) /\ Members(c) = Members(an) \cup Members(b) /\ NoRepeats(c)
  BY <1>2, <1>4, ConcatMembers
<1>6. /\ Len(q) \in Nat /\ Len(c) = Len(q) + 1
      /\ \A i \in 1 .. Len(c) :
           c[i] = IF i <= k THEN q[i] ELSE IF i = k + 1 THEN n ELSE q[i - 1]
  <2>0. Len(q) \in Nat /\ k \in Nat
    BY LenProperties
  <2>1. Len(q) \in Nat /\ Len(c) = Len(q) + 1
        /\ \A i \in 1 .. Len(q) + 1 : c[i] = IF i <= k + 1 THEN an[i] ELSE b[i - (k + 1)]
    <3>0. an \in Seq(Node) /\ b \in Seq(Node)
      BY <1>2, <1>4
    <3>1. /\ Len(c) = Len(an) + Len(b)
          /\ \A i \in 1 .. Len(an) + Len(b) :
               c[i] = IF i <= Len(an) THEN an[i] ELSE b[i - Len(an)]
      BY <3>0, ConcatProperties
    <3>2. Len(an) + Len(b) = Len(q) + 1
      BY <1>2, <1>4, <2>0
    <3> QED
      BY <1>4, <2>0, <3>1, <3>2
  <2>2. ASSUME NEW i \in 1 .. Len(q) + 1, i > k + 1
        PROVE  b[i - (k + 1)] = q[i - 1]
    <3>1. i - (k + 1) \in 1 .. Len(q) - k /\ k + (i - (k + 1)) = i - 1
      BY <2>0, <2>2
    <3> QED
      BY <1>2, <3>1
  <2> HIDE DEF c
  <2>3. ASSUME NEW i \in 1 .. Len(q) + 1
        PROVE  c[i] = IF i <= k THEN q[i] ELSE IF i = k + 1 THEN n ELSE q[i - 1]
    <3>1. CASE i <= k
      BY <1>4, <2>0, <2>1, <3>1
    <3>2. CASE i = k + 1
      BY <1>4, <2>0, <2>1, <3>2
    <3>3. CASE i > k + 1
      BY <2>0, <2>1, <2>2, <3>3
    <3> QED
      BY <2>0, <3>1, <3>2, <3>3
  <2> QED
    BY <2>1, <2>3
<1> HIDE DEF c
<1>7. k \in Nat /\ k <= Len(q)
  BY <1>6
<1>8. Sorted(c, w)
  <2>1. \A i \in 1 .. Len(q) : q[i] \in Node /\ w[q[i]] \in Int
    BY LenProperties, ElementOfSeq
  <2>2. \A i \in k + 1 .. Len(q) : w[q[i]] > w[n]
    <3> SUFFICES ASSUME NEW i \in k + 1 .. Len(q)
                 PROVE  w[q[i]] > w[n]
      OBVIOUS
    <3>1. k + 1 \in 1 .. Len(q) /\ i \in 1 .. Len(q) /\ w[q[k + 1]] <= w[q[i]]
      BY <1>6, <1>7 DEF Sorted
    <3>2. w[q[k + 1]] > w[n] /\ w[n] \in Int
      BY <1>1, <1>6, <1>7, <3>1
    <3>3. w[q[k + 1]] \in Int /\ w[q[i]] \in Int
      BY <2>1, <3>1
    <3> QED
      BY <3>1, <3>2, <3>3
  <2> SUFFICES ASSUME NEW i \in 1 .. Len(q) + 1, NEW j \in 1 .. Len(q) + 1, i < j
               PROVE  w[c[i]] <= w[c[j]]
    <3>1. \A i \in 1 .. Len(c) : w[c[i]] \in Int
      BY <1>6, <1>7, <2>1
    <3> QED
      BY <1>6, <1>7, <3>1 DEF Sorted
  <2>3. CASE j <= k
    BY <1>6, <1>7, <2>3 DEF Sorted
  <2>4. CASE i <= k /\ j = k + 1
    BY <1>1, <1>6, <1>7, <2>4
  <2>5. CASE i <= k /\ j > k + 1
    <3>1. i \in 1 .. Len(q) /\ j - 1 \in 1 .. Len(q) /\ i <= j - 1
      BY <1>6, <1>7, <2>5
    <3>2. c[i] = q[i] /\ c[j] = q[j - 1]
      BY <1>6, <1>7, <2>5
    <3> QED
      BY <3>1, <3>2 DEF Sorted
  <2>6. CASE i = k + 1
    <3>1. j - 1 \in k + 1 .. Len(q)
      BY <1>6, <1>7, <2>6
    <3>2. c[i] = n /\ c[j] = q[j - 1]
      BY <1>6, <1>7, <2>6
    <3>3. w[q[j - 1]] > w[n] /\ w[q[j - 1]] \in Int /\ w[n] \in Int
      BY <1>6, <1>7, <2>1, <2>2, <3>1
    <3> QED
      BY <3>2, <3>3
  <2>7. CASE i > k + 1
    <3>1. i - 1 \in 1 .. Len(q) /\ j - 1 \in 1 .. Len(q) /\ i - 1 <= j - 1
      BY <1>6, <1>7, <2>7
    <3>2. c[i] = q[i - 1] /\ c[j] = q[j - 1]
      BY <1>6, <1>7, <2>7
    <3> QED
      BY <3>1, <3>2 DEF Sorted
  <2> QED
    BY <1>6, <1>7, <2>3, <2>4, <2>5, <2>6, <2>7
<1> QED
  BY <1>1, <1>2, <1>3, <1>4, <1>5, <1>8 DEF a, b, c

\* clist_push puts a free node before the others.
LEMMA PushMembers ==
    ASSUME NEW q \in Seq(Node), NEW n \in Node, n \notin Members(q), NoRepeats(q)
    PROVE  /\ <<n>> \o q \in Seq(Node)
           /\ Members(<<n>> \o q) = Members(q) \cup {n}
           /\ NoRepeats(<<n>> \o q)
<1> DEFINE one == <<n>>
<1>1. one \in Seq(Node) /\ Members(one) = {n} /\ NoRepeats(one)
  BY DEF Members, NoRepeats
<1> HIDE DEF one
<1>2. /\ one \o q \in Seq(Node)
      /\ Members(one \o q) = Members(one) \cup Members(q)
      /\ NoRepeats(one \o q) <=>
           NoRepeats(one) /\ NoRepeats(q) /\ Members(one) \cap Members(q) = {}
  BY <1>1, ConcatMembers
<1> QED
  BY <1>1, <1>2 DEF one

\* What remains of a sorted list when its head is removed is sorted.
LEMMA TailSorted ==
    ASSUME NEW q \in Seq(Node), q # <<>>, NEW w \in [Node -> Int], Sorted(q, w)
    PROVE  Sorted(Tail(q), w)
<1>1. /\ Len(q) \in Nat \ {0} /\ Len(Tail(q)) = Len(q) - 1
      /\ \A i \in 1 .. Len(q) - 1 : Tail(q)[i] = q[i + 1]
  BY HeadTailProperties, EmptySeq, LenProperties
<1> QED
  BY <1>1 DEF Sorted

\* Only the wake times of its members say whether a list is sorted.
LEMMA SortedByMembers ==
    ASSUME NEW q \in Seq(Node), NEW w, NEW v, Sorted(q, w),
           \A n, m \in Members(q) : w[n] <= w[m] => v[n] <= v[m]
    PROVE  Sorted(q, v)
BY DEF Sorted, Members

\* Times asked for are times.
LEMMA SecondsAreTime ==
    /\ MaxSec * SECOND \in Nat /\ 0 \in Time /\ Time \subseteq Int
    /\ \A secCnt \in 0 .. MaxSec : secCnt * SECOND \in Time
<1>1. MaxSec \in Nat /\ SECOND \in Nat \ {0}
  BY DelayAssumption
<1>2. MaxSec * SECOND \in Nat
  BY <1>1
<1>3. ASSUME NEW secCnt \in 0 .. MaxSec
      PROVE  secCnt * SECOND \in 0 .. MaxSec * SECOND
  BY <1>1, SMTT(30)
<1> QED
  BY <1>2, <1>3 DEF Time

\* So is what is left of them a tick later, and later times stay later.
LEMMA LessOfTime ==
    /\ \A t \in Time : Less(t) \in Time
    /\ \A s, t \in Time : s <= t => Less(s) <= Less(t)
BY SecondsAreTime DEF Less, Time

--------------------------------------------------------------------------------
(* Types and lists *)

Base == TypeOK /\ NodesKept /\ AdlSorted

\* All nodes are free at first.
LEMMA BaseInit == Init => Base
<1> SUFFICES ASSUME Init
             PROVE  Base
  OBVIOUS
<1>1. UPROCMAX \in Nat \ {0} /\ NULL \notin Node
  BY DelayAssumption
<1>2. delayd_free \in [1 .. UPROCMAX -> Node]
  BY <1>1 DEF Init, Node
<1>3. delayd_free \in Seq(Node) /\ Len(delayd_free) = UPROCMAX
  BY <1>1, <1>2, IsASeq, LenProperties
<1>4. TypeOK
  BY <1>1, <1>3, SecondsAreTime, EmptySeq DEF Init, TypeOK
<1>5. NodesKept
  <2>1. \A i \in 1 .. UPROCMAX : delayd_free[i] = i - 1
    BY DEF Init
  <2>2. \A n \in Node : n + 1 \in 1 .. UPROCMAX /\ delayd_free[n + 1] = n
    BY <1>1, <2>1 DEF Node
  <2>3. Members(delayd_free) = Node
    BY <1>2, <1>3, <2>2 DEF Members
  <2>4. NoRepeats(delayd_free)
    BY <1>1, <1>3, <2>1 DEF NoRepeats
  <2>5. Members(adl) = {} /\ NoRepeats(adl)
    BY DEF Init, Members, NoRepeats
  <2> QED
    BY <2>3, <2>4, <2>5 DEF NodesKept
<1>6. AdlSorted
  BY DEF Init, AdlSorted, Sorted
<1> QED
  BY <1>4, <1>5, <1>6 DEF Base

\* del_insert moves a node from the free list to its place in the ADL.
LEMMA BaseDelay ==
    ASSUME Base, NEW u \in UProc, NEW secCnt \in 0 .. MaxSec, Delay(u, secCnt)
    PROVE  Base'
<1>1. CASE fatal
  BY <1>1 DEF fatal, lists, sems, Base, TypeOK, NodesKept, AdlSorted
<1>2. CASE delayd_free # <<>> /\ delInsert(u, secCnt)
  <2> DEFINE n == Head(delayd_free)
             rest == Tail(delayd_free)
  <2>1. adl \in Seq(Node) /\ delayd_free \in Seq(Node)
    BY DEF Base, TypeOK
  <2>2. /\ n \in Node /\ rest \in Seq(Node)
        /\ Members(delayd_free) = {n} \cup Members(rest)
        /\ NoRepeats(rest) /\ n \notin Members(rest) /\ n \notin Members(adl)
    BY <1>2, <2>1, HeadTailMembers DEF Base, NodesKept
  <2>3. /\ wake' = [wake EXCEPT ![n] = secCnt * SECOND]
        /\ adl' = insertAsc(adl, n, wake') /\ delayd_free' = rest
        /\ index' = [index EXCEPT ![u] = n] /\ pc' = [pc EXCEPT ![u] = "inserted"]
        /\ left' = [left EXCEPT ![u] = secCnt * SECOND]
        /\ UNCHANGED <<sems, daemon, due, cpu>>
    BY <1>2 DEF delInsert
  <2> HIDE DEF n, rest
  <2>4. secCnt * SECOND \in Time /\ Time \subseteq Int
    BY SecondsAreTime
  <2>5. wake' \in [Node -> Time] /\ left' \in [UProc -> Time]
    BY <2>3, <2>4 DEF Base, TypeOK
  <2>6. Sorted(adl, wake')
    <3>1. \A m \in Members(adl) : wake'[m] = wake[m]
      BY <2>1, <2>2, <2>3, MembersType DEF Base, TypeOK
    <3>2. \A l, m \in Members(adl) : wake[l] <= wake[m] => wake'[l] <= wake'[m]
      BY <3>1
    <3> QED
      BY <2>1, <3>2, SortedByMembers DEF Base, AdlSorted
  <2>7. wake' \in [Node -> Int]
    BY <2>4, <2>5
  <2>8. NoRepeats(adl) /\ n \notin Members(adl)
    BY <2>2 DEF Base, NodesKept
  <2>9. /\ adl' \in Seq(Node) /\ Members(adl') = Members(adl) \cup {n}
        /\ NoRepeats(adl') /\ Sorted(adl', wake')
    <3> DEFINE w == wake'
    <3>1. w \in [Node -> Int] /\ Sorted(adl, w)
      BY <2>6, <2>7
    <3> HIDE DEF w
    <3>2. LET q == insertAsc(adl, n, w)
          IN  /\ q \in Seq(Node) /\ Members(q) = Members(adl) \cup {n}
              /\ NoRepeats(q) /\ Sorted(q, w)
      BY <2>1, <2>2, <2>8, <3>1, InsertAscProperties
    <3> QED
      BY <2>3, <3>2 DEF w
  <2>10. TypeOK'
    BY <2>2, <2>3, <2>5, <2>9, DelayAssumption DEF Base, TypeOK, sems
  <2>11. NodesKept'
    BY <2>2, <2>3, <2>9 DEF Base, NodesKept
  <2> QED
    BY <2>9, <2>10, <2>11 DEF Base, AdlSorted
<1> QED
  BY <1>1, <1>2 DEF Delay

\* del_remove moves the head of the ADL to the free list.
LEMMA BaseRemove ==
    ASSUME Base, Remove
    PROVE  Base'
<1> DEFINE n == Head(adl)
           rest == Tail(adl)
<1>1. adl \in Seq(Node) /\ delayd_free \in Seq(Node) /\ adl # <<>>
  BY DEF Base, TypeOK, Remove, headIsDue
<1>2. /\ n \in Node /\ rest \in Seq(Node)
      /\ Members(adl) = {n} \cup Members(rest)
      /\ NoRepeats(rest) /\ n \notin Members(rest) /\ n \notin Members(delayd_free)
  BY <1>1, HeadTailMembers DEF Base, NodesKept
<1>3. /\ wake' = [wake EXCEPT ![n] = 0]
      /\ adl' = rest /\ delayd_free' = <<n>> \o delayd_free
      /\ due' = n /\ daemon' = "wake"
      /\ UNCHANGED <<sems, pc, index, cpu, left>>
  BY DEF Remove
<1>4. Sorted(rest, wake)
  BY <1>1, SecondsAreTime, TailSorted DEF Base, TypeOK, AdlSorted
<1> HIDE DEF n, rest
<1>5. wake' \in [Node -> Time]
  BY <1>3, SecondsAreTime DEF Base, TypeOK
<1>6. Sorted(rest, wake')
  <2>1. \A m \in Members(rest) : wake'[m] = wake[m]
    BY <1>2, <1>3, MembersType DEF Base, TypeOK
  <2>2. \A l, m \in Members(rest) : wake[l] <= wake[m] => wake'[l] <= wake'[m]
    BY <2>1
  <2> QED
    BY <1>2, <1>4, <2>2, SortedByMembers
<1>7. /\ delayd_free' \in Seq(Node) /\ NoRepeats(delayd_free')
      /\ Members(delayd_free') = Members(delayd_free) \cup {n}
  BY <1>1, <1>2, <1>3, PushMembers DEF Base, NodesKept
<1>8. TypeOK'
  BY <1>2, <1>3, <1>5, <1>7, DelayAssumption DEF Base, TypeOK, sems
<1>9. NodesKept'
  BY <1>2, <1>3, <1>7 DEF Base, NodesKept
<1> QED
  BY <1>3, <1>6, <1>8, <1>9 DEF Base, AdlSorted

\* The clock brings the wake times nearer and keeps their order.
LEMMA BaseTime ==
    ASSUME Base, TimePasses
    PROVE  Base'
<1>1. adl \in Seq(Node) /\ Members(adl) \subseteq Node
  BY MembersType DEF Base, TypeOK
<1>2. wake' \in [Node -> Time] /\ left' \in [UProc -> Time]
  BY LessOfTime DEF Base, TypeOK, TimePasses
<1>3. TypeOK' /\ NodesKept'
  BY <1>2 DEF Base, TypeOK, NodesKept, TimePasses, sems
<1>4. Sorted(adl, wake')
  <2>1. \A n \in Members(adl) : wake[n] \in Time /\ wake'[n] = Less(wake[n])
    BY <1>1 DEF Base, TypeOK, TimePasses
  <2>2. \A n, m \in Members(adl) : wake[n] <= wake[m] => wake'[n] <= wake'[m]
    BY <2>1, LessOfTime
  <2> QED
    BY <1>1, <2>2, SortedByMembers DEF Base, AdlSorted
<1> QED
  BY <1>3, <1>4 DEF Base, AdlSorted, TimePasses

\* Every step keeps types and lists.
LEMMA BaseNext == Base /\ [Next]_vars => Base'
<1> SUFFICES ASSUME Base, [Next]_vars
             PROVE  Base'
  OBVIOUS
<1>1. ASSUME NEW u \in UProc, NEW secCnt \in 0 .. MaxSec, Delay(u, secCnt)
      PROVE  Base'
  BY <1>1, BaseDelay
<1>2. ASSUME NEW u \in UProc, Sleep(u)
      PROVE  Base'
  <2>1. index[u] \in Node /\ uproc_semaphore[index[u]] \in Int
    BY <1>2 DEF Base, TypeOK, Sleep
  <2>2. /\ uproc_semaphore' \in [Node -> Int]
        /\ pc' \in [UProc -> {"run", "inserted", "blocked", "ended"}]
        /\ \A v \in UProc : pc'[v] \in {"inserted", "blocked"} => index[v] # NULL
    BY <1>2, <2>1 DEF Base, TypeOK, Sleep
  <2>3. sleepers' \in [Node -> Seq(UProc)]
    <3>1. Append(sleepers[index[u]], u) \in Seq(UProc)
      BY <2>1, AppendProperties DEF Base, TypeOK
    <3> QED
      BY <1>2, <2>1, <3>1 DEF Base, TypeOK, Sleep
  <2> QED
    BY <1>2, <2>2, <2>3 DEF Base, TypeOK, NodesKept, AdlSorted, Sleep, lists
<1>3. ASSUME NEW u \in UProc, Terminate(u)
      PROVE  Base'
  BY <1>3 DEF Base, TypeOK, NodesKept, AdlSorted, Terminate, lists, sems
<1>4. CASE ClockTick
  BY <1>4 DEF Base, TypeOK, NodesKept, AdlSorted, ClockTick, lists, sems
<1>5. CASE Remove
  BY <1>5, BaseRemove
<1>6. CASE NothingDue
  BY <1>6 DEF Base, TypeOK, NodesKept, AdlSorted, NothingDue, lists, sems
<1>7. CASE Wake
  <2>1. due \in Node /\ sleepers[due] \in Seq(UProc) /\ uproc_semaphore[due] \in Int
    BY <1>7 DEF Base, TypeOK, Wake
  <2>2. sleepers[due] # <<>> =>
          Head(sleepers[due]) \in UProc /\ Tail(sleepers[due]) \in Seq(UProc)
    BY <2>1, HeadTailMembers
  <2>3. /\ sleepers' \in [Node -> Seq(UProc)]
        /\ pc' \in [UProc -> {"run", "inserted", "blocked", "ended"}]
        /\ \A v \in UProc : pc'[v] \in {"inserted", "blocked"} => index[v] # NULL
    <3>1. CASE sleepers[due] = <<>>
      BY <1>7, <3>1 DEF Base, TypeOK, Wake
    <3>2. CASE sleepers[due] # <<>>
      <4>1. /\ pc' = [pc EXCEPT ![Head(sleepers[due])] = "run"]
            /\ sleepers' = [sleepers EXCEPT ![due] = Tail(sleepers[due])]
        BY <1>7, <3>2 DEF Wake
      <4> QED
        BY <2>1, <2>2, <3>2, <4>1 DEF Base, TypeOK
    <3> QED
      BY <3>1, <3>2
  <2>4. uproc_semaphore' \in [Node -> Int]
    BY <1>7, <2>1 DEF Base, TypeOK, Wake
  <2> QED
    BY <1>7, <2>3, <2>4 DEF Base, TypeOK, NodesKept, AdlSorted, Wake, lists
<1>8. CASE TimePasses
  BY <1>8, BaseTime
<1>9. CASE UNCHANGED vars
  BY <1>9 DEF Base, TypeOK, NodesKept, AdlSorted, vars, lists, sems
<1> QED
  BY <1>1, <1>2, <1>3, <1>4, <1>5, <1>6, <1>7, <1>8, <1>9 DEF Next

--------------------------------------------------------------------------------
(* Callers and Vs *)

Calls == SleepersOK /\ EverySleeperHasACall

\* A node is in the ADL once or not at all, so it stands for one V or none.
LEMMA OneNode ==
    ASSUME NEW S, NEW n
    PROVE  Cardinality({m \in S : m = n}) = IF n \in S THEN 1 ELSE 0
<1>1. CASE n \in S
  <2>1. {m \in S : m = n} = {n}
    BY <1>1
  <2> QED
    BY <1>1, <2>1, FS_Singleton
<1>2. CASE n \notin S
  <2>1. {m \in S : m = n} = {}
    BY <1>2
  <2> QED
    BY <1>2, <2>1, FS_EmptySet
<1> QED
  BY <1>1, <1>2

\* The Vs to come, before and after a step.
LEMMA WakeUpsNow ==
    ASSUME NEW n \in Node
    PROVE  /\ WakeUps(n) = (IF n \in Members(adl) THEN 1 ELSE 0)
                           + (IF due = n THEN 1 ELSE 0)
                           + (IF uproc_semaphore[n] > 0 THEN uproc_semaphore[n] ELSE 0)
           /\ WakeUps(n)' = (IF n \in Members(adl') THEN 1 ELSE 0)
                            + (IF due' = n THEN 1 ELSE 0)
                            + (IF uproc_semaphore'[n] > 0 THEN uproc_semaphore'[n] ELSE 0)
<1>1. Cardinality({m \in Members(adl) : m = n}) = IF n \in Members(adl) THEN 1 ELSE 0
  BY OneNode
<1>2. Cardinality({m \in Members(adl') : m = n}) = IF n \in Members(adl') THEN 1 ELSE 0
  BY OneNode
<1> QED
  BY <1>1, <1>2 DEF WakeUps

\* There are finitely many callers.
LEMMA DelayedFinite ==
    ASSUME NEW n
    PROVE  IsFiniteSet(Delayed(n)) /\ Cardinality(Delayed(n)) \in Nat
<1>1. Delayed(n) \in SUBSET UProc
  BY DEF Delayed
<1> QED
  BY <1>1, DelayAssumption, FS_Subset, FS_CardinalityType

\* A node that a step does not concern keeps its account.
LEMMA Undisturbed ==
    ASSUME NEW n \in Node, Counted(n), Delayed(n)' = Delayed(n),
           n \in Members(adl') <=> n \in Members(adl), due' = n <=> due = n,
           uproc_semaphore'[n] = uproc_semaphore[n], sleepers'[n] = sleepers[n]
    PROVE  Counted(n)'
BY WakeUpsNow DEF Counted

\* Nobody sleeps at first.
LEMMA CallsInit == Init => Calls
<1> SUFFICES ASSUME Init, NEW n \in Node
             PROVE  /\ NoRepeats(sleepers[n])
                    /\ Members(sleepers[n]) = {u \in UProc : pc[u] = "blocked" /\ index[u] = n}
                    /\ Counted(n)
  BY DEF Calls, SleepersOK, EverySleeperHasACall, Counted
<1>1. sleepers[n] = <<>> /\ uproc_semaphore[n] = 0 /\ due # n /\ Members(adl) = {}
  BY DelayAssumption DEF Init, Members
<1>2. Delayed(n) = {} /\ {u \in UProc : pc[u] = "blocked" /\ index[u] = n} = {}
  BY DEF Init, Delayed
<1>3. NoRepeats(sleepers[n]) /\ Members(sleepers[n]) = {} /\ Len(sleepers[n]) = 0
  BY <1>1 DEF NoRepeats, Members
<1>4. Counted(n)
  BY <1>1, <1>2, <1>3, WakeUpsNow, FS_EmptySet DEF Counted
<1> QED
  BY <1>2, <1>3, <1>4

\* A caller of del_insert and its node in the ADL are one more on both sides.
LEMMA CallsDelay ==
    ASSUME Base, Base', Calls, NEW u \in UProc, NEW secCnt \in 0 .. MaxSec, Delay(u, secCnt)
    PROVE  Calls'
<1>1. CASE fatal
  BY <1>1 DEF fatal, lists, sems, Calls, SleepersOK, EverySleeperHasACall, Delayed, WakeUps
<1>2. CASE delayd_free # <<>> /\ delInsert(u, secCnt)
  <2>0. PICK k : k = Head(delayd_free)
    OBVIOUS
  <2>1. /\ k \in Node /\ k \notin Members(adl)
        /\ Members(delayd_free) = {k} \cup Members(delayd_free')
        /\ k \notin Members(delayd_free')
    BY <1>2, <2>0, HeadTailMembers DEF Base, TypeOK, NodesKept, delInsert
  <2>2. Members(adl') = Members(adl) \cup {k}
    BY <2>1 DEF Base, NodesKept
  <2>3. /\ pc[u] = "run" /\ pc' = [pc EXCEPT ![u] = "inserted"]
        /\ index' = [index EXCEPT ![u] = k]
        /\ UNCHANGED <<uproc_semaphore, sleepers, due>>
    BY <1>2, <2>0 DEF Delay, delInsert, sems
  <2>4. SleepersOK'
    BY <2>3 DEF Base, TypeOK, Calls, SleepersOK
  <2>5. Delayed(k)' = Delayed(k) \cup {u} /\ u \notin Delayed(k)
    BY <2>3 DEF Base, TypeOK, Delayed
  <2>6. Counted(k)'
    <3>1. Cardinality(Delayed(k)') = Cardinality(Delayed(k)) + 1
      BY <2>5, DelayedFinite, FS_AddElement
    <3>2. WakeUps(k)' = WakeUps(k) + 1
      BY <2>1, <2>2, <2>3, WakeUpsNow DEF Base, TypeOK
    <3> QED
      BY <2>1, <2>3, <3>1, <3>2 DEF Calls, EverySleeperHasACall, Counted
  <2>7. ASSUME NEW n \in Node \ {k}
        PROVE  Counted(n)'
    <3>1. Delayed(n)' = Delayed(n)
      BY <2>3 DEF Base, TypeOK, Delayed
    <3>2. Counted(n)
      BY DEF Calls, EverySleeperHasACall, Counted
    <3> QED
      BY <2>2, <2>3, <3>1, <3>2, Undisturbed
  <2> QED
    BY <2>4, <2>6, <2>7 DEF Calls, EverySleeperHasACall, Counted
<1> QED
  BY <1>1, <1>2 DEF Delay

\* The P takes a V that has come, or the caller waits for one that will.
LEMMA CallsSleep ==
    ASSUME Base, Base', Calls, NEW u \in UProc, Sleep(u)
    PROVE  Calls'
<1>0. PICK k : k = index[u]
  OBVIOUS
<1>1. /\ k \in Node /\ pc[u] = "inserted" /\ uproc_semaphore[k] \in Int
      /\ sleepers[k] \in Seq(UProc)
      /\ uproc_semaphore' = [uproc_semaphore EXCEPT ![k] = uproc_semaphore[k] - 1]
      /\ UNCHANGED <<adl, index, due>>
  BY <1>0 DEF Base, TypeOK, Sleep, lists
<1>2. ASSUME NEW n \in Node \ {k}
      PROVE  Counted(n)' /\ sleepers'[n] = sleepers[n]
  <2>1. sleepers'[n] = sleepers[n] /\ uproc_semaphore'[n] = uproc_semaphore[n]
    BY <1>0, <1>1 DEF Base, TypeOK, Sleep
  <2>2. Delayed(n)' = Delayed(n)
    BY <1>0, <1>1 DEF Base, TypeOK, Delayed, Sleep
  <2>3. Counted(n)
    BY DEF Calls, EverySleeperHasACall, Counted
  <2> QED
    BY <1>1, <2>1, <2>2, <2>3, Undisturbed
<1>3. /\ Cardinality(Delayed(k)) = WakeUps(k) /\ Len(sleepers[k]) \in Nat
      /\ Len(sleepers[k]) = IF uproc_semaphore[k] < 0 THEN -uproc_semaphore[k] ELSE 0
      /\ NoRepeats(sleepers[k])
      /\ Members(sleepers[k]) = {v \in UProc : pc[v] = "blocked" /\ index[v] = k}
  BY <1>1, LenProperties DEF Calls, EverySleeperHasACall, SleepersOK
<1>4. /\ uproc_semaphore'[k] = uproc_semaphore[k] - 1
      /\ sleepers' = IF uproc_semaphore[k] - 1 < 0
                     THEN [sleepers EXCEPT ![k] = Append(sleepers[k], u)] ELSE sleepers
      /\ pc' = [pc EXCEPT ![u] = IF uproc_semaphore[k] - 1 < 0 THEN "blocked" ELSE "run"]
  <2>1. uproc_semaphore'[k] = uproc_semaphore[k] - 1
    BY <1>1 DEF Base, TypeOK
  <2> QED
    BY <1>0, <2>1 DEF Sleep
<1>5. CASE uproc_semaphore[k] > 0
  <2>1. sleepers' = sleepers /\ pc' = [pc EXCEPT ![u] = "run"]
    <3>1. ~ (uproc_semaphore[k] - 1 < 0)
      BY <1>1, <1>5
    <3> QED
      BY <1>4, <3>1
  <2>2. Delayed(k)' = Delayed(k) \ {u} /\ u \in Delayed(k)
    BY <1>0, <1>1, <2>1 DEF Base, TypeOK, Delayed
  <2>3. Cardinality(Delayed(k)') = Cardinality(Delayed(k)) - 1
    BY <2>2, DelayedFinite, FS_RemoveElement
  <2>4. WakeUps(k)' = WakeUps(k) - 1
    BY <1>1, <1>4, <1>5, WakeUpsNow
  <2>5. Counted(k)'
    BY <1>1, <1>3, <1>4, <1>5, <2>1, <2>3, <2>4 DEF Counted
  <2>6. SleepersOK'
    BY <1>1, <2>1 DEF Base, TypeOK, Calls, SleepersOK
  <2> QED
    BY <1>2, <2>5, <2>6 DEF Calls, EverySleeperHasACall, Counted
<1>6. CASE ~ (uproc_semaphore[k] > 0)
  <2>1. /\ sleepers' = [sleepers EXCEPT ![k] = Append(sleepers[k], u)]
        /\ pc' = [pc EXCEPT ![u] = "blocked"]
    <3>1. uproc_semaphore[k] - 1 < 0
      BY <1>1, <1>6
    <3> QED
      BY <1>4, <3>1
  <2>2. Delayed(k)' = Delayed(k)
    BY <1>0, <1>1, <2>1 DEF Base, TypeOK, Delayed
  <2>3. WakeUps(k)' = WakeUps(k)
    BY <1>1, <1>4, <1>6, WakeUpsNow
  <2>4. /\ sleepers'[k] = Append(sleepers[k], u)
        /\ Len(Append(sleepers[k], u)) = Len(sleepers[k]) + 1
        /\ Members(Append(sleepers[k], u)) = Members(sleepers[k]) \cup {u}
        /\ NoRepeats(Append(sleepers[k], u))
    <3>1. u \notin Members(sleepers[k])
      BY <1>1, <1>3
    <3>2. sleepers'[k] = Append(sleepers[k], u)
      BY <1>1, <2>1 DEF Base, TypeOK
    <3> QED
      BY <1>1, <1>3, <3>1, <3>2, AppendMembers, AppendProperties
  <2>5. Counted(k)'
    BY <1>1, <1>3, <1>4, <1>6, <2>2, <2>3, <2>4 DEF Counted
  <2>6. SleepersOK'
    <3> SUFFICES ASSUME NEW n \in Node
                 PROVE  /\ NoRepeats(sleepers'[n])
                        /\ Members(sleepers'[n])
                             = {v \in UProc : pc'[v] = "blocked" /\ index'[v] = n}
      BY DEF SleepersOK
    <3>1. CASE n = k
      BY <1>0, <1>1, <1>3, <2>1, <2>4, <3>1 DEF Base, TypeOK
    <3>2. CASE n # k
      BY <1>0, <1>1, <1>2, <2>1, <3>2 DEF Base, TypeOK, Calls, SleepersOK
    <3> QED
      BY <3>1, <3>2
  <2> QED
    BY <1>2, <2>5, <2>6 DEF Calls, EverySleeperHasACall, Counted
<1> QED
  BY <1>5, <1>6

\* The V that a node in the ADL stands for becomes the one the daemon is about to do.
LEMMA CallsRemove ==
    ASSUME Base, Base', Calls, Remove
    PROVE  Calls'
<1>0. PICK k : k = Head(adl)
  OBVIOUS
<1>1. /\ k \in Node /\ Members(adl) = {k} \cup Members(adl') /\ k \notin Members(adl')
      /\ due = NULL /\ NULL \notin Node /\ due' = k
      /\ UNCHANGED <<uproc_semaphore, sleepers, pc, index>>
  BY <1>0, HeadTailMembers, DelayAssumption DEF Base, TypeOK, NodesKept, Remove, headIsDue, sems
<1>2. SleepersOK' /\ \A n \in Node : Delayed(n)' = Delayed(n)
  BY <1>1 DEF Calls, SleepersOK, Delayed
<1>3. Counted(k)'
  <2>1. WakeUps(k)' = WakeUps(k)
    BY <1>1, WakeUpsNow DEF Base, TypeOK
  <2> QED
    BY <1>1, <1>2, <2>1 DEF Calls, EverySleeperHasACall, Counted
<1>4. ASSUME NEW n \in Node \ {k}
      PROVE  Counted(n)'
  <2>1. Counted(n)
    BY DEF Calls, EverySleeperHasACall, Counted
  <2> QED
    BY <1>1, <1>2, <2>1, Undisturbed
<1> QED
  BY <1>2, <1>3, <1>4 DEF Calls, EverySleeperHasACall, Counted

\* The V wakes a caller, or is kept in the semaphore for one that has not done its P.
LEMMA CallsWake ==
    ASSUME Base, Base', Calls, Wake
    PROVE  Calls'
<1>0. PICK k : k = due
  OBVIOUS
<1>1. /\ k \in Node /\ NULL \notin Node /\ due = k /\ due' = NULL /\ uproc_semaphore[k] \in Int
      /\ sleepers[k] \in Seq(UProc)
      /\ uproc_semaphore' = [uproc_semaphore EXCEPT ![k] = uproc_semaphore[k] + 1]
      /\ UNCHANGED <<adl, index>>
  BY <1>0, DelayAssumption DEF Base, TypeOK, Wake, lists
<1>2. /\ Cardinality(Delayed(k)) = WakeUps(k) /\ Len(sleepers[k]) \in Nat
      /\ Len(sleepers[k]) = IF uproc_semaphore[k] < 0 THEN -uproc_semaphore[k] ELSE 0
      /\ NoRepeats(sleepers[k])
      /\ Members(sleepers[k]) = {v \in UProc : pc[v] = "blocked" /\ index[v] = k}
  BY <1>1, LenProperties DEF Calls, EverySleeperHasACall, SleepersOK
<1>3. uproc_semaphore'[k] = uproc_semaphore[k] + 1
  BY <1>1 DEF Base, TypeOK
<1>4. CASE sleepers[k] = <<>>
  <2>1. sleepers' = sleepers /\ pc' = pc
    BY <1>1, <1>4 DEF Wake
  <2>2. SleepersOK' /\ \A n \in Node : Delayed(n)' = Delayed(n)
    BY <1>1, <2>1 DEF Calls, SleepersOK, Delayed
  <2>3. uproc_semaphore[k] >= 0
    BY <1>1, <1>2, <1>4
  <2>4. WakeUps(k)' = WakeUps(k)
    BY <1>1, <1>3, <2>3, WakeUpsNow
  <2>5. Counted(k)'
    BY <1>1, <1>2, <1>3, <2>1, <2>2, <2>3, <2>4 DEF Counted
  <2>6. ASSUME NEW n \in Node \ {k}
        PROVE  Counted(n)'
    <3>1. Counted(n) /\ uproc_semaphore'[n] = uproc_semaphore[n]
      BY <1>1 DEF Base, TypeOK, Calls, EverySleeperHasACall, Counted
    <3> QED
      BY <1>1, <2>1, <2>2, <3>1, Undisturbed
  <2> QED
    BY <2>2, <2>5, <2>6 DEF Calls, EverySleeperHasACall, Counted
<1>5. CASE sleepers[k] # <<>>
  <2> DEFINE p == Head(sleepers[k])
             rest == Tail(sleepers[k])
  <2>1. /\ p \in UProc /\ Members(sleepers[k]) = {p} \cup Members(rest)
        /\ NoRepeats(rest) /\ p \notin Members(rest) /\ Len(rest) = Len(sleepers[k]) - 1
    BY <1>1, <1>2, <1>5, HeadTailMembers, HeadTailProperties
  <2>2. pc' = [pc EXCEPT ![p] = "run"] /\ sleepers' = [sleepers EXCEPT ![k] = rest]
    BY <1>1, <1>5 DEF Wake
  <2>3. Len(sleepers[k]) > 0
    BY <1>1, <1>2, <1>5, EmptySeq
  <2> HIDE DEF p, rest
  <2>4. /\ sleepers'[k] = rest /\ pc[p] = "blocked" /\ index[p] = k
        /\ uproc_semaphore[k] < 0
    BY <1>1, <1>2, <2>1, <2>2, <2>3 DEF Base, TypeOK
  <2>5. Delayed(k)' = Delayed(k) \ {p} /\ p \in Delayed(k)
    BY <1>1, <2>1, <2>2, <2>4 DEF Base, TypeOK, Delayed
  <2>6. Cardinality(Delayed(k)') = Cardinality(Delayed(k)) - 1
    BY <2>5, DelayedFinite, FS_RemoveElement
  <2>7. WakeUps(k)' = WakeUps(k) - 1
    BY <1>1, <1>3, <2>4, WakeUpsNow
  <2>8. Counted(k)'
    BY <1>1, <1>2, <1>3, <2>1, <2>4, <2>6, <2>7 DEF Counted
  <2>9. ASSUME NEW n \in Node \ {k}
        PROVE  Counted(n)'
    <3>1. /\ Counted(n) /\ uproc_semaphore'[n] = uproc_semaphore[n]
          /\ sleepers'[n] = sleepers[n]
      BY <1>1, <2>2 DEF Base, TypeOK, Calls, EverySleeperHasACall, Counted
    <3>2. Delayed(n)' = Delayed(n)
      BY <1>1, <2>1, <2>2, <2>4 DEF Base, TypeOK, Delayed
    <3> QED
      BY <1>1, <3>1, <3>2, Undisturbed
  <2>10. SleepersOK'
    <3> SUFFICES ASSUME NEW n \in Node
                 PROVE  /\ NoRepeats(sleepers'[n])
                        /\ Members(sleepers'[n])
                             = {v \in UProc : pc'[v] = "blocked" /\ index'[v] = n}
      BY DEF SleepersOK
    <3>1. CASE n = k
      BY <1>1, <1>2, <2>1, <2>2, <2>4, <3>1 DEF Base, TypeOK
    <3>2. CASE n # k
      BY <1>1, <2>1, <2>2, <2>4, <3>2 DEF Base, TypeOK, Calls, SleepersOK
    <3> QED
      BY <3>1, <3>2
  <2> QED
    BY <2>8, <2>9, <2>10 DEF Calls, EverySleeperHasACall, Counted
<1> QED
  BY <1>4, <1>5

\* Every step keeps the accounts.
LEMMA CallsNext == Base /\ Base' /\ Calls /\ [Next]_vars => Calls'
<1> SUFFICES ASSUME Base, Base', Calls, [Next]_vars
             PROVE  Calls'
  OBVIOUS
<1> USE DEF Calls, SleepersOK, EverySleeperHasACall, Delayed, WakeUps
<1>1. ASSUME NEW u \in UProc, NEW secCnt \in 0 .. MaxSec, Delay(u, secCnt)
      PROVE  Calls'
  BY <1>1, CallsDelay
<1>2. ASSUME NEW u \in UProc, Sleep(u)
      PROVE  Calls'
  BY <1>2, CallsSleep
<1>3. ASSUME NEW u \in UProc, Terminate(u)
      PROVE  Calls'
  <2>1. /\ UNCHANGED <<lists, sems, index, due>> /\ pc[u] = "run"
        /\ pc' = [pc EXCEPT ![u] = "ended"]
    BY <1>3 DEF Terminate
  <2>2. \A n \in Node : Delayed(n)' = Delayed(n)
    BY <2>1 DEF Base, TypeOK
  <2>3. \A n \in Node : {v \in UProc : pc'[v] = "blocked" /\ index'[v] = n}
                          = {v \in UProc : pc[v] = "blocked" /\ index[v] = n}
    BY <2>1 DEF Base, TypeOK
  <2> QED
    BY <2>1, <2>2, <2>3 DEF lists, sems
<1>4. CASE ClockTick
  BY <1>4 DEF ClockTick, lists, sems
<1>5. CASE Remove
  BY <1>5, CallsRemove
<1>6. CASE NothingDue
  BY <1>6 DEF NothingDue, lists, sems
<1>7. CASE Wake
  BY <1>7, CallsWake
<1>8. CASE TimePasses
  BY <1>8 DEF TimePasses, sems
<1>9. CASE UNCHANGED vars
  BY <1>9 DEF vars, lists, sems
<1> QED
  BY <1>1, <1>2, <1>3, <1>4, <1>5, <1>6, <1>7, <1>8, <1>9 DEF Next

--------------------------------------------------------------------------------
(* Theorems *)

\* Both halves of the invariant hold in every state.
LEMMA Invariance == Spec => [](Base /\ Calls)
<1>1. Init => Base /\ Calls
  BY BaseInit, CallsInit
<1>2. (Base /\ Calls) /\ [Next]_vars => (Base /\ Calls)'
  BY BaseNext, CallsNext
<1> QED
  BY <1>1, <1>2, PTL DEF Spec

\* Every variable of the delay facility keeps its type, and a caller past del_insert has a
\* semaphore, for any numbers of callers, nodes and seconds.
THEOREM TypeCorrect == Spec => []TypeOK
<1>1. Base /\ Calls => TypeOK
  BY DEF Base
<1> QED
  BY <1>1, Invariance, PTL

\* A node is in the ADL or free, once: del_insert and del_remove lose and double none.
THEOREM NodesKeptAlways == Spec => []NodesKept
<1>1. Base /\ Calls => NodesKept
  BY DEF Base
<1> QED
  BY <1>1, Invariance, PTL

\* No wake-up is lost and none is left over, however the daemon overtakes callers between
\* their del_insert and their P, and whoever uses a node next.
THEOREM EverySleeperHasACallAlways == Spec => []EverySleeperHasACall
<1>1. Base /\ Calls => EverySleeperHasACall
  BY DEF Calls
<1> QED
  BY <1>1, Invariance, PTL

\* The daemon does not go back to SYS9 while a wake time in the ADL has passed: as the ADL
\* is sorted, the first node says enough.
THEOREM OverdueServedAlways == Spec => OverdueServed
<1>1. ASSUME Base, [Next]_vars, daemon = "scan", daemon' = "clock", NEW n \in Members(adl)
      PROVE  ~ (wake[n] < 0)
  <2>1. ~ headIsDue
    BY <1>1 DEF Next, Delay, delInsert, fatal, Sleep, Terminate, ClockTick, Remove, NothingDue,
                Wake, TimePasses, vars
  <2>2. adl \in Seq(Node) /\ Len(adl) \in Nat
    BY <1>1, LenProperties DEF Base, TypeOK
  <2>3. PICK i \in 1 .. Len(adl) : adl[i] = n
    BY DEF Members
  <2>4. adl # <<>> /\ Head(adl) = adl[1]
    BY <2>2, <2>3, HeadTailProperties, EmptySeq
  <2>5. wake[adl[1]] <= wake[adl[i]]
    BY <1>1, <2>2, <2>3 DEF Base, AdlSorted, Sorted
  <2>6. ~ (wake[adl[1]] < 0)
    BY <2>1, <2>4 DEF headIsDue, isDue
  <2>7. wake[adl[1]] \in Int /\ wake[adl[i]] \in Int
    <3>1. adl[1] \in Node /\ adl[i] \in Node
      BY <2>2, <2>3, ElementOfSeq
    <3> QED
      BY <1>1, <3>1, SecondsAreTime DEF Base, TypeOK
  <2> QED
    BY <2>3, <2>5, <2>6, <2>7
<1>2. Base /\ [Next]_vars =>
        [daemon = "scan" /\ daemon' = "clock" => \A n \in Members(adl) : ~ (wake[n] < 0)]_vars
  BY <1>1
<1> QED
  BY <1>2, Invariance, PTL DEF Spec, OverdueServed

================================================================================
