---------------------------- MODULE ProcQueueLemmas ----------------------------
(***************************************************************************)
(* What the queue operators of ProcQueues return, for queues of every      *)
(* length, and that functions defined by recursion over Nat exist.         *)
(***************************************************************************)
EXTENDS ProcQueues, Integers, FiniteSetTheorems, SequenceTheorems, TLAPS

\* A set of positions that holds every smaller position of each of its members is an
\* initial segment, as long as it has members.
LEMMA InitialSegment ==
    ASSUME NEW L \in Nat, NEW S \in SUBSET (1 .. L),
           \A i \in S : 1 .. i \subseteq S
    PROVE  Cardinality(S) \in 0 .. L /\ S = 1 .. Cardinality(S)
<1> DEFINE n == Cardinality(S)
<1>1. IsFiniteSet(S) /\ n \in Nat /\ n <= L
  <2>1. IsFiniteSet(1 .. L) /\ Cardinality(1 .. L) = L
    BY FS_Interval
  <2>2. IsFiniteSet(S) /\ n <= L
    BY <2>1, FS_Subset
  <2> QED
    BY <2>2, FS_CardinalityType
<1>2. S \subseteq 1 .. n
  <2> SUFFICES ASSUME NEW i \in S, i > n PROVE FALSE
    BY <1>1
  <2>1. IsFiniteSet(1 .. i) /\ Cardinality(1 .. i) = i
    BY FS_Interval
  <2>2. Cardinality(1 .. i) <= n
    BY <1>1, FS_Subset
  <2> QED
    BY <1>1, <2>1, <2>2
<1>3. IsFiniteSet(1 .. n) /\ Cardinality(1 .. n) = n
  BY <1>1, FS_Interval
<1>4. S = 1 .. n
  BY <1>1, <1>2, <1>3, FS_Subset
<1> QED
  BY <1>1, <1>4

\* Ranking the members of a finite set of positions numbers them from 1 without gaps.
LEMMA RankIsBijective ==
    ASSUME NEW L \in Nat, NEW K \in SUBSET (1 .. L)
    PROVE  /\ Cardinality(K) \in Nat
           /\ \A i \in K : Cardinality({h \in K : h <= i}) \in 1 .. Cardinality(K)
           /\ \A i, j \in K :
                Cardinality({h \in K : h <= i}) = Cardinality({h \in K : h <= j}) => i = j
           /\ \A m \in 1 .. Cardinality(K) :
                \E i \in K : Cardinality({h \in K : h <= i}) = m
<1> DEFINE upto(i) == {h \in K : h <= i}
           rank == [i \in K |-> Cardinality(upto(i))]
           n == Cardinality(K)
<1>1. IsFiniteSet(K) /\ n \in Nat
  <2>1. IsFiniteSet(1 .. L)
    BY FS_Interval
  <2>2. IsFiniteSet(K)
    BY <2>1, FS_Subset
  <2> QED
    BY <2>2, FS_CardinalityType
<1>2. ASSUME NEW i \in K
      PROVE  IsFiniteSet(upto(i)) /\ Cardinality(upto(i)) \in 1 .. n
  <2>1. IsFiniteSet(upto(i)) /\ Cardinality(upto(i)) <= n
    BY <1>1, FS_Subset
  <2>2. Cardinality(upto(i)) \in Nat /\ Cardinality(upto(i)) # 0
    BY <2>1, FS_CardinalityType, FS_EmptySet
  <2> QED
    BY <1>1, <2>1, <2>2
<1>3. ASSUME NEW i \in K, NEW j \in K, i < j
      PROVE  Cardinality(upto(i)) # Cardinality(upto(j))
  <2>1. i \in Int /\ j \in Int /\ \A h \in K : h \in Int
    BY K \subseteq Int
  <2>2. upto(i) \subseteq upto(j)
    <3> SUFFICES ASSUME NEW h \in K, h <= i
                 PROVE  h <= j
      OBVIOUS
    <3>1. h \in Int
      BY <2>1
    <3> QED
      BY <1>3, <2>1, <3>1
  <2>3. j \in upto(j) /\ j \notin upto(i)
    BY <1>3, <2>1
  <2> HIDE DEF upto
  <2>4. upto(i) \in SUBSET upto(j) /\ upto(i) # upto(j)
    BY <2>2, <2>3
  <2> QED
    BY <1>2, <2>4, FS_Subset
<1>4. rank \in Injection(K, 1 .. n)
  <2>1. rank \in [K -> 1 .. n]
    BY <1>2
  <2>2. \A i, j \in K : rank[i] = rank[j] => i = j
    BY <1>3
  <2> QED
    BY <2>1, <2>2 DEF Injection, IsInjective
<1>5. rank \in Surjection(K, 1 .. n)
  BY <1>1, <1>4, FS_Injection, FS_Interval
<1>6. \A m \in 1 .. n : \E i \in K : rank[i] = m
  BY <1>5 DEF Surjection
<1> QED
  BY <1>1, <1>2, <1>3, <1>6

\* A set of positions has a least one.
LEMMA LeastIndex ==
    ASSUME NEW L \in Nat, NEW K \in SUBSET (1 .. L), K # {}
    PROVE  \E i \in K : \A h \in K : i <= h
<1>1. /\ Cardinality(K) \in Nat
      /\ \A i \in K : Cardinality({h \in K : h <= i}) \in 1 .. Cardinality(K)
      /\ \A m \in 1 .. Cardinality(K) : \E i \in K : Cardinality({h \in K : h <= i}) = m
  BY RankIsBijective
<1>2. 1 \in 1 .. Cardinality(K)
  <2>1. PICK i \in K : TRUE
    OBVIOUS
  <2>2. PICK n : n = Cardinality({h \in K : h <= i})
    OBVIOUS
  <2>3. n \in 1 .. Cardinality(K)
    BY <1>1, <2>2
  <2> QED
    BY <1>1, <2>3
<1>3. PICK i \in K : Cardinality({h \in K : h <= i}) = 1
  BY <1>1, <1>2
<1>4. PICK T : T = {h \in K : h <= i}
  OBVIOUS
<1>5. IsFiniteSet(1 .. L) /\ T \subseteq 1 .. L
  <2>1. IsFiniteSet(1 .. L)
    BY FS_Interval
  <2> QED
    BY <1>4, <2>1
<1>6. IsFiniteSet(T) /\ Cardinality(T) = 1
  BY <1>3, <1>4, <1>5, FS_Subset
<1>7. PICK x : T = {x}
  BY <1>6, FS_Singleton
<1>8. i \in Int /\ \A h \in K : h \in Int /\ (h <= i => h = i)
  BY <1>4, <1>7
<1> QED
  BY <1>8

\* Removing processes from a queue leaves exactly the others, in a queue that repeats
\* none if the original did not.
THEOREM WithoutProperties ==
    ASSUME NEW A, NEW q \in Seq(A), NEW S
    PROVE  /\ Without(q, S) \in Seq(A)
           /\ Members(Without(q, S)) = Members(q) \ S
           /\ NoRepeats(q) => NoRepeats(Without(q, S))
<1> DEFINE K == {i \in 1 .. Len(q) : q[i] \notin S}
           rank(i) == Cardinality({h \in K : h <= i})
           n == Cardinality(K)
           at(j) == CHOOSE i \in K : rank(i) = j
           w == Without(q, S)
<1>1. Len(q) \in Nat /\ \A i \in 1 .. Len(q) : q[i] \in A
  BY LenProperties, ElementOfSeq
<1>2. /\ n \in Nat
      /\ \A i \in K : rank(i) \in 1 .. n
      /\ \A i, j \in K : rank(i) = rank(j) => i = j
      /\ \A m \in 1 .. n : \E i \in K : rank(i) = m
  <2>1. K \in SUBSET (1 .. Len(q))
    OBVIOUS
  <2> HIDE DEF K
  <2> QED
    BY <1>1, <2>1, RankIsBijective
<1>3. \A m \in 1 .. n : at(m) \in K /\ rank(at(m)) = m
  BY <1>2
<1>4. \A i \in K : at(rank(i)) = i
  BY <1>2, <1>3
<1> HIDE DEF K, rank, n, at
<1>5. w = [j \in 1 .. n |-> q[at(j)]]
  BY DEF Without, K, rank, n, at
<1>6. \A j \in 1 .. n : at(j) \in 1 .. Len(q) /\ q[at(j)] \in A /\ q[at(j)] \notin S
  BY <1>1, <1>3 DEF K
<1>7. w \in [1 .. n -> A] /\ w \in Seq(A) /\ Len(w) = n
  BY <1>2, <1>5, <1>6
<1>8. Members(w) = Members(q) \ S
  <2>1. \A x : x \in Members(w) => x \in Members(q) \ S
    BY <1>5, <1>6, <1>7 DEF Members
  <2>2. ASSUME NEW x \in Members(q) \ S
        PROVE  x \in Members(w)
    <3>1. PICK i \in 1 .. Len(q) : q[i] = x
      BY DEF Members
    <3>2. i \in K
      BY <2>2, <3>1 DEF K
    <3>3. rank(i) \in 1 .. n /\ w[rank(i)] = x
      BY <1>2, <1>4, <1>5, <3>1, <3>2
    <3> QED
      BY <1>7, <3>3 DEF Members
  <2> QED
    BY <2>1, <2>2
<1>9. ASSUME NoRepeats(q)
      PROVE  NoRepeats(w)
  <2> SUFFICES ASSUME NEW i \in 1 .. n, NEW j \in 1 .. n, w[i] = w[j]
               PROVE  i = j
    BY <1>7 DEF NoRepeats
  <2>1. at(i) = at(j)
    BY <1>5, <1>6, <1>9 DEF NoRepeats
  <2> QED
    BY <1>3, <2>1
<1> QED
  BY <1>7, <1>8, <1>9

\* Appending a process.
LEMMA AppendMembers ==
    ASSUME NEW A, NEW q \in Seq(A), NEW p \in A
    PROVE  /\ Append(q, p) \in Seq(A)
           /\ Members(Append(q, p)) = Members(q) \cup {p}
           /\ NoRepeats(q) /\ p \notin Members(q) => NoRepeats(Append(q, p))
<1>1. /\ Append(q, p) \in Seq(A) /\ Len(q) \in Nat
      /\ Len(Append(q, p)) = Len(q) + 1
      /\ \A i \in 1 .. Len(q) : Append(q, p)[i] = q[i]
      /\ Append(q, p)[Len(q) + 1] = p
  BY AppendProperties, LenProperties
<1>2. Members(Append(q, p)) = Members(q) \cup {p}
  <2>1. \A x : x \in Members(Append(q, p)) => x \in Members(q) \cup {p}
    BY <1>1 DEF Members
  <2>2. \A x \in Members(q) : x \in Members(Append(q, p))
    <3> TAKE x \in Members(q)
    <3>1. PICK i \in 1 .. Len(q) : q[i] = x
      BY DEF Members
    <3>2. i \in 1 .. Len(Append(q, p)) /\ Append(q, p)[i] = x
      BY <1>1, <3>1
    <3> QED
      BY <3>2 DEF Members
  <2>3. p \in Members(Append(q, p))
    <3>1. Len(q) + 1 \in 1 .. Len(Append(q, p))
      BY <1>1
    <3> QED
      BY <1>1, <3>1 DEF Members
  <2> QED
    BY <2>1, <2>2, <2>3
<1>3. ASSUME NoRepeats(q), p \notin Members(q)
      PROVE  NoRepeats(Append(q, p))
  <2>1. \A i \in 1 .. Len(q) : q[i] # p
    BY <1>3 DEF Members
  <2> QED
    BY <1>1, <1>3, <2>1 DEF NoRepeats
<1> QED
  BY <1>1, <1>2, <1>3

\* Concatenating two queues.
LEMMA ConcatMembers ==
    ASSUME NEW A, NEW q \in Seq(A), NEW r \in Seq(A)
    PROVE  /\ q \o r \in Seq(A)
           /\ Members(q \o r) = Members(q) \cup Members(r)
           /\ NoRepeats(q \o r) <=>
                NoRepeats(q) /\ NoRepeats(r) /\ Members(q) \cap Members(r) = {}
<1> DEFINE c == q \o r
<1>1. /\ c \in Seq(A) /\ Len(q) \in Nat /\ Len(r) \in Nat
      /\ Len(c) = Len(q) + Len(r)
      /\ \A i \in 1 .. Len(q) : i \in 1 .. Len(c) /\ c[i] = q[i]
      /\ \A i \in 1 .. Len(r) : Len(q) + i \in 1 .. Len(c) /\ c[Len(q) + i] = r[i]
  BY ConcatProperties, LenProperties
<1>2. \A i \in 1 .. Len(c) : \/ i \in 1 .. Len(q)
                             \/ i - Len(q) \in 1 .. Len(r) /\ c[i] = r[i - Len(q)]
  BY <1>1
<1> HIDE DEF c
<1>3. Members(c) = Members(q) \cup Members(r)
  <2>1. \A x : x \in Members(c) => x \in Members(q) \cup Members(r)
    BY <1>1, <1>2 DEF Members
  <2>2. \A x : x \in Members(q) => x \in Members(c)
    BY <1>1 DEF Members
  <2>3. \A x : x \in Members(r) => x \in Members(c)
    BY <1>1 DEF Members
  <2> QED
    BY <2>1, <2>2, <2>3
<1>4. ASSUME NoRepeats(c)
      PROVE  NoRepeats(q) /\ NoRepeats(r) /\ Members(q) \cap Members(r) = {}
  <2>1. NoRepeats(q)
    BY <1>1, <1>4 DEF NoRepeats
  <2>2. NoRepeats(r)
    <3> SUFFICES ASSUME NEW i \in 1 .. Len(r), NEW j \in 1 .. Len(r), r[i] = r[j]
                 PROVE  i = j
      BY DEF NoRepeats
    <3>1. Len(q) + i = Len(q) + j
      BY <1>1, <1>4 DEF NoRepeats
    <3> QED
      BY <1>1, <3>1
  <2>3. ASSUME NEW i \in 1 .. Len(q), NEW j \in 1 .. Len(r)
        PROVE  q[i] # r[j]
    <3>1. i # Len(q) + j
      BY <1>1
    <3> QED
      BY <1>1, <1>4, <3>1 DEF NoRepeats
  <2> QED
    BY <2>1, <2>2, <2>3 DEF Members
<1>5. ASSUME NoRepeats(q), NoRepeats(r), Members(q) \cap Members(r) = {}
      PROVE  NoRepeats(c)
  <2>0. \A i \in 1 .. Len(q), j \in 1 .. Len(r) : q[i] # r[j]
    BY <1>5 DEF Members
  <2> SUFFICES ASSUME NEW i \in 1 .. Len(c), NEW j \in 1 .. Len(c), c[i] = c[j]
               PROVE  i = j
    BY DEF NoRepeats
  <2>1. CASE i \in 1 .. Len(q) /\ j \in 1 .. Len(q)
    BY <1>1, <1>5, <2>1 DEF NoRepeats
  <2>2. CASE i \notin 1 .. Len(q) /\ j \notin 1 .. Len(q)
    <3>1. i - Len(q) = j - Len(q)
      BY <1>2, <1>5, <2>2 DEF NoRepeats
    <3> QED
      BY <1>1, <3>1
  <2>3. CASE i \in 1 .. Len(q) /\ j \notin 1 .. Len(q)
    BY <1>1, <1>2, <2>0, <2>3
  <2>4. CASE i \notin 1 .. Len(q) /\ j \in 1 .. Len(q)
    BY <1>1, <1>2, <2>0, <2>4
  <2> QED
    BY <2>1, <2>2, <2>3, <2>4
<1> QED
  BY <1>1, <1>3, <1>4, <1>5 DEF c

\* Cutting a queue in two.
LEMMA SplitMembers ==
    ASSUME NEW A, NEW q \in Seq(A), NEW n \in 0 .. Len(q)
    PROVE  /\ SubSeq(q, 1, n) \in Seq(A) /\ Len(SubSeq(q, 1, n)) = n
           /\ SubSeq(q, n + 1, Len(q)) \in Seq(A)
           /\ Len(SubSeq(q, n + 1, Len(q))) = Len(q) - n
           /\ q = SubSeq(q, 1, n) \o SubSeq(q, n + 1, Len(q))
           /\ \A i \in 1 .. n : SubSeq(q, 1, n)[i] = q[i]
           /\ \A i \in 1 .. Len(q) - n : SubSeq(q, n + 1, Len(q))[i] = q[n + i]
<1>1. Len(q) \in Nat /\ \A i \in 1 .. Len(q) : q[i] \in A
  BY LenProperties, ElementOfSeq
<1> DEFINE a == SubSeq(q, 1, n)
           b == SubSeq(q, n + 1, Len(q))
<1>2. a \in Seq(A) /\ Len(a) = n /\ \A i \in 1 .. n : a[i] = q[i]
  <2>1. \A i \in 1 .. n : q[i] \in A
    BY <1>1
  <2>2. /\ a \in Seq(A)
        /\ Len(a) = IF 1 <= n THEN n - 1 + 1 ELSE 0
        /\ \A i \in 1 .. n - 1 + 1 : a[i] = q[1 + i - 1]
    BY <1>1, <2>1, SubSeqProperties
  <2> QED
    BY <1>1, <2>2
<1>3. /\ b \in Seq(A) /\ Len(b) = Len(q) - n
      /\ \A i \in 1 .. Len(q) - n : b[i] = q[n + i]
  <2>1. \A i \in n + 1 .. Len(q) : q[i] \in A
    BY <1>1
  <2>2. /\ b \in Seq(A)
        /\ Len(b) = IF n + 1 <= Len(q) THEN Len(q) - (n + 1) + 1 ELSE 0
        /\ \A i \in 1 .. Len(q) - (n + 1) + 1 : b[i] = q[(n + 1) + i - 1]
    BY <1>1, <2>1, SubSeqProperties, n + 1 \in Int
  <2> QED
    BY <1>1, <2>2
<1> HIDE DEF a, b
<1>4. /\ a \o b \in Seq(A) /\ Len(a \o b) = Len(q)
      /\ \A i \in 1 .. Len(q) : (a \o b)[i] = q[i]
  <2>1. /\ a \o b \in Seq(A) /\ Len(a \o b) = Len(a) + Len(b)
        /\ \A i \in 1 .. Len(a) + Len(b) :
             (a \o b)[i] = IF i <= Len(a) THEN a[i] ELSE b[i - Len(a)]
    BY <1>2, <1>3, ConcatProperties
  <2>2. Len(a) + Len(b) = Len(q)
    BY <1>1, <1>2, <1>3
  <2>3. ASSUME NEW i \in 1 .. Len(q)
        PROVE  (a \o b)[i] = q[i]
    <3>1. CASE i <= n
      BY <1>1, <1>2, <2>1, <2>2, <3>1
    <3>2. CASE ~ (i <= n)
      <4>1. i - n \in 1 .. Len(q) - n
        BY <1>1, <3>2
      <4>2. b[i - n] = q[n + (i - n)]
        BY <1>3, <4>1
      <4>3. n + (i - n) = i
        BY <1>1
      <4> QED
        BY <1>1, <1>2, <2>1, <2>2, <3>2, <4>2, <4>3
    <3>3. i \in Int /\ n \in Int
      BY <1>1
    <3> QED
      BY <3>1, <3>2, <3>3
  <2> QED
    BY <2>1, <2>2, <2>3
<1>5. q = a \o b
  BY <1>4, SeqEqual
<1> QED
  BY <1>2, <1>3, <1>5 DEF a, b

\* The processes before and after a cut of a queue that repeats none.
LEMMA CutMembers ==
    ASSUME NEW A, NEW q \in Seq(A), NEW n \in 0 .. Len(q)
    PROVE  LET a == SubSeq(q, 1, n)
               b == SubSeq(q, n + 1, Len(q))
           IN  /\ a \in Seq(A) /\ b \in Seq(A)
               /\ Len(a) = n /\ Len(b) = Len(q) - n
               /\ Members(q) = Members(a) \cup Members(b)
               /\ NoRepeats(q) =>
                    NoRepeats(a) /\ NoRepeats(b) /\ Members(a) \cap Members(b) = {}
<1> DEFINE a == SubSeq(q, 1, n)
           b == SubSeq(q, n + 1, Len(q))
<1>1. /\ a \in Seq(A) /\ b \in Seq(A) /\ q = a \o b
      /\ Len(a) = n /\ Len(b) = Len(q) - n
  BY SplitMembers
<1> HIDE DEF a, b
<1>2. /\ Members(a \o b) = Members(a) \cup Members(b)
      /\ NoRepeats(a \o b) <=> NoRepeats(a) /\ NoRepeats(b) /\ Members(a) \cap Members(b) = {}
  BY <1>1, ConcatMembers
<1> QED
  BY <1>1, <1>2 DEF a, b

\* The first n + 1 processes of a queue are the first n and the head of the rest.
LEMMA NextMember ==
    ASSUME NEW A, NEW q \in Seq(A), NEW n \in 0 .. Len(q), n < Len(q)
    PROVE  /\ Members(SubSeq(q, 1, n + 1)) = Members(SubSeq(q, 1, n)) \cup {q[n + 1]}
           /\ Head(SubSeq(q, n + 1, Len(q))) = q[n + 1]
<1> DEFINE a == SubSeq(q, 1, n)
           b == SubSeq(q, n + 1, Len(q))
           c == SubSeq(q, 1, n + 1)
<1>1. Len(q) \in Nat /\ n + 1 \in 0 .. Len(q)
  BY LenProperties
<1>2. /\ a \in Seq(A) /\ Len(a) = n /\ \A i \in 1 .. n : a[i] = q[i]
      /\ b \in Seq(A) /\ Len(b) = Len(q) - n
      /\ \A i \in 1 .. Len(q) - n : b[i] = q[n + i]
  BY SplitMembers
<1>3. c \in Seq(A) /\ Len(c) = n + 1 /\ \A i \in 1 .. n + 1 : c[i] = q[i]
  BY <1>1, SplitMembers
<1> HIDE DEF a, b, c
<1>4. Members(c) = Members(a) \cup {q[n + 1]}
  BY <1>1, <1>2, <1>3 DEF Members
<1>5. Head(b) = q[n + 1]
  <2>1. 1 \in 1 .. Len(q) - n
    BY <1>1
  <2> QED
    BY <1>1, <1>2, <2>1, HeadTailProperties, EmptySeq
<1> QED
  BY <1>4, <1>5 DEF a, b, c

\* Taking the head of a queue.
LEMMA HeadTailMembers ==
    ASSUME NEW A, NEW q \in Seq(A), q # <<>>
    PROVE  /\ Head(q) \in A /\ Tail(q) \in Seq(A)
           /\ Members(q) = {Head(q)} \cup Members(Tail(q))
           /\ NoRepeats(q) => NoRepeats(Tail(q)) /\ Head(q) \notin Members(Tail(q))
<1>1. /\ Len(q) \in Nat \ {0} /\ Head(q) = q[1] /\ Head(q) \in A
      /\ Tail(q) \in Seq(A) /\ Len(Tail(q)) = Len(q) - 1
      /\ \A i \in 1 .. Len(q) - 1 : Tail(q)[i] = q[i + 1]
  BY HeadTailProperties, EmptySeq, LenProperties, ElementOfSeq
<1>2. ASSUME NEW i \in 1 .. Len(q), i # 1
      PROVE  i - 1 \in 1 .. Len(q) - 1 /\ q[i] = Tail(q)[i - 1]
  <2>1. i - 1 \in 1 .. Len(q) - 1
    BY <1>1, <1>2
  <2>2. Tail(q)[i - 1] = q[(i - 1) + 1] /\ (i - 1) + 1 = i
    BY <1>1, <2>1
  <2> QED
    BY <2>1, <2>2
<1>3. Members(q) = {Head(q)} \cup Members(Tail(q))
  <2>1. \A x \in Members(q) : x = Head(q) \/ x \in Members(Tail(q))
    BY <1>1, <1>2 DEF Members
  <2>2. \A x \in Members(Tail(q)) : x \in Members(q)
    BY <1>1 DEF Members
  <2>3. Head(q) \in Members(q)
    BY <1>1 DEF Members
  <2> QED
    BY <2>1, <2>2, <2>3
<1>4. ASSUME NoRepeats(q)
      PROVE  NoRepeats(Tail(q)) /\ Head(q) \notin Members(Tail(q))
  <2>1. \A i, j \in 1 .. Len(q) - 1 : Tail(q)[i] = Tail(q)[j] => i + 1 = j + 1
    BY <1>1, <1>4 DEF NoRepeats
  <2>2. \A i \in 1 .. Len(q) - 1 : Tail(q)[i] # q[1]
    <3> SUFFICES ASSUME NEW i \in 1 .. Len(q) - 1, Tail(q)[i] = q[1]
                 PROVE  FALSE
      OBVIOUS
    <3>1. i + 1 \in 1 .. Len(q) /\ 1 \in 1 .. Len(q) /\ i + 1 # 1 /\ q[i + 1] = q[1]
      BY <1>1
    <3> QED
      BY <1>4, <3>1 DEF NoRepeats
  <2> QED
    BY <1>1, <2>1, <2>2 DEF NoRepeats, Members
<1> QED
  BY <1>1, <1>3, <1>4

\* The members of a queue of processes are processes, and only the empty queue has none.
LEMMA MembersType ==
    ASSUME NEW A, NEW q \in Seq(A)
    PROVE  /\ Members(q) \in SUBSET A
           /\ Members(q) = {} <=> q = <<>>
<1>1. Members(q) \in SUBSET A
  BY LenProperties, ElementOfSeq DEF Members
<1>2. q = <<>> => Members(q) = {}
  BY DEF Members
<1>3. q # <<>> => Members(q) # {}
  BY HeadTailMembers
<1> QED
  BY <1>1, <1>2, <1>3

\* A queue that repeats none is as long as it has members.
LEMMA CountMembers ==
    ASSUME NEW A, NEW q \in Seq(A), NoRepeats(q)
    PROVE  IsFiniteSet(Members(q)) /\ Cardinality(Members(q)) = Len(q)
<1>1. Len(q) \in Nat
  BY LenProperties
<1>2. IsFiniteSet(1 .. Len(q)) /\ Cardinality(1 .. Len(q)) = Len(q)
  BY <1>1, FS_Interval
<1> DEFINE f == [i \in 1 .. Len(q) |-> q[i]]
<1>3. f \in Bijection(1 .. Len(q), Members(q))
  <2>1. f \in [1 .. Len(q) -> Members(q)]
    BY DEF Members
  <2>2. \A i, j \in 1 .. Len(q) : f[i] = f[j] => i = j
    BY DEF NoRepeats
  <2>3. \A x \in Members(q) : \E i \in 1 .. Len(q) : f[i] = x
    BY DEF Members
  <2> QED
    BY <2>1, <2>2, <2>3 DEF Bijection, Injection, IsInjective, Surjection
<1>4. ExistsBijection(1 .. Len(q), Members(q))
  BY <1>3 DEF ExistsBijection
<1> QED
  BY <1>2, <1>4, FS_Bijection

\* Sending processes from the head to the tail keeps the processes.
THEOREM RotateProperties ==
    ASSUME NEW A, NEW q \in Seq(A), NEW n \in 0 .. Len(q)
    PROVE  /\ Rotate(q, n) \in Seq(A)
           /\ Members(Rotate(q, n)) = Members(q)
           /\ NoRepeats(Rotate(q, n)) <=> NoRepeats(q)
<1> DEFINE a == SubSeq(q, 1, n)
           b == SubSeq(q, n + 1, Len(q))
<1>1. a \in Seq(A) /\ b \in Seq(A) /\ q = a \o b
  BY SplitMembers
<1> HIDE DEF a, b
<1>2. /\ Members(a \o b) = Members(a) \cup Members(b)
      /\ NoRepeats(a \o b) <=> NoRepeats(a) /\ NoRepeats(b) /\ Members(a) \cap Members(b) = {}
  BY <1>1, ConcatMembers
<1>3. /\ b \o a \in Seq(A)
      /\ Members(b \o a) = Members(b) \cup Members(a)
      /\ NoRepeats(b \o a) <=> NoRepeats(b) /\ NoRepeats(a) /\ Members(b) \cap Members(a) = {}
  BY <1>1, ConcatMembers
<1>4. Rotate(q, n) = b \o a
  BY DEF Rotate, a, b
<1> QED
  BY <1>1, <1>2, <1>3, <1>4

--------------------------------------------------------------------------------
(* The order in a queue *)

\* a stands before b in q.
Before(q, a, b) == \E i, j \in 1 .. Len(q) : i < j /\ q[i] = a /\ q[j] = b

\* The ranks of positions are in the order of the positions.
LEMMA RankIsMonotone ==
    ASSUME NEW L \in Nat, NEW K \in SUBSET (1 .. L), NEW i \in K, NEW j \in K
    PROVE  i < j <=> Cardinality({h \in K : h <= i}) < Cardinality({h \in K : h <= j})
<1>1. IsFiniteSet(K)
  <2>1. IsFiniteSet(1 .. L)
    BY FS_Interval
  <2> QED
    BY <2>1, FS_Subset
<1>2. \A h \in K : h \in Int
  OBVIOUS
<1>3. ASSUME NEW x \in K, NEW y \in K, x <= y
      PROVE  /\ Cardinality({h \in K : h <= x}) \in Nat
             /\ Cardinality({h \in K : h <= x}) <= Cardinality({h \in K : h <= y})
  <2>1. PICK X : X = {h \in K : h <= x}
    OBVIOUS
  <2>2. PICK Y : Y = {h \in K : h <= y}
    OBVIOUS
  <2>3. X \subseteq Y /\ Y \subseteq K
    <3>1. ASSUME NEW h \in K, h <= x
          PROVE  h <= y
      <4>1. h \in Int /\ x \in Int /\ y \in Int
        BY <1>2
      <4> QED
        BY <1>3, <3>1, <4>1
    <3> QED
      BY <2>1, <2>2, <3>1
  <2>4. IsFiniteSet(Y) /\ IsFiniteSet(X) /\ Cardinality(X) <= Cardinality(Y)
    BY <1>1, <2>3, FS_Subset
  <2> QED
    BY <2>1, <2>2, <2>4, FS_CardinalityType
<1>4. PICK ri : ri = Cardinality({h \in K : h <= i})
  OBVIOUS
<1>5. PICK rj : rj = Cardinality({h \in K : h <= j})
  OBVIOUS
<1>6. ri \in Nat /\ rj \in Nat /\ (i <= j => ri <= rj) /\ (j <= i => rj <= ri)
  BY <1>2, <1>3, <1>4, <1>5
<1>7. ri = rj => i = j
  <2>1. \A x, y \in K :
           Cardinality({h \in K : h <= x}) = Cardinality({h \in K : h <= y}) => x = y
    BY RankIsBijective
  <2>2. Cardinality({h \in K : h <= i}) = Cardinality({h \in K : h <= j}) => i = j
    BY <2>1
  <2> QED
    BY <1>4, <1>5, <2>2
<1>8. i < j <=> ri < rj
  BY <1>2, <1>6, <1>7
<1> QED
  BY <1>4, <1>5, <1>8

\* Removing processes keeps the others in their order.
LEMMA WithoutOrder ==
    ASSUME NEW A, NEW q \in Seq(A), NEW S, NEW a, NEW b
    PROVE  Before(Without(q, S), a, b) <=> Before(q, a, b) /\ a \notin S /\ b \notin S
<1> DEFINE K == {i \in 1 .. Len(q) : q[i] \notin S}
           rank(i) == Cardinality({h \in K : h <= i})
           n == Cardinality(K)
           at(j) == CHOOSE i \in K : rank(i) = j
           w == Without(q, S)
<1>1. Len(q) \in Nat /\ K \in SUBSET (1 .. Len(q))
  BY LenProperties
<1>2. /\ n \in Nat
      /\ \A i \in K : rank(i) \in 1 .. n
      /\ \A i, j \in K : rank(i) = rank(j) => i = j
      /\ \A m \in 1 .. n : \E i \in K : rank(i) = m
      /\ \A i, j \in K : i < j <=> rank(i) < rank(j)
  <2> HIDE DEF K
  <2> QED
    BY <1>1, RankIsBijective, RankIsMonotone
<1>3. w = [j \in 1 .. n |-> q[at(j)]]
  BY DEF Without
<1> HIDE DEF K, rank, n, w
<1>4. \A m \in 1 .. n : at(m) \in K /\ rank(at(m)) = m
  BY <1>2
<1>5. \A i \in K : at(rank(i)) = i
  BY <1>2, <1>4
<1> HIDE DEF at
<1>6. Len(w) = n
  BY <1>2, <1>3
<1>7. \A i \in K : i \in 1 .. Len(q) /\ q[i] \notin S
  BY DEF K
<1>8. ASSUME Before(w, a, b)
      PROVE  Before(q, a, b) /\ a \notin S /\ b \notin S
  <2>1. PICK i \in 1 .. n, j \in 1 .. n : i < j /\ w[i] = a /\ w[j] = b
    BY <1>6, <1>8 DEF Before
  <2>2. /\ at(i) \in K /\ at(j) \in K /\ at(i) < at(j)
        /\ q[at(i)] = a /\ q[at(j)] = b
    BY <1>2, <1>3, <1>4, <2>1
  <2> QED
    BY <1>7, <2>2 DEF Before
<1>9. ASSUME Before(q, a, b), a \notin S, b \notin S
      PROVE  Before(w, a, b)
  <2>1. PICK i \in 1 .. Len(q), j \in 1 .. Len(q) : i < j /\ q[i] = a /\ q[j] = b
    BY <1>9 DEF Before
  <2>2. i \in K /\ j \in K
    BY <1>9, <2>1 DEF K
  <2>3. /\ rank(i) \in 1 .. n /\ rank(j) \in 1 .. n /\ rank(i) < rank(j)
        /\ w[rank(i)] = a /\ w[rank(j)] = b
    BY <1>2, <1>3, <1>5, <2>1, <2>2
  <2> QED
    BY <1>6, <2>3 DEF Before
<1> QED
  BY <1>8, <1>9 DEF w

\* Who is appended stands behind all the others.
LEMMA AppendOrder ==
    ASSUME NEW A, NEW q \in Seq(A), NEW p \in A, NEW a, NEW b
    PROVE  Before(Append(q, p), a, b) <=> Before(q, a, b) \/ (b = p /\ a \in Members(q))
<1> DEFINE r == Append(q, p)
           n == Len(q)
<1>1. /\ n \in Nat /\ Len(r) = n + 1
      /\ \A i \in 1 .. n : r[i] = q[i]
      /\ r[n + 1] = p
  BY AppendProperties, LenProperties
<1> HIDE DEF r
<1>2. ASSUME Before(r, a, b)
      PROVE  Before(q, a, b) \/ (b = p /\ a \in Members(q))
  <2>1. PICK i \in 1 .. n + 1, j \in 1 .. n + 1 : i < j /\ r[i] = a /\ r[j] = b
    BY <1>1, <1>2 DEF Before
  <2>2. i \in 1 .. n /\ q[i] = a
    BY <1>1, <2>1
  <2>3. CASE j \in 1 .. n
    BY <1>1, <2>1, <2>2, <2>3 DEF Before
  <2>4. CASE j = n + 1
    BY <1>1, <2>1, <2>2, <2>4 DEF Members
  <2> QED
    BY <1>1, <2>3, <2>4
<1>3. ASSUME Before(q, a, b)
      PROVE  Before(r, a, b)
  <2>1. PICK i \in 1 .. n, j \in 1 .. n : i < j /\ q[i] = a /\ q[j] = b
    BY <1>3 DEF Before
  <2> QED
    BY <1>1, <2>1 DEF Before
<1>4. ASSUME b = p, a \in Members(q)
      PROVE  Before(r, a, b)
  <2>1. PICK i \in 1 .. n : q[i] = a
    BY <1>4 DEF Members
  <2>2. i < n + 1 /\ i \in 1 .. n + 1 /\ n + 1 \in 1 .. n + 1
    BY <1>1
  <2> QED
    BY <1>1, <1>4, <2>1, <2>2 DEF Before
<1> QED
  BY <1>2, <1>3, <1>4 DEF r

\* What remains of a queue when its first processes leave is in the same order, and
\* behind one that stays nobody left.
LEMMA RestOrder ==
    ASSUME NEW A, NEW q \in Seq(A), NoRepeats(q), NEW n \in 0 .. Len(q), NEW a, NEW b
    PROVE  LET r == SubSeq(q, n + 1, Len(q))
           IN  /\ Before(r, a, b) => Before(q, a, b)
               /\ Before(q, a, b) /\ a \in Members(r) => Before(r, a, b)
<1> DEFINE r == SubSeq(q, n + 1, Len(q))
<1>1. /\ Len(q) \in Nat /\ Len(r) = Len(q) - n
      /\ \A i \in 1 .. Len(q) - n : r[i] = q[n + i]
  BY SplitMembers, LenProperties
<1> HIDE DEF r
<1>2. ASSUME Before(r, a, b)
      PROVE  Before(q, a, b)
  <2>1. PICK i \in 1 .. Len(q) - n, j \in 1 .. Len(q) - n : i < j /\ r[i] = a /\ r[j] = b
    BY <1>1, <1>2 DEF Before
  <2>2. /\ n + i \in 1 .. Len(q) /\ n + j \in 1 .. Len(q) /\ n + i < n + j
    BY <1>1, <2>1
  <2> QED
    BY <1>1, <2>1, <2>2 DEF Before
<1>3. ASSUME Before(q, a, b), a \in Members(r)
      PROVE  Before(r, a, b)
  <2>1. PICK i \in 1 .. Len(q), j \in 1 .. Len(q) : i < j /\ q[i] = a /\ q[j] = b
    BY <1>3 DEF Before
  <2>2. PICK x \in 1 .. Len(q) - n : r[x] = a
    BY <1>1, <1>3 DEF Members
  <2>3. n + x \in 1 .. Len(q) /\ q[n + x] = q[i]
    BY <1>1, <2>1, <2>2
  <2>4. n + x = i
    BY <2>3 DEF NoRepeats
  <2>5. j - n \in 1 .. Len(q) - n /\ x < j - n /\ n + (j - n) = j
    BY <1>1, <2>1, <2>4
  <2>6. r[j - n] = b
    BY <1>1, <2>1, <2>5
  <2> QED
    BY <1>1, <2>2, <2>5, <2>6 DEF Before
<1> QED
  BY <1>2, <1>3 DEF r


\* A queue without repetitions is told by its members and their order.
LEMMA OrderTells ==
    ASSUME NEW A, NEW q \in Seq(A), NEW r \in Seq(A), NoRepeats(q), NoRepeats(r),
           Members(q) = Members(r), \A a, b : Before(q, a, b) <=> Before(r, a, b)
    PROVE  q = r
<1>1. ASSUME NEW u \in Seq(A), NoRepeats(u), NEW i \in 1 .. Len(u)
      PROVE  Cardinality({b \in Members(u) : Before(u, b, u[i])}) = i - 1
  <2>1. Len(u) \in Nat /\ i - 1 \in 0 .. Len(u) /\ i \in Nat
    BY LenProperties
  <2> DEFINE v == SubSeq(u, 1, i - 1)
  <2>2. v \in Seq(A) /\ Len(v) = i - 1 /\ \A j \in 1 .. i - 1 : v[j] = u[j]
    BY <2>1, SplitMembers
  <2>3. NoRepeats(v)
    BY <1>1, <2>1, CutMembers
  <2> HIDE DEF v
  <2>4. Members(v) = {u[j] : j \in 1 .. i - 1}
    BY <2>2 DEF Members
  <2>5. \A b : Before(u, b, u[i]) <=> \E j \in 1 .. i - 1 : u[j] = b
    <3> TAKE b
    <3>1. Before(u, b, u[i]) <=> \E j, l \in 1 .. Len(u) : j < l /\ u[j] = b /\ u[l] = u[i]
      BY DEF Before
    <3>2. \A l \in 1 .. Len(u) : u[l] = u[i] <=> l = i
      BY <1>1 DEF NoRepeats
    <3>3. \A j \in 1 .. Len(u) : j < i <=> j \in 1 .. i - 1
      BY <2>1
    <3>4. 1 .. i - 1 \subseteq 1 .. Len(u)
      BY <2>1
    <3> QED
      BY <3>1, <3>2, <3>3, <3>4
  <2>6. {b \in Members(u) : Before(u, b, u[i])} = Members(v)
    <3>1. 1 .. i - 1 \subseteq 1 .. Len(u)
      BY <2>1
    <3>2. Members(v) \subseteq Members(u)
      BY <2>4, <3>1 DEF Members
    <3> QED
      BY <2>4, <2>5, <3>2
  <2> QED
    BY <2>2, <2>3, <2>6, CountMembers
<1>2. Len(q) = Len(r) /\ Len(q) \in Nat
  BY CountMembers, LenProperties
<1>3. ASSUME NEW i \in 1 .. Len(q)
      PROVE  q[i] = r[i]
  <2>1. PICK j \in 1 .. Len(r) : r[j] = q[i]
    BY DEF Members
  <2>2. {b \in Members(q) : Before(q, b, q[i])} = {b \in Members(r) : Before(r, b, r[j])}
    BY <2>1
  <2>3. i - 1 = j - 1
    BY <1>1, <2>2
  <2>4. i = j
    BY <1>2, <2>3
  <2> QED
    BY <2>1, <2>4
<1> QED
  BY <1>2, <1>3, SeqEqual

\* Who is taken out first makes no difference.
LEMMA WithoutTwice ==
    ASSUME NEW A, NEW q \in Seq(A), NoRepeats(q), NEW S, NEW T
    PROVE  Without(Without(q, S), T) = Without(q, S \cup T)
<1>1. PICK u : u = Without(q, S)
  OBVIOUS
<1>2. PICK v : v = Without(u, T)
  OBVIOUS
<1>3. PICK w : w = Without(q, S \cup T)
  OBVIOUS
<1>4. u \in Seq(A) /\ Members(u) = Members(q) \ S /\ NoRepeats(u)
  BY <1>1, WithoutProperties
<1>5. v \in Seq(A) /\ Members(v) = Members(u) \ T /\ NoRepeats(v)
  BY <1>2, <1>4, WithoutProperties
<1>6. w \in Seq(A) /\ Members(w) = Members(q) \ (S \cup T) /\ NoRepeats(w)
  BY <1>3, WithoutProperties
<1>7. ASSUME NEW a, NEW b
      PROVE  Before(v, a, b) <=> Before(w, a, b)
  <2>1. Before(v, a, b) <=> Before(u, a, b) /\ a \notin T /\ b \notin T
    BY <1>2, <1>4, WithoutOrder
  <2>2. Before(u, a, b) <=> Before(q, a, b) /\ a \notin S /\ b \notin S
    BY <1>1, WithoutOrder
  <2>3. Before(w, a, b) <=> Before(q, a, b) /\ a \notin S \cup T /\ b \notin S \cup T
    BY <1>3, WithoutOrder
  <2> QED
    BY <2>1, <2>2, <2>3
<1>8. Members(v) = Members(w)
  BY <1>4, <1>5, <1>6
<1>9. v = w
  BY <1>5, <1>6, <1>7, <1>8, OrderTells
<1> QED
  BY <1>1, <1>2, <1>3, <1>9

--------------------------------------------------------------------------------
(* One element of a queue *)

\* The queue without its k-th element, and with e as the k-th.
Removed(q, k) == [i \in 1 .. Len(q) - 1 |-> IF i < k THEN q[i] ELSE q[i + 1]]
Inserted(q, k, e) ==
    [i \in 1 .. Len(q) + 1 |-> IF i < k THEN q[i] ELSE IF i = k THEN e ELSE q[i - 1]]

\* Without takes out one element as removing its place does.
LEMMA WithoutOne ==
    ASSUME NEW A, NEW q \in Seq(A), NoRepeats(q), NEW k \in 1 .. Len(q)
    PROVE  Without(q, {q[k]}) = Removed(q, k)
<1> DEFINE n == Len(q)
           kept == {i \in 1 .. n : q[i] \notin {q[k]}}
           rank(i) == Cardinality({h \in kept : h <= i})
<1>1. n \in Nat /\ k \in 1 .. n /\ k \in Nat
  OBVIOUS
<1>2. kept = (1 .. n) \ {k}
  BY DEF NoRepeats
<1>3. ASSUME NEW i \in kept
      PROVE  rank(i) = IF i < k THEN i ELSE i - 1
  <2>1. i \in 1 .. n /\ i # k /\ i \in Nat
    BY <1>2
  <2>2. IsFiniteSet(1 .. i) /\ Cardinality(1 .. i) = i
    BY <2>1, FS_Interval
  <2>3. CASE i < k
    <3>1. {h \in kept : h <= i} = 1 .. i
      BY <1>1, <1>2, <2>1, <2>3
    <3> QED
      BY <2>2, <2>3, <3>1
  <2>4. CASE ~ i < k
    <3>1. k \in 1 .. i /\ {h \in kept : h <= i} = (1 .. i) \ {k}
      BY <1>1, <1>2, <2>1, <2>4
    <3>2. Cardinality((1 .. i) \ {k}) = i - 1
      BY <2>2, <3>1, FS_RemoveElement
    <3> QED
      BY <2>4, <3>1, <3>2
  <2> QED
    BY <2>3, <2>4
<1>4. Cardinality(kept) = n - 1
  <2>1. IsFiniteSet(1 .. n) /\ Cardinality(1 .. n) = n
    BY <1>1, FS_Interval
  <2> QED
    BY <1>1, <1>2, <2>1, FS_RemoveElement
<1>5. Without(q, {q[k]}) = [j \in 1 .. n - 1 |-> q[CHOOSE i \in kept : rank(i) = j]]
  BY <1>4 DEF Without
<1> HIDE DEF rank
<1>6. ASSUME NEW j \in 1 .. n - 1
      PROVE  (CHOOSE i \in kept : rank(i) = j) = IF j < k THEN j ELSE j + 1
  <2>1. PICK x : x = IF j < k THEN j ELSE j + 1
    OBVIOUS
  <2>2. x \in kept /\ rank(x) = j
    <3>1. x \in kept
      BY <1>1, <1>2, <2>1
    <3>2. rank(x) = IF x < k THEN x ELSE x - 1
      BY <1>3, <3>1
    <3> QED
      BY <1>1, <2>1, <3>1, <3>2
  <2>3. ASSUME NEW i \in kept, rank(i) = j
        PROVE  i = x
    <3>1. i \in 1 .. n /\ i # k /\ j = IF i < k THEN i ELSE i - 1
      BY <1>2, <1>3, <2>3
    <3> QED
      BY <1>1, <2>1, <3>1
  <2> HIDE DEF kept
  <2> QED
    BY <2>1, <2>2, <2>3
<1> HIDE DEF kept
<1>7. ASSUME NEW j \in 1 .. n - 1
      PROVE  q[CHOOSE i \in kept : rank(i) = j] = IF j < k THEN q[j] ELSE q[j + 1]
  <2>1. (CHOOSE i \in kept : rank(i) = j) = IF j < k THEN j ELSE j + 1
    BY <1>6
  <2>2. PICK c : c = CHOOSE i \in kept : rank(i) = j
    OBVIOUS
  <2>3. c = IF j < k THEN j ELSE j + 1
    BY <2>1, <2>2, Zenon
  <2>4. q[c] = IF j < k THEN q[j] ELSE q[j + 1]
    BY <2>3
  <2> QED
    BY <2>2, <2>4, Zenon
<1> QED
  BY <1>5, <1>7 DEF Removed

\* Without changes no queue that has nobody of S.
LEMMA WithoutNone ==
    ASSUME NEW A, NEW q \in Seq(A), NEW S, Members(q) \cap S = {}
    PROVE  Without(q, S) = q
<1> DEFINE n == Len(q)
           kept == {i \in 1 .. n : q[i] \notin S}
           rank(i) == Cardinality({h \in kept : h <= i})
<1>1. n \in Nat
  OBVIOUS
<1>2. kept = 1 .. n
  BY DEF Members
<1>3. ASSUME NEW i \in 1 .. n
      PROVE  rank(i) = i
  <2>1. {h \in kept : h <= i} = 1 .. i /\ i \in Nat /\ i >= 1
    BY <1>1, <1>2
  <2>2. IsFiniteSet(1 .. i) /\ Cardinality(1 .. i) = i
    BY <2>1, FS_Interval
  <2> QED
    BY <2>1, <2>2
<1>4. Cardinality(kept) = n
  <2>1. IsFiniteSet(1 .. n) /\ Cardinality(1 .. n) = n
    BY <1>1, FS_Interval
  <2> QED
    BY <1>2, <2>1
<1>5. Without(q, S) = [j \in 1 .. n |-> q[CHOOSE i \in kept : rank(i) = j]]
  BY <1>4 DEF Without
<1> HIDE DEF rank, kept
<1>6. ASSUME NEW j \in 1 .. n
      PROVE  (CHOOSE i \in kept : rank(i) = j) = j
  BY <1>2, <1>3
<1>7. Without(q, S) = [j \in 1 .. n |-> q[j]]
  BY <1>5, <1>6
<1> QED
  BY <1>7

\* What is left of a queue without its k-th element.
LEMMA RemovedProperties ==
    ASSUME NEW A, NEW q \in Seq(A), NoRepeats(q), NEW k \in 1 .. Len(q)
    PROVE  /\ Removed(q, k) \in Seq(A) /\ NoRepeats(Removed(q, k))
           /\ Len(Removed(q, k)) = Len(q) - 1
           /\ Members(Removed(q, k)) = Members(q) \ {q[k]}
           /\ Tail(q) = Removed(q, 1)
<1>1. Removed(q, k) \in Seq(A) /\ Len(Removed(q, k)) = Len(q) - 1
  <2>1. \A i \in 1 .. Len(q) - 1 : (IF i < k THEN q[i] ELSE q[i + 1]) \in A
    OBVIOUS
  <2>2. Len(q) - 1 \in Nat
    OBVIOUS
  <2> QED
    BY <2>1, <2>2 DEF Removed
<1>2. NoRepeats(Removed(q, k)) /\ Members(Removed(q, k)) = Members(q) \ {q[k]}
  <2>1. Without(q, {q[k]}) = Removed(q, k)
    BY WithoutOne
  <2>2. /\ Members(Without(q, {q[k]})) = Members(q) \ {q[k]}
        /\ NoRepeats(q) => NoRepeats(Without(q, {q[k]}))
    BY WithoutProperties
  <2> QED
    BY <2>1, <2>2
<1>3. /\ Tail(q) \in Seq(A) /\ Len(Tail(q)) = Len(q) - 1
      /\ \A i \in 1 .. Len(q) - 1 : Tail(q)[i] = q[i + 1]
  BY HeadTailProperties
<1>4. Tail(q) = Removed(q, 1)
  <2>1. \A i \in 1 .. Len(q) - 1 : Removed(q, 1)[i] = q[i + 1]
    BY DEF Removed
  <2>2. Removed(q, 1) \in Seq(A) /\ Len(Removed(q, 1)) = Len(q) - 1
    <3>1. \A i \in 1 .. Len(q) - 1 : (IF i < 1 THEN q[i] ELSE q[i + 1]) \in A
      OBVIOUS
    <3>2. Len(q) - 1 \in Nat
      OBVIOUS
    <3> QED
      BY <3>1, <3>2 DEF Removed
  <2> QED
    BY <1>3, <2>1, <2>2, SeqEqual
<1> QED
  BY <1>1, <1>2, <1>4

\* A queue in which e is put.
LEMMA InsertedProperties ==
    ASSUME NEW A, NEW q \in Seq(A), NEW k \in 1 .. Len(q) + 1, NEW e \in A
    PROVE  /\ Inserted(q, k, e) \in Seq(A)
           /\ Len(Inserted(q, k, e)) = Len(q) + 1
           /\ Members(Inserted(q, k, e)) = Members(q) \cup {e}
           /\ NoRepeats(q) /\ e \notin Members(q) => NoRepeats(Inserted(q, k, e))
           /\ Append(q, e) = Inserted(q, Len(q) + 1, e)
<1> DEFINE n == Len(q)
           r == Inserted(q, k, e)
<1>1. n \in Nat /\ k \in 1 .. n + 1
  OBVIOUS
<1>2. r \in Seq(A) /\ Len(r) = n + 1
  <2>1. \A i \in 1 .. n + 1 : (IF i < k THEN q[i] ELSE IF i = k THEN e ELSE q[i - 1]) \in A
    OBVIOUS
  <2> QED
    BY <2>1 DEF Inserted
<1>3. \A i \in 1 .. n + 1 : r[i] = IF i < k THEN q[i] ELSE IF i = k THEN e ELSE q[i - 1]
  BY DEF Inserted
<1> HIDE DEF r
<1>4. ASSUME NEW x \in Members(r)
      PROVE  x \in Members(q) \cup {e}
  <2>1. PICK i \in 1 .. n + 1 : x = r[i]
    BY <1>2 DEF Members
  <2>2. CASE i < k
    BY <1>1, <1>3, <2>1, <2>2 DEF Members
  <2>3. CASE i = k
    BY <1>1, <1>3, <2>1, <2>3
  <2>4. CASE i > k
    <3>1. i - 1 \in 1 .. n /\ x = q[i - 1]
      BY <1>1, <1>3, <2>1, <2>4
    <3> QED
      BY <3>1 DEF Members
  <2> QED
    BY <1>1, <2>2, <2>3, <2>4
<1>5. ASSUME NEW x \in Members(q) \cup {e}
      PROVE  x \in Members(r)
  <2>1. e \in Members(r)
    BY <1>1, <1>2, <1>3 DEF Members
  <2>2. ASSUME NEW i \in 1 .. n
        PROVE  q[i] \in Members(r)
    <3>1. CASE i < k
      <4>1. i \in 1 .. n + 1 /\ r[i] = q[i]
        BY <1>1, <1>3, <3>1
      <4> QED
        BY <1>2, <4>1 DEF Members
    <3>2. CASE ~ i < k
      <4>1. i + 1 \in 1 .. n + 1 /\ ~ i + 1 < k /\ i + 1 # k /\ (i + 1) - 1 = i
        BY <1>1, <3>2
      <4>2. r[i + 1] = q[i]
        BY <1>3, <4>1
      <4> QED
        BY <1>2, <4>1, <4>2 DEF Members
    <3> QED
      BY <3>1, <3>2
  <2> QED
    BY <2>1, <2>2 DEF Members
<1>6. ASSUME NoRepeats(q), e \notin Members(q)
      PROVE  NoRepeats(r)
  <2>1. \A i \in 1 .. n : q[i] # e
    BY <1>6 DEF Members
  <2>2. ASSUME NEW i \in 1 .. n + 1, NEW j \in 1 .. n + 1, r[i] = r[j]
        PROVE  i = j
    <3> DEFINE old(x) == IF x < k THEN x ELSE x - 1
    <3>1. \A x \in 1 .. n + 1 : x # k => old(x) \in 1 .. n /\ r[x] = q[old(x)]
      BY <1>1, <1>3
    <3>2. r[k] = e
      BY <1>1, <1>3
    <3>3. i = k <=> j = k
      BY <2>1, <2>2, <3>1, <3>2
    <3>4. CASE i # k
      <4>1. old(i) = old(j)
        <5> HIDE DEF old
        <5> QED
          BY <1>6, <2>2, <3>1, <3>3, <3>4 DEF NoRepeats
      <4> QED
        BY <1>1, <3>3, <3>4, <4>1
    <3> QED
      BY <3>3, <3>4
  <2> QED
    BY <1>2, <2>2 DEF NoRepeats
<1>7. Append(q, e) = Inserted(q, n + 1, e)
  <2> DEFINE s == Inserted(q, n + 1, e)
  <2>1. s \in Seq(A) /\ Len(s) = n + 1
    <3>1. \A i \in 1 .. n + 1 : (IF i < n + 1 THEN q[i] ELSE IF i = n + 1 THEN e ELSE q[i - 1]) \in A
      OBVIOUS
    <3> QED
      BY <3>1 DEF Inserted
  <2>2. \A i \in 1 .. n + 1 : s[i] = IF i = n + 1 THEN e ELSE q[i]
    BY <1>1 DEF Inserted
  <2>3. /\ Append(q, e) \in Seq(A) /\ Len(Append(q, e)) = n + 1
        /\ \A i \in 1 .. n : Append(q, e)[i] = q[i]
        /\ Append(q, e)[n + 1] = e
    BY AppendProperties
  <2>4. \A i \in 1 .. n + 1 : Append(q, e)[i] = IF i = n + 1 THEN e ELSE q[i]
    BY <1>1, <2>3
  <2> HIDE DEF s
  <2> QED
    BY <2>1, <2>2, <2>3, <2>4, SeqEqual DEF s
<1> QED
  BY <1>2, <1>4, <1>5, <1>6, <1>7 DEF r

--------------------------------------------------------------------------------
(* Recursion *)

\* Values that are computed one from the other, from x by g.
Computed(t, x, g) == t[0] = x /\ \A i \in Nat : t[i + 1] = g[<<i, t[i]>>]

\* The first N of them.
ComputedTo(t, N, M, x, g) ==
    t \in [0 .. N -> M] /\ t[0] = x /\ \A i \in 0 .. N - 1 : t[i + 1] = g[<<i, t[i]>>]

\* A value can be computed N times.
LEMMA ComputedUpTo ==
    ASSUME NEW M, NEW x \in M, NEW g \in [Nat \X M -> M], NEW N \in Nat
    PROVE  \E t : ComputedTo(t, N, M, x, g)
<1> DEFINE ok(n) == \E t \in [0 .. n -> M] :
                      t[0] = x /\ \A i \in 0 .. n - 1 : t[i + 1] = g[<<i, t[i]>>]
           K == {n \in 1 .. N : ~ ok(n)}
<1>1. ok(0)
  <2> DEFINE t == [i \in 0 .. 0 |-> x]
  <2>1. t \in [0 .. 0 -> M] /\ t[0] = x /\ \A i \in 0 .. 0 - 1 : t[i + 1] = g[<<i, t[i]>>]
    OBVIOUS
  <2> QED
    BY <2>1
<1>2. ASSUME NEW n \in Nat, ok(n)
      PROVE  ok(n + 1)
  <2>1. PICK t \in [0 .. n -> M] :
          t[0] = x /\ \A i \in 0 .. n - 1 : t[i + 1] = g[<<i, t[i]>>]
    BY <1>2
  <2>2. t[n] \in M /\ g[<<n, t[n]>>] \in M
    OBVIOUS
  <2> DEFINE u == [i \in 0 .. n + 1 |-> IF i = n + 1 THEN g[<<n, t[n]>>] ELSE t[i]]
  <2>3. u \in [0 .. n + 1 -> M]
    BY <2>2
  <2>4. u[0] = x
    BY <2>1
  <2>5. ASSUME NEW i \in 0 .. n
        PROVE  u[i + 1] = g[<<i, u[i]>>]
    <3>1. u[i] = t[i]
      OBVIOUS
    <3>2. CASE i = n
      <4>1. u[n + 1] = g[<<n, t[n]>>]
        OBVIOUS
      <4> QED
        BY <3>1, <3>2, <4>1
    <3>3. CASE i # n
      <4>1. i \in 0 .. n - 1 /\ i + 1 \in 0 .. n + 1 /\ i + 1 # n + 1
        BY <3>3
      <4>2. u[i + 1] = t[i + 1]
        BY <4>1
      <4> QED
        BY <2>1, <3>1, <4>1, <4>2
    <3> QED
      BY <3>2, <3>3
  <2> HIDE DEF u
  <2>6. (n + 1) - 1 = n
    OBVIOUS
  <2> QED
    BY <2>3, <2>4, <2>5, <2>6
<1> HIDE DEF ok
<1>3. SUFFICES ASSUME K # {}
               PROVE  FALSE
  <2>1. N = 0 \/ N \in 1 .. N
    OBVIOUS
  <2>2. ok(N)
    BY <1>1, <1>3, <2>1
  <2> QED
    BY <2>2 DEF ok, ComputedTo
<1>4. PICK n \in K : \A h \in K : n <= h
  <2> HIDE DEF K
  <2>1. K \in SUBSET (1 .. N)
    BY DEF K
  <2> QED
    BY <1>3, <2>1, LeastIndex
<1>5. n - 1 \in Nat /\ n - 1 \notin K /\ n - 1 <= N
  BY <1>4
<1>6. ok(n - 1)
  BY <1>1, <1>5
<1> QED
  BY <1>2, <1>4, <1>5, <1>6

\* A value can be computed any number of times.
LEMMA ComputedExists ==
    ASSUME NEW M, NEW x \in M, NEW g \in [Nat \X M -> M]
    PROVE  \E t \in [Nat -> M] : Computed(t, x, g)
<1> DEFINE ok(n, t) == ComputedTo(t, n, M, x, g)
           upTo(n) == CHOOSE t : ok(n, t)
           t == [n \in Nat |-> upTo(n)[n]]
<1>1. \A n \in Nat : ok(n, upTo(n))
  <2> TAKE n \in Nat
  <2>1. \E u : ok(n, u)
    BY ComputedUpTo
  <2> QED
    BY <2>1
<1> HIDE DEF upTo
\* Two computations agree as far as both go.
<1>2. ASSUME NEW n \in Nat, NEW u, NEW v, ok(n, u), ok(n + 1, v)
      PROVE  v[n] = u[n]
  <2> DEFINE K == {i \in 1 .. n : v[i] # u[i]}
  <2>1. SUFFICES ASSUME K # {}
                 PROVE  FALSE
    <3>1. u[0] = v[0] /\ (n = 0 \/ n \in 1 .. n)
      BY <1>2 DEF ComputedTo
    <3> QED
      BY <2>1, <3>1
  <2>2. PICK i \in K : \A h \in K : i <= h
    <3>1. K \in SUBSET (1 .. n)
      OBVIOUS
    <3> HIDE DEF K
    <3> QED
      BY <2>1, <3>1, LeastIndex
  <2>3. /\ i \in 1 .. n /\ i - 1 \in 0 .. n - 1 /\ i - 1 \in 0 .. (n + 1) - 1
        /\ (i - 1) + 1 = i /\ i - 1 \notin K
    BY <2>2
  <2>4. v[i - 1] = u[i - 1]
    <3>1. CASE i - 1 = 0
      BY <1>2, <3>1 DEF ComputedTo
    <3>2. CASE i - 1 # 0
      BY <2>3, <3>2
    <3> QED
      BY <3>1, <3>2
  <2>5. u[(i - 1) + 1] = g[<<i - 1, u[i - 1]>>] /\ v[(i - 1) + 1] = g[<<i - 1, v[i - 1]>>]
    BY <1>2, <2>3 DEF ComputedTo
  <2> QED
    BY <2>2, <2>3, <2>4, <2>5
<1>3. t \in [Nat -> M]
  BY <1>1 DEF ComputedTo
<1>4. ASSUME NEW n \in Nat
      PROVE  t[n + 1] = g[<<n, t[n]>>]
  <2>1. ok(n, upTo(n)) /\ ok(n + 1, upTo(n + 1))
    BY <1>1
  <2>2. upTo(n + 1)[n + 1] = g[<<n, upTo(n + 1)[n]>>]
    BY <2>1 DEF ComputedTo
  <2>3. upTo(n + 1)[n] = upTo(n)[n]
    BY <1>2, <2>1
  <2> QED
    BY <2>2, <2>3
<1>5. t[0] = x
  BY <1>1 DEF ComputedTo
<1> QED
  BY <1>3, <1>4, <1>5 DEF Computed

\* The cells that m goes through from x.
Followed(t, m, x) == t = [i \in Nat |-> IF i = 0 THEN x ELSE m[t[i - 1]]]

\* Where m can be followed from x, the recursive functions of visits and scans exist.
LEMMA FollowedExists ==
    ASSUME NEW M, NEW m, \A y \in M : m[y] \in M, NEW x \in M
    PROVE  \E t : Followed(t, m, x)
<1> DEFINE g == [c \in Nat \X M |-> m[c[2]]]
<1>1. g \in [Nat \X M -> M]
  OBVIOUS
<1>2. PICK t \in [Nat -> M] : Computed(t, x, g)
  <2> HIDE DEF g
  <2> QED
    BY <1>1, ComputedExists
<1>3. t[0] = x /\ \A i \in Nat : t[i + 1] = m[t[i]]
  BY <1>2 DEF Computed
<1>4. ASSUME NEW i \in Nat
      PROVE  t[i] = IF i = 0 THEN x ELSE m[t[i - 1]]
  <2>1. CASE i = 0
    BY <1>3, <2>1
  <2>2. CASE i # 0
    <3>1. i - 1 \in Nat /\ (i - 1) + 1 = i
      BY <2>2
    <3> QED
      BY <1>3, <2>2, <3>1
  <2> QED
    BY <2>1, <2>2
<1>5. t = [i \in Nat |-> IF i = 0 THEN x ELSE m[t[i - 1]]]
  BY <1>4
<1> QED
  BY <1>5 DEF Followed

\* What holds at 0 and is passed on by every step up to n holds up to n.
LEMMA SameUpTo ==
    ASSUME NEW n \in Nat, NEW f, NEW g, f[0] = g[0],
           \A i \in 0 .. n : i < n /\ f[i] = g[i] => f[i + 1] = g[i + 1]
    PROVE  \A i \in 0 .. n : f[i] = g[i]
<1> DEFINE K == {i \in 1 .. n : f[i] # g[i]}
<1>1. ASSUME NEW i \in K, \A h \in K : i <= h
      PROVE  FALSE
  <2>1. i \in 1 .. n /\ i - 1 \in 0 .. n /\ i - 1 < n /\ (i - 1) + 1 = i
    OBVIOUS
  <2>2. f[i - 1] = g[i - 1]
    <3>1. CASE i = 1
      BY <3>1
    <3>2. CASE i # 1
      <4>1. i - 1 \in 1 .. n /\ ~ (i <= i - 1)
        BY <2>1, <3>2
      <4> QED
        BY <1>1, <4>1
    <3> QED
      BY <3>1, <3>2
  <2>3. f[(i - 1) + 1] = g[(i - 1) + 1]
    BY <2>1, <2>2
  <2> QED
    BY <2>1, <2>3
<1>2. K = {}
  BY <1>1, LeastIndex
<1> QED
  BY <1>2

\* What follows stays in M.
LEMMA FollowedStays ==
    ASSUME NEW M, NEW m \in [M -> M], NEW x \in M, NEW t, Followed(t, m, x)
    PROVE  /\ t[0] = x /\ \A i \in Nat : t[i + 1] = m[t[i]]
           /\ \A i \in Nat : t[i] \in M
<1>1. t[0] = x
  <2>1. 0 \in Nat
    OBVIOUS
  <2> QED
    BY <2>1 DEF Followed
<1>2. ASSUME NEW i \in Nat
      PROVE  t[i + 1] = m[t[i]]
  <2>1. i + 1 \in Nat /\ i + 1 # 0 /\ (i + 1) - 1 = i
    OBVIOUS
  <2> QED
    BY <2>1 DEF Followed
<1>3. ASSUME NEW n \in Nat
      PROVE  t[n] \in M
  <2> DEFINE f == [i \in 0 .. n |-> t[i] \in M]
             g == [i \in 0 .. n |-> TRUE]
  <2>1. 0 \in 0 .. n /\ n \in 0 .. n
    OBVIOUS
  <2>2. f[0] = g[0]
    BY <1>1, <2>1
  <2>3. \A i \in 0 .. n : i < n /\ f[i] = g[i] => f[i + 1] = g[i + 1]
    <3> TAKE i \in 0 .. n
    <3> HAVE i < n /\ f[i] = g[i]
    <3>1. i \in Nat /\ i + 1 \in 0 .. n
      OBVIOUS
    <3>2. t[i] \in M
      OBVIOUS
    <3>3. t[i + 1] \in M
      BY <1>2, <3>1, <3>2
    <3> QED
      BY <3>1, <3>3
  <2>4. f[n] = g[n]
    <3> HIDE DEF f, g
    <3>1. \A i \in 0 .. n : f[i] = g[i]
      BY <2>2, <2>3, SameUpTo
    <3> QED
      BY <2>1, <3>1
  <2> QED
    BY <2>1, <2>4
<1> QED
  BY <1>1, <1>2, <1>3

\* From a common point on, two are the same.
LEMMA FollowedTogether ==
    ASSUME NEW m, NEW t, NEW u, \A i \in Nat : t[i + 1] = m[t[i]],
           \A i \in Nat : u[i + 1] = m[u[i]],
           NEW a \in Nat, NEW b \in Nat, t[a] = u[b], NEW n \in Nat
    PROVE  t[a + n] = u[b + n]
<1> DEFINE f == [i \in 0 .. n |-> t[a + i]]
           g == [i \in 0 .. n |-> u[b + i]]
<1>1. 0 \in 0 .. n /\ n \in 0 .. n /\ a + 0 = a /\ b + 0 = b
  OBVIOUS
<1>2. f[0] = g[0]
  BY <1>1
<1>3. \A i \in 0 .. n : i < n /\ f[i] = g[i] => f[i + 1] = g[i + 1]
  <2> TAKE i \in 0 .. n
  <2> HAVE i < n /\ f[i] = g[i]
  <2>1. /\ i + 1 \in 0 .. n /\ a + i \in Nat /\ b + i \in Nat
        /\ a + (i + 1) = (a + i) + 1 /\ b + (i + 1) = (b + i) + 1
    OBVIOUS
  <2>2. t[a + i] = u[b + i]
    OBVIOUS
  <2>3. t[(a + i) + 1] = u[(b + i) + 1]
    BY <2>1, <2>2
  <2> QED
    BY <2>1, <2>3
<1>4. f[n] = g[n]
  <2> HIDE DEF f, g
  <2>1. \A i \in 0 .. n : f[i] = g[i]
    BY ONLY n \in Nat, <1>2, <1>3, SameUpTo
  <2> QED
    BY <1>1, <2>1
<1> QED
  BY <1>1, <1>4

\* Whatever is met is met within as many steps as M has elements.
LEMMA FollowedSoon ==
    ASSUME NEW M, IsFiniteSet(M), NEW m \in [M -> M], NEW x \in M,
           NEW t, Followed(t, m, x), NEW k \in Nat
    PROVE  \E i \in 0 .. Cardinality(M) - 1 : t[i] = t[k]
<1>6. /\ \A h \in Nat : t[h + 1] = m[t[h]]
      /\ \A h \in Nat : t[h] \in M
  BY FollowedStays
<1> DEFINE K == {j \in 1 .. k + 1 : t[j - 1] = t[k]}
<1>1. k + 1 \in K /\ K \in SUBSET (1 .. k + 1) /\ k + 1 \in Nat
  BY DEF K
<1>2. PICK j \in K : \A h \in K : j <= h
  <2> HIDE DEF K
  <2> QED
    BY <1>1, LeastIndex
<1>3. PICK i : i = j - 1
  OBVIOUS
<1>4. i \in Nat /\ t[i] = t[k] /\ i <= k
  BY <1>2, <1>3
<1>5. ASSUME NEW h \in Nat, h < i
      PROVE  t[h] # t[k]
  <2>1. h + 1 \in 1 .. k + 1 /\ ~ (j <= h + 1) /\ (h + 1) - 1 = h
    BY <1>2, <1>3, <1>4, <1>5
  <2> QED
    BY <1>2, <2>1
<1>7. ASSUME NEW a \in 0 .. i, NEW b \in 0 .. i, a < b, t[a] = t[b]
      PROVE  FALSE
  <2>1. a \in Nat /\ b \in Nat /\ i - b \in Nat /\ b + (i - b) = i
        /\ a + (i - b) \in Nat /\ a + (i - b) < i
    BY <1>4, <1>7
  <2>2. t[a + (i - b)] = t[b + (i - b)]
    <3> HIDE DEF K
    <3>1. PICK n \in Nat : n = i - b
      BY <2>1
    <3>2. t[a + n] = t[b + n]
      BY ONLY a \in Nat, b \in Nat, n \in Nat, <1>6, <1>7, FollowedTogether
    <3> QED
      BY <3>1, <3>2
  <2> QED
    BY <1>4, <1>5, <2>1, <2>2
<1>8. Cardinality(M) \in Nat
  BY FS_CardinalityType
<1>9. ~ (i >= Cardinality(M))
  <2> SUFFICES ASSUME i >= Cardinality(M)
               PROVE  FALSE
    OBVIOUS
  <2> DEFINE f == [h \in 0 .. i |-> t[h]]
  <2>1. IsFiniteSet(0 .. i) /\ Cardinality(0 .. i) = i + 1
    <3>1. 0 \in Int /\ i \in Int /\ ~ (0 > i) /\ (i - 0) + 1 = i + 1
      BY <1>4
    <3>2. IsFiniteSet(0 .. i) /\ Cardinality(0 .. i) = IF 0 > i THEN 0 ELSE i - 0 + 1
      BY <3>1, FS_Interval
    <3> QED
      BY <3>1, <3>2
  <2>2. f \in [0 .. i -> M]
    BY <1>6
  <2>3. Cardinality(M) < Cardinality(0 .. i)
    BY <1>4, <1>8, <2>1
  <2> HIDE DEF f
  <2>4. \E a, b \in 0 .. i : a # b /\ f[a] = f[b]
    <3> PICK S : S = 0 .. i
      OBVIOUS
    <3>1. /\ IsFiniteSet(S) /\ IsFiniteSet(M) /\ Cardinality(M) < Cardinality(S)
          /\ f \in [S -> M]
      BY <2>1, <2>2, <2>3
    <3>2. \E a, b \in S : a # b /\ f[a] = f[b]
      BY ONLY <3>1, FS_PigeonHole
    <3> QED
      BY <3>2
  <2>5. PICK a \in 0 .. i, b \in 0 .. i : a # b /\ f[a] = f[b]
    BY <2>4
  <2>6. t[a] = t[b]
    BY <2>5 DEF f
  <2>7. a < b \/ b < a
    BY <1>4, <2>5
  <2> QED
    BY <1>7, <2>6, <2>7
<1>10. i \in 0 .. Cardinality(M) - 1
  BY <1>4, <1>8, <1>9
<1> QED
  BY <1>4, <1>10

================================================================================
