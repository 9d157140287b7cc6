------------------------------ MODULE ListsProofs ------------------------------
EXTENDS PhaseLists, ProcQueueLemmas

(* The circular lists of clist.h implement sequences, and the tables of pcb.c and asl.c,  *)
(* in the final system and in phase 1, the abstract tables of ProcTables.                 *)

--------------------------------------------------------------------------------
(* A list in memory *)

\* In memory m the list l holds q: l points to the tail, each element to the next one and
\* the tail to the head.
Holds(m, l, q) ==
    /\ m[l] = IF Len(q) = 0 THEN NULL ELSE q[Len(q)]
    /\ \A i \in 1 .. Len(q) : m[q[i]] = IF i = Len(q) THEN q[1] ELSE q[i + 1]

\* visits goes from the tail over all elements but the tail.
LEMMA VisitsOfList ==
    ASSUME NEW E, NEW q \in Seq(E), Len(q) # 0, NoRepeats(q), NULL \notin E,
           NEW m, IsFiniteSet(DOMAIN m), E \subseteq DOMAIN m, NEW l, Holds(m, l, q)
    PROVE  visits(m, l) = [i \in 1 .. Len(q) |-> IF i = 1 THEN q[Len(q)] ELSE q[i - 1]]
<1> DEFINE n == Len(q)
           tmp[i \in Nat] == IF i = 0 THEN m[l] ELSE m[tmp[i - 1]]
           back(k) == tmp[k] = m[l] /\ \A i \in 1 .. k - 1 : tmp[i] # m[l]
           turns == CHOOSE k \in 1 .. Cardinality(DOMAIN m) : back(k)
<1>1. /\ n \in Nat /\ n >= 1 /\ \A i \in 1 .. n : q[i] \in E
      /\ m[l] = q[n] /\ m[l] # NULL
      /\ \A i \in 1 .. n : m[q[i]] = IF i = n THEN q[1] ELSE q[i + 1]
  BY DEF Holds
<1>2. tmp[0] = q[n] /\ \A i \in Nat : tmp[i + 1] = m[tmp[i]]
  <2>1. PICK x \in Members(q) : x = m[l]
    BY <1>1 DEF Members
  <2>2. ASSUME NEW y \in Members(q)
        PROVE  m[y] \in Members(q)
    <3>1. PICK i \in 1 .. n : y = q[i]
      BY DEF Members
    <3>2. PICK j \in 1 .. n : m[y] = q[j]
      BY <1>1, <3>1
    <3> QED
      BY <3>2 DEF Members
  <2>3. PICK t : t = [i \in Nat |-> IF i = 0 THEN m[l] ELSE m[t[i - 1]]]
    <3>1. \E t : Followed(t, m, x)
      BY <2>2, FollowedExists
    <3> QED
      BY <2>1, <3>1 DEF Followed
  <2>4. tmp = [i \in Nat |-> IF i = 0 THEN m[l] ELSE m[tmp[i - 1]]]
    BY <2>3 
  <2> HIDE DEF tmp
  <2>5. tmp[0] = q[n]
    BY <1>1, <2>4
  <2>6. ASSUME NEW i \in Nat
        PROVE  tmp[i + 1] = m[tmp[i]]
    <3>1. i + 1 \in Nat /\ i + 1 # 0 /\ (i + 1) - 1 = i
      OBVIOUS
    <3> QED
      BY <2>4, <3>1
  <2> QED
    BY <2>5, <2>6
<1>3. \A i \in 1 .. n : tmp[i] = q[i]
  <2> DEFINE K == {i \in 1 .. n : tmp[i] # q[i]}
  <2> HIDE DEF tmp
  <2>1. SUFFICES ASSUME K # {}
                 PROVE  FALSE
    OBVIOUS
  <2>2. PICK i \in K : \A h \in K : i <= h
    <3>1. K \in SUBSET (1 .. n) /\ n \in Nat
      BY <1>1
    <3> HIDE DEF K
    <3> QED
      BY <2>1, <3>1, LeastIndex
  <2>3. i \in 1 .. n /\ i - 1 \in 0 .. n - 1 /\ (i - 1) + 1 = i /\ i - 1 \notin K
    BY <1>1, <2>2
  <2>4. tmp[i] = m[tmp[i - 1]]
    <3>1. i - 1 \in Nat
      BY <2>3
    <3>2. tmp[(i - 1) + 1] = m[tmp[i - 1]]
      BY <1>2, <3>1
    <3> QED
      BY <2>3, <3>2
  <2>5. CASE i - 1 = 0
    BY <1>1, <1>2, <2>2, <2>3, <2>4, <2>5
  <2>6. CASE i - 1 # 0
    <3>1. i - 1 \in 1 .. n /\ i - 1 # n /\ tmp[i - 1] = q[i - 1]
      BY <2>3, <2>6
    <3> QED
      BY <1>1, <2>2, <2>3, <2>4, <3>1
  <2> QED
    BY <2>5, <2>6
<1> HIDE DEF tmp
<1>4. n \in 1 .. Cardinality(DOMAIN m)
  <2>1. IsFiniteSet(Members(q)) /\ Cardinality(Members(q)) = n /\ Members(q) \subseteq DOMAIN m
    BY CountMembers, MembersType
  <2>2. Cardinality(DOMAIN m) \in Nat /\ Cardinality(Members(q)) <= Cardinality(DOMAIN m)
    BY <2>1, FS_Subset, FS_CardinalityType
  <2> QED
    BY <1>1, <2>1, <2>2
<1>5. back(n)
  <2>1. ASSUME NEW i \in 1 .. n - 1
        PROVE  tmp[i] # m[l]
    BY <1>1, <1>3 DEF NoRepeats
  <2> QED
    BY <1>1, <1>3, <2>1
<1>6. ASSUME NEW k \in 1 .. Cardinality(DOMAIN m), back(k)
      PROVE  k = n
  <2>1. k \in Nat /\ k >= 1
    OBVIOUS
  <2>2. CASE k <= n
    BY <1>1, <1>3, <1>6, <2>1, <2>2 DEF NoRepeats
  <2>3. CASE k > n
    BY <1>1, <1>3, <1>6, <2>1, <2>3
  <2> QED
    BY <1>1, <2>1, <2>2, <2>3
<1>7. turns = n
  <2> HIDE DEF back
  <2> QED
    BY <1>4, <1>5, <1>6
<1>8. visits(m, l) = [i \in 1 .. turns |-> tmp[i - 1]]
  BY <1>1 DEF visits, clist_empty, tmp
<1>9. ASSUME NEW i \in 1 .. n
      PROVE  tmp[i - 1] = IF i = 1 THEN q[n] ELSE q[i - 1]
  <2>1. CASE i = 1
    <3>1. i - 1 = 0
      BY <2>1
    <3> QED
      BY <1>2, <2>1, <3>1
  <2>2. CASE i # 1
    <3>1. i - 1 \in 1 .. n
      BY <1>1, <2>2
    <3> QED
      BY <1>3, <2>2, <3>1
  <2> QED
    BY <2>1, <2>2
<1> HIDE DEF turns
<1> QED
  BY <1>7, <1>8, <1>9


\* scans, of phase 1, goes from the head to the tail.
LEMMA ScansOfList ==
    ASSUME NEW E, NEW q \in Seq(E), Len(q) # 0, NoRepeats(q), NULL \notin E,
           NEW m, IsFiniteSet(DOMAIN m), E \subseteq DOMAIN m, NEW l, Holds(m, l, q)
    PROVE  scans(m, l) = q
<1> DEFINE n == Len(q)
           scan[i \in Nat] == IF i = 0 THEN m[m[l]] ELSE m[scan[i - 1]]
           last(k) == scan[k] = m[l] /\ \A i \in 0 .. k - 1 : scan[i] # m[l]
           turns == CHOOSE k \in 0 .. Cardinality(DOMAIN m) : last(k)
<1>1. /\ n \in Nat /\ n >= 1 /\ \A i \in 1 .. n : q[i] \in E
      /\ m[l] = q[n] /\ m[l] # NULL /\ m[m[l]] = q[1]
      /\ \A i \in 1 .. n : m[q[i]] = IF i = n THEN q[1] ELSE q[i + 1]
  BY DEF Holds
<1>2. scan[0] = q[1] /\ \A i \in Nat : scan[i + 1] = m[scan[i]]
  <2>1. PICK x \in Members(q) : x = m[m[l]]
    BY <1>1 DEF Members
  <2>2. ASSUME NEW y \in Members(q)
        PROVE  m[y] \in Members(q)
    <3>1. PICK i \in 1 .. n : y = q[i]
      BY DEF Members
    <3>2. PICK j \in 1 .. n : m[y] = q[j]
      BY <1>1, <3>1
    <3> QED
      BY <3>2 DEF Members
  <2>3. PICK t : t = [i \in Nat |-> IF i = 0 THEN m[m[l]] ELSE m[t[i - 1]]]
    <3>1. \E t : Followed(t, m, x)
      BY <2>2, FollowedExists
    <3> QED
      BY <2>1, <3>1 DEF Followed
  <2>4. scan = [i \in Nat |-> IF i = 0 THEN m[m[l]] ELSE m[scan[i - 1]]]
    BY <2>3
  <2> HIDE DEF scan
  <2>5. scan[0] = q[1]
    BY <1>1, <2>4
  <2>6. ASSUME NEW i \in Nat
        PROVE  scan[i + 1] = m[scan[i]]
    <3>1. i + 1 \in Nat /\ i + 1 # 0 /\ (i + 1) - 1 = i
      OBVIOUS
    <3> QED
      BY <2>4, <3>1
  <2> QED
    BY <2>5, <2>6
<1> HIDE DEF scan
<1>3. \A i \in 1 .. n : scan[i - 1] = q[i]
  <2> DEFINE K == {i \in 1 .. n : scan[i - 1] # q[i]}
  <2>1. SUFFICES ASSUME K # {}
                 PROVE  FALSE
    OBVIOUS
  <2>2. PICK i \in K : \A h \in K : i <= h
    <3>1. K \in SUBSET (1 .. n) /\ n \in Nat
      BY <1>1
    <3> HIDE DEF K
    <3> QED
      BY <2>1, <3>1, LeastIndex
  <2>3. CASE i = 1
    <3>1. i - 1 = 0
      BY <2>3
    <3> QED
      BY <1>2, <2>2, <2>3, <3>1
  <2>4. CASE i # 1
    <3>1. /\ i \in 1 .. n /\ i - 1 \in 1 .. n /\ i - 1 # n /\ (i - 1) + 1 = i
          /\ i - 1 \notin K /\ i - 2 \in Nat /\ (i - 1) - 1 = i - 2 /\ (i - 2) + 1 = i - 1
      BY <1>1, <2>2, <2>4
    <3>2. scan[i - 2] = q[i - 1]
      BY <3>1
    <3>3. scan[(i - 2) + 1] = m[scan[i - 2]]
      BY <1>2, <3>1
    <3>4. m[q[i - 1]] = q[i]
      BY <1>1, <3>1
    <3> QED
      BY <2>2, <3>1, <3>2, <3>3, <3>4
  <2> QED
    BY <2>3, <2>4
<1>4. n - 1 \in 0 .. Cardinality(DOMAIN m)
  <2>1. IsFiniteSet(Members(q)) /\ Cardinality(Members(q)) = n /\ Members(q) \subseteq DOMAIN m
    BY CountMembers, MembersType
  <2>2. Cardinality(DOMAIN m) \in Nat /\ Cardinality(Members(q)) <= Cardinality(DOMAIN m)
    BY <2>1, FS_Subset, FS_CardinalityType
  <2> QED
    BY <1>1, <2>1, <2>2
<1>5. \A i \in 0 .. n - 1 : scan[i] = q[i + 1]
  <2> TAKE i \in 0 .. n - 1
  <2>1. i + 1 \in 1 .. n /\ (i + 1) - 1 = i
    BY <1>1
  <2>2. scan[(i + 1) - 1] = q[i + 1]
    BY <1>3, <2>1
  <2> QED
    BY <2>1, <2>2
<1>6. last(n - 1)
  <2>1. scan[n - 1] = m[l]
    BY <1>1, <1>3
  <2>2. ASSUME NEW i \in 0 .. (n - 1) - 1
        PROVE  scan[i] # m[l]
    <3>1. i \in 0 .. n - 1 /\ i + 1 \in 1 .. n /\ i + 1 # n
      BY <1>1
    <3> QED
      BY <1>1, <1>5, <3>1 DEF NoRepeats
  <2> QED
    BY <2>1, <2>2
<1>7. ASSUME NEW k \in 0 .. Cardinality(DOMAIN m), last(k)
      PROVE  k = n - 1
  <2>1. k \in Nat
    OBVIOUS
  <2>2. CASE k <= n - 1
    <3>1. k \in 0 .. n - 1 /\ k + 1 \in 1 .. n /\ q[k + 1] = q[n]
      BY <1>1, <1>5, <1>7, <2>1, <2>2
    <3>2. k + 1 = n
      BY <1>1, <3>1 DEF NoRepeats
    <3> QED
      BY <2>1, <3>2
  <2>3. CASE k > n - 1
    <3>1. n - 1 \in 0 .. k - 1
      BY <1>1, <2>1, <2>3
    <3> QED
      BY <1>1, <1>3, <1>7, <3>1
  <2> QED
    BY <1>1, <2>1, <2>2, <2>3
<1>8. turns = n - 1
  <2> HIDE DEF last
  <2> QED
    BY <1>4, <1>6, <1>7
<1>9. scans(m, l) = [i \in 1 .. turns + 1 |-> scan[i - 1]]
  BY <1>1 DEF scans, empty, clist_empty, scan
<1> HIDE DEF turns
<1>10. turns + 1 = n
  BY <1>1, <1>8
<1>11. scans(m, l) = [i \in 1 .. n |-> q[i]]
  BY <1>3, <1>9, <1>10
<1> QED
  BY <1>11

\* What is read of a list that holds q, which may be empty.
LEMMA ReadOfList ==
    ASSUME NEW E, NEW q \in Seq(E), NoRepeats(q), NULL \notin E,
           NEW m, IsFiniteSet(DOMAIN m), E \subseteq DOMAIN m, NEW l, Holds(m, l, q)
    PROVE  /\ clist_empty(m, l) <=> Len(q) = 0
           /\ Len(q) # 0 => clist_head(m, l) = q[1]
           /\ elements(m, l) = q
           /\ \A e : isIn(m, e, l) <=> e \in Members(q)
           /\ \A i \in 1 .. Len(q) :
                before(m, q[i], l) = IF i = 1 THEN q[Len(q)] ELSE q[i - 1]
           /\ scans(m, l) = q
<1>1. /\ Len(q) \in Nat /\ \A i \in 1 .. Len(q) : q[i] \in E
      /\ m[l] = IF Len(q) = 0 THEN NULL ELSE q[Len(q)]
      /\ \A i \in 1 .. Len(q) : m[q[i]] = IF i = Len(q) THEN q[1] ELSE q[i + 1]
  BY DEF Holds
<1>2. /\ clist_empty(m, l) <=> Len(q) = 0
      /\ Len(q) # 0 => clist_head(m, l) = q[1]
  BY <1>1 DEF clist_empty, clist_head
<1>3. CASE Len(q) = 0
  <2>1. q = <<>> /\ Members(q) = {}
    BY <1>3 DEF Members
  <2>2. visits(m, l) = <<>> /\ scans(m, l) = <<>>
    BY <1>2, <1>3 DEF visits, scans, empty
  <2>3. elements(m, l) = <<>>
    BY <2>2 DEF elements
  <2>4. \A e : ~ isIn(m, e, l)
    BY <2>3 DEF isIn
  <2> QED
    BY <1>2, <1>3, <2>1, <2>2, <2>3, <2>4
<1>4. CASE Len(q) # 0
  <2> DEFINE n == Len(q)
             prev == [i \in 1 .. n |-> IF i = 1 THEN q[n] ELSE q[i - 1]]
  <2>1. visits(m, l) = prev
    BY <1>4, VisitsOfList
  <2>2. ASSUME NEW i \in 1 .. n
        PROVE  m[prev[i]] = q[i]
    <3>1. CASE i = 1
      BY <1>1, <1>4, <3>1
    <3>2. CASE i # 1
      <4>1. i - 1 \in 1 .. n /\ i - 1 # n /\ (i - 1) + 1 = i /\ prev[i] = q[i - 1]
        BY <1>1, <3>2
      <4> QED
        BY <1>1, <4>1
    <3> QED
      BY <3>1, <3>2
  <2>3. DOMAIN prev = 1 .. n
    OBVIOUS
  <2> HIDE DEF prev
  <2>4. elements(m, l) = [i \in 1 .. n |-> m[prev[i]]]
    BY <2>1, <2>3 DEF elements
  <2>5. elements(m, l) = [i \in 1 .. n |-> q[i]]
    BY <2>2, <2>4
  <2>6. elements(m, l) = q
    BY <2>5
  <2>7. ASSUME NEW e
        PROVE  isIn(m, e, l) <=> e \in Members(q)
    BY <2>6 DEF isIn, Members
  <2>8. ASSUME NEW i \in 1 .. n
        PROVE  before(m, q[i], l) = IF i = 1 THEN q[n] ELSE q[i - 1]
    <3>1. before(m, q[i], l) = prev[CHOOSE j \in 1 .. n : m[prev[j]] = q[i]]
      BY <2>1, <2>3 DEF before
    <3>2. \A j \in 1 .. n : m[prev[j]] = q[i] <=> j = i
      BY <2>2 DEF NoRepeats
    <3>3. (CHOOSE j \in 1 .. n : m[prev[j]] = q[i]) = i
      BY <3>2
    <3>4. before(m, q[i], l) = prev[i]
      BY <3>1, <3>3
    <3> QED
      BY <3>4 DEF prev
  <2>9. scans(m, l) = q
    BY <1>4, ScansOfList
  <2> QED
    BY <1>2, <2>6, <2>7, <2>8, <2>9
<1> QED
  BY <1>3, <1>4

--------------------------------------------------------------------------------
(* Linking and unlinking *)

\* The element before the k-th of q, on the circle.
Previous(q, k) == IF k = 1 THEN q[Len(q)] ELSE q[k - 1]

\* m2 is memory m with e as the k-th element of the list l, which held q.
Links(m, m2, l, q, k, e) ==
    /\ DOMAIN m2 = DOMAIN m
    /\ m2[l] = IF k = Len(q) + 1 THEN e ELSE q[Len(q)]
    /\ m2[e] = IF Len(q) = 0 THEN e ELSE IF k = Len(q) + 1 THEN q[1] ELSE q[k]
    /\ Len(q) > 0 => m2[Previous(q, k)] = e
    /\ \A c \in DOMAIN m \ {l, e} : (Len(q) > 0 => c # Previous(q, k)) => m2[c] = m[c]

\* m2 is memory m without the k-th element of the list l, which held q.
Unlinks(m, m2, l, q, k) ==
    /\ DOMAIN m2 = DOMAIN m
    /\ m2[l] = IF Len(q) = 1 THEN NULL ELSE IF k = Len(q) THEN q[Len(q) - 1] ELSE q[Len(q)]
    /\ Len(q) > 1 => m2[Previous(q, k)] = m[q[k]]
    /\ \A c \in DOMAIN m \ {l} : (Len(q) > 1 => c # Previous(q, k)) => m2[c] = m[c]

\* After either the list holds the queue with e, or without the k-th element.
LEMMA LinkedHolds ==
    ASSUME NEW E, NEW q \in Seq(E), NoRepeats(q), NULL \notin E,
           NEW m, E \subseteq DOMAIN m, NEW l \in DOMAIN m \ E, Holds(m, l, q),
           NEW e \in E \ Members(q), NEW k \in 1 .. Len(q) + 1,
           NEW m2, Links(m, m2, l, q, k, e)
    PROVE  Holds(m2, l, Inserted(q, k, e))
<1> DEFINE n == Len(q)
           r == Inserted(q, k, e)
<1>1. /\ n \in Nat /\ k \in 1 .. n + 1 /\ \A i \in 1 .. n : q[i] \in E /\ q[i] # l /\ q[i] # e
      /\ \A i \in 1 .. n : m[q[i]] = IF i = n THEN q[1] ELSE q[i + 1]
      /\ \A i, j \in 1 .. n : q[i] = q[j] => i = j
      /\ e # l
  BY DEF Holds, Members, NoRepeats
<1>2. Len(r) = n + 1
  BY InsertedProperties
<1>3. \A i \in 1 .. n + 1 : r[i] = IF i < k THEN q[i] ELSE IF i = k THEN e ELSE q[i - 1]
  BY DEF Inserted
<1> HIDE DEF r
<1>4. m2[l] = r[n + 1]
  <2>1. n + 1 \in 1 .. n + 1 /\ (n + 1) - 1 = n
    BY <1>1
  <2>2. CASE k = n + 1
    <3>1. r[k] = e
      BY <1>3
    <3> QED
      BY <2>2, <3>1 DEF Links
  <2>3. CASE k # n + 1
    <3>1. ~ n + 1 < k /\ n + 1 # k
      BY <1>1, <2>3
    <3>2. r[n + 1] = q[n]
      BY <1>3, <2>1, <3>1
    <3> QED
      BY <2>3, <3>2 DEF Links
  <2> QED
    BY <2>2, <2>3
<1>5. ASSUME NEW i \in 1 .. n + 1
      PROVE  m2[r[i]] = IF i = n + 1 THEN r[1] ELSE r[i + 1]
  <2>1. CASE i = k
    <3>1. r[i] = e
      BY <1>3, <2>1
    <3>2. CASE n = 0
      BY <1>1, <1>3, <2>1, <3>1, <3>2 DEF Links
    <3>3. CASE n # 0 /\ k = n + 1
      <4>1. r[1] = q[1]
        BY <1>1, <1>3, <3>3
      <4> QED
        BY <2>1, <3>1, <3>3, <4>1 DEF Links
    <3>4. CASE n # 0 /\ k # n + 1
      <4>1. i + 1 \in 1 .. n + 1 /\ ~ i + 1 < k /\ i + 1 # k /\ (i + 1) - 1 = k
        <5>1. k \in 1 .. n
          BY <1>1, <3>4
        <5> QED
          BY <1>1, <2>1, <5>1
      <4>2. r[i + 1] = q[k]
        BY <1>3, <4>1
      <4> QED
        BY <2>1, <3>1, <3>4, <4>2 DEF Links
    <3> QED
      BY <3>2, <3>3, <3>4
  <2>2. CASE i # k /\ r[i] = Previous(q, k)
    <3>1. m2[r[i]] = e /\ n > 0
      BY <1>1, <2>2 DEF Links
    <3>2. (k = 1 /\ i = n + 1) \/ (k > 1 /\ i = k - 1)
      <4>1. CASE k = 1
        <5>1. i - 1 \in 1 .. n /\ r[i] = q[i - 1] /\ q[i - 1] = q[n]
          BY <1>1, <1>3, <2>2, <4>1 DEF Previous
        <5>2. i - 1 = n
          BY <1>1, <5>1
        <5> QED
          BY <1>1, <4>1, <5>2
      <4>2. CASE k # 1
        <5>1. PICK j \in 1 .. n : j = (IF i < k THEN i ELSE i - 1) /\ r[i] = q[j]
          BY <1>1, <1>3, <2>2
        <5>2. k - 1 \in 1 .. n /\ q[j] = q[k - 1]
          BY <1>1, <2>2, <4>2, <5>1 DEF Previous
        <5>3. j = k - 1
          BY <1>1, <5>2
        <5> QED
          BY <1>1, <2>2, <4>2, <5>1, <5>3
      <4> QED
        BY <4>1, <4>2
    <3>3. (IF i = n + 1 THEN r[1] ELSE r[i + 1]) = r[k]
      BY <1>1, <3>2
    <3>4. r[k] = e
      BY <1>3
    <3> QED
      BY <3>1, <3>3, <3>4
  <2>3. CASE i # k /\ r[i] # Previous(q, k)
    <3>1. PICK j \in 1 .. n : j = (IF i < k THEN i ELSE i - 1) /\ r[i] = q[j]
      BY <1>1, <1>3, <2>3
    <3>2. m2[r[i]] = IF j = n THEN q[1] ELSE q[j + 1]
      BY <1>1, <2>3, <3>1 DEF Links
    <3>3. (k = 1 => j # n) /\ (k # 1 => j # k - 1)
      BY <2>3, <3>1 DEF Previous
    <3>4. CASE i = n + 1
      <4>1. j = n /\ k # 1
        BY <1>1, <2>3, <3>1, <3>3, <3>4
      <4>2. r[1] = q[1]
        BY <1>1, <1>3, <4>1
      <4> QED
        BY <3>2, <3>4, <4>1, <4>2
    <3>5. CASE i # n + 1
      <4>1. r[i + 1] = q[j + 1] /\ j # n
        <5>1. CASE i < k
          <6>1. j = i /\ i + 1 < k /\ i + 1 \in 1 .. n + 1 /\ j # n
            BY <1>1, <3>1, <3>3, <5>1
          <6> QED
            BY <1>3, <6>1
        <5>2. CASE ~ i < k
          <6>1. /\ j = i - 1 /\ i + 1 \in 1 .. n + 1 /\ ~ i + 1 < k /\ i + 1 # k
                /\ (i + 1) - 1 = i /\ j + 1 = i /\ j # n
            BY <1>1, <2>3, <3>1, <3>5, <5>2
          <6> QED
            BY <1>3, <6>1
        <5> QED
          BY <5>1, <5>2
      <4> QED
        BY <3>2, <3>5, <4>1
    <3> QED
      BY <3>4, <3>5
  <2> QED
    BY <2>1, <2>2, <2>3
<1> QED
  BY <1>1, <1>2, <1>4, <1>5 DEF Holds, r

\* The same of a list without its k-th element.
LEMMA UnlinkedHolds ==
    ASSUME NEW E, NEW q \in Seq(E), NoRepeats(q), NULL \notin E,
           NEW m, E \subseteq DOMAIN m, NEW l \in DOMAIN m \ E, Holds(m, l, q),
           NEW k \in 1 .. Len(q), NEW m2, Unlinks(m, m2, l, q, k)
    PROVE  Holds(m2, l, Removed(q, k))
<1> DEFINE n == Len(q)
           r == Removed(q, k)
<1>1. /\ n \in Nat /\ k \in 1 .. n /\ \A i \in 1 .. n : q[i] \in E /\ q[i] # l
      /\ \A i \in 1 .. n : m[q[i]] = IF i = n THEN q[1] ELSE q[i + 1]
      /\ \A i, j \in 1 .. n : q[i] = q[j] => i = j
  BY DEF Holds, NoRepeats
<1>2. Len(r) = n - 1
  BY RemovedProperties
<1>3. \A i \in 1 .. n - 1 : r[i] = IF i < k THEN q[i] ELSE q[i + 1]
  BY DEF Removed
<1> HIDE DEF r
<1>4. m2[l] = IF n - 1 = 0 THEN NULL ELSE r[n - 1]
  <2>1. CASE n = 1
    BY <2>1 DEF Unlinks
  <2>2. CASE n # 1
    <3>1. n - 1 \in 1 .. n - 1 /\ (n - 1) + 1 = n /\ n - 1 # 0 /\ (n - 1 < k <=> k = n)
      <4>1. n - 1 \in 1 .. n - 1 /\ n - 1 # 0 /\ (n - 1) + 1 = n
        <5>1. n \in Nat /\ n >= 1
          BY <1>1
        <5> HIDE DEF n
        <5>2. n >= 2
          BY <2>2, <5>1
        <5> QED
          BY <5>1, <5>2
      <4>2. k \in Nat /\ k <= n
        BY <1>1
      <4>3. n - 1 < k <=> k = n
        BY <1>1, <4>2
      <4> QED
        BY <4>1, <4>3
    <3>2. r[n - 1] = IF k = n THEN q[n - 1] ELSE q[n]
      BY <1>3, <3>1
    <3> QED
      BY <2>2, <3>1, <3>2 DEF Unlinks
  <2> QED
    BY <2>1, <2>2
<1>5. ASSUME NEW i \in 1 .. n - 1
      PROVE  m2[r[i]] = IF i = n - 1 THEN r[1] ELSE r[i + 1]
  <2>1. PICK j \in 1 .. n : j = (IF i < k THEN i ELSE i + 1) /\ r[i] = q[j] /\ j # k
    BY <1>1, <1>3
  <2>2. n > 1
    BY <1>1
  <2>3. CASE q[j] = Previous(q, k)
    <3>1. m2[r[i]] = IF k = n THEN q[1] ELSE q[k + 1]
      BY <1>1, <2>1, <2>2, <2>3 DEF Unlinks
    <3>2. (k = 1 /\ j = n) \/ (k > 1 /\ j = k - 1)
      <4>1. CASE k = 1
        BY <1>1, <2>3, <4>1 DEF Previous
      <4>2. CASE k # 1
        <5>1. k - 1 \in 1 .. n /\ q[j] = q[k - 1]
          BY <1>1, <2>3, <4>2 DEF Previous
        <5>2. j = k - 1
          BY <1>1, <5>1
        <5> QED
          BY <1>1, <4>2, <5>2
      <4> QED
        BY <4>1, <4>2
    <3>3. CASE k = 1
      <4>1. i = n - 1 /\ r[1] = q[2] /\ k # n /\ k + 1 = 2
        BY <1>1, <1>3, <2>1, <2>2, <3>2, <3>3
      <4> QED
        BY <3>1, <4>1
    <3>4. CASE k = n
      <4>1. i = n - 1 /\ r[1] = q[1]
        BY <1>1, <1>3, <2>1, <2>2, <3>2, <3>4
      <4> QED
        BY <3>1, <3>4, <4>1
    <3>5. CASE k # 1 /\ k # n
      <4>1. i = k - 1 /\ i + 1 = k /\ i # n - 1 /\ k \in 1 .. n - 1
        BY <1>1, <2>1, <3>2, <3>5
      <4>2. r[i + 1] = q[k + 1]
        BY <1>1, <1>3, <4>1
      <4> QED
        BY <3>1, <3>5, <4>1, <4>2
    <3> QED
      BY <3>3, <3>4, <3>5
  <2>4. CASE q[j] # Previous(q, k)
    <3>1. m2[r[i]] = IF j = n THEN q[1] ELSE q[j + 1]
      BY <1>1, <2>1, <2>2, <2>4 DEF Unlinks
    <3>2. (k = 1 => j # n) /\ (k # 1 => j # k - 1)
      BY <2>4 DEF Previous
    <3>3. CASE j = n
      <4>1. i = n - 1 /\ k # 1 /\ r[1] = q[1]
        BY <1>1, <1>3, <2>1, <2>2, <3>2, <3>3
      <4> QED
        BY <3>1, <3>3, <4>1
    <3>4. CASE j # n
      <4>1. CASE i < k
        <5>1. j = i /\ i + 1 < k /\ i + 1 \in 1 .. n - 1 /\ i # n - 1
          BY <1>1, <2>1, <3>2, <4>1
        <5> QED
          BY <1>3, <3>1, <3>4, <5>1
      <4>2. CASE ~ i < k
        <5>1. j = i + 1 /\ ~ i + 1 < k /\ i + 1 \in 1 .. n - 1 /\ i # n - 1
          BY <1>1, <2>1, <3>4, <4>2
        <5> QED
          BY <1>3, <3>1, <3>4, <5>1
      <4> QED
        BY <4>1, <4>2
    <3> QED
      BY <3>3, <3>4
  <2> QED
    BY <2>3, <2>4
<1> QED
  BY <1>1, <1>2, <1>4, <1>5 DEF Holds, r

--------------------------------------------------------------------------------
(* The macros of clist.h on a list that holds q *)

\* clist_enqueue and clist_push.
LEMMA EnqueueLinks ==
    ASSUME NEW E, NEW q \in Seq(E), NoRepeats(q), NULL \notin E,
           NEW m, E \subseteq DOMAIN m, NEW l \in DOMAIN m \ E, Holds(m, l, q),
           NEW e \in E \ Members(q)
    PROVE  /\ Links(m, clist_enqueue(m, e, l), l, q, Len(q) + 1, e)
           /\ Links(m, clist_push(m, e, l), l, q, 1, e)
<1> DEFINE n == Len(q)
<1>1. /\ n \in Nat /\ \A i \in 1 .. n : q[i] \in DOMAIN m /\ q[i] # l /\ q[i] # e /\ q[i] # NULL
      /\ e \in DOMAIN m /\ l \in DOMAIN m /\ e # l
      /\ m[l] = IF n = 0 THEN NULL ELSE q[n]
      /\ n > 0 => m[q[n]] = q[1]
  BY DEF Holds, Members
<1>2. CASE n = 0
  <2>1. clist_empty(m, l)
    BY <1>1, <1>2 DEF clist_empty
  <2>2. PICK m2 : m2 = [m EXCEPT ![l] = e, ![e] = e]
    OBVIOUS
  <2>3. clist_enqueue(m, e, l) = m2 /\ clist_push(m, e, l) = m2
    BY <2>1, <2>2 DEF clist_enqueue, clist_push
  <2>4. /\ DOMAIN m2 = DOMAIN m /\ m2[l] = e /\ m2[e] = e
        /\ \A c \in DOMAIN m \ {l, e} : m2[c] = m[c]
    BY <1>1, <2>2
  <2>5. n + 1 = 1 /\ ~ n > 0
    BY <1>2
  <2>6. Links(m, m2, l, q, 1, e)
    BY <1>2, <2>4, <2>5 DEF Links
  <2> QED
    BY <2>3, <2>5, <2>6
<1>3. CASE n # 0
  <2>1. n > 0 /\ n \in 1 .. n /\ 1 \in 1 .. n /\ n + 1 # 1 /\ (n + 1) - 1 = n
    BY <1>1, <1>3
  <2>2. ~ clist_empty(m, l) /\ m[l] = q[n] /\ m[m[l]] = q[1] /\ q[n] # l /\ q[n] # e /\ q[n] \in DOMAIN m
    BY <1>1, <1>3, <2>1 DEF clist_empty
  <2>3. PICK a : a = [m EXCEPT ![e] = q[1], ![q[n]] = e, ![l] = e]
    OBVIOUS
  <2>4. PICK b : b = [m EXCEPT ![e] = q[1], ![q[n]] = e]
    OBVIOUS
  <2>5. clist_enqueue(m, e, l) = a /\ clist_push(m, e, l) = b
    BY <2>2, <2>3, <2>4 DEF clist_enqueue, clist_push
  <2>6. /\ DOMAIN a = DOMAIN m /\ a[l] = e /\ a[e] = q[1] /\ a[q[n]] = e
        /\ \A c \in DOMAIN m \ {l, e} : c # q[n] => a[c] = m[c]
    BY <1>1, <2>2, <2>3
  <2>7. /\ DOMAIN b = DOMAIN m /\ b[l] = q[n] /\ b[e] = q[1] /\ b[q[n]] = e
        /\ \A c \in DOMAIN m \ {l, e} : c # q[n] => b[c] = m[c]
    BY <1>1, <2>2, <2>4
  <2>8. Previous(q, n + 1) = q[n] /\ Previous(q, 1) = q[n]
    BY <2>1 DEF Previous
  <2>9. Links(m, a, l, q, n + 1, e)
    BY <1>3, <2>1, <2>6, <2>8 DEF Links
  <2>10. Links(m, b, l, q, 1, e)
    BY <1>3, <2>1, <2>7, <2>8 DEF Links
  <2> QED
    BY <2>5, <2>9, <2>10
<1> QED
  BY <1>2, <1>3

\* clist_foreach_add before the k-th element, in the final system and in phase 1.
LEMMA AddLinks ==
    ASSUME NEW E, NEW q \in Seq(E), NoRepeats(q), NULL \notin E, NEW m, IsFiniteSet(DOMAIN m),
           E \subseteq DOMAIN m, NEW l \in DOMAIN m \ E, Holds(m, l, q),
           NEW e \in E \ Members(q), NEW k \in 1 .. Len(q)
    PROVE  /\ Links(m, clist_foreach_add(m, e, q[k], l), l, q, k, e)
           /\ Links(m, foreach_add(m, e, q[k], l), l, q, k, e)
<1> DEFINE n == Len(q)
<1>1. /\ n \in Nat /\ n # 0 /\ n > 0 /\ k # n + 1 /\ Previous(q, k) \in DOMAIN m
      /\ Previous(q, k) # l /\ Previous(q, k) # e /\ q[k] # l /\ q[k] # e
      /\ e \in DOMAIN m /\ l \in DOMAIN m /\ e # l
      /\ m[l] = q[n]
  BY DEF Holds, Members, Previous
<1>2. before(m, q[k], l) = Previous(q, k) /\ clist_head(m, l) = q[1]
  BY <1>1, ReadOfList DEF Previous
<1>3. PICK p : p = Previous(q, k)
  OBVIOUS
<1>4. PICK m2 : m2 = [m EXCEPT ![e] = q[k], ![p] = e]
  OBVIOUS
<1>5. /\ DOMAIN m2 = DOMAIN m /\ m2[l] = q[n] /\ m2[e] = q[k] /\ m2[p] = e
      /\ \A c \in DOMAIN m \ {l, e} : c # p => m2[c] = m[c]
  BY <1>1, <1>3, <1>4
<1>6. Links(m, m2, l, q, k, e)
  BY <1>1, <1>3, <1>5 DEF Links
<1>7. clist_foreach_add(m, e, q[k], l) = m2
  BY <1>2, <1>3, <1>4 DEF clist_foreach_add
<1>8. Links(m, foreach_add(m, e, q[k], l), l, q, k, e)
  <2>1. CASE q[k] = q[1]
    <3>1. k = 1
      BY <1>1, <2>1 DEF NoRepeats
    <3>2. foreach_add(m, e, q[k], l) = clist_push(m, e, l)
      BY <1>2, <2>1 DEF foreach_add, head, push
    <3> QED
      BY <3>1, <3>2, EnqueueLinks
  <2>2. CASE q[k] # q[1]
    <3>1. PICK m3 : m3 = [m EXCEPT ![p] = e, ![e] = q[k]]
      OBVIOUS
    <3>2. /\ DOMAIN m3 = DOMAIN m /\ m3[l] = q[n] /\ m3[e] = q[k] /\ m3[p] = e
          /\ \A c \in DOMAIN m \ {l, e} : c # p => m3[c] = m[c]
      BY <1>1, <1>3, <3>1
    <3>3. Links(m, m3, l, q, k, e)
      BY <1>1, <1>3, <3>2 DEF Links
    <3>4. foreach_add(m, e, q[k], l) = m3
      BY <1>2, <1>3, <2>2, <3>1 DEF foreach_add, head
    <3> QED
      BY <3>3, <3>4
  <2> QED
    BY <2>1, <2>2
<1> QED
  BY <1>6, <1>7, <1>8

\* clist_dequeue, in both.
LEMMA DequeueUnlinks ==
    ASSUME NEW E, NEW q \in Seq(E), NoRepeats(q), NULL \notin E, Len(q) # 0,
           NEW m, E \subseteq DOMAIN m, NEW l \in DOMAIN m \ E, Holds(m, l, q)
    PROVE  /\ Unlinks(m, clist_dequeue(m, l), l, q, 1)
           /\ dequeue(m, l) = clist_dequeue(m, l)
<1> DEFINE n == Len(q)
<1>1. /\ n \in Nat /\ n > 0 /\ q[n] \in DOMAIN m /\ q[n] # l /\ q[n] # NULL
      /\ l \in DOMAIN m /\ m[l] = q[n] /\ m[q[n]] = q[1]
  BY DEF Holds
<1>2. ~ clist_empty(m, l)
  BY <1>1 DEF clist_empty
<1>3. dequeue(m, l) = clist_dequeue(m, l)
  BY <1>2 DEF dequeue, clist_dequeue
<1>4. CASE n = 1
  <2>1. PICK m2 : m2 = [m EXCEPT ![l] = NULL]
    OBVIOUS
  <2>2. clist_dequeue(m, l) = m2
    BY <1>1, <1>2, <1>4, <2>1 DEF clist_dequeue
  <2>3. ~ n > 1 /\ DOMAIN m2 = DOMAIN m /\ m2[l] = NULL /\ \A c \in DOMAIN m \ {l} : m2[c] = m[c]
    BY <1>1, <1>4, <2>1
  <2> QED
    BY <1>3, <1>4, <2>2, <2>3 DEF Unlinks
<1>5. CASE n # 1
  <2>1. n > 1 /\ 1 # n /\ 1 \in 1 .. n
    <3>1. n \in Nat /\ n > 0
      BY <1>1
    <3> HIDE DEF n
    <3> QED
      BY <1>5, <3>1
  <2>2. q[1] # q[n]
    BY <1>1, <2>1 DEF NoRepeats
  <2>3. PICK m2 : m2 = [m EXCEPT ![q[n]] = m[q[1]]]
    OBVIOUS
  <2>4. clist_dequeue(m, l) = m2
    BY <1>1, <1>2, <2>2, <2>3 DEF clist_dequeue
  <2>5. /\ DOMAIN m2 = DOMAIN m /\ m2[l] = q[n] /\ m2[q[n]] = m[q[1]]
        /\ \A c \in DOMAIN m \ {l} : c # q[n] => m2[c] = m[c]
    BY <1>1, <2>3
  <2>6. Previous(q, 1) = q[n]
    BY DEF Previous
  <2> QED
    BY <1>3, <1>5, <2>1, <2>4, <2>5, <2>6 DEF Unlinks
<1> QED
  BY <1>4, <1>5

\* clist_delete, and clist_foreach_delete and clist_delete of phase 1.
LEMMA DeleteUnlinks ==
    ASSUME NEW E, NEW q \in Seq(E), NoRepeats(q), NULL \notin E, NEW m, IsFiniteSet(DOMAIN m),
           E \subseteq DOMAIN m, NEW l \in DOMAIN m \ E, Holds(m, l, q), NEW k \in 1 .. Len(q)
    PROVE  /\ Unlinks(m, clist_delete(m, q[k], l), l, q, k)
           /\ Unlinks(m, foreach_delete(m, q[k], l), l, q, k)
           /\ Unlinks(m, delete(m, q[k], l), l, q, k)
<1> DEFINE n == Len(q)
<1>1. /\ n \in Nat /\ n > 0 /\ k \in Nat /\ k <= n /\ k >= 1 /\ q[n] \in DOMAIN m /\ q[n] # l
      /\ l \in DOMAIN m /\ m[l] = q[n] /\ m[q[n]] = q[1] /\ q[k] \in DOMAIN m
      /\ Previous(q, k) \in DOMAIN m /\ Previous(q, k) # l
      /\ \A i, j \in 1 .. n : q[i] = q[j] => i = j
  BY DEF Holds, Previous, NoRepeats
<1>2. before(m, q[k], l) = Previous(q, k) /\ isIn(m, q[k], l) /\ scans(m, l) = q
  <2>1. q[k] \in Members(q)
    BY DEF Members
  <2> QED
    BY <1>1, <2>1, ReadOfList DEF Previous
<1>3. /\ q[n] = q[1] <=> n = 1
      /\ q[n] = q[k] <=> k = n
      /\ q[1] = q[k] <=> k = 1
  <2>1. 1 \in 1 .. n /\ n \in 1 .. n /\ k \in 1 .. n
    <3>1. n \in Nat /\ n > 0
      BY <1>1
    <3> QED
      BY <3>1
  <2> QED
    BY <1>1, <2>1
<1>4. PICK p : p = Previous(q, k)
  OBVIOUS
<1>5. k = n /\ n # 1 => p = q[n - 1]
  BY <1>1, <1>4 DEF Previous
<1>6. Unlinks(m, clist_delete(m, q[k], l), l, q, k)
  <2>1. CASE n = 1
    <3>1. PICK m2 : m2 = [m EXCEPT ![l] = NULL]
      OBVIOUS
    <3>2. clist_delete(m, q[k], l) = m2
      BY <1>1, <1>2, <1>3, <2>1, <3>1 DEF clist_delete
    <3>3. ~ n > 1 /\ DOMAIN m2 = DOMAIN m /\ m2[l] = NULL /\ \A c \in DOMAIN m \ {l} : m2[c] = m[c]
      BY <1>1, <2>1, <3>1
    <3> QED
      BY <2>1, <3>2, <3>3 DEF Unlinks
  <2>2. CASE n # 1
    <3>1. PICK m2 : m2 = [m EXCEPT ![p] = m[q[k]], ![l] = IF m[l] = q[k] THEN p ELSE @]
      OBVIOUS
    <3>2. clist_delete(m, q[k], l) = m2
      BY <1>1, <1>2, <1>3, <1>4, <2>2, <3>1 DEF clist_delete
    <3>3. DOMAIN m2 = DOMAIN m /\ m2[p] = m[q[k]] /\ \A c \in DOMAIN m \ {l} : c # p => m2[c] = m[c]
      BY <1>1, <1>4, <3>1
    <3>4. m2[l] = IF m[l] = q[k] THEN p ELSE m[l]
      BY <1>1, <1>4, <3>1
    <3>5. m2[l] = IF k = n THEN q[n - 1] ELSE q[n]
      BY <1>1, <1>3, <1>5, <2>2, <3>4
    <3>6. n > 1
      <4>1. n \in Nat /\ n > 0
        BY <1>1
      <4> HIDE DEF n
      <4> QED
        BY <2>2, <4>1
    <3> QED
      BY <1>4, <2>2, <3>2, <3>3, <3>5, <3>6 DEF Unlinks
  <2> QED
    BY <2>1, <2>2
<1>7. Unlinks(m, foreach_delete(m, q[k], l), l, q, k)
  <2>1. CASE k = 1
    <3>1. foreach_delete(m, q[k], l) = dequeue(m, l)
      BY <1>1, <2>1 DEF foreach_delete
    <3> QED
      BY <1>1, <2>1, <3>1, DequeueUnlinks
  <2>2. CASE k # 1 /\ k = n
    <3>1. PICK m2 : m2 = [m EXCEPT ![p] = m[q[k]], ![l] = p]
      OBVIOUS
    <3>2. foreach_delete(m, q[k], l) = m2
      BY <1>1, <1>2, <1>3, <1>4, <2>2, <3>1 DEF foreach_delete
    <3>3. /\ DOMAIN m2 = DOMAIN m /\ m2[p] = m[q[k]] /\ m2[l] = p
          /\ \A c \in DOMAIN m \ {l} : c # p => m2[c] = m[c]
      BY <1>1, <1>4, <3>1
    <3> QED
      BY <1>4, <1>5, <2>2, <3>2, <3>3 DEF Unlinks
  <2>3. CASE k # 1 /\ k # n
    <3>1. PICK m2 : m2 = [m EXCEPT ![p] = m[q[k]]]
      OBVIOUS
    <3>2. foreach_delete(m, q[k], l) = m2
      BY <1>1, <1>2, <1>3, <1>4, <2>3, <3>1 DEF foreach_delete
    <3>3. /\ DOMAIN m2 = DOMAIN m /\ m2[p] = m[q[k]] /\ m2[l] = q[n]
          /\ \A c \in DOMAIN m \ {l} : c # p => m2[c] = m[c]
      BY <1>1, <1>4, <3>1
    <3>4. n # 1
      BY <1>1, <2>3
    <3> QED
      BY <1>4, <2>3, <3>2, <3>3, <3>4 DEF Unlinks
  <2> QED
    BY <2>1, <2>2, <2>3
<1>8. delete(m, q[k], l) = foreach_delete(m, q[k], l)
  BY <1>2 DEF delete
<1> QED
  BY <1>6, <1>7, <1>8

\* clist_delete does nothing to a list that does not have the element.
LEMMA DeleteNothing ==
    ASSUME NEW E, NEW q \in Seq(E), NoRepeats(q), NULL \notin E, NEW m, IsFiniteSet(DOMAIN m),
           E \subseteq DOMAIN m, NEW l, Holds(m, l, q), NEW e, e \notin Members(q)
    PROVE  clist_delete(m, e, l) = m /\ delete(m, e, l) = m
<1>1. ~ isIn(m, e, l) /\ scans(m, l) = q
  BY ReadOfList
<1>2. clist_delete(m, e, l) = m
  BY <1>1 DEF clist_delete
<1>3. delete(m, e, l) = m
  <2>1. ~ \E i \in DOMAIN q : q[i] = e
    BY DEF Members
  <2> QED
    BY <1>1, <2>1 DEF delete
<1> QED
  BY <1>2, <1>3

\* clist_delete of phase 1 over the link of the last element in place of the list, as
\* outChild calls it, for an element that is neither first nor last.
LEMMA DeleteOverTail ==
    ASSUME NEW E, NEW q \in Seq(E), NoRepeats(q), NULL \notin E, NEW m, IsFiniteSet(DOMAIN m),
           E \subseteq DOMAIN m, NEW l \in DOMAIN m \ E, Holds(m, l, q),
           NEW k \in 1 .. Len(q), k # 1, k # Len(q)
    PROVE  Unlinks(m, delete(m, q[k], m[l]), l, q, k)
<1> DEFINE n == Len(q)
           t == q[n]
           \* What the link of the last element, taken for a list, holds.
           r == [i \in 1 .. n |-> IF i = n THEN q[1] ELSE q[i + 1]]
<1>1. /\ n \in Nat /\ n > 2 /\ \A i \in 1 .. n : q[i] \in E
      /\ m[l] = t /\ t \in DOMAIN m /\ l \in DOMAIN m /\ t # l
      /\ \A i \in 1 .. n : m[q[i]] = IF i = n THEN q[1] ELSE q[i + 1]
      /\ \A i, j \in 1 .. n : q[i] = q[j] => i = j
  BY DEF Holds, NoRepeats
<1>2. r \in Seq(E) /\ Len(r) = n
  BY <1>1
<1>3. \A i \in 1 .. n : r[i] = IF i = n THEN q[1] ELSE q[i + 1]
  OBVIOUS
<1> HIDE DEF r
<1>4. NoRepeats(r)
  <2>1. ASSUME NEW i \in 1 .. n, NEW j \in 1 .. n, r[i] = r[j]
        PROVE  i = j
    <3>1. PICK x \in 1 .. n : x = (IF i = n THEN 1 ELSE i + 1) /\ r[i] = q[x]
      BY <1>1, <1>3
    <3>2. PICK y \in 1 .. n : y = (IF j = n THEN 1 ELSE j + 1) /\ r[j] = q[y]
      BY <1>1, <1>3
    <3>3. x = y
      BY <1>1, <2>1, <3>1, <3>2
    <3> QED
      BY <1>1, <3>1, <3>2, <3>3
  <2> QED
    BY <1>2, <2>1 DEF NoRepeats
<1>5. Holds(m, t, r)
  <2>1. m[t] = r[n]
    BY <1>1, <1>3
  <2>2. ASSUME NEW i \in 1 .. n
        PROVE  m[r[i]] = IF i = n THEN r[1] ELSE r[i + 1]
    <3>1. CASE i = n
      BY <1>1, <1>3, <3>1
    <3>2. CASE i # n
      <4>1. i + 1 \in 1 .. n /\ r[i] = q[i + 1]
        BY <1>1, <1>3, <3>2
      <4>2. r[i + 1] = IF i + 1 = n THEN q[1] ELSE q[(i + 1) + 1]
        BY <1>3, <4>1
      <4> QED
        BY <1>1, <3>2, <4>1, <4>2
    <3> QED
      BY <3>1, <3>2
  <2> QED
    BY <1>1, <1>2, <2>1, <2>2 DEF Holds
<1>6. k - 1 \in 1 .. n /\ k - 1 # n /\ (k - 1) + 1 = k /\ q[k] = r[k - 1]
  <2>1. k - 1 \in 1 .. n /\ k - 1 # n /\ (k - 1) + 1 = k
    BY <1>1
  <2> QED
    BY <1>3, <2>1
<1>7. q[k] \in Members(r) /\ scans(m, t) = r
  BY <1>1, <1>2, <1>4, <1>5, <1>6, ReadOfList DEF Members
<1>8. delete(m, q[k], t) = foreach_delete(m, q[k], t)
  BY <1>2, <1>6, <1>7 DEF delete
<1>9. m[t] = q[1] /\ m[m[t]] = q[2] /\ q[1] # q[k]
  BY <1>1
<1>10. PICK m2 : m2 = [m EXCEPT ![q[k - 1]] = m[q[k]]]
  OBVIOUS
<1>11. foreach_delete(m, q[k], t) = m2
  <2>1. CASE k = 2
    <3>1. q[2] = q[k] /\ q[1] # q[2] /\ k - 1 = 1
      BY <1>1, <2>1
    <3>2. foreach_delete(m, q[k], t) = [m EXCEPT ![q[1]] = m[q[2]]]
      BY <1>9, <3>1 DEF foreach_delete, dequeue
    <3> QED
      BY <1>10, <3>1, <3>2
  <2>2. CASE k # 2
    <3>1. q[2] # q[k]
      BY <1>1, <2>2
    <3>2. before(m, r[k - 1], t) = IF k - 1 = 1 THEN r[Len(r)] ELSE r[(k - 1) - 1]
      BY <1>1, <1>2, <1>4, <1>5, <1>6, ReadOfList
    <3>3. k - 1 # 1 /\ (k - 1) - 1 \in 1 .. n /\ (k - 1) - 1 # n /\ ((k - 1) - 1) + 1 = k - 1
      BY <1>1, <2>2
    <3>4. before(m, q[k], t) = q[k - 1]
      BY <1>3, <1>6, <3>2, <3>3
    <3> QED
      BY <1>9, <1>10, <3>1, <3>4 DEF foreach_delete
  <2> QED
    BY <2>1, <2>2
<1>12. /\ DOMAIN m2 = DOMAIN m /\ m2[q[k - 1]] = m[q[k]] /\ m2[l] = q[n]
       /\ \A c \in DOMAIN m \ {l} : c # q[k - 1] => m2[c] = m[c]
  BY <1>1, <1>6, <1>10
<1>13. n # 1 /\ n > 1 /\ Previous(q, k) = q[k - 1]
  BY <1>1 DEF Previous
<1>14. Unlinks(m, m2, l, q, k)
  BY <1>12, <1>13 DEF Unlinks
<1> QED
  BY <1>1, <1>8, <1>11, <1>14

--------------------------------------------------------------------------------
(* Several lists in one memory *)

\* Memory m has the elements E and the lists DOMAIN Q, which hold the queues Q; no element
\* is in two of them.
Layout(m, E, Q) ==
    /\ NULL \notin E /\ IsFiniteSet(DOMAIN m)
    /\ DOMAIN m = E \cup DOMAIN Q /\ E \cap DOMAIN Q = {}
    /\ Q \in [DOMAIN Q -> Seq(E)]
    /\ \A l \in DOMAIN Q : NoRepeats(Q[l]) /\ Holds(m, l, Q[l])
    /\ \A k, l \in DOMAIN Q : k # l => Members(Q[k]) \cap Members(Q[l]) = {}

\* An element that is in none.
Unused(Q, e) == \A l \in DOMAIN Q : e \notin Members(Q[l])

\* What is read of one of the lists.
LEMMA LayoutRead ==
    ASSUME NEW m, NEW E, NEW Q, Layout(m, E, Q), NEW l \in DOMAIN Q
    PROVE  /\ Q[l] \in Seq(E) /\ NoRepeats(Q[l])
           /\ clist_empty(m, l) <=> Q[l] = <<>>
           /\ Q[l] # <<>> => clist_head(m, l) = Head(Q[l])
           /\ elements(m, l) = Q[l] /\ scans(m, l) = Q[l]
           /\ \A e : isIn(m, e, l) <=> e \in Members(Q[l])
<1> DEFINE q == Q[l]
<1>1. /\ NULL \notin E /\ IsFiniteSet(DOMAIN m) /\ E \subseteq DOMAIN m
      /\ q \in Seq(E) /\ NoRepeats(q) /\ Holds(m, l, q)
  BY DEF Layout
<1> HIDE DEF q
<1>2. /\ clist_empty(m, l) <=> Len(q) = 0
      /\ Len(q) # 0 => clist_head(m, l) = q[1]
      /\ elements(m, l) = q
      /\ \A e : isIn(m, e, l) <=> e \in Members(q)
      /\ scans(m, l) = q
  BY <1>1, ReadOfList
<1>3. (q = <<>> <=> Len(q) = 0) /\ (q # <<>> => Head(q) = q[1])
  BY <1>1
<1> QED
  BY <1>1, <1>2, <1>3 DEF q

\* A change of one list leaves the others as they are.
LEMMA LayoutChanged ==
    ASSUME NEW m, NEW E, NEW Q, Layout(m, E, Q), NEW l \in DOMAIN Q, NEW S \in SUBSET E,
           \A k \in DOMAIN Q \ {l} : S \cap Members(Q[k]) = {},
           NEW r \in Seq(E), NoRepeats(r), Members(r) \subseteq Members(Q[l]) \cup S,
           NEW m2, Holds(m2, l, r), DOMAIN m2 = DOMAIN m,
           \A c \in DOMAIN m : c # l /\ c \notin Members(Q[l]) \cup S => m2[c] = m[c]
    PROVE  Layout(m2, E, [Q EXCEPT ![l] = r])
<1> DEFINE R == [Q EXCEPT ![l] = r]
<1>1. /\ DOMAIN R = DOMAIN Q /\ R[l] = r /\ \A k \in DOMAIN Q \ {l} : R[k] = Q[k]
      /\ R \in [DOMAIN R -> Seq(E)]
  BY DEF Layout
<1> HIDE DEF R
<1>2. ASSUME NEW k \in DOMAIN R
      PROVE  NoRepeats(R[k]) /\ Holds(m2, k, R[k])
  <2>1. CASE k = l
    BY <1>1, <2>1
  <2>2. CASE k # l
    <3>1. /\ k \in DOMAIN Q /\ R[k] = Q[k] /\ NoRepeats(Q[k]) /\ Holds(m, k, Q[k])
          /\ Members(Q[k]) \cap (Members(Q[l]) \cup S) = {} /\ Q[k] \in Seq(E) /\ Q[l] \in Seq(E)
      BY <1>1, <2>2 DEF Layout
    <3>2. m2[k] = m[k]
      <4>1. k \in DOMAIN m /\ k \notin E /\ Members(Q[l]) \subseteq E
        BY <3>1, MembersType DEF Layout
      <4> QED
        BY <2>2, <4>1
    <3>3. ASSUME NEW i \in 1 .. Len(Q[k])
          PROVE  m2[Q[k][i]] = m[Q[k][i]]
      <4>1. Q[k][i] \in Members(Q[k]) /\ Q[k][i] \in E
        BY <3>1 DEF Members
      <4>2. Q[k][i] \in DOMAIN m /\ Q[k][i] # l /\ Q[k][i] \notin Members(Q[l]) \cup S
        BY <3>1, <4>1 DEF Layout
      <4> QED
        BY <4>2
    <3> QED
      BY <3>1, <3>2, <3>3 DEF Holds
  <2> QED
    BY <2>1, <2>2
<1>3. ASSUME NEW j \in DOMAIN R, NEW k \in DOMAIN R, j # k
      PROVE  Members(R[j]) \cap Members(R[k]) = {}
  <2>1. \A x \in DOMAIN Q \ {l} : Members(r) \cap Members(Q[x]) = {}
    BY DEF Layout
  <2>2. CASE j = l \/ k = l
    BY <1>1, <1>3, <2>1, <2>2
  <2>3. CASE j # l /\ k # l
    BY <1>1, <1>3, <2>3 DEF Layout
  <2> QED
    BY <2>2, <2>3
<1>4. Layout(m2, E, R)
  BY <1>1, <1>2, <1>3 DEF Layout
<1> QED
  BY <1>4 DEF R

\* An element is linked.
LEMMA LayoutLinks ==
    ASSUME NEW m, NEW E, NEW Q, Layout(m, E, Q), NEW l \in DOMAIN Q,
           NEW e \in E, Unused(Q, e), NEW k \in 1 .. Len(Q[l]) + 1,
           NEW m2, Links(m, m2, l, Q[l], k, e)
    PROVE  Layout(m2, E, [Q EXCEPT ![l] = Inserted(Q[l], k, e)])
<1> DEFINE q == Q[l]
           r == Inserted(q, k, e)
<1>1. /\ NULL \notin E /\ IsFiniteSet(DOMAIN m) /\ E \subseteq DOMAIN m /\ l \in DOMAIN m \ E
      /\ q \in Seq(E) /\ NoRepeats(q) /\ Holds(m, l, q) /\ e \in E \ Members(q)
      /\ k \in 1 .. Len(q) + 1 /\ Links(m, m2, l, q, k, e)
  BY DEF Layout, Unused
<1>2. \A x \in DOMAIN Q \ {l} : {e} \cap Members(Q[x]) = {}
  BY DEF Unused
<1> HIDE DEF q
<1>3. Holds(m2, l, r)
  BY <1>1, LinkedHolds
<1>4. r \in Seq(E) /\ Members(r) = Members(q) \cup {e} /\ NoRepeats(r)
  BY <1>1, InsertedProperties
<1>5. ASSUME NEW c \in DOMAIN m, c # l /\ c \notin Members(q) \cup {e}
      PROVE  m2[c] = m[c]
  <2>1. Len(q) > 0 => c # Previous(q, k)
    BY <1>1, <1>5 DEF Previous, Members
  <2> QED
    BY <1>1, <1>5, <2>1 DEF Links
<1>6. DOMAIN m2 = DOMAIN m
  BY <1>1 DEF Links
<1> HIDE DEF r
<1>7. Layout(m2, E, [Q EXCEPT ![l] = r])
  <2>1. {e} \in SUBSET E
    OBVIOUS
  <2>2. \A c \in DOMAIN m : c # l /\ c \notin Members(Q[l]) \cup {e} => m2[c] = m[c]
    BY <1>5 DEF q
  <2>3. Members(r) \subseteq Members(Q[l]) \cup {e}
    BY <1>4 DEF q
  <2> QED
    BY <1>2, <1>3, <1>4, <1>6, <2>1, <2>2, <2>3, LayoutChanged
<1> QED
  BY <1>7 DEF q, r

\* An element is unlinked.
LEMMA LayoutUnlinks ==
    ASSUME NEW m, NEW E, NEW Q, Layout(m, E, Q), NEW l \in DOMAIN Q,
           NEW k \in 1 .. Len(Q[l]), NEW m2, Unlinks(m, m2, l, Q[l], k)
    PROVE  Layout(m2, E, [Q EXCEPT ![l] = Removed(Q[l], k)])
<1> DEFINE q == Q[l]
           r == Removed(q, k)
<1>1. /\ NULL \notin E /\ IsFiniteSet(DOMAIN m) /\ E \subseteq DOMAIN m /\ l \in DOMAIN m \ E
      /\ q \in Seq(E) /\ NoRepeats(q) /\ Holds(m, l, q)
      /\ k \in 1 .. Len(q) /\ Unlinks(m, m2, l, q, k)
  BY DEF Layout
<1> HIDE DEF q
<1>2. Holds(m2, l, r)
  BY <1>1, UnlinkedHolds
<1>3. r \in Seq(E) /\ Members(r) = Members(q) \ {q[k]} /\ NoRepeats(r)
  BY <1>1, RemovedProperties
<1>4. ASSUME NEW c \in DOMAIN m, c # l /\ c \notin Members(q) \cup {}
      PROVE  m2[c] = m[c]
  <2>1. Len(q) > 1 => c # Previous(q, k)
    BY <1>1, <1>4 DEF Previous, Members
  <2> QED
    BY <1>1, <1>4, <2>1 DEF Unlinks
<1>5. DOMAIN m2 = DOMAIN m
  BY <1>1 DEF Unlinks
<1> HIDE DEF r
<1>6. Layout(m2, E, [Q EXCEPT ![l] = r])
  <2>1. {} \in SUBSET E /\ \A x \in DOMAIN Q \ {l} : {} \cap Members(Q[x]) = {}
    OBVIOUS
  <2>2. \A c \in DOMAIN m : c # l /\ c \notin Members(Q[l]) \cup {} => m2[c] = m[c]
    BY <1>4 DEF q
  <2>3. Members(r) \subseteq Members(Q[l]) \cup {}
    BY <1>3 DEF q
  <2> QED
    BY <1>2, <1>3, <1>5, <2>1, <2>2, <2>3, LayoutChanged
<1> QED
  BY <1>6 DEF q, r

\* clist_enqueue adds at the end, clist_push at the head.
LEMMA LayoutEnqueue ==
    ASSUME NEW m, NEW E, NEW Q, Layout(m, E, Q), NEW l \in DOMAIN Q,
           NEW e \in E, Unused(Q, e)
    PROVE  /\ Layout(clist_enqueue(m, e, l), E, [Q EXCEPT ![l] = Append(Q[l], e)])
           /\ Layout(clist_push(m, e, l), E, [Q EXCEPT ![l] = Inserted(Q[l], 1, e)])
<1> DEFINE q == Q[l]
<1>1. /\ NULL \notin E /\ E \subseteq DOMAIN m /\ l \in DOMAIN m \ E
      /\ q \in Seq(E) /\ NoRepeats(q) /\ Holds(m, l, q) /\ e \in E \ Members(q)
      /\ Len(q) + 1 \in 1 .. Len(q) + 1 /\ 1 \in 1 .. Len(q) + 1
  BY DEF Layout, Unused
<1> HIDE DEF q
<1>2. /\ Links(m, clist_enqueue(m, e, l), l, q, Len(q) + 1, e)
      /\ Links(m, clist_push(m, e, l), l, q, 1, e)
  BY <1>1, EnqueueLinks
<1>3. Append(q, e) = Inserted(q, Len(q) + 1, e)
  BY <1>1, InsertedProperties
<1>4. Layout(clist_enqueue(m, e, l), E, [Q EXCEPT ![l] = Inserted(q, Len(q) + 1, e)])
  BY <1>1, <1>2, LayoutLinks DEF q
<1>5. Layout(clist_push(m, e, l), E, [Q EXCEPT ![l] = Inserted(q, 1, e)])
  BY <1>1, <1>2, LayoutLinks DEF q
<1> QED
  BY <1>3, <1>4, <1>5 DEF q

\* clist_foreach_add, in the final system and in phase 1.
LEMMA LayoutAdd ==
    ASSUME NEW m, NEW E, NEW Q, Layout(m, E, Q), NEW l \in DOMAIN Q,
           NEW e \in E, Unused(Q, e), NEW k \in 1 .. Len(Q[l])
    PROVE  /\ Layout(clist_foreach_add(m, e, Q[l][k], l), E,
                     [Q EXCEPT ![l] = Inserted(Q[l], k, e)])
           /\ Layout(foreach_add(m, e, Q[l][k], l), E, [Q EXCEPT ![l] = Inserted(Q[l], k, e)])
<1> DEFINE q == Q[l]
<1>1. /\ NULL \notin E /\ E \subseteq DOMAIN m /\ l \in DOMAIN m \ E /\ IsFiniteSet(DOMAIN m)
      /\ q \in Seq(E) /\ NoRepeats(q) /\ Holds(m, l, q) /\ e \in E \ Members(q)
      /\ k \in 1 .. Len(q) /\ k \in 1 .. Len(q) + 1
  BY DEF Layout, Unused
<1> HIDE DEF q
<1>2. /\ Links(m, clist_foreach_add(m, e, q[k], l), l, q, k, e)
      /\ Links(m, foreach_add(m, e, q[k], l), l, q, k, e)
  BY <1>1, AddLinks
<1>3. Layout(clist_foreach_add(m, e, q[k], l), E, [Q EXCEPT ![l] = Inserted(q, k, e)])
  BY <1>1, <1>2, LayoutLinks DEF q
<1>4. Layout(foreach_add(m, e, q[k], l), E, [Q EXCEPT ![l] = Inserted(q, k, e)])
  BY <1>1, <1>2, LayoutLinks DEF q
<1> QED
  BY <1>3, <1>4 DEF q

\* clist_dequeue takes the first element out.
LEMMA LayoutDequeue ==
    ASSUME NEW m, NEW E, NEW Q, Layout(m, E, Q), NEW l \in DOMAIN Q, Q[l] # <<>>
    PROVE  /\ Layout(clist_dequeue(m, l), E, [Q EXCEPT ![l] = Tail(Q[l])])
           /\ dequeue(m, l) = clist_dequeue(m, l)
           /\ clist_head(m, l) = Head(Q[l]) /\ Head(Q[l]) \in E
           /\ Unused([Q EXCEPT ![l] = Tail(Q[l])], Head(Q[l]))
<1> DEFINE q == Q[l]
<1>1. /\ NULL \notin E /\ E \subseteq DOMAIN m /\ l \in DOMAIN m \ E /\ IsFiniteSet(DOMAIN m)
      /\ q \in Seq(E) /\ NoRepeats(q) /\ Holds(m, l, q) /\ Len(q) # 0 /\ 1 \in 1 .. Len(q)
  BY DEF Layout
<1>2. \A k \in DOMAIN Q \ {l} : Members(Q[k]) \cap Members(q) = {}
  BY DEF Layout
<1>3. clist_head(m, l) = Head(q)
  BY LayoutRead
<1> HIDE DEF q
<1>4. Unlinks(m, clist_dequeue(m, l), l, q, 1) /\ dequeue(m, l) = clist_dequeue(m, l)
  BY <1>1, DequeueUnlinks
<1>5. Tail(q) = Removed(q, 1)
  BY <1>1, RemovedProperties
<1>6. Layout(clist_dequeue(m, l), E, [Q EXCEPT ![l] = Removed(q, 1)])
  BY <1>1, <1>4, LayoutUnlinks DEF q
<1>7. Head(q) \in E /\ Head(q) \in Members(q) /\ Head(q) \notin Members(Tail(q))
  BY <1>1, HeadTailMembers, EmptySeq
<1>8. Unused([Q EXCEPT ![l] = Tail(q)], Head(q))
  BY <1>2, <1>7 DEF Unused
<1> QED
  BY <1>3, <1>4, <1>5, <1>6, <1>7, <1>8 DEF q

\* clist_delete and its likes take out one element, or nothing if it is not there.
LEMMA LayoutDelete ==
    ASSUME NEW m, NEW E, NEW Q, Layout(m, E, Q), NEW l \in DOMAIN Q, NEW e
    PROVE  /\ Layout(clist_delete(m, e, l), E, [Q EXCEPT ![l] = Without(Q[l], {e})])
           /\ Layout(delete(m, e, l), E, [Q EXCEPT ![l] = Without(Q[l], {e})])
           /\ e \in Members(Q[l]) =>
                /\ Layout(foreach_delete(m, e, l), E, [Q EXCEPT ![l] = Without(Q[l], {e})])
                /\ Unused([Q EXCEPT ![l] = Without(Q[l], {e})], e)
           /\ e \notin Members(Q[l]) =>
                /\ clist_delete(m, e, l) = m /\ delete(m, e, l) = m
                /\ [Q EXCEPT ![l] = Without(Q[l], {e})] = Q
<1> DEFINE q == Q[l]
<1>1. /\ NULL \notin E /\ E \subseteq DOMAIN m /\ l \in DOMAIN m \ E /\ IsFiniteSet(DOMAIN m)
      /\ q \in Seq(E) /\ NoRepeats(q) /\ Holds(m, l, q)
  BY DEF Layout
<1>2. \A k \in DOMAIN Q \ {l} : Members(Q[k]) \cap Members(q) = {}
  BY DEF Layout
<1>3. Q = [Q EXCEPT ![l] = q]
  BY DEF Layout
<1> HIDE DEF q
<1>4. CASE e \in Members(q)
  <2>1. PICK k \in 1 .. Len(q) : e = q[k]
    BY <1>4 DEF Members
  <2>2. /\ Unlinks(m, clist_delete(m, q[k], l), l, q, k)
        /\ Unlinks(m, foreach_delete(m, q[k], l), l, q, k)
        /\ Unlinks(m, delete(m, q[k], l), l, q, k)
    BY <1>1, DeleteUnlinks
  <2>3. Without(q, {e}) = Removed(q, k)
    BY <1>1, <2>1, WithoutOne
  <2>4. \A m2 : Unlinks(m, m2, l, q, k) => Layout(m2, E, [Q EXCEPT ![l] = Removed(q, k)])
    BY LayoutUnlinks DEF q
  <2>5. Members(Without(q, {e})) = Members(q) \ {e}
    BY <1>1, WithoutProperties
  <2>6. Unused([Q EXCEPT ![l] = Without(q, {e})], e)
    BY <1>2, <1>4, <2>5 DEF Unused
  <2> QED
    BY <1>4, <2>1, <2>2, <2>3, <2>4, <2>6 DEF q
<1>5. CASE e \notin Members(q)
  <2>1. clist_delete(m, e, l) = m /\ delete(m, e, l) = m
    BY <1>1, <1>5, DeleteNothing
  <2>2. Without(q, {e}) = q
    <3>1. Members(q) \cap {e} = {}
      BY <1>5
    <3> QED
      BY <1>1, <3>1, WithoutNone
  <2> QED
    BY <1>3, <1>5, <2>1, <2>2 DEF q
<1> QED
  BY <1>4, <1>5

\* The clist_delete of phase 1 given the tail in place of the list: an element in the middle.
LEMMA LayoutDeleteOverTail ==
    ASSUME NEW m, NEW E, NEW Q, Layout(m, E, Q), NEW l \in DOMAIN Q,
           NEW k \in 1 .. Len(Q[l]), k # 1, k # Len(Q[l])
    PROVE  Layout(delete(m, Q[l][k], m[l]), E, [Q EXCEPT ![l] = Without(Q[l], {Q[l][k]})])
<1> DEFINE q == Q[l]
<1>1. /\ NULL \notin E /\ E \subseteq DOMAIN m /\ l \in DOMAIN m \ E /\ IsFiniteSet(DOMAIN m)
      /\ q \in Seq(E) /\ NoRepeats(q) /\ Holds(m, l, q)
  BY DEF Layout
<1>2. \A m2 : Unlinks(m, m2, l, q, k) => Layout(m2, E, [Q EXCEPT ![l] = Removed(q, k)])
  BY LayoutUnlinks
<1>3. k \in 1 .. Len(q) /\ k # 1 /\ k # Len(q)
  OBVIOUS
<1> HIDE DEF q
<1>4. Unlinks(m, delete(m, q[k], m[l]), l, q, k)
  BY <1>1, <1>3, DeleteOverTail
<1>5. Without(q, {q[k]}) = Removed(q, k)
  BY <1>1, <1>3, WithoutOne
<1> QED
  BY <1>2, <1>4, <1>5 DEF q

\* The link of an element that is in no list, or of an empty list, is cleared.
LEMMA LayoutClear ==
    ASSUME NEW m, NEW E, NEW Q, Layout(m, E, Q), NEW e,
           (e \in E /\ Unused(Q, e)) \/ (e \in DOMAIN Q /\ Q[e] = <<>>)
    PROVE  Layout([m EXCEPT ![e] = NULL], E, Q)
<1> DEFINE m2 == [m EXCEPT ![e] = NULL]
<1>1. DOMAIN m2 = DOMAIN m /\ \A c \in DOMAIN m : c # e => m2[c] = m[c]
  OBVIOUS
<1>2. e \in DOMAIN m => m2[e] = NULL
  OBVIOUS
<1> HIDE DEF m2
<1>3. ASSUME NEW l \in DOMAIN Q
      PROVE  Holds(m2, l, Q[l])
  <2>1. l \in DOMAIN m /\ l \notin E /\ Q[l] \in Seq(E) /\ Holds(m, l, Q[l]) /\ E \subseteq DOMAIN m
    BY DEF Layout
  <2>2. m2[l] = m[l]
    <3>1. CASE l = e
      <4>1. Len(Q[l]) = 0
        BY <2>1, <3>1
      <4> QED
        BY <1>2, <2>1, <3>1, <4>1 DEF Holds
    <3>2. CASE l # e
      BY <1>1, <2>1, <3>2
    <3> QED
      BY <3>1, <3>2
  <2>3. ASSUME NEW i \in 1 .. Len(Q[l])
        PROVE  m2[Q[l][i]] = m[Q[l][i]]
    <3>1. Q[l][i] \in E /\ Q[l][i] \in Members(Q[l])
      BY <2>1 DEF Members
    <3>2. Q[l][i] # e
      BY <3>1 DEF Unused, Layout
    <3> QED
      BY <1>1, <2>1, <3>1, <3>2
  <2> QED
    BY <2>1, <2>2, <2>3 DEF Holds
<1>4. Layout(m2, E, Q)
  BY <1>1, <1>3 DEF Layout
<1> QED
  BY <1>4 DEF m2

--------------------------------------------------------------------------------
(* A list in ascending order *)

Ascending(q, order) == \A i, j \in 1 .. Len(q) : i < j => order[q[i]] < order[q[j]]

\* The place in the order where e belongs.
Place(q, k, e, order) ==
    /\ k \in 1 .. Len(q) + 1
    /\ \A i \in 1 .. Len(q) : IF i < k THEN order[q[i]] < order[e] ELSE order[e] < order[q[i]]

\* An element put at its place leaves the list in order.
LEMMA InsertedAscending ==
    ASSUME NEW E, NEW q \in Seq(E), NEW e \in E, NEW order \in [E -> Nat],
           Ascending(q, order), NEW k, Place(q, k, e, order)
    PROVE  Ascending(Inserted(q, k, e), order)
<1> DEFINE n == Len(q)
           r == Inserted(q, k, e)
<1>1. /\ n \in Nat /\ k \in 1 .. n + 1 /\ \A i \in 1 .. n : order[q[i]] \in Nat
      /\ order[e] \in Nat
  BY DEF Place
<1>2. Len(r) = n + 1 /\ \A i \in 1 .. n + 1 : r[i] = IF i < k THEN q[i] ELSE IF i = k THEN e ELSE q[i - 1]
  <2>1. Len(r) = n + 1
    BY <1>1, InsertedProperties
  <2> QED
    BY <2>1 DEF Inserted
<1> HIDE DEF r
<1>3. ASSUME NEW i \in 1 .. n + 1, NEW j \in 1 .. n + 1, i < j
      PROVE  order[r[i]] < order[r[j]]
  <2>1. CASE i < k /\ j < k
    <3>1. i \in 1 .. n /\ j \in 1 .. n
      BY <1>1, <2>1
    <3> QED
      BY <1>2, <1>3, <2>1, <3>1 DEF Ascending
  <2>2. CASE i < k /\ j = k
    <3>1. i \in 1 .. n /\ ~ j < k
      BY <1>1, <2>2
    <3> QED
      BY <1>2, <2>2, <3>1 DEF Place
  <2>3. CASE i < k /\ j > k
    <3>1. i \in 1 .. n /\ j - 1 \in 1 .. n /\ ~ j < k /\ j # k /\ i < j - 1
      BY <1>1, <2>3
    <3> QED
      BY <1>2, <2>3, <3>1 DEF Ascending
  <2>4. CASE i = k
    <3>1. j - 1 \in 1 .. n /\ ~ j < k /\ j # k /\ ~ j - 1 < k /\ ~ i < k
      BY <1>1, <1>3, <2>4
    <3> QED
      BY <1>2, <2>4, <3>1 DEF Place
  <2>5. CASE i > k
    <3>1. /\ i - 1 \in 1 .. n /\ j - 1 \in 1 .. n /\ ~ i < k /\ ~ j < k
          /\ i # k /\ j # k /\ i - 1 < j - 1
      BY <1>1, <1>3, <2>5
    <3> QED
      BY <1>2, <3>1 DEF Ascending
  <2> QED
    BY <1>1, <2>1, <2>2, <2>3, <2>4, <2>5
<1> QED
  BY <1>2, <1>3 DEF Ascending, r

First(places) == CHOOSE i \in places : \A h \in places : i <= h

\* The first place with a greater key is where an element belongs.
LEMMA FirstGreaterPlace ==
    ASSUME NEW E, NEW q \in Seq(E), NEW e \in E, NEW order \in [E -> Nat],
           Ascending(q, order), \A x \in Members(q) : order[x] # order[e],
           NEW places \in SUBSET (1 .. Len(q)),
           \A i \in 1 .. Len(q) : i \in places <=> order[e] < order[q[i]]
    PROVE  /\ places = {} => Place(q, Len(q) + 1, e, order)
           /\ places # {} => First(places) \in 1 .. Len(q) /\ Place(q, First(places), e, order)
<1> DEFINE n == Len(q)
<1>1. /\ n \in Nat /\ \A i \in 1 .. n : order[q[i]] \in Nat /\ order[q[i]] # order[e]
      /\ order[e] \in Nat
  BY DEF Members
<1>2. ASSUME places = {}
      PROVE  Place(q, n + 1, e, order)
  <2>1. \A i \in 1 .. n : i < n + 1 /\ order[q[i]] < order[e]
    BY <1>1, <1>2
  <2> QED
    BY <1>1, <2>1 DEF Place
<1>3. ASSUME places # {}
      PROVE  First(places) \in 1 .. n /\ Place(q, First(places), e, order)
  <2>1. places \in SUBSET (1 .. n)
    OBVIOUS
  <2>2. \E i \in places : \A h \in places : i <= h
    BY <1>1, <1>3, <2>1, LeastIndex
  <2>3. PICK k : k = First(places)
    OBVIOUS
  <2>4. k \in places /\ \A h \in places : k <= h
    BY <2>2, <2>3 DEF First
  <2>5. ASSUME NEW i \in 1 .. n
        PROVE  IF i < k THEN order[q[i]] < order[e] ELSE order[e] < order[q[i]]
    <3>1. CASE i < k
      <4>1. i \notin places
        BY <2>4, <3>1
      <4> QED
        BY <1>1, <3>1, <4>1
    <3>2. CASE i = k
      BY <2>4, <3>2
    <3>3. CASE i > k
      <4>1. k \in 1 .. n /\ order[q[k]] < order[q[i]] /\ order[e] < order[q[k]]
        BY <2>4, <3>3 DEF Ascending
      <4> QED
        BY <1>1, <3>3, <4>1
    <3> QED
      BY <2>4, <3>1, <3>2, <3>3
  <2>6. k \in 1 .. n /\ k \in 1 .. n + 1
    BY <1>1, <2>4
  <2>7. Place(q, k, e, order)
    BY <2>5, <2>6 DEF Place
  <2> QED
    BY <2>3, <2>6, <2>7
<1> QED
  BY <1>2, <1>3

\* An element is somewhere in the list l, at its place.
PutAscending(m, E, Q, l, e, order) ==
    \E k : Place(Q[l], k, e, order) /\ Layout(m, E, [Q EXCEPT ![l] = Inserted(Q[l], k, e)])

\* clist_insert_asc puts it there.
LEMMA LayoutInsertAsc ==
    ASSUME NEW m, NEW E, NEW Q, Layout(m, E, Q), NEW l \in DOMAIN Q,
           NEW e \in E, Unused(Q, e), NEW order \in [E -> Nat], Ascending(Q[l], order),
           \A x \in Members(Q[l]) : order[x] # order[e]
    PROVE  PutAscending(clist_insert_asc(m, e, l, order), E, Q, l, e, order)
<1> DEFINE q == Q[l]
<1>1. q \in Seq(E) /\ elements(m, l) = q
  BY LayoutRead
<1>2. \A i \in 1 .. Len(q) : order[q[i]] \in Nat /\ order[e] \in Nat
  BY <1>1
<1>3. PICK places : places = {i \in 1 .. Len(q) : order[e] < order[q[i]]}
  OBVIOUS
<1>4. firstGreater(m, e, l, order) = places
  BY <1>1, <1>2, <1>3 DEF firstGreater
<1>5. /\ places = {} => Place(q, Len(q) + 1, e, order)
      /\ places # {} => First(places) \in 1 .. Len(q) /\ Place(q, First(places), e, order)
  <2>1. Ascending(q, order) /\ \A x \in Members(q) : order[x] # order[e]
    OBVIOUS
  <2>2. /\ places \in SUBSET (1 .. Len(q))
        /\ \A i \in 1 .. Len(q) : i \in places <=> order[e] < order[q[i]]
    BY <1>3
  <2> HIDE DEF q
  <2> QED
    BY <1>1, <2>1, <2>2, FirstGreaterPlace
<1>6. CASE places = {}
  <2>1. clist_insert_asc(m, e, l, order) = clist_enqueue(m, e, l)
    BY <1>4, <1>6 DEF clist_insert_asc
  <2>2. Append(q, e) = Inserted(q, Len(q) + 1, e)
    <3> HIDE DEF q
    <3>1. Len(q) + 1 \in 1 .. Len(q) + 1
      BY <1>1
    <3> QED
      BY <1>1, <3>1, InsertedProperties
  <2>3. Layout(clist_enqueue(m, e, l), E, [Q EXCEPT ![l] = Append(q, e)])
    BY LayoutEnqueue
  <2> QED
    BY <1>5, <1>6, <2>1, <2>2, <2>3 DEF PutAscending
<1>7. CASE places # {}
  <2>1. PICK k \in 1 .. Len(q) : /\ k = CHOOSE i \in places : \A h \in places : i <= h
                                 /\ Place(q, k, e, order)
    BY <1>5, <1>7 DEF First
  <2>2. clist_insert_asc(m, e, l, order) = clist_foreach_add(m, e, q[k], l)
    BY <1>1, <1>4, <1>7, <2>1 DEF clist_insert_asc
  <2>3. Layout(clist_foreach_add(m, e, q[k], l), E, [Q EXCEPT ![l] = Inserted(q, k, e)])
    BY LayoutAdd
  <2> QED
    BY <2>1, <2>2, <2>3 DEF PutAscending
<1> QED
  BY <1>6, <1>7

\* How withSemd of phase 1 puts an element in a list, whose keys are the old ones.
oldInsertAsc(m, e, l, order, old) ==
    LET scan    == scans(m, l)
        greater == {i \in DOMAIN scan : order[e] < old[scan[i]]}
    IN  IF empty(m, l) \/ order[e] > old[m[l]] THEN enqueue(m, e, l)
        ELSE foreach_add(m, e, scan[CHOOSE i \in greater : \A k \in greater : i <= k], l)

\* With its comparison with the tail it does the same.
LEMMA LayoutInsertOld ==
    ASSUME NEW m, NEW E, NEW Q, Layout(m, E, Q), NEW l \in DOMAIN Q,
           NEW e \in E, Unused(Q, e), NEW order \in [E -> Nat], Ascending(Q[l], order),
           \A x \in Members(Q[l]) : order[x] # order[e],
           NEW old, \A x \in Members(Q[l]) : old[x] = order[x]
    PROVE  PutAscending(oldInsertAsc(m, e, l, order, old), E, Q, l, e, order)
<1> DEFINE q == Q[l]
           scan == scans(m, l)
           greater == {i \in DOMAIN scan : order[e] < old[scan[i]]}
           result == IF empty(m, l) \/ order[e] > old[m[l]] THEN enqueue(m, e, l)
                     ELSE foreach_add(m, e, scan[CHOOSE i \in greater : \A k \in greater : i <= k], l)
<1>1. q \in Seq(E) /\ scans(m, l) = q /\ (clist_empty(m, l) <=> q = <<>>) /\ Holds(m, l, q)
  BY LayoutRead DEF Layout
<1>2. /\ \A i \in 1 .. Len(q) : order[q[i]] \in Nat /\ old[q[i]] = order[q[i]] /\ order[q[i]] # order[e]
      /\ order[e] \in Nat
      /\ \A i, j \in 1 .. Len(q) : i < j => order[q[i]] < order[q[j]]
  BY <1>1 DEF Members, Ascending
<1>3. PICK places : places = {i \in 1 .. Len(q) : order[e] < order[q[i]]}
  OBVIOUS
<1>4. greater = places
  BY <1>1, <1>2, <1>3
<1>5. /\ places = {} => Place(q, Len(q) + 1, e, order)
      /\ places # {} => First(places) \in 1 .. Len(q) /\ Place(q, First(places), e, order)
  <2>1. Ascending(q, order) /\ \A x \in Members(q) : order[x] # order[e]
    OBVIOUS
  <2>2. /\ places \in SUBSET (1 .. Len(q))
        /\ \A i \in 1 .. Len(q) : i \in places <=> order[e] < order[q[i]]
    BY <1>3
  <2> HIDE DEF q
  <2> QED
    BY <1>1, <2>1, <2>2, FirstGreaterPlace
<1> HIDE DEF greater
<1>6. empty(m, l) \/ order[e] > old[m[l]] <=> places = {}
  <2>1. CASE Len(q) = 0
    BY <1>1, <1>3, <2>1 DEF empty
  <2>2. CASE Len(q) # 0
    <3>1. Len(q) \in 1 .. Len(q) /\ m[l] = q[Len(q)] /\ ~ empty(m, l)
      BY <1>1, <2>2 DEF Holds, empty
    <3>2. CASE order[e] > order[q[Len(q)]]
      <4>1. ASSUME NEW i \in 1 .. Len(q)
            PROVE  ~ order[e] < order[q[i]]
        <5>1. order[q[i]] < order[q[Len(q)]] \/ i = Len(q)
          BY <1>1, <1>2, <3>1
        <5> QED
          BY <1>2, <3>1, <3>2, <5>1
      <4> QED
        BY <1>2, <1>3, <3>1, <3>2, <4>1
    <3>3. CASE ~ order[e] > order[q[Len(q)]]
      <4>1. Len(q) \in places
        BY <1>2, <1>3, <3>1, <3>3
      <4> QED
        BY <1>2, <3>1, <3>3, <4>1
    <3> QED
      BY <3>2, <3>3
  <2> QED
    BY <2>1, <2>2
<1>7. PutAscending(result, E, Q, l, e, order)
  <2>1. CASE places = {}
    <3>1. result = clist_enqueue(m, e, l)
      BY <1>6, <2>1 DEF enqueue
    <3>2. Append(q, e) = Inserted(q, Len(q) + 1, e)
      <4> HIDE DEF q
      <4>1. Len(q) + 1 \in 1 .. Len(q) + 1
        BY <1>1
      <4> QED
        BY <1>1, <4>1, InsertedProperties
    <3>3. Layout(clist_enqueue(m, e, l), E, [Q EXCEPT ![l] = Append(q, e)])
      BY LayoutEnqueue
    <3> HIDE DEF result
    <3> QED
      BY <1>5, <2>1, <3>1, <3>2, <3>3 DEF PutAscending
  <2>2. CASE places # {}
    <3>1. PICK k \in 1 .. Len(q) : /\ k = CHOOSE i \in places : \A h \in places : i <= h
                                   /\ Place(q, k, e, order)
      BY <1>5, <2>2 DEF First
    <3>2. result = foreach_add(m, e, q[k], l)
      BY <1>1, <1>4, <1>6, <2>2, <3>1
    <3>3. Layout(foreach_add(m, e, q[k], l), E, [Q EXCEPT ![l] = Inserted(q, k, e)])
      BY LayoutAdd
    <3> HIDE DEF result
    <3> QED
      BY <3>1, <3>2, <3>3 DEF PutAscending
  <2> QED
    BY <2>1, <2>2
<1> QED
  BY <1>7 DEF greater, oldInsertAsc

--------------------------------------------------------------------------------
(* From list to list *)

\* removeProcQ, with and without clearing the link.
LEMMA LayoutTake ==
    ASSUME NEW m, NEW E, NEW Q, Layout(m, E, Q), NEW l \in DOMAIN Q, Q[l] # <<>>
    PROVE  /\ Layout(removeProcQ(m, l), E, [Q EXCEPT ![l] = Tail(Q[l])])
           /\ Layout(oldRemoveProcQ(m, l), E, [Q EXCEPT ![l] = Tail(Q[l])])
           /\ Unused([Q EXCEPT ![l] = Tail(Q[l])], Head(Q[l])) /\ Head(Q[l]) \in E
<1> DEFINE R == [Q EXCEPT ![l] = Tail(Q[l])]
           e == Head(Q[l])
<1>1. /\ Layout(clist_dequeue(m, l), E, R) /\ dequeue(m, l) = clist_dequeue(m, l)
      /\ clist_head(m, l) = e /\ e \in E /\ Unused(R, e)
  BY LayoutDequeue
<1> HIDE DEF R, e
<1>2. Layout([clist_dequeue(m, l) EXCEPT ![e] = NULL], E, R)
  BY <1>1, LayoutClear
<1> QED
  BY <1>1, <1>2 DEF removeProcQ, oldRemoveProcQ, R, e

\* The first of one list becomes the last of another.
LEMMA LayoutMove ==
    ASSUME NEW m, NEW E, NEW Q, Layout(m, E, Q), NEW k \in DOMAIN Q, Q[k] # <<>>,
           NEW l \in DOMAIN Q, l # k, NEW e, e = Head(Q[k]),
           NEW m2, m2 = removeProcQ(m, k) \/ m2 = oldRemoveProcQ(m, k)
    PROVE  Layout(clist_enqueue(m2, e, l), E, [Q EXCEPT ![k] = Tail(Q[k]), ![l] = Append(Q[l], e)])
<1> DEFINE R == [Q EXCEPT ![k] = Tail(Q[k])]
<1>1. Layout(m2, E, R) /\ Unused(R, e) /\ e \in E
  BY LayoutTake
<1>2. DOMAIN R = DOMAIN Q /\ R[l] = Q[l]
  OBVIOUS
<1>3. [R EXCEPT ![l] = Append(R[l], e)] = [Q EXCEPT ![k] = Tail(Q[k]), ![l] = Append(Q[l], e)]
  BY <1>2
<1> HIDE DEF R
<1>4. Layout(clist_enqueue(m2, e, l), E, [R EXCEPT ![l] = Append(R[l], e)])
  BY <1>1, <1>2, LayoutEnqueue
<1> QED
  BY <1>3, <1>4

\* outProcQ takes a process out of a queue, if it is there.
LEMMA LayoutOut ==
    ASSUME NEW m, NEW E, NEW Q, Layout(m, E, Q), NEW l \in DOMAIN Q, NEW e \in E
    PROVE  /\ Layout(outProcQ(m, l, e), E, [Q EXCEPT ![l] = Without(Q[l], {e})])
           /\ Layout(oldOutProcQ(m, l, e), E, [Q EXCEPT ![l] = Without(Q[l], {e})])
<1> DEFINE R == [Q EXCEPT ![l] = Without(Q[l], {e})]
<1>1. isIn(m, e, l) <=> e \in Members(Q[l])
  BY LayoutRead
<1>2. /\ Layout(clist_delete(m, e, l), E, R) /\ Layout(delete(m, e, l), E, R)
      /\ e \in Members(Q[l]) => Unused(R, e)
      /\ e \notin Members(Q[l]) => R = Q
  BY LayoutDelete
<1> HIDE DEF R
<1>3. CASE e \in Members(Q[l])
  <2>1. Layout([clist_delete(m, e, l) EXCEPT ![e] = NULL], E, R)
    BY <1>2, <1>3, LayoutClear
  <2> QED
    BY <1>1, <1>2, <1>3, <2>1 DEF outProcQ, oldOutProcQ, R
<1>4. CASE e \notin Members(Q[l])
  BY <1>1, <1>2, <1>4 DEF outProcQ, oldOutProcQ, R
<1> QED
  BY <1>3, <1>4

--------------------------------------------------------------------------------
(* The invariant *)

\* What the lists of each link hold.
Queue == [l \in {"pcbFree", "ready_queue"} \cup Semd |-> elements(p_list, l)]
Jobs == [l \in {"jobs"} |-> elements(p_jobs, l)]
Children == [l \in {p_children(p) : p \in Pcb} |-> elements(p_siblings, l)]
Descriptors == [l \in {"aslh", "semdFree"} |-> elements(s_link, l)]

\* The processes that are not free.
Live == Pcb \ Members(Queue["pcbFree"])

TypeOK ==
    /\ p_parent \in [Pcb -> Pcb \cup {NULL}]
    /\ p_cursem \in [Pcb -> Semd \cup {NULL}]
    /\ s_semAdd \in [Semd -> Nat]
    /\ current_process \in Pcb \cup {NULL}
    /\ calls \in Seq(Pcb)
    /\ version \in {"final", "phase 1"}

\* The links of each kind are lists that have no element in common.
Linked ==
    /\ Layout(p_list, Pcb, Queue)
    /\ Layout(p_jobs, Pcb, Jobs)
    /\ Layout(p_siblings, Pcb, Children)
    /\ Layout(s_link, Semd, Descriptors)

\* Who is live and who waits where.
Placed ==
    /\ version = "final" => Members(Jobs["jobs"]) = Live
    /\ process_c = Cardinality(Live)
    /\ current_process # NULL => current_process \in Live /\ Unused(Queue, current_process)
    /\ \A d \in Semd : \A p \in Members(Queue[d]) : p_cursem[p] = d
    /\ version = "phase 1" =>
         \A p \in Pcb : p_cursem[p] # NULL => p \in Members(Queue[p_cursem[p]])

\* Each descriptor is active or free, and then nobody waits in its queue; the ASL is in order.
Described ==
    /\ Members(Descriptors["aslh"]) \cup Members(Descriptors["semdFree"]) = Semd
    /\ Ascending(Descriptors["aslh"], s_semAdd)
    /\ \A d \in Members(Descriptors["aslh"]) : s_semAdd[d] \in Sem
    /\ \A d \in Members(Descriptors["semdFree"]) : Queue[d] = <<>>

\* The p_children and the p_parent agree, and all in the tree are live.
Family ==
    /\ \A r, p \in Pcb : p \in Members(Children[p_children(r)]) <=> p_parent[p] = r
    /\ \A p \in Pcb : p_parent[p] # NULL => p \in Live /\ p_parent[p] \in Live

\* Following parents, or the calls of terminateFamily for those it has taken out of the
\* tree, one leaves every set of processes.
Rooted ==
    \A S \in SUBSET Pcb : S # {} =>
        \E p \in S : /\ p_parent[p] \notin S
                     /\ \A i \in 2 .. Len(calls) : calls[i] = p => calls[i - 1] \notin S

\* p is not the last of several children.
NotLast(p) ==
    p_parent[p] # NULL => LET q == Children[p_children(p_parent[p])]
                          IN  Len(q) = 1 \/ q[Len(q)] # p

\* terminateFamily is at live processes, none of them twice.
Called ==
    /\ NoRepeats(calls) /\ Members(calls) \subseteq Live
    /\ \A i \in 2 .. Len(calls) : p_parent[calls[i]] = NULL
    /\ version = "phase 1" /\ calls # <<>> => NotLast(calls[1])

ListsInv == TypeOK /\ Linked /\ Placed /\ Described /\ Family /\ Rooted /\ Called

\* The memories tell the queues, also in the next state.
LEMMA NextQueues ==
    /\ \A Q : Layout(p_list', Pcb, Q) /\ DOMAIN Q = DOMAIN Queue => Queue' = Q
    /\ \A Q : Layout(p_jobs', Pcb, Q) /\ DOMAIN Q = DOMAIN Jobs => Jobs' = Q
    /\ \A Q : Layout(p_siblings', Pcb, Q) /\ DOMAIN Q = DOMAIN Children => Children' = Q
    /\ \A Q : Layout(s_link', Semd, Q) /\ DOMAIN Q = DOMAIN Descriptors => Descriptors' = Q
<1>1. ASSUME NEW m, NEW E, NEW Q, Layout(m, E, Q)
      PROVE  Q = [l \in DOMAIN Q |-> elements(m, l)]
  <2>1. \A l \in DOMAIN Q : elements(m, l) = Q[l]
    BY <1>1, LayoutRead
  <2>2. Q = [l \in DOMAIN Q |-> Q[l]]
    BY <1>1 DEF Layout
  <2> QED
    BY <2>1, <2>2
<1>2. ASSUME NEW Q, Layout(p_list', Pcb, Q), DOMAIN Q = DOMAIN Queue
      PROVE  Queue' = Q
  BY <1>1, <1>2 DEF Queue
<1>3. ASSUME NEW Q, Layout(p_jobs', Pcb, Q), DOMAIN Q = DOMAIN Jobs
      PROVE  Jobs' = Q
  BY <1>1, <1>3 DEF Jobs
<1>4. ASSUME NEW Q, Layout(p_siblings', Pcb, Q), DOMAIN Q = DOMAIN Children
      PROVE  Children' = Q
  BY <1>1, <1>4 DEF Children
<1>5. ASSUME NEW Q, Layout(s_link', Semd, Q), DOMAIN Q = DOMAIN Descriptors
      PROVE  Descriptors' = Q
  BY <1>1, <1>5 DEF Descriptors
<1> QED
  BY <1>2, <1>3, <1>4, <1>5

\* The lists that the memories hold after a step are the queues then.
LEMMA NextLinked ==
    ASSUME NEW Q, Layout(p_list', Pcb, Q), DOMAIN Q = DOMAIN Queue,
           NEW J, Layout(p_jobs', Pcb, J), DOMAIN J = DOMAIN Jobs,
           NEW C, Layout(p_siblings', Pcb, C), DOMAIN C = DOMAIN Children,
           NEW D, Layout(s_link', Semd, D), DOMAIN D = DOMAIN Descriptors
    PROVE  Linked' /\ Queue' = Q /\ Jobs' = J /\ Children' = C /\ Descriptors' = D
<1>1. Queue' = Q /\ Jobs' = J /\ Children' = C /\ Descriptors' = D
  BY NextQueues
<1> QED
  BY <1>1 DEF Linked

\* What the tables are read as.
LEMMA Tabled ==
    ASSUME ListsInv
    PROVE  /\ DOMAIN Queue = {"pcbFree", "ready_queue"} \cup Semd /\ DOMAIN Jobs = {"jobs"}
           /\ DOMAIN Children = {p_children(p) : p \in Pcb}
           /\ DOMAIN Descriptors = {"aslh", "semdFree"}
           /\ \A l \in DOMAIN Queue :
                /\ Queue[l] \in Seq(Pcb) /\ NoRepeats(Queue[l])
                /\ clist_empty(p_list, l) <=> Queue[l] = <<>>
                /\ Queue[l] # <<>> => clist_head(p_list, l) = Head(Queue[l])
                /\ \A p : isIn(p_list, p, l) <=> p \in Members(Queue[l])
           /\ \A r \in Pcb :
                /\ Children[p_children(r)] \in Seq(Pcb) /\ NoRepeats(Children[p_children(r)])
                /\ emptyChild(r) <=> Children[p_children(r)] = <<>>
           /\ \A s : searchAsl(s) = {d \in Members(Descriptors["aslh"]) : s_semAdd[d] = s}
           /\ alive = Live
<1> USE DEF ListsInv, Linked
<1>1. /\ DOMAIN Queue = {"pcbFree", "ready_queue"} \cup Semd /\ DOMAIN Jobs = {"jobs"}
      /\ DOMAIN Children = {p_children(p) : p \in Pcb}
      /\ DOMAIN Descriptors = {"aslh", "semdFree"}
  BY DEF Queue, Jobs, Children, Descriptors
<1>2. ASSUME NEW l \in DOMAIN Queue
      PROVE  /\ Queue[l] \in Seq(Pcb) /\ NoRepeats(Queue[l])
             /\ clist_empty(p_list, l) <=> Queue[l] = <<>>
             /\ Queue[l] # <<>> => clist_head(p_list, l) = Head(Queue[l])
             /\ \A p : isIn(p_list, p, l) <=> p \in Members(Queue[l])
  BY LayoutRead
<1>3. ASSUME NEW r \in Pcb
      PROVE  /\ Children[p_children(r)] \in Seq(Pcb) /\ NoRepeats(Children[p_children(r)])
             /\ emptyChild(r) <=> Children[p_children(r)] = <<>>
  <2>1. p_children(r) \in DOMAIN Children
    BY <1>1
  <2> QED
    BY <2>1, LayoutRead DEF emptyChild
<1>4. ASSUME NEW s
      PROVE  searchAsl(s) = {d \in Members(Descriptors["aslh"]) : s_semAdd[d] = s}
  <2>1. "aslh" \in DOMAIN Descriptors
    BY <1>1
  <2>2. /\ Descriptors["aslh"] \in Seq(Semd)
        /\ \A d : isIn(s_link, d, "aslh") <=> d \in Members(Descriptors["aslh"])
    BY <2>1, LayoutRead
  <2>3. Members(Descriptors["aslh"]) \subseteq Semd
    BY <2>2, MembersType
  <2> QED
    BY <2>2, <2>3 DEF searchAsl
<1>5. alive = Live
  <2>1. CASE version = "final"
    <3>1. /\ Jobs["jobs"] \in Seq(Pcb)
          /\ \A p : isIn(p_jobs, p, "jobs") <=> p \in Members(Jobs["jobs"])
      BY <1>1, LayoutRead
    <3> QED
      BY <2>1, <3>1 DEF alive, found, Placed, Live
  <2>2. CASE version # "final"
    <3>1. \A p : isIn(p_list, p, "pcbFree") <=> p \in Members(Queue["pcbFree"])
      BY <1>1, <1>2
    <3> QED
      BY <2>2, <3>1 DEF alive, active_pcb, Live
  <2> QED
    BY <2>1, <2>2
<1> QED
  BY <1>1, <1>2, <1>3, <1>4, <1>5

--------------------------------------------------------------------------------
(* The steps of both versions, as changes of queues *)

\* Create: p is the first free pcb.
Created(p) ==
    /\ current_process # NULL /\ calls = <<>>
    /\ Queue["pcbFree"] # <<>> /\ p = Head(Queue["pcbFree"])
    /\ Linked'
    /\ Queue' = [Queue EXCEPT !["pcbFree"] = Tail(Queue["pcbFree"]),
                              !["ready_queue"] = Append(Queue["ready_queue"], p)]
    /\ version = "final" => Jobs'["jobs"] = Append(Jobs["jobs"], p)
    /\ Children' = [Children EXCEPT ![p_children(current_process)] =
                                      Append(Children[p_children(current_process)], p)]
    /\ Descriptors' = Descriptors
    /\ p_parent' = [p_parent EXCEPT ![p] = current_process]
    /\ p_cursem' = [p_cursem EXCEPT ![p] = NULL]
    /\ process_c' = process_c + 1
    /\ UNCHANGED <<s_semAdd, current_process, calls, version>>

\* Create of either version takes the first free pcb.
LEMMA CreateCreates ==
    ASSUME ListsInv, (version = "final" /\ Create /\ UNCHANGED version) \/ OldCreate
    PROVE  Created(Head(Queue["pcbFree"]))
<1> DEFINE p == Head(Queue["pcbFree"])
           cur == current_process
<1>1. /\ cur # NULL /\ calls = <<>> /\ ~ clist_empty(p_list, "pcbFree")
      /\ p_parent' = [p_parent EXCEPT ![clist_head(p_list, "pcbFree")] = current_process]
      /\ p_cursem' = [p_cursem EXCEPT ![clist_head(p_list, "pcbFree")] = NULL]
      /\ process_c' = process_c + 1
      /\ UNCHANGED <<s_link, s_semAdd, current_process, calls, version>>
  BY DEF Create, OldCreate, At, Here, empty, head, unused
<1>2. /\ DOMAIN Queue = {"pcbFree", "ready_queue"} \cup Semd
      /\ "pcbFree" \in DOMAIN Queue /\ "ready_queue" \in DOMAIN Queue
      /\ Queue["pcbFree"] # <<>> /\ clist_head(p_list, "pcbFree") = p
      /\ Queue["pcbFree"] \in Seq(Pcb) /\ p \in Pcb /\ p \in Members(Queue["pcbFree"])
      /\ cur \in Pcb
  <2>1. /\ DOMAIN Queue = {"pcbFree", "ready_queue"} \cup Semd
        /\ Queue["pcbFree"] # <<>> /\ clist_head(p_list, "pcbFree") = p
        /\ Queue["pcbFree"] \in Seq(Pcb)
    BY <1>1, Tabled
  <2>2. cur \in Pcb
    BY <1>1 DEF ListsInv, TypeOK
  <2> QED
    BY <2>1, <2>2, HeadTailMembers
<1> HIDE DEF p
<1>3. Layout(p_list', Pcb, [Queue EXCEPT !["pcbFree"] = Tail(Queue["pcbFree"]),
                                         !["ready_queue"] = Append(Queue["ready_queue"], p)])
  <2>1. p_list' = clist_enqueue(removeProcQ(p_list, "pcbFree"), p, "ready_queue")
    <3>1. dequeue(p_list, "pcbFree") = clist_dequeue(p_list, "pcbFree")
      BY <1>2, LayoutDequeue DEF ListsInv, Linked
    <3> QED
      BY <1>2, <3>1 DEF Create, OldCreate, removeProcQ, insertProcQ, allocPcb, enqueue, empty, head
  <2>2. Layout(p_list, Pcb, Queue) /\ "ready_queue" # "pcbFree"
    BY DEF ListsInv, Linked
  <2> QED
    BY <1>2, <2>1, <2>2, LayoutMove DEF p
<1>4. p \notin Live
  BY <1>2 DEF Live
<1>5. PICK J : /\ Layout(p_jobs', Pcb, J) /\ DOMAIN J = DOMAIN Jobs
               /\ version = "final" => J["jobs"] = Append(Jobs["jobs"], p)
  <2>1. Layout(p_jobs, Pcb, Jobs) /\ DOMAIN Jobs = {"jobs"}
    BY Tabled DEF ListsInv, Linked
  <2>2. CASE version = "final"
    <3>1. Unused(Jobs, p)
      BY <1>4, <2>1, <2>2 DEF ListsInv, Placed, Unused
    <3>2. PICK m : m = [p_jobs EXCEPT ![p] = NULL]
      OBVIOUS
    <3>3. Layout(m, Pcb, Jobs)
      BY <1>2, <2>1, <3>1, <3>2, LayoutClear
    <3>4. Layout(clist_enqueue(m, p, "jobs"), Pcb, [Jobs EXCEPT !["jobs"] = Append(Jobs["jobs"], p)])
      BY <1>2, <2>1, <3>1, <3>3, LayoutEnqueue
    <3>5. p_jobs' = clist_enqueue(m, p, "jobs")
      BY <1>2, <2>2, <3>2 DEF Create, OldCreate, Here
    <3>6. [Jobs EXCEPT !["jobs"] = Append(Jobs["jobs"], p)]["jobs"] = Append(Jobs["jobs"], p)
      BY <2>1
    <3> QED
      BY <3>4, <3>5, <3>6
  <2>3. CASE version # "final"
    <3>1. p_jobs' = p_jobs
      BY <2>3 DEF OldCreate, unused
    <3> QED
      BY <2>1, <2>3, <3>1
  <2> QED
    BY <2>2, <2>3
<1>6. Layout(p_siblings', Pcb, [Children EXCEPT ![p_children(cur)] =
                                                  Append(Children[p_children(cur)], p)])
  <2>1. Layout(p_siblings, Pcb, Children) /\ DOMAIN Children = {p_children(r) : r \in Pcb}
    BY Tabled DEF ListsInv, Linked
  <2>2. Unused(Children, p)
    <3>1. p_parent[p] = NULL /\ \A r \in Pcb : r # NULL
      BY <1>2, <1>4, ProcListsAssumption DEF ListsInv, Family
    <3> QED
      BY <1>2, <2>1, <3>1 DEF ListsInv, Family, Unused
  <2>3. p_children(p) \in DOMAIN Children /\ Children[p_children(p)] = <<>>
    <3>1. Children[p_children(p)] \in Seq(Pcb)
      BY <1>2, Tabled
    <3>2. ASSUME NEW c \in Members(Children[p_children(p)])
          PROVE  FALSE
      <4>1. c \in Pcb
        BY <3>1, MembersType
      <4>2. p_parent[c] = p /\ p # NULL
        BY <1>2, <4>1, ProcListsAssumption DEF ListsInv, Family
      <4> QED
        BY <1>4, <4>1, <4>2 DEF ListsInv, Family
    <3> QED
      BY <1>2, <2>1, <3>1, <3>2, MembersType
  <2>4. PICK a : a = [p_siblings EXCEPT ![p] = NULL]
    OBVIOUS
  <2>5. PICK b : b = [a EXCEPT ![p_children(p)] = NULL]
    OBVIOUS
  <2>6. Layout(a, Pcb, Children)
    BY <1>2, <2>1, <2>2, <2>4, LayoutClear
  <2>7. Layout(b, Pcb, Children)
    BY <2>3, <2>5, <2>6, LayoutClear
  <2>8. b = [p_siblings EXCEPT ![p] = NULL, ![p_children(p)] = NULL]
    BY <2>4, <2>5
  <2>9. p_siblings' = clist_enqueue(b, p, p_children(cur))
    BY <1>2, <2>8 DEF Create, OldCreate, insertChild, enqueue, head
  <2>10. p_children(cur) \in DOMAIN Children
    BY <1>2, <2>1
  <2> QED
    BY <1>2, <2>2, <2>7, <2>9, <2>10, LayoutEnqueue
<1>7. Layout(s_link', Semd, Descriptors)
  BY <1>1 DEF ListsInv, Linked
<1>8. /\ Linked'
      /\ Queue' = [Queue EXCEPT !["pcbFree"] = Tail(Queue["pcbFree"]),
                                !["ready_queue"] = Append(Queue["ready_queue"], p)]
      /\ Jobs' = J
      /\ Children' = [Children EXCEPT ![p_children(cur)] = Append(Children[p_children(cur)], p)]
      /\ Descriptors' = Descriptors
  <2>1. \A Q, k, v : DOMAIN [Q EXCEPT ![k] = v] = DOMAIN Q
    OBVIOUS
  <2>2. \A Q, k, v, i, w : DOMAIN [Q EXCEPT ![k] = v, ![i] = w] = DOMAIN Q
    OBVIOUS
  <2> QED
    BY <1>3, <1>5, <1>6, <1>7, <2>1, <2>2, NextLinked
<1> QED
  BY <1>1, <1>2, <1>5, <1>8 DEF Created, p

\* Block: d is the descriptor of s, or the first free one becomes it.
Blocked(s, d) ==
    /\ current_process # NULL /\ calls = <<>> /\ d \in Semd
    /\ Linked'
    /\ Queue' = [Queue EXCEPT ![d] = Append(Queue[d], current_process)]
    /\ Jobs' = Jobs /\ Children' = Children
    /\ \/ d \in searchAsl(s) /\ Descriptors' = Descriptors /\ s_semAdd' = s_semAdd
       \/ /\ searchAsl(s) = {}
          /\ Descriptors["semdFree"] # <<>> /\ d = Head(Descriptors["semdFree"])
          /\ s_semAdd' = [s_semAdd EXCEPT ![d] = s]
          /\ \E k : /\ Place(Descriptors["aslh"], k, d, s_semAdd')
                    /\ Descriptors' = [Descriptors EXCEPT
                                         !["semdFree"] = Tail(Descriptors["semdFree"]),
                                         !["aslh"] = Inserted(Descriptors["aslh"], k, d)]
    /\ p_cursem' = [p_cursem EXCEPT ![current_process] = d]
    /\ current_process' = NULL
    /\ UNCHANGED <<p_parent, process_c, calls, version>>

\* A semaphore has at most one descriptor.
LEMMA OneSemd ==
    ASSUME ListsInv, NEW s, NEW d \in searchAsl(s), NEW e \in searchAsl(s)
    PROVE  d = e
<1> DEFINE asl == Descriptors["aslh"]
<1>1. d \in Members(asl) /\ e \in Members(asl) /\ s_semAdd[d] = s /\ s_semAdd[e] = s
  BY Tabled
<1>2. asl \in Seq(Semd) /\ Ascending(asl, s_semAdd) /\ s_semAdd \in [Semd -> Nat]
  <2>1. "aslh" \in DOMAIN Descriptors
    BY Tabled
  <2> QED
    BY <2>1, LayoutRead DEF ListsInv, Linked, Described, TypeOK
<1> HIDE DEF asl
<1>3. PICK i \in 1 .. Len(asl) : d = asl[i]
  BY <1>1 DEF Members
<1>4. PICK j \in 1 .. Len(asl) : e = asl[j]
  BY <1>1 DEF Members
<1>5. s \in Nat /\ ~ s < s
  BY <1>1, <1>2, <1>3
<1>6. ~ i < j /\ ~ j < i
  BY <1>1, <1>2, <1>3, <1>4, <1>5 DEF Ascending
<1>7. i = j
  BY <1>2, <1>6
<1> QED
  BY <1>3, <1>4, <1>7

\* A P that blocks, of either version, puts the caller last in one queue.
LEMMA BlockBlocks ==
    ASSUME ListsInv, NEW s \in Sem, (version = "final" /\ Block(s) /\ UNCHANGED version) \/ OldBlock(s)
    PROVE  \E d : Blocked(s, d)
<1> DEFINE cur == current_process
           D == Descriptors
<1>1. /\ cur # NULL /\ calls = <<>> /\ current_process' = NULL
      /\ UNCHANGED <<p_jobs, p_siblings, p_parent, process_c, calls, version>>
  BY DEF Block, OldBlock, At, Here, unused
<1>2. /\ DOMAIN Queue = {"pcbFree", "ready_queue"} \cup Semd /\ DOMAIN D = {"aslh", "semdFree"}
      /\ Layout(p_list, Pcb, Queue) /\ Layout(s_link, Semd, D)
      /\ Layout(p_jobs', Pcb, Jobs) /\ Layout(p_siblings', Pcb, Children)
      /\ cur \in Pcb /\ Unused(Queue, cur)
      /\ \A x : searchAsl(x) = {d \in Members(D["aslh"]) : s_semAdd[d] = x}
      /\ s \in Nat
  BY <1>1, Tabled, ProcListsAssumption DEF ListsInv, TypeOK, Linked, Placed
<1>3. D["aslh"] \in Seq(Semd) /\ Members(D["aslh"]) \subseteq Semd
  BY <1>2, LayoutRead, MembersType
<1>4. \A Q, k, v : DOMAIN [Q EXCEPT ![k] = v] = DOMAIN Q
  OBVIOUS
<1>5. ASSUME NEW d \in searchAsl(s), p_list' = clist_enqueue(p_list, cur, d),
             p_cursem' = [p_cursem EXCEPT ![cur] = d], UNCHANGED <<s_link, s_semAdd>>
      PROVE  Blocked(s, d)
  <2>1. d \in Semd /\ d \in DOMAIN Queue
    BY <1>2, <1>3
  <2>2. Layout(p_list', Pcb, [Queue EXCEPT ![d] = Append(Queue[d], cur)])
    BY <1>2, <1>5, <2>1, LayoutEnqueue
  <2>3. Layout(s_link', Semd, D)
    BY <1>2, <1>5
  <2>4. /\ Linked' /\ Queue' = [Queue EXCEPT ![d] = Append(Queue[d], cur)]
        /\ Jobs' = Jobs /\ Children' = Children /\ Descriptors' = D
    BY <1>2, <1>4, <2>2, <2>3, NextLinked
  <2> QED
    BY <1>1, <1>5, <2>1, <2>4 DEF Blocked
<1>6. ASSUME searchAsl(s) = {}, ~ clist_empty(s_link, "semdFree"),
             NEW d, d = clist_head(s_link, "semdFree"),
             s_semAdd' = [s_semAdd EXCEPT ![d] = s],
             \/ s_link' = clist_insert_asc(clist_dequeue(s_link, "semdFree"), d, "aslh", s_semAdd')
             \/ s_link' = withSemd(d, [dequeue(s_link, "semdFree") EXCEPT ![d] = NULL]),
             p_list' = clist_enqueue([p_list EXCEPT ![d] = NULL], cur, d),
             p_cursem' = [p_cursem EXCEPT ![cur] = d]
      PROVE  Blocked(s, d)
  <2> DEFINE T == [D EXCEPT !["semdFree"] = Tail(D["semdFree"])]
  <2>1. /\ D["semdFree"] # <<>> /\ d = Head(D["semdFree"])
        /\ D["semdFree"] \in Seq(Semd) /\ NoRepeats(D["semdFree"])
        /\ Members(D["semdFree"]) \cap Members(D["aslh"]) = {}
    <3>1. D["semdFree"] # <<>> /\ d = Head(D["semdFree"])
      BY <1>2, <1>6, LayoutRead
    <3> QED
      BY <1>2, <3>1 DEF Layout
  <2>2. d \in Semd /\ d \in Members(D["semdFree"]) /\ d \notin Members(D["aslh"])
    BY <2>1, HeadTailMembers
  <2>3. /\ Layout(clist_dequeue(s_link, "semdFree"), Semd, T)
        /\ dequeue(s_link, "semdFree") = clist_dequeue(s_link, "semdFree")
        /\ Unused(T, d)
    <3>1. "semdFree" \in DOMAIN D /\ Layout(s_link, Semd, D) /\ D["semdFree"] # <<>>
      BY <1>2, <2>1
    <3>2. /\ Layout(clist_dequeue(s_link, "semdFree"), Semd,
                    [D EXCEPT !["semdFree"] = Tail(D["semdFree"])])
          /\ dequeue(s_link, "semdFree") = clist_dequeue(s_link, "semdFree")
          /\ Unused([D EXCEPT !["semdFree"] = Tail(D["semdFree"])], Head(D["semdFree"]))
      <4> HIDE DEF D
      <4> QED
        BY <3>1, LayoutDequeue
    <3> QED
      BY <2>1, <3>2
  <2>4. DOMAIN T = {"aslh", "semdFree"} /\ T["aslh"] = D["aslh"]
    BY <1>2
  <2>5. \A k : [T EXCEPT !["aslh"] = Inserted(D["aslh"], k, d)]
             = [D EXCEPT !["semdFree"] = Tail(D["semdFree"]), !["aslh"] = Inserted(D["aslh"], k, d)]
    BY <1>2
  <2> HIDE DEF T
  <2>6. /\ s_semAdd' \in [Semd -> Nat] /\ s_semAdd'[d] = s
        /\ \A x \in Members(D["aslh"]) : s_semAdd'[x] = s_semAdd[x] /\ s_semAdd[x] # s
    <3>1. s_semAdd \in [Semd -> Nat]
      BY DEF ListsInv, TypeOK
    <3>2. \A x \in Members(D["aslh"]) : x \in Semd /\ x # d /\ s_semAdd[x] # s
      BY <1>2, <1>3, <1>6, <2>2
    <3> QED
      BY <1>2, <1>6, <2>2, <3>1, <3>2
  <2>7. Ascending(D["aslh"], s_semAdd')
    <3>1. \A i \in 1 .. Len(D["aslh"]) : s_semAdd'[D["aslh"][i]] = s_semAdd[D["aslh"][i]]
      BY <1>3, <2>6 DEF Members
    <3>2. Ascending(D["aslh"], s_semAdd)
      BY DEF ListsInv, Described
    <3> QED
      BY <3>1, <3>2 DEF Ascending
  <2>8. PutAscending(s_link', Semd, T, "aslh", d, s_semAdd')
    <3>1. PICK order : order = s_semAdd'
      OBVIOUS
    <3>2. /\ order \in [Semd -> Nat] /\ Ascending(T["aslh"], order)
          /\ \A x \in Members(T["aslh"]) : order[x] # order[d] /\ s_semAdd[x] = order[x]
      BY <2>4, <2>6, <2>7, <3>1
    <3>3. CASE s_link' = clist_insert_asc(clist_dequeue(s_link, "semdFree"), d, "aslh", s_semAdd')
      BY <2>2, <2>3, <2>4, <3>1, <3>2, <3>3, LayoutInsertAsc
    <3>4. CASE s_link' = withSemd(d, [dequeue(s_link, "semdFree") EXCEPT ![d] = NULL])
      <4>1. PICK m : m = [clist_dequeue(s_link, "semdFree") EXCEPT ![d] = NULL]
        OBVIOUS
      <4>2. Layout(m, Semd, T)
        BY <2>2, <2>3, <4>1, LayoutClear
      <4>3. PutAscending(oldInsertAsc(m, d, "aslh", order, s_semAdd), Semd, T, "aslh", d, order)
        BY <2>2, <2>3, <2>4, <3>2, <4>2, LayoutInsertOld
      <4>4. s_link' = oldInsertAsc(m, d, "aslh", order, s_semAdd)
        <5>1. s_link' = withSemd(d, m)
          BY <2>3, <3>4, <4>1
        <5>2. withSemd(d, m) = oldInsertAsc(m, d, "aslh", s_semAdd', s_semAdd)
          BY Zenon DEF withSemd, oldInsertAsc
        <5> QED
          BY <3>1, <5>1, <5>2
      <4> QED
        BY <3>1, <4>3, <4>4
    <3> QED
      BY <1>6, <3>3, <3>4
  <2>9. PICK k : /\ Place(D["aslh"], k, d, s_semAdd')
                 /\ Layout(s_link', Semd, [T EXCEPT !["aslh"] = Inserted(D["aslh"], k, d)])
    BY <2>4, <2>8 DEF PutAscending
  <2>10. Layout(p_list', Pcb, [Queue EXCEPT ![d] = Append(Queue[d], cur)])
    <3>1. PICK m : m = [p_list EXCEPT ![d] = NULL]
      OBVIOUS
    <3>2. d \in DOMAIN Queue /\ Queue[d] = <<>>
      BY <1>2, <2>2 DEF ListsInv, Described
    <3>3. Layout(m, Pcb, Queue)
      BY <1>2, <3>1, <3>2, LayoutClear
    <3> QED
      BY <1>2, <1>6, <3>1, <3>2, <3>3, LayoutEnqueue
  <2>11. /\ Linked' /\ Queue' = [Queue EXCEPT ![d] = Append(Queue[d], cur)]
         /\ Jobs' = Jobs /\ Children' = Children
         /\ Descriptors' = [T EXCEPT !["aslh"] = Inserted(D["aslh"], k, d)]
    BY <1>2, <1>4, <2>4, <2>9, <2>10, NextLinked
  <2> QED
    BY <1>1, <1>6, <2>1, <2>2, <2>5, <2>9, <2>11 DEF Blocked
<1> HIDE DEF D
<1>7. CASE version = "final" /\ Block(s) /\ UNCHANGED version
  <2>1. insertBlocked(s, cur)
    BY <1>7 DEF Block
  <2>2. CASE searchAsl(s) # {}
    <3>1. PICK d \in searchAsl(s) : /\ p_list' = clist_enqueue(p_list, cur, d)
                                    /\ p_cursem' = [p_cursem EXCEPT ![cur] = d]
                                    /\ UNCHANGED <<s_link, s_semAdd>>
      BY <2>1, <2>2 DEF insertBlocked
    <3> QED
      BY <1>5, <3>1
  <2>3. CASE searchAsl(s) = {}
    <3>1. PICK d : d = clist_head(s_link, "semdFree")
      OBVIOUS
    <3>2. /\ ~ clist_empty(s_link, "semdFree")
          /\ s_semAdd' = [s_semAdd EXCEPT ![d] = s]
          /\ s_link' = clist_insert_asc(clist_dequeue(s_link, "semdFree"), d, "aslh", s_semAdd')
          /\ p_list' = clist_enqueue([p_list EXCEPT ![d] = NULL], cur, d)
          /\ p_cursem' = [p_cursem EXCEPT ![cur] = d]
      BY <2>1, <2>3, <3>1 DEF insertBlocked
    <3> QED
      BY <1>6, <2>3, <3>1, <3>2
  <2> QED
    BY <2>2, <2>3
<1>8. CASE OldBlock(s)
  <2>1. CASE searchAsl(s) # {}
    <3>1. PICK d \in searchAsl(s) : /\ p_list' = clist_enqueue(p_list, cur, d)
                                    /\ p_cursem' = [p_cursem EXCEPT ![cur] = d]
                                    /\ UNCHANGED <<s_link, s_semAdd>>
      BY <1>8, <2>1 DEF OldBlock, enqueue
    <3> QED
      BY <1>5, <3>1
  <2>2. CASE searchAsl(s) = {}
    <3>1. PICK d : d = clist_head(s_link, "semdFree")
      OBVIOUS
    <3>2. /\ ~ clist_empty(s_link, "semdFree")
          /\ s_semAdd' = [s_semAdd EXCEPT ![d] = s]
          /\ s_link' = withSemd(d, [dequeue(s_link, "semdFree") EXCEPT ![d] = NULL])
          /\ p_list' = clist_enqueue([p_list EXCEPT ![d] = NULL], cur, d)
          /\ p_cursem' = [p_cursem EXCEPT ![cur] = d]
      BY <1>8, <2>2, <3>1 DEF OldBlock, enqueue, head, empty
    <3> QED
      BY <1>6, <2>2, <3>1, <3>2
  <2> QED
    BY <2>1, <2>2
<1> QED
  BY <1>7, <1>8

\* The descriptor d becomes free if the step leaves its queue empty.
FreedIfEmpty(d) ==
    IF Queue'[d] # <<>> THEN Descriptors' = Descriptors
    ELSE /\ Descriptors'["aslh"] = Without(Descriptors["aslh"], {d})
         /\ Members(Descriptors'["semdFree"]) = Members(Descriptors["semdFree"]) \cup {d}

\* An active descriptor becomes free, first in line in the final system and last in phase 1.
LEMMA FreedLinks ==
    ASSUME ListsInv, NEW d \in Members(Descriptors["aslh"])
    PROVE  \A m \in {freed(d), oldFreed(d)} :
             \E D : /\ Layout(m, Semd, D) /\ DOMAIN D = DOMAIN Descriptors
                    /\ D["aslh"] = Without(Descriptors["aslh"], {d})
                    /\ Members(D["semdFree"]) = Members(Descriptors["semdFree"]) \cup {d}
<1> DEFINE D == Descriptors
           R == [D EXCEPT !["aslh"] = Without(D["aslh"], {d})]
<1>1. /\ Layout(s_link, Semd, D) /\ DOMAIN D = {"aslh", "semdFree"}
      /\ D["aslh"] \in Seq(Semd) /\ D["semdFree"] \in Seq(Semd) /\ d \in Semd
  <2>1. Layout(s_link, Semd, D) /\ DOMAIN D = {"aslh", "semdFree"}
    BY Tabled DEF ListsInv, Linked
  <2>2. D["aslh"] \in Seq(Semd) /\ D["semdFree"] \in Seq(Semd)
    BY <2>1 DEF Layout
  <2> QED
    BY <2>1, <2>2, MembersType
<1> HIDE DEF D
<1>2. /\ Layout(clist_delete(s_link, d, "aslh"), Semd, R)
      /\ Layout(foreach_delete(s_link, d, "aslh"), Semd, R)
      /\ Unused(R, d)
  <2>1. "aslh" \in DOMAIN D /\ d \in Members(D["aslh"])
    BY <1>1 DEF D
  <2> QED
    BY <1>1, <2>1, LayoutDelete
<1>3. /\ DOMAIN R = DOMAIN D /\ R["aslh"] = Without(D["aslh"], {d}) /\ R["semdFree"] = D["semdFree"]
      /\ "semdFree" \in DOMAIN R
  BY <1>1
<1> HIDE DEF R
<1>4. PICK m : m = [clist_delete(s_link, d, "aslh") EXCEPT ![d] = NULL]
  OBVIOUS
<1>5. Layout(m, Semd, R)
  BY <1>1, <1>2, <1>4, LayoutClear
<1>6. Layout(clist_push(m, d, "semdFree"), Semd, [R EXCEPT !["semdFree"] = Inserted(R["semdFree"], 1, d)])
  BY <1>1, <1>2, <1>3, <1>5, LayoutEnqueue
<1>7. Layout(clist_enqueue(foreach_delete(s_link, d, "aslh"), d, "semdFree"), Semd,
             [R EXCEPT !["semdFree"] = Append(R["semdFree"], d)])
  BY <1>1, <1>2, <1>3, LayoutEnqueue
<1>8. freed(d) = clist_push(m, d, "semdFree")
  BY <1>4 DEF freed
<1>9. oldFreed(d) = clist_enqueue(foreach_delete(s_link, d, "aslh"), d, "semdFree")
  BY DEF oldFreed, enqueue
<1>10. /\ Members(Inserted(R["semdFree"], 1, d)) = Members(D["semdFree"]) \cup {d}
       /\ Members(Append(R["semdFree"], d)) = Members(D["semdFree"]) \cup {d}
  <2>1. 1 \in 1 .. Len(D["semdFree"]) + 1
    BY <1>1
  <2> QED
    BY <1>1, <1>3, <2>1, InsertedProperties, AppendMembers
<1>11. \A v : LET F == [R EXCEPT !["semdFree"] = v]
              IN  DOMAIN F = DOMAIN D /\ F["aslh"] = R["aslh"] /\ F["semdFree"] = v
  BY <1>1, <1>3
<1> QED
  BY <1>3, <1>6, <1>7, <1>8, <1>9, <1>10, <1>11 DEF D

\* Wake: the first in the queue of d, the descriptor of s, becomes ready.
Woken(s, d) ==
    /\ calls = <<>> /\ d \in searchAsl(s) /\ Queue[d] # <<>>
    /\ Linked'
    /\ Queue' = [Queue EXCEPT ![d] = Tail(Queue[d]),
                              !["ready_queue"] = Append(Queue["ready_queue"], Head(Queue[d]))]
    /\ Jobs' = Jobs /\ Children' = Children
    /\ FreedIfEmpty(d)
    /\ IF version = "final" THEN p_cursem' = p_cursem
       ELSE p_cursem' = [p_cursem EXCEPT ![Head(Queue[d])] = NULL]
    /\ UNCHANGED <<p_parent, s_semAdd, process_c, current_process, calls, version>>

\* A V of either version takes the first of one queue and puts it last in line.
LEMMA WakeWakes ==
    ASSUME ListsInv, NEW s, (version = "final" /\ Wake(s) /\ UNCHANGED version) \/ OldWake(s)
    PROVE  \E d : Woken(s, d)
<1>1. PICK d, m :
        /\ calls = <<>> /\ d \in searchAsl(s) /\ ~ clist_empty(p_list, d)
        /\ m = removeProcQ(p_list, d) \/ m = oldRemoveProcQ(p_list, d)
        /\ p_list' = clist_enqueue(m, clist_head(p_list, d), "ready_queue")
        /\ s_link' = s_link \/ s_link' \in {freed(d), oldFreed(d)}
        /\ clist_empty(m, d) => s_link' \in {freed(d), oldFreed(d)}
        /\ ~ clist_empty(m, d) => s_link' = s_link
        /\ IF version = "final" THEN p_cursem' = p_cursem
           ELSE p_cursem' = [p_cursem EXCEPT ![clist_head(p_list, d)] = NULL]
        /\ UNCHANGED <<p_jobs, p_siblings, p_parent, s_semAdd, process_c, current_process, calls, version>>
  <2>1. CASE version = "final" /\ Wake(s) /\ UNCHANGED version
    <3>1. PICK d \in searchAsl(s) :
            /\ ~ clist_empty(p_list, d)
            /\ p_list' = clist_enqueue(removeProcQ(p_list, d), clist_head(p_list, d), "ready_queue")
            /\ s_link' = IF clist_empty(removeProcQ(p_list, d), d) THEN freed(d) ELSE s_link
      BY <2>1 DEF Wake
    <3> QED
      BY <2>1, <3>1 DEF Wake, fields
  <2>2. CASE OldWake(s)
    <3>1. PICK d \in searchAsl(s), p \in headBlocked(s) :
            /\ p_list' = clist_enqueue(oldRemoveProcQ(p_list, d), p, "ready_queue")
            /\ p_cursem' = [p_cursem EXCEPT ![p] = NULL]
            /\ s_link' = IF clist_empty(oldRemoveProcQ(p_list, d), d) THEN oldFreed(d) ELSE s_link
      BY <2>2 DEF OldWake, oldRemoveProcQ, insertProcQ, enqueue, empty
    <3>2. PICK e \in searchAsl(s) : ~ clist_empty(p_list, e) /\ p = clist_head(p_list, e)
      BY DEF headBlocked, empty, head
    <3>3. e = d
      BY <3>1, <3>2, OneSemd
    <3> QED
      BY <2>2, <3>1, <3>2, <3>3 DEF OldWake, unused
  <2> QED
    BY <2>1, <2>2
<1>2. /\ Layout(p_list, Pcb, Queue) /\ DOMAIN Queue = {"pcbFree", "ready_queue"} \cup Semd
      /\ Layout(s_link, Semd, Descriptors)
      /\ Layout(p_jobs', Pcb, Jobs) /\ Layout(p_siblings', Pcb, Children)
      /\ d \in Members(Descriptors["aslh"])
  BY <1>1, Tabled DEF ListsInv, Linked
<1>3. d \in Semd /\ d \in DOMAIN Queue /\ "ready_queue" \in DOMAIN Queue /\ d # "ready_queue"
  <2>1. "aslh" \in DOMAIN Descriptors
    BY Tabled
  <2>2. d \in Semd
    BY <1>2, <2>1, LayoutRead, MembersType
  <2> QED
    BY <1>2, <2>2, ProcListsAssumption
<1>4. Queue[d] # <<>> /\ clist_head(p_list, d) = Head(Queue[d])
  BY <1>1, <1>2, <1>3, LayoutRead
<1> DEFINE Q == [Queue EXCEPT ![d] = Tail(Queue[d]),
                              !["ready_queue"] = Append(Queue["ready_queue"], Head(Queue[d]))]
<1>5. Layout(p_list', Pcb, Q)
  BY <1>1, <1>2, <1>3, <1>4, LayoutMove
<1>6. DOMAIN Q = DOMAIN Queue /\ Q[d] = Tail(Queue[d])
  BY <1>3
<1>7. clist_empty(m, d) <=> Q[d] = <<>>
  <2> DEFINE R == [Queue EXCEPT ![d] = Tail(Queue[d])]
  <2>1. Layout(m, Pcb, R)
    <3>1. Layout(p_list, Pcb, Queue) /\ d \in DOMAIN Queue /\ Queue[d] # <<>>
      BY <1>2, <1>3, <1>4
    <3>2. Layout(removeProcQ(p_list, d), Pcb, R) /\ Layout(oldRemoveProcQ(p_list, d), Pcb, R)
      BY <3>1, LayoutTake
    <3> QED
      BY <1>1, <3>2
  <2>2. d \in DOMAIN R /\ R[d] = Tail(Queue[d])
    BY <1>3
  <2> HIDE DEF R, Q
  <2> QED
    BY <1>6, <2>1, <2>2, LayoutRead
<1> HIDE DEF Q
<1>8. PICK D : /\ Layout(s_link', Semd, D) /\ DOMAIN D = DOMAIN Descriptors
               /\ IF Q[d] # <<>> THEN D = Descriptors
                  ELSE /\ D["aslh"] = Without(Descriptors["aslh"], {d})
                       /\ Members(D["semdFree"]) = Members(Descriptors["semdFree"]) \cup {d}
  BY <1>1, <1>2, <1>7, FreedLinks
<1>9. Linked' /\ Queue' = Q /\ Jobs' = Jobs /\ Children' = Children /\ Descriptors' = D
  BY <1>2, <1>5, <1>6, <1>8, NextLinked
<1>10. FreedIfEmpty(d)
  BY <1>8, <1>9 DEF FreedIfEmpty
<1>11. Woken(s, d)
  BY <1>1, <1>4, <1>9, <1>10 DEF Woken, Q
<1> QED
  BY <1>11

\* Dispatch: line is who waits for the processor, the running process at the end.
Dispatched(line) ==
    /\ calls = <<>>
    /\ line = IF current_process = NULL THEN Queue["ready_queue"]
              ELSE Append(Queue["ready_queue"], current_process)
    /\ line # <<>>
    /\ Linked'
    /\ Queue' = [Queue EXCEPT !["ready_queue"] = Tail(line)]
    /\ Jobs' = Jobs /\ Children' = Children /\ Descriptors' = Descriptors
    /\ current_process' = Head(line)
    /\ UNCHANGED <<fields, process_c, calls, version>>

\* scheduler() of either version runs the first in line.
LEMMA DispatchDispatches ==
    ASSUME ListsInv,
           (version = "final" /\ Dispatch /\ UNCHANGED version) \/ OldDispatch \/ OldTimer
    PROVE  \E line : Dispatched(line)
<1>1. PICK m : m = IF current_process = NULL THEN p_list
                   ELSE clist_enqueue(p_list, current_process, "ready_queue")
  OBVIOUS
<1>2. /\ calls = <<>> /\ ~ clist_empty(m, "ready_queue")
      /\ current_process' = clist_head(m, "ready_queue")
      /\ p_list' = removeProcQ(m, "ready_queue") \/ p_list' = oldRemoveProcQ(m, "ready_queue")
      /\ UNCHANGED <<p_jobs, p_siblings, s_link, fields, process_c, calls, version>>
  <2>1. CASE version = "final" /\ Dispatch /\ UNCHANGED version
    BY <1>1, <2>1 DEF Dispatch
  <2>2. CASE OldDispatch
    BY <1>1, <2>2 DEF OldDispatch, dispatch, empty, head, Here, At, unused
  <2>3. CASE OldTimer
    BY <1>1, <2>3 DEF OldTimer, dispatch, empty, head, Here, At, unused, insertProcQ, enqueue
  <2> QED
    BY <2>1, <2>2, <2>3
<1>3. /\ Layout(p_list, Pcb, Queue) /\ DOMAIN Queue = {"pcbFree", "ready_queue"} \cup Semd
      /\ Layout(s_link', Semd, Descriptors)
      /\ Layout(p_jobs', Pcb, Jobs) /\ Layout(p_siblings', Pcb, Children)
      /\ "ready_queue" \in DOMAIN Queue
      /\ current_process # NULL => current_process \in Pcb /\ Unused(Queue, current_process)
  BY <1>2, Tabled DEF ListsInv, Linked, Placed, TypeOK
<1>4. PICK line : line = IF current_process = NULL THEN Queue["ready_queue"]
                         ELSE Append(Queue["ready_queue"], current_process)
  OBVIOUS
<1> DEFINE Q == [Queue EXCEPT !["ready_queue"] = line]
<1>5. Layout(m, Pcb, Q)
  <2>1. CASE current_process = NULL
    <3>1. Q = Queue
      BY <1>3, <1>4, <2>1 DEF Layout
    <3> QED
      BY <1>1, <1>3, <2>1, <3>1
  <2>2. CASE current_process # NULL
    BY <1>1, <1>3, <1>4, <2>2, LayoutEnqueue
  <2> QED
    BY <2>1, <2>2
<1>6. /\ DOMAIN Q = DOMAIN Queue /\ Q["ready_queue"] = line
      /\ [Q EXCEPT !["ready_queue"] = Tail(line)] = [Queue EXCEPT !["ready_queue"] = Tail(line)]
  BY <1>3
<1> HIDE DEF Q
<1>7. line # <<>> /\ current_process' = Head(line)
  BY <1>2, <1>3, <1>5, <1>6, LayoutRead
<1>8. Layout(p_list', Pcb, [Queue EXCEPT !["ready_queue"] = Tail(line)])
  <2>1. Layout(m, Pcb, Q) /\ "ready_queue" \in DOMAIN Q /\ Q["ready_queue"] # <<>>
    BY <1>3, <1>5, <1>6, <1>7
  <2>2. /\ Layout(removeProcQ(m, "ready_queue"), Pcb,
                  [Q EXCEPT !["ready_queue"] = Tail(Q["ready_queue"])])
        /\ Layout(oldRemoveProcQ(m, "ready_queue"), Pcb,
                  [Q EXCEPT !["ready_queue"] = Tail(Q["ready_queue"])])
    BY <2>1, LayoutTake
  <2> QED
    BY <1>2, <1>6, <2>2
<1>9. DOMAIN [Queue EXCEPT !["ready_queue"] = Tail(line)] = DOMAIN Queue
  OBVIOUS
<1>10. /\ Linked' /\ Queue' = [Queue EXCEPT !["ready_queue"] = Tail(line)]
       /\ Jobs' = Jobs /\ Children' = Children /\ Descriptors' = Descriptors
  BY <1>3, <1>8, <1>9, NextLinked
<1>11. Dispatched(line)
  BY <1>2, <1>4, <1>7, <1>10 DEF Dispatched
<1> QED
  BY <1>11

\* TerminateChild: the first child of this is taken out of the tree.
Descended(child) ==
    /\ calls # <<>> /\ Children[p_children(this)] # <<>>
    /\ child = Head(Children[p_children(this)])
    /\ Linked'
    /\ Children' = [Children EXCEPT ![p_children(this)] = Tail(Children[p_children(this)])]
    /\ Queue' = Queue /\ Jobs' = Jobs /\ Descriptors' = Descriptors
    /\ calls' = Append(calls, child)
    /\ p_parent' = [p_parent EXCEPT ![child] = NULL]
    /\ UNCHANGED <<p_cursem, s_semAdd, process_c, current_process, version>>

\* terminateFamily is at a live process.
LEMMA ThisIsLive ==
    ASSUME ListsInv, calls # <<>>
    PROVE  /\ Len(calls) \in Nat /\ Len(calls) >= 1 /\ calls \in Seq(Pcb)
           /\ this \in Members(calls) /\ this \in Live /\ this \in Pcb
<1>1. calls \in Seq(Pcb) /\ Len(calls) \in Nat /\ Len(calls) >= 1
  <2>1. calls \in Seq(Pcb)
    BY DEF ListsInv, TypeOK
  <2>2. Len(calls) \in Nat /\ Len(calls) # 0
    BY <2>1
  <2> QED
    BY <2>1, <2>2
<1>2. this \in Members(calls)
  BY <1>1 DEF this, Members
<1> QED
  BY <1>1, <1>2 DEF ListsInv, Called, Live

\* terminateFamily of either version takes the first child out of the tree.
LEMMA ChildDescends ==
    ASSUME ListsInv,
           (version = "final" /\ TerminateChild /\ UNCHANGED version) \/ OldTerminateChild
    PROVE  Descended(Head(Children[p_children(this)]))
<1>1. /\ calls # <<>> /\ ~ emptyChild(this)
      /\ calls' = Append(calls, clist_head(p_siblings, p_children(this)))
      /\ \/ p_siblings' = removeProcQ(p_siblings, p_children(this))
         \/ p_siblings' = [dequeue(p_siblings, p_children(this)) EXCEPT
                             ![clist_head(p_siblings, p_children(this))] = NULL]
      /\ p_parent' = [p_parent EXCEPT ![clist_head(p_siblings, p_children(this))] = NULL]
      /\ UNCHANGED <<p_list, p_jobs, s_link, p_cursem, s_semAdd, process_c, current_process, version>>
  BY DEF TerminateChild, OldTerminateChild, removeProcQ, head, unused
<1>2. /\ Layout(p_siblings, Pcb, Children)
      /\ p_children(this) \in DOMAIN Children /\ Children[p_children(this)] # <<>>
      /\ Layout(p_list', Pcb, Queue) /\ Layout(s_link', Semd, Descriptors)
      /\ Layout(p_jobs', Pcb, Jobs)
  BY <1>1, Tabled, ThisIsLive DEF ListsInv, Linked
<1>3. /\ clist_head(p_siblings, p_children(this)) = Head(Children[p_children(this)])
      /\ dequeue(p_siblings, p_children(this)) = clist_dequeue(p_siblings, p_children(this))
  BY <1>2, LayoutDequeue
<1>4. p_siblings' = removeProcQ(p_siblings, p_children(this))
  BY <1>1, <1>3 DEF removeProcQ
<1>5. Layout(p_siblings', Pcb,
             [Children EXCEPT ![p_children(this)] = Tail(Children[p_children(this)])])
  BY <1>2, <1>4, LayoutTake
<1>6. \A Q, k, v : DOMAIN [Q EXCEPT ![k] = v] = DOMAIN Q
  OBVIOUS
<1>7. /\ Linked' /\ Queue' = Queue /\ Jobs' = Jobs /\ Descriptors' = Descriptors
      /\ Children' = [Children EXCEPT ![p_children(this)] = Tail(Children[p_children(this)])]
  BY <1>2, <1>5, <1>6, NextLinked
<1> QED
  BY <1>1, <1>2, <1>3, <1>7 DEF Descended

\* The lists without one element.
Less(Q, t) == [l \in DOMAIN Q |-> Without(Q[l], {t})]

\* TerminateSelf: this leaves all it is in and becomes the last free pcb.
Buried ==
    /\ calls # <<>> /\ Children[p_children(this)] = <<>>
    /\ Linked'
    /\ Queue' = [Less(Queue, this) EXCEPT !["pcbFree"] = Append(Queue["pcbFree"], this)]
    /\ version = "final" => Jobs'["jobs"] = Without(Jobs["jobs"], {this})
    /\ Children' = Less(Children, this)
    /\ \/ version = "final" /\ p_cursem' = p_cursem /\ Descriptors' = Descriptors
       \/ /\ version = "phase 1"
          /\ p_cursem' = [p_cursem EXCEPT ![this] = NULL]
          /\ IF p_cursem[this] = NULL THEN Descriptors' = Descriptors
             ELSE FreedIfEmpty(p_cursem[this])
    /\ p_parent' = [p_parent EXCEPT ![this] = NULL]
    /\ process_c' = process_c - 1
    /\ current_process' = IF this = current_process THEN NULL ELSE current_process
    /\ calls' = SubSeq(calls, 1, Len(calls) - 1)
    /\ UNCHANGED <<s_semAdd, version>>

\* The lists without one element: those it is not in are what they were.
LEMMA LessProperties ==
    ASSUME NEW m, NEW E, NEW Q, Layout(m, E, Q), NEW t
    PROVE  /\ Unused(Less(Q, t), t) /\ DOMAIN Less(Q, t) = DOMAIN Q
           /\ \A k \in DOMAIN Q :
                /\ Less(Q, t)[k] = Without(Q[k], {t})
                /\ t \notin Members(Q[k]) => Less(Q, t)[k] = Q[k]
           /\ (\A k \in DOMAIN Q : t \notin Members(Q[k])) => Less(Q, t) = Q
           /\ \A l \in DOMAIN Q :
                (\A k \in DOMAIN Q \ {l} : t \notin Members(Q[k])) =>
                  Less(Q, t) = [Q EXCEPT ![l] = Without(Q[l], {t})]
<1>1. \A k \in DOMAIN Q : Q[k] \in Seq(E)
  BY DEF Layout
<1>2. ASSUME NEW k \in DOMAIN Q, t \notin Members(Q[k])
      PROVE  Without(Q[k], {t}) = Q[k]
  <2>1. Members(Q[k]) \cap {t} = {}
    BY <1>2
  <2> QED
    BY <1>1, <2>1, WithoutNone
<1>3. ASSUME NEW k \in DOMAIN Q
      PROVE  t \notin Members(Without(Q[k], {t}))
  <2>1. Members(Without(Q[k], {t})) = Members(Q[k]) \ {t}
    BY <1>1, WithoutProperties
  <2> QED
    BY <2>1
<1>4. Q = [k \in DOMAIN Q |-> Q[k]]
  BY DEF Layout
<1>5. ASSUME NEW l \in DOMAIN Q, \A k \in DOMAIN Q \ {l} : t \notin Members(Q[k])
      PROVE  Less(Q, t) = [Q EXCEPT ![l] = Without(Q[l], {t})]
  BY <1>2, <1>4, <1>5 DEF Less
<1>6. ASSUME \A k \in DOMAIN Q : t \notin Members(Q[k])
      PROVE  Less(Q, t) = Q
  BY <1>2, <1>4, <1>6 DEF Less
<1> QED
  BY <1>2, <1>3, <1>5, <1>6 DEF Unused, Less

\* outProcQ and outBlocked: the process is in no queue then.
LEMMA OutOfQueues ==
    ASSUME ListsInv, NEW t \in Live, NEW d, d = p_cursem[t]
    PROVE  /\ Unused(Less(Queue, t), t) /\ DOMAIN Less(Queue, t) = DOMAIN Queue
           /\ Less(Queue, t)["pcbFree"] = Queue["pcbFree"]
           /\ LET m == outProcQ(p_list, "ready_queue", t)
              IN  Layout(IF d = NULL THEN m ELSE outProcQ(m, d, t), Pcb, Less(Queue, t))
           /\ version = "phase 1" =>
                Layout(IF d = NULL THEN oldOutProcQ(p_list, "ready_queue", t)
                       ELSE foreach_delete(p_list, t, d), Pcb, Less(Queue, t))
<1>1. /\ t \in Pcb /\ t \notin Members(Queue["pcbFree"])
      /\ Layout(p_list, Pcb, Queue) /\ DOMAIN Queue = {"pcbFree", "ready_queue"} \cup Semd
      /\ \A e \in Semd : t \in Members(Queue[e]) => e = d
  BY Tabled DEF ListsInv, Linked, Placed, Live
<1>2. d \in Semd \cup {NULL} /\ NULL \notin Semd
  BY <1>1, ProcListsAssumption DEF ListsInv, TypeOK
<1>3. PICK W : W = Less(Queue, t)
  OBVIOUS
<1>4. /\ Unused(W, t) /\ DOMAIN W = DOMAIN Queue /\ W["pcbFree"] = Queue["pcbFree"]
  BY <1>1, <1>3, LessProperties
<1>5. PICK R : R = [Queue EXCEPT !["ready_queue"] = Without(Queue["ready_queue"], {t})]
  OBVIOUS
<1>6. /\ Layout(outProcQ(p_list, "ready_queue", t), Pcb, R)
      /\ Layout(oldOutProcQ(p_list, "ready_queue", t), Pcb, R)
      /\ "ready_queue" \in DOMAIN Queue
  <2>1. "ready_queue" \in DOMAIN Queue
    BY <1>1
  <2> QED
    BY <1>1, <1>5, <2>1, LayoutOut
<1>7. CASE d = NULL
  <2>1. \A k \in DOMAIN Queue \ {"ready_queue"} : t \notin Members(Queue[k])
    BY <1>1, <1>2, <1>7
  <2>2. W = R
    BY <1>1, <1>3, <1>5, <1>6, <2>1, LessProperties
  <2> QED
    BY <1>3, <1>4, <1>6, <1>7, <2>2
<1>8. CASE d # NULL
  <2>1. d \in Semd /\ d # "ready_queue" /\ d \in DOMAIN Queue
    <3>1. d \in Semd
      BY <1>2, <1>8
    <3> QED
      BY <1>1, <3>1, ProcListsAssumption
  <2>2. PICK m : m = outProcQ(p_list, "ready_queue", t)
    OBVIOUS
  <2>3. Layout(outProcQ(m, d, t), Pcb, W)
    <3>1. d \in DOMAIN R /\ Layout(m, Pcb, R)
      BY <1>5, <1>6, <2>1, <2>2
    <3>2. Layout(outProcQ(m, d, t), Pcb, [R EXCEPT ![d] = Without(R[d], {t})])
      BY <1>1, <3>1, LayoutOut
    <3>3. [R EXCEPT ![d] = Without(R[d], {t})] = W
      <4>1. Queue = [k \in DOMAIN Queue |-> Queue[k]]
        BY DEF Queue
      <4>2. \A k \in DOMAIN Queue \ {"ready_queue", d} : t \notin Members(Queue[k])
        BY <1>1
      <4>3. \A k \in DOMAIN Queue \ {"ready_queue", d} : Without(Queue[k], {t}) = Queue[k]
        <5>1. \A k \in DOMAIN Queue \ {"ready_queue", d} : W[k] = Queue[k]
          BY <1>1, <1>3, <4>2, LessProperties
        <5>2. \A k \in DOMAIN Queue : W[k] = Without(Queue[k], {t})
          BY <1>3 DEF Less
        <5> QED
          BY <5>1, <5>2
      <4> QED
        BY <1>3, <1>5, <1>6, <2>1, <4>1, <4>3 DEF Less
    <3> QED
      BY <3>2, <3>3
  <2>4. ASSUME version = "phase 1"
        PROVE  Layout(foreach_delete(p_list, t, d), Pcb, W)
    <3>1. t \in Members(Queue[d])
      BY <1>1, <1>8, <2>4 DEF ListsInv, Placed
    <3>2. t \notin Members(Queue["ready_queue"])
      BY <1>1, <1>6, <2>1, <3>1 DEF Layout
    <3>3. \A k \in DOMAIN Queue \ {d} : t \notin Members(Queue[k])
      BY <1>1, <3>2
    <3>4. W = [Queue EXCEPT ![d] = Without(Queue[d], {t})]
      BY <1>1, <1>3, <2>1, <3>3, LessProperties
    <3> QED
      BY <1>1, <2>1, <3>1, <3>4, LayoutDelete
  <2> QED
    BY <1>3, <1>4, <1>8, <2>2, <2>3, <2>4
<1> QED
  BY <1>7, <1>8

\* outChild: the process is in no list of children then.
LEMMA OutOfFamily ==
    ASSUME ListsInv, calls # <<>>
    PROVE  /\ DOMAIN Less(Children, this) = DOMAIN Children
           /\ Layout(outChild(this), Pcb, Less(Children, this))
           /\ version = "phase 1" => Layout(oldOutChild(this), Pcb, Less(Children, this))
<1>1. PICK t : t = this
  OBVIOUS
<1>2. /\ Layout(p_siblings, Pcb, Children) /\ DOMAIN Children = {p_children(r) : r \in Pcb}
      /\ t \in Pcb /\ p_parent[t] \in Pcb \cup {NULL} /\ NULL \notin Pcb
      /\ \A r \in Pcb : t \in Members(Children[p_children(r)]) <=> p_parent[t] = r
  <2>1. t \in Pcb
    BY <1>1, ThisIsLive
  <2> QED
    BY <1>1, <2>1, Tabled, ProcListsAssumption DEF ListsInv, Linked, TypeOK, Family
<1>3. PICK W : W = Less(Children, t)
  OBVIOUS
<1>4. DOMAIN W = DOMAIN Children /\ Unused(W, t)
  BY <1>2, <1>3, LessProperties
<1>5. CASE p_parent[t] = NULL
  <2>1. \A k \in DOMAIN Children : t \notin Members(Children[k])
    BY <1>2, <1>5
  <2>2. W = Children
    BY <1>2, <1>3, <2>1, LessProperties
  <2> QED
    BY <1>1, <1>2, <1>3, <1>4, <1>5, <2>2 DEF outChild, oldOutChild
<1>6. CASE p_parent[t] # NULL
  <2>1. PICK r \in Pcb, l \in DOMAIN Children :
          p_parent[t] = r /\ l = p_children(r) /\ t \in Members(Children[l])
    BY <1>2, <1>6
  <2>2. \A k \in DOMAIN Children \ {l} : t \notin Members(Children[k])
    BY <1>2, <2>1
  <2>3. W = [Children EXCEPT ![l] = Without(Children[l], {t})]
    BY <1>2, <1>3, <2>2, LessProperties
  <2>4. PICK m : m = clist_delete(p_siblings, t, l)
    OBVIOUS
  <2>5. Layout([m EXCEPT ![t] = NULL], Pcb, W)
    <3>1. Layout(m, Pcb, W)
      BY <1>2, <2>3, <2>4, LayoutDelete
    <3> QED
      BY <1>2, <1>4, <3>1, LayoutClear
  <2>6. outChild(t) = [m EXCEPT ![t] = NULL]
    BY <1>6, <2>1, <2>4 DEF outChild
  <2>7. ASSUME version = "phase 1"
        PROVE  Layout(oldOutChild(t), Pcb, W)
    <3> DEFINE q == Children[l]
    <3>1. /\ q \in Seq(Pcb) /\ NoRepeats(q) /\ q # <<>>
          /\ clist_head(p_siblings, l) = q[1]
          /\ dequeue(p_siblings, l) = clist_dequeue(p_siblings, l)
          /\ Layout(clist_dequeue(p_siblings, l), Pcb, [Children EXCEPT ![l] = Tail(q)])
      <4>1. q \in Seq(Pcb) /\ NoRepeats(q)
        BY <1>2, LayoutRead
      <4>2. q # <<>>
        BY <2>1, <4>1, MembersType
      <4>3. /\ clist_head(p_siblings, l) = Head(q)
            /\ dequeue(p_siblings, l) = clist_dequeue(p_siblings, l)
            /\ Layout(clist_dequeue(p_siblings, l), Pcb, [Children EXCEPT ![l] = Tail(q)])
        BY <1>2, <4>2, LayoutDequeue
      <4>4. Head(q) = q[1]
        BY <4>1, <4>2
      <4> QED
        BY <4>1, <4>2, <4>3, <4>4
    <3>2. Len(q) = 1 \/ q[Len(q)] # t
      <4>1. t = calls[1]
        <5>1. t = calls[Len(calls)] /\ Len(calls) \in Nat /\ Len(calls) >= 1
          BY <1>1, ThisIsLive DEF this
        <5>2. Len(calls) \notin 2 .. Len(calls)
          BY <1>6, <5>1 DEF ListsInv, Called
        <5> QED
          BY <5>1, <5>2
      <4>2. NotLast(t)
        BY <2>7, <4>1 DEF ListsInv, Called
      <4> QED
        BY <1>6, <2>1, <4>2 DEF NotLast
    <3>3. PICK k \in 1 .. Len(q) : t = q[k]
      BY <2>1 DEF Members
    <3>4. PICK s : s = IF clist_head(p_siblings, l) = t THEN dequeue(p_siblings, l)
                       ELSE delete(p_siblings, t, p_siblings[l])
      OBVIOUS
    <3>5. Layout(s, Pcb, W)
      <4>1. CASE clist_head(p_siblings, l) = t
        <5>1. Len(q) \in Nat /\ 1 \in 1 .. Len(q)
          BY <3>1
        <5>2. Tail(q) = Without(q, {t})
          <6>1. Tail(q) = Removed(q, 1) /\ Without(q, {q[1]}) = Removed(q, 1)
            BY <3>1, <5>1, RemovedProperties, WithoutOne
          <6> QED
            BY <3>1, <4>1, <6>1
        <5> QED
          BY <2>3, <3>1, <3>4, <4>1, <5>2
      <4>2. CASE clist_head(p_siblings, l) # t
        <5>1. k # 1
          BY <3>1, <3>3, <4>2
        <5>2. k # Len(q)
          BY <3>1, <3>2, <3>3, <5>1
        <5>3. Layout(delete(p_siblings, Children[l][k], p_siblings[l]), Pcb,
                     [Children EXCEPT ![l] = Without(Children[l], {Children[l][k]})])
          BY <1>2, <5>1, <5>2, LayoutDeleteOverTail
        <5> QED
          BY <2>3, <3>3, <3>4, <4>2, <5>3
      <4> QED
        BY <4>1, <4>2
    <3>6. oldOutChild(t) = [s EXCEPT ![t] = NULL]
      BY <1>6, <2>1, <3>4 DEF oldOutChild, head
    <3> HIDE DEF q
    <3>7. Layout([s EXCEPT ![t] = NULL], Pcb, W)
      BY <1>2, <1>4, <3>5, LayoutClear
    <3> QED
      BY <3>6, <3>7
  <2> QED
    BY <1>1, <1>3, <1>4, <2>5, <2>6, <2>7
<1> QED
  BY <1>5, <1>6

\* The last step of terminateFamily does to the queues what Buried says.
LEMMA SelfBuries ==
    ASSUME ListsInv,
           (version = "final" /\ TerminateSelf /\ UNCHANGED version) \/ OldTerminateSelf
    PROVE  Buried
<1>1. PICK t, d : t = this /\ d = p_cursem[t]
  OBVIOUS
<1>2. PICK m :
        /\ calls # <<>> /\ emptyChild(t)
        /\ p_list' = clist_enqueue(m, t, "pcbFree")
        /\ \/ /\ version = "final"
              /\ m = LET out == outProcQ(p_list, "ready_queue", t)
                     IN  IF d = NULL THEN out ELSE outProcQ(out, d, t)
              /\ p_siblings' = outChild(t)
              /\ p_jobs' = clist_delete(p_jobs, t, "jobs")
              /\ UNCHANGED <<s_link, p_cursem>>
           \/ /\ version = "phase 1"
              /\ m = IF d = NULL THEN oldOutProcQ(p_list, "ready_queue", t)
                     ELSE foreach_delete(p_list, t, d)
              /\ p_siblings' = oldOutChild(t)
              /\ p_cursem' = [p_cursem EXCEPT ![t] = NULL]
              /\ s_link' = IF d # NULL /\ clist_empty(m, d) THEN oldFreed(d) ELSE s_link
              /\ UNCHANGED p_jobs
        /\ p_parent' = [p_parent EXCEPT ![t] = NULL]
        /\ process_c' = process_c - 1
        /\ current_process' = IF t = current_process THEN NULL ELSE current_process
        /\ calls' = SubSeq(calls, 1, Len(calls) - 1)
        /\ UNCHANGED <<s_semAdd, version>>
  <2>1. CASE version = "final" /\ TerminateSelf /\ UNCHANGED version
    BY <1>1, <2>1 DEF TerminateSelf
  <2>2. CASE OldTerminateSelf
    BY <1>1, <2>2 DEF OldTerminateSelf, unused, freePcb, enqueue, empty
  <2> QED
    BY <2>1, <2>2
<1>3. /\ Layout(p_list, Pcb, Queue) /\ DOMAIN Queue = {"pcbFree", "ready_queue"} \cup Semd
      /\ Layout(p_jobs, Pcb, Jobs) /\ DOMAIN Jobs = {"jobs"}
      /\ Layout(s_link, Semd, Descriptors)
      /\ Children[p_children(t)] = <<>>
      /\ t \in Live /\ t \in Pcb /\ d \in Semd \cup {NULL}
  <2>1. t \in Live /\ t \in Pcb
    BY <1>1, <1>2, ThisIsLive
  <2> QED
    BY <1>1, <1>2, <2>1, Tabled DEF ListsInv, Linked, TypeOK
<1>4. PICK W : W = Less(Queue, t)
  OBVIOUS
<1>5. /\ Layout(m, Pcb, W) /\ Unused(W, t) /\ DOMAIN W = DOMAIN Queue
      /\ W["pcbFree"] = Queue["pcbFree"]
  <2>1. /\ Unused(W, t) /\ DOMAIN W = DOMAIN Queue /\ W["pcbFree"] = Queue["pcbFree"]
        /\ LET out == outProcQ(p_list, "ready_queue", t)
           IN  Layout(IF d = NULL THEN out ELSE outProcQ(out, d, t), Pcb, W)
        /\ version = "phase 1" =>
             Layout(IF d = NULL THEN oldOutProcQ(p_list, "ready_queue", t)
                    ELSE foreach_delete(p_list, t, d), Pcb, W)
    BY <1>1, <1>3, <1>4, OutOfQueues
  <2>2. \/ m = LET out == outProcQ(p_list, "ready_queue", t)
               IN  IF d = NULL THEN out ELSE outProcQ(out, d, t)
        \/ /\ version = "phase 1"
           /\ m = IF d = NULL THEN oldOutProcQ(p_list, "ready_queue", t)
                  ELSE foreach_delete(p_list, t, d)
    BY <1>2
  <2> QED
    BY <2>1, <2>2
<1>6. PICK Q : Q = [W EXCEPT !["pcbFree"] = Append(Queue["pcbFree"], t)]
  OBVIOUS
<1>7. Layout(p_list', Pcb, Q) /\ DOMAIN Q = DOMAIN Queue
  <2>1. "pcbFree" \in DOMAIN W
    BY <1>3, <1>5
  <2> QED
    BY <1>2, <1>3, <1>5, <1>6, <2>1, LayoutEnqueue
<1>8. PICK C : C = Less(Children, t)
  OBVIOUS
<1>9. Layout(p_siblings', Pcb, C) /\ DOMAIN C = DOMAIN Children
  BY <1>1, <1>2, <1>8, OutOfFamily
<1>10. PICK J : /\ Layout(p_jobs', Pcb, J) /\ DOMAIN J = DOMAIN Jobs
                /\ version = "final" => J["jobs"] = Without(Jobs["jobs"], {t})
  <2>1. CASE version = "final"
    <3>1. PICK J : J = [Jobs EXCEPT !["jobs"] = Without(Jobs["jobs"], {t})]
      OBVIOUS
    <3>2. "jobs" \in DOMAIN Jobs
      BY <1>3
    <3>3. Layout(clist_delete(p_jobs, t, "jobs"), Pcb, J)
      BY <1>3, <3>1, <3>2, LayoutDelete
    <3>4. p_jobs' = clist_delete(p_jobs, t, "jobs")
      BY <1>2, <2>1
    <3>5. DOMAIN J = DOMAIN Jobs /\ J["jobs"] = Without(Jobs["jobs"], {t})
      BY <3>1, <3>2
    <3> QED
      BY <3>3, <3>4, <3>5
  <2>2. CASE version # "final"
    <3>1. p_jobs' = p_jobs
      BY <1>2, <2>2
    <3> QED
      BY <1>3, <2>2, <3>1
  <2> QED
    BY <2>1, <2>2
<1>11. PICK D : /\ Layout(s_link', Semd, D) /\ DOMAIN D = DOMAIN Descriptors
                /\ version = "final" \/ d = NULL => D = Descriptors
                /\ version = "phase 1" /\ d # NULL =>
                     IF Q[d] # <<>> THEN D = Descriptors
                     ELSE /\ D["aslh"] = Without(Descriptors["aslh"], {d})
                          /\ Members(D["semdFree"]) = Members(Descriptors["semdFree"]) \cup {d}
  <2>1. CASE version = "final" \/ d = NULL
    <3>1. s_link' = s_link
      BY <1>2, <2>1
    <3>2. version = "final" => version # "phase 1"
      OBVIOUS
    <3> QED
      BY <1>3, <2>1, <3>1, <3>2
  <2>2. CASE version = "phase 1" /\ d # NULL
    <3>1. d \in Semd /\ d \in DOMAIN W /\ d # "pcbFree"
      <4>1. d \in Semd
        BY <1>3, <2>2
      <4> QED
        BY <1>3, <1>5, <4>1, ProcListsAssumption
    <3>2. clist_empty(m, d) <=> Q[d] = <<>>
      <4>1. clist_empty(m, d) <=> W[d] = <<>>
        BY <1>5, <3>1, LayoutRead
      <4> QED
        BY <1>6, <3>1, <4>1
    <3>3. d \in Members(Descriptors["aslh"])
      <4>1. Queue[d] # <<>>
        <5>1. t \in Members(Queue[d])
          BY <1>1, <1>3, <2>2 DEF ListsInv, Placed
        <5> QED
          BY <5>1 DEF Members
      <4> QED
        BY <3>1, <4>1 DEF ListsInv, Described
    <3>4. s_link' = IF clist_empty(m, d) THEN oldFreed(d) ELSE s_link
      BY <1>2, <2>2
    <3>5. CASE Q[d] = <<>>
      <4>1. s_link' \in {freed(d), oldFreed(d)}
        BY <3>2, <3>4, <3>5
      <4> QED
        BY <2>2, <3>3, <3>5, <4>1, FreedLinks
    <3>6. CASE Q[d] # <<>>
      BY <1>3, <2>2, <3>2, <3>4, <3>6
    <3> QED
      BY <3>5, <3>6
  <2>3. version = "final" \/ version = "phase 1"
    BY <1>2
  <2> QED
    BY <2>1, <2>2, <2>3
<1>12. Linked' /\ Queue' = Q /\ Jobs' = J /\ Children' = C /\ Descriptors' = D
  BY <1>7, <1>9, <1>10, <1>11, NextLinked
<1>13. \/ version = "final" /\ p_cursem' = p_cursem /\ Descriptors' = Descriptors
       \/ /\ version = "phase 1"
          /\ p_cursem' = [p_cursem EXCEPT ![t] = NULL]
          /\ IF d = NULL THEN Descriptors' = Descriptors ELSE FreedIfEmpty(d)
  <2>1. CASE version = "final"
    BY <1>2, <1>11, <1>12, <2>1
  <2>2. CASE version = "phase 1" /\ d = NULL
    BY <1>2, <1>11, <1>12, <2>2
  <2>3. CASE version = "phase 1" /\ d # NULL
    <3>1. FreedIfEmpty(d)
      BY <1>11, <1>12, <2>3 DEF FreedIfEmpty
    <3> QED
      BY <1>2, <2>3, <3>1
  <2> QED
    BY <1>2, <2>1, <2>2, <2>3
<1> QED
  BY <1>1, <1>2, <1>3, <1>4, <1>6, <1>8, <1>10, <1>12, <1>13 DEF Buried

\* SYS2 of target, which in phase 1 is not the last of several children.
Targeted(target) ==
    /\ current_process # NULL /\ calls = <<>>
    /\ target \in Live
    /\ version = "phase 1" => NotLast(target)
    /\ calls' = <<target>>
    /\ UNCHANGED <<links, fields, process_c, current_process, version>>

\* Both versions take the same targets, but for those that the outChild of phase 1 mistakes
\* and its callers spare.
LEMMA TerminateTargets ==
    ASSUME ListsInv, NEW target \in Pcb,
           \/ version = "final" /\ Terminate(target) /\ UNCHANGED version
           \/ ~ lastOfSeveral(target) /\ OldTerminate(target)
    PROVE  Targeted(target)
<1>1. /\ current_process # NULL /\ calls = <<>> /\ calls' = <<target>>
      /\ UNCHANGED <<links, fields, process_c, current_process, version>>
  BY DEF Terminate, OldTerminate, Here, At, links, unused
<1>2. target \in Live
  <2>1. CASE version = "final" /\ Terminate(target)
    BY <2>1, Tabled DEF Terminate, alive
  <2>2. CASE OldTerminate(target)
    BY <2>2, Tabled DEF OldTerminate
  <2> QED
    BY <2>1, <2>2
<1>3. ASSUME version = "phase 1"
      PROVE  NotLast(target)
  <2>1. ~ lastOfSeveral(target)
    BY <1>3
  <2>2. CASE p_parent[target] = NULL
    BY <2>2 DEF NotLast
  <2>3. CASE p_parent[target] # NULL
    <3>1. PICK l : l = p_children(p_parent[target])
      OBVIOUS
    <3>2. PICK q : q = Children[l]
      OBVIOUS
    <3>3. p_siblings[l] # target \/ clist_head(p_siblings, l) = target
      BY <2>1, <2>3, <3>1 DEF lastOfSeveral, head
    <3>4. l \in DOMAIN Children /\ target \in Members(q) /\ Layout(p_siblings, Pcb, Children)
      <4>1. p_parent[target] \in Pcb
        BY <2>3 DEF ListsInv, TypeOK
      <4> QED
        BY <3>1, <3>2, <4>1, Tabled DEF ListsInv, Family, Linked
    <3>5. q \in Seq(Pcb) /\ NoRepeats(q) /\ Holds(p_siblings, l, q)
      BY <3>2, <3>4 DEF Layout
    <3>6. q # <<>> /\ clist_head(p_siblings, l) = Head(q)
      <4>1. q # <<>>
        BY <3>4, <3>5, MembersType
      <4> QED
        BY <3>2, <3>4, <4>1, LayoutRead
    <3>7. p_siblings[l] = q[Len(q)] /\ Head(q) = q[1] /\ Len(q) \in Nat /\ Len(q) # 0
      BY <3>5, <3>6 DEF Holds
    <3>8. Len(q) = 1 \/ q[Len(q)] # target
      <4>1. ASSUME q[Len(q)] = target
            PROVE  Len(q) = 1
        <5>1. q[1] = q[Len(q)]
          BY <3>3, <3>6, <3>7, <4>1
        <5>2. 1 \in 1 .. Len(q) /\ Len(q) \in 1 .. Len(q)
          BY <3>7
        <5> QED
          BY <3>5, <5>1, <5>2 DEF NoRepeats
      <4> QED
        BY <4>1
    <3> QED
      BY <3>1, <3>2, <3>8 DEF NotLast
  <2> QED
    BY <2>2, <2>3
<1> QED
  BY <1>1, <1>2, <1>3 DEF Targeted

\* A step of either version is one of these changes of queues.
Change ==
    \/ \E p : Created(p)
    \/ \E s \in Sem : (\E d : Blocked(s, d)) \/ (\E d : Woken(s, d))
    \/ \E line : Dispatched(line)
    \/ \E child : Descended(child)
    \/ \E target \in Pcb : Targeted(target)
    \/ Buried

\* Both versions do the same to the queues, but for the descriptors.
LEMMA NextChanges ==
    ASSUME ListsInv, SparingNext
    PROVE  Change
<1>1. CASE (version = "final" /\ Create /\ UNCHANGED version) \/ OldCreate
  BY <1>1, CreateCreates DEF Change
<1>2. CASE (version = "final" /\ Dispatch /\ UNCHANGED version) \/ OldDispatch \/ OldTimer
  BY <1>2, DispatchDispatches DEF Change
<1>3. CASE (version = "final" /\ TerminateChild /\ UNCHANGED version) \/ OldTerminateChild
  BY <1>3, ChildDescends DEF Change
<1>4. CASE (version = "final" /\ TerminateSelf /\ UNCHANGED version) \/ OldTerminateSelf
  BY <1>4, SelfBuries DEF Change
<1>5. ASSUME NEW s \in Sem,
             (version = "final" /\ Block(s) /\ UNCHANGED version) \/ OldBlock(s)
      PROVE  Change
  BY <1>5, BlockBlocks DEF Change
<1>6. ASSUME NEW s \in Sem,
             (version = "final" /\ Wake(s) /\ UNCHANGED version) \/ OldWake(s)
      PROVE  Change
  BY <1>6, WakeWakes DEF Change
<1>7. ASSUME NEW target \in Pcb,
             \/ version = "final" /\ Terminate(target) /\ UNCHANGED version
             \/ ~ lastOfSeveral(target) /\ OldTerminate(target)
      PROVE  Change
  BY <1>7, TerminateTargets DEF Change
<1> QED
  BY <1>1, <1>2, <1>3, <1>4, <1>5, <1>6, <1>7 DEF SparingNext, FinalNext

--------------------------------------------------------------------------------
(* The changes keep the invariant *)

\* The parts of the invariant that say more than the changes do.
Kept == TypeOK' /\ Placed' /\ Described' /\ Family' /\ Rooted' /\ Called'

\* The queues and the processes in them.
LEMMA Apart ==
    ASSUME ListsInv
    PROVE  /\ "pcbFree" \in DOMAIN Queue /\ "ready_queue" \in DOMAIN Queue
           /\ \A d \in Semd : d \in DOMAIN Queue /\ d # "pcbFree" /\ d # "ready_queue"
           /\ \A l \in DOMAIN Queue : Members(Queue[l]) \subseteq Pcb
           /\ \A k, l \in DOMAIN Queue : k # l => Members(Queue[k]) \cap Members(Queue[l]) = {}
           /\ \A l \in DOMAIN Queue : l # "pcbFree" => Members(Queue[l]) \subseteq Live
           /\ \A l \in DOMAIN Descriptors :
                Descriptors[l] \in Seq(Semd) /\ Members(Descriptors[l]) \subseteq Semd
           /\ Members(Descriptors["aslh"]) \cap Members(Descriptors["semdFree"]) = {}
           /\ Live \subseteq Pcb /\ IsFiniteSet(Live) /\ NULL \notin Pcb /\ NULL \notin Semd
<1>1. /\ DOMAIN Queue = {"pcbFree", "ready_queue"} \cup Semd
      /\ DOMAIN Descriptors = {"aslh", "semdFree"}
      /\ Layout(p_list, Pcb, Queue) /\ Layout(s_link, Semd, Descriptors)
  BY Tabled DEF ListsInv, Linked
<1>2. ASSUME NEW d \in Semd
      PROVE  d \in DOMAIN Queue /\ d # "pcbFree" /\ d # "ready_queue"
  BY <1>1, ProcListsAssumption
<1>3. ASSUME NEW l \in DOMAIN Queue
      PROVE  Members(Queue[l]) \subseteq Pcb
  BY <1>1, LayoutRead, MembersType
<1>4. ASSUME NEW l \in DOMAIN Descriptors
      PROVE  Descriptors[l] \in Seq(Semd) /\ Members(Descriptors[l]) \subseteq Semd
  BY <1>1, LayoutRead, MembersType
<1>5. /\ \A k, l \in DOMAIN Queue : k # l => Members(Queue[k]) \cap Members(Queue[l]) = {}
      /\ Members(Descriptors["aslh"]) \cap Members(Descriptors["semdFree"]) = {}
  BY <1>1 DEF Layout
<1>6. Live \subseteq Pcb
  BY DEF Live
<1>7. IsFiniteSet(Live)
  BY <1>6, FS_Subset, ProcListsAssumption
<1>8. "pcbFree" \in DOMAIN Queue
  BY <1>1
<1>9. ASSUME NEW l \in DOMAIN Queue, l # "pcbFree"
      PROVE  Members(Queue[l]) \subseteq Live
  BY <1>3, <1>5, <1>8, <1>9 DEF Live
<1> QED
  BY <1>1, <1>2, <1>3, <1>4, <1>5, <1>6, <1>7, <1>9, ProcListsAssumption

\* A new process.
LEMMA CreatedKeeps ==
    ASSUME ListsInv, NEW p, Created(p)
    PROVE  Kept /\ Live' = Live \cup {p}
<1> DEFINE cur == current_process
<1>1. /\ cur \in Pcb /\ cur # NULL /\ calls = <<>> /\ calls' = calls /\ cur \in Live
      /\ Unused(Queue, cur) /\ current_process' = cur
      /\ UNCHANGED <<s_semAdd, version>>
  BY DEF Created, ListsInv, TypeOK, Placed
<1>2. /\ p \in Pcb /\ p \notin Live /\ p \in Members(Queue["pcbFree"]) /\ p # NULL
      /\ Queue'["pcbFree"] = Tail(Queue["pcbFree"])
      /\ Queue'["ready_queue"] = Append(Queue["ready_queue"], p)
      /\ \A d \in Semd : Queue'[d] = Queue[d]
      /\ DOMAIN Queue' = {"pcbFree", "ready_queue"} \cup Semd
      /\ Members(Tail(Queue["pcbFree"])) = Members(Queue["pcbFree"]) \ {p}
      /\ Members(Append(Queue["ready_queue"], p)) = Members(Queue["ready_queue"]) \cup {p}
  <2>1. /\ Queue["pcbFree"] # <<>> /\ p = Head(Queue["pcbFree"])
        /\ Queue["pcbFree"] \in Seq(Pcb) /\ NoRepeats(Queue["pcbFree"])
        /\ Queue["ready_queue"] \in Seq(Pcb)
    BY Tabled, Apart DEF Created
  <2>2. /\ p \in Pcb /\ p \in Members(Queue["pcbFree"])
        /\ Members(Tail(Queue["pcbFree"])) = Members(Queue["pcbFree"]) \ {p}
    BY <2>1, HeadTailMembers
  <2>3. Members(Append(Queue["ready_queue"], p)) = Members(Queue["ready_queue"]) \cup {p}
    BY <2>1, <2>2, AppendMembers
  <2>4. /\ Queue'["pcbFree"] = Tail(Queue["pcbFree"])
        /\ Queue'["ready_queue"] = Append(Queue["ready_queue"], p)
        /\ \A d \in Semd : Queue'[d] = Queue[d]
        /\ DOMAIN Queue' = {"pcbFree", "ready_queue"} \cup Semd
    BY Apart, Tabled DEF Created
  <2> QED
    BY <2>2, <2>3, <2>4, Apart DEF Live
<1>3. Live' = Live \cup {p}
  BY <1>2 DEF Live
<1>4. /\ p_parent' = [p_parent EXCEPT ![p] = cur] /\ p_cursem' = [p_cursem EXCEPT ![p] = NULL]
      /\ p_parent \in [Pcb -> Pcb \cup {NULL}] /\ p_cursem \in [Pcb -> Semd \cup {NULL}]
      /\ p_parent[p] = NULL /\ \A x \in Pcb : p_parent[x] # p
  <2>1. /\ p_parent \in [Pcb -> Pcb \cup {NULL}] /\ p_cursem \in [Pcb -> Semd \cup {NULL}]
        /\ \A x \in Pcb : p_parent[x] # NULL => x \in Live /\ p_parent[x] \in Live
    BY DEF ListsInv, TypeOK, Family
  <2>2. p_parent[p] = NULL /\ \A x \in Pcb : p_parent[x] # p
    BY <1>2, <2>1
  <2> QED
    BY <2>1, <2>2 DEF Created
<1>5. TypeOK'
  BY <1>1, <1>4 DEF TypeOK, ListsInv
<1>6. Placed'
  <2>1. version' = "final" => Members(Jobs'["jobs"]) = Live'
    <3>1. ASSUME version = "final"
          PROVE  Members(Jobs'["jobs"]) = Live'
      <4>1. Jobs["jobs"] \in Seq(Pcb) /\ Jobs'["jobs"] = Append(Jobs["jobs"], p)
        <5>1. "jobs" \in DOMAIN Jobs
          BY Tabled
        <5> QED
          BY <3>1, <5>1, LayoutRead DEF Created, ListsInv, Linked
      <4>2. Members(Jobs["jobs"]) = Live
        BY <3>1 DEF ListsInv, Placed
      <4> QED
        BY <1>2, <1>3, <4>1, <4>2, AppendMembers
    <3> QED
      BY <1>1, <3>1
  <2>2. process_c' = Cardinality(Live')
    <3>1. Cardinality(Live') = Cardinality(Live) + 1
      BY <1>2, <1>3, Apart, FS_AddElement
    <3> QED
      BY <3>1 DEF Created, ListsInv, Placed
  <2>3. current_process' \in Live' /\ Unused(Queue', current_process')
    <3>1. \A l \in DOMAIN Queue' : cur \notin Members(Queue'[l])
      BY <1>1, <1>2, Apart DEF Unused
    <3> QED
      BY <1>1, <1>3, <3>1 DEF Unused
  <2>4. ASSUME NEW d \in Semd, NEW q \in Members(Queue'[d])
        PROVE  p_cursem'[q] = d
    <3>1. q \in Members(Queue[d]) /\ q \in Pcb /\ q # p
      BY <1>2, Apart
    <3> QED
      BY <1>4, <3>1 DEF ListsInv, Placed
  <2>5. ASSUME version' = "phase 1", NEW q \in Pcb, p_cursem'[q] # NULL
        PROVE  q \in Members(Queue'[p_cursem'[q]])
    <3>1. q # p /\ p_cursem'[q] = p_cursem[q] /\ p_cursem[q] \in Semd
      BY <1>2, <1>4, <2>5
    <3> QED
      BY <1>1, <1>2, <2>5, <3>1 DEF ListsInv, Placed
  <2> QED
    BY <2>1, <2>2, <2>3, <2>4, <2>5 DEF Placed
<1>7. Described'
  <2>1. Descriptors' = Descriptors /\ \A d \in Members(Descriptors["semdFree"]) : Queue'[d] = Queue[d]
    BY <1>2, Tabled, Apart DEF Created
  <2> QED
    BY <1>1, <2>1 DEF ListsInv, Described
<1>8. Family'
  <2>1. ASSUME NEW r \in Pcb, NEW q \in Pcb
        PROVE  q \in Members(Children'[p_children(r)]) <=> p_parent'[q] = r
    <3>1. Children[p_children(r)] \in Seq(Pcb) /\ p_children(r) \in DOMAIN Children
      BY Tabled
    <3>2. q \in Members(Children[p_children(r)]) <=> p_parent[q] = r
      BY DEF ListsInv, Family
    <3>3. CASE r = cur
      <4>1. Children'[p_children(r)] = Append(Children[p_children(r)], p)
        BY <3>1, <3>3 DEF Created
      <4>2. Members(Children'[p_children(r)]) = Members(Children[p_children(r)]) \cup {p}
        BY <1>2, <3>1, <4>1, AppendMembers
      <4> QED
        BY <1>2, <1>4, <3>2, <3>3, <4>2
    <3>4. CASE r # cur
      <4>1. p_children(r) # p_children(cur)
        BY <3>4 DEF p_children
      <4>2. Children'[p_children(r)] = Children[p_children(r)]
        BY <3>1, <4>1 DEF Created
      <4> QED
        BY <1>2, <1>4, <3>2, <3>4, <4>2, Apart
    <3> QED
      BY <3>3, <3>4
  <2>2. ASSUME NEW q \in Pcb, p_parent'[q] # NULL
        PROVE  q \in Live' /\ p_parent'[q] \in Live'
    BY <1>1, <1>2, <1>3, <1>4, <2>2 DEF ListsInv, Family
  <2> QED
    BY <2>1, <2>2 DEF Family
<1>9. Rooted'
  <2>1. ASSUME NEW S \in SUBSET Pcb, S # {}
        PROVE  \E x \in S : p_parent'[x] \notin S
    <3>1. CASE S = {p}
      BY <1>1, <1>2, <1>4, <3>1
    <3>2. CASE S # {p}
      <4>1. S \ {p} \in SUBSET Pcb /\ S \ {p} # {}
        BY <2>1, <3>2
      <4>2. PICK x \in S \ {p} : p_parent[x] \notin S \ {p}
        BY <4>1 DEF ListsInv, Rooted
      <4>3. p_parent'[x] = p_parent[x] /\ p_parent[x] # p
        BY <1>4, <4>2
      <4> QED
        BY <4>2, <4>3
    <3> QED
      BY <3>1, <3>2
  <2>2. \A i : i \notin 2 .. Len(calls')
    BY <1>1
  <2> QED
    BY <2>1, <2>2 DEF Rooted
<1>10. Called'
  <2>1. calls' = <<>> /\ Members(calls') = {} /\ NoRepeats(calls') /\ \A i : i \notin 2 .. Len(calls')
    BY <1>1 DEF Members, NoRepeats
  <2> QED
    BY <2>1 DEF Called
<1> QED
  BY <1>5, <1>6, <1>7, <1>8, <1>9, <1>10, <1>3 DEF Kept

\* What a step does not touch of the tree stays as it was.
LEMMA TreeKept ==
    ASSUME ListsInv, Children' = Children, Live' = Live, UNCHANGED <<p_parent, calls, version>>
    PROVE  Family' /\ Rooted' /\ Called'
<1>1. Family'
  BY DEF ListsInv, Family
<1>2. Rooted'
  BY DEF ListsInv, Rooted
<1>3. Called'
  BY DEF ListsInv, Called, NotLast
<1> QED
  BY <1>1, <1>2, <1>3

\* A process that blocks.
LEMMA BlockedKeeps ==
    ASSUME ListsInv, NEW s \in Sem, NEW d, Blocked(s, d)
    PROVE  Kept /\ Live' = Live
<1> DEFINE cur == current_process
<1>1. /\ cur \in Pcb /\ cur # NULL /\ cur \in Live /\ Unused(Queue, cur) /\ d \in Semd
      /\ current_process' = NULL /\ UNCHANGED <<p_parent, process_c, calls, version>>
      /\ Jobs' = Jobs /\ Children' = Children
      /\ s_semAdd \in [Semd -> Nat] /\ s \in Nat
      /\ p_cursem \in [Pcb -> Semd \cup {NULL}] /\ p_cursem' = [p_cursem EXCEPT ![cur] = d]
  BY ProcListsAssumption DEF Blocked, ListsInv, TypeOK, Placed
<1>2. /\ Queue'["pcbFree"] = Queue["pcbFree"]
      /\ \A l \in DOMAIN Queue : l # d => Queue'[l] = Queue[l]
      /\ Members(Queue'[d]) = Members(Queue[d]) \cup {cur}
      /\ Queue[d] \in Seq(Pcb)
  <2>1. Queue[d] \in Seq(Pcb) /\ d \in DOMAIN Queue /\ "pcbFree" \in DOMAIN Queue /\ d # "pcbFree"
    BY <1>1, Tabled, Apart
  <2>2. Members(Append(Queue[d], cur)) = Members(Queue[d]) \cup {cur}
    BY <1>1, <2>1, AppendMembers
  <2> QED
    BY <2>1, <2>2 DEF Blocked
<1>3. Live' = Live
  BY <1>2 DEF Live
<1>4. TypeOK'
  <2>1. s_semAdd' \in [Semd -> Nat]
    BY <1>1 DEF Blocked
  <2> QED
    BY <1>1, <2>1 DEF TypeOK, ListsInv
<1>5. Placed'
  <2>1. /\ version' = "final" => Members(Jobs'["jobs"]) = Live'
        /\ process_c' = Cardinality(Live')
    BY <1>1, <1>3 DEF ListsInv, Placed
  <2>2. ASSUME NEW e \in Semd, NEW q \in Members(Queue'[e])
        PROVE  p_cursem'[q] = e
    <3>1. e \in DOMAIN Queue
      BY Apart
    <3>2. (q = cur /\ e = d) \/ (q \in Members(Queue[e]) /\ q # cur /\ q \in Pcb)
      BY <1>1, <1>2, <3>1, Apart DEF Unused
    <3> QED
      BY <1>1, <3>2 DEF ListsInv, Placed
  <2>3. ASSUME version' = "phase 1", NEW q \in Pcb, p_cursem'[q] # NULL
        PROVE  q \in Members(Queue'[p_cursem'[q]])
    <3>1. CASE q = cur
      BY <1>1, <1>2, <3>1
    <3>2. CASE q # cur
      <4>1. p_cursem'[q] = p_cursem[q] /\ p_cursem[q] \in Semd
        BY <1>1, <2>3, <3>2
      <4>2. q \in Members(Queue[p_cursem[q]])
        BY <1>1, <2>3, <4>1 DEF ListsInv, Placed
      <4> QED
        BY <1>2, <4>1, <4>2, Apart
    <3> QED
      BY <3>1, <3>2
  <2> QED
    BY <1>1, <2>1, <2>2, <2>3 DEF Placed
<1>6. Described'
  <2>1. CASE d \in searchAsl(s) /\ Descriptors' = Descriptors /\ s_semAdd' = s_semAdd
    <3>1. d \notin Members(Descriptors["semdFree"])
      BY <2>1, Tabled, Apart
    <3>2. \A e \in Members(Descriptors["semdFree"]) : Queue'[e] = Queue[e]
      <4>1. "semdFree" \in DOMAIN Descriptors
        BY Tabled
      <4> QED
        BY <1>2, <3>1, <4>1, Apart
    <3> QED
      BY <2>1, <3>2 DEF ListsInv, Described
  <2>2. CASE /\ searchAsl(s) = {}
             /\ Descriptors["semdFree"] # <<>> /\ d = Head(Descriptors["semdFree"])
             /\ s_semAdd' = [s_semAdd EXCEPT ![d] = s]
             /\ \E k : /\ Place(Descriptors["aslh"], k, d, s_semAdd')
                       /\ Descriptors' = [Descriptors EXCEPT
                                            !["semdFree"] = Tail(Descriptors["semdFree"]),
                                            !["aslh"] = Inserted(Descriptors["aslh"], k, d)]
    <3>1. PICK k : /\ Place(Descriptors["aslh"], k, d, s_semAdd')
                   /\ Descriptors' = [Descriptors EXCEPT
                                        !["semdFree"] = Tail(Descriptors["semdFree"]),
                                        !["aslh"] = Inserted(Descriptors["aslh"], k, d)]
      BY <2>2
    <3>2. PICK free, asl : free = Descriptors["semdFree"] /\ asl = Descriptors["aslh"]
      OBVIOUS
    <3>3. /\ free \in Seq(Semd) /\ asl \in Seq(Semd) /\ free # <<>> /\ d = Head(free)
          /\ Members(asl) \subseteq Semd /\ Members(free) \subseteq Semd
          /\ Members(asl) \cap Members(free) = {}
          /\ Descriptors'["semdFree"] = Tail(free) /\ Descriptors'["aslh"] = Inserted(asl, k, d)
          /\ NoRepeats(free)
      <4>1. DOMAIN Descriptors = {"aslh", "semdFree"}
        BY Tabled
      <4>2. NoRepeats(free)
        BY <3>2, <4>1, LayoutRead DEF ListsInv, Linked
      <4> QED
        BY <2>2, <3>1, <3>2, <4>1, <4>2, Apart
    <3>4. /\ d \in Members(free) /\ Members(Tail(free)) = Members(free) \ {d}
      BY <3>3, HeadTailMembers
    <3>5. Members(Inserted(asl, k, d)) = Members(asl) \cup {d}
      <4>1. k \in 1 .. Len(asl) + 1
        BY <3>1, <3>2 DEF Place
      <4> QED
        BY <1>1, <3>3, <4>1, InsertedProperties
    <3>6. /\ s_semAdd' \in [Semd -> Nat] /\ s_semAdd'[d] = s
          /\ \A x \in Members(asl) : s_semAdd'[x] = s_semAdd[x]
      BY <1>1, <2>2, <3>3, <3>4
    <3>7. Ascending(Inserted(asl, k, d), s_semAdd')
      <4>1. Ascending(asl, s_semAdd)
        BY <3>2 DEF ListsInv, Described
      <4>2. \A i \in 1 .. Len(asl) : s_semAdd'[asl[i]] = s_semAdd[asl[i]]
        BY <3>6 DEF Members
      <4>3. PICK order : order = s_semAdd'
        OBVIOUS
      <4>4. Ascending(asl, order)
        BY <4>1, <4>2, <4>3 DEF Ascending
      <4>5. Ascending(Inserted(asl, k, d), order)
        BY <1>1, <3>1, <3>2, <3>3, <3>6, <4>3, <4>4, InsertedAscending
      <4> QED
        BY <4>3, <4>5
    <3>8. Members(asl) \cup Members(free) = Semd
      BY <3>2 DEF ListsInv, Described
    <3>9. Members(Descriptors'["aslh"]) \cup Members(Descriptors'["semdFree"]) = Semd
      BY <1>1, <3>3, <3>4, <3>5, <3>8
    <3>10. ASSUME NEW e \in Members(Descriptors'["aslh"])
           PROVE  s_semAdd'[e] \in Sem
      BY <3>2, <3>3, <3>5, <3>6, <3>10 DEF ListsInv, Described
    <3>11. ASSUME NEW e \in Members(Descriptors'["semdFree"])
           PROVE  Queue'[e] = <<>>
      <4>1. e \in Members(free) /\ e # d /\ e \in DOMAIN Queue
        BY <3>3, <3>4, <3>11, Apart
      <4> QED
        BY <1>2, <3>2, <4>1 DEF ListsInv, Described
    <3> QED
      BY <3>3, <3>7, <3>9, <3>10, <3>11 DEF Described
  <2> QED
    BY <2>1, <2>2 DEF Blocked
<1> QED
  BY <1>1, <1>3, <1>4, <1>5, <1>6, TreeKept DEF Kept

\* A queue without its head, or without one element anywhere, is in order.
LEMMA WithoutAscending ==
    ASSUME NEW E, NEW q \in Seq(E), NEW order, Ascending(q, order), NEW S
    PROVE  Ascending(Without(q, S), order)
<1> DEFINE r == Without(q, S)
<1>1. ASSUME NEW i \in 1 .. Len(r), NEW j \in 1 .. Len(r), i < j
      PROVE  order[r[i]] < order[r[j]]
  <2>1. Before(r, r[i], r[j])
    BY <1>1 DEF Before
  <2>2. Before(q, r[i], r[j])
    BY <2>1, WithoutOrder
  <2> HIDE DEF r
  <2> QED
    BY <2>2 DEF Before, Ascending
<1> HIDE DEF r
<1>2. Ascending(r, order)
  BY <1>1 DEF Ascending
<1> QED
  BY <1>2 DEF r

\* A descriptor whose queue empties, if it is freed, leaves the descriptors as described.
LEMMA FreedDescribed ==
    ASSUME ListsInv, NEW d \in Members(Descriptors["aslh"]), FreedIfEmpty(d), s_semAdd' = s_semAdd,
           \A e \in Semd : Queue[e] = <<>> => Queue'[e] = <<>>
    PROVE  Described'
<1>1. PICK free, asl : free = Descriptors["semdFree"] /\ asl = Descriptors["aslh"]
  OBVIOUS
<1>2. /\ free \in Seq(Semd) /\ asl \in Seq(Semd) /\ Members(asl) \cup Members(free) = Semd
      /\ Ascending(asl, s_semAdd) /\ \A e \in Members(asl) : s_semAdd[e] \in Sem
      /\ \A e \in Members(free) : Queue[e] = <<>>
      /\ DOMAIN Descriptors = {"aslh", "semdFree"}
  BY <1>1, Tabled, Apart DEF ListsInv, Described
<1>3. CASE Queue'[d] # <<>>
  BY <1>1, <1>2, <1>3 DEF FreedIfEmpty, Described
<1>4. CASE Queue'[d] = <<>>
  <2>1. PICK F, A : F = Descriptors'["semdFree"] /\ A = Descriptors'["aslh"]
    OBVIOUS
  <2>2. A = Without(asl, {d}) /\ Members(F) = Members(free) \cup {d}
    BY <1>1, <1>4, <2>1 DEF FreedIfEmpty
  <2>3. Members(A) = Members(asl) \ {d} /\ Ascending(A, s_semAdd)
    BY <1>2, <2>2, WithoutProperties, WithoutAscending
  <2>4. Members(A) \cup Members(F) = Semd /\ \A e \in Members(A) : s_semAdd[e] \in Sem
    BY <1>1, <1>2, <2>2, <2>3
  <2>5. \A e \in Members(F) : Queue'[e] = <<>>
    BY <1>2, <1>4, <2>2
  <2> QED
    BY <2>1, <2>3, <2>4, <2>5 DEF Described
<1> QED
  BY <1>3, <1>4

\* A process that is woken.
LEMMA WokenKeeps ==
    ASSUME ListsInv, NEW s \in Sem, NEW d, Woken(s, d)
    PROVE  Kept /\ Live' = Live
<1>1. PICK h : h = Head(Queue[d])
  OBVIOUS
<1>2. /\ d \in Members(Descriptors["aslh"]) /\ d \in Semd /\ d \in DOMAIN Queue
      /\ d # "pcbFree" /\ d # "ready_queue"
      /\ Queue[d] \in Seq(Pcb) /\ Queue[d] # <<>> /\ NoRepeats(Queue[d])
      /\ Queue["ready_queue"] \in Seq(Pcb)
      /\ UNCHANGED <<p_parent, s_semAdd, process_c, current_process, calls, version>>
      /\ Jobs' = Jobs /\ Children' = Children
      /\ p_cursem \in [Pcb -> Semd \cup {NULL}]
  <2>1. d \in Members(Descriptors["aslh"])
    BY Tabled DEF Woken
  <2>2. d \in Semd
    BY <2>1, Tabled, Apart
  <2> QED
    BY <2>1, <2>2, Tabled, Apart DEF Woken, ListsInv, TypeOK
<1>3. /\ h \in Pcb /\ Members(Queue[d]) = {h} \cup Members(Tail(Queue[d]))
      /\ h \notin Members(Tail(Queue[d]))
  BY <1>1, <1>2, HeadTailMembers
<1>4. /\ Queue'["pcbFree"] = Queue["pcbFree"]
      /\ \A l \in DOMAIN Queue : l # d /\ l # "ready_queue" => Queue'[l] = Queue[l]
      /\ Queue'[d] = Tail(Queue[d])
      /\ Members(Queue'["ready_queue"]) = Members(Queue["ready_queue"]) \cup {h}
      /\ DOMAIN Queue' = DOMAIN Queue
  <2>1. Members(Append(Queue["ready_queue"], h)) = Members(Queue["ready_queue"]) \cup {h}
    BY <1>2, <1>3, AppendMembers
  <2> QED
    BY <1>1, <1>2, <2>1, Apart DEF Woken
<1>5. Live' = Live
  BY <1>4 DEF Live
<1>6. /\ \A x \in Pcb : p_cursem'[x] = IF version = "phase 1" /\ x = h THEN NULL ELSE p_cursem[x]
      /\ p_cursem' \in [Pcb -> Semd \cup {NULL}]
  <2>1. version \in {"final", "phase 1"}
    BY DEF ListsInv, TypeOK
  <2> QED
    BY <1>1, <1>2, <1>3, <2>1 DEF Woken
<1>7. TypeOK'
  BY <1>2, <1>6 DEF TypeOK, ListsInv
<1>8. Placed'
  <2>1. /\ version' = "final" => Members(Jobs'["jobs"]) = Live'
        /\ process_c' = Cardinality(Live')
    BY <1>2, <1>5 DEF ListsInv, Placed
  <2>2. current_process' # NULL => current_process' \in Live' /\ Unused(Queue', current_process')
    <3>1. ASSUME current_process # NULL
          PROVE  current_process \in Live /\ Unused(Queue', current_process)
      BY <1>2, <1>3, <1>4, <3>1 DEF ListsInv, Placed, Unused
    <3> QED
      BY <1>2, <1>5, <3>1
  <2>3. ASSUME NEW e \in Semd, NEW q \in Members(Queue'[e])
        PROVE  p_cursem'[q] = e
    <3>1. e \in DOMAIN Queue /\ e # "ready_queue"
      BY Apart
    <3>2. q \in Members(Queue[e]) /\ q # h /\ q \in Pcb
      <4>1. q \in Members(Queue[e]) /\ q \in Pcb
        BY <1>3, <1>4, <3>1, Apart
      <4>2. q # h
        BY <1>2, <1>3, <1>4, <3>1, <4>1, Apart
      <4> QED
        BY <4>1, <4>2
    <3> QED
      BY <1>6, <3>2 DEF ListsInv, Placed
  <2>4. ASSUME version' = "phase 1", NEW q \in Pcb, p_cursem'[q] # NULL
        PROVE  q \in Members(Queue'[p_cursem'[q]])
    <3>1. q # h /\ p_cursem'[q] = p_cursem[q] /\ p_cursem[q] \in Semd
      BY <1>2, <1>6, <2>4
    <3>2. q \in Members(Queue[p_cursem[q]])
      BY <1>2, <2>4, <3>1 DEF ListsInv, Placed
    <3> QED
      BY <1>3, <1>4, <3>1, <3>2, Apart
  <2> QED
    BY <2>1, <2>2, <2>3, <2>4 DEF Placed
<1>9. Described'
  <2>1. \A e \in Semd : Queue[e] = <<>> => Queue'[e] = <<>>
    BY <1>2, <1>4, Apart
  <2> QED
    BY <1>2, <2>1, FreedDescribed DEF Woken
<1> QED
  BY <1>2, <1>5, <1>7, <1>8, <1>9, TreeKept DEF Kept

\* The next process that runs.
LEMMA DispatchedKeeps ==
    ASSUME ListsInv, NEW line, Dispatched(line)
    PROVE  Kept /\ Live' = Live
<1>1. PICK cur : cur = current_process
  OBVIOUS
<1>2. /\ cur # NULL => cur \in Pcb /\ cur \in Live /\ Unused(Queue, cur)
      /\ UNCHANGED <<p_parent, p_cursem, s_semAdd, process_c, calls, version>>
      /\ Jobs' = Jobs /\ Children' = Children /\ Descriptors' = Descriptors
      /\ Queue["ready_queue"] \in Seq(Pcb) /\ NoRepeats(Queue["ready_queue"])
      /\ Members(Queue["ready_queue"]) \subseteq Live
      /\ "ready_queue" \in DOMAIN Queue /\ "ready_queue" # "pcbFree"
  BY <1>1, Tabled, Apart DEF Dispatched, ListsInv, Placed, TypeOK, fields
<1>3. /\ line \in Seq(Pcb) /\ NoRepeats(line) /\ line # <<>>
      /\ Members(line) \subseteq Live
      /\ \A l \in DOMAIN Queue : l # "ready_queue" => Members(line) \cap Members(Queue[l]) = {}
  <2>1. line = IF cur = NULL THEN Queue["ready_queue"] ELSE Append(Queue["ready_queue"], cur)
    BY <1>1 DEF Dispatched
  <2>2. \A l \in DOMAIN Queue : l # "ready_queue" =>
          Members(Queue["ready_queue"]) \cap Members(Queue[l]) = {}
    BY Apart
  <2>3. CASE cur = NULL
    BY <1>2, <2>1, <2>2, <2>3 DEF Dispatched
  <2>4. CASE cur # NULL
    <3>1. /\ line = Append(Queue["ready_queue"], cur) /\ line # <<>>
          /\ cur \in Pcb /\ cur \notin Members(Queue["ready_queue"])
      BY <1>2, <2>1, <2>4 DEF Unused, Dispatched
    <3>2. /\ line \in Seq(Pcb) /\ NoRepeats(line)
          /\ Members(line) = Members(Queue["ready_queue"]) \cup {cur}
      BY <1>2, <3>1, AppendMembers
    <3> QED
      BY <1>2, <2>2, <2>4, <3>1, <3>2 DEF Unused
  <2> QED
    BY <2>3, <2>4
<1>4. PICK h : h = Head(line) /\ h = current_process'
  BY DEF Dispatched
<1>5. /\ h \in Pcb /\ h \in Live /\ h \notin Members(Tail(line)) /\ h # NULL
      /\ Members(Tail(line)) \subseteq Members(line) /\ h \in Members(line)
  BY <1>3, <1>4, HeadTailMembers, Apart
<1>6. /\ \A l \in DOMAIN Queue : l # "ready_queue" => Queue'[l] = Queue[l]
      /\ Queue'["ready_queue"] = Tail(line) /\ DOMAIN Queue' = DOMAIN Queue
      /\ Queue'["pcbFree"] = Queue["pcbFree"]
  BY <1>2, Apart DEF Dispatched
<1>7. Live' = Live
  BY <1>6 DEF Live
<1>8. TypeOK'
  BY <1>2, <1>4, <1>5 DEF TypeOK, ListsInv
<1>9. Placed'
  <2>1. /\ version' = "final" => Members(Jobs'["jobs"]) = Live'
        /\ process_c' = Cardinality(Live')
    BY <1>2, <1>7 DEF ListsInv, Placed
  <2>2. current_process' \in Live' /\ Unused(Queue', current_process')
    BY <1>3, <1>4, <1>5, <1>6, <1>7 DEF Unused
  <2>3. \A e \in Semd : Queue'[e] = Queue[e]
    BY <1>6, Apart
  <2>4. \A e \in Semd : \A q \in Members(Queue'[e]) : p_cursem'[q] = e
    BY <1>2, <2>3 DEF ListsInv, Placed
  <2>5. ASSUME version' = "phase 1", NEW q \in Pcb, p_cursem'[q] # NULL
        PROVE  q \in Members(Queue'[p_cursem'[q]])
    <3>1. p_cursem[q] \in Semd
      BY <1>2, <2>5 DEF ListsInv, TypeOK
    <3> QED
      BY <1>2, <2>3, <2>5, <3>1 DEF ListsInv, Placed
  <2> QED
    BY <2>1, <2>2, <2>4, <2>5 DEF Placed
<1>10. Described'
  <2>1. \A d \in Members(Descriptors["semdFree"]) : Queue'[d] = Queue[d]
    BY <1>6, Tabled, Apart
  <2> QED
    BY <1>2, <2>1 DEF ListsInv, Described
<1> QED
  BY <1>2, <1>7, <1>8, <1>9, <1>10, TreeKept DEF Kept

\* A SYS2 begins.
LEMMA TargetedKeeps ==
    ASSUME ListsInv, NEW target \in Pcb, Targeted(target)
    PROVE  Kept /\ Live' = Live
<1>1. /\ calls = <<>> /\ calls' = <<target>> /\ target \in Live
      /\ UNCHANGED <<p_list, p_jobs, p_siblings, s_link, p_parent, p_cursem, s_semAdd,
                     process_c, current_process, version>>
      /\ version = "phase 1" => NotLast(target)
  BY DEF Targeted, links, fields
<1>2. /\ Queue' = Queue /\ Jobs' = Jobs /\ Children' = Children /\ Descriptors' = Descriptors
  BY <1>1 DEF Queue, Jobs, Children, Descriptors
<1>3. Live' = Live
  BY <1>2 DEF Live
<1>4. TypeOK'
  <2>1. <<target>> \in Seq(Pcb)
    OBVIOUS
  <2> QED
    BY <1>1, <2>1 DEF ListsInv, TypeOK
<1>5. Placed'
  BY <1>1, <1>2, <1>3 DEF ListsInv, Placed, Unused
<1>6. Described' /\ Family'
  BY <1>1, <1>2, <1>3 DEF ListsInv, Described, Family
<1>7. /\ Len(calls') = 1 /\ calls'[1] = target /\ Members(calls') = {target}
      /\ NoRepeats(calls') /\ \A i : i \notin 2 .. Len(calls')
  <2>1. Len(calls') = 1 /\ calls'[1] = target
    BY <1>1
  <2>2. 1 .. Len(calls') = {1} /\ 2 .. Len(calls') = {}
    BY <2>1
  <2> QED
    BY <2>1, <2>2 DEF Members, NoRepeats
<1>8. Rooted'
  BY <1>1, <1>7 DEF ListsInv, Rooted
<1>9. Called'
  <2>1. version' = "phase 1" => NotLast(calls[1])'
    BY <1>1, <1>2, <1>7 DEF NotLast
  <2> QED
    BY <1>1, <1>3, <1>7, <2>1 DEF Called
<1> QED
  BY <1>4, <1>5, <1>6, <1>8, <1>9, <1>3 DEF Kept

\* terminateFamily began below all it has come to since.
LEMMA RootOutside ==
    ASSUME ListsInv, calls # <<>>
    PROVE  p_parent[calls[1]] \notin Members(calls)
<1>1. /\ Len(calls) \in Nat /\ Len(calls) >= 1 /\ calls \in Seq(Pcb)
      /\ Members(calls) \in SUBSET Pcb /\ Members(calls) # {}
  BY ThisIsLive, MembersType
<1>2. PICK p \in Members(calls) :
        /\ p_parent[p] \notin Members(calls)
        /\ \A i \in 2 .. Len(calls) : calls[i] = p => calls[i - 1] \notin Members(calls)
  BY <1>1 DEF ListsInv, Rooted
<1>3. PICK i \in 1 .. Len(calls) : p = calls[i]
  BY DEF Members
<1>4. i = 1
  <2>1. ASSUME i # 1
        PROVE  FALSE
    <3>1. i \in 2 .. Len(calls) /\ i - 1 \in 1 .. Len(calls)
      BY <1>1, <2>1
    <3>2. calls[i - 1] \in Members(calls)
      BY <3>1 DEF Members
    <3> QED
      BY <1>2, <1>3, <3>1, <3>2
  <2> QED
    BY <2>1
<1> QED
  BY <1>2, <1>3, <1>4

\* terminateFamily goes on to a child.
LEMMA DescendedKeeps ==
    ASSUME ListsInv, NEW child, Descended(child)
    PROVE  Kept /\ Live' = Live
<1>1. PICK t, n : t = this /\ n = Len(calls)
  OBVIOUS
<1>2. /\ n \in Nat /\ n >= 1 /\ calls \in Seq(Pcb) /\ t \in Members(calls) /\ t \in Live /\ t \in Pcb
      /\ t = calls[n] /\ calls # <<>>
  BY <1>1, ThisIsLive DEF Descended, this
<1>3. /\ Queue' = Queue /\ Jobs' = Jobs /\ Descriptors' = Descriptors /\ calls' = Append(calls, child)
      /\ Children' = [Children EXCEPT ![p_children(t)] = Tail(Children[p_children(t)])]
      /\ p_parent' = [p_parent EXCEPT ![child] = NULL]
      /\ UNCHANGED <<p_cursem, s_semAdd, process_c, current_process, version>>
      /\ p_parent \in [Pcb -> Pcb \cup {NULL}] /\ NULL \notin Pcb
  BY <1>1, Apart DEF Descended, ListsInv, TypeOK
<1>4. /\ Children[p_children(t)] \in Seq(Pcb) /\ Children[p_children(t)] # <<>>
      /\ child = Head(Children[p_children(t)]) /\ NoRepeats(Children[p_children(t)])
  BY <1>1, <1>2, Tabled DEF Descended
<1>5. /\ child \in Pcb /\ child \in Members(Children[p_children(t)])
      /\ Members(Tail(Children[p_children(t)])) = Members(Children[p_children(t)]) \ {child}
  BY <1>4, HeadTailMembers
<1>6. p_parent[child] = t /\ child \in Live
  BY <1>2, <1>3, <1>5 DEF ListsInv, Family
<1>7. p_parent[calls[1]] \notin Members(calls) /\ \A i \in 2 .. n : p_parent[calls[i]] = NULL
  BY <1>1, <1>2, RootOutside DEF ListsInv, Called
<1>8. child \notin Members(calls)
  <2>1. ASSUME NEW i \in 1 .. n, child = calls[i]
        PROVE  FALSE
    <3>1. i # 1
      BY <1>2, <1>6, <1>7, <2>1
    <3>2. i \in 2 .. n
      BY <1>2, <3>1
    <3> QED
      BY <1>2, <1>3, <1>6, <1>7, <2>1, <3>2
  <2> QED
    BY <1>1, <2>1 DEF Members
<1>9. /\ calls' \in Seq(Pcb) /\ Len(calls') = n + 1 /\ calls'[n + 1] = child
      /\ \A i \in 1 .. n : calls'[i] = calls[i]
      /\ Members(calls') = Members(calls) \cup {child} /\ NoRepeats(calls')
  <2>1. /\ calls' \in Seq(Pcb) /\ Len(calls') = n + 1 /\ calls'[n + 1] = child
        /\ \A i \in 1 .. n : calls'[i] = calls[i]
    BY <1>1, <1>2, <1>3, <1>5
  <2>2. NoRepeats(calls)
    BY DEF ListsInv, Called
  <2>3. Members(calls') = Members(calls) \cup {child} /\ NoRepeats(calls')
    BY <1>2, <1>3, <1>5, <1>8, <2>2, AppendMembers
  <2> QED
    BY <2>1, <2>3
<1>10. Live' = Live
  BY <1>3 DEF Live
<1>11. TypeOK'
  <2>1. p_parent' \in [Pcb -> Pcb \cup {NULL}]
    BY <1>3
  <2> QED
    BY <1>3, <1>9, <2>1 DEF ListsInv, TypeOK
<1>12. Placed' /\ Described'
  BY <1>3, <1>10 DEF ListsInv, Placed, Described, Unused
<1>13. Family'
  <2>1. ASSUME NEW r \in Pcb, NEW q \in Pcb
        PROVE  q \in Members(Children'[p_children(r)]) <=> p_parent'[q] = r
    <3>1. /\ q \in Members(Children[p_children(r)]) <=> p_parent[q] = r
          /\ p_children(r) \in DOMAIN Children
      BY Tabled DEF ListsInv, Family
    <3>2. CASE r = t
      BY <1>3, <1>5, <1>6, <3>1, <3>2
    <3>3. CASE r # t
      <4>1. p_children(r) # p_children(t)
        BY <3>3 DEF p_children
      <4> QED
        BY <1>3, <1>5, <1>6, <3>1, <3>3, <4>1
    <3> QED
      BY <3>2, <3>3
  <2>2. ASSUME NEW q \in Pcb, p_parent'[q] # NULL
        PROVE  q \in Live' /\ p_parent'[q] \in Live'
    BY <1>3, <1>5, <1>10, <2>2 DEF ListsInv, Family
  <2> QED
    BY <2>1, <2>2 DEF Family
<1>14. Rooted'
  <2>1. ASSUME NEW S \in SUBSET Pcb, S # {}
        PROVE  \E x \in S : /\ p_parent'[x] \notin S
                            /\ \A i \in 2 .. Len(calls') : calls'[i] = x => calls'[i - 1] \notin S
    <3>1. PICK x \in S : /\ p_parent[x] \notin S
                         /\ \A i \in 2 .. n : calls[i] = x => calls[i - 1] \notin S
      BY <1>1, <2>1 DEF ListsInv, Rooted
    <3>2. p_parent'[x] \notin S
      BY <1>3, <1>5, <3>1
    <3>3. ASSUME NEW i \in 2 .. n + 1, calls'[i] = x
          PROVE  calls'[i - 1] \notin S
      <4>1. CASE i = n + 1
        BY <1>2, <1>6, <1>9, <3>1, <3>3, <4>1
      <4>2. CASE i # n + 1
        <5>1. i \in 2 .. n /\ i \in 1 .. n /\ i - 1 \in 1 .. n
          BY <1>2, <4>2
        <5> QED
          BY <1>9, <3>1, <3>3, <5>1
      <4> QED
        BY <4>1, <4>2
    <3> QED
      BY <1>9, <3>2, <3>3
  <2> QED
    BY <2>1 DEF Rooted
<1>15. Called'
  <2>1. Members(calls') \subseteq Live'
    BY <1>6, <1>9, <1>10 DEF ListsInv, Called
  <2>2. ASSUME NEW i \in 2 .. n + 1
        PROVE  p_parent'[calls'[i]] = NULL
    <3>1. CASE i = n + 1
      BY <1>3, <1>5, <1>9, <3>1
    <3>2. CASE i # n + 1
      <4>1. i \in 2 .. n /\ i \in 1 .. n
        BY <1>2, <3>2
      <4> QED
        BY <1>2, <1>3, <1>7, <1>9, <4>1
    <3> QED
      BY <3>1, <3>2
  <2>3. ASSUME version = "phase 1"
        PROVE  NotLast(calls[1])'
    <3>1. PICK c, r : c = calls[1] /\ r = p_parent[c]
      OBVIOUS
    <3>2. calls'[1] = c /\ c \in Pcb /\ c # child
      <4>1. 1 \in 1 .. n
        BY <1>2
      <4>2. c \in Members(calls)
        BY <1>1, <3>1, <4>1 DEF Members
      <4> QED
        BY <1>2, <1>8, <1>9, <3>1, <4>1, <4>2
    <3>3. p_parent'[c] = r
      BY <1>3, <3>1, <3>2
    <3>4. CASE r = NULL
      BY <3>2, <3>3, <3>4 DEF NotLast
    <3>5. CASE r # NULL
      <4>1. r \in Pcb /\ r # t
        BY <1>2, <1>3, <1>7, <3>1, <3>2, <3>5
      <4>2. Children'[p_children(r)] = Children[p_children(r)]
        <5>1. p_children(r) # p_children(t)
          BY <4>1 DEF p_children
        <5> QED
          BY <1>3, <4>1, <5>1, Tabled
      <4>3. NotLast(c)
        BY <1>2, <2>3, <3>1 DEF ListsInv, Called
      <4> QED
        BY <3>1, <3>2, <3>3, <3>5, <4>2, <4>3 DEF NotLast
    <3> QED
      BY <3>4, <3>5
  <2> QED
    BY <1>3, <1>9, <2>1, <2>2, <2>3 DEF Called
<1> QED
  BY <1>11, <1>12, <1>13, <1>14, <1>15, <1>10 DEF Kept

\* The end of a process.
LEMMA BuriedKeeps ==
    ASSUME ListsInv, Buried
    PROVE  Kept /\ Live' = Live \ {this}
<1>1. PICK t, n, W : t = this /\ n = Len(calls) /\ W = Less(Queue, t)
  OBVIOUS
<1>2. /\ n \in Nat /\ n >= 1 /\ calls \in Seq(Pcb) /\ t \in Members(calls) /\ t \in Live /\ t \in Pcb
      /\ t = calls[n] /\ calls # <<>>
  BY <1>1, ThisIsLive DEF Buried, this
<1>3. /\ Queue' = [W EXCEPT !["pcbFree"] = Append(Queue["pcbFree"], t)]
      /\ version = "final" => Jobs'["jobs"] = Without(Jobs["jobs"], {t})
      /\ Children[p_children(t)] = <<>> /\ Children' = Less(Children, t)
      /\ p_parent' = [p_parent EXCEPT ![t] = NULL]
      /\ process_c' = process_c - 1
      /\ current_process' = IF t = current_process THEN NULL ELSE current_process
      /\ calls' = SubSeq(calls, 1, n - 1)
      /\ UNCHANGED <<s_semAdd, version>>
      /\ \/ version = "final" /\ p_cursem' = p_cursem /\ Descriptors' = Descriptors
         \/ /\ version = "phase 1"
            /\ p_cursem' = [p_cursem EXCEPT ![t] = NULL]
            /\ IF p_cursem[t] = NULL THEN Descriptors' = Descriptors
               ELSE FreedIfEmpty(p_cursem[t])
  BY <1>1 DEF Buried
<1>4. /\ p_parent \in [Pcb -> Pcb \cup {NULL}] /\ NULL \notin Pcb
      /\ p_cursem \in [Pcb -> Semd \cup {NULL}]
  BY Apart DEF ListsInv, TypeOK
<1>5. /\ DOMAIN Queue' = DOMAIN Queue
      /\ \A l \in DOMAIN Queue : l # "pcbFree" =>
           /\ Members(Queue'[l]) = Members(Queue[l]) \ {t}
           /\ Queue[l] = <<>> => Queue'[l] = <<>>
      /\ Members(Queue'["pcbFree"]) = Members(Queue["pcbFree"]) \cup {t}
  <2>1. Layout(p_list, Pcb, Queue) /\ \A l \in DOMAIN Queue : Queue[l] \in Seq(Pcb)
    BY Tabled DEF ListsInv, Linked
  <2>2. DOMAIN W = DOMAIN Queue /\ \A l \in DOMAIN Queue : W[l] = Without(Queue[l], {t})
    <3>1. DOMAIN W = DOMAIN Queue
      BY <1>1, <2>1, LessProperties
    <3> QED
      BY <1>1, <3>1 DEF Less
  <2>3. ASSUME NEW l \in DOMAIN Queue, l # "pcbFree"
        PROVE  /\ Members(Queue'[l]) = Members(Queue[l]) \ {t}
               /\ Queue[l] = <<>> => Queue'[l] = <<>>
    <3>1. Queue'[l] = Without(Queue[l], {t})
      BY <1>3, <2>2, <2>3
    <3>2. /\ Without(Queue[l], {t}) \in Seq(Pcb)
          /\ Members(Without(Queue[l], {t})) = Members(Queue[l]) \ {t}
      BY <2>1, WithoutProperties
    <3>3. Queue[l] = <<>> => Members(Queue[l]) = {}
      BY <2>1, MembersType
    <3>4. PICK r : r = Without(Queue[l], {t})
      OBVIOUS
    <3>5. r \in Seq(Pcb) /\ Members(r) = Members(Queue[l]) \ {t}
      BY <3>2, <3>4
    <3>6. Members(r) = {} => r = <<>>
      BY <3>5, MembersType
    <3> QED
      BY <3>1, <3>3, <3>4, <3>5, <3>6
  <2>4. Members(Append(Queue["pcbFree"], t)) = Members(Queue["pcbFree"]) \cup {t}
    BY <1>2, <2>1, AppendMembers, Apart
  <2> QED
    BY <1>3, <2>2, <2>3, <2>4, Apart
<1>6. Live' = Live \ {t}
  BY <1>5 DEF Live
<1>7. /\ \A r \in Pcb : p_children(r) \in DOMAIN Children
      /\ \A l \in DOMAIN Children :
           /\ Members(Children'[l]) = Members(Children[l]) \ {t}
           /\ t \notin Members(Children[l]) => Children'[l] = Children[l]
  <2>1. Layout(p_siblings, Pcb, Children) /\ \A r \in Pcb : p_children(r) \in DOMAIN Children
    BY Tabled DEF ListsInv, Linked
  <2>2. \A l \in DOMAIN Children : /\ Children'[l] = Without(Children[l], {t})
                                   /\ Children[l] \in Seq(Pcb)
                                   /\ t \notin Members(Children[l]) => Children'[l] = Children[l]
    <3>1. \A l \in DOMAIN Children : Children[l] \in Seq(Pcb)
      BY <2>1, LayoutRead
    <3>2. PICK C : C = Less(Children, t)
      OBVIOUS
    <3>3. \A l \in DOMAIN Children : /\ C[l] = Without(Children[l], {t})
                                     /\ t \notin Members(Children[l]) => C[l] = Children[l]
      <4>1. \A l \in DOMAIN Children : t \notin Members(Children[l]) => C[l] = Children[l]
        BY <2>1, <3>2, LessProperties
      <4> QED
        BY <3>2, <4>1 DEF Less
    <3> QED
      BY <1>3, <3>1, <3>2, <3>3
  <2> QED
    BY <2>1, <2>2, WithoutProperties
<1>8. /\ calls' \in Seq(Pcb) /\ Len(calls') = n - 1
      /\ \A i \in 1 .. n - 1 : calls'[i] = calls[i] /\ calls[i] # t
  <2>1. PICK k : k = n - 1 /\ k \in 0 .. Len(calls)
    BY <1>1, <1>2
  <2>2. /\ calls' \in Seq(Pcb) /\ Len(calls') = n - 1
        /\ \A i \in 1 .. n - 1 : calls'[i] = calls[i]
    <3>1. /\ SubSeq(calls, 1, k) \in Seq(Pcb) /\ Len(SubSeq(calls, 1, k)) = k
          /\ \A i \in 1 .. k : SubSeq(calls, 1, k)[i] = calls[i]
      BY <1>2, <2>1, SplitMembers
    <3> QED
      BY <1>3, <2>1, <3>1
  <2>3. ASSUME NEW i \in 1 .. n - 1
        PROVE  calls[i] # t
    <3>1. i \in 1 .. n /\ n \in 1 .. n /\ i # n
      BY <1>2
    <3> QED
      BY <1>1, <1>2, <3>1 DEF ListsInv, Called, NoRepeats
  <2> QED
    BY <2>2, <2>3
<1>9. TypeOK'
  <2>1. p_parent' \in [Pcb -> Pcb \cup {NULL}] /\ p_cursem' \in [Pcb -> Semd \cup {NULL}]
    BY <1>3, <1>4
  <2> QED
    BY <1>3, <1>8, <2>1 DEF ListsInv, TypeOK
<1>10. Placed'
  <2>1. ASSUME version = "final"
        PROVE  Members(Jobs'["jobs"]) = Live'
    <3>1. Jobs["jobs"] \in Seq(Pcb)
      <4>1. "jobs" \in DOMAIN Jobs
        BY Tabled
      <4> QED
        BY <4>1, LayoutRead DEF ListsInv, Linked
    <3>2. Members(Jobs["jobs"]) = Live
      BY <2>1 DEF ListsInv, Placed
    <3> QED
      BY <1>3, <1>6, <2>1, <3>1, <3>2, WithoutProperties
  <2>2. process_c' = Cardinality(Live')
    <3>1. Cardinality(Live') = Cardinality(Live) - 1
      BY <1>2, <1>6, Apart, FS_RemoveElement
    <3> QED
      BY <1>3, <3>1 DEF ListsInv, Placed
  <2>3. ASSUME current_process' # NULL
        PROVE  current_process' \in Live' /\ Unused(Queue', current_process')
    <3>1. /\ current_process' = current_process /\ current_process # t
          /\ current_process \in Live /\ Unused(Queue, current_process)
      BY <1>3, <2>3 DEF ListsInv, Placed
    <3> QED
      BY <1>5, <1>6, <3>1 DEF Unused
  <2>4. ASSUME NEW e \in Semd, NEW q \in Members(Queue'[e])
        PROVE  p_cursem'[q] = e
    <3>1. q \in Members(Queue[e]) /\ q # t /\ q \in Pcb
      BY <1>5, Apart
    <3>2. p_cursem[q] = e
      BY <3>1 DEF ListsInv, Placed
    <3> QED
      BY <1>3, <1>4, <3>1, <3>2
  <2>5. ASSUME version' = "phase 1", NEW q \in Pcb, p_cursem'[q] # NULL
        PROVE  q \in Members(Queue'[p_cursem'[q]])
    <3>1. q # t /\ p_cursem'[q] = p_cursem[q] /\ p_cursem[q] \in Semd
      BY <1>3, <1>4, <2>5
    <3>2. q \in Members(Queue[p_cursem[q]])
      BY <1>3, <2>5, <3>1 DEF ListsInv, Placed
    <3> QED
      BY <1>5, <3>1, <3>2, Apart
  <2> QED
    BY <1>3, <2>1, <2>2, <2>3, <2>4, <2>5 DEF Placed
<1>11. Described'
  <2>1. \A e \in Semd : Queue[e] = <<>> => Queue'[e] = <<>>
    BY <1>5, Apart
  <2>2. CASE Descriptors' = Descriptors
    <3>1. \A d \in Members(Descriptors["semdFree"]) : d \in Semd
      BY Apart, Tabled
    <3> QED
      BY <1>3, <2>1, <2>2, <3>1 DEF ListsInv, Described
  <2>3. CASE version = "phase 1" /\ p_cursem[t] # NULL /\ FreedIfEmpty(p_cursem[t])
    <3>1. PICK d : d = p_cursem[t]
      OBVIOUS
    <3>2. d \in Semd /\ t \in Members(Queue[d])
      BY <1>2, <1>4, <2>3, <3>1 DEF ListsInv, Placed
    <3>3. d \in Members(Descriptors["aslh"])
      <4>1. Queue[d] # <<>>
        BY <3>2 DEF Members
      <4> QED
        BY <3>2, <4>1 DEF ListsInv, Described
    <3> QED
      BY <1>3, <2>1, <2>3, <3>1, <3>3, FreedDescribed
  <2> QED
    BY <1>3, <2>2, <2>3
<1>12. Family'
  <2>1. \A q \in Pcb : p_parent[q] # t
    <3>1. \A q : q \notin Members(Children[p_children(t)])
      <4>1. Len(<<>>) = 0 /\ 1 .. 0 = {}
        OBVIOUS
      <4> QED
        BY <1>3, <4>1 DEF Members
    <3> QED
      BY <1>2, <3>1 DEF ListsInv, Family
  <2>2. ASSUME NEW r \in Pcb, NEW q \in Pcb
        PROVE  q \in Members(Children'[p_children(r)]) <=> p_parent'[q] = r
    <3>1. q \in Members(Children[p_children(r)]) <=> p_parent[q] = r
      BY DEF ListsInv, Family
    <3>2. q \in Members(Children'[p_children(r)]) <=>
            q \in Members(Children[p_children(r)]) /\ q # t
      BY <1>7
    <3>3. p_parent'[q] = IF q = t THEN NULL ELSE p_parent[q]
      BY <1>3, <1>4
    <3> QED
      BY <1>4, <3>1, <3>2, <3>3
  <2>3. ASSUME NEW q \in Pcb, p_parent'[q] # NULL
        PROVE  q \in Live' /\ p_parent'[q] \in Live'
    <3>1. q # t /\ p_parent'[q] = p_parent[q]
      BY <1>3, <1>4, <2>3
    <3>2. q \in Live /\ p_parent[q] \in Live
      BY <2>3, <3>1 DEF ListsInv, Family
    <3> QED
      BY <1>6, <2>1, <3>1, <3>2
  <2> QED
    BY <2>2, <2>3 DEF Family
<1>13. Rooted'
  <2>1. ASSUME NEW S \in SUBSET Pcb, S # {}
        PROVE  \E x \in S : /\ p_parent'[x] \notin S
                            /\ \A i \in 2 .. n - 1 : calls'[i] = x => calls'[i - 1] \notin S
    <3>1. PICK x \in S : /\ p_parent[x] \notin S
                         /\ \A i \in 2 .. n : calls[i] = x => calls[i - 1] \notin S
      BY <1>1, <2>1 DEF ListsInv, Rooted
    <3>2. p_parent'[x] \notin S
      BY <1>3, <1>4, <3>1
    <3>3. ASSUME NEW i \in 2 .. n - 1, calls'[i] = x
          PROVE  calls'[i - 1] \notin S
      <4>1. i \in 2 .. n /\ i \in 1 .. n - 1 /\ i - 1 \in 1 .. n - 1
        BY <1>2
      <4> QED
        BY <1>8, <3>1, <3>3, <4>1
    <3> QED
      BY <3>2, <3>3
  <2> QED
    BY <1>8, <2>1 DEF Rooted
<1>14. Called'
  <2>1. NoRepeats(calls')
    <3>1. \A i \in 1 .. n - 1 : i \in 1 .. n
      BY <1>2
    <3> QED
      BY <1>1, <1>8, <3>1 DEF ListsInv, Called, NoRepeats
  <2>2. Members(calls') \subseteq Live'
    <3>1. ASSUME NEW i \in 1 .. n - 1
          PROVE  calls'[i] \in Live'
      <4>1. i \in 1 .. n
        BY <1>2
      <4>2. calls[i] \in Live
        BY <1>1, <4>1 DEF ListsInv, Called, Members
      <4> QED
        BY <1>6, <1>8, <4>2
    <3> QED
      BY <1>8, <3>1 DEF Members
  <2>3. ASSUME NEW i \in 2 .. n - 1
        PROVE  p_parent'[calls'[i]] = NULL
    <3>1. i \in 2 .. n /\ i \in 1 .. n - 1 /\ i \in 1 .. n
      BY <1>2
    <3>2. p_parent[calls[i]] = NULL /\ calls[i] \in Pcb
      <4>1. calls[i] \in Pcb
        BY <1>1, <1>2, <3>1
      <4> QED
        BY <1>1, <3>1, <4>1 DEF ListsInv, Called
    <3> QED
      BY <1>3, <1>4, <1>8, <3>1, <3>2
  <2>4. ASSUME version = "phase 1", calls' # <<>>
        PROVE  NotLast(calls[1])'
    <3>1. n - 1 # 0
      <4>1. \A q \in Seq(Pcb) : q # <<>> => Len(q) # 0
        OBVIOUS
      <4> QED
        BY <1>8, <2>4, <4>1
    <3>2. 1 \in 1 .. n - 1 /\ n \in 2 .. n
      BY <1>2, <3>1
    <3>3. PICK c, r : c = calls[1] /\ r = p_parent[c]
      OBVIOUS
    <3>4. calls'[1] = c /\ c # t /\ c \in Pcb
      <4>1. 1 \in 1 .. Len(calls)
        BY <1>1, <1>2
      <4> QED
        BY <1>2, <1>8, <3>2, <3>3, <4>1
    <3>5. p_parent'[c] = r /\ r \in Pcb \cup {NULL}
      BY <1>3, <1>4, <3>3, <3>4
    <3>6. NotLast(c)
      BY <1>2, <2>4, <3>3 DEF ListsInv, Called
    <3>7. CASE r = NULL
      BY <3>4, <3>5, <3>7 DEF NotLast
    <3>8. CASE r # NULL
      <4>1. p_parent[t] = NULL
        BY <1>1, <1>2, <3>2 DEF ListsInv, Called
      <4>2. t \notin Members(Children[p_children(r)])
        BY <1>2, <1>4, <3>5, <3>8, <4>1 DEF ListsInv, Family
      <4>3. Children'[p_children(r)] = Children[p_children(r)]
        BY <1>7, <3>5, <3>8, <4>2
      <4> QED
        BY <3>3, <3>4, <3>5, <3>6, <3>8, <4>3 DEF NotLast
    <3> QED
      BY <3>7, <3>8
  <2> QED
    BY <1>3, <1>8, <2>1, <2>2, <2>3, <2>4 DEF Called
<1> QED
  BY <1>1, <1>9, <1>10, <1>11, <1>12, <1>13, <1>14, <1>6 DEF Kept

\* Every step keeps the invariant.
LEMMA NextKeeps ==
    ASSUME ListsInv, [SparingNext]_vars
    PROVE  ListsInv'
<1>1. CASE SparingNext
  <2>1. Change
    BY <1>1, NextChanges
  <2>2. Kept
    BY <2>1, CreatedKeeps, BlockedKeeps, WokenKeeps, DispatchedKeeps, DescendedKeeps,
       TargetedKeeps, BuriedKeeps DEF Change
  <2>3. Linked'
    <3>1. ASSUME NEW target \in Pcb, Targeted(target)
          PROVE  Linked'
      <4>1. UNCHANGED <<p_list, p_jobs, p_siblings, s_link>>
        BY <3>1 DEF Targeted, links
      <4>2. /\ Queue' = Queue /\ Jobs' = Jobs /\ Children' = Children /\ Descriptors' = Descriptors
        BY <4>1 DEF Queue, Jobs, Children, Descriptors
      <4> QED
        BY <4>1, <4>2 DEF ListsInv, Linked
    <3> QED
      BY <2>1, <3>1 DEF Change, Created, Blocked, Woken, Dispatched, Descended, Buried
  <2> QED
    BY <2>2, <2>3 DEF Kept, ListsInv
<1>2. CASE UNCHANGED vars
  <2>1. UNCHANGED <<p_list, p_jobs, p_siblings, s_link, p_parent, p_cursem, s_semAdd,
                    process_c, current_process, calls, version>>
    BY <1>2 DEF vars, links, fields
  <2>2. /\ Queue' = Queue /\ Jobs' = Jobs /\ Children' = Children /\ Descriptors' = Descriptors
    BY <2>1 DEF Queue, Jobs, Children, Descriptors
  <2>3. Live' = Live
    BY <2>2 DEF Live
  <2>4. TypeOK' /\ Linked'
    BY <2>1, <2>2 DEF ListsInv, TypeOK, Linked
  <2>5. Placed' /\ Described'
    BY <2>1, <2>2, <2>3 DEF ListsInv, Placed, Described, Unused
  <2>6. Family' /\ Rooted' /\ Called'
    BY <2>1, <2>2, <2>3, TreeKept
  <2> QED
    BY <2>4, <2>5, <2>6 DEF ListsInv
<1> QED
  BY <1>1, <1>2

--------------------------------------------------------------------------------
(* The tables that main() makes *)

\* The elements of a finite set, one after the other.
LEMMA ListedAll ==
    ASSUME NEW S, IsFiniteSet(S)
    PROVE  /\ listed(S) \in Seq(S) /\ NoRepeats(listed(S)) /\ Members(listed(S)) = S
           /\ Len(listed(S)) = Cardinality(S) /\ Cardinality(S) \in Nat
<1>1. PICK n : n = Cardinality(S)
  OBVIOUS
<1>2. n \in Nat /\ ExistsBijection(1 .. n, S)
  BY <1>1, FS_CardinalityType
<1>3. PICK b : b \in Bijection(1 .. n, S)
  BY <1>2 DEF ExistsBijection
<1>4. b \in [1 .. n -> S] /\ \A i, j \in 1 .. n : b[i] = b[j] => i = j
  BY <1>3 DEF Bijection, Injection, IsInjective
<1>5. \A q \in [1 .. n -> S] : q \in Seq(S) /\ Len(q) = n
  BY <1>2
<1>6. NoRepeats(b)
  BY <1>4, <1>5 DEF NoRepeats
<1>7. PICK q : q = listed(S)
  OBVIOUS
<1>8. q \in [1 .. n -> S] /\ NoRepeats(q)
  <2>1. \E r \in [1 .. n -> S] : NoRepeats(r)
    BY <1>4, <1>6
  <2> QED
    BY <1>1, <1>7, <2>1 DEF listed
<1>9. q \in Seq(S) /\ Len(q) = n
  BY <1>5, <1>8
<1>10. Members(q) \in SUBSET S /\ Cardinality(Members(q)) = n
  BY <1>8, <1>9, MembersType, CountMembers
<1>11. Members(q) = S
  BY <1>1, <1>10, FS_Subset
<1> QED
  BY <1>1, <1>2, <1>7, <1>8, <1>9, <1>11

\* A memory with nothing in it.
LEMMA LayoutEmpty ==
    ASSUME NEW E, NEW K, NULL \notin E, E \cap K = {}, IsFiniteSet(E \cup K)
    PROVE  Layout([c \in E \cup K |-> NULL], E, [k \in K |-> <<>>])
<1> DEFINE m == [c \in E \cup K |-> NULL]
           Q == [k \in K |-> <<>>]
<1>1. DOMAIN m = E \cup DOMAIN Q /\ DOMAIN Q = K
  OBVIOUS
<1>2. Len(<<>>) = 0 /\ 1 .. 0 = {} /\ <<>> \in Seq(E)
  OBVIOUS
<1>3. Members(<<>>) = {} /\ NoRepeats(<<>>)
  BY <1>2 DEF Members, NoRepeats
<1>4. \A l \in K : Q[l] = <<>> /\ m[l] = NULL
  OBVIOUS
<1>5. Q \in [DOMAIN Q -> Seq(E)]
  BY <1>2
<1> HIDE DEF m, Q
<1>6. \A l \in K : NoRepeats(Q[l]) /\ Holds(m, l, Q[l])
  BY <1>2, <1>3, <1>4 DEF Holds
<1>7. \A k, l \in K : Members(Q[k]) \cap Members(Q[l]) = {}
  BY <1>3, <1>4
<1>8. Layout(m, E, Q)
  BY <1>1, <1>5, <1>6, <1>7 DEF Layout
<1> QED
  BY <1>8 DEF m, Q

\* One list in the memory, and nothing in the others.
Single(K, l, q) == [k \in K |-> IF k = l THEN q ELSE <<>>]

\* initPcbs and initASL put all there is in one list.
LEMMA FilledLayout ==
    ASSUME NEW E, NEW K, NULL \notin E, E \cap K = {}, IsFiniteSet(E \cup K),
           NEW S \in SUBSET E, NEW l \in K
    PROVE  \E q \in Seq(E) : Members(q) = S /\ Layout(filled(E \cup K, S, l), E, Single(K, l, q))
<1> DEFINE cells == E \cup K
           n == Cardinality(S)
           x == [c \in cells |-> NULL]
           m[i \in 0 .. n] == IF i = 0 THEN x ELSE clist_enqueue(m[i - 1], listed(S)[i], l)
<1>1. PICK e : e = listed(S)
  OBVIOUS
<1>2. e \in Seq(S) /\ NoRepeats(e) /\ Members(e) = S /\ Len(e) = n /\ n \in Nat
  <2>1. IsFiniteSet(S)
    BY FS_Subset
  <2> QED
    BY <1>1, <2>1, ListedAll
<1>3. \A i \in 1 .. n : e[i] \in S
  BY <1>2
<1>4. m = [i \in 0 .. n |-> IF i = 0 THEN x ELSE clist_enqueue(m[i - 1], e[i], l)]
  <2> DEFINE Mem == [cells -> E \cup {NULL}]
             g == [c \in Nat \X Mem |-> IF c[1] < n THEN clist_enqueue(c[2], e[c[1] + 1], l) ELSE c[2]]
  <2>1. ASSUME NEW c \in Mem, NEW y \in E
        PROVE  clist_enqueue(c, y, l) \in Mem
    <3>1. l \in cells /\ c[l] \in E \cup {NULL} /\ E \subseteq cells
      OBVIOUS
    <3>2. c[l] # NULL => c[l] \in cells /\ c[c[l]] \in E \cup {NULL}
      BY <3>1
    <3> HIDE DEF cells
    <3> QED
      BY <3>1, <3>2 DEF clist_enqueue, clist_empty
  <2>2. g \in [Nat \X Mem -> Mem]
    <3>1. ASSUME NEW i \in Nat, NEW c \in Mem
          PROVE  (IF i < n THEN clist_enqueue(c, e[i + 1], l) ELSE c) \in Mem
      <4>1. i < n => e[i + 1] \in E
        BY <1>2, <1>3
      <4> HIDE DEF Mem
      <4> QED
        BY <2>1, <4>1
    <3> HIDE DEF Mem
    <3> QED
      BY <3>1
  <2>3. x \in Mem
    OBVIOUS
  <2>4. PICK t : ComputedTo(t, n, Mem, x, g)
    <3> HIDE DEF Mem, g, x
    <3> QED
      BY <1>2, <2>2, <2>3, ComputedUpTo
  <2>5. ASSUME NEW i \in 0 .. n
        PROVE  t[i] = IF i = 0 THEN x ELSE clist_enqueue(t[i - 1], e[i], l)
    <3>1. CASE i = 0
      BY <2>4, <3>1 DEF ComputedTo
    <3>2. CASE i # 0
      <4>1. i - 1 \in 0 .. n - 1 /\ i - 1 \in Nat /\ i - 1 \in 0 .. n /\ i - 1 < n /\ (i - 1) + 1 = i
        BY <1>2, <3>2
      <4>2. t[i] = g[<<i - 1, t[i - 1]>>] /\ t[i - 1] \in Mem
        <5> HIDE DEF g, Mem
        <5> QED
          BY <2>4, <4>1 DEF ComputedTo
      <4>3. <<i - 1, t[i - 1]>> \in Nat \X Mem
        BY <4>1, <4>2
      <4>4. g[<<i - 1, t[i - 1]>>] = clist_enqueue(t[i - 1], e[i], l)
        <5> HIDE DEF Mem
        <5> QED
          BY <4>1, <4>3
      <4> QED
        BY <3>2, <4>2, <4>4
    <3> QED
      BY <3>1, <3>2
  <2>6. PICK u : u = [i \in 0 .. n |-> IF i = 0 THEN x ELSE clist_enqueue(u[i - 1], e[i], l)]
    <3>1. t = [i \in 0 .. n |-> IF i = 0 THEN x ELSE clist_enqueue(t[i - 1], e[i], l)]
      <4>1. t = [i \in 0 .. n |-> t[i]]
        BY <2>4 DEF ComputedTo
      <4> HIDE DEF x
      <4> QED
        BY <2>5, <4>1
    <3> QED
      BY <3>1
  <2> HIDE DEF x, n
  <2> QED
    BY <1>1, <2>6
<1>5. filled(cells, S, l) = m[n]
  BY DEF filled
<1> HIDE DEF m
<1> DEFINE ok(i) == \E q \in Seq(E) : /\ Members(q) = {e[j] : j \in 1 .. i}
                                      /\ Layout(m[i], E, Single(K, l, q))
           B == {i \in 1 .. n : ~ ok(i)}
<1>6. ok(0)
  <2>1. m[0] = x
    BY <1>2, <1>4
  <2>2. Single(K, l, <<>>) = [k \in K |-> <<>>]
    BY DEF Single
  <2>3. <<>> \in Seq(E) /\ Members(<<>>) = {e[j] : j \in 1 .. 0}
    BY DEF Members
  <2>4. Layout(x, E, [k \in K |-> <<>>])
    BY LayoutEmpty
  <2> HIDE DEF x, n
  <2>5. Layout(m[0], E, Single(K, l, <<>>))
    BY <2>1, <2>2, <2>4
  <2> QED
    BY <2>3, <2>5
<1>7. ASSUME NEW i \in 1 .. n, ok(i - 1)
      PROVE  ok(i)
  <2>1. PICK q \in Seq(E) : /\ Members(q) = {e[j] : j \in 1 .. i - 1}
                            /\ Layout(m[i - 1], E, Single(K, l, q))
    BY <1>7
  <2>2. m[i] = clist_enqueue(m[i - 1], e[i], l)
    <3>1. i \in 0 .. n /\ i # 0
      BY <1>2
    <3> QED
      BY <1>4, <3>1
  <2>3. PICK Q : Q = Single(K, l, q)
    OBVIOUS
  <2>4. DOMAIN Q = K /\ Q[l] = q /\ \A k \in K : k # l => Q[k] = <<>>
    BY <2>3 DEF Single
  <2>5. e[i] \in E /\ Unused(Q, e[i])
    <3>1. e[i] \notin Members(q)
      BY <1>2, <2>1 DEF NoRepeats
    <3>2. \A y : y \notin Members(<<>>)
      BY DEF Members
    <3> QED
      BY <1>3, <2>4, <3>1, <3>2 DEF Unused
  <2>6. Layout(m[i], E, [Q EXCEPT ![l] = Append(q, e[i])])
    <3>1. PICK a, y : a = m[i - 1] /\ y = e[i]
      OBVIOUS
    <3>2. Layout(a, E, Q) /\ l \in DOMAIN Q /\ y \in E /\ Unused(Q, y)
      BY <2>1, <2>3, <2>4, <2>5, <3>1
    <3>3. Layout(clist_enqueue(a, y, l), E, [Q EXCEPT ![l] = Append(Q[l], y)])
      BY <3>2, LayoutEnqueue
    <3> QED
      BY <2>2, <2>4, <3>1, <3>3
  <2>7. [Q EXCEPT ![l] = Append(q, e[i])] = Single(K, l, Append(q, e[i]))
    BY <2>3 DEF Single
  <2>8. /\ Append(q, e[i]) \in Seq(E)
        /\ Members(Append(q, e[i])) = Members(q) \cup {e[i]}
    BY <2>5, AppendMembers
  <2>9. {e[j] : j \in 1 .. i - 1} \cup {e[i]} = {e[j] : j \in 1 .. i}
    BY <1>2
  <2> QED
    BY <2>1, <2>6, <2>7, <2>8, <2>9
<1> HIDE DEF ok
<1>8. ok(n)
  <2>1. ASSUME B # {}
        PROVE  FALSE
    <3>1. PICK i \in B : \A h \in B : i <= h
      <4>1. B \in SUBSET (1 .. n)
        OBVIOUS
      <4> HIDE DEF B
      <4> QED
        BY <1>2, <2>1, <4>1, LeastIndex
    <3>2. i - 1 = 0 \/ (i - 1 \in 1 .. n /\ i - 1 \notin B)
      BY <1>2, <3>1
    <3> QED
      BY <1>6, <1>7, <3>1, <3>2
  <2> QED
    BY <1>2, <1>6, <2>1
<1>9. {e[j] : j \in 1 .. n} = S
  BY <1>2 DEF Members
<1> QED
  BY <1>5, <1>8, <1>9 DEF ok

\* The tables of main() are as the invariant says.
LEMMA InitInvariant ==
    ASSUME Init
    PROVE  /\ ListsInv
           /\ current_process \in Pcb /\ Live = {current_process} /\ calls = <<>>
           /\ Queue["ready_queue"] = <<>> /\ Descriptors["aslh"] = <<>>
           /\ \A p \in Pcb : Children[p_children(p)] = <<>>
<1>1. PICK init, m : init = clist_head(initPcbs, "pcbFree") /\ m = initPcbs
  OBVIOUS
<1>2. /\ p_list = removeProcQ(m, "pcbFree")
      /\ p_jobs = filled(Pcb \cup {"jobs"}, {init}, "jobs")
      /\ p_siblings = [c \in Pcb \cup {p_children(p) : p \in Pcb} |-> NULL]
      /\ s_link = filled(Semd \cup {"aslh", "semdFree"}, Semd, "semdFree")
      /\ p_parent = [p \in Pcb |-> NULL] /\ p_cursem = [p \in Pcb |-> NULL]
      /\ s_semAdd = [d \in Semd |-> 0]
      /\ process_c = 1 /\ current_process = init /\ calls = <<>>
      /\ version \in {"final", "phase 1"}
  BY <1>1 DEF Init, main, removeProcQ, initASL
<1>3. /\ NULL \notin Pcb /\ NULL \notin Semd
      /\ \A d \in Semd : d # "pcbFree" /\ d # "ready_queue"
      /\ IsFiniteSet(Pcb) /\ IsFiniteSet(Semd) /\ Pcb # {}
  BY ProcListsAssumption
<1>4. PICK K : K = {"pcbFree", "ready_queue"} \cup Semd
  OBVIOUS
<1>5. PICK q \in Seq(Pcb) : Members(q) = Pcb /\ Layout(m, Pcb, Single(K, "pcbFree", q))
  <2>1. Pcb \cup Semd \cup {"pcbFree", "ready_queue"} = Pcb \cup K
    BY <1>4
  <2>2. Pcb \cap K = {} /\ "pcbFree" \in K
    BY <1>4, ProcListsAssumption
  <2>3. IsFiniteSet(Pcb \cup K)
    <3>1. IsFiniteSet({"pcbFree"} \cup {"ready_queue"})
      BY FS_Singleton, FS_Union
    <3>2. IsFiniteSet({"pcbFree", "ready_queue"})
      <4>1. {"pcbFree"} \cup {"ready_queue"} = {"pcbFree", "ready_queue"}
        OBVIOUS
      <4> QED
        BY <3>1, <4>1
    <3> QED
      BY <1>3, <1>4, <3>2, FS_Union
  <2>4. m = filled(Pcb \cup K, Pcb, "pcbFree")
    BY <1>1, <2>1 DEF initPcbs
  <2> QED
    BY <1>3, <2>2, <2>3, <2>4, FilledLayout
<1>6. q # <<>> /\ Head(q) = init /\ init \in Pcb /\ NoRepeats(q)
      /\ Members(Tail(q)) = Pcb \ {init} /\ Tail(q) \in Seq(Pcb)
  <2>1. PICK Q : Q = Single(K, "pcbFree", q)
    OBVIOUS
  <2>2. Q["pcbFree"] = q /\ "pcbFree" \in DOMAIN Q
    BY <1>4, <2>1 DEF Single
  <2>3. q # <<>>
    BY <1>3, <1>5, MembersType
  <2>4. NoRepeats(q) /\ clist_head(m, "pcbFree") = Head(q)
    BY <1>5, <2>1, <2>2, <2>3, LayoutRead
  <2> QED
    BY <1>1, <1>5, <2>3, <2>4, HeadTailMembers
<1>7. Layout(p_list, Pcb, Single(K, "pcbFree", Tail(q)))
  <2>1. PICK Q : Q = Single(K, "pcbFree", q)
    OBVIOUS
  <2>2. /\ Layout(m, Pcb, Q) /\ Q["pcbFree"] = q /\ "pcbFree" \in DOMAIN Q /\ Q["pcbFree"] # <<>>
    BY <1>4, <1>5, <1>6, <2>1 DEF Single
  <2>3. Layout(removeProcQ(m, "pcbFree"), Pcb, [Q EXCEPT !["pcbFree"] = Tail(Q["pcbFree"])])
    BY <2>2, LayoutTake
  <2>4. [Q EXCEPT !["pcbFree"] = Tail(q)] = Single(K, "pcbFree", Tail(q))
    BY <2>1 DEF Single
  <2> QED
    BY <1>2, <2>2, <2>3, <2>4
<1>8. PICK j \in Seq(Pcb) : Members(j) = {init} /\ Layout(p_jobs, Pcb, Single({"jobs"}, "jobs", j))
  <2>1. Pcb \cap {"jobs"} = {}
    BY ProcListsAssumption
  <2>2. IsFiniteSet(Pcb \cup {"jobs"})
    BY <1>3, FS_Singleton, FS_Union
  <2>3. {init} \in SUBSET Pcb /\ "jobs" \in {"jobs"}
    BY <1>6
  <2> QED
    BY <1>2, <1>3, <2>1, <2>2, <2>3, FilledLayout
<1>9. Layout(p_siblings, Pcb, [l \in {p_children(p) : p \in Pcb} |-> <<>>])
  <2>1. PICK T : T = {p_children(p) : p \in Pcb}
    OBVIOUS
  <2>2. Pcb \cap T = {}
    BY <2>1, ProcListsAssumption
  <2>3. IsFiniteSet(T)
    <3>1. PICK f : f = [p \in Pcb |-> p_children(p)]
      OBVIOUS
    <3>2. f \in Surjection(Pcb, T)
      BY <2>1, <3>1 DEF Surjection
    <3> QED
      BY <1>3, <3>2, FS_Surjection
  <2>4. IsFiniteSet(Pcb \cup T)
    BY <1>3, <2>3, FS_Union
  <2>5. Layout([c \in Pcb \cup T |-> NULL], Pcb, [l \in T |-> <<>>])
    BY <1>3, <2>2, <2>4, LayoutEmpty
  <2> QED
    BY <1>2, <2>1, <2>5
<1>10. PICK f \in Seq(Semd) :
         Members(f) = Semd /\ Layout(s_link, Semd, Single({"aslh", "semdFree"}, "semdFree", f))
  <2>1. Semd \cap {"aslh", "semdFree"} = {}
    BY ProcListsAssumption
  <2>2. IsFiniteSet(Semd \cup {"aslh", "semdFree"})
    <3>1. IsFiniteSet({"aslh"} \cup {"semdFree"})
      BY FS_Singleton, FS_Union
    <3>2. {"aslh"} \cup {"semdFree"} = {"aslh", "semdFree"}
      OBVIOUS
    <3> QED
      BY <1>3, <3>1, <3>2, FS_Union
  <2>3. "semdFree" \in {"aslh", "semdFree"} /\ Semd \in SUBSET Semd
    OBVIOUS
  <2> QED
    BY <1>2, <1>3, <2>1, <2>2, <2>3, FilledLayout
<1>11. /\ Queue = Single(K, "pcbFree", Tail(q)) /\ Jobs = Single({"jobs"}, "jobs", j)
       /\ Children = [l \in {p_children(p) : p \in Pcb} |-> <<>>]
       /\ Descriptors = Single({"aslh", "semdFree"}, "semdFree", f)
  <2>1. ASSUME NEW t, NEW E, NEW Q, Layout(t, E, Q)
        PROVE  Q = [l \in DOMAIN Q |-> elements(t, l)]
    <3>1. \A l \in DOMAIN Q : elements(t, l) = Q[l]
      BY <2>1, LayoutRead
    <3>2. Q = [l \in DOMAIN Q |-> Q[l]]
      BY <2>1 DEF Layout
    <3> QED
      BY <3>1, <3>2
  <2>2. \A C, l, r : DOMAIN Single(C, l, r) = C
    BY DEF Single
  <2>3. Queue = Single(K, "pcbFree", Tail(q))
    BY <1>4, <1>7, <2>1, <2>2 DEF Queue
  <2>4. Jobs = Single({"jobs"}, "jobs", j)
    BY <1>8, <2>1, <2>2 DEF Jobs
  <2>5. Children = [l \in {p_children(p) : p \in Pcb} |-> <<>>]
    BY <1>9, <2>1 DEF Children
  <2>6. Descriptors = Single({"aslh", "semdFree"}, "semdFree", f)
    BY <1>10, <2>1, <2>2 DEF Descriptors
  <2> QED
    BY <2>3, <2>4, <2>5, <2>6
<1>12. Linked
  BY <1>7, <1>8, <1>9, <1>10, <1>11 DEF Linked
<1>13. /\ Queue["pcbFree"] = Tail(q) /\ DOMAIN Queue = K
       /\ \A l \in K : l # "pcbFree" => Queue[l] = <<>>
       /\ Jobs["jobs"] = j /\ \A p \in Pcb : Children[p_children(p)] = <<>>
       /\ Descriptors["semdFree"] = f /\ Descriptors["aslh"] = <<>>
  <2>1. Queue["pcbFree"] = Tail(q) /\ DOMAIN Queue = K /\ \A l \in K : l # "pcbFree" => Queue[l] = <<>>
    BY <1>4, <1>11 DEF Single
  <2>2. Jobs["jobs"] = j /\ Descriptors["semdFree"] = f /\ Descriptors["aslh"] = <<>>
    BY <1>11 DEF Single
  <2>3. \A p \in Pcb : Children[p_children(p)] = <<>>
    BY <1>11
  <2> QED
    BY <2>1, <2>2, <2>3
<1>14. Members(<<>>) = {} /\ Len(<<>>) = 0 /\ NoRepeats(<<>>) /\ 2 .. Len(<<>>) = {}
  <2>1. Len(<<>>) = 0 /\ 1 .. 0 = {} /\ 2 .. 0 = {}
    OBVIOUS
  <2> QED
    BY <2>1 DEF Members, NoRepeats
<1>15. Live = {init}
  BY <1>6, <1>13 DEF Live
<1>16. TypeOK
  <2>1. <<>> \in Seq(Pcb)
    OBVIOUS
  <2> QED
    BY <1>2, <1>6, <2>1 DEF TypeOK
<1>17. Placed
  <2>1. Cardinality({init}) = 1
    BY FS_Singleton
  <2>2. Unused(Queue, init)
    BY <1>6, <1>13, <1>14 DEF Unused
  <2>3. \A d \in Semd : Members(Queue[d]) = {}
    BY <1>3, <1>4, <1>13, <1>14
  <2> QED
    BY <1>2, <1>6, <1>8, <1>13, <1>15, <2>1, <2>2, <2>3 DEF Placed
<1>18. Described
  <2>1. Ascending(<<>>, s_semAdd)
    BY <1>14 DEF Ascending
  <2>2. \A d \in Semd : Queue[d] = <<>>
    BY <1>3, <1>4, <1>13
  <2> QED
    BY <1>10, <1>13, <1>14, <2>1, <2>2 DEF Described
<1>19. Family
  BY <1>2, <1>3, <1>13, <1>14 DEF Family
<1>20. Rooted
  <2>1. 2 .. Len(calls) = {}
    BY <1>2, <1>14, Zenon
  <2> QED
    BY <1>2, <1>3, <2>1 DEF Rooted
<1>21. Called
  <2>1. 2 .. Len(calls) = {}
    BY <1>2, <1>14, Zenon
  <2> QED
    BY <1>2, <1>14, <2>1 DEF Called
<1> QED
  <2>1. "ready_queue" \in K /\ "ready_queue" # "pcbFree"
    BY <1>4
  <2> QED
    BY <1>2, <1>6, <1>12, <1>13, <1>15, <1>16, <1>17, <1>18, <1>19, <1>20, <1>21, <2>1
    DEF ListsInv

\* The tables are always as the invariant says.
THEOREM ListsInvariant == SparingSpec => []ListsInv
<1>1. Init => ListsInv
  BY InitInvariant
<1>2. ListsInv /\ [SparingNext]_vars => ListsInv'
  BY NextKeeps
<1> QED
  BY <1>1, <1>2, PTL DEF SparingSpec

--------------------------------------------------------------------------------
(* What the invariant gives *)

\* A set whose elements are all the same one.
LEMMA AtMostOne ==
    ASSUME NEW A, \A x, y \in A : x = y
    PROVE  Cardinality(A) <= 1
<1>1. CASE A = {}
  BY <1>1, FS_EmptySet
<1>2. CASE A # {}
  <2>1. PICK x \in A : TRUE
    BY <1>2
  <2>2. A = {x}
    BY <2>1
  <2> QED
    BY <2>2, FS_Singleton
<1> QED
  BY <1>1, <1>2

\* In every state of the tables each pcb and descriptor is in the list it belongs to.
LEMMA InvariantOneList ==
    ASSUME ListsInv
    PROVE  OneList
<1>1. /\ DOMAIN Queue = {"pcbFree", "ready_queue"} \cup Semd
      /\ \A l \in DOMAIN Queue : \A p : isIn(p_list, p, l) <=> p \in Members(Queue[l])
      /\ alive = Live
  BY Tabled
<1>2. ASSUME NEW p \in Pcb
      PROVE  /\ Cardinality({q \in {"pcbFree", "ready_queue"} \cup Semd : isIn(p_list, p, q)}) <= 1
             /\ isIn(p_list, p, "pcbFree") # (p \in alive)
             /\ Cardinality({r \in Pcb : isIn(p_siblings, p, p_children(r))}) <= 1
  <2>1. PICK A : A = {q \in {"pcbFree", "ready_queue"} \cup Semd : isIn(p_list, p, q)}
    OBVIOUS
  <2>2. \A x, y \in A : x = y
    BY <1>1, <2>1, Apart
  <2>3. isIn(p_list, p, "pcbFree") # (p \in alive)
    <3>1. isIn(p_list, p, "pcbFree") <=> p \in Members(Queue["pcbFree"])
      BY <1>1
    <3>2. p \in alive <=> p \notin Members(Queue["pcbFree"])
      BY <1>1 DEF Live
    <3>3. isIn(p_list, p, "pcbFree") \in BOOLEAN
      BY DEF isIn
    <3> QED
      BY <3>1, <3>2, <3>3
  <2>4. PICK B : B = {r \in Pcb : isIn(p_siblings, p, p_children(r))}
    OBVIOUS
  <2>5. \A x, y \in B : x = y
    <3>1. ASSUME NEW r \in Pcb
          PROVE  isIn(p_siblings, p, p_children(r)) => p_parent[p] = r
      <4>1. p_children(r) \in DOMAIN Children /\ Layout(p_siblings, Pcb, Children)
        BY Tabled DEF ListsInv, Linked
      <4>2. isIn(p_siblings, p, p_children(r)) <=> p \in Members(Children[p_children(r)])
        BY <4>1, LayoutRead
      <4> QED
        BY <4>2 DEF ListsInv, Family
    <3> QED
      BY <2>4, <3>1
  <2> QED
    BY <2>1, <2>2, <2>3, <2>4, <2>5, AtMostOne
<1>3. ASSUME NEW d \in Semd
      PROVE  isIn(s_link, d, "semdFree") # isIn(s_link, d, "aslh")
  <2>1. /\ isIn(s_link, d, "semdFree") <=> d \in Members(Descriptors["semdFree"])
        /\ isIn(s_link, d, "aslh") <=> d \in Members(Descriptors["aslh"])
    <3>1. /\ "semdFree" \in DOMAIN Descriptors /\ "aslh" \in DOMAIN Descriptors
          /\ Layout(s_link, Semd, Descriptors)
      BY Tabled DEF ListsInv, Linked
    <3> QED
      BY <3>1, LayoutRead
  <2>2. d \in Members(Descriptors["semdFree"]) <=> d \notin Members(Descriptors["aslh"])
    BY Apart DEF ListsInv, Described
  <2>3. isIn(s_link, d, "semdFree") \in BOOLEAN /\ isIn(s_link, d, "aslh") \in BOOLEAN
    BY DEF isIn
  <2> QED
    BY <2>1, <2>2, <2>3
<1>4. process_c = Cardinality(alive)
  BY <1>1 DEF ListsInv, Placed
<1>5. ASSUME version = "final"
      PROVE  process_c = Len(elements(p_jobs, "jobs"))
  <2>1. "jobs" \in DOMAIN Jobs /\ Layout(p_jobs, Pcb, Jobs)
    BY Tabled DEF ListsInv, Linked
  <2>2. elements(p_jobs, "jobs") = Jobs["jobs"] /\ Jobs["jobs"] \in Seq(Pcb) /\ NoRepeats(Jobs["jobs"])
    BY <2>1, LayoutRead
  <2>3. Cardinality(Members(Jobs["jobs"])) = Len(Jobs["jobs"])
    BY <2>2, CountMembers
  <2> QED
    BY <1>5, <2>2, <2>3 DEF ListsInv, Placed
<1> QED
  BY <1>2, <1>3, <1>4, <1>5 DEF OneList

\* Every pcb and every descriptor is in exactly the lists it belongs to, and process_c counts
\* the live processes, whatever the nucleus of either version does that spares the last of
\* several children in phase 1.
THEOREM OneListAlways == SparingSpec => []OneList
<1>1. ListsInv => OneList
  BY InvariantOneList
<1> QED
  BY <1>1, ListsInvariant, PTL

\* The active semaphore list of both versions stays in ascending order, without repetitions
\* (in phase 1 as long as the last of several children is spared).
THEOREM AslSortedAlways == SparingSpec => []AslSorted
<1>1. ASSUME ListsInv
      PROVE  AslSorted
  <2>1. PICK asl : asl = elements(s_link, "aslh")
    OBVIOUS
  <2>2. asl = Descriptors["aslh"] /\ "aslh" \in DOMAIN Descriptors
    BY <2>1 DEF Descriptors
  <2>3. asl \in Seq(Semd) /\ Ascending(asl, s_semAdd)
    BY <1>1, <2>2, Apart DEF ListsInv, Described
  <2>4. DOMAIN asl = 1 .. Len(asl)
    BY <2>3
  <2>5. \A i, j \in DOMAIN asl : i < j => s_semAdd[asl[i]] < s_semAdd[asl[j]]
    BY <2>3, <2>4 DEF Ascending
  <2> QED
    BY <2>1, <2>5 DEF AslSorted
<1>2. ListsInv => AslSorted
  BY <1>1
<1> QED
  BY <1>2, ListsInvariant, PTL

--------------------------------------------------------------------------------
(* The tables implement ProcTables *)

\* The queues, as the refinement mapping names them.
Mapped ==
    /\ alive = Live
    /\ \A p \in Pcb : elements(p_siblings, p_children(p)) = Children[p_children(p)]
    /\ elements(p_list, "ready_queue") = Queue["ready_queue"]
    /\ \A s : searchAsl(s) = {d \in Members(Descriptors["aslh"]) : s_semAdd[d] = s}
    /\ \A s : searchAsl(s) = {} => blockedOn(s) = <<>>
    /\ \A s : \A d \in searchAsl(s) : blockedOn(s) = Queue[d]

\* The mapping names them so in every state.
LEMMA InvariantMapped == ListsInv => Mapped
<1> SUFFICES ASSUME ListsInv
             PROVE  Mapped
  OBVIOUS
<1>1. alive = Live /\ \A s : searchAsl(s) = {d \in Members(Descriptors["aslh"]) : s_semAdd[d] = s}
  BY Tabled
<1>2. ASSUME NEW p \in Pcb
      PROVE  elements(p_siblings, p_children(p)) = Children[p_children(p)]
  BY DEF Children
<1>3. elements(p_list, "ready_queue") = Queue["ready_queue"]
  BY DEF Queue
<1>4. ASSUME NEW s, searchAsl(s) = {}
      PROVE  blockedOn(s) = <<>>
  BY <1>4 DEF blockedOn
<1>5. ASSUME NEW s, NEW d \in searchAsl(s)
      PROVE  blockedOn(s) = Queue[d]
  <2>1. PICK e : e = CHOOSE x \in searchAsl(s) : TRUE
    OBVIOUS
  <2>2. e \in searchAsl(s)
    BY <2>1
  <2>3. e = d
    BY <2>2, OneSemd
  <2>4. blockedOn(s) = elements(p_list, d)
    BY <2>1, <2>3 DEF blockedOn
  <2>5. d \in Semd
    BY DEF searchAsl
  <2> QED
    BY <2>4, <2>5 DEF Queue
<1> QED
  BY <1>1, <1>2, <1>3, <1>4, <1>5 DEF Mapped

\* The queue of a semaphore after a step that frees only descriptors of empty queues.
LEMMA BlockedNext ==
    ASSUME ListsInv, Mapped, Mapped', s_semAdd' = s_semAdd,
           Members(Descriptors'["aslh"]) \subseteq Members(Descriptors["aslh"]),
           \A e \in Members(Descriptors["aslh"]) \ Members(Descriptors'["aslh"]) : Queue'[e] = <<>>,
           NEW s
    PROVE  /\ searchAsl(s) = {} => blockedOn(s)' = <<>>
           /\ \A e \in searchAsl(s) : blockedOn(s)' = Queue'[e]
<1>1. /\ searchAsl(s) = {d \in Members(Descriptors["aslh"]) : s_semAdd[d] = s}
      /\ searchAsl(s)' = {d \in Members(Descriptors'["aslh"]) : s_semAdd[d] = s}
      /\ searchAsl(s)' = {} => blockedOn(s)' = <<>>
      /\ \A d \in searchAsl(s)' : blockedOn(s)' = Queue'[d]
  BY DEF Mapped
<1>2. searchAsl(s) = {} => blockedOn(s)' = <<>>
  BY <1>1
<1>3. ASSUME NEW e \in searchAsl(s)
      PROVE  blockedOn(s)' = Queue'[e]
  <2>1. CASE e \in searchAsl(s)'
    BY <1>1, <2>1
  <2>2. CASE e \notin searchAsl(s)'
    <3>1. Queue'[e] = <<>>
      BY <1>1, <2>2
    <3>2. \A d \in searchAsl(s)' : d = e
      BY <1>1, OneSemd
    <3> QED
      BY <1>1, <2>2, <3>1, <3>2
  <2> QED
    BY <2>1, <2>2
<1> QED
  BY <1>2, <1>3


\* The queues of the semaphores are what they were if those of the descriptors are.
LEMMA BlockedSame ==
    ASSUME ListsInv, Mapped, Mapped', s_semAdd' = s_semAdd, Descriptors' = Descriptors,
           \A e \in Semd : Queue'[e] = Queue[e]
    PROVE  [s \in Sem |-> blockedOn(s)]' = [s \in Sem |-> blockedOn(s)]
<1>1. ASSUME NEW s \in Sem
      PROVE  blockedOn(s)' = blockedOn(s)
  <2>1. searchAsl(s) = {} => blockedOn(s)' = <<>> /\ blockedOn(s) = <<>>
    BY BlockedNext DEF Mapped
  <2>2. ASSUME NEW e \in searchAsl(s)
        PROVE  blockedOn(s)' = blockedOn(s)
    <3>1. e \in Semd
      BY DEF searchAsl
    <3>2. blockedOn(s)' = Queue'[e] /\ blockedOn(s) = Queue[e]
      BY BlockedNext DEF Mapped
    <3> QED
      BY <3>1, <3>2
  <2> QED
    BY <2>1, <2>2
<1> QED
  BY <1>1

\* The mapped tree after a step.
LEMMA ChildrenNext ==
    ASSUME ListsInv, Mapped, Mapped'
    PROVE  LET C == [p \in Pcb |-> elements(p_siblings, p_children(p))]
           IN  /\ Children' = Children => C' = C
               /\ \A r \in Pcb : \A q :
                    Children' = [Children EXCEPT ![p_children(r)] = q] => C' = [C EXCEPT ![r] = q]
               /\ \A r \in Pcb : C[r] = Children[p_children(r)]
<1> DEFINE C == [p \in Pcb |-> elements(p_siblings, p_children(p))]
<1>1. /\ \A p \in Pcb : C[p] = Children[p_children(p)]
      /\ C' = [p \in Pcb |-> Children'[p_children(p)]]
  BY DEF Mapped
<1>2. \A r \in Pcb : p_children(r) \in DOMAIN Children
  BY Tabled
<1>3. \A r, p : p_children(r) = p_children(p) => r = p
  BY DEF p_children
<1>4. Children' = Children => C' = C
  BY <1>1
<1>5. ASSUME NEW r \in Pcb, NEW q, Children' = [Children EXCEPT ![p_children(r)] = q]
      PROVE  C' = [C EXCEPT ![r] = q]
  <2>1. ASSUME NEW p \in Pcb
        PROVE  Children'[p_children(p)] = IF p = r THEN q ELSE Children[p_children(p)]
    BY <1>2, <1>3, <1>5
  <2>2. C' = [p \in Pcb |-> IF p = r THEN q ELSE C[p]]
    BY <1>1, <2>1
  <2> QED
    BY <2>2
<1> QED
  BY <1>1, <1>4, <1>5

\* The created process was not live: Create of ProcTables.
LEMMA CreatedImplements ==
    ASSUME ListsInv, Mapped, Mapped', NEW p, Created(p)
    PROVE  Tables!Create
<1> DEFINE C == [r \in Pcb |-> elements(p_siblings, p_children(r))]
<1>1. current_process # NULL /\ calls = <<>> /\ UNCHANGED <<current_process, calls>>
      /\ current_process \in Pcb /\ s_semAdd' = s_semAdd
  BY DEF Created, ListsInv, TypeOK
<1>2. p \in Pcb \ alive /\ alive' = alive \cup {p}
  <2>1. p \in Pcb /\ p \in Members(Queue["pcbFree"])
    <3>1. Queue["pcbFree"] \in Seq(Pcb) /\ Queue["pcbFree"] # <<>> /\ p = Head(Queue["pcbFree"])
      BY Tabled, Apart DEF Created
    <3> QED
      BY <3>1, HeadTailMembers
  <2>2. Live' = Live \cup {p} /\ p \notin Live
    BY <2>1, CreatedKeeps DEF Live
  <2> QED
    BY <2>1, <2>2 DEF Mapped
<1>3. C' = [C EXCEPT ![current_process] = Append(C[current_process], p)]
  <2>1. PICK q : q = Append(Children[p_children(current_process)], p)
    OBVIOUS
  <2>2. Children' = [Children EXCEPT ![p_children(current_process)] = q]
    BY <2>1 DEF Created
  <2>3. C' = [C EXCEPT ![current_process] = q]
    BY <1>1, <2>2, ChildrenNext
  <2>4. C[current_process] = Children[p_children(current_process)]
    BY <1>1, ChildrenNext
  <2> QED
    BY <2>1, <2>3, <2>4
<1>4. Queue'["ready_queue"] = Append(Queue["ready_queue"], p) /\ \A e \in Semd : Queue'[e] = Queue[e]
  BY Apart DEF Created
<1>5. elements(p_list, "ready_queue")' = Append(elements(p_list, "ready_queue"), p)
  BY <1>4 DEF Mapped
<1>6. [s \in Sem |-> blockedOn(s)]' = [s \in Sem |-> blockedOn(s)]
  BY <1>1, <1>4, BlockedSame DEF Created
<1> QED
  BY <1>1, <1>2, <1>3, <1>5, <1>6 DEF Tables!Create

\* The running process is the last in the queue of the semaphore: Block of ProcTables.
LEMMA BlockedImplements ==
    ASSUME ListsInv, Mapped, Mapped', NEW s \in Sem, NEW d, Blocked(s, d)
    PROVE  Tables!Block(s)
<1> DEFINE W == [t \in Sem |-> blockedOn(t)]
           C == [r \in Pcb |-> elements(p_siblings, p_children(r))]
<1>1. PICK cur : cur = current_process
  OBVIOUS
<1>2. /\ cur # NULL /\ calls = <<>> /\ UNCHANGED calls /\ current_process' = NULL
      /\ d \in Semd /\ Children' = Children /\ s_semAdd \in [Semd -> Nat]
      /\ Queue' = [Queue EXCEPT ![d] = Append(Queue[d], cur)]
  BY <1>1 DEF Blocked, ListsInv, TypeOK
<1>3. /\ Queue'["ready_queue"] = Queue["ready_queue"]
      /\ Queue'[d] = Append(Queue[d], cur) /\ \A e \in Semd : e # d => Queue'[e] = Queue[e]
  <2>1. d \in DOMAIN Queue /\ d # "ready_queue"
    BY <1>2, Apart
  <2> QED
    BY <1>2, <2>1
<1>4. /\ \A t : searchAsl(t) = {e \in Members(Descriptors["aslh"]) : s_semAdd[e] = t}
      /\ \A t : searchAsl(t)' = {e \in Members(Descriptors'["aslh"]) : s_semAdd'[e] = t}
  BY DEF Mapped
<1>5. /\ d \in searchAsl(s)' /\ blockedOn(s) = Queue[d]
      /\ \A t : t # s => searchAsl(t)' = searchAsl(t) /\ d \notin searchAsl(t)
  <2>1. CASE d \in searchAsl(s) /\ Descriptors' = Descriptors /\ s_semAdd' = s_semAdd
    <3>1. \A t : searchAsl(t)' = searchAsl(t)
      BY <1>4, <2>1
    <3>2. \A t : t # s => d \notin searchAsl(t)
      BY <1>4, <2>1
    <3>3. blockedOn(s) = Queue[d]
      BY <2>1 DEF Mapped
    <3> QED
      BY <2>1, <3>1, <3>2, <3>3
  <2>2. CASE /\ searchAsl(s) = {}
             /\ Descriptors["semdFree"] # <<>> /\ d = Head(Descriptors["semdFree"])
             /\ s_semAdd' = [s_semAdd EXCEPT ![d] = s]
             /\ \E k : /\ Place(Descriptors["aslh"], k, d, s_semAdd')
                       /\ Descriptors' = [Descriptors EXCEPT
                                            !["semdFree"] = Tail(Descriptors["semdFree"]),
                                            !["aslh"] = Inserted(Descriptors["aslh"], k, d)]
    <3>1. PICK asl, free : asl = Descriptors["aslh"] /\ free = Descriptors["semdFree"]
      OBVIOUS
    <3>2. /\ asl \in Seq(Semd) /\ Members(asl) \subseteq Semd /\ free \in Seq(Semd)
          /\ Members(asl) \cap Members(free) = {} /\ DOMAIN Descriptors = {"aslh", "semdFree"}
      BY <3>1, Tabled, Apart
    <3>3. d \in Members(free) /\ d \notin Members(asl)
      <4>1. free # <<>> /\ d = Head(free)
        BY <2>2, <3>1
      <4>2. d \in Members(free)
        BY <3>2, <4>1, HeadTailMembers
      <4> QED
        BY <3>2, <4>2
    <3>4. Members(Descriptors'["aslh"]) = Members(asl) \cup {d}
      <4>1. PICK k : /\ Place(asl, k, d, s_semAdd')
                     /\ Descriptors' = [Descriptors EXCEPT !["semdFree"] = Tail(free),
                                                           !["aslh"] = Inserted(asl, k, d)]
        BY <2>2, <3>1
      <4>2. Descriptors'["aslh"] = Inserted(asl, k, d)
        BY <3>2, <4>1
      <4>3. k \in 1 .. Len(asl) + 1
        BY <4>1 DEF Place
      <4> QED
        BY <1>2, <3>2, <4>2, <4>3, InsertedProperties
    <3>5. s_semAdd'[d] = s /\ \A e \in Members(asl) : s_semAdd'[e] = s_semAdd[e]
      BY <1>2, <2>2, <3>2, <3>3
    <3>6. d \in searchAsl(s)'
      BY <1>4, <3>4, <3>5
    <3>7. ASSUME NEW t, t # s
          PROVE  searchAsl(t)' = searchAsl(t) /\ d \notin searchAsl(t)
      BY <1>4, <3>1, <3>3, <3>4, <3>5, <3>7
    <3>8. blockedOn(s) = <<>> /\ Queue[d] = <<>>
      BY <2>2, <3>1, <3>3 DEF Mapped, ListsInv, Described
    <3> QED
      BY <3>6, <3>7, <3>8
  <2> QED
    BY <2>1, <2>2 DEF Blocked
<1>6. blockedOn(s)' = Append(blockedOn(s), cur)
  <2>1. blockedOn(s)' = Queue'[d]
    BY <1>5 DEF Mapped
  <2> QED
    BY <1>3, <1>5, <2>1
<1>7. ASSUME NEW t \in Sem, t # s
      PROVE  blockedOn(t)' = blockedOn(t)
  <2>1. searchAsl(t)' = searchAsl(t) /\ d \notin searchAsl(t)
    BY <1>5, <1>7
  <2>2. CASE searchAsl(t) = {}
    BY <2>1, <2>2 DEF Mapped
  <2>3. ASSUME NEW e \in searchAsl(t)
        PROVE  blockedOn(t)' = blockedOn(t)
    <3>1. e \in Semd /\ e # d
      BY <2>1 DEF searchAsl
    <3>2. blockedOn(t)' = Queue'[e] /\ blockedOn(t) = Queue[e]
      BY <2>1 DEF Mapped
    <3> QED
      BY <1>3, <3>1, <3>2
  <2> QED
    BY <2>2, <2>3
<1>8. W' = [W EXCEPT ![s] = Append(W[s], cur)]
  BY <1>6, <1>7
<1>9. alive' = alive
  BY BlockedKeeps DEF Mapped
<1>10. C' = C
  BY <1>2, ChildrenNext
<1>11. elements(p_list, "ready_queue")' = elements(p_list, "ready_queue")
  BY <1>3 DEF Mapped
<1> QED
  BY <1>1, <1>2, <1>8, <1>9, <1>10, <1>11 DEF Tables!Block

\* A descriptor that is freed has an empty queue.
LEMMA FreedImplements ==
    ASSUME ListsInv, Mapped, Mapped', s_semAdd' = s_semAdd, NEW d \in Semd, FreedIfEmpty(d),
           NEW s
    PROVE  /\ searchAsl(s) = {} => blockedOn(s)' = <<>>
           /\ \A e \in searchAsl(s) : blockedOn(s)' = Queue'[e]
<1>1. PICK asl : asl = Descriptors["aslh"]
  OBVIOUS
<1>2. asl \in Seq(Semd)
  BY <1>1, Tabled, Apart
<1>3. CASE Queue'[d] # <<>>
  <2>1. Descriptors' = Descriptors
    BY <1>3 DEF FreedIfEmpty
  <2> QED
    BY <2>1, BlockedNext
<1>4. CASE Queue'[d] = <<>>
  <2>1. Descriptors'["aslh"] = Without(asl, {d})
    BY <1>1, <1>4 DEF FreedIfEmpty
  <2>2. Members(Descriptors'["aslh"]) = Members(asl) \ {d}
    BY <1>2, <2>1, WithoutProperties
  <2>3. /\ Members(Descriptors'["aslh"]) \subseteq Members(Descriptors["aslh"])
        /\ \A e \in Members(Descriptors["aslh"]) \ Members(Descriptors'["aslh"]) : Queue'[e] = <<>>
    BY <1>1, <1>4, <2>2
  <2> QED
    BY <2>3, BlockedNext
<1> QED
  BY <1>3, <1>4

\* The first in the queue of the semaphore is the last in line: Wake of ProcTables.
LEMMA WokenImplements ==
    ASSUME ListsInv, Mapped, Mapped', NEW s \in Sem, NEW d, Woken(s, d)
    PROVE  Tables!Wake(s)
<1> DEFINE W == [t \in Sem |-> blockedOn(t)]
           C == [r \in Pcb |-> elements(p_siblings, p_children(r))]
<1>1. /\ calls = <<>> /\ d \in searchAsl(s) /\ Queue[d] # <<>> /\ d \in Semd
      /\ FreedIfEmpty(d) /\ s_semAdd' = s_semAdd /\ Children' = Children
      /\ UNCHANGED <<current_process, calls>>
  BY DEF Woken, searchAsl
<1>2. /\ Queue'["ready_queue"] = Append(Queue["ready_queue"], Head(Queue[d]))
      /\ Queue'[d] = Tail(Queue[d]) /\ \A e \in Semd : e # d => Queue'[e] = Queue[e]
  <2>1. d \in DOMAIN Queue /\ d # "ready_queue" /\ "ready_queue" \in DOMAIN Queue
        /\ \A e \in Semd : e \in DOMAIN Queue /\ e # "ready_queue"
    BY <1>1, Apart
  <2>2. PICK Q, x, y :
          Q = Queue /\ x = Tail(Queue[d]) /\ y = Append(Queue["ready_queue"], Head(Queue[d]))
    OBVIOUS
  <2>3. Queue' = [Q EXCEPT ![d] = x, !["ready_queue"] = y]
    BY <2>2 DEF Woken
  <2>4. Queue'["ready_queue"] = y /\ Queue'[d] = x /\ \A e \in Semd : e # d => Queue'[e] = Q[e]
    BY <2>1, <2>2, <2>3
  <2> QED
    BY <2>2, <2>4
<1>3. blockedOn(s) = Queue[d] /\ blockedOn(s)' = Tail(Queue[d])
  BY <1>1, <1>2, FreedImplements DEF Mapped
<1>4. ASSUME NEW t \in Sem, t # s
      PROVE  blockedOn(t)' = blockedOn(t)
  <2>1. searchAsl(t) = {} => blockedOn(t)' = <<>> /\ blockedOn(t) = <<>>
    BY <1>1, FreedImplements DEF Mapped
  <2>2. ASSUME NEW e \in searchAsl(t)
        PROVE  blockedOn(t)' = blockedOn(t)
    <3>1. e \in Semd /\ e # d
      BY <1>1, <1>4 DEF searchAsl
    <3>2. blockedOn(t)' = Queue'[e] /\ blockedOn(t) = Queue[e]
      BY <1>1, FreedImplements DEF Mapped
    <3> QED
      BY <1>2, <3>1, <3>2
  <2> QED
    BY <2>1, <2>2
<1>5. W' = [W EXCEPT ![s] = Tail(W[s])] /\ W[s] = Queue[d]
  BY <1>3, <1>4
<1>6. alive' = alive
  BY WokenKeeps DEF Mapped
<1>7. C' = C
  BY <1>1, ChildrenNext
<1>8. elements(p_list, "ready_queue")' = Append(elements(p_list, "ready_queue"), Head(W[s]))
  BY <1>2, <1>5 DEF Mapped
<1> QED
  BY <1>1, <1>5, <1>6, <1>7, <1>8 DEF Tables!Wake

\* The first in line runs: Dispatch of ProcTables.
LEMMA DispatchedImplements ==
    ASSUME ListsInv, Mapped, Mapped', NEW line, Dispatched(line)
    PROVE  Tables!Dispatch
<1> DEFINE C == [r \in Pcb |-> elements(p_siblings, p_children(r))]
<1>1. /\ calls = <<>> /\ line # <<>> /\ s_semAdd' = s_semAdd /\ Children' = Children
      /\ Descriptors' = Descriptors /\ calls' = calls /\ current_process' = Head(line)
      /\ line = IF current_process = NULL THEN Queue["ready_queue"]
                ELSE Append(Queue["ready_queue"], current_process)
      /\ Queue' = [Queue EXCEPT !["ready_queue"] = Tail(line)]
  BY DEF Dispatched, fields
<1>2. Queue'["ready_queue"] = Tail(line) /\ \A e \in Semd : Queue'[e] = Queue[e]
  BY <1>1, Apart
<1>3. /\ line = IF current_process = NULL THEN elements(p_list, "ready_queue")
                ELSE Append(elements(p_list, "ready_queue"), current_process)
      /\ elements(p_list, "ready_queue")' = Tail(line)
  BY <1>1, <1>2 DEF Mapped
<1>4. [t \in Sem |-> blockedOn(t)]' = [t \in Sem |-> blockedOn(t)]
  BY <1>1, <1>2, BlockedSame
<1>5. alive' = alive
  BY DispatchedKeeps DEF Mapped
<1>6. C' = C
  BY <1>1, ChildrenNext
<1> QED
  BY <1>1, <1>3, <1>4, <1>5, <1>6 DEF Tables!Dispatch

\* SYS2 begins with its target: Kill of ProcTables.
LEMMA TargetedImplements ==
    ASSUME ListsInv, Mapped, Mapped', NEW target \in Pcb, Targeted(target)
    PROVE  Tables!Kill(target)
<1> DEFINE C == [r \in Pcb |-> elements(p_siblings, p_children(r))]
<1>1. /\ calls = <<>> /\ current_process # NULL /\ calls' = <<target>> /\ target \in Live
      /\ UNCHANGED <<p_list, p_siblings, s_link, s_semAdd, current_process>>
  BY DEF Targeted, links, fields
<1>2. Queue' = Queue /\ Children' = Children /\ Descriptors' = Descriptors
  BY <1>1 DEF Queue, Children, Descriptors
<1>3. [t \in Sem |-> blockedOn(t)]' = [t \in Sem |-> blockedOn(t)]
  BY <1>1, <1>2, BlockedSame
<1>4. alive' = alive /\ target \in alive
  BY <1>1, TargetedKeeps DEF Mapped
<1>5. C' = C
  BY <1>2, ChildrenNext
<1>6. elements(p_list, "ready_queue")' = elements(p_list, "ready_queue")
  BY <1>2 DEF Mapped
<1> QED
  BY <1>1, <1>3, <1>4, <1>5, <1>6 DEF Tables!Kill

\* A call for the first child: Descend of ProcTables.
LEMMA DescendedImplements ==
    ASSUME ListsInv, Mapped, Mapped', NEW child, Descended(child)
    PROVE  Tables!Descend
<1> DEFINE C == [r \in Pcb |-> elements(p_siblings, p_children(r))]
<1>1. /\ calls # <<>> /\ Children[p_children(this)] # <<>>
      /\ child = Head(Children[p_children(this)])
      /\ Children' = [Children EXCEPT ![p_children(this)] = Tail(Children[p_children(this)])]
      /\ Queue' = Queue /\ Descriptors' = Descriptors /\ s_semAdd' = s_semAdd
      /\ calls' = Append(calls, child) /\ current_process' = current_process
  BY DEF Descended
<1>2. PICK t : t = this
  OBVIOUS
<1>3. t \in Pcb /\ t = calls[Len(calls)]
  BY <1>1, <1>2, ThisIsLive DEF this
<1>4. C[t] = Children[p_children(t)]
  BY <1>3, ChildrenNext
<1>5. C' = [C EXCEPT ![t] = Tail(C[t])]
  <2>1. PICK q : q = Tail(Children[p_children(t)])
    OBVIOUS
  <2>2. Children' = [Children EXCEPT ![p_children(t)] = q]
    BY <1>1, <1>2, <2>1
  <2>3. C' = [C EXCEPT ![t] = q]
    BY <1>3, <2>2, ChildrenNext
  <2> QED
    BY <1>4, <2>1, <2>3
<1>6. C[t] # <<>> /\ child = Head(C[t])
  BY <1>1, <1>2, <1>4
<1>7. [x \in Sem |-> blockedOn(x)]' = [x \in Sem |-> blockedOn(x)]
  BY <1>1, BlockedSame
<1>8. alive' = alive
  BY DescendedKeeps DEF Mapped
<1>9. elements(p_list, "ready_queue")' = elements(p_list, "ready_queue")
  BY <1>1 DEF Mapped
<1>10. Tables!last = t
  BY <1>3 DEF Tables!last
<1> HIDE DEF C
<1>11. calls' = Append(calls, Head(C[t])) /\ UNCHANGED current_process
  BY <1>1, <1>6
<1> QED
  BY <1>1, <1>5, <1>6, <1>7, <1>8, <1>9, <1>10, <1>11 DEF Tables!Descend, C

\* A process without children leaves whatever it is in: Bury of ProcTables.
LEMMA BuriedImplements ==
    ASSUME ListsInv, Mapped, Mapped', Buried
    PROVE  Tables!Bury
<1> DEFINE C == [r \in Pcb |-> elements(p_siblings, p_children(r))]
           W == [s \in Sem |-> blockedOn(s)]
<1>1. PICK t, Q : t = this /\ Q = Queue
  OBVIOUS
<1>2. /\ calls # <<>> /\ Children[p_children(t)] = <<>> /\ Children' = Less(Children, t)
      /\ Queue' = [Less(Q, t) EXCEPT !["pcbFree"] = Append(Q["pcbFree"], t)]
      /\ s_semAdd' = s_semAdd /\ p_cursem \in [Pcb -> Semd \cup {NULL}]
      /\ current_process' = IF t = current_process THEN NULL ELSE current_process
      /\ calls' = SubSeq(calls, 1, Len(calls) - 1)
      /\ \/ Descriptors' = Descriptors
         \/ p_cursem[t] # NULL /\ FreedIfEmpty(p_cursem[t])
  BY <1>1 DEF Buried, ListsInv, TypeOK
<1>3. t \in Pcb /\ t = calls[Len(calls)]
  BY <1>1, <1>2, ThisIsLive DEF this
<1>4. \A e \in DOMAIN Q : e # "pcbFree" => Queue'[e] = Without(Q[e], {t})
  BY <1>2 DEF Less
<1>5. Without(<<>>, {t}) = <<>>
  <2>1. <<>> \in Seq(Pcb) /\ Members(<<>>) \cap {t} = {}
    <3>1. Len(<<>>) = 0 /\ 1 .. 0 = {} /\ <<>> \in Seq(Pcb)
      OBVIOUS
    <3> QED
      BY <3>1 DEF Members
  <2> QED
    BY <2>1, WithoutNone
<1>6. ASSUME NEW s \in Sem
      PROVE  blockedOn(s)' = Without(blockedOn(s), {t})
  <2>1. /\ searchAsl(s) = {} => blockedOn(s)' = <<>>
        /\ \A e \in searchAsl(s) : blockedOn(s)' = Queue'[e]
    <3>1. CASE Descriptors' = Descriptors
      BY <1>2, <3>1, BlockedNext
    <3>2. CASE p_cursem[t] # NULL /\ FreedIfEmpty(p_cursem[t])
      <4>1. p_cursem[t] \in Semd
        BY <1>2, <1>3, <3>2
      <4> QED
        BY <1>2, <3>2, <4>1, FreedImplements
    <3> QED
      BY <1>2, <3>1, <3>2
  <2>2. CASE searchAsl(s) = {}
    BY <1>5, <2>1, <2>2 DEF Mapped
  <2>3. ASSUME NEW e \in searchAsl(s)
        PROVE  blockedOn(s)' = Without(blockedOn(s), {t})
    <3>1. e \in DOMAIN Q /\ e # "pcbFree"
      BY <1>1, Apart DEF searchAsl
    <3>2. blockedOn(s)' = Queue'[e] /\ blockedOn(s) = Q[e]
      BY <1>1, <2>1 DEF Mapped
    <3> QED
      BY <1>4, <3>1, <3>2
  <2> QED
    BY <2>2, <2>3
<1>7. W' = [s \in Sem |-> Without(W[s], {t})]
  BY <1>6
<1>8. C' = [p \in Pcb |-> Without(C[p], {t})]
  <2>1. ASSUME NEW p \in Pcb
        PROVE  Children'[p_children(p)] = Without(Children[p_children(p)], {t})
    <3>1. p_children(p) \in DOMAIN Children
      BY Tabled
    <3> QED
      BY <1>2, <3>1 DEF Less
  <2>2. \A p \in Pcb : C[p] = Children[p_children(p)]
    BY DEF Mapped
  <2>3. C' = [p \in Pcb |-> Children'[p_children(p)]]
    BY DEF Mapped
  <2> QED
    BY <2>1, <2>2, <2>3
<1>9. elements(p_list, "ready_queue")' = Without(elements(p_list, "ready_queue"), {t})
  <2>1. Queue'["ready_queue"] = Without(Q["ready_queue"], {t})
    BY <1>1, <1>4, Apart
  <2> QED
    BY <1>1, <2>1 DEF Mapped
<1>10. alive' = alive \ {t}
  BY <1>1, BuriedKeeps DEF Mapped
<1>11. C[t] = <<>>
  BY <1>2, <1>3 DEF Mapped
<1>12. Tables!last = t
  BY <1>3 DEF Tables!last
<1>13. \A q, S : Tables!Without(q, S) = Without(q, S)
  BY Zenon DEF Tables!Without, Without, Tables!Cardinality, Cardinality
<1>14. current_process' = IF current_process = t THEN NULL ELSE current_process
  BY <1>2
<1> QED
  BY <1>2, <1>7, <1>8, <1>9, <1>10, <1>11, <1>12, <1>13, <1>14 DEF Tables!Bury

\* Every step of the tables is one of ProcTables, or none.
LEMMA StepImplements ==
    ASSUME ListsInv, Mapped, Mapped', [SparingNext]_vars
    PROVE  [Tables!Next]_Tables!vars
<1>1. CASE SparingNext
  <2>1. Change
    BY <1>1, NextChanges
  <2>2. ASSUME NEW p, Created(p)
        PROVE  Tables!Next
    BY <2>2, CreatedImplements DEF Tables!Next
  <2>3. ASSUME NEW s \in Sem, NEW d, Blocked(s, d) \/ Woken(s, d)
        PROVE  Tables!Next
    BY <2>3, BlockedImplements, WokenImplements DEF Tables!Next
  <2>4. ASSUME NEW line, Dispatched(line)
        PROVE  Tables!Next
    BY <2>4, DispatchedImplements DEF Tables!Next
  <2>5. ASSUME NEW child, Descended(child)
        PROVE  Tables!Next
    BY <2>5, DescendedImplements DEF Tables!Next
  <2>6. ASSUME NEW target \in Pcb, Targeted(target)
        PROVE  Tables!Next
    BY <2>6, TargetedImplements DEF Tables!Next
  <2>7. CASE Buried
    BY <2>7, BuriedImplements DEF Tables!Next
  <2> QED
    BY <2>1, <2>2, <2>3, <2>4, <2>5, <2>6, <2>7 DEF Change
<1>2. CASE UNCHANGED vars
  <2>1. UNCHANGED <<p_list, p_jobs, p_siblings, s_link, s_semAdd, current_process, calls, version>>
    BY <1>2 DEF vars, links, fields
  <2>2. Queue' = Queue /\ Children' = Children /\ Descriptors' = Descriptors
    BY <2>1 DEF Queue, Children, Descriptors
  <2>3. [s \in Sem |-> blockedOn(s)]' = [s \in Sem |-> blockedOn(s)]
    BY <2>1, <2>2, BlockedSame
  <2>4. alive' = alive
    BY <2>2 DEF Mapped, Live
  <2>5. [p \in Pcb |-> elements(p_siblings, p_children(p))]'
          = [p \in Pcb |-> elements(p_siblings, p_children(p))]
    BY <2>1
  <2> QED
    BY <2>1, <2>3, <2>4, <2>5 DEF Tables!vars
<1> QED
  BY <1>1, <1>2

\* The tables main() makes have one process, which runs.
LEMMA InitImplements ==
    ASSUME Init
    PROVE  Tables!Init
<1>1. /\ ListsInv /\ Mapped
      /\ current_process \in Pcb /\ Live = {current_process} /\ calls = <<>>
      /\ Queue["ready_queue"] = <<>> /\ Descriptors["aslh"] = <<>>
      /\ \A p \in Pcb : Children[p_children(p)] = <<>>
  BY InitInvariant, InvariantMapped
<1>2. [p \in Pcb |-> elements(p_siblings, p_children(p))] = [p \in Pcb |-> <<>>]
  BY <1>1 DEF Mapped
<1>3. ASSUME NEW s \in Sem
      PROVE  blockedOn(s) = <<>>
  <2>1. Members(Descriptors["aslh"]) = {}
    <3>1. Len(<<>>) = 0 /\ 1 .. 0 = {}
      OBVIOUS
    <3> QED
      BY <1>1, <3>1 DEF Members
  <2>2. searchAsl(s) = {}
    BY <1>1, <2>1 DEF Mapped
  <2> QED
    BY <1>1, <2>2 DEF Mapped
<1>4. [s \in Sem |-> blockedOn(s)] = [s \in Sem |-> <<>>]
  BY <1>3
<1>5. alive = {current_process} /\ elements(p_list, "ready_queue") = <<>>
  BY <1>1 DEF Mapped
<1> QED
  BY <1>1, <1>2, <1>4, <1>5 DEF Tables!Init

\* The circular lists, with their tail pointers, free lists and descriptors, do what the
\* queues and the tree of ProcTables do: those of phase 1 as long as nobody kills the last
\* of several children.
THEOREM ImplementsTablesSparing == SparingSpec => ImplementsTables
<1>1. Init => Tables!Init
  BY InitImplements
<1>2. ListsInv /\ Mapped /\ Mapped' /\ [SparingNext]_vars => [Tables!Next]_Tables!vars
  BY StepImplements
<1>3. ListsInv => Mapped
  BY InvariantMapped
<1> QED
  BY <1>1, <1>2, <1>3, ListsInvariant, PTL DEF SparingSpec, ImplementsTables, Tables!Spec

\* Those of the final system do it whoever is killed: each of its behaviours is one of
\* SparingSpec, so that the theorems above hold for it without a condition.
THEOREM ImplementsTablesAlways == Spec /\ version = "final" => ImplementsTables
<1>1. version = "final" /\ [Next]_vars => (version = "final")'
  BY DEF Next, OldNext, OldCreate, OldDispatch, OldTimer, OldTerminateChild,
         OldTerminateSelf, OldBlock, OldWake, OldTerminate, Here, vars
<1>2. version = "final" /\ [Next]_vars => [SparingNext]_vars
  BY DEF Next, SparingNext, OldNext, OldCreate, OldDispatch, OldTimer, OldTerminateChild,
         OldTerminateSelf, OldBlock, OldWake, OldTerminate, Here
<1>3. Spec /\ version = "final" => SparingSpec
  BY <1>1, <1>2, PTL DEF Spec, SparingSpec
<1> QED
  BY <1>3, ImplementsTablesSparing
================================================================================
