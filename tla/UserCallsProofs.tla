---------------------------- MODULE UserCallsProofs ----------------------------
EXTENDS UserCalls, ProcQueueLemmas

(* The proofs about the device calls and the shutdown (usrcalls.c, swap.c, init.c), for  *)
(* any number of user processes.  Semaphores says how values, queues and places go       *)
(* together; there is one lemma for each thing a step can do to a semaphore.  Counts     *)
(* says what uprocess_c is worth while it is decremented without a lock.                 *)

\* p is between the P and the V of m, or waits in that P.
Uses(p, m) ==
    \/ {pc[p], caller[p]} \cap section(m) # {}
    \/ p \in UProc /\ resume[p] \in section(m)

Users(m) == {p \in Proc : Uses(p, m)}

\* Where the processes blocked on s are: each place belongs to one semaphore.
waitsAt(s) ==
    CASE s = "read_sem"       -> {"receive"}
      [] s = "write_sem"      -> {"transmit"}
      [] s = "printer_sem"    -> {"print"}
      [] s = "disk_sem"       -> {"disk"}
      [] s = "swap_semaphore" -> {"page", "clean"}
      [] s = "recv"           -> {"received"}
      [] s = "transm"         -> {"transmitted"}
      [] s = "printer"        -> {"printed"}
      [] s = "disk"           -> {"disked"}
      [] s = "tape"           -> {"block"}
      [] s = "master_sem"     -> {"halt"}

QueueOK(s) ==
    /\ sem[s] \in Int /\ queue[s] \in Seq(Proc)
    /\ NoRepeats(queue[s])
    /\ \A p \in Members(queue[s]) : pc[p] \in waitsAt(s)

\* An open mutex has no users; a closed one has as many waiters as its value says and at
\* most one other user.
MutexOK(m) ==
    /\ sem[m] <= 1
    /\ sem[m] = 1 => queue[m] = <<>> /\ Users(m) = {}
    /\ sem[m] <= 0 => sem[m] + Len(queue[m]) = 0
    /\ \A p, q \in Users(m) \ Members(queue[m]) : p = q

Semaphores ==
    /\ DOMAIN sem = Sem /\ DOMAIN queue = Sem
    /\ \A s \in Sem : QueueOK(s)
    /\ \A m \in Mutex : MutexOK(m)

\* Nobody but the processes of S moves.
OnlyMove(S) ==
    \A q \in Proc \ S :
        /\ pc'[q] = pc[q] /\ caller'[q] = caller[q]
        /\ q \in UProc => resume'[q] = resume[q]

\* No process of S begins to use m.
NoNewUser(S, m) == \A p \in S : Uses(p, m)' => Uses(p, m)

\* A P leaves the others alone.
LEMMA PElsewhere ==
    ASSUME Semaphores, NEW p \in Proc, NEW s \in Sem, P(p, s)
    PROVE  /\ DOMAIN sem' = Sem /\ DOMAIN queue' = Sem
           /\ sem'[s] = sem[s] - 1
           /\ queue'[s] = IF sem[s] > 0 THEN queue[s] ELSE Append(queue[s], p)
           /\ \A r \in Sem \ {s} : sem'[r] = sem[r] /\ queue'[r] = queue[r]
BY DEF P, Semaphores

\* So does a V.
LEMMA VElsewhere ==
    ASSUME Semaphores, NEW s \in Sem, V(s)
    PROVE  /\ DOMAIN sem' = Sem /\ DOMAIN queue' = Sem
           /\ sem'[s] = sem[s] + 1
           /\ queue'[s] = IF queue[s] = <<>> THEN queue[s] ELSE Tail(queue[s])
           /\ \A r \in Sem \ {s} : sem'[r] = sem[r] /\ queue'[r] = queue[r]
BY DEF V, Semaphores

\* A semaphore that a step leaves alone stays in order, if who moves was not blocked.
LEMMA UntouchedOK ==
    ASSUME Semaphores, NEW S \in SUBSET Proc, \A p \in S : Ready(p), OnlyMove(S),
           NEW s \in Sem, sem'[s] = sem[s], queue'[s] = queue[s]
    PROVE  /\ QueueOK(s)'
           /\ s \in Mutex /\ NoNewUser(S, s) => MutexOK(s)'
<1>1. QueueOK(s) /\ (s \in Mutex => MutexOK(s))
  BY DEF Semaphores
<1>2. \A p \in Members(queue[s]) : p \in Proc /\ p \notin S
  <2>1. Members(queue[s]) \subseteq Proc
    BY <1>1, LenProperties, ElementOfSeq DEF QueueOK, Members
  <2> QED
    BY <2>1 DEF Ready
<1>3. QueueOK(s)'
  BY <1>1, <1>2 DEF QueueOK, OnlyMove
<1>4. ASSUME s \in Mutex, NoNewUser(S, s)
      PROVE  MutexOK(s)'
  <2>1. Users(s)' \subseteq Users(s)
    BY <1>4 DEF Users, Uses, NoNewUser, OnlyMove
  <2> QED
    BY <1>1, <1>4, <2>1 DEF MutexOK
<1> QED
  BY <1>3, <1>4

\* A step without P or V, after which nobody uses a mutex who did not before.
LEMMA MoveOK ==
    ASSUME Semaphores, NEW S \in SUBSET Proc, \A p \in S : Ready(p), OnlyMove(S),
           UNCHANGED semaphores, \A m \in Mutex : NoNewUser(S, m)
    PROVE  Semaphores'
<1>1. sem' = sem /\ queue' = queue
  BY DEF semaphores
<1> QED
  BY <1>1, UntouchedOK DEF Semaphores, Sem

\* A step with the P of s by p, which did not use s.
LEMMA TakeOK ==
    ASSUME Semaphores, NEW p \in Proc, Ready(p), OnlyMove({p}), NEW s \in Sem, P(p, s),
           pc'[p] \in waitsAt(s), s \in Mutex => ~ Uses(p, s),
           \A m \in Mutex \ {s} : NoNewUser({p}, m)
    PROVE  Semaphores'
<1>1. /\ DOMAIN sem' = Sem /\ DOMAIN queue' = Sem
      /\ sem'[s] = sem[s] - 1
      /\ queue'[s] = IF sem[s] > 0 THEN queue[s] ELSE Append(queue[s], p)
      /\ \A r \in Sem \ {s} : sem'[r] = sem[r] /\ queue'[r] = queue[r]
  BY PElsewhere
<1>2. \A r \in Sem \ {s} : QueueOK(r)' /\ (r \in Mutex => MutexOK(r)')
  BY <1>1, UntouchedOK
<1>3. QueueOK(s) /\ (s \in Mutex => MutexOK(s)) /\ p \notin Members(queue[s])
  BY DEF Semaphores, Ready
<1>4. Members(queue[s]) \subseteq Proc
  BY <1>3, LenProperties, ElementOfSeq DEF QueueOK, Members
<1>5. /\ Append(queue[s], p) \in Seq(Proc)
      /\ Members(Append(queue[s], p)) = Members(queue[s]) \cup {p}
      /\ NoRepeats(Append(queue[s], p))
      /\ Len(Append(queue[s], p)) = Len(queue[s]) + 1
  BY <1>3, AppendMembers, AppendProperties DEF QueueOK
<1>6. QueueOK(s)'
  <2>1. \A q \in Members(queue'[s]) : pc'[q] \in waitsAt(s)
    BY <1>1, <1>3, <1>4, <1>5 DEF QueueOK, OnlyMove
  <2> QED
    BY <1>1, <1>3, <1>5, <2>1 DEF QueueOK
<1>7. ASSUME s \in Mutex
      PROVE  MutexOK(s)'
  <2>1. Users(s)' \subseteq Users(s) \cup {p} /\ p \notin Users(s)
    BY <1>7 DEF Users, Uses, OnlyMove
  <2>2. CASE sem[s] > 0
    <3>1. sem[s] = 1 /\ queue[s] = <<>> /\ Users(s) = {}
      BY <1>3, <1>7, <2>2 DEF MutexOK, QueueOK
    <3>2. sem'[s] = 0 /\ queue'[s] = <<>> /\ Users(s)' \subseteq {p}
      BY <1>1, <2>1, <3>1
    <3>3. sem'[s] <= 1 /\ sem'[s] # 1 /\ sem'[s] + Len(queue'[s]) = 0
      BY <3>2
    <3>4. \A q, r \in Users(s)' \ Members(queue'[s]) : q = r
      BY <3>2
    <3> QED
      BY <3>3, <3>4 DEF MutexOK
  <2>3. CASE ~ sem[s] > 0
    <3>1. /\ sem[s] <= 0 /\ sem[s] \in Int /\ sem[s] + Len(queue[s]) = 0
          /\ \A q, r \in Users(s) \ Members(queue[s]) : q = r
      BY <1>3, <1>7, <2>3 DEF MutexOK, QueueOK
    <3>2. Users(s)' \ Members(queue'[s]) \subseteq Users(s) \ Members(queue[s])
      BY <1>1, <1>5, <2>1, <2>3
    <3>3. sem'[s] + Len(queue'[s]) = 0 /\ sem'[s] <= 0 /\ sem'[s] \in Int
      BY <1>1, <1>5, <2>3, <3>1
    <3> QED
      BY <3>1, <3>2, <3>3 DEF MutexOK
  <2> QED
    BY <2>2, <2>3
<1> QED
  BY <1>1, <1>2, <1>6, <1>7 DEF Semaphores, Sem

\* What a V does to one queue.
LEMMA ReleaseOK ==
    ASSUME Semaphores, NEW S \in SUBSET Proc, \A p \in S : Ready(p), OnlyMove(S),
           NEW s \in Sem, sem'[s] = sem[s] + 1,
           queue'[s] = IF queue[s] = <<>> THEN queue[s] ELSE Tail(queue[s])
    PROVE  QueueOK(s)'
<1>1. QueueOK(s)
  BY DEF Semaphores
<1>2. \A q \in Members(queue[s]) : q \in Proc /\ q \notin S
  <2>1. Members(queue[s]) \subseteq Proc
    BY <1>1, LenProperties, ElementOfSeq DEF QueueOK, Members
  <2> QED
    BY <2>1 DEF Ready
<1>3. queue[s] # <<>> => /\ Tail(queue[s]) \in Seq(Proc)
                         /\ Members(Tail(queue[s])) \subseteq Members(queue[s])
                         /\ NoRepeats(Tail(queue[s]))
  BY <1>1, HeadTailMembers DEF QueueOK
<1> QED
  BY <1>1, <1>2, <1>3 DEF QueueOK, OnlyMove

\* A step with the V of s by p, which, if s is a mutex, uses it and stops using it.
LEMMA GiveOK ==
    ASSUME Semaphores, NEW p \in Proc, Ready(p), OnlyMove({p}), NEW s \in Sem, V(s),
           s \in Mutex => Uses(p, s) /\ ~ Uses(p, s)',
           \A m \in Mutex \ {s} : NoNewUser({p}, m)
    PROVE  Semaphores'
<1>1. /\ DOMAIN sem' = Sem /\ DOMAIN queue' = Sem
      /\ sem'[s] = sem[s] + 1
      /\ queue'[s] = IF queue[s] = <<>> THEN queue[s] ELSE Tail(queue[s])
      /\ \A r \in Sem \ {s} : sem'[r] = sem[r] /\ queue'[r] = queue[r]
  BY VElsewhere
<1>2. \A r \in Sem \ {s} : QueueOK(r)' /\ (r \in Mutex => MutexOK(r)')
  BY <1>1, UntouchedOK
<1>3. QueueOK(s)'
  BY <1>1, ReleaseOK
<1>4. ASSUME s \in Mutex
      PROVE  MutexOK(s)'
  <2>1. QueueOK(s) /\ MutexOK(s) /\ p \in Users(s) \ Members(queue[s])
    BY <1>4 DEF Semaphores, Ready, Users
  <2>2. Users(s)' \subseteq Users(s) \ {p}
    BY <1>4 DEF Users, Uses, OnlyMove
  <2>3. /\ sem[s] \in Int /\ sem[s] <= 0 /\ sem[s] + Len(queue[s]) = 0
        /\ queue[s] \in Seq(Proc) /\ NoRepeats(queue[s])
        /\ Users(s) \subseteq Members(queue[s]) \cup {p}
    BY <2>1 DEF QueueOK, MutexOK
  <2>4. CASE queue[s] = <<>>
    <3>1. Len(queue[s]) = 0 /\ Members(queue[s]) = {}
      BY <2>4 DEF Members
    <3>2. sem'[s] = 1 /\ queue'[s] = <<>> /\ Users(s)' = {}
      BY <1>1, <2>2, <2>3, <2>4, <3>1
    <3> QED
      BY <3>2 DEF MutexOK
  <2>5. CASE queue[s] # <<>>
    <3>1. /\ Len(Tail(queue[s])) = Len(queue[s]) - 1 /\ Len(queue[s]) \in Nat \ {0}
          /\ Members(queue[s]) = {Head(queue[s])} \cup Members(Tail(queue[s]))
      BY <2>3, <2>5, HeadTailMembers, HeadTailProperties, EmptySeq, LenProperties
    <3>2. sem'[s] <= 0 /\ sem'[s] \in Int /\ sem'[s] + Len(queue'[s]) = 0
      BY <1>1, <2>3, <2>5, <3>1
    <3>3. Users(s)' \ Members(queue'[s]) \subseteq {Head(queue[s])}
      BY <1>1, <2>2, <2>3, <2>5, <3>1
    <3> QED
      BY <3>2, <3>3 DEF MutexOK
  <2> QED
    BY <2>4, <2>5
<1> QED
  BY <1>1, <1>2, <1>3, <1>4 DEF Semaphores, Sem

\* An interrupt: nobody moves, and some device semaphores get a V.
LEMMA InterruptOK ==
    ASSUME Semaphores, UNCHANGED <<pc, caller, resume>>, NEW D \in SUBSET Device,
           DOMAIN sem' = Sem, DOMAIN queue' = Sem,
           \A d \in D : /\ sem'[d] = sem[d] + 1
                        /\ queue'[d] = IF queue[d] = <<>> THEN queue[d] ELSE Tail(queue[d]),
           \A s \in Sem \ D : sem'[s] = sem[s] /\ queue'[s] = queue[s]
    PROVE  Semaphores'
<1>1. OnlyMove({})
  BY DEF OnlyMove
<1>2. \A s \in Sem \ D : QueueOK(s)' /\ (s \in Mutex => MutexOK(s)')
  BY <1>1, UntouchedOK DEF NoNewUser
<1>3. \A s \in D : QueueOK(s)'
  BY <1>1, ReleaseOK DEF Sem
<1>4. D \cap Mutex = {}
  BY DEF Device, Mutex
<1> QED
  BY <1>2, <1>3, <1>4 DEF Semaphores, Sem

--------------------------------------------------------------------------------
(* Places *)

InitPlaces == {"tape", "block", "load", "master", "halt", "disk", "disked"}
UserPlaces == Places \ {"tape", "block", "load", "master", "halt"}

\* Where a process is, what it called disk_io for, and what it goes back to from a fault.
PlacesOK ==
    /\ pc \in [Proc -> Places] /\ caller \in [Proc -> {NULL, "put", "get", "paged", "load"}]
    /\ resume \in [UProc -> {NULL, "run", "copied", "stored", "loaded", "fetched", "gotten"}]
    /\ pc[InitProc] \in InitPlaces /\ caller[InitProc] \in {NULL, "load"}
    /\ \A u \in UProc : pc[u] \in UserPlaces /\ caller[u] \in {NULL, "put", "get", "paged"}
    /\ \A p \in Proc : caller[p] # NULL <=> pc[p] \in {"disk", "disked"}
    /\ \A u \in UProc : resume[u] # NULL <=> pc[u] \in {"page", "paged"} \/ caller[u] = "paged"

\* NULL is not a place, and init is not a user process.
LEMMA Distinct ==
    /\ NULL \notin Places /\ InitProc \notin UProc
    /\ InitProc \in Proc /\ UProc \subseteq Proc
BY UserCallsAssumption DEF Proc

\* p goes from one place to another and asks for no semaphore.
LEMMA StayOK ==
    ASSUME PlacesOK, Semaphores, NEW p \in Proc, Ready(p), NEW w,
           pc' = [pc EXCEPT ![p] = w], UNCHANGED <<semaphores, caller, resume>>,
           \A m \in Mutex : w \in section(m) => pc[p] \in section(m)
    PROVE  Semaphores'
<1>1. OnlyMove({p}) /\ pc'[p] = w
  BY DEF OnlyMove, PlacesOK
<1>2. \A m \in Mutex : NoNewUser({p}, m)
  BY <1>1 DEF NoNewUser, Uses
<1> QED
  BY <1>1, <1>2, MoveOK

\* p asks device d for something.
LEMMA AskOK ==
    ASSUME PlacesOK, Semaphores, NEW p \in Proc, Ready(p), NEW d \in Device, NEW w,
           Ask(p, d, w), w \in waitsAt(d),
           \A m \in Mutex : w \in section(m) => pc[p] \in section(m)
    PROVE  Semaphores'
<1>1. OnlyMove({p}) /\ pc'[p] = w /\ caller' = caller /\ resume' = resume /\ P(p, d)
  BY DEF OnlyMove, PlacesOK, Ask, Goto, IODEVOP, locals, fault
<1>2. \A m \in Mutex : NoNewUser({p}, m)
  BY <1>1 DEF NoNewUser, Uses
<1>3. d \in Sem /\ d \notin Mutex
  BY DEF Device, Mutex, Sem
<1> QED
  BY <1>1, <1>2, <1>3, TakeOK

\* Outside disk_io and the pager, a user process is where its pc says.
LEMMA NoFrames ==
    ASSUME PlacesOK, NEW u \in UProc, pc[u] \notin {"page", "paged", "disk", "disked"}
    PROVE  caller[u] = NULL /\ resume[u] = NULL
<1>1. u \in Proc
  BY Distinct
<1>2. caller[u] = NULL
  BY <1>1 DEF PlacesOK
<1>3. caller[u] # "paged"
  BY <1>2, Distinct DEF Places
<1> QED
  BY <1>2, <1>3 DEF PlacesOK

\* A call, or the end of a process, begins with the P of a mutex m.
LEMMA EnterOK ==
    ASSUME PlacesOK, Semaphores, NEW u \in UProc, Ready(u), NEW m \in Mutex, NEW w,
           P(u, m), pc' = [pc EXCEPT ![u] = w], UNCHANGED <<caller, resume>>,
           pc[u] \notin section(m) \cup {"page", "paged", "disk", "disked"},
           w \in waitsAt(m), \A o \in Mutex : w \in section(o) => o = m
    PROVE  Semaphores'
<1>1. u \in Proc /\ OnlyMove({u}) /\ pc'[u] = w
  BY Distinct DEF OnlyMove, PlacesOK
<1>2. \A o \in Mutex \ {m} : NoNewUser({u}, o)
  BY <1>1 DEF NoNewUser, Uses
<1>3. caller[u] = NULL /\ resume[u] = NULL
  BY NoFrames
<1>4. NULL \notin section(m)
  BY Distinct DEF Mutex, section, Places
<1>5. ~ Uses(u, m)
  BY <1>3, <1>4 DEF Uses
<1> QED
  BY <1>1, <1>2, <1>5, TakeOK DEF Sem

\* A call, or SYS21, gives back its mutex m.
LEMMA LeaveOK ==
    ASSUME PlacesOK, Semaphores, NEW u \in UProc, Ready(u), NEW m \in Mutex, NEW w,
           V(m), pc' = [pc EXCEPT ![u] = w], UNCHANGED <<caller, resume>>,
           pc[u] \in section(m), pc[u] \notin {"page", "paged", "disk", "disked"},
           \A o \in Mutex : w \notin section(o)
    PROVE  Semaphores'
<1>1. u \in Proc /\ OnlyMove({u}) /\ pc'[u] = w
  BY Distinct DEF OnlyMove, PlacesOK
<1>2. caller[u] = NULL /\ resume[u] = NULL
  BY NoFrames
<1>3. \A o \in Mutex : ~ Uses(u, o)'
  BY <1>1, <1>2, Distinct DEF Uses, section, Mutex, Places
<1>4. Uses(u, m)
  BY DEF Uses
<1> QED
  BY <1>1, <1>3, <1>4, GiveOK DEF NoNewUser, Sem

\* The pager is entered.
LEMMA PagerOK ==
    ASSUME PlacesOK, Semaphores, NEW u \in UProc, Ready(u), NEW next, pager(u, next),
           pc[u] \notin {"page", "paged", "clean", "disk", "disked"},
           \A m \in Mutex : next \in section(m) => pc[u] \in section(m)
    PROVE  Semaphores'
<1>1. /\ u \in Proc /\ P(u, "swap_semaphore") /\ pc'[u] = "page"
      /\ caller' = caller /\ resume'[u] = next /\ OnlyMove({u})
  BY Distinct DEF PlacesOK, pager, Goto, OnlyMove
<1>2. caller[u] = NULL /\ resume[u] = NULL
  BY NoFrames
<1>3. ~ Uses(u, "swap_semaphore")
  BY <1>2, Distinct DEF Uses, section, Places
<1>4. \A m \in Mutex \ {"swap_semaphore"} : "page" \notin section(m)
  BY DEF Mutex, section
<1>5. \A m \in Mutex \ {"swap_semaphore"} : NoNewUser({u}, m)
  BY <1>1, <1>2, <1>4, Distinct DEF NoNewUser, Uses
<1>6. "swap_semaphore" \in Sem /\ "page" \in waitsAt("swap_semaphore")
  BY DEF Sem, Mutex, waitsAt
<1> QED
  BY <1>1, <1>3, <1>5, <1>6, TakeOK

\* disk_io is entered.
LEMMA DiskIoOK ==
    ASSUME PlacesOK, Semaphores, NEW p \in Proc, Ready(p), NEW who, disk_io(p, who),
           resume' = resume, pc[p] \notin {"disk", "disked"},
           \A m \in Mutex : who \in section(m) => pc[p] \in section(m)
    PROVE  Semaphores'
<1>1. /\ P(p, "disk_sem") /\ pc'[p] = "disk" /\ caller'[p] = who /\ OnlyMove({p})
  BY DEF PlacesOK, disk_io, Goto, OnlyMove
<1>2. caller[p] = NULL /\ (p \in UProc => resume[p] \notin {"disk", "disked"})
  BY Distinct DEF PlacesOK, Places
<1>3. ~ Uses(p, "disk_sem")
  BY <1>2, Distinct DEF Uses, section, Places
<1>4. \A m \in Mutex \ {"disk_sem"} : "disk" \notin section(m)
  BY DEF Mutex, section
<1>5. \A m \in Mutex \ {"disk_sem"} : NoNewUser({p}, m)
  BY <1>1, <1>2, <1>4 DEF NoNewUser, Uses
<1>6. "disk_sem" \in Sem /\ "disk" \in waitsAt("disk_sem")
  BY DEF Sem, Mutex, waitsAt
<1> QED
  BY <1>1, <1>3, <1>5, <1>6, TakeOK

\* disk_io returns.
LEMMA DiskEndOK ==
    ASSUME PlacesOK, Semaphores, NEW p \in Proc, DiskEnd(p)
    PROVE  Semaphores'
<1>1. /\ Ready(p) /\ pc[p] = "disked" /\ V("disk_sem") /\ resume' = resume
      /\ pc'[p] = caller[p] /\ caller'[p] = NULL /\ OnlyMove({p})
  BY DEF PlacesOK, DiskEnd, At, Goto, fault, OnlyMove
<1>2. /\ caller[p] \in {"put", "get", "paged", "load"}
      /\ p \in UProc => resume[p] \notin {"disk", "disked"}
  BY <1>1, Distinct DEF PlacesOK, Places
<1>3. Uses(p, "disk_sem") /\ ~ Uses(p, "disk_sem")'
  BY <1>1, <1>2, Distinct DEF Uses, section, Places
<1>4. \A m \in Mutex : NULL \notin section(m)
  BY Distinct DEF Mutex, section, Places
<1>5. \A m \in Mutex : NoNewUser({p}, m) \/ m = "disk_sem"
  BY <1>1, <1>4 DEF NoNewUser, Uses
<1> QED
  BY <1>1, <1>3, <1>5, GiveOK DEF Sem, Mutex

--------------------------------------------------------------------------------
(* The count of user processes *)

\* The user processes that have not decremented uprocess_c, and those of them that run.
Left == {u \in UProc : pc[u] \notin {"test", "end", "dead"}}
Pending == {u \in UProc : pc[u] \notin {"unborn", "test", "end", "dead"}}
Born == {u \in UProc : pc[u] # "unborn"}

Counted == pc[InitProc] \in {"master", "halt"}

\* What the count is at least, once it is assigned or somebody has decremented it below 0.
Owed == IF Counted THEN Cardinality(Pending) ELSE Cardinality(Left) + 1

Counts ==
    /\ processes = Cardinality(Born)
    /\ uprocess_c >= Owed \/ (uprocess_c = 0 /\ ~ Counted /\ Left = UProc)
    /\ \A u \in UProc : pc[u] = "store" => seen[u] = 0 \/ seen[u] >= Owed

\* Who may go past the wait for all of them, and when.
Awaits ==
    /\ sem["master_sem"] > 0 => Counted /\ Pending = {}
    /\ pc[InitProc] = "halt" => InitProc \in Members(queue["master_sem"]) \/ Pending = {}
    /\ cpu = "halted" => Pending = {}


--------------------------------------------------------------------------------
(* Places change as the calls do *)

\* p moves, and stays inside or outside disk_io and the pager.
LEMMA PlacesStay ==
    ASSUME PlacesOK, NEW p \in Proc, NEW w \in IF p = InitProc THEN InitPlaces ELSE UserPlaces,
           pc' = [pc EXCEPT ![p] = w], UNCHANGED <<caller, resume>>,
           w \in {"disk", "disked"} <=> pc[p] \in {"disk", "disked"},
           w \in {"page", "paged"} <=> pc[p] \in {"page", "paged"}
    PROVE  PlacesOK'
<1>1. w \in Places /\ pc' \in [Proc -> Places]
  BY DEF PlacesOK, InitPlaces, UserPlaces, Places
<1>2. pc'[p] = w /\ \A q \in Proc \ {p} : pc'[q] = pc[q]
  BY DEF PlacesOK
<1> QED
  BY <1>1, <1>2, Distinct DEF PlacesOK

\* The pager is entered.
LEMMA PlacesPager ==
    ASSUME PlacesOK, NEW u \in UProc, NEW next, pager(u, next),
           next \in {"run", "copied", "stored", "loaded", "fetched", "gotten"},
           pc[u] \notin {"page", "paged", "disk", "disked"}
    PROVE  PlacesOK'
<1>1. /\ pc' = [pc EXCEPT ![u] = "page"] /\ caller' = caller
      /\ resume' = [resume EXCEPT ![u] = next] /\ next # NULL
  BY Distinct DEF pager, Goto, Places
<1>2. caller[u] = NULL
  BY NoFrames
<1>3. /\ pc'[u] = "page" /\ \A q \in Proc \ {u} : pc'[q] = pc[q]
      /\ resume'[u] = next /\ \A q \in UProc \ {u} : resume'[q] = resume[q]
  BY <1>1, Distinct DEF PlacesOK
<1>4. /\ pc' \in [Proc -> Places]
      /\ resume' \in [UProc -> {NULL, "run", "copied", "stored", "loaded", "fetched", "gotten"}]
  BY <1>1 DEF PlacesOK, Places
<1>5. \A v \in UProc : pc'[v] \in UserPlaces
  BY <1>3, Distinct DEF PlacesOK, UserPlaces, Places
<1> QED
  BY <1>1, <1>2, <1>3, <1>4, <1>5, Distinct DEF PlacesOK

\* disk_io is entered.
LEMMA PlacesDiskIo ==
    ASSUME PlacesOK, NEW p \in Proc, NEW who, disk_io(p, who), resume' = resume,
           pc[p] \notin {"disk", "disked"}, pc[p] # "paged",
           IF p = InitProc THEN who = "load"
           ELSE IF pc[p] = "page" THEN who = "paged" ELSE who \in {"put", "get"}
    PROVE  PlacesOK'
<1>1. /\ pc' = [pc EXCEPT ![p] = "disk"] /\ caller' = [caller EXCEPT ![p] = who]
      /\ who # NULL /\ who \in {"put", "get", "paged", "load"}
  BY Distinct DEF disk_io, Goto, Places
<1>2. /\ pc'[p] = "disk" /\ \A q \in Proc \ {p} : pc'[q] = pc[q]
      /\ caller'[p] = who /\ \A q \in Proc \ {p} : caller'[q] = caller[q]
  BY <1>1 DEF PlacesOK
<1>3. pc' \in [Proc -> Places] /\ caller' \in [Proc -> {NULL, "put", "get", "paged", "load"}]
  BY <1>1 DEF PlacesOK, Places
<1>4. caller[p] = NULL /\ (p \in UProc => (resume[p] # NULL <=> pc[p] = "page"))
  BY Distinct DEF PlacesOK, Places
<1>5. /\ \A v \in UProc : pc'[v] \in UserPlaces /\ caller'[v] \in {NULL, "put", "get", "paged"}
      /\ pc'[InitProc] \in InitPlaces /\ caller'[InitProc] \in {NULL, "load"}
  BY <1>1, <1>2, Distinct DEF PlacesOK, UserPlaces, Places, InitPlaces
<1>6. \A v \in UProc : resume'[v] # NULL <=> pc'[v] \in {"page", "paged"} \/ caller'[v] = "paged"
  BY <1>1, <1>2, <1>4, Distinct DEF PlacesOK
<1> QED
  BY <1>1, <1>2, <1>3, <1>5, <1>6, Distinct DEF PlacesOK

\* disk_io returns.
LEMMA PlacesDiskEnd ==
    ASSUME PlacesOK, NEW p \in Proc, DiskEnd(p)
    PROVE  PlacesOK'
<1>1. /\ pc' = [pc EXCEPT ![p] = caller[p]] /\ caller' = [caller EXCEPT ![p] = NULL]
      /\ resume' = resume /\ pc[p] = "disked"
  BY DEF DiskEnd, Goto, At, fault
<1>2. /\ pc'[p] = caller[p] /\ \A q \in Proc \ {p} : pc'[q] = pc[q]
      /\ caller'[p] = NULL /\ \A q \in Proc \ {p} : caller'[q] = caller[q]
  BY <1>1 DEF PlacesOK
<1>3. /\ caller[p] \in {"put", "get", "paged", "load"}
      /\ p = InitProc => caller[p] = "load"
      /\ p # InitProc => caller[p] # "load"
  BY <1>1, Distinct DEF PlacesOK, Proc
<1>4. pc' \in [Proc -> Places] /\ caller' \in [Proc -> {NULL, "put", "get", "paged", "load"}]
  BY <1>1, <1>3 DEF PlacesOK, Places
<1>5. /\ \A v \in UProc : pc'[v] \in UserPlaces /\ caller'[v] \in {NULL, "put", "get", "paged"}
      /\ pc'[InitProc] \in InitPlaces /\ caller'[InitProc] \in {NULL, "load"}
  BY <1>2, <1>3, Distinct DEF PlacesOK, UserPlaces, Places, InitPlaces
<1>6. \A v \in UProc : resume'[v] # NULL <=> pc'[v] \in {"page", "paged"} \/ caller'[v] = "paged"
  BY <1>1, <1>2, <1>3, Distinct DEF PlacesOK, Places
<1>7. \A q \in Proc : caller'[q] # NULL <=> pc'[q] \in {"disk", "disked"}
  BY <1>2, <1>3 DEF PlacesOK
<1> QED
  BY <1>1, <1>4, <1>5, <1>6, <1>7 DEF PlacesOK


\* Every step keeps the places in order.
LEMMA PlacesNext ==
    ASSUME PlacesOK, Semaphores, [Next]_vars
    PROVE  PlacesOK'
<1>1. CASE UNCHANGED vars
  BY <1>1, Distinct DEF PlacesOK, vars, locals, fault
<1>2. ASSUME NEW u \in UProc, Call(u)
      PROVE  PlacesOK'
  <2>0. u \in Proc /\ u # InitProc
    BY Distinct
  <2>1. CASE \/ READTERMINAL(u) \/ WRITETERMINAL(u) \/ WRITEPRINTER(u) \/ TERMINATE(u)
             \/ DISKPUT(u) \/ EndInCall(u)
    <3>1. PICK w \in {"receive", "transmit", "print", "clean", "copied"} :
              /\ pc' = [pc EXCEPT ![u] = w] /\ caller' = caller /\ resume' = resume
              /\ pc[u] \in {"run", "received", "transmit", "print", "get"}
      BY <2>1 DEF READTERMINAL, WRITETERMINAL, WRITEPRINTER, TERMINATE, DISKPUT, EndInCall,
                  BeginCall, Accesses, Access, At, Goto, locals, fault
    <3>2. w \in UserPlaces
      BY DEF UserPlaces, Places
    <3> QED
      BY <2>0, <3>1, <3>2, PlacesStay
  <2>2. CASE DISKGET(u)
    BY <2>0, <2>2, PlacesDiskIo DEF DISKGET, At, fault
  <2>3. CASE PageFault(u) \/ FaultInPut(u)
    BY <2>3, PlacesPager DEF PageFault, FaultInPut, At
  <2>4. CASE FaultInCall(u)
    BY <2>4, PlacesPager DEF FaultInCall, Accesses, Access, At
  <2> QED
    BY <1>2, <2>1, <2>2, <2>3, <2>4 DEF Call
<1>3. ASSUME NEW u \in UProc, Step(u)
      PROVE  PlacesOK'
  <2>0. u \in Proc /\ u # InitProc
    BY Distinct
  <2>1. CASE \/ Receive(u) \/ Received(u) \/ Transmit(u) \/ Transmitted(u) \/ PrintCharacter(u)
             \/ Printed(u) \/ DiskReturn(u)
    <3>1. PICK w \in {"received", "transmitted", "printed", "transmit", "run"} :
              /\ pc' = [pc EXCEPT ![u] = w] /\ caller' = caller /\ resume' = resume
              /\ pc[u] \in {"receive", "received", "stored", "transmit", "loaded", "transmitted",
                            "print", "fetched", "printed", "put", "get", "gotten"}
      BY <2>1 DEF Receive, Received, Transmit, Transmitted, PrintCharacter, Printed, DiskReturn,
                  Ask, ReturnReleasing, ReturnKeeping, Forget, At, Goto, locals, fault
    <3>2. w \in UserPlaces
      BY DEF UserPlaces, Places
    <3> QED
      BY <2>0, <3>1, <3>2, PlacesStay
  <2>2. CASE Clean(u) \/ LoadCount(u) \/ StoreCount(u) \/ TestCount(u) \/ End(u)
    <3>1. PICK w \in {"count", "store", "test", "end", "dead"} :
              /\ pc' = [pc EXCEPT ![u] = w] /\ caller' = caller /\ resume' = resume
              /\ pc[u] \in {"clean", "count", "store", "test", "end"}
      BY <2>2 DEF Clean, LoadCount, StoreCount, TestCount, End, At, Goto, locals, fault
    <3>2. w \in UserPlaces
      BY DEF UserPlaces, Places
    <3> QED
      BY <2>0, <3>1, <3>2, PlacesStay
  <2>3. CASE DiskPutIO(u)
    BY <2>0, <2>3, PlacesDiskIo DEF DiskPutIO, At, fault
  <2>4. CASE DiskStart(u) \/ Paged(u)
    <3>1. PICK w \in {"disked", "page"} :
              /\ pc' = [pc EXCEPT ![u] = w] /\ caller' = caller /\ resume' = resume
              /\ pc[u] = IF w = "page" THEN "paged" ELSE "disk"
      BY <2>4 DEF DiskStart, Paged, Ask, At, Goto, locals, fault
    <3>2. w \in UserPlaces
      BY DEF UserPlaces, Places
    <3> QED
      BY <2>0, <3>1, <3>2, PlacesStay
  <2>5. CASE DiskEnd(u)
    BY <2>0, <2>5, PlacesDiskEnd
  <2>6. CASE Page(u) /\ transfers[u] > 0
    BY <2>0, <2>6, PlacesDiskIo DEF Page, At
  <2>7. CASE Page(u) /\ ~ transfers[u] > 0
    <3>1. /\ pc' = [pc EXCEPT ![u] = resume[u]] /\ caller' = caller
          /\ resume' = [resume EXCEPT ![u] = NULL] /\ pc[u] = "page"
      BY <2>7 DEF Page, At, Goto
    <3>2. caller[u] = NULL /\ resume[u] \in {"run", "copied", "stored", "loaded", "fetched", "gotten"}
      BY <2>0, <3>1 DEF PlacesOK
    <3>3. /\ pc'[u] = resume[u] /\ \A q \in Proc \ {u} : pc'[q] = pc[q]
          /\ resume'[u] = NULL /\ \A q \in UProc \ {u} : resume'[q] = resume[q]
      BY <2>0, <3>1 DEF PlacesOK
    <3>4. /\ pc' \in [Proc -> Places]
          /\ resume' \in [UProc -> {NULL, "run", "copied", "stored", "loaded", "fetched", "gotten"}]
      BY <3>1, <3>2 DEF PlacesOK, Places
    <3>5. \A v \in UProc : pc'[v] \in UserPlaces
      BY <3>2, <3>3, Distinct DEF PlacesOK, UserPlaces, Places
    <3>6. caller[u] # "paged"
      BY <3>2, Distinct DEF Places
    <3> QED
      BY <2>0, <3>1, <3>2, <3>3, <3>4, <3>5, <3>6, Distinct DEF PlacesOK
  <2>8. CASE DiskFailed(u) \/ WrongCharacter(u)
    BY <2>8, Distinct DEF PlacesOK, DiskFailed, WrongCharacter, fatal, locals, fault
  <2> QED
    BY <1>3, <2>1, <2>2, <2>3, <2>4, <2>5, <2>6, <2>7, <2>8 DEF Step
<1>4. CASE InitStep
  <2>1. CASE Tape \/ NextBlock \/ Count \/ WaitForAll \/ DiskStart(InitProc)
    <3>1. PICK w \in {"block", "master", "halt", "disked"} :
              /\ pc' = [pc EXCEPT ![InitProc] = w] /\ caller' = caller /\ resume' = resume
              /\ IF w = "disked" THEN pc[InitProc] = "disk"
                 ELSE pc[InitProc] \in {"tape", "load", "block", "master"}
      BY <2>1 DEF Tape, NextBlock, Count, WaitForAll, DiskStart, Ask, At, Goto, locals, fault
    <3>2. w \in InitPlaces
      BY DEF InitPlaces
    <3> QED
      BY <3>1, <3>2, PlacesStay, Distinct
  <2>2. CASE Block
    BY <2>2, PlacesDiskIo, Distinct DEF Block, At, fault
  <2>3. CASE DiskEnd(InitProc)
    BY <2>3, PlacesDiskEnd, Distinct
  <2>4. ASSUME NEW u \in UProc, CreateUProc(u)
        PROVE  PlacesOK'
    <3>1. /\ pc' = [pc EXCEPT ![InitProc] = "tape", ![u] = "run"] /\ caller' = caller
          /\ resume' = resume /\ pc[u] = "unborn" /\ pc[InitProc] = "load"
      BY <2>4 DEF CreateUProc, At, fault
    <3>2. /\ pc'[InitProc] = "tape" /\ pc'[u] = "run"
          /\ \A q \in Proc \ {u, InitProc} : pc'[q] = pc[q]
          /\ pc' \in [Proc -> Places]
      BY <3>1, Distinct DEF PlacesOK, Places
    <3>3. "tape" \in InitPlaces /\ "run" \in UserPlaces
      BY DEF InitPlaces, UserPlaces, Places
    <3> QED
      BY <3>1, <3>2, <3>3, Distinct DEF PlacesOK
  <2>5. CASE DiskFailed(InitProc) \/ Halt
    BY <2>5, Distinct DEF PlacesOK, DiskFailed, Halt, fatal, locals, fault
  <2> QED
    BY <1>4, <2>1, <2>2, <2>3, <2>4, <2>5 DEF InitStep
<1>5. CASE Devices
  BY <1>5, Distinct DEF PlacesOK, Devices, DiskInterrupt, Interrupt, TerminalInterrupt, fatal,
                        locals, fault
<1> QED
  BY <1>1, <1>2, <1>3, <1>4, <1>5 DEF Next

--------------------------------------------------------------------------------
(* Semaphores, queues and places stay together *)

\* A step that touches none of them.
LEMMA IdleOK ==
    ASSUME Semaphores, UNCHANGED <<semaphores, pc, caller, resume>>
    PROVE  Semaphores'
<1>1. \A s \in Sem : QueueOK(s)'
  BY DEF Semaphores, QueueOK, semaphores
<1>2. \A m \in Mutex : MutexOK(m)'
  BY DEF Semaphores, MutexOK, Users, Uses, semaphores
<1> QED
  BY <1>1, <1>2 DEF Semaphores, semaphores

\* A call begins.
LEMMA SemaphoresCall ==
    ASSUME PlacesOK, Semaphores, NEW u \in UProc, Call(u)
    PROVE  Semaphores'
<1>1. CASE READTERMINAL(u)
  <2>1. /\ BeginCall(u, "read_sem", "receive", 0) /\ "read_sem" \in Mutex
        /\ "receive" \in waitsAt("read_sem") /\ "run" \notin section("read_sem")
        /\ \A o \in Mutex : "receive" \in section(o) => o = "read_sem"
    BY <1>1 DEF READTERMINAL, Mutex, waitsAt, section
  <2> QED
    BY <2>1, EnterOK DEF BeginCall, At, Goto, fault
<1>2. CASE WRITETERMINAL(u)
  <2>1. PICK n \in 0 .. MaxLen : BeginCall(u, "write_sem", "transmit", n)
    BY <1>2 DEF WRITETERMINAL
  <2>2. /\ "write_sem" \in Mutex
        /\ "transmit" \in waitsAt("write_sem") /\ "run" \notin section("write_sem")
        /\ \A o \in Mutex : "transmit" \in section(o) => o = "write_sem"
    BY DEF Mutex, waitsAt, section
  <2> QED
    BY <2>1, <2>2, EnterOK DEF BeginCall, At, Goto, fault
<1>3. CASE WRITEPRINTER(u)
  <2>1. PICK n \in 0 .. MaxLen : BeginCall(u, "printer_sem", "print", n)
    BY <1>3 DEF WRITEPRINTER
  <2>2. /\ "printer_sem" \in Mutex
        /\ "print" \in waitsAt("printer_sem") /\ "run" \notin section("printer_sem")
        /\ \A o \in Mutex : "print" \in section(o) => o = "printer_sem"
    BY DEF Mutex, waitsAt, section
  <2> QED
    BY <2>1, <2>2, EnterOK DEF BeginCall, At, Goto, fault
<1>4. CASE TERMINATE(u) \/ EndInCall(u)
  <2>1. /\ Ready(u) /\ P(u, "swap_semaphore") /\ pc' = [pc EXCEPT ![u] = "clean"]
        /\ UNCHANGED <<caller, resume>>
        /\ pc[u] \in {"run", "received", "transmit", "print", "get"}
    BY <1>4 DEF TERMINATE, EndInCall, BeginCall, Accesses, Access, At, Goto, fault
  <2>2. /\ "swap_semaphore" \in Mutex
        /\ "clean" \in waitsAt("swap_semaphore") /\ pc[u] \notin section("swap_semaphore")
        /\ \A o \in Mutex : "clean" \in section(o) => o = "swap_semaphore"
    BY <2>1 DEF Mutex, waitsAt, section
  <2> QED
    BY <2>1, <2>2, EnterOK
<1>5. CASE DISKPUT(u)
  <2>1. /\ u \in Proc /\ Ready(u) /\ pc' = [pc EXCEPT ![u] = "copied"]
        /\ UNCHANGED <<semaphores, caller, resume>>
    BY <1>5, Distinct DEF DISKPUT, At, Goto, locals, fault
  <2>2. \A m \in Mutex : "copied" \notin section(m)
    BY DEF Mutex, section
  <2> QED
    BY <2>1, <2>2, StayOK
<1>6. CASE DISKGET(u)
  <2>1. u \in Proc /\ Ready(u) /\ pc[u] = "run" /\ disk_io(u, "get") /\ resume' = resume
    BY <1>6, Distinct DEF DISKGET, At, fault
  <2>2. \A m \in Mutex : "get" \notin section(m)
    BY DEF Mutex, section
  <2> QED
    BY <2>1, <2>2, DiskIoOK
<1>7. CASE PageFault(u) \/ FaultInPut(u) \/ FaultInCall(u)
  <2>1. PICK next \in {"run", "copied", "stored", "loaded", "fetched", "gotten"} :
            /\ Ready(u) /\ pager(u, next)
            /\ <<pc[u], next>> \in Access \cup {<<"run", "run">>, <<"run", "copied">>}
    <3>1. CASE PageFault(u)
      BY <3>1 DEF PageFault, At
    <3>2. CASE FaultInPut(u)
      BY <3>2 DEF FaultInPut, At
    <3>3. CASE FaultInCall(u)
      <4>1. PICK a \in Access : Accesses(u, a) /\ pager(u, a[2])
        BY <3>3 DEF FaultInCall
      <4>2. a = <<pc[u], a[2]>> /\ a[2] \in {"stored", "loaded", "fetched", "gotten"} /\ Ready(u)
        BY <4>1 DEF Accesses, Access, At
      <4> QED
        BY <4>1, <4>2
    <3> QED
      BY <1>7, <3>1, <3>2, <3>3
  <2>2. \A m \in Mutex : next \in section(m) => pc[u] \in section(m)
    BY <2>1 DEF Mutex, section, Access
  <2>3. pc[u] \notin {"page", "paged", "clean", "disk", "disked"}
    BY <2>1 DEF Access
  <2> QED
    BY <2>1, <2>2, <2>3, PagerOK
<1> QED
  BY <1>1, <1>2, <1>3, <1>4, <1>5, <1>6, <1>7 DEF Call

\* A user process goes on with a call.
LEMMA SemaphoresStep ==
    ASSUME PlacesOK, Semaphores, NEW u \in UProc, Step(u)
    PROVE  Semaphores'
<1>0. u \in Proc
  BY Distinct
<1>1. ASSUME NEW d \in Device, NEW w, Ask(u, d, w), Ready(u),
             <<pc[u], d, w>> \in {<<"receive", "recv", "received">>, <<"received", "recv", "received">>,
                                 <<"stored", "recv", "received">>,
                                 <<"transmit", "transm", "transmitted">>,
                                 <<"loaded", "transm", "transmitted">>,
                                 <<"print", "printer", "printed">>,
                                 <<"fetched", "printer", "printed">>,
                                 <<"disk", "disk", "disked">>}
      PROVE  Semaphores'
  <2>1. w \in waitsAt(d) /\ \A m \in Mutex : w \in section(m) => pc[u] \in section(m)
    BY <1>1 DEF Mutex, section, waitsAt
  <2> QED
    BY <1>0, <1>1, <2>1, AskOK
<1>2. ASSUME NEW w \in {"run", "transmit", "store", "test", "end", "dead", "page"}, Ready(u),
             pc' = [pc EXCEPT ![u] = w], UNCHANGED <<semaphores, caller, resume>>,
             w = "transmit" => pc[u] = "transmitted", w = "page" => pc[u] = "paged"
      PROVE  Semaphores'
  <2>1. \A m \in Mutex : w \in section(m) => pc[u] \in section(m)
    BY <1>2 DEF Mutex, section
  <2> QED
    BY <1>0, <1>2, <2>1, StayOK
<1>3. ASSUME NEW m \in Mutex, NEW w \in {"run", "count"}, Ready(u), V(m),
             pc' = [pc EXCEPT ![u] = w], UNCHANGED <<caller, resume>>,
             <<pc[u], m>> \in {<<"received", "read_sem">>, <<"stored", "read_sem">>,
                              <<"transmit", "write_sem">>, <<"loaded", "write_sem">>,
                              <<"clean", "swap_semaphore">>}
      PROVE  Semaphores'
  <2>1. /\ pc[u] \in section(m) /\ pc[u] \notin {"page", "paged", "disk", "disked"}
        /\ \A o \in Mutex : w \notin section(o)
    BY <1>3 DEF Mutex, section
  <2> QED
    BY <1>3, <2>1, LeaveOK
<1>4. CASE Receive(u)
  BY <1>1, <1>4 DEF Receive, At, Device
<1>5. CASE Received(u)
  BY <1>1, <1>3, <1>5 DEF Received, At, Device, Mutex, ReturnReleasing, Forget, Goto, fault
<1>6. CASE Transmit(u)
  BY <1>1, <1>3, <1>6 DEF Transmit, At, Device, Mutex, ReturnReleasing, Forget, Goto, fault
<1>7. CASE PrintCharacter(u)
  BY <1>1, <1>2, <1>7 DEF PrintCharacter, At, Device, ReturnKeeping, Forget, Goto, fault
<1>8. CASE Transmitted(u) \/ Printed(u) \/ DiskReturn(u)
  BY <1>2, <1>8 DEF Transmitted, Printed, DiskReturn, At, ReturnKeeping, Forget, Goto, fault
<1>9. CASE LoadCount(u) \/ StoreCount(u) \/ End(u)
  BY <1>2, <1>9 DEF LoadCount, StoreCount, End, At, Goto, locals, fault
<1>10. CASE Clean(u)
  BY <1>3, <1>10 DEF Clean, At, Goto, Mutex, locals, fault
<1>11. CASE TestCount(u)
  <2>1. CASE uprocess_c = 0
    <3>1. /\ Ready(u) /\ V("master_sem") /\ pc' = [pc EXCEPT ![u] = "end"]
          /\ caller' = caller /\ resume' = resume
      BY <1>11, <2>1 DEF TestCount, At, Goto, locals, fault
    <3>2. OnlyMove({u}) /\ pc'[u] = "end"
      BY <1>0, <3>1 DEF OnlyMove, PlacesOK
    <3>3. \A m \in Mutex : NoNewUser({u}, m)
      BY <3>1, <3>2 DEF NoNewUser, Uses, Mutex, section
    <3> QED
      BY <1>0, <3>1, <3>2, <3>3, GiveOK DEF Sem, Mutex
  <2>2. CASE uprocess_c # 0
    BY <1>2, <1>11, <2>2 DEF TestCount, At, Goto, locals, fault
  <2> QED
    BY <2>1, <2>2
<1>12. CASE DiskPutIO(u)
  <2>1. Ready(u) /\ pc[u] = "copied" /\ disk_io(u, "put") /\ resume' = resume
    BY <1>12 DEF DiskPutIO, At, fault
  <2>2. \A m \in Mutex : "put" \notin section(m)
    BY DEF Mutex, section
  <2> QED
    BY <1>0, <2>1, <2>2, DiskIoOK
<1>13. CASE DiskStart(u)
  BY <1>1, <1>13 DEF DiskStart, At, Device
<1>14. CASE DiskEnd(u)
  BY <1>0, <1>14, DiskEndOK
<1>15. CASE Page(u) /\ transfers[u] > 0
  <2>1. Ready(u) /\ pc[u] = "page" /\ disk_io(u, "paged") /\ resume' = resume
    BY <1>15 DEF Page, At
  <2>2. \A m \in Mutex : "paged" \in section(m) => "page" \in section(m)
    BY DEF Mutex, section
  <2> QED
    BY <1>0, <2>1, <2>2, DiskIoOK
<1>16. CASE Page(u) /\ ~ transfers[u] > 0
  <2>1. /\ Ready(u) /\ V("swap_semaphore") /\ pc' = [pc EXCEPT ![u] = resume[u]]
        /\ resume' = [resume EXCEPT ![u] = NULL] /\ caller' = caller /\ pc[u] = "page"
    BY <1>16 DEF Page, At, Goto
  <2>2. /\ OnlyMove({u}) /\ pc'[u] = resume[u] /\ resume'[u] = NULL
        /\ caller[u] = NULL
        /\ resume[u] \in {"run", "copied", "stored", "loaded", "fetched", "gotten"}
    BY <1>0, <2>1 DEF OnlyMove, PlacesOK
  <2>3. \A m \in Mutex : NULL \notin section(m)
    BY Distinct DEF Mutex, section, Places
  <2>4. Uses(u, "swap_semaphore") /\ ~ Uses(u, "swap_semaphore")'
    BY <2>1, <2>2, <2>3 DEF Uses, section, Mutex
  <2>5. \A m \in Mutex : NoNewUser({u}, m)
    BY <2>1, <2>2, <2>3 DEF NoNewUser, Uses
  <2> QED
    BY <1>0, <2>1, <2>2, <2>4, <2>5, GiveOK DEF Sem, Mutex
<1>17. CASE Paged(u)
  BY <1>2, <1>17 DEF Paged, At, Goto, locals, fault
<1>18. CASE DiskFailed(u) \/ WrongCharacter(u)
  BY <1>18, IdleOK DEF DiskFailed, WrongCharacter, fatal, locals, fault
<1> QED
  BY <1>4, <1>5, <1>6, <1>7, <1>8, <1>9, <1>10, <1>11, <1>12, <1>13, <1>14, <1>15, <1>16, <1>17,
     <1>18 DEF Step


\* init goes on.
LEMMA SemaphoresInit ==
    ASSUME PlacesOK, Semaphores, InitStep
    PROVE  Semaphores'
<1>0. InitProc \in Proc /\ InitProc \notin UProc
  BY Distinct
<1>1. CASE Tape \/ NextBlock
  <2>1. Ready(InitProc) /\ Ask(InitProc, "tape", "block")
    BY <1>1 DEF Tape, NextBlock, At
  <2>2. "block" \in waitsAt("tape") /\ \A m \in Mutex : "block" \notin section(m)
    BY DEF Mutex, section, waitsAt
  <2> QED
    BY <1>0, <2>1, <2>2, AskOK DEF Device
<1>2. CASE Block
  <2>1. Ready(InitProc) /\ pc[InitProc] = "block" /\ disk_io(InitProc, "load") /\ resume' = resume
    BY <1>2 DEF Block, At, fault
  <2>2. \A m \in Mutex : "load" \notin section(m)
    BY DEF Mutex, section
  <2> QED
    BY <1>0, <2>1, <2>2, DiskIoOK
<1>3. CASE DiskStart(InitProc)
  <2>1. Ready(InitProc) /\ pc[InitProc] = "disk" /\ Ask(InitProc, "disk", "disked")
    BY <1>3 DEF DiskStart, At
  <2>2. "disked" \in waitsAt("disk")
        /\ \A m \in Mutex : "disked" \in section(m) => "disk" \in section(m)
    BY DEF Mutex, section, waitsAt
  <2> QED
    BY <1>0, <2>1, <2>2, AskOK DEF Device
<1>4. CASE DiskEnd(InitProc)
  BY <1>0, <1>4, DiskEndOK
<1>5. CASE Count
  <2>1. /\ Ready(InitProc) /\ pc' = [pc EXCEPT ![InitProc] = "master"]
        /\ UNCHANGED <<semaphores, caller, resume>>
    BY <1>5 DEF Count, At, Goto, locals, fault
  <2>2. \A m \in Mutex : "master" \notin section(m)
    BY DEF Mutex, section
  <2> QED
    BY <1>0, <2>1, <2>2, StayOK
<1>6. CASE WaitForAll
  <2>1. /\ Ready(InitProc) /\ P(InitProc, "master_sem") /\ pc' = [pc EXCEPT ![InitProc] = "halt"]
        /\ caller' = caller /\ resume' = resume
    BY <1>6 DEF WaitForAll, At, Goto, locals, fault
  <2>2. OnlyMove({InitProc}) /\ pc'[InitProc] = "halt"
    BY <1>0, <2>1 DEF OnlyMove, PlacesOK
  <2>3. \A m \in Mutex : NoNewUser({InitProc}, m)
    BY <2>1, <2>2 DEF NoNewUser, Uses, Mutex, section
  <2>4. "halt" \in waitsAt("master_sem")
    BY DEF waitsAt
  <2> QED
    BY <1>0, <2>1, <2>2, <2>3, <2>4, TakeOK DEF Sem, Mutex
<1>7. ASSUME NEW u \in UProc, CreateUProc(u)
      PROVE  Semaphores'
  <2>1. /\ Ready(InitProc) /\ pc' = [pc EXCEPT ![InitProc] = "tape", ![u] = "run"]
        /\ UNCHANGED <<semaphores, caller, resume>> /\ pc[u] = "unborn"
    BY <1>7 DEF CreateUProc, At, fault
  <2>2. \A s \in Sem : "unborn" \notin waitsAt(s)
    BY DEF Sem, Mutex, Device, waitsAt
  <2>3. Ready(u)
    BY <2>1, <2>2 DEF Ready, Semaphores, QueueOK
  <2>4. OnlyMove({InitProc, u}) /\ pc'[InitProc] = "tape" /\ pc'[u] = "run"
    BY <1>0, <2>1, Distinct DEF OnlyMove, PlacesOK
  <2>5. \A m \in Mutex : NoNewUser({InitProc, u}, m)
    <3>1. \A m \in Mutex : "tape" \notin section(m) /\ "run" \notin section(m)
      BY DEF Mutex, section
    <3> QED
      BY <2>1, <2>4, <3>1 DEF NoNewUser, Uses
  <2> QED
    BY <2>1, <2>3, <2>4, <2>5, MoveOK, Distinct
<1>8. CASE DiskFailed(InitProc) \/ Halt
  BY <1>8, IdleOK DEF DiskFailed, Halt, fatal, locals, fault
<1> QED
  BY <1>1, <1>2, <1>3, <1>4, <1>5, <1>6, <1>7, <1>8 DEF InitStep

\* A device interrupts.
LEMMA SemaphoresDevices ==
    ASSUME Semaphores, Devices
    PROVE  Semaphores'
<1>1. ASSUME NEW d \in Device, V(d), UNCHANGED <<pc, caller, resume>>
      PROVE  Semaphores'
  <2>1. d \in Sem /\ {d} \in SUBSET Device
    BY DEF Sem
  <2>2. /\ DOMAIN sem' = Sem /\ DOMAIN queue' = Sem
        /\ sem'[d] = sem[d] + 1
        /\ queue'[d] = IF queue[d] = <<>> THEN queue[d] ELSE Tail(queue[d])
        /\ \A r \in Sem \ {d} : sem'[r] = sem[r] /\ queue'[r] = queue[r]
    BY <1>1, <2>1, VElsewhere
  <2> QED
    BY <1>1, <2>1, <2>2, InterruptOK
<1>2. CASE DiskInterrupt
  BY <1>1, <1>2 DEF DiskInterrupt, Device, fault
<1>3. ASSUME NEW d \in Device, Interrupt(d)
      PROVE  Semaphores'
  BY <1>1, <1>3 DEF Interrupt, fault
<1>4. ASSUME NEW d \in {"recv", "transm"}, NEW other \in {"recv", "transm"}, d # other,
             TerminalInterrupt(d, other)
      PROVE  Semaphores'
  <2>1. CASE queue[other] = <<>> /\ V(d) /\ UNCHANGED <<pc, locals>>
    BY <1>1, <2>1 DEF Device, locals, fault
  <2>2. CASE /\ sem' = [sem EXCEPT ![d] = @ + 1, ![other] = @ + 1]
             /\ queue' = [queue EXCEPT ![d] = Tail(@), ![other] = Tail(@)]
             /\ queue[d] # <<>> /\ queue[other] # <<>> /\ UNCHANGED <<pc, locals>>
    <3>1. /\ {d, other} \in SUBSET Device /\ {d, other} \subseteq Sem
          /\ DOMAIN sem = Sem /\ DOMAIN queue = Sem
      BY DEF Device, Sem, Semaphores
    <3>2. /\ DOMAIN sem' = Sem /\ DOMAIN queue' = Sem
          /\ \A s \in Sem \ {d, other} : sem'[s] = sem[s] /\ queue'[s] = queue[s]
          /\ \A s \in {d, other} : sem'[s] = sem[s] + 1 /\ queue'[s] = Tail(queue[s])
      BY <1>4, <2>2, <3>1
    <3>3. \A s \in {d, other} : queue[s] # <<>>
      BY <2>2
    <3>4. UNCHANGED <<pc, caller, resume>>
      BY <2>2 DEF locals, fault
    <3> QED
      BY <3>1, <3>2, <3>3, <3>4, InterruptOK
  <2>3. CASE fatal
    BY <2>3, IdleOK DEF fatal, locals, fault
  <2> QED
    BY <1>4, <2>1, <2>2, <2>3 DEF TerminalInterrupt
<1> QED
  BY <1>2, <1>3, <1>4 DEF Devices

\* So every step keeps them together.
LEMMA SemaphoresNext ==
    ASSUME PlacesOK, Semaphores, [Next]_vars
    PROVE  Semaphores'
<1>1. CASE UNCHANGED vars
  BY <1>1, IdleOK DEF vars, locals, fault
<1> QED
  BY <1>1, SemaphoresCall, SemaphoresStep, SemaphoresInit, SemaphoresDevices DEF Next

--------------------------------------------------------------------------------
(* Types *)

SemTypes == sem \in [Sem -> Int] /\ queue \in [Sem -> Seq(Proc)]

DataOK ==
    /\ left \in [UProc -> 0 .. MaxLen] /\ transfers \in [UProc -> 0 .. MaxTransfers]
    /\ ok \in [Proc -> BOOLEAN]
    /\ buffer \in {NULL} \cup ({"put", "get"} \X UProc)
    /\ uprocess_c \in 0 .. Wrap - 1 /\ seen \in [UProc -> 0 .. Wrap - 1]
    /\ cpu \in {"up", "halted", "fatal"}

\* A character that was sent was one of those left.
LeftOK == \A u \in UProc : pc[u] = "transmitted" => left[u] > 0

\* P and V keep the types of the semaphores.
LEMMA SemTypesPV ==
    ASSUME SemTypes, NEW s \in Sem, (\E p \in Proc : P(p, s)) \/ V(s)
    PROVE  SemTypes'
<1>1. sem[s] \in Int /\ queue[s] \in Seq(Proc)
  BY DEF SemTypes
<1>2. CASE \E p \in Proc : P(p, s)
  BY <1>1, <1>2, AppendProperties DEF SemTypes, P
<1>3. CASE V(s)
  <2>1. queue[s] # <<>> => Tail(queue[s]) \in Seq(Proc)
    BY <1>1, HeadTailProperties, EmptySeq
  <2> QED
    BY <1>1, <1>3, <2>1 DEF SemTypes, V
<1> QED
  BY <1>2, <1>3

\* Every step keeps them.
LEMMA SemTypesNext ==
    ASSUME SemTypes, [Next]_vars
    PROVE  SemTypes'
<1>0. /\ UProc \subseteq Proc /\ InitProc \in Proc
      /\ Mutex \subseteq Sem /\ Device \subseteq Sem /\ "master_sem" \in Sem
  BY Distinct DEF Sem
<1>1. UNCHANGED semaphores => SemTypes'
  BY DEF SemTypes, semaphores
<1>2. CASE UNCHANGED vars
  BY <1>1, <1>2 DEF vars
<1>3. ASSUME NEW u \in UProc, Call(u)
      PROVE  SemTypes'
  <2>1. UNCHANGED semaphores \/ \E m \in Mutex : P(u, m)
    BY <1>3 DEF Call, READTERMINAL, WRITETERMINAL, WRITEPRINTER, DISKPUT, DISKGET, PageFault,
                FaultInCall, FaultInPut, EndInCall, TERMINATE, BeginCall, disk_io, pager, Mutex
  <2> QED
    BY <1>0, <1>1, <2>1, SemTypesPV
<1>4. ASSUME NEW u \in UProc, Step(u)
      PROVE  SemTypes'
  <2>1. UNCHANGED semaphores \/ \E s \in Sem : P(u, s) \/ V(s)
    <3>1. CASE Receive(u) \/ Received(u) \/ Transmit(u) \/ Transmitted(u)
      BY <3>1 DEF Receive, Received, Transmit, Transmitted, Ask, IODEVOP, ReturnReleasing, Sem,
                  Mutex, Device
    <3>2. CASE PrintCharacter(u) \/ Printed(u) \/ DiskPutIO(u) \/ DiskStart(u)
      BY <3>2 DEF PrintCharacter, Printed, DiskPutIO, DiskStart, Ask, IODEVOP, ReturnKeeping,
                  disk_io, Sem, Mutex, Device
    <3>3. CASE \/ DiskEnd(u) \/ DiskReturn(u) \/ Page(u) \/ Paged(u)
               \/ DiskFailed(u) \/ WrongCharacter(u)
      BY <3>3 DEF DiskEnd, DiskReturn, Page, Paged, DiskFailed, WrongCharacter, fatal, disk_io,
                  Sem, Mutex
    <3>4. CASE Clean(u) \/ LoadCount(u) \/ StoreCount(u) \/ TestCount(u) \/ End(u)
      BY <3>4 DEF Clean, LoadCount, StoreCount, TestCount, End, Sem, Mutex
    <3> QED
      BY <1>4, <3>1, <3>2, <3>3, <3>4 DEF Step
  <2> QED
    BY <1>0, <1>1, <2>1, SemTypesPV
<1>5. CASE InitStep
  <2>1. UNCHANGED semaphores \/ \E s \in Sem : P(InitProc, s) \/ V(s)
    BY <1>5 DEF InitStep, Tape, Block, DiskFailed, NextBlock, CreateUProc, DiskStart, DiskEnd,
                Count, WaitForAll, Halt, fatal, Ask, IODEVOP, disk_io, Sem, Mutex, Device
  <2> QED
    BY <1>0, <1>1, <2>1, SemTypesPV
<1>6. CASE Devices
  <2>1. CASE UNCHANGED semaphores \/ \E s \in Sem : V(s)
    BY <1>1, <2>1, SemTypesPV
  <2>2. ASSUME NEW d \in {"recv", "transm"}, NEW other \in {"recv", "transm"},
               d # other, TerminalInterrupt(d, other), ~ UNCHANGED semaphores, ~ V(d)
        PROVE  SemTypes'
    <3>1. /\ sem' = [sem EXCEPT ![d] = @ + 1, ![other] = @ + 1]
          /\ queue' = [queue EXCEPT ![d] = Tail(@), ![other] = Tail(@)]
          /\ queue[d] # <<>> /\ queue[other] # <<>> /\ d \in Sem /\ other \in Sem
      BY <2>2 DEF TerminalInterrupt, fatal, Sem, Device
    <3>2. Tail(queue[d]) \in Seq(Proc) /\ Tail(queue[other]) \in Seq(Proc)
      BY <3>1, HeadTailProperties, EmptySeq DEF SemTypes
    <3>3. sem[d] + 1 \in Int /\ sem[other] + 1 \in Int
      BY <3>1 DEF SemTypes
    <3>4. sem' = [s \in Sem |-> IF s = other THEN sem[other] + 1
                                ELSE IF s = d THEN sem[d] + 1 ELSE sem[s]]
      BY <2>2, <3>1 DEF SemTypes
    <3>5. queue' = [s \in Sem |-> IF s = other THEN Tail(queue[other])
                                  ELSE IF s = d THEN Tail(queue[d]) ELSE queue[s]]
      BY <2>2, <3>1 DEF SemTypes
    <3> QED
      BY <3>2, <3>3, <3>4, <3>5 DEF SemTypes
  <2> QED
    BY <1>0, <1>6, <2>1, <2>2 DEF Devices, DiskInterrupt, Interrupt, Device
<1> QED
  BY <1>2, <1>3, <1>4, <1>5, <1>6 DEF Next

\* The other variables, except processes, keep theirs.
LEMMA DataNext ==
    ASSUME DataOK, LeftOK, PlacesOK, SemTypes, processes \in 0 .. Cardinality(UProc), [Next]_vars
    PROVE  DataOK'
<1>0. /\ 0 \in 0 .. MaxLen /\ InitProc \in Proc /\ UProc \subseteq Proc
      /\ \A n \in 0 .. Wrap - 1 : decremented(n) \in 0 .. Wrap - 1
      /\ 0 \in 0 .. Wrap - 1 /\ 0 .. Cardinality(UProc) \subseteq 0 .. Wrap - 1
  <2>1. Cardinality(UProc) \in Nat
    BY UserCallsAssumption, FS_CardinalityType
  <2> QED
    BY <2>1, UserCallsAssumption, Distinct DEF decremented
<1>1. InDiskCall \subseteq UProc
  BY DEF InDiskCall
<1>2. CASE UNCHANGED vars
  BY <1>2 DEF DataOK, vars, locals, fault
<1>3. ASSUME NEW u \in UProc, Call(u)
      PROVE  DataOK'
  <2>1. CASE READTERMINAL(u) \/ WRITETERMINAL(u) \/ WRITEPRINTER(u) \/ TERMINATE(u)
    BY <1>0, <2>1 DEF DataOK, READTERMINAL, WRITETERMINAL, WRITEPRINTER, TERMINATE, BeginCall, fault
  <2>2. CASE DISKPUT(u) \/ DISKGET(u)
    BY <1>1, <2>2 DEF DataOK, DISKPUT, DISKGET, allocDMABuff, locals, fault
  <2>3. CASE PageFault(u) \/ FaultInCall(u) \/ FaultInPut(u)
    BY <1>1, <2>3 DEF DataOK, PageFault, FaultInCall, FaultInPut, pager, allocDMABuff
  <2>4. CASE EndInCall(u)
    BY <1>0, <1>1, <2>4 DEF DataOK, EndInCall, fault
  <2> QED
    BY <1>3, <2>1, <2>2, <2>3, <2>4 DEF Call
<1>4. ASSUME NEW u \in UProc, Step(u)
      PROVE  DataOK'
  <2>1. CASE Receive(u) \/ Received(u) \/ Transmit(u)
    BY <1>0, <2>1 DEF DataOK, Receive, Received, Transmit, Ask, ReturnReleasing, Forget, locals, fault
  <2>2. CASE PrintCharacter(u) \/ Printed(u) \/ DiskReturn(u)
    BY <1>0, <2>2 DEF DataOK, PrintCharacter, Printed, DiskReturn, Ask, ReturnKeeping, Forget,
                      locals, fault
  <2>3. CASE Transmitted(u)
    <3>1. left[u] \in 1 .. MaxLen
      BY <2>3 DEF DataOK, LeftOK, Transmitted, At
    <3> QED
      BY <2>3, <3>1, UserCallsAssumption DEF DataOK, Transmitted, fault
  <2>4. CASE DiskPutIO(u) \/ DiskStart(u) \/ DiskEnd(u)
    BY <2>4 DEF DataOK, DiskPutIO, DiskStart, DiskEnd, Ask, locals, fault
  <2>5. CASE Page(u)
    BY <2>5, UserCallsAssumption DEF DataOK, Page
  <2>6. CASE Paged(u) \/ DiskFailed(u) \/ WrongCharacter(u) \/ Clean(u) \/ TestCount(u)
    BY <2>6 DEF DataOK, Paged, DiskFailed, WrongCharacter, fatal, Clean, TestCount, locals, fault
  <2>7. CASE LoadCount(u) \/ StoreCount(u) \/ End(u)
    BY <1>0, <2>7 DEF DataOK, LoadCount, StoreCount, End, locals, fault
  <2> QED
    BY <1>4, <2>1, <2>2, <2>3, <2>4, <2>5, <2>6, <2>7 DEF Step
<1>5. CASE InitStep
  BY <1>0, <1>5 DEF DataOK, InitStep, Tape, Block, DiskFailed, NextBlock, CreateUProc, DiskStart,
                    DiskEnd, Count, WaitForAll, Halt, fatal, Ask, locals, fault
<1>6. CASE Devices
  <2>1. CASE DiskInterrupt
    <3>1. PICK status \in BOOLEAN : ok' = [ok EXCEPT ![Head(queue["disk"])] = status]
      BY <2>1 DEF DiskInterrupt
    <3>2. Head(queue["disk"]) \in Proc
      BY <2>1, HeadTailProperties, EmptySeq DEF DiskInterrupt, SemTypes, Sem, Device
    <3>3. buffer' \in {NULL} \cup ({"put", "get"} \X UProc)
      BY <2>1, <3>2, Distinct DEF DiskInterrupt, PlacesOK, Proc, DataOK, Places
    <3> QED
      BY <2>1, <3>1, <3>3 DEF DataOK, DiskInterrupt, fault
  <2>2. ASSUME NEW d \in Device, Interrupt(d)
        PROVE  DataOK'
    BY <2>2 DEF DataOK, Interrupt, fault
  <2>3. CASE TerminalInterrupt("recv", "transm") \/ TerminalInterrupt("transm", "recv")
    BY <2>3 DEF DataOK, TerminalInterrupt, fatal, locals, fault
  <2> QED
    BY <1>6, <2>1, <2>2, <2>3 DEF Devices
<1> QED
  BY <1>2, <1>3, <1>4, <1>5, <1>6 DEF Next


\* Only characters that are left are sent.
LEMMA LeftNext ==
    ASSUME DataOK, LeftOK, PlacesOK, [Next]_vars
    PROVE  LeftOK'
<1>0. UProc \subseteq Proc /\ InitProc \notin UProc
  BY Distinct
<1>1. ASSUME UNCHANGED <<pc, left>>
      PROVE  LeftOK'
  BY <1>1 DEF LeftOK
<1>2. ASSUME NEW p \in Proc, NEW w, w # "transmitted", pc' = [pc EXCEPT ![p] = w],
             left' = left \/ \E n : left' = [left EXCEPT ![p] = n]
      PROVE  LeftOK'
  BY <1>0, <1>2 DEF LeftOK, DataOK, PlacesOK
<1>3. CASE UNCHANGED vars
  BY <1>1, <1>3 DEF vars, locals
<1>4. ASSUME NEW u \in UProc, Call(u)
      PROVE  LeftOK'
  <2>1. CASE READTERMINAL(u) \/ WRITETERMINAL(u) \/ WRITEPRINTER(u) \/ TERMINATE(u) \/ EndInCall(u)
    BY <1>0, <1>2, <2>1 DEF READTERMINAL, WRITETERMINAL, WRITEPRINTER, TERMINATE, EndInCall,
                            BeginCall, Goto
  <2>2. CASE \/ DISKPUT(u) \/ DISKGET(u) \/ PageFault(u) \/ FaultInCall(u) \/ FaultInPut(u)
    BY <1>0, <1>2, <2>2 DEF DISKPUT, DISKGET, PageFault, FaultInCall, FaultInPut, pager, disk_io,
                            Goto, locals
  <2> QED
    BY <1>4, <2>1, <2>2 DEF Call
<1>5. ASSUME NEW u \in UProc, Step(u)
      PROVE  LeftOK'
  <2>1. CASE Transmit(u) /\ left[u] > 0
    <3>1. pc' = [pc EXCEPT ![u] = "transmitted"] /\ left' = left /\ left[u] > 0
      BY <2>1 DEF Transmit, Ask, Goto, locals
    <3> QED
      BY <1>0, <3>1 DEF LeftOK, PlacesOK
  <2>2. CASE Transmit(u) /\ ~ left[u] > 0
    BY <1>0, <1>2, <2>2 DEF Transmit, ReturnReleasing, Forget, Goto
  <2>3. CASE Receive(u) \/ Received(u) \/ Transmitted(u) \/ PrintCharacter(u) \/ Printed(u)
    BY <1>0, <1>2, <2>3 DEF Receive, Received, Transmitted, PrintCharacter, Printed, Ask,
                            ReturnReleasing, ReturnKeeping, Forget, Goto, locals
  <2>4. CASE DiskPutIO(u) \/ DiskStart(u) \/ DiskReturn(u) \/ Paged(u)
    BY <1>0, <1>2, <2>4 DEF DiskPutIO, DiskStart, DiskReturn, Paged, disk_io, Ask, Forget, Goto,
                            locals
  <2>5. CASE DiskEnd(u)
    <3>1. caller[u] # "transmitted"
      BY <1>0, Distinct DEF PlacesOK, Places
    <3> QED
      BY <1>0, <1>2, <2>5, <3>1 DEF DiskEnd, Goto
  <2>6. CASE Page(u)
    <3>1. resume[u] # "transmitted"
      BY Distinct DEF PlacesOK, Places
    <3> QED
      BY <1>0, <1>2, <2>6, <3>1 DEF Page, disk_io, Goto
  <2>7. CASE Clean(u) \/ LoadCount(u) \/ StoreCount(u) \/ TestCount(u) \/ End(u)
    BY <1>0, <1>2, <2>7 DEF Clean, LoadCount, StoreCount, TestCount, End, Goto, locals
  <2>8. CASE DiskFailed(u) \/ WrongCharacter(u)
    BY <1>1, <2>8 DEF DiskFailed, WrongCharacter, fatal, locals
  <2> QED
    BY <1>5, <2>1, <2>2, <2>3, <2>4, <2>5, <2>6, <2>7, <2>8 DEF Step
<1>6. CASE InitStep
  <2>1. CASE Tape \/ NextBlock \/ DiskStart(InitProc) \/ Count \/ WaitForAll \/ Block
    BY <1>2, <2>1, Distinct DEF Tape, NextBlock, DiskStart, Count, WaitForAll, Block, disk_io, Ask,
                                Goto, locals
  <2>2. CASE DiskEnd(InitProc)
    <3>1. caller[InitProc] # "transmitted"
      BY Distinct DEF PlacesOK, Places
    <3> QED
      BY <1>2, <2>2, <3>1, Distinct DEF DiskEnd, Goto
  <2>3. CASE DiskFailed(InitProc) \/ Halt
    BY <1>1, <2>3 DEF DiskFailed, Halt, fatal, locals
  <2>4. ASSUME NEW u \in UProc, CreateUProc(u)
        PROVE  LeftOK'
    BY <1>0, <2>4 DEF CreateUProc, LeftOK, PlacesOK
  <2> QED
    BY <1>6, <2>1, <2>2, <2>3, <2>4 DEF InitStep
<1>7. CASE Devices
  BY <1>1, <1>7 DEF Devices, DiskInterrupt, Interrupt, TerminalInterrupt, fatal, locals
<1> QED
  BY <1>3, <1>4, <1>5, <1>6, <1>7 DEF Next

--------------------------------------------------------------------------------
(* Nobody goes past the wait for the user processes too early *)

\* The sets that are counted are finite.
LEMMA Finite ==
    /\ \A S \in SUBSET UProc :
           IsFiniteSet(S) /\ Cardinality(S) \in Nat /\ Cardinality(S) <= Cardinality(UProc)
    /\ \A S, T \in SUBSET UProc : S \subseteq T => Cardinality(S) <= Cardinality(T)
    /\ \A S \in SUBSET UProc, u \in UProc :
           /\ u \in S => Cardinality(S \ {u}) = Cardinality(S) - 1
           /\ u \notin S => Cardinality(S \cup {u}) = Cardinality(S) + 1
<1>1. \A S \in SUBSET UProc : IsFiniteSet(S) /\ Cardinality(S) \in Nat
  BY UserCallsAssumption, FS_Subset, FS_CardinalityType
<1>2. \A S, T \in SUBSET UProc : S \subseteq T => Cardinality(S) <= Cardinality(T)
  BY <1>1, FS_Subset
<1>3. \A S \in SUBSET UProc, u \in UProc :
         /\ u \in S => Cardinality(S \ {u}) = Cardinality(S) - 1
         /\ u \notin S => Cardinality(S \cup {u}) = Cardinality(S) + 1
  BY <1>1, FS_RemoveElement, FS_AddElement
<1> QED
  BY <1>1, <1>2, <1>3

\* The places that a step with no effect on the count leaves or reaches.
Neutral == Places \ {"unborn", "store", "test", "end", "dead", "master", "halt"}

\* A step that has nothing to do with the count or with master_sem.
LEMMA CountsStay ==
    ASSUME Counts, Awaits, PlacesOK, UNCHANGED <<uprocess_c, seen, processes>>,
           \A p \in Proc : pc'[p] = pc[p] \/ {pc[p], pc'[p]} \subseteq Neutral,
           sem'["master_sem"] = sem["master_sem"], queue'["master_sem"] = queue["master_sem"],
           cpu' \in {cpu, "fatal"}
    PROVE  Counts' /\ Awaits'
<1>1. Left' = Left /\ Pending' = Pending /\ Born' = Born
  BY Distinct DEF Left, Pending, Born, Neutral
<1>2. Counted' = Counted
  BY Distinct DEF Counted, Neutral
<1>3. Owed' = Owed
  BY <1>1, <1>2 DEF Owed
<1>4. \A u \in UProc : pc'[u] = "store" => pc[u] = "store"
  BY Distinct DEF Neutral
<1>5. pc'[InitProc] = "halt" => pc[InitProc] = "halt"
  BY Distinct DEF Neutral
<1>6. Counts'
  BY <1>1, <1>2, <1>3, <1>4 DEF Counts
<1>7. Awaits'
  BY <1>1, <1>2, <1>5 DEF Awaits
<1> QED
  BY <1>6, <1>7


\* The P and V of another semaphore are such.
LEMMA MasterAlone ==
    ASSUME SemTypes, NEW s \in Sem \ {"master_sem"}, (\E p \in Proc : P(p, s)) \/ V(s)
    PROVE  sem'["master_sem"] = sem["master_sem"] /\ queue'["master_sem"] = queue["master_sem"]
BY DEF SemTypes, P, V, Sem

MasterSame == sem'["master_sem"] = sem["master_sem"] /\ queue'["master_sem"] = queue["master_sem"]

\* So are the steps of a process between calls and in them.
LEMMA CountsMove ==
    ASSUME Counts, Awaits, PlacesOK, UNCHANGED <<uprocess_c, seen, processes>>,
           NEW p \in Proc, NEW w \in Neutral, pc' = [pc EXCEPT ![p] = w], pc[p] \in Neutral,
           MasterSame, cpu' \in {cpu, "fatal"}
    PROVE  Counts' /\ Awaits'
<1>1. \A q \in Proc : pc'[q] = pc[q] \/ {pc[q], pc'[q]} \subseteq Neutral
  BY DEF PlacesOK
<1> QED
  BY <1>1, CountsStay DEF MasterSame

\* The end of a user process.
LEMMA CountsEnd ==
    ASSUME Counts, Awaits, PlacesOK, SemTypes, DataOK, NEW u \in UProc,
           LoadCount(u) \/ StoreCount(u) \/ TestCount(u) \/ End(u)
    PROVE  Counts' /\ Awaits'
<1>0. /\ u \in Proc /\ u # InitProc /\ UProc \subseteq Proc
      /\ Left \in SUBSET UProc /\ Pending \in SUBSET UProc /\ Pending \subseteq Left
  BY Distinct DEF Left, Pending
<1>1. PICK w \in {"store", "test", "end", "dead"} :
          pc' = [pc EXCEPT ![u] = w] /\ processes' = processes /\ cpu' = cpu /\ cpu = "up"
  BY DEF LoadCount, StoreCount, TestCount, End, At, Goto, locals
<1>2. pc'[u] = w /\ \A p \in Proc \ {u} : pc'[p] = pc[p]
  BY <1>0, <1>1 DEF PlacesOK
<1>3. pc[u] \in {"count", "store", "test", "end"}
  BY DEF LoadCount, StoreCount, TestCount, End, At
<1>4. Counted' = Counted /\ Born' = Born /\ pc'[InitProc] = pc[InitProc]
  BY <1>0, <1>1, <1>2, <1>3, Distinct DEF Counted, Born
<1>5. CASE LoadCount(u)
  <2>1. /\ seen' = [seen EXCEPT ![u] = uprocess_c] /\ uprocess_c' = uprocess_c
        /\ pc[u] = "count" /\ pc' = [pc EXCEPT ![u] = "store"] /\ UNCHANGED semaphores
    BY <1>5 DEF LoadCount, At, Goto
  <2>2. pc'[u] = "store"
    BY <1>0, <2>1 DEF PlacesOK
  <2>3. Left' = Left /\ Pending' = Pending
    BY <1>0, <1>2, <2>1, <2>2 DEF Left, Pending
  <2>4. Owed' = Owed
    BY <1>4, <2>3 DEF Owed
  <2>5. \A v \in UProc : pc'[v] = "store" => seen'[v] = 0 \/ seen'[v] >= Owed
    BY <1>0, <1>2, <2>1 DEF Counts, DataOK
  <2>6. Counts'
    BY <1>1, <1>4, <2>1, <2>3, <2>4, <2>5 DEF Counts
  <2>7. Awaits'
    BY <1>1, <1>4, <2>1, <2>3 DEF Awaits, semaphores
  <2> QED
    BY <2>6, <2>7
<1>6. CASE StoreCount(u)
  <2>1. /\ uprocess_c' = decremented(seen[u]) /\ seen' = seen
        /\ pc[u] = "store" /\ pc' = [pc EXCEPT ![u] = "test"] /\ UNCHANGED semaphores
    BY <1>6 DEF StoreCount, At, Goto, locals
  <2>2. pc'[u] = "test"
    BY <1>0, <2>1 DEF PlacesOK
  <2>3. Left' = Left \ {u} /\ Pending' = Pending \ {u} /\ u \in Left /\ u \in Pending
    BY <1>0, <1>2, <2>1, <2>2 DEF Left, Pending
  <2>4. /\ Cardinality(Left') = Cardinality(Left) - 1
        /\ Cardinality(Pending') = Cardinality(Pending) - 1
        /\ Cardinality(Left) \in Nat /\ Cardinality(Pending) \in Nat /\ Cardinality(UProc) \in Nat
        /\ Cardinality(Left) <= Cardinality(UProc)
        /\ Cardinality(Pending) <= Cardinality(UProc)
    BY <1>0, <2>3, Finite
  <2>5. Owed' = Owed - 1 /\ Owed \in Nat /\ Owed <= Cardinality(UProc) + 1
    BY <1>4, <2>4 DEF Owed
  <2>6. uprocess_c' >= Owed'
    <3>1. seen[u] \in 0 .. Wrap - 1 /\ Wrap \in Nat /\ Wrap > Cardinality(UProc) + 1
      BY UserCallsAssumption DEF DataOK
    <3>2. CASE seen[u] = 0
      <4>1. uprocess_c' = Wrap - 1
        BY <2>1, <2>4, <3>1, <3>2, SMTT(30) DEF decremented
      <4> QED
        BY <2>4, <2>5, <3>1, <4>1
    <3>3. CASE seen[u] # 0
      <4>1. uprocess_c' = seen[u] - 1
        BY <2>1, <3>1, <3>3, SMTT(30) DEF decremented
      <4>2. seen[u] >= Owed
        BY <2>1, <3>3 DEF Counts
      <4> QED
        BY <2>5, <3>1, <4>1, <4>2
    <3> QED
      BY <3>2, <3>3
  <2>7. \A v \in UProc : pc'[v] = "store" => seen'[v] = 0 \/ seen'[v] >= Owed'
    <3> SUFFICES ASSUME NEW v \in UProc, pc'[v] = "store", seen'[v] # 0
                 PROVE  seen'[v] >= Owed'
      OBVIOUS
    <3>1. pc[v] = "store" /\ seen'[v] = seen[v] /\ seen[v] \in Int
      BY <1>0, <1>2, <2>1, <2>2 DEF DataOK
    <3>2. seen[v] >= Owed
      BY <3>1 DEF Counts
    <3> QED
      BY <2>5, <3>1, <3>2
  <2>8. Counts'
    BY <1>1, <1>4, <2>6, <2>7 DEF Counts
  <2>9. Awaits'
    BY <1>1, <1>4, <2>1, <2>3 DEF Awaits, semaphores
  <2> QED
    BY <2>8, <2>9
<1>7. CASE TestCount(u)
  <2>1. /\ uprocess_c' = uprocess_c /\ seen' = seen
        /\ pc[u] = "test" /\ pc' = [pc EXCEPT ![u] = "end"]
        /\ IF uprocess_c = 0 THEN V("master_sem") ELSE UNCHANGED semaphores
    BY <1>7 DEF TestCount, At, Goto, locals
  <2>2. pc'[u] = "end"
    BY <1>0, <2>1 DEF PlacesOK
  <2>3. Left' = Left /\ Pending' = Pending /\ u \notin Left
    BY <1>0, <1>2, <2>1, <2>2 DEF Left, Pending
  <2>4. Owed' = Owed
    BY <1>4, <2>3 DEF Owed
  <2>5. Counts'
    BY <1>0, <1>1, <1>2, <1>4, <2>1, <2>2, <2>3, <2>4 DEF Counts
  <2>6. CASE uprocess_c # 0
    BY <1>1, <1>4, <2>1, <2>3, <2>5, <2>6 DEF Awaits, semaphores
  <2>7. CASE uprocess_c = 0
    <3>1. uprocess_c >= Owed
      BY <2>3 DEF Counts
    <3>2. Cardinality(Left) \in Nat /\ Cardinality(Pending) \in Nat /\ IsFiniteSet(Pending)
      BY <1>0, Finite
    <3>3. Counted /\ Cardinality(Pending) = 0
      BY <2>7, <3>1, <3>2 DEF Owed
    <3>4. Pending = {}
      BY <3>2, <3>3, FS_EmptySet
    <3> QED
      BY <1>4, <2>3, <2>5, <3>3, <3>4 DEF Awaits
  <2> QED
    BY <2>5, <2>6, <2>7
<1>8. CASE End(u)
  <2>1. /\ uprocess_c' = uprocess_c /\ seen' = [seen EXCEPT ![u] = 0]
        /\ pc[u] = "end" /\ pc' = [pc EXCEPT ![u] = "dead"] /\ UNCHANGED semaphores
    BY <1>8 DEF End, At, Goto, locals
  <2>2. pc'[u] = "dead"
    BY <1>0, <2>1 DEF PlacesOK
  <2>3. Left' = Left /\ Pending' = Pending
    BY <1>0, <1>2, <2>1, <2>2 DEF Left, Pending
  <2>4. Owed' = Owed
    BY <1>4, <2>3 DEF Owed
  <2>5. \A v \in UProc : pc'[v] = "store" => pc[v] = "store" /\ seen'[v] = seen[v]
    BY <1>0, <1>2, <2>1, <2>2 DEF DataOK
  <2>6. Counts'
    BY <1>1, <1>4, <2>1, <2>3, <2>4, <2>5 DEF Counts
  <2>7. Awaits'
    BY <1>1, <1>4, <2>1, <2>3 DEF Awaits, semaphores
  <2> QED
    BY <2>6, <2>7
<1> QED
  BY <1>5, <1>6, <1>7, <1>8


\* init counts, creates and waits.
LEMMA CountsInit ==
    ASSUME Counts, Awaits, PlacesOK, SemTypes, DataOK, Count \/ WaitForAll \/ Halt
                                                     \/ \E u \in UProc : CreateUProc(u)
    PROVE  Counts' /\ Awaits'
<1>0. /\ InitProc \in Proc /\ InitProc \notin UProc /\ UProc \subseteq Proc
      /\ Left \in SUBSET UProc /\ Pending \in SUBSET UProc /\ Born \in SUBSET UProc
      /\ Pending \subseteq Left /\ Pending \subseteq Born
  BY Distinct DEF Left, Pending, Born
<1>1. /\ Cardinality(Pending) <= Cardinality(Left) /\ Cardinality(Pending) <= Cardinality(Born)
      /\ Cardinality(Left) \in Nat /\ Cardinality(Pending) \in Nat /\ Cardinality(Born) \in Nat
  BY <1>0, Finite
<1>2. ASSUME NEW w \in Places, pc' = [pc EXCEPT ![InitProc] = w]
      PROVE  /\ Left' = Left /\ Pending' = Pending /\ Born' = Born /\ pc'[InitProc] = w
             /\ \A u \in UProc : pc'[u] = pc[u]
  BY <1>0, <1>2 DEF Left, Pending, Born, PlacesOK
<1>3. CASE Count
  <2>1. /\ uprocess_c' = processes /\ seen' = seen /\ processes' = processes /\ cpu' = cpu
        /\ cpu = "up" /\ pc[InitProc] = "block" /\ pc' = [pc EXCEPT ![InitProc] = "master"]
        /\ UNCHANGED semaphores
    BY <1>3 DEF Count, At, Goto, locals
  <2>2. /\ Left' = Left /\ Pending' = Pending /\ Born' = Born /\ pc'[InitProc] = "master"
        /\ \A u \in UProc : pc'[u] = pc[u]
    BY <1>2, <2>1 DEF Places
  <2>3. Counted' /\ ~ Counted
    BY <2>1, <2>2 DEF Counted
  <2>4. Owed' = Cardinality(Pending) /\ Owed = Cardinality(Left) + 1
    BY <2>2, <2>3 DEF Owed
  <2>5. \A u \in UProc : seen[u] \in Int
    BY DEF DataOK
  <2>6. Counts'
    BY <1>1, <2>1, <2>2, <2>4, <2>5 DEF Counts
  <2>7. Awaits'
    BY <2>1, <2>2, <2>3 DEF Awaits, semaphores
  <2> QED
    BY <2>6, <2>7
<1>4. CASE WaitForAll
  <2>1. /\ UNCHANGED <<uprocess_c, seen, processes>> /\ cpu' = cpu
        /\ cpu = "up" /\ pc[InitProc] = "master" /\ pc' = [pc EXCEPT ![InitProc] = "halt"]
        /\ P(InitProc, "master_sem")
    BY <1>4 DEF WaitForAll, At, Goto, locals
  <2>2. /\ Left' = Left /\ Pending' = Pending /\ Born' = Born /\ pc'[InitProc] = "halt"
        /\ \A u \in UProc : pc'[u] = pc[u]
    BY <1>2, <2>1 DEF Places
  <2>3. Counted' /\ Counted
    BY <2>1, <2>2 DEF Counted
  <2>4. Owed' = Owed
    BY <2>2, <2>3 DEF Owed
  <2>5. Counts'
    BY <2>1, <2>2, <2>3, <2>4 DEF Counts
  <2>6. /\ sem["master_sem"] \in Int /\ sem'["master_sem"] = sem["master_sem"] - 1
        /\ ~ sem["master_sem"] > 0 => queue'["master_sem"] = Append(queue["master_sem"], InitProc)
        /\ queue["master_sem"] \in Seq(Proc)
    BY <2>1 DEF SemTypes, P, Sem
  <2>7. ~ sem["master_sem"] > 0 => InitProc \in Members(queue'["master_sem"])
    <3>1. InitProc \in Members(Append(queue["master_sem"], InitProc))
      BY <1>0, <2>6, AppendMembers
    <3> QED
      BY <2>6, <3>1
  <2>8. Awaits'
    BY <2>1, <2>2, <2>3, <2>6, <2>7 DEF Awaits
  <2> QED
    BY <2>5, <2>8
<1>5. CASE Halt
  <2>1. /\ cpu' = "halted" /\ Ready(InitProc) /\ pc[InitProc] = "halt"
        /\ UNCHANGED <<semaphores, pc, uprocess_c, seen, processes>>
    BY <1>5 DEF Halt, At, locals
  <2>2. Left' = Left /\ Pending' = Pending /\ Born' = Born /\ Counted' = Counted
    BY <2>1 DEF Left, Pending, Born, Counted
  <2>3. Owed' = Owed
    BY <2>2 DEF Owed
  <2>4. Pending = {}
    BY <2>1 DEF Awaits, Ready, Sem
  <2>5. Counts'
    BY <2>1, <2>2, <2>3 DEF Counts
  <2>6. Awaits'
    BY <2>1, <2>2, <2>4 DEF Awaits, semaphores
  <2> QED
    BY <2>5, <2>6
<1>6. ASSUME NEW u \in UProc, CreateUProc(u)
      PROVE  Counts' /\ Awaits'
  <2>1. /\ UNCHANGED <<semaphores, uprocess_c, seen>> /\ processes' = processes + 1 /\ cpu' = cpu
        /\ cpu = "up" /\ pc[InitProc] = "load" /\ pc[u] = "unborn"
        /\ pc' = [pc EXCEPT ![InitProc] = "tape", ![u] = "run"]
    BY <1>6 DEF CreateUProc, At, fault
  <2>2. /\ pc'[InitProc] = "tape" /\ pc'[u] = "run"
        /\ \A v \in UProc \ {u} : pc'[v] = pc[v]
    BY <1>0, <2>1 DEF PlacesOK
  <2>3. Left' = Left /\ Born' = Born \cup {u} /\ u \notin Born /\ ~ Counted' /\ ~ Counted
    BY <2>1, <2>2 DEF Left, Born, Counted
  <2>4. Owed' = Owed
    BY <2>3 DEF Owed
  <2>5. Cardinality(Born') = Cardinality(Born) + 1
    BY <1>0, <2>3, Finite
  <2>6. \A v \in UProc : pc'[v] = "store" => pc[v] = "store"
    BY <2>2
  <2>7. Counts'
    BY <2>1, <2>3, <2>4, <2>5, <2>6 DEF Counts
  <2>8. Awaits'
    BY <2>1, <2>2, <2>3 DEF Awaits, semaphores
  <2> QED
    BY <2>7, <2>8
<1> QED
  BY <1>3, <1>4, <1>5, <1>6


\* Every step keeps the count and the wait in order.
LEMMA CountsNext ==
    ASSUME Counts, Awaits, PlacesOK, SemTypes, DataOK, [Next]_vars
    PROVE  Counts' /\ Awaits'
<1>0. /\ UProc \subseteq Proc /\ InitProc \in Proc
      /\ Mutex \subseteq Sem \ {"master_sem"} /\ Device \subseteq Sem \ {"master_sem"}
  BY Distinct DEF Sem, Mutex, Device
<1>1. /\ UNCHANGED semaphores => MasterSame
      /\ \A s \in Sem \ {"master_sem"} : (\E p \in Proc : P(p, s)) \/ V(s) => MasterSame
  BY MasterAlone DEF MasterSame, semaphores
<1>2. CASE UNCHANGED vars
  BY <1>1, <1>2, CountsStay DEF vars, locals, MasterSame
<1>3. ASSUME NEW u \in UProc, Call(u)
      PROVE  Counts' /\ Awaits'
  <2>1. /\ UNCHANGED <<uprocess_c, seen, processes, cpu>>
        /\ pc[u] \in {"run", "received", "transmit", "print", "get"}
        /\ \E w \in {"receive", "transmit", "print", "disk", "page", "copied", "clean"} :
               pc' = [pc EXCEPT ![u] = w]
    <3>1. CASE READTERMINAL(u) \/ WRITETERMINAL(u) \/ WRITEPRINTER(u) \/ TERMINATE(u)
      BY <3>1 DEF READTERMINAL, WRITETERMINAL, WRITEPRINTER, TERMINATE, BeginCall, At, Goto
    <3>2. CASE DISKPUT(u) \/ DISKGET(u)
      BY <3>2 DEF DISKPUT, DISKGET, disk_io, At, Goto, locals
    <3>3. CASE PageFault(u) \/ FaultInPut(u)
      BY <3>3 DEF PageFault, FaultInPut, pager, At, Goto
    <3>4. CASE FaultInCall(u) \/ EndInCall(u)
      BY <3>4 DEF FaultInCall, EndInCall, pager, Accesses, Access, At, Goto
    <3> QED
      BY <1>3, <3>1, <3>2, <3>3, <3>4 DEF Call
  <2>2. UNCHANGED semaphores \/ \E m \in Mutex : P(u, m)
    BY <1>3 DEF Call, READTERMINAL, WRITETERMINAL, WRITEPRINTER, DISKPUT, DISKGET, PageFault,
                FaultInCall, FaultInPut, EndInCall, TERMINATE, BeginCall, disk_io, pager, Mutex
  <2>3. MasterSame
    BY <1>0, <1>1, <2>2
  <2>4. /\ {"receive", "transmit", "print", "disk", "page", "copied", "clean"} \subseteq Neutral
        /\ pc[u] \in Neutral
    BY <2>1 DEF Neutral, Places
  <2> QED
    BY <1>0, <2>1, <2>3, <2>4, CountsMove
<1>4. ASSUME NEW u \in UProc, Step(u)
      PROVE  Counts' /\ Awaits'
  <2>1. CASE LoadCount(u) \/ StoreCount(u) \/ TestCount(u) \/ End(u)
    BY <2>1, CountsEnd
  <2>2. CASE DiskFailed(u) \/ WrongCharacter(u)
    BY <1>1, <2>2, CountsStay DEF DiskFailed, WrongCharacter, fatal, locals, MasterSame
  <2>3. ASSUME ~ (LoadCount(u) \/ StoreCount(u) \/ TestCount(u) \/ End(u)),
               ~ (DiskFailed(u) \/ WrongCharacter(u))
        PROVE  Counts' /\ Awaits'
    <3>1. /\ UNCHANGED <<uprocess_c, seen, processes, cpu>>
          /\ pc[u] \in Neutral
          /\ \E w \in Neutral : pc' = [pc EXCEPT ![u] = w]
          /\ UNCHANGED semaphores \/ \E s \in Mutex \cup Device : P(u, s) \/ V(s)
      <4>1. CASE Receive(u) \/ Received(u) \/ Transmit(u) \/ Transmitted(u)
        BY <4>1 DEF Receive, Received, Transmit, Transmitted, Ask, IODEVOP, ReturnReleasing, Forget,
                    At, Goto, locals, Mutex, Device, Neutral, Places
      <4>2. CASE PrintCharacter(u) \/ Printed(u) \/ DiskPutIO(u) \/ DiskStart(u)
        BY <4>2 DEF PrintCharacter, Printed, DiskPutIO, DiskStart, Ask, IODEVOP, ReturnKeeping,
                    Forget, disk_io, At, Goto, locals, Mutex, Device, Neutral, Places
      <4>3. CASE DiskReturn(u) \/ Paged(u) \/ Clean(u)
        BY <4>3 DEF DiskReturn, Paged, Clean, Forget, At, Goto, locals, Mutex, Neutral, Places
      <4>4. CASE DiskEnd(u)
        <5>1. pc[u] = "disked" /\ pc' = [pc EXCEPT ![u] = caller[u]] /\ V("disk_sem")
              /\ UNCHANGED <<uprocess_c, seen, processes, cpu>>
          BY <4>4 DEF DiskEnd, At, Goto
        <5>2. caller[u] \in {"put", "get", "paged"}
          BY <1>0, <5>1 DEF PlacesOK
        <5>3. {"put", "get", "paged", "disked"} \subseteq Neutral
          BY DEF Neutral, Places
        <5> QED
          BY <5>1, <5>2, <5>3 DEF Mutex
      <4>5. CASE Page(u)
        <5>1. /\ pc[u] = "page"
              /\ \/ pc' = [pc EXCEPT ![u] = "disk"] /\ P(u, "disk_sem")
                 \/ pc' = [pc EXCEPT ![u] = resume[u]] /\ V("swap_semaphore")
              /\ UNCHANGED <<uprocess_c, seen, processes, cpu>>
          BY <4>5 DEF Page, disk_io, At, Goto
        <5>2. resume[u] \in {"run", "copied", "stored", "loaded", "fetched", "gotten"}
          BY <1>0, <5>1 DEF PlacesOK
        <5>3. {"run", "copied", "stored", "loaded", "fetched", "gotten", "disk", "page"}
              \subseteq Neutral
          BY DEF Neutral, Places
        <5> QED
          BY <5>1, <5>2, <5>3 DEF Mutex
      <4> QED
        BY <1>4, <2>3, <4>1, <4>2, <4>3, <4>4, <4>5 DEF Step
    <3>2. MasterSame
      BY <1>0, <1>1, <3>1
    <3> QED
      BY <1>0, <3>1, <3>2, CountsMove
  <2> QED
    BY <2>1, <2>2, <2>3
<1>5. CASE InitStep
  <2>1. CASE Count \/ WaitForAll \/ Halt \/ \E u \in UProc : CreateUProc(u)
    BY <2>1, CountsInit
  <2>2. CASE DiskFailed(InitProc)
    BY <1>1, <2>2, CountsStay DEF DiskFailed, WrongCharacter, fatal, locals, MasterSame
  <2>3. CASE Tape \/ Block \/ NextBlock \/ DiskStart(InitProc)
    <3>1. /\ UNCHANGED <<uprocess_c, seen, processes, cpu>>
          /\ pc[InitProc] \in Neutral
          /\ \E w \in Neutral : pc' = [pc EXCEPT ![InitProc] = w]
          /\ \E s \in Mutex \cup Device : P(InitProc, s)
      BY <2>3 DEF Tape, Block, NextBlock, DiskStart, Ask, IODEVOP, disk_io, At, Goto, locals,
                  Mutex, Device, Neutral, Places
    <3>2. MasterSame
      BY <1>0, <1>1, <3>1
    <3> QED
      BY <1>0, <3>1, <3>2, CountsMove
  <2>4. CASE DiskEnd(InitProc)
    <3>1. /\ pc[InitProc] = "disked" /\ pc' = [pc EXCEPT ![InitProc] = caller[InitProc]]
          /\ V("disk_sem") /\ UNCHANGED <<uprocess_c, seen, processes, cpu>>
      BY <2>4 DEF DiskEnd, At, Goto
    <3>2. caller[InitProc] = "load"
      BY <1>0, <3>1 DEF PlacesOK
    <3>3. {"load", "disked"} \subseteq Neutral
      BY DEF Neutral, Places
    <3>4. MasterSame
      BY <1>0, <1>1, <3>1 DEF Mutex
    <3> QED
      BY <1>0, <3>1, <3>2, <3>3, <3>4, CountsMove
  <2> QED
    BY <1>5, <2>1, <2>2, <2>3, <2>4 DEF InitStep
<1>6. CASE Devices
  <2>1. /\ UNCHANGED <<pc, uprocess_c, seen, processes>> /\ cpu' \in {cpu, "fatal"}
        /\ \/ UNCHANGED semaphores
           \/ \E s \in Device : V(s)
           \/ \E s, r \in {"recv", "transm"} :
                 /\ sem' = [sem EXCEPT ![s] = @ + 1, ![r] = @ + 1]
                 /\ queue' = [queue EXCEPT ![s] = Tail(@), ![r] = Tail(@)]
    BY <1>6 DEF Devices, DiskInterrupt, Interrupt, TerminalInterrupt, fatal, locals, Device
  <2>2. MasterSame
    <3>1. CASE \E s, r \in {"recv", "transm"} :
                  /\ sem' = [sem EXCEPT ![s] = @ + 1, ![r] = @ + 1]
                  /\ queue' = [queue EXCEPT ![s] = Tail(@), ![r] = Tail(@)]
      <4>1. PICK s, r \in {"recv", "transm"} :
                  /\ sem' = [sem EXCEPT ![s] = @ + 1, ![r] = @ + 1]
                  /\ queue' = [queue EXCEPT ![s] = Tail(@), ![r] = Tail(@)]
        BY <3>1
      <4>2. "master_sem" # s /\ "master_sem" # r /\ "master_sem" \in Sem
        BY DEF Sem
      <4> QED
        BY <4>1, <4>2 DEF MasterSame, SemTypes
    <3> QED
      BY <1>0, <1>1, <2>1, <3>1
  <2> QED
    BY <2>1, <2>2, CountsStay DEF MasterSame
<1> QED
  BY <1>2, <1>3, <1>4, <1>5, <1>6 DEF Next

--------------------------------------------------------------------------------
(* Theorems *)

\* The places are those of TypeOK, and processes counts those born.
LEMMA TypesFit ==
    /\ TypeOK => SemTypes /\ DataOK /\ processes \in 0 .. Cardinality(UProc)
    /\ SemTypes /\ DataOK /\ PlacesOK /\ Counts => TypeOK
<1>1. {a[2] : a \in Access} = {"stored", "loaded", "fetched", "gotten"}
  BY DEF Access
<1>2. TypeOK => SemTypes /\ DataOK /\ processes \in 0 .. Cardinality(UProc)
  BY DEF TypeOK, SemTypes, DataOK
<1>3. Born \in SUBSET UProc
  BY DEF Born
<1>4. Counts => processes \in 0 .. Cardinality(UProc)
  BY <1>3, Finite DEF Counts
<1>5. SemTypes /\ DataOK /\ PlacesOK /\ Counts => TypeOK
  BY <1>1, <1>4 DEF TypeOK, SemTypes, DataOK, PlacesOK
<1> QED
  BY <1>2, <1>5

\* The inductive invariant.
IInv ==
    /\ TypeOK /\ LeftOK /\ PlacesOK /\ Semaphores /\ Counts /\ Awaits

\* It holds at first.
LEMMA InitInv ==
    Init => IInv
<1> SUFFICES ASSUME Init
             PROVE  IInv
  OBVIOUS
<1>1. SemTypes
  BY DEF Init, SemTypes
<1>2. DataOK
  BY UserCallsAssumption, Finite DEF Init, DataOK
<1>3. LeftOK
  BY Distinct DEF Init, LeftOK
<1>4. PlacesOK
  BY Distinct DEF Init, PlacesOK, Places, InitPlaces, UserPlaces
<1>5. Semaphores
  <2>1. \A s \in Sem : queue[s] = <<>> /\ Members(queue[s]) = {}
    BY DEF Init, Members
  <2>2. \A s \in Sem : sem[s] \in Int /\ queue[s] \in Seq(Proc) /\ NoRepeats(queue[s])
    BY <1>1, <2>1 DEF SemTypes, NoRepeats
  <2>3. \A s \in Sem : QueueOK(s)
    BY <2>1, <2>2 DEF QueueOK
  <2>4. \A m \in Mutex : Users(m) = {}
    <3>1. \A m \in Mutex : {NULL, "tape", "unborn"} \cap section(m) = {}
      BY Distinct DEF Mutex, section, Places
    <3> QED
      BY <3>1, Distinct DEF Init, Users, Uses
  <2>5. \A m \in Mutex : sem[m] = 1
    BY DEF Init, Sem
  <2>6. \A m \in Mutex : MutexOK(m)
    BY <2>1, <2>4, <2>5 DEF MutexOK, Sem
  <2> QED
    BY <2>3, <2>6 DEF Semaphores, Init
<1>6. /\ Born = {} /\ Left = UProc /\ Pending = {} /\ ~ Counted
      /\ \A u \in UProc : pc[u] # "store"
  BY Distinct DEF Init, Born, Left, Pending, Counted
<1>7. Counts
  BY <1>6, FS_EmptySet DEF Init, Counts
<1>8. Awaits
  BY <1>6 DEF Init, Awaits, Sem, Mutex, Counted
<1> QED
  BY <1>1, <1>2, <1>3, <1>4, <1>5, <1>7, <1>8, TypesFit DEF IInv

\* Every step keeps it.
LEMMA NextInv ==
    IInv /\ [Next]_vars => IInv'
<1> SUFFICES ASSUME IInv, [Next]_vars
             PROVE  IInv'
  OBVIOUS
<1>1. SemTypes /\ DataOK /\ processes \in 0 .. Cardinality(UProc)
  BY TypesFit DEF IInv
<1>2. SemTypes'
  BY <1>1, SemTypesNext
<1>3. DataOK'
  BY <1>1, DataNext DEF IInv
<1>4. PlacesOK'
  BY PlacesNext DEF IInv
<1>5. Semaphores'
  BY SemaphoresNext DEF IInv
<1>6. LeftOK'
  BY <1>1, LeftNext DEF IInv
<1>7. Counts' /\ Awaits'
  BY <1>1, CountsNext DEF IInv
<1>8. TypeOK'
  <2>1. (SemTypes /\ DataOK /\ PlacesOK /\ Counts => TypeOK)'
    BY TypesFit, PTL
  <2> QED
    BY <1>2, <1>3, <1>4, <1>7, <2>1
<1> QED
  BY <1>4, <1>5, <1>6, <1>7, <1>8 DEF IInv

\* Types, places, semaphores and the count stay in order, for any number of user processes
\* and any length of their output.
THEOREM Invariance == Spec => []IInv
  BY InitInv, NextInv, PTL DEF Spec

\* TypeOK of the calls and of init, on the way uprocess_c included.
THEOREM TypeCorrect == Spec => []TypeOK
<1>1. IInv => TypeOK
  BY DEF IInv
<1> QED
  BY <1>1, Invariance, PTL

\* A mutex of usrcalls.c or swap.c has one user at a time, whichever calls are nested in
\* others, end with their process or keep it for ever.
THEOREM OneUserAlways == Spec => []OneUser
<1>1. Semaphores => OneUser
  <2> SUFFICES ASSUME Semaphores, NEW m \in Mutex
               PROVE  Cardinality(Inside(m)) <= 1 /\ (sem[m] > 0 => Inside(m) = {})
    BY DEF OneUser
  <2>1. MutexOK(m) /\ sem[m] \in Int
    BY DEF Semaphores, QueueOK, Sem
  <2>2. Inside(m) = Users(m) \ Members(queue[m])
    BY DEF Inside, Users, Uses
  <2>3. CASE Inside(m) = {}
    BY <2>3, FS_EmptySet
  <2>4. CASE Inside(m) # {}
    <3>1. PICK p \in Inside(m) : TRUE
      BY <2>4
    <3>2. Inside(m) = {p}
      BY <2>1, <2>2, <3>1 DEF MutexOK
    <3>3. Cardinality(Inside(m)) = 1
      BY <3>2, FS_Singleton
    <3>4. ~ sem[m] > 0
      BY <2>1, <2>2, <2>4 DEF MutexOK
    <3> QED
      BY <3>3, <3>4
  <2> QED
    BY <2>3, <2>4
<1> QED
  BY <1>1, Invariance, PTL DEF IInv

\* No device gets a second command while it works on a first, although SYS10 does not look.
THEOREM ExclusiveDevicesAlways == Spec => []ExclusiveDevices
<1>1. PlacesOK /\ Semaphores => ExclusiveDevices
  <2> SUFFICES ASSUME PlacesOK, Semaphores, NEW d \in Device
               PROVE  Len(queue[d]) <= 1
    BY DEF ExclusiveDevices
  <2>1. /\ queue[d] \in Seq(Proc) /\ NoRepeats(queue[d])
        /\ \A p \in Members(queue[d]) : pc[p] \in waitsAt(d)
    BY DEF Semaphores, QueueOK, Sem
  <2>2. Members(queue[d]) \subseteq Proc
    BY <2>1, LenProperties, ElementOfSeq DEF Members
  <2>3. \A p, q \in Members(queue[d]) : p = q
    <3>1. CASE d = "tape"
      <4>1. \A p \in Members(queue[d]) : pc[p] = "block"
        BY <2>1, <3>1 DEF waitsAt
      <4>2. \A u \in UProc : pc[u] # "block"
        BY DEF PlacesOK, UserPlaces
      <4> QED
        BY <2>2, <4>1, <4>2 DEF Proc
    <3>2. CASE d # "tape"
      <4>1. PICK m \in Mutex : /\ waitsAt(d) \subseteq section(m)
                               /\ waitsAt(d) \cap waitsAt(m) = {}
        <5>1. CASE d = "recv"
          BY <5>1 DEF Mutex, waitsAt, section
        <5>2. CASE d = "transm"
          BY <5>2 DEF Mutex, waitsAt, section
        <5>3. CASE d = "printer"
          BY <5>3 DEF Mutex, waitsAt, section
        <5>4. CASE d = "disk"
          BY <5>4 DEF Mutex, waitsAt, section
        <5> QED
          BY <3>2, <5>1, <5>2, <5>3, <5>4 DEF Device
      <4>2. MutexOK(m) /\ \A p \in Members(queue[m]) : pc[p] \in waitsAt(m)
        BY DEF Semaphores, QueueOK, Sem
      <4>3. Members(queue[d]) \subseteq Users(m) \ Members(queue[m])
        BY <2>1, <2>2, <4>1, <4>2 DEF Users, Uses
      <4> QED
        BY <4>2, <4>3 DEF MutexOK
    <3> QED
      BY <3>1, <3>2
  <2>4. Len(queue[d]) \in Nat
    BY <2>1, LenProperties
  <2>5. SUFFICES ASSUME Len(queue[d]) >= 2
                 PROVE  FALSE
    BY <2>4
  <2>6. 1 \in 1 .. Len(queue[d]) /\ 2 \in 1 .. Len(queue[d])
    BY <2>4, <2>5
  <2>7. queue[d][1] \in Members(queue[d]) /\ queue[d][2] \in Members(queue[d])
    BY <2>6 DEF Members
  <2>8. queue[d][1] # queue[d][2]
    BY <2>1, <2>6 DEF NoRepeats
  <2> QED
    BY <2>3, <2>7, <2>8
<1> QED
  BY <1>1, Invariance, PTL DEF IInv

\* init does not halt the machine under a user process: an uprocess_c that is decremented
\* below 0, assigned late, or missing a decrement is never 0 too early.
THEOREM HaltsAfterAllAlways == Spec => []HaltsAfterAll
<1>1. PlacesOK /\ Awaits => HaltsAfterAll
  BY Distinct DEF PlacesOK, Awaits, Pending, HaltsAfterAll
<1> QED
  BY <1>1, Invariance, PTL DEF IInv

================================================================================
