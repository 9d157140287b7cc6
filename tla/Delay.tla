--------------------------------- MODULE Delay ---------------------------------
(***************************************************************************)
(* The delay facility: SYS16 DELAY (usrcalls.c), the active delay list     *)
(* (adl.c) and the delay daemon (delay.c).                                 *)
(*                                                                         *)
(* Callers and daemon are processes that run with interrupts enabled and   *)
(* can lose the CPU between any two steps below.  del_insert and           *)
(* del_remove are one step each: nothing locks the two lists, and a        *)
(* preemption in the middle of a list operation is not modelled.           *)
(*                                                                         *)
(* Time is relative: wake[n] is d_wake_time of node n minus the TOD clock, *)
(* in pseudo-clock ticks, and -1 when the wake time has passed.  A tick    *)
(* more or less in the past makes no difference to the code.               *)
(***************************************************************************)
EXTENDS Integers, ProcQueues

CONSTANTS
    UProc,      \* user processes
    UPROCMAX,   \* delay nodes and semaphores
    SECOND,     \* ticks in what the code takes for a second
    MaxSec,     \* bound of the model: the longest delay asked for
    NULL

Node == 0 .. UPROCMAX - 1      \* d_sem_index of a node, its name here
Time == -1 .. MaxSec * SECOND

ASSUME DelayAssumption ==
    /\ UPROCMAX \in Nat \ {0} /\ SECOND \in Nat \ {0} /\ MaxSec \in Nat
    /\ NULL \notin Node \cup UProc
    /\ IsFiniteSet(UProc)

VARIABLES
    adl, delayd_free,   \* the two lists of nodes
    wake,               \* time left on each node
    uproc_semaphore,    \* the word of each semaphore
    sleepers,           \* the processes blocked on it
    pc,                 \* where a user process is
    index,              \* the semaphore its DELAY was given
    daemon,             \* where the daemon is: in SYS9, looking at the ADL, or about to V
    due,                \* the semaphore it is about to V
    cpu,                \* "fatal" after fatal()
    left                \* history: what is left of the time a process asked for

lists == <<adl, delayd_free, wake>>
sems == <<uproc_semaphore, sleepers>>
vars == <<lists, sems, pc, index, daemon, due, cpu, left>>

--------------------------------------------------------------------------------
(* adl.c *)

\* A faulty insertAsc, for OverdueServed: clist_enqueue.
insertLast(q, n, w) == Append(q, n)

\* clist_insert_asc by d_wake_time: before the first node that wakes later.
insertAsc(q, n, w) ==
    LET at == CHOOSE i \in 1 .. Len(q) + 1 :
                /\ i <= Len(q) => w[q[i]] > w[n]
                /\ \A j \in 1 .. i - 1 : w[q[j]] <= w[n]
    IN  SubSeq(q, 1, at - 1) \o <<n>> \o SubSeq(q, at, Len(q))

\* A faulty isDue, for DelayEnds: a wake time that was missed never comes again.
isDueNow(n) == wake[n] = 0

\* d_wake_time < getTODLO().
isDue(n) == wake[n] < 0

\* The test of del_remove, which looks at the head of the sorted list.
headIsDue == adl # <<>> /\ isDue(Head(adl))

--------------------------------------------------------------------------------
(* usr16_DELAY *)

fatal ==
    /\ cpu' = "fatal"
    /\ UNCHANGED <<lists, sems, pc, index, daemon, due, left>>

\* del_insert: the first free node, to wake secCnt seconds from now.
delInsert(u, secCnt) ==
    LET n == Head(delayd_free)
    IN  /\ wake' = [wake EXCEPT ![n] = secCnt * SECOND]
        /\ adl' = insertAsc(adl, n, wake')
        /\ delayd_free' = Tail(delayd_free)
        /\ index' = [index EXCEPT ![u] = n]
        /\ pc' = [pc EXCEPT ![u] = "inserted"]
        /\ left' = [left EXCEPT ![u] = secCnt * SECOND]
        /\ UNCHANGED <<sems, daemon, due, cpu>>

\* A faulty Delay, for TypeOK: the -1 of del_insert is not tested.
DelayUnchecked(u, secCnt) ==
    /\ cpu = "up" /\ pc[u] = "run"
    /\ \/ delayd_free # <<>> /\ delInsert(u, secCnt)
       \/ /\ delayd_free = <<>>
          /\ index' = [index EXCEPT ![u] = -1]
          /\ pc' = [pc EXCEPT ![u] = "inserted"]
          /\ UNCHANGED <<lists, sems, daemon, due, cpu, left>>

\* DELAY up to the return of del_insert.
Delay(u, secCnt) ==
    /\ cpu = "up" /\ pc[u] = "run"
    /\ \/ delayd_free # <<>> /\ delInsert(u, secCnt)
       \/ delayd_free = <<>> /\ fatal

\* The P of DELAY on the semaphore of the node.
Sleep(u) ==
    LET n == index[u]
        blocks == uproc_semaphore[n] - 1 < 0
    IN  /\ cpu = "up" /\ pc[u] = "inserted"
        /\ uproc_semaphore' = [uproc_semaphore EXCEPT ![n] = @ - 1]
        /\ sleepers' = IF blocks THEN [sleepers EXCEPT ![n] = Append(@, u)] ELSE sleepers
        /\ pc' = [pc EXCEPT ![u] = IF blocks THEN "blocked" ELSE "run"]
        /\ UNCHANGED <<lists, index, daemon, due, cpu, left>>

\* A DELAY of less than 0 seconds, or the end of the program.
Terminate(u) ==
    /\ cpu = "up" /\ pc[u] = "run"
    /\ pc' = [pc EXCEPT ![u] = "ended"]
    /\ UNCHANGED <<lists, sems, index, daemon, due, cpu, left>>

--------------------------------------------------------------------------------
(* delay_deamon *)

\* The pseudo-clock tick that ends SYS9.
ClockTick ==
    /\ cpu = "up" /\ daemon = "clock"
    /\ daemon' = "scan"
    /\ UNCHANGED <<lists, sems, pc, index, due, cpu, left>>

\* A faulty Remove, for NodesKept: the node is freed and stays in the ADL.
RemoveHeadOnly ==
    /\ cpu = "up" /\ daemon = "scan"
    /\ headIsDue
    /\ delayd_free' = <<Head(adl)>> \o delayd_free
    /\ due' = Head(adl) /\ daemon' = "wake"
    /\ UNCHANGED <<adl, wake, sems, pc, index, cpu, left>>

\* del_remove, when the wake time of the first node has passed.
Remove ==
    /\ cpu = "up" /\ daemon = "scan"
    /\ headIsDue
    /\ adl' = Tail(adl)
    /\ wake' = [wake EXCEPT ![Head(adl)] = 0]
    /\ delayd_free' = <<Head(adl)>> \o delayd_free
    /\ due' = Head(adl) /\ daemon' = "wake"
    /\ UNCHANGED <<sems, pc, index, cpu, left>>

\* del_remove returns -1 and the daemon waits for the clock again.
NothingDue ==
    /\ cpu = "up" /\ daemon = "scan"
    /\ ~ headIsDue
    /\ daemon' = "clock"
    /\ UNCHANGED <<lists, sems, pc, index, due, cpu, left>>

\* A faulty Wake, for EverySleeperHasACall: the V is skipped when nobody is blocked yet.
WakeBlockedOnly ==
    /\ cpu = "up" /\ daemon = "wake"
    /\ daemon' = "scan" /\ due' = NULL
    /\ \/ /\ sleepers[due] = <<>>
          /\ UNCHANGED <<sems, pc>>
       \/ /\ sleepers[due] # <<>>
          /\ uproc_semaphore' = [uproc_semaphore EXCEPT ![due] = @ + 1]
          /\ pc' = [pc EXCEPT ![Head(sleepers[due])] = "run"]
          /\ sleepers' = [sleepers EXCEPT ![due] = Tail(@)]
    /\ UNCHANGED <<lists, index, cpu, left>>

\* The V of the daemon on the semaphore del_remove returned.
Wake ==
    /\ cpu = "up" /\ daemon = "wake"
    /\ daemon' = "scan" /\ due' = NULL
    /\ uproc_semaphore' = [uproc_semaphore EXCEPT ![due] = @ + 1]
    /\ \/ /\ sleepers[due] = <<>>
          /\ UNCHANGED <<sleepers, pc>>
       \/ /\ sleepers[due] # <<>>
          /\ pc' = [pc EXCEPT ![Head(sleepers[due])] = "run"]
          /\ sleepers' = [sleepers EXCEPT ![due] = Tail(@)]
    /\ UNCHANGED <<lists, index, cpu, left>>

--------------------------------------------------------------------------------

\* A tick less of t; all of the past is -1.
Less(t) == IF t < 0 THEN -1 ELSE t - 1

\* The TOD clock goes on, at any moment.
TimePasses ==
    /\ cpu = "up"
    /\ wake' = [n \in Node |-> IF n \in Members(adl) THEN Less(wake[n]) ELSE wake[n]]
    /\ left' = [u \in UProc |-> IF pc[u] \in {"inserted", "blocked"} THEN Less(left[u]) ELSE left[u]]
    /\ UNCHANGED <<adl, delayd_free, sems, pc, index, daemon, due, cpu>>

\* init(): initADL, the semaphores at 0, and the daemon started.
Init ==
    /\ adl = <<>>
    /\ delayd_free = [i \in 1 .. UPROCMAX |-> i - 1]
    /\ wake = [n \in Node |-> 0]
    /\ uproc_semaphore = [n \in Node |-> 0]
    /\ sleepers = [n \in Node |-> <<>>]
    /\ pc = [u \in UProc |-> "run"]
    /\ index = [u \in UProc |-> NULL]
    /\ daemon = "clock"
    /\ due = NULL
    /\ cpu = "up"
    /\ left = [u \in UProc |-> 0]

Next ==
    \/ \E u \in UProc, secCnt \in 0 .. MaxSec : Delay(u, secCnt)
    \/ \E u \in UProc : Sleep(u) \/ Terminate(u)
    \/ ClockTick \/ Remove \/ NothingDue \/ Wake
    \/ TimePasses

Spec == Init /\ [][Next]_vars

--------------------------------------------------------------------------------
(* Properties *)

\* Every variable keeps its type; a caller past del_insert has a semaphore.
TypeOK ==
    /\ adl \in Seq(Node) /\ delayd_free \in Seq(Node)
    /\ wake \in [Node -> Time] /\ left \in [UProc -> Time]
    /\ uproc_semaphore \in [Node -> Int] /\ sleepers \in [Node -> Seq(UProc)]
    /\ pc \in [UProc -> {"run", "inserted", "blocked", "ended"}]
    /\ index \in [UProc -> Node \cup {NULL}]
    /\ \A u \in UProc : pc[u] \in {"inserted", "blocked"} => index[u] # NULL
    /\ daemon \in {"clock", "scan", "wake"}
    /\ due \in Node \cup {NULL} /\ (daemon = "wake" <=> due # NULL)
    /\ cpu \in {"up", "fatal"}

\* A node has one d_link: it is in the ADL or free, never both, twice or lost.
NodesKept ==
    /\ NoRepeats(adl) /\ NoRepeats(delayd_free)
    /\ Members(adl) \cap Members(delayd_free) = {}
    /\ Members(adl) \cup Members(delayd_free) = Node

\* The callers that have used, or will use, semaphore n and are not back.
Delayed(n) == {u \in UProc : pc[u] \in {"inserted", "blocked"} /\ index[u] = n}

\* The Vs that have come or will come to semaphore n.
WakeUps(n) ==
    Cardinality({m \in Members(adl) : m = n})
    + (IF due = n THEN 1 ELSE 0)
    + (IF uproc_semaphore[n] > 0 THEN uproc_semaphore[n] ELSE 0)

\* No wake-up is lost and none is left over, wherever the daemon overtakes a caller
\* between its del_insert and its P and whoever uses the node next.
EverySleeperHasACall ==
    \A n \in Node :
        /\ Cardinality(Delayed(n)) = WakeUps(n)
        /\ Len(sleepers[n]) = IF uproc_semaphore[n] < 0 THEN -uproc_semaphore[n] ELSE 0

\* The daemon looks at the first node only, and still never goes back to SYS9 while a
\* wake time that has passed is in the ADL.
OverdueServed ==
    [][daemon = "scan" /\ daemon' = "clock" => \A n \in Members(adl) : ~ (wake[n] < 0)]_vars

(* What the documents say and the code does not keep (PROJECT.json, findings) *)

\* "The requesting U-proc is to be delayed at least n seconds" (documents/phase3.pdf,
\* 3.1.5), taking a second for what the code takes for one.
NotEarly ==
    [][\A u \in UProc :
         pc[u] \in {"inserted", "blocked"} /\ pc'[u] = "run" => left[u] <= 0]_vars

================================================================================
