-------------------------------- MODULE Nucleus --------------------------------
(***************************************************************************)
(* The nucleus: process table and process tree (pcb.c), semaphore          *)
(* descriptors (asl.c), services SYS1-SYS3 and SYS8-SYS11 (syscalls.c),    *)
(* exception entry and pass-up (exceptions.c), device and timer interrupts *)
(* (devices.c) and the scheduler (scheduler.c).                            *)
(*                                                                         *)
(* There is one CPU and every exception handler runs with interrupts       *)
(* masked and ends in scheduler(), so one handler, from its entry to the   *)
(* LDST, WAIT, HALT or PANIC that ends it, is one step.  What interleaves  *)
(* is the order in which processes request services, devices complete and  *)
(* the timer fires.                                                        *)
(*                                                                         *)
(* The procedures of the nucleus are operators from a kernel record to a   *)
(* kernel record, so that a handler composes them as the code does, the    *)
(* trailing scheduler() included.                                          *)
(***************************************************************************)
EXTENDS Integers, ProcQueues

CONSTANTS
    Pcb,        \* pcbs[MAXPROC]
    Semd,       \* semdTable[MAXPROC]
    Sem,        \* integers some process uses as a semaphore with SEMOP
    Device,     \* disks, tapes and printers, each with its semaphore
    Terminal,   \* terminals, each a transmitter and a receiver with a semaphore of its own
    Clock,      \* semaphores.pseudo_clock
    Weights,    \* absolute values of the weights processes pass to SEMOP
    MaxWeight,  \* their largest
    InitValue,  \* value of the semaphores in Sem when the nucleus starts
    MaxValue,   \* bound of the model: a V that lifts a semaphore above it is not taken
    MaxSoft,    \* bound of the model: nobody blocks on a device at this soft_block_c
    NULL

\* dev_term_trs and dev_term_rcv of a terminal.
Transmitter(t) == <<t, "transm">>
Receiver(t) == <<t, "recv">>

IODevice == Device \cup Terminal \X {"transm", "recv"}
DeviceSem == IODevice \cup {Clock}    \* the words of devices_sem_t
AllSem == Sem \cup DeviceSem

ASSUME NucleusAssumption ==
    /\ IsFiniteSet(Pcb) /\ Pcb # {}
    /\ IsFiniteSet(Semd) /\ Cardinality(Semd) = Cardinality(Pcb)
    /\ Clock \notin IODevice /\ Sem \cap DeviceSem = {}
    /\ NULL \notin Pcb \cup Semd \cup AllSem
    /\ MaxWeight \in Nat \ {0} /\ Weights \subseteq 1 .. MaxWeight
    /\ InitValue \in Nat /\ MaxValue \in Nat /\ MaxSoft \in Nat

VARIABLES
    kernel,             \* process table, queues, semaphores and counters
    current_process,    \* the running process, NULL while the CPU waits
    cpu,                \* what the last handler left the CPU doing
    busy                \* external: a device works on a command or holds its interrupt up

vars == <<kernel, current_process, cpu, busy>>

Kernel ==
    [jobs               : SUBSET Pcb,            \* allocated pcbs; pcbFree is the rest
     p_parent           : [Pcb -> Pcb \cup {NULL}],
     p_cursem           : [Pcb -> Semd \cup {NULL}],
     p_resources_needed : [Pcb -> 0 .. MaxWeight],
     ready_queue        : Seq(Pcb),
     sem                : [AllSem -> Int],       \* the words the s_semAdd point to
     aslh               : SUBSET Semd,           \* active descriptors; semdFree is the rest
     s_semAdd           : [Semd -> AllSem \cup {NULL}],
     s_procq            : [Semd -> Seq(Pcb)],
     process_c          : Int,
     soft_block_c       : Int]

--------------------------------------------------------------------------------
(* asl.c *)

\* The active descriptor of semaphore s, as a set of at most one.
searchAsl(k, s) == {d \in k.aslh : k.s_semAdd[d] = s}

\* The processes blocked on s.
Blocked(k, s) == UNION {Members(k.s_procq[d]) : d \in searchAsl(k, s)}

\* A faulty Enqueue, for FirstComeFirstServed: insertProcQPriority instead of insertProcQ.
EnqueueFirst(k, p, d) ==
    [k EXCEPT !.s_procq[d] = <<p>> \o @, !.p_cursem[p] = d]

Enqueue(k, p, d) ==
    [k EXCEPT !.s_procq[d] = Append(@, p), !.p_cursem[p] = d]

\* The kernels insertBlocked may return: whichever free descriptor it takes, and k
\* itself when there is none (the TRUE it returns is ignored by its caller).
insertBlocked(k, s, p) ==
    IF searchAsl(k, s) # {} THEN {Enqueue(k, p, d) : d \in searchAsl(k, s)}
    ELSE IF k.aslh = Semd THEN {k}
    ELSE {Enqueue([k EXCEPT !.aslh = @ \cup {d}, !.s_semAdd[d] = s,
                            !.s_procq[d] = <<>>], p, d) : d \in Semd \ k.aslh}

\* A faulty releaseSemd, for CantHide: the queue is not tested for emptiness.
releaseSemdAlways(aslh, d, n, rest) == IF n > 0 THEN aslh \ {d} ELSE aslh

\* removeBlocked, after n processes left the queue of d and rest stayed: a descriptor
\* whose last process leaves is freed.
releaseSemd(aslh, d, n, rest) == IF n > 0 /\ rest = <<>> THEN aslh \ {d} ELSE aslh

--------------------------------------------------------------------------------
(* syscalls.c *)

\* A faulty isDeviceSem, for NoFalseDeadlock: an open lower bound, which misses
\* pseudo_clock, the first word of the struct.
isDeviceSemOpen(s) == s \in IODevice

\* The address range test for soft_block_c.
isDeviceSem(s) == s \in DeviceSem

\* The resource units the processes of procs still wait for.
Demand(k, procs) ==
    Cardinality({u \in procs \X (1 .. MaxWeight) : u[2] <= k.p_resources_needed[u[1]]})

\* A faulty Satisfied, for ImplementsServices: the loop ends with the first process.
SatisfiedOne(k, q, w) ==
    IF q # <<>> /\ Demand(k, {Head(q)}) <= w THEN 1 ELSE 0

\* How many processes at the head of q a V of weight w satisfies: those whose
\* needs, added to the needs of the ones before them, do not exceed w.
Satisfied(k, q, w) ==
    Cardinality({n \in 1 .. Len(q) : Demand(k, Members(SubSeq(q, 1, n))) <= w})

\* A faulty stillNeeded, for KillKeepsUnits: a released process keeps its need.
stillNeededKept(k, woken, rest, left) ==
    [p \in Pcb |-> IF rest # <<>> /\ p = Head(rest)
                   THEN k.p_resources_needed[p] - left ELSE k.p_resources_needed[p]]

\* p_resources_needed when the processes of woken were released and left units remain
\* for the head of rest.
stillNeeded(k, woken, rest, left) ==
    [p \in Pcb |-> IF p \in woken THEN 0
                   ELSE IF rest # <<>> /\ p = Head(rest) THEN k.p_resources_needed[p] - left
                   ELSE k.p_resources_needed[p]]

\* The loop of SEMOP for weight w > 0 over the queue of descriptor d: it releases the
\* head while w covers its need, and leaves what remains of w to the next one.
wakeUp(k, s, d, w) ==
    LET q     == k.s_procq[d]
        n     == Satisfied(k, q, w)
        woken == Members(SubSeq(q, 1, n))
        rest  == SubSeq(q, n + 1, Len(q))
    IN  [k EXCEPT
           !.ready_queue = @ \o SubSeq(q, 1, n),
           !.s_procq[d] = rest,
           !.aslh = releaseSemd(@, d, n, rest),
           !.p_resources_needed = stillNeeded(k, woken, rest, w - Demand(k, woken)),
           !.soft_block_c = IF isDeviceSem(s) THEN @ - n ELSE @]

\* sys3_SEMOP with weight w > 0.
V(k, s, w) ==
    LET raised == [k EXCEPT !.sem[s] = @ + w]
    IN  IF searchAsl(k, s) = {} THEN raised
        ELSE wakeUp(raised, s, CHOOSE d \in searchAsl(k, s) : TRUE, w)

\* A faulty Family, for FamilyTree: the children, not their children.
FamilyOneLevel(k, target) == {p \in k.jobs : target \in {p, k.p_parent[p]}}

\* target and its progeny: the least set with target that is closed under children.
Family(k, target) ==
    {p \in k.jobs : \A S \in SUBSET k.jobs :
        /\ target \in S
        /\ \A c \in k.jobs : k.p_parent[c] \in S => c \in S
        => p \in S}

\* A faulty returned, for CreditOK: the dead leave their debt on the semaphore.
returnedNever(k, F) == k.sem

\* The semaphores after each process of F gave back what it still needs, through its
\* p_cursem.  That pointer is stale, and the need 0, in a process that is not blocked.
returned(k, F) ==
    [s \in AllSem |-> k.sem[s] + Demand(k,
        {p \in F : k.p_cursem[p] # NULL /\ k.s_semAdd[k.p_cursem[p]] = s})]

\* terminateFamily.  Descriptors that lose their last process stay in the ASL, and
\* soft_block_c is not adjusted.  The memset with which allocPcb wipes a pcb is done
\* here: nothing reads a free pcb.
terminateFamily(k, target) ==
    LET F == Family(k, target)
    IN  [k EXCEPT
           !.jobs = @ \ F,
           !.process_c = @ - Cardinality(F),
           !.ready_queue = Without(@, F),
           !.sem = returned(k, F),
           !.s_procq = [d \in Semd |->
               Without(k.s_procq[d], {p \in F : k.p_cursem[p] = d})],
           !.p_parent = [p \in Pcb |-> IF p \in F THEN NULL ELSE k.p_parent[p]],
           !.p_cursem = [p \in Pcb |-> IF p \in F THEN NULL ELSE k.p_cursem[p]],
           !.p_resources_needed =
               [p \in Pcb |-> IF p \in F THEN 0 ELSE k.p_resources_needed[p]]]

\* allocPcb, insertChild and insertProcQ of sys1_CREATEPROCESS.
spawn(k, parent, child) ==
    [k EXCEPT !.jobs = @ \cup {child}, !.process_c = @ + 1,
              !.p_parent[child] = parent, !.ready_queue = Append(@, child)]

--------------------------------------------------------------------------------
(* scheduler.c *)

\* A faulty pseudoTick, for ClockWakes: it tests the wrong sign.
pseudoTickPositive(k) == IF k.sem[Clock] > 0 THEN V(k, Clock, k.sem[Clock]) ELSE k

\* A pseudo-clock tick: in handleTimer, and in scheduler() for one that came due while
\* interrupts were masked.
pseudoTick(k) == IF k.sem[Clock] < 0 THEN V(k, Clock, -k.sem[Clock]) ELSE k

\* The orders the ready processes can be in after scheduler() has sent back, one after
\* the other, those with 1..10 microseconds of slice left.  Slices are abstracted here:
\* any number of processes at the head may be sent back.
Turns(q) == {q} \cup {Rotate(q, n) : n \in 1 .. Len(q) - 1}

\* A faulty stop, for HaltIffEmpty: the deadlock test comes first.
stopDeadlockFirst(k) ==
    IF k.soft_block_c = 0 THEN "deadlock" ELSE IF k.process_c = 0 THEN "halted" ELSE "waiting"

\* What scheduler() does with nobody to run: HALT, PANIC or WAIT.
stop(k) ==
    IF k.process_c = 0 THEN "halted" ELSE IF k.soft_block_c = 0 THEN "deadlock" ELSE "waiting"

\* The end of scheduler(): run the first ready process or stop the CPU.
dispatch(k) ==
    IF k.ready_queue # <<>>
    THEN /\ kernel' = [k EXCEPT !.ready_queue = Tail(@)]
         /\ current_process' = Head(k.ready_queue)
         /\ cpu' = "running"
    ELSE /\ kernel' = k
         /\ current_process' = NULL
         /\ cpu' = stop(k)

\* scheduler() entered with c running (NULL: nobody), who stays at the head of the line
\* unless it is sent back.  A tick can come due before any of the recursive calls; one
\* that finds nobody on the clock changes nothing here.
scheduler(k, c) ==
    \E line \in Turns((IF c = NULL THEN <<>> ELSE <<c>>) \o k.ready_queue) :
        LET lined  == [k EXCEPT !.ready_queue = line]
            ticked == pseudoTick(lined)
        IN  \/ dispatch(lined)
            \/ /\ k.sem[Clock] < 0
               /\ \E q \in Turns(ticked.ready_queue) :
                      dispatch([ticked EXCEPT !.ready_queue = q])

--------------------------------------------------------------------------------
(* excHandleSYSBP, excHandleTLB, excHandlePGMT: what the running process may do *)

\* The calls that leave the kernel as it is: SYS8, SYS11, a SYS2 of a pid that findPcb
\* does not know, and an exception passed up to a handler the process has installed.
NoEffect ==
    /\ cpu = "running"
    /\ scheduler(kernel, current_process)
    /\ UNCHANGED busy

\* sys1_CREATEPROCESS; without a free pcb the caller gets -1.
CreateProcess ==
    /\ cpu = "running"
    /\ \/ /\ kernel.jobs = Pcb
          /\ scheduler(kernel, current_process)
       \/ \E child \in Pcb \ kernel.jobs :
             scheduler(spawn(kernel, current_process, child), current_process)
    /\ UNCHANGED busy

\* A faulty survivor, for TypeOK: current_process is not cleared.
survivorKept(target) == current_process

\* Who runs when target and its progeny are dead.
survivor(target) == IF target = current_process THEN NULL ELSE current_process

\* sys2_TERMINATEPROCESS of the caller (pid 0) or of a live process; also the end of a
\* process by SEMOP with weight 0, a service number below 1, or an exception it has no
\* handler for.  A process does not name its ancestors: that would free the pcb that is
\* running, and SYS2 is defined for the caller and its progeny.
TerminateProcess(target) ==
    /\ cpu = "running"
    /\ target \in kernel.jobs
    /\ target # current_process => current_process \notin Family(kernel, target)
    /\ scheduler(terminateFamily(kernel, target), survivor(target))
    /\ UNCHANGED busy

\* A faulty P, for UnitAccounting: it blocks only if the value was negative before.
POldValue(s, w) ==
    LET p       == current_process
        lowered == [kernel EXCEPT !.sem[s] = @ - w]
    IN  \/ kernel.sem[s] >= 0 /\ scheduler(lowered, p)
        \/ /\ kernel.sem[s] < 0
           /\ \E k \in insertBlocked([lowered EXCEPT !.p_resources_needed[p] = w], s, p) :
                 scheduler(k, NULL)

\* sys3_SEMOP with weight -w, by the running process.
P(s, w) ==
    LET p       == current_process
        lowered == [kernel EXCEPT !.sem[s] = @ - w]
        blocked == [lowered EXCEPT
                      !.p_resources_needed[p] = w,
                      !.soft_block_c = IF isDeviceSem(s) THEN @ + 1 ELSE @]
    IN  \/ /\ lowered.sem[s] >= 0
           /\ scheduler(lowered, p)
        \/ /\ lowered.sem[s] < 0
           /\ \E k \in insertBlocked(blocked, s, p) : scheduler(k, NULL)

\* SYS3 on an ordinary semaphore.
SemP(s, w) ==
    /\ cpu = "running"
    /\ P(s, w)
    /\ UNCHANGED busy

SemV(s, w) ==
    /\ cpu = "running"
    /\ kernel.sem[s] + w <= MaxValue
    /\ scheduler(V(kernel, s, w), current_process)
    /\ UNCHANGED busy

\* sys9_WAITCLOCK.
WaitClock ==
    /\ cpu = "running"
    /\ kernel.soft_block_c < MaxSoft
    /\ P(Clock, 1)
    /\ UNCHANGED busy

\* A faulty IODevOp, for IOCompletes: the command comes after the P, so never.
IODevOpAfter(d) ==
    /\ cpu = "running"
    /\ P(d, 1)
    /\ UNCHANGED busy

\* sys10_IODEVOP: the command is written before the caller blocks.  Its fatal() for the line
\* that has no devices is left out: no call in the system names it.
IODevOp(d) ==
    /\ cpu = "running"
    /\ kernel.soft_block_c < MaxSoft
    /\ busy' = [busy EXCEPT ![d] = TRUE]
    /\ P(d, 1)

--------------------------------------------------------------------------------
(* excHandleInterrupt *)

\* handleTimer, with or without a pseudo-clock tick; without, a slice is over.
TimerInterrupt(tick) ==
    /\ cpu \in {"running", "waiting"}
    /\ scheduler(IF tick THEN pseudoTick(kernel) ELSE kernel, current_process)
    /\ UNCHANGED busy

\* fatal(): the kernel stays as the handler found it, and nothing runs after PANIC.
fatal ==
    /\ cpu' = "fatal"
    /\ UNCHANGED <<kernel, current_process, busy>>

\* handleDevice: V the semaphore of the device and acknowledge.
DeviceInterrupt(d) ==
    /\ cpu \in {"running", "waiting"}
    /\ busy[d]
    /\ \/ /\ Blocked(kernel, d) # {}
          /\ busy' = [busy EXCEPT ![d] = FALSE]
          /\ scheduler(V(kernel, d, 1), current_process)
       \/ /\ Blocked(kernel, d) = {}
          /\ fatal

\* V for a sub-device of a terminal that is done, if somebody waits for it.
completed(k, d, done) == IF d \in done /\ Blocked(k, d) # {} THEN V(k, d, 1) ELSE k

\* A handleTerminal that finds one half of the terminal still working gives up, and so
\* does one that finds nobody waiting for a transmission.
Unexpected(t, done) ==
    \/ \E d \in {Transmitter(t), Receiver(t)} \ done : busy[d]
    \/ Transmitter(t) \in done /\ Blocked(kernel, Transmitter(t)) = {}

\* handleTerminal, for a terminal whose halves in done have completed their command.  A
\* character received for nobody is left unacknowledged.
TerminalInterrupt(t, done) ==
    /\ cpu \in {"running", "waiting"}
    /\ \A d \in done : busy[d]
    /\ \/ /\ Unexpected(t, done)
          /\ fatal
       \/ /\ ~ Unexpected(t, done)
          /\ busy' = [d \in IODevice |->
                        IF d \in done /\ Blocked(kernel, d) # {} THEN FALSE ELSE busy[d]]
          /\ scheduler(completed(completed(kernel, Transmitter(t), done), Receiver(t), done),
                       current_process)

--------------------------------------------------------------------------------
\* main(): the tables are empty, the init process is created and scheduled.
Init ==
    /\ \E init \in Pcb :
         /\ current_process = init
         /\ kernel =
              [jobs               |-> {init},
               p_parent           |-> [p \in Pcb |-> NULL],
               p_cursem           |-> [p \in Pcb |-> NULL],
               p_resources_needed |-> [p \in Pcb |-> 0],
               ready_queue        |-> <<>>,
               sem                |-> [s \in AllSem |-> IF s \in Sem THEN InitValue ELSE 0],
               aslh               |-> {},
               s_semAdd           |-> [d \in Semd |-> NULL],
               s_procq            |-> [d \in Semd |-> <<>>],
               process_c          |-> 1,
               soft_block_c       |-> 0]
    /\ cpu = "running"
    /\ busy = [d \in IODevice |-> FALSE]

\* What of a terminal can be done when it interrupts.
Halves(t) == SUBSET {Transmitter(t), Receiver(t)} \ {{}}

Next ==
    \/ NoEffect
    \/ CreateProcess
    \/ \E target \in Pcb : TerminateProcess(target)
    \/ \E s \in Sem, w \in Weights : SemP(s, w)
    \/ \E s \in Sem, w \in Weights : SemV(s, w)
    \/ WaitClock
    \/ \E d \in IODevice : IODevOp(d)
    \/ \E tick \in BOOLEAN : TimerInterrupt(tick)
    \/ \E d \in Device : DeviceInterrupt(d)
    \/ \E t \in Terminal : \E done \in Halves(t) : TerminalInterrupt(t, done)

Spec == Init /\ [][Next]_vars

\* Time passes and devices answer.  scheduler() sets the interval timer to at most the
\* next tick each time it gives up the CPU, and a device that was sent a command raises
\* its interrupt until it is acknowledged.  Nothing is assumed of the processes.
Fairness ==
    /\ WF_vars(TimerInterrupt(TRUE))
    /\ \A d \in Device : WF_vars(DeviceInterrupt(d))
    /\ \A t \in Terminal : \A d \in {Transmitter(t), Receiver(t)} :
          WF_vars(\E done \in Halves(t) : d \in done /\ TerminalInterrupt(t, done))

--------------------------------------------------------------------------------
(* Properties *)

\* Every variable keeps its type; the CPU runs a live process or nobody.
TypeOK ==
    /\ kernel \in Kernel
    /\ current_process \in kernel.jobs \cup {NULL}
    /\ cpu \in {"running", "waiting", "halted", "deadlock", "fatal"}
    /\ busy \in [IODevice -> BOOLEAN]

\* The blocked processes a V can find.
Blockeds == UNION {Blocked(kernel, s) : s \in AllSem}

\* No process of kernel k, with c running, is on two queues, twice on one, or on one
\* while it runs, and every queued process is a live one.
QueuesOK(k, c) ==
    /\ NoRepeats(k.ready_queue)
    /\ Members(k.ready_queue) \subseteq k.jobs \ {c}
    /\ \A d \in Semd :
         /\ NoRepeats(k.s_procq[d])
         /\ Members(k.s_procq[d]) \subseteq k.jobs \ ({c} \cup Members(k.ready_queue))
         /\ \A e \in Semd \ {d} : Members(k.s_procq[d]) \cap Members(k.s_procq[e]) = {}

\* A pcb has one link, p_list, for whatever queue it is on, so it is on at most one.
OneQueue == QueuesOK(kernel, current_process)

\* "Processes can't hide": a live process runs, is ready, or is blocked on a semaphore
\* that a V can find (documents/phase2.pdf, 3.7.4).  It holds while there is a descriptor
\* for every semaphore; with fewer, those that killing leaves empty are missed.
CantHide ==
    \A p \in kernel.jobs :
        \/ p = current_process
        \/ p \in Members(kernel.ready_queue)
        \/ p \in Blockeds

\* The live processes are one tree under the init process, so that SYS2 of init ends
\* them all and no process is left behind by the death of its parent; process_c counts them.
FamilyTree ==
    /\ kernel.process_c = Cardinality(kernel.jobs)
    /\ kernel.jobs # {} =>
         \E init \in kernel.jobs :
            /\ kernel.p_parent[init] = NULL
            /\ Family(kernel, init) = kernel.jobs

\* No unit of a semaphore is made up or granted twice by P, V, partial grants and the
\* adjustment of terminateFamily: with what is still owed to its waiters added back, a
\* semaphore is never negative.
CreditOK ==
    \A s \in AllSem : kernel.sem[s] + Demand(kernel, Blocked(kernel, s)) >= 0

\* The semaphores on which every operation has weight 1.
UnitSem == {s \in AllSem : s \in Sem => MaxWeight = 1}

\* With weights of 1 the value of a semaphore says exactly who waits: nobody when it is
\* not negative, otherwise as many as its absolute value.  No wake-up is lost, and
\* nobody overtakes a waiter.
UnitAccounting ==
    \A s \in UnitSem :
        Cardinality(Blocked(kernel, s)) = IF kernel.sem[s] < 0 THEN -kernel.sem[s] ELSE 0

\* scheduler() panics for a deadlock only when nothing can wake anybody: no process is
\* ready and none waits for a device or for the clock.
NoFalseDeadlock ==
    cpu = "deadlock" => /\ kernel.ready_queue = <<>>
                        /\ \A s \in DeviceSem : Blocked(kernel, s) = {}

\* The system halts when, and only when, no process is left.
HaltIffEmpty == cpu = "halted" <=> kernel.jobs = {}

\* a is ahead of b in the queue of one semaphore of kernel k.
Ahead(k, a, b) ==
    \E d \in k.aslh : \E i, j \in 1 .. Len(k.s_procq[d]) :
        i < j /\ k.s_procq[d][i] = a /\ k.s_procq[d][j] = b

\* A semaphore serves its waiters in the order they came: who blocks queues up behind
\* those already there, and when b is released, whoever was ahead of it has left too.
FirstComeFirstServed ==
    [][\A a, b \in Pcb :
          /\ Ahead(kernel', b, a) => Ahead(kernel, b, a) \/ a \notin Blockeds
          /\ Ahead(kernel, a, b) /\ b \in kernel'.jobs /\ b \notin Blockeds' =>
                a \notin Blockeds'
      ]_vars

\* Killing processes neither makes units of an ordinary semaphore nor destroys them: the
\* value plus the units its waiters still need is the same before and after, also when one
\* of the dead, or of those left, has part of its units.  A tick the handler meets on its
\* way out does not change that.  Nothing is said of the semaphores of the devices and of
\* the clock: terminateFamily adjusts them too, and documents/phase2.pdf, 3.7.4, says they
\* should not be.
KillKeepsUnits ==
    [][kernel'.process_c < kernel.process_c =>
          \A s \in Sem :
             kernel'.sem[s] + Demand(kernel', Blocked(kernel', s)) =
             kernel.sem[s] + Demand(kernel, Blocked(kernel, s))]_vars

Abstract == INSTANCE Services WITH
    live    <- kernel.jobs,
    parent  <- kernel.p_parent,
    value   <- kernel.sem,
    waiting <- [s \in AllSem |-> IF searchAsl(kernel, s) = {} THEN <<>>
                                 ELSE kernel.s_procq[CHOOSE d \in searchAsl(kernel, s) : TRUE]],
    need    <- kernel.p_resources_needed,
    Sem     <- AllSem,
    Weights <- Weights \cup {1}

\* Descriptors, queues, stale pointers and the scheduler do what the services promise: no
\* process that waits acts, a weight is as many units, the clock serves all its waiters,
\* and the dead take back what they still needed.  It holds while there is a descriptor
\* for every semaphore (see CantHide).
ImplementsServices == Abstract!Spec

\* A process that waits for the pseudo-clock stops waiting, by the next tick or by being
\* killed, whatever the other processes do, unless a handler stops the system first.
ClockWakes ==
    \A p \in Pcb :
        p \in Blocked(kernel, Clock) ~> p \notin Blocked(kernel, Clock) \/ cpu = "fatal"

\* A process that waits for a device stops waiting: its interrupt is not used up by, or
\* lost to, another process.
IOCompletes ==
    \A p \in Pcb, d \in IODevice :
        p \in Blocked(kernel, d) ~> p \notin Blocked(kernel, d) \/ cpu = "fatal"

================================================================================
