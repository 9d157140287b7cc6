-------------------------------- MODULE CpuTime --------------------------------
(***************************************************************************)
(* Who has the CPU and for how long: scheduler() with its time slices      *)
(* (scheduler.c) and the times charged to a process (exceptions.c).        *)
(*                                                                         *)
(* The operators here are the part of an exception or an interrupt that    *)
(* deals with time, from its beginning to the LDST or the WAIT at its end; *)
(* module Exceptions adds what else happens.  Time goes on in units of     *)
(* which the slice has a few.  The tick of the pseudo clock, module        *)
(* Nucleus, is one of the interrupts, which may come at any time.          *)
(***************************************************************************)
EXTENDS Integers, Sequences, FiniteSets, FiniteSetsExt

CONSTANTS
    Proc,
    SCHED_TIME_SLICE,
    Almost,     \* a slice with no more than this left is almost finished
    Late,       \* the handler reads the clock at most this late after the timer expired
    Busy,       \* bound of the model: the time a handler takes
    MaxTime,    \* bound of the model: when the clock stops
    NULL

ASSUME CpuTimeAssumption ==
    /\ IsFiniteSet(Proc) /\ NULL \notin Proc
    /\ SCHED_TIME_SLICE \in Nat /\ Almost \in Nat /\ Almost < SCHED_TIME_SLICE
    /\ Late \in Nat /\ Busy \in Nat /\ MaxTime \in Nat

VARIABLES
    current_process,
    ready_queue,
    now,            \* getTODLO(), from the start of the nucleus
    last_ldst,      \* when the running process got the CPU
    p_usr_time, p_sys_time, p_slice_time

timeVars == <<current_process, ready_queue, now, last_ldst, p_usr_time, p_sys_time, p_slice_time>>

TimeTypeOK ==
    /\ current_process \in Proc \cup {NULL}
    /\ ready_queue \in Seq(Proc)
    /\ now \in 0 .. MaxTime /\ last_ldst \in 0 .. now
    /\ p_usr_time \in [Proc -> 0 .. MaxTime] /\ p_sys_time \in [Proc -> 0 .. MaxTime]
    /\ p_slice_time \in [Proc -> - MaxTime .. SCHED_TIME_SLICE]

\* schedStart(), for the first process; the others are made later.
TimeInit(first) ==
    /\ current_process = first
    /\ ready_queue = <<>>
    /\ now = 0 /\ last_ldst = 0
    /\ p_usr_time = [p \in Proc |-> 0] /\ p_sys_time = [p \in Proc |-> 0]
    /\ p_slice_time = [p \in Proc |-> IF p = first THEN SCHED_TIME_SLICE ELSE 0]

--------------------------------------------------------------------------------
\* How many processes at the head of the line are sent to its end.
skipped(line, left) ==
    CHOOSE n \in 0 .. Len(line) :
        /\ \A i \in 1 .. n : left[line[i]] \in 1 .. Almost
        /\ n < Len(line) => left[line[n + 1]] \notin 1 .. Almost

\* The line once those are at its end; if everybody is, it is as it was.
turned(line, left) ==
    LET n == skipped(line, left)
    IN  SubSeq(line, n + 1, Len(line)) \o SubSeq(line, 1, n)

\* A faulty renewed, for TimerPositive: who used more than the slice gets no new one.
renewedOverrun(p, line, left) ==
    \/ p = turned(line, left)[1] /\ left[p] = 0
    \/ \E i \in 1 .. skipped(line, left) : line[i] = p

\* Who gets a new slice: who is to run with nothing left, and who was sent to the end.
renewed(p, line, left) ==
    \/ p = turned(line, left)[1] /\ left[p] <= 0
    \/ \E i \in 1 .. skipped(line, left) : line[i] = p

\* A faulty ldst, for ChargedOnce: the time is taken only when the process changes.
ldstOfNext(p, time) == IF p = current_process THEN last_ldst ELSE time

\* When p, that is to run, is loaded.
ldst(p, time) == time

\* scheduler(), line being the running process if it can go on, then the ready queue.  A
\* process whose slice is used up goes on with a new one; one whose slice almost is gets a new
\* one too, but at the end of the line.  If there is nobody, the CPU waits or stops.
scheduler(line, left, time) ==
    IF line = <<>>
    THEN /\ current_process' = NULL /\ ready_queue' = <<>>
         /\ p_slice_time' = left /\ last_ldst' = last_ldst
    ELSE /\ current_process' = Head(turned(line, left))
         /\ ready_queue' = Tail(turned(line, left))
         /\ p_slice_time' = [p \in Proc |->
                IF renewed(p, line, left) THEN SCHED_TIME_SLICE ELSE left[p]]
         /\ last_ldst' = ldst(current_process', time)

\* How long the running process may go on before an exception: the timer ends its slice.
Runs == 0 .. p_slice_time[current_process] + Late

\* The handler of an exception starts at exc_start and takes time, after which line can run.
\* A process that it freed has no pid, so that update_sys_time leaves it alone.
Exception(exc_start, time, freed, line) ==
    LET p    == current_process
        usr  == exc_start - last_ldst
        sys  == IF freed THEN 0 ELSE time
    IN  /\ exc_start + time <= MaxTime
        /\ now' = exc_start + time
        /\ p_usr_time' = [p_usr_time EXCEPT ![p] = @ + usr]
        /\ p_sys_time' = [p_sys_time EXCEPT ![p] = @ + sys]
        /\ scheduler(line, [p_slice_time EXCEPT ![p] = @ - usr - sys], now')

\* An interrupt is not charged to anybody, but the time before it is, to who was running.
Interrupted(exc_start, time, woken) ==
    LET p    == current_process
        used == exc_start - last_ldst
    IN  /\ exc_start + time <= MaxTime
        /\ now' = exc_start + time
        /\ UNCHANGED p_sys_time
        /\ IF p = NULL
           THEN /\ UNCHANGED p_usr_time
                /\ scheduler(ready_queue \o woken, p_slice_time, now')
           ELSE /\ p_usr_time' = [p_usr_time EXCEPT ![p] = @ + used]
                /\ scheduler(<<p>> \o ready_queue \o woken,
                             [p_slice_time EXCEPT ![p] = @ - used], now')

--------------------------------------------------------------------------------
charged(p) == p_usr_time[p] + p_sys_time[p]

\* No time is charged twice: what SYS8 reports for all processes together never exceeds the
\* time since the start, whoever blocked, died, was interrupted or waited in between.
ChargedOnce == MapThenSumSet(charged, Proc) <= now

\* A process that has the CPU has more than a few microseconds of a slice before it, and no
\* more than a slice: p_slice_time, which is signed, goes to setTIMER as unsigned.
TimerPositive ==
    current_process # NULL =>
        p_slice_time[current_process] \in Almost + 1 .. SCHED_TIME_SLICE

================================================================================
