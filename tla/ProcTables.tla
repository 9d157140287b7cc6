------------------------------ MODULE ProcTables -------------------------------
(***************************************************************************)
(* What the lists of the nucleus promise: queues that keep their order, a  *)
(* tree of processes, and processes that are in one place.  It says        *)
(* nothing of links, tail pointers, free lists or semaphore descriptors;   *)
(* module ProcLists implements it with them.                               *)
(***************************************************************************)
EXTENDS ProcQueues

CONSTANTS Pcb, Sem, NULL

VARIABLES
    jobs,       \* the live processes
    children,   \* the children of each, the eldest first
    ready,      \* the ready queue
    waiting,    \* the queue of each semaphore
    running,    \* the running process or NULL
    dying       \* the processes a SYS2 is at work on, each a child of the one before

vars == <<jobs, children, ready, waiting, running, dying>>

Init ==
    /\ \E init \in Pcb : jobs = {init} /\ running = init
    /\ children = [p \in Pcb |-> <<>>]
    /\ ready = <<>>
    /\ waiting = [s \in Sem |-> <<>>]
    /\ dying = <<>>

\* A new process is the youngest child of the running one and the last in line.
Create ==
    /\ running # NULL /\ dying = <<>>
    /\ \E p \in Pcb \ jobs :
         /\ jobs' = jobs \cup {p}
         /\ children' = [children EXCEPT ![running] = Append(@, p)]
         /\ ready' = Append(ready, p)
    /\ UNCHANGED <<waiting, running, dying>>

Block(s) ==
    /\ running # NULL /\ dying = <<>>
    /\ waiting' = [waiting EXCEPT ![s] = Append(@, running)]
    /\ running' = NULL
    /\ UNCHANGED <<jobs, children, ready, dying>>

\* The first waiter becomes ready.
Wake(s) ==
    /\ waiting[s] # <<>> /\ dying = <<>>
    /\ ready' = Append(ready, Head(waiting[s]))
    /\ waiting' = [waiting EXCEPT ![s] = Tail(@)]
    /\ UNCHANGED <<jobs, children, running, dying>>

\* The running process goes to the end of the line, or there was none; the first runs.
Dispatch ==
    /\ dying = <<>>
    /\ LET line == IF running = NULL THEN ready ELSE Append(ready, running)
       IN  /\ line # <<>>
           /\ running' = Head(line)
           /\ ready' = Tail(line)
    /\ UNCHANGED <<jobs, children, waiting, dying>>

Kill(target) ==
    /\ running # NULL /\ dying = <<>>
    /\ target \in jobs
    /\ dying' = <<target>>
    /\ UNCHANGED <<jobs, children, ready, waiting, running>>

\* The process at work on.
last == dying[Len(dying)]

\* Its eldest child is next.
Descend ==
    /\ dying # <<>> /\ children[last] # <<>>
    /\ dying' = Append(dying, Head(children[last]))
    /\ children' = [children EXCEPT ![last] = Tail(@)]
    /\ UNCHANGED <<jobs, ready, waiting, running>>

\* A process without children leaves whatever it is in.
Bury ==
    /\ dying # <<>> /\ children[last] = <<>>
    /\ jobs' = jobs \ {last}
    /\ children' = [p \in Pcb |-> Without(children[p], {last})]
    /\ ready' = Without(ready, {last})
    /\ waiting' = [s \in Sem |-> Without(waiting[s], {last})]
    /\ running' = IF running = last THEN NULL ELSE running
    /\ dying' = SubSeq(dying, 1, Len(dying) - 1)

Next ==
    \/ Create \/ Dispatch \/ Descend \/ Bury
    \/ \E s \in Sem : Block(s) \/ Wake(s)
    \/ \E target \in Pcb : Kill(target)

Spec == Init /\ [][Next]_vars

================================================================================
