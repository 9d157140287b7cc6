------------------------------- MODULE ProcLists -------------------------------
(***************************************************************************)
(* The tables of the nucleus with their links: pcb.c and asl.c over the    *)
(* lists of module Clist, used the way syscalls.c and scheduler.c use      *)
(* them.  Module Nucleus has sequences and sets in their place.            *)
(*                                                                         *)
(* The nucleus runs with interrupts masked.  terminateFamily is several    *)
(* steps here, one for each process it comes to, and nothing else happens  *)
(* meanwhile.                                                              *)
(***************************************************************************)
EXTENDS Integers, ProcQueues, Clist

CONSTANTS
    Pcb,    \* pcbs[MAXPROC]
    Semd,   \* semdTable[MAXPROC]
    Sem     \* the addresses of semaphores

p_children(p) == <<"p_children", p>>

\* Lists, pcbs and descriptors are at different addresses.
ASSUME ProcListsAssumption ==
    /\ IsFiniteSet(Pcb) /\ Pcb # {} /\ IsFiniteSet(Semd)
    /\ Sem \subseteq Nat
    /\ NULL \notin Pcb \cup Semd /\ Pcb \cap Semd = {}
    /\ {"pcbFree", "ready_queue", "jobs"} \cap (Pcb \cup Semd) = {}
    /\ {"aslh", "semdFree"} \cap Semd = {}
    /\ \A p \in Pcb : p_children(p) \notin Pcb

VARIABLES
    p_list,      \* links of pcbFree, ready_queue, the s_procq of each descriptor, and the pcbs
    p_jobs,      \* links of jobs and the pcbs
    p_siblings,  \* links of the p_children of each pcb, and the pcbs
    s_link,      \* links of aslh, semdFree and the descriptors
    p_parent, p_cursem, s_semAdd,
    process_c, current_process,
    calls,       \* the calls of terminateFamily that have not returned
    version      \* "final", or "phase 1" for the old lists of module PhaseLists

links == <<p_list, p_jobs, p_siblings, s_link>>
fields == <<p_parent, p_cursem, s_semAdd>>
vars == <<links, fields, process_c, current_process, calls, version>>

--------------------------------------------------------------------------------
(* pcb.c *)

\* A process in the table, as findPcb finds it by its pid.
found(p) == isIn(p_jobs, p, "jobs")

\* removeProcQ and outProcQ clear the link of what they take out.
removeProcQ(m, q) == [clist_dequeue(m, q) EXCEPT ![clist_head(m, q)] = NULL]
outProcQ(m, q, p) == IF isIn(m, p, q) THEN [clist_delete(m, p, q) EXCEPT ![p] = NULL] ELSE m

emptyChild(p) == clist_empty(p_siblings, p_children(p))

\* A faulty outChild, for ImplementsTables: the parent is forgotten, the link is not.
outChildParent(p) == p_siblings

\* The p_siblings after outChild.
outChild(p) ==
    IF p_parent[p] = NULL THEN p_siblings
    ELSE [clist_delete(p_siblings, p, p_children(p_parent[p])) EXCEPT ![p] = NULL]

--------------------------------------------------------------------------------
(* asl.c *)

searchAsl(s) == {d \in Semd : isIn(s_link, d, "aslh") /\ s_semAdd[d] = s}

\* insertBlocked: with the descriptor of s, or else the first free one.
insertBlocked(s, p) ==
    \/ \E d \in searchAsl(s) :
         /\ p_list' = clist_enqueue(p_list, p, d)
         /\ p_cursem' = [p_cursem EXCEPT ![p] = d]
         /\ UNCHANGED <<s_link, s_semAdd>>
    \/ /\ searchAsl(s) = {}
       /\ ~ clist_empty(s_link, "semdFree")
       /\ LET d == clist_head(s_link, "semdFree")
          IN  /\ s_semAdd' = [s_semAdd EXCEPT ![d] = s]
              /\ s_link' = clist_insert_asc(clist_dequeue(s_link, "semdFree"), d, "aslh", s_semAdd')
              /\ p_list' = clist_enqueue([p_list EXCEPT ![d] = NULL], p, d)
              /\ p_cursem' = [p_cursem EXCEPT ![p] = d]

\* A descriptor leaves the ASL and is the first free one.
freed(d) == clist_push([clist_delete(s_link, d, "aslh") EXCEPT ![d] = NULL], d, "semdFree")

--------------------------------------------------------------------------------
(* The calls of the nucleus *)

At(where) == (where = "running") = (current_process # NULL) /\ calls = <<>>

\* sys1_CREATEPROCESS, with a free pcb.
Create ==
    /\ At("running")
    /\ ~ clist_empty(p_list, "pcbFree")
    /\ LET p == clist_head(p_list, "pcbFree")
       IN  /\ p_list' = clist_enqueue([clist_dequeue(p_list, "pcbFree") EXCEPT ![p] = NULL],
                                      p, "ready_queue")
           /\ p_jobs' = clist_enqueue([p_jobs EXCEPT ![p] = NULL], p, "jobs")
           /\ p_siblings' = clist_enqueue([p_siblings EXCEPT ![p] = NULL, ![p_children(p)] = NULL],
                                          p, p_children(current_process))
           /\ p_parent' = [p_parent EXCEPT ![p] = current_process]
           /\ p_cursem' = [p_cursem EXCEPT ![p] = NULL]
    /\ process_c' = process_c + 1
    /\ UNCHANGED <<s_link, s_semAdd, current_process, calls>>

\* sys3_SEMOP: a P that blocks.
Block(s) ==
    /\ At("running")
    /\ insertBlocked(s, current_process)
    /\ current_process' = NULL
    /\ UNCHANGED <<p_jobs, p_siblings, p_parent, process_c, calls>>

\* sys3_SEMOP: one turn of the loop of a V, by the running process or by an interrupt:
\* headBlocked, removeBlocked and insertProcQ.
Wake(s) ==
    /\ calls = <<>>
    /\ \E d \in searchAsl(s) :
         /\ ~ clist_empty(p_list, d)
         /\ LET p   == clist_head(p_list, d)
                out == removeProcQ(p_list, d)
            IN  /\ p_list' = clist_enqueue(out, p, "ready_queue")
                /\ s_link' = IF clist_empty(out, d) THEN freed(d) ELSE s_link
    /\ UNCHANGED <<p_jobs, p_siblings, fields, process_c, current_process, calls>>

\* scheduler(): a process whose slice is over goes to the end of the line; the first runs.
Dispatch ==
    /\ calls = <<>>
    /\ LET line == IF current_process = NULL THEN p_list
                   ELSE clist_enqueue(p_list, current_process, "ready_queue")
       IN  /\ ~ clist_empty(line, "ready_queue")
           /\ current_process' = clist_head(line, "ready_queue")
           /\ p_list' = removeProcQ(line, "ready_queue")
    /\ UNCHANGED <<p_jobs, p_siblings, s_link, fields, process_c, calls>>

\* Whether p is target or one of its progeny.
Below(p, target) ==
    LET up[i \in Nat] == IF i = 0 THEN p
                         ELSE IF up[i - 1] = NULL THEN NULL ELSE p_parent[up[i - 1]]
    IN  \E i \in 0 .. Cardinality(Pcb) : up[i] = target

\* sys2_TERMINATEPROCESS, not of an ancestor of the caller (see Nucleus).
Terminate(target) ==
    /\ At("running")
    /\ found(target)
    /\ target # current_process => ~ Below(current_process, target)
    /\ calls' = <<target>>
    /\ UNCHANGED <<links, fields, process_c, current_process>>

\* The process terminateFamily is at.
this == calls[Len(calls)]

\* The loop of terminateFamily: removeChild, and a call for the child.
TerminateChild ==
    /\ calls # <<>> /\ ~ emptyChild(this)
    /\ LET child == clist_head(p_siblings, p_children(this))
       IN  /\ calls' = Append(calls, child)
           /\ p_siblings' = [clist_dequeue(p_siblings, p_children(this)) EXCEPT ![child] = NULL]
           /\ p_parent' = [p_parent EXCEPT ![child] = NULL]
    /\ UNCHANGED <<p_list, p_jobs, s_link, p_cursem, s_semAdd, process_c, current_process>>

\* The rest of it: outChild, outProcQ, outBlocked and freePcb.  outBlocked does not free
\* the descriptor.
TerminateSelf ==
    /\ calls # <<>> /\ emptyChild(this)
    /\ p_siblings' = outChild(this)
    /\ p_parent' = [p_parent EXCEPT ![this] = NULL]
    /\ LET out == outProcQ(p_list, "ready_queue", this)
       IN  p_list' = clist_enqueue(
                         IF p_cursem[this] = NULL THEN out
                         ELSE outProcQ(out, p_cursem[this], this), this, "pcbFree")
    /\ p_jobs' = clist_delete(p_jobs, this, "jobs")
    /\ process_c' = process_c - 1
    /\ current_process' = IF this = current_process THEN NULL ELSE current_process
    /\ calls' = SubSeq(calls, 1, Len(calls) - 1)
    /\ UNCHANGED <<s_link, p_cursem, s_semAdd>>

--------------------------------------------------------------------------------
\* The elements of S, which is finite, one after the other.
listed(S) == CHOOSE q \in [1 .. Cardinality(S) -> S] : NoRepeats(q)

\* A memory in which list l holds the elements of S and nothing else is linked.
filled(cells, S, l) ==
    LET m[i \in 0 .. Cardinality(S)] ==
            IF i = 0 THEN [c \in cells |-> NULL] ELSE clist_enqueue(m[i - 1], listed(S)[i], l)
    IN  m[Cardinality(S)]

initPcbs == filled(Pcb \cup Semd \cup {"pcbFree", "ready_queue"}, Pcb, "pcbFree")
initASL == filled(Semd \cup {"aslh", "semdFree"}, Semd, "semdFree")

\* main(): initPcbs, initASL, and makeInit, which allocates the first pcb.
main ==
    LET init == clist_head(initPcbs, "pcbFree")
    IN  /\ p_list = [clist_dequeue(initPcbs, "pcbFree") EXCEPT ![init] = NULL]
        /\ p_jobs = filled(Pcb \cup {"jobs"}, {init}, "jobs")
        /\ p_siblings = [c \in Pcb \cup {p_children(p) : p \in Pcb} |-> NULL]
        /\ s_link = initASL
        /\ p_parent = [p \in Pcb |-> NULL]
        /\ p_cursem = [p \in Pcb |-> NULL]
        /\ s_semAdd = [d \in Semd |-> 0]
        /\ process_c = 1
        /\ current_process = init
        /\ calls = <<>>

FinalNext ==
    \/ Create \/ Dispatch \/ TerminateChild \/ TerminateSelf
    \/ \E s \in Sem : Block(s) \/ Wake(s)
    \/ \E target \in Pcb : Terminate(target)

--------------------------------------------------------------------------------
(* Properties *)

\* The old version has no list of the live processes, but an array active_pcb: newPid enters
\* who is allocated, terminateProcess takes out who is freed.
active_pcb == {p \in Pcb : ~ isIn(p_list, p, "pcbFree")}

alive == IF version = "final" THEN {p \in Pcb : found(p)} ELSE active_pcb

\* Every pcb and every descriptor is in the lists it belongs to and in no two lists of one
\* link, whose next pointers would be each other's; process_c counts the live processes.
OneList ==
    /\ \A p \in Pcb :
         /\ Cardinality({q \in {"pcbFree", "ready_queue"} \cup Semd : isIn(p_list, p, q)}) <= 1
         /\ isIn(p_list, p, "pcbFree") # (p \in alive)
         /\ Cardinality({r \in Pcb : isIn(p_siblings, p, p_children(r))}) <= 1
    /\ \A d \in Semd : isIn(s_link, d, "semdFree") # isIn(s_link, d, "aslh")
    /\ process_c = Cardinality(alive)
    /\ version = "final" => process_c = Len(elements(p_jobs, "jobs"))

\* The ASL is in ascending order of its semaphores, each of which it has once.
AslSorted ==
    LET asl == elements(s_link, "aslh")
    IN  \A i, j \in DOMAIN asl : i < j => s_semAdd[asl[i]] < s_semAdd[asl[j]]

\* The queue of s: that of its descriptor, if it has one.
blockedOn(s) == IF searchAsl(s) = {} THEN <<>>
                ELSE elements(p_list, CHOOSE d \in searchAsl(s) : TRUE)

Tables == INSTANCE ProcTables WITH
    jobs     <- alive,
    children <- [p \in Pcb |-> elements(p_siblings, p_children(p))],
    ready    <- elements(p_list, "ready_queue"),
    waiting  <- [s \in Sem |-> blockedOn(s)],
    running  <- current_process,
    dying    <- calls

\* With their tail pointers, searches and free lists the tables do what sequences and
\* sets would: every order is kept, nobody is lost, nobody is left behind by SYS2.
ImplementsTables == Tables!Spec

================================================================================
