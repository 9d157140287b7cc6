------------------------------- MODULE PhaseLists ------------------------------
(***************************************************************************)
(* The lists of the final system (ProcLists) beside those of phase 1 of    *)
(* the project (Old Version/phase1/pcb.c and asl.c, over Old               *)
(* Version/h/clist.h): two implementations of one interface.  A behaviour  *)
(* is one of the first or of the second.                                   *)
(*                                                                         *)
(* The nucleus over the old lists is that of phase 2 (Old Version/phase2): *)
(* createProcess, the timer interrupt, the scheduler and the P are its own.*)
(* Its terminateProcess and its V are not followed: they write through a   *)
(* semaphore descriptor and through NULL.  There the functions of phase 1  *)
(* are called the way the final nucleus calls them.                        *)
(***************************************************************************)
EXTENDS ProcLists

\* What the old version does not have, or does not change.
unused == <<p_jobs, version>>

Here(where) == version = "phase 1" /\ At(where)

--------------------------------------------------------------------------------
(* Old Version/h/clist.h *)

\* Four macros that are what they are in the final system.
enqueue(m, e, l) == clist_enqueue(m, e, l)
push(m, e, l) == clist_push(m, e, l)
empty(m, l) == clist_empty(m, l)
head(m, l) == clist_head(m, l)

\* clist_dequeue, of a list that is not empty.
dequeue(m, l) ==
    IF m[l] = m[m[l]] THEN [m EXCEPT ![l] = NULL]
    ELSE [m EXCEPT ![m[l]] = m[m[m[l]]]]

\* The elements clist_foreach goes through, as scan: from the head up to the tail.
scans(m, l) ==
    LET scan[i \in Nat] == IF i = 0 THEN m[m[l]] ELSE m[scan[i - 1]]
        last(n) == scan[n] = m[l] /\ \A i \in 0 .. n - 1 : scan[i] # m[l]
        turns   == CHOOSE n \in 0 .. Cardinality(DOMAIN m) : last(n)
    IN  IF empty(m, l) THEN <<>> ELSE [i \in 1 .. turns + 1 |-> scan[i - 1]]

\* clist_foreach_delete: the head, the tail or another one.
foreach_delete(m, scan, l) ==
    IF m[m[l]] = scan THEN dequeue(m, l)
    ELSE IF m[l] = scan
         THEN [m EXCEPT ![before(m, scan, l)] = m[scan], ![l] = before(m, scan, l)]
         ELSE [m EXCEPT ![before(m, scan, l)] = m[scan]]

delete(m, e, l) ==
    IF \E i \in DOMAIN scans(m, l) : scans(m, l)[i] = e THEN foreach_delete(m, e, l) ELSE m

\* clist_foreach_add, which has tmp = NULL at the head of the list.
foreach_add(m, e, scan, l) ==
    IF scan = head(m, l) THEN push(m, e, l)
    ELSE [m EXCEPT ![before(m, scan, l)] = e, ![e] = scan]

--------------------------------------------------------------------------------
(* Old Version/phase1/pcb.c *)

freePcb(m, p) == enqueue(m, p, "pcbFree")

\* allocPcb, where there is a free pcb: the table without the pcb it gives.
allocPcb(m) == [dequeue(m, "pcbFree") EXCEPT ![head(m, "pcbFree")] = NULL]

insertProcQ(m, q, p) == enqueue(m, p, q)

\* Both leave the link of what they take out.
oldRemoveProcQ(m, q) == dequeue(m, q)
oldOutProcQ(m, q, p) == delete(m, p, q)

insertChild(m, parent, p) == enqueue(m, p, p_children(parent))

--------------------------------------------------------------------------------
(* Old Version/phase2: systemcall.c, interrupts.c, scheduler.c *)

\* createProcess: allocPcb, insertChild and insertProcQ.
OldCreate ==
    /\ Here("running")
    /\ ~ empty(p_list, "pcbFree")
    /\ LET p == head(p_list, "pcbFree")
       IN  /\ p_list' = insertProcQ(allocPcb(p_list), "ready_queue", p)
           /\ p_siblings' = insertChild([p_siblings EXCEPT ![p] = NULL, ![p_children(p)] = NULL],
                                        current_process, p)
           /\ p_parent' = [p_parent EXCEPT ![p] = current_process]
           /\ p_cursem' = [p_cursem EXCEPT ![p] = NULL]
    /\ process_c' = process_c + 1
    /\ UNCHANGED <<unused, s_link, s_semAdd, current_process, calls>>

\* scheduler, when nobody runs: the first process in line, which line has, is taken out.
dispatch(line) ==
    /\ ~ empty(line, "ready_queue")
    /\ current_process' = head(line, "ready_queue")
    /\ p_list' = oldRemoveProcQ(line, "ready_queue")

OldDispatch ==
    /\ Here("idle")
    /\ dispatch(p_list)
    /\ UNCHANGED <<unused, p_siblings, s_link, fields, process_c, calls>>

\* intTimer: current_timer is assigned where it should be compared, so any interrupt of the
\* timer, that of the pseudo clock too, sends the running process to the end of the line.
OldTimer ==
    /\ Here("running")
    /\ dispatch(insertProcQ(p_list, "ready_queue", current_process))
    /\ UNCHANGED <<unused, p_siblings, s_link, fields, process_c, calls>>

--------------------------------------------------------------------------------
(* Old Version/phase1/pcb.c: the end of a process *)

\* p is the last of several children.
lastOfSeveral(p) ==
    p_parent[p] # NULL /\ LET l == p_children(p_parent[p])
                          IN  p_siblings[l] = p /\ head(p_siblings, l) # p

\* The p_siblings after outChild: removeChild of its parent for the first child.  For the
\* others clist_delete is given, as the list, the link of the last child instead of
\* p_children.  That works for all of them but the last, which it takes out without moving
\* the tail pointer.
oldOutChild(p) ==
    IF p_parent[p] = NULL THEN p_siblings
    ELSE LET l == p_children(p_parent[p])
         IN  IF head(p_siblings, l) = p
             THEN [dequeue(p_siblings, l) EXCEPT ![p] = NULL]
             ELSE [delete(p_siblings, p, p_siblings[l]) EXCEPT ![p] = NULL]

\* SYS2.
OldTerminate(target) ==
    /\ Here("running")
    /\ target \in alive
    /\ target # current_process => ~ Below(current_process, target)
    /\ calls' = <<target>>
    /\ UNCHANGED <<unused, p_list, p_siblings, s_link, fields, process_c, current_process>>

\* emptyChild and removeChild.
OldTerminateChild ==
    /\ version = "phase 1" /\ calls # <<>> /\ ~ emptyChild(this)
    /\ LET child == head(p_siblings, p_children(this))
       IN  /\ calls' = Append(calls, child)
           /\ p_siblings' = [dequeue(p_siblings, p_children(this)) EXCEPT ![child] = NULL]
           /\ p_parent' = [p_parent EXCEPT ![child] = NULL]
    /\ UNCHANGED <<unused, p_list, s_link, p_cursem, s_semAdd, process_c, current_process>>

--------------------------------------------------------------------------------
(* Old Version/phase1/asl.c *)

\* A descriptor whose queue is empty leaves the ASL and is the last free one.
oldFreed(d) == enqueue(foreach_delete(s_link, d, "aslh"), d, "semdFree")

\* insertBlocked where s has no descriptor: the new one goes before the first greater one, or
\* to the end, which the comparison with the tail finds at once.
withSemd(d, asl) ==
    LET scan    == scans(asl, "aslh")
        greater == {i \in DOMAIN scan : s_semAdd'[d] < s_semAdd[scan[i]]}
    IN  IF empty(asl, "aslh") \/ s_semAdd'[d] > s_semAdd[asl["aslh"]]
        THEN enqueue(asl, d, "aslh")
        ELSE foreach_add(asl, d, scan[CHOOSE i \in greater : \A k \in greater : i <= k], "aslh")

\* The P of phase 2's semaphoreOperation, where it blocks.
OldBlock(s) ==
    /\ Here("running")
    /\ \/ \E d \in searchAsl(s) :
            /\ p_list' = enqueue(p_list, current_process, d)
            /\ p_cursem' = [p_cursem EXCEPT ![current_process] = d]
            /\ UNCHANGED <<s_link, s_semAdd>>
       \/ /\ searchAsl(s) = {}
          /\ ~ empty(s_link, "semdFree")
          /\ LET d == head(s_link, "semdFree")
             IN  /\ s_semAdd' = [s_semAdd EXCEPT ![d] = s]
                 /\ s_link' = withSemd(d, [dequeue(s_link, "semdFree") EXCEPT ![d] = NULL])
                 /\ p_list' = enqueue([p_list EXCEPT ![d] = NULL], current_process, d)
                 /\ p_cursem' = [p_cursem EXCEPT ![current_process] = d]
    /\ current_process' = NULL
    /\ UNCHANGED <<unused, p_siblings, p_parent, process_c, calls>>

\* The first process that waits for s, as a set of at most one.
headBlocked(s) == {head(p_list, d) : d \in {e \in searchAsl(s) : ~ empty(p_list, e)}}

\* removeBlocked and insertProcQ.
OldWake(s) ==
    /\ version = "phase 1" /\ calls = <<>>
    /\ \E d \in searchAsl(s), p \in headBlocked(s) :
         /\ LET out == dequeue(p_list, d)
            IN  /\ p_list' = insertProcQ(out, "ready_queue", p)
                /\ p_cursem' = [p_cursem EXCEPT ![p] = NULL]
                /\ s_link' = IF empty(out, d) THEN oldFreed(d) ELSE s_link
    /\ UNCHANGED <<unused, p_siblings, p_parent, s_semAdd, process_c, current_process, calls>>

\* outProcQ, outBlocked, which frees the descriptor, outChild and freePcb.
OldTerminateSelf ==
    /\ version = "phase 1" /\ calls # <<>> /\ emptyChild(this)
    /\ p_siblings' = oldOutChild(this)
    /\ p_parent' = [p_parent EXCEPT ![this] = NULL]
    /\ p_cursem' = [p_cursem EXCEPT ![this] = NULL]
    /\ LET d   == p_cursem[this]
           out == IF d = NULL THEN oldOutProcQ(p_list, "ready_queue", this)
                  ELSE foreach_delete(p_list, this, d)
       IN  /\ p_list' = freePcb(out, this)
           /\ s_link' = IF d # NULL /\ empty(out, d) THEN oldFreed(d) ELSE s_link
    /\ process_c' = process_c - 1
    /\ current_process' = IF this = current_process THEN NULL ELSE current_process
    /\ calls' = SubSeq(calls, 1, Len(calls) - 1)
    /\ UNCHANGED <<unused, s_semAdd>>

--------------------------------------------------------------------------------
\* The old main() does the same: its tables are made by initPcbs and initASL, and the first
\* process, allocated and put in line, is taken out by the scheduler.
Init == main /\ version \in {"final", "phase 1"}

OldNext ==
    \/ OldCreate \/ OldDispatch \/ OldTimer \/ OldTerminateChild \/ OldTerminateSelf
    \/ \E s \in Sem : OldBlock(s) \/ OldWake(s)
    \/ \E target \in Pcb : OldTerminate(target)

Next ==
    \/ version = "final" /\ FinalNext /\ UNCHANGED version
    \/ OldNext

Spec == Init /\ [][Next]_vars

\* Phase 1 with callers that spare the last of several children, which outChild takes out
\* wrongly (see TailIsAChild).  Nothing is asked of the callers of the final system.
SparingNext ==
    \/ version = "final" /\ FinalNext /\ UNCHANGED version
    \/ OldCreate \/ OldDispatch \/ OldTimer \/ OldTerminateChild \/ OldTerminateSelf
    \/ \E s \in Sem : OldBlock(s) \/ OldWake(s)
    \/ \E target \in Pcb : ~ lastOfSeveral(target) /\ OldTerminate(target)

SparingSpec == Init /\ [][SparingNext]_vars

--------------------------------------------------------------------------------
(* What the comments say and phase 1 does not keep (PROJECT.json, findings) *)

\* "Rimuove il processo puntato da p dalla lista dei figli del suo genitore" (Old
\* Version/phase1/pcb.c:161: removes the process p points to from the list of the children
\* of its parent): after SYS2 of any process, the children list of a process ends, if at
\* all, with a process whose parent it is.
TailIsAChild ==
    \A r \in Pcb : LET tail == p_siblings[p_children(r)]
                   IN  tail # NULL => p_parent[tail] = r

================================================================================
