-------------------------------- MODULE MCPaging --------------------------------
(***************************************************************************)
(* Paging under the scheduler, for the run that checks liveness.  A        *)
(* process that has used up its time slice gets a new one and goes on      *)
(* (scheduler.c), so a program that computes for ever, or makes only calls *)
(* that do not block, leaves nothing to the others.  As long as no program *)
(* does, every process that is ready gets its turn.                        *)
(***************************************************************************)
EXTENDS Paging

VARIABLE hogged     \* a program has the CPU and will not give it up again

svars == <<vars, hogged>>

\* From now on the program of some process keeps the CPU.
KeepsCpu ==
    /\ ~ hogged
    /\ \E u \in UProc : At(u, "run")
    /\ hogged' = TRUE
    /\ UNCHANGED vars

\* The processes take turns.
Turns(A) == ~ hogged /\ A /\ UNCHANGED hogged

ScheduledInit == Init /\ hogged = FALSE

ScheduledNext ==
    \/ Turns(Next)
    \/ KeepsCpu

\* A process in the pager or in SYS21 gets its turn and the disk answers.  Programs need
\* not fault or end, and tapes may be as long as they like.
Fairness ==
    \A u \in UProc : WF_svars(Turns(pager(u))) /\ WF_svars(Turns(CleanUp(u)))

FairSpec == ScheduledInit /\ [][ScheduledNext]_svars /\ Fairness

\* Every fault is served unless a program keeps the CPU or the system stops in fatal(): the
\* pager does not lose the mutex or wait for itself.
FaultServed == \A u \in UProc : pc[u] = "pager" ~> pc[u] = "run" \/ cpu = "fatal" \/ hogged

================================================================================
