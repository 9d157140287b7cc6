------------------------------ MODULE MCUserCalls -------------------------------
(***************************************************************************)
(* UserCalls under the scheduler, for the run that checks liveness: as in  *)
(* MCPaging, a program may keep the CPU for good (scheduler.c renews its   *)
(* time slice), and then only the devices go on.                           *)
(***************************************************************************)
EXTENDS UserCalls

VARIABLE hogged     \* a program has the CPU and will not give it up again

svars == <<vars, hogged>>

\* From now on the program of some process keeps the CPU.
KeepsCpu ==
    /\ ~ hogged
    /\ \E u \in UProc : At(u, "run")
    /\ hogged' = TRUE
    /\ UNCHANGED vars

\* The processes take turns.
Turns(A) == ~ hogged /\ A /\ UNCHANGED hogged

\* Who has the CPU does not matter.
Anyhow(A) == A /\ UNCHANGED hogged

ScheduledInit == Init /\ hogged = FALSE

ScheduledNext ==
    \/ Turns(Next)
    \/ KeepsCpu
    \/ hogged /\ Anyhow(Devices)

\* Devices answer; a process in a call, and init, get their turn.
Fairness ==
    /\ \A u \in UProc : WF_svars(Turns(Step(u)))
    /\ WF_svars(Turns(InitStep))
    /\ WF_svars(Anyhow(DiskInterrupt)) /\ \A d \in Device : WF_svars(Anyhow(Interrupt(d)))
    /\ WF_svars(Anyhow(TerminalInterrupt("recv", "transm")))
    /\ WF_svars(Anyhow(TerminalInterrupt("transm", "recv")))

FairSpec == ScheduledInit /\ [][ScheduledNext]_svars /\ Fairness

\* A mutex that nobody will release: that of the printer after one call, or that of a call
\* that ended with its process.
Kept(m) ==
    /\ sem[m] <= 0 /\ Inside(m) = {}
    /\ \/ m = "printer_sem"
       \/ m \in {"read_sem", "write_sem"}
          /\ \E u \in UProc : pc[u] \in {"clean", "count", "store", "test", "end", "dead"}

\* A call returns, and SYS21 ends the process, unless a mutex is kept, a program keeps the
\* CPU, or the system stops; swap_semaphore and disk_sem are never kept.  READTERMINAL is
\* left out: the newline may never come.
CallsReturn ==
    \A u \in UProc :
        pc[u] \notin {"unborn", "run", "receive", "received", "stored", "dead"} ~>
            \/ pc[u] \in {"run", "stored", "dead"}
            \/ cpu # "up" \/ hogged
            \/ \E m \in Mutex : Kept(m) /\ u \in Members(queue[m])

================================================================================
