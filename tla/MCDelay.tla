-------------------------------- MODULE MCDelay ---------------------------------
(***************************************************************************)
(* Delay under the scheduler, for the run that checks liveness: as in      *)
(* MCPaging, a program may keep the CPU for good (scheduler.c renews its   *)
(* time slice), and then only the clock goes on.                           *)
(***************************************************************************)
EXTENDS Delay

VARIABLE hogged     \* a program has the CPU and will not give it up again

svars == <<vars, hogged>>

\* From now on the program of some process keeps the CPU.
KeepsCpu ==
    /\ ~ hogged
    /\ cpu = "up" /\ \E u \in UProc : pc[u] = "run"
    /\ hogged' = TRUE
    /\ UNCHANGED vars

\* The processes take turns.
Turns(A) == ~ hogged /\ A /\ UNCHANGED hogged

\* Who has the CPU does not matter.
Anyhow(A) == A /\ UNCHANGED hogged

ScheduledInit == Init /\ hogged = FALSE

ScheduledNext ==
    \/ Turns(Next)
    \/ KeepsCpu
    \/ hogged /\ Anyhow(TimePasses \/ ClockTick)

\* Time passes and ticks come; the daemon and a caller that is not blocked get their turn.
\* Nobody has to ask for a delay or to end.
Fairness ==
    /\ WF_svars(Anyhow(TimePasses)) /\ WF_svars(Anyhow(ClockTick))
    /\ WF_svars(Turns(Remove)) /\ WF_svars(Turns(NothingDue)) /\ WF_svars(Turns(Wake))
    /\ \A u \in UProc : WF_svars(Turns(Sleep(u)))

FairSpec == ScheduledInit /\ [][ScheduledNext]_svars /\ Fairness

\* Whoever asked for a delay gets on, unless a program keeps the CPU or the nodes run out
\* (fatal).
DelayEnds ==
    \A u \in UProc :
        pc[u] \in {"inserted", "blocked"} ~> pc[u] = "run" \/ cpu = "fatal" \/ hogged

================================================================================
