------------------------------- MODULE Exceptions ------------------------------
(***************************************************************************)
(* How exceptions reach the handlers of the support level and how these    *)
(* return: exceptions.c, SYS4 to SYS7 of syscalls.c, boot_proc of          *)
(* initUProc.c and the handlers of passups.c.  What the device calls, the  *)
(* pager and SYS21 do is the subject of the modules UserCalls and Paging;  *)
(* here they ask the nucleus for services and end.                         *)
(*                                                                         *)
(* A processor state is abstracted to the code it is in, how far it got    *)
(* and register a1.  A step goes from one LDST to the next: the process    *)
(* runs from the state in its p_s to an exception, whose handler, with     *)
(* interrupts masked, saves and exchanges states.                          *)
(***************************************************************************)
EXTENDS CpuTime, ProcQueues

CONSTANTS
    UProc,      \* the user processes
    InitProc    \* the init process, which has no handlers

ASSUME ExceptionsAssumption == Proc = UProc \cup {InitProc} /\ InitProc \notin UProc

VARIABLES
    p_s,
    p_flags,        \* the kinds of exception that have a handler
    p_excpvec,      \* the new and the old area of each kind
    live,
    cpu,            \* "up", "halted" or "fatal"
    raised          \* auxiliary: the exceptions passed up and not yet returned from, the
                    \* last one first, each with the state it interrupted

areas == <<p_s, p_flags, p_excpvec>>
vars == <<areas, live, cpu, raised, timeVars>>

Kind == {"SYS", "TLB", "PGMT"}
Result == {"ok", "error"}

\* What a1 holds at a SYSCALL, and what it holds when a handler starts.
Call == {"below 1", "1 to 11", "12 to 20", "TERMINATE", "above 21"}
Cause == {"syscall", "breakpoint", "page fault", "bad address", "reserved", "other trap"}

\* "none" is the state of zeros; usrcall, pager and usr21 are what the handlers call.
Code == {"none", "init", "boot SYS", "boot TLB", "boot PGMT", "program",
         "SYS", "TLB", "PGMT", "usrcall", "pager", "usr21"}

State == [at : Code, step : 0 .. 1, a1 : Call \cup Cause \cup Result]
at(code) == [at |-> code, step |-> 0, a1 |-> "ok"]

TypeOK ==
    /\ TimeTypeOK
    /\ p_s \in [Proc -> State]
    /\ p_flags \in [Proc -> SUBSET Kind]
    /\ p_excpvec \in [Proc -> [new : [Kind -> State], old : [Kind -> State]]]
    /\ live \subseteq Proc
    /\ cpu \in {"up", "halted", "fatal"}
    /\ raised \in [Proc -> Seq([kind : Kind, state : State])]

self == current_process

\* In code of its own, a process is here or there, with something else in a1.
anywhere(code) == {at(code), [at |-> code, step |-> 1, a1 |-> "error"]}

\* handle_exc_sysbp and exc_syscall: the call to serve is in the old area.
servesCall(s) == s.at = "SYS" /\ s.a1 = "syscall"
servedCall == p_excpvec[self].old["SYS"].a1

\* The states the running process may get to from its p_s, before an exception.
Reached ==
    LET s == p_s[self]
    IN  IF s.at \in {"program", "usrcall", "pager", "usr21"} THEN anywhere(s.at)
        ELSE IF servesCall(s) /\ servedCall = "12 to 20" THEN anywhere("usrcall")
        ELSE IF servesCall(s) /\ servedCall = "TERMINATE" THEN {at("usr21")}
        ELSE IF s.at = "TLB" THEN IF s.a1 = "page fault" THEN anywhere("pager") ELSE {at("usr21")}
        ELSE {s}

\* A state the running process has reached in this code.
Running(code) == IF cpu = "up" /\ self # NULL THEN {s \in Reached : s.at = code} ELSE {}

\* The kernel takes over when the process has run for some time, and works for some time.
Timing == {<<last_ldst + d, k>> : d \in Runs, k \in 0 .. Busy}

--------------------------------------------------------------------------------
(* The handlers of the nucleus *)

\* The running process goes on in state s.
GoOn(s) ==
    /\ p_s' = [p_s EXCEPT ![self] = s]
    /\ \E t \in Timing : Exception(t[1], t[2], FALSE, <<self>> \o ready_queue)
    /\ UNCHANGED <<live, cpu>>

\* sys2_TERMINATEPROCESS(0, 0, 0); all processes are children of the init process.  If nobody
\* is left, the system halts.
Terminate ==
    LET family == IF self = InitProc THEN Proc ELSE {self}
    IN  /\ live' = live \ family
        /\ cpu' = IF live' = {} THEN "halted" ELSE cpu
        /\ \E t \in Timing : Exception(t[1], t[2], TRUE, Without(ready_queue, family))
        /\ UNCHANGED <<areas, raised>>

fatal ==
    /\ cpu' = "fatal"
    /\ UNCHANGED <<areas, live, raised, timeVars>>

\* An interrupt or a V makes somebody ready or nobody.
Wakeable == {<<>>} \cup {<<q>> : q \in live \ (Members(ready_queue) \cup {self})}

\* A faulty entry, for TypeOK: the place in the vector goes to a1, not the cause.
entryPlace(new, cause) == [new EXCEPT !.a1 = new.at]

\* The handler of a kind finds cause in a1.
entry(new, cause) == [new EXCEPT !.a1 = cause]

\* A faulty passup, for TrapEnds: a second exception leaves the old area as it is.
passupOnce(kind, old, cause) ==
    IF kind \notin p_flags[self] THEN Terminate
    ELSE /\ p_excpvec' = [p_excpvec EXCEPT
               ![self].old[kind] = IF @.at = "none" THEN old ELSE @, ![self].new[kind].a1 = cause]
         /\ raised' = [raised EXCEPT ![self] = <<[kind |-> kind, state |-> old]>> \o @]
         /\ GoOn(entry(p_excpvec[self].new[kind], cause))
         /\ UNCHANGED p_flags

\* passup: the state goes to the old area, and the process to its handler if it has one.
passup(kind, old, cause) ==
    IF kind \notin p_flags[self] THEN Terminate
    ELSE /\ p_excpvec' = [p_excpvec EXCEPT ![self].old[kind] = old, ![self].new[kind].a1 = cause]
         /\ raised' = [raised EXCEPT ![self] = <<[kind |-> kind, state |-> old]>> \o @]
         /\ GoOn(entry(p_excpvec[self].new[kind], cause))
         /\ UNCHANGED p_flags

\* excHandleSYSBP, for a SYSCALL in user mode.
SysFromProgram(s) ==
    \/ s.a1 = "below 1" /\ Terminate
    \/ s.a1 = "1 to 11" /\ passup("PGMT", s, "reserved")
    \/ s.a1 \in {"12 to 20", "TERMINATE", "above 21"} /\ passup("SYS", s, "syscall")

\* init_handler: SYS4, SYS5 and SYS6.
SpecifyHandler(kind, next) ==
    IF kind \in p_flags[self] THEN Terminate
    ELSE /\ p_flags' = [p_flags EXCEPT ![self] = @ \cup {kind}]
         /\ p_excpvec' = [p_excpvec EXCEPT ![self].new[kind] = at(kind)]
         /\ GoOn(next)
         /\ UNCHANGED raised

\* What the process goes back to: the old area, with the result of a call or trap in a1.
restored(kind, ret) ==
    IF kind = "TLB" THEN p_excpvec[self].old[kind]
    ELSE [p_excpvec[self].old[kind] EXCEPT !.a1 = ret]

\* A faulty sys7_EXITTRAP, for ReturnsRight: the break after PCB_FLAG_TLB_5 is missing.
sys7_EXITTRAPFallingThrough(kind, ret) ==
    LET from == IF kind = "TLB" THEN "PGMT" ELSE kind
    IN  /\ p_excpvec' = [p_excpvec EXCEPT ![self].old[from].a1 = ret]
        /\ GoOn(restored(from, ret))
        /\ raised' = [raised EXCEPT ![self] = Tail(@)]
        /\ UNCHANGED p_flags

\* The result of a call or of a trap goes to a1 of the old area, that of a fault nowhere.
sys7_EXITTRAP(kind, ret) ==
    /\ p_excpvec' = [p_excpvec EXCEPT ![self].old[kind] = restored(kind, ret)]
    /\ GoOn(restored(kind, ret))
    /\ raised' = [raised EXCEPT ![self] = Tail(@)]
    /\ UNCHANGED p_flags

\* Any other service of the nucleus, after which the process is in state s: it may block, and
\* it may make another process ready.
Service(s) ==
    /\ p_s' = [p_s EXCEPT ![self] = s]
    /\ \E t \in Timing, first \in {<<>>, <<self>>}, woken \in Wakeable :
         Exception(t[1], t[2], FALSE, first \o ready_queue \o woken)
    /\ UNCHANGED <<p_flags, p_excpvec, live, cpu, raised>>

--------------------------------------------------------------------------------
(* What the processes do *)

\* boot_proc: SYS4, SYS5 and SYS6, then the program.
BootSYS == \E s \in Running("boot SYS") : SpecifyHandler("SYS", at("boot TLB"))

\* A faulty BootTLB, for DiesInTerminate: the last SYSCALL of boot_proc is missing.
BootTLBLast == \E s \in Running("boot TLB") : SpecifyHandler("TLB", at("program"))

BootTLB == \E s \in Running("boot TLB") : SpecifyHandler("TLB", at("boot PGMT"))
BootPGMT == \E s \in Running("boot PGMT") : SpecifyHandler("PGMT", at("program"))

\* The program makes a call.
ProgramCalls ==
    \E s \in Running("program"), call \in Call : SysFromProgram([s EXCEPT !.a1 = call])

\* A page that is not in memory or an address that cannot be, from the program or from a
\* device call at work on the memory of the program.
Fault ==
    \E s \in Running("program") \cup Running("usrcall"), cause \in {"page fault", "bad address"} :
        passup("TLB", s, cause)

\* Any other trap.
Trap ==
    \E s \in Running("program") \cup Running("usrcall") : passup("PGMT", s, "other trap")

Breakpoint == \E s \in Running("program") : passup("SYS", s, "breakpoint")

\* handle_exc_trap: SYSCALL(TERMINATE), which is a SYS exception from the handler.
EndAfterTrap ==
    \E s \in Running("PGMT") : passup("SYS", [s EXCEPT !.a1 = "TERMINATE"], "syscall")

\* handle_exc_sysbp and exc_syscall stop the system for what they do not know.
UnknownCall ==
    /\ Running("SYS") # {}
    /\ servesCall(p_s[self]) => servedCall = "above 21"
    /\ fatal

\* A service for a device call, the pager, SYS21 or the init process.
AskNucleus ==
    \E s \in Running("usrcall") \cup Running("pager") \cup Running("usr21") \cup Running("init") :
        Service(s)

\* A device call that has to end the process.
CallEnds == \E s \in Running("usrcall") : Service(at("usr21"))

CallReturns == \E s \in Running("usrcall") : sys7_EXITTRAP("SYS", s.a1)
PagerReturns == \E s \in Running("pager") : sys7_EXITTRAP("TLB", s.a1)

\* The end of usr21_TERMINATE, or of the init process.
End == Running("usr21") \cup Running("init") # {} /\ Terminate

Interrupt ==
    /\ cpu = "up"
    /\ \E woken \in Wakeable, k \in 0 .. Busy :
         \/ /\ self = NULL
            /\ \E d \in 0 .. Busy : Interrupted(now + d, k, woken)
            /\ UNCHANGED p_s
         \/ /\ self # NULL
            /\ \E s \in Reached \cup {p_s[self]} : p_s' = [p_s EXCEPT ![self] = s]
            /\ \E d \in Runs : Interrupted(last_ldst + d, k, woken)
    /\ UNCHANGED <<p_flags, p_excpvec, live, cpu, raised>>

\* The init process makes the user processes (sys1_CREATEPROCESS).
Create ==
    \E s \in Running("init"), u \in UProc \ live :
        /\ p_s[u].at = "none"
        /\ p_s' = [p_s EXCEPT ![self] = s, ![u] = at("boot SYS")]
        /\ live' = live \cup {u}
        /\ \E t \in Timing : Exception(t[1], t[2], FALSE, <<self>> \o ready_queue \o <<u>>)
        /\ UNCHANGED <<p_flags, p_excpvec, cpu, raised>>

Init ==
    /\ TimeInit(InitProc)
    /\ p_s = [p \in Proc |-> at(IF p = InitProc THEN "init" ELSE "none")]
    /\ p_flags = [p \in Proc |-> {}]
    /\ p_excpvec = [p \in Proc |-> LET zeros == [k \in Kind |-> at("none")]
                                   IN  [new |-> zeros, old |-> zeros]]
    /\ live = {InitProc}
    /\ cpu = "up"
    /\ raised = [p \in Proc |-> <<>>]

Next ==
    \/ Create \/ BootSYS \/ BootTLB \/ BootPGMT
    \/ ProgramCalls \/ Fault \/ Trap \/ Breakpoint
    \/ EndAfterTrap \/ UnknownCall \/ AskNucleus \/ CallEnds
    \/ CallReturns \/ PagerReturns \/ End \/ Interrupt

Spec == Init /\ [][Next]_vars

--------------------------------------------------------------------------------
(* Properties *)

\* SYS7 brings a process back to the very state the last exception interrupted, even if another
\* was passed up, served and returned from in between: the program after its call, with the
\* result in a1, or the instruction that met a page fault, with a1 untouched.
ReturnsRight ==
    [][\A p \in Proc :
         Len(raised'[p]) < Len(raised[p]) =>
             LET last == Head(raised[p])
             IN  /\ p_s'[p].at = last.state.at
                 /\ p_s'[p].step = last.state.step
                 /\ last.kind = "TLB" => p_s'[p] = last.state]_vars

\* After a trap nothing of the process runs but its end: neither the program nor the device
\* call it was in, whose old area the TERMINATE of the trap handler takes.
TrapEnds ==
    \A p \in Proc :
        (\E i \in DOMAIN raised[p] : raised[p][i].kind = "PGMT")
            => p_s[p].at \in {"PGMT", "SYS", "usr21"}

\* As long as the init process is there, a user process dies only in usr21_TERMINATE, which
\* gives back what it has, or for a call below 1; never for lack of a handler.
DiesInTerminate ==
    [][\A u \in live \ live' :
         \/ InitProc \notin live'
         \/ p_s[u].at = "usr21"
         \/ p_s[u].at = "program" /\ p_flags[u] = Kind
         \/ p_s[u].at = "TLB" /\ p_s[u].a1 = "bad address"
         \/ servesCall(p_s[u]) /\ p_excpvec[u].old["SYS"].a1 = "TERMINATE"]_vars

================================================================================
