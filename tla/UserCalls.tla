------------------------------- MODULE UserCalls -------------------------------
(***************************************************************************)
(* The support level in operation: the init process, which loads the user  *)
(* processes and waits for their end (init.c, initUProc.c), and the calls  *)
(* of the user processes that use a device or end them (usrcalls.c), down  *)
(* to disk_io (swap.c) and the DMA buffer (dma.c).                         *)
(*                                                                         *)
(* All of it runs with interrupts enabled, in the process it serves, so a  *)
(* step is what lies between two SYSCALLs, or less where shared memory is  *)
(* read and written in between.  The semaphores are those of the nucleus   *)
(* with weights of 1: a value and a queue, the head of which a V releases  *)
(* (Nucleus shows that this is what SYS3 does).                            *)
(*                                                                         *)
(* What is in memory is abstracted to whose data it is; pages and frames   *)
(* are the subject of module Paging.                                       *)
(***************************************************************************)
EXTENDS Integers, ProcQueues

CONSTANTS
    UProc,      \* user processes the tape holds programs for
    InitProc,   \* the init process
    MaxLen,     \* bound of the model: characters of one output call
    MaxTransfers,  \* bound of the model: transfers for one page fault
    Wrap,       \* uprocess_c is counted modulo Wrap (2^32)
    NULL

Proc == UProc \cup {InitProc}

\* The static mutexes of the calls and of disk_io, and swap_semaphore.
Mutex == {"read_sem", "write_sem", "printer_sem", "disk_sem", "swap_semaphore"}

\* The devices in use, each with its semaphore in devices_sem_t: one terminal, one
\* printer and one tape; disk_io uses one disk at a time.
Device == {"recv", "transm", "printer", "disk", "tape"}

Sem == Mutex \cup Device \cup {"master_sem"}

\* Where a process can be between two steps.
Places ==
    {"unborn", "run", "receive", "received", "stored", "transmit", "loaded", "transmitted",
     "print", "fetched", "printed", "disk", "disked", "copied", "put", "get", "gotten", "page",
     "paged", "clean", "count", "store", "test", "end", "dead", "tape", "block", "load",
     "master", "halt"}

ASSUME UserCallsAssumption ==
    /\ IsFiniteSet(UProc) /\ InitProc \notin UProc /\ NULL \notin Proc \cup Places
    /\ MaxLen \in Nat /\ MaxTransfers \in 0 .. 2
    /\ Wrap \in Nat /\ Wrap > Cardinality(UProc) + 1

VARIABLES
    sem,        \* values of the semaphores
    queue,      \* who is blocked on each, head first
    pc,         \* where each process is
    caller,     \* on whose behalf disk_io, a subroutine, was called
    left,       \* characters an output call still has to do
    transfers,  \* transfers the pager still has to do
    resume,     \* where a process goes on after a page fault
    ok,         \* the status SYS10 returned was the good one
    buffer,     \* what is in the DMA buffer: a call and the process it is for
    uprocess_c,
    seen,       \* uprocess_c as a process read it when it set out to decrement it
    processes,  \* how many user processes init_proc has counted
    cpu         \* "halted" once init has ended

semaphores == <<sem, queue>>
fault == <<transfers, resume>>
locals == <<caller, left, transfers, resume, ok, seen, processes>>
vars == <<semaphores, pc, locals, buffer, uprocess_c, cpu>>

--------------------------------------------------------------------------------
(* SYS3 and SYS10, as module Nucleus has them *)

Ready(p) == \A s \in Sem : p \notin Members(queue[s])

\* p is at this place and may run.
At(p, where) == cpu = "up" /\ pc[p] = where /\ Ready(p)
Goto(p, where) == pc' = [pc EXCEPT ![p] = where]

P(p, s) ==
    /\ sem' = [sem EXCEPT ![s] = @ - 1]
    /\ queue' = IF sem[s] > 0 THEN queue ELSE [queue EXCEPT ![s] = Append(@, p)]

V(s) ==
    /\ sem' = [sem EXCEPT ![s] = @ + 1]
    /\ queue' = IF queue[s] = <<>> THEN queue ELSE [queue EXCEPT ![s] = Tail(@)]

\* The command is written and the caller blocks.
IODEVOP(p, d) == P(p, d)

\* fatal(): PANIC.
fatal ==
    /\ cpu' = "fatal"
    /\ UNCHANGED <<semaphores, pc, locals, buffer, uprocess_c>>

\* The interrupt of the tape or the printer; who asked gets the status.
Interrupt(d) ==
    /\ cpu = "up" /\ d \in {"tape", "printer"}
    /\ queue[d] # <<>>
    /\ V(d)
    /\ d = "printer" => UNCHANGED ok
    /\ d = "tape" => \E status \in BOOLEAN : ok' = [ok EXCEPT ![Head(queue[d])] = status]
    /\ UNCHANGED <<pc, caller, left, fault, seen, processes, buffer, uprocess_c, cpu>>

\* The interrupt of the terminal: handleTerminal serves a half that is done and stops the
\* system for any status but ready and done, such as an error or that of a half at work.
TerminalInterrupt(d, other) ==
    /\ cpu = "up" /\ queue[d] # <<>>
    /\ \/ /\ queue[other] = <<>>
          /\ V(d)
          /\ UNCHANGED <<pc, locals, buffer, uprocess_c, cpu>>
       \/ /\ queue[other] # <<>>
          /\ sem' = [sem EXCEPT ![d] = @ + 1, ![other] = @ + 1]
          /\ queue' = [queue EXCEPT ![d] = Tail(@), ![other] = Tail(@)]
          /\ UNCHANGED <<pc, locals, buffer, uprocess_c, cpu>>
       \/ fatal

--------------------------------------------------------------------------------
(* Terminal and printer *)

\* A faulty BeginCall, for ExclusiveDevices: nobody waits for the mutex.
BeginCallOpen(u, m, where, n) ==
    /\ At(u, "run")
    /\ Goto(u, where)
    /\ left' = [left EXCEPT ![u] = n]
    /\ UNCHANGED <<semaphores, caller, fault, ok, seen, processes, buffer, uprocess_c, cpu>>

\* A call of u begins with the P of mutex m, to use a device n times.
BeginCall(u, m, where, n) ==
    /\ At(u, "run")
    /\ P(u, m) /\ Goto(u, where)
    /\ left' = [left EXCEPT ![u] = n]
    /\ UNCHANGED <<caller, fault, ok, seen, processes, buffer, uprocess_c, cpu>>

\* u asks device d for one operation.
Ask(u, d, where) ==
    /\ IODEVOP(u, d) /\ Goto(u, where)
    /\ UNCHANGED <<locals, buffer, uprocess_c, cpu>>

\* A call that returns leaves its locals as it found them.
Forget(u) ==
    /\ Goto(u, "run")
    /\ ok' = [ok EXCEPT ![u] = TRUE] /\ left' = [left EXCEPT ![u] = 0]
    /\ UNCHANGED <<caller, fault, seen, processes, uprocess_c, cpu>>

\* The return of a call that does not release its mutex.
ReturnKeeping(u) == Forget(u) /\ UNCHANGED <<semaphores, buffer>>

\* The return of one that does.
ReturnReleasing(u, m) == Forget(u) /\ V(m) /\ UNCHANGED buffer

READTERMINAL(u) == BeginCall(u, "read_sem", "receive", 0)

Receive(u) == At(u, "receive") /\ Ask(u, "recv", "received")

\* A character came and was stored: it is the newline that ends the line, or another is read.
\* The return for a bad status is never taken; handleTerminal passes on none.
Received(u) ==
    /\ At(u, "received") \/ At(u, "stored")
    /\ \/ ReturnReleasing(u, "read_sem")
       \/ Ask(u, "recv", "received")

WRITETERMINAL(u) == \E n \in 0 .. MaxLen : BeginCall(u, "write_sem", "transmit", n)

\* A faulty Transmit, for CallsReturn: the mutex is not released at the end either.
TransmitKeeping(u) ==
    /\ At(u, "transmit") \/ At(u, "loaded")
    /\ \/ left[u] > 0 /\ Ask(u, "transm", "transmitted")
       \/ left[u] = 0 /\ ReturnKeeping(u)

\* The next character is loaded and sent.
Transmit(u) ==
    /\ At(u, "transmit") \/ At(u, "loaded")
    /\ \/ left[u] > 0 /\ Ask(u, "transm", "transmitted")
       \/ left[u] = 0 /\ ReturnReleasing(u, "write_sem")

\* On to the next character.
Transmitted(u) ==
    /\ At(u, "transmitted")
    /\ left' = [left EXCEPT ![u] = @ - 1]
    /\ Goto(u, "transmit")
    /\ UNCHANGED <<semaphores, caller, fault, ok, seen, processes, buffer, uprocess_c, cpu>>

\* fatal() when the character that was sent is not the one in memory now.
WrongCharacter(u) == At(u, "transmitted") /\ fatal

WRITEPRINTER(u) == \E n \in 0 .. MaxLen : BeginCall(u, "printer_sem", "print", n)

\* The printer is never released.
PrintCharacter(u) ==
    /\ At(u, "print") \/ At(u, "fetched")
    /\ \/ left[u] > 0 /\ Ask(u, "printer", "printed")
       \/ left[u] = 0 /\ ReturnKeeping(u)

\* The status is compared with DEV_S_READY through a mask that leaves other bits: any
\* status counts as an error after the first character.
Printed(u) == At(u, "printed") /\ ReturnKeeping(u)

--------------------------------------------------------------------------------
(* disk_io and its callers *)

\* disk_io is entered by p, on behalf of who.
disk_io(p, who) ==
    /\ P(p, "disk_sem") /\ Goto(p, "disk")
    /\ caller' = [caller EXCEPT ![p] = who]

\* A faulty DiskStart, for OneUser: the mutex is released before the command is given.
DiskStartReleasing(p) ==
    /\ At(p, "disk")
    /\ sem' = [sem EXCEPT !["disk"] = @ - 1, !["disk_sem"] = @ + 1]
    /\ queue' = [queue EXCEPT !["disk"] = Append(@, p),
                              !["disk_sem"] = IF @ = <<>> THEN @ ELSE Tail(@)]
    /\ Goto(p, "disked")
    /\ UNCHANGED <<locals, buffer, uprocess_c, cpu>>

DiskStart(p) == At(p, "disk") /\ Ask(p, "disk", "disked")

\* The interrupt of the disk: the transfer is done.  What is read for DISKGET is in the
\* buffer now.
DiskInterrupt ==
    /\ cpu = "up" /\ queue["disk"] # <<>>
    /\ LET p == Head(queue["disk"])
       IN  /\ buffer' = IF caller[p] = "get" THEN <<"get", p>> ELSE buffer
           /\ \E status \in BOOLEAN : ok' = [ok EXCEPT ![p] = status]
    /\ V("disk")
    /\ UNCHANGED <<pc, caller, left, fault, seen, processes, uprocess_c, cpu>>

\* Where disk_io returns to.
DiskEnd(p) ==
    /\ At(p, "disked")
    /\ V("disk_sem") /\ Goto(p, caller[p])
    /\ caller' = [caller EXCEPT ![p] = NULL]
    /\ UNCHANGED <<left, fault, ok, seen, processes, buffer, uprocess_c, cpu>>

\* The processes in a DISKPUT or a DISKGET.
InDiskCall ==
    {p \in UProc : \/ {pc[p], resume[p]} \cap {"copied", "put", "get", "gotten"} # {}
                   \/ caller[p] \in {"put", "get"}}

\* allocDMABuff, which gives the same buffer to all; then it is for the call of u.
allocDMABuff(call, u) == buffer' = <<call, u>>

\* DISKPUT up to disk_io: allocDMABuff and memcpy, with interrupts disabled.
DISKPUT(u) ==
    /\ At(u, "run")
    /\ allocDMABuff("put", u)
    /\ Goto(u, "copied")
    /\ UNCHANGED <<semaphores, locals, uprocess_c, cpu>>

DiskPutIO(u) ==
    /\ At(u, "copied") /\ disk_io(u, "put")
    /\ UNCHANGED <<left, fault, ok, seen, processes, buffer, uprocess_c, cpu>>

DISKGET(u) ==
    /\ At(u, "run") /\ disk_io(u, "get")
    /\ UNCHANGED <<left, fault, ok, seen, processes, buffer, uprocess_c, cpu>>

\* freeBuff, and for DISKGET the memcpy from the buffer before it.  What is in a buffer
\* nobody uses does not matter.
DiskReturn(u) ==
    /\ At(u, "put") \/ At(u, "get") \/ At(u, "gotten")
    /\ buffer' = IF InDiskCall = {u} THEN NULL ELSE buffer
    /\ Forget(u)
    /\ UNCHANGED semaphores

\* The pager: it holds swap_semaphore and does no transfer, one to evict or to read, or both;
\* then the process goes on where it was, or where the access it was at has been made.
pager(u, next) ==
    /\ P(u, "swap_semaphore") /\ Goto(u, "page")
    /\ \E n \in 0 .. MaxTransfers : transfers' = [transfers EXCEPT ![u] = n]
    /\ resume' = [resume EXCEPT ![u] = next]
    /\ UNCHANGED <<caller, left, ok, seen, processes, uprocess_c, cpu>>

PageFault(u) == At(u, "run") /\ pager(u, "run") /\ UNCHANGED buffer

\* The accesses of the calls to the memory of the program, and where they go on.
Access == {<<"received", "stored">>, <<"transmit", "loaded">>, <<"print", "fetched">>,
           <<"get", "gotten">>}

Accesses(u, a) ==
    /\ At(u, a[1])
    /\ a[1] \in {"transmit", "print"} => left[u] > 0

\* A page fault at one of them, with the mutex of the call held.
FaultInCall(u) ==
    \E a \in Access : Accesses(u, a) /\ pager(u, a[2]) /\ UNCHANGED buffer

\* One in the memcpy of DISKPUT.
FaultInPut(u) ==
    /\ At(u, "run")
    /\ allocDMABuff("put", u)
    /\ pager(u, "copied")

\* A bad address, for which handle_exc_tlb ends the process: the call does not go on.
EndInCall(u) ==
    /\ \E a \in Access : Accesses(u, a)
    /\ P(u, "swap_semaphore") /\ Goto(u, "clean")
    /\ buffer' = IF InDiskCall = {u} THEN NULL ELSE buffer
    /\ left' = [left EXCEPT ![u] = 0] /\ ok' = [ok EXCEPT ![u] = TRUE]
    /\ UNCHANGED <<caller, fault, seen, processes, uprocess_c, cpu>>

Page(u) ==
    /\ At(u, "page")
    /\ \/ /\ transfers[u] > 0
          /\ transfers' = [transfers EXCEPT ![u] = @ - 1]
          /\ disk_io(u, "paged")
          /\ UNCHANGED <<left, resume, ok, seen, processes, buffer, uprocess_c, cpu>>
       \/ /\ transfers[u] = 0
          /\ V("swap_semaphore") /\ Goto(u, resume[u])
          /\ resume' = [resume EXCEPT ![u] = NULL]
          /\ UNCHANGED <<caller, left, transfers, ok, seen, processes, buffer, uprocess_c, cpu>>

Paged(u) == At(u, "paged") /\ ok[u] /\ Goto(u, "page")
            /\ UNCHANGED <<semaphores, locals, buffer, uprocess_c, cpu>>

\* fatal() when the disk fails under frame_to_disk or disk_to_frame.
DiskFailed(p) ==
    /\ At(p, "paged") \/ At(p, "load")
    /\ ~ ok[p]
    /\ fatal

--------------------------------------------------------------------------------
(* usr21_TERMINATE: the end of a process by its own call, a bad argument or a trap *)

TERMINATE(u) == BeginCall(u, "swap_semaphore", "clean", 0)

\* The frames are reset; see Paging.
Clean(u) ==
    /\ At(u, "clean")
    /\ V("swap_semaphore") /\ Goto(u, "count")
    /\ UNCHANGED <<locals, buffer, uprocess_c, cpu>>

\* uprocess_c-- is a load, a subtraction and a store.
LoadCount(u) ==
    /\ At(u, "count")
    /\ seen' = [seen EXCEPT ![u] = uprocess_c]
    /\ Goto(u, "store")
    /\ UNCHANGED <<semaphores, caller, left, fault, ok, processes, buffer, uprocess_c, cpu>>

\* A faulty decremented, for TypeOK: uprocess_c is signed.
decrementedSigned(n) == n - 1

decremented(n) == (n + Wrap - 1) % Wrap

StoreCount(u) ==
    /\ At(u, "store")
    /\ uprocess_c' = decremented(seen[u])
    /\ Goto(u, "test")
    /\ UNCHANGED <<semaphores, locals, buffer, cpu>>

TestCount(u) ==
    /\ At(u, "test")
    /\ IF uprocess_c = 0 THEN V("master_sem") ELSE UNCHANGED semaphores
    /\ Goto(u, "end")
    /\ UNCHANGED <<locals, buffer, uprocess_c, cpu>>

\* SYS2.
End(u) ==
    /\ At(u, "end")
    /\ Goto(u, "dead")
    /\ seen' = [seen EXCEPT ![u] = 0]
    /\ UNCHANGED <<semaphores, caller, left, fault, ok, processes, buffer, uprocess_c, cpu>>

--------------------------------------------------------------------------------
(* init *)

\* readBlockFromTape.
Tape ==
    /\ At(InitProc, "tape")
    /\ Ask(InitProc, "tape", "block")

\* frame_to_disk of a block that was read.
Block ==
    /\ At(InitProc, "block")
    /\ ok[InitProc]
    /\ disk_io(InitProc, "load")
    /\ UNCHANGED <<left, fault, ok, seen, processes, buffer, uprocess_c, cpu>>

NextBlock ==
    /\ At(InitProc, "load") /\ ok[InitProc]
    /\ Ask(InitProc, "tape", "block")

\* The block was the last of its file: createProcessFromBlocks.
CreateUProc(u) ==
    /\ At(InitProc, "load") /\ ok[InitProc]
    /\ pc[u] = "unborn"
    /\ pc' = [pc EXCEPT ![InitProc] = "tape", ![u] = "run"]
    /\ processes' = processes + 1
    /\ UNCHANGED <<semaphores, caller, left, fault, ok, seen, buffer, uprocess_c, cpu>>

\* No more blocks: init_proc returns, and its result is assigned.
Count ==
    /\ At(InitProc, "block") /\ ~ ok[InitProc]
    /\ uprocess_c' = processes
    /\ Goto(InitProc, "master")
    /\ UNCHANGED <<semaphores, locals, buffer, cpu>>

\* A faulty WaitForAll, for HaltsAfterAll: there is no wait.
WaitForNobody ==
    /\ At(InitProc, "master")
    /\ Goto(InitProc, "halt")
    /\ UNCHANGED <<semaphores, locals, buffer, uprocess_c, cpu>>

WaitForAll ==
    /\ At(InitProc, "master")
    /\ P(InitProc, "master_sem") /\ Goto(InitProc, "halt")
    /\ UNCHANGED <<locals, buffer, uprocess_c, cpu>>

\* SYS2 of the delay daemon and of init, whose progeny is everybody else.
Halt ==
    /\ At(InitProc, "halt")
    /\ cpu' = "halted"
    /\ UNCHANGED <<semaphores, pc, locals, buffer, uprocess_c>>

--------------------------------------------------------------------------------
Init ==
    /\ sem = [s \in Sem |-> IF s \in Mutex THEN 1 ELSE 0]
    /\ queue = [s \in Sem |-> <<>>]
    /\ pc = [p \in Proc |-> IF p = InitProc THEN "tape" ELSE "unborn"]
    /\ caller = [p \in Proc |-> NULL]
    /\ left = [u \in UProc |-> 0] /\ transfers = [u \in UProc |-> 0]
    /\ resume = [u \in UProc |-> NULL]
    /\ ok = [p \in Proc |-> TRUE]
    /\ buffer = NULL
    /\ uprocess_c = 0
    /\ seen = [u \in UProc |-> 0]
    /\ processes = 0
    /\ cpu = "up"

\* A user process begins a call or faults, in the program or in a call.
Call(u) ==
    \/ READTERMINAL(u) \/ WRITETERMINAL(u) \/ WRITEPRINTER(u)
    \/ DISKPUT(u) \/ DISKGET(u) \/ PageFault(u) \/ FaultInCall(u) \/ FaultInPut(u)
    \/ EndInCall(u) \/ TERMINATE(u)

\* It goes on with the one it is in.
Step(u) ==
    \/ Receive(u) \/ Received(u) \/ Transmit(u) \/ Transmitted(u) \/ WrongCharacter(u)
    \/ PrintCharacter(u) \/ Printed(u)
    \/ DiskPutIO(u) \/ DiskStart(u) \/ DiskEnd(u) \/ DiskReturn(u)
    \/ Page(u) \/ Paged(u) \/ DiskFailed(u)
    \/ Clean(u) \/ LoadCount(u) \/ StoreCount(u) \/ TestCount(u) \/ End(u)

\* Does init go on?
InitStep ==
    \/ Tape \/ Block \/ DiskFailed(InitProc) \/ NextBlock \/ \E u \in UProc : CreateUProc(u)
    \/ DiskStart(InitProc) \/ DiskEnd(InitProc) \/ Count \/ WaitForAll \/ Halt

Devices ==
    \/ DiskInterrupt \/ \E d \in Device : Interrupt(d)
    \/ TerminalInterrupt("recv", "transm") \/ TerminalInterrupt("transm", "recv")

Next == (\E u \in UProc : Call(u) \/ Step(u)) \/ InitStep \/ Devices

Spec == Init /\ [][Next]_vars

--------------------------------------------------------------------------------
(* Properties *)

\* Every variable keeps its type.
TypeOK ==
    /\ sem \in [Sem -> Int]
    /\ queue \in [Sem -> Seq(Proc)]
    /\ pc \in [Proc -> Places]
    /\ caller \in [Proc -> {NULL, "put", "get", "paged", "load"}]
    /\ left \in [UProc -> 0 .. MaxLen] /\ transfers \in [UProc -> 0 .. MaxTransfers]
    /\ resume \in [UProc -> {NULL, "run", "copied"} \cup {a[2] : a \in Access}]
    /\ ok \in [Proc -> BOOLEAN]
    /\ buffer \in {NULL} \cup ({"put", "get"} \X UProc)
    /\ uprocess_c \in 0 .. Wrap - 1 /\ seen \in [UProc -> 0 .. Wrap - 1]
    /\ processes \in 0 .. Cardinality(UProc)
    /\ cpu \in {"up", "halted", "fatal"}

\* The code between the P and the V of a mutex.
section(m) ==
    CASE m = "read_sem"       -> {"receive", "received", "stored"}
      [] m = "write_sem"      -> {"transmit", "loaded", "transmitted"}
      [] m = "printer_sem"    -> {"print", "fetched", "printed"}
      [] m = "disk_sem"       -> {"disk", "disked"}
      [] m = "swap_semaphore" -> {"page", "paged", "clean"}

\* Who has passed the P and not reached the V, in disk_io or the pager too.
Inside(m) == {p \in Proc : /\ \/ {pc[p], caller[p]} \cap section(m) # {}
                              \/ p \in UProc /\ resume[p] \in section(m)
                           /\ p \notin Members(queue[m])}

\* One process at a time uses what a mutex protects, and the mutex is not open
\* meanwhile, whichever calls end early, fail or are nested.
OneUser ==
    \A m \in Mutex : Cardinality(Inside(m)) <= 1 /\ (sem[m] > 0 => Inside(m) = {})

\* No device gets a command while it works on another, which SYS10 does not prevent:
\* nobody waits behind somebody else for an interrupt.
ExclusiveDevices == \A d \in Device : Len(queue[d]) <= 1

\* The system is not brought down while a user process is at work, however the
\* decrements of uprocess_c and its late assignment in init are interleaved.
HaltsAfterAll == cpu = "halted" => \A u \in UProc : pc[u] \in {"unborn", "test", "end", "dead"}

(* What the documents say and the code does not keep (PROJECT.json, findings) *)

\* A DISKPUT or DISKGET finds its own data in the DMA buffer when the disk, or the memcpy,
\* takes it: "copy the 4KB from the virtual address space into the designated device's
\* assigned buffer. After this is done, the disk write operation can proceed"
\* (documents/phase3.pdf, 3.8.1, with a buffer for each device and, in 3.8.2, a mutex).
BufferIntact ==
    \A u \in UProc :
        /\ u \in Members(queue["disk"]) /\ caller[u] = "put" => buffer = <<"put", u>>
        /\ pc[u] \in {"get", "gotten"} => buffer = <<"get", u>>

================================================================================
