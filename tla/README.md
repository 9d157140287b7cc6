# Verification of GAOS

GAOS is a small operating system in C for the uARM machine: a nucleus (process
queues, semaphores, services, interrupts, scheduler) and a support level above it
(virtual memory, delays, device calls) that runs user processes loaded from tape.
This directory models the nucleus, its lists and its treatment of exceptions and time, the
delay facility, the virtual memory, the device calls and the shutdown in TLA+, checks the
models with TLC on small instances and proves their main invariants with TLAPS for
instances of any size.

Paths are relative to the repository; `src/src/` holds the code.

## 1. Inventory

| Component | Code | State | Operations | What makes it correct |
|---|---|---|---|---|
| Process queues | `clist.h`, `pcb.c` | circular lists through `p_list`, tail pointers | enqueue, push, pop, head, delete, sorted insertion | a list holds what was put in, in order; an element is on one list |
| Process table, tree | `pcb.c` | `pcbs`, `pcbFree`, `jobs`, `p_parent`, `process_c` | allocate, free, find, insert and remove children | `process_c` counts the live processes, which form one tree |
| Active semaphore list | `asl.c` | `aslh`, `semdFree`, `s_semAdd`, `s_procq`, `p_cursem` | search, insert, remove, out, head | a descriptor is active while its queue has members; nobody is lost |
| Services | `syscalls.c`, `exceptions.c` | `current_process`, `p_resources_needed`, `soft_block_c`, semaphore words | SYS1 to SYS11, pass-up | units are neither made nor lost, waiters are served in order |
| Interrupts | `devices.c`, `exceptions.c` | device registers, device semaphores | timer, device, terminal handlers | every completed command wakes its waiter |
| Scheduler | `scheduler.c` | `ready_queue`, `next_pseudo_tick`, slices | dispatch, rotate, tick, HALT, PANIC, WAIT | stops for the right reason; ready processes run |
| Start and shutdown | `nucleus.c`, `init.c`, `initUProc.c` | `uprocess_c`, `master_sem`, `global_asid` | load user processes, wait, end | the system halts when the last user process ends |
| Virtual semaphores | `usrcalls.c`, `asl.c` | shared words in useg3, second ASL | VSEMVIRT, PSEMVIRT | same promises as nucleus semaphores |
| Delays | `adl.c`, `delay.c`, `usrcalls.c` | ADL, free list, `uproc_semaphore` | DELAY, daemon | nobody wakes early or sleeps for ever |
| Pager, swap | `pager.c`, `swap.c`, `usrcalls.c` | page tables, `swap_pool`, `swap_free`, disk | fault, evict, read, write, clean up | a page has one place; no frame or sector is used twice or lost |
| Device calls | `usrcalls.c`, `dma.c`, `swap.c` | mutexes, DMA buffers | read, write, print, disk put and get | one user of a device at a time; mutexes are released |

The parts interact by direct calls inside the nucleus (handlers call `sys3_SEMOP`,
which calls `asl.c`, which calls `pcb.c`, and every handler ends in `scheduler()`),
by SYSCALL from the support level into the nucleus, and through shared memory
between support-level routines, which run with interrupts enabled and are therefore
interleaved.

What is hard here:

* **Interleaving.** The nucleus is atomic (handlers mask interrupts), but the order of
  services, interrupts and slices is arbitrary. The support level is not atomic:
  virtual semaphores, the ADL, DMA buffers and `uprocess_c` are changed without locks.
* **Kill.** `terminateFamily` removes processes from the middle of every structure.
* **Ordering.** A device command is issued before its caller blocks; its interrupt may
  come after the caller was killed.
* **Time.** Ticks that come due while interrupts are masked, slices, a 32-bit clock.
* **Limits.** 20 process blocks, 20 descriptors, 8 user processes, 16 frames, 14 sectors.

`PROJECT.json` lists every hazard at its line with the properties that cover it, or the
reason why none does.

## 2. Modules

| Module | Models | Uses |
|---|---|---|
| `ProcQueues` | queue operators on sequences | |
| `Nucleus`, `MCNucleus` | process table, tree, semaphores, services, interrupts, scheduler | `ProcQueues` |
| `Services` | what the nucleus promises processes: tree and semaphores, no tables | implemented by `Nucleus` |
| `Clist` | the circular lists of `clist.h` on next pointers | |
| `ProcLists` | `pcb.c` and `asl.c` over those lists | `Clist` |
| `PhaseLists` | the same tables over the lists of phase 1 | `ProcLists` |
| `ProcTables` | what the tables promise: sequences, a tree, a set of live processes | implemented by `ProcLists` and `PhaseLists` |
| `CpuTime` | slices, rotation, times charged | |
| `Exceptions` | passing up, handlers, EXITTRAP, ends of processes | `CpuTime` |
| `Delay`, `MCDelay` | ADL, callers and daemon | `ProcQueues` |
| `Paging`, `MCPaging` | frames, page tables, stores of programs, sectors, loading of programs, SYS21 clean-up | `ProcQueues` |
| `UserCalls`, `MCUserCalls` | device calls, mutexes, DMA buffer, init, shutdown | `ProcQueues` |
| `ProcQueueLemmas` | lemmas about the queue operators, one element of a queue among them | `ProcQueues` |
| `NucleusProofs` | theorems: types, queues, counters, stops and process tree of the nucleus | `Nucleus`, `ProcQueueLemmas` |
| `NucleusUnitsProofs` | theorems: nobody is lost, semaphore values agree with their waiters, who are served in order; `Nucleus` implements `Services` | `NucleusProofs` |
| `UserCallsProofs` | theorems: mutexes, devices and shutdown | `UserCalls`, `ProcQueueLemmas` |
| `DelayProofs` | theorems: the nodes, the sleepers and the daemon of the delay facility | `Delay`, `ProcQueueLemmas` |
| `PagingProofs` | theorems: sectors, frames and contents of virtual memory | `Paging`, `ProcQueueLemmas` |
| `ExceptionsProofs` | theorems: slices, times charged, and exceptions that are passed up and returned from | `Exceptions`, `ProcQueueLemmas` |
| `ListsProofs` | theorems: both versions of the linked tables, which implement `ProcTables` | `PhaseLists`, `ProcQueueLemmas` |

Each module takes for granted what a module below it shows. `UserCalls`, `Delay`
and `Paging` use semaphores as `Nucleus` has them; `Nucleus` uses queues as `ProcLists` shows
them to be. `nucleus_live` assumes that one process at a time waits for a device, which is
`ExclusiveDevices` of `UserCalls`. A state in which everything is spelled out at once, down
to the links, would be out of TLC's reach, and no property needs it.

Worth doing next: preemption inside `clist_pop` at the support level (the ADL and the free
sectors have no lock).

## 3. The nucleus model

**Steps.** There is one CPU; each exception handler runs with interrupts masked from its
entry to the LDST, WAIT, HALT or PANIC in `scheduler()`. One handler is one action, and
the scheduler is part of it. Procedures of the nucleus are operators from a kernel record
to a kernel record, and a handler composes them in the order of the code: for instance
`TerminateProcess` is `scheduler(terminateFamily(kernel, target), survivor(target))`.

| Variable | Code |
|---|---|
| `kernel.jobs`, `p_parent`, `process_c` | `jobs`, `pcbFree`, `p_parent`, `p_children`, `process_c` |
| `kernel.ready_queue` | `ready_queue` |
| `kernel.aslh`, `s_semAdd`, `s_procq`, `p_cursem` | the ASL and its descriptors |
| `kernel.sem` | the words the semaphore addresses point to |
| `kernel.p_resources_needed`, `soft_block_c` | same names |
| `current_process` | same; `NULL` while the CPU waits |
| `cpu` | how the last handler ended |
| `busy` | external: a device has a command it has not been acknowledged for |

Abstractions, and why they lose nothing the properties speak of:

* The queues are sequences (`ProcQueues`), the children of a process the set of processes
  whose `p_parent` it is. `Family` is the least set closed under children, which is what
  the recursion of `terminateFamily` visits.
* A free pcb is wiped when it is freed rather than when it is allocated; nothing reads it
  in between.
* Slices are dropped. `scheduler()` sends back a process with 1 to 10 microseconds left and
  calls itself; in the model any number of processes at the head may be sent back, which
  includes what any slice lengths would do. The properties checked here hold for all of
  these choices; those about time are in `CpuTime`.
* A device is `busy` from the command to the acknowledgement; its interrupt may come at any
  moment in between. Whether a half of a terminal that is busy has completed is chosen when
  the terminal interrupts.
* Several devices served by one interrupt are several steps. Each V appends to the ready
  queue and the CPU goes to its head, so the resulting state is the same.
* SYS2 is taken with its precondition: a process names itself, a descendant or an unrelated
  process, not an ancestor, which would free the running pcb.

The operators whose comment begins "A faulty ..." are not part of the model: each is a
plausible bug of the definition after it, used to see that the property it names notices.

### Runs of the nucleus

| Run | Question | Bounds |
|---|---|---|
| `nucleus_safety` | Do the safety and step properties hold in every order of events, and is this what `Services` says? | 3 processes, 3 descriptors, one semaphore with weights 1 and 2, a disk, the clock; about 302,000 states |
| `nucleus_live` | Is everybody who waits for a tick or an interrupt woken? | 2 processes, the clock, both halves of a terminal; about 22,000 states |
| `nucleus_hide` | Is everybody found with more semaphores than descriptors? | 2 processes, 2 descriptors, 3 semaphores; violated |

Three processes are what the hazards need: one that acts, one that waits and one that
waits behind it or is its child. Weight 2 gives partial grants. There are as many
descriptors as semaphores (`s1`, `disk`, `clock`); `nucleus_hide` has one semaphore more than descriptors. `MaxValue`
bounds the value a V may reach and `MaxSoft` the soft-block count at which processes stop
asking for devices; without a bound the leak of `soft_block_c` (section 8) would make the
state space infinite. Processes and descriptors are compared for equality only, so the
safety run uses them as symmetric; the liveness run does not.

Deadlock checking is off in all runs: HALT, PANIC and a fatal error are stops of the system.
`HaltIffEmpty` and `NoFalseDeadlock` say when the first two are justified.

### Properties of the nucleus

`TypeOK` is the type invariant. `OneQueue`: a pcb has one link and is on at most one queue.
`CantHide`: every live process can be reached. `FamilyTree`: the live processes are one
tree and are counted. `CreditOK`: value plus debts is never negative. `UnitAccounting`: with weights
of 1 a value of -n means n waiters (every device semaphore and the clock). `NoFalseDeadlock`,
`HaltIffEmpty`: the CPU stops for the right reason. `FirstComeFirstServed`, `KillKeepsUnits`:
what no step does. `KillKeepsUnits` is about ordinary semaphores, with any weights: `terminateFamily`
gives back what the dead still needed. It does so on the semaphores of devices and on the clock
too, which `documents/phase2.pdf`, 3.7.4, says "should NOT be adjusted"; that is in section 8 and
the property claims nothing of them. `ClockWakes`, `IOCompletes`: nobody waits for ever.

`ImplementsServices`: every step of the nucleus is one of `Services` or a stutter, with the
descriptors mapped to one queue per semaphore. `Services` gives units one by one to the head
of the queue (to two queues at once when an interrupt finds both halves of a terminal done: `GiveBoth`), lets whoever waits for nothing act, takes a dead process with its progeny
out of every queue, its debt with it, and ticks after a service or alone. It has no
descriptors, no stale `p_cursem`, no partial sums over the queue, no counters and no
scheduler; that the code gets the same result with them is what the run shows, and
what section 6 proves for instances of any size. It needs a descriptor for every semaphore, as
`CantHide` does: a process
that blocks without one is not in the queue `Services` puts it in.

### Fairness of the nucleus

`Fairness` asks for weak fairness of the timer interrupt that carries a tick and of the
interrupts of each device. The code arms the interval timer with at most the time to the next
tick whenever it gives up the CPU (`scheduler.c:44-49`, `62`), and a device holds its interrupt line until
it is acknowledged. No process is assumed to do anything: a process that runs in a loop is
interrupted. `nucleus_live` adds one assumption on processes, `ExclusiveDevices`: at most one
waits for a device, which the mutexes of the support level ensure (section 5). Both liveness
properties admit the stop of the system by a fatal handler.

### The lists

`Clist` has a memory of next pointers: the tail pointer of each list and the link of each
element are cells of it. Every macro of `clist.h` the system uses is an operator from a
memory to a memory with the assignments and the cases of the macro.

`ProcLists` has one memory per link field (`p_list`, `p_jobs`, `p_siblings`, `s_link`), as the struct
members are, so that a process entered in two lists through one field really corrupts both.
An action is one use of the tables by `syscalls.c` or `scheduler.c`: `Create`, `Block`, `Wake`
(one turn of the loop of a V), `Dispatch`, and `Terminate`, `TerminateChild`, `TerminateSelf` for
the calls of the recursive `terminateFamily`, whose stack is `calls`. Weights, values, pids and
time are left to `Nucleus`.

`PhaseLists` adds the lists of phase 1 in the repository (`Old Version`), which are written
differently: `clist_foreach` runs with another cursor, deletion distinguishes head, tail and
middle, descriptors return to the end of their free list, `outBlocked` does free them, and there
is no list `jobs`. `version` chooses one at the start. Creation, the timer interrupt (whose
condition is an assignment, so that any tick rotates), the scheduler and P are those of
phase 2. Its `terminateProcess` writes the semaphore through the descriptor of a process that
may not be blocked, and its V goes on with NULL when nobody waits; these are not followed.
Instead the functions of phase 1 are called as the final nucleus calls them. In one case those of
phase 1 go wrong: `outChild` gives `clist_delete` the link of the last child as the list, which
works for every child but the last of several, whose removal leaves the tail pointer on it.
`Spec` follows it there, and `lists_phase1` shows it; behind that point the lists are no lists any more.
`SparingSpec`, which the other run and the proofs use, is `Spec` with the condition on the callers
of phase 1 that they kill no process that is the last of several children (`lastOfSeveral`).
The final system is the same in both.

| Run | Question | Bounds |
|---|---|---|
| `lists` | Do the links implement sequences, a tree and a set? | 3 processes, 2 descriptors, 2 semaphores, the final version and phase 1 with sparing callers; about 80,000 states |
| `lists_phase1` | Does `outChild` of phase 1 take any child out? | 3 processes, 2 descriptors, 2 semaphores; violated |

Lists of zero to three elements show each case of each macro: empty, single, head, middle,
tail. `OneList`: nothing is in two lists of one link, what is not free is live, and
`process_c` counts it. `AslSorted`: the ASL is ordered and has no semaphore twice.
`ImplementsTables`: with the lists read from their tails, every step is one of `ProcTables`.
`TailIsAChild`: the list of children of a process ends with one of its children. Three
processes give the children of one process as first and last; that a middle child goes
through the longest way of phase 1's `outChild` takes four, which the proof covers (section 6) and the run
does not.

### Time and exceptions

`CpuTime` holds `p_usr_time`, `p_sys_time`, `p_slice_time`, `last_ldst` and the clock; `scheduler` takes
the line of those who can run and renews, rotates and dispatches as the code does. Its
operators `Exception` and `Interrupted` are the parts of a handler that deal with time.
`Exceptions` composes them with what the handlers do: a processor state is the code it is in,
whether it went on, and register a1; `p_excpvec` holds a new and an old area per kind of
exception, and a step goes from one LDST to the next.

* The support level appears as code that can be interrupted, fault, trap, ask the nucleus
  for a service, return or end: `usrcall`, `pager`, `usr21`. What they do is in `UserCalls` and
  `Paging`.
* The two readings of the clock in `update_sys_time` are taken as one. Handlers take 0 to
  `Busy` units; the timer is noticed up to `Late` units after it expired.
* A tick of the pseudo clock is one of the interrupts, which wake somebody or nobody.
* A pcb is not used a second time for another process.
* The clock ends at `MaxTime`, when no action is enabled: a bound of the model.

| Run | Question | Bounds |
|---|---|---|
| `exceptions` | Do exceptions return where they came from, and what time is charged? | 1 user process and init, slice 2, 4 time units; about 1,094,000 states |

One user process is enough for returns and ends, which concern its own areas; init takes
the CPU in between. Four units contain two whole slices, one late timer and a
rotation. Nested exceptions (a fault in a device call, a trap in it, the TERMINATE of the
trap handler) need no time, as handlers may take 0, so `MaxTime` does not cut them off.

`ReturnsRight`: SYS7 brings a process back to the state the last exception interrupted.
`TrapEnds`: after a trap the process only ends, although the trap handler makes a SYSCALL that
overwrites the old area of a call it may have been in. `DiesInTerminate`: a user process dies
only by SYS21 or a call number below 1, never for lack of a handler. `ChargedOnce`: times charged never
exceed the time that passed. `TimerPositive`: the signed slice given to the timer is positive.

## 4. Delays and memory

Support-level routines run with interrupts enabled in the process they serve, so an
action is a stretch of code in which no other routine can see or change the shared state
it uses: it ends at a SYSCALL that may block, or where a preemption would matter.

### Delay

| Variable | Code |
|---|---|
| `adl`, `delayd_free` | the lists of `adl.c`; a node is named by its `d_sem_index` |
| `wake` | `d_wake_time`, less the TOD clock |
| `uproc_semaphore`, `sleepers` | the semaphores of `init.c` and the processes blocked on them |
| `pc`, `index` | where a caller of DELAY is, and what `del_insert` returned to it |
| `daemon`, `due` | where `delay_deamon` is, and what `del_remove` returned to it |
| `left` | none: what is left of the time a caller asked for (history) |

A caller is `Delay` (up to the return of `del_insert`), then `Sleep` (its P); the daemon is
`ClockTick`, then `Remove` and `Wake` for each node that is due, then `NothingDue`. Each is
preempted between any two of these.

* Time is relative. The code compares wake times with the clock and with each other, so
  only differences count; what is past is kept as -1. This makes the state space finite
  without a last moment. The wrap of the 32-bit clock is lost by it (see the hazards).
* Two delays asked for at the same time differ by whole ticks. This coarsens the clock and
  keeps every order of wake times.
* `del_insert` and `del_remove` are one step each. Nothing locks the lists, so the code can
  be preempted in the middle of one; see section 9.

| Run | Question | Bounds |
|---|---|---|
| `delay` | Is every wake-up delivered once, whoever overtakes whom? | 3 callers, 2 nodes, delays of 0 to 2 ticks; about 200,000 states |
| `delay_early` | Does a delay last as long as was asked? | 2 callers, 2 nodes, delays of 0 or 1; violated |

Three callers on two nodes make a node pass from one caller to another and make the nodes
run out; delays of 0, 1 and 2 put a new node before, between and after others.

`NodesKept`: a node is in the ADL or free, once. `EverySleeperHasACall`: the callers that use
the semaphore of a node are as many as the Vs that are there or to come, and the word of the
semaphore counts its waiters; it is what keeps a caller from sleeping for ever although
the daemon may V before the P and the node may have a new owner by then. `OverdueServed`:
the daemon looks at the head only and still overlooks nothing. `DelayEnds`: everybody
gets on, unless the nodes run out (`fatal`) or a program keeps the CPU (`hogged`).

`DelayEnds` assumes that time passes and that ticks come, which the timer gives, and that the
daemon and a caller that is not blocked get the CPU again (weak fairness of each of their steps)
while the processes take turns. The scheduler does not promise that they do: a process that has
used up its slice gets a new one and goes on (`scheduler.c:29-35`, section 8). `MCDelay` therefore adds
a step, `KeepsCpu`, with which a program takes the CPU for good: after it only time and ticks go
on, and `DelayEnds` asks nothing more. It may come whenever some caller is in its program. A process that
is in the support level is between two SYSCALLs, far less than a slice, so it is programs only
that can do this. Nobody is assumed to ask for a delay.

### Paging

| Variable | Code |
|---|---|
| `pte` | `entry_lo` of each page: blank, a block of the disk, or valid and in a frame |
| `swap_pool`, `vic` | the `pte` of each entry of `swap_pool`; the static index of `getFreeFrame` |
| `swap_free`, `linked` | the free list of sectors, and whether `next.next` of a node is set |
| `swap_semaphore` | the mutex as a queue: its head holds it, the rest wait |
| `pc`, `want`, `frame`, `block` | where a process is, `bad_addr`, `page_index`, and the block it writes |
| `file_blocks` | the page table under construction in `readFileFromTapeAndStartProcess` |
| `frame_data`, `disk` | what the frames and sectors hold |

A fault is `Fault` (the P), then `NoLongerMissing`, or `FreeFrame` or `Victim` and `VictimWritten`,
then `PageRead` when the page is on disk, then `Map` (the V). SYS21 is `Terminate` and `CleanUp`.
The init process, which takes no mutex, is `TapeBlock`, `BlockWritten` and `EndOfTape`.

* Contents are named by the page they belong to, so `LoadedRight` can say whose data a page
  gets. A page never on disk starts with whatever its frame holds.
* The code is followed where it goes wrong. The frame written is the one before the frame
  given away. The block is stored through the pointer just reset to NULL, that is in the
  word at address 4, a vector nothing in the model reads. `swap_release` gets head and sector
  exchanged and refuses a block that is linked, and the link is never cleared: blocks do
  not come back. Exchanged indices can fall behind `disk_free_list`; what is there reads as
  linked or as not linked (`Init` chooses).
* The condition of the clean-up loop is an assignment, so it resets every frame.
* A program may at any time store into a page of its own, or a shared one, that is valid
  (`Store`). Neither eviction nor SYS21 takes the entry of a page away, so the frame may be
  another page's by then, also one that is being loaded; the frame then holds what neither
  page should (`Spoilt`).
* A disk transfer is one step between two others, and may fail (`fatal`). The mutex of
  `disk_io` is in `UserCalls`, the disk interrupt in `Nucleus`.
* `swap_alloc` and `swap_release` are not preempted. The checks of `pager` that end in a fatal
  error for an address that is in no table are left out.

| Run | Question | Bounds |
|---|---|---|
| `paging` | What is kept through faults, evictions, releases and ends? | 2 processes, 2 private pages each and 2 shared, 2 frames, 2 sectors, 3 columns; about 479,000 states |
| `paging_evict` | Is a frame for one page only? | 1 process, 4 pages, 2 frames; violated |

With six pages on two frames every process evicts; two sectors run out, which the code
treats as fatal; two blocks per program let init allocate while the first process faults.

`SectorsOnce`: a free sector is free once and holds nothing, although the release is
wrong and init allocates without the mutex. `PoolAgrees`: the pool never names a frame its page is
not in. `FrameExclusiveAtFirst`: while a frame is free, nobody ended and the mutex is free, two
pages in use are never in one frame; without the first condition the code does not keep that
(`paging_evict`), and without the second it does not either, since SYS21 resets the
frames of everybody. `LoadedRight`: a page that becomes valid holds what init read for it, or, when
another page's entry still names the frame, what stores through both entries left. Without stores
only the first is possible. `BroughtInOnce`: two processes that fault on one shared page bring it in
once: a page that is in a frame does not come to another one (that its entry is never
invalidated, as `documents/phase3.pdf`, 3.5.4, asks, is not part of it). `FaultServed`: every
fault ends, or the system stops, or a program keeps the CPU.

`FaultServed` assumes that a process in the pager or in SYS21 goes on when it can, so that
the disk answers, while the processes take turns. `MCPaging` adds `KeepsCpu` for the program that does
not let them, as `MCDelay` does. The queue of the mutex is first come, first served, as SEMOP is.

## 5. Device calls and shutdown

| Variable of `UserCalls` | Code |
|---|---|
| `sem`, `queue` | the static mutexes of the calls, `disk_sem`, `swap_semaphore`, `master_sem` and the device semaphores |
| `pc`, `caller`, `resume` | where a process is; what `disk_io` returns to; what a page fault returns to |
| `left`, `transfers`, `ok` | the loop counters and the status SYS10 returned |
| `buffer` | whose data the DMA buffer holds: `allocDMABuff` gives buffer 0 to everybody |
| `uprocess_c`, `seen`, `processes` | the global, a register that holds it, the result of `init_proc` |
| `cpu` | running, halted by the end of init, or stopped by `fatal` |

A process is in its program (`run`) or between two SYSCALLs of a call. Where a call touches
the memory of the program it may fault (`FaultInCall`, `FaultInPut`), be served by the pager with the
mutex of the call held, and go on, or end for a bad address (`EndInCall`). A page that was
brought in stays until the access that needed it is made. `uprocess_c--` is a load and a
store. Lines and programs are of any content: a read ends when it ends, an output has up to
`MaxLen` characters.

* Terminal, printer, tape and disk are one each. The terminal is: READTERMINAL and
  WRITETERMINAL name terminal 0 for everybody (`usrcalls.c:27`, `59`). The mutexes are per kind of
  device in the code as well.
* `handleTerminal` passes on no bad status, it stops the system; so the error returns of
  READTERMINAL and WRITETERMINAL (`usrcalls.c:29`, `60`) cannot be reached and are left out.
  WRITETERMINAL stops the system when the character sent is not the one it finds in memory
  afterwards (`WrongCharacter`); characters are not modelled, so that may always happen.
* WRITEPRINTER is followed where it goes wrong: it compares the status through a mask that
  leaves other bits, so it returns after the first character, and it never releases its mutex.
* A call that ends with its process keeps its mutex. `Kept` names both cases.

| Run | Question | Bounds |
|---|---|---|
| `calls` | Are devices and counter used rightly, and do calls return? | 2 user processes and init, 1 character, 1 transfer per fault, counter modulo 4; about 424,000 states |
| `calls_buffer` | Does a disk call find its own data in the DMA buffer? | 2 user processes, no characters, no transfers for faults; violated |

Two processes compete for every mutex while init reads tape and uses the disk, a third
competitor. One transfer per fault distinguishes a fault with the disk from one without; a
second one repeats the first. The counter wraps at 4, more than the two processes and
init's late assignment can move it by other than through 0.

`OneUser`: between the P and the V of a mutex there is one process, and the mutex is closed,
through faults and ends inside calls. `ExclusiveDevices`: no device gets a command while somebody
waits for it. `HaltsAfterAll`: the system is not brought down while a user process is at work,
although `uprocess_c` is assigned late and decremented without a lock. `BufferIntact`: the disk, or the
`memcpy` of DISKGET, finds the data of its own call in the buffer, which is what the documents ask
and the code does not do (section 7). `CallsReturn`: every call
but a read returns, or waits for a mutex that is kept, or the system stops, or a program keeps the CPU.

`Fairness`: devices answer, and while the processes take turns each process in a call goes on
when it can, and so does init. A user process need not call or end. `MCUserCalls` adds
`KeepsCpu`, as `MCDelay` does: after it only the devices go on.

## 6. Proofs

`ProcQueueLemmas` proves what the queue operators return for queues of every length: removal,
appending, concatenation, cutting, rotation, taking out or putting in one element, and when two queues are
equal; and that functions defined by recursion on numbers exist. The theorems about the modules hold for all values
of their constants that satisfy the assumption named in the module.

### The nucleus

From `NucleusAssumption` (finitely many processes, as many descriptors, distinct names,
positive largest weight), `NucleusProofs` proves

* `TypeCorrect`: `Spec => []TypeOK`
* `OneQueueAlways`: `Spec => []OneQueue`
* `DeadlockIsReal`: `Spec => []NoFalseDeadlock`
* `HaltIsRight`: `Spec => []HaltIffEmpty`
* `FamilyTreeAlways`: `Spec => []FamilyTree`

The inductive invariant is `IInv`: `KernelOK(kernel, current_process)`, `CpuOK` and the type
of `busy`. `OneQueue` is not inductive alone. Killing removes a process only from the queue
its `p_cursem` names, so `CursemOK` is needed (a queued process points to its queue).
`TypeOK` needs that a partial grant is smaller than the need it is subtracted from, which
follows from `SatisfiedIsLongest`: SEMOP releases the longest run of waiters that the weight
pays for. `NoFalseDeadlock` needs `CountsOK`: `soft_block_c` is at least the number of processes
blocked on device semaphores. It is an inequality because `terminateFamily` does not lower the
counter.

`KernelOK` takes the kernel and the running process as parameters, so that it can be stated
between the procedures of a handler. There is one lemma per procedure (`WakeUpOK`, `VOK`,
`PKernelsOK`, `InsertBlockedOK`, `TerminateFamilyOK`, `SpawnOK`, `PseudoTickOK`, `LineUpOK`,
`DispatchOK`, `SchedulerOK`), and `NextOK` composes them, one step per action.

`FamilyTree` is inductive with `IInv` beside it. `FamilyIsLeast` says what the definition of
`Family` gives: the family is closed under children and lies in every closed set that holds its
root. In `TerminateTree` everybody but the root is a closed set, so the family of a victim that
is not the root lacks the root; and a closed set of survivors, with the victims added, is a closed
set of all.

`NucleusUnitsProofs` adds the assumption `Enough`, a descriptor for every semaphore, and proves

* `CantHideWithEnough`: `Spec => []CantHide`
* `CreditsWithEnough`: `Spec => []CreditOK`
* `UnitAccountingWithEnough`: `Spec => []UnitAccounting`
* `KillKeepsUnitsWithEnough`: `Spec => KillKeepsUnits`, a property of steps
* `ImplementsServicesWithEnough`: `Spec => ImplementsServices`, the refinement of `Services`

and without that assumption `FirstComeFirstServedAlways`: `Spec => FirstComeFirstServed`, also a
property of steps.

Without `Enough` these five are false (`nucleus_hide`, and section 7). The semaphores of the model are those
that some process uses; the code has 20 descriptors, so the theorems speak of systems in which
at most 20 words are ever used as semaphores. The invariant is `AccountsOK` beside `IInv`: the
ASL has a semaphore once (`AslOK`), everybody is somewhere (`SeenOK`), who is not queued needs
nothing (`NeedsOK`), and the value of a semaphore plus what its waiters need is not negative,
and is 0 while somebody waits with weights of 1 (`WaitersOK`). `NeedsOK` is what makes
`terminateFamily` right: it gives back the need of everybody whose `p_cursem` leads to the
semaphore, also of those whose pointer is stale. That `insertBlocked` finds a free descriptor is
a counting argument: the active descriptors are of different semaphores
(`EverySemaphoreFound`). `WakeUpResult` says what the loop of SEMOP does with a queue of any length:
those paid for leave, the head of the rest gets what remains, which is less than it needs.

For the properties of steps a handler is split where the code calls `scheduler()` (`NextHandles`): the
service gives a kernel `z`, and `SchedulerPath` says that `scheduler()` ends with `z` or with `z` after a
tick. `KeepsOrder` (nobody gets ahead of who was there) and `ServesInOrder` (who is released leaves
nobody before it behind) are shown of each procedure and compose (`OrderComposes`).
`KillKeepsUnits`: `terminateFamily` keeps the value plus what the waiters need, for every semaphore
(`TerminateResult`), `scheduler()` keeps all of it but for a tick, and a tick is a V of the clock, which does not
concern ordinary semaphores (`TickElsewhere`, `KillUnits`). The theorem holds of any weights.

For `ImplementsServices`, `Waiting` maps the descriptors to one queue per semaphore and `Promise` is
all that `Services` sees. Who waits needs something (`HungryOK`), which is added to the invariant.
`Services` says with recursive functions what the code does with loops, so each is given in closed form,
by induction on its argument, and the closed form compared with what the handler does:

* A V of weight w is w units. `Served` is the queue after n units: those paid for are gone and
  what remains of n is taken off the need of the head (`ServedOneMore`, `UnitsAddUp`). `VServes` says the same of
  the loop of SEMOP, which releases and pays at once.
* A family ends one after the other, in whatever order. `Left` is what is left when a set of processes has
  ended: its needs are given back and the queues are without it (`LeftOneMore`, `KillIsLeft`).
  `TerminateServes` says the same of `terminateFamily`.
* The progeny is who reaches the target by following parents at most as often as there are pcbs
  (`Descends`); a walk that is longer repeats itself (`FollowedSoon`), and it is `Family` because the
  processes form a tree (`ProgenyIsFamily`).

Every handler ends in `scheduler()`, which is `Then`: as it is or with a tick (`ThenFollows`). `NextServes`
has one step per action: `PServes`, `VGives`, `VGivesBoth`, `SpawnServes`, `KillServes`, `TimerTicks`, and
`StandsStill` for a handler that gives up.

### The device calls

From `UserCallsAssumption` (finitely many user processes, a counter that holds their number and one more,
distinct names), `UserCallsProofs` proves

* `TypeCorrect`: `Spec => []TypeOK`
* `OneUserAlways`: `Spec => []OneUser`
* `ExclusiveDevicesAlways`: `Spec => []ExclusiveDevices`
* `HaltsAfterAllAlways`: `Spec => []HaltsAfterAll`

The invariant has a part for places and a part for each kind of shared state. `PlacesOK`: where a
process can be, what it called `disk_io` for and what it returns to from a fault, which must be
kept apart, as the pager uses the disk on behalf of a process that is in a call. `Semaphores`: who
is queued is at a place that waits for that semaphore, a mutex of value 1 has no users, and one
of value -n has n waiters and at most one other user. `ExclusiveDevices` follows: all
places that use a device lie between the P and the V of one mutex, and only init reads tapes.
`Counts` is needed for
`HaltsAfterAll`. It says what `uprocess_c` is at least: the number of processes that have not
decremented it, once it is assigned. Before, a decrement leaves a number that wraps, which is large,
and the assignment that follows can only make the count too large. A register between
the load and the store holds 0 or a number with the same bound, so a lost decrement also errs on the
large side. `Awaits` carries this to the V on `master_sem`, the place of init, and the end.

### Delays

From `DelayAssumption` (finitely many callers, at least one node, distinct names),
`DelayProofs` proves

* `TypeCorrect`: `Spec => []TypeOK`
* `NodesKeptAlways`: `Spec => []NodesKept`
* `EverySleeperHasACallAlways`: `Spec => []EverySleeperHasACall`
* `OverdueServedAlways`: `Spec => OverdueServed`, a property of steps

The first half of the invariant, `Base`, is about lists: nodes are kept and the ADL is sorted
(`AdlSorted`), which `InsertAscProperties` shows of `clist_insert_asc` and `LessOfTime` of the
clock. `OverdueServed` follows, since the daemon stops at the first node that is not due. The
second half, `Calls`, keeps an account per node: the callers that used or will use its semaphore
are as many as the Vs that came or will come, and a negative semaphore counts its sleepers, who are
exactly the callers blocked there (`SleepersOK`). A node is in the ADL once (`OneNode`, from
`NodesKept`), so it stands for one V.

### Virtual memory

From `PagingAssumption` (any numbers of processes, pages, frames and sectors, distinct names,
no more heads than sectors), `PagingProofs` proves

* `TypeCorrect`: `Spec => []TypeOK`
* `SectorsOnceAlways`: `Spec => []SectorsOnce`
* `PoolAgreesAlways`: `Spec => []PoolAgrees`
* `FrameExclusiveAtFirstAlways`: `Spec => []FrameExclusiveAtFirst`
* `BroughtInOnceAlways`: `Spec => BroughtInOnce`, a property of steps
* `LoadedRightAlways`: `Spec => LoadedRight`, a property of steps

The invariant `IInv` has one part per resource. `Mutex`: whoever is past the check of `pager` is at the
head of the semaphore, the page it wants is still missing, and the frame it was given is nobody's;
so a second fault on a page that was just brought in changes nothing (`BroughtInOnce`).
`Sectors`: free and used blocks were linked once and have one use. That makes the release under
exchanged indices harmless to the free list: `swap_release` puts back only a block that was never
linked, which is neither free nor used (`SectorsReleased`). The sector that should have been
released is lost instead. `Frames`: the pool names no frame its page is not in, and until a process ends
every valid page is named by the pool, or no frame is free, or only that of an eviction is
(`AtFirst`); an eviction leaves the old page valid, which is why `FrameExclusive` without its
condition is false (`paging_evict`). `Contents`: blocks hold the pages that are said to be there, and
a frame that was read for a page holds it, unless a store through the entry of another page spoilt
it, and that entry is still there when the page becomes valid (`StoreStep`).

### Slices and exceptions

From `CpuTimeAssumption` and `ExceptionsAssumption` (finitely many processes, the init process one
of them, a slice longer than what counts as almost finished; any delays and any bound on the
clock), `ExceptionsProofs` proves

* `TypeCorrect`: `Spec => []TypeOK`
* `TimerPositiveAlways`: `Spec => []TimerPositive`
* `ChargedOnceAlways`: `Spec => []ChargedOnce`
* `TrapEndsAlways`: `Spec => []TrapEnds`
* `ReturnsRightAlways`: `Spec => ReturnsRight`, a property of steps
* `DiesInTerminateAlways`: `Spec => DiesInTerminate`, a property of steps

`TimeInv` is about the clock: who was charged, was charged for time before the last LDST, so that no
sum goes past the clock. The sum of `ChargedOnce` is a fold; `SumIsTotal` shows that it is the cardinality of
a set of charged units (`Units`), which grows by what is charged to one process (`TotalChange`).
`TurnedProperties` shows of the loop of `scheduler()` that the process at the
head of the turned line was either passed over, and then gets a new slice, or has more than almost
nothing left, or nothing, and then gets one too. `Stages` says for each place in the code which
handlers exist and which exceptions are open: none in the program, the call in a device call
(`CallAt`), the fault and perhaps the call under it in the pager (`FaultFirst`). Each kind of
exception has one old area only, and `Stages` is the reason why that suffices: the second SYS
exception of a process can only be the TERMINATE of its trap handler, which never returns.

### The lists

From `ProcListsAssumption` (finitely many pcbs and descriptors, at least one pcb, lists, pcbs and
descriptors at different addresses), `ListsProofs` proves

* `ListsInvariant`: `SparingSpec => []ListsInv`
* `OneListAlways`: `SparingSpec => []OneList`
* `AslSortedAlways`: `SparingSpec => []AslSorted`
* `ImplementsTablesSparing`: `SparingSpec => ImplementsTables`, the refinement of `ProcTables`
* `ImplementsTablesAlways`: `Spec /\ version = "final" => ImplementsTables`

for the lists of the final system and those of phase 1 at once. The condition of `SparingSpec` is one
on phase 1 only: every behaviour of the final system is one of `SparingSpec`, which is how the last
theorem follows. Of phase 1 nothing is claimed once the last of several children was
killed (`lists_phase1`). The proof has four layers.

1. `Holds(m, l, q)` says that the memory `m` has a circular list at `l` with the elements `q`, the tail
   pointer included. `ReadOfList` and `ScansOfList` show that the loops of the macros, which follow the links,
   find just these; each macro is then linking or unlinking one element (`EnqueueLinks`,
   `AddLinks`, `DequeueUnlinks`, `DeleteUnlinks`). The recursive functions of `Clist` are shown to
   exist by `ComputedExists`; what they compute follows from the least index where it would not.
2. `Layout(m, E, Q)` says that one memory holds a family of lists with no element in common, and that
   what is in none has no link. There is a lemma for every use of a macro (`LayoutEnqueue`, `LayoutDelete`,
   `LayoutInsertAsc`, `LayoutMove`, ...). `DeleteOverTail` is the case of phase 1 in which
   `outChild` gives `clist_delete` the last child in place of the list.
3. `ListsInv` joins four layouts with what ties them together: where a live pcb may be, which
   descriptors are free, `p_parent` against the lists of children. `Rooted` is needed for
   `terminateFamily`: following parents, or its calls, one leaves every set of processes, so a child it
   takes out is not one it is already at. `Called` says that for phase 1 the target is not the last
   of several children, which is what `lastOfSeveral` excludes. Each action of either version is one
   of seven changes of the queues (`Change`), and the invariant is shown to survive each change.
4. Under the refinement mapping (`Mapped`) each change is an action of `ProcTables`: `CreatedImplements`,
   `BlockedImplements`, and so on, `StepImplements` for all, `InitImplements` for what `main()` makes.

### Only model-checked

Every safety property, property of steps and refinement that a passing run checks is a theorem, those
of `nucleus_safety` that need `Enough` under it. Liveness under fairness is out of the prover's
reach and stays with TLC: `ClockWakes`, `IOCompletes`, `DelayEnds`, `FaultServed`, `CallsReturn`.
That the recursive functions of `Services` and `Clist` exist is proved by hand (`ProcQueueLemmas`), without the
induction theorems of the library.

## 7. Findings

1. `terminateFamily` leaves an empty descriptor in the ASL, as `outBlocked` does not free it. With
   more semaphores than descriptors the free list runs out; then `insertBlocked` fails, its
   result is ignored, and the process that blocks is in no queue (`nucleus_hide`).
2. `del_remove` frees a node before the daemon does its V, and a caller blocks on the
   semaphore of its node rather than on one of its own. The next owner of the node takes
   the V meant for the previous one and returns before its time (`delay_early`).
3. Eviction writes one frame to disk, gives away the next, and marks no page invalid,
   so two valid pages share a frame (`paging_evict`).
4. `allocDMABuff` gives buffer 0 to everybody, and DISKPUT fills it before it has the mutex of the
   disk: a second DISKPUT overwrites the block the disk is writing for the first
   (`calls_buffer`).
5. `outChild` of phase 1 leaves the tail pointer on the last of several children when it takes
   that one out (`lists_phase1`).

`PROJECT.json` quotes, for each, the comment or document that says otherwise.

## 8. Behaviour to know of

No run is about these. The models behave in these ways, except for the last, which is read off the code.

* What becomes of a device when the process that waits for it is killed. `documents/phase2.pdf`, 3.7.4, says
  that the semaphore of the device "should NOT be adjusted", that "when the interrupt eventually
  occurs the semaphore will be managed by the interrupt handler", and that "the process count and
  soft-blocked variables need to be adjusted accordingly". `terminateFamily` adjusts the semaphore as any
  other and leaves `soft_block_c` alone. Later the CPU waits for an interrupt that wakes nobody
  where a deadlock should be reported (`scheduler.c:62`; `NoFalseDeadlock` is the direction that does
  hold), and the interrupt of the device finds nobody and stops the system (`fatal`, `devices.c:79`).
  In the system only SYS21 (itself) and init (at the end) kill; the nucleus offers SYS2 to every process.
* The mutex of the printer is never released, and a process that ends inside a call keeps the
  mutex of that call.
* Sectors are never returned to the free list; the swap area runs out (`swap.c:76`, fatal).
* SYS21 resets the frame of every process without touching their entries (`usrcalls.c:198`): the
  frames of those who go on are given away again.
* `init()` assigns `uprocess_c` after user processes have run (`init.c:66`). One that ends before,
  while the next program is read from tape, decrements the old value; then the count never
  reaches 0 and the system does not halt when all have ended. `HaltsAfterAll` is the other
  direction, which holds.
* A slice that is used up entirely is renewed and its process keeps the CPU; only one with 1 to 10
  microseconds left sends it to the end of the line (`scheduler.c:29-35`). The others may starve, although
  `documents/phase2.pdf`, 3.1, wants "finite progress" of every ready process. The liveness
  properties of sections 4 and 5 exempt a program that keeps the CPU; those of section 3 need no
  process to run.
* VSEMVIRT and PSEMVIRT (`usrcalls.c:80`, `89`) load and store the word with interrupts enabled, and
  SYS3 then takes what it finds in the word for the new value. Of two processes that do a P on a
  word of 1, both may pass: each loads 1 and stores 0, and neither trap finds a negative value.

## 9. Not modelled

Virtual semaphores: their words are changed without a lock (section 8), so what a semaphore
promises holds for them only as far as their users happen not to interleave. Preemption inside
the list operations of the support level (ADL, free sectors): the models
take them as one step. The wrap of the 32-bit clock. The fatal address checks of
`pager`, and that of SYS10 for the line without devices (INT_UNUSED, `syscalls.c:208-212`): no call in
`src/src` names it. asids beyond the page tables. Register layouts, the memory map of stacks and frames,
printing, `memset` and `memcpy` as such, the user-side stubs and the ROM. The test programs,
among them `p2test.c` of `src/src`, which is commented out as a whole. Of the earlier phases only
what section 3 names.
