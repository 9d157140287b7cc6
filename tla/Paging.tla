--------------------------------- MODULE Paging --------------------------------
(***************************************************************************)
(* Virtual memory of the user processes: the pager (pager.c), the frames   *)
(* and disk sectors it manages (swap.c), the loading of programs from tape *)
(* (initUProc.c) and the clean-up of SYS21 (usrcalls.c).                   *)
(*                                                                         *)
(* These routines run with interrupts enabled, in the process they serve.  *)
(* Pager and SYS21 take swap_semaphore; init, which loads programs while   *)
(* the first ones already run, does not.  A transfer of disk_io is one     *)
(* step: what its mutex and the interrupt of the disk do is the subject of *)
(* module Nucleus.  swap_alloc and swap_release are not preempted here.    *)
(*                                                                         *)
(* What a page holds is named by the page itself, so that frame_data and   *)
(* disk say whose contents is where.                                       *)
(***************************************************************************)
EXTENDS Integers, ProcQueues

CONSTANTS
    UProc,          \* user processes
    InitProc,       \* the init process
    Useg3,          \* owner of the pages all of them share
    MAX_PAGES,      \* pages of useg2 and of useg3
    MaxBlocks,      \* bound of the model: blocks of a program
    SWAP_POOL_SIZE, MAX_HEAD, MAX_SECT,
    NULL

Page == (UProc \cup {Useg3}) \X (0 .. MAX_PAGES - 1)
Frame == 0 .. SWAP_POOL_SIZE - 1
Proc == UProc \cup {InitProc}

\* disk_free_list[i][j], by its indices, which are also the head and sector it stands
\* for.  The rows from MAX_HEAD on lie behind the array.
Block == (0 .. MAX_SECT - 1) \X (0 .. MAX_SECT - 1)

ASSUME PagingAssumption ==
    /\ InitProc \notin UProc /\ Useg3 \notin UProc
    /\ NULL \notin Page \cup Frame \cup Block
    /\ MAX_PAGES \in Nat \ {0} /\ MaxBlocks \in 1 .. MAX_PAGES
    /\ SWAP_POOL_SIZE \in Nat \ {0} /\ MAX_HEAD \in Nat \ {0} /\ MAX_SECT \in Nat
    /\ MAX_HEAD <= MAX_SECT

\* What entry_lo says: nothing yet, a block of the disk, or valid and in a frame.
Blank == <<"blank">>
OnDisk(b) == <<"disk", b>>
InFrame(f) == <<"frame", f>>

\* What two pages left in a frame they share: the contents of neither.
Spoilt == <<"spoilt">>

VARIABLES
    pte,            \* entry_lo of each page
    swap_pool,      \* .pte of each frame: the page it was given to
    vic,            \* the static victim index of getFreeFrame
    swap_free,      \* the free blocks
    linked,         \* next.next # NULL in a block; it is never cleared
    swap_semaphore, \* the process that holds the mutex and those that wait for it
    pc,             \* where each process is
    want, frame,    \* bad_addr and page_index of a process in the pager
    block,          \* the block a process is about to write
    file_blocks,    \* the blocks of the program being read from tape
    frame_data, disk,  \* contents of the frames and of the blocks
    cpu             \* "fatal" after fatal()

memory == <<pte, swap_pool, vic>>
sectors == <<swap_free, linked>>
locals == <<want, frame, block>>
vars == <<memory, sectors, swap_semaphore, pc, locals, file_blocks, frame_data, disk, cpu>>

--------------------------------------------------------------------------------
(* swap.c *)

valid(pg) == \E f \in Frame : pte[pg] = InFrame(f)
onDisk(pg) == \E b \in Block : pte[pg] = OnDisk(b)
blockOf(pg) == CHOOSE b \in Block : pte[pg] = OnDisk(b)

\* A faulty poppedFree, for SectorsOnce: clist_head, the block stays in the list.
poppedNothing == swap_free

\* swap_alloc takes the first free block.
poppedFree == Tail(swap_free)

alloc(p) ==
    /\ swap_free # <<>>
    /\ block' = [block EXCEPT ![p] = Head(swap_free)]
    /\ swap_free' = poppedFree
    /\ UNCHANGED linked

\* disk_to_frame calls swap_release(sect, head) with head and sect exchanged.  A block
\* that was ever in a list is not put back, so this frees blocks that never were.
release(b) ==
    LET slot == <<b[2], b[1]>>
    IN  \/ /\ linked[slot]
           /\ UNCHANGED sectors
        \/ /\ ~ linked[slot]
           /\ swap_free' = Append(swap_free, slot)
           /\ linked' = [linked EXCEPT ![slot] = TRUE]

fatal ==
    /\ cpu' = "fatal"
    /\ UNCHANGED <<memory, sectors, swap_semaphore, pc, locals, file_blocks, frame_data, disk>>

--------------------------------------------------------------------------------
(* pager *)

P(u) == swap_semaphore' = Append(swap_semaphore, u)
V == swap_semaphore' = Tail(swap_semaphore)
Holds(u) == swap_semaphore # <<>> /\ Head(swap_semaphore) = u

At(p, where) == cpu = "up" /\ pc[p] = where
Goto(p, where) == pc' = [pc EXCEPT ![p] = where]

\* An access of u to a page of its own or a shared one that is not valid.
Fault(u, pg) ==
    /\ At(u, "run")
    /\ pg[1] \in {u, Useg3} /\ ~ valid(pg)
    /\ want' = [want EXCEPT ![u] = pg]
    /\ P(u) /\ Goto(u, "pager")
    /\ UNCHANGED <<memory, sectors, frame, block, file_blocks, frame_data, disk, cpu>>

\* A faulty NoLongerMissing, for FaultServed: the mutex is not released.
NoLongerMissingLocked(u) ==
    /\ At(u, "pager") /\ Holds(u)
    /\ valid(want[u])
    /\ Goto(u, "run")
    /\ UNCHANGED <<memory, sectors, swap_semaphore, locals, file_blocks, frame_data, disk, cpu>>

\* Another process brought the page in while u waited for the mutex.
NoLongerMissing(u) ==
    /\ At(u, "pager") /\ Holds(u)
    /\ valid(want[u])
    /\ V /\ Goto(u, "run")
    /\ UNCHANGED <<memory, sectors, locals, file_blocks, frame_data, disk, cpu>>

\* A faulty stillMissing, for BroughtInOnce: the check after the P is left out.
missingAnyway(u) == TRUE

stillMissing(u) == ~ valid(want[u])

\* After getFreeFrame: the page is read from disk if it has a block there.
afterFrame(u) == IF onDisk(want[u]) THEN "read" ELSE "map"

\* getFreeFrame finds a frame that belongs to no page.
FreeFrame(u) ==
    LET free == {f \in Frame : swap_pool[f] = NULL}
    IN  /\ At(u, "pager") /\ Holds(u)
        /\ stillMissing(u)
        /\ free # {}
        /\ frame' = [frame EXCEPT ![u] = CHOOSE f \in free : \A g \in free : f <= g]
        /\ Goto(u, afterFrame(u))
        /\ UNCHANGED <<memory, sectors, swap_semaphore, want, block, file_blocks, frame_data,
                       disk, cpu>>

\* A faulty nextVictim, for TypeOK: the index does not wrap.
nextVictimUnwrapped == vic + 1

nextVictim == (vic + 1) % SWAP_POOL_SIZE

\* getFreeFrame finds none: the victim index advances and the frame it named before is
\* written to a free block.
Victim(u) ==
    /\ At(u, "pager") /\ Holds(u)
    /\ stillMissing(u)
    /\ \A f \in Frame : swap_pool[f] # NULL
    /\ \/ /\ alloc(u)
          /\ vic' = nextVictim
          /\ Goto(u, "write")
          /\ UNCHANGED <<pte, swap_pool, swap_semaphore, want, frame, file_blocks, frame_data,
                         disk, cpu>>
       \/ /\ swap_free = <<>>
          /\ fatal

\* The block is written; then the frame after the victim is reset and returned.  The
\* block is stored through the pte pointer that was just set to NULL, that is, in the
\* word at address 4, a vector nothing here reads: no page is marked as not valid.
VictimWritten(u) ==
    /\ At(u, "write")
    /\ \/ /\ disk' = [disk EXCEPT ![block[u]] =
                        frame_data[(vic + SWAP_POOL_SIZE - 1) % SWAP_POOL_SIZE]]
          /\ swap_pool' = [swap_pool EXCEPT ![vic] = NULL]
          /\ frame' = [frame EXCEPT ![u] = vic]
          /\ block' = [block EXCEPT ![u] = NULL]
          /\ Goto(u, afterFrame(u))
          /\ UNCHANGED <<pte, vic, sectors, swap_semaphore, want, file_blocks, frame_data, cpu>>
       \/ fatal

\* A faulty source, for LoadedRight: pfn is decoded with head and sector exchanged.
sourceExchanged(pg) == <<blockOf(pg)[2], blockOf(pg)[1]>>

\* The block that pfn names.
source(pg) == blockOf(pg)

\* disk_to_frame: the transfer and swap_release.
PageRead(u) ==
    /\ At(u, "read")
    /\ \/ /\ frame_data' = [frame_data EXCEPT ![frame[u]] = disk[source(want[u])]]
          /\ release(blockOf(want[u]))
          /\ Goto(u, "map")
          /\ UNCHANGED <<memory, swap_semaphore, locals, file_blocks, disk, cpu>>
       \/ fatal

\* Faulty forms of poolWith: for FrameExclusiveAtFirst the pool is not told, for PoolAgrees the
\* entry of the victim index is set instead of the one of page_index.
poolUntold(u) == swap_pool
poolAtVictim(u) == [swap_pool EXCEPT ![vic] = want[u]]

poolWith(u) == [swap_pool EXCEPT ![frame[u]] = want[u]]

\* The end of pager: the page is valid.  One that was never on disk starts with whatever
\* the frame holds, which is its contents from now on.
Map(u) ==
    /\ At(u, "map")
    /\ pte' = [pte EXCEPT ![want[u]] = InFrame(frame[u])]
    /\ swap_pool' = poolWith(u)
    /\ frame_data' = IF onDisk(want[u]) THEN frame_data
                     ELSE [frame_data EXCEPT ![frame[u]] = want[u]]
    /\ want' = [want EXCEPT ![u] = NULL] /\ frame' = [frame EXCEPT ![u] = NULL]
    /\ V /\ Goto(u, "run")
    /\ UNCHANGED <<vic, sectors, block, file_blocks, disk, cpu>>

\* A store of u to a page of its own or a shared one that is valid.  The frame may have
\* been given to another page since, or be about to be: neither getFreeFrame nor SYS21
\* takes the old page's entry away, and nothing here stops the program.
Store(u, pg) ==
    /\ At(u, "run")
    /\ pg[1] \in {u, Useg3}
    /\ \E f \in Frame :
          /\ pte[pg] = InFrame(f)
          /\ frame_data' = [frame_data EXCEPT ![f] = IF frame_data[f] = pg THEN pg ELSE Spoilt]
    /\ UNCHANGED <<memory, sectors, swap_semaphore, pc, locals, file_blocks, disk, cpu>>

--------------------------------------------------------------------------------
(* usr21_TERMINATE *)

Terminate(u) ==
    /\ At(u, "run")
    /\ P(u) /\ Goto(u, "clean")
    /\ UNCHANGED <<memory, sectors, locals, file_blocks, frame_data, disk, cpu>>

\* The condition of the loop assigns the asid of u, which is not 0: every frame is reset.
CleanUp(u) ==
    /\ At(u, "clean") /\ Holds(u)
    /\ swap_pool' = [f \in Frame |-> NULL]
    /\ V /\ Goto(u, "ended")
    /\ UNCHANGED <<pte, vic, sectors, locals, file_blocks, frame_data, disk, cpu>>

--------------------------------------------------------------------------------
(* init_proc *)

\* The user process a program would be for; asids are given in order.
nextAsid == {u \in UProc : pc[u] = "new"}

\* A block of a program comes from the tape and gets a free block of the disk.
TapeBlock ==
    /\ At(InitProc, "tape")
    /\ nextAsid # {} /\ Len(file_blocks) < MaxBlocks
    /\ \/ /\ alloc(InitProc)
          /\ Goto(InitProc, "write")
          /\ UNCHANGED <<memory, swap_semaphore, want, frame, file_blocks, frame_data, disk, cpu>>
       \/ /\ swap_free = <<>>
          /\ fatal

\* The process is created: the page table names the blocks.
createProcess(u, blocks) ==
    /\ pte' = [pg \in Page |-> IF pg[1] = u /\ pg[2] < Len(blocks)
                               THEN OnDisk(blocks[pg[2] + 1]) ELSE pte[pg]]
    /\ pc' = [pc EXCEPT ![u] = "run", ![InitProc] = "tape"]
    /\ file_blocks' = <<>>

\* frame_to_disk returns to readFileFromTapeAndStartProcess; the block was, or was not,
\* the last one of the program.
BlockWritten ==
    LET u      == CHOOSE v \in nextAsid : TRUE
        blocks == Append(file_blocks, block[InitProc])
    IN  /\ At(InitProc, "write")
        /\ \/ /\ disk' = [disk EXCEPT ![block[InitProc]] = <<u, Len(file_blocks)>>]
              /\ block' = [block EXCEPT ![InitProc] = NULL]
              /\ \/ createProcess(u, blocks)
                 \/ /\ Len(blocks) < MaxBlocks
                    /\ file_blocks' = blocks /\ Goto(InitProc, "tape")
                    /\ UNCHANGED pte
              /\ UNCHANGED <<swap_pool, vic, sectors, swap_semaphore, want, frame, frame_data, cpu>>
           \/ fatal

\* The tape is at its end, or fails: the program being read is given up.
EndOfTape ==
    /\ At(InitProc, "tape")
    /\ file_blocks' = <<>> /\ Goto(InitProc, "done")
    /\ UNCHANGED <<memory, sectors, swap_semaphore, locals, frame_data, disk, cpu>>

--------------------------------------------------------------------------------

\* No page of useg3 has an entry yet, nor has one of useg2.
init_useg3_pt == [pg \in Page |-> Blank]

\* init(): empty page tables and swap pool, the sectors from 1 on in the free list.
\* What lies behind disk_free_list reads as a block that is linked or not, where
\* swap_release can look: the second index is the head of a block.
Init ==
    /\ pte = init_useg3_pt
    /\ swap_pool = [f \in Frame |-> NULL]
    /\ vic = 0
    /\ swap_free = [i \in 1 .. MAX_HEAD * (MAX_SECT - 1) |->
                      <<(i - 1) \div (MAX_SECT - 1), ((i - 1) % (MAX_SECT - 1)) + 1>>]
    /\ linked \in [Block -> BOOLEAN]
    /\ \A b \in Block : b[1] < MAX_HEAD \/ b[2] >= MAX_HEAD => linked[b] = (b[2] # 0)
    /\ swap_semaphore = <<>>
    /\ pc = [p \in Proc |-> IF p = InitProc THEN "tape" ELSE "new"]
    /\ want = [u \in UProc |-> NULL]
    /\ frame = [u \in UProc |-> NULL]
    /\ block = [p \in Proc |-> NULL]
    /\ file_blocks = <<>>
    /\ frame_data = [f \in Frame |-> NULL]
    /\ disk = [b \in Block |-> NULL]
    /\ cpu = "up"

pager(u) ==
    \/ NoLongerMissing(u) \/ FreeFrame(u) \/ Victim(u) \/ VictimWritten(u)
    \/ PageRead(u) \/ Map(u)

Next ==
    \/ \E u \in UProc, pg \in Page : Fault(u, pg) \/ Store(u, pg)
    \/ \E u \in UProc : pager(u) \/ Terminate(u) \/ CleanUp(u)
    \/ TapeBlock \/ BlockWritten \/ EndOfTape

Spec == Init /\ [][Next]_vars

--------------------------------------------------------------------------------
(* Properties *)

\* Every variable keeps its type; who is in the pager knows its page.
TypeOK ==
    /\ \A pg \in Page : valid(pg) \/ onDisk(pg) \/ pte[pg] = Blank
    /\ swap_pool \in [Frame -> Page \cup {NULL}]
    /\ vic \in Frame
    /\ swap_free \in Seq(Block) /\ linked \in [Block -> BOOLEAN]
    /\ swap_semaphore \in Seq(UProc)
    /\ pc \in [Proc -> {"new", "tape", "write", "done", "run", "pager", "read", "map",
                        "clean", "ended"}]
    /\ want \in [UProc -> Page \cup {NULL}] /\ frame \in [UProc -> Frame \cup {NULL}]
    /\ block \in [Proc -> Block \cup {NULL}]
    /\ \A u \in UProc : pc[u] \in {"pager", "write", "read", "map"} => want[u] # NULL
    /\ \A p \in Proc : pc[p] = "write" <=> block[p] # NULL
    /\ file_blocks \in Seq(Block)
    /\ cpu \in {"up", "fatal"}

\* The blocks that hold, or are about to hold, something.
Used == {b \in Block : \/ \E pg \in Page : pte[pg] = OnDisk(b)
                       \/ b \in Members(file_blocks)
                       \/ \E p \in Proc : block[p] = b}

\* A block of the disk is for one purpose at a time, although blocks are released under
\* another index than their own and init allocates without the mutex.
SectorsOnce ==
    /\ NoRepeats(swap_free)
    /\ Members(swap_free) \cap Used = {}
    /\ \A pg, qg \in Page : pg # qg /\ onDisk(pg) => pte[pg] # pte[qg]

\* The pool never names a frame its page is not in.
PoolAgrees == \A f \in Frame : swap_pool[f] # NULL => pte[swap_pool[f]] = InFrame(f)

\* The pages a process may still use.
Live(pg) == IF pg[1] = Useg3 THEN TRUE ELSE pc[pg[1]] # "ended"

\* No two pages in use are in one frame (documents/phase3.pdf, 3.5.4).
FrameExclusive ==
    \A pg, qg \in Page : pg # qg /\ Live(pg) /\ Live(qg) /\ valid(pg) => pte[pg] # pte[qg]

\* The code does keep frames apart as long as there is a free one and no process ended.
FrameExclusiveAtFirst ==
    /\ swap_semaphore = <<>>
    /\ \E f \in Frame : swap_pool[f] = NULL
    /\ \A u \in UProc : pc[u] # "ended"
    => FrameExclusive

\* A page that becomes valid is backed by its own contents: what init read from the tape
\* for it, whatever was evicted, loaded and released since.  Only a frame that still is
\* another page's, by its entry, can hold something else: a program's store to that page
\* while this one was loaded, which the pager should have made impossible.
LoadedRight ==
    [][\A pg \in Page, f \in Frame :
          ~ valid(pg) /\ pte'[pg] = InFrame(f) =>
            \/ frame_data'[f] = pg
            \/ frame_data'[f] = Spoilt /\ \E qg \in Page \ {pg} : pte[qg] = InFrame(f)]_vars

\* A page that is in memory is not brought in again, to another frame, by whoever waited
\* for the mutex while it was brought in.  Its entry may become invalid: documents/phase3.pdf
\* 3.5.4 says so of an evicted page.
BroughtInOnce ==
    [][\A pg \in Page, f \in Frame :
          valid(pg) /\ pte'[pg] = InFrame(f) => pte[pg] = InFrame(f)]_vars

================================================================================
