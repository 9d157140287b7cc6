----------------------------- MODULE PagingProofs ------------------------------
EXTENDS Paging, ProcQueueLemmas

(* The proofs about the virtual memory (pager.c, swap.c, initUProc.c), for any number of *)
(* processes, pages, frames and sectors.  The invariant has one part for each resource:  *)
(* the mutex, the sectors, the frames, and the contents of both.                         *)

Entry == {Blank} \cup {OnDisk(b) : b \in Block} \cup {InFrame(f) : f \in Frame}

\* Where processes are, and what they know there.
Types ==
    /\ TypeOK
    /\ pte \in [Page -> Entry] /\ DOMAIN frame_data = Frame /\ DOMAIN disk = Block
    /\ pc[InitProc] \in {"tape", "write", "done"}
    /\ pc[InitProc] = "write" => nextAsid # {}
    /\ \A u \in UProc :
         /\ pc[u] \notin {"tape", "done"}
         /\ want[u] # NULL => want[u][1] \in {u, Useg3}
         /\ pc[u] \in {"read", "map"} => frame[u] # NULL

InPager == {"pager", "write", "read", "map", "clean"}
PastCheck == {"write", "read", "map"}

\* The mutex: who is past the check of pager holds it, so the page it checked is still
\* missing and the frame it was given is still nobody's.
Mutex ==
    /\ NoRepeats(swap_semaphore)
    /\ Members(swap_semaphore) = {u \in UProc : pc[u] \in InPager}
    /\ \A u \in UProc : pc[u] \in PastCheck =>
         Head(swap_semaphore) = u /\ ~ valid(want[u])
    /\ \A u \in UProc : pc[u] \in {"read", "map"} => swap_pool[frame[u]] = NULL

\* A block that is free or used was linked once, and has one use.
Sectors ==
    /\ SectorsOnce
    /\ \A b \in Members(swap_free) \cup Used : linked[b]
    /\ NoRepeats(file_blocks)
    /\ \A b \in Members(file_blocks), pg \in Page : pte[pg] # OnDisk(b)
    /\ \A p \in Proc : block[p] # NULL =>
         /\ block[p] \notin Members(file_blocks)
         /\ \A pg \in Page : pte[pg] # OnDisk(block[p])
         /\ \A q \in Proc \ {p} : block[q] # block[p]

\* Before the first process ends: frames are given to a page each until none is left; then
\* at most the frame of an eviction is free, while the mutex is held.
AtFirst ==
    \/ \E u \in UProc : pc[u] = "ended"
    \/ \A pg \in Page, f \in Frame : pte[pg] = InFrame(f) => swap_pool[f] = pg
    \/ \A f \in Frame : swap_pool[f] # NULL
    \/ \E u \in UProc :
         /\ pc[u] \in {"read", "map"}
         /\ \A f \in Frame \ {frame[u]} : swap_pool[f] # NULL

Frames ==
    /\ PoolAgrees
    /\ \A pg \in Page : pg[1] # Useg3 /\ pc[pg[1]] = "new" => pte[pg] = Blank
    /\ \A u \in UProc : pc[u] = "write" => \A f \in Frame : swap_pool[f] # NULL
    /\ AtFirst

\* A frame that was read for a page holds it, unless a program stored to another page that
\* is still in the frame by its entry.
Backed(f, pg) ==
    \/ frame_data[f] = pg
    \/ frame_data[f] = Spoilt /\ \E qg \in Page : pte[qg] = InFrame(f)

\* Blocks hold the pages they are written for, and frames those that were read for them.
Contents ==
    /\ \A pg \in Page, b \in Block : pte[pg] = OnDisk(b) => disk[b] = pg
    /\ \A i \in 1 .. Len(file_blocks) :
         disk[file_blocks[i]] = <<CHOOSE v \in nextAsid : TRUE, i - 1>>
    /\ \A u \in UProc :
         /\ pc[u] = "read" => onDisk(want[u])
         /\ pc[u] = "map" /\ onDisk(want[u]) => Backed(frame[u], want[u])

IInv == Types /\ Mutex /\ Sectors /\ Frames /\ Contents

--------------------------------------------------------------------------------
(* What an entry says, it says of one block or one frame *)

\* A block, a frame and nothing are told apart.
LEMMA Entries ==
    /\ \A b, c : OnDisk(b) = OnDisk(c) => b = c
    /\ \A f, g : InFrame(f) = InFrame(g) => f = g
    /\ \A b, f : OnDisk(b) # InFrame(f)
    /\ \A b : OnDisk(b) # Blank
    /\ \A f : InFrame(f) # Blank
BY DEF OnDisk, InFrame, Blank

\* A page is valid, on disk, or has no entry.
LEMMA OneEntry ==
    ASSUME Types, NEW pg \in Page
    PROVE  /\ valid(pg) \/ onDisk(pg) \/ pte[pg] = Blank
           /\ ~ (valid(pg) /\ onDisk(pg))
           /\ onDisk(pg) => blockOf(pg) \in Block /\ pte[pg] = OnDisk(blockOf(pg))
<1>1. valid(pg) \/ onDisk(pg) \/ pte[pg] = Blank
  BY DEF Types, TypeOK
<1>2. ~ (valid(pg) /\ onDisk(pg))
  BY Entries DEF valid, onDisk
<1>3. onDisk(pg) => blockOf(pg) \in Block /\ pte[pg] = OnDisk(blockOf(pg))
  BY DEF onDisk, blockOf
<1> QED
  BY <1>1, <1>2, <1>3

--------------------------------------------------------------------------------
(* The mutex *)

\* Who holds the mutex is alone past the check.
LEMMA Alone ==
    ASSUME Mutex, NEW u \in UProc, Holds(u)
    PROVE  \A v \in UProc \ {u} : pc[v] \notin PastCheck
BY DEF Mutex, Holds

\* Who is past the check holds the mutex.
LEMMA PastCheckHolds ==
    ASSUME Types, Mutex, NEW u \in UProc, pc[u] \in PastCheck
    PROVE  Holds(u)
<1>1. u \in Members(swap_semaphore)
  BY DEF Mutex, PastCheck, InPager
<1>2. swap_semaphore # <<>>
  BY <1>1, MembersType DEF Types, TypeOK
<1> QED
  BY <1>2 DEF Mutex, Holds

\* The P of the pager and of SYS21.
LEMMA MutexTaken ==
    ASSUME Types, Mutex, NEW u \in UProc, pc[u] \notin InPager, NEW x \in {"pager", "clean"},
           P(u), Goto(u, x), UNCHANGED <<pte, swap_pool, frame>>,
           \A v \in UProc \ {u} : want'[v] = want[v]
    PROVE  Mutex'
<1>1. swap_semaphore \in Seq(UProc) /\ u \notin Members(swap_semaphore)
  BY DEF Types, TypeOK, Mutex
<1>2. /\ NoRepeats(swap_semaphore')
      /\ Members(swap_semaphore') = Members(swap_semaphore) \cup {u}
  BY <1>1, AppendMembers DEF P, Mutex
<1>3. \A v \in UProc : pc'[v] = IF v = u THEN x ELSE pc[v]
  BY DEF Goto, Types, TypeOK, Proc
<1>4. Members(swap_semaphore') = {v \in UProc : pc'[v] \in InPager}
  BY <1>2, <1>3 DEF Mutex, InPager
<1>5. ASSUME NEW v \in UProc, pc'[v] \in PastCheck
      PROVE  Head(swap_semaphore') = v /\ ~ valid(want[v])'
  <2>1. v # u /\ pc[v] \in PastCheck
    BY <1>3, <1>5 DEF PastCheck
  <2>2. Head(swap_semaphore) = v /\ ~ valid(want[v]) /\ swap_semaphore # <<>>
    BY <2>1, PastCheckHolds DEF Mutex, Holds
  <2>3. Head(swap_semaphore') = Head(swap_semaphore)
    BY <1>1, <2>2, HeadTailProperties, AppendProperties, EmptySeq, LenProperties DEF P
  <2> QED
    BY <2>1, <2>2, <2>3 DEF valid
<1>6. \A v \in UProc : pc'[v] \in {"read", "map"} => swap_pool'[frame'[v]] = NULL
  BY <1>3 DEF Mutex
<1> QED
  BY <1>2, <1>4, <1>5, <1>6 DEF Mutex

\* A V after which nobody is past the check.
LEMMA MutexReleased ==
    ASSUME Types, Mutex, NEW u \in UProc, Holds(u), NEW x \in {"run", "ended"}, V, Goto(u, x)
    PROVE  Mutex'
<1>1. swap_semaphore \in Seq(UProc) /\ swap_semaphore # <<>> /\ Head(swap_semaphore) = u
  BY DEF Types, TypeOK, Holds
<1>2. /\ Members(swap_semaphore) = {u} \cup Members(swap_semaphore')
      /\ NoRepeats(swap_semaphore') /\ u \notin Members(swap_semaphore')
  BY <1>1, HeadTailMembers DEF V, Mutex
<1>3. \A v \in UProc : pc'[v] = IF v = u THEN x ELSE pc[v]
  BY DEF Goto, Types, TypeOK, Proc
<1>4. Members(swap_semaphore') = {v \in UProc : pc'[v] \in InPager}
  BY <1>2, <1>3 DEF Mutex, InPager
<1>5. \A v \in UProc : pc'[v] \notin PastCheck
  BY <1>3, Alone DEF PastCheck
<1> QED
  BY <1>2, <1>4, <1>5 DEF Mutex, PastCheck

\* A step of the holder past the check.
LEMMA MutexHeld ==
    ASSUME Types, Mutex, NEW u \in UProc, Holds(u), pc[u] \in InPager,
           NEW x \in PastCheck, Goto(u, x), UNCHANGED <<swap_semaphore, pte, want>>,
           ~ valid(want[u]), x \in {"read", "map"} => swap_pool'[frame'[u]] = NULL
    PROVE  Mutex'
<1>1. \A v \in UProc : pc'[v] = IF v = u THEN x ELSE pc[v]
  BY DEF Goto, Types, TypeOK, Proc
<1>2. Members(swap_semaphore') = {v \in UProc : pc'[v] \in InPager}
  BY <1>1 DEF Mutex, InPager, PastCheck
<1>3. \A v \in UProc : pc'[v] \in PastCheck => v = u
  BY <1>1, Alone
<1>4. ASSUME NEW v \in UProc, pc'[v] \in PastCheck
      PROVE  Head(swap_semaphore') = v /\ ~ valid(want[v])'
  BY <1>3, <1>4 DEF Holds, valid
<1>5. \A v \in UProc : pc'[v] \in {"read", "map"} => swap_pool'[frame'[v]] = NULL
  BY <1>1, <1>3 DEF PastCheck
<1> QED
  BY <1>2, <1>4, <1>5 DEF Mutex

\* A step that moves no user process in the pager and makes no page valid.
LEMMA MutexKept ==
    ASSUME Mutex, UNCHANGED <<swap_semaphore, want, frame, swap_pool>>,
           \A pg, f : pte'[pg] = InFrame(f) => pte[pg] = InFrame(f),
           \A v \in UProc : pc[v] # pc'[v] => pc[v] \notin InPager /\ pc'[v] \notin InPager
    PROVE  Mutex'
<1>1. {v \in UProc : pc[v] \in InPager} = {v \in UProc : pc'[v] \in InPager}
  OBVIOUS
<1>2. \A v \in UProc : pc'[v] \in PastCheck => pc[v] \in PastCheck
  BY DEF PastCheck, InPager
<1>3. \A v \in UProc : pc'[v] \in {"read", "map"} => pc[v] \in {"read", "map"}
  BY DEF InPager
<1>4. \A v \in UProc : valid(want[v])' => valid(want[v])
  BY DEF valid
<1> QED
  BY <1>1, <1>2, <1>3, <1>4 DEF Mutex

--------------------------------------------------------------------------------
(* The sectors *)

\* No block gets a new use, and none is freed.
LEMMA SectorsKept ==
    ASSUME Sectors, UNCHANGED <<swap_free, linked, file_blocks>>,
           \A pg, b : pte'[pg] = OnDisk(b) => pte[pg] = OnDisk(b),
           \A p \in Proc : block'[p] = block[p] \/ block'[p] = NULL
    PROVE  Sectors'
<1>1. Used' \subseteq Used
  <2> SUFFICES ASSUME NEW b \in Used', b \notin Used
               PROVE  FALSE
    OBVIOUS
  <2> QED
    BY PagingAssumption DEF Used
<1>2. SectorsOnce'
  <2>1. ASSUME NEW pg \in Page, NEW qg \in Page, pg # qg, onDisk(pg)'
        PROVE  pte'[pg] # pte'[qg]
    BY <2>1 DEF Sectors, SectorsOnce, onDisk
  <2> QED
    BY <1>1, <2>1 DEF Sectors, SectorsOnce
<1> QED
  BY <1>1, <1>2 DEF Sectors

\* swap_alloc gives a block that has no other use.
LEMMA SectorsAllocated ==
    ASSUME Types, Sectors, NEW p \in Proc, alloc(p), UNCHANGED <<pte, file_blocks>>
    PROVE  Sectors' /\ block' \in [Proc -> Block \cup {NULL}] /\ swap_free' \in Seq(Block)
<1> DEFINE b == Head(swap_free)
<1>1. /\ swap_free' \in Seq(Block) /\ b \in Block
      /\ Members(swap_free) = {b} \cup Members(swap_free')
      /\ NoRepeats(swap_free') /\ b \notin Members(swap_free')
  BY HeadTailMembers DEF Types, TypeOK, Sectors, SectorsOnce, alloc, poppedFree
<1>2. block' = [block EXCEPT ![p] = b] /\ linked' = linked
  BY DEF alloc
<1> HIDE DEF b
<1>3. \A q \in Proc : block'[q] = IF q = p THEN b ELSE block[q]
  BY <1>2 DEF Types, TypeOK
<1>4. b \notin Used /\ linked[b] /\ b # NULL
  BY <1>1, PagingAssumption DEF Sectors, SectorsOnce
<1>5. Used' \subseteq Used \cup {b}
  BY <1>3 DEF Used
<1>6. SectorsOnce'
  <2>1. ASSUME NEW pg \in Page, NEW qg \in Page, pg # qg, onDisk(pg)'
        PROVE  pte'[pg] # pte'[qg]
    BY <2>1 DEF Sectors, SectorsOnce, onDisk
  <2> QED
    BY <1>1, <1>4, <1>5, <2>1 DEF Sectors, SectorsOnce
<1>7. \A c \in Members(swap_free') \cup Used' : linked'[c]
  BY <1>1, <1>2, <1>4, <1>5 DEF Sectors
<1>8. /\ b \notin Members(file_blocks) /\ \A pg \in Page : pte[pg] # OnDisk(b)
      /\ \A q \in Proc : block[q] # b
  BY <1>1, <1>4 DEF Used
<1>9. \A q \in Proc : block'[q] # NULL =>
         /\ block'[q] \notin Members(file_blocks)
         /\ \A pg \in Page : pte[pg] # OnDisk(block'[q])
         /\ \A r \in Proc \ {q} : block'[r] # block'[q]
  BY <1>3, <1>8 DEF Sectors
<1> QED
  BY <1>1, <1>2, <1>6, <1>7, <1>9 DEF Sectors, Types, TypeOK

\* swap_release frees the block of the exchanged indices only if it was never linked, so it
\* is not free already and has no use.
LEMMA SectorsReleased ==
    ASSUME Types, Sectors, NEW b \in Block, release(b), UNCHANGED <<pte, file_blocks, block>>
    PROVE  Sectors' /\ swap_free' \in Seq(Block) /\ linked' \in [Block -> BOOLEAN]
<1> DEFINE slot == <<b[2], b[1]>>
<1>1. slot \in Block
  BY DEF Block
<1>2. CASE linked[slot] /\ UNCHANGED sectors
  BY <1>2, SectorsKept DEF sectors, Types, TypeOK
<1>3. CASE /\ ~ linked[slot] /\ swap_free' = Append(swap_free, slot)
           /\ linked' = [linked EXCEPT ![slot] = TRUE]
  <2> HIDE DEF slot
  <2>1. slot \notin Members(swap_free) /\ slot \notin Used
    BY <1>3 DEF Sectors
  <2>2. /\ swap_free' \in Seq(Block) /\ NoRepeats(swap_free')
        /\ Members(swap_free') = Members(swap_free) \cup {slot}
    BY <1>1, <1>3, <2>1, AppendMembers DEF Types, TypeOK, Sectors, SectorsOnce
  <2>3. linked' \in [Block -> BOOLEAN] /\ \A c \in Block : linked'[c] <=> c = slot \/ linked[c]
    BY <1>1, <1>3 DEF Types, TypeOK
  <2>4. Used' = Used /\ Used \subseteq Block
    BY DEF Used
  <2>5. SectorsOnce'
    <3>1. ASSUME NEW pg \in Page, NEW qg \in Page, pg # qg, onDisk(pg)'
          PROVE  pte'[pg] # pte'[qg]
      BY <3>1 DEF Sectors, SectorsOnce, onDisk
    <3> QED
      BY <2>1, <2>2, <2>4, <3>1 DEF Sectors, SectorsOnce
  <2>6. Members(swap_free) \subseteq Block
    BY MembersType DEF Types, TypeOK
  <2>7. \A c \in Members(swap_free') \cup Used' : linked'[c]
    BY <1>1, <2>2, <2>3, <2>4, <2>6 DEF Sectors
  <2> QED
    BY <2>2, <2>3, <2>5, <2>7 DEF Sectors
<1> QED
  BY <1>2, <1>3 DEF release

--------------------------------------------------------------------------------
(* Frames and contents *)

\* No frame or page changes.
LEMMA FramesKept ==
    ASSUME Frames, UNCHANGED <<swap_pool, pte>>,
           \A v \in UProc : /\ pc'[v] = "new" => pc[v] = "new"
                            /\ pc[v] = "ended" => pc'[v] = "ended"
                            /\ pc[v] \in {"read", "map"} =>
                                 pc'[v] \in {"read", "map"} /\ frame'[v] = frame[v]
                            /\ pc'[v] = "write" =>
                                 pc[v] = "write" \/ \A f \in Frame : swap_pool[f] # NULL
    PROVE  Frames'
<1>1. PoolAgrees'
  BY DEF Frames, PoolAgrees
<1>2. \A pg \in Page : pg[1] # Useg3 /\ pc'[pg[1]] = "new" => pte'[pg] = Blank
  <2>1. \A pg \in Page : pg[1] # Useg3 => pg[1] \in UProc
    BY DEF Page
  <2> QED
    BY <2>1 DEF Frames
<1>3. AtFirst'
  <2>1. CASE \E u \in UProc : pc[u] = "ended"
    BY <2>1 DEF AtFirst
  <2>2. CASE \A pg \in Page, f \in Frame : pte[pg] = InFrame(f) => swap_pool[f] = pg
    BY <2>2 DEF AtFirst
  <2>3. CASE \A f \in Frame : swap_pool[f] # NULL
    BY <2>3 DEF AtFirst
  <2>4. CASE \E u \in UProc : /\ pc[u] \in {"read", "map"}
                              /\ \A f \in Frame \ {frame[u]} : swap_pool[f] # NULL
    BY <2>4 DEF AtFirst
  <2> QED
    BY <2>1, <2>2, <2>3, <2>4 DEF Frames, AtFirst
<1>4. \A u \in UProc : pc'[u] = "write" => \A f \in Frame : swap_pool'[f] # NULL
  BY DEF Frames
<1> QED
  BY <1>1, <1>2, <1>3, <1>4 DEF Frames

\* Nothing is written, and nobody comes to the end of pager.
LEMMA ContentsKept ==
    ASSUME Contents, UNCHANGED <<disk, frame_data, pte, file_blocks>>, nextAsid' = nextAsid,
           \A v \in UProc :
             /\ pc'[v] = "read" => \/ pc[v] = "read" /\ want'[v] = want[v]
                                  \/ onDisk(want'[v])
             /\ pc'[v] = "map" => \/ pc[v] = "map" /\ want'[v] = want[v] /\ frame'[v] = frame[v]
                                 \/ ~ onDisk(want'[v])
    PROVE  Contents'
BY DEF Contents, Backed, onDisk

\* A user process that moves between other places does not become the next to load.
LEMMA NextAsidKept ==
    ASSUME Types, NEW u \in UProc, pc[u] # "new", NEW x, x # "new", Goto(u, x)
    PROVE  nextAsid' = nextAsid
BY DEF nextAsid, Goto, Types, TypeOK, Proc

--------------------------------------------------------------------------------
(* The steps *)

\* What a page table says is one of the three things TypeOK names.
LEMMA EntriesTyped ==
    ASSUME pte \in [Page -> Entry]
    PROVE  \A pg \in Page : valid(pg) \/ onDisk(pg) \/ pte[pg] = Blank
BY DEF Entry, valid, onDisk

\* A step of a user process that is loaded keeps the types when it keeps its own.
LEMMA TypesOfUser ==
    ASSUME Types, NEW u \in UProc, pc[u] # "new",
           NEW x \in {"run", "pager", "write", "read", "map", "clean", "ended"}, Goto(u, x),
           (pte \in [Page -> Entry])',
           swap_pool' \in [Frame -> Page \cup {NULL}], vic' \in Frame,
           swap_free' \in Seq(Block), linked' \in [Block -> BOOLEAN],
           swap_semaphore' \in Seq(UProc),
           want' \in [UProc -> Page \cup {NULL}], frame' \in [UProc -> Frame \cup {NULL}],
           block' \in [Proc -> Block \cup {NULL}],
           \A v \in UProc \ {u} : want'[v] = want[v] /\ frame'[v] = frame[v],
           \A p \in Proc \ {u} : block'[p] = block[p],
           block'[u] # NULL <=> x = "write",
           x \in {"pager", "write", "read", "map"} => want'[u] # NULL,
           want'[u] # NULL => want'[u][1] \in {u, Useg3},
           x \in {"read", "map"} => frame'[u] # NULL,
           file_blocks' = file_blocks, cpu' = cpu,
           DOMAIN frame_data' = Frame, DOMAIN disk' = Block
    PROVE  Types' /\ nextAsid' = nextAsid
<1>1. nextAsid' = nextAsid
  BY NextAsidKept
<1>2. (\A pg \in Page : valid(pg) \/ onDisk(pg) \/ pte[pg] = Blank)'
  BY EntriesTyped, PTL
<1>3. u # InitProc /\ u \in Proc /\ InitProc \in Proc
  BY PagingAssumption DEF Proc
<1>4. \A p \in Proc : pc'[p] = IF p = u THEN x ELSE pc[p]
  BY DEF Goto, Types, TypeOK
<1>5. pc' \in [Proc -> {"new", "tape", "write", "done", "run", "pager", "read", "map",
                        "clean", "ended"}]
  BY DEF Goto, Types, TypeOK
<1>6. \A p \in Proc : pc'[p] = "write" <=> block'[p] # NULL
  BY <1>4 DEF Types, TypeOK
<1>7. \A v \in UProc : pc'[v] \in {"pager", "write", "read", "map"} => want'[v] # NULL
  BY <1>3, <1>4 DEF Types, TypeOK, Proc
<1>8. TypeOK'
  BY <1>2, <1>5, <1>6, <1>7 DEF Types, TypeOK
<1>9. /\ pc'[InitProc] \in {"tape", "write", "done"}
      /\ pc'[InitProc] = "write" => nextAsid' # {}
  BY <1>1, <1>3, <1>4 DEF Types
<1>10. \A v \in UProc :
         /\ pc'[v] \notin {"tape", "done"}
         /\ want'[v] # NULL => want'[v][1] \in {v, Useg3}
         /\ pc'[v] \in {"read", "map"} => frame'[v] # NULL
  BY <1>3, <1>4 DEF Types, Proc
<1> QED
  BY <1>1, <1>8, <1>9, <1>10 DEF Types

\* fatal() stops everything where it is.
LEMMA FatalStep ==
    ASSUME IInv, UNCHANGED <<memory, sectors, swap_semaphore, pc, locals, file_blocks,
                             frame_data, disk>>,
           cpu' \in {"up", "fatal"}
    PROVE  IInv'
<1>1. Types'
  BY DEF IInv, Types, TypeOK, memory, sectors, locals, nextAsid, valid, onDisk
<1>2. Mutex'
  BY MutexKept DEF IInv, memory, locals
<1>3. Sectors'
  BY SectorsKept DEF IInv, memory, sectors, locals
<1>4. Frames'
  BY FramesKept DEF IInv, memory, locals
<1>5. Contents'
  BY ContentsKept DEF IInv, memory, locals, nextAsid
<1> QED
  BY <1>1, <1>2, <1>3, <1>4, <1>5 DEF IInv

\* An access to a page that is missing.
LEMMA FaultStep ==
    ASSUME IInv, NEW u \in UProc, NEW pg \in Page, Fault(u, pg)
    PROVE  IInv'
<1>1. /\ pc[u] = "run" /\ pg[1] \in {u, Useg3}
      /\ want' = [want EXCEPT ![u] = pg]
      /\ P(u) /\ Goto(u, "pager")
      /\ UNCHANGED <<pte, swap_pool, vic, swap_free, linked, frame, block, file_blocks,
                     frame_data, disk, cpu>>
  BY DEF Fault, At, memory, sectors
<1>2. Types /\ Mutex /\ Sectors /\ Frames /\ Contents
  BY DEF IInv
<1>3. /\ want' \in [UProc -> Page \cup {NULL}] /\ want'[u] = pg
      /\ \A v \in UProc \ {u} : want'[v] = want[v]
  BY <1>1, <1>2 DEF Types, TypeOK
<1>4. pg # NULL /\ u \in Proc
  BY PagingAssumption DEF Proc
<1>5. swap_semaphore' \in Seq(UProc)
  BY <1>1, <1>2, AppendProperties DEF P, Types, TypeOK
<1>6. block'[u] = NULL
  BY <1>1, <1>2, <1>4 DEF Types, TypeOK
<1>7. Types' /\ nextAsid' = nextAsid
  BY <1>1, <1>2, <1>3, <1>4, <1>5, <1>6, TypesOfUser DEF Types, TypeOK
<1>8. Mutex'
  BY <1>1, <1>2, <1>3, MutexTaken DEF InPager
<1>9. Sectors'
  BY <1>1, <1>2, SectorsKept
<1>10. \A v \in UProc : pc'[v] = IF v = u THEN "pager" ELSE pc[v]
  BY <1>1, <1>2 DEF Goto, Types, TypeOK, Proc
<1>11. Frames'
  BY <1>1, <1>2, <1>10, FramesKept
<1>12. Contents'
  BY <1>1, <1>2, <1>3, <1>7, <1>10, ContentsKept
<1> QED
  BY <1>7, <1>8, <1>9, <1>11, <1>12 DEF IInv

\* The page came in while the process waited for the mutex.
LEMMA NoLongerMissingStep ==
    ASSUME IInv, NEW u \in UProc, NoLongerMissing(u)
    PROVE  IInv'
<1>1. /\ pc[u] = "pager" /\ Holds(u) /\ V /\ Goto(u, "run")
      /\ UNCHANGED <<pte, swap_pool, vic, swap_free, linked, want, frame, block, file_blocks,
                     frame_data, disk, cpu>>
  BY DEF NoLongerMissing, At, memory, sectors, locals
<1>2. Types /\ Mutex /\ Sectors /\ Frames /\ Contents
  BY DEF IInv
<1>3. swap_semaphore' \in Seq(UProc)
  BY <1>1, <1>2, HeadTailProperties DEF V, Holds, Types, TypeOK
<1>4. block'[u] = NULL
  BY <1>1, <1>2 DEF Types, TypeOK, Proc
<1>5. Types' /\ nextAsid' = nextAsid
  BY <1>1, <1>2, <1>3, <1>4, TypesOfUser DEF Types, TypeOK
<1>6. Mutex'
  BY <1>1, <1>2, MutexReleased
<1>7. Sectors'
  BY <1>1, <1>2, SectorsKept
<1>8. \A v \in UProc : pc'[v] = IF v = u THEN "run" ELSE pc[v]
  BY <1>1, <1>2 DEF Goto, Types, TypeOK, Proc
<1>9. Frames'
  BY <1>1, <1>2, <1>8, FramesKept
<1>10. Contents'
  BY <1>1, <1>2, <1>5, <1>8, ContentsKept
<1> QED
  BY <1>5, <1>6, <1>7, <1>9, <1>10 DEF IInv

\* A program stores to a page that is valid, perhaps in a frame being read for another page.
LEMMA StoreStep ==
    ASSUME IInv, NEW u \in UProc, NEW pg \in Page, Store(u, pg)
    PROVE  IInv'
<1>1. UNCHANGED <<pte, swap_pool, vic, swap_free, linked, swap_semaphore, pc, want, frame, block,
                  file_blocks, disk, cpu>>
  BY DEF Store, memory, sectors, locals
<1>2. PICK f \in Frame :
        /\ pte[pg] = InFrame(f)
        /\ frame_data' = [frame_data EXCEPT ![f] = IF frame_data[f] = pg THEN pg ELSE Spoilt]
  BY DEF Store
<1>3. Types /\ Mutex /\ Sectors /\ Frames /\ Contents
  BY DEF IInv
<1>4. DOMAIN frame_data' = Frame
  BY <1>2, <1>3 DEF Types
<1>5. Types'
  <2>1. TypeOK'
    BY <1>1, <1>3 DEF Types, TypeOK, valid, onDisk
  <2> QED
    BY <1>1, <1>3, <1>4, <2>1 DEF Types, nextAsid
<1>6. Mutex'
  BY <1>1, <1>3, MutexKept
<1>7. Sectors'
  BY <1>1, <1>3, SectorsKept
<1>8. Frames'
  BY <1>1, <1>3, FramesKept
<1>9. Contents'
  <2>1. ASSUME NEW v \in UProc, pc[v] = "map", onDisk(want[v])
        PROVE  Backed(frame[v], want[v])'
    <3>1. Backed(frame[v], want[v])
      BY <1>3, <2>1 DEF Contents
    <3>2. frame[v] \in Frame
      BY <1>3, <2>1 DEF Types, TypeOK
    <3>3. CASE frame[v] # f
      BY <1>1, <1>2, <1>3, <3>1, <3>2, <3>3 DEF Backed, Types
    <3>4. CASE frame[v] = f
      <4>1. frame_data'[f] = frame_data[f] \/ frame_data'[f] = Spoilt
        BY <1>2, <1>3 DEF Types
      <4> QED
        BY <1>1, <1>2, <3>1, <3>4, <4>1 DEF Backed
    <3> QED
      BY <3>3, <3>4
  <2>2. nextAsid' = nextAsid
    BY <1>1 DEF nextAsid
  <2> QED
    BY <1>1, <1>3, <2>1, <2>2 DEF Contents, onDisk
<1> QED
  BY <1>5, <1>6, <1>7, <1>8, <1>9 DEF IInv

\* SYS21 takes the mutex.
LEMMA TerminateStep ==
    ASSUME IInv, NEW u \in UProc, Terminate(u)
    PROVE  IInv'
<1>1. /\ pc[u] = "run" /\ P(u) /\ Goto(u, "clean")
      /\ UNCHANGED <<pte, swap_pool, vic, swap_free, linked, want, frame, block, file_blocks,
                     frame_data, disk, cpu>>
  BY DEF Terminate, At, memory, sectors, locals
<1>2. Types /\ Mutex /\ Sectors /\ Frames /\ Contents
  BY DEF IInv
<1>3. swap_semaphore' \in Seq(UProc)
  BY <1>1, <1>2, AppendProperties DEF P, Types, TypeOK
<1>4. block'[u] = NULL
  BY <1>1, <1>2 DEF Types, TypeOK, Proc
<1>5. Types' /\ nextAsid' = nextAsid
  BY <1>1, <1>2, <1>3, <1>4, TypesOfUser DEF Types, TypeOK
<1>6. Mutex'
  BY <1>1, <1>2, MutexTaken DEF InPager
<1>7. Sectors'
  BY <1>1, <1>2, SectorsKept
<1>8. \A v \in UProc : pc'[v] = IF v = u THEN "clean" ELSE pc[v]
  BY <1>1, <1>2 DEF Goto, Types, TypeOK, Proc
<1>9. Frames'
  BY <1>1, <1>2, <1>8, FramesKept
<1>10. Contents'
  BY <1>1, <1>2, <1>5, <1>8, ContentsKept
<1> QED
  BY <1>5, <1>6, <1>7, <1>9, <1>10 DEF IInv

\* A set of frames has a least one.
LEMMA LeastFrame ==
    ASSUME NEW S \in SUBSET Frame, S # {}
    PROVE  \E f \in S : \A g \in S : f <= g
<1>1. PICK K : K = {i \in 1 .. SWAP_POOL_SIZE : i - 1 \in S}
  OBVIOUS
<1>2. K \in SUBSET (1 .. SWAP_POOL_SIZE) /\ SWAP_POOL_SIZE \in Nat
  BY <1>1, PagingAssumption
<1>3. \A f \in S : f \in Int /\ f + 1 \in K
  BY <1>1, PagingAssumption DEF Frame
<1>4. PICK i \in K : \A h \in K : i <= h
  BY <1>2, <1>3, LeastIndex
<1>5. i \in Int /\ i - 1 \in S
  BY <1>1, <1>2
<1>6. ASSUME NEW g \in S PROVE i - 1 <= g
  <2>1. g \in Int /\ i <= g + 1
    BY <1>3, <1>4
  <2> QED
    BY <1>5, <2>1
<1> QED
  BY <1>5, <1>6

\* A free frame is found.
LEMMA FreeFrameStep ==
    ASSUME IInv, NEW u \in UProc, FreeFrame(u)
    PROVE  IInv'
<1>1. PICK f : f = CHOOSE g \in {h \in Frame : swap_pool[h] = NULL} :
                     \A h \in {j \in Frame : swap_pool[j] = NULL} : g <= h
  OBVIOUS
<1>2. PICK x : x = afterFrame(u)
  OBVIOUS
<1>3. /\ pc[u] = "pager" /\ Holds(u) /\ ~ valid(want[u])
      /\ frame' = [frame EXCEPT ![u] = f] /\ Goto(u, x)
      /\ UNCHANGED <<pte, swap_pool, vic, swap_free, linked, swap_semaphore, want, block,
                     file_blocks, frame_data, disk, cpu>>
  BY <1>1, <1>2 DEF FreeFrame, At, memory, sectors, stillMissing
<1>4. f \in Frame /\ swap_pool[f] = NULL
  <2>1. {h \in Frame : swap_pool[h] = NULL} # {}
    BY DEF FreeFrame
  <2> QED
    BY <1>1, <2>1, LeastFrame
<1>5. Types /\ Mutex /\ Sectors /\ Frames /\ Contents
  BY DEF IInv
<1>6. x \in {"read", "map"} /\ (x = "read" <=> onDisk(want[u]))
  BY <1>2 DEF afterFrame
<1>7. /\ frame' \in [UProc -> Frame \cup {NULL}] /\ frame'[u] = f
      /\ \A v \in UProc \ {u} : frame'[v] = frame[v]
  BY <1>3, <1>4, <1>5 DEF Types, TypeOK
<1>8. f # NULL /\ u \in Proc
  BY <1>4, PagingAssumption DEF Proc
<1>9. block'[u] = NULL /\ want'[u] # NULL
  BY <1>3, <1>5, <1>8 DEF Types, TypeOK
<1>10. Types' /\ nextAsid' = nextAsid
  BY <1>3, <1>5, <1>6, <1>7, <1>8, <1>9, TypesOfUser DEF Types, TypeOK
<1>11. Mutex'
  BY <1>3, <1>4, <1>5, <1>6, <1>7, MutexHeld DEF PastCheck, InPager
<1>12. Sectors'
  BY <1>3, <1>5, SectorsKept
<1>13. \A v \in UProc : pc'[v] = IF v = u THEN x ELSE pc[v]
  BY <1>3, <1>5 DEF Goto, Types, TypeOK, Proc
<1>14. Frames'
  BY <1>3, <1>5, <1>6, <1>7, <1>13, FramesKept
<1>15. Contents'
  BY <1>3, <1>5, <1>6, <1>7, <1>10, <1>13, ContentsKept
<1> QED
  BY <1>10, <1>11, <1>12, <1>14, <1>15 DEF IInv

\* No frame is free: the block for the victim is taken, or the disk is full.
LEMMA VictimStep ==
    ASSUME IInv, NEW u \in UProc, Victim(u)
    PROVE  IInv'
<1>1. CASE fatal
  BY <1>1, FatalStep DEF fatal
<1>2. CASE ~ fatal
  <2>1. /\ pc[u] = "pager" /\ Holds(u) /\ ~ valid(want[u])
        /\ \A f \in Frame : swap_pool[f] # NULL
        /\ alloc(u) /\ vic' = nextVictim /\ Goto(u, "write")
        /\ UNCHANGED <<pte, swap_pool, swap_semaphore, want, frame, file_blocks, frame_data,
                       disk, cpu>>
    BY <1>2 DEF Victim, At, stillMissing
  <2>2. Types /\ Mutex /\ Sectors /\ Frames /\ Contents
    BY DEF IInv
  <2>3. u \in Proc
    BY DEF Proc
  <2>4. Sectors' /\ block' \in [Proc -> Block \cup {NULL}] /\ swap_free' \in Seq(Block)
    BY <2>1, <2>2, <2>3, SectorsAllocated
  <2>5. /\ linked' = linked /\ block'[u] = Head(swap_free)
        /\ \A p \in Proc \ {u} : block'[p] = block[p]
    BY <2>1, <2>2, <2>3 DEF alloc, Types, TypeOK
  <2>6. Head(swap_free) # NULL
    BY <2>1, <2>2, HeadTailProperties, PagingAssumption DEF alloc, Types, TypeOK
  <2>7. vic' \in Frame
    <3>1. SWAP_POOL_SIZE \in Nat \ {0} /\ vic \in 0 .. SWAP_POOL_SIZE - 1
      BY <2>2, PagingAssumption DEF Types, TypeOK, Frame
    <3>2. (vic + 1) % SWAP_POOL_SIZE \in 0 .. SWAP_POOL_SIZE - 1
      BY <3>1
    <3> QED
      BY <2>1, <3>2 DEF nextVictim, Frame
  <2>8. want'[u] # NULL
    BY <2>1, <2>2 DEF Types, TypeOK
  <2>9. Types' /\ nextAsid' = nextAsid
    BY <2>1, <2>2, <2>4, <2>5, <2>6, <2>7, <2>8, TypesOfUser DEF Types, TypeOK
  <2>10. Mutex'
    BY <2>1, <2>2, MutexHeld DEF PastCheck, InPager
  <2>11. \A v \in UProc : pc'[v] = IF v = u THEN "write" ELSE pc[v]
    BY <2>1, <2>2 DEF Goto, Types, TypeOK, Proc
  <2>12. Frames'
    BY <2>1, <2>2, <2>11, FramesKept
  <2>13. Contents'
    BY <2>1, <2>2, <2>9, <2>11, ContentsKept
  <2> QED
    BY <2>4, <2>9, <2>10, <2>12, <2>13 DEF IInv
<1> QED
  BY <1>1, <1>2

\* SYS21 resets every frame of the pool.
LEMMA CleanUpStep ==
    ASSUME IInv, NEW u \in UProc, CleanUp(u)
    PROVE  IInv'
<1>1. /\ pc[u] = "clean" /\ Holds(u) /\ V /\ Goto(u, "ended")
      /\ swap_pool' = [f \in Frame |-> NULL]
      /\ UNCHANGED <<pte, vic, swap_free, linked, want, frame, block, file_blocks,
                     frame_data, disk, cpu>>
  BY DEF CleanUp, At, sectors, locals
<1>2. Types /\ Mutex /\ Sectors /\ Frames /\ Contents
  BY DEF IInv
<1>3. swap_semaphore' \in Seq(UProc)
  BY <1>1, <1>2, HeadTailProperties DEF V, Holds, Types, TypeOK
<1>4. block'[u] = NULL /\ swap_pool' \in [Frame -> Page \cup {NULL}]
  BY <1>1, <1>2 DEF Types, TypeOK, Proc
<1>5. Types' /\ nextAsid' = nextAsid
  BY <1>1, <1>2, <1>3, <1>4, TypesOfUser DEF Types, TypeOK
<1>6. Mutex'
  BY <1>1, <1>2, MutexReleased
<1>7. Sectors'
  BY <1>1, <1>2, SectorsKept
<1>8. \A v \in UProc : pc'[v] = IF v = u THEN "ended" ELSE pc[v]
  BY <1>1, <1>2 DEF Goto, Types, TypeOK, Proc
<1>9. Frames'
  <2>1. PoolAgrees'
    BY <1>1 DEF PoolAgrees
  <2>2. \A pg \in Page : pg[1] # Useg3 /\ pc'[pg[1]] = "new" => pte'[pg] = Blank
    BY <1>1, <1>2, <1>8 DEF Frames, Page
  <2>3. \A v \in UProc : pc'[v] # "write"
    BY <1>1, <1>2, <1>8, Alone DEF PastCheck
  <2>4. AtFirst'
    BY <1>8 DEF AtFirst
  <2> QED
    BY <2>1, <2>2, <2>3, <2>4 DEF Frames
<1>10. Contents'
  BY <1>1, <1>2, <1>5, <1>8, ContentsKept
<1> QED
  BY <1>5, <1>6, <1>7, <1>9, <1>10 DEF IInv

\* The victim's frame is written and becomes the frame of the page that is missing.
LEMMA VictimWrittenStep ==
    ASSUME IInv, NEW u \in UProc, VictimWritten(u)
    PROVE  IInv'
<1>1. CASE fatal
  BY <1>1, FatalStep DEF fatal
<1>2. CASE ~ fatal
  <2> PICK x : x = afterFrame(u)
    OBVIOUS
  <2> PICK page : page = frame_data[(vic + SWAP_POOL_SIZE - 1) % SWAP_POOL_SIZE]
    OBVIOUS
  <2>1. /\ pc[u] = "write"
        /\ disk' = [disk EXCEPT ![block[u]] = page]
        /\ swap_pool' = [swap_pool EXCEPT ![vic] = NULL]
        /\ frame' = [frame EXCEPT ![u] = vic]
        /\ block' = [block EXCEPT ![u] = NULL] /\ Goto(u, x)
        /\ UNCHANGED <<pte, vic, swap_free, linked, swap_semaphore, want, file_blocks,
                       frame_data, cpu>>
    BY <1>2 DEF VictimWritten, At, sectors
  <2>2. Types /\ Mutex /\ Sectors /\ Frames /\ Contents
    BY DEF IInv
  <2>3. x \in {"read", "map"} /\ (x = "read" <=> onDisk(want[u]))
    BY DEF afterFrame
  <2>4. Holds(u) /\ ~ valid(want[u]) /\ pc[u] \in PastCheck
    BY <2>1, <2>2, PastCheckHolds DEF PastCheck, Mutex
  <2>5. u \in Proc /\ vic \in Frame /\ vic # NULL
    BY <2>2, PagingAssumption DEF Proc, Types, TypeOK
  <2>6. /\ frame' \in [UProc -> Frame \cup {NULL}] /\ frame'[u] = vic
        /\ \A v \in UProc \ {u} : frame'[v] = frame[v]
    BY <2>1, <2>2, <2>5 DEF Types, TypeOK
  <2>7. /\ block' \in [Proc -> Block \cup {NULL}] /\ block'[u] = NULL
        /\ \A p \in Proc \ {u} : block'[p] = block[p]
    BY <2>1, <2>2, <2>5 DEF Types, TypeOK
  <2>8. /\ swap_pool' \in [Frame -> Page \cup {NULL}] /\ swap_pool'[vic] = NULL
        /\ \A f \in Frame \ {vic} : swap_pool'[f] = swap_pool[f]
    BY <2>1, <2>2, <2>5 DEF Types, TypeOK
  <2>9. want[u] # NULL
    BY <2>1, <2>2 DEF Types, TypeOK
  <2>10. DOMAIN disk' = Block
    BY <2>1, <2>2 DEF Types
  <2>11. Types' /\ nextAsid' = nextAsid
    <3>1. /\ vic' \in Frame /\ swap_free' \in Seq(Block) /\ linked' \in [Block -> BOOLEAN]
          /\ swap_semaphore' \in Seq(UProc) /\ want' \in [UProc -> Page \cup {NULL}]
          /\ pte' \in [Page -> Entry] /\ DOMAIN frame_data' = Frame
      BY <2>1, <2>2 DEF Types, TypeOK
    <3>2. want'[u] = want[u] /\ want[u][1] \in {u, Useg3} /\ pc[u] # "new"
      BY <2>1, <2>2, <2>9 DEF Types
    <3>3. Types /\ Goto(u, x) /\ file_blocks' = file_blocks /\ cpu' = cpu
      BY <2>1, <2>2
    <3>4. want'[u] # NULL /\ frame'[u] # NULL
      BY <2>5, <2>6, <2>9, <3>2
    <3>5. \A v \in UProc \ {u} : want'[v] = want[v] /\ frame'[v] = frame[v]
      BY <2>1, <2>6
    <3>6. x \in {"read", "map"}
      BY <2>3
    <3> QED
      BY <2>6, <2>7, <2>8, <2>10, <3>1, <3>2, <3>3, <3>4, <3>5, <3>6, TypesOfUser
  <2>12. Mutex'
    BY <2>1, <2>2, <2>3, <2>4, <2>6, <2>8, MutexHeld DEF PastCheck, InPager
  <2>13. Sectors'
    BY <2>1, <2>2, <2>7, SectorsKept
  <2>14. \A v \in UProc : pc'[v] = IF v = u THEN x ELSE pc[v]
    BY <2>1, <2>2 DEF Goto, Types, TypeOK, Proc
  <2>15. Frames'
    <3>1. PoolAgrees'
      BY <2>1, <2>2, <2>5, <2>8 DEF Frames, PoolAgrees
    <3>2. \A pg \in Page : pg[1] # Useg3 /\ pc'[pg[1]] = "new" => pte'[pg] = Blank
      BY <2>1, <2>2, <2>3, <2>14 DEF Frames, Page
    <3>3. \A v \in UProc : pc'[v] # "write"
      BY <2>2, <2>3, <2>4, <2>14, Alone DEF PastCheck
    <3>4. \A f \in Frame \ {frame'[u]} : swap_pool'[f] # NULL
      BY <2>1, <2>2, <2>6, <2>8 DEF Frames
    <3>5. AtFirst'
      BY <2>3, <2>14, <3>4 DEF AtFirst
    <3> QED
      BY <3>1, <3>2, <3>3, <3>5 DEF Frames
  <2>16. Contents'
    <3>1. block[u] \in Block /\ block[u] # NULL
      BY <2>1, <2>2, <2>5 DEF Types, TypeOK
    <3>2. \A b \in Block \ {block[u]} : disk'[b] = disk[b]
      BY <2>1, <2>2 DEF Types
    <3>3. ASSUME NEW pg \in Page, NEW b \in Block, pte'[pg] = OnDisk(b)
          PROVE  disk'[b] = pg
      BY <2>1, <2>2, <2>5, <3>1, <3>2, <3>3 DEF Sectors, Contents
    <3>4. \A j \in 1 .. Len(file_blocks) :
            file_blocks[j] \in Members(file_blocks) /\ file_blocks[j] \in Block
      BY <2>2, ElementOfSeq DEF Members, Types, TypeOK
    <3>5. \A j \in 1 .. Len(file_blocks) : file_blocks[j] # block[u]
      BY <2>2, <2>5, <3>1, <3>4 DEF Sectors
    <3>6. \A j \in 1 .. Len(file_blocks') :
            disk'[file_blocks'[j]] = <<CHOOSE v \in nextAsid' : TRUE, j - 1>>
      BY <2>1, <2>2, <2>11, <3>2, <3>4, <3>5 DEF Contents
    <3>7. ASSUME NEW v \in UProc
          PROVE  /\ pc'[v] = "read" => onDisk(want[v])'
                 /\ pc'[v] = "map" /\ onDisk(want[v])' => Backed(frame[v], want[v])'
      BY <2>1, <2>2, <2>3, <2>4, <2>14, Alone DEF onDisk, PastCheck
    <3> QED
      BY <3>3, <3>6, <3>7 DEF Contents
  <2> QED
    BY <2>11, <2>12, <2>13, <2>15, <2>16 DEF IInv
<1> QED
  BY <1>1, <1>2

\* The page is read from its block, and the block released.
LEMMA PageReadStep ==
    ASSUME IInv, NEW u \in UProc, PageRead(u)
    PROVE  IInv'
<1>1. CASE fatal
  BY <1>1, FatalStep DEF fatal
<1>2. CASE ~ fatal
  <2> PICK b : b = blockOf(want[u])
    OBVIOUS
  <2>1. /\ pc[u] = "read"
        /\ frame_data' = [frame_data EXCEPT ![frame[u]] = disk[b]]
        /\ release(b) /\ Goto(u, "map")
        /\ UNCHANGED <<pte, swap_pool, vic, swap_semaphore, want, frame, block, file_blocks,
                       disk, cpu>>
    BY <1>2 DEF PageRead, At, memory, locals, source
  <2>2. Types /\ Mutex /\ Sectors /\ Frames /\ Contents
    BY DEF IInv
  <2>3. /\ Holds(u) /\ ~ valid(want[u]) /\ pc[u] \in PastCheck /\ onDisk(want[u])
        /\ swap_pool[frame[u]] = NULL
    BY <2>1, <2>2, PastCheckHolds DEF PastCheck, Mutex, Contents
  <2>4. u \in Proc /\ want[u] \in Page /\ frame[u] \in Frame /\ frame[u] # NULL
    BY <2>1, <2>2 DEF Proc, Types, TypeOK
  <2>5. b \in Block /\ pte[want[u]] = OnDisk(b)
    BY <2>2, <2>3, <2>4, OneEntry
  <2>6. Sectors' /\ swap_free' \in Seq(Block) /\ linked' \in [Block -> BOOLEAN]
    BY <2>1, <2>2, <2>5, SectorsReleased
  <2>7. block'[u] = NULL /\ want[u] # NULL
    BY <2>1, <2>2, <2>4 DEF Types, TypeOK
  <2>8. DOMAIN frame_data' = Frame
    BY <2>1, <2>2 DEF Types
  <2>9. Types' /\ nextAsid' = nextAsid
    BY <2>1, <2>2, <2>4, <2>6, <2>7, <2>8, TypesOfUser DEF Types, TypeOK
  <2>10. Mutex'
    BY <2>1, <2>2, <2>3, MutexHeld DEF PastCheck, InPager
  <2>11. \A v \in UProc : pc'[v] = IF v = u THEN "map" ELSE pc[v]
    BY <2>1, <2>2 DEF Goto, Types, TypeOK, Proc
  <2>12. Frames'
    BY <2>1, <2>2, <2>11, FramesKept
  <2>13. Contents'
    <3>1. frame_data'[frame[u]] = want[u]
      BY <2>1, <2>2, <2>4, <2>5 DEF Contents, Types
    <3>2. ASSUME NEW v \in UProc
          PROVE  /\ pc'[v] = "read" => onDisk(want[v])'
                 /\ pc'[v] = "map" /\ onDisk(want[v])' => Backed(frame[v], want[v])'
      BY <2>1, <2>2, <2>3, <2>11, <3>1, Alone DEF PastCheck, Backed
    <3> QED
      BY <2>1, <2>2, <2>9, <3>2 DEF Contents
  <2> QED
    BY <2>6, <2>9, <2>10, <2>12, <2>13 DEF IInv
<1> QED
  BY <1>1, <1>2

\* The page becomes valid in the frame that was nobody's.
LEMMA MapStep ==
    ASSUME IInv, NEW u \in UProc, Map(u)
    PROVE  IInv'
<1>1. PICK pg : pg = want[u]
  OBVIOUS
<1>2. PICK f : f = frame[u]
  OBVIOUS
<1>3. /\ pc[u] = "map"
      /\ pte' = [pte EXCEPT ![pg] = InFrame(f)]
      /\ swap_pool' = [swap_pool EXCEPT ![f] = pg]
      /\ frame_data' = IF onDisk(pg) THEN frame_data ELSE [frame_data EXCEPT ![f] = pg]
      /\ want' = [want EXCEPT ![u] = NULL] /\ frame' = [frame EXCEPT ![u] = NULL]
      /\ V /\ Goto(u, "run")
      /\ UNCHANGED <<vic, swap_free, linked, block, file_blocks, disk, cpu>>
  BY <1>1, <1>2 DEF Map, At, sectors, poolWith
<1>4. Types /\ Mutex /\ Sectors /\ Frames /\ Contents
  BY DEF IInv
<1>5. Holds(u) /\ ~ valid(pg) /\ pc[u] \in PastCheck /\ swap_pool[f] = NULL
  BY <1>1, <1>2, <1>3, <1>4, PastCheckHolds DEF PastCheck, Mutex
<1>6. u \in Proc /\ u # Useg3 /\ pg \in Page /\ pg # NULL /\ f \in Frame /\ pg[1] \in {u, Useg3}
  BY <1>1, <1>2, <1>3, <1>4, PagingAssumption DEF Proc, Types, TypeOK
<1>7. swap_semaphore' \in Seq(UProc)
  BY <1>3, <1>4, <1>5, HeadTailProperties DEF V, Holds, Types, TypeOK
<1>8. InFrame(f) \in Entry
  BY <1>6 DEF Entry
<1>9. /\ pte' \in [Page -> Entry] /\ pte'[pg] = InFrame(f)
      /\ \A qg \in Page \ {pg} : pte'[qg] = pte[qg]
  BY <1>3, <1>4, <1>6, <1>8 DEF Types
<1>10. /\ swap_pool' \in [Frame -> Page \cup {NULL}] /\ swap_pool'[f] = pg
       /\ \A g \in Frame \ {f} : swap_pool'[g] = swap_pool[g]
  BY <1>3, <1>4, <1>6 DEF Types, TypeOK
<1>11. /\ want' \in [UProc -> Page \cup {NULL}] /\ want'[u] = NULL
       /\ frame' \in [UProc -> Frame \cup {NULL}]
       /\ \A v \in UProc \ {u} : want'[v] = want[v] /\ frame'[v] = frame[v]
  BY <1>3, <1>4 DEF Types, TypeOK
<1>12. block'[u] = NULL
  BY <1>3, <1>4, <1>6 DEF Types, TypeOK
<1>13. Types' /\ nextAsid' = nextAsid
  <2>1. /\ vic' \in Frame /\ swap_free' \in Seq(Block) /\ linked' \in [Block -> BOOLEAN]
        /\ block' \in [Proc -> Block \cup {NULL}] /\ DOMAIN disk' = Block
    BY <1>3, <1>4 DEF Types, TypeOK
  <2>2. DOMAIN frame_data' = Frame
    BY <1>3, <1>4 DEF Types
  <2> QED
    BY <1>3, <1>4, <1>7, <1>9, <1>10, <1>11, <1>12, <2>1, <2>2, TypesOfUser
<1>14. Mutex'
  BY <1>3, <1>4, <1>5, MutexReleased
<1>15. \A v \in UProc : pc'[v] = IF v = u THEN "run" ELSE pc[v]
  BY <1>3, <1>4 DEF Goto, Types, TypeOK, Proc
<1>16. \A v \in UProc : pc'[v] \notin PastCheck
  BY <1>4, <1>5, <1>15, Alone DEF PastCheck
<1>17. ASSUME NEW qg \in Page, NEW b, pte'[qg] = OnDisk(b)
       PROVE  qg # pg /\ pte[qg] = OnDisk(b)
  BY <1>9, <1>17, Entries
<1>18. Sectors'
  <2>1. Used' \subseteq Used
    BY <1>3, <1>17 DEF Used
  <2>2. ASSUME NEW qg \in Page, NEW rg \in Page, qg # rg, onDisk(qg)'
        PROVE  pte'[qg] # pte'[rg]
    <3>1. PICK b \in Block : pte'[qg] = OnDisk(b)
      BY <2>2 DEF onDisk
    <3>2. pte[qg] = OnDisk(b) /\ onDisk(qg)
      BY <1>17, <3>1 DEF onDisk
    <3>3. pte[rg] # OnDisk(b)
      BY <1>4, <2>2, <3>2 DEF Sectors, SectorsOnce
    <3> QED
      BY <1>17, <3>1, <3>3
  <2> QED
    BY <1>3, <1>4, <1>17, <2>1, <2>2 DEF Sectors, SectorsOnce
<1>19. Frames'
  <2>1. PoolAgrees'
    <3> SUFFICES ASSUME NEW g \in Frame, swap_pool'[g] # NULL
                 PROVE  pte'[swap_pool'[g]] = InFrame(g)
      BY DEF PoolAgrees
    <3>1. CASE g = f
      BY <1>9, <1>10, <3>1
    <3>2. CASE g # f
      <4>1. swap_pool'[g] = swap_pool[g] /\ swap_pool[g] \in Page
        BY <1>4, <1>10, <3>2 DEF Types, TypeOK
      <4>2. pte[swap_pool[g]] = InFrame(g)
        BY <1>4, <4>1 DEF Frames, PoolAgrees
      <4>3. swap_pool[g] # pg
        BY <1>5, <4>2 DEF valid
      <4> QED
        BY <1>9, <4>1, <4>2, <4>3
    <3> QED
      BY <3>1, <3>2
  <2>2. ASSUME NEW qg \in Page, qg[1] # Useg3, pc'[qg[1]] = "new"
        PROVE  pte'[qg] = Blank
    <3>1. qg[1] \in UProc /\ pc[qg[1]] = "new" /\ qg[1] # u
      BY <1>15, <2>2 DEF Page
    <3> QED
      BY <1>4, <1>6, <1>9, <2>2, <3>1 DEF Frames
  <2>3. AtFirst'
    <3>1. CASE \E v \in UProc : pc[v] = "ended"
      BY <1>3, <1>15, <3>1 DEF AtFirst
    <3>2. CASE \A qg \in Page, g \in Frame : pte[qg] = InFrame(g) => swap_pool[g] = qg
      <4> SUFFICES ASSUME NEW qg \in Page, NEW g \in Frame, pte'[qg] = InFrame(g)
                   PROVE  swap_pool'[g] = qg
        BY DEF AtFirst
      <4>1. CASE qg = pg
        BY <1>9, <1>10, <4>1, Entries
      <4>2. CASE qg # pg
        <5>1. swap_pool[g] = qg
          BY <1>9, <3>2, <4>2
        <5>2. qg # NULL
          BY PagingAssumption
        <5> QED
          BY <1>5, <1>10, <5>1, <5>2
      <4> QED
        BY <4>1, <4>2
    <3>3. CASE \A g \in Frame : swap_pool[g] # NULL
      BY <1>5, <1>6, <3>3
    <3>4. CASE \E v \in UProc : /\ pc[v] \in {"read", "map"}
                                /\ \A g \in Frame \ {frame[v]} : swap_pool[g] # NULL
      <4>1. \A g \in Frame \ {f} : swap_pool[g] # NULL
        BY <1>2, <1>4, <1>5, <3>4, Alone DEF PastCheck
      <4> QED
        BY <1>6, <1>10, <4>1 DEF AtFirst
    <3> QED
      BY <1>4, <3>1, <3>2, <3>3, <3>4 DEF Frames, AtFirst
  <2> QED
    BY <1>16, <2>1, <2>2, <2>3 DEF Frames, PastCheck
<1>20. Contents'
  BY <1>3, <1>4, <1>13, <1>16, <1>17 DEF Contents, PastCheck
<1> QED
  BY <1>13, <1>14, <1>18, <1>19, <1>20 DEF IInv

\* The tape ends.
LEMMA EndOfTapeStep ==
    ASSUME IInv, EndOfTape
    PROVE  IInv'
<1>1. /\ pc[InitProc] = "tape" /\ file_blocks' = <<>> /\ Goto(InitProc, "done")
      /\ UNCHANGED <<pte, swap_pool, vic, swap_free, linked, swap_semaphore, want, frame,
                     block, frame_data, disk, cpu>>
  BY DEF EndOfTape, At, memory, sectors, locals
<1>2. Types /\ Mutex /\ Sectors /\ Frames /\ Contents
  BY DEF IInv
<1>3. \A p \in Proc : pc'[p] = IF p = InitProc THEN "done" ELSE pc[p]
  BY <1>1, <1>2 DEF Goto, Types, TypeOK
<1>4. InitProc \in Proc /\ \A v \in UProc : v \in Proc /\ pc'[v] = pc[v]
  BY <1>3, PagingAssumption DEF Proc
<1>5. /\ pc' \in [Proc -> {"new", "tape", "write", "done", "run", "pager", "read", "map",
                           "clean", "ended"}]
      /\ file_blocks' \in Seq(Block) /\ Len(file_blocks') = 0 /\ Members(file_blocks') = {}
  <2>1. Goto(InitProc, "done")
    BY <1>1
  <2>2. pc' \in [Proc -> {"new", "tape", "write", "done", "run", "pager", "read", "map",
                          "clean", "ended"}]
    BY <1>2, <2>1 DEF Goto, Types, TypeOK
  <2>3. file_blocks' \in Seq(Block) /\ Len(file_blocks') = 0
    BY <1>1, EmptySeq
  <2>4. Members(file_blocks') = {}
    BY <1>1, MembersType, <2>3
  <2> QED
    BY <2>2, <2>3, <2>4
<1>6. Types'
  <2>1. \A p \in Proc : pc'[p] = "write" <=> block'[p] # NULL
    BY <1>1, <1>2, <1>3 DEF Types, TypeOK
  <2>2. TypeOK'
    BY <1>1, <1>2, <1>4, <1>5, <2>1 DEF Types, TypeOK, valid, onDisk
  <2> QED
    BY <1>1, <1>2, <1>3, <1>4, <2>2 DEF Types
<1>7. Mutex'
  BY <1>1, <1>2, <1>4, MutexKept
<1>8. Sectors'
  <2>1. Used' \subseteq Used
    BY <1>1, <1>5 DEF Used
  <2>2. SectorsOnce'
    BY <1>1, <1>2, <2>1 DEF Sectors, SectorsOnce, onDisk
  <2>3. NoRepeats(file_blocks')
    BY <1>1 DEF NoRepeats
  <2> QED
    BY <1>1, <1>2, <1>5, <2>1, <2>2, <2>3 DEF Sectors
<1>9. Frames'
  BY <1>1, <1>2, <1>4, FramesKept
<1>10. Contents'
  BY <1>1, <1>2, <1>4, <1>5 DEF Contents, Backed, onDisk
<1> QED
  BY <1>6, <1>7, <1>8, <1>9, <1>10 DEF IInv

\* The block for the next block of the tape is taken, or the disk is full.
LEMMA TapeBlockStep ==
    ASSUME IInv, TapeBlock
    PROVE  IInv'
<1>1. CASE fatal
  BY <1>1, FatalStep DEF fatal
<1>2. CASE ~ fatal
  <2>1. /\ pc[InitProc] = "tape" /\ nextAsid # {} /\ alloc(InitProc) /\ Goto(InitProc, "write")
        /\ UNCHANGED <<pte, swap_pool, vic, swap_semaphore, want, frame, file_blocks,
                       frame_data, disk, cpu>>
    BY <1>2 DEF TapeBlock, At, memory
  <2>2. Types /\ Mutex /\ Sectors /\ Frames /\ Contents
    BY DEF IInv
  <2>3. \A p \in Proc : pc'[p] = IF p = InitProc THEN "write" ELSE pc[p]
    BY <2>1, <2>2 DEF Goto, Types, TypeOK
  <2>4. InitProc \in Proc /\ \A v \in UProc : v \in Proc /\ pc'[v] = pc[v]
    BY <2>3, PagingAssumption DEF Proc
  <2>5. Sectors' /\ block' \in [Proc -> Block \cup {NULL}] /\ swap_free' \in Seq(Block)
    BY <2>1, <2>2, <2>4, SectorsAllocated
  <2>6. /\ linked' = linked /\ block'[InitProc] = Head(swap_free)
        /\ \A p \in Proc \ {InitProc} : block'[p] = block[p]
    BY <2>1, <2>2, <2>4 DEF alloc, Types, TypeOK
  <2>7. Head(swap_free) # NULL
    BY <2>1, <2>2, HeadTailProperties, PagingAssumption DEF alloc, Types, TypeOK
  <2>8. pc' \in [Proc -> {"new", "tape", "write", "done", "run", "pager", "read", "map",
                          "clean", "ended"}]
    BY <2>1, <2>2 DEF Goto, Types, TypeOK
  <2>9. nextAsid' = nextAsid
    BY <2>4 DEF nextAsid
  <2>10. Types'
    <3>1. \A p \in Proc : pc'[p] = "write" <=> block'[p] # NULL
      BY <2>2, <2>3, <2>6, <2>7 DEF Types, TypeOK
    <3>2. TypeOK'
      BY <2>1, <2>2, <2>4, <2>5, <2>6, <2>8, <3>1 DEF Types, TypeOK, valid, onDisk
    <3> QED
      BY <2>1, <2>2, <2>3, <2>4, <2>9, <3>2 DEF Types
  <2>11. Mutex'
    BY <2>1, <2>2, <2>4, MutexKept
  <2>12. Frames'
    BY <2>1, <2>2, <2>4, FramesKept
  <2>13. Contents'
    BY <2>1, <2>2, <2>4, <2>9 DEF Contents, Backed, onDisk
  <2> QED
    BY <2>5, <2>10, <2>11, <2>12, <2>13 DEF IInv
<1> QED
  BY <1>1, <1>2

\* What is common to the two ways on after a block of the tape is on disk.
LEMMA BlockWrittenFacts ==
    ASSUME IInv, BlockWritten, ~ fatal
    PROVE  \E u \in nextAsid, b \in Block :
             /\ u = (CHOOSE v \in nextAsid : TRUE) /\ b = block[InitProc]
             /\ pc[InitProc] = "write"
             /\ disk' = [disk EXCEPT ![b] = <<u, Len(file_blocks)>>]
             /\ block' = [block EXCEPT ![InitProc] = NULL]
             /\ \/ createProcess(u, Append(file_blocks, b))
                \/ /\ file_blocks' = Append(file_blocks, b) /\ Goto(InitProc, "tape")
                   /\ pte' = pte
             /\ UNCHANGED <<swap_pool, vic, swap_free, linked, swap_semaphore, want, frame,
                            frame_data, cpu>>
<1>1. PICK u : u = CHOOSE v \in nextAsid : TRUE
  OBVIOUS
<1>2. PICK b : b = block[InitProc]
  OBVIOUS
<1>3. /\ pc[InitProc] = "write"
      /\ disk' = [disk EXCEPT ![b] = <<u, Len(file_blocks)>>]
      /\ block' = [block EXCEPT ![InitProc] = NULL]
      /\ \/ createProcess(u, Append(file_blocks, b))
         \/ /\ file_blocks' = Append(file_blocks, b) /\ Goto(InitProc, "tape")
            /\ pte' = pte
      /\ UNCHANGED <<swap_pool, vic, swap_free, linked, swap_semaphore, want, frame,
                     frame_data, cpu>>
  BY <1>1, <1>2 DEF BlockWritten, At, sectors
<1>4. Types
  BY DEF IInv
<1>5. u \in nextAsid
  BY <1>1, <1>3, <1>4 DEF Types
<1>6. b \in Block
  BY <1>2, <1>3, <1>4 DEF Types, TypeOK, Proc
<1> QED
  BY <1>1, <1>2, <1>3, <1>5, <1>6

\* The blocks of a program, with the one just written.
LEMMA ProgramBlocks ==
    ASSUME IInv, NEW b \in Block, pc[InitProc] = "write", b = block[InitProc]
    PROVE  /\ Append(file_blocks, b) \in Seq(Block)
           /\ Len(Append(file_blocks, b)) = Len(file_blocks) + 1 /\ Len(file_blocks) \in Nat
           /\ NoRepeats(Append(file_blocks, b))
           /\ Members(Append(file_blocks, b)) = Members(file_blocks) \cup {b}
           /\ Members(Append(file_blocks, b)) \subseteq Used
           /\ \A j \in 1 .. Len(file_blocks) :
                /\ Append(file_blocks, b)[j] = file_blocks[j]
                /\ file_blocks[j] \in Block /\ file_blocks[j] # b
           /\ Append(file_blocks, b)[Len(file_blocks) + 1] = b
           /\ \A pg \in Page, c \in Members(Append(file_blocks, b)) : pte[pg] # OnDisk(c)
           /\ \A q \in Proc \ {InitProc} : block[q] \notin Members(Append(file_blocks, b))
<1>1. Types /\ Sectors
  BY DEF IInv
<1>2. file_blocks \in Seq(Block) /\ InitProc \in Proc /\ b # NULL
  BY <1>1, PagingAssumption DEF Types, TypeOK, Proc
<1>3. /\ b \notin Members(file_blocks) /\ \A pg \in Page : pte[pg] # OnDisk(b)
      /\ \A q \in Proc \ {InitProc} : block[q] # b
  BY <1>1, <1>2 DEF Sectors
<1>4. /\ Append(file_blocks, b) \in Seq(Block)
      /\ Members(Append(file_blocks, b)) = Members(file_blocks) \cup {b}
      /\ NoRepeats(Append(file_blocks, b))
  BY <1>1, <1>2, <1>3, AppendMembers DEF Sectors
<1>5. /\ Len(Append(file_blocks, b)) = Len(file_blocks) + 1 /\ Len(file_blocks) \in Nat
      /\ \A j \in 1 .. Len(file_blocks) : Append(file_blocks, b)[j] = file_blocks[j]
      /\ Append(file_blocks, b)[Len(file_blocks) + 1] = b
  BY <1>2, AppendProperties, LenProperties
<1>6. \A j \in 1 .. Len(file_blocks) :
        file_blocks[j] \in Block /\ file_blocks[j] \in Members(file_blocks)
  BY <1>2, ElementOfSeq DEF Members
<1>7. Members(file_blocks) \subseteq Block
  BY <1>2, MembersType
<1>8. \A q \in Proc \ {InitProc} : block[q] \notin Members(file_blocks)
  BY <1>1, <1>7, PagingAssumption DEF Sectors
<1> QED
  BY <1>1, <1>2, <1>3, <1>4, <1>5, <1>6, <1>7, <1>8 DEF Used, Sectors

\* A block of the program is on disk and more may follow.
LEMMA BlockReadStep ==
    ASSUME IInv, NEW u \in nextAsid, NEW b \in Block,
           u = (CHOOSE v \in nextAsid : TRUE), b = block[InitProc],
           pc[InitProc] = "write",
           disk' = [disk EXCEPT ![b] = <<u, Len(file_blocks)>>],
           block' = [block EXCEPT ![InitProc] = NULL],
           file_blocks' = Append(file_blocks, b), Goto(InitProc, "tape"), pte' = pte,
           UNCHANGED <<swap_pool, vic, swap_free, linked, swap_semaphore, want, frame,
                       frame_data, cpu>>
    PROVE  IInv'
<1>1. Types /\ Mutex /\ Sectors /\ Frames /\ Contents
  BY DEF IInv
<1>2. \A p \in Proc : pc'[p] = IF p = InitProc THEN "tape" ELSE pc[p]
  BY <1>1 DEF Goto, Types, TypeOK
<1>3. InitProc \in Proc /\ \A v \in UProc : v \in Proc /\ pc'[v] = pc[v]
  BY <1>2, PagingAssumption DEF Proc
<1>4. /\ file_blocks' \in Seq(Block) /\ Len(file_blocks') = Len(file_blocks) + 1
      /\ Len(file_blocks) \in Nat /\ NoRepeats(file_blocks')
      /\ Members(file_blocks') \subseteq Used
      /\ \A j \in 1 .. Len(file_blocks) :
           /\ file_blocks'[j] = file_blocks[j]
           /\ file_blocks[j] \in Block /\ file_blocks[j] # b
      /\ file_blocks'[Len(file_blocks) + 1] = b
      /\ \A pg \in Page, c \in Members(file_blocks') : pte[pg] # OnDisk(c)
      /\ \A q \in Proc \ {InitProc} : block[q] \notin Members(file_blocks')
      /\ b \in Members(file_blocks')
  BY ProgramBlocks
<1>5. /\ block' \in [Proc -> Block \cup {NULL}] /\ block'[InitProc] = NULL
      /\ \A p \in Proc \ {InitProc} : block'[p] = block[p]
  BY <1>1, <1>3 DEF Types, TypeOK
<1>6. DOMAIN disk' = Block /\ disk'[b] = <<u, Len(file_blocks)>>
      /\ \A c \in Block \ {b} : disk'[c] = disk[c]
  BY <1>1 DEF Types
<1>7. nextAsid' = nextAsid
  BY <1>3 DEF nextAsid
<1>8. Types'
  <2>1. pc' \in [Proc -> {"new", "tape", "write", "done", "run", "pager", "read", "map",
                          "clean", "ended"}]
    BY <1>1 DEF Goto, Types, TypeOK
  <2>2. \A p \in Proc : pc'[p] = "write" <=> block'[p] # NULL
    BY <1>1, <1>2, <1>5 DEF Types, TypeOK
  <2>3. TypeOK'
    BY <1>1, <1>3, <1>4, <1>5, <2>1, <2>2 DEF Types, TypeOK, valid, onDisk
  <2> QED
    BY <1>1, <1>2, <1>3, <1>6, <2>3 DEF Types
<1>9. Mutex'
  BY <1>1, <1>3, MutexKept
<1>10. Sectors'
  <2>1. Used' \subseteq Used
    BY <1>4, <1>5, PagingAssumption DEF Used
  <2>2. SectorsOnce'
    BY <1>1, <2>1 DEF Sectors, SectorsOnce, onDisk
  <2>3. \A p \in Proc : block'[p] # NULL =>
         /\ block'[p] \notin Members(file_blocks')
         /\ \A pg \in Page : pte'[pg] # OnDisk(block'[p])
         /\ \A q \in Proc \ {p} : block'[q] # block'[p]
    BY <1>1, <1>4, <1>5 DEF Sectors
  <2> QED
    BY <1>1, <1>4, <2>1, <2>2, <2>3 DEF Sectors
<1>11. Frames'
  BY <1>1, <1>3, FramesKept
<1>12. Contents'
  <2>1. ASSUME NEW pg \in Page, NEW c \in Block, pte'[pg] = OnDisk(c)
        PROVE  disk'[c] = pg
    BY <1>1, <1>4, <1>6, <2>1 DEF Contents
  <2>2. ASSUME NEW j \in 1 .. Len(file_blocks')
        PROVE  disk'[file_blocks'[j]] = <<CHOOSE v \in nextAsid' : TRUE, j - 1>>
    <3>1. CASE j \in 1 .. Len(file_blocks)
      BY <1>1, <1>4, <1>6, <1>7, <3>1 DEF Contents
    <3>2. CASE j = Len(file_blocks) + 1
      <4>1. file_blocks'[j] = b
        BY <1>4, <3>2
      <4>2. j - 1 = Len(file_blocks)
        BY <1>4, <3>2
      <4> QED
        BY <1>6, <1>7, <4>1, <4>2
    <3>3. Len(file_blocks') = Len(file_blocks) + 1 /\ Len(file_blocks) \in Nat
      BY <1>4
    <3>4. j \in 1 .. Len(file_blocks) \/ j = Len(file_blocks) + 1
      BY <3>3
    <3> QED
      BY <3>1, <3>2, <3>4
  <2>3. \A v \in UProc :
         /\ pc'[v] = "read" => onDisk(want[v])'
         /\ pc'[v] = "map" /\ onDisk(want[v])' => Backed(frame[v], want[v])'
    BY <1>1, <1>3 DEF Contents, Backed, onDisk
  <2> QED
    BY <2>1, <2>2, <2>3 DEF Contents
<1> QED
  BY <1>8, <1>9, <1>10, <1>11, <1>12 DEF IInv

\* The program is complete, and its process is created.
LEMMA CreateStep ==
    ASSUME IInv, NEW u \in nextAsid, NEW b \in Block,
           u = (CHOOSE v \in nextAsid : TRUE), b = block[InitProc],
           pc[InitProc] = "write",
           disk' = [disk EXCEPT ![b] = <<u, Len(file_blocks)>>],
           block' = [block EXCEPT ![InitProc] = NULL],
           createProcess(u, Append(file_blocks, b)),
           UNCHANGED <<swap_pool, vic, swap_free, linked, swap_semaphore, want, frame,
                       frame_data, cpu>>
    PROVE  IInv'
<1>1. Types /\ Mutex /\ Sectors /\ Frames /\ Contents
  BY DEF IInv
<1>2. PICK blocks : blocks = Append(file_blocks, b)
  OBVIOUS
<1>3. PICK n : n = Len(file_blocks)
  OBVIOUS
<1>4. /\ pte' = [pg \in Page |-> IF pg[1] = u /\ pg[2] < Len(blocks)
                                 THEN OnDisk(blocks[pg[2] + 1]) ELSE pte[pg]]
      /\ pc' = [pc EXCEPT ![u] = "run", ![InitProc] = "tape"]
      /\ file_blocks' = <<>>
  BY <1>2 DEF createProcess
<1>5. /\ u \in UProc /\ pc[u] = "new" /\ u # InitProc /\ u # Useg3 /\ u \in Proc
      /\ InitProc \in Proc
  BY PagingAssumption DEF nextAsid, Proc
<1>6. /\ blocks \in Seq(Block) /\ Len(blocks) = n + 1 /\ n \in Nat /\ NoRepeats(blocks)
      /\ Members(blocks) \subseteq Used
      /\ \A j \in 1 .. n :
           /\ blocks[j] = file_blocks[j] /\ file_blocks[j] \in Block /\ file_blocks[j] # b
      /\ blocks[n + 1] = b
      /\ \A pg \in Page, c \in Members(blocks) : pte[pg] # OnDisk(c)
      /\ \A q \in Proc \ {InitProc} : block[q] \notin Members(blocks)
      /\ b \in Members(blocks)
  BY <1>2, <1>3, ProgramBlocks
<1>7. \A j \in 1 .. n + 1 : blocks[j] \in Block /\ blocks[j] \in Members(blocks)
  BY <1>6, ElementOfSeq DEF Members
<1>8. \A p \in Proc : pc'[p] = IF p = InitProc THEN "tape" ELSE IF p = u THEN "run" ELSE pc[p]
  BY <1>1, <1>4, <1>5 DEF Types, TypeOK
<1>9. /\ block' \in [Proc -> Block \cup {NULL}] /\ block'[InitProc] = NULL
      /\ \A p \in Proc \ {InitProc} : block'[p] = block[p]
  BY <1>1, <1>5 DEF Types, TypeOK
<1>10. DOMAIN disk' = Block /\ disk'[b] = <<u, n>> /\ \A c \in Block \ {b} : disk'[c] = disk[c]
  BY <1>1, <1>3 DEF Types
<1>11. \A pg \in Page : pg[1] \in UProc \cup {Useg3} /\ pg[2] \in Nat /\ pg = <<pg[1], pg[2]>>
  BY PagingAssumption DEF Page
<1>12. \A pg \in Page : pg[1] = u => pte[pg] = Blank
  BY <1>1, <1>5 DEF Frames
<1>13. ASSUME NEW pg \in Page
       PROVE  \/ /\ pte'[pg] = pte[pg]
              \/ /\ pg[1] = u /\ pg[2] + 1 \in 1 .. n + 1 /\ pte[pg] = Blank
                 /\ pte'[pg] = OnDisk(blocks[pg[2] + 1])
  <2>1. CASE pg[1] = u /\ pg[2] < Len(blocks)
    <3>1. pg[2] + 1 \in 1 .. n + 1
      BY <1>6, <1>11, <2>1
    <3>2. pte'[pg] = OnDisk(blocks[pg[2] + 1])
      BY <1>4, <2>1
    <3> QED
      BY <1>12, <2>1, <3>1, <3>2
  <2>2. CASE ~ (pg[1] = u /\ pg[2] < Len(blocks))
    BY <1>4, <2>2
  <2> QED
    BY <2>1, <2>2
<1>14. /\ \A pg \in Page : \A f : pte'[pg] = InFrame(f) => pte[pg] = InFrame(f)
       /\ \A pg \in Page : \A f : pte[pg] = InFrame(f) => pte'[pg] = InFrame(f)
       /\ \A pg \in Page : \A c : pte[pg] = OnDisk(c) => pte'[pg] = OnDisk(c)
  BY <1>13, Entries
<1>15. Types'
  <2>1. ASSUME NEW pg \in Page
        PROVE  pte'[pg] \in Entry
    BY <1>1, <1>7, <1>13 DEF Types, Entry
  <2>2. pte' \in [Page -> Entry]
    BY <1>4, <2>1
  <2>3. \A pg \in Page : valid(pg)' \/ onDisk(pg)' \/ pte'[pg] = Blank
    BY <2>2 DEF Entry, valid, onDisk
  <2>4. pc' \in [Proc -> {"new", "tape", "write", "done", "run", "pager", "read", "map",
                          "clean", "ended"}]
    BY <1>1, <1>4 DEF Types, TypeOK
  <2>5. \A p \in Proc : pc'[p] = "write" <=> block'[p] # NULL
    BY <1>1, <1>5, <1>8, <1>9 DEF Types, TypeOK
  <2>6. file_blocks' \in Seq(Block)
    BY <1>4, EmptySeq
  <2>7. \A v \in UProc : pc'[v] \in {"pager", "write", "read", "map"} => want'[v] # NULL
    BY <1>1, <1>8, PagingAssumption DEF Types, TypeOK, Proc
  <2>8. TypeOK'
    BY <1>1, <1>9, <2>3, <2>4, <2>5, <2>6, <2>7 DEF Types, TypeOK
  <2>9. \A v \in UProc :
          /\ pc'[v] \notin {"tape", "done"}
          /\ want'[v] # NULL => want'[v][1] \in {v, Useg3}
          /\ pc'[v] \in {"read", "map"} => frame'[v] # NULL
    BY <1>1, <1>8, PagingAssumption DEF Types, Proc
  <2> QED
    BY <1>1, <1>5, <1>8, <1>10, <2>2, <2>8, <2>9 DEF Types
<1>16. \A v \in UProc : pc'[v] = IF v = u THEN "run" ELSE pc[v]
  BY <1>8, PagingAssumption DEF Proc
<1>17. Mutex'
  <2>1. {v \in UProc : pc[v] \in InPager} = {v \in UProc : pc'[v] \in InPager}
    BY <1>5, <1>16 DEF InPager
  <2>2. ASSUME NEW v \in UProc, pc'[v] \in PastCheck
        PROVE  Head(swap_semaphore') = v /\ ~ valid(want[v])'
    <3>1. pc[v] \in PastCheck /\ want[v] \in Page
      BY <1>1, <1>16, <2>2 DEF PastCheck, Types, TypeOK
    <3>2. Head(swap_semaphore) = v /\ ~ valid(want[v])
      BY <1>1, <3>1 DEF Mutex
    <3> QED
      BY <1>14, <3>1, <3>2 DEF valid
  <2> QED
    BY <1>1, <1>16, <2>1, <2>2 DEF Mutex
<1>18. Sectors'
  <2>1. Members(file_blocks') = {} /\ NoRepeats(file_blocks')
    <3>1. file_blocks' \in Seq(Block)
      BY <1>4, EmptySeq
    <3>2. Members(file_blocks') = {}
      BY <1>4, <3>1, MembersType
    <3>3. NoRepeats(file_blocks')
      BY <1>4 DEF NoRepeats
    <3> QED
      BY <3>2, <3>3
  <2>2. ASSUME NEW c \in Used' PROVE c \in Used
    <3>1. CASE \E pg \in Page : pte'[pg] = OnDisk(c)
      <4>1. PICK pg \in Page : pte'[pg] = OnDisk(c)
        BY <3>1
      <4>2. CASE pte'[pg] = pte[pg]
        BY <4>1, <4>2 DEF Used
      <4>3. CASE pg[2] + 1 \in 1 .. n + 1 /\ pte'[pg] = OnDisk(blocks[pg[2] + 1])
        BY <1>6, <1>7, <4>1, <4>3, Entries
      <4> QED
        BY <1>13, <4>2, <4>3
    <3>2. CASE \E p \in Proc : block'[p] = c
      BY <1>5, <1>9, <3>2, PagingAssumption DEF Used
    <3> QED
      BY <2>1, <3>1, <3>2 DEF Used
  <2>3. ASSUME NEW pg \in Page, NEW qg \in Page, pg # qg, onDisk(pg)'
        PROVE  pte'[pg] # pte'[qg]
    <3>1. PICK c \in Block : pte'[pg] = OnDisk(c)
      BY <2>3 DEF onDisk
    <3> SUFFICES ASSUME pte'[qg] = OnDisk(c)
                 PROVE  FALSE
      BY <3>1
    <3>2. CASE pte'[pg] = pte[pg] /\ pte'[qg] = pte[qg]
      BY <1>1, <2>3, <3>1, <3>2 DEF Sectors, SectorsOnce, onDisk
    <3>3. CASE pte'[pg] = pte[pg] /\ pte'[qg] # pte[qg]
      <4>1. c \in Members(blocks)
        BY <1>7, <1>13, <3>3, Entries
      <4> QED
        BY <1>6, <3>1, <3>3, <4>1
    <3>4. CASE pte'[pg] # pte[pg] /\ pte'[qg] = pte[qg]
      <4>1. c \in Members(blocks)
        BY <1>7, <1>13, <3>1, <3>4, Entries
      <4> QED
        BY <1>6, <3>4, <4>1
    <3>5. CASE pte'[pg] # pte[pg] /\ pte'[qg] # pte[qg]
      <4>1. /\ pg[1] = u /\ qg[1] = u
            /\ pg[2] + 1 \in 1 .. n + 1 /\ qg[2] + 1 \in 1 .. n + 1
            /\ blocks[pg[2] + 1] = blocks[qg[2] + 1]
        BY <1>13, <3>1, <3>5, Entries
      <4>2. pg[2] + 1 = qg[2] + 1
        BY <1>6, <4>1 DEF NoRepeats
      <4>3. pg[2] = qg[2]
        BY <1>11, <4>2
      <4> QED
        BY <1>11, <2>3, <4>1, <4>3
    <3> QED
      BY <3>2, <3>3, <3>4, <3>5
  <2>4. SectorsOnce'
    BY <1>1, <2>2, <2>3 DEF Sectors, SectorsOnce
  <2>5. ASSUME NEW p \in Proc, block'[p] # NULL
        PROVE  /\ \A pg \in Page : pte'[pg] # OnDisk(block'[p])
               /\ \A q \in Proc \ {p} : block'[q] # block'[p]
    <3>1. p # InitProc /\ block'[p] = block[p] /\ block[p] \notin Members(blocks)
      BY <1>6, <1>9, <2>5
    <3>2. \A pg \in Page : pte[pg] # OnDisk(block[p])
      BY <1>1, <2>5, <3>1 DEF Sectors
    <3>3. \A pg \in Page : pte'[pg] # OnDisk(block[p])
      BY <1>7, <1>13, <3>1, <3>2, Entries
    <3>4. \A q \in Proc \ {p} : block'[q] # block'[p]
      BY <1>1, <1>9, <2>5, <3>1 DEF Sectors
    <3> QED
      BY <3>1, <3>3, <3>4
  <2>6. \A c \in Members(swap_free') \cup Used' : linked'[c]
    BY <1>1, <2>2 DEF Sectors
  <2> QED
    BY <2>1, <2>4, <2>5, <2>6 DEF Sectors
<1>19. Frames'
  <2>1. PoolAgrees'
    BY <1>1, <1>14 DEF Frames, PoolAgrees, Types, TypeOK
  <2>2. ASSUME NEW pg \in Page, pg[1] # Useg3, pc'[pg[1]] = "new"
        PROVE  pte'[pg] = Blank
    <3>1. pg[1] \in UProc
      BY <1>11, <2>2
    <3>2. pg[1] # u /\ pc[pg[1]] = "new"
      BY <1>16, <2>2, <3>1
    <3> QED
      BY <1>1, <1>13, <2>2, <3>2 DEF Frames
  <2>3. \A v \in UProc : pc'[v] = "write" => \A f \in Frame : swap_pool'[f] # NULL
    BY <1>1, <1>16 DEF Frames
  <2>4. AtFirst'
    <3>1. CASE \E v \in UProc : pc[v] = "ended"
      BY <1>5, <1>16, <3>1 DEF AtFirst
    <3>2. CASE \A pg \in Page, f \in Frame : pte[pg] = InFrame(f) => swap_pool[f] = pg
      BY <1>14, <3>2 DEF AtFirst
    <3>3. CASE \A f \in Frame : swap_pool[f] # NULL
      BY <3>3 DEF AtFirst
    <3>4. CASE \E v \in UProc : /\ pc[v] \in {"read", "map"}
                                /\ \A f \in Frame \ {frame[v]} : swap_pool[f] # NULL
      BY <1>5, <1>16, <3>4 DEF AtFirst
    <3> QED
      BY <1>1, <3>1, <3>2, <3>3, <3>4 DEF Frames, AtFirst
  <2> QED
    BY <2>1, <2>2, <2>3, <2>4 DEF Frames
<1>20. Contents'
  <2>1. ASSUME NEW pg \in Page, NEW c \in Block, pte'[pg] = OnDisk(c)
        PROVE  disk'[c] = pg
    <3>1. CASE pte'[pg] = pte[pg]
      <4>1. pte[pg] = OnDisk(c)
        BY <2>1, <3>1
      <4>2. c # b
        BY <1>6, <4>1
      <4>3. disk[c] = pg
        BY <1>1, <4>1 DEF Contents
      <4> QED
        BY <1>10, <4>2, <4>3
    <3>2. CASE /\ pg[1] = u /\ pg[2] + 1 \in 1 .. n + 1
               /\ pte'[pg] = OnDisk(blocks[pg[2] + 1])
      <4>1. c = blocks[pg[2] + 1]
        BY <2>1, <3>2, Entries
      <4>2. CASE pg[2] + 1 \in 1 .. n
        <5>1. PICK j : j = pg[2] + 1
          OBVIOUS
        <5>2. disk[file_blocks[j]] = <<u, j - 1>>
          BY <1>1, <1>3, <4>2, <5>1 DEF Contents
        <5>3. j - 1 = pg[2]
          BY <1>11, <5>1
        <5>4. c = file_blocks[j] /\ c # b
          BY <1>6, <4>1, <4>2, <5>1
        <5> QED
          BY <1>10, <1>11, <3>2, <5>2, <5>3, <5>4
      <4>3. CASE pg[2] + 1 = n + 1
        <5>1. pg[2] = n
          BY <1>6, <1>11, <4>3
        <5> QED
          BY <1>6, <1>10, <1>11, <3>2, <4>1, <4>3, <5>1
      <4> QED
        BY <1>6, <3>2, <4>2, <4>3
    <3> QED
      BY <1>13, <3>1, <3>2
  <2>2. Len(file_blocks') = 0
    BY <1>4, EmptySeq
  <2>3. ASSUME NEW v \in UProc
        PROVE  /\ pc'[v] = "read" => onDisk(want[v])'
               /\ pc'[v] = "map" /\ onDisk(want[v])' => Backed(frame[v], want[v])'
    <3>1. CASE pc'[v] \in {"read", "map"}
      <4>1. /\ v # u /\ pc[v] = pc'[v] /\ want[v] \in Page
            /\ want[v][1] \in {v, Useg3}
        BY <1>1, <1>16, <3>1 DEF Types, TypeOK
      <4>2. pte'[want[v]] = pte[want[v]]
        BY <1>5, <1>13, <4>1
      <4>3. pc[v] = "read" => onDisk(want[v])'
        BY <1>1, <4>1, <4>2 DEF Contents, onDisk
      <4>4. ASSUME pc[v] = "map", onDisk(want[v])'
            PROVE  Backed(frame[v], want[v])'
        <5>1. Backed(frame[v], want[v])
          BY <1>1, <4>1, <4>2, <4>4 DEF Contents, onDisk
        <5>2. UNCHANGED <<frame_data, frame, want>>
          OBVIOUS
        <5> QED
          BY <1>14, <5>1, <5>2 DEF Backed
      <4> QED
        BY <4>1, <4>3, <4>4
    <3> QED
      BY <3>1
  <2> QED
    BY <2>1, <2>2, <2>3 DEF Contents
<1> QED
  BY <1>15, <1>17, <1>18, <1>19, <1>20 DEF IInv

\* A block of the tape is on disk.
LEMMA BlockWrittenStep ==
    ASSUME IInv, BlockWritten
    PROVE  IInv'
<1>1. CASE fatal
  BY <1>1, FatalStep DEF fatal
<1>2. CASE ~ fatal
  BY <1>2, BlockWrittenFacts, BlockReadStep, CreateStep
<1> QED
  BY <1>1, <1>2

--------------------------------------------------------------------------------
(* The initial state *)

\* Dividing by n is a row and a column.
LEMMA RowAndColumn ==
    ASSUME NEW n \in Nat \ {0}, NEW k \in Nat
    PROVE  /\ k \div n \in Nat /\ k % n \in 0 .. n - 1
           /\ k = n * (k \div n) + (k % n)
OBVIOUS

\* The rows and columns of the free list of the disk.
LEMMA FreeListInit ==
    ASSUME NEW h \in Nat \ {0}, NEW n \in Nat,
           NEW k \in 0 .. h * n - 1
    PROVE  /\ n # 0 /\ k \div n \in 0 .. h - 1 /\ k % n \in 0 .. n - 1
           /\ k = n * (k \div n) + (k % n)
<1>1. n # 0
  OBVIOUS
<1>2. PICK q : q = k \div n
  OBVIOUS
<1>3. PICK c : c = k % n
  OBVIOUS
<1>4. n \in Nat \ {0} /\ k \in Nat
  BY <1>1
<1>5. q \in Nat /\ c \in 0 .. n - 1 /\ k = n * q + c
  BY <1>2, <1>3, <1>4, RowAndColumn
<1>6. q < h
  <2> SUFFICES ASSUME q >= h PROVE FALSE
    BY <1>5
  <2>1. n * q >= n * h
    BY <1>4, <1>5
  <2>2. n * h = h * n
    BY <1>4
  <2> QED
    BY <1>4, <1>5, <2>1, <2>2
<1> QED
  BY <1>1, <1>2, <1>3, <1>5, <1>6

\* init() leaves every resource as the invariant wants it.
LEMMA InitInv ==
    ASSUME Init
    PROVE  IInv
<1>1. PICK n : n = MAX_SECT - 1
  OBVIOUS
<1>2. n \in Nat /\ MAX_HEAD \in Nat \ {0} /\ MAX_HEAD <= n + 1 /\ MAX_SECT = n + 1
  BY <1>1, PagingAssumption
<1>3. PICK len : len = MAX_HEAD * n
  OBVIOUS
<1>4. len \in Nat
  BY <1>2, <1>3
<1>5. swap_free = [i \in 1 .. len |-> <<(i - 1) \div n, ((i - 1) % n) + 1>>]
  BY <1>1, <1>3 DEF Init
<1>6. ASSUME NEW i \in 1 .. len
      PROVE  /\ n # 0 /\ (i - 1) \div n \in 0 .. MAX_HEAD - 1 /\ (i - 1) % n \in 0 .. n - 1
             /\ i - 1 = n * ((i - 1) \div n) + ((i - 1) % n)
  <2>1. i - 1 \in 0 .. MAX_HEAD * n - 1
    BY <1>3, <1>4
  <2> QED
    BY <1>2, <2>1, FreeListInit
<1>7. ASSUME NEW i \in 1 .. len
      PROVE  /\ swap_free[i] \in Block
             /\ swap_free[i][1] < MAX_HEAD /\ swap_free[i][2] # 0
             /\ i - 1 = n * swap_free[i][1] + (swap_free[i][2] - 1)
  <2>1. PICK r : r = (i - 1) \div n
    OBVIOUS
  <2>2. PICK c : c = (i - 1) % n
    OBVIOUS
  <2>3. r \in 0 .. MAX_HEAD - 1 /\ c \in 0 .. n - 1 /\ i - 1 = n * r + c
    BY <1>6, <2>1, <2>2
  <2>4. swap_free[i] = <<r, c + 1>>
    BY <1>5, <2>1, <2>2
  <2>5. r \in 0 .. MAX_SECT - 1 /\ c + 1 \in 0 .. MAX_SECT - 1
    BY <1>2, <2>3
  <2>6. swap_free[i] \in Block
    BY <2>4, <2>5 DEF Block
  <2>7. r < MAX_HEAD /\ c + 1 # 0 /\ (c + 1) - 1 = c
    BY <1>2, <2>3
  <2> QED
    BY <2>3, <2>4, <2>6, <2>7
<1>8. swap_free \in Seq(Block) /\ Len(swap_free) = len
  <2>1. swap_free \in [1 .. len -> Block]
    BY <1>5, <1>7
  <2>2. swap_free \in Seq(Block)
    BY <1>4, <2>1, SeqDef
  <2> QED
    BY <1>4, <2>1, <2>2, LenProperties
<1>9. NoRepeats(swap_free)
  <2>1. \A i, j \in 1 .. len : swap_free[i] = swap_free[j] => i - 1 = j - 1
    BY <1>7
  <2>2. \A i, j \in 1 .. len : i - 1 = j - 1 => i = j
    BY <1>4
  <2> QED
    BY <1>8, <2>1, <2>2 DEF NoRepeats
<1>10. \A b \in Members(swap_free) : linked[b]
  <2>1. \A b \in Block : b[1] < MAX_HEAD => linked[b] = (b[2] # 0)
    BY DEF Init
  <2> QED
    BY <1>7, <1>8, <2>1 DEF Members
<1>11. /\ pte = [pg \in Page |-> Blank] /\ pte \in [Page -> Entry]
       /\ \A pg \in Page : pte[pg] = Blank
  BY DEF Init, init_useg3_pt, Entry
<1>12. /\ pc \in [Proc -> {"tape", "new"}] /\ pc[InitProc] = "tape"
       /\ \A v \in UProc : pc[v] = "new"
  BY PagingAssumption DEF Init, Proc
<1>13. /\ swap_pool \in [Frame -> {NULL}] /\ vic \in Frame
       /\ want \in [UProc -> {NULL}] /\ frame \in [UProc -> {NULL}]
       /\ block \in [Proc -> {NULL}] /\ linked \in [Block -> BOOLEAN]
       /\ cpu \in {"up", "fatal"}
       /\ DOMAIN frame_data = Frame /\ DOMAIN disk = Block
  BY PagingAssumption DEF Init, Frame
<1>14. /\ swap_semaphore \in Seq(UProc) /\ Members(swap_semaphore) = {}
       /\ file_blocks \in Seq(Block) /\ Members(file_blocks) = {} /\ Len(file_blocks) = 0
  <2>1. swap_semaphore = <<>> /\ file_blocks = <<>>
    BY DEF Init
  <2>2. swap_semaphore \in Seq(UProc) /\ file_blocks \in Seq(Block) /\ Len(file_blocks) = 0
    BY <2>1, EmptySeq
  <2> QED
    BY <2>1, <2>2, MembersType
<1>15. NoRepeats(swap_semaphore) /\ NoRepeats(file_blocks)
  BY DEF Init, NoRepeats
<1>16. Types
  <2>1. \A p \in Proc : pc[p] # "write" /\ block[p] = NULL
    BY <1>12, <1>13
  <2>2. pc \in [Proc -> {"new", "tape", "write", "done", "run", "pager", "read", "map",
                         "clean", "ended"}]
    BY <1>12
  <2>3. /\ swap_pool \in [Frame -> Page \cup {NULL}] /\ want \in [UProc -> Page \cup {NULL}]
        /\ frame \in [UProc -> Frame \cup {NULL}] /\ block \in [Proc -> Block \cup {NULL}]
    BY <1>13
  <2>4. TypeOK
    BY <1>8, <1>11, <1>12, <1>13, <1>14, <2>1, <2>2, <2>3 DEF TypeOK
  <2> QED
    BY <1>11, <1>12, <1>13, <2>4 DEF Types
<1>17. Mutex
  BY <1>12, <1>14, <1>15 DEF Mutex, InPager, PastCheck
<1>18. \A c \in Block : c # NULL /\ c \notin Used
  BY <1>11, <1>13, <1>14, Entries, PagingAssumption DEF Used
<1>19. Sectors
  <2>1. Used = {}
    BY <1>18 DEF Used
  <2>2. SectorsOnce
    BY <1>9, <1>11, <2>1, Entries DEF SectorsOnce, onDisk
  <2> QED
    BY <1>10, <1>13, <1>14, <1>15, <2>1, <2>2 DEF Sectors
<1>20. Frames
  <2>1. PoolAgrees
    BY <1>13 DEF PoolAgrees
  <2>2. AtFirst
    BY <1>11, Entries DEF AtFirst
  <2> QED
    BY <1>11, <1>12, <2>1, <2>2 DEF Frames
<1>21. Contents
  BY <1>11, <1>12, <1>14, Entries DEF Contents
<1> QED
  BY <1>16, <1>17, <1>19, <1>20, <1>21 DEF IInv

--------------------------------------------------------------------------------
(* The theorems *)

\* Every step keeps the invariant.
LEMMA NextInv ==
    ASSUME IInv, [Next]_vars
    PROVE  IInv'
<1>1. ASSUME NEW u \in UProc, NEW pg \in Page, Fault(u, pg) \/ Store(u, pg) PROVE IInv'
  BY <1>1, FaultStep, StoreStep
<1>2. ASSUME NEW u \in UProc, NoLongerMissing(u) PROVE IInv'
  BY <1>2, NoLongerMissingStep
<1>3. ASSUME NEW u \in UProc, FreeFrame(u) PROVE IInv'
  BY <1>3, FreeFrameStep
<1>4. ASSUME NEW u \in UProc, Victim(u) PROVE IInv'
  BY <1>4, VictimStep
<1>5. ASSUME NEW u \in UProc, VictimWritten(u) PROVE IInv'
  BY <1>5, VictimWrittenStep
<1>6. ASSUME NEW u \in UProc, PageRead(u) PROVE IInv'
  BY <1>6, PageReadStep
<1>7. ASSUME NEW u \in UProc, Map(u) PROVE IInv'
  BY <1>7, MapStep
<1>8. ASSUME NEW u \in UProc, Terminate(u) PROVE IInv'
  BY <1>8, TerminateStep
<1>9. ASSUME NEW u \in UProc, CleanUp(u) PROVE IInv'
  BY <1>9, CleanUpStep
<1>10. CASE TapeBlock
  BY <1>10, TapeBlockStep
<1>11. CASE BlockWritten
  BY <1>11, BlockWrittenStep
<1>12. CASE EndOfTape
  BY <1>12, EndOfTapeStep
<1>13. CASE UNCHANGED vars
  <2>1. UNCHANGED <<memory, sectors, swap_semaphore, pc, locals, file_blocks, frame_data, disk>>
        /\ cpu' = cpu
    BY <1>13 DEF vars
  <2>2. cpu' \in {"up", "fatal"}
    BY <2>1 DEF IInv, Types, TypeOK
  <2> QED
    BY <2>1, <2>2, FatalStep
<1> QED
  BY <1>1, <1>2, <1>3, <1>4, <1>5, <1>6, <1>7, <1>8, <1>9, <1>10, <1>11, <1>12, <1>13
     DEF Next, pager

\* The invariant holds in every state the code can reach.
THEOREM Invariant == Spec => []IInv
<1>1. Init => IInv
  BY InitInv
<1>2. IInv /\ [Next]_vars => IInv'
  BY NextInv
<1> QED
  BY <1>1, <1>2, PTL DEF Spec

\* Every variable keeps its type, and who is in the pager knows its page and its frame.
THEOREM TypeCorrect == Spec => []TypeOK
<1>1. IInv => TypeOK
  BY DEF IInv, Types
<1> QED
  BY <1>1, Invariant, PTL

\* swap_alloc and swap_release never give a sector two uses, although sectors are released
\* under exchanged indices and init allocates without the mutex.
THEOREM SectorsOnceAlways == Spec => []SectorsOnce
<1>1. IInv => SectorsOnce
  BY DEF IInv, Sectors
<1> QED
  BY <1>1, Invariant, PTL

\* The frame table of the pager never names a frame its page is not in.
THEOREM PoolAgreesAlways == Spec => []PoolAgrees
<1>1. IInv => PoolAgrees
  BY DEF IInv, Frames
<1> QED
  BY <1>1, Invariant, PTL

\* While no process has ended and there is a free frame, no two pages share one.
THEOREM FrameExclusiveAtFirstAlways == Spec => []FrameExclusiveAtFirst
<1>1. IInv => FrameExclusiveAtFirst
  <2> SUFFICES ASSUME IInv, swap_semaphore = <<>>, \E f \in Frame : swap_pool[f] = NULL,
                      \A u \in UProc : pc[u] # "ended",
                      NEW pg \in Page, NEW qg \in Page, pg # qg, valid(pg)
               PROVE  pte[pg] # pte[qg]
    BY DEF FrameExclusiveAtFirst, FrameExclusive
  <2>1. \A u \in UProc : pc[u] \notin InPager
    BY DEF IInv, Mutex, Members
  <2>2. \A rg \in Page, f \in Frame : pte[rg] = InFrame(f) => swap_pool[f] = rg
    BY <2>1 DEF IInv, Frames, AtFirst, InPager
  <2> QED
    BY <2>2 DEF valid
<1> QED
  BY <1>1, Invariant, PTL

\* A page in memory is not brought in again, to another frame, by a process that waited for
\* the mutex while another one brought it in.
THEOREM BroughtInOnceAlways == Spec => BroughtInOnce
<1>1. ASSUME IInv, [Next]_vars
      PROVE  \A pg \in Page : valid(pg) => pte'[pg] = pte[pg]
  <2>1. ASSUME NEW u \in UProc, Map(u), NEW pg \in Page, valid(pg)
        PROVE  pte'[pg] = pte[pg]
    <3>1. ~ valid(want[u])
      BY <1>1, <2>1 DEF Map, At, IInv, Mutex, PastCheck
    <3> QED
      BY <1>1, <2>1, <3>1 DEF Map, IInv, Types
  <2>2. ASSUME BlockWritten, NEW pg \in Page, valid(pg)
        PROVE  pte'[pg] = pte[pg]
    <3>1. CASE fatal
      BY <3>1 DEF fatal, memory
    <3>2. CASE ~ fatal
      <4>1. PICK u \in nextAsid, b \in Block :
              createProcess(u, Append(file_blocks, b)) \/ pte' = pte
        BY <1>1, <2>2, <3>2, BlockWrittenFacts
      <4>2. pg[1] # u
        <5>1. u \in UProc /\ pc[u] = "new" /\ u # Useg3
          BY PagingAssumption DEF nextAsid
        <5> QED
          BY <1>1, <2>2, <5>1, Entries DEF IInv, Frames, valid
      <4> QED
        BY <4>1, <4>2 DEF createProcess
    <3> QED
      BY <3>1, <3>2
  <2> QED
    BY <1>1, <2>1, <2>2
       DEF Next, pager, Fault, Store, NoLongerMissing, FreeFrame, Victim, VictimWritten, PageRead,
           Terminate, CleanUp, TapeBlock, EndOfTape, fatal, vars, memory
<1>2. IInv /\ [Next]_vars =>
        \A pg \in Page, f \in Frame : valid(pg) /\ pte'[pg] = InFrame(f) => pte[pg] = InFrame(f)
  BY <1>1
<1> QED
  BY <1>2, Invariant, PTL DEF Spec, BroughtInOnce

\* A page that becomes valid is backed by its own contents, except for what a program stored
\* to another page that is still in the frame by its entry.
THEOREM LoadedRightAlways == Spec => LoadedRight
<1> DEFINE Right(pg, f) ==
             \/ frame_data'[f] = pg
             \/ frame_data'[f] = Spoilt /\ \E qg \in Page \ {pg} : pte[qg] = InFrame(f)
<1>1. ASSUME IInv, [Next]_vars
      PROVE  \A pg \in Page, f \in Frame : ~ valid(pg) /\ pte'[pg] = InFrame(f) => Right(pg, f)
  <2>1. ASSUME NEW u \in UProc, Map(u), NEW pg \in Page, NEW f \in Frame,
               ~ valid(pg), pte'[pg] = InFrame(f)
        PROVE  Right(pg, f)
    <3>1. pc[u] = "map" /\ want[u] \in Page /\ frame[u] \in Frame
      BY <1>1, <2>1 DEF Map, At, IInv, Types, TypeOK
    <3>2. pg = want[u] /\ f = frame[u]
      <4>1. pte' = [pte EXCEPT ![want[u]] = InFrame(frame[u])]
        BY <2>1 DEF Map
      <4>2. pte[pg] # InFrame(f)
        BY <2>1 DEF valid
      <4>3. pg = want[u]
        BY <1>1, <2>1, <4>1, <4>2 DEF IInv, Types
      <4>4. pte'[pg] = InFrame(frame[u])
        BY <1>1, <4>1, <4>3 DEF IInv, Types
      <4> QED
        BY <2>1, <4>3, <4>4, Entries
    <3>3. CASE onDisk(pg)
      <4>1. Backed(f, pg) /\ frame_data' = frame_data
        BY <1>1, <2>1, <3>1, <3>2, <3>3 DEF Map, IInv, Contents
      <4>2. pte[pg] # InFrame(f)
        BY <2>1 DEF valid
      <4> QED
        BY <4>1, <4>2 DEF Backed
    <3>4. CASE ~ onDisk(pg)
      BY <1>1, <2>1, <3>1, <3>2, <3>4 DEF Map, IInv, Types
    <3> QED
      BY <3>3, <3>4
  <2>2. ASSUME BlockWritten, NEW pg \in Page, NEW f \in Frame,
               ~ valid(pg), pte'[pg] = InFrame(f)
        PROVE  FALSE
    <3>1. CASE fatal
      BY <2>2, <3>1 DEF fatal, memory, valid
    <3>2. CASE ~ fatal
      <4>1. PICK u \in nextAsid, b \in Block :
              createProcess(u, Append(file_blocks, b)) \/ pte' = pte
        BY <1>1, <2>2, <3>2, BlockWrittenFacts
      <4>2. pte[pg] # InFrame(f)
        BY <2>2 DEF valid
      <4> QED
        BY <2>2, <4>1, <4>2, Entries DEF createProcess
    <3> QED
      BY <3>1, <3>2
  <2>3. ASSUME pte' = pte, NEW pg \in Page, NEW f \in Frame,
               ~ valid(pg), pte'[pg] = InFrame(f)
        PROVE  FALSE
    BY <2>3 DEF valid
  <2>4. \/ pte' = pte \/ BlockWritten \/ \E u \in UProc : Map(u)
    BY <1>1
       DEF Next, pager, Fault, Store, NoLongerMissing, FreeFrame, Victim, VictimWritten, PageRead,
           Terminate, CleanUp, TapeBlock, EndOfTape, fatal, vars, memory
  <2> QED
    BY <2>1, <2>2, <2>3, <2>4
<1> QED
  BY <1>1, Invariant, PTL DEF Spec, LoadedRight

================================================================================
