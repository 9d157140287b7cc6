------------------------------ MODULE ProcQueues ------------------------------
(***************************************************************************)
(* The process queues of the nucleus (src/src/pcb.c over the circular      *)
(* lists of src/src/clist.h) as sequences, head first.                     *)
(*                                                                         *)
(* Enqueue, pop and head are Append, Tail and Head.  The operators below   *)
(* are the remaining ones.  They are written without recursion so that     *)
(* the theorems about the nucleus can use them.                            *)
(***************************************************************************)
EXTENDS Naturals, Sequences, FiniteSets

\* The processes of a queue.
Members(q) == {q[i] : i \in 1 .. Len(q)}

\* A queue in which no process occurs twice: what the single p_list link of a
\* pcb needs to stay well formed.
NoRepeats(q) == \A i, j \in 1 .. Len(q) : q[i] = q[j] => i = j

\* A faulty Without: clist_delete without its case for a list of one element.
WithoutButSingle(q, S) ==
    IF Len(q) = 1 THEN q ELSE SelectSeq(q, LAMBDA p : p \notin S)

\* outProcQ applied to every process of S: the processes of q that are not in S,
\* in their order.  Position j of the result holds the j-th of the kept positions.
Without(q, S) ==
    LET kept    == {i \in 1 .. Len(q) : q[i] \notin S}
        rank(i) == Cardinality({h \in kept : h <= i})
    IN  [j \in 1 .. Cardinality(kept) |-> q[CHOOSE i \in kept : rank(i) = j]]

\* The queue after its first n processes were taken from the head and enqueued
\* again, one after the other.
Rotate(q, n) == SubSeq(q, n + 1, Len(q)) \o SubSeq(q, 1, n)

===============================================================================
