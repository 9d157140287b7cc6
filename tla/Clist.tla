--------------------------------- MODULE Clist ---------------------------------
(***************************************************************************)
(* The circular lists of clist.h.                                          *)
(*                                                                         *)
(* A memory m of links maps every struct clist to the one its next points  *)
(* to, or to NULL: the list itself, a pointer to the tail, and the link in *)
(* each element.  An element stands for its link, so container_of is the   *)
(* identity.  The macros are operators from a memory to a memory.          *)
(***************************************************************************)
EXTENDS Naturals, Sequences, FiniteSets

CONSTANT NULL

clist_empty(m, l) == m[l] = NULL

clist_enqueue(m, e, l) ==
    IF clist_empty(m, l)
    THEN [m EXCEPT ![l] = e, ![e] = e]
    ELSE [m EXCEPT ![e] = m[m[l]], ![m[l]] = e, ![l] = e]

clist_push(m, e, l) ==
    IF clist_empty(m, l)
    THEN [m EXCEPT ![l] = e, ![e] = e]
    ELSE [m EXCEPT ![e] = m[m[l]], ![m[l]] = e]

clist_head(m, l) == IF clist_empty(m, l) THEN NULL ELSE m[m[l]]

\* clist_pop is clist_head and clist_dequeue.
clist_dequeue(m, l) ==
    IF clist_empty(m, l) THEN m
    ELSE IF m[l] = m[m[l]] THEN [m EXCEPT ![l] = NULL]
    ELSE [m EXCEPT ![m[l]] = m[m[m[l]]]]

\* The links clist_foreach goes through, as tmp: from the tail until it is back there.
visits(m, l) ==
    LET tmp[i \in Nat] == IF i = 0 THEN m[l] ELSE m[tmp[i - 1]]
        back(n) == tmp[n] = m[l] /\ \A i \in 1 .. n - 1 : tmp[i] # m[l]
        turns   == CHOOSE n \in 1 .. Cardinality(DOMAIN m) : back(n)
    IN  IF clist_empty(m, l) THEN <<>> ELSE [i \in 1 .. turns |-> tmp[i - 1]]

\* The elements in the order in which clist_foreach assigns them to scan.
elements(m, l) ==
    LET tmp == visits(m, l)
    IN  [i \in DOMAIN tmp |-> m[tmp[i]]]

isIn(m, e, l) ==
    LET scan == elements(m, l)
    IN  \E i \in DOMAIN scan : scan[i] = e

\* Where tmp stands when scan is e.
before(m, e, l) ==
    LET tmp == visits(m, l)
    IN  tmp[CHOOSE i \in DOMAIN tmp : m[tmp[i]] = e]

\* A faulty clist_delete, for OneList: without its case for a list of one element.
clist_deleteSingle(m, e, l) ==
    IF ~ isIn(m, e, l) THEN m
    ELSE [m EXCEPT ![before(m, e, l)] = m[e], ![l] = IF m[l] = e THEN before(m, e, l) ELSE @]

\* The element after tmp is taken out, and the tail pointer moves back if it was the tail.
clist_delete(m, e, l) ==
    IF ~ isIn(m, e, l) THEN m
    ELSE IF m[l] = m[m[l]] THEN [m EXCEPT ![l] = NULL]
    ELSE [m EXCEPT ![before(m, e, l)] = m[e], ![l] = IF m[l] = e THEN before(m, e, l) ELSE @]

\* clist_foreach_add: e goes before scan.
clist_foreach_add(m, e, scan, l) ==
    [m EXCEPT ![e] = scan, ![before(m, scan, l)] = e]

\* A faulty firstGreater, for AslSorted: scan->order < elem->order.
firstLess(m, e, l, order) == {i \in DOMAIN elements(m, l) : order[elements(m, l)[i]] < order[e]}

\* The places whose element has a greater key than e.
firstGreater(m, e, l, order) ==
    {i \in DOMAIN elements(m, l) : order[elements(m, l)[i]] > order[e]}

\* e goes before the first element with a greater key, or to the end.
clist_insert_asc(m, e, l, order) ==
    LET places == firstGreater(m, e, l, order)
    IN  IF places = {} THEN clist_enqueue(m, e, l)
        ELSE clist_foreach_add(m, e,
                 elements(m, l)[CHOOSE i \in places : \A k \in places : i <= k], l)

================================================================================
