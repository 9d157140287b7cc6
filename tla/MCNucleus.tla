------------------------------ MODULE MCNucleus ------------------------------
(* Instances of Nucleus for TLC. *)
EXTENDS Nucleus, TLC

\* Processes and descriptors are interchangeable: the nucleus compares pcb and semd
\* addresses for equality only.
Symmetry == Permutations(Pcb) \cup Permutations(Semd)

\* The support level takes a mutex before it uses a device (usrcalls.c, swap.c), so at
\* most one process waits for one.
ExclusiveDevices == \A d \in IODevice : Cardinality(Blocked(kernel', d)) <= 1

FairSpec == Init /\ [][Next /\ ExclusiveDevices]_vars /\ Fairness

===============================================================================
