------------------------------- MODULE Services --------------------------------
(***************************************************************************)
(* What the nucleus promises the processes: a family tree and semaphores   *)
(* with weights, served first come, first served.  There are no            *)
(* descriptors, no ready queue, no counters and no scheduler: whoever      *)
(* waits for no semaphore may act next.  Module Nucleus implements this.   *)
(*                                                                         *)
(* A V of weight w is w units given one by one to the head of the queue.   *)
(* The clock ticks at the end of any service, or alone.                    *)
(***************************************************************************)
EXTENDS Integers, ProcQueues

CONSTANTS
    Pcb,        \* the processes there can be
    Sem,        \* the semaphores
    Clock,      \* the one that ticks
    Weights,    \* absolute values of the weights of P and V
    NULL

VARIABLES
    live,       \* the processes
    parent,     \* the parent of each, NULL for the first
    value,      \* of each semaphore; what waiters still need is subtracted from it
    waiting,    \* the processes that wait for each, in the order they came
    need        \* the units each process still waits for

vars == <<live, parent, value, waiting, need>>

Now == [live |-> live, parent |-> parent, value |-> value, waiting |-> waiting, need |-> need]

Become(st) ==
    /\ live' = st.live /\ parent' = st.parent
    /\ value' = st.value /\ waiting' = st.waiting /\ need' = st.need

Init ==
    /\ \E init \in Pcb : live = {init}
    /\ parent = [p \in Pcb |-> NULL]
    /\ value \in [Sem -> Nat]
    /\ waiting = [s \in Sem |-> <<>>]
    /\ need = [p \in Pcb |-> 0]

\* One unit for s.
Unit(st, s) ==
    LET q == st.waiting[s]
    IN  IF q = <<>> THEN [st EXCEPT !.value[s] = @ + 1]
        ELSE IF st.need[Head(q)] = 1
             THEN [st EXCEPT !.value[s] = @ + 1, !.need[Head(q)] = 0, !.waiting[s] = Tail(@)]
             ELSE [st EXCEPT !.value[s] = @ + 1, !.need[Head(q)] = @ - 1]

\* n units, one after the other.
V(st, s, n) ==
    LET given[i \in 0 .. n] == IF i = 0 THEN st ELSE Unit(given[i - 1], s)
    IN  given[n]

\* p takes w units of s, or waits until it gets w.
P(st, p, s, w) ==
    IF st.value[s] >= w THEN [st EXCEPT !.value[s] = @ - w]
    ELSE [st EXCEPT !.value[s] = @ - w, !.need[p] = w, !.waiting[s] = Append(@, p)]

Create(st, p, child) == [st EXCEPT !.live = @ \cup {child}, !.parent[child] = p]

\* p ends and takes its need back.
Leave(st, p) ==
    [live    |-> st.live \ {p},
     parent  |-> [st.parent EXCEPT ![p] = NULL],
     value   |-> [s \in Sem |-> IF p \in Members(st.waiting[s])
                                THEN st.value[s] + st.need[p] ELSE st.value[s]],
     waiting |-> [s \in Sem |-> Without(st.waiting[s], {p})],
     need    |-> [st.need EXCEPT ![p] = 0]]

\* Whether a, through its parent and so on, descends from target.
Descends(a, target) ==
    LET up[i \in Nat] == IF i = 0 THEN a
                         ELSE IF up[i - 1] = NULL THEN NULL ELSE parent[up[i - 1]]
    IN  \E i \in 0 .. Cardinality(Pcb) : up[i] = target

Progeny(target) == {p \in live : Descends(p, target)}

\* target ends with all its progeny, in whatever order.
Kill(target) ==
    LET all[S \in SUBSET Progeny(target)] ==
            IF S = {} THEN Now
            ELSE LET p == CHOOSE p \in S : TRUE IN Leave(all[S \ {p}], p)
    IN  all[Progeny(target)]

\* A tick gives the clock what its waiters need.
Tick(st) == V(st, Clock, -st.value[Clock])

\* After a service comes a tick, or not.
Then(st) == Become(st) \/ (st.value[Clock] < 0 /\ Become(Tick(st)))

Runnable == {p \in live : \A s \in Sem : p \notin Members(waiting[s])}

\* The services.  The first conjunct of each follows from the rest.
Take(p, s, w) ==
    /\ s = Clock \/ value'[s] = value[s] - w
    /\ Then(P(Now, p, s, w))

Give(s, w) ==
    /\ s = Clock \/ value'[s] = value[s] + w
    /\ Then(V(Now, s, w))

\* Two semaphores get a unit at once: both halves of a terminal are done.
GiveBoth(s, t) ==
    /\ value'[s] = value[s] + 1 /\ value'[t] = value[t] + 1
    /\ Then(V(V(Now, s, 1), t, 1))

Born(p, child) ==
    /\ child \in live'
    /\ Then(Create(Now, p, child))

Die(target) ==
    /\ live' = live \ Progeny(target)
    /\ Then(Kill(target))

Next ==
    \/ Then(Now)
    \/ /\ live' = live
       /\ \E s \in Sem, w \in Weights : Give(s, w) \/ \E p \in Runnable : Take(p, s, w)
    \/ /\ live' = live
       /\ \E s, t \in Sem \ {Clock} : s # t /\ GiveBoth(s, t)
    \/ \E child \in Pcb \ live : \E p \in Runnable : Born(p, child)
    \/ \E target \in live : Die(target)

Spec == Init /\ [][Next]_vars

================================================================================
