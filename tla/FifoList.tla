------------------------------ MODULE FifoList ------------------------------
(***************************************************************************)
(* What a free list promises its client: values come out in the order in   *)
(* which they were put back, a value returned in a cycle is not available  *)
(* before the next one, and pushes and pops of one cycle do not disturb    *)
(* each other.                                                             *)
(***************************************************************************)
EXTENDS Naturals, Sequences

CONSTANTS SIZE, PUSH_WIDTH, POP_WIDTH, LOGICAL_NUM
VARIABLES queue, held

Init ==
    /\ queue = [k \in 1 .. SIZE |-> k - 1]
    /\ held = SIZE .. SIZE + LOGICAL_NUM - 1

Cycle(n, s) ==
    /\ n <= Len(queue)
    /\ queue' = SubSeq(queue, n + 1, Len(queue)) \o s
    /\ held' = (held \ {s[k] : k \in DOMAIN s}) \cup {queue[k] : k \in 1 .. n}

Next ==
    \E n \in 0 .. POP_WIDTH, len \in 0 .. PUSH_WIDTH :
        \E s \in [1 .. len -> held] : Cycle(n, s)

Spec == Init /\ [][Next]_<<queue, held>>
=============================================================================
