------------------------- MODULE MultiWidthFreeList -------------------------
(***************************************************************************)
(* MultiWidthFreeList of Primitives/FreeList.sv under the use RenameLogic  *)
(* makes of it: in one clock cycle the client pops up to POP_WIDTH         *)
(* registers, and only when the list holds at least POP_WIDTH              *)
(* (renameLogic.allocatable), and pushes back up to PUSH_WIDTH of the      *)
(* registers it holds (releaseReg, one per commit lane).                   *)
(***************************************************************************)
EXTENDS FreeListOps, FiniteSets

CONSTANTS
    PUSH_WIDTH,     \* COMMIT_WIDTH in RenameLogic
    POP_WIDTH,      \* RENAME_WIDTH in RenameLogic
    LOGICAL_NUM     \* the logical registers, each mapped from reset on

ASSUME WidthAssumption ==
    /\ PUSH_WIDTH \in Nat \ {0} /\ PUSH_WIDTH <= SIZE
    /\ POP_WIDTH \in Nat \ {0} /\ POP_WIDTH <= SIZE
    /\ LOGICAL_NUM \in Nat
    /\ INITIAL_LENGTH = SIZE

VARIABLES
    fl,       \* the free list: RAM, pointers and count
    held      \* the registers outside the list: the client's

vars == <<fl, held>>

Value == 0 .. SIZE + LOGICAL_NUM - 1

(* The logical registers start mapped to the registers beyond the list. *)
Init ==
    /\ fl = InitFreeList
    /\ held = SIZE .. SIZE + LOGICAL_NUM - 1

(* What the client may give back in one cycle: distinct registers it holds, *)
(* and never the last LOGICAL_NUM, a register being released only when      *)
(* another one has taken its logical register over.                         *)
Returns ==
    {s \in UNION {[1 .. n -> held] : n \in 0 .. PUSH_WIDTH} :
        /\ \A i, j \in DOMAIN s : s[i] = s[j] => i = j
        /\ Len(s) + LOGICAL_NUM <= Cardinality(held)}

Popped(n) == {Peek(fl, k) : k \in 0 .. n - 1}
Pushed(s) == {s[k] : k \in DOMAIN s}

(* One cycle: n registers allocated, those of s released. *)
Cycle(n, s) ==
    /\ n > 0 => fl.count >= POP_WIDTH
    /\ fl' = Clock(fl, n, s)
    /\ held' = (held \ Pushed(s)) \cup Popped(n)

Next == \E n \in 0 .. POP_WIDTH : \E s \in Returns : Cycle(n, s)

Spec == Init /\ [][Next]_vars

-----------------------------------------------------------------------------
(* The RAM, the pointers and the count stay in their ranges. *)
TypeOK ==
    /\ fl.ring \in [0 .. SIZE - 1 -> Value]
    /\ fl.head \in 0 .. SIZE - 1
    /\ fl.tail \in Index
    /\ fl.count \in 0 .. SIZE
    /\ held \subseteq Value

(* Every register is in the list exactly once or with the client exactly   *)
(* once (RenameLogicTypes.sv: all physical registers are either assigned   *)
(* or linked in the free list): nothing is lost, and nothing that is       *)
(* handed out can be handed out again, whatever the two pointers did in    *)
(* the same cycle.                                                         *)
NoLossNoDuplicate ==
    /\ \A i, j \in DOMAIN Contents(fl) :
          Contents(fl)[i] = Contents(fl)[j] => i = j
    /\ \A v \in Value :
          v \in held <=> \A i \in DOMAIN Contents(fl) : Contents(fl)[i] # v

(* The abstract free list: a FIFO queue that knows nothing of rings. *)
Fifo == INSTANCE FifoList WITH queue <- Contents(fl)
FifoSpec == Fifo!Spec
=============================================================================
