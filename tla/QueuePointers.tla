--------------------------- MODULE QueuePointers ---------------------------
(***************************************************************************)
(* The pointer arithmetic of the circular queues of Primitives/Queue.sv:   *)
(* MultiWidthQueuePointer and BiTailMultiWidthQueuePointer.  A pointer is  *)
(* an IndexPath, $clog2(SIZE) bits wide, so every assignment to one        *)
(* truncates modulo INDEX_MOD = 2^$clog2(SIZE) before the comparison with  *)
(* SIZE is made.  SIZE need not be a power of two (the flags free list has *)
(* SIZE = 30 and INDEX_MOD = 32), and then the two wraps are different.    *)
(***************************************************************************)
EXTENDS Naturals

CONSTANTS
    SIZE,        \* parameter SIZE of the queue
    INDEX_MOD    \* 2^$clog2(SIZE): the range of an IndexPath

ASSUME QueueSizeAssumption ==
    /\ SIZE \in Nat \ {0}
    /\ INDEX_MOD \in Nat
    /\ SIZE <= INDEX_MOD

Index == 0 .. INDEX_MOD - 1

(* The value an IndexPath keeps of a sum: no sum here reaches 2 * INDEX_MOD. *)
Trunc(x) == IF x >= INDEX_MOD THEN x - INDEX_MOD ELSE x

(* Fault for mutation: the pointer only wraps by its width. *)
Advance_WidthWrapOnly(ptr, n) == Trunc(ptr + n)

(* nextTail += n; if (nextTail >= SIZE) nextTail -= SIZE   (also nextHead) *)
Advance(ptr, n) ==
    LET next == Trunc(ptr + n)
    IN  IF next >= SIZE THEN next - SIZE ELSE next

(* nextTail -= n; if (nextTail >= SIZE) nextTail += SIZE   (popTail) *)
Retreat(ptr, n) ==
    LET next == IF ptr < n THEN ptr + INDEX_MOD - n ELSE ptr - n
    IN  IF next >= SIZE THEN Trunc(next + SIZE) ELSE next

(* The address of the entry n places after ptr, which the users of the     *)
(* pointers compute in 32 bits: (ptr + n >= SIZE) ? ptr + n - SIZE : ...   *)
WrapAdd(ptr, n) == IF ptr + n >= SIZE THEN ptr + n - SIZE ELSE ptr + n

(* The address of the entry n + 1 places before ptr (tailPtr - 1 - n). *)
WrapBack(ptr, n) == IF ptr < n + 1 THEN ptr + SIZE - 1 - n ELSE ptr - 1 - n
=============================================================================
