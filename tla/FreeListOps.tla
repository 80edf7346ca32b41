---------------------------- MODULE FreeListOps ----------------------------
(***************************************************************************)
(* The data path of MultiWidthFreeList (Primitives/FreeList.sv): a ring of *)
(* SIZE entries under a MultiWidthQueuePointer.  A free list is a record   *)
(*    [ring |-> the RAM, head, tail |-> the pointers, count |-> the count] *)
(* The lanes of the ports are compacted by the module itself (pushCount    *)
(* and popCount run over the lanes), so a cycle pops a number of entries   *)
(* and pushes a sequence of values.                                        *)
(***************************************************************************)
EXTENDS QueuePointers, Sequences

CONSTANT INITIAL_LENGTH    \* parameter INITIAL_LENGTH of MultiWidthFreeList

(* After the reset sequence entry[i] = i; the tail pointer is loaded with  *)
(* INITIAL_LENGTH, truncated to an IndexPath.                              *)
InitFreeList ==
    [ring  |-> [i \in 0 .. SIZE - 1 |-> i],
     head  |-> 0,
     tail  |-> Trunc(INITIAL_LENGTH),
     count |-> INITIAL_LENGTH]

(* poppedData of the lane that pops after n other lanes *)
Peek(fl, n) == fl.ring[WrapAdd(fl.head, n)]

(* Fault for mutation: every lane writes at the tail. *)
PushAddr_NoLaneOffset(fl, k) == WrapAdd(fl.tail, 0)

(* The entry the k-th pushed value is written to *)
PushAddr(fl, k) == WrapAdd(fl.tail, k - 1)

(* Fault for mutation: the pops are not counted. *)
Clock_PopNotCounted(fl, n, s) ==
    [ring  |-> [a \in 0 .. SIZE - 1 |->
                   IF \E k \in 1 .. Len(s) : PushAddr(fl, k) = a
                   THEN s[CHOOSE k \in 1 .. Len(s) : PushAddr(fl, k) = a]
                   ELSE fl.ring[a]],
     head  |-> Advance(fl.head, n),
     tail  |-> Advance(fl.tail, Len(s)),
     count |-> fl.count + Len(s)]

(* One clock edge: n entries are popped and the values of s are pushed. *)
Clock(fl, n, s) ==
    [ring  |-> [a \in 0 .. SIZE - 1 |->
                   IF \E k \in 1 .. Len(s) : PushAddr(fl, k) = a
                   THEN s[CHOOSE k \in 1 .. Len(s) : PushAddr(fl, k) = a]
                   ELSE fl.ring[a]],
     head  |-> IF n > 0 THEN Advance(fl.head, n) ELSE fl.head,
     tail  |-> IF s # <<>> THEN Advance(fl.tail, Len(s)) ELSE fl.tail,
     count |-> fl.count + Len(s) - n]

(* The values in the list, oldest first. *)
Contents(fl) == [k \in 1 .. fl.count |-> Peek(fl, k - 1)]
=============================================================================
