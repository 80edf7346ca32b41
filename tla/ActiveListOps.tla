--------------------------- MODULE ActiveListOps ---------------------------
(***************************************************************************)
(* The order of the active list (the reorder buffer) as the hardware       *)
(* computes it from pointers: ActiveListPtrToAge (SchedulerTypes.sv),      *)
(* SelectiveFlushDetector (ActiveListIndexTypes.sv), which every stage and *)
(* queue uses to kill the ops of a flushed range, and the length of that   *)
(* range (ActiveList.sv), which the committer pops.                        *)
(***************************************************************************)
EXTENDS Naturals

CONSTANT ACTIVE_LIST_ENTRY_NUM    \* a power of two: pointers wrap by width

ASSUME ActiveListSizeAssumption == ACTIVE_LIST_ENTRY_NUM \in Nat \ {0}

ALPtr == 0 .. ACTIVE_LIST_ENTRY_NUM - 1

(* An age orders the ops of the window that starts at head: older is less. *)
ActiveListPtrToAge(ptr, head) ==
    IF ptr < head THEN ptr + ACTIVE_LIST_ENTRY_NUM ELSE ptr

(* Fault for mutation: the op of a REFETCH_NEXT is flushed with the others. *)
NextPtr_NotNext(ptr) == ptr

(* exceptionOpPtr + 1, truncated to an ActiveListIndexPath *)
NextPtr(ptr) == IF ptr + 1 = ACTIVE_LIST_ENTRY_NUM THEN 0 ELSE ptr + 1

(* recovery.flushAllInsns *)
FlushAllInsns(rangeHead, rangeTail, count) ==
    rangeHead = rangeTail /\ count = ACTIVE_LIST_ENTRY_NUM

(* Faults for mutation: a range that wraps is one short; one too long. *)
FlushEntryNum_WrapShort(rangeHead, rangeTail, count) ==
    IF FlushAllInsns(rangeHead, rangeTail, count) THEN ACTIVE_LIST_ENTRY_NUM
    ELSE IF rangeTail >= rangeHead THEN rangeTail - rangeHead
    ELSE ACTIVE_LIST_ENTRY_NUM - 1 + rangeTail - rangeHead

FlushEntryNum_Inclusive(rangeHead, rangeTail, count) ==
    IF FlushAllInsns(rangeHead, rangeTail, count) THEN ACTIVE_LIST_ENTRY_NUM
    ELSE IF rangeTail >= rangeHead THEN rangeTail - rangeHead + 1
    ELSE ACTIVE_LIST_ENTRY_NUM + rangeTail - rangeHead + 1

(* nextRecoveryEntryNum: how many entries the committer pops *)
FlushEntryNum(rangeHead, rangeTail, count) ==
    IF FlushAllInsns(rangeHead, rangeTail, count) THEN ACTIVE_LIST_ENTRY_NUM
    ELSE IF rangeTail >= rangeHead THEN rangeTail - rangeHead
    ELSE ACTIVE_LIST_ENTRY_NUM + rangeTail - rangeHead

(* Fault for mutation: a range that wraps also selects what lies before it. *)
SelectiveFlush_WrapTooWide(rangeHead, rangeTail, flushAll, opPtr) ==
    \/ flushAll
    \/ rangeTail >= rangeHead /\ opPtr >= rangeHead /\ opPtr < rangeTail
    \/ rangeTail < rangeHead /\ (opPtr > rangeTail \/ opPtr < rangeHead)

(* SelectiveFlushDetector with detectRange raised *)
SelectiveFlush(rangeHead, rangeTail, flushAll, opPtr) ==
    \/ flushAll
    \/ /\ ~flushAll
       /\ \/ rangeTail >= rangeHead /\ opPtr >= rangeHead /\ opPtr < rangeTail
          \/ /\ rangeTail < rangeHead
             /\ \/ opPtr >= rangeHead /\ opPtr > rangeTail
                \/ opPtr < rangeHead /\ opPtr < rangeTail
=============================================================================
