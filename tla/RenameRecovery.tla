--------------------------- MODULE RenameRecovery ---------------------------
(***************************************************************************)
(* Renaming, in-order retirement and recovery of the core, cycle by cycle: *)
(* RenameLogic with its RMT and free lists, the retirement RMT, the active *)
(* list with its recovery register, CommitStage, RenameLogicCommitter and  *)
(* RecoveryManager.  A step is one clock edge: every unprimed variable is  *)
(* a register, every operator between is combinational logic.              *)
(*                                                                         *)
(* The environment of a cycle: the ops the decoder offers, the ops of the  *)
(* back end that reach a register-write stage and with which execution     *)
(* state, and when the scheduler has returned what a recovery flushed.     *)
(***************************************************************************)
EXTENDS ActiveListOps, CommitDecision, FiniteSets, Sequences

CONSTANTS
    LReg,                       \* logical registers, 0 .. n - 1
    SCALAR_FREE_LIST_ENTRY_NUM, SCALAR_INDEX_MOD,
    FLAG_FREE_LIST_ENTRY_NUM, FLAG_INDEX_MOD,
    RENAME_WIDTH,
    ISSUE_WIDTH,                \* ops that reach a write stage in a cycle
    Ops,                        \* the ops the decoder offers
    Outcomes,                   \* the execution states they can end in
    \* bounds on the environment
    MISPREDICT_AT_FULL,         \* see FullListWrap below
    FLUSHED_OPS_LINGER          \* see staleOps below

ASSUME CoreAssumption ==
    /\ Ops \subseteq [log : LReg, writeReg : BOOLEAN, writeFlags : BOOLEAN]
    /\ Outcomes \subseteq {"SUCCESS", "REFETCH_NEXT", "REFETCH_THIS", "TRAP",
                           "FAULT"}
    /\ {MISPREDICT_AT_FULL, FLUSHED_OPS_LINGER} \subseteq BOOLEAN
    /\ {RENAME_WIDTH, ISSUE_WIDTH} \subseteq Nat \ {0}

(* Sizes: the logical registers are numbered from 0, a pointer of a free   *)
(* list is $clog2 of its size wide, and a list holds what a cycle allocates *)
(* or returns at most.                                                     *)
ASSUME RegisterAssumption ==
    /\ IsFiniteSet(LReg) /\ LReg = 0 .. Cardinality(LReg) - 1
    /\ {SCALAR_FREE_LIST_ENTRY_NUM, FLAG_FREE_LIST_ENTRY_NUM} \subseteq Nat \ {0}
    /\ {SCALAR_INDEX_MOD, FLAG_INDEX_MOD} \subseteq Nat
    /\ SCALAR_FREE_LIST_ENTRY_NUM <= SCALAR_INDEX_MOD
    /\ FLAG_FREE_LIST_ENTRY_NUM <= FLAG_INDEX_MOD
    /\ \A width \in {RENAME_WIDTH, COMMIT_WIDTH} :
          width <= SCALAR_FREE_LIST_ENTRY_NUM /\ width <= FLAG_FREE_LIST_ENTRY_NUM

GPR == INSTANCE FreeListOps WITH
    SIZE <- SCALAR_FREE_LIST_ENTRY_NUM, INDEX_MOD <- SCALAR_INDEX_MOD,
    INITIAL_LENGTH <- SCALAR_FREE_LIST_ENTRY_NUM
FLG == INSTANCE FreeListOps WITH
    SIZE <- FLAG_FREE_LIST_ENTRY_NUM, INDEX_MOD <- FLAG_INDEX_MOD,
    INITIAL_LENGTH <- FLAG_FREE_LIST_ENTRY_NUM
AL == INSTANCE QueuePointers WITH
    SIZE <- ACTIVE_LIST_ENTRY_NUM, INDEX_MOD <- ACTIVE_LIST_ENTRY_NUM

VARIABLES
    rmt,            \* RMT: logical -> physical
    flagsPhyReg,    \* the single-entry flags map
    gprFree,        \* scalarFreeList
    flagFree,       \* flagFreeList
    rrmt,           \* retirement RMT
    released,       \* regReleasedReg, flagReleasedReg: pushed next cycle
    activeList,     \* the entries; NoEntry outside the window
    al,             \* [head, tail, count] of activeListPointer
    finished,       \* execState RAM: the window's ops whose bit is set
    recoveryReg,    \* the oldest op that needs a recovery
    manager,        \* RecoveryManager: phase and flush range
    committer,      \* RenameLogicCommitter: phase, recoveryCount
    recoveryEntryNum,   \* latched by the active list for the committer
    backEnd,        \* ops in the scheduler and the pipelines (by ptr)
    iqReturning,    \* issueQueueReturnIndex: IQ entries being returned
    staleOps,       \* replayQueue / wakeupPipelineRegFlushedOpExist
    \* history variables: what the program order demands
    failed,         \* ops whose recovery is still owed
    condemned,      \* ops on a path that a failed op made wrong
    archFlags       \* the flags register of the last retired writer

vars == <<rmt, flagsPhyReg, gprFree, flagFree, rrmt, released, activeList, al,
          finished, recoveryReg, manager, committer, recoveryEntryNum,
          backEnd, iqReturning, staleOps, failed, condemned, archFlags>>

NoEntry == [log |-> 0, writeReg |-> FALSE, writeFlags |-> FALSE,
            phyDst |-> 0, phyPrevDst |-> 0, phyDstFlags |-> 0,
            phyPrevDstFlags |-> 0]
NoRecovery == [valid |-> FALSE, ptr |-> 0, state |-> "NOT_FINISHED"]
NothingReleased == [gpr |-> <<>>, flag |-> <<>>]

(* The flush range is loaded in every cycle but only read in RECOVER_0. *)
InPhase(phase) == [phase |-> phase, flushHead |-> 0, flushTail |-> 0]

(* The pointers of the window, oldest first *)
Window == {AL!WrapAdd(al.head, i) : i \in 0 .. al.count - 1}
Age(p) == ActiveListPtrToAge(p, al.head)
YoungerThan(p) == {q \in Window : Age(q) > Age(p)}

MaxOf(S) == CHOOSE x \in S : \A y \in S : y <= x
MinOf(S) == CHOOSE x \in S : \A y \in S : x <= y

-----------------------------------------------------------------------------
(* Reset.  The RMTs map l to the register SCALAR_FREE_LIST_ENTRY_NUM + l,  *)
(* the flags map is FLAG_FREE_LIST_ENTRY_NUM: beyond the free lists.       *)
Init ==
    /\ rmt = [l \in LReg |-> SCALAR_FREE_LIST_ENTRY_NUM + l]
    /\ rrmt = [l \in LReg |-> SCALAR_FREE_LIST_ENTRY_NUM + l]
    /\ flagsPhyReg = FLAG_FREE_LIST_ENTRY_NUM
    /\ archFlags = FLAG_FREE_LIST_ENTRY_NUM
    /\ gprFree = GPR!InitFreeList
    /\ flagFree = FLG!InitFreeList
    /\ released = NothingReleased
    /\ activeList = [p \in ALPtr |-> NoEntry]
    /\ al = [head |-> 0, tail |-> 0, count |-> 0]
    /\ finished = {} /\ backEnd = {}
    /\ recoveryReg = NoRecovery
    /\ manager = InPhase("COMMIT")
    /\ committer = [phase |-> "COMMIT", recoveryCount |-> 0]
    /\ recoveryEntryNum = 0
    /\ iqReturning = FALSE /\ staleOps = FALSE
    /\ failed = {} /\ condemned = {}

-----------------------------------------------------------------------------
(* Renaming a group: a sequence of ops, oldest lane first.                 *)

GprWritersBefore(group, i) == {j \in 1 .. i - 1 : group[j].writeReg}
FlagWritersBefore(group, i) == {j \in 1 .. i - 1 : group[j].writeFlags}
AllocatedGpr(group, i) ==
    GPR!Peek(gprFree, Cardinality(GprWritersBefore(group, i)))
AllocatedFlag(group, i) ==
    FLG!Peek(flagFree, Cardinality(FlagWritersBefore(group, i)))

(* The map lane i reads: the RMT, bypassed from the older lanes *)
RmtAtLane(group, i) ==
    [l \in LReg |->
        LET writers == {j \in GprWritersBefore(group, i) : group[j].log = l}
        IN  IF writers = {} THEN rmt[l]
            ELSE AllocatedGpr(group, MaxOf(writers))]
FlagsAtLane(group, i) ==
    LET writers == FlagWritersBefore(group, i)
    IN  IF writers = {} THEN flagsPhyReg
        ELSE AllocatedFlag(group, MaxOf(writers))

(* Faults for mutation: the previous mapping is read without the bypass    *)
(* from the older lanes of the group.                                      *)
EntryOf_NoBypass(group, i) ==
    LET op == group[i]
    IN  [log             |-> op.log,
         writeReg        |-> op.writeReg,
         writeFlags      |-> op.writeFlags,
         phyDst          |-> IF op.writeReg THEN AllocatedGpr(group, i) ELSE 0,
         phyPrevDst      |-> rmt[op.log],
         phyDstFlags     |-> IF op.writeFlags THEN AllocatedFlag(group, i)
                                              ELSE 0,
         phyPrevDstFlags |-> IF op.writeFlags THEN flagsPhyReg ELSE 0]

(* The entry pushed for lane i.  A register that the op does not write is  *)
(* never read from its entry.  The previous mapping always is: the RMT is  *)
(* restored from every popped entry.                                       *)
EntryOf(group, i) ==
    LET op == group[i]
    IN  [log             |-> op.log,
         writeReg        |-> op.writeReg,
         writeFlags      |-> op.writeFlags,
         phyDst          |-> IF op.writeReg THEN AllocatedGpr(group, i) ELSE 0,
         phyPrevDst      |-> RmtAtLane(group, i)[op.log],
         phyDstFlags     |-> IF op.writeFlags THEN AllocatedFlag(group, i)
                                              ELSE 0,
         phyPrevDstFlags |-> IF op.writeFlags THEN FlagsAtLane(group, i)
                                              ELSE 0]

InRecoveryAL == committer.phase # "COMMIT"

(* renameLogic.allocatable and activeList.allocatable *)
Allocatable ==
    /\ ~InRecoveryAL
    /\ gprFree.count >= RENAME_WIDTH
    /\ flagFree.count >= RENAME_WIDTH
    /\ al.count + RENAME_WIDTH <= ACTIVE_LIST_ENTRY_NUM

(* The groups RenameStage may send: none when it stalls or is cleared *)
Groups ==
    IF Allocatable /\ manager.phase # "RECOVER_0"
    THEN UNION {[1 .. n -> Ops] : n \in 0 .. RENAME_WIDTH}
    ELSE {<<>>}

PushedPtr(i) == AL!WrapAdd(al.tail, i - 1)
PushedPtrs(group) == {PushedPtr(i) : i \in DOMAIN group}

(* Maps and free lists after a cycle that renames group; what the committer *)
(* released a cycle ago is pushed at the same edge.                         *)
Rename(group) ==
    LET past == Len(group) + 1
    IN  /\ rmt' = RmtAtLane(group, past)
        /\ flagsPhyReg' = FlagsAtLane(group, past)
        /\ gprFree' = GPR!Clock(gprFree,
                Cardinality(GprWritersBefore(group, past)), released.gpr)
        /\ flagFree' = FLG!Clock(flagFree,
                Cardinality(FlagWritersBefore(group, past)), released.flag)

-----------------------------------------------------------------------------
(* Results.  A write is a function from the ops that leave a write stage   *)
(* in this cycle to their states; an op that is replayed writes            *)
(* NOT_FINISHED, which changes nothing, and stays in the back end.         *)

Flushed(p) ==
    SelectiveFlush(manager.flushHead, manager.flushTail,
        FlushAllInsns(manager.flushHead, manager.flushTail, al.count), p)

Writers == IF manager.phase = "RECOVER_0"
           THEN {p \in backEnd : ~Flushed(p)} ELSE backEnd

Writes == UNION {[S -> Outcomes] :
                    S \in {T \in SUBSET Writers : Cardinality(T) <= ISSUE_WIDTH}}

(* Fault for mutation: a recorded failure blocks the next recovery. *)
UnableToStartRecovery_WhileRecorded ==
    manager.phase # "COMMIT" \/ InRecoveryAL \/ iqReturning \/ staleOps
        \/ recoveryReg.valid

UnableToStartRecovery ==
    manager.phase # "COMMIT" \/ InRecoveryAL \/ iqReturning \/ staleOps

Exceptions(w) == {p \in DOMAIN w : Recovers(w[p])}
OldestOf(S) == CHOOSE p \in S : \A q \in S : Age(p) <= Age(q)

(* Fault for mutation: the last exception wins. *)
Recorded_NoAgeCheck(w) == Exceptions(w) # {}

(* The oldest exception of the cycle replaces an older record only if it   *)
(* is older than it.                                                       *)
Recorded(w) ==
    /\ Exceptions(w) # {}
    /\ recoveryReg.valid => Age(OldestOf(Exceptions(w))) < Age(recoveryReg.ptr)

(* exceptionDetected: REFETCH states recover as soon as they are written,  *)
(* traps and faults (startRecoveryAtCommit) only when they are retired.    *)
ExceptionDetected(w) ==
    Recorded(w) /\ w[OldestOf(Exceptions(w))] \in {"REFETCH_NEXT", "REFETCH_THIS"}
DetectedInRwStage(w) == ExceptionDetected(w) /\ ~UnableToStartRecovery

NextRecoveryReg(w) ==
    IF ~Recorded(w) THEN recoveryReg
    ELSE LET p == OldestOf(Exceptions(w))
         IN  [valid |-> TRUE, ptr |-> p,
              state |-> IF DetectedInRwStage(w) THEN "SUCCESS" ELSE w[p]]

-----------------------------------------------------------------------------
(* Retirement *)

HeadPtr(i) == AL!WrapAdd(al.head, i)
(* Fault for mutation: the recorded failure is not read back. *)
HeadExecState_BitOnly ==
    [i \in CommitLane |->
        IF HeadPtr(i) \in finished THEN "SUCCESS" ELSE "NOT_FINISHED"]

HeadExecState ==
    [i \in CommitLane |->
        LET p == HeadPtr(i)
        IN  IF recoveryReg.valid /\ p = recoveryReg.ptr THEN recoveryReg.state
            ELSE IF p \in finished THEN "SUCCESS" ELSE "NOT_FINISHED"]

(* Every op is a whole instruction: MICRO_OP_MAX_NUM is 1 (MicroOp.sv). *)
Decision ==
    DecideCommit(manager.phase = "COMMIT", al.count, HeadExecState,
                    [i \in CommitLane |-> TRUE], UnableToStartRecovery)

CommittedPtrs(n) == {HeadPtr(i) : i \in 0 .. n - 1}

(* Fault for mutation: the first writer of a register wins. *)
Retired_FirstWriter(n) ==
    [l \in LReg |->
        LET writers == {i \in 0 .. n - 1 :
                /\ activeList[HeadPtr(i)].writeReg
                /\ activeList[HeadPtr(i)].log = l}
        IN  IF writers = {} THEN rrmt[l]
            ELSE activeList[HeadPtr(MinOf(writers))].phyDst]

(* The retirement RMT after n ops: the last writer of a register wins. *)
Retired(n) ==
    [l \in LReg |->
        LET writers == {i \in 0 .. n - 1 :
                /\ activeList[HeadPtr(i)].writeReg
                /\ activeList[HeadPtr(i)].log = l}
        IN  IF writers = {} THEN rrmt[l]
            ELSE activeList[HeadPtr(MaxOf(writers))].phyDst]

RetiredFlags(n) ==
    LET writers == {i \in 0 .. n - 1 : activeList[HeadPtr(i)].writeFlags}
    IN  IF writers = {} THEN archFlags
        ELSE activeList[HeadPtr(MaxOf(writers))].phyDstFlags

(* The k-th of a set of lanes: the push ports of a free list compact them  *)
NthLane(lanes, k) == CHOOSE i \in lanes : Cardinality({j \in lanes : j < i}) = k - 1

(* What the lanes that read these entries release: on commit the previous  *)
(* registers, on recovery the allocated ones.                              *)
ReleasedBy(entries, isCommit) ==
    LET gpr  == {k \in DOMAIN entries : entries[k].writeReg}
        flag == {k \in DOMAIN entries : entries[k].writeFlags}
    IN  [gpr  |-> [k \in 1 .. Cardinality(gpr) |->
                     LET e == entries[NthLane(gpr, k)]
                     IN  IF isCommit THEN e.phyPrevDst ELSE e.phyDst],
         flag |-> [k \in 1 .. Cardinality(flag) |->
                     LET e == entries[NthLane(flag, k)]
                     IN  IF isCommit THEN e.phyPrevDstFlags ELSE e.phyDstFlags]]

-----------------------------------------------------------------------------
(* The next state of the pieces a cycle shares *)

(* Registers of the scheduler: a recovery leaves them set, time clears them. *)
Settle ==
    /\ iqReturning' \in {FALSE, iqReturning}
    /\ staleOps' \in {FALSE, staleOps}

(* The ops a failure makes wrong: the younger ones, the op itself if it is *)
(* to be refetched, and whatever is renamed while a recovery is owed.      *)
WrongPath(w) ==
    UNION {YoungerThan(p) \cup (IF FailsThis(w[p]) THEN {p} ELSE {}) :
              p \in Exceptions(w)}
Owed(w) == failed \cup Exceptions(w)

(* A misprediction of the youngest op of a full list: the flush range of   *)
(* no op has the pointers of the range of all.                             *)
FullListWrap(w, group, n) ==
    /\ DetectedInRwStage(w)
    /\ LET p == OldestOf(Exceptions(w))
       IN  /\ w[p] = "REFETCH_NEXT"
           /\ NextPtr(p) = AL!Advance(al.tail, Len(group))
    /\ al.count + Len(group) - n = ACTIVE_LIST_ENTRY_NUM

(* Fault for mutation: RECOVER_1 waits until a recovery could start, which *)
(* it cannot before RECOVER_1 is left.                                     *)
ManagerStep_WaitsForItself(w, group) ==
    LET refetchThis ==
            IF Decision.toRecovery THEN Decision.refetchThis
            ELSE w[OldestOf(Exceptions(w))] = "REFETCH_THIS"
        opPtr == NextRecoveryReg(w).ptr
    IN  IF manager.phase = "COMMIT" /\ (Decision.toRecovery \/ DetectedInRwStage(w))
        THEN [phase     |-> "RECOVER_0",
              flushHead |-> IF refetchThis THEN opPtr ELSE NextPtr(opPtr),
              flushTail |-> AL!Advance(al.tail, Len(group))]
        ELSE IF UnableToStartRecovery THEN manager ELSE InPhase("COMMIT")

(* RecoveryManager leaves COMMIT when a recovery is detected and RECOVER_1 *)
(* when neither the maps nor the issue queue are still being restored.     *)
ManagerStep(w, group) ==
    LET refetchThis ==
            IF Decision.toRecovery THEN Decision.refetchThis
            ELSE w[OldestOf(Exceptions(w))] = "REFETCH_THIS"
        opPtr == NextRecoveryReg(w).ptr
    IN  IF manager.phase = "COMMIT"
        THEN IF Decision.toRecovery \/ DetectedInRwStage(w)
             THEN [phase     |-> "RECOVER_0",
                   flushHead |-> IF refetchThis THEN opPtr ELSE NextPtr(opPtr),
                   flushTail |-> AL!Advance(al.tail, Len(group))]
             ELSE manager
        ELSE IF InRecoveryAL \/ iqReturning THEN manager ELSE InPhase("COMMIT")

(* The op whose recovery this cycle starts *)
RecoveryStarts(w) ==
    IF Decision.toRecovery THEN {HeadPtr(Decision.recoveryLane)}
    ELSE IF DetectedInRwStage(w) THEN {OldestOf(Exceptions(w))} ELSE {}

(* One cycle of the rename, write and commit stages outside a recovery of  *)
(* the active list: group is renamed, w written, the decided ops retired.  *)
Operate(group, w) ==
    LET n == Decision.commitNum
        pushed == PushedPtrs(group)
        retired == CommittedPtrs(n)
    IN  /\ Rename(group)
        /\ rrmt' = Retired(n)
        /\ archFlags' = RetiredFlags(n)
        /\ released' = ReleasedBy([k \in 1 .. n |-> activeList[HeadPtr(k - 1)]], TRUE)
        /\ activeList' = [p \in ALPtr |->
              IF p \in pushed
              THEN EntryOf(group, CHOOSE i \in DOMAIN group : PushedPtr(i) = p)
              ELSE IF p \in retired THEN NoEntry ELSE activeList[p]]
        /\ al' = [head  |-> AL!Advance(al.head, n),
                  tail  |-> AL!Advance(al.tail, Len(group)),
                  count |-> al.count + Len(group) - n]
        /\ finished' = (finished \cup DOMAIN w) \ (pushed \cup retired)
        /\ backEnd' = (backEnd \ DOMAIN w) \cup pushed
        /\ recoveryReg' = NextRecoveryReg(w)
        /\ manager' = ManagerStep(w, group)
        /\ failed' = Owed(w) \ RecoveryStarts(w)
        /\ condemned' = condemned \cup WrongPath(w)
                          \cup (IF Owed(w) = {} THEN {} ELSE pushed)
        /\ Settle
        /\ UNCHANGED <<committer, recoveryEntryNum>>

(* What the back end does in a cycle in which nothing is renamed or retired. *)
WriteOnly(w) ==
    /\ backEnd' = Writers \ DOMAIN w
    /\ failed' = Owed(w)
    /\ condemned' = condemned \cup WrongPath(w)

-----------------------------------------------------------------------------
(* The cycles, by the phases of RecoveryManager and RenameLogicCommitter *)

(* Both in COMMIT: the ordinary cycle. *)
Run ==
    /\ manager.phase = "COMMIT"
    /\ \E group \in Groups, w \in Writes :
          /\ MISPREDICT_AT_FULL \/ ~FullListWrap(w, group, Decision.commitNum)
          /\ Operate(group, w)

(* Manager in RECOVER_0 (toRecoveryPhase): the front end is cleared, the   *)
(* flushed ops die in the back end, the length of the range is latched and *)
(* the recovery register is reset unless an op writes an older exception.  *)
StartRecovery ==
    /\ manager.phase = "RECOVER_0"
    /\ \E w \in Writes :
          /\ Rename(<<>>)
          /\ WriteOnly(w)
          /\ finished' = finished \cup DOMAIN w
          /\ recoveryReg' = IF Recorded(w) THEN NextRecoveryReg(w)
                                            ELSE NoRecovery
    /\ released' = NothingReleased
    /\ recoveryEntryNum' =
          FlushEntryNum(manager.flushHead, manager.flushTail, al.count)
    /\ manager' = InPhase("RECOVER_1")
    /\ committer' = [phase |-> "RECOVER_0", recoveryCount |-> 0]
    /\ iqReturning' = TRUE
    /\ staleOps' \in {FALSE, FLUSHED_OPS_LINGER}
    /\ UNCHANGED <<rrmt, archFlags, activeList, al>>

(* Committer in RECOVER_0: it loads the number of entries to pop. *)
LoadRecoveryCount ==
    /\ committer.phase = "RECOVER_0"
    /\ \E w \in Writes :
          /\ Rename(<<>>)
          /\ WriteOnly(w)
          /\ finished' = finished \cup DOMAIN w
          /\ recoveryReg' = NextRecoveryReg(w)
    /\ released' = NothingReleased
    /\ committer' = [phase |-> "RECOVER_1", recoveryCount |-> recoveryEntryNum]
    /\ Settle
    /\ UNCHANGED <<rrmt, archFlags, activeList, al, manager, recoveryEntryNum>>

(* Committer in RECOVER_1: up to COMMIT_WIDTH entries are popped from the  *)
(* tail, youngest first; their registers are released and the maps undone, *)
(* the oldest popped writer of a register deciding.                        *)
TailPtr(i) == AL!WrapBack(al.tail, i)

(* Faults for mutation: always a full group; the youngest popped writer    *)
(* decides.                                                                *)
PopTailNum_FullGroup == COMMIT_WIDTH

PopTailNum ==
    IF committer.recoveryCount < COMMIT_WIDTH THEN committer.recoveryCount
                                              ELSE COMMIT_WIDTH
PoppedPtrs == {TailPtr(i) : i \in 0 .. PopTailNum - 1}

RestoredRmt_YoungestWins ==
    [l \in LReg |->
        LET popped == {i \in 0 .. PopTailNum - 1 :
                          activeList[TailPtr(i)].log = l}
        IN  IF popped = {} THEN rmt[l]
            ELSE activeList[TailPtr(MinOf(popped))].phyPrevDst]

RestoredRmt ==
    [l \in LReg |->
        LET popped == {i \in 0 .. PopTailNum - 1 :
                          activeList[TailPtr(i)].log = l}
        IN  IF popped = {} THEN rmt[l]
            ELSE activeList[TailPtr(MaxOf(popped))].phyPrevDst]

RestoredFlags_YoungestWins ==
    LET popped == {i \in 0 .. PopTailNum - 1 : activeList[TailPtr(i)].writeFlags}
    IN  IF popped = {} THEN flagsPhyReg
        ELSE activeList[TailPtr(MinOf(popped))].phyPrevDstFlags

RestoredFlags ==
    LET popped == {i \in 0 .. PopTailNum - 1 : activeList[TailPtr(i)].writeFlags}
    IN  IF popped = {} THEN flagsPhyReg
        ELSE activeList[TailPtr(MaxOf(popped))].phyPrevDstFlags

PopFlushed ==
    /\ committer.phase = "RECOVER_1"
    /\ \E w \in Writes :
          /\ backEnd' = backEnd \ DOMAIN w
          /\ finished' = (finished \cup DOMAIN w) \ PoppedPtrs
          /\ recoveryReg' = NextRecoveryReg(w)
          /\ failed' = Owed(w) \ PoppedPtrs
          /\ condemned' = (condemned \cup WrongPath(w)) \ PoppedPtrs
    /\ rmt' = RestoredRmt
    /\ flagsPhyReg' = RestoredFlags
    /\ gprFree' = GPR!Clock(gprFree, 0, released.gpr)
    /\ flagFree' = FLG!Clock(flagFree, 0, released.flag)
    /\ released' = ReleasedBy([k \in 1 .. PopTailNum |->
                                activeList[TailPtr(k - 1)]], FALSE)
    /\ activeList' = [p \in ALPtr |->
                         IF p \in PoppedPtrs THEN NoEntry ELSE activeList[p]]
    /\ al' = [head  |-> al.head,
              tail  |-> AL!Retreat(al.tail, PopTailNum),
              count |-> al.count - PopTailNum]
    /\ committer' =
          [phase |-> IF committer.recoveryCount = 0 THEN "COMMIT"
                                                    ELSE "RECOVER_1",
           recoveryCount |-> committer.recoveryCount - PopTailNum]
    /\ Settle
    /\ UNCHANGED <<rrmt, archFlags, manager, recoveryEntryNum>>

(* Manager in RECOVER_1, committer back in COMMIT: the front end renames   *)
(* again, nothing is retired until the issue queue has its entries back.   *)
AwaitIssueQueue ==
    /\ manager.phase = "RECOVER_1"
    /\ committer.phase = "COMMIT"
    /\ \E group \in Groups, w \in Writes : Operate(group, w)

Next == Run \/ StartRecovery \/ LoadRecoveryCount \/ PopFlushed \/ AwaitIssueQueue

Spec == Init /\ [][Next]_vars

-----------------------------------------------------------------------------
PhyReg == 0 .. SCALAR_FREE_LIST_ENTRY_NUM + Cardinality(LReg) - 1
PhyFlag == 0 .. FLAG_FREE_LIST_ENTRY_NUM

FreeListOK(list, size, mod, reg) ==
    /\ list.ring \in [0 .. size - 1 -> reg]
    /\ list.head \in 0 .. size - 1
    /\ list.tail \in 0 .. mod - 1
    /\ list.count \in 0 .. size

Entry == [log : LReg \cup {0}, writeReg : BOOLEAN, writeFlags : BOOLEAN,
          phyDst : PhyReg, phyPrevDst : PhyReg,
          phyDstFlags : PhyFlag, phyPrevDstFlags : PhyFlag]

(* Every register of the core stays in its range. *)
TypeOK ==
    /\ rmt \in [LReg -> PhyReg] /\ rrmt \in [LReg -> PhyReg]
    /\ flagsPhyReg \in PhyFlag /\ archFlags \in PhyFlag
    /\ FreeListOK(gprFree, SCALAR_FREE_LIST_ENTRY_NUM, SCALAR_INDEX_MOD, PhyReg)
    /\ FreeListOK(flagFree, FLAG_FREE_LIST_ENTRY_NUM, FLAG_INDEX_MOD, PhyFlag)
    /\ activeList \in [ALPtr -> Entry]
    /\ al \in [head : ALPtr, tail : ALPtr, count : 0 .. ACTIVE_LIST_ENTRY_NUM]
    /\ finished \subseteq ALPtr /\ backEnd \subseteq ALPtr
    /\ recoveryReg \in [valid : BOOLEAN, ptr : ALPtr, state : ExecState]
    /\ manager \in [phase : {"COMMIT", "RECOVER_0", "RECOVER_1"},
                    flushHead : ALPtr, flushTail : ALPtr]
    /\ committer \in [phase : {"COMMIT", "RECOVER_0", "RECOVER_1"},
                      recoveryCount : 0 .. ACTIVE_LIST_ENTRY_NUM]
    /\ recoveryEntryNum \in 0 .. ACTIVE_LIST_ENTRY_NUM
    /\ {iqReturning, staleOps} \subseteq BOOLEAN

(* Each physical register is in exactly one of: the free list, the         *)
(* released-register pipeline registers, the retirement RMT, the           *)
(* destination of an op of the active list (RenameLogicTypes.sv: assigned  *)
(* or linked in the free list).  Whatever commits, mispredicts and         *)
(* recovers, none is lost and none is allocated twice.                     *)
Places(reg, list, pipe, isDst(_), isMapped) ==
    Cardinality({k \in DOMAIN list : list[k] = reg})
    + Cardinality({k \in DOMAIN pipe : pipe[k] = reg})
    + Cardinality({p \in Window : isDst(activeList[p])})
    + isMapped

GprConserved ==
    \A reg \in PhyReg :
        Places(reg, GPR!Contents(gprFree), released.gpr,
               LAMBDA e : e.writeReg /\ e.phyDst = reg,
               Cardinality({l \in LReg : rrmt[l] = reg})) = 1

FlagsConserved ==
    \A reg \in PhyFlag :
        Places(reg, FLG!Contents(flagFree), released.flag,
               LAMBDA e : e.writeFlags /\ e.phyDstFlags = reg,
               IF archFlags = reg THEN 1 ELSE 0) = 1

(* What program order says register l maps to after the n oldest ops       *)
MapAfter(n, l) ==
    LET writers == {i \in 0 .. n - 1 :
            activeList[HeadPtr(i)].writeReg /\ activeList[HeadPtr(i)].log = l}
    IN  IF writers = {} THEN rrmt[l] ELSE activeList[HeadPtr(MaxOf(writers))].phyDst
FlagsAfter(n) ==
    LET writers == {i \in 0 .. n - 1 : activeList[HeadPtr(i)].writeFlags}
    IN  IF writers = {} THEN archFlags
        ELSE activeList[HeadPtr(MaxOf(writers))].phyDstFlags

(* In every cycle, also between two pops of a recovery, the RMT is the     *)
(* retirement RMT overridden by the ops of the active list in order, and   *)
(* each entry holds the mapping its op replaced: releasing it at commit    *)
(* and restoring it in a recovery are both right.                          *)
RmtFollowsProgramOrder ==
    /\ \A l \in LReg : rmt[l] = MapAfter(al.count, l)
    /\ \A i \in 0 .. al.count - 1 :
          LET e == activeList[HeadPtr(i)] IN e.phyPrevDst = MapAfter(i, e.log)

(* The same of the single-entry flags map, which has no retirement copy in *)
(* the code: archFlags is what the retired ops wrote.                      *)
FlagsMapFollowsProgramOrder ==
    /\ flagsPhyReg = FlagsAfter(al.count)
    /\ \A i \in 0 .. al.count - 1 :
          LET e == activeList[HeadPtr(i)]
          IN  e.writeFlags => e.phyPrevDstFlags = FlagsAfter(i)

(* No op on a wrong path, and none that still owes a recovery, ever        *)
(* retires: they are in the window until they are flushed.                 *)
WrongPathNeverRetires == condemned \subseteq Window /\ failed \subseteq Window

(* An op that no failure condemned and that has not finished is still in   *)
(* the back end: the selective flush kills nothing that must survive.      *)
NoOpLost == Window \ (finished \cup backEnd) \subseteq condemned

(* The recovery register keeps the oldest failure still owed, however many *)
(* ops fail while another recovery is under way.                           *)
OldestFailureKept ==
    manager.phase = "COMMIT" /\ failed # {} =>
        /\ recoveryReg.valid
        /\ recoveryReg.ptr = OldestOf(failed)
        /\ Recovers(recoveryReg.state)

(* When the manager is back in COMMIT, whatever is left of a wrong path is *)
(* younger than a failure that is still owed: no recovery stops short.     *)
RecoveryComplete ==
    manager.phase = "COMMIT" =>
        \A q \in condemned : \E p \in failed : Age(p) <= Age(q)

(* The committer never pops past the head of the active list, and a        *)
(* recovery only starts with the committer in COMMIT (the assertion of     *)
(* RenameLogicCommitter).                                                  *)
RecoveryWithinList ==
    /\ committer.recoveryCount <= al.count
    /\ manager.phase = "RECOVER_0" => committer.phase = "COMMIT"

(* A recovery pops only ops of the wrong path (ActiveList.sv: the entries  *)
(* from the tail to the op that caused it, or to the one after it): older  *)
(* ones stay.                                                              *)
FlushesOnlyWrongPath ==
    [][committer.phase = "RECOVER_1" => Window \ Window' \subseteq condemned]_vars

(* The core implements the in-order machine of InOrderCore. *)
InOrder == INSTANCE InOrderCore WITH
    rob <- [k \in 1 .. al.count |->
              LET e == activeList[HeadPtr(k - 1)]
              IN  [log |-> e.log, writeReg |-> e.writeReg, phyDst |-> e.phyDst]],
    arch <- rrmt,
    front <- rmt,
    InitMap <- [l \in LReg |-> SCALAR_FREE_LIST_ENTRY_NUM + l]
InOrderSpec == InOrder!Spec

=============================================================================
