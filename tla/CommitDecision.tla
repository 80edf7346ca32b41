--------------------------- MODULE CommitDecision ---------------------------
(***************************************************************************)
(* DecideCommit of Pipeline/CommitStage.sv: which of the COMMIT_WIDTH ops   *)
(* at the head of the active list retire in this cycle, and whether one of *)
(* them starts a recovery.  Lanes are numbered from 0.  The fifteen        *)
(* ExecutionStates are the classes the function tells apart:               *)
(*   REFETCH_NEXT                       done, refetch after it             *)
(*   REFETCH_THIS                       failed, refetch it                 *)
(*   TRAP                               ECALL, EBREAK, MRET, misaligned    *)
(*                                      branch target: done, go to the CSR *)
(*   FAULT                              the other faults, and a store-load *)
(*                                      forwarding miss: failed, recovered *)
(*                                      when it reaches the head           *)
(***************************************************************************)
EXTENDS Naturals, FiniteSets

CONSTANT COMMIT_WIDTH

ASSUME CommitWidthAssumption == COMMIT_WIDTH \in Nat \ {0}

CommitLane == 0 .. COMMIT_WIDTH - 1

ExecState == {"NOT_FINISHED", "SUCCESS", "REFETCH_NEXT", "REFETCH_THIS",
              "TRAP", "FAULT"}

(* The op fails and is refetched; otherwise it is done and its successor is *)
FailsThis(state) == state \in {"REFETCH_THIS", "FAULT"}
Recovers(state) == state \notin {"NOT_FINISHED", "SUCCESS"}

(* GetFinishedOpNum *)
FinishedOpNum(count, state) ==
    CHOOSE n \in 0 .. COMMIT_WIDTH :
        /\ \A i \in 0 .. n - 1 : i < count /\ state[i] # "NOT_FINISHED"
        /\ n = COMMIT_WIDTH \/ ~(n < count /\ state[n] # "NOT_FINISHED")

(* GetFinishedInsnRange: the finished ops that end a whole instruction *)
FinishedInsnRange(finished, last) ==
    LET ends == {i \in CommitLane : i < finished /\ last[i]}
    IN  IF ends = {} THEN 0
        ELSE 1 + CHOOSE i \in ends : \A j \in ends : j <= i

(* GetInsnPtr: the first and the last lane of the instruction of lane i *)
HeadOfInsn(i, last) ==
    LET prior == {j \in CommitLane : j < i /\ last[j]}
    IN  IF prior = {} THEN 0
        ELSE 1 + CHOOSE j \in prior : \A k \in prior : k <= j

TailOfInsn(i, last) ==
    LET ends == {j \in CommitLane : i <= j /\ last[j]}
    IN  IF ends = {} THEN COMMIT_WIDTH - 1
        ELSE CHOOSE j \in ends : \A k \in ends : j <= k

RecoveryPoint(i, state, last) ==
    IF FailsThis(state[i]) THEN HeadOfInsn(i, last) ELSE TailOfInsn(i, last)

(* The lanes that raise a recovery, and the one whose point comes first *)
Triggers(range, state) == {i \in CommitLane : i < range /\ Recovers(state[i])}

(* Fault for mutation: the last trigger wins. *)
RecoveredIndex_Last(range, state, last) ==
    CHOOSE i \in Triggers(range, state) :
        \A j \in Triggers(range, state) : j <= i

RecoveredIndex(range, state, last) ==
    CHOOSE i \in Triggers(range, state) :
        \A j \in Triggers(range, state) :
            LET pi == RecoveryPoint(i, state, last)
                pj == RecoveryPoint(j, state, last)
            IN  pi < pj \/ (pi = pj /\ i <= j)

DecideCommit(startCommit, count, state, last, unableToStartRecovery) ==
    LET range   == FinishedInsnRange(FinishedOpNum(count, state), last)
        trigger == Triggers(range, state) # {}
        index   == RecoveredIndex(range, state, last)
        start   == RecoveryPoint(index, state, last)
        commit  == IF ~startCommit THEN {}
                   ELSE IF ~trigger THEN {i \in CommitLane : i < range}
                   ELSE {i \in CommitLane :
                            \/ i < start
                            \/ /\ i = start
                               /\ ~FailsThis(state[i])
                               /\ ~unableToStartRecovery}
    IN  [commit        |-> commit,
         commitNum     |-> Cardinality(commit),
         toRecovery    |-> startCommit /\ trigger /\ ~unableToStartRecovery,
         recoveryLane  |-> IF trigger THEN index ELSE 0,
         refetchThis   |-> trigger /\ FailsThis(state[index])]
=============================================================================
