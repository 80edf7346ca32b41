----------------------------- MODULE CommitWalk -----------------------------
(***************************************************************************)
(* DecideCommit against the walk it stands for.  The inputs of the         *)
(* function change one at a time: a lane is written, the head moves, the   *)
(* manager leaves or enters COMMIT, the scheduler drains.  Every op ends   *)
(* its instruction (MICRO_OP_MAX_NUM is 1), so `last' is TRUE in all lanes.*)
(***************************************************************************)
EXTENDS CommitDecision

CONSTANT MAX_COUNT    \* bound on activeListCount; above COMMIT_WIDTH

VARIABLES
    startCommit,              \* the manager is in COMMIT
    activeListCount,
    execState,                \* of the ops at the head
    unableToStartRecovery

inputs == <<startCommit, activeListCount, execState, unableToStartRecovery>>

Init ==
    /\ startCommit = TRUE
    /\ activeListCount = 0
    /\ execState = [i \in CommitLane |-> "NOT_FINISHED"]
    /\ unableToStartRecovery = FALSE

WriteLane(i, s) ==
    /\ execState' = [execState EXCEPT ![i] = s]
    /\ UNCHANGED <<startCommit, activeListCount, unableToStartRecovery>>

ChangeCount(n) ==
    /\ activeListCount' = n
    /\ UNCHANGED <<startCommit, execState, unableToStartRecovery>>

ChangePhase ==
    /\ startCommit' = ~startCommit
    /\ UNCHANGED <<activeListCount, execState, unableToStartRecovery>>

ChangeReadiness ==
    /\ unableToStartRecovery' = ~unableToStartRecovery
    /\ UNCHANGED <<startCommit, activeListCount, execState>>

Next ==
    \/ \E i \in CommitLane, s \in ExecState : WriteLane(i, s)
    \/ \E n \in 0 .. MAX_COUNT : ChangeCount(n)
    \/ ChangePhase
    \/ ChangeReadiness

Spec == Init /\ [][Next]_inputs

-----------------------------------------------------------------------------
Nothing == [commit |-> {}, recovers |-> {}]

(* In-order retirement, one op after the other from lane i on: stop at an  *)
(* op that has not finished; retire one that succeeded and go on; one that *)
(* failed stops the walk, and starts its recovery if one may start now.    *)
Walk ==
    LET from[i \in 0 .. COMMIT_WIDTH] ==
            IF i = COMMIT_WIDTH \/ i >= activeListCount
                 \/ execState[i] = "NOT_FINISHED"
            THEN Nothing
            ELSE IF execState[i] = "SUCCESS"
            THEN [from[i + 1] EXCEPT !.commit = @ \cup {i}]
            ELSE IF unableToStartRecovery THEN Nothing
            ELSE [commit   |-> IF FailsThis(execState[i]) THEN {} ELSE {i},
                  recovers |-> {i}]
    IN  IF startCommit THEN from[0] ELSE Nothing

Decided == DecideCommit(startCommit, activeListCount, execState,
                        [i \in CommitLane |-> TRUE], unableToStartRecovery)

(* DecideCommit, which decides all lanes at once from the finished range,  *)
(* the recovery points and the earliest trigger, retires exactly the ops   *)
(* the walk retires and starts the recovery of exactly the op at which the *)
(* walk stopped: no op behind a failed or unfinished one retires, a failed *)
(* op that cannot recover yet stays, one that is not to be refetched       *)
(* retires in the cycle of its recovery.                                   *)
DecidesLikeTheWalk ==
    /\ Decided.commit = Walk.commit
    /\ Decided.commitNum = Cardinality(Walk.commit)
    /\ Decided.toRecovery <=> Walk.recovers # {}
    /\ Decided.toRecovery =>
          /\ Walk.recovers = {Decided.recoveryLane}
          /\ Decided.refetchThis <=> FailsThis(execState[Decided.recoveryLane])
=============================================================================
