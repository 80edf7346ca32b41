----------------------- MODULE CommitDecision_proofs -----------------------
(***************************************************************************)
(* What DecideCommit promises its callers, for every commit width, every   *)
(* count and every combination of execution states, when every op is a     *)
(* whole instruction (MICRO_OP_MAX_NUM is 1 in MicroOp.sv).                *)
(***************************************************************************)
EXTENDS CommitDecision, FiniteSetTheorems, TLAPS

WholeInsns == [i \in CommitLane |-> TRUE]

(* The natural order as a relation, as module WellFoundedInduction has it *)
Less == {pair \in Nat \X Nat : pair[1] < pair[2]}

LEMMA LessWellFounded == IsWellFoundedOn(Less, Nat)
BY NatLessThanWellFounded DEF OpToRel, Less

(* Every set of naturals that is not empty has a least element: the choice *)
(* of a first lane or of an oldest op always finds one.                    *)
LEMMA LeastElement ==
    ASSUME NEW T \in SUBSET Nat, T # {}
    PROVE  \E m \in T : \A t \in T : m <= t
<1>1. PICK m \in T : \A t \in T : <<t, m>> \notin Less
    BY LessWellFounded, WFMin
<1>2. ASSUME NEW t \in T
      PROVE  m <= t
    <2>1. t \in Nat /\ m \in Nat /\ <<t, m>> \notin Less
        BY <1>1
    <2>2. ~(t < m)
        BY <2>1 DEF Less
    <2>3. QED
        BY <2>1, <2>2
<1>3. QED
    BY <1>2

(* The finished ops are a prefix of the lanes, the longest one. *)
LEMMA FinishedPrefix ==
    ASSUME NEW count \in Nat, NEW state
    PROVE  /\ FinishedOpNum(count, state) \in 0 .. COMMIT_WIDTH
           /\ \A i \in 0 .. FinishedOpNum(count, state) - 1 :
                 i < count /\ state[i] # "NOT_FINISHED"
           /\ LET n == FinishedOpNum(count, state)
              IN  n = COMMIT_WIDTH \/ ~(n < count /\ state[n] # "NOT_FINISHED")
<1> DEFINE Done(i) == i < count /\ state[i] # "NOT_FINISHED"
           Stops == {n \in 0 .. COMMIT_WIDTH : n = COMMIT_WIDTH \/ ~Done(n)}
<1>1. Stops \in SUBSET Nat /\ COMMIT_WIDTH \in Stops
    BY CommitWidthAssumption DEF CommitWidthAssumption
<1>2. PICK m \in Stops : \A n \in Stops : m <= n
    <2> HIDE DEF Stops
    <2> QED BY <1>1, LeastElement
<1>3. \A i \in 0 .. m - 1 : Done(i)
    BY <1>1, <1>2, CommitWidthAssumption DEF CommitWidthAssumption
<1>4. \E n \in 0 .. COMMIT_WIDTH :
         /\ \A i \in 0 .. n - 1 : Done(i)
         /\ n = COMMIT_WIDTH \/ ~Done(n)
    BY <1>2, <1>3
<1>5. QED
    BY <1>4 DEF FinishedOpNum

(* Every lane ends an instruction, so the finished range is all of them. *)
LEMMA FinishedRange ==
    ASSUME NEW n \in 0 .. COMMIT_WIDTH
    PROVE  FinishedInsnRange(n, WholeInsns) = n
<1> DEFINE ends == {i \in CommitLane : i < n /\ WholeInsns[i]}
<1>1. ends = 0 .. n - 1
    BY CommitWidthAssumption
    DEF CommitWidthAssumption, CommitLane, WholeInsns
<1>2. CASE n = 0
    BY <1>1, <1>2 DEF FinishedInsnRange
<1>3. CASE n # 0
    <2>1. n - 1 \in ends /\ \A j \in ends : j <= n - 1
        BY <1>1, <1>3
    <2>2. \A i \in ends : (\A j \in ends : j <= i) => i = n - 1
        BY <1>1, <2>1
    <2> DEFINE youngest == CHOOSE i \in ends : \A j \in ends : j <= i
    <2>3. youngest = n - 1 /\ ends # {} /\ n \in Nat
        BY <2>1, <2>2
    <2>4. FinishedInsnRange(n, WholeInsns) =
             IF ends = {} THEN 0 ELSE 1 + youngest
        BY DEF FinishedInsnRange
    <2> HIDE DEF ends, youngest
    <2>5. QED
        BY <2>3, <2>4
<1>4. QED
    BY <1>2, <1>3

(* A recovery restarts at the lane that raised it. *)
LEMMA RecoveryPointIsLane ==
    ASSUME NEW i \in CommitLane, NEW state
    PROVE  RecoveryPoint(i, state, WholeInsns) = i
<1>1. i \in Nat /\ i < COMMIT_WIDTH
    BY CommitWidthAssumption DEF CommitWidthAssumption, CommitLane
<1>2. HeadOfInsn(i, WholeInsns) = i
    <2> DEFINE prior == {j \in CommitLane : j < i /\ WholeInsns[j]}
    <2>1. prior = 0 .. i - 1
        BY <1>1, CommitWidthAssumption
        DEF CommitWidthAssumption, CommitLane, WholeInsns
    <2>2. CASE i = 0
        BY <2>1, <2>2 DEF HeadOfInsn
    <2>3. CASE i # 0
        <3>1. i - 1 \in prior /\ \A k \in prior : k <= i - 1
            BY <1>1, <2>1, <2>3
        <3>2. \A j \in prior : (\A k \in prior : k <= j) => j = i - 1
            BY <1>1, <2>1, <3>1
        <3> DEFINE youngest == CHOOSE j \in prior : \A k \in prior : k <= j
        <3>3. youngest = i - 1 /\ prior # {}
            BY <3>1, <3>2
        <3>4. HeadOfInsn(i, WholeInsns) =
                 IF prior = {} THEN 0 ELSE 1 + youngest
            BY DEF HeadOfInsn
        <3> HIDE DEF prior, youngest
        <3>5. QED
            BY <1>1, <3>3, <3>4
    <2>4. QED
        BY <2>2, <2>3
<1>3. TailOfInsn(i, WholeInsns) = i
    <2> DEFINE ends == {j \in CommitLane : i <= j /\ WholeInsns[j]}
    <2>1. ends = i .. COMMIT_WIDTH - 1
        BY <1>1, CommitWidthAssumption
        DEF CommitWidthAssumption, CommitLane, WholeInsns
    <2>2. i \in ends /\ \A k \in ends : i <= k
        BY <1>1, <2>1, CommitWidthAssumption DEF CommitWidthAssumption
    <2>3. \A j \in ends : (\A k \in ends : j <= k) => j = i
        BY <1>1, <2>1, <2>2
    <2>4. (CHOOSE j \in ends : \A k \in ends : j <= k) = i
        BY <2>2, <2>3
    <2>5. QED
        BY <2>2, <2>4 DEF TailOfInsn
<1>4. QED
    BY <1>2, <1>3 DEF RecoveryPoint

(* The recovering lane is the first one that raised a recovery. *)
LEMMA FirstTriggerWins ==
    ASSUME NEW n \in 0 .. COMMIT_WIDTH, NEW state, Triggers(n, state) # {}
    PROVE  /\ RecoveredIndex(n, state, WholeInsns) \in Triggers(n, state)
           /\ \A j \in Triggers(n, state) :
                 RecoveredIndex(n, state, WholeInsns) <= j
<1> DEFINE T == Triggers(n, state)
           point(i) == RecoveryPoint(i, state, WholeInsns)
           First(i) == \A j \in T : \/ point(i) < point(j)
                                    \/ point(i) = point(j) /\ i <= j
<1>1. T \in SUBSET Nat /\ T \subseteq CommitLane
    BY CommitWidthAssumption DEF CommitWidthAssumption, CommitLane, Triggers
<1>2. \A i \in T : point(i) = i
    BY <1>1, RecoveryPointIsLane
<1>3. PICK m \in T : \A t \in T : m <= t
    <2>1. T # {}
        OBVIOUS
    <2>2. QED
        <3> HIDE DEF T
        <3> QED BY <1>1, <2>1, LeastElement
<1>4. \A i \in T : First(i) <=> \A j \in T : i <= j
    <2> HIDE DEF T, point
    <2> QED BY <1>1, <1>2
<1>5. RecoveredIndex(n, state, WholeInsns) = CHOOSE i \in T : First(i)
    BY DEF RecoveredIndex
<1>6. QED
    <2> HIDE DEF T, First
    <2>1. \E i \in T : First(i)
        BY <1>3, <1>4
    <2>2. /\ (CHOOSE i \in T : First(i)) \in T
          /\ First(CHOOSE i \in T : First(i))
        BY <2>1
    <2>3. QED
        BY <1>4, <1>5, <2>2 DEF T

(* The number of the lanes before k is k. *)
LEMMA LanesBefore ==
    ASSUME NEW k \in 0 .. COMMIT_WIDTH
    PROVE  Cardinality(0 .. k - 1) = k
<1>1. k \in Nat /\ 0 \in Int /\ k - 1 \in Int
    BY CommitWidthAssumption DEF CommitWidthAssumption
<1>2. Cardinality(0 .. k - 1) = IF 0 > k - 1 THEN 0 ELSE k - 1 - 0 + 1
    BY <1>1, FS_Interval
<1>3. QED
    BY <1>1, <1>2

-----------------------------------------------------------------------------
(* The ops that retire are the oldest ones, all finished; one that raised  *)
(* a recovery retires only in the cycle that starts it, as the last one.   *)
(* The op that recovers has only finished ops before it, and is left at    *)
(* the head if it is to be refetched.  Nothing retires and no recovery     *)
(* starts outside the COMMIT phase.                                        *)
THEOREM OnlyFinishedOpsRetire ==
    ASSUME NEW startCommit \in BOOLEAN, NEW unable \in BOOLEAN,
           NEW count \in Nat, NEW state
    PROVE  LET d == DecideCommit(startCommit, count, state, WholeInsns, unable)
           IN  /\ d.commitNum \in 0 .. COMMIT_WIDTH
               /\ d.commit = 0 .. d.commitNum - 1
               /\ \A i \in 0 .. d.commitNum - 1 :
                     /\ i < count /\ state[i] # "NOT_FINISHED"
                     /\ Recovers(state[i]) => d.toRecovery
               /\ d.toRecovery =>
                     /\ startCommit /\ ~unable
                     /\ d.recoveryLane \in CommitLane
                     /\ d.recoveryLane < count
                     /\ Recovers(state[d.recoveryLane])
                     /\ \A i \in 0 .. d.recoveryLane :
                           state[i] # "NOT_FINISHED"
                     /\ d.commitNum = IF d.refetchThis THEN d.recoveryLane
                                      ELSE d.recoveryLane + 1
                     /\ d.refetchThis <=> FailsThis(state[d.recoveryLane])
               /\ d.refetchThis \in BOOLEAN
               /\ ~startCommit => d.commitNum = 0 /\ ~d.toRecovery
<1> DEFINE d == DecideCommit(startCommit, count, state, WholeInsns, unable)
           n == FinishedInsnRange(FinishedOpNum(count, state), WholeInsns)
           T == Triggers(n, state)
           trigger == T # {}
           index == RecoveredIndex(n, state, WholeInsns)
           point == RecoveryPoint(index, state, WholeInsns)
           this == FailsThis(state[index])
           commit == IF ~startCommit THEN {}
                     ELSE IF ~trigger THEN {i \in CommitLane : i < n}
                     ELSE {i \in CommitLane :
                              \/ i < point
                              \/ i = point /\ ~FailsThis(state[i]) /\ ~unable}
           num == IF ~startCommit THEN 0
                  ELSE IF ~trigger THEN n
                  ELSE IF ~this /\ ~unable THEN index + 1 ELSE index
<1>0. d = [commit       |-> commit,
           commitNum    |-> Cardinality(commit),
           toRecovery   |-> startCommit /\ trigger /\ ~unable,
           recoveryLane |-> IF trigger THEN index ELSE 0,
           refetchThis  |-> trigger /\ this]
    BY DEF DecideCommit
<1>1. /\ n \in 0 .. COMMIT_WIDTH
      /\ \A i \in 0 .. n - 1 : i < count /\ state[i] # "NOT_FINISHED"
    BY FinishedPrefix, FinishedRange
<1> HIDE DEF n
<1>2. T = {i \in CommitLane : i < n /\ Recovers(state[i])}
    BY DEF Triggers
<1>3. ASSUME trigger
      PROVE  /\ index \in T /\ index \in 0 .. n - 1
             /\ point = index
             /\ \A i \in 0 .. n - 1 : Recovers(state[i]) => index <= i
    <2>1. index \in T /\ \A j \in T : index <= j
        BY <1>1, <1>3, FirstTriggerWins
    <2>2. point = index
        BY <1>2, <2>1, RecoveryPointIsLane
    <2>3. \A i \in 0 .. n - 1 : i \in CommitLane
        BY <1>1, CommitWidthAssumption DEF CommitWidthAssumption, CommitLane
    <2>4. index \in 0 .. n - 1
        BY <1>1, <1>2, <2>1, CommitWidthAssumption
        DEF CommitWidthAssumption, CommitLane
    <2>5. \A i \in 0 .. n - 1 : Recovers(state[i]) => i \in T
        BY <1>1, <1>2, <2>3
    <2>6. QED
        <3> HIDE DEF index, point, T
        <3> QED BY <2>1, <2>2, <2>4, <2>5
<1>4. commit = 0 .. num - 1 /\ num \in 0 .. COMMIT_WIDTH
    <2>1. CASE ~startCommit
        <3>1. commit = {} /\ num = 0
            BY <2>1
        <3> HIDE DEF commit, num
        <3>2. QED
            BY <3>1, CommitWidthAssumption DEF CommitWidthAssumption
    <2>2. CASE startCommit /\ ~trigger
        <3>1. commit = {i \in CommitLane : i < n} /\ num = n
            BY <2>2
        <3> HIDE DEF commit, num
        <3>2. QED
            BY <1>1, <3>1, CommitWidthAssumption
            DEF CommitWidthAssumption, CommitLane
    <2>3. CASE startCommit /\ trigger
        <3>1. /\ commit = {i \in CommitLane :
                             \/ i < point
                             \/ i = point /\ ~FailsThis(state[i]) /\ ~unable}
              /\ num = IF ~this /\ ~unable THEN index + 1 ELSE index
              /\ index \in 0 .. n - 1 /\ point = index
            BY <1>3, <2>3
        <3> HIDE DEF index, point, commit, num
        <3>2. CASE ~this /\ ~unable
            BY <1>1, <3>1, <3>2, CommitWidthAssumption
            DEF CommitWidthAssumption, CommitLane
        <3>3. CASE ~(~this /\ ~unable)
            BY <1>1, <3>1, <3>3, CommitWidthAssumption
            DEF CommitWidthAssumption, CommitLane
        <3>4. QED
            BY <3>2, <3>3
    <2>4. QED
        BY <2>1, <2>2, <2>3
<1>5. /\ d.commit = commit /\ d.commitNum = Cardinality(commit)
      /\ d.toRecovery = (startCommit /\ trigger /\ ~unable)
      /\ d.recoveryLane = IF trigger THEN index ELSE 0
      /\ d.refetchThis = (trigger /\ this)
    <2> HIDE DEF d, commit, trigger, index, this
    <2> QED BY <1>0
<1>6. d.commit = 0 .. num - 1 /\ d.commitNum = num
    <2> HIDE DEF d, commit, num
    <2> QED BY <1>4, <1>5, LanesBefore
<1>7. ASSUME NEW i \in 0 .. num - 1
      PROVE  /\ i < count /\ state[i] # "NOT_FINISHED"
             /\ Recovers(state[i]) => d.toRecovery
    <2>1. i \in 0 .. n - 1 /\ startCommit
        <3>1. CASE ~trigger
            <4> HIDE DEF trigger
            <4> QED BY <1>1, <3>1
        <3>2. CASE trigger
            <4>1. index \in 0 .. n - 1
                BY <1>3, <3>2
            <4> HIDE DEF index, trigger
            <4>2. QED
                BY <1>1, <3>2, <4>1
        <3>3. QED
            BY <3>1, <3>2
    <2>2. ASSUME Recovers(state[i])
          PROVE  d.toRecovery
        <3>1. i \in T
            BY <1>1, <1>2, <2>1, <2>2, CommitWidthAssumption
            DEF CommitWidthAssumption, CommitLane
        <3>2. trigger
            BY <3>1
        <3>3. index <= i /\ index \in 0 .. n - 1
            BY <1>3, <2>1, <2>2, <3>2
        <3> HIDE DEF index, trigger, d
        <3>4. ~unable
            BY <2>1, <3>2, <3>3
        <3>5. QED
            BY <1>5, <2>1, <3>2, <3>4
    <2>3. QED
        BY <1>1, <2>1, <2>2
<1>8. ASSUME d.toRecovery
      PROVE  /\ startCommit /\ ~unable /\ d.recoveryLane = index
             /\ index \in CommitLane /\ index < count /\ Recovers(state[index])
             /\ \A i \in 0 .. index : state[i] # "NOT_FINISHED"
             /\ num = IF d.refetchThis THEN index ELSE index + 1
    <2>1. this \in BOOLEAN /\ trigger \in BOOLEAN
        BY DEF FailsThis
    <2>2. /\ startCommit /\ trigger /\ ~unable
          /\ d.recoveryLane = index /\ d.refetchThis = this
        <3> HIDE DEF d, trigger, index, this
        <3> QED BY <1>5, <1>8, <2>1
    <2>3. index \in T /\ index \in 0 .. n - 1
        BY <1>3, <2>2
    <2>4. num = IF ~this THEN index + 1 ELSE index
        BY <2>2
    <2> HIDE DEF index, d, num, this
    <2>5. QED
        BY <1>1, <1>2, <2>1, <2>2, <2>3, <2>4
<1>9. d.refetchThis \in BOOLEAN
    <2> HIDE DEF d, trigger, this
    <2> QED BY <1>5
<1>10. ~startCommit => num = 0 /\ ~d.toRecovery
    <2>1. ~startCommit => num = 0
        OBVIOUS
    <2> HIDE DEF d, num
    <2>2. QED
        BY <1>5, <2>1
<1> HIDE DEF d, num, index
<1>11. d.toRecovery =>
          /\ startCommit /\ ~unable
          /\ d.recoveryLane \in CommitLane /\ d.recoveryLane < count
          /\ Recovers(state[d.recoveryLane])
          /\ \A i \in 0 .. d.recoveryLane : state[i] # "NOT_FINISHED"
          /\ d.commitNum = IF d.refetchThis THEN d.recoveryLane
                           ELSE d.recoveryLane + 1
    BY <1>6, <1>8
<1>12. d.toRecovery => (d.refetchThis <=> FailsThis(state[d.recoveryLane]))
    <2>1. ASSUME d.toRecovery
          PROVE  d.refetchThis <=> FailsThis(state[d.recoveryLane])
        <3>1. trigger \in BOOLEAN /\ this \in BOOLEAN
            BY DEF FailsThis
        <3> HIDE DEF trigger, this
        <3>2. trigger /\ d.recoveryLane = index
            BY <1>5, <1>8, <2>1, <3>1
        <3>3. d.refetchThis <=> this
            BY <1>5, <3>1, <3>2
        <3>4. QED
            BY <3>2, <3>3 DEF this
    <2>2. QED
        BY <2>1
<1>13. /\ d.commitNum \in 0 .. COMMIT_WIDTH /\ d.commit = 0 .. d.commitNum - 1
       /\ \A i \in 0 .. d.commitNum - 1 :
             /\ i < count /\ state[i] # "NOT_FINISHED"
             /\ Recovers(state[i]) => d.toRecovery
       /\ ~startCommit => d.commitNum = 0 /\ ~d.toRecovery
    BY <1>4, <1>6, <1>7, <1>10
<1>14. QED
    BY <1>9, <1>11, <1>12, <1>13 DEF d
=============================================================================
