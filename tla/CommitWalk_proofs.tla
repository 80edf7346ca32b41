-------------------------- MODULE CommitWalk_proofs --------------------------
(***************************************************************************)
(* DecideCommit is the walk, for every commit width, every count and every *)
(* combination of execution states.                                        *)
(*                                                                         *)
(* Both are told by one number: the lane at which the walk stops, the      *)
(* first that is beyond the window or holds an op that has not succeeded.  *)
(* The walk is a recursive function, which a CHOOSE defines: it is shown   *)
(* to be the function Answer by giving Answer for the existence and going  *)
(* down from the last lane for the uniqueness.                             *)
(***************************************************************************)
EXTENDS CommitWalk, CommitDecision_proofs

TypeInv ==
    /\ startCommit \in BOOLEAN /\ unableToStartRecovery \in BOOLEAN
    /\ activeListCount \in Nat
    /\ execState \in [CommitLane -> ExecState]

(* The walk cannot go past lane i. *)
Stops(i) ==
    i = COMMIT_WIDTH \/ i >= activeListCount \/ execState[i] # "SUCCESS"

(* What the walk does at a lane at which it stops *)
Failed(i) == i < COMMIT_WIDTH /\ i < activeListCount /\ Recovers(execState[i])
At(i) ==
    IF Failed(i) /\ ~unableToStartRecovery
    THEN [commit |-> IF FailsThis(execState[i]) THEN {} ELSE {i}, recovers |-> {i}]
    ELSE Nothing

(* One step of the walk, which goes on as f does *)
Step(f, i) ==
    IF i = COMMIT_WIDTH \/ i >= activeListCount \/ execState[i] = "NOT_FINISHED"
    THEN Nothing
    ELSE IF execState[i] = "SUCCESS" THEN [f[i + 1] EXCEPT !.commit = @ \cup {i}]
    ELSE IF unableToStartRecovery THEN Nothing
    ELSE [commit   |-> IF FailsThis(execState[i]) THEN {} ELSE {i}, recovers |-> {i}]
IsWalk(f) == f = [i \in 0 .. COMMIT_WIDTH |-> Step(f, i)]

(* The lane at which a walk from lane i stops, and what it has done then *)
IsStop(i, s) ==
    /\ s \in 0 .. COMMIT_WIDTH /\ i <= s /\ Stops(s)
    /\ \A j \in i .. s - 1 : ~Stops(j)
StopOf(i) == CHOOSE s : IsStop(i, s)
Answer == [i \in 0 .. COMMIT_WIDTH |->
              [commit   |-> At(StopOf(i)).commit \cup (i .. StopOf(i) - 1),
               recovers |-> At(StopOf(i)).recovers]]

-----------------------------------------------------------------------------
LEMMA StopExists ==
    ASSUME NEW i \in 0 .. COMMIT_WIDTH
    PROVE  IsStop(i, StopOf(i))
<1> DEFINE T == {s \in 0 .. COMMIT_WIDTH : i <= s /\ Stops(s)}
<1>1. T \in SUBSET Nat /\ COMMIT_WIDTH \in T
    BY CommitWidthAssumption DEF CommitWidthAssumption, Stops
<1>2. PICK s \in T : \A t \in T : s <= t
    <2> HIDE DEF T
    <2> QED BY <1>1, LeastElement
<1>3. s \in Nat /\ i \in Nat /\ s <= COMMIT_WIDTH /\ i <= s /\ Stops(s)
    BY <1>1, <1>2
<1>4. ASSUME NEW j \in i .. s - 1
      PROVE  ~Stops(j)
    <2>1. j \in 0 .. COMMIT_WIDTH /\ i <= j /\ ~(s <= j)
        BY <1>3, CommitWidthAssumption DEF CommitWidthAssumption
    <2>2. QED
        BY <1>2, <2>1
<1>5. IsStop(i, s)
    BY <1>2, <1>3, <1>4 DEF IsStop
<1>6. QED
    BY <1>5 DEF StopOf

LEMMA StopIsUnique ==
    ASSUME NEW i \in 0 .. COMMIT_WIDTH, NEW s, NEW t, IsStop(i, s), IsStop(i, t)
    PROVE  s = t
<1>1. /\ s \in Nat /\ t \in Nat /\ i \in Nat /\ i <= s /\ i <= t
      /\ Stops(s) /\ Stops(t)
      /\ \A j \in i .. s - 1 : ~Stops(j)
      /\ \A j \in i .. t - 1 : ~Stops(j)
    BY CommitWidthAssumption DEF CommitWidthAssumption, IsStop
<1>2. t \notin i .. s - 1 /\ s \notin i .. t - 1
    BY <1>1
<1>3. QED
    BY <1>1, <1>2

(* A walk that goes on stops where the walk from the next lane stops. *)
LEMMA StopGoesOn ==
    ASSUME NEW i \in 0 .. COMMIT_WIDTH
    PROVE  /\ Stops(i) => StopOf(i) = i
           /\ ~Stops(i) => /\ i + 1 \in 0 .. COMMIT_WIDTH
                           /\ StopOf(i) = StopOf(i + 1)
                           /\ StopOf(i) \in Nat /\ i < StopOf(i)
<1>0. i \in Nat /\ COMMIT_WIDTH \in Nat
    BY CommitWidthAssumption DEF CommitWidthAssumption
<1>1. ASSUME Stops(i)
      PROVE  StopOf(i) = i
    <2>1. i \in 0 .. COMMIT_WIDTH /\ i <= i /\ \A j \in i .. i - 1 : ~Stops(j)
        BY <1>0
    <2>2. IsStop(i, i)
        BY <1>1, <2>1 DEF IsStop
    <2>3. QED
        BY <2>2, StopExists, StopIsUnique
<1>2. ASSUME ~Stops(i)
      PROVE  /\ i + 1 \in 0 .. COMMIT_WIDTH
             /\ StopOf(i) = StopOf(i + 1)
             /\ StopOf(i) \in Nat /\ i < StopOf(i)
    <2>1. i # COMMIT_WIDTH
        BY <1>2 DEF Stops
    <2>2. i + 1 \in 0 .. COMMIT_WIDTH
        BY <1>0, <2>1
    <2>3. PICK s : s = StopOf(i + 1) /\ IsStop(i + 1, s)
        BY <2>2, StopExists
    <2>4. /\ s \in 0 .. COMMIT_WIDTH /\ s \in Nat /\ i + 1 <= s /\ Stops(s)
          /\ \A j \in i + 1 .. s - 1 : ~Stops(j)
        BY <1>0, <2>3 DEF IsStop
    <2>5. i <= s /\ i < s /\ \A j \in i .. s - 1 : j = i \/ j \in i + 1 .. s - 1
        BY <1>0, <2>4
    <2>6. \A j \in i .. s - 1 : ~Stops(j)
        BY <1>2, <2>4, <2>5
    <2>7. IsStop(i, s)
        BY <2>4, <2>5, <2>6 DEF IsStop
    <2>8. StopOf(i) = s
        BY <2>7, StopExists, StopIsUnique
    <2>9. QED
        BY <2>2, <2>3, <2>4, <2>5, <2>8
<1>3. QED
    BY <1>1, <1>2

-----------------------------------------------------------------------------
(* A step of a walk is the end of it, or adds the lane to the rest. *)
LEMMA StepIs ==
    ASSUME TypeInv, NEW f, NEW i \in 0 .. COMMIT_WIDTH
    PROVE  Step(f, i) = IF Stops(i) THEN At(i)
                        ELSE [f[i + 1] EXCEPT !.commit = @ \cup {i}]
<1>0. i \in Nat /\ COMMIT_WIDTH \in Nat /\ activeListCount \in Nat
    BY CommitWidthAssumption DEF CommitWidthAssumption, TypeInv
<1>1. CASE i = COMMIT_WIDTH \/ i >= activeListCount
    <2>1. Stops(i) /\ Step(f, i) = Nothing
        BY <1>1 DEF Stops, Step
    <2>2. ~Failed(i)
        BY <1>0, <1>1 DEF Failed
    <2>3. QED
        BY <2>1, <2>2 DEF At
<1>2. CASE ~(i = COMMIT_WIDTH \/ i >= activeListCount)
    <2>0. i < COMMIT_WIDTH /\ i < activeListCount
        BY <1>0, <1>2
    <2>1. CASE execState[i] = "NOT_FINISHED"
        BY <1>2, <2>1 DEF Step, Stops, At, Failed, Recovers
    <2>2. CASE execState[i] = "SUCCESS"
        <3>1. ~Stops(i)
            BY <1>2, <2>2 DEF Stops
        <3>2. Step(f, i) = [f[i + 1] EXCEPT !.commit = @ \cup {i}]
            BY <1>2, <2>2 DEF Step
        <3>3. QED
            BY <3>1, <3>2
    <2>3. CASE execState[i] # "NOT_FINISHED" /\ execState[i] # "SUCCESS"
        <3>1. Stops(i) /\ Failed(i)
            BY <2>0, <2>3 DEF Stops, Failed, Recovers
        <3>2. Step(f, i) = IF unableToStartRecovery THEN Nothing
                           ELSE [commit   |-> IF FailsThis(execState[i]) THEN {} ELSE {i},
                                 recovers |-> {i}]
            BY <1>2, <2>3 DEF Step
        <3>3. QED
            BY <3>1, <3>2 DEF At
    <2>4. QED
        BY <2>1, <2>2, <2>3
<1>3. QED
    BY <1>1, <1>2

LEMMA AtShape ==
    ASSUME NEW i
    PROVE  At(i) = [commit |-> At(i).commit, recovers |-> At(i).recovers]
BY DEF At, Nothing

LEMMA AnswerIsWalk ==
    ASSUME TypeInv
    PROVE  IsWalk(Answer)
<1>1. ASSUME NEW i \in 0 .. COMMIT_WIDTH
      PROVE  Answer[i] = Step(Answer, i)
    <2>0. i \in Nat
        BY CommitWidthAssumption DEF CommitWidthAssumption
    <2>1. Answer[i] = [commit   |-> At(StopOf(i)).commit \cup (i .. StopOf(i) - 1),
                       recovers |-> At(StopOf(i)).recovers]
        BY DEF Answer
    <2>2. CASE Stops(i)
        <3>1. StopOf(i) = i /\ i .. i - 1 = {}
            BY <2>0, <2>2, StopGoesOn
        <3>2. Answer[i] = At(i)
            BY <2>1, <3>1, AtShape
        <3>3. QED
            BY <2>2, <3>2, StepIs
    <2>3. CASE ~Stops(i)
        <3>1. /\ i + 1 \in 0 .. COMMIT_WIDTH /\ StopOf(i + 1) = StopOf(i)
              /\ StopOf(i) \in Nat /\ i < StopOf(i)
            BY <2>3, StopGoesOn
        <3>2. Answer[i + 1] = [commit   |-> At(StopOf(i)).commit \cup (i + 1 .. StopOf(i) - 1),
                               recovers |-> At(StopOf(i)).recovers]
            BY <3>1 DEF Answer
        <3>3. i .. StopOf(i) - 1 = (i + 1 .. StopOf(i) - 1) \cup {i}
            BY <2>0, <3>1
        <3>4. PICK C, R : C = At(StopOf(i)).commit /\ R = At(StopOf(i)).recovers
            OBVIOUS
        <3>5. PICK later : later = i + 1 .. StopOf(i) - 1
            OBVIOUS
        <3>6. Answer[i + 1] = [commit |-> C \cup later, recovers |-> R]
            BY <3>2, <3>4, <3>5
        <3>7. Answer[i] = [commit |-> C \cup (later \cup {i}), recovers |-> R]
            BY <2>1, <3>3, <3>4, <3>5
        <3>8. [Answer[i + 1] EXCEPT !.commit = @ \cup {i}] =
                 [commit |-> C \cup (later \cup {i}), recovers |-> R]
            <4>1. PICK rest : rest = [commit |-> C \cup later, recovers |-> R]
                OBVIOUS
            <4>2. [rest EXCEPT !.commit = @ \cup {i}] =
                     [commit |-> (C \cup later) \cup {i}, recovers |-> R]
                BY <4>1
            <4>3. (C \cup later) \cup {i} = C \cup (later \cup {i})
                OBVIOUS
            <4>4. QED
                BY <3>6, <4>1, <4>2, <4>3
        <3>9. QED
            BY <2>3, <3>7, <3>8, StepIs
    <2>4. QED
        BY <2>2, <2>3
<1>2. Answer = [i \in 0 .. COMMIT_WIDTH |-> Answer[i]]
    BY DEF Answer
<1>3. QED
    BY <1>1, <1>2 DEF IsWalk

LEMMA WalkIsUnique ==
    ASSUME TypeInv, NEW f, NEW g, IsWalk(f), IsWalk(g), NEW i \in 0 .. COMMIT_WIDTH
    PROVE  f[i] = g[i]
<1> DEFINE T == {k \in Nat : \E j \in 0 .. COMMIT_WIDTH : k = COMMIT_WIDTH - j /\ f[j] # g[j]}
<1>0. COMMIT_WIDTH \in Nat
    BY CommitWidthAssumption DEF CommitWidthAssumption
<1>1. CASE T = {}
    <2>1. COMMIT_WIDTH - i \in Nat
        BY <1>0
    <2>2. QED
        BY <1>1, <2>1
<1>2. CASE T # {}
    <2>1. PICK m \in T : \A t \in T : m <= t
        <3>1. T \in SUBSET Nat
            OBVIOUS
        <3> HIDE DEF T
        <3>2. QED
            BY <1>2, <3>1, LeastElement
    <2>2. PICK j \in 0 .. COMMIT_WIDTH : m = COMMIT_WIDTH - j /\ f[j] # g[j] /\ m \in Nat
        BY <2>1
    <2>3. f[j] = Step(f, j) /\ g[j] = Step(g, j)
        BY DEF IsWalk
    <2>4. CASE Stops(j)
        BY <2>2, <2>3, <2>4, StepIs
    <2>5. CASE ~Stops(j)
        <3>1. j + 1 \in 0 .. COMMIT_WIDTH
            BY <2>5, StopGoesOn
        <3>2. f[j + 1] = g[j + 1]
            <4>1. COMMIT_WIDTH - (j + 1) \in Nat /\ ~(m <= COMMIT_WIDTH - (j + 1))
                BY <1>0, <2>2, <3>1
            <4>2. COMMIT_WIDTH - (j + 1) \notin T
                <5> HIDE DEF T
                <5> QED BY <2>1, <4>1
            <4>3. QED
                BY <3>1, <4>1, <4>2
        <3>3. /\ Step(f, j) = [f[j + 1] EXCEPT !.commit = @ \cup {j}]
              /\ Step(g, j) = [g[j + 1] EXCEPT !.commit = @ \cup {j}]
            BY <2>5, StepIs
        <3>4. Step(f, j) = Step(g, j)
            <4>1. PICK rest : rest = f[j + 1] /\ rest = g[j + 1]
                BY <3>2
            <4>2. QED
                BY <3>3, <4>1
        <3>5. QED
            BY <2>2, <2>3, <3>4
    <2>6. QED
        BY <2>4, <2>5
<1>3. QED
    BY <1>1, <1>2

(* The walk of the model, from its first lane to the one where it stops *)
LEMMA WalkIsAnswer ==
    ASSUME TypeInv, NEW s, s = StopOf(0)
    PROVE  /\ IsStop(0, s)
           /\ startCommit => Walk = [commit   |-> At(s).commit \cup (0 .. s - 1),
                                     recovers |-> At(s).recovers]
           /\ ~startCommit => Walk = Nothing
<1> DEFINE w == CHOOSE f : IsWalk(f)
<1>1. Walk = IF startCommit THEN w[0] ELSE Nothing
    BY DEF Walk, IsWalk, Step
<1>2. IsWalk(w)
    BY AnswerIsWalk
<1>3. 0 \in 0 .. COMMIT_WIDTH
    BY CommitWidthAssumption DEF CommitWidthAssumption
<1> HIDE DEF w
<1>4. w[0] = Answer[0]
    BY <1>2, <1>3, AnswerIsWalk, WalkIsUnique
<1>5. Answer[0] = [commit   |-> At(s).commit \cup (0 .. s - 1),
                   recovers |-> At(s).recovers]
    BY <1>3 DEF Answer
<1>6. IsStop(0, s)
    BY <1>3, StopExists
<1>7. QED
    BY <1>1, <1>4, <1>5, <1>6

-----------------------------------------------------------------------------
(* DecideCommit sees the same lane: either it is the first trigger, or     *)
(* there is no trigger and it is the end of the finished ops.              *)
LEMMA DecisionStops ==
    ASSUME TypeInv, NEW s, IsStop(0, s)
    PROVE  LET n == FinishedInsnRange(FinishedOpNum(activeListCount, execState), WholeInsns)
           IN  /\ Failed(s) => /\ Triggers(n, execState) # {}
                               /\ RecoveredIndex(n, execState, WholeInsns) = s
               /\ ~Failed(s) => Triggers(n, execState) = {} /\ n = s
<1> DEFINE n == FinishedInsnRange(FinishedOpNum(activeListCount, execState), WholeInsns)
           T == Triggers(n, execState)
           Done(i) == i < activeListCount /\ execState[i] # "NOT_FINISHED"
<1>0. /\ s \in Nat /\ s <= COMMIT_WIDTH /\ COMMIT_WIDTH \in Nat /\ activeListCount \in Nat
      /\ Stops(s) /\ \A j \in 0 .. s - 1 : ~Stops(j)
    BY CommitWidthAssumption DEF CommitWidthAssumption, IsStop, TypeInv
<1>1. /\ n \in 0 .. COMMIT_WIDTH /\ n \in Nat
      /\ \A i \in 0 .. n - 1 : Done(i)
      /\ n = COMMIT_WIDTH \/ ~Done(n)
    <2>1. FinishedOpNum(activeListCount, execState) = n
        BY <1>0, FinishedPrefix, FinishedRange
    <2> HIDE DEF n
    <2>2. n \in 0 .. COMMIT_WIDTH
        BY <1>0, <2>1, FinishedPrefix
    <2>3. QED
        BY <1>0, <2>1, <2>2, FinishedPrefix
<1>2. T = {i \in CommitLane : i < n /\ Recovers(execState[i])}
    BY DEF Triggers
<1>3. \A j \in 0 .. s - 1 : /\ j < COMMIT_WIDTH /\ j < activeListCount
                            /\ execState[j] = "SUCCESS"
    BY <1>0 DEF Stops
<1>4. \A j \in 0 .. s - 1 : Done(j) /\ ~Recovers(execState[j])
    BY <1>3 DEF Recovers
<1> DEFINE index == RecoveredIndex(n, execState, WholeInsns)
<1>5. T # {} => index \in T /\ \A j \in T : index <= j
    BY <1>1, FirstTriggerWins
<1> HIDE DEF n, T, index
<1>6. \A i \in T : i \in Nat /\ i < n /\ ~(i < s)
    BY <1>0, <1>2, <1>4 DEF CommitLane
<1>7. CASE Failed(s)
    <2>1. s < COMMIT_WIDTH /\ Done(s) /\ Recovers(execState[s])
        BY <1>7 DEF Failed, Recovers
    <2>2. s < n
        <3>1. ~(n < s)
            BY <1>0, <1>1, <1>4
        <3>2. n # s
            BY <1>1, <2>1, <1>0
        <3>3. QED
            BY <1>0, <1>1, <3>1, <3>2
    <2>3. s \in T
        BY <1>0, <1>2, <2>1, <2>2 DEF CommitLane
    <2>4. index = s
        <3>1. T # {}
            BY <2>3
        <3>2. index \in T /\ index <= s
            BY <1>5, <2>3, <3>1
        <3>3. QED
            BY <1>0, <1>6, <3>2
    <2>5. QED
        BY <1>7, <2>3, <2>4 DEF T, index, n
<1>8. CASE ~Failed(s)
    <2>1. s = COMMIT_WIDTH \/ ~Done(s)
        <3>1. CASE s >= activeListCount
            BY <1>0, <3>1
        <3>2. CASE s < activeListCount /\ s < COMMIT_WIDTH
            BY <1>0, <1>8, <3>2 DEF Failed, Recovers, Stops
        <3>3. QED
            BY <1>0, <3>1, <3>2
    <2>2. n = s
        <3>1. ~(n < s)
            BY <1>0, <1>1, <1>4
        <3>2. ~(s < n)
            BY <1>0, <1>1, <2>1
        <3>3. QED
            BY <1>0, <1>1, <3>1, <3>2
    <2>3. T = {}
        BY <1>0, <1>1, <1>6, <2>2
    <2>4. QED
        BY <1>8, <2>2, <2>3 DEF T, n
<1>9. QED
    BY <1>7, <1>8

(* The two decisions from the lane where the walk stops *)
LEMMA SameDecision ==
    ASSUME TypeInv
    PROVE  DecidesLikeTheWalk
<1>1. PICK s : s = StopOf(0)
    OBVIOUS
<1>2. /\ IsStop(0, s)
      /\ startCommit => Walk = [commit   |-> At(s).commit \cup (0 .. s - 1),
                                recovers |-> At(s).recovers]
      /\ ~startCommit => Walk = Nothing
    BY <1>1, WalkIsAnswer
<1>3. /\ s \in Nat /\ s <= COMMIT_WIDTH /\ COMMIT_WIDTH \in Nat
      /\ startCommit \in BOOLEAN /\ unableToStartRecovery \in BOOLEAN
    BY <1>2, CommitWidthAssumption DEF CommitWidthAssumption, IsStop, TypeInv
<1> DEFINE n == FinishedInsnRange(FinishedOpNum(activeListCount, execState), WholeInsns)
           trigger == Triggers(n, execState) # {}
           index == RecoveredIndex(n, execState, WholeInsns)
           point == RecoveryPoint(index, execState, WholeInsns)
           commit == IF ~startCommit THEN {}
                     ELSE IF ~trigger THEN {i \in CommitLane : i < n}
                     ELSE {i \in CommitLane :
                              \/ i < point
                              \/ /\ i = point
                                 /\ ~FailsThis(execState[i])
                                 /\ ~unableToStartRecovery}
<1>4. Decided = [commit       |-> commit,
                 commitNum    |-> Cardinality(commit),
                 toRecovery   |-> startCommit /\ trigger /\ ~unableToStartRecovery,
                 recoveryLane |-> IF trigger THEN index ELSE 0,
                 refetchThis  |-> trigger /\ FailsThis(execState[index])]
    BY DEF Decided, DecideCommit, WholeInsns
<1>5. /\ Failed(s) => trigger /\ index = s /\ point = s /\ s \in CommitLane
      /\ ~Failed(s) => ~trigger /\ n = s
    <2>1. Failed(s) => trigger /\ index = s
        BY <1>2, DecisionStops
    <2>2. ~Failed(s) => ~trigger /\ n = s
        BY <1>2, DecisionStops
    <2>3. Failed(s) => s \in CommitLane
        BY <1>3 DEF Failed, CommitLane
    <2>4. Failed(s) => point = s
        BY <2>1, <2>3, RecoveryPointIsLane
    <2>5. QED
        BY <2>1, <2>2, <2>3, <2>4
<1> HIDE DEF n, trigger, index, point
<1>6. \A m \in 0 .. COMMIT_WIDTH : {i \in CommitLane : i < m} = 0 .. m - 1
    BY <1>3 DEF CommitLane
<1>7. commit = Walk.commit
    <2>1. CASE ~startCommit
        BY <1>2, <2>1 DEF Nothing
    <2>2. CASE startCommit /\ ~Failed(s)
        BY <1>2, <1>3, <1>5, <1>6, <2>2 DEF At, Nothing
    <2>3. CASE startCommit /\ Failed(s)
        <3> DEFINE retires == ~FailsThis(execState[s]) /\ ~unableToStartRecovery
        <3>1. At(s).commit = IF retires THEN {s} ELSE {}
            BY <2>3 DEF At, Nothing
        <3>2. commit = {i \in CommitLane : i < s \/ (i = s /\ retires)}
            BY <1>5, <2>3
        <3>3. Walk.commit = (IF retires THEN {s} ELSE {}) \cup (0 .. s - 1)
            BY <1>2, <2>3, <3>1
        <3> HIDE DEF retires, commit
        <3>4. \A i : i \in CommitLane /\ i < s <=> i \in 0 .. s - 1
            BY <1>3 DEF CommitLane
        <3>5. QED
            BY <1>5, <2>3, <3>2, <3>3, <3>4
    <2>4. QED
        BY <1>3, <2>1, <2>2, <2>3
<1>8. /\ (startCommit /\ trigger /\ ~unableToStartRecovery) <=> Walk.recovers # {}
      /\ startCommit /\ trigger /\ ~unableToStartRecovery => Walk.recovers = {index}
    <2>1. CASE ~startCommit
        BY <1>2, <2>1 DEF Nothing
    <2>2. CASE startCommit /\ ~Failed(s)
        BY <1>2, <1>5, <2>2 DEF At, Nothing
    <2>3. CASE startCommit /\ Failed(s)
        BY <1>2, <1>5, <2>3 DEF At, Nothing
    <2>4. QED
        BY <1>3, <2>1, <2>2, <2>3
<1>9. /\ Decided.commit = commit /\ Decided.commitNum = Cardinality(commit)
      /\ Decided.toRecovery = (startCommit /\ trigger /\ ~unableToStartRecovery)
      /\ Decided.recoveryLane = IF trigger THEN index ELSE 0
      /\ Decided.refetchThis = (trigger /\ FailsThis(execState[index]))
    <2> HIDE DEF commit
    <2> QED BY <1>4
<1> HIDE DEF commit
<1>10. trigger \in BOOLEAN /\ FailsThis(execState[index]) \in BOOLEAN
    BY DEF trigger, FailsThis
<1>11. Decided.toRecovery =>
          /\ Walk.recovers = {Decided.recoveryLane}
          /\ Decided.refetchThis <=> FailsThis(execState[Decided.recoveryLane])
    BY <1>8, <1>9, <1>10
<1>12. Decided.toRecovery <=> Walk.recovers # {}
    BY <1>8, <1>9
<1>13. QED
    BY <1>7, <1>9, <1>11, <1>12 DEF DecidesLikeTheWalk

-----------------------------------------------------------------------------
LEMMA StepType == TypeInv /\ [Next]_inputs => TypeInv'
<1> SUFFICES ASSUME TypeInv, [Next]_inputs
             PROVE  TypeInv'
    OBVIOUS
<1>1. ASSUME NEW i \in CommitLane, NEW s \in ExecState, WriteLane(i, s)
      PROVE  TypeInv'
    BY <1>1 DEF TypeInv, WriteLane
<1>2. ASSUME NEW n \in 0 .. MAX_COUNT, ChangeCount(n)
      PROVE  TypeInv'
    BY <1>2 DEF TypeInv, ChangeCount
<1>3. CASE ChangePhase
    BY <1>3 DEF TypeInv, ChangePhase
<1>4. CASE ChangeReadiness
    BY <1>4 DEF TypeInv, ChangeReadiness
<1>5. CASE UNCHANGED inputs
    BY <1>5 DEF TypeInv, inputs
<1>6. QED
    BY <1>1, <1>2, <1>3, <1>4, <1>5 DEF Next

(* The commit stage, which decides all lanes at once, retires the ops and  *)
(* starts the recovery that retiring one op after the other would, in      *)
(* every state of its inputs and for every number of lanes.                *)
THEOREM DecidesAsTheWalk == Spec => []DecidesLikeTheWalk
<1>1. Init => TypeInv
    <2>1. 0 \in Nat /\ TRUE \in BOOLEAN /\ FALSE \in BOOLEAN
        OBVIOUS
    <2>2. [i \in CommitLane |-> "NOT_FINISHED"] \in [CommitLane -> ExecState]
        BY DEF ExecState
    <2>3. QED
        BY <2>1, <2>2 DEF Init, TypeInv
<1>2. TypeInv => DecidesLikeTheWalk
    BY SameDecision
<1>3. QED
    BY <1>1, <1>2, StepType, PTL DEF Spec
=============================================================================
