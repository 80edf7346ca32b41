------------------------- MODULE TracedCore_proofs -------------------------
(***************************************************************************)
(* The pipeline that the simulator traces, for every width, size and       *)
(* program: where an op can be, in which order the stages hold their ops,  *)
(* and that the dead ops are exactly those that left without retiring.     *)
(*                                                                         *)
(* A cycle is cut in three, each of which is reasoned about by what the    *)
(* pipeline controller decides: the front end (FrontMoves, FrontDeaths),   *)
(* the active list, where the committed ops leave at the old end and the   *)
(* flushed ones at the young end, and the back end.  The lemmas on sets of *)
(* naturals come first.                                                    *)
(***************************************************************************)
EXTENDS TracedCore, FiniteSetTheorems, SequenceTheorems, TLAPS

-----------------------------------------------------------------------------
(* Naturals                                                                  *)

LOCAL Less == OpToRel(<, Nat)

(* The order of the naturals is well founded. *)
LEMMA LessWellFounded == IsWellFoundedOn(Less, Nat)
BY NatLessThanWellFounded DEF Less

(* Every set of naturals that is not empty has a least element. *)
LEMMA LeastElement ==
    ASSUME NEW T \in SUBSET Nat, T # {}
    PROVE  \E m \in T : \A t \in T : m <= t
<1>1. PICK m \in T : \A t \in T : <<t, m>> \notin Less
    BY LessWellFounded, WFMin
<1>2. ASSUME NEW t \in T
      PROVE  m <= t
    <2>1. t \in Nat /\ m \in Nat /\ <<t, m>> \notin Less
        BY <1>1
    <2>2. ~(t < m)
        BY <2>1 DEF Less, OpToRel
    <2>3. QED
        BY <2>1, <2>2
<1>3. QED
    BY <1>2

(* Induction over the naturals, for a set in the place of a predicate. *)
LEMMA SetInduction ==
    ASSUME NEW T, 0 \in T, \A n \in Nat : n \in T => n + 1 \in T
    PROVE  Nat \subseteq T
<1> DEFINE missing == Nat \ T
<1>1. SUFFICES ASSUME missing # {}
               PROVE  FALSE
    OBVIOUS
<1>2. PICK m \in missing : \A t \in missing : m <= t
    <2> HIDE DEF missing
    <2>1. missing \in SUBSET Nat
        BY DEF missing
    <2>2. QED
        BY <1>1, <2>1, LeastElement
<1>3. m \in Nat /\ m # 0
    BY <1>2
<1>4. m - 1 \in Nat /\ ~(m <= m - 1)
    BY <1>3
<1>5. m - 1 \in T
    BY <1>2, <1>4
<1>6. (m - 1) + 1 = m
    BY <1>3
<1>7. QED
    BY <1>2, <1>4, <1>5, <1>6

(* Min is the least element of a set of naturals. *)
LEMMA MinIsLeast ==
    ASSUME NEW S \in SUBSET Nat, S # {}
    PROVE  Min(S) \in S /\ \A n \in S : Min(S) <= n
BY LeastElement DEF Min

(* Max is the greatest element of a bounded set of naturals. *)
LEMMA MaxIsGreatest ==
    ASSUME NEW k \in Nat, NEW S, \A n \in S : n \in 0 .. k, S # {}
    PROVE  Max(S) \in S /\ \A n \in S : n <= Max(S)
<1> DEFINE T == {k - n : n \in S}
<1>1. T \in SUBSET Nat /\ T # {}
    <2>1. \A n \in S : k - n \in Nat
        OBVIOUS
    <2>2. QED
        BY <2>1
<1>2. PICK m \in T : \A t \in T : m <= t
    <2> HIDE DEF T
    <2> QED BY <1>1, LeastElement
<1>3. PICK g \in S : m = k - g
    BY <1>2
<1>4. ASSUME NEW n \in S
      PROVE  g >= n
    <2>1. k - n \in T /\ n \in Nat /\ g \in Nat
        BY <1>3
    <2>2. k - g <= k - n
        BY <1>2, <1>3, <2>1
    <2>3. QED
        BY <2>1, <2>2
<1>5. \A n \in S : n \in Int
    OBVIOUS
<1>6. /\ Max(S) \in S
      /\ \A n \in S : Max(S) >= n
    BY <1>3, <1>4 DEF Max
<1>7. QED
    BY <1>5, <1>6

-----------------------------------------------------------------------------
(* Ops in program order                                                      *)

(* The number of ops of a set before one of them *)
LOCAL Place(S, n) == Cardinality({m \in S : m < n})

(* Ascending lists every op of a set once, in program order. *)
LEMMA AscendingFacts ==
    ASSUME NEW k \in Nat, NEW S, \A n \in S : n \in 0 .. k
    PROVE  LET s == Ascending(S)
               c == Cardinality(S)
           IN  /\ c \in Nat /\ s \in [1 .. c -> S] /\ IsFiniteSet(S)
               /\ \A i, j \in 1 .. c : i < j => s[i] < s[j]
               /\ \A n \in S : \E i \in 1 .. c : s[i] = n
<1> DEFINE c == Cardinality(S)
           p == [n \in S |-> Place(S, n)]
<1>1. IsFiniteSet(S) /\ c \in Nat
    <2>1. S \in SUBSET (0 .. k) /\ IsFiniteSet(0 .. k)
        BY FS_Interval
    <2>2. QED
        BY <2>1, FS_Subset, FS_CardinalityType
<1>2. ASSUME NEW n \in S
      PROVE  Place(S, n) \in 0 .. c - 1
    <2>1. {m \in S : m < n} \in SUBSET S /\ n \notin {m \in S : m < n}
        OBVIOUS
    <2>2. Place(S, n) \in Nat /\ Place(S, n) <= c /\ Place(S, n) # c
        BY <1>1, <2>1, FS_Subset, FS_CardinalityType DEF Place
    <2>3. QED
        BY <1>1, <2>2
<1>3. ASSUME NEW m \in S, NEW n \in S, m < n
      PROVE  Place(S, m) < Place(S, n)
    <2>1. /\ {i \in S : i < m} \in SUBSET {i \in S : i < n}
          /\ {i \in S : i < n} \in SUBSET S
          /\ m \in {i \in S : i < n} /\ m \notin {i \in S : i < m}
        BY <1>3
    <2>2. Place(S, m) <= Place(S, n) /\ Place(S, m) # Place(S, n)
        BY <1>1, <2>1, FS_Subset DEF Place
    <2>3. QED
        BY <1>2, <2>2
<1>4. p \in Injection(S, 0 .. c - 1)
    <2>1. p \in [S -> 0 .. c - 1]
        BY <1>2
    <2>2. ASSUME NEW m \in S, NEW n \in S, p[m] = p[n]
          PROVE  m = n
        <3>1. ~(m < n) /\ ~(n < m)
            BY <1>2, <1>3, <2>2
        <3>2. QED
            BY <3>1
    <2>3. QED
        BY <2>1, <2>2 DEF Injection, IsInjective
<1>5. p \in Surjection(S, 0 .. c - 1)
    <2>1. IsFiniteSet(0 .. c - 1) /\ Cardinality(0 .. c - 1) = c
        BY <1>1, FS_Interval
    <2>2. QED
        BY <1>1, <1>4, <2>1, FS_Injection
<1>6. ASSUME NEW i \in 1 .. c
      PROVE  \E n \in S : Place(S, n) = i - 1
    <2>1. i - 1 \in 0 .. c - 1
        BY <1>1
    <2>2. QED
        BY <1>5, <2>1 DEF Surjection
<1>7. Ascending(S) = [i \in 1 .. c |-> CHOOSE n \in S : Place(S, n) = i - 1]
    BY DEF Ascending, Place
<1>8. ASSUME NEW i \in 1 .. c
      PROVE  Ascending(S)[i] \in S /\ Place(S, Ascending(S)[i]) = i - 1
    BY <1>6, <1>7
<1>9. Ascending(S) \in [1 .. c -> S]
    BY <1>7, <1>8
<1>10. ASSUME NEW i \in 1 .. c, NEW j \in 1 .. c, i < j
       PROVE  Ascending(S)[i] < Ascending(S)[j]
    <2> DEFINE a == Ascending(S)[i]
               b == Ascending(S)[j]
    <2>1. a \in S /\ b \in S /\ Place(S, a) = i - 1 /\ Place(S, b) = j - 1
        BY <1>8
    <2>2. Place(S, a) < Place(S, b)
        BY <1>1, <1>10, <2>1
    <2>3. a # b /\ ~(b < a)
        BY <1>2, <1>3, <2>1, <2>2
    <2>4. QED
        BY <2>1, <2>3
<1>11. ASSUME NEW n \in S
       PROVE  \E i \in 1 .. c : Ascending(S)[i] = n
    <2>1. Place(S, n) + 1 \in 1 .. c
        BY <1>1, <1>2
    <2>2. PICK i \in 1 .. c : i = Place(S, n) + 1
        BY <2>1
    <2>3. Ascending(S)[i] \in S /\ Place(S, Ascending(S)[i]) = Place(S, n)
        BY <1>2, <1>8, <2>2
    <2>4. Ascending(S)[i] = n
        BY <1>4, <2>3 DEF Injection, IsInjective
    <2>5. QED
        BY <2>4
<1>12. QED
    BY <1>1, <1>9, <1>10, <1>11

-----------------------------------------------------------------------------
(* The invariant of the core                                                 *)

(* Every op of S is older than every op of T. *)
Before(S, T) == \A m \in S, n \in T : m < n

(* The ops in the active list, the ops that retired *)
ListOps == {al[i].op : i \in DOMAIN al}

RetiredOps == {retired[i] : i \in DOMAIN retired}

(* Ops of the decode stage that are still to be sent on *)
Waiting == front["id"] \ picked

FrontStages == {"if", "pd", "id", "rn", "ds"}

BackStages == {"SC", "IS", "RR", "EX", "EX2", "MT", "MA", "RW", "replay"}

ListEntries == [op : 1 .. MaxOp, done : BOOLEAN]

(* What the registers of the core hold. The ops in the list, those that    *)
(* retired and the dead ones have been fetched; the back end works on ops  *)
(* of the list.                                                            *)
CoreTypes ==
    /\ script \in Scripts
    /\ serial \in 1 .. MaxOp + 1
    /\ front \in [FrontStages -> SUBSET (1 .. serial - 1)]
    /\ picked \subseteq front["id"]
    /\ decFlush \in BOOLEAN
    /\ al \in Seq(ListEntries)
    /\ headPtr \in 0 .. ACTIVE_LIST_ENTRY_NUM - 1
    /\ phase \in {"commit", "recover0", "recover1"}
    /\ flushFrom \in Nat
    /\ ListOps \subseteq 1 .. serial - 1
    /\ DOMAIN back \subseteq ListOps
    /\ \A n \in DOMAIN back : back[n] \in BackStages
    /\ commitNum \in 0 .. COMMIT_WIDTH /\ commitNum <= Len(al)
    /\ retired \in Seq(1 .. MaxOp)
    /\ RetiredOps \subseteq 1 .. serial - 1
    /\ dead \subseteq 1 .. serial - 1

(* The stages hold the ops in program order, those nearer to retirement first. *)
OrderInv ==
    /\ \A i, j \in DOMAIN al : i < j => al[i].op < al[j].op
    /\ \A i, j \in DOMAIN retired : i < j => retired[i] < retired[j]
    /\ Before(RetiredOps, ListOps)
    /\ Before(RetiredOps \cup ListOps, front["rn"])
    /\ Before(RetiredOps \cup ListOps \cup front["rn"], Waiting)
    /\ Before(RetiredOps \cup ListOps \cup front["rn"] \cup front["id"], front["pd"])
    /\ Before(RetiredOps \cup ListOps \cup front["rn"] \cup front["id"] \cup front["pd"],
              front["if"])

(* An op is in one stage at a time, and what commits has left them all. *)
StageInv ==
    /\ front["ds"] \subseteq ListOps
    /\ front["ds"] \cap DOMAIN back = {}
    /\ \A i \in DOMAIN al : al[i].done => al[i].op \notin front["ds"] \cup DOMAIN back
    /\ \A i \in 1 .. commitNum : al[i].done
    /\ phase # "commit" => commitNum = 0
    /\ \A m, n \in InStage("IS") : m = n
    /\ \A m, n \in InStage("RR") : m = n
    /\ \A m, n \in InStage("EX") : m = n

(* What is dead has left every stage, and waits in the active list at most *)
(* for its entry to be taken back.                                         *)
DeadInv ==
    /\ \A n \in dead : n \notin front["if"] \cup front["pd"] \cup Waiting \cup front["rn"]
                                \cup front["ds"] \cup DOMAIN back \cup RetiredOps
    /\ \A n \in ListOps : n \in dead <=> phase = "recover1" /\ n >= flushFrom
    /\ phase = "recover0" => \A n \in front["ds"] : n >= flushFrom
    /\ phase = "recover1" => front["ds"] = {}
    /\ script.miss \in front["id"] => \A n \in picked : n > script.miss => n \in dead

(* No stage holds more ops than a fetch group and the list does not        *)
(* overflow.                                                               *)
WidthInv ==
    /\ \A s \in FrontStages : Cardinality(front[s]) <= FETCH_WIDTH
    /\ Len(al) <= ACTIVE_LIST_ENTRY_NUM

(* The inductive invariant of the core *)
CoreInv == CoreTypes /\ OrderInv /\ StageInv /\ DeadInv /\ WidthInv

(* What a clock edge may choose (Clock of SimulationDriver) *)
Choice(c) ==
    /\ c.fetch \in FetchChoices
    /\ c.ifMiss \in BOOLEAN
    /\ c.blocked \in BOOLEAN
    /\ c.pickOne \in (IF Cardinality(Waiting) > 1 THEN BOOLEAN ELSE {FALSE})
    /\ c.hold \in AtMostOne(InStage("MT"))
    /\ c.fail \in AtMostOne(Failing)
    /\ c.reissue \in AtMostOne(InStage("replay"))
    /\ c.issue \in (IF c.reissue = {} THEN AtMostOne(InStage("SC")) ELSE {{}})

-----------------------------------------------------------------------------
(* The front end in a cycle, by what the controller decides                  *)

(* The ops fetched in a cycle, those of IF that the pre-decoder leaves,    *)
(* and the shape of the front end and of what the controller decides       *)
Fetched(c) == serial .. serial + c.fetch - 1

KeptInIf == front["if"] \ FetchFlushed

FrontIs(if, pd, id, rn, ds) == [if |-> if, pd |-> pd, id |-> id, rn |-> rn, ds |-> ds]

CtrlIs(np, if, pd, id, rn, ds) ==
    [np |-> np, if |-> if, pd |-> pd, id |-> id, rn |-> rn, ds |-> ds]

(* In the first cycle of a recovery the controller flushes every stage of  *)
(* the front end: all ops in it die, with those of the flush range.        *)
LEMMA CycleOfRecovery ==
    ASSUME NEW c, phase = "recover0"
    PROVE  /\ Controller(c) = CtrlIs(Go, Flush, Flush, Flush, Flush, Flush)
           /\ NewOps(c) = Fetched(c)
           /\ NextFront(c) = FrontIs(Fetched(c), {}, {}, {}, {})
           /\ NextPicked(c) = {}
           /\ NewlyDead(c) = front["if"] \cup front["pd"] \cup Waiting \cup front["rn"]
                               \cup front["ds"] \cup SelectiveFlush \cup FetchFlushed
                               \cup InsnFlushed \cup {al[i].op : i \in {j \in DOMAIN al : Dead(al[j])}}
<1>1. Controller(c) = CtrlIs(Go, Flush, Flush, Flush, Flush, Flush)
    BY DEF Controller, CtrlIs, StallByDecodeStage
<1> DEFINE ctrl == CtrlIs(Go, Flush, Flush, Flush, Flush, Flush)
<1>2. /\ ~ctrl.np.stall
      /\ ~ctrl.if.stall /\ ctrl.if.clear /\ ~ctrl.pd.stall /\ ctrl.pd.clear
      /\ ~ctrl.id.stall /\ ctrl.id.clear /\ ~ctrl.rn.stall /\ ctrl.rn.clear
      /\ ~ctrl.ds.stall /\ ctrl.ds.clear
    BY DEF CtrlIs, Go, Flush, Ctrl
<1>3. ctrl["if"] = ctrl.if /\ ctrl["pd"] = ctrl.pd /\ ctrl["rn"] = ctrl.rn
    OBVIOUS
<1> HIDE DEF ctrl
<1>4. NewOps(c) = Fetched(c)
    BY <1>1, <1>2 DEF NewOps, Fetched, ctrl
<1>5. NextFront(c) = FrontIs(Fetched(c), {}, {}, {}, {})
    BY <1>1, <1>2, <1>3, <1>4 DEF NextFront, FrontIs, ctrl
<1>6. NextPicked(c) = {}
    BY <1>1, <1>2 DEF NextPicked, StallByDecodeStage, ctrl
<1>7. QED
    BY <1>1, <1>2, <1>4, <1>5, <1>6 DEF NewlyDead, Waiting, ctrl

(* The rename stage is held: nothing but the dispatch stage moves. *)
LEMMA CycleOfBubble ==
    ASSUME NEW c, phase # "recover0", RnStageSendBubbleLower(c)
    PROVE  /\ Controller(c) = CtrlIs(Stall, Stall, Stall, Stall, Bubble, Go)
           /\ ~StallByDecodeStage(c)
           /\ NewOps(c) = {}
           /\ NextFront(c) = FrontIs(KeptInIf, front["pd"], front["id"], front["rn"], {})
           /\ NextPicked(c) = picked
           /\ NewlyDead(c) = SelectiveFlush \cup FetchFlushed
<1> DEFINE ctrl == CtrlIs(Stall, Stall, Stall, Stall, Bubble, Go)
<1>1. Controller(c) = ctrl /\ ~StallByDecodeStage(c)
    BY DEF Controller, CtrlIs, StallByDecodeStage
<1>2. /\ ctrl.np.stall
      /\ ctrl.if.stall /\ ~ctrl.if.clear /\ ctrl.pd.stall /\ ~ctrl.pd.clear
      /\ ctrl.id.stall /\ ~ctrl.id.clear /\ ctrl.rn.stall /\ ctrl.rn.clear
      /\ ~ctrl.ds.stall /\ ~ctrl.ds.clear
    BY DEF CtrlIs, Go, Stall, Bubble, Ctrl
<1>3. ctrl["if"] = ctrl.if /\ ctrl["pd"] = ctrl.pd /\ ctrl["rn"] = ctrl.rn
    OBVIOUS
<1> HIDE DEF ctrl
<1>4. NewOps(c) = {}
    BY <1>1, <1>2 DEF NewOps
<1>5. NextFront(c) = FrontIs(KeptInIf, front["pd"], front["id"], front["rn"], {})
    BY <1>1, <1>2, <1>3, <1>4 DEF NextFront, FrontIs, KeptInIf
<1>6. NextPicked(c) = picked
    BY <1>1, <1>2 DEF NextPicked
<1>7. NewlyDead(c) = SelectiveFlush \cup FetchFlushed
    BY <1>1, <1>2 DEF NewlyDead
<1>8. QED
    BY <1>1, <1>4, <1>5, <1>6, <1>7 DEF ctrl

(* The decode stage found a wrong target in the group before. *)
LEMMA CycleOfDecodeFlush ==
    ASSUME NEW c, phase # "recover0", ~RnStageSendBubbleLower(c), decFlush
    PROVE  /\ Controller(c) = CtrlIs(Go, Flush, Flush, Flush, Go, Go)
           /\ ~StallByDecodeStage(c)
           /\ NewOps(c) = Fetched(c)
           /\ NextFront(c) = FrontIs(Fetched(c), {}, {}, {}, front["rn"])
           /\ NextPicked(c) = {}
           /\ NewlyDead(c) = front["if"] \cup front["pd"] \cup Waiting
                               \cup SelectiveFlush \cup FetchFlushed \cup InsnFlushed
<1> DEFINE ctrl == CtrlIs(Go, Flush, Flush, Flush, Go, Go)
<1>1. Controller(c) = ctrl /\ ~StallByDecodeStage(c)
    BY DEF Controller, CtrlIs, StallByDecodeStage
<1>2. /\ ~ctrl.np.stall
      /\ ~ctrl.if.stall /\ ctrl.if.clear /\ ~ctrl.pd.stall /\ ctrl.pd.clear
      /\ ~ctrl.id.stall /\ ctrl.id.clear /\ ~ctrl.rn.stall /\ ~ctrl.rn.clear
      /\ ~ctrl.ds.stall /\ ~ctrl.ds.clear
    BY DEF CtrlIs, Go, Flush, Ctrl
<1>3. ctrl["if"] = ctrl.if /\ ctrl["pd"] = ctrl.pd /\ ctrl["rn"] = ctrl.rn
    OBVIOUS
<1> HIDE DEF ctrl
<1>4. NewOps(c) = Fetched(c)
    BY <1>1, <1>2 DEF NewOps, Fetched
<1>5. NextFront(c) = FrontIs(Fetched(c), {}, {}, {}, front["rn"])
    BY <1>1, <1>2, <1>3, <1>4 DEF NextFront, FrontIs
<1>6. NextPicked(c) = {}
    BY <1>1, <1>2 DEF NextPicked
<1>7. NewlyDead(c) = front["if"] \cup front["pd"] \cup Waiting
                       \cup SelectiveFlush \cup FetchFlushed \cup InsnFlushed
    BY <1>1, <1>2 DEF NewlyDead, Waiting
<1>8. QED
    BY <1>1, <1>4, <1>5, <1>6, <1>7 DEF ctrl

(* The decode stage has not sent on all of its ops. *)
LEMMA CycleOfDecodeStall ==
    ASSUME NEW c, StallByDecodeStage(c)
    PROVE  /\ phase # "recover0" /\ ~RnStageSendBubbleLower(c)
           /\ Controller(c) = CtrlIs(Stall, Stall, Stall, Stall, Go, Go)
           /\ NewOps(c) = {}
           /\ NextFront(c) = FrontIs(KeptInIf, front["pd"], front["id"],
                                     Picks(c) \ InsnFlushed, front["rn"])
           /\ NextPicked(c) = picked \cup Picks(c) \cup InsnFlushed
           /\ NewlyDead(c) = SelectiveFlush \cup FetchFlushed \cup InsnFlushed
<1> DEFINE ctrl == CtrlIs(Stall, Stall, Stall, Stall, Go, Go)
<1>1. /\ Controller(c) = ctrl /\ phase # "recover0" /\ ~RnStageSendBubbleLower(c)
      /\ ~decFlush
    BY DEF Controller, CtrlIs, StallByDecodeStage
<1>2. /\ ctrl.np.stall
      /\ ctrl.if.stall /\ ~ctrl.if.clear /\ ctrl.pd.stall /\ ~ctrl.pd.clear
      /\ ctrl.id.stall /\ ~ctrl.id.clear /\ ~ctrl.rn.stall /\ ~ctrl.rn.clear
      /\ ~ctrl.ds.stall /\ ~ctrl.ds.clear
    BY DEF CtrlIs, Go, Stall, Ctrl
<1>3. ctrl["if"] = ctrl.if /\ ctrl["pd"] = ctrl.pd /\ ctrl["rn"] = ctrl.rn
    OBVIOUS
<1> HIDE DEF ctrl
<1>4. NewOps(c) = {}
    BY <1>1, <1>2 DEF NewOps
<1>5. NextFront(c) = FrontIs(KeptInIf, front["pd"], front["id"],
                             Picks(c) \ InsnFlushed, front["rn"])
    BY <1>1, <1>2, <1>3, <1>4 DEF NextFront, FrontIs, KeptInIf
<1>6. NextPicked(c) = picked \cup Picks(c) \cup InsnFlushed
    BY <1>1, <1>2 DEF NextPicked
<1>7. NewlyDead(c) = SelectiveFlush \cup FetchFlushed \cup InsnFlushed
    BY <1>1, <1>2 DEF NewlyDead
<1>8. QED
    BY <1>1, <1>4, <1>5, <1>6, <1>7 DEF ctrl

(* The fetch stage and the one behind it in an ordinary cycle *)
IfCtrl(c) == IF c.ifMiss THEN Bubble ELSE Go
NpCtrl(c) == IF c.ifMiss \/ c.fetch = 0 THEN Bubble ELSE Go

(* Nothing is in the way: the decode stage sends its last ops on. *)
LEMMA CycleOfFlow ==
    ASSUME NEW c, phase # "recover0", ~RnStageSendBubbleLower(c), ~decFlush,
           ~StallByDecodeStage(c), c.ifMiss \in BOOLEAN
    PROVE  /\ Controller(c) = CtrlIs(NpCtrl(c), IfCtrl(c), Go, Go, Go, Go)
           /\ Complete(c)
           /\ NewOps(c) = IF c.ifMiss \/ c.fetch = 0 THEN {} ELSE Fetched(c)
           /\ NextFront(c) = FrontIs(IF c.ifMiss THEN KeptInIf ELSE NewOps(c),
                                     IF c.ifMiss THEN {} ELSE KeptInIf,
                                     front["pd"], Picks(c) \ InsnFlushed, front["rn"])
           /\ NextPicked(c) = {}
           /\ NewlyDead(c) = SelectiveFlush \cup FetchFlushed \cup InsnFlushed
<1> DEFINE ctrl == CtrlIs(NpCtrl(c), IfCtrl(c), Go, Go, Go, Go)
<1>1. Complete(c)
    BY DEF StallByDecodeStage
<1>2. Controller(c) = ctrl
    <2>1. Controller(c) = IF c.ifMiss THEN CtrlIs(Bubble, Bubble, Go, Go, Go, Go)
                          ELSE IF c.fetch = 0 THEN CtrlIs(Bubble, Go, Go, Go, Go, Go)
                          ELSE CtrlIs(Go, Go, Go, Go, Go, Go)
        BY DEF Controller, CtrlIs
    <2>2. QED
        BY <2>1 DEF NpCtrl, IfCtrl
<1>3. /\ ctrl.np.stall <=> c.ifMiss \/ c.fetch = 0
      /\ ctrl.if.stall <=> c.ifMiss
      /\ ctrl.if.clear <=> c.ifMiss
      /\ ~ctrl.pd.stall /\ ~ctrl.pd.clear
      /\ ~ctrl.id.stall /\ ~ctrl.id.clear /\ ~ctrl.rn.stall /\ ~ctrl.rn.clear
      /\ ~ctrl.ds.stall /\ ~ctrl.ds.clear
    BY DEF CtrlIs, NpCtrl, IfCtrl, Go, Bubble, Ctrl
<1>4. ctrl["if"] = ctrl.if /\ ctrl["pd"] = ctrl.pd /\ ctrl["rn"] = ctrl.rn
    OBVIOUS
<1> HIDE DEF ctrl
<1>5. NewOps(c) = IF c.ifMiss \/ c.fetch = 0 THEN {} ELSE Fetched(c)
    BY <1>2, <1>3 DEF NewOps, Fetched
<1>6. NextFront(c) = FrontIs(IF c.ifMiss THEN KeptInIf ELSE NewOps(c),
                             IF c.ifMiss THEN {} ELSE KeptInIf,
                             front["pd"], Picks(c) \ InsnFlushed, front["rn"])
    <2>1. CASE c.ifMiss
        BY <1>2, <1>3, <1>4, <2>1 DEF NextFront, FrontIs, KeptInIf
    <2>2. CASE ~c.ifMiss
        BY <1>2, <1>3, <1>4, <2>2 DEF NextFront, FrontIs, KeptInIf
    <2>3. QED
        BY <2>1, <2>2
<1>7. NextPicked(c) = {}
    BY <1>1, <1>2, <1>3 DEF NextPicked
<1>8. NewlyDead(c) = SelectiveFlush \cup FetchFlushed \cup InsnFlushed
    BY <1>2, <1>3 DEF NewlyDead
<1>9. QED
    BY <1>1, <1>2, <1>5, <1>6, <1>7, <1>8 DEF ctrl

(* The ops the decode stage sends on are the oldest of those that wait. *)
LEMMA PicksAreOldest ==
    ASSUME NEW c, Choice(c), CoreTypes
    PROVE  Picks(c) \subseteq Waiting /\ Before(Picks(c), Waiting \ Picks(c))
<1>1. Waiting \in SUBSET (1 .. serial - 1) /\ serial \in Nat
    BY DEF CoreTypes, Waiting, FrontStages
<1>2. CASE c.pickOne
    <2>1. Waiting # {}
        <3>1. Cardinality(Waiting) > 1
            BY <1>2 DEF Choice
        <3>2. Waiting = {} => Cardinality(Waiting) = 0
            BY FS_EmptySet
        <3>3. QED
            BY <3>1, <3>2
    <2>2. Waiting \in SUBSET Nat
        BY <1>1
    <2>3. Min(Waiting) \in Waiting /\ \A n \in Waiting : Min(Waiting) <= n
        BY <2>1, <2>2, MinIsLeast
    <2>4. Picks(c) = {Min(Waiting)}
        BY <1>2 DEF Picks, Waiting
    <2>5. ASSUME NEW n \in Waiting \ Picks(c)
          PROVE  Min(Waiting) < n
        <3>1. n # Min(Waiting) /\ n \in Nat /\ Min(Waiting) \in Nat /\ Min(Waiting) <= n
            BY <2>2, <2>3, <2>4
        <3>2. QED
            BY <3>1
    <2>6. QED
        BY <2>3, <2>4, <2>5 DEF Before
<1>3. CASE ~c.pickOne
    BY <1>3 DEF Picks, Waiting, Before
<1>4. QED
    BY <1>2, <1>3

(* The lesser of two numbers *)
LEMMA MinOfTwo ==
    ASSUME NEW a \in Nat, NEW b \in Nat
    PROVE  Min({a, b}) \in {a, b} /\ Min({a, b}) <= a /\ Min({a, b}) <= b
<1>1. {a, b} \in SUBSET Nat /\ {a, b} # {}
    OBVIOUS
<1>2. Min({a, b}) \in {a, b} /\ \A n \in {a, b} : Min({a, b}) <= n
    BY <1>1, MinIsLeast
<1>3. QED
    BY <1>2

(* The values of a sequence are its elements. *)
LEMMA ValuesAreElements ==
    ASSUME NEW S, NEW s \in Seq(S)
    PROVE  \A w \in DOMAIN s : s[w] \in S
<1>1. Len(s) \in Nat /\ DOMAIN s = 1 .. Len(s)
    OBVIOUS
<1>2. \A w \in 1 .. Len(s) : s[w] \in S
    OBVIOUS
<1>3. QED
    BY <1>1, <1>2

(* The youngest op that retired is an op, or 0 before any has. *)
LEMMA LastIsOp ==
    ASSUME CoreTypes
    PROVE  LastOf(retired, 0) \in Nat
<1>1. retired \in Seq(1 .. MaxOp)
    BY DEF CoreTypes
<1>2. CASE retired = <<>>
    BY <1>2 DEF LastOf
<1>3. CASE retired # <<>>
    <2>1. Len(retired) \in 1 .. Len(retired)
        BY <1>1, <1>3
    <2>2. \A i \in DOMAIN retired : retired[i] \in 1 .. MaxOp
        BY <1>1, ValuesAreElements
    <2>5. DOMAIN retired = 1 .. Len(retired)
        BY <1>1
    <2>3. retired[Len(retired)] \in 1 .. MaxOp
        BY <2>1, <2>2, <2>5
    <2>6. 1 .. MaxOp \subseteq Nat
        BY CoreAssumption
    <2>4. QED
        BY <1>3, <2>3, <2>6 DEF LastOf
<1>4. QED
    BY <1>2, <1>3

(* What is fetched stays within the bounds of the run. *)
LEMMA FetchIsBounded ==
    ASSUME NEW c, Choice(c), CoreTypes
    PROVE  /\ c.fetch \in Nat /\ c.fetch <= FETCH_WIDTH /\ c.fetch <= MaxOp + 1 - serial
           /\ c.fetch > 0 => serial + c.fetch <= LastOf(retired, 0) + MaxSpan
<1> DEFINE reach == LastOf(retired, 0) + MaxSpan
           left == SerialLimit - serial
<1>1. serial \in Nat /\ serial <= MaxOp + 1 /\ MaxOp \in Nat /\ FETCH_WIDTH \in Nat
      /\ FETCH_WIDTH > 0
    BY CoreAssumption DEF CoreTypes
<1>2. reach \in Nat
    <2>1. MaxSpan \in Nat
        BY CoreAssumption
    <2>2. QED
        BY <2>1, LastIsOp
<1>3. SerialLimit \in Nat /\ SerialLimit <= MaxOp + 1 /\ SerialLimit <= reach
    <2>1. SerialLimit = Min({MaxOp + 1, reach})
        BY DEF SerialLimit
    <2> HIDE DEF reach
    <2>2. QED
        BY <1>1, <1>2, <2>1, MinOfTwo
<1>4. c.fetch \in IF left <= 0 THEN {0} ELSE 1 .. Min({left, FETCH_WIDTH})
    BY DEF Choice, FetchChoices
<1>5. left \in Int /\ left <= MaxOp + 1 - serial /\ serial + left <= reach /\ MaxOp + 1 - serial \in Nat
    <2>1. \A a, b, m, r \in Nat : b <= m /\ b <= r /\ a <= m =>
              b - a \in Int /\ b - a <= m - a /\ a + (b - a) <= r /\ m - a \in Nat
        OBVIOUS
    <2> HIDE DEF reach
    <2>2. QED
        BY <1>1, <1>2, <1>3, <2>1
<1> HIDE DEF reach, left
<1>6. \/ c.fetch = 0
      \/ c.fetch \in Nat /\ c.fetch <= left /\ c.fetch <= FETCH_WIDTH
    <2>1. CASE left <= 0
        BY <1>4, <2>1
    <2>2. CASE ~(left <= 0)
        <3>1. left \in Nat
            BY <1>5, <2>2
        <3>2. PICK m : m = Min({left, FETCH_WIDTH})
            OBVIOUS
        <3>3. m \in {left, FETCH_WIDTH} /\ m <= left /\ m <= FETCH_WIDTH
            BY <1>1, <3>1, <3>2, MinOfTwo
        <3>4. c.fetch \in 1 .. m
            BY <1>4, <2>2, <3>2
        <3>5. QED
            BY <1>1, <3>1, <3>3, <3>4
    <2>3. QED
        BY <2>1, <2>2
<1>7. c.fetch \in Nat /\ c.fetch <= FETCH_WIDTH /\ c.fetch <= MaxOp + 1 - serial
    BY <1>1, <1>5, <1>6
<1>8. c.fetch > 0 => serial + c.fetch <= reach
    BY <1>1, <1>2, <1>5, <1>6
<1>9. QED
    BY <1>7, <1>8 DEF reach

(* The ops fetched in a cycle *)
LEMMA NewOpsFacts ==
    ASSUME NEW c, Choice(c), CoreTypes
    PROVE  LET num == Cardinality(NewOps(c))
           IN  /\ num \in Nat /\ num <= FETCH_WIDTH /\ serial + num \in serial .. MaxOp + 1
               /\ NewOps(c) = serial .. serial + num - 1
<1>1. serial \in Nat /\ serial <= MaxOp + 1 /\ MaxOp \in Nat /\ FETCH_WIDTH \in Nat
    BY CoreAssumption DEF CoreTypes
<1>2. c.fetch \in Nat /\ c.fetch <= FETCH_WIDTH /\ c.fetch <= MaxOp + 1 - serial
    BY FetchIsBounded
<1>3. CASE NewOps(c) = {}
    BY <1>1, <1>3, FS_EmptySet
<1>4. CASE NewOps(c) = serial .. serial + c.fetch - 1
    <2> DEFINE w == c.fetch
    <2>3. w \in Nat /\ serial + w - 1 \in Int
        BY <1>1, <1>2
    <2>4. \A b \in Int : Cardinality(serial .. b) = IF serial > b THEN 0 ELSE b - serial + 1
        BY <1>1, FS_Interval
    <2>1. Cardinality(NewOps(c)) = c.fetch
        BY <1>1, <1>4, <2>3, <2>4
    <2>2. QED
        BY <1>1, <1>2, <1>4, <2>1
<1>5. QED
    BY <1>3, <1>4 DEF NewOps

(* What the front end is after the cycle *)
FrontMoves(c) ==
    LET next == NextFront(c)
        waiting == next["id"] \ NextPicked(c)
        old == RetiredOps \cup ListOps \cup next["ds"]
    IN  /\ next \in [FrontStages -> SUBSET (1 .. serial + Cardinality(NewOps(c)) - 1)]
        /\ NextPicked(c) \subseteq next["id"]
        /\ next["ds"] # {} => next["ds"] = front["rn"] /\ ~RnStageSendBubbleLower(c)
        /\ Before(old, next["rn"])
        /\ Before(old \cup next["rn"], waiting)
        /\ Before(old \cup next["rn"] \cup next["id"], next["pd"])
        /\ Before(old \cup next["rn"] \cup next["id"] \cup next["pd"], next["if"])

(* What dies in the cycle has left the front end after it. *)
FrontDeaths(c) ==
    LET next == NextFront(c)
        waiting == next["id"] \ NextPicked(c)
    IN  /\ \A n \in dead \cup NewlyDead(c) :
               n \notin next["if"] \cup next["pd"] \cup waiting \cup next["rn"] \cup next["ds"]
        /\ script.miss \in next["id"] =>
               \A n \in NextPicked(c) : n > script.miss => n \in dead \cup NewlyDead(c)

(* The front end as the following lemmas use it *)
FrontFacts ==
    /\ front["if"] \cup front["pd"] \cup front["id"] \cup front["rn"] \cup front["ds"]
          \cup RetiredOps \cup ListOps \cup dead \subseteq 1 .. serial - 1
    /\ serial \in Nat /\ serial > 0
    /\ picked \subseteq front["id"]

(* What the types say of the stages *)
LEMMA FrontFactsHold ==
    ASSUME CoreTypes
    PROVE  FrontFacts
<1>1. front["if"] \cup front["pd"] \cup front["id"] \cup front["rn"] \cup front["ds"]
        \subseteq 1 .. serial - 1
    BY DEF CoreTypes, FrontStages
<1>2. serial \in Nat /\ serial > 0
    <2>1. MaxOp \in Nat
        BY CoreAssumption
    <2>2. QED
        BY <2>1 DEF CoreTypes
<1>3. QED
    BY <1>1, <1>2 DEF CoreTypes, FrontFacts

(* Where the front end takes the ops of every stage in a cycle, whatever   *)
(* the controller decides                                                  *)
LEMMA FrontMovesHold ==
    ASSUME NEW c, Choice(c), CoreTypes, OrderInv
    PROVE  FrontMoves(c)
<1> DEFINE next == NextFront(c)
           end == serial + Cardinality(NewOps(c)) - 1
<1>1. FrontFacts /\ c.ifMiss \in BOOLEAN
    BY FrontFactsHold DEF Choice
<1>2. /\ Picks(c) \subseteq Waiting /\ Before(Picks(c), Waiting \ Picks(c))
    BY PicksAreOldest
<1>3. /\ NewOps(c) = serial .. end /\ end \in Nat /\ end >= serial - 1
    BY <1>1, NewOpsFacts DEF FrontFacts
<1>4. \A n \in 1 .. serial - 1 : n \in 1 .. end /\ \A m \in serial .. end : n < m /\ m \in 1 .. end
    BY <1>1, <1>3 DEF FrontFacts
<1>5. CASE phase = "recover0"
    <2>1. next = FrontIs(NewOps(c), {}, {}, {}, {}) /\ NextPicked(c) = {}
        BY <1>5, CycleOfRecovery
    <2>2. next \in [FrontStages -> SUBSET (1 .. end)]
        BY <1>1, <1>3, <1>4, <2>1 DEF FrontIs, FrontStages, FrontFacts
    <2>3. Before(RetiredOps \cup ListOps, NewOps(c))
        BY <1>1, <1>3, <1>4 DEF FrontFacts, Before
    <2>4. /\ next["if"] = NewOps(c) /\ next["pd"] = {} /\ next["id"] = {}
          /\ next["rn"] = {} /\ next["ds"] = {}
        BY <2>1 DEF FrontIs
    <2>5. /\ Before(RetiredOps \cup ListOps \cup next["ds"], next["rn"])
          /\ Before(RetiredOps \cup ListOps \cup next["ds"] \cup next["rn"],
                    next["id"] \ NextPicked(c))
          /\ Before(RetiredOps \cup ListOps \cup next["ds"] \cup next["rn"] \cup next["id"],
                    next["pd"])
        BY <2>4 DEF Before
    <2>6. /\ Before(RetiredOps \cup ListOps \cup next["ds"] \cup next["rn"] \cup next["id"]
                      \cup next["pd"], next["if"])
        <3>1. RetiredOps \cup ListOps \cup next["ds"] \cup next["rn"] \cup next["id"]
                      \cup next["pd"] = RetiredOps \cup ListOps
            BY <2>4
        <3>2. QED
            BY <2>3, <2>4, <3>1
    <2> HIDE DEF next
    <2>7. QED
        BY <2>1, <2>2, <2>4, <2>5, <2>6 DEF FrontMoves, next
<1>6. CASE phase # "recover0" /\ RnStageSendBubbleLower(c)
    <2>1. next = FrontIs(KeptInIf, front["pd"], front["id"], front["rn"], {})
          /\ NextPicked(c) = picked
        BY <1>6, CycleOfBubble
    <2>2. next \in [FrontStages -> SUBSET (1 .. end)]
        BY <1>1, <1>4, <2>1 DEF FrontIs, FrontStages, FrontFacts, KeptInIf
    <2>3. /\ next["if"] \subseteq front["if"] /\ next["pd"] = front["pd"]
          /\ next["id"] = front["id"] /\ next["rn"] = front["rn"] /\ next["ds"] = {}
        BY <2>1 DEF FrontIs, KeptInIf
    <2> HIDE DEF next
    <2>4. /\ Before(RetiredOps \cup ListOps \cup next["ds"], next["rn"])
          /\ Before(RetiredOps \cup ListOps \cup next["ds"] \cup next["rn"],
                    next["id"] \ NextPicked(c))
          /\ Before(RetiredOps \cup ListOps \cup next["ds"] \cup next["rn"] \cup next["id"],
                    next["pd"])
        BY <2>1, <2>3 DEF OrderInv, Before, Waiting
    <2>5. Before(RetiredOps \cup ListOps \cup next["ds"] \cup next["rn"] \cup next["id"]
                      \cup next["pd"], next["if"])
        BY <2>3 DEF OrderInv, Before
    <2>6. NextPicked(c) \subseteq next["id"]
        BY <1>1, <2>1, <2>3 DEF FrontFacts
    <2>7. QED
        BY <2>1, <2>2, <2>3, <2>4, <2>5, <2>6 DEF FrontMoves, next
<1>7. CASE phase # "recover0" /\ ~RnStageSendBubbleLower(c) /\ decFlush
    <2>1. next = FrontIs(NewOps(c), {}, {}, {}, front["rn"]) /\ NextPicked(c) = {}
        BY <1>7, CycleOfDecodeFlush
    <2>2. QED
        BY <1>1, <1>3, <1>4, <1>7, <2>1
           DEF FrontMoves, FrontIs, FrontFacts, FrontStages, Before
<1>8. CASE StallByDecodeStage(c)
    <2>1. /\ next = FrontIs(KeptInIf, front["pd"], front["id"], Picks(c) \ InsnFlushed, front["rn"])
          /\ NextPicked(c) = picked \cup Picks(c) \cup InsnFlushed
          /\ ~RnStageSendBubbleLower(c)
        BY <1>8, CycleOfDecodeStall
    <2>2. QED
        BY <1>1, <1>2, <1>4, <2>1
           DEF FrontMoves, FrontIs, FrontFacts, FrontStages, KeptInIf, OrderInv, Before, Waiting,
               InsnFlushed
<1>9. CASE /\ phase # "recover0" /\ ~RnStageSendBubbleLower(c) /\ ~decFlush
           /\ ~StallByDecodeStage(c)
    <2>1. /\ next = FrontIs(IF c.ifMiss THEN KeptInIf ELSE NewOps(c),
                            IF c.ifMiss THEN {} ELSE KeptInIf,
                            front["pd"], Picks(c) \ InsnFlushed, front["rn"])
          /\ NextPicked(c) = {} /\ Complete(c)
        BY <1>1, <1>9, CycleOfFlow
    <2>2. QED
        BY <1>1, <1>2, <1>3, <1>4, <1>9, <2>1
           DEF FrontMoves, FrontIs, FrontFacts, FrontStages, KeptInIf, OrderInv, Before, Waiting
<1>10. QED
    BY <1>5, <1>6, <1>7, <1>8, <1>9

(* Which ops of every stage die in a cycle *)
LEMMA FrontDeathsHold ==
    ASSUME NEW c, Choice(c), CoreTypes, OrderInv, StageInv, DeadInv
    PROVE  FrontDeaths(c)
<1> DEFINE next == NextFront(c)
<1>1. FrontFacts /\ c.ifMiss \in BOOLEAN
    BY FrontFactsHold DEF Choice
<1>2. /\ Picks(c) \subseteq Waiting /\ Before(Picks(c), Waiting \ Picks(c))
    BY PicksAreOldest
<1>3. NewOps(c) = serial .. serial + Cardinality(NewOps(c)) - 1
    BY NewOpsFacts
<1>4. \A n \in NewOps(c) : n \notin 1 .. serial - 1
    <2>1. serial \in Nat /\ Cardinality(NewOps(c)) \in Nat
        BY <1>1, NewOpsFacts DEF FrontFacts
    <2> HIDE DEF next
    <2>2. QED
        BY <1>3, <2>1
<1>a. /\ \A n \in 1 .. serial - 1 : ~(n < n)
      /\ front["rn"] \cap ListOps = {} /\ Waiting \cap (ListOps \cup front["rn"]) = {}
      /\ front["pd"] \cap (ListOps \cup front["rn"] \cup front["id"]) = {}
      /\ front["if"] \cap (ListOps \cup front["rn"] \cup front["id"] \cup front["pd"]) = {}
    BY <1>1 DEF FrontFacts, OrderInv, Before, Waiting
<1>b. FetchFlushed \subseteq front["if"] /\ InsnFlushed \subseteq front["id"]
    BY DEF FetchFlushed, InsnFlushed
<1>c. phase # "recover0" => SelectiveFlush = {}
    BY DEF SelectiveFlush
<1>d. SelectiveFlush \subseteq ListOps
    BY DEF SelectiveFlush, CoreTypes
<1>e. \A n \in InsnFlushed : n \in picked => n \in dead
    BY DEF InsnFlushed, DeadInv
<1>5. CASE phase = "recover0"
    <2>1. next = FrontIs(NewOps(c), {}, {}, {}, {}) /\ NextPicked(c) = {}
        BY <1>5, CycleOfRecovery
    <2>2. NewlyDead(c) \subseteq 1 .. serial - 1
        BY <1>1, <1>5, <1>b, <1>d, CycleOfRecovery DEF FrontFacts, ListOps, Waiting
    <2>3. QED
        BY <1>1, <1>4, <2>1, <2>2 DEF FrontDeaths, FrontIs, FrontFacts
<1>6. CASE phase # "recover0" /\ RnStageSendBubbleLower(c)
    <2>1. /\ next = FrontIs(KeptInIf, front["pd"], front["id"], front["rn"], {})
          /\ NextPicked(c) = picked
          /\ NewlyDead(c) = FetchFlushed
        BY <1>6, <1>c, CycleOfBubble
    <2>2. QED
        BY <1>a, <1>b, <2>1 DEF FrontDeaths, FrontIs, KeptInIf, DeadInv, Waiting
<1>7. CASE phase # "recover0" /\ ~RnStageSendBubbleLower(c) /\ decFlush
    <2>1. /\ next = FrontIs(NewOps(c), {}, {}, {}, front["rn"]) /\ NextPicked(c) = {}
          /\ NewlyDead(c) = front["if"] \cup front["pd"] \cup Waiting
                              \cup FetchFlushed \cup InsnFlushed
        BY <1>7, <1>c, CycleOfDecodeFlush
    <2>2. QED
        BY <1>1, <1>4, <1>a, <1>b, <1>e, <2>1 DEF FrontDeaths, FrontIs, FrontFacts, DeadInv, Waiting
<1>8. CASE StallByDecodeStage(c)
    <2>1. /\ next = FrontIs(KeptInIf, front["pd"], front["id"], Picks(c) \ InsnFlushed, front["rn"])
          /\ NextPicked(c) = picked \cup Picks(c) \cup InsnFlushed
          /\ NewlyDead(c) = FetchFlushed \cup InsnFlushed
        BY <1>8, <1>c, CycleOfDecodeStall
    <2>2. script.miss \in front["id"] =>
             \A n \in NextPicked(c) : n > script.miss => n \in dead \cup NewlyDead(c)
        BY <1>2, <2>1 DEF DeadInv, InsnFlushed, Waiting
    <2>3. QED
        BY <1>2, <1>a, <1>b, <1>e, <2>1, <2>2 DEF FrontDeaths, FrontIs, KeptInIf, DeadInv, Waiting
<1>9. CASE /\ phase # "recover0" /\ ~RnStageSendBubbleLower(c) /\ ~decFlush
           /\ ~StallByDecodeStage(c)
    <2>1. /\ next = FrontIs(IF c.ifMiss THEN KeptInIf ELSE NewOps(c),
                            IF c.ifMiss THEN {} ELSE KeptInIf,
                            front["pd"], Picks(c) \ InsnFlushed, front["rn"])
          /\ NextPicked(c) = {}
          /\ NewlyDead(c) = FetchFlushed \cup InsnFlushed
        BY <1>1, <1>9, <1>c, CycleOfFlow
    <2>2. QED
        BY <1>1, <1>2, <1>4, <1>a, <1>b, <1>e, <2>1
           DEF FrontDeaths, FrontIs, FrontFacts, KeptInIf, DeadInv, Waiting
<1>10. QED
    BY <1>5, <1>6, <1>7, <1>8, <1>9

-----------------------------------------------------------------------------
(* The active list in a cycle                                                *)

(* The constants of the core are numbers. *)
LEMMA BoundsOfCore ==
    /\ MaxOp \in Nat /\ FETCH_WIDTH \in Nat
    /\ COMMIT_WIDTH \in Nat /\ ACTIVE_LIST_ENTRY_NUM \in Nat /\ ACTIVE_LIST_ENTRY_NUM > 0
BY CoreAssumption

(* The entries of a list of ops *)
LEMMA EntriesOf ==
    ASSUME NEW s \in Seq(ListEntries)
    PROVE  /\ Len(s) \in Nat /\ DOMAIN s = 1 .. Len(s)
           /\ \A i \in 1 .. Len(s) :
                 /\ s[i] \in ListEntries
                 /\ s[i].op \in 1 .. MaxOp /\ s[i].op \in Nat /\ s[i].done \in BOOLEAN
<1>1. /\ Len(s) \in Nat /\ DOMAIN s = 1 .. Len(s)
      /\ \A i \in 1 .. Len(s) : s[i] \in ListEntries
    OBVIOUS
<1>2. MaxOp \in Nat
    BY BoundsOfCore
<1>3. \A e \in ListEntries : e.op \in 1 .. MaxOp /\ e.op \in Nat /\ e.done \in BOOLEAN
    BY <1>2 DEF ListEntries
<1>4. QED
    BY <1>1, <1>3

(* A sequence given by its elements *)
LEMMA SeqOfElements ==
    ASSUME NEW S, NEW n \in Nat, NEW s, s = [i \in 1 .. n |-> s[i]],
           \A i \in 1 .. n : s[i] \in S
    PROVE  s \in Seq(S) /\ Len(s) = n /\ DOMAIN s = 1 .. n
<1>1. s \in [1 .. n -> S]
    OBVIOUS
<1>2. QED
    BY <1>1, LenProperties

(* The concatenation of two sequences, by its elements *)
LEMMA ConcatElements ==
    ASSUME NEW S, NEW s \in Seq(S), NEW t \in Seq(S)
    PROVE  /\ s \o t \in Seq(S) /\ Len(s \o t) = Len(s) + Len(t)
           /\ \A i \in 1 .. Len(s) : (s \o t)[i] = s[i]
           /\ \A i \in 1 .. Len(t) : (s \o t)[Len(s) + i] = t[i]
<1>1. Len(s) \in Nat /\ Len(t) \in Nat
    OBVIOUS
<1>2. /\ s \o t \in Seq(S) /\ Len(s \o t) = Len(s) + Len(t)
      /\ \A i \in 1 .. Len(s) + Len(t) :
            (s \o t)[i] = IF i <= Len(s) THEN s[i] ELSE t[i - Len(s)]
    BY ConcatProperties
<1>3. QED
    BY <1>1, <1>2

(* The entries that a flush clears *)
DeadEntries == {i \in DOMAIN al : Dead(al[i])}

(* The entries of a wrong path are the last ones of the active list. *)
LEMMA DeadEntriesAreLast ==
    ASSUME CoreTypes, OrderInv
    PROVE  /\ DeadInList \in 0 .. Len(al)
           /\ DeadEntries = Len(al) - DeadInList + 1 .. Len(al)
<1> DEFINE len == Len(al)
<1>1. /\ len \in Nat /\ DOMAIN al = 1 .. len
      /\ \A i \in 1 .. len : al[i].op \in Nat
      /\ \A i, j \in 1 .. len : i < j => al[i].op < al[j].op
      /\ flushFrom \in Nat
    <2>1. al \in Seq(ListEntries) /\ flushFrom \in Nat
        BY DEF CoreTypes
    <2>2. QED
        BY <2>1, EntriesOf DEF OrderInv
<1>2. \A i \in 1 .. len : i \in DeadEntries <=> phase # "commit" /\ al[i].op >= flushFrom
    BY <1>1 DEF DeadEntries, Dead
<1>3. DeadEntries \subseteq 1 .. len
    BY <1>1 DEF DeadEntries
<1>4. DeadInList = Cardinality(DeadEntries)
    BY DEF DeadInList, DeadEntries
<1> HIDE DEF len
<1>5. CASE DeadEntries = {}
    BY <1>1, <1>4, <1>5, FS_EmptySet DEF len
<1>6. CASE DeadEntries # {}
    <2>1. DeadEntries \in SUBSET Nat
        BY <1>1, <1>3
    <2>2. PICK m \in DeadEntries : \A i \in DeadEntries : m <= i
        BY <1>6, <2>1, LeastElement
    <2>3. m \in 1 .. len /\ \A i \in m .. len : i \in DeadEntries
        <3>1. m \in 1 .. len
            BY <1>3, <2>2
        <3>2. ASSUME NEW i \in m .. len
              PROVE  i \in DeadEntries
            <4>1. i \in 1 .. len /\ (i = m \/ m < i)
                BY <1>1, <3>1
            <4>2. al[m].op <= al[i].op
                BY <1>1, <3>1, <4>1
            <4>3. QED
                BY <1>1, <1>2, <2>2, <3>1, <4>1, <4>2
        <3>3. QED
            BY <3>1, <3>2
    <2>4. DeadEntries = m .. len
        <3>1. \A i \in DeadEntries : i \in 1 .. len /\ m <= i
            BY <1>3, <2>2
        <3>2. ASSUME NEW i \in DeadEntries
              PROVE  i \in m .. len
            <4>1. i \in 1 .. len /\ m <= i /\ m \in 1 .. len /\ len \in Nat
                BY <1>1, <2>3, <3>1
            <4>2. QED
                BY <4>1
        <3>3. QED
            BY <2>3, <3>2
    <2>5. Cardinality(m .. len) = len - m + 1
        <3>1. m \in Int /\ len \in Int /\ ~(m > len)
            BY <1>1, <2>3
        <3>2. QED
            BY <3>1, FS_Interval
    <2>6. QED
        BY <1>1, <1>4, <2>3, <2>4, <2>5 DEF len
<1>7. QED
    BY <1>5, <1>6

(* The entries taken away at the two ends *)
LEMMA FlushNumFacts ==
    ASSUME CoreTypes, OrderInv, StageInv
    PROVE  /\ FlushNum \in Nat /\ FlushNum <= DeadInList /\ FlushNum <= COMMIT_WIDTH
           /\ commitNum \in Nat /\ commitNum + FlushNum <= Len(al)
           /\ FlushNum > 0 => phase = "recover1" /\ commitNum = 0
           /\ commitNum > 0 => phase = "commit"
<1>1. DeadInList \in 0 .. Len(al) /\ Len(al) \in Nat
    BY DeadEntriesAreLast DEF CoreTypes
<1>2. commitNum \in Nat /\ commitNum <= Len(al)
    BY BoundsOfCore DEF CoreTypes
<1>3. commitNum > 0 => phase = "commit"
    BY DEF StageInv
<1>4. /\ FlushNum \in Nat /\ FlushNum <= DeadInList /\ FlushNum <= COMMIT_WIDTH
      /\ FlushNum > 0 => phase = "recover1"
    BY <1>1, BoundsOfCore DEF FlushNum
<1>5. FlushNum > 0 => commitNum = 0
    BY <1>2, <1>3, <1>4
<1>6. QED
    BY <1>1, <1>2, <1>3, <1>4, <1>5

(* How many entries stay in the list, and which ops: of the others some    *)
(* are flushed from the young end and some commit at the old end.          *)
NumKept == Len(al) - FlushNum - commitNum

(* The active list after the cycle: the entries that are kept, in which    *)
(* the ops of the register write stage are done, and the new ones.         *)
LEMMA ListStep ==
    ASSUME NEW c, CoreTypes, OrderInv, StageInv, Choice(c), CoreClock(c)
    PROVE  LET ds  == NextFront(c)["ds"]
               w   == Cardinality(ds)
               new == Ascending(ds)
           IN  /\ front' = NextFront(c)
               /\ NumKept \in Nat /\ w \in Nat
               /\ new \in [1 .. w -> ds] /\ ds \in SUBSET (1 .. MaxOp)
               /\ \A i, j \in 1 .. w : i < j => new[i] < new[j]
               /\ \A n \in ds : \E i \in 1 .. w : new[i] = n
               /\ al' \in Seq(ListEntries) /\ Len(al') = NumKept + w
               /\ \A i \in 1 .. NumKept :
                     /\ al'[i].op = al[commitNum + i].op
                     /\ al'[i].done <=> \/ al[commitNum + i].done
                                        \/ al[commitNum + i].op \in InStage("RW")
               /\ \A i \in 1 .. w : al'[NumKept + i].op = new[i] /\ ~al'[NumKept + i].done
<1> DEFINE ds   == NextFront(c)["ds"]
           w    == Cardinality(ds)
           new  == Ascending(ds)
           kept == SubSeq(al, commitNum + 1, Len(al) - FlushNum)
           a    == [i \in DOMAIN kept |-> [kept[i] EXCEPT !.done = @ \/ kept[i].op \in InStage("RW")]]
           b    == [i \in DOMAIN new |-> [op |-> new[i], done |-> FALSE]]
<1>1. /\ FlushNum \in Nat /\ commitNum \in Nat /\ commitNum + FlushNum <= Len(al)
      /\ Len(al) \in Nat /\ MaxOp \in Nat /\ al \in Seq(ListEntries)
    BY FlushNumFacts, BoundsOfCore DEF CoreTypes
<1>2. NumKept \in Nat
    BY <1>1 DEF NumKept
<1>3. ds \in SUBSET (1 .. MaxOp)
    <2>1. FrontMoves(c)
        BY FrontMovesHold
    <2>2. ds \subseteq 1 .. serial - 1
        <3>1. ds = {} \/ ds = front["rn"]
            BY <2>1 DEF FrontMoves
        <3>2. QED
            BY <3>1 DEF CoreTypes, FrontStages
    <2>3. QED
        BY <1>1, <2>2 DEF CoreTypes
<1> HIDE DEF ds
<1>4. /\ w \in Nat /\ new \in [1 .. w -> ds]
      /\ \A i, j \in 1 .. w : i < j => new[i] < new[j]
      /\ \A n \in ds : \E i \in 1 .. w : new[i] = n
    <2>1. \A n \in ds : n \in 0 .. MaxOp
        BY <1>1, <1>3
    <2>2. QED
        BY <1>1, <2>1, AscendingFacts
<1>5. /\ kept \in Seq(ListEntries) /\ Len(kept) = NumKept
      /\ \A i \in 1 .. NumKept : kept[i] = al[commitNum + i]
    <2>1. kept = [i \in 1 .. NumKept |-> al[commitNum + i]]
        BY <1>1 DEF NumKept
    <2>2. \A i \in 1 .. NumKept : commitNum + i \in 1 .. Len(al) /\ al[commitNum + i] \in ListEntries
        BY <1>1, <1>2 DEF NumKept
    <2>3. /\ kept = [i \in 1 .. NumKept |-> kept[i]]
          /\ \A i \in 1 .. NumKept : kept[i] \in ListEntries /\ kept[i] = al[commitNum + i]
        BY <2>1, <2>2
    <2> HIDE DEF kept
    <2>4. QED
        BY <1>2, <2>3, SeqOfElements
<1> HIDE DEF kept, w, new
<1>6. a = [i \in 1 .. NumKept |-> [op |-> al[commitNum + i].op,
                                   done |-> \/ al[commitNum + i].done
                                            \/ al[commitNum + i].op \in InStage("RW")]]
    <2>1. DOMAIN kept = 1 .. NumKept
        BY <1>2, <1>5
    <2>2. ASSUME NEW i \in 1 .. NumKept
          PROVE  [kept[i] EXCEPT !.done = @ \/ kept[i].op \in InStage("RW")]
                   = [op |-> al[commitNum + i].op,
                      done |-> \/ al[commitNum + i].done
                               \/ al[commitNum + i].op \in InStage("RW")]
        <3>1. kept[i] \in ListEntries /\ kept[i] = al[commitNum + i]
            BY <1>2, <1>5, EntriesOf
        <3>2. \A x : [kept[i] EXCEPT !.done = x] = [op |-> kept[i].op, done |-> x]
            BY <3>1 DEF ListEntries
        <3> DEFINE x == kept[i].done \/ kept[i].op \in InStage("RW")
        <3>3. [kept[i] EXCEPT !.done = x] = [op |-> kept[i].op, done |-> x]
            BY <3>2
        <3>4. QED
            BY <3>1, <3>3
    <2>3. QED
        BY <2>1, <2>2
<1>7. ASSUME NEW i \in 1 .. NumKept
      PROVE  al[commitNum + i].op \in 1 .. MaxOp /\ al[commitNum + i].done \in BOOLEAN
    <2>1. i \in 1 .. Len(kept) /\ kept[i] = al[commitNum + i]
        BY <1>5
    <2>2. QED
        BY <1>5, <2>1, EntriesOf
<1>8. a \in Seq(ListEntries) /\ Len(a) = NumKept
    <2>1. /\ a = [i \in 1 .. NumKept |-> a[i]]
          /\ \A i \in 1 .. NumKept : a[i] \in ListEntries
        <3>1. ASSUME NEW i \in 1 .. NumKept
              PROVE  [op |-> al[commitNum + i].op,
                      done |-> \/ al[commitNum + i].done
                               \/ al[commitNum + i].op \in InStage("RW")] \in ListEntries
            <4>1. al[commitNum + i].op \in 1 .. MaxOp
                BY <1>7
            <4>2. QED
                BY <4>1 DEF ListEntries
        <3> HIDE DEF a
        <3>2. QED
            BY <1>6, <3>1
    <2> HIDE DEF a
    <2>2. QED
        BY <1>2, <2>1, SeqOfElements
<1>9. /\ b = [i \in 1 .. w |-> [op |-> new[i], done |-> FALSE]]
      /\ b \in Seq(ListEntries) /\ Len(b) = w
    <2>1. b = [i \in 1 .. w |-> [op |-> new[i], done |-> FALSE]]
        BY <1>4
    <2>2. \A i \in 1 .. w : [op |-> new[i], done |-> FALSE] \in ListEntries
        BY <1>3, <1>4 DEF ListEntries
    <2>3. b = [i \in 1 .. w |-> b[i]] /\ \A i \in 1 .. w : b[i] \in ListEntries
        BY <2>1, <2>2
    <2> HIDE DEF b
    <2>4. QED
        BY <1>4, <2>1, <2>3, SeqOfElements
<1> HIDE DEF a, b
<1>10. al' = a \o b /\ front' = NextFront(c)
    BY DEF CoreClock, NextActiveList, a, b, kept, new, ds
<1>11. /\ al' \in Seq(ListEntries) /\ Len(al') = NumKept + w
       /\ \A i \in 1 .. NumKept : al'[i] = a[i]
       /\ \A i \in 1 .. w : al'[NumKept + i] = b[i]
    <2>1. /\ a \o b \in Seq(ListEntries) /\ Len(a \o b) = Len(a) + Len(b)
          /\ \A i \in 1 .. Len(a) : (a \o b)[i] = a[i]
          /\ \A i \in 1 .. Len(b) : (a \o b)[Len(a) + i] = b[i]
        <3>1. a \in Seq(ListEntries) /\ b \in Seq(ListEntries)
            BY <1>8, <1>9
        <3>2. QED
            BY <3>1, ConcatElements
    <2>2. QED
        BY <1>8, <1>9, <1>10, <2>1
<1>12. /\ \A i \in 1 .. NumKept :
            /\ al'[i].op = al[commitNum + i].op
            /\ al'[i].done <=> \/ al[commitNum + i].done
                               \/ al[commitNum + i].op \in InStage("RW")
       /\ \A i \in 1 .. w : al'[NumKept + i].op = new[i] /\ ~al'[NumKept + i].done
    <2>1. ASSUME NEW i \in 1 .. NumKept
          PROVE  /\ al'[i].op = al[commitNum + i].op
                 /\ al'[i].done <=> \/ al[commitNum + i].done
                                    \/ al[commitNum + i].op \in InStage("RW")
        <3>1. al'[i] = a[i]
            BY <1>11
        <3>2. a[i] = [op |-> al[commitNum + i].op,
                      done |-> \/ al[commitNum + i].done
                               \/ al[commitNum + i].op \in InStage("RW")]
            BY <1>6
        <3>3. al[commitNum + i].done \in BOOLEAN
            BY <1>7
        <3>4. QED
            BY <3>1, <3>2, <3>3
    <2>2. ASSUME NEW i \in 1 .. w
          PROVE  al'[NumKept + i].op = new[i] /\ ~al'[NumKept + i].done
        <3>1. al'[NumKept + i] = b[i]
            BY <1>11
        <3>2. b[i] = [op |-> new[i], done |-> FALSE]
            BY <1>9
        <3>3. QED
            BY <3>1, <3>2
    <2>3. QED
        BY <2>1, <2>2
<1>13. QED
    BY <1>2, <1>3, <1>4, <1>10, <1>11, <1>12 DEF w, new, ds

KeptOps == {al[i].op : i \in commitNum + 1 .. Len(al) - FlushNum}

Committed == {al[i].op : i \in 1 .. commitNum}

(* The ops that commit in a cycle are in program order. *)
LEMMA OpsOfFacts ==
    ASSUME CoreTypes, OrderInv
    PROVE  LET ops == OpsOf(al, commitNum)
           IN  /\ ops \in Seq(1 .. MaxOp) /\ Len(ops) = commitNum /\ commitNum \in Nat
               /\ commitNum <= Len(al)
               /\ \A i \in 1 .. commitNum : ops[i] = al[i].op /\ i \in 1 .. Len(al)
               /\ \A i, j \in 1 .. commitNum : i < j => ops[i] < ops[j]
<1> DEFINE ops == OpsOf(al, commitNum)
<1>1. commitNum \in Nat /\ commitNum <= Len(al) /\ al \in Seq(ListEntries)
    BY BoundsOfCore DEF CoreTypes
<1>2. \A i \in 1 .. commitNum : i \in 1 .. Len(al) /\ al[i].op \in 1 .. MaxOp
    BY <1>1, EntriesOf
<1>3. ops = [i \in 1 .. commitNum |-> al[i].op]
    BY DEF OpsOf
<1>4. ops = [i \in 1 .. commitNum |-> ops[i]] /\ \A i \in 1 .. commitNum : ops[i] \in 1 .. MaxOp
    BY <1>2, <1>3
<1> HIDE DEF ops
<1>5. ops \in Seq(1 .. MaxOp) /\ Len(ops) = commitNum
    BY <1>1, <1>4, SeqOfElements
<1>6. \A i, j \in 1 .. commitNum : i < j => ops[i] < ops[j]
    <2>1. DOMAIN al = 1 .. Len(al)
        BY <1>1, EntriesOf
    <2>2. QED
        BY <1>2, <1>3, <2>1 DEF OrderInv
<1>7. QED
    BY <1>1, <1>2, <1>3, <1>5, <1>6 DEF ops

(* A cycle moves the committed ops from the list to the retired ops and    *)
(* appends the renamed ones to the list.                                   *)
LEMMA OpsStep ==
    ASSUME NEW c, CoreTypes, OrderInv, StageInv, Choice(c), CoreClock(c)
    PROVE  /\ ListOps' = KeptOps \cup NextFront(c)["ds"]
           /\ RetiredOps' = RetiredOps \cup Committed
           /\ retired' \in Seq(1 .. MaxOp) /\ Len(retired') = Len(retired) + commitNum
           /\ \A i \in 1 .. Len(retired) : retired'[i] = retired[i]
           /\ \A i \in 1 .. commitNum : retired'[Len(retired) + i] = al[i].op
           /\ KeptOps \subseteq ListOps /\ Committed \subseteq ListOps
           /\ Before(Committed, KeptOps)
           /\ NextFront(c)["ds"] \subseteq front["rn"]
<1> DEFINE ds  == NextFront(c)["ds"]
           w   == Cardinality(ds)
           new == Ascending(ds)
           ops == OpsOf(al, commitNum)
<1>1. /\ NumKept \in Nat /\ w \in Nat
      /\ new \in [1 .. w -> ds]
      /\ \A n \in ds : \E i \in 1 .. w : new[i] = n
      /\ al' \in Seq(ListEntries) /\ Len(al') = NumKept + w
      /\ \A i \in 1 .. NumKept : al'[i].op = al[commitNum + i].op
      /\ \A i \in 1 .. w : al'[NumKept + i].op = new[i]
    BY ListStep
<1>2. /\ FlushNum \in Nat /\ commitNum \in Nat /\ commitNum + FlushNum <= Len(al)
      /\ al \in Seq(ListEntries) /\ Len(al) \in Nat /\ DOMAIN al = 1 .. Len(al)
      /\ NumKept = Len(al) - FlushNum - commitNum
    <2>1. al \in Seq(ListEntries)
        BY DEF CoreTypes
    <2>2. QED
        BY <2>1, FlushNumFacts, EntriesOf DEF NumKept
<1> HIDE DEF ds, w, new
<1>3. DOMAIN al' = 1 .. NumKept + w
    BY <1>1, EntriesOf
<1>4. ListOps' = {al'[i].op : i \in 1 .. NumKept + w}
    BY <1>3 DEF ListOps
<1>5. ASSUME NEW n \in ListOps'
      PROVE  n \in KeptOps \cup ds
    <2>1. PICK i \in 1 .. NumKept + w : n = al'[i].op
        BY <1>4
    <2>2. CASE i \in 1 .. NumKept
        <3>1. n = al[commitNum + i].op /\ commitNum + i \in commitNum + 1 .. Len(al) - FlushNum
            BY <1>1, <1>2, <2>1, <2>2
        <3>2. QED
            BY <3>1 DEF KeptOps
    <2>3. CASE i \notin 1 .. NumKept
        <3>1. i - NumKept \in 1 .. w /\ NumKept + (i - NumKept) = i
            BY <1>1, <2>1, <2>3
        <3>2. n = new[i - NumKept]
            BY <1>1, <2>1, <3>1
        <3>3. QED
            BY <1>1, <3>1, <3>2
    <2>4. QED
        BY <2>2, <2>3
<1>6. ASSUME NEW n \in KeptOps
      PROVE  n \in ListOps' /\ n \in ListOps
    <2>1. PICK i \in commitNum + 1 .. Len(al) - FlushNum : n = al[i].op
        BY DEF KeptOps
    <2>2. i - commitNum \in 1 .. NumKept /\ commitNum + (i - commitNum) = i /\ i \in 1 .. Len(al)
        BY <1>2, <2>1
    <2>3. n = al'[i - commitNum].op /\ i - commitNum \in 1 .. NumKept + w
        BY <1>1, <2>1, <2>2
    <2>4. QED
        BY <1>2, <1>4, <2>1, <2>2, <2>3 DEF ListOps
<1>7. ASSUME NEW n \in ds
      PROVE  n \in ListOps'
    <2>1. PICK i \in 1 .. w : new[i] = n
        BY <1>1
    <2>2. n = al'[NumKept + i].op /\ NumKept + i \in 1 .. NumKept + w
        BY <1>1, <2>1
    <2>3. QED
        BY <1>4, <2>2
<1>8. ListOps' = KeptOps \cup ds
    BY <1>5, <1>6, <1>7
<1>9. /\ ops \in Seq(1 .. MaxOp) /\ Len(ops) = commitNum
      /\ \A i \in 1 .. commitNum : ops[i] = al[i].op /\ i \in 1 .. Len(al)
    BY OpsOfFacts
<1> HIDE DEF ops
<1>10. retired' = retired \o ops /\ retired \in Seq(1 .. MaxOp) /\ Len(retired) \in Nat
    BY DEF CoreClock, CoreTypes, ops
<1>11. /\ retired' \in Seq(1 .. MaxOp) /\ Len(retired') = Len(retired) + commitNum
       /\ \A i \in 1 .. Len(retired) : retired'[i] = retired[i]
       /\ \A i \in 1 .. commitNum : retired'[Len(retired) + i] = al[i].op
    <2>1. /\ retired \o ops \in Seq(1 .. MaxOp)
          /\ Len(retired \o ops) = Len(retired) + Len(ops)
          /\ \A i \in 1 .. Len(retired) : (retired \o ops)[i] = retired[i]
          /\ \A i \in 1 .. Len(ops) : (retired \o ops)[Len(retired) + i] = ops[i]
        <3>1. retired \in Seq(1 .. MaxOp) /\ ops \in Seq(1 .. MaxOp)
            BY <1>9, <1>10
        <3>2. QED
            BY <3>1, ConcatElements
    <2>2. QED
        BY <1>9, <1>10, <2>1
<1>12. RetiredOps = {retired[i] : i \in 1 .. Len(retired)}
    BY <1>10 DEF RetiredOps
<1>13. RetiredOps' = {retired'[i] : i \in 1 .. Len(retired) + commitNum}
    BY <1>11 DEF RetiredOps
<1>14. ASSUME NEW n \in RetiredOps'
       PROVE  n \in RetiredOps \cup Committed
    <2>1. PICK i \in 1 .. Len(retired) + commitNum : n = retired'[i]
        BY <1>13
    <2>2. CASE i \in 1 .. Len(retired)
        BY <1>11, <1>12, <2>1, <2>2
    <2>3. CASE i \notin 1 .. Len(retired)
        <3>1. i - Len(retired) \in 1 .. commitNum /\ Len(retired) + (i - Len(retired)) = i
            BY <1>2, <1>10, <2>1, <2>3
        <3>2. n = al[i - Len(retired)].op
            BY <1>11, <2>1, <3>1
        <3>3. QED
            BY <3>1, <3>2 DEF Committed
    <2>4. QED
        BY <2>2, <2>3
<1>15. ASSUME NEW n \in RetiredOps \cup Committed
       PROVE  n \in RetiredOps'
    <2>1. CASE n \in RetiredOps
        <3>1. PICK i \in 1 .. Len(retired) : n = retired[i]
            BY <1>12, <2>1
        <3>2. i \in 1 .. Len(retired) + commitNum /\ n = retired'[i]
            BY <1>2, <1>10, <1>11, <3>1
        <3>3. QED
            BY <1>13, <3>2
    <2>2. CASE n \in Committed
        <3>1. PICK i \in 1 .. commitNum : n = al[i].op
            BY <2>2 DEF Committed
        <3>2. Len(retired) + i \in 1 .. Len(retired) + commitNum /\ n = retired'[Len(retired) + i]
            BY <1>2, <1>10, <1>11, <3>1
        <3>3. QED
            BY <1>13, <3>2
    <2>3. QED
        BY <2>1, <2>2
<1>16. Committed \subseteq ListOps
    BY <1>2, <1>9 DEF Committed, ListOps
<1>17. Before(Committed, KeptOps)
    <2>1. SUFFICES ASSUME NEW i \in 1 .. commitNum, NEW j \in commitNum + 1 .. Len(al) - FlushNum
                   PROVE  al[i].op < al[j].op
        BY DEF Before, Committed, KeptOps
    <2>2. i \in 1 .. Len(al) /\ j \in 1 .. Len(al) /\ i < j
        BY <1>2
    <2>3. QED
        BY <1>2, <2>2 DEF OrderInv
<1>18. ds \subseteq front["rn"]
    BY FrontMovesHold DEF FrontMoves, ds
<1>19. RetiredOps' = RetiredOps \cup Committed
    BY <1>14, <1>15
<1>20. QED
    BY <1>6, <1>8, <1>11, <1>16, <1>17, <1>18, <1>19 DEF ds

(* Program order holds of subsets. *)
LEMMA BeforeSubsets ==
    ASSUME NEW S, NEW T, NEW A \in SUBSET S, NEW B \in SUBSET T, Before(S, T)
    PROVE  Before(A, B)
BY DEF Before

(* The order of the stages is kept. *)
LEMMA OrderStep ==
    ASSUME NEW c, CoreTypes, OrderInv, StageInv, Choice(c), CoreClock(c)
    PROVE  OrderInv'
<1> DEFINE ds  == NextFront(c)["ds"]
           w   == Cardinality(ds)
           new == Ascending(ds)
           old == RetiredOps \cup ListOps \cup ds
<1>1. /\ front' = NextFront(c)
      /\ NumKept \in Nat /\ w \in Nat
      /\ new \in [1 .. w -> ds] /\ ds \in SUBSET (1 .. MaxOp)
      /\ \A i, j \in 1 .. w : i < j => new[i] < new[j]
      /\ al' \in Seq(ListEntries) /\ Len(al') = NumKept + w
      /\ \A i \in 1 .. NumKept : al'[i].op = al[commitNum + i].op
      /\ \A i \in 1 .. w : al'[NumKept + i].op = new[i]
    BY ListStep
<1>2. /\ FlushNum \in Nat /\ commitNum \in Nat /\ commitNum + FlushNum <= Len(al)
      /\ al \in Seq(ListEntries) /\ Len(al) \in Nat /\ DOMAIN al = 1 .. Len(al)
      /\ NumKept = Len(al) - FlushNum - commitNum
    <2>1. al \in Seq(ListEntries)
        BY DEF CoreTypes
    <2>2. QED
        BY <2>1, FlushNumFacts, EntriesOf DEF NumKept
<1>3. /\ ListOps' = KeptOps \cup ds
      /\ RetiredOps' = RetiredOps \cup Committed
      /\ retired' \in Seq(1 .. MaxOp) /\ Len(retired') = Len(retired) + commitNum
      /\ \A i \in 1 .. Len(retired) : retired'[i] = retired[i]
      /\ \A i \in 1 .. commitNum : retired'[Len(retired) + i] = al[i].op
      /\ KeptOps \subseteq ListOps /\ Committed \subseteq ListOps
      /\ Before(Committed, KeptOps)
      /\ ds \subseteq front["rn"]
    BY OpsStep
<1>4. FrontMoves(c)
    BY FrontMovesHold
<1>5. front'["ds"] = ds /\ picked' = NextPicked(c)
    BY <1>1 DEF CoreClock
<1> HIDE DEF ds, w, new, old
<1>6. \A i, j \in DOMAIN al' : i < j => al'[i].op < al'[j].op
    <2>1. DOMAIN al' = 1 .. NumKept + w
        BY <1>1, EntriesOf
    <2>2. SUFFICES ASSUME NEW i \in 1 .. NumKept + w, NEW j \in 1 .. NumKept + w, i < j
                   PROVE  al'[i].op < al'[j].op
        BY <2>1
    <2>3. ASSUME NEW k \in 1 .. NumKept
          PROVE  /\ commitNum + k \in 1 .. Len(al) /\ al'[k].op = al[commitNum + k].op
                 /\ al'[k].op \in ListOps
        <3>1. commitNum + k \in 1 .. Len(al)
            BY <1>2
        <3>2. QED
            BY <1>1, <1>2, <3>1 DEF ListOps
    <2>4. ASSUME NEW k \in 1 .. NumKept + w, k \notin 1 .. NumKept
          PROVE  /\ k - NumKept \in 1 .. w /\ al'[k].op = new[k - NumKept]
                 /\ al'[k].op \in ds
        <3>1. k - NumKept \in 1 .. w /\ NumKept + (k - NumKept) = k
            BY <1>1, <2>4
        <3>2. al'[NumKept + (k - NumKept)].op = new[k - NumKept]
            BY <1>1, <3>1
        <3>3. QED
            BY <1>1, <3>1, <3>2
    <2>5. CASE i \in 1 .. NumKept /\ j \in 1 .. NumKept
        <3>1. commitNum + i < commitNum + j
            BY <1>2, <2>2, <2>5
        <3>2. QED
            BY <1>2, <2>3, <2>5, <3>1 DEF OrderInv
    <2>6. CASE i \in 1 .. NumKept /\ j \notin 1 .. NumKept
        BY <1>3, <2>3, <2>4, <2>6 DEF OrderInv, Before
    <2>7. CASE i \notin 1 .. NumKept
        <3>1. j \notin 1 .. NumKept
            BY <1>1, <2>2, <2>7
        <3>2. i - NumKept < j - NumKept
            BY <1>1, <2>2
        <3>3. QED
            BY <1>1, <2>4, <2>7, <3>1, <3>2
    <2>8. QED
        BY <2>5, <2>6, <2>7
<1>7. \A i, j \in DOMAIN retired' : i < j => retired'[i] < retired'[j]
    <2> DEFINE len == Len(retired)
    <2>1. len \in Nat /\ DOMAIN retired = 1 .. len /\ DOMAIN retired' = 1 .. len + commitNum
        BY <1>3 DEF CoreTypes
    <2>2. \A i \in 1 .. len : retired'[i] = retired[i]
        BY <1>3
    <2>3. \A i \in 1 .. commitNum : retired'[len + i] = al[i].op
        BY <1>3
    <2> HIDE DEF len
    <2>4. ASSUME NEW i \in 1 .. len + commitNum, i \notin 1 .. len
          PROVE  i - len \in 1 .. commitNum /\ retired'[i] = al[i - len].op
        <3>1. i - len \in 1 .. commitNum /\ len + (i - len) = i
            BY <1>2, <2>1, <2>4
        <3>2. QED
            BY <2>3, <3>1
    <2>5. SUFFICES ASSUME NEW i \in 1 .. len + commitNum, NEW j \in 1 .. len + commitNum, i < j
                   PROVE  retired'[i] < retired'[j]
        BY <2>1
    <2>6. CASE i \in 1 .. len /\ j \in 1 .. len
        BY <2>1, <2>2, <2>5, <2>6 DEF OrderInv
    <2>7. CASE i \in 1 .. len /\ j \notin 1 .. len
        <3>1. retired[i] \in RetiredOps
            BY <2>1, <2>7 DEF RetiredOps
        <3>2. al[j - len].op \in Committed
            BY <2>4, <2>7 DEF Committed
        <3>3. QED
            BY <1>3, <2>2, <2>4, <2>7, <3>1, <3>2 DEF OrderInv, Before
    <2>8. CASE i \notin 1 .. len
        <3>1. j \notin 1 .. len
            BY <1>2, <2>1, <2>5, <2>8
        <3>2. i - len < j - len
            BY <1>2, <2>1, <2>5
        <3>3. \A k \in 1 .. commitNum : k \in DOMAIN al
            BY <1>2
        <3>4. QED
            BY <2>4, <2>8, <3>1, <3>2, <3>3 DEF OrderInv
    <2>9. QED
        BY <2>6, <2>7, <2>8
<1>8. Before(RetiredOps', ListOps')
    BY <1>3 DEF OrderInv, Before
<1>9. RetiredOps' \cup ListOps' \subseteq old
    BY <1>3 DEF old
<1>10. /\ Before(old, front'["rn"])
       /\ Before(old \cup front'["rn"], Waiting')
       /\ Before(old \cup front'["rn"] \cup front'["id"], front'["pd"])
       /\ Before(old \cup front'["rn"] \cup front'["id"] \cup front'["pd"], front'["if"])
    BY <1>1, <1>4, <1>5 DEF FrontMoves, Waiting, old, ds
<1>11. Before(RetiredOps' \cup ListOps', front'["rn"])
    BY <1>9, <1>10 DEF Before
<1>12. Before(RetiredOps' \cup ListOps' \cup front'["rn"], Waiting')
    BY <1>9, <1>10 DEF Before
<1>13. Before(RetiredOps' \cup ListOps' \cup front'["rn"] \cup front'["id"], front'["pd"])
    BY <1>9, <1>10 DEF Before
<1>14. Before(RetiredOps' \cup ListOps' \cup front'["rn"] \cup front'["id"] \cup front'["pd"],
              front'["if"])
    BY <1>9, <1>10 DEF Before
<1>15. QED
    BY <1>6, <1>7, <1>8, <1>11, <1>12, <1>13, <1>14 DEF OrderInv

-----------------------------------------------------------------------------
(* The back end and the dead ops in a cycle                                  *)

(* Whose entry stays is neither retired nor taken back. *)
LEMMA KeptOpsAre ==
    ASSUME CoreTypes, OrderInv, StageInv, DeadInv
    PROVE  /\ \A n \in ListOps : n \in KeptOps \/ n \in Committed \/ n \in dead
           /\ \A n \in Committed : n \notin front["ds"] \cup DOMAIN back \cup dead
           /\ Committed # {} => phase = "commit"
           /\ \A n \in KeptOps : n \notin Committed
<1>1. /\ FlushNum \in Nat /\ FlushNum <= DeadInList
      /\ commitNum \in Nat /\ commitNum + FlushNum <= Len(al)
      /\ FlushNum > 0 => phase = "recover1" /\ commitNum = 0
      /\ commitNum > 0 => phase = "commit"
      /\ DeadInList \in 0 .. Len(al)
      /\ DeadEntries = Len(al) - DeadInList + 1 .. Len(al)
    BY FlushNumFacts, DeadEntriesAreLast
<1>2. /\ Len(al) \in Nat /\ DOMAIN al = 1 .. Len(al)
      /\ \A i \in 1 .. Len(al) : al[i].op \in Nat
    <2>1. al \in Seq(ListEntries)
        BY DEF CoreTypes
    <2>2. QED
        BY <2>1, EntriesOf
<1>3. ASSUME NEW n \in ListOps
      PROVE  n \in KeptOps \/ n \in Committed \/ n \in dead
    <2>1. PICK i \in 1 .. Len(al) : n = al[i].op
        BY <1>2 DEF ListOps
    <2>2. CASE i <= commitNum
        <3>1. i \in 1 .. commitNum
            BY <1>1, <1>2, <2>2
        <3>2. QED
            BY <2>1, <3>1 DEF Committed
    <2>3. CASE i > commitNum /\ i <= Len(al) - FlushNum
        <3>1. i \in commitNum + 1 .. Len(al) - FlushNum
            BY <1>1, <1>2, <2>3
        <3>2. QED
            BY <2>1, <3>1 DEF KeptOps
    <2>4. CASE i > Len(al) - FlushNum
        <3>1. i \in Len(al) - DeadInList + 1 .. Len(al) /\ FlushNum > 0
            BY <1>1, <1>2, <2>4
        <3>2. i \in DeadEntries
            BY <1>1, <3>1
        <3>3. Dead(al[i]) /\ phase = "recover1"
            BY <1>1, <3>1, <3>2 DEF DeadEntries
        <3>4. n >= flushFrom
            BY <2>1, <3>3 DEF Dead
        <3>5. QED
            BY <3>3, <3>4 DEF DeadInv
    <2>5. QED
        BY <1>1, <1>2, <2>2, <2>3, <2>4
<1>4. Committed # {} => phase = "commit"
    <2>1. Committed # {} => commitNum > 0
        BY <1>1 DEF Committed
    <2>2. QED
        BY <1>1, <2>1
<1>5. ASSUME NEW n \in Committed
      PROVE  n \notin front["ds"] \cup DOMAIN back \cup dead
    <2>1. PICK i \in 1 .. commitNum : n = al[i].op
        BY DEF Committed
    <2>2. i \in DOMAIN al /\ al[i].done
        BY <1>1, <1>2, <2>1 DEF StageInv
    <2>3. n \in ListOps
        BY <2>1, <2>2 DEF ListOps
    <2>4. phase # "recover1"
        BY <1>4
    <2>5. QED
        BY <2>1, <2>2, <2>3, <2>4 DEF StageInv, DeadInv
<1>6. \A n \in KeptOps : n \notin Committed
    <2>1. SUFFICES ASSUME NEW i \in commitNum + 1 .. Len(al) - FlushNum, NEW j \in 1 .. commitNum,
                          al[i].op = al[j].op
                   PROVE  FALSE
        BY DEF KeptOps, Committed
    <2>2. i \in 1 .. Len(al) /\ j \in 1 .. Len(al) /\ j < i
        BY <1>1, <1>2
    <2>3. al[j].op < al[i].op
        BY <1>2, <2>2 DEF OrderInv
    <2>4. QED
        BY <1>2, <2>1, <2>2, <2>3
<1>7. QED
    BY <1>3, <1>4, <1>5, <1>6

(* The ops of the back end that neither are flushed nor finish *)
Staying == DOMAIN back \ (SelectiveFlush \cup InStage("RW"))

(* A cycle moves the ops that stay in the back end on and adds the         *)
(* dispatched ones.                                                        *)
LEMMA BackStep ==
    ASSUME NEW c, CoreTypes, OrderInv, StageInv, DeadInv, Choice(c), CoreClock(c)
    PROVE  LET new == IF phase = "recover0" THEN {} ELSE front["ds"]
           IN  /\ DOMAIN back' = Staying \cup new
               /\ \A n \in new : back'[n] = "SC"
               /\ \A n \in Staying : n \notin new /\ back'[n] = NextStage(n, c)
               /\ DOMAIN back' \subseteq KeptOps
<1> DEFINE new == IF phase = "recover0" THEN {} ELSE front["ds"]
<1>1. Controller(c).ds.clear <=> phase = "recover0"
    <2>1. CASE phase = "recover0"
        BY <2>1, CycleOfRecovery DEF CtrlIs, Flush, Ctrl
    <2>2. CASE phase # "recover0" /\ RnStageSendBubbleLower(c)
        BY <2>2, CycleOfBubble DEF CtrlIs, Go, Ctrl
    <2>3. CASE phase # "recover0" /\ ~RnStageSendBubbleLower(c) /\ decFlush
        BY <2>3, CycleOfDecodeFlush DEF CtrlIs, Go, Ctrl
    <2>4. CASE StallByDecodeStage(c)
        <3>1. /\ Controller(c) = CtrlIs(Stall, Stall, Stall, Stall, Go, Go)
              /\ phase # "recover0"
            BY <2>4, CycleOfDecodeStall
        <3>2. QED
            BY <3>1 DEF CtrlIs, Go, Ctrl
    <2>5. CASE /\ phase # "recover0" /\ ~RnStageSendBubbleLower(c) /\ ~decFlush
               /\ ~StallByDecodeStage(c)
        <3>1. c.ifMiss \in BOOLEAN
            BY DEF Choice
        <3>2. Controller(c) = CtrlIs(NpCtrl(c), IfCtrl(c), Go, Go, Go, Go)
            BY <2>5, <3>1, CycleOfFlow
        <3>3. QED
            BY <2>5, <3>2 DEF CtrlIs, Go, Ctrl
    <2>6. QED
        BY <2>1, <2>2, <2>3, <2>4, <2>5
<1>2. back' = [n \in Staying \cup new |-> IF n \in new THEN "SC" ELSE NextStage(n, c)]
    BY <1>1 DEF CoreClock, NextBack, Staying
<1>3. \A n \in Staying : n \notin new
    BY DEF Staying, StageInv
<1>4. ASSUME NEW n \in Staying \cup new
      PROVE  n \in KeptOps
    <2>1. n \in ListOps /\ n \notin dead /\ n \in front["ds"] \cup DOMAIN back
        BY DEF Staying, StageInv, CoreTypes, DeadInv
    <2>2. QED
        BY <2>1, KeptOpsAre
<1> HIDE DEF new
<1>5. QED
    BY <1>2, <1>3, <1>4 DEF new

(* Every op belongs to one of the four pipelines. *)
LEMMA PipesOfOps ==
    ASSUME NEW n \in 1 .. MaxOp
    PROVE  PipeOf[n] \in {"int", "complex", "mem", "fp"}
BY CoreAssumption DEF Range, Pipes

(* Which stages an op can come from: an op is in register read only after  *)
(* issue or a replay.                                                      *)
LEMMA NextStageIs ==
    ASSUME NEW c, CoreTypes, Choice(c), NEW n \in Staying
    PROVE  /\ NextStage(n, c) \in BackStages
           /\ NextStage(n, c) = "IS" =>
                 (back[n] = "SC" /\ n \in c.issue) \/ (back[n] = "IS" /\ c.reissue # {})
           /\ NextStage(n, c) = "RR" =>
                 (back[n] = "IS" /\ c.reissue = {}) \/ n \in c.reissue
           /\ NextStage(n, c) = "EX" => back[n] = "RR"
<1>1. n \in 1 .. MaxOp
    <2>1. n \in 1 .. serial - 1 /\ serial \in 1 .. MaxOp + 1
        BY DEF Staying, CoreTypes
    <2>2. QED
        BY <2>1, BoundsOfCore
<1>2. PipeOf[n] \in {"int", "complex", "mem", "fp"}
    BY <1>1, PipesOfOps
<1>3. back[n] \in BackStages \ {"RW"}
    BY DEF CoreTypes, Staying, InStage
<1>4. CASE back[n] = "SC"
    BY <1>4 DEF NextStage, BackStages
<1>5. CASE back[n] = "IS"
    BY <1>5 DEF NextStage, BackStages
<1>6. CASE back[n] = "RR"
    BY <1>6 DEF NextStage, BackStages
<1>7. CASE back[n] = "EX"
    BY <1>2, <1>7 DEF NextStage, BackStages
<1>8. CASE back[n] = "MT"
    BY <1>8 DEF NextStage, BackStages
<1>9. CASE back[n] \in {"MA", "EX2"}
    BY <1>9 DEF NextStage, BackStages
<1>10. CASE back[n] = "replay"
    BY <1>10 DEF NextStage, BackStages
<1>11. QED
    BY <1>3, <1>4, <1>5, <1>6, <1>7, <1>8, <1>9, <1>10 DEF BackStages

(* The first stages of the back end take one op in a cycle. *)
LEMMA StageStep ==
    ASSUME NEW c, CoreTypes, OrderInv, StageInv, DeadInv, Choice(c), CoreClock(c)
    PROVE  StageInv'
<1> DEFINE ds == NextFront(c)["ds"]
           w   == Cardinality(ds)
           new == IF phase = "recover0" THEN {} ELSE front["ds"]
<1>1. /\ front' = NextFront(c)
      /\ NumKept \in Nat /\ w \in Nat
      /\ al' \in Seq(ListEntries) /\ Len(al') = NumKept + w
      /\ \A i \in 1 .. NumKept :
            /\ al'[i].op = al[commitNum + i].op
            /\ al'[i].done <=> \/ al[commitNum + i].done
                               \/ al[commitNum + i].op \in InStage("RW")
      /\ \A i \in 1 .. w : ~al'[NumKept + i].done
    BY ListStep
<1>2. /\ ListOps' = KeptOps \cup ds /\ KeptOps \subseteq ListOps /\ ds \subseteq front["rn"]
    BY OpsStep
<1>3. /\ DOMAIN back' = Staying \cup new
      /\ \A n \in new : back'[n] = "SC"
      /\ \A n \in Staying : n \notin new /\ back'[n] = NextStage(n, c)
      /\ DOMAIN back' \subseteq KeptOps
    BY BackStep
<1>4. FlushNum \in Nat /\ commitNum \in Nat /\ commitNum + FlushNum <= Len(al)
      /\ Len(al) \in Nat /\ DOMAIN al = 1 .. Len(al)
    <2>1. al \in Seq(ListEntries)
        BY DEF CoreTypes
    <2>2. QED
        BY <2>1, FlushNumFacts, EntriesOf
<1>5. front'["ds"] = ds
    BY <1>1
<1> HIDE DEF ds, w, new
<1>6. ds \cap ListOps = {}
    <2>1. \A n \in ListOps : n \in Nat
        BY BoundsOfCore DEF CoreTypes
    <2>2. QED
        BY <1>2, <2>1 DEF OrderInv, Before
<1>7. front'["ds"] \subseteq ListOps' /\ front'["ds"] \cap DOMAIN back' = {}
    BY <1>2, <1>3, <1>5, <1>6
<1>8. ASSUME NEW i \in DOMAIN al', al'[i].done
      PROVE  al'[i].op \notin front'["ds"] \cup DOMAIN back'
    <2>1. i \in 1 .. NumKept + w
        BY <1>1, EntriesOf
    <2>2. i \in 1 .. NumKept
        <3>1. SUFFICES ASSUME i \notin 1 .. NumKept
                       PROVE  FALSE
            OBVIOUS
        <3>2. i - NumKept \in 1 .. w /\ NumKept + (i - NumKept) = i
            BY <1>1, <2>1, <3>1
        <3>3. QED
            BY <1>1, <1>8, <3>2
    <2>3. commitNum + i \in DOMAIN al
        BY <1>4, <2>2 DEF NumKept
    <2> DEFINE n == al[commitNum + i].op
    <2>4. n \in ListOps /\ al'[i].op = n
        BY <1>1, <2>2, <2>3 DEF ListOps
    <2>5. al[commitNum + i].done \/ n \in InStage("RW")
        BY <1>1, <1>8, <2>2
    <2>6. n \notin Staying \cup front["ds"]
        BY <2>3, <2>5 DEF Staying, StageInv, InStage
    <2>7. QED
        BY <1>3, <1>5, <1>6, <2>4, <2>6 DEF new
<1>9. /\ \A i \in 1 .. commitNum' : al'[i].done
      /\ phase' # "commit" => commitNum' = 0
    <2>1. commitNum' \in CommitChoices(al', phase')
        BY DEF CoreClock
    <2>2. QED
        BY <2>1 DEF CommitChoices
<1>10. /\ c.reissue = {} \/ \A m, n \in c.reissue : m = n
       /\ \A m, n \in c.issue : m = n
       /\ c.reissue # {} => c.issue = {}
    <2>1. \A S, T : S \in AtMostOne(T) => \A m, n \in S : m = n
        BY DEF AtMostOne
    <2>2. QED
        BY <2>1 DEF Choice
<1>11. ASSUME NEW m \in DOMAIN back', NEW n \in DOMAIN back', back'[m] = back'[n],
              back'[m] \in {"IS", "RR", "EX"}
       PROVE  m = n
    <2>1. m \in Staying /\ n \in Staying
        BY <1>3, <1>11
    <2>2. back'[m] = NextStage(m, c) /\ back'[n] = NextStage(n, c)
        BY <1>3, <2>1
    <2>3. m \in DOMAIN back /\ n \in DOMAIN back
        BY <2>1 DEF Staying
    <2>4. CASE back'[m] = "IS"
        BY <1>10, <1>11, <2>1, <2>2, <2>3, <2>4, NextStageIs DEF StageInv, InStage
    <2>5. CASE back'[m] = "RR"
        BY <1>10, <1>11, <2>1, <2>2, <2>3, <2>5, NextStageIs DEF StageInv, InStage
    <2>6. CASE back'[m] = "EX"
        BY <1>11, <2>1, <2>2, <2>3, <2>6, NextStageIs DEF StageInv, InStage
    <2>7. QED
        BY <1>11, <2>4, <2>5, <2>6
<1>12. QED
    BY <1>7, <1>8, <1>9, <1>11 DEF StageInv, InStage

(* Where a failure is found, and what is then the first op to flush *)
LEMMA FailFacts ==
    ASSUME NEW c, CoreTypes, Choice(c), c.fail # {}
    PROVE  /\ phase = "commit"
           /\ \E n \in ListOps : Min({f.from : f \in c.fail}) \in {n, n + 1}
<1>1. PICK f \in Failing : c.fail = {f}
    BY DEF Choice, AtMostOne
<1>2. phase = "commit"
    BY <1>1 DEF Failing
<1>3. PICK n \in ListOps : f.from \in {n, n + 1}
    <2>1. (\E n \in InStage("RW") : f = [from |-> n + 1])
            \/ \E k \in DOMAIN al : f = [from |-> al[k].op]
        BY <1>1 DEF Failing
    <2>2. CASE \E n \in InStage("RW") : f = [from |-> n + 1]
        <3>1. PICK n \in InStage("RW") : f = [from |-> n + 1]
            BY <2>2
        <3>2. n \in ListOps
            BY DEF InStage, CoreTypes
        <3>3. f.from = n + 1
            BY <3>1
        <3>4. QED
            BY <3>2, <3>3
    <2>3. CASE \E k \in DOMAIN al : f = [from |-> al[k].op]
        <3>1. PICK k \in DOMAIN al : f = [from |-> al[k].op]
            BY <2>3
        <3>2. al[k].op \in ListOps /\ f.from = al[k].op
            BY <3>1 DEF ListOps
        <3>3. QED
            BY <3>2
    <2>4. QED
        BY <2>1, <2>2, <2>3
<1>4. f.from \in Nat
    <2>1. n \in Nat /\ n + 1 \in Nat
        BY BoundsOfCore DEF CoreTypes
    <2>2. QED
        BY <1>3, <2>1
<1>5. {g.from : g \in c.fail} = {f.from}
    BY <1>1
<1>6. Min({f.from}) = f.from
    <2>1. {f.from} \in SUBSET Nat /\ {f.from} # {}
        BY <1>4
    <2>2. Min({f.from}) \in {f.from}
        BY <2>1, MinIsLeast
    <2>3. QED
        BY <2>2
<1>7. QED
    BY <1>2, <1>3, <1>5, <1>6

(* What dies in a cycle, by where it was *)
LEMMA NewlyDeadIs ==
    ASSUME NEW c, CoreTypes, OrderInv, StageInv, DeadInv, Choice(c)
    PROVE  /\ NewlyDead(c) \subseteq 1 .. serial - 1
           /\ NewlyDead(c) \cap RetiredOps = {}
           /\ phase = "recover0" => \A n \in ListOps : n \in NewlyDead(c) <=> n >= flushFrom
           /\ phase # "recover0" => \A n \in NewlyDead(c) : n \in ListOps => n \in dead
<1>1. FrontFacts
    BY FrontFactsHold
<1> DEFINE early == front["if"] \cup front["pd"] \cup front["id"] \cup front["rn"]
           listed == {al[i].op : i \in {j \in DOMAIN al : Dead(al[j])}}
<1>2. /\ FetchFlushed \cup InsnFlushed \cup front["if"] \cup front["pd"] \cup Waiting
            \cup front["rn"] \subseteq early
    BY DEF FetchFlushed, InsnFlushed, Waiting
<1>3. \A n \in early : n \in ListOps => n \in front["id"] /\ n \notin Waiting
    BY <1>1 DEF OrderInv, Before, FrontFacts
<1>4. \A n \in early : n \notin RetiredOps \/ (n \in front["id"] /\ n \notin Waiting)
    BY <1>1 DEF OrderInv, Before, FrontFacts
<1>5. \A n \in InsnFlushed : n \notin Waiting => n \in dead
    BY DEF InsnFlushed, Waiting, DeadInv
<1>6. ListOps \cap RetiredOps = {}
    BY <1>1 DEF OrderInv, Before, FrontFacts
<1>7. listed \subseteq ListOps /\ SelectiveFlush \subseteq ListOps /\ front["ds"] \subseteq ListOps
    BY DEF ListOps, SelectiveFlush, CoreTypes, StageInv
<1> HIDE DEF early
<1>8. CASE phase = "recover0"
    <2>1. NewlyDead(c) = front["if"] \cup front["pd"] \cup Waiting \cup front["rn"]
                           \cup front["ds"] \cup SelectiveFlush \cup FetchFlushed
                           \cup InsnFlushed \cup listed
        BY <1>8, CycleOfRecovery
    <2>2. \A n \in ListOps : n \in listed <=> n >= flushFrom
        BY <1>8 DEF ListOps, Dead
    <2> HIDE DEF listed
    <2>3. NewlyDead(c) \subseteq early \cup ListOps
        BY <1>2, <1>7, <2>1
    <2>4. NewlyDead(c) \subseteq 1 .. serial - 1
        BY <1>1, <2>3 DEF FrontFacts, early
    <2>5. NewlyDead(c) \cap RetiredOps = {}
        <3>1. ASSUME NEW n \in NewlyDead(c), n \in RetiredOps
              PROVE  FALSE
            <4>1. n \notin dead /\ n \notin ListOps
                BY <1>6, <3>1 DEF DeadInv
            <4>2. n \in early /\ n \notin Waiting /\ n \in front["id"]
                BY <1>4, <2>3, <3>1, <4>1
            <4>3. n \notin front["rn"] /\ n \notin front["pd"] /\ n \notin front["if"]
                BY <1>1, <3>1 DEF OrderInv, Before, FrontFacts
            <4>4. n \in InsnFlushed
                BY <1>7, <2>1, <4>1, <4>2, <4>3 DEF FetchFlushed
            <4>5. QED
                BY <1>5, <4>1, <4>2, <4>4
        <3>2. QED
            BY <3>1
    <2>6. ASSUME NEW n \in ListOps, n \in NewlyDead(c)
          PROVE  n >= flushFrom
        <3>1. n \notin dead
            BY <1>8 DEF DeadInv
        <3>2. CASE n \in listed
            BY <2>2, <3>2
        <3>3. CASE n \in SelectiveFlush
            BY <1>8, <3>3 DEF SelectiveFlush
        <3>4. CASE n \in front["ds"]
            BY <1>8, <3>4 DEF DeadInv
        <3>5. CASE n \in front["if"] \cup front["pd"] \cup Waiting \cup front["rn"]
                            \cup FetchFlushed \cup InsnFlushed
            <4>1. n \in early /\ n \in front["id"] /\ n \notin Waiting
                BY <1>2, <1>3, <3>5
            <4>2. n \notin front["rn"] /\ n \notin front["pd"] /\ n \notin front["if"]
                BY <1>1, <2>6 DEF OrderInv, Before, FrontFacts
            <4>3. n \in InsnFlushed
                BY <3>5, <4>1, <4>2 DEF FetchFlushed
            <4>4. QED
                BY <1>5, <3>1, <4>1, <4>3
        <3>6. QED
            BY <2>1, <2>6, <3>2, <3>3, <3>4, <3>5
    <2>7. QED
        BY <1>8, <2>1, <2>2, <2>4, <2>5, <2>6
<1>9. CASE phase # "recover0"
    <2>1. SelectiveFlush = {} /\ c.ifMiss \in BOOLEAN
        BY <1>9 DEF SelectiveFlush, Choice
    <2>2. NewlyDead(c) \subseteq front["if"] \cup front["pd"] \cup Waiting \cup InsnFlushed
        <3>1. FetchFlushed \subseteq front["if"]
            BY DEF FetchFlushed
        <3>2. CASE RnStageSendBubbleLower(c)
            BY <1>9, <2>1, <3>1, <3>2, CycleOfBubble
        <3>3. CASE ~RnStageSendBubbleLower(c) /\ decFlush
            BY <1>9, <2>1, <3>1, <3>3, CycleOfDecodeFlush
        <3>4. CASE StallByDecodeStage(c)
            BY <2>1, <3>1, <3>4, CycleOfDecodeStall
        <3>5. CASE ~RnStageSendBubbleLower(c) /\ ~decFlush /\ ~StallByDecodeStage(c)
            BY <1>9, <2>1, <3>1, <3>5, CycleOfFlow
        <3>6. QED
            BY <3>2, <3>3, <3>4, <3>5
    <2>3. NewlyDead(c) \subseteq 1 .. serial - 1
        BY <1>1, <1>2, <2>2 DEF FrontFacts, early
    <2>4. ASSUME NEW n \in NewlyDead(c)
          PROVE  (n \in ListOps => n \in dead) /\ n \notin RetiredOps
        <3>1. n \in early
            BY <1>2, <2>2
        <3>2. ASSUME n \in ListOps \cup RetiredOps
              PROVE  n \in dead
            <4>1. n \in front["id"] /\ n \notin Waiting
                BY <1>3, <1>4, <3>1, <3>2
            <4>2. n \notin front["pd"] /\ n \notin front["if"]
                BY <1>1, <3>2 DEF OrderInv, Before, FrontFacts
            <4>3. n \in InsnFlushed
                BY <2>2, <4>1, <4>2
            <4>4. QED
                BY <1>5, <4>1, <4>3
        <3>3. n \in RetiredOps => n \notin dead
            BY DEF DeadInv
        <3>4. QED
            BY <3>2, <3>3
    <2>5. QED
        BY <1>9, <2>3, <2>4
<1>10. QED
    BY <1>8, <1>9

(* The ops fetched so far stay fetched. *)
LEMMA LongerInterval ==
    ASSUME NEW m \in Nat, NEW n \in Nat, m <= n
    PROVE  1 .. m - 1 \subseteq 1 .. n - 1
OBVIOUS

(* A cycle keeps the types. *)
LEMMA TypesStep ==
    ASSUME NEW c, CoreTypes, OrderInv, StageInv, DeadInv, Choice(c), CoreClock(c)
    PROVE  CoreTypes'
<1> DEFINE ds == NextFront(c)["ds"]
           num == Cardinality(NewOps(c))
<1>1. /\ num \in Nat /\ serial + num \in serial .. MaxOp + 1 /\ serial \in 1 .. MaxOp + 1
      /\ serial' = serial + num
    BY NewOpsFacts DEF CoreTypes, CoreClock
<1>2. FrontMoves(c) /\ front' = NextFront(c) /\ picked' = NextPicked(c)
    BY FrontMovesHold DEF CoreClock
<1>3. al' \in Seq(ListEntries)
    BY ListStep
<1>4. /\ ListOps' = KeptOps \cup ds
      /\ RetiredOps' = RetiredOps \cup Committed
      /\ retired' \in Seq(1 .. MaxOp)
      /\ KeptOps \subseteq ListOps /\ Committed \subseteq ListOps
      /\ ds \subseteq front["rn"]
    BY OpsStep
<1>5. NewlyDead(c) \subseteq 1 .. serial - 1
    BY NewlyDeadIs
<1> HIDE DEF ds, num
<1>6. 1 .. serial - 1 \subseteq 1 .. serial' - 1
    <2>1. serial \in Nat /\ serial' \in Nat /\ serial <= serial'
        <3>1. MaxOp \in Nat
            BY BoundsOfCore
        <3>2. QED
            BY <1>1, <3>1
    <2>2. QED
        BY <2>1, LongerInterval
<1>7. serial' \in 1 .. MaxOp + 1
    BY <1>1, BoundsOfCore
<1>8. front' \in [FrontStages -> SUBSET (1 .. serial' - 1)] /\ picked' \subseteq front'["id"]
    BY <1>1, <1>2 DEF FrontMoves, num
<1>9. decFlush' \in BOOLEAN
    BY DEF CoreClock, NextDecFlush, CoreTypes
<1>10. headPtr' \in 0 .. ACTIVE_LIST_ENTRY_NUM - 1
    <2>1. headPtr' = (headPtr + commitNum) % ACTIVE_LIST_ENTRY_NUM
        BY DEF CoreClock
    <2>2. headPtr + commitNum \in Int
        BY BoundsOfCore DEF CoreTypes
    <2>3. QED
        BY <2>1, <2>2, BoundsOfCore
<1>11. phase' \in {"commit", "recover0", "recover1"}
    BY DEF CoreClock, NextPhase, CoreTypes
<1>12. flushFrom' \in Nat
    <2>1. flushFrom' = IF phase = "commit" /\ c.fail # {} THEN Min({f.from : f \in c.fail})
                       ELSE IF NextPhase(c) = "commit" THEN 0 ELSE flushFrom
        BY DEF CoreClock
    <2>2. flushFrom \in Nat
        BY DEF CoreTypes
    <2>3. CASE c.fail # {}
        <3>1. PICK n \in ListOps : Min({f.from : f \in c.fail}) \in {n, n + 1}
            BY <2>3, FailFacts
        <3>2. n \in Nat /\ n + 1 \in Nat
            BY BoundsOfCore DEF CoreTypes
        <3>3. QED
            BY <2>1, <2>2, <3>1, <3>2
    <2>4. QED
        BY <2>1, <2>2, <2>3
<1>13. ListOps' \subseteq 1 .. serial' - 1
    BY <1>4, <1>6 DEF CoreTypes, FrontStages
<1>14. RetiredOps' \subseteq 1 .. serial' - 1
    BY <1>4, <1>6 DEF CoreTypes
<1>15. dead' \subseteq 1 .. serial' - 1
    BY <1>5, <1>6 DEF CoreTypes, CoreClock
<1>16. DOMAIN back' \subseteq ListOps' /\ \A n \in DOMAIN back' : back'[n] \in BackStages
    <2> DEFINE new == IF phase = "recover0" THEN {} ELSE front["ds"]
    <2>1. /\ DOMAIN back' = Staying \cup new
          /\ \A n \in new : back'[n] = "SC"
          /\ \A n \in Staying : back'[n] = NextStage(n, c)
          /\ DOMAIN back' \subseteq KeptOps
        BY BackStep
    <2> HIDE DEF new
    <2>2. \A n \in Staying : back'[n] \in BackStages
        BY <2>1, NextStageIs
    <2>3. QED
        BY <1>4, <2>1, <2>2 DEF BackStages
<1>17. commitNum' \in 0 .. COMMIT_WIDTH /\ commitNum' <= Len(al')
    <2>1. commitNum' \in CommitChoices(al', phase')
        BY DEF CoreClock
    <2>2. QED
        BY <2>1, BoundsOfCore DEF CommitChoices
<1>18. script' \in Scripts
    BY DEF CoreClock, CoreTypes
<1>19. QED
    BY <1>3, <1>4, <1>7, <1>8, <1>9, <1>10, <1>11, <1>12, <1>13, <1>14, <1>15, <1>16, <1>17, <1>18
       DEF CoreTypes

(* No new op comes to the active list while one of a wrong path is in it. *)
LEMMA DispatchWaits ==
    ASSUME NEW c, Choice(c), CoreTypes, OrderInv, NextFront(c)["ds"] # {}
    PROVE  /\ phase # "recover0" /\ DeadInList = 0
           /\ Len(al) <= ACTIVE_LIST_ENTRY_NUM - FETCH_WIDTH
<1>1. NextFront(c)["ds"] = front["rn"] /\ ~RnStageSendBubbleLower(c)
    BY FrontMovesHold DEF FrontMoves
<1>2. DeadInList \in 0 .. Len(al) /\ Len(al) \in Nat
    BY DeadEntriesAreLast DEF CoreTypes
<1>3. ~(DeadInList > 0) /\ ~(Len(al) > ACTIVE_LIST_ENTRY_NUM - FETCH_WIDTH)
    BY <1>1 DEF RnStageSendBubbleLower
<1>4. phase # "recover0"
    <2>1. phase = "recover0" => NextFront(c)["ds"] = {}
        BY CycleOfRecovery DEF FrontIs
    <2>2. QED
        BY <2>1
<1>5. QED
    BY <1>2, <1>3, <1>4, BoundsOfCore

(* A cycle keeps what is dead out of the pipeline: NewlyDead is exactly    *)
(* what leaves it without retiring.                                        *)
LEMMA DeadStep ==
    ASSUME NEW c, CoreTypes, OrderInv, StageInv, DeadInv, Choice(c), CoreClock(c)
    PROVE  DeadInv'
<1> DEFINE ds   == NextFront(c)["ds"]
           died == NewlyDead(c)
           new  == IF phase = "recover0" THEN {} ELSE front["ds"]
<1>1. /\ front' = NextFront(c) /\ picked' = NextPicked(c) /\ dead' = dead \cup died
      /\ script' = script /\ phase' = NextPhase(c)
      /\ flushFrom' = IF phase = "commit" /\ c.fail # {} THEN Min({f.from : f \in c.fail})
                      ELSE IF NextPhase(c) = "commit" THEN 0 ELSE flushFrom
    BY DEF CoreClock
<1>2. FrontDeaths(c)
    BY FrontDeathsHold
<1>3. /\ ListOps' = KeptOps \cup ds
      /\ RetiredOps' = RetiredOps \cup Committed
      /\ KeptOps \subseteq ListOps /\ Committed \subseteq ListOps
      /\ ds \subseteq front["rn"]
    BY OpsStep
<1>4. /\ DOMAIN back' = Staying \cup new
      /\ DOMAIN back' \subseteq KeptOps
    BY BackStep
<1>5. /\ died \cap RetiredOps = {}
      /\ phase = "recover0" => \A n \in ListOps : n \in died <=> n >= flushFrom
      /\ phase # "recover0" => \A n \in died : n \in ListOps => n \in dead
    BY NewlyDeadIs
<1>6. /\ \A n \in Committed : n \notin front["ds"] \cup DOMAIN back \cup dead
      /\ Committed # {} => phase = "commit"
    BY KeptOpsAre
<1>7. /\ ds # {} => phase # "recover0" /\ DeadInList = 0
      /\ \A n \in ds : n \notin dead'
    BY <1>1, <1>2, DispatchWaits DEF FrontDeaths
<1>8. phase = "recover1" /\ DeadInList = 0 => \A n \in ListOps : n \notin dead
    <2>1. SUFFICES ASSUME phase = "recover1", DeadInList = 0, NEW i \in DOMAIN al,
                          al[i].op \in dead
                   PROVE  FALSE
        BY DEF ListOps
    <2>2. al[i].op >= flushFrom
        BY <2>1 DEF DeadInv, ListOps
    <2>3. i \in DeadEntries
        BY <2>1, <2>2 DEF DeadEntries, Dead
    <2>4. DeadEntries = Len(al) - DeadInList + 1 .. Len(al) /\ Len(al) \in Nat
        BY DeadEntriesAreLast DEF CoreTypes
    <2>5. QED
        BY <2>1, <2>3, <2>4
<1>9. c.fail # {} /\ phase = "commit" => \A n \in ds : n >= flushFrom'
    <2>1. SUFFICES ASSUME c.fail # {}, phase = "commit", NEW n \in ds
                   PROVE  n >= flushFrom'
        OBVIOUS
    <2>2. PICK m \in ListOps : flushFrom' \in {m, m + 1}
        BY <1>1, <2>1, FailFacts
    <2>3. m < n /\ m \in Nat /\ n \in Nat
        BY <1>3, BoundsOfCore DEF OrderInv, Before, CoreTypes, FrontStages
    <2>4. QED
        BY <2>2, <2>3
<1>10. phase \in {"commit", "recover0", "recover1"}
    BY DEF CoreTypes
<1>11. \A n \in Staying : n \in ListOps /\ n \in DOMAIN back /\ n \notin SelectiveFlush
    BY DEF Staying, CoreTypes
<1>12. \A n \in new : n \in ListOps /\ n \in front["ds"] /\ phase # "recover0"
    BY DEF StageInv
<1> HIDE DEF ds, died, new
<1>13. ASSUME NEW n \in dead'
       PROVE  n \notin front'["if"] \cup front'["pd"] \cup Waiting' \cup front'["rn"]
                           \cup front'["ds"] \cup DOMAIN back' \cup RetiredOps'
    <2>1. n \notin front'["if"] \cup front'["pd"] \cup Waiting' \cup front'["rn"] \cup front'["ds"]
        BY <1>1, <1>2, <1>13 DEF FrontDeaths, Waiting, died
    <2>2. n \notin DOMAIN back'
        <3>1. SUFFICES ASSUME n \in Staying \cup new
                       PROVE  FALSE
            BY <1>4
        <3>2. n \notin dead /\ n \in ListOps
            BY <1>11, <1>12, <3>1 DEF DeadInv
        <3>3. phase = "recover0" /\ n >= flushFrom /\ n \in Staying
            BY <1>1, <1>5, <1>12, <1>13, <3>1, <3>2
        <3>4. n \in SelectiveFlush
            BY <1>11, <3>3 DEF SelectiveFlush
        <3>5. QED
            BY <1>11, <3>3, <3>4
    <2>3. n \notin RetiredOps'
        <3>1. SUFFICES ASSUME n \in RetiredOps \cup Committed
                       PROVE  FALSE
            BY <1>3
        <3>2. CASE n \in RetiredOps
            BY <1>1, <1>5, <1>13, <3>2 DEF DeadInv
        <3>3. CASE n \in Committed
            <4>1. n \notin dead /\ n \in ListOps /\ phase = "commit"
                BY <1>3, <1>6, <3>3
            <4>2. QED
                BY <1>1, <1>5, <1>13, <4>1
        <3>4. QED
            BY <3>1, <3>2, <3>3
    <2>4. QED
        BY <2>1, <2>2, <2>3
<1>14. ASSUME NEW n \in ListOps'
       PROVE  n \in dead' <=> phase' = "recover1" /\ n >= flushFrom'
    <2>1. CASE n \in ds
        <3>1. n \notin dead' /\ phase # "recover0" /\ DeadInList = 0
            BY <1>7, <2>1
        <3>2. phase' # "recover1"
            BY <1>1, <1>10, <3>1 DEF NextPhase
        <3>3. QED
            BY <3>1, <3>2
    <2>2. CASE n \in KeptOps /\ phase = "commit"
        <3>1. n \notin dead'
            BY <1>1, <1>3, <1>5, <2>2 DEF DeadInv
        <3>2. phase' # "recover1"
            BY <1>1, <2>2 DEF NextPhase
        <3>3. QED
            BY <3>1, <3>2
    <2>3. CASE n \in KeptOps /\ phase = "recover0"
        <3>1. phase' = "recover1" /\ flushFrom' = flushFrom
            BY <1>1, <2>3 DEF NextPhase
        <3>2. n \in ListOps /\ n \notin dead
            BY <1>3, <2>3 DEF DeadInv
        <3>3. QED
            BY <1>1, <1>5, <2>3, <3>1, <3>2
    <2>4. CASE n \in KeptOps /\ phase = "recover1"
        <3>1. n \in ListOps /\ (n \in dead' <=> n \in dead)
            BY <1>1, <1>3, <1>5, <2>4
        <3>2. CASE DeadInList = 0
            <4>1. phase' = "commit" /\ n \notin dead
                BY <1>1, <1>8, <2>4, <3>1, <3>2 DEF NextPhase
            <4>2. QED
                BY <3>1, <4>1
        <3>3. CASE DeadInList # 0
            <4>1. phase' = "recover1" /\ flushFrom' = flushFrom
                BY <1>1, <2>4, <3>3 DEF NextPhase
            <4>2. QED
                BY <2>4, <3>1, <4>1 DEF DeadInv
        <3>4. QED
            BY <3>2, <3>3
    <2>5. QED
        BY <1>3, <1>10, <2>1, <2>2, <2>3, <2>4
<1>15. front'["ds"] = ds
    BY <1>1 DEF ds
<1>16. phase' = "recover0" => \A n \in front'["ds"] : n >= flushFrom'
    <2>1. phase' = "recover0" => phase = "commit" /\ c.fail # {}
        BY <1>1, <1>10 DEF NextPhase
    <2>2. QED
        BY <1>9, <1>15, <2>1
<1>17. phase' = "recover1" => front'["ds"] = {}
    <2>1. phase' = "recover1" => phase = "recover0" \/ DeadInList # 0
        BY <1>1, <1>10 DEF NextPhase
    <2>2. QED
        BY <1>7, <1>15, <2>1
<1>18. script'.miss \in front'["id"] => \A n \in picked' : n > script'.miss => n \in dead'
    BY <1>1, <1>2 DEF FrontDeaths, died
<1>19. QED
    BY <1>13, <1>14, <1>16, <1>17, <1>18 DEF DeadInv

(* A subset is not larger. *)
LEMMA SubsetWidth ==
    ASSUME NEW k \in Nat, NEW S \in SUBSET (1 .. k), NEW T \in SUBSET S
    PROVE  Cardinality(T) \in Nat /\ Cardinality(T) <= Cardinality(S)
<1>1. IsFiniteSet(1 .. k)
    BY FS_Interval
<1>2. IsFiniteSet(S)
    BY <1>1, FS_Subset
<1>3. QED
    BY <1>2, FS_Subset, FS_CardinalityType

(* A cycle keeps the widths: a stage takes ops only when it is empty or    *)
(* leaves.                                                                 *)
LEMMA WidthStep ==
    ASSUME NEW c, CoreTypes, OrderInv, StageInv, DeadInv, WidthInv, Choice(c), CoreClock(c)
    PROVE  WidthInv'
<1> DEFINE next == NextFront(c)
<1>1. /\ front' = next /\ NumKept \in Nat
      /\ Len(al') = NumKept + Cardinality(next["ds"])
    BY ListStep
<1>2. /\ Picks(c) \subseteq Waiting /\ c.ifMiss \in BOOLEAN
    BY PicksAreOldest DEF Choice
<1>3. Cardinality(NewOps(c)) <= FETCH_WIDTH
    BY NewOpsFacts
<1>4. serial - 1 \in Nat /\ FETCH_WIDTH \in Nat /\ ACTIVE_LIST_ENTRY_NUM \in Nat
    BY BoundsOfCore DEF CoreTypes
<1>5. ASSUME NEW s \in FrontStages, NEW T \in SUBSET front[s]
      PROVE  Cardinality(T) \in Nat /\ Cardinality(T) <= FETCH_WIDTH
    <2>1. front[s] \in SUBSET (1 .. serial - 1)
        BY DEF CoreTypes
    <2>2. Cardinality(T) \in Nat /\ Cardinality(T) <= Cardinality(front[s])
        BY <1>4, <2>1, SubsetWidth
    <2>3. Cardinality(front[s]) \in Nat /\ Cardinality(front[s]) <= FETCH_WIDTH
        BY <1>4, <2>1, SubsetWidth DEF WidthInv
    <2>4. QED
        BY <1>4, <2>2, <2>3
<1>6. ASSUME NEW s \in FrontStages
      PROVE  next[s] = NewOps(c) \/ \E r \in FrontStages : next[s] \subseteq front[r]
    <2>1. KeptInIf \subseteq front["if"] /\ Picks(c) \ InsnFlushed \subseteq front["id"]
        BY <1>2 DEF KeptInIf, Waiting
    <2>2. CASE phase = "recover0"
        BY <2>2, CycleOfRecovery DEF FrontIs, FrontStages
    <2>3. CASE phase # "recover0" /\ RnStageSendBubbleLower(c)
        BY <2>1, <2>3, CycleOfBubble DEF FrontIs, FrontStages
    <2>4. CASE phase # "recover0" /\ ~RnStageSendBubbleLower(c) /\ decFlush
        BY <2>4, CycleOfDecodeFlush DEF FrontIs, FrontStages
    <2>5. CASE StallByDecodeStage(c)
        BY <2>1, <2>5, CycleOfDecodeStall DEF FrontIs, FrontStages
    <2>6. CASE /\ phase # "recover0" /\ ~RnStageSendBubbleLower(c) /\ ~decFlush
               /\ ~StallByDecodeStage(c)
        BY <1>2, <2>1, <2>6, CycleOfFlow DEF FrontIs, FrontStages
    <2>7. QED
        BY <2>2, <2>3, <2>4, <2>5, <2>6
<1>7. \A s \in FrontStages : Cardinality(front'[s]) <= FETCH_WIDTH
    BY <1>1, <1>3, <1>5, <1>6
<1>8. Len(al') <= ACTIVE_LIST_ENTRY_NUM
    <2>1. NumKept <= Len(al) /\ Len(al) \in Nat
        BY FlushNumFacts DEF NumKept, CoreTypes
    <2>2. CASE next["ds"] = {}
        <3>1. Cardinality(next["ds"]) = 0
            BY <2>2, FS_EmptySet
        <3>2. QED
            BY <1>1, <1>4, <2>1, <3>1 DEF WidthInv
    <2>3. CASE next["ds"] # {}
        <3>1. Len(al) <= ACTIVE_LIST_ENTRY_NUM - FETCH_WIDTH
            BY <2>3, DispatchWaits
        <3>2. next["ds"] \subseteq front["rn"]
            BY OpsStep
        <3>3. Cardinality(next["ds"]) \in Nat /\ Cardinality(next["ds"]) <= FETCH_WIDTH
            BY <1>5, <3>2 DEF FrontStages
        <3>4. QED
            BY <1>1, <1>4, <2>1, <3>1, <3>3
    <2>4. QED
        BY <2>2, <2>3
<1>9. QED
    BY <1>7, <1>8 DEF WidthInv

(* Every cycle of the core keeps its invariant. *)
LEMMA CoreStep ==
    ASSUME NEW c, CoreInv, Choice(c), CoreClock(c)
    PROVE  CoreInv'
BY TypesStep, OrderStep, StageStep, DeadStep, WidthStep DEF CoreInv

(* The reset state satisfies the invariant of the core. *)
LEMMA CoreStart ==
    ASSUME CoreInit
    PROVE  CoreInv
<1>1. /\ serial = 1 /\ picked = {} /\ decFlush = FALSE /\ back = <<>> /\ al = <<>>
      /\ headPtr = 0 /\ phase = "commit" /\ flushFrom = 0 /\ commitNum = 0
      /\ retired = <<>> /\ dead = {} /\ script \in Scripts
      /\ front = [s \in FrontStages |-> {}]
    BY DEF CoreInit, FrontStages
<1>2. \A s \in FrontStages : front[s] = {}
    BY <1>1
<1>3. /\ front["if"] = {} /\ front["pd"] = {} /\ front["id"] = {} /\ front["rn"] = {}
      /\ front["ds"] = {} /\ Waiting = {}
    BY <1>2 DEF FrontStages, Waiting
<1>4. ListOps = {} /\ RetiredOps = {} /\ DOMAIN back = {} /\ Len(al) = 0 /\ DOMAIN al = {}
      /\ DOMAIN retired = {} /\ al \in Seq(ListEntries) /\ retired \in Seq(1 .. MaxOp)
    BY <1>1 DEF ListOps, RetiredOps
<1>5. CoreTypes
    <2>1. /\ serial \in 1 .. MaxOp + 1 /\ headPtr \in 0 .. ACTIVE_LIST_ENTRY_NUM - 1
          /\ commitNum \in 0 .. COMMIT_WIDTH /\ commitNum <= Len(al) /\ flushFrom \in Nat
        BY <1>1, <1>4, BoundsOfCore
    <2>2. front \in [FrontStages -> SUBSET (1 .. serial - 1)]
        BY <1>1
    <2>3. QED
        BY <1>1, <1>3, <1>4, <2>1, <2>2 DEF CoreTypes
<1>6. OrderInv
    BY <1>3, <1>4 DEF OrderInv, Before
<1>7. StageInv
    <2>1. InStage("IS") = {} /\ InStage("RR") = {} /\ InStage("EX") = {}
        BY <1>4 DEF InStage
    <2>2. \A i \in 1 .. commitNum : FALSE
        BY <1>1
    <2>3. QED
        BY <1>1, <1>3, <1>4, <2>1, <2>2 DEF StageInv
<1>8. DeadInv
    BY <1>1, <1>3, <1>4 DEF DeadInv
<1>9. WidthInv
    <2>1. \A s \in FrontStages : Cardinality(front[s]) = 0
        BY <1>2, FS_EmptySet
    <2>2. QED
        BY <1>4, <2>1, BoundsOfCore DEF WidthInv
<1>10. QED
    BY <1>5, <1>6, <1>7, <1>8, <1>9 DEF CoreInv
=============================================================================
