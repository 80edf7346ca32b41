----------------------- MODULE RenameRecovery_proofs -----------------------
(***************************************************************************)
(* The control of a recovery, for every size of the active list and every  *)
(* width: that the committer pops no more entries than there are.          *)
(*                                                                         *)
(* How many it pops is computed two cycles after the op that failed wrote  *)
(* its state, from two pointers latched one cycle before.  So the bound    *)
(* rests on the whole chain: the op that failed is in the window and does  *)
(* not retire before its recovery starts, hence the flush range is a       *)
(* suffix of the window; what the flush leaves in the back end is outside  *)
(* the range, hence what fails during the recovery survives it; the pops   *)
(* count down together with the list.  RecoveryInv says this state by      *)
(* state.  The commit decision enters by the theorem of                    *)
(* CommitDecision_proofs, the pointer arithmetic by those that come first: *)
(* the pointer comparisons of the selective flush are the program order,   *)
(* for every size of the active list and every window in it.  With count   *)
(* ops from head on, of which those from the kept-th on are to be flushed, *)
(* the detector that compares only the pointers of the range selects       *)
(* exactly them and the length is their number.  One window is excluded,   *)
(* and there the code flushes every op instead of none.                    *)
(*                                                                         *)
(* The second part is about what a recovery is for: WrongPathInv and what  *)
(* follows from it.  The third is about the register maps: MapsInv.        *)
(***************************************************************************)
EXTENDS RenameRecovery, CommitDecision_proofs

(* The pointer of the op i places after the head *)
PtrAt(head, i) ==
    IF head + i >= ACTIVE_LIST_ENTRY_NUM THEN head + i - ACTIVE_LIST_ENTRY_NUM
    ELSE head + i

(* The list is full and nothing is to be flushed. *)
Ambiguous(kept, count) == kept = count /\ count = ACTIVE_LIST_ENTRY_NUM

(* The age the exception recorder compares is the place in the window. *)
THEOREM AgeIsProgramOrder ==
    ASSUME NEW head \in ALPtr, NEW i \in ALPtr
    PROVE  /\ PtrAt(head, i) \in ALPtr
           /\ ActiveListPtrToAge(PtrAt(head, i), head) = head + i
BY ActiveListSizeAssumption
DEF ActiveListSizeAssumption, ALPtr, PtrAt, ActiveListPtrToAge

(* flushAllInsns tells the range of all ops of a full list from a range of *)
(* none, except that an empty range of a full list is taken for all.       *)
LEMMA FlushAllMeansAll ==
    ASSUME NEW head \in ALPtr, NEW count \in 0 .. ACTIVE_LIST_ENTRY_NUM,
           NEW kept \in 0 .. count
    PROVE  FlushAllInsns(PtrAt(head, kept), PtrAt(head, count), count) <=>
              count = ACTIVE_LIST_ENTRY_NUM /\ (kept = 0 \/ kept = count)
BY ActiveListSizeAssumption
DEF ActiveListSizeAssumption, ALPtr, PtrAt, FlushAllInsns

(* An op is flushed exactly if it is not older than the first op of the    *)
(* range: every stage and queue that uses the detector keeps the same ops. *)
THEOREM SelectiveFlushIsByAge ==
    ASSUME NEW head \in ALPtr, NEW count \in 0 .. ACTIVE_LIST_ENTRY_NUM,
           NEW kept \in 0 .. count, ~Ambiguous(kept, count),
           NEW i \in 0 .. count - 1
    PROVE  LET rangeHead == PtrAt(head, kept)
               rangeTail == PtrAt(head, count)
           IN  SelectiveFlush(rangeHead, rangeTail,
                              FlushAllInsns(rangeHead, rangeTail, count),
                              PtrAt(head, i)) <=> i >= kept
<1> DEFINE rangeHead == PtrAt(head, kept)
           rangeTail == PtrAt(head, count)
<1>1. CASE count = ACTIVE_LIST_ENTRY_NUM /\ kept = 0
    <2>1. FlushAllInsns(rangeHead, rangeTail, count)
        BY <1>1, FlushAllMeansAll
    <2>2. QED
        BY <1>1, <2>1, ActiveListSizeAssumption
        DEF ActiveListSizeAssumption, SelectiveFlush
<1>2. CASE ~(count = ACTIVE_LIST_ENTRY_NUM /\ kept = 0)
    <2>1. ~FlushAllInsns(rangeHead, rangeTail, count)
        BY <1>2, FlushAllMeansAll DEF Ambiguous
    <2>2. QED
        BY <1>2, <2>1, ActiveListSizeAssumption
        DEF ActiveListSizeAssumption, SelectiveFlush, ALPtr, PtrAt, Ambiguous
<1>3. QED
    BY <1>1, <1>2

(* The committer pops exactly the ops of the range. *)
THEOREM FlushEntryNumIsExact ==
    ASSUME NEW head \in ALPtr, NEW count \in 0 .. ACTIVE_LIST_ENTRY_NUM,
           NEW kept \in 0 .. count, ~Ambiguous(kept, count)
    PROVE  FlushEntryNum(PtrAt(head, kept), PtrAt(head, count), count)
              = count - kept
<1>1. CASE count = ACTIVE_LIST_ENTRY_NUM /\ kept = 0
    BY <1>1, FlushAllMeansAll, ActiveListSizeAssumption
    DEF ActiveListSizeAssumption, FlushEntryNum
<1>2. CASE ~(count = ACTIVE_LIST_ENTRY_NUM /\ kept = 0)
    <2>1. ~FlushAllInsns(PtrAt(head, kept), PtrAt(head, count), count)
        BY <1>2, FlushAllMeansAll DEF Ambiguous
    <2>2. QED
        BY <1>2, <2>1, ActiveListSizeAssumption
        DEF ActiveListSizeAssumption, FlushEntryNum, ALPtr, PtrAt, Ambiguous
<1>3. QED
    BY <1>1, <1>2

(* The excluded window is reached when the youngest op of a full list      *)
(* mispredicts: no op follows it, yet the range that starts behind it is   *)
(* taken for the whole list, every op is selected by the detector, the     *)
(* mispredicted one and all the older ones included, and all are popped.   *)
THEOREM AmbiguousRangeFlushesAll ==
    ASSUME NEW head \in ALPtr
    PROVE  LET n         == ACTIVE_LIST_ENTRY_NUM
               rangeHead == NextPtr(PtrAt(head, n - 1))
               rangeTail == PtrAt(head, n)
           IN  /\ FlushEntryNum(rangeHead, rangeTail, n) = n
               /\ \A i \in 0 .. n - 1 :
                     SelectiveFlush(rangeHead, rangeTail,
                                    FlushAllInsns(rangeHead, rangeTail, n),
                                    PtrAt(head, i))
<1> DEFINE n         == ACTIVE_LIST_ENTRY_NUM
           rangeHead == NextPtr(PtrAt(head, n - 1))
           rangeTail == PtrAt(head, n)
<1>1. rangeHead = rangeTail
    BY ActiveListSizeAssumption DEF ActiveListSizeAssumption, ALPtr, PtrAt, NextPtr
<1>2. FlushAllInsns(rangeHead, rangeTail, n)
    BY <1>1 DEF FlushAllInsns
<1>3. FlushEntryNum(rangeHead, rangeTail, n) = n
    BY <1>2 DEF FlushEntryNum
<1>4. \A i \in 0 .. n - 1 :
         SelectiveFlush(rangeHead, rangeTail, FlushAllInsns(rangeHead, rangeTail, n),
                        PtrAt(head, i))
    BY <1>2 DEF SelectiveFlush
<1>5. QED
    BY <1>3, <1>4

-----------------------------------------------------------------------------

(* The pointers of k ops from h on *)
Region(h, k) == {PtrAt(h, i) : i \in 0 .. k - 1}

(* How many ops of the window the recovery under way leaves in it *)
KeptNum == IF committer.phase = "RECOVER_0" THEN al.count - recoveryEntryNum
                                            ELSE al.count - committer.recoveryCount
Kept == Region(al.head, KeptNum)

(* The tail is count places after the head. *)
ListInv ==
    /\ al.head \in ALPtr
    /\ al.count \in 0 .. ACTIVE_LIST_ENTRY_NUM
    /\ al.tail = PtrAt(al.head, al.count)

(* The manager and the committer wait for each other in step, and what is  *)
(* left to pop is there.                                                   *)
PhaseInv ==
    /\ manager.phase \in {"COMMIT", "RECOVER_0", "RECOVER_1"}
    /\ committer.phase \in {"COMMIT", "RECOVER_0", "RECOVER_1"}
    /\ manager.phase # "RECOVER_1" => committer.phase = "COMMIT"
    /\ committer.phase = "RECOVER_0" => recoveryEntryNum \in 0 .. al.count
    /\ committer.phase # "RECOVER_1" => committer.recoveryCount = 0
    /\ committer.recoveryCount \in 0 .. al.count

(* The flush range is a suffix of the window. *)
RangeInv ==
    manager.phase = "RECOVER_0" =>
        /\ \E kept \in 0 .. al.count :
              manager.flushHead = PtrAt(al.head, kept)
        /\ manager.flushTail = al.tail

(* An op is finished or still executing, never both; what executes is not  *)
(* going to be popped.                                                     *)
OpsInv ==
    /\ finished \subseteq Window
    /\ backEnd \subseteq Kept
    /\ finished \cap backEnd = {}

(* The recovery register names a finished op that failed and stays.  In    *)
(* RECOVER_0 it still names the op being recovered, and is about to be     *)
(* reset.                                                                  *)
RegInv ==
    recoveryReg.valid /\ manager.phase # "RECOVER_0" =>
        /\ recoveryReg.ptr \in Kept \cap finished
        /\ Recovers(recoveryReg.state)

RecoveryInv == ListInv /\ PhaseInv /\ RangeInv /\ OpsInv /\ RegInv

-----------------------------------------------------------------------------
(* Pointers: the operators of the code are places in the window. *)
LEMMA PtrAtRange ==
    ASSUME NEW h \in ALPtr, NEW i \in 0 .. ACTIVE_LIST_ENTRY_NUM
    PROVE  PtrAt(h, i) \in ALPtr
BY ActiveListSizeAssumption DEF ActiveListSizeAssumption, ALPtr, PtrAt

LEMMA PtrAtZero ==
    ASSUME NEW h \in ALPtr
    PROVE  PtrAt(h, 0) = h
BY ActiveListSizeAssumption DEF ActiveListSizeAssumption, ALPtr, PtrAt

LEMMA PtrAtInjective ==
    ASSUME NEW h \in ALPtr, NEW i \in ALPtr, NEW j \in ALPtr,
           PtrAt(h, i) = PtrAt(h, j)
    PROVE  i = j
BY ActiveListSizeAssumption DEF ActiveListSizeAssumption, ALPtr, PtrAt

LEMMA PtrAtAdd ==
    ASSUME NEW h \in ALPtr, NEW i \in Nat, NEW j \in Nat,
           i + j <= ACTIVE_LIST_ENTRY_NUM
    PROVE  PtrAt(PtrAt(h, i), j) = PtrAt(h, i + j)
BY ActiveListSizeAssumption DEF ActiveListSizeAssumption, ALPtr, PtrAt

LEMMA NextPtrIsPtrAt ==
    ASSUME NEW h \in ALPtr, NEW i \in ALPtr
    PROVE  NextPtr(PtrAt(h, i)) = PtrAt(h, i + 1)
BY ActiveListSizeAssumption DEF ActiveListSizeAssumption, ALPtr, PtrAt, NextPtr

LEMMA WrapAddIsPtrAt ==
    ASSUME NEW h, NEW i
    PROVE  AL!WrapAdd(h, i) = PtrAt(h, i)
BY DEF AL!WrapAdd, PtrAt

LEMMA AdvanceIsPtrAt ==
    ASSUME NEW h \in ALPtr, NEW n \in 0 .. ACTIVE_LIST_ENTRY_NUM
    PROVE  AL!Advance(h, n) = PtrAt(h, n)
BY ActiveListSizeAssumption
DEF ActiveListSizeAssumption, ALPtr, PtrAt, AL!Advance, AL!Trunc

LEMMA RetreatIsPtrAt ==
    ASSUME NEW h \in ALPtr, NEW c \in 0 .. ACTIVE_LIST_ENTRY_NUM,
           NEW n \in 0 .. c
    PROVE  AL!Retreat(PtrAt(h, c), n) = PtrAt(h, c - n)
BY ActiveListSizeAssumption
DEF ActiveListSizeAssumption, ALPtr, PtrAt, AL!Retreat, AL!Trunc

LEMMA WrapBackIsPtrAt ==
    ASSUME NEW h \in ALPtr, NEW c \in 0 .. ACTIVE_LIST_ENTRY_NUM,
           NEW n \in 0 .. c - 1
    PROVE  AL!WrapBack(PtrAt(h, c), n) = PtrAt(h, c - 1 - n)
BY ActiveListSizeAssumption
DEF ActiveListSizeAssumption, ALPtr, PtrAt, AL!WrapBack

-----------------------------------------------------------------------------
(* Regions: prefixes and suffixes of the window. *)
LEMMA RegionPlace ==
    ASSUME NEW h, NEW k, NEW q \in Region(h, k)
    PROVE  \E i \in 0 .. k - 1 : q = PtrAt(h, i)
BY DEF Region

LEMMA RegionGrows ==
    ASSUME NEW h, NEW k \in Nat, NEW j \in 0 .. k
    PROVE  Region(h, j) \subseteq Region(h, k)
BY DEF Region

LEMMA RegionPtrs ==
    ASSUME NEW h \in ALPtr, NEW k \in 0 .. ACTIVE_LIST_ENTRY_NUM
    PROVE  Region(h, k) \subseteq ALPtr
<1>1. \A i \in 0 .. k - 1 : i \in 0 .. ACTIVE_LIST_ENTRY_NUM
    BY ActiveListSizeAssumption DEF ActiveListSizeAssumption
<1>2. QED
    BY <1>1, PtrAtRange DEF Region

LEMMA PlaceInRegion ==
    ASSUME NEW h \in ALPtr, NEW k \in 0 .. ACTIVE_LIST_ENTRY_NUM, NEW i \in ALPtr
    PROVE  PtrAt(h, i) \in Region(h, k) <=> i < k
<1>1. ASSUME i < k
      PROVE  PtrAt(h, i) \in Region(h, k)
    <2>1. i \in 0 .. k - 1
        BY <1>1, ActiveListSizeAssumption DEF ActiveListSizeAssumption, ALPtr
    <2>2. QED
        BY <2>1 DEF Region
<1>2. ASSUME PtrAt(h, i) \in Region(h, k)
      PROVE  i < k
    <2>1. PICK j \in 0 .. k - 1 : PtrAt(h, i) = PtrAt(h, j)
        BY <1>2, RegionPlace
    <2>2. j \in ALPtr
        BY ActiveListSizeAssumption DEF ActiveListSizeAssumption, ALPtr
    <2>3. i = j
        BY <2>1, <2>2, PtrAtInjective
    <2>4. QED
        BY <2>3, ActiveListSizeAssumption DEF ActiveListSizeAssumption
<1>3. QED
    BY <1>1, <1>2

(* When the n oldest ops leave, the others are the window from there on. *)
LEMMA RegionAfter ==
    ASSUME NEW h \in ALPtr, NEW k \in 0 .. ACTIVE_LIST_ENTRY_NUM, NEW n \in 0 .. k
    PROVE  Region(PtrAt(h, n), k - n) = Region(h, k) \ Region(h, n)
<1>1. ASSUME NEW q \in Region(PtrAt(h, n), k - n)
      PROVE  q \in Region(h, k) /\ q \notin Region(h, n)
    <2>1. PICK i \in 0 .. k - n - 1 : q = PtrAt(PtrAt(h, n), i)
        BY <1>1, RegionPlace
    <2>2. /\ n \in Nat /\ i \in Nat /\ n + i \in ALPtr /\ n + i < k
          /\ n + i <= ACTIVE_LIST_ENTRY_NUM /\ n \in 0 .. ACTIVE_LIST_ENTRY_NUM
          /\ ~(n + i < n)
        BY ActiveListSizeAssumption DEF ActiveListSizeAssumption, ALPtr
    <2>3. q = PtrAt(h, n + i)
        BY <2>1, <2>2, PtrAtAdd
    <2>4. QED
        BY <2>2, <2>3, PlaceInRegion
<1>2. ASSUME NEW q \in Region(h, k), q \notin Region(h, n)
      PROVE  q \in Region(PtrAt(h, n), k - n)
    <2>1. PICK i \in 0 .. k - 1 : q = PtrAt(h, i)
        BY <1>2, RegionPlace
    <2>2. i \in ALPtr /\ n \in 0 .. ACTIVE_LIST_ENTRY_NUM
        BY ActiveListSizeAssumption DEF ActiveListSizeAssumption, ALPtr
    <2>3. ~(i < n)
        BY <1>2, <2>1, <2>2, PlaceInRegion
    <2>4. /\ i - n \in 0 .. k - n - 1 /\ n \in Nat /\ i - n \in Nat
          /\ n + (i - n) = i /\ i <= ACTIVE_LIST_ENTRY_NUM
        BY <2>3, ActiveListSizeAssumption DEF ActiveListSizeAssumption
    <2>5. q = PtrAt(PtrAt(h, n), i - n)
        BY <2>1, <2>4, PtrAtAdd
    <2>6. QED
        BY <2>4, <2>5 DEF Region
<1>3. QED
    BY <1>1, <1>2

(* A flush leaves only ops that the committer will not pop, and the        *)
(* committer pops no more ops than there are.                              *)
LEMMA FlushLeavesOlder ==
    ASSUME NEW h \in ALPtr, NEW c \in 0 .. ACTIVE_LIST_ENTRY_NUM,
           NEW kept \in 0 .. c
    PROVE  LET rangeHead == PtrAt(h, kept)
               rangeTail == PtrAt(h, c)
               num == FlushEntryNum(rangeHead, rangeTail, c)
           IN  /\ num \in 0 .. c
               /\ \A q \in Region(h, c) :
                     \/ SelectiveFlush(rangeHead, rangeTail,
                            FlushAllInsns(rangeHead, rangeTail, c), q)
                     \/ q \in Region(h, c - num)
<1> DEFINE rangeHead == PtrAt(h, kept)
           rangeTail == PtrAt(h, c)
           num == FlushEntryNum(rangeHead, rangeTail, c)
           Hit(q) == SelectiveFlush(rangeHead, rangeTail,
                         FlushAllInsns(rangeHead, rangeTail, c), q)
<1>1. CASE Ambiguous(kept, c)
    <2>1. kept = c /\ c = ACTIVE_LIST_ENTRY_NUM
        BY <1>1 DEF Ambiguous
    <2>2. num = c
        BY <2>1 DEF FlushEntryNum, FlushAllInsns
    <2>3. FlushAllInsns(rangeHead, rangeTail, c)
        BY <2>1 DEF FlushAllInsns
    <2>4. \A q : Hit(q)
        BY <2>3 DEF SelectiveFlush
    <2> HIDE DEF num, Hit
    <2>5. c \in Nat
        BY ActiveListSizeAssumption DEF ActiveListSizeAssumption
    <2>6. QED
        BY <2>2, <2>4, <2>5 DEF num, Hit
<1>2. CASE ~Ambiguous(kept, c)
    <2>1. num = c - kept
        BY <1>2, FlushEntryNumIsExact
    <2>2. ASSUME NEW q \in Region(h, c), ~Hit(q)
          PROVE  q \in Region(h, kept)
        <3>1. PICK i \in 0 .. c - 1 : q = PtrAt(h, i)
            BY <2>2, RegionPlace
        <3>2. Hit(PtrAt(h, i)) <=> i >= kept
            BY <1>2, SelectiveFlushIsByAge
        <3>3. ~(i >= kept)
            BY <2>2, <3>1, <3>2
        <3>4. i \in 0 .. kept - 1
            BY <3>3, ActiveListSizeAssumption DEF ActiveListSizeAssumption
        <3>5. QED
            BY <3>1, <3>4 DEF Region
    <2>3. c - num = kept /\ num \in 0 .. c
        <3> HIDE DEF num
        <3> QED BY <2>1, ActiveListSizeAssumption DEF ActiveListSizeAssumption
    <2>4. QED
        BY <2>2, <2>3
<1>3. QED
    BY <1>1, <1>2

-----------------------------------------------------------------------------
(* What the operators of a cycle return in a state of the invariant *)
LEMMA WindowIsRegion == Window = Region(al.head, al.count)
BY WrapAddIsPtrAt DEF Window, Region

LEMMA KeptInWindow ==
    ASSUME ListInv, PhaseInv
    PROVE  /\ KeptNum \in 0 .. al.count
           /\ Kept \subseteq Window
           /\ committer.phase = "COMMIT" => Kept = Window
<1>1. KeptNum \in 0 .. al.count /\ (committer.phase = "COMMIT" => KeptNum = al.count)
    BY ActiveListSizeAssumption
    DEF ActiveListSizeAssumption, ListInv, PhaseInv, KeptNum
<1>2. al.count \in Nat
    BY ActiveListSizeAssumption DEF ActiveListSizeAssumption, ListInv
<1>3. Region(al.head, KeptNum) \subseteq Region(al.head, al.count)
    BY <1>1, <1>2, RegionGrows
<1>4. QED
    BY <1>1, <1>3, WindowIsRegion DEF Kept

LEMMA BackEndPtrs ==
    ASSUME ListInv, PhaseInv, OpsInv
    PROVE  backEnd \subseteq Window /\ Window \subseteq ALPtr
<1>1. Window \subseteq ALPtr
    BY WindowIsRegion, RegionPtrs DEF ListInv
<1>2. QED
    BY <1>1, KeptInWindow DEF OpsInv

(* What leaves a write stage was in the back end, and was not flushed. *)
LEMMA WriteFacts ==
    ASSUME NEW w \in Writes
    PROVE  DOMAIN w \subseteq Writers /\ Writers \subseteq backEnd
BY DEF Writes, Writers

(* There is an oldest op among those that fail in a cycle. *)
LEMMA OldestExists ==
    ASSUME ListInv, NEW S \in SUBSET ALPtr, S # {}
    PROVE  OldestOf(S) \in S /\ \A q \in S : Age(OldestOf(S)) <= Age(q)
<1> DEFINE T == {Age(q) : q \in S}
<1>1. \A q \in S : Age(q) \in Nat
    BY ActiveListSizeAssumption
    DEF ActiveListSizeAssumption, ListInv, ALPtr, Age, ActiveListPtrToAge
<1>2. T \in SUBSET Nat /\ T # {}
    BY <1>1
<1>3. PICK m \in T : \A t \in T : m <= t
    <2> HIDE DEF T
    <2> QED BY <1>2, LeastElement
<1>4. PICK p \in S : m = Age(p)
    BY <1>3
<1>5. \A q \in S : Age(p) <= Age(q)
    BY <1>3, <1>4
<1>6. QED
    BY <1>5 DEF OldestOf

LEMMA ExceptionFacts ==
    ASSUME ListInv, PhaseInv, OpsInv, NEW w \in Writes, Exceptions(w) # {}
    PROVE  /\ OldestOf(Exceptions(w)) \in DOMAIN w
           /\ Recovers(w[OldestOf(Exceptions(w))])
<1>1. Exceptions(w) \in SUBSET ALPtr
    BY BackEndPtrs, WriteFacts DEF Exceptions
<1>2. OldestOf(Exceptions(w)) \in Exceptions(w)
    BY <1>1, OldestExists
<1>3. QED
    BY <1>2 DEF Exceptions

(* The recovery register keeps its op or takes one that just wrote. *)
LEMMA NextRecoveryRegFacts ==
    ASSUME ListInv, PhaseInv, OpsInv, NEW w \in Writes
    PROVE  \/ ~Recorded(w) /\ NextRecoveryReg(w) = recoveryReg
           \/ /\ Recorded(w)
              /\ NextRecoveryReg(w).ptr = OldestOf(Exceptions(w))
              /\ NextRecoveryReg(w).ptr \in DOMAIN w
              /\ DetectedInRwStage(w) \/ Recovers(NextRecoveryReg(w).state)
<1>1. CASE ~Recorded(w)
    BY <1>1 DEF NextRecoveryReg
<1>2. CASE Recorded(w)
    <2>1. Exceptions(w) # {}
        BY <1>2 DEF Recorded
    <2>2. NextRecoveryReg(w) =
             [valid |-> TRUE, ptr |-> OldestOf(Exceptions(w)),
              state |-> IF DetectedInRwStage(w) THEN "SUCCESS"
                        ELSE w[OldestOf(Exceptions(w))]]
        BY <1>2 DEF NextRecoveryReg
    <2>3. QED
        BY <1>2, <2>1, <2>2, ExceptionFacts
<1>3. QED
    BY <1>1, <1>2

(* A group fits behind the window. *)
LEMMA GroupFacts ==
    ASSUME ListInv, NEW group \in Groups
    PROVE  /\ Len(group) \in Nat
           /\ DOMAIN group = 1 .. Len(group)
           /\ al.count + Len(group) <= ACTIVE_LIST_ENTRY_NUM
<1>1. CASE group = <<>>
    <2>1. Len(group) = 0 /\ DOMAIN group = {}
        BY <1>1
    <2>2. QED
        BY <2>1, ActiveListSizeAssumption DEF ActiveListSizeAssumption, ListInv
<1>2. CASE group # <<>>
    <2>1. Allocatable /\ group \in UNION {[1 .. n -> Ops] : n \in 0 .. RENAME_WIDTH}
        BY <1>2 DEF Groups
    <2>2. PICK n \in 0 .. RENAME_WIDTH : group \in [1 .. n -> Ops]
        BY <2>1
    <2>3. Len(group) = n /\ DOMAIN group = 1 .. n
        BY <2>2, CoreAssumption DEF CoreAssumption
    <2>4. QED
        BY <2>1, <2>3, ActiveListSizeAssumption, CoreAssumption
        DEF ActiveListSizeAssumption, CoreAssumption, ListInv, Allocatable
<1>3. QED
    BY <1>1, <1>2

(* The pointers a group is pushed to *)
LEMMA PushedFacts ==
    ASSUME ListInv, NEW group \in Groups
    PROVE  PushedPtrs(group) =
              Region(al.head, al.count + Len(group)) \ Region(al.head, al.count)
<1> DEFINE c == al.count
           g == Len(group)
<1>1. /\ g \in Nat /\ c \in Nat /\ c + g \in 0 .. ACTIVE_LIST_ENTRY_NUM
      /\ c \in 0 .. c + g /\ c + g - c = g /\ DOMAIN group = 1 .. g
    BY GroupFacts, ActiveListSizeAssumption DEF ActiveListSizeAssumption, ListInv
<1>2. \A i \in 1 .. g : PushedPtr(i) = PtrAt(al.tail, i - 1)
    BY WrapAddIsPtrAt DEF PushedPtr
<1>3. PushedPtrs(group) = Region(al.tail, g)
    <2>1. ASSUME NEW i \in 1 .. g
          PROVE  PushedPtr(i) \in Region(al.tail, g)
        BY <1>1, <1>2 DEF Region
    <2>2. ASSUME NEW q \in Region(al.tail, g)
          PROVE  \E i \in 1 .. g : q = PushedPtr(i)
        <3>1. PICK j \in 0 .. g - 1 : q = PtrAt(al.tail, j)
            BY <2>2, RegionPlace
        <3>2. j + 1 \in 1 .. g /\ (j + 1) - 1 = j
            BY <1>1
        <3>3. PushedPtr(j + 1) = PtrAt(al.tail, j)
            BY <1>2, <3>2
        <3>4. QED
            BY <3>1, <3>2, <3>3
    <2>3. QED
        BY <1>1, <2>1, <2>2 DEF PushedPtrs
<1>4. QED
    BY <1>1, <1>3, RegionAfter DEF ListInv

-----------------------------------------------------------------------------
(* The ops that retire are finished, and the recovery register survives    *)
(* them unless it starts its recovery.                                     *)
LEMMA CommittedIsRegion ==
    ASSUME NEW n
    PROVE  CommittedPtrs(n) = Region(al.head, n)
BY WrapAddIsPtrAt DEF CommittedPtrs, HeadPtr, Region

LEMMA DecisionFacts ==
    ASSUME RecoveryInv
    PROVE  LET n == Decision.commitNum
               lane == Decision.recoveryLane
           IN  /\ n \in 0 .. al.count
               /\ Region(al.head, n) \subseteq finished
               /\ Decision.toRecovery =>
                     /\ manager.phase = "COMMIT" /\ recoveryReg.valid
                     /\ lane \in 0 .. al.count - 1
                     /\ recoveryReg.ptr = PtrAt(al.head, lane)
                     /\ Region(al.head, lane + 1) \subseteq finished
                     /\ n = IF Decision.refetchThis THEN lane ELSE lane + 1
                     /\ Decision.refetchThis <=> FailsThis(recoveryReg.state)
               /\ recoveryReg.valid /\ ~Decision.toRecovery
                     /\ manager.phase # "RECOVER_0"
                     => recoveryReg.ptr \notin Region(al.head, n)
               /\ manager.phase # "COMMIT" => n = 0 /\ ~Decision.toRecovery
<1> DEFINE d == Decision
           n == d.commitNum
           lane == d.recoveryLane
           state == HeadExecState
           start == manager.phase = "COMMIT"
<1>1. al.count \in Nat
    BY ActiveListSizeAssumption DEF ActiveListSizeAssumption, RecoveryInv, ListInv
<1>2. start \in BOOLEAN /\ UnableToStartRecovery \in BOOLEAN
    BY DEF UnableToStartRecovery
<1>3. d = DecideCommit(start, al.count, state, WholeInsns, UnableToStartRecovery)
    BY DEF Decision, WholeInsns
<1>4. /\ n \in 0 .. COMMIT_WIDTH
      /\ \A i \in 0 .. n - 1 : /\ i < al.count /\ state[i] # "NOT_FINISHED"
                               /\ Recovers(state[i]) => d.toRecovery
      /\ d.toRecovery =>
            /\ start /\ lane \in CommitLane /\ lane < al.count
            /\ Recovers(state[lane])
            /\ \A i \in 0 .. lane : state[i] # "NOT_FINISHED"
            /\ n = IF d.refetchThis THEN lane ELSE lane + 1
            /\ d.refetchThis <=> FailsThis(state[lane])
      /\ ~start => n = 0 /\ ~d.toRecovery
    <2> HIDE DEF state, start, d
    <2> QED BY <1>1, <1>2, <1>3, OnlyFinishedOpsRetire
<1> HIDE DEF d
<1>5. \A i \in 0 .. n - 1 : i \in CommitLane
    BY <1>4, CommitWidthAssumption DEF CommitWidthAssumption, CommitLane
<1>6. n \in 0 .. al.count
    <2>1. n # 0 => n - 1 \in 0 .. n - 1
        BY <1>4, CommitWidthAssumption DEF CommitWidthAssumption
    <2>2. n # 0 => n - 1 < al.count
        BY <1>4, <2>1
    <2>3. QED
        BY <1>1, <1>4, <2>2, CommitWidthAssumption DEF CommitWidthAssumption
<1>7. ASSUME NEW i \in CommitLane
      PROVE  state[i] =
                IF recoveryReg.valid /\ PtrAt(al.head, i) = recoveryReg.ptr
                THEN recoveryReg.state
                ELSE IF PtrAt(al.head, i) \in finished THEN "SUCCESS"
                                                       ELSE "NOT_FINISHED"
    BY WrapAddIsPtrAt DEF HeadExecState, HeadPtr
<1> HIDE DEF state
<1>8. ASSUME start, NEW i \in CommitLane, state[i] # "NOT_FINISHED"
      PROVE  PtrAt(al.head, i) \in finished
    <2>1. recoveryReg.valid => recoveryReg.ptr \in finished
        BY <1>8 DEF RecoveryInv, RegInv
    <2>2. QED
        BY <1>7, <1>8, <2>1
<1>9. Region(al.head, n) \subseteq finished
    <2>1. CASE start
        <3>1. \A i \in 0 .. n - 1 : PtrAt(al.head, i) \in finished
            BY <1>4, <1>5, <1>8, <2>1
        <3>2. QED
            BY <3>1 DEF Region
    <2>2. CASE ~start
        BY <1>4, <2>2 DEF Region
    <2>3. QED
        BY <2>1, <2>2
<1>10. ASSUME d.toRecovery
       PROVE  /\ recoveryReg.valid /\ recoveryReg.ptr = PtrAt(al.head, lane)
              /\ lane \in 0 .. al.count - 1
              /\ Region(al.head, lane + 1) \subseteq finished
              /\ d.refetchThis <=> FailsThis(recoveryReg.state)
    <2>1. /\ start /\ lane \in CommitLane /\ lane < al.count
          /\ Recovers(state[lane])
          /\ \A i \in 0 .. lane : state[i] # "NOT_FINISHED"
          /\ d.refetchThis <=> FailsThis(state[lane])
        BY <1>4, <1>10
    <2>2. lane \in Nat /\ \A i \in 0 .. lane : i \in CommitLane
        BY <2>1, CommitWidthAssumption DEF CommitWidthAssumption, CommitLane
    <2>3. /\ recoveryReg.valid /\ recoveryReg.ptr = PtrAt(al.head, lane)
          /\ d.refetchThis <=> FailsThis(recoveryReg.state)
        BY <1>7, <2>1 DEF Recovers
    <2>4. \A i \in 0 .. lane : PtrAt(al.head, i) \in finished
        BY <1>8, <2>1, <2>2
    <2>5. Region(al.head, lane + 1) \subseteq finished
        <3>1. (lane + 1) - 1 = lane
            BY <2>2
        <3>2. QED
            BY <2>4, <3>1 DEF Region
    <2>6. QED
        BY <1>1, <2>1, <2>2, <2>3, <2>5
<1>11. ASSUME recoveryReg.valid, ~d.toRecovery, manager.phase # "RECOVER_0",
              recoveryReg.ptr \in Region(al.head, n)
       PROVE  FALSE
    <2>1. PICK i \in 0 .. n - 1 : recoveryReg.ptr = PtrAt(al.head, i)
        BY <1>11, RegionPlace
    <2>2. state[i] = recoveryReg.state
        BY <1>5, <1>7, <1>11, <2>1
    <2>3. Recovers(recoveryReg.state)
        BY <1>11 DEF RecoveryInv, RegInv
    <2>4. QED
        BY <1>4, <1>11, <2>2, <2>3
<1>12. QED
    BY <1>4, <1>6, <1>9, <1>10, <1>11 DEF d

-----------------------------------------------------------------------------
(* The window after a cycle outside a recovery of the active list: n ops    *)
(* leave at its head and the group is behind it.                            *)
LEMMA OperateFacts ==
    ASSUME RecoveryInv, manager.phase # "RECOVER_0", committer.phase = "COMMIT",
           NEW group \in Groups, NEW w \in Writes, Operate(group, w)
    PROVE  LET n == Decision.commitNum
               g == Len(group)
               h == al.head
               c == al.count
           IN  /\ h \in ALPtr /\ c \in Nat /\ c \in 0 .. ACTIVE_LIST_ENTRY_NUM
               /\ al.tail = PtrAt(h, c)
               /\ g \in Nat /\ c + g \in 0 .. ACTIVE_LIST_ENTRY_NUM
               /\ n \in Nat /\ n \in 0 .. c /\ n \in 0 .. c + g
               /\ c + g - n \in 0 .. ACTIVE_LIST_ENTRY_NUM
               /\ CommittedPtrs(n) = Region(h, n) /\ Region(h, n) \subseteq finished
               /\ al'.head = PtrAt(h, n) /\ PtrAt(h, n) \in ALPtr
               /\ al'.count = c + g - n
               /\ al'.tail = PtrAt(al'.head, al'.count)
               /\ Window = Region(h, c) /\ Window \subseteq Region(h, c + g)
               /\ PushedPtrs(group) = Region(h, c + g) \ Window
               /\ Window' = Region(h, c + g) \ Region(h, n) /\ Kept' = Window'
               /\ DOMAIN w \subseteq backEnd /\ backEnd \subseteq Window
               /\ finished \subseteq Window /\ finished \cap backEnd = {}
<1> DEFINE n == Decision.commitNum
           g == Len(group)
           h == al.head
           c == al.count
           pushed == PushedPtrs(group)
           retired == CommittedPtrs(n)
<1>1. /\ h \in ALPtr /\ c \in 0 .. ACTIVE_LIST_ENTRY_NUM
      /\ al.tail = PtrAt(h, c) /\ c \in Nat
    BY ActiveListSizeAssumption
    DEF ActiveListSizeAssumption, RecoveryInv, ListInv
<1>2. g \in Nat /\ c + g \in 0 .. ACTIVE_LIST_ENTRY_NUM
    BY <1>1, GroupFacts, ActiveListSizeAssumption
    DEF ActiveListSizeAssumption, RecoveryInv
<1>3. n \in 0 .. c /\ retired = Region(h, n) /\ retired \subseteq finished
    BY DecisionFacts, CommittedIsRegion
<1>4. n \in Nat /\ n \in 0 .. c + g /\ c + g - n \in 0 .. ACTIVE_LIST_ENTRY_NUM
    BY <1>1, <1>2, <1>3, ActiveListSizeAssumption DEF ActiveListSizeAssumption
<1>5. /\ al'.head = AL!Advance(h, n) /\ al'.tail = AL!Advance(al.tail, g)
      /\ al'.count = c + g - n
      /\ committer' = committer
    BY DEF Operate
<1> HIDE DEF n, g, pushed, retired
<1>6. al'.head = PtrAt(h, n) /\ PtrAt(h, n) \in ALPtr
    <2>1. n \in 0 .. ACTIVE_LIST_ENTRY_NUM
        BY <1>1, <1>3, ActiveListSizeAssumption DEF ActiveListSizeAssumption
    <2>2. QED
        BY <1>1, <1>5, <2>1, AdvanceIsPtrAt, PtrAtRange
<1>7. al'.tail = PtrAt(al'.head, al'.count)
    <2>1. g \in 0 .. ACTIVE_LIST_ENTRY_NUM /\ al.tail \in ALPtr
        BY <1>1, <1>2, PtrAtRange, ActiveListSizeAssumption
        DEF ActiveListSizeAssumption
    <2>2. al'.tail = PtrAt(PtrAt(h, c), g)
        BY <1>1, <1>5, <2>1, AdvanceIsPtrAt
    <2>3. PtrAt(PtrAt(h, c), g) = PtrAt(h, c + g)
        BY <1>1, <1>2, PtrAtAdd
    <2>4. /\ c + g - n \in Nat /\ n + (c + g - n) = c + g
          /\ n + (c + g - n) <= ACTIVE_LIST_ENTRY_NUM
        BY <1>1, <1>2, <1>4, ActiveListSizeAssumption DEF ActiveListSizeAssumption
    <2>5. PtrAt(PtrAt(h, n), c + g - n) = PtrAt(h, c + g)
        BY <1>1, <1>4, <2>4, PtrAtAdd
    <2>6. QED
        BY <1>5, <1>6, <2>2, <2>3, <2>5
<1>8. committer.recoveryCount = 0
    BY DEF RecoveryInv, PhaseInv
<1>9. /\ Window' = Region(h, c + g) \ retired
      /\ Kept' = Window'
      /\ pushed = Region(h, c + g) \ Window
      /\ Window \subseteq Region(h, c + g)
    <2>1. Window' = Region(al'.head, al'.count)
        BY WrapAddIsPtrAt DEF Window, Region
    <2>2. Region(PtrAt(h, n), c + g - n) = Region(h, c + g) \ Region(h, n)
        BY <1>1, <1>2, <1>4, RegionAfter
    <2>3. KeptNum' = al'.count
        BY <1>4, <1>5, <1>8, ActiveListSizeAssumption
        DEF ActiveListSizeAssumption, KeptNum
    <2>4. Kept' = Region(al'.head, al'.count)
        BY <2>3 DEF Kept
    <2>5. pushed = Region(h, c + g) \ Window
        BY PushedFacts, WindowIsRegion DEF RecoveryInv, pushed, g
    <2>6. Window \subseteq Region(h, c + g)
        <3>1. c \in 0 .. c + g /\ c + g \in Nat
            BY <1>1, <1>2
        <3>2. QED
            BY <3>1, RegionGrows, WindowIsRegion
    <2>7. QED
        BY <1>3, <1>5, <1>6, <2>1, <2>2, <2>4, <2>5, <2>6
<1>10. /\ DOMAIN w \subseteq backEnd /\ backEnd \subseteq Window
       /\ finished \subseteq Window /\ finished \cap backEnd = {}
    BY WriteFacts, BackEndPtrs DEF RecoveryInv, OpsInv
<1>11. QED
    BY <1>1, <1>2, <1>3, <1>4, <1>5, <1>6, <1>7, <1>9, <1>10, WindowIsRegion
    DEF n, g, pushed, retired

(* Nothing older than an op that recovers at the head is still to write.   *)
LEMMA RecoveryAtHeadIsOldest ==
    ASSUME RecoveryInv, NEW w \in Writes, Decision.toRecovery
    PROVE  ~Recorded(w)
<1> SUFFICES ASSUME Recorded(w)
             PROVE  FALSE
    OBVIOUS
<1> DEFINE p == OldestOf(Exceptions(w))
           lane == Decision.recoveryLane
           h == al.head
           c == al.count
<1>1. /\ h \in ALPtr /\ c \in 0 .. ACTIVE_LIST_ENTRY_NUM
      /\ recoveryReg.valid /\ lane \in 0 .. c - 1
      /\ recoveryReg.ptr = PtrAt(h, lane)
      /\ Region(h, lane + 1) \subseteq finished
    BY DecisionFacts DEF RecoveryInv, ListInv
<1>2. p \in DOMAIN w /\ Age(p) < Age(recoveryReg.ptr)
    BY <1>1, ExceptionFacts DEF Recorded, RecoveryInv
<1>3. p \in backEnd /\ p \in Region(h, c) /\ p \notin finished
    BY <1>2, WriteFacts, BackEndPtrs, WindowIsRegion DEF RecoveryInv, OpsInv
<1> HIDE DEF p, lane
<1>4. PICK i \in 0 .. c - 1 : p = PtrAt(h, i)
    BY <1>3, RegionPlace
<1>5. i \in ALPtr /\ lane \in ALPtr
    BY <1>1, ActiveListSizeAssumption DEF ActiveListSizeAssumption, ALPtr
<1>6. Age(p) = h + i /\ Age(recoveryReg.ptr) = h + lane
    BY <1>1, <1>4, <1>5, AgeIsProgramOrder DEF Age
<1>7. i \in 0 .. (lane + 1) - 1
    BY <1>1, <1>2, <1>5, <1>6, ActiveListSizeAssumption
    DEF ActiveListSizeAssumption, ALPtr
<1>8. p \in Region(h, lane + 1)
    BY <1>4, <1>7 DEF Region
<1>9. QED
    BY <1>1, <1>3, <1>8

(* An op that just wrote stands behind the retired ones.                   *)
LEMMA WritesStandBehind ==
    ASSUME RecoveryInv, NEW w \in Writes, NEW p \in DOMAIN w
    PROVE  \E i \in Decision.commitNum .. al.count - 1 : p = PtrAt(al.head, i)
<1> DEFINE n == Decision.commitNum
           h == al.head
           c == al.count
<1>1. h \in ALPtr /\ c \in 0 .. ACTIVE_LIST_ENTRY_NUM /\ c \in Nat
    BY ActiveListSizeAssumption
    DEF ActiveListSizeAssumption, RecoveryInv, ListInv
<1>2. n \in 0 .. c /\ Region(h, n) \subseteq finished
    BY DecisionFacts
<1>3. p \in Region(h, c) /\ p \notin Region(h, n)
    BY <1>2, WriteFacts, BackEndPtrs, WindowIsRegion DEF RecoveryInv, OpsInv
<1> HIDE DEF n
<1>4. PICK i \in 0 .. c - 1 : p = PtrAt(h, i)
    BY <1>3, RegionPlace
<1>5. i \in ALPtr /\ n \in 0 .. ACTIVE_LIST_ENTRY_NUM
    BY <1>1, <1>2, ActiveListSizeAssumption DEF ActiveListSizeAssumption, ALPtr
<1>6. ~(i < n)
    BY <1>1, <1>3, <1>4, <1>5, PlaceInRegion
<1>7. i \in n .. c - 1
    BY <1>1, <1>2, <1>6
<1>8. QED
    BY <1>4, <1>7 DEF n

(* The op that the register will name, which a recovery starts from, and   *)
(* whether that op itself is fetched again                                 *)
Culprit(w) == NextRecoveryReg(w).ptr
CulpritFails(w) == IF Recorded(w) THEN FailsThis(w[OldestOf(Exceptions(w))])
                                  ELSE FailsThis(recoveryReg.state)
StartsRecovery(w) ==
    manager.phase = "COMMIT" /\ (Decision.toRecovery \/ DetectedInRwStage(w))

(* A recovery starts from an op of the window: the range that will be      *)
(* flushed begins with it or behind it, and behind all that retire.        *)
LEMMA RecoveryStartFacts ==
    ASSUME RecoveryInv, committer.phase = "COMMIT",
           NEW group \in Groups, NEW w \in Writes, Operate(group, w),
           StartsRecovery(w)
    PROVE  LET n == Decision.commitNum
               h == al.head
               kept(i) == (IF CulpritFails(w) THEN i ELSE i + 1) - n
           IN  /\ manager'.phase = "RECOVER_0" /\ manager'.flushTail = al'.tail
               /\ \E i \in 0 .. al.count - 1 :
                     /\ Culprit(w) = PtrAt(h, i)
                     /\ kept(i) \in 0 .. al'.count
                     /\ n + kept(i) \in 0 .. al.count
                     /\ manager'.flushHead = PtrAt(al'.head, kept(i))
<1> DEFINE n == Decision.commitNum
           g == Len(group)
           h == al.head
           c == al.count
           x == Culprit(w)
           this == IF Decision.toRecovery THEN Decision.refetchThis
                   ELSE w[OldestOf(Exceptions(w))] = "REFETCH_THIS"
<1>1. /\ h \in ALPtr /\ c \in 0 .. ACTIVE_LIST_ENTRY_NUM /\ c \in Nat
      /\ n \in Nat /\ n \in 0 .. c /\ g \in Nat
      /\ al'.head = PtrAt(h, n) /\ al'.count = c + g - n
    BY OperateFacts DEF StartsRecovery
<1>2. /\ manager'.phase = "RECOVER_0"
      /\ manager'.flushHead = IF this THEN x ELSE NextPtr(x)
      /\ manager'.flushTail = al'.tail
    <2>1. manager' = [phase     |-> "RECOVER_0",
                      flushHead |-> IF this THEN x ELSE NextPtr(x),
                      flushTail |-> AL!Advance(al.tail, Len(group))]
        BY DEF Operate, ManagerStep, StartsRecovery, Culprit
    <2>2. al'.tail = AL!Advance(al.tail, Len(group))
        BY DEF Operate
    <2>3. QED
        BY <2>1, <2>2
<1>3. /\ this <=> CulpritFails(w)
      /\ \E i \in 0 .. c - 1 : x = PtrAt(h, i) /\ n <= IF this THEN i ELSE i + 1
    <2>1. CASE Decision.toRecovery
        <3>1. ~Recorded(w)
            BY <2>1, RecoveryAtHeadIsOldest
        <3>2. x = recoveryReg.ptr
            BY <3>1 DEF Culprit, NextRecoveryReg
        <3>3. /\ Decision.recoveryLane \in 0 .. c - 1
              /\ recoveryReg.ptr = PtrAt(h, Decision.recoveryLane)
              /\ n = IF Decision.refetchThis THEN Decision.recoveryLane
                     ELSE Decision.recoveryLane + 1
              /\ Decision.refetchThis <=> FailsThis(recoveryReg.state)
            BY <2>1, DecisionFacts
        <3>4. this <=> CulpritFails(w)
            BY <2>1, <3>1, <3>3 DEF CulpritFails
        <3> HIDE DEF x, n
        <3>5. QED
            BY <1>1, <2>1, <3>2, <3>3, <3>4
    <2>2. CASE ~Decision.toRecovery
        <3>1. /\ DetectedInRwStage(w) /\ Recorded(w)
              /\ w[OldestOf(Exceptions(w))] \in {"REFETCH_NEXT", "REFETCH_THIS"}
            BY <2>2 DEF StartsRecovery, DetectedInRwStage, ExceptionDetected
        <3>2. this <=> CulpritFails(w)
            BY <2>2, <3>1 DEF CulpritFails, FailsThis
        <3>3. x \in DOMAIN w
            BY <3>1, NextRecoveryRegFacts DEF Culprit, RecoveryInv
        <3>4. PICK i \in n .. c - 1 : x = PtrAt(h, i)
            BY <3>3, WritesStandBehind
        <3> HIDE DEF x, n, this
        <3>5. i \in 0 .. c - 1 /\ n <= i /\ n <= i + 1
            BY <1>1, <3>4
        <3>6. QED
            BY <3>2, <3>4, <3>5
    <2>3. QED
        BY <2>1, <2>2
<1> HIDE DEF x, this, n, g
<1>4. PICK i \in 0 .. c - 1 : x = PtrAt(h, i) /\ n <= IF this THEN i ELSE i + 1
    BY <1>3
<1> DEFINE first == IF this THEN i ELSE i + 1
<1>5. manager'.flushHead = PtrAt(h, first)
    <2>1. i \in ALPtr
        BY <1>1, ActiveListSizeAssumption DEF ActiveListSizeAssumption, ALPtr
    <2>2. NextPtr(x) = PtrAt(h, i + 1)
        BY <1>1, <1>4, <2>1, NextPtrIsPtrAt
    <2>3. QED
        BY <1>2, <1>4, <2>2
<1>6. first \in n .. c
    BY <1>1, <1>4
<1>7. first = IF CulpritFails(w) THEN i ELSE i + 1
    BY <1>3
<1> HIDE DEF first
<1>8. /\ first - n \in Nat /\ n + (first - n) = first
      /\ first - n \in 0 .. c + g - n /\ first \in 0 .. c
      /\ n + (first - n) <= ACTIVE_LIST_ENTRY_NUM
    BY <1>1, <1>6, ActiveListSizeAssumption DEF ActiveListSizeAssumption
<1>9. PtrAt(PtrAt(h, n), first - n) = PtrAt(h, first)
    BY <1>1, <1>8, PtrAtAdd
<1>10. /\ x = PtrAt(h, i) /\ first - n \in 0 .. al'.count
       /\ n + (first - n) \in 0 .. c
       /\ manager'.flushHead = PtrAt(al'.head, first - n)
    BY <1>1, <1>4, <1>5, <1>8, <1>9
<1>11. QED
    BY <1>2, <1>7, <1>10 DEF x, n

(* A cycle outside a recovery of the active list preserves the invariant.  *)
LEMMA OperatePreserves ==
    ASSUME RecoveryInv, manager.phase # "RECOVER_0", committer.phase = "COMMIT",
           NEW group \in Groups, NEW w \in Writes, Operate(group, w)
    PROVE  RecoveryInv'
<1> DEFINE n == Decision.commitNum
           g == Len(group)
           h == al.head
           c == al.count
           pushed == PushedPtrs(group)
           retired == CommittedPtrs(n)
<1>1. /\ h \in ALPtr /\ c \in 0 .. ACTIVE_LIST_ENTRY_NUM
      /\ al.tail = PtrAt(h, c) /\ c \in Nat
      /\ g \in Nat /\ c + g \in 0 .. ACTIVE_LIST_ENTRY_NUM
      /\ n \in Nat /\ n \in 0 .. c + g /\ c + g - n \in 0 .. ACTIVE_LIST_ENTRY_NUM
      /\ al'.head = PtrAt(h, n) /\ PtrAt(h, n) \in ALPtr
      /\ al'.count = c + g - n /\ al'.tail = PtrAt(al'.head, al'.count)
      /\ Window' = Region(h, c + g) \ retired /\ Kept' = Window'
      /\ pushed = Region(h, c + g) \ Window /\ Window \subseteq Region(h, c + g)
      /\ DOMAIN w \subseteq backEnd /\ backEnd \subseteq Window
      /\ finished \subseteq Window /\ finished \cap backEnd = {}
    BY OperateFacts
<1>2. /\ n \in 0 .. c /\ retired = Region(h, n) /\ retired \subseteq finished
      /\ Decision.toRecovery =>
            /\ manager.phase = "COMMIT" /\ recoveryReg.valid
            /\ Decision.recoveryLane \in 0 .. c - 1
            /\ recoveryReg.ptr = PtrAt(h, Decision.recoveryLane)
            /\ Region(h, Decision.recoveryLane + 1) \subseteq finished
            /\ n = IF Decision.refetchThis THEN Decision.recoveryLane
                   ELSE Decision.recoveryLane + 1
      /\ recoveryReg.valid /\ ~Decision.toRecovery => recoveryReg.ptr \notin retired
      /\ manager.phase # "COMMIT" => ~Decision.toRecovery
    BY DecisionFacts, CommittedIsRegion
<1>3. /\ finished' = (finished \cup DOMAIN w) \ (pushed \cup retired)
      /\ backEnd' = (backEnd \ DOMAIN w) \cup pushed
      /\ recoveryReg' = NextRecoveryReg(w)
      /\ manager' = ManagerStep(w, group)
      /\ al'.tail = AL!Advance(al.tail, Len(group))
      /\ committer' = committer /\ recoveryEntryNum' = recoveryEntryNum
    BY DEF Operate
<1> HIDE DEF n, g, pushed, retired
<1>4. ListInv'
    BY <1>1 DEF ListInv
<1>5. committer.recoveryCount = 0
    BY DEF RecoveryInv, PhaseInv
<1>6. OpsInv'
    <2>1. finished' \subseteq Window'
        BY <1>3, <1>1
    <2>2. backEnd' \subseteq Kept'
        BY <1>2, <1>3, <1>1
    <2>3. finished' \cap backEnd' = {}
        BY <1>3, <1>1
    <2>4. QED
        BY <2>1, <2>2, <2>3 DEF OpsInv
<1>7. DetectedInRwStage(w) => manager.phase = "COMMIT"
    BY DEF DetectedInRwStage, UnableToStartRecovery
<1>8. CASE StartsRecovery(w)
    <2>1. /\ manager'.phase = "RECOVER_0" /\ manager'.flushTail = al'.tail
          /\ \E kept \in 0 .. al'.count : manager'.flushHead = PtrAt(al'.head, kept)
        BY <1>8, RecoveryStartFacts
    <2>2. RangeInv'
        BY <2>1 DEF RangeInv
    <2>3. RegInv'
        BY <2>1 DEF RegInv
    <2>4. PhaseInv'
        <3>1. al'.count \in Nat
            BY <1>1, <1>3, ActiveListSizeAssumption DEF ActiveListSizeAssumption
        <3>2. QED
            BY <1>3, <1>5, <2>1, <3>1 DEF PhaseInv
    <2>5. QED
        BY <1>4, <1>6, <2>2, <2>3, <2>4 DEF RecoveryInv
<1>9. CASE ~StartsRecovery(w)
    <2>1. manager'.phase \in {"COMMIT", "RECOVER_1"}
        <3>1. manager.phase \in {"COMMIT", "RECOVER_1"}
            BY DEF RecoveryInv, PhaseInv
        <3>2. manager' = manager \/ manager' = InPhase("COMMIT")
            BY <1>3, <1>9, <3>1 DEF ManagerStep, StartsRecovery
        <3>3. QED
            BY <3>1, <3>2 DEF InPhase
    <2>2. ~DetectedInRwStage(w) /\ ~Decision.toRecovery
        BY <1>2, <1>7, <1>9 DEF StartsRecovery
    <2>3. RangeInv'
        BY <2>1 DEF RangeInv
    <2>4. PhaseInv'
        <3>1. al'.count \in Nat
            BY <1>1, <1>3, ActiveListSizeAssumption DEF ActiveListSizeAssumption
        <3>2. committer.phase = "COMMIT" /\ committer.recoveryCount = 0
            BY <1>5
        <3>3. QED
            BY <1>3, <2>1, <3>1, <3>2 DEF PhaseInv
    <2>5. ASSUME recoveryReg'.valid
          PROVE  /\ recoveryReg'.ptr \in Kept' \cap finished'
                 /\ Recovers(recoveryReg'.state)
        <3>1. CASE ~Recorded(w)
            <4>1. recoveryReg' = recoveryReg
                BY <1>3, <3>1, NextRecoveryRegFacts DEF RecoveryInv
            <4>2. /\ recoveryReg.ptr \in finished /\ Recovers(recoveryReg.state)
                BY <2>5, <4>1 DEF RecoveryInv, RegInv
            <4>3. recoveryReg.ptr \notin retired
                BY <1>2, <2>2, <2>5, <4>1
            <4>4. QED
                BY <1>3, <1>1, <4>1, <4>2, <4>3
        <3>2. CASE Recorded(w)
            <4>1. recoveryReg'.ptr \in DOMAIN w /\ Recovers(recoveryReg'.state)
                BY <1>3, <2>2, <3>2, NextRecoveryRegFacts DEF RecoveryInv
            <4>2. QED
                BY <1>2, <1>3, <1>1, <4>1
        <3>3. QED
            BY <3>1, <3>2
    <2>6. RegInv'
        BY <2>5 DEF RegInv
    <2>7. QED
        BY <1>4, <1>6, <2>3, <2>4, <2>6 DEF RecoveryInv
<1>10. QED
    BY <1>8, <1>9

(* The flush takes what is not older than the first op of its range, and   *)
(* the committer will pop the same ops.  Only the range that looks like    *)
(* the range of all ops takes more.                                        *)
LEMMA StartRecoveryFacts ==
    ASSUME RecoveryInv, StartRecovery, NEW kept \in 0 .. al.count,
           manager.flushHead = PtrAt(al.head, kept)
    PROVE  /\ manager.phase = "RECOVER_0" /\ committer.phase = "COMMIT"
           /\ recoveryEntryNum' \in 0 .. al.count
           /\ Window' = Window /\ Kept' \subseteq Region(al.head, kept)
           /\ Writers \subseteq Kept' /\ Writers \subseteq backEnd
           /\ ~Ambiguous(kept, al.count) =>
                 /\ Kept' = Region(al.head, kept)
                 /\ \A q \in Window : Flushed(q) => q \notin Region(al.head, kept)
<1> DEFINE h == al.head
           c == al.count
           num == FlushEntryNum(manager.flushHead, manager.flushTail, c)
<1>1. /\ manager.phase = "RECOVER_0" /\ al' = al
      /\ recoveryEntryNum' = num /\ committer'.phase = "RECOVER_0"
    BY DEF StartRecovery
<1>2. /\ h \in ALPtr /\ c \in 0 .. ACTIVE_LIST_ENTRY_NUM
      /\ c \in Nat /\ kept \in Nat /\ c - (c - kept) = kept
      /\ manager.flushTail = PtrAt(h, c) /\ committer.phase = "COMMIT"
    BY <1>1, ActiveListSizeAssumption
    DEF ActiveListSizeAssumption, RecoveryInv, ListInv, RangeInv, PhaseInv
<1>3. /\ num \in 0 .. c
      /\ \A q \in Region(h, c) : Flushed(q) \/ q \in Region(h, c - num)
    BY <1>2, FlushLeavesOlder DEF Flushed
<1>4. Kept' = Region(h, c - num) /\ Window' = Window
    <2>1. Kept' = Region(h, c - num)
        BY <1>1 DEF Kept, KeptNum
    <2>2. Window' = Window
        BY <1>1 DEF Window
    <2>3. QED
        BY <2>1, <2>2
<1>5. ASSUME ~Ambiguous(kept, c)
      PROVE  /\ num = c - kept
             /\ \A q \in Window : Flushed(q) => q \notin Region(h, kept)
    <2>1. num = c - kept
        BY <1>2, <1>5, FlushEntryNumIsExact
    <2>2. ASSUME NEW q \in Window, Flushed(q)
          PROVE  q \notin Region(h, kept)
        <3>1. PICK i \in 0 .. c - 1 : q = PtrAt(h, i)
            BY WindowIsRegion, RegionPlace
        <3>2. Flushed(PtrAt(h, i)) <=> i >= kept
            BY <1>2, <1>5, SelectiveFlushIsByAge DEF Flushed
        <3>3. i \in ALPtr /\ i \in Nat /\ kept \in 0 .. ACTIVE_LIST_ENTRY_NUM
            BY <1>2, ActiveListSizeAssumption DEF ActiveListSizeAssumption, ALPtr
        <3>4. ~(i < kept)
            BY <1>2, <2>2, <3>1, <3>2, <3>3
        <3>5. QED
            BY <1>2, <3>1, <3>3, <3>4, PlaceInRegion
    <2>3. QED
        BY <2>1, <2>2
<1> HIDE DEF num
<1>6. Region(h, c - num) \subseteq Region(h, kept)
    <2>1. CASE Ambiguous(kept, c)
        <3>1. kept = c /\ c - num \in 0 .. c
            BY <1>2, <1>3, <2>1 DEF Ambiguous
        <3>2. QED
            BY <1>2, <3>1, RegionGrows
    <2>2. CASE ~Ambiguous(kept, c)
        BY <1>2, <1>5, <2>2
    <2>3. QED
        BY <2>1, <2>2
<1>7. Writers \subseteq Region(h, c - num) /\ Writers \subseteq backEnd
    <2>1. Writers \subseteq {p \in backEnd : ~Flushed(p)}
        BY <1>1 DEF Writers
    <2>2. backEnd \subseteq Region(h, c)
        BY BackEndPtrs, WindowIsRegion DEF RecoveryInv
    <2>3. QED
        BY <1>3, <2>1, <2>2
<1>8. ~Ambiguous(kept, c) => Kept' = Region(h, kept)
    BY <1>2, <1>4, <1>5
<1>9. QED
    BY <1>1, <1>2, <1>3, <1>4, <1>5, <1>6, <1>7, <1>8

(* What the flush leaves in the back end will not be popped.               *)
LEMMA StartRecoveryPreserves ==
    ASSUME RecoveryInv, StartRecovery
    PROVE  RecoveryInv'
<1>1. PICK w \in Writes :
         /\ backEnd' = Writers \ DOMAIN w
         /\ finished' = finished \cup DOMAIN w
         /\ recoveryReg' = IF Recorded(w) THEN NextRecoveryReg(w) ELSE NoRecovery
    BY DEF StartRecovery, WriteOnly
<1>2. /\ manager.phase = "RECOVER_0" /\ al' = al
      /\ manager'.phase = "RECOVER_1"
      /\ committer'.phase = "RECOVER_0" /\ committer'.recoveryCount = 0
    BY DEF StartRecovery, InPhase
<1>3. /\ recoveryEntryNum' \in 0 .. al.count
      /\ Window' = Window /\ Writers \subseteq Kept' /\ Writers \subseteq backEnd
    <2>1. PICK kept \in 0 .. al.count : manager.flushHead = PtrAt(al.head, kept)
        BY <1>2 DEF RecoveryInv, RangeInv
    <2>2. QED
        BY <2>1, StartRecoveryFacts
<1>4. DOMAIN w \subseteq Writers
    BY WriteFacts
<1>5. ListInv' /\ RangeInv'
    BY <1>2 DEF RecoveryInv, ListInv, RangeInv
<1>6. PhaseInv'
    <2>1. 0 \in 0 .. al.count
        BY ActiveListSizeAssumption DEF ActiveListSizeAssumption, RecoveryInv, ListInv
    <2>2. QED
        BY <1>2, <1>3, <2>1 DEF PhaseInv
<1>7. OpsInv'
    <2>1. /\ finished \subseteq Window /\ finished \cap backEnd = {}
          /\ backEnd \subseteq Window
        BY BackEndPtrs DEF RecoveryInv, OpsInv
    <2>2. QED
        BY <1>1, <1>3, <1>4, <2>1 DEF OpsInv
<1>8. RegInv'
    <2>1. CASE ~Recorded(w)
        BY <1>1, <2>1 DEF RegInv, NoRecovery
    <2>2. CASE Recorded(w)
        <3>1. ~DetectedInRwStage(w)
            BY <1>2 DEF DetectedInRwStage, UnableToStartRecovery
        <3>2. recoveryReg'.ptr \in DOMAIN w /\ Recovers(recoveryReg'.state)
            BY <1>1, <2>2, <3>1, NextRecoveryRegFacts DEF RecoveryInv
        <3>3. QED
            BY <1>1, <1>3, <1>4, <3>2 DEF RegInv
    <2>3. QED
        BY <2>1, <2>2
<1>9. QED
    BY <1>5, <1>6, <1>7, <1>8 DEF RecoveryInv

(* An op that writes during a recovery survives it, and so does the record *)
(* of its failure.                                                         *)
LEMMA WriteInRecovery ==
    ASSUME RecoveryInv, manager.phase = "RECOVER_1", NEW w \in Writes
    PROVE  /\ DOMAIN w \subseteq backEnd /\ Writers = backEnd
           /\ DOMAIN w \subseteq Kept /\ Kept \subseteq Window
           /\ NextRecoveryReg(w).valid =>
                 /\ NextRecoveryReg(w).ptr \in Kept \cap (finished \cup DOMAIN w)
                 /\ Recovers(NextRecoveryReg(w).state)
<1>1. /\ DOMAIN w \subseteq backEnd /\ Writers = backEnd
      /\ backEnd \subseteq Kept /\ Kept \subseteq Window
    BY WriteFacts, KeptInWindow DEF Writers, RecoveryInv, OpsInv
<1>2. ~DetectedInRwStage(w)
    BY DEF DetectedInRwStage, UnableToStartRecovery
<1>3. CASE ~Recorded(w)
    BY <1>1, <1>3, NextRecoveryRegFacts DEF RecoveryInv, RegInv
<1>4. CASE Recorded(w)
    BY <1>1, <1>2, <1>4, NextRecoveryRegFacts DEF RecoveryInv
<1>5. QED
    BY <1>1, <1>3, <1>4

LEMMA LoadRecoveryCountPreserves ==
    ASSUME RecoveryInv, LoadRecoveryCount
    PROVE  RecoveryInv'
<1>1. PICK w \in Writes :
         /\ backEnd' = Writers \ DOMAIN w
         /\ finished' = finished \cup DOMAIN w
         /\ recoveryReg' = NextRecoveryReg(w)
    BY DEF LoadRecoveryCount, WriteOnly
<1>2. /\ committer.phase = "RECOVER_0" /\ al' = al /\ manager' = manager
      /\ committer'.phase = "RECOVER_1"
      /\ committer'.recoveryCount = recoveryEntryNum
    BY DEF LoadRecoveryCount
<1>3. manager.phase = "RECOVER_1" /\ recoveryEntryNum \in 0 .. al.count
    BY <1>2 DEF RecoveryInv, PhaseInv
<1>4. Window' = Window /\ Kept' = Kept
    <2>1. Window' = Window
        BY <1>2 DEF Window
    <2>2. KeptNum' = KeptNum
        BY <1>2 DEF KeptNum
    <2>3. QED
        BY <1>2, <2>1, <2>2 DEF Kept
<1>5. ListInv' /\ RangeInv'
    BY <1>2, <1>3 DEF RecoveryInv, ListInv, RangeInv
<1>6. PhaseInv'
    BY <1>2, <1>3 DEF PhaseInv
<1>7. OpsInv' /\ RegInv'
    <2>1. /\ DOMAIN w \subseteq backEnd /\ Writers = backEnd
          /\ DOMAIN w \subseteq Kept /\ Kept \subseteq Window
          /\ NextRecoveryReg(w).valid =>
                /\ NextRecoveryReg(w).ptr \in Kept \cap (finished \cup DOMAIN w)
                /\ Recovers(NextRecoveryReg(w).state)
        BY <1>3, WriteInRecovery
    <2>2. /\ finished \subseteq Window /\ finished \cap backEnd = {}
          /\ backEnd \subseteq Kept
        BY DEF RecoveryInv, OpsInv
    <2>3. OpsInv'
        BY <1>1, <1>4, <2>1, <2>2 DEF OpsInv
    <2>4. RegInv'
        BY <1>1, <1>4, <2>1 DEF RegInv
    <2>5. QED
        BY <2>3, <2>4
<1>8. QED
    BY <1>5, <1>6, <1>7 DEF RecoveryInv

(* The window after a pop: its youngest ops are gone, as many as the        *)
(* committer counts down, and those that it keeps are still there.         *)
LEMMA PopFacts ==
    ASSUME RecoveryInv, PopFlushed
    PROVE  LET n == PopTailNum
               rest == committer.recoveryCount
               h == al.head
               c == al.count
           IN  /\ committer.phase = "RECOVER_1" /\ manager.phase = "RECOVER_1"
               /\ h \in ALPtr /\ c \in Nat /\ c \in 0 .. ACTIVE_LIST_ENTRY_NUM
               /\ al.tail = PtrAt(h, c)
               /\ n \in 0 .. c /\ c - n \in 0 .. c /\ rest - n \in 0 .. c - n
               /\ rest = 0 => rest - n = 0
               /\ al'.head = h /\ al'.count = c - n /\ al'.tail = PtrAt(h, c - n)
               /\ manager' = manager
               /\ committer'.phase \in {"COMMIT", "RECOVER_1"}
               /\ committer'.phase = "COMMIT" => rest = 0
               /\ committer'.recoveryCount = rest - n
               /\ \A i \in 0 .. n - 1 : /\ TailPtr(i) = PtrAt(h, c - 1 - i)
                                       /\ c - 1 - i \in c - n .. c - 1
               /\ PoppedPtrs = Region(h, c) \ Region(h, c - n)
               /\ Window = Region(h, c) /\ Window' = Region(h, c - n)
               /\ Window' = Window \ PoppedPtrs
               /\ Kept' = Kept /\ Kept \subseteq Window'
<1> DEFINE h == al.head
           c == al.count
           rest == committer.recoveryCount
           n == PopTailNum
<1>1. h \in ALPtr /\ c \in 0 .. ACTIVE_LIST_ENTRY_NUM /\ al.tail = PtrAt(h, c)
    BY DEF RecoveryInv, ListInv
<1>2. /\ committer.phase = "RECOVER_1" /\ manager.phase = "RECOVER_1"
      /\ rest \in 0 .. c
    BY DEF PopFlushed, RecoveryInv, PhaseInv
<1>3. n \in 0 .. rest /\ (rest = 0 => n = 0)
    BY <1>1, <1>2, CommitWidthAssumption, ActiveListSizeAssumption
    DEF CommitWidthAssumption, ActiveListSizeAssumption, PopTailNum
<1>4. /\ al'.head = h /\ al'.tail = AL!Retreat(al.tail, n)
      /\ al'.count = c - n /\ manager' = manager
      /\ committer'.phase \in {"COMMIT", "RECOVER_1"}
      /\ committer'.phase = "COMMIT" => rest = 0
      /\ committer'.recoveryCount = rest - n
    BY DEF PopFlushed
<1> HIDE DEF n
<1>5. n \in 0 .. c /\ n \in 0 .. ACTIVE_LIST_ENTRY_NUM
      /\ c - n \in 0 .. ACTIVE_LIST_ENTRY_NUM /\ c - n \in 0 .. c
      /\ c - rest \in 0 .. c - n /\ c - n - (rest - n) = c - rest
      /\ rest - n \in 0 .. c - n /\ (rest = 0 => rest - n = 0) /\ c \in Nat
    BY <1>1, <1>2, <1>3, ActiveListSizeAssumption DEF ActiveListSizeAssumption
<1>6. \A i \in 0 .. n - 1 : /\ TailPtr(i) = PtrAt(h, c - 1 - i)
                            /\ c - 1 - i \in c - n .. c - 1
    <2>1. \A i \in 0 .. n - 1 : i \in 0 .. c - 1 /\ c - 1 - i \in c - n .. c - 1
        BY <1>5
    <2>2. QED
        BY <1>1, <2>1, WrapBackIsPtrAt DEF TailPtr
<1>7. PoppedPtrs = Region(h, c) \ Region(h, c - n)
    <2>2. ASSUME NEW q \in PoppedPtrs
          PROVE  q \in Region(h, c) /\ q \notin Region(h, c - n)
        <3>1. PICK i \in 0 .. n - 1 : q = TailPtr(i)
            BY DEF PoppedPtrs, n
        <3>2. c - 1 - i \in ALPtr /\ c - 1 - i < c /\ ~(c - 1 - i < c - n)
            BY <1>1, <1>5, ActiveListSizeAssumption
            DEF ActiveListSizeAssumption, ALPtr
        <3>3. q = PtrAt(h, c - 1 - i)
            BY <1>6, <3>1
        <3>4. QED
            BY <1>1, <1>5, <3>2, <3>3, PlaceInRegion
    <2>3. ASSUME NEW q \in Region(h, c), q \notin PoppedPtrs
          PROVE  q \in Region(h, c - n)
        <3>1. PICK i \in 0 .. c - 1 : q = PtrAt(h, i)
            BY RegionPlace
        <3>2. ASSUME ~(i < c - n)
              PROVE  FALSE
            <4>1. c - 1 - i \in 0 .. n - 1 /\ c - 1 - (c - 1 - i) = i
                BY <1>5, <3>2
            <4>2. q = TailPtr(c - 1 - i)
                BY <1>6, <3>1, <4>1
            <4>3. QED
                BY <2>3, <4>1, <4>2 DEF PoppedPtrs, n
        <3>3. i \in 0 .. c - n - 1
            BY <1>5, <3>2
        <3>4. QED
            BY <3>1, <3>3 DEF Region
    <2>4. QED
        BY <2>2, <2>3
<1>8. /\ Window' = Region(h, c - n)
      /\ Kept = Region(h, c - rest) /\ Kept' = Kept
      /\ Kept \subseteq Window'
    <2>1. Window' = Region(h, c - n)
        BY <1>4, WrapAddIsPtrAt DEF Window, Region
    <2>2. KeptNum = c - rest
        BY <1>2 DEF KeptNum
    <2>3. KeptNum' = c - rest
        BY <1>4, <1>5 DEF KeptNum
    <2>4. Region(h, c - rest) \subseteq Region(h, c - n)
        BY <1>5, RegionGrows
    <2>5. QED
        BY <1>4, <2>1, <2>2, <2>3, <2>4 DEF Kept
<1>9. al'.tail = PtrAt(h, c - n)
    BY <1>1, <1>4, <1>5, RetreatIsPtrAt
<1>10. Window' = Window \ PoppedPtrs
    <2>1. Region(h, c - n) \subseteq Region(h, c)
        BY <1>5, RegionGrows
    <2>2. QED
        BY <1>7, <1>8, <2>1, WindowIsRegion
<1>11. QED
    BY <1>1, <1>2, <1>4, <1>5, <1>6, <1>7, <1>8, <1>9, <1>10, WindowIsRegion
    DEF n

(* The pops take the youngest ops only, as many as remain to be popped.    *)
LEMMA PopFlushedPreserves ==
    ASSUME RecoveryInv, PopFlushed
    PROVE  RecoveryInv'
<1> DEFINE n == PopTailNum
           rest == committer.recoveryCount
           h == al.head
           c == al.count
<1>1. PICK w \in Writes :
         /\ backEnd' = backEnd \ DOMAIN w
         /\ finished' = (finished \cup DOMAIN w) \ PoppedPtrs
         /\ recoveryReg' = NextRecoveryReg(w)
    BY DEF PopFlushed
<1>2. /\ manager.phase = "RECOVER_1"
      /\ h \in ALPtr /\ c \in 0 .. ACTIVE_LIST_ENTRY_NUM
      /\ n \in 0 .. c /\ c - n \in 0 .. c /\ rest - n \in 0 .. c - n
      /\ rest = 0 => rest - n = 0
      /\ al'.head = h /\ al'.count = c - n /\ al'.tail = PtrAt(h, c - n)
      /\ manager' = manager
      /\ committer'.phase \in {"COMMIT", "RECOVER_1"}
      /\ committer'.phase = "COMMIT" => rest = 0
      /\ committer'.recoveryCount = rest - n
      /\ Window' = Window \ PoppedPtrs
      /\ Kept' = Kept /\ Kept \subseteq Window'
    BY PopFacts
<1> HIDE DEF n
<1>3. ListInv'
    <2>1. c - n \in 0 .. ACTIVE_LIST_ENTRY_NUM
        BY <1>2, ActiveListSizeAssumption DEF ActiveListSizeAssumption
    <2>2. QED
        BY <1>2, <2>1 DEF ListInv
<1>4. RangeInv'
    BY <1>2 DEF RangeInv
<1>5. PhaseInv'
    BY <1>2 DEF PhaseInv
<1>6. OpsInv' /\ RegInv'
    <2>1. /\ DOMAIN w \subseteq backEnd /\ DOMAIN w \subseteq Kept
          /\ Kept \subseteq Window
          /\ NextRecoveryReg(w).valid =>
                /\ NextRecoveryReg(w).ptr \in Kept \cap (finished \cup DOMAIN w)
                /\ Recovers(NextRecoveryReg(w).state)
        BY <1>2, WriteInRecovery
    <2>2. /\ finished \subseteq Window /\ finished \cap backEnd = {}
          /\ backEnd \subseteq Kept
        BY DEF RecoveryInv, OpsInv
    <2>3. OpsInv'
        BY <1>1, <1>2, <2>1, <2>2 DEF OpsInv
    <2>4. RegInv'
        BY <1>1, <1>2, <2>1 DEF RegInv
    <2>5. QED
        BY <2>3, <2>4
<1>7. QED
    BY <1>3, <1>4, <1>5, <1>6 DEF RecoveryInv

-----------------------------------------------------------------------------
(* The invariant holds from reset on. *)
LEMMA InitEstablishes == Init => RecoveryInv
<1> SUFFICES ASSUME Init
             PROVE  RecoveryInv
    OBVIOUS
<1>1. 0 \in ALPtr /\ 0 \in 0 .. ACTIVE_LIST_ENTRY_NUM
    BY ActiveListSizeAssumption DEF ActiveListSizeAssumption, ALPtr
<1>2. al.head = 0 /\ al.tail = 0 /\ al.count = 0
    BY DEF Init
<1>3. ListInv
    BY <1>1, <1>2, PtrAtZero DEF ListInv
<1>4. PhaseInv /\ RangeInv
    BY <1>2 DEF Init, PhaseInv, RangeInv, InPhase
<1>5. OpsInv /\ RegInv
    BY DEF Init, OpsInv, RegInv, NoRecovery
<1>6. QED
    BY <1>3, <1>4, <1>5 DEF RecoveryInv

LEMMA StutterPreserves ==
    ASSUME RecoveryInv, UNCHANGED vars
    PROVE  RecoveryInv'
<1>1. /\ al' = al /\ manager' = manager /\ committer' = committer
      /\ recoveryEntryNum' = recoveryEntryNum /\ recoveryReg' = recoveryReg
      /\ finished' = finished /\ backEnd' = backEnd
    BY DEF vars
<1>2. Window' = Window /\ Kept' = Kept
    BY <1>1 DEF Window, Kept, KeptNum
<1>3. QED
    BY <1>1, <1>2
    DEF RecoveryInv, ListInv, PhaseInv, RangeInv, OpsInv, RegInv

LEMMA StepPreserves == RecoveryInv /\ [Next]_vars => RecoveryInv'
<1> SUFFICES ASSUME RecoveryInv, [Next]_vars
             PROVE  RecoveryInv'
    OBVIOUS
<1>1. CASE Run
    <2>1. manager.phase = "COMMIT" /\ committer.phase = "COMMIT"
        BY <1>1 DEF Run, RecoveryInv, PhaseInv
    <2>2. PICK group \in Groups, w \in Writes : Operate(group, w)
        BY <1>1 DEF Run
    <2>3. QED
        BY <2>1, <2>2, OperatePreserves
<1>2. CASE StartRecovery
    BY <1>2, StartRecoveryPreserves
<1>3. CASE LoadRecoveryCount
    BY <1>3, LoadRecoveryCountPreserves
<1>4. CASE PopFlushed
    BY <1>4, PopFlushedPreserves
<1>5. CASE AwaitIssueQueue
    <2>1. manager.phase # "RECOVER_0" /\ committer.phase = "COMMIT"
        BY <1>5 DEF AwaitIssueQueue
    <2>2. PICK group \in Groups, w \in Writes : Operate(group, w)
        BY <1>5 DEF AwaitIssueQueue
    <2>3. QED
        BY <2>1, <2>2, OperatePreserves
<1>6. CASE UNCHANGED vars
    BY <1>6, StutterPreserves
<1>7. QED
    BY <1>1, <1>2, <1>3, <1>4, <1>5, <1>6 DEF Next

(* The control of a recovery is right in every reachable state: the phases *)
(* of the two machines agree, the flush range is a suffix of the window,   *)
(* the back end holds only unfinished ops that the committer will not pop, *)
(* and the recovery register names a finished op that failed.              *)
THEOREM RecoveryControl == Spec => []RecoveryInv
BY InitEstablishes, StepPreserves, PTL DEF Spec

(* The committer never pops past the head of the active list, and a        *)
(* recovery only starts with the committer in COMMIT.                      *)
THEOREM RecoveryStaysInList == Spec => []RecoveryWithinList
<1>1. RecoveryInv => RecoveryWithinList
    <2> SUFFICES ASSUME RecoveryInv
                 PROVE  RecoveryWithinList
        OBVIOUS
    <2>1. committer.recoveryCount <= al.count
        BY ActiveListSizeAssumption
        DEF ActiveListSizeAssumption, RecoveryInv, ListInv, PhaseInv
    <2>2. manager.phase = "RECOVER_0" => committer.phase = "COMMIT"
        BY DEF RecoveryInv, PhaseInv
    <2>3. QED
        BY <2>1, <2>2 DEF RecoveryWithinList
<1>2. QED
    BY <1>1, RecoveryControl, PTL

-----------------------------------------------------------------------------
(***************************************************************************)
(* What a recovery is for, for every size and width: no op of a wrong path *)
(* retires, the recovery register keeps the oldest failure that is still   *)
(* owed, and no recovery stops short of the wrong path it was started for. *)
(*                                                                         *)
(* The argument is about one op, the culprit: the oldest op that failed    *)
(* and still owes its recovery.  Everything on a wrong path is younger     *)
(* than the culprit (or is the culprit, when it must be fetched again),    *)
(* and everything younger than the culprit is on a wrong path.  RecordInv  *)
(* says that the recovery register names it.  While the manager is in      *)
(* RECOVER_0 the register is about to be reset, and the flush range        *)
(* carries the fact instead: StartInv.  That no op is lost, and that a     *)
(* recovery pops nothing else, needs the assumption that a full list does  *)
(* not mispredict at its youngest op (MISPREDICT_AT_FULL is FALSE): then   *)
(* the range of no op has the pointers of the range of all.                *)
(***************************************************************************)
(* The register names the culprit of all that stays in the window.         *)
RecordInv ==
    /\ \A q \in condemned \cap Kept :
          /\ recoveryReg.valid
          /\ \/ Age(recoveryReg.ptr) < Age(q)
             \/ q = recoveryReg.ptr /\ FailsThis(recoveryReg.state)
    /\ \A q \in failed \cap Kept :
          recoveryReg.valid /\ Age(recoveryReg.ptr) <= Age(q)
    /\ recoveryReg.valid =>
          /\ recoveryReg.ptr \in failed
          /\ YoungerThan(recoveryReg.ptr) \subseteq condemned
          /\ FailsThis(recoveryReg.state) => recoveryReg.ptr \in condemned

(* The flush range that was latched is the wrong path, to its first op.    *)
(* The op in the register is the last before it or the first of it.        *)
StartInv ==
    \E kept \in 0 .. al.count :
       /\ manager.flushHead = PtrAt(al.head, kept)
       /\ ~MISPREDICT_AT_FULL => ~Ambiguous(kept, al.count)
       /\ Window \ Region(al.head, kept) \subseteq condemned
       /\ (condemned \cup failed) \cap Region(al.head, kept) = {}
       /\ kept # 0 =>
             \E i \in 0 .. al.count - 1 :
                /\ kept <= i + 1
                /\ recoveryReg.ptr = PtrAt(al.head, i)
                /\ recoveryReg.ptr \in finished

WrongPathInv ==
    /\ condemned \subseteq Window /\ failed \subseteq finished
    /\ manager.phase = "RECOVER_0" => StartInv
    /\ manager.phase # "RECOVER_0" => RecordInv

(* What is neither finished nor executing, and what will be popped, is on  *)
(* a wrong path.                                                           *)
LossInv ==
    /\ Window \ (finished \cup backEnd) \subseteq condemned
    /\ manager.phase # "RECOVER_0" => Window \ Kept \subseteq condemned

-----------------------------------------------------------------------------
(* Ages are the order of the window. *)
LEMMA AgeFacts ==
    ASSUME ListInv, NEW p \in ALPtr
    PROVE  /\ Age(p) \in Nat /\ al.head <= Age(p)
           /\ \A q \in ALPtr : Age(q) = Age(p) => q = p
BY ActiveListSizeAssumption
DEF ActiveListSizeAssumption, ListInv, ALPtr, Age, ActiveListPtrToAge

LEMMA AgeOfPlace ==
    ASSUME ListInv, NEW i \in ALPtr
    PROVE  PtrAt(al.head, i) \in ALPtr /\ Age(PtrAt(al.head, i)) = al.head + i
BY AgeIsProgramOrder DEF ListInv, Age

LEMMA RegionIsByAge ==
    ASSUME ListInv, NEW k \in 0 .. ACTIVE_LIST_ENTRY_NUM, NEW p \in ALPtr
    PROVE  p \in Region(al.head, k) <=> Age(p) < al.head + k
<1> DEFINE i == Age(p) - al.head
<1>1. i \in ALPtr /\ p = PtrAt(al.head, i) /\ al.head \in ALPtr
    BY ActiveListSizeAssumption
    DEF ActiveListSizeAssumption, ListInv, ALPtr, Age, ActiveListPtrToAge, PtrAt
<1>2. i < k <=> Age(p) < al.head + k
    BY <1>1, AgeFacts, ActiveListSizeAssumption
    DEF ActiveListSizeAssumption, ALPtr
<1> HIDE DEF i
<1>3. QED
    BY <1>1, <1>2, PlaceInRegion

(* When the n oldest ops leave, the order of the others stays.             *)
LEMMA OrderStays ==
    ASSUME ListInv, NEW n \in 0 .. ACTIVE_LIST_ENTRY_NUM,
           al'.head = PtrAt(al.head, n),
           NEW p \in ALPtr \ Region(al.head, n),
           NEW q \in ALPtr \ Region(al.head, n)
    PROVE  /\ Age(p)' < Age(q)' <=> Age(p) < Age(q)
           /\ Age(p)' <= Age(q)' <=> Age(p) <= Age(q)
<1>1. ASSUME NEW r \in ALPtr \ Region(al.head, n)
      PROVE  Age(r)' \in Int /\ Age(r)' = Age(r) + PtrAt(al.head, n) - (al.head + n)
    <2>1. ~(Age(r) < al.head + n)
        BY <1>1, RegionIsByAge
    <2>2. QED
        BY <1>1, <2>1, ActiveListSizeAssumption
        DEF ActiveListSizeAssumption, ListInv, ALPtr, Age, ActiveListPtrToAge, PtrAt
<1>2. Age(p) \in Nat /\ Age(q) \in Nat /\ al.head \in Nat
    BY AgeFacts DEF ListInv, ALPtr
<1>3. PtrAt(al.head, n) \in Nat
    BY PtrAtRange DEF ListInv, ALPtr
<1>4. QED
    BY <1>1, <1>2, <1>3

-----------------------------------------------------------------------------
(* The culprit of a cycle *)
LEMMA WriteSets ==
    ASSUME RecoveryInv, NEW w \in Writes
    PROVE  /\ Exceptions(w) \subseteq DOMAIN w /\ DOMAIN w \subseteq backEnd
           /\ DOMAIN w \subseteq Writers
           /\ backEnd \subseteq Kept /\ Kept \subseteq Window
           /\ Window \subseteq ALPtr /\ backEnd \cap finished = {}
           /\ finished \subseteq Window /\ WrongPath(w) \subseteq Window
<1>1. /\ Exceptions(w) \subseteq DOMAIN w /\ DOMAIN w \subseteq backEnd
      /\ DOMAIN w \subseteq Writers
      /\ backEnd \subseteq Kept /\ Kept \subseteq Window
      /\ Window \subseteq ALPtr /\ backEnd \cap finished = {}
      /\ finished \subseteq Window
    BY WriteFacts, KeptInWindow, BackEndPtrs DEF Exceptions, RecoveryInv, OpsInv
<1>2. WrongPath(w) \subseteq Window
    BY <1>1 DEF WrongPath, YoungerThan
<1>3. QED
    BY <1>1, <1>2

LEMMA WrongPathElement ==
    ASSUME NEW w, NEW q \in WrongPath(w)
    PROVE  \E p \in Exceptions(w) :
              Age(p) < Age(q) \/ (q = p /\ FailsThis(w[p]))
BY DEF WrongPath, YoungerThan

(* The oldest op that fails in a cycle makes wrong what is younger.        *)
LEMMA OldestFails ==
    ASSUME RecoveryInv, NEW w \in Writes, Exceptions(w) # {}
    PROVE  LET x == OldestOf(Exceptions(w))
           IN  /\ x \in Exceptions(w) /\ x \in ALPtr
               /\ \A q \in Exceptions(w) : Age(x) <= Age(q)
               /\ \A q \in WrongPath(w) :
                     Age(x) < Age(q) \/ (q = x /\ FailsThis(w[x]))
               /\ YoungerThan(x) \subseteq WrongPath(w)
               /\ FailsThis(w[x]) => x \in WrongPath(w)
<1> DEFINE x == OldestOf(Exceptions(w))
<1>1. Exceptions(w) \in SUBSET ALPtr
    BY WriteSets
<1>2. x \in Exceptions(w) /\ x \in ALPtr /\ \A q \in Exceptions(w) : Age(x) <= Age(q)
    BY <1>1, OldestExists DEF RecoveryInv
<1> HIDE DEF x
<1>3. ASSUME NEW q \in WrongPath(w)
      PROVE  Age(x) < Age(q) \/ (q = x /\ FailsThis(w[x]))
    <2>1. PICK p \in Exceptions(w) : Age(p) < Age(q) \/ (q = p /\ FailsThis(w[p]))
        BY WrongPathElement
    <2>2. q \in ALPtr /\ p \in ALPtr
        BY <1>1, <2>1, WriteSets
    <2>3. /\ Age(x) \in Nat /\ Age(p) \in Nat /\ Age(q) \in Nat
          /\ Age(p) = Age(x) => p = x
        BY <1>2, <2>2, AgeFacts DEF RecoveryInv
    <2>4. Age(x) <= Age(p)
        BY <1>2
    <2>5. QED
        BY <2>1, <2>3, <2>4
<1>4. YoungerThan(x) \subseteq WrongPath(w) /\ (FailsThis(w[x]) => x \in WrongPath(w))
    BY <1>2 DEF WrongPath
<1>5. QED
    BY <1>2, <1>3, <1>4 DEF x

(* The culprit of what is owed after the writes of a cycle, wherever the   *)
(* recovery register is read                                               *)
LEMMA CulpritFacts ==
    ASSUME RecoveryInv, RecordInv, failed \subseteq finished,
           condemned \subseteq Window,
           manager.phase # "RECOVER_0", NEW w \in Writes
    PROVE  LET x == Culprit(w)
               valid == NextRecoveryReg(w).valid
               wrong == condemned \cup WrongPath(w)
           IN  /\ \A q \in wrong \cap Kept :
                     valid /\ (Age(x) < Age(q) \/ (q = x /\ CulpritFails(w)))
               /\ \A q \in Owed(w) \cap Kept : valid /\ Age(x) <= Age(q)
               /\ valid => /\ x \in Owed(w) /\ x \in Kept
                           /\ x \in IF Recorded(w) THEN DOMAIN w ELSE finished
                           /\ YoungerThan(x) \subseteq wrong
                           /\ CulpritFails(w) => x \in wrong
               /\ wrong \subseteq Window /\ Owed(w) \subseteq finished \cup DOMAIN w
<1> DEFINE x == Culprit(w)
           y == recoveryReg.ptr
           valid == NextRecoveryReg(w).valid
           wrong == condemned \cup WrongPath(w)
<1>1. /\ Exceptions(w) \subseteq DOMAIN w /\ DOMAIN w \subseteq backEnd
      /\ backEnd \subseteq Kept /\ Kept \subseteq Window
      /\ Window \subseteq ALPtr /\ backEnd \cap finished = {}
      /\ WrongPath(w) \subseteq Window
    BY WriteSets
<1>2. wrong \subseteq Window /\ Owed(w) \subseteq finished \cup DOMAIN w
    BY <1>1 DEF Owed
<1>3. \A p \in ALPtr : Age(p) \in Nat /\ \A q \in ALPtr : Age(q) = Age(p) => q = p
    BY AgeFacts DEF RecoveryInv
<1>4. recoveryReg.valid => y \in Kept /\ y \in finished /\ y \in ALPtr
    BY <1>1 DEF RecoveryInv, RegInv
<1>5. CASE Recorded(w)
    <2>1. /\ x = OldestOf(Exceptions(w)) /\ valid /\ Exceptions(w) # {}
          /\ recoveryReg.valid => Age(x) < Age(y)
          /\ CulpritFails(w) <=> FailsThis(w[x])
        BY <1>5 DEF Culprit, NextRecoveryReg, Recorded, CulpritFails
    <2>2. /\ x \in Exceptions(w) /\ x \in ALPtr
          /\ \A q \in Exceptions(w) : Age(x) <= Age(q)
          /\ \A q \in WrongPath(w) :
                Age(x) < Age(q) \/ (q = x /\ FailsThis(w[x]))
          /\ YoungerThan(x) \subseteq WrongPath(w)
          /\ FailsThis(w[x]) => x \in WrongPath(w)
        BY <2>1, OldestFails
    <2> HIDE DEF x, valid
    <2>3. ASSUME NEW q \in condemned \cap Kept
          PROVE  Age(x) < Age(q)
        <3>1. recoveryReg.valid /\ (Age(y) < Age(q) \/ q = y)
            BY DEF RecordInv
        <3>2. q \in ALPtr
            BY <1>1
        <3>3. QED
            BY <1>3, <1>4, <2>1, <2>2, <3>1, <3>2
    <2>4. ASSUME NEW q \in failed \cap Kept
          PROVE  Age(x) <= Age(q)
        <3>1. recoveryReg.valid /\ Age(y) <= Age(q)
            BY DEF RecordInv
        <3>2. q \in ALPtr
            BY <1>1
        <3>3. QED
            BY <1>3, <1>4, <2>1, <2>2, <3>1, <3>2
    <2>5. \A q \in wrong \cap Kept :
                     valid /\ (Age(x) < Age(q) \/ (q = x /\ CulpritFails(w)))
        BY <2>1, <2>2, <2>3
    <2>6. \A q \in Owed(w) \cap Kept : valid /\ Age(x) <= Age(q)
        BY <2>1, <2>2, <2>4 DEF Owed
    <2>7. /\ x \in Owed(w) /\ x \in Kept /\ x \in DOMAIN w
          /\ YoungerThan(x) \subseteq wrong
          /\ CulpritFails(w) => x \in wrong
        BY <1>1, <2>1, <2>2 DEF Owed
    <2>8. QED
        BY <1>2, <1>5, <2>5, <2>6, <2>7 DEF x, valid
<1>6. CASE ~Recorded(w)
    <2>1. /\ x = y /\ valid = recoveryReg.valid
          /\ CulpritFails(w) <=> FailsThis(recoveryReg.state)
        BY <1>6 DEF Culprit, NextRecoveryReg, CulpritFails
    <2>2. ASSUME Exceptions(w) # {}
          PROVE  /\ valid
                 /\ \A q \in Exceptions(w) : Age(x) < Age(q)
                 /\ \A q \in WrongPath(w) : Age(x) < Age(q)
        <3> DEFINE z == OldestOf(Exceptions(w))
        <3>1. /\ z \in Exceptions(w) /\ z \in ALPtr
              /\ \A q \in Exceptions(w) : Age(z) <= Age(q)
              /\ \A q \in WrongPath(w) : Age(z) < Age(q) \/ q = z
            BY <2>2, OldestFails
        <3>2. recoveryReg.valid /\ ~(Age(z) < Age(y))
            BY <1>6, <2>2 DEF Recorded
        <3> HIDE DEF z
        <3>3. z # y
            BY <1>1, <1>4, <3>1, <3>2
        <3>4. Age(y) < Age(z)
            BY <1>3, <1>4, <3>1, <3>2, <3>3
        <3>5. \A q \in Exceptions(w) \cup WrongPath(w) : q \in ALPtr
            BY <1>1
        <3>6. QED
            BY <1>3, <1>4, <2>1, <3>1, <3>2, <3>4, <3>5
    <2>3. Exceptions(w) = {} => WrongPath(w) = {}
        BY DEF WrongPath
    <2> HIDE DEF x, valid
    <2>4. \A q \in wrong \cap Kept :
                     valid /\ (Age(x) < Age(q) \/ (q = x /\ CulpritFails(w)))
        BY <2>1, <2>2, <2>3 DEF RecordInv
    <2>5. \A q \in Owed(w) \cap Kept : valid /\ Age(x) <= Age(q)
        <3>1. ASSUME NEW q \in failed \cap Kept
              PROVE  valid /\ Age(x) <= Age(q)
            BY <2>1 DEF RecordInv
        <3>2. ASSUME NEW q \in Exceptions(w)
              PROVE  valid /\ Age(x) <= Age(q)
            <4>1. q \in ALPtr
                BY <1>1
            <4>2. QED
                BY <1>3, <1>4, <2>1, <2>2, <3>2, <4>1
        <3>3. QED
            BY <3>1, <3>2 DEF Owed
    <2>6. valid => /\ x \in Owed(w) /\ x \in Kept /\ x \in finished
                   /\ YoungerThan(x) \subseteq wrong
                   /\ CulpritFails(w) => x \in wrong
        BY <1>4, <2>1 DEF RecordInv, Owed
    <2>7. QED
        BY <1>2, <1>6, <2>4, <2>5, <2>6 DEF x, valid
<1>7. QED
    BY <1>5, <1>6

-----------------------------------------------------------------------------
(* What retires is older than the culprit, or is the culprit itself when   *)
(* it is done and its recovery starts in the same cycle.                   *)
LEMMA RetiredIsRight ==
    ASSUME RecoveryInv, WrongPathInv, manager.phase # "RECOVER_0",
           committer.phase = "COMMIT", NEW w \in Writes,
           NEW q \in Region(al.head, Decision.commitNum)
    PROVE  q \notin condemned \cup WrongPath(w) /\ q \notin Owed(w) \ RecoveryStarts(w)
<1> DEFINE n == Decision.commitNum
           lane == Decision.recoveryLane
           h == al.head
           x == Culprit(w)
           wrong == condemned \cup WrongPath(w)
<1>1. SUFFICES ASSUME q \in wrong \/ q \in Owed(w) \ RecoveryStarts(w)
               PROVE  FALSE
    OBVIOUS
<1>2. /\ n \in 0 .. al.count /\ Region(h, n) \subseteq finished
      /\ Decision.toRecovery =>
            /\ recoveryReg.valid /\ lane \in 0 .. al.count - 1
            /\ recoveryReg.ptr = PtrAt(h, lane)
            /\ n = IF Decision.refetchThis THEN lane ELSE lane + 1
            /\ Decision.refetchThis <=> FailsThis(recoveryReg.state)
      /\ recoveryReg.valid /\ ~Decision.toRecovery
            => recoveryReg.ptr \notin Region(h, n)
    BY DecisionFacts
<1>3. /\ DOMAIN w \subseteq backEnd /\ Kept = Window /\ finished \subseteq Window
      /\ Window \subseteq ALPtr /\ backEnd \cap finished = {}
    BY WriteSets, KeptInWindow DEF RecoveryInv
<1>4. /\ \A r \in wrong \cap Kept :
            NextRecoveryReg(w).valid
            /\ (Age(x) < Age(r) \/ (r = x /\ CulpritFails(w)))
      /\ \A r \in Owed(w) \cap Kept : NextRecoveryReg(w).valid /\ Age(x) <= Age(r)
      /\ NextRecoveryReg(w).valid =>
            /\ x \in Kept
            /\ x \in IF Recorded(w) THEN DOMAIN w ELSE finished
    BY CulpritFacts DEF WrongPathInv
<1> HIDE DEF x, n, lane
<1>5. q \in Window /\ q \in Kept /\ q \in ALPtr
    BY <1>2, <1>3 DEF n
<1>6. NextRecoveryReg(w).valid /\ x \in ALPtr
    BY <1>1, <1>3, <1>4, <1>5
<1>7. Age(x) \in Nat /\ Age(q) \in Nat /\ (Age(x) = Age(q) => q = x)
    BY <1>5, <1>6, AgeFacts DEF RecoveryInv
<1>8. Age(x) <= Age(q)
    BY <1>1, <1>4, <1>5, <1>7
<1>9. n \in 0 .. ACTIVE_LIST_ENTRY_NUM /\ n \in Nat /\ h \in Nat /\ al.count \in Nat
    BY <1>2, ActiveListSizeAssumption
    DEF ActiveListSizeAssumption, RecoveryInv, ListInv, ALPtr
<1>10. Age(q) < h + n
    BY <1>5, <1>9, RegionIsByAge DEF RecoveryInv, n
<1>11. x \in Region(h, n)
    <2>1. Age(x) < h + n
        BY <1>7, <1>8, <1>9, <1>10
    <2>2. QED
        BY <1>6, <1>9, <2>1, RegionIsByAge DEF RecoveryInv
<1>12. ~Recorded(w)
    BY <1>2, <1>3, <1>4, <1>6, <1>11
<1>13. /\ x = recoveryReg.ptr /\ recoveryReg.valid
       /\ CulpritFails(w) <=> FailsThis(recoveryReg.state)
    BY <1>6, <1>12 DEF x, Culprit, NextRecoveryReg, CulpritFails
<1>14. Decision.toRecovery
    BY <1>2, <1>11, <1>13
<1>15. x = PtrAt(h, lane) /\ lane \in Nat /\ Age(x) = h + lane
    <2>1. lane \in ALPtr /\ lane \in Nat
        BY <1>2, <1>14, <1>9, ActiveListSizeAssumption
        DEF ActiveListSizeAssumption, RecoveryInv, ListInv, ALPtr
    <2>2. QED
        BY <1>2, <1>13, <1>14, <2>1, AgeOfPlace DEF RecoveryInv
<1>16. ~CulpritFails(w) /\ n = lane + 1
    <2>1. n # lane
        BY <1>7, <1>8, <1>9, <1>10, <1>15
    <2>2. QED
        BY <1>2, <1>13, <1>14, <2>1
<1>17. q = x
    BY <1>7, <1>8, <1>9, <1>10, <1>15, <1>16
<1>18. q \notin wrong
    BY <1>4, <1>5, <1>7, <1>16, <1>17
<1>19. q \in RecoveryStarts(w)
    BY <1>14, <1>15, <1>17, WrapAddIsPtrAt DEF RecoveryStarts, HeadPtr, lane
<1>20. QED
    BY <1>1, <1>18, <1>19

(* What the history variables say after such a cycle                       *)
LEMMA OperateWrongPath ==
    ASSUME RecoveryInv, WrongPathInv, manager.phase # "RECOVER_0",
           committer.phase = "COMMIT",
           NEW group \in Groups, NEW w \in Writes, Operate(group, w)
    PROVE  LET pushed == PushedPtrs(group)
               retired == Region(al.head, Decision.commitNum)
               wrong == condemned \cup WrongPath(w)
           IN  /\ condemned' = wrong \cup IF Owed(w) = {} THEN {} ELSE pushed
               /\ failed' = Owed(w) \ RecoveryStarts(w)
               /\ wrong \subseteq Window /\ Owed(w) \subseteq Window
               /\ wrong \cap retired = {} /\ failed' \cap retired = {}
               /\ Window' = (Window \cup pushed) \ retired /\ Kept' = Window'
               /\ Window \cap pushed = {} /\ retired \subseteq Window
               /\ condemned' \subseteq Window' /\ failed' \subseteq finished'
               /\ Kept = Window
               /\ Window \subseteq ALPtr /\ pushed \subseteq ALPtr
<1> DEFINE n == Decision.commitNum
           pushed == PushedPtrs(group)
           retired == Region(al.head, n)
           wrong == condemned \cup WrongPath(w)
<1>1. /\ condemned' = wrong \cup IF Owed(w) = {} THEN {} ELSE pushed
      /\ failed' = Owed(w) \ RecoveryStarts(w)
      /\ finished' = (finished \cup DOMAIN w) \ (pushed \cup CommittedPtrs(n))
    BY DEF Operate
<1>2. /\ CommittedPtrs(n) = retired /\ retired \subseteq finished
      /\ Window' = Region(al.head, al.count + Len(group)) \ retired
      /\ Window \subseteq Region(al.head, al.count + Len(group))
      /\ pushed = Region(al.head, al.count + Len(group)) \ Window
      /\ Kept' = Window' /\ finished \subseteq Window
      /\ al.head \in ALPtr
      /\ al.count + Len(group) \in 0 .. ACTIVE_LIST_ENTRY_NUM
    BY OperateFacts
<1>3. pushed \subseteq ALPtr
    BY <1>2, RegionPtrs
<1>4. /\ wrong \subseteq Window /\ Owed(w) \subseteq finished \cup DOMAIN w
      /\ DOMAIN w \subseteq Window /\ Kept = Window /\ Window \subseteq ALPtr
    BY CulpritFacts, WriteSets, KeptInWindow DEF WrongPathInv, RecoveryInv
<1>5. wrong \cap retired = {} /\ failed' \cap retired = {}
    BY <1>1, RetiredIsRight
<1> HIDE DEF n, pushed, retired
<1>6. QED
    BY <1>1, <1>2, <1>3, <1>4, <1>5 DEF n, pushed, retired

(* A cycle that starts no recovery: the register names the culprit.        *)
LEMMA OperateKeepsRecord ==
    ASSUME RecoveryInv, WrongPathInv, manager.phase # "RECOVER_0",
           committer.phase = "COMMIT",
           NEW group \in Groups, NEW w \in Writes, Operate(group, w),
           ~StartsRecovery(w)
    PROVE  WrongPathInv' /\ manager'.phase # "RECOVER_0"
<1> DEFINE n == Decision.commitNum
           h == al.head
           pushed == PushedPtrs(group)
           retired == Region(h, n)
           x == Culprit(w)
           wrong == condemned \cup WrongPath(w)
<1>1. /\ condemned' = wrong \cup IF Owed(w) = {} THEN {} ELSE pushed
      /\ failed' = Owed(w) \ RecoveryStarts(w)
      /\ wrong \subseteq Window /\ Owed(w) \subseteq Window
      /\ wrong \cap retired = {} /\ failed' \cap retired = {}
      /\ Window' = (Window \cup pushed) \ retired /\ Kept' = Window'
      /\ Window \cap pushed = {} /\ retired \subseteq Window
      /\ condemned' \subseteq Window' /\ failed' \subseteq finished'
      /\ Kept = Window
      /\ Window \subseteq ALPtr /\ pushed \subseteq ALPtr
    BY OperateWrongPath
<1>2. /\ \A q \in wrong \cap Kept :
            /\ NextRecoveryReg(w).valid
            /\ Age(x) < Age(q) \/ (q = x /\ CulpritFails(w))
      /\ \A q \in Owed(w) \cap Kept : NextRecoveryReg(w).valid /\ Age(x) <= Age(q)
      /\ NextRecoveryReg(w).valid =>
            /\ x \in Owed(w) /\ x \in Kept
            /\ x \in IF Recorded(w) THEN DOMAIN w ELSE finished
            /\ YoungerThan(x) \subseteq wrong
            /\ CulpritFails(w) => x \in wrong
    BY CulpritFacts DEF WrongPathInv
<1>3. /\ ~Decision.toRecovery /\ ~DetectedInRwStage(w)
      /\ retired \subseteq finished
      /\ recoveryReg.valid => recoveryReg.ptr \notin retired
    BY DecisionFacts
    DEF StartsRecovery, DetectedInRwStage, UnableToStartRecovery
<1>4. /\ RecoveryStarts(w) = {}
      /\ recoveryReg' = NextRecoveryReg(w) /\ recoveryReg'.ptr = x
      /\ NextRecoveryReg(w).valid =>
            (CulpritFails(w) <=> FailsThis(recoveryReg'.state))
    BY <1>3 DEF RecoveryStarts, Operate, Culprit, NextRecoveryReg, CulpritFails
<1>5. manager'.phase # "RECOVER_0"
    BY DEF Operate, ManagerStep, StartsRecovery, InPhase
<1>6. /\ al'.head = PtrAt(h, n) /\ n \in 0 .. ACTIVE_LIST_ENTRY_NUM
      /\ h \in Nat /\ al.count \in Nat /\ al.count \in 0 .. ACTIVE_LIST_ENTRY_NUM
    BY OperateFacts, ActiveListSizeAssumption
    DEF ActiveListSizeAssumption, ALPtr, RecoveryInv, ListInv
<1>7. NextRecoveryReg(w).valid => x \notin retired /\ x \in ALPtr /\ x \in Window
    <2>1. CASE Recorded(w)
        BY <1>1, <1>2, <1>3, <2>1, WriteSets
    <2>2. CASE ~Recorded(w)
        BY <1>1, <1>2, <1>3, <2>2 DEF Culprit, NextRecoveryReg
    <2>3. QED
        BY <2>1, <2>2
<1> HIDE DEF x, n, pushed
<1>8. ASSUME NEW p \in ALPtr \ retired, NEW q \in ALPtr \ retired
      PROVE  /\ Age(p)' < Age(q)' <=> Age(p) < Age(q)
             /\ Age(p)' <= Age(q)' <=> Age(p) <= Age(q)
    BY <1>6, OrderStays DEF RecoveryInv
<1>9. ASSUME NEW o \in Owed(w), NEW q \in pushed
      PROVE  NextRecoveryReg(w).valid /\ Age(x) < Age(q)
    <2>1. NextRecoveryReg(w).valid /\ x \in Window /\ x \in ALPtr /\ q \in ALPtr
        BY <1>1, <1>2, <1>7
    <2>2. Age(x) < h + al.count /\ ~(Age(q) < h + al.count)
        BY <1>1, <1>6, <2>1, RegionIsByAge, WindowIsRegion DEF RecoveryInv
    <2>3. Age(x) \in Nat /\ Age(q) \in Nat
        BY <2>1, AgeFacts DEF RecoveryInv
    <2>4. QED
        BY <1>6, <2>1, <2>2, <2>3
<1>10. ASSUME NEW q \in condemned' \cap Kept'
       PROVE  /\ recoveryReg'.valid
              /\ \/ Age(recoveryReg.ptr)' < Age(q)'
                 \/ q = recoveryReg'.ptr /\ FailsThis(recoveryReg'.state)
    <2>1. q \in ALPtr \ retired
        BY <1>1
    <2>2. /\ NextRecoveryReg(w).valid
          /\ Age(x) < Age(q) \/ (q = x /\ CulpritFails(w))
        BY <1>1, <1>2, <1>9
    <2>3. QED
        BY <1>4, <1>7, <1>8, <2>1, <2>2
<1>11. ASSUME NEW q \in failed' \cap Kept'
       PROVE  recoveryReg'.valid /\ Age(recoveryReg.ptr)' <= Age(q)'
    <2>1. q \in ALPtr \ retired /\ q \in Owed(w) /\ q \in Kept
        BY <1>1
    <2>2. NextRecoveryReg(w).valid /\ Age(x) <= Age(q)
        BY <1>2, <2>1
    <2>3. QED
        BY <1>4, <1>7, <1>8, <2>1, <2>2
<1>12. ASSUME recoveryReg'.valid
       PROVE  /\ recoveryReg'.ptr \in failed'
              /\ YoungerThan(recoveryReg.ptr)' \subseteq condemned'
              /\ FailsThis(recoveryReg'.state) => recoveryReg'.ptr \in condemned'
    <2>1. x \in Owed(w) /\ YoungerThan(x) \subseteq wrong /\ (CulpritFails(w) => x \in wrong)
        BY <1>2, <1>4, <1>12
    <2>2. ASSUME NEW q \in YoungerThan(recoveryReg.ptr)'
          PROVE  q \in condemned'
        <3>1. q \in Window' /\ Age(recoveryReg.ptr)' < Age(q)'
            BY <1>4 DEF YoungerThan
        <3>2. Age(x) < Age(q)
            BY <1>1, <1>4, <1>7, <1>8, <1>12, <3>1
        <3>3. QED
            BY <1>1, <2>1, <3>1, <3>2 DEF YoungerThan
    <2>3. QED
        BY <1>1, <1>4, <1>12, <2>1, <2>2
<1>13. RecordInv'
    BY <1>10, <1>11, <1>12 DEF RecordInv
<1>14. QED
    BY <1>1, <1>5, <1>13 DEF WrongPathInv

(* A cycle that starts a recovery latches the wrong path of its culprit.   *)
LEMMA OperateLatchesRange ==
    ASSUME RecoveryInv, WrongPathInv, committer.phase = "COMMIT",
           NEW group \in Groups, NEW w \in Writes, Operate(group, w),
           StartsRecovery(w),
           MISPREDICT_AT_FULL \/ ~FullListWrap(w, group, Decision.commitNum)
    PROVE  WrongPathInv' /\ manager'.phase = "RECOVER_0"
<1> DEFINE n == Decision.commitNum
           g == Len(group)
           c == al.count
           h == al.head
           pushed == PushedPtrs(group)
           retired == Region(h, n)
           x == Culprit(w)
           wrong == condemned \cup WrongPath(w)
           kept(i) == (IF CulpritFails(w) THEN i ELSE i + 1) - n
<1>1. manager.phase = "COMMIT" /\ manager.phase # "RECOVER_0"
    BY DEF StartsRecovery
<1>2. /\ condemned' = wrong \cup IF Owed(w) = {} THEN {} ELSE pushed
      /\ failed' = Owed(w) \ RecoveryStarts(w)
      /\ wrong \subseteq Window /\ Owed(w) \subseteq Window
      /\ wrong \cap retired = {} /\ failed' \cap retired = {}
      /\ Window' = (Window \cup pushed) \ retired /\ Kept' = Window'
      /\ Window \cap pushed = {} /\ retired \subseteq Window
      /\ condemned' \subseteq Window' /\ failed' \subseteq finished'
      /\ Kept = Window
      /\ Window \subseteq ALPtr /\ pushed \subseteq ALPtr
    BY <1>1, OperateWrongPath
<1>3. /\ \A q \in wrong \cap Kept : Age(x) < Age(q) \/ (q = x /\ CulpritFails(w))
      /\ \A q \in Owed(w) \cap Kept : Age(x) <= Age(q)
      /\ NextRecoveryReg(w).valid =>
            /\ x \in Owed(w) /\ x \in finished \cup DOMAIN w
            /\ YoungerThan(x) \subseteq wrong
            /\ CulpritFails(w) => x \in wrong
    BY <1>1, CulpritFacts DEF WrongPathInv
<1>4. /\ h \in ALPtr /\ c \in Nat /\ c \in 0 .. ACTIVE_LIST_ENTRY_NUM
      /\ n \in Nat /\ n \in 0 .. c /\ g \in Nat
      /\ c + g \in 0 .. ACTIVE_LIST_ENTRY_NUM
      /\ al'.head = PtrAt(h, n) /\ al'.count = c + g - n /\ h \in Nat
      /\ al.tail = PtrAt(h, c)
    BY <1>1, OperateFacts DEF ALPtr
<1>5. /\ manager'.phase = "RECOVER_0"
      /\ \E i \in 0 .. c - 1 : /\ x = PtrAt(h, i) /\ kept(i) \in 0 .. al'.count
                               /\ n + kept(i) \in 0 .. c
                               /\ manager'.flushHead = PtrAt(al'.head, kept(i))
    BY RecoveryStartFacts
<1>6. /\ NextRecoveryReg(w).valid
      /\ RecoveryStarts(w) = {x}
    <2>1. CASE Decision.toRecovery
        <3>1. ~Recorded(w)
            BY <2>1, RecoveryAtHeadIsOldest
        <3>2. /\ recoveryReg.valid
              /\ recoveryReg.ptr = PtrAt(h, Decision.recoveryLane)
            BY <2>1, DecisionFacts
        <3>3. QED
            BY <2>1, <3>1, <3>2, WrapAddIsPtrAt
            DEF RecoveryStarts, HeadPtr, Culprit, NextRecoveryReg
    <2>2. CASE ~Decision.toRecovery
        BY <2>2 DEF StartsRecovery, RecoveryStarts, DetectedInRwStage,
                    ExceptionDetected, Culprit, NextRecoveryReg
    <2>3. QED
        BY <2>1, <2>2
<1>7. recoveryReg'.ptr = x /\ finished' = (finished \cup DOMAIN w) \ (pushed \cup retired)
    BY CommittedIsRegion DEF Operate, Culprit
<1>8. ASSUME NEW i \in 0 .. c - 1, x = PtrAt(h, i), n + kept(i) = c, al'.count = kept(i),
             al'.count = ACTIVE_LIST_ENTRY_NUM
      PROVE  FullListWrap(w, group, n)
    <2>1. ~CulpritFails(w) /\ i = c - 1 /\ n = 0 /\ c = ACTIVE_LIST_ENTRY_NUM /\ g = 0
        <3> HIDE DEF x, n, g
        <3> QED BY <1>4, <1>8, ActiveListSizeAssumption DEF ActiveListSizeAssumption
    <2>2. ~Decision.toRecovery
        <3>1. Decision.toRecovery =>
                 /\ Decision.recoveryLane \in 0 .. c - 1
                 /\ n = IF Decision.refetchThis THEN Decision.recoveryLane
                        ELSE Decision.recoveryLane + 1
                 /\ Decision.refetchThis <=> FailsThis(recoveryReg.state)
            BY DecisionFacts
        <3>2. Decision.toRecovery => ~Recorded(w)
            BY RecoveryAtHeadIsOldest
        <3>3. Decision.toRecovery => ~Decision.refetchThis
            BY <2>1, <3>1, <3>2 DEF CulpritFails
        <3> HIDE DEF n
        <3>4. QED
            BY <2>1, <3>1, <3>3
    <2>3. /\ DetectedInRwStage(w) /\ Recorded(w)
          /\ w[OldestOf(Exceptions(w))] \in {"REFETCH_NEXT", "REFETCH_THIS"}
          /\ x = OldestOf(Exceptions(w))
        BY <2>2 DEF StartsRecovery, DetectedInRwStage, ExceptionDetected, Culprit,
                    NextRecoveryReg
    <2>4. w[OldestOf(Exceptions(w))] = "REFETCH_NEXT"
        BY <2>1, <2>3 DEF CulpritFails, FailsThis
    <2>5. NextPtr(OldestOf(Exceptions(w))) = AL!Advance(al.tail, Len(group))
        <3>1. i \in ALPtr /\ i + 1 = c /\ 0 \in 0 .. ACTIVE_LIST_ENTRY_NUM
            BY <1>4, <2>1, ActiveListSizeAssumption DEF ActiveListSizeAssumption, ALPtr
        <3>2. NextPtr(OldestOf(Exceptions(w))) = al.tail
            BY <1>4, <1>8, <2>3, <3>1, NextPtrIsPtrAt
        <3>3. al.tail \in ALPtr
            BY <1>4, PtrAtRange
        <3>4. AL!Advance(al.tail, Len(group)) = al.tail
            BY <2>1, <3>1, <3>3, AdvanceIsPtrAt, PtrAtZero
        <3>5. QED
            BY <3>2, <3>4
    <2>6. al.count + Len(group) - n = ACTIVE_LIST_ENTRY_NUM
        <3> HIDE DEF n
        <3> QED BY <1>4, <2>1
    <2> HIDE DEF n
    <2>7. QED
        BY <2>3, <2>4, <2>5, <2>6 DEF FullListWrap
<1> HIDE DEF x, n, g, pushed
<1>9. PICK i \in 0 .. c - 1 : /\ x = PtrAt(h, i) /\ kept(i) \in 0 .. al'.count
                             /\ n + kept(i) \in 0 .. c
                             /\ manager'.flushHead = PtrAt(al'.head, kept(i))
    BY <1>5
<1> DEFINE k == kept(i)
           first == n + k
<1>10. /\ first = IF CulpritFails(w) THEN i ELSE i + 1
       /\ k = first - n /\ k \in Nat
    BY <1>4, <1>9
<1> HIDE DEF kept, k
<1>11. /\ k \in 0 .. al'.count /\ first \in 0 .. c /\ i \in Nat
       /\ manager'.flushHead = PtrAt(al'.head, k)
       /\ first \in 0 .. ACTIVE_LIST_ENTRY_NUM /\ n \in 0 .. first
    BY <1>4, <1>9, <1>10, ActiveListSizeAssumption DEF ActiveListSizeAssumption, k
<1>12. Region(al'.head, k) = Region(h, first) \ retired
    BY <1>4, <1>10, <1>11, RegionAfter
<1>13. Age(x) = h + i /\ x \in Window /\ x \in ALPtr
    <2>1. i \in ALPtr
        BY <1>4, <1>9, ActiveListSizeAssumption DEF ActiveListSizeAssumption, ALPtr
    <2>2. QED
        BY <1>2, <1>3, <1>6, <1>9, <2>1, AgeOfPlace DEF RecoveryInv
<1>14. \A q \in ALPtr : /\ Age(q) \in Nat /\ (Age(q) = Age(x) => q = x)
                        /\ q \in Region(h, first) <=> Age(q) < h + first
                        /\ q \in Window <=> Age(q) < h + c
    BY <1>4, <1>11, <1>13, AgeFacts, RegionIsByAge, WindowIsRegion DEF RecoveryInv
<1> HIDE DEF first
<1>15. ASSUME NEW q \in Window' \ Region(al'.head, k)
       PROVE  q \in condemned'
    <2>1. /\ q \in ALPtr /\ q \in Window \cup pushed /\ q \notin Region(h, first)
        BY <1>2, <1>12
    <2>2. ~(Age(q) < h + first)
        BY <1>14, <2>1
    <2>3. q \in Window => q \in YoungerThan(x) \/ (q = x /\ CulpritFails(w))
        BY <1>4, <1>10, <1>11, <1>13, <1>14, <2>1, <2>2 DEF YoungerThan
    <2>4. QED
        BY <1>2, <1>3, <1>6, <2>1, <2>3
<1>16. ASSUME NEW q \in condemned' \cup failed'
       PROVE  q \notin Region(al'.head, k)
    <2>1. SUFFICES ASSUME q \in Region(h, first)
                   PROVE  FALSE
        BY <1>12
    <2>2. q \in Window /\ q \in ALPtr /\ Age(q) < h + first
        BY <1>2, <1>4, <1>11, <1>14, <2>1
    <2>3. q \in wrong => Age(x) < Age(q) \/ (q = x /\ CulpritFails(w))
        BY <1>2, <1>3, <2>2
    <2>4. q \notin wrong
        BY <1>4, <1>10, <1>11, <1>13, <1>14, <2>2, <2>3
    <2>5. q \in failed' /\ q \in Owed(w) /\ q # x
        BY <1>2, <1>6, <2>2, <2>4
    <2>6. Age(x) <= Age(q)
        BY <1>2, <1>3, <2>5
    <2>7. QED
        BY <1>4, <1>10, <1>11, <1>13, <1>14, <2>2, <2>5, <2>6
<1>17. ASSUME k # 0
       PROVE  \E j \in 0 .. al'.count - 1 :
                 /\ k <= j + 1
                 /\ recoveryReg'.ptr = PtrAt(al'.head, j)
                 /\ recoveryReg'.ptr \in finished'
    <2>1. /\ i - n \in 0 .. al'.count - 1 /\ k <= (i - n) + 1
          /\ i - n \in Nat /\ n + (i - n) = i /\ i <= ACTIVE_LIST_ENTRY_NUM
        BY <1>4, <1>10, <1>11, <1>17, ActiveListSizeAssumption
        DEF ActiveListSizeAssumption
    <2>2. x = PtrAt(al'.head, i - n)
        BY <1>4, <1>9, <2>1, PtrAtAdd
    <2>3. x \notin retired
        <3>1. ~(Age(x) < h + n) /\ n \in 0 .. ACTIVE_LIST_ENTRY_NUM
            BY <1>4, <1>13, <2>1, ActiveListSizeAssumption DEF ActiveListSizeAssumption
        <3>2. QED
            BY <1>13, <3>1, RegionIsByAge DEF RecoveryInv
    <2>4. x \in finished'
        BY <1>2, <1>3, <1>6, <1>7, <1>13, <2>3
    <2>5. QED
        BY <1>7, <2>1, <2>2, <2>4
<1>18. ~MISPREDICT_AT_FULL => ~Ambiguous(k, al'.count)
    BY <1>4, <1>8, <1>9, <1>10 DEF Ambiguous, k, n
<1>19. StartInv'
    BY <1>11, <1>15, <1>16, <1>17, <1>18 DEF StartInv
<1>20. QED
    BY <1>2, <1>5, <1>19 DEF WrongPathInv

-----------------------------------------------------------------------------
(* RecordInv holds again when the register is loaded with what the write   *)
(* stage reports, and the window and what it keeps are the same or shrink  *)
(* to what is kept.                                                        *)
LEMMA RecordedInRecovery ==
    ASSUME RecoveryInv, WrongPathInv, manager.phase = "RECOVER_1",
           NEW w \in Writes, NEW gone \in SUBSET Window, gone \cap Kept = {},
           al'.head = al.head, Kept' = Kept, Window' = Window \ gone,
           manager' = manager, recoveryReg' = NextRecoveryReg(w),
           finished' = (finished \cup DOMAIN w) \ gone,
           failed' = Owed(w) \ gone,
           condemned' = (condemned \cup WrongPath(w)) \ gone
    PROVE  WrongPathInv'
<1> DEFINE x == Culprit(w)
           wrong == condemned \cup WrongPath(w)
<1>1. /\ \A q \in wrong \cap Kept :
            /\ NextRecoveryReg(w).valid
            /\ Age(x) < Age(q) \/ (q = x /\ CulpritFails(w))
      /\ \A q \in Owed(w) \cap Kept : NextRecoveryReg(w).valid /\ Age(x) <= Age(q)
      /\ NextRecoveryReg(w).valid =>
            /\ x \in Owed(w) /\ x \in Kept
            /\ YoungerThan(x) \subseteq wrong
            /\ CulpritFails(w) => x \in wrong
      /\ wrong \subseteq Window /\ Owed(w) \subseteq finished \cup DOMAIN w
    BY CulpritFacts DEF WrongPathInv
<1>2. /\ recoveryReg'.ptr = x
      /\ NextRecoveryReg(w).valid =>
            (CulpritFails(w) <=> FailsThis(recoveryReg'.state))
    BY DEF Culprit, NextRecoveryReg, CulpritFails, DetectedInRwStage,
           UnableToStartRecovery
<1>3. Age(recoveryReg.ptr)' = Age(x) /\ \A q : Age(q)' = Age(q)
    BY <1>2 DEF Age
<1> HIDE DEF x
<1>4. ASSUME NEW q \in condemned' \cap Kept'
      PROVE  /\ recoveryReg'.valid
             /\ \/ Age(recoveryReg.ptr)' < Age(q)'
                \/ q = recoveryReg'.ptr /\ FailsThis(recoveryReg'.state)
    BY <1>1, <1>2, <1>3
<1>5. ASSUME NEW q \in failed' \cap Kept'
      PROVE  recoveryReg'.valid /\ Age(recoveryReg.ptr)' <= Age(q)'
    BY <1>1, <1>2, <1>3
<1>6. ASSUME recoveryReg'.valid
      PROVE  /\ recoveryReg'.ptr \in failed'
             /\ YoungerThan(recoveryReg.ptr)' \subseteq condemned'
             /\ FailsThis(recoveryReg'.state) => recoveryReg'.ptr \in condemned'
    <2>1. /\ x \in Owed(w) /\ x \notin gone /\ YoungerThan(x) \subseteq wrong
          /\ CulpritFails(w) => x \in wrong
        BY <1>1, <1>6
    <2>2. ASSUME NEW q \in YoungerThan(recoveryReg.ptr)'
          PROVE  q \in condemned'
        <3>1. q \in Window' /\ Age(recoveryReg.ptr)' < Age(q)'
            BY DEF YoungerThan
        <3>2. Age(x) < Age(q)
            BY <1>2, <1>3, <3>1
        <3>3. QED
            BY <2>1, <3>1, <3>2 DEF YoungerThan
    <2>3. QED
        BY <1>2, <1>6, <2>1, <2>2
<1>7. RecordInv'
    BY <1>4, <1>5, <1>6 DEF RecordInv
<1>8. condemned' \subseteq Window' /\ failed' \subseteq finished'
    BY <1>1
<1>9. QED
    BY <1>7, <1>8 DEF WrongPathInv

LEMMA LoadRecoveryCountWrongPath ==
    ASSUME RecoveryInv, WrongPathInv, LoadRecoveryCount
    PROVE  WrongPathInv' /\ (LossInv => LossInv')
<1>1. PICK w \in Writes :
         /\ backEnd' = Writers \ DOMAIN w
         /\ failed' = Owed(w) /\ condemned' = condemned \cup WrongPath(w)
         /\ finished' = finished \cup DOMAIN w
         /\ recoveryReg' = NextRecoveryReg(w)
    BY DEF LoadRecoveryCount, WriteOnly
<1>2. /\ committer.phase = "RECOVER_0" /\ al' = al /\ manager' = manager
      /\ manager.phase = "RECOVER_1"
      /\ committer'.phase = "RECOVER_1"
      /\ committer'.recoveryCount = recoveryEntryNum
    BY DEF LoadRecoveryCount, RecoveryInv, PhaseInv
<1>3. Window' = Window /\ Kept' = Kept
    <2>1. Window' = Window
        BY <1>2 DEF Window
    <2>2. KeptNum' = KeptNum
        BY <1>2 DEF KeptNum
    <2>3. QED
        BY <1>2, <2>1, <2>2 DEF Kept
<1>4. WrongPathInv'
    <2> DEFINE gone == {}
    <2>1. /\ gone \in SUBSET Window /\ gone \cap Kept = {}
          /\ Window' = Window \ gone
          /\ finished' = (finished \cup DOMAIN w) \ gone
          /\ failed' = Owed(w) \ gone
          /\ condemned' = (condemned \cup WrongPath(w)) \ gone
        BY <1>1, <1>3
    <2> HIDE DEF gone
    <2>2. QED
        BY <1>1, <1>2, <1>3, <2>1, RecordedInRecovery
<1>5. ASSUME LossInv
      PROVE  LossInv'
    <2>1. Writers = backEnd
        BY <1>2 DEF Writers
    <2>2. QED
        BY <1>1, <1>2, <1>3, <1>5, <2>1 DEF LossInv
<1>6. QED
    BY <1>4, <1>5

LEMMA PopFlushedWrongPath ==
    ASSUME RecoveryInv, WrongPathInv, PopFlushed
    PROVE  /\ WrongPathInv' /\ (LossInv => LossInv')
           /\ LossInv => Window \ Window' \subseteq condemned
<1>1. PICK w \in Writes :
         /\ backEnd' = backEnd \ DOMAIN w
         /\ finished' = (finished \cup DOMAIN w) \ PoppedPtrs
         /\ recoveryReg' = NextRecoveryReg(w)
         /\ failed' = Owed(w) \ PoppedPtrs
         /\ condemned' = (condemned \cup WrongPath(w)) \ PoppedPtrs
    BY DEF PopFlushed
<1>2. /\ manager.phase = "RECOVER_1" /\ manager' = manager
      /\ al'.head = al.head /\ Kept' = Kept /\ Kept \subseteq Window'
      /\ Window' = Window \ PoppedPtrs
      /\ PoppedPtrs \subseteq Window
    BY PopFacts
<1>3. PoppedPtrs \cap Kept = {}
    BY <1>2
<1>4. WrongPathInv'
    BY <1>1, <1>2, <1>3, RecordedInRecovery
<1>5. ASSUME LossInv
      PROVE  LossInv' /\ Window \ Window' \subseteq condemned
    <2>1. /\ Window \ (finished \cup backEnd) \subseteq condemned
          /\ Window \ Kept \subseteq condemned
        BY <1>2, <1>5 DEF LossInv
    <2>2. QED
        BY <1>1, <1>2, <1>3, <2>1 DEF LossInv
<1>6. QED
    BY <1>4, <1>5

(* The failures of the cycle that flushes are older than the op being      *)
(* recovered: they are recorded, and name the culprit of what stays.       *)
LEMMA StartRecoveryWrongPath ==
    ASSUME RecoveryInv, WrongPathInv, StartRecovery
    PROVE  WrongPathInv' /\ (~MISPREDICT_AT_FULL /\ LossInv => LossInv')
<1> DEFINE h == al.head
           c == al.count
<1>1. PICK w \in Writes :
         /\ backEnd' = Writers \ DOMAIN w
         /\ failed' = Owed(w) /\ condemned' = condemned \cup WrongPath(w)
         /\ finished' = finished \cup DOMAIN w
         /\ recoveryReg' = IF Recorded(w) THEN NextRecoveryReg(w) ELSE NoRecovery
    BY DEF StartRecovery, WriteOnly
<1>2. manager.phase = "RECOVER_0" /\ manager'.phase = "RECOVER_1" /\ al' = al
    BY DEF StartRecovery, InPhase
<1>3. StartInv /\ condemned \subseteq Window /\ failed \subseteq finished
    BY <1>2 DEF WrongPathInv
<1>4. PICK kept \in 0 .. c :
         /\ manager.flushHead = PtrAt(h, kept)
         /\ ~MISPREDICT_AT_FULL => ~Ambiguous(kept, c)
         /\ Window \ Region(h, kept) \subseteq condemned
         /\ (condemned \cup failed) \cap Region(h, kept) = {}
         /\ kept # 0 =>
               \E i \in 0 .. c - 1 :
                  /\ kept <= i + 1
                  /\ recoveryReg.ptr = PtrAt(h, i)
                  /\ recoveryReg.ptr \in finished
    BY <1>3 DEF StartInv
<1>5. /\ Window' = Window /\ Kept' \subseteq Region(h, kept)
      /\ Writers \subseteq Kept' /\ Writers \subseteq backEnd
      /\ ~Ambiguous(kept, c) =>
            /\ Kept' = Region(h, kept)
            /\ \A q \in Window : Flushed(q) => q \notin Region(h, kept)
    BY <1>4, StartRecoveryFacts
<1>6. /\ Exceptions(w) \subseteq DOMAIN w /\ DOMAIN w \subseteq Writers
      /\ Window \subseteq ALPtr /\ backEnd \cap finished = {}
      /\ finished \subseteq Window /\ WrongPath(w) \subseteq Window
      /\ DOMAIN w \subseteq Window
    BY WriteSets
<1>7. Age(recoveryReg.ptr)' = Age(recoveryReg'.ptr) /\ \A q : Age(q)' = Age(q)
    BY <1>2 DEF Age
<1>8. ASSUME Exceptions(w) # {}
      PROVE  Recorded(w)
    <2> DEFINE x == OldestOf(Exceptions(w))
    <2>1. x \in Exceptions(w) /\ x \in ALPtr
        BY <1>8, OldestFails
    <2> HIDE DEF x
    <2>2. x \in Region(h, kept) /\ x \in backEnd /\ kept # 0
        <3>1. x \in Region(h, kept) /\ x \in backEnd
            BY <1>5, <1>6, <2>1
        <3>2. QED
            BY <3>1 DEF Region
    <2>3. PICK i \in 0 .. c - 1 : /\ kept <= i + 1
                                 /\ recoveryReg.ptr = PtrAt(h, i)
                                 /\ recoveryReg.ptr \in finished
        BY <1>4, <2>2
    <2>4. /\ h \in Nat /\ i \in ALPtr /\ i \in Nat /\ kept \in Nat
          /\ kept \in 0 .. ACTIVE_LIST_ENTRY_NUM
        BY ActiveListSizeAssumption
        DEF ActiveListSizeAssumption, RecoveryInv, ListInv, ALPtr
    <2>5. Age(recoveryReg.ptr) = h + i /\ recoveryReg.ptr \in ALPtr
        BY <2>3, <2>4, AgeOfPlace DEF RecoveryInv
    <2>6. Age(x) < h + kept
        BY <2>1, <2>2, <2>4, RegionIsByAge DEF RecoveryInv
    <2>7. Age(x) \in Nat /\ Age(x) # Age(recoveryReg.ptr)
        BY <1>6, <2>1, <2>2, <2>3, <2>5, AgeFacts DEF RecoveryInv
    <2>8. Age(x) < Age(recoveryReg.ptr)
        BY <2>3, <2>4, <2>5, <2>6, <2>7
    <2>9. QED
        BY <1>8, <2>8 DEF Recorded, x
<1>9. RecordInv'
    <2>1. CASE Exceptions(w) = {}
        <3>1. ~Recorded(w) /\ WrongPath(w) = {} /\ Owed(w) = failed
            BY <2>1 DEF Recorded, WrongPath, Owed
        <3>2. condemned' \cap Kept' = {} /\ failed' \cap Kept' = {}
            BY <1>1, <1>4, <1>5, <3>1
        <3>3. ~recoveryReg'.valid
            BY <1>1, <3>1 DEF NoRecovery
        <3>4. QED
            BY <3>2, <3>3 DEF RecordInv
    <2>2. CASE Exceptions(w) # {}
        <3> DEFINE x == OldestOf(Exceptions(w))
        <3>1. recoveryReg' = [valid |-> TRUE, ptr |-> x, state |-> w[x]]
            BY <1>1, <1>2, <1>8, <2>2
            DEF NextRecoveryReg, DetectedInRwStage, UnableToStartRecovery
        <3>2. /\ x \in Exceptions(w)
              /\ \A q \in Exceptions(w) : Age(x) <= Age(q)
              /\ \A q \in WrongPath(w) :
                    Age(x) < Age(q) \/ (q = x /\ FailsThis(w[x]))
              /\ YoungerThan(x) \subseteq WrongPath(w)
              /\ FailsThis(w[x]) => x \in WrongPath(w)
            BY <2>2, OldestFails
        <3> HIDE DEF x
        <3>3. /\ recoveryReg'.valid /\ recoveryReg'.ptr = x
              /\ recoveryReg'.state = w[x]
            BY <3>1
        <3>4. ASSUME NEW q \in condemned' \cap Kept'
              PROVE  \/ Age(recoveryReg.ptr)' < Age(q)'
                     \/ q = recoveryReg'.ptr /\ FailsThis(recoveryReg'.state)
            <4>1. q \in WrongPath(w)
                BY <1>1, <1>4, <1>5
            <4>2. QED
                BY <1>7, <3>2, <3>3, <4>1
        <3>5. ASSUME NEW q \in failed' \cap Kept'
              PROVE  Age(recoveryReg.ptr)' <= Age(q)'
            <4>1. q \in Exceptions(w)
                BY <1>1, <1>4, <1>5 DEF Owed
            <4>2. QED
                BY <1>7, <3>2, <3>3, <4>1
        <3>6. YoungerThan(recoveryReg.ptr)' \subseteq condemned'
            <4>1. ASSUME NEW q \in YoungerThan(recoveryReg.ptr)'
                  PROVE  q \in condemned'
                <5>1. q \in Window' /\ Age(recoveryReg.ptr)' < Age(q)'
                    BY DEF YoungerThan
                <5>2. Age(x) < Age(q)
                    BY <1>7, <3>3, <5>1
                <5>3. QED
                    BY <1>1, <1>5, <3>2, <5>1, <5>2 DEF YoungerThan
            <4>2. QED
                BY <4>1
        <3>7. /\ recoveryReg'.ptr \in failed'
              /\ FailsThis(recoveryReg'.state) => recoveryReg'.ptr \in condemned'
            BY <1>1, <3>2, <3>3 DEF Owed
        <3>8. QED
            BY <3>3, <3>4, <3>5, <3>6, <3>7 DEF RecordInv
    <2>3. QED
        BY <2>1, <2>2
<1>10. condemned' \subseteq Window' /\ failed' \subseteq finished'
    BY <1>1, <1>3, <1>5, <1>6 DEF Owed
<1>11. ASSUME ~MISPREDICT_AT_FULL, LossInv
       PROVE  LossInv'
    <2>1. Kept' = Region(h, kept) /\ \A q \in Window : Flushed(q) => q \notin Region(h, kept)
        BY <1>4, <1>5, <1>11
    <2>2. ASSUME NEW q \in Window, q \notin finished', q \notin backEnd'
          PROVE  q \in condemned'
        <3>1. CASE q \in backEnd
            <4>1. q \notin Writers
                BY <1>1, <2>2
            <4>2. Flushed(q)
                BY <1>2, <3>1, <4>1 DEF Writers
            <4>3. QED
                BY <1>1, <1>4, <2>1, <4>2
        <3>2. CASE q \notin backEnd
            BY <1>1, <1>11, <2>2, <3>2 DEF LossInv
        <3>3. QED
            BY <3>1, <3>2
    <2>3. Window' \ Kept' \subseteq condemned'
        BY <1>1, <1>4, <1>5, <2>1
    <2>4. QED
        BY <1>5, <2>2, <2>3 DEF LossInv
<1>12. QED
    BY <1>2, <1>9, <1>10, <1>11 DEF WrongPathInv

-----------------------------------------------------------------------------
LEMMA OperateWrongPathInv ==
    ASSUME RecoveryInv, WrongPathInv, manager.phase # "RECOVER_0",
           committer.phase = "COMMIT",
           NEW group \in Groups, NEW w \in Writes, Operate(group, w),
           StartsRecovery(w) =>
              MISPREDICT_AT_FULL \/ ~FullListWrap(w, group, Decision.commitNum)
    PROVE  WrongPathInv' /\ (LossInv => LossInv')
<1>1. WrongPathInv'
    BY OperateKeepsRecord, OperateLatchesRange
<1>2. ASSUME LossInv
      PROVE  LossInv'
    <2>1. /\ finished' = (finished \cup DOMAIN w)
                             \ (PushedPtrs(group) \cup CommittedPtrs(Decision.commitNum))
          /\ backEnd' = (backEnd \ DOMAIN w) \cup PushedPtrs(group)
        BY DEF Operate
    <2>2. /\ condemned \subseteq condemned' /\ Kept' = Window'
          /\ Window' = (Window \cup PushedPtrs(group)) \ CommittedPtrs(Decision.commitNum)
          /\ Window \cap PushedPtrs(group) = {}
        BY OperateWrongPath, CommittedIsRegion
    <2>3. QED
        BY <1>2, <2>1, <2>2 DEF LossInv
<1>3. QED
    BY <1>1, <1>2

LEMMA InitWrongPath == Init => WrongPathInv /\ LossInv
<1> SUFFICES ASSUME Init
             PROVE  WrongPathInv /\ LossInv
    OBVIOUS
<1>1. /\ al.count = 0 /\ failed = {} /\ condemned = {} /\ finished = {}
      /\ recoveryReg.valid = FALSE /\ manager.phase = "COMMIT"
    BY DEF Init, NoRecovery, InPhase
<1>2. Window = {}
    <2>1. 0 .. al.count - 1 = {}
        BY <1>1
    <2>2. QED
        BY <2>1 DEF Window
<1>3. QED
    BY <1>1, <1>2 DEF WrongPathInv, RecordInv, LossInv

LEMMA StutterWrongPath ==
    ASSUME WrongPathInv, UNCHANGED vars
    PROVE  WrongPathInv' /\ (LossInv => LossInv')
<1>1. /\ al' = al /\ manager' = manager /\ committer' = committer
      /\ recoveryEntryNum' = recoveryEntryNum /\ recoveryReg' = recoveryReg
      /\ finished' = finished /\ backEnd' = backEnd
      /\ failed' = failed /\ condemned' = condemned
    BY DEF vars
<1>2. Window' = Window /\ Kept' = Kept /\ \A q : Age(q)' = Age(q)
    BY <1>1 DEF Window, Kept, KeptNum, Age
<1>3. /\ YoungerThan(recoveryReg.ptr)' = YoungerThan(recoveryReg.ptr)
      /\ Age(recoveryReg.ptr)' = Age(recoveryReg.ptr)
    BY <1>1, <1>2 DEF YoungerThan, Age
<1>4. RecordInv => RecordInv'
    BY <1>1, <1>2, <1>3 DEF RecordInv
<1>5. StartInv => StartInv'
    BY <1>1, <1>2 DEF StartInv
<1>6. QED
    BY <1>1, <1>2, <1>4, <1>5 DEF WrongPathInv, LossInv

LEMMA StepWrongPath ==
    RecoveryInv /\ WrongPathInv /\ [Next]_vars
        => WrongPathInv' /\ (~MISPREDICT_AT_FULL /\ LossInv => LossInv')
<1> SUFFICES ASSUME RecoveryInv, WrongPathInv, [Next]_vars
             PROVE  WrongPathInv' /\ (~MISPREDICT_AT_FULL /\ LossInv => LossInv')
    OBVIOUS
<1>1. CASE Run
    <2>1. manager.phase # "RECOVER_0" /\ committer.phase = "COMMIT"
        BY <1>1 DEF Run, RecoveryInv, PhaseInv
    <2>2. PICK group \in Groups, w \in Writes :
             /\ MISPREDICT_AT_FULL \/ ~FullListWrap(w, group, Decision.commitNum)
             /\ Operate(group, w)
        BY <1>1 DEF Run
    <2>3. QED
        BY <2>1, <2>2, OperateWrongPathInv
<1>2. CASE StartRecovery
    BY <1>2, StartRecoveryWrongPath
<1>3. CASE LoadRecoveryCount
    BY <1>3, LoadRecoveryCountWrongPath
<1>4. CASE PopFlushed
    BY <1>4, PopFlushedWrongPath
<1>5. CASE AwaitIssueQueue
    <2>1. manager.phase = "RECOVER_1" /\ committer.phase = "COMMIT"
        BY <1>5 DEF AwaitIssueQueue
    <2>2. PICK group \in Groups, w \in Writes : Operate(group, w)
        BY <1>5 DEF AwaitIssueQueue
    <2>3. ~StartsRecovery(w)
        BY <2>1 DEF StartsRecovery
    <2>4. QED
        BY <2>1, <2>2, <2>3, OperateWrongPathInv
<1>6. CASE UNCHANGED vars
    BY <1>6, StutterWrongPath
<1>7. QED
    BY <1>1, <1>2, <1>3, <1>4, <1>5, <1>6 DEF Next

(* In every reachable state the recovery register, or the flush range that *)
(* was latched from it, names the oldest failure still owed: what is on a  *)
(* wrong path is younger than it, and what is younger is on a wrong path.  *)
THEOREM CulpritIsKnown == Spec => []WrongPathInv
BY InitWrongPath, StepWrongPath, RecoveryControl, PTL DEF Spec

(* No op on a wrong path, and none that still owes a recovery, retires: a  *)
(* recovery at the head and one in the write stage may meet, and ops fail  *)
(* while another recovery is under way.                                    *)
THEOREM WrongPathNeverCommits == Spec => []WrongPathNeverRetires
<1>1. RecoveryInv /\ WrongPathInv => WrongPathNeverRetires
    BY DEF RecoveryInv, OpsInv, WrongPathInv, WrongPathNeverRetires
<1>2. QED
    BY <1>1, RecoveryControl, CulpritIsKnown, PTL

(* Whenever the manager is back in COMMIT, the recovery register holds the *)
(* oldest of the failures that are still owed, with a state that recovers. *)
THEOREM OldestFailureIsKept == Spec => []OldestFailureKept
<1>1. RecoveryInv /\ WrongPathInv => OldestFailureKept
    <2> SUFFICES ASSUME RecoveryInv, WrongPathInv, manager.phase = "COMMIT",
                        failed # {}
                 PROVE  /\ recoveryReg.valid
                        /\ recoveryReg.ptr = OldestOf(failed)
                        /\ Recovers(recoveryReg.state)
        BY DEF OldestFailureKept
    <2>1. committer.phase = "COMMIT" /\ Kept = Window
        BY KeptInWindow DEF RecoveryInv, PhaseInv
    <2>2. failed \subseteq Kept /\ failed \in SUBSET ALPtr
        BY <2>1, BackEndPtrs DEF RecoveryInv, OpsInv, WrongPathInv
    <2>3. /\ recoveryReg.valid /\ recoveryReg.ptr \in failed
          /\ \A q \in failed : Age(recoveryReg.ptr) <= Age(q)
        BY <2>2 DEF WrongPathInv, RecordInv
    <2>4. OldestOf(failed) \in failed /\ \A q \in failed : Age(OldestOf(failed)) <= Age(q)
        BY <2>2, OldestExists DEF RecoveryInv
    <2>5. \A p, q \in failed : /\ Age(p) \in Nat /\ Age(q) \in Nat
                               /\ Age(p) = Age(q) => p = q
        BY <2>2, AgeFacts DEF RecoveryInv
    <2>6. recoveryReg.ptr = OldestOf(failed)
        BY <2>3, <2>4, <2>5
    <2>7. QED
        BY <2>3, <2>6 DEF RecoveryInv, RegInv
<1>2. QED
    BY <1>1, RecoveryControl, CulpritIsKnown, PTL

(* When the manager is back in COMMIT, what is left of a wrong path is     *)
(* younger than a failure still owed: no recovery pops too few entries.    *)
THEOREM RecoveryIsComplete == Spec => []RecoveryComplete
<1>1. RecoveryInv /\ WrongPathInv => RecoveryComplete
    <2> SUFFICES ASSUME RecoveryInv, WrongPathInv, manager.phase = "COMMIT",
                        NEW q \in condemned
                 PROVE  \E p \in failed : Age(p) <= Age(q)
        BY DEF RecoveryComplete
    <2>1. committer.phase = "COMMIT" /\ Kept = Window /\ Window \subseteq ALPtr
        BY KeptInWindow, BackEndPtrs DEF RecoveryInv, PhaseInv
    <2>2. q \in Kept /\ q \in ALPtr
        BY <2>1 DEF WrongPathInv
    <2>3. /\ recoveryReg.valid
          /\ Age(recoveryReg.ptr) < Age(q) \/ q = recoveryReg.ptr
          /\ recoveryReg.ptr \in failed
        BY <2>2 DEF WrongPathInv, RecordInv
    <2>4. recoveryReg.ptr \in ALPtr
        BY <2>1, <2>3 DEF WrongPathInv, RecoveryInv, OpsInv
    <2>5. Age(recoveryReg.ptr) \in Nat /\ Age(q) \in Nat
        BY <2>2, <2>4, AgeFacts DEF RecoveryInv
    <2>6. QED
        BY <2>3, <2>5
<1>2. QED
    BY <1>1, RecoveryControl, CulpritIsKnown, PTL

LEMMA LossInvHolds ==
    ASSUME ~MISPREDICT_AT_FULL
    PROVE  Spec => []LossInv
<1>1. Init => LossInv
    BY InitWrongPath
<1>2. RecoveryInv /\ WrongPathInv /\ LossInv /\ [Next]_vars => LossInv'
    BY StepWrongPath
<1>3. QED
    BY <1>1, <1>2, RecoveryControl, CulpritIsKnown, PTL DEF Spec

(* An op that no failure condemned is finished or still in the back end:   *)
(* if the youngest op of a full list does not mispredict, the selective    *)
(* flush kills nothing that must survive.                                  *)
THEOREM NoOpIsLost ==
    ASSUME ~MISPREDICT_AT_FULL
    PROVE  Spec => []NoOpLost
<1>1. LossInv => NoOpLost
    BY DEF LossInv, NoOpLost
<1>2. QED
    BY <1>1, LossInvHolds, PTL

(* Under the same assumption a recovery pops only ops of the wrong path,   *)
(* in whatever groups the committer pops them.                             *)
THEOREM PopsOnlyWrongPath ==
    ASSUME ~MISPREDICT_AT_FULL
    PROVE  Spec => FlushesOnlyWrongPath
<1>1. RecoveryInv /\ WrongPathInv /\ LossInv /\ [Next]_vars =>
         [committer.phase = "RECOVER_1" => Window \ Window' \subseteq condemned]_vars
    <2> SUFFICES ASSUME RecoveryInv, WrongPathInv, LossInv, Next,
                        committer.phase = "RECOVER_1"
                 PROVE  Window \ Window' \subseteq condemned
        OBVIOUS
    <2>1. manager.phase = "RECOVER_1"
        BY DEF RecoveryInv, PhaseInv
    <2>2. PopFlushed
        BY <2>1 DEF Next, Run, StartRecovery, LoadRecoveryCount, AwaitIssueQueue
    <2>3. QED
        BY <2>2, PopFlushedWrongPath
<1>2. QED
    BY <1>1, RecoveryControl, CulpritIsKnown, LossInvHolds, PTL
    DEF Spec, FlushesOnlyWrongPath

-----------------------------------------------------------------------------
(***************************************************************************)
(* The maps: the register map that the renamer reads and the previous      *)
(* mappings in the active list are what program order says, in every       *)
(* cycle, also when ops are renamed, retired and popped in groups and      *)
(* several of a group write the same register.                             *)
(*                                                                         *)
(* Each map is the value of the last writer in a set of places (Last), and *)
(* a cycle only splits or moves that set: retiring moves its old end into  *)
(* the retirement RMT, renaming adds the lanes of the group at its young   *)
(* end, and a pop removes a suffix, whose oldest writer holds the mapping  *)
(* from before the suffix.                                                 *)
(***************************************************************************)

(* The i-th op of the window, oldest first                                 *)
OpAt(i) == activeList[HeadPtr(i)]

(* The value of the last place of S, or init when there is none            *)
Last(S, val, init) == IF S = {} THEN init ELSE val[MaxOf(S)]

(* The places among the n oldest that write register l, the flags          *)
WritersOf(n, l) == {i \in 0 .. n - 1 : OpAt(i).writeReg /\ OpAt(i).log = l}
FlagWriters(n) == {i \in 0 .. n - 1 : OpAt(i).writeFlags}
DstOf == [i \in Nat |-> OpAt(i).phyDst]
DstFlagsOf == [i \in Nat |-> OpAt(i).phyDstFlags]

(* The op of every place names a logical register: the RMT is restored     *)
(* from all of them.                                                       *)
LogInv == \A i \in 0 .. al.count - 1 : OpAt(i).log \in LReg

MapsInv == RmtFollowsProgramOrder /\ FlagsMapFollowsProgramOrder /\ LogInv

-----------------------------------------------------------------------------
(* The greatest of a bounded set of numbers *)
LEMMA MaxOfFacts ==
    ASSUME NEW k \in Nat, NEW S \in SUBSET (0 .. k), S # {}
    PROVE  /\ MaxOf(S) \in S /\ \A y \in S : y <= MaxOf(S)
           /\ MaxOf(S) \in 0 .. k /\ MaxOf(S) \in Nat
<1> DEFINE T == {k - x : x \in S}
<1>1. \A x \in S : x \in Nat /\ k - x \in Nat
    OBVIOUS
<1>2. T \in SUBSET Nat /\ T # {}
    BY <1>1
<1>3. PICK m \in T : \A t \in T : m <= t
    <2> HIDE DEF T
    <2> QED BY <1>2, LeastElement
<1>4. PICK x \in S : m = k - x
    BY <1>3
<1>5. \A y \in S : y <= x
    <2>1. ASSUME NEW y \in S
          PROVE  y <= x
        <3>1. k - x <= k - y /\ x \in Nat /\ y \in Nat
            BY <1>1, <1>3, <1>4
        <3>2. QED
            BY <3>1
    <2>2. QED
        BY <2>1
<1>6. MaxOf(S) \in S /\ \A y \in S : y <= MaxOf(S)
    BY <1>5 DEF MaxOf
<1>7. QED
    BY <1>1, <1>6

LEMMA MaxOfIs ==
    ASSUME NEW S \in SUBSET Nat, NEW x \in S, \A y \in S : y <= x
    PROVE  MaxOf(S) = x
<1>1. \A z \in S : (\A y \in S : y <= z) => z = x
    OBVIOUS
<1>2. QED
    BY <1>1 DEF MaxOf

(* The members of S below k, up to k *)
Below(S, k) == {i \in S : i < k}
UpTo(S, k) == {i \in S : i <= k}

(* Of the k places S the n oldest are split off; B are the others, counted  *)
(* from d on: as places of the window (d = 0) or lanes of a group (d = 1). *)
IsSplit(k, n, d, S, B, val, val2) ==
    /\ k \in Nat /\ n \in 0 .. k /\ d \in {0, 1}
    /\ S \in SUBSET (0 .. k - 1)
    /\ B \in SUBSET (d .. k - n + d - 1)
    /\ \A j \in d .. k - n + d - 1 : j \in B <=> n + j - d \in S
    /\ \A j \in B : val2[j] = val[n + j - d]

LEMMA LastSplit ==
    ASSUME NEW k, NEW n, NEW d, NEW S, NEW B, NEW val, NEW val2, NEW init,
           IsSplit(k, n, d, S, B, val, val2)
    PROVE  Last(S, val, init) = Last(B, val2, Last(Below(S, n), val, init))
<1> DEFINE A == {i \in S : i < n}
<1>d. Below(S, n) = A
    BY DEF Below
<1>0. /\ k \in Nat /\ n \in 0 .. k /\ d \in {0, 1}
      /\ S \in SUBSET (0 .. k - 1)
      /\ B \in SUBSET (d .. k - n + d - 1)
      /\ \A j \in d .. k - n + d - 1 : j \in B <=> n + j - d \in S
      /\ \A j \in B : val2[j] = val[n + j - d]
    BY DEF IsSplit
<1>1. /\ n \in Nat /\ \A i \in S : i \in Nat /\ i <= k
      /\ A \in SUBSET (0 .. k) /\ S \in SUBSET (0 .. k) /\ S \in SUBSET Nat
      /\ B \in SUBSET (0 .. k)
    <2>1. \A i \in S : i \in Nat /\ i <= k /\ i \in 0 .. k
        BY <1>0
    <2>2. \A j \in d .. k - n + d - 1 : j \in 0 .. k
        BY <1>0
    <2>3. S \subseteq 0 .. k /\ S \subseteq Nat /\ A \subseteq S
        BY <1>0, <2>1
    <2>4. B \subseteq 0 .. k
        BY <1>0, <2>2
    <2>5. n \in Nat
        BY <1>0
    <2>6. QED
        BY <1>0, <2>1, <2>3, <2>4, <2>5
<1>2. CASE B = {}
    <2>1. \A i \in S : i < n
        <3>1. ASSUME NEW i \in S, ~(i < n)
              PROVE  FALSE
            <4>1. i - n + d \in B
                BY <1>0, <3>1
            <4>2. QED
                BY <1>0, <1>2, <4>1
        <3>2. QED
            BY <1>0, <3>1
    <2>2. A = S
        BY <1>0, <2>1
    <2>3. QED
        BY <1>d, <1>0, <1>1, <1>2, <2>2, MaxOfFacts DEF Last
<1>3. CASE B # {}
    <2>1. PICK m : m = MaxOf(B)
        OBVIOUS
    <2>2. m \in B /\ \A j \in B : j <= m
        BY <1>0, <1>1, <1>3, <2>1, MaxOfFacts
    <2>3. n + m - d \in S
        BY <1>0, <2>2
    <2>4. ASSUME NEW i \in S
          PROVE  i <= n + m - d
        <3>1. CASE i < n
            BY <1>0, <2>2, <3>1
        <3>2. CASE ~(i < n)
            <4>1. i - n + d \in B
                BY <1>0, <3>2
            <4>2. i - n + d <= m
                BY <1>0, <2>2, <4>1
            <4>3. QED
                BY <1>0, <2>2, <4>2
        <3>3. QED
            BY <1>0, <3>1, <3>2
    <2>5. MaxOf(S) = n + m - d
        BY <1>0, <1>1, <2>3, <2>4, MaxOfIs
    <2>6. QED
        BY <1>d, <1>0, <1>3, <2>1, <2>2, <2>3, <2>5 DEF Last
<1>4. QED
    BY <1>0, <1>2, <1>3

(* A cycle in which the n oldest of c writers retire and g lanes are        *)
(* renamed: W are the places that write before it, X after it, L the lanes. *)
IsCycle(c, n, g, W, L, X, val, lane, val2) ==
    /\ c \in Nat /\ n \in 0 .. c /\ g \in Nat
    /\ W \in SUBSET (0 .. c - 1) /\ L \in SUBSET (1 .. g)
    /\ X \in SUBSET (0 .. c + g - n - 1)
    /\ \A i \in 0 .. c - n - 1 : i \in X <=> n + i \in W
    /\ \A i \in 0 .. c - n - 1 : i \in X => val2[i] = val[n + i]
    /\ \A j \in 1 .. g : c - n + j - 1 \in X <=> j \in L
    /\ \A j \in 1 .. g : j \in L => val2[c - n + j - 1] = lane[j]

LEMMA LastAfterCycle ==
    ASSUME NEW c, NEW n, NEW g, NEW W, NEW L, NEW X,
           NEW val, NEW lane, NEW val2, NEW init,
           IsCycle(c, n, g, W, L, X, val, lane, val2)
    PROVE  LET base == Last(Below(W, n), val, init)
           IN  /\ \A k \in 0 .. c - n :
                     Last(Below(X, k), val2, base)
                         = Last(Below(W, n + k), val, init)
               /\ \A k \in 0 .. g :
                     Last(Below(X, c - n + k), val2, base)
                         = Last(UpTo(L, k), lane, Last(W, val, init))
<1>a. c \in Nat /\ n \in 0 .. c /\ g \in Nat
    BY DEF IsCycle
<1>d. /\ W \in SUBSET (0 .. c - 1) /\ L \in SUBSET (1 .. g)
      /\ X \in SUBSET (0 .. c + g - n - 1)
    BY DEF IsCycle
<1>b. \A i \in 0 .. c - n - 1 : i \in X <=> n + i \in W
    BY DEF IsCycle
<1>e. \A i \in 0 .. c - n - 1 : i \in X => val2[i] = val[n + i]
    BY DEF IsCycle
<1>c. \A j \in 1 .. g : c - n + j - 1 \in X <=> j \in L
    BY DEF IsCycle
<1>f. \A j \in 1 .. g : j \in L => val2[c - n + j - 1] = lane[j]
    BY DEF IsCycle
<1> DEFINE Base == Last(Below(W, n), val, init)
<1>0. /\ n \in Nat /\ c - n \in Nat /\ n + (c - n) = c
      /\ \A i \in W : i \in Nat /\ i < c
      /\ \A i \in X : i \in Nat
    <2>1. n \in Nat /\ c - n \in Nat
        BY <1>a, <1>d
    <2>2. n + (c - n) = c
        BY <1>a, <1>d, <2>1
    <2>3. \A i \in 0 .. c - 1 : i \in Nat /\ i < c
        BY <1>a, <1>d
    <2>4. \A i \in 0 .. c + g - n - 1 : i \in Nat
        BY <1>a, <1>d
    <2>5. QED
        BY <1>a, <1>d, <2>1, <2>2, <2>3, <2>4
<1>1. ASSUME NEW k \in 0 .. c - n
      PROVE  Last(Below(X, k), val2, Base) = Last(Below(W, n + k), val, init)
    <2> DEFINE S == Below(W, n + k)
               B == Below(X, k)
    <2>1. k \in Nat /\ \A j \in 0 .. k - 1 : j \in 0 .. c - n - 1 /\ n + j < n + k
        BY <1>a, <1>0
    <2>2. S \in SUBSET (0 .. n + k - 1)
        <3>1. \A i \in W : i < n + k => i \in 0 .. n + k - 1
            BY <1>a, <1>0
        <3>2. QED
            BY <1>a, <3>1 DEF Below
    <2>3. /\ B \in SUBSET (0 .. k - 1)
          /\ \A j \in 0 .. k - 1 : j \in B <=> n + j \in S
        <3>1. \A i \in X : i < k => i \in 0 .. k - 1
            BY <1>a, <1>0, <2>1
        <3>2. \A j \in 0 .. k - 1 : j < k
            BY <1>a, <2>1
        <3>3. \A j \in 0 .. k - 1 : n + j \in S <=> j \in B
            BY <1>a, <1>b, <2>1, <3>2 DEF Below
        <3>4. B \subseteq 0 .. k - 1
            BY <1>a, <3>1 DEF Below
        <3>5. QED
            BY <1>a, <3>3, <3>4
    <2>4. \A j \in B : val2[j] = val[n + j]
        <3>1. \A j \in B : j \in 0 .. c - n - 1 /\ j \in X
            BY <1>a, <2>1, <2>3 DEF Below
        <3> HIDE DEF B
        <3>2. QED
            BY <1>a, <1>e, <3>1
    <2>5. Below(S, n) = Below(W, n)
        <3>1. \A i \in W : i < n => i < n + k
            BY <1>a, <1>0, <2>1
        <3>2. QED
            BY <1>a, <3>1 DEF Below
    <2> HIDE DEF S, B
    <2>6. Last(S, val, init) = Last(B, val2, Last(Below(S, n), val, init))
        <3>1. /\ n + k \in Nat /\ n \in 0 .. n + k /\ (n + k) - n + 0 - 1 = k - 1
              /\ \A j \in 0 .. k - 1 : n + j - 0 = n + j
            BY <1>a, <1>0, <2>1
        <3>2. IsSplit(n + k, n, 0, S, B, val, val2)
            BY <1>a, <2>2, <2>3, <2>4, <3>1 DEF IsSplit
        <3>3. QED
            BY <1>a, <3>2, LastSplit
    <2>7. QED
        BY <1>a, <2>5, <2>6 DEF S, B
<1>2. ASSUME NEW k \in 0 .. g
      PROVE  Last(Below(X, c - n + k), val2, Base)
                 = Last(UpTo(L, k), lane, Last(W, val, init))
    <2> DEFINE old == c - n
               S == Below(X, old + k)
               B == UpTo(L, k)
    <2>1. old \in Nat /\ k \in Nat /\ old \in 0 .. c - n /\ n + old = c
        BY <1>a, <1>0
    <2>2. \A j \in 1 .. g : old + j - 1 \in X <=> j \in L
        BY <1>a, <1>c
    <2>11. \A j \in 1 .. g : j \in L => val2[old + j - 1] = lane[j]
        BY <1>a, <1>f
    <2>3. Below(W, n + old) = W
        <3>1. \A i \in W : i < n + old
            BY <1>a, <1>0, <2>1
        <3>2. QED
            BY <1>a, <3>1 DEF Below
    <2>4. Last(Below(X, old), val2, Base) = Last(W, val, init)
        BY <1>a, <1>1, <2>1, <2>3
    <2> HIDE DEF old
    <2>5. S \in SUBSET (0 .. old + k - 1)
        <3>1. \A i \in X : i < old + k => i \in 0 .. old + k - 1
            BY <1>a, <1>0, <2>1
        <3>2. QED
            BY <1>a, <3>1 DEF Below
    <2>6. /\ B \in SUBSET (1 .. k)
          /\ \A j \in 1 .. k : j \in B <=> old + j - 1 \in S
        <3>1. /\ \A j \in L : j <= k => j \in 1 .. k
              /\ \A j \in 1 .. k : j \in 1 .. g /\ j <= k /\ old + j - 1 < old + k
            BY <1>a, <1>d, <2>1
        <3>2. \A j \in 1 .. k : old + j - 1 \in S <=> j \in B
            BY <1>a, <2>2, <3>1 DEF Below, UpTo
        <3>3. B \subseteq 1 .. k
            BY <1>a, <3>1 DEF UpTo
        <3>4. QED
            BY <1>a, <3>2, <3>3
    <2>7. \A j \in B : lane[j] = val2[old + j - 1]
        BY <1>a, <1>d, <2>11 DEF UpTo
    <2>8. Below(S, old) = Below(X, old)
        <3>1. \A i \in X : i < old => i < old + k
            BY <1>a, <1>0, <2>1
        <3>2. QED
            BY <1>a, <3>1 DEF Below
    <2> HIDE DEF S, B, Base
    <2>9. Last(S, val2, Base) = Last(B, lane, Last(Below(S, old), val2, Base))
        <3>1. old + k \in Nat /\ old \in 0 .. old + k /\ (old + k) - old + 1 - 1 = k
            BY <1>a, <2>1
        <3>2. IsSplit(old + k, old, 1, S, B, val2, lane)
            BY <1>a, <2>5, <2>6, <2>7, <3>1 DEF IsSplit
        <3>3. QED
            BY <1>a, <3>2, LastSplit
    <2>10. QED
        BY <1>a, <2>4, <2>8, <2>9 DEF S, B, old
<1>3. QED
    BY <1>a, <1>1, <1>2

-----------------------------------------------------------------------------
(* The maps of the model as last writers *)
LEMMA MapAfterIsLast ==
    ASSUME NEW n \in 0 .. ACTIVE_LIST_ENTRY_NUM, NEW l
    PROVE  /\ MapAfter(n, l) = Last(WritersOf(n, l), DstOf, rrmt[l])
           /\ MapAfter(n, l)' = Last(WritersOf(n, l)', DstOf', rrmt'[l])
<1>1. n \in Nat /\ \A i \in 0 .. n - 1 : i \in 0 .. n
    BY ActiveListSizeAssumption DEF ActiveListSizeAssumption
<1>2. WritersOf(n, l) \in SUBSET (0 .. n) /\ WritersOf(n, l)' \in SUBSET (0 .. n)
    BY <1>1 DEF WritersOf
<1>3. /\ WritersOf(n, l) # {} => MaxOf(WritersOf(n, l)) \in Nat
      /\ WritersOf(n, l)' # {} => MaxOf(WritersOf(n, l)') \in Nat
    BY <1>1, <1>2, MaxOfFacts
<1>4. MapAfter(n, l) = Last(WritersOf(n, l), DstOf, rrmt[l])
    BY <1>3 DEF MapAfter, WritersOf, Last, DstOf, OpAt
<1>5. MapAfter(n, l)' = Last(WritersOf(n, l)', DstOf', rrmt'[l])
    BY <1>3 DEF MapAfter, WritersOf, Last, DstOf, OpAt
<1>6. QED
    BY <1>4, <1>5

LEMMA FlagsAfterIsLast ==
    ASSUME NEW n \in 0 .. ACTIVE_LIST_ENTRY_NUM
    PROVE  /\ FlagsAfter(n) = Last(FlagWriters(n), DstFlagsOf, archFlags)
           /\ FlagsAfter(n)' = Last(FlagWriters(n)', DstFlagsOf', archFlags')
<1>1. n \in Nat /\ \A i \in 0 .. n - 1 : i \in 0 .. n
    BY ActiveListSizeAssumption DEF ActiveListSizeAssumption
<1>2. FlagWriters(n) \in SUBSET (0 .. n) /\ FlagWriters(n)' \in SUBSET (0 .. n)
    BY <1>1 DEF FlagWriters
<1>3. /\ FlagWriters(n) # {} => MaxOf(FlagWriters(n)) \in Nat
      /\ FlagWriters(n)' # {} => MaxOf(FlagWriters(n)') \in Nat
    BY <1>1, <1>2, MaxOfFacts
<1>4. FlagsAfter(n) = Last(FlagWriters(n), DstFlagsOf, archFlags)
    BY <1>3 DEF FlagsAfter, FlagWriters, Last, DstFlagsOf, OpAt
<1>5. FlagsAfter(n)' = Last(FlagWriters(n)', DstFlagsOf', archFlags')
    BY <1>3 DEF FlagsAfter, FlagWriters, Last, DstFlagsOf, OpAt
<1>6. QED
    BY <1>4, <1>5

(* The lanes of a group before lane i that write register l, the flags     *)
LaneWriters(group, i, l) ==
    {j \in 1 .. i - 1 : group[j].writeReg /\ group[j].log = l}
LaneFlagWriters(group, i) == {j \in 1 .. i - 1 : group[j].writeFlags}
LaneDst(group) == [j \in Nat |-> AllocatedGpr(group, j)]
LaneDstFlags(group) == [j \in Nat |-> AllocatedFlag(group, j)]

LEMMA RmtAtLaneIsLast ==
    ASSUME NEW group, NEW i \in Nat, NEW l \in LReg
    PROVE  RmtAtLane(group, i)[l] = Last(LaneWriters(group, i, l), LaneDst(group), rmt[l])
<1>1. LaneWriters(group, i, l) = {j \in GprWritersBefore(group, i) : group[j].log = l}
    BY DEF LaneWriters, GprWritersBefore
<1>2. LaneWriters(group, i, l) # {} => MaxOf(LaneWriters(group, i, l)) \in Nat
    <2>1. \A j \in 1 .. i - 1 : j \in 0 .. i
        OBVIOUS
    <2>2. LaneWriters(group, i, l) \in SUBSET (0 .. i)
        BY <2>1 DEF LaneWriters
    <2>3. QED
        BY <2>2, MaxOfFacts
<1>3. QED
    BY <1>1, <1>2 DEF RmtAtLane, Last, LaneDst

LEMMA FlagsAtLaneIsLast ==
    ASSUME NEW group, NEW i \in Nat
    PROVE  FlagsAtLane(group, i) =
              Last(LaneFlagWriters(group, i), LaneDstFlags(group), flagsPhyReg)
<1>1. LaneFlagWriters(group, i) = FlagWritersBefore(group, i)
    BY DEF LaneFlagWriters, FlagWritersBefore
<1>2. LaneFlagWriters(group, i) # {} => MaxOf(LaneFlagWriters(group, i)) \in Nat
    <2>1. \A j \in 1 .. i - 1 : j \in 0 .. i
        OBVIOUS
    <2>2. LaneFlagWriters(group, i) \in SUBSET (0 .. i)
        BY <2>1 DEF LaneFlagWriters
    <2>3. QED
        BY <2>2, MaxOfFacts
<1>3. QED
    BY <1>1, <1>2 DEF FlagsAtLane, Last, LaneDstFlags

-----------------------------------------------------------------------------
(* The window after a cycle: what retired is gone, the others moved up, and *)
(* the group stands behind them.                                            *)
LEMMA HeadPtrIsPtrAt ==
    /\ \A i : HeadPtr(i) = PtrAt(al.head, i)
    /\ \A i : HeadPtr(i)' = PtrAt(al'.head, i)
<1>1. ASSUME NEW i
      PROVE  HeadPtr(i) = PtrAt(al.head, i) /\ HeadPtr(i)' = PtrAt(al'.head, i)
    BY WrapAddIsPtrAt DEF HeadPtr
<1>2. QED
    BY <1>1

LEMMA OperateEntries ==
    ASSUME RecoveryInv, manager.phase # "RECOVER_0", committer.phase = "COMMIT",
           NEW group \in Groups, NEW w \in Writes, Operate(group, w),
           NEW i \in 0 .. al.count + Len(group) - Decision.commitNum - 1
    PROVE  LET n == Decision.commitNum
               c == al.count
           IN  OpAt(i)' = IF n + i < c THEN OpAt(n + i)
                          ELSE EntryOf(group, n + i - c + 1)
<1> DEFINE n == Decision.commitNum
           c == al.count
           g == Len(group)
           h == al.head
           p == PtrAt(h, n + i)
<1>1. /\ h \in ALPtr /\ c \in Nat /\ c \in 0 .. ACTIVE_LIST_ENTRY_NUM
      /\ al.tail = PtrAt(h, c)
      /\ g \in Nat /\ c + g \in 0 .. ACTIVE_LIST_ENTRY_NUM
      /\ n \in Nat /\ n \in 0 .. c
      /\ CommittedPtrs(n) = Region(h, n)
      /\ al'.head = PtrAt(h, n)
      /\ Window = Region(h, c)
      /\ PushedPtrs(group) = Region(h, c + g) \ Window
    BY OperateFacts
<1>2. DOMAIN group = 1 .. g
    BY GroupFacts DEF RecoveryInv
<1>3. activeList' = [q \in ALPtr |->
              IF q \in PushedPtrs(group)
              THEN EntryOf(group, CHOOSE k \in DOMAIN group : PushedPtr(k) = q)
              ELSE IF q \in CommittedPtrs(n) THEN NoEntry ELSE activeList[q]]
    BY DEF Operate
<1> HIDE DEF n, g
<1>4. i \in 0 .. c + g - n - 1
    BY DEF n, g
<1>5. /\ i \in Nat /\ n + i \in ALPtr /\ n + i <= ACTIVE_LIST_ENTRY_NUM
      /\ n + i < c + g /\ n \in 0 .. ACTIVE_LIST_ENTRY_NUM
      /\ n + i \in 0 .. ACTIVE_LIST_ENTRY_NUM
  <2>1. n \in Nat /\ c \in Nat /\ g \in Nat /\ c + g \in 0 .. ACTIVE_LIST_ENTRY_NUM
        /\ n \in 0 .. c
      BY <1>1
  <2>2. i \in Nat /\ n + i < c + g
      BY <2>1, <1>4
  <2>3. QED
      BY ONLY <2>1, <2>2, ActiveListSizeAssumption
         DEF ActiveListSizeAssumption, ALPtr
<1>6. PtrAt(al'.head, i) = p /\ p \in ALPtr
  <2>1. h \in ALPtr /\ al'.head = PtrAt(h, n)
      BY <1>1
  <2>2. PtrAt(PtrAt(h, n), i) = p
      BY <2>1, <1>5, PtrAtAdd
  <2>3. QED
      BY <2>1, <2>2, <1>5, PtrAtRange
<1>7. HeadPtr(i)' = p /\ HeadPtr(n + i) = p
    BY <1>6, HeadPtrIsPtrAt
<1>8. /\ p \in Region(h, c) <=> n + i < c
      /\ p \notin Region(h, n) /\ p \in Region(h, c + g)
    BY <1>1, <1>5, PlaceInRegion
<1>9. CASE n + i < c
    BY <1>1, <1>3, <1>6, <1>7, <1>8, <1>9 DEF OpAt, n
<1>10. CASE ~(n + i < c)
    <2> DEFINE k == n + i - c + 1
    <2>1. k \in 1 .. g /\ k \in DOMAIN group
        BY <1>1, <1>2, <1>5, <1>10
    <2>2. ASSUME NEW m \in 1 .. g
          PROVE  PushedPtr(m) = PtrAt(h, c + (m - 1)) /\ c + (m - 1) \in ALPtr
        <3>1. /\ m - 1 \in Nat /\ c + (m - 1) <= ACTIVE_LIST_ENTRY_NUM
              /\ c + (m - 1) \in ALPtr
            BY <1>1, ActiveListSizeAssumption DEF ActiveListSizeAssumption, ALPtr
        <3>2. QED
            BY <1>1, <3>1, PtrAtAdd, WrapAddIsPtrAt DEF PushedPtr
    <2>3. PushedPtr(k) = p
        <3>1. c + (k - 1) = n + i
            BY <1>1, <1>5
        <3>2. QED
            BY <2>1, <2>2, <3>1
    <2>4. \A m \in 1 .. g : PushedPtr(m) = p => m = k
        <3>1. ASSUME NEW m \in 1 .. g, PushedPtr(m) = p
              PROVE  m = k
            <4>1. c + (m - 1) = n + i
                BY <1>1, <1>5, <2>2, <3>1, PtrAtInjective
            <4>2. QED
                <5>1. n \in Int /\ i \in Int /\ c \in Int /\ m \in Int
                    BY <1>1, <1>5
                <5>2. QED
                    BY <4>1, <5>1
        <3>2. QED
            BY <3>1
    <2> HIDE DEF k
    <2>5. (CHOOSE m \in DOMAIN group : PushedPtr(m) = p) = k
        BY <1>2, <2>1, <2>3, <2>4
    <2>6. p \in PushedPtrs(group)
        BY <1>1, <1>8, <1>10
    <2>7. activeList'[p] = EntryOf(group, k)
        BY <1>3, <1>6, <2>5, <2>6
    <2>8. QED
        BY <1>7, <1>10, <2>7 DEF OpAt, k, n
<1>11. QED
    BY <1>9, <1>10

LEMMA PopEntries ==
    ASSUME RecoveryInv, PopFlushed, NEW i \in 0 .. al.count - PopTailNum - 1
    PROVE  OpAt(i)' = OpAt(i)
<1> DEFINE n == PopTailNum
           c == al.count
           h == al.head
<1>1. /\ h \in ALPtr /\ c \in Nat /\ c \in 0 .. ACTIVE_LIST_ENTRY_NUM
      /\ n \in 0 .. c /\ c - n \in 0 .. c /\ al'.head = h
      /\ PoppedPtrs = Region(h, c) \ Region(h, c - n)
    BY PopFacts
<1>2. activeList' = [p \in ALPtr |->
                         IF p \in PoppedPtrs THEN NoEntry ELSE activeList[p]]
    BY DEF PopFlushed
<1> HIDE DEF n
<1>3. /\ i \in ALPtr /\ i < c - n /\ i \in 0 .. ACTIVE_LIST_ENTRY_NUM
      /\ c - n \in 0 .. ACTIVE_LIST_ENTRY_NUM
    BY <1>1, ActiveListSizeAssumption DEF ActiveListSizeAssumption, ALPtr, n
<1>4. PtrAt(h, i) \in Region(h, c - n) /\ PtrAt(h, i) \in ALPtr
    BY <1>1, <1>3, PlaceInRegion, PtrAtRange
<1>5. activeList'[PtrAt(h, i)] = activeList[PtrAt(h, i)]
    BY <1>1, <1>2, <1>4
<1>6. QED
    BY <1>1, <1>5, HeadPtrIsPtrAt DEF OpAt

-----------------------------------------------------------------------------
(* The writers among the first places are a part of all writers. *)
LEMMA WritersBelow ==
    ASSUME NEW k \in Nat, NEW j \in 0 .. k, NEW l
    PROVE  /\ Below(WritersOf(k, l), j) = WritersOf(j, l)
           /\ Below(WritersOf(k, l)', j) = WritersOf(j, l)'
           /\ Below(FlagWriters(k), j) = FlagWriters(j)
           /\ Below(FlagWriters(k)', j) = FlagWriters(j)'
<1>1. \A i : i \in 0 .. j - 1 <=> i \in 0 .. k - 1 /\ i < j
    OBVIOUS
<1>2. QED
    BY <1>1 DEF WritersOf, FlagWriters, Below

LEMMA LaneWritersBelow ==
    ASSUME NEW group, NEW g \in Nat, NEW k \in 0 .. g, NEW l
    PROVE  /\ UpTo(LaneWriters(group, g + 1, l), k)
                  = LaneWriters(group, k + 1, l)
           /\ UpTo(LaneFlagWriters(group, g + 1), k)
                  = LaneFlagWriters(group, k + 1)
<1>1. \A j : j \in 1 .. (k + 1) - 1 <=> j \in 1 .. (g + 1) - 1 /\ j <= k
    OBVIOUS
<1>2. QED
    BY <1>1 DEF LaneWriters, LaneFlagWriters, UpTo

(* The maps after a cycle that renames and retires: what they were, n ops   *)
(* having retired, and in the group what the lanes read.                    *)
LEMMA OperateMaps ==
    ASSUME RecoveryInv, manager.phase # "RECOVER_0", committer.phase = "COMMIT",
           NEW group \in Groups, NEW w \in Writes, Operate(group, w),
           NEW l \in LReg, rmt[l] = MapAfter(al.count, l),
           NEW m \in 0 .. al.count + Len(group) - Decision.commitNum
    PROVE  LET n == Decision.commitNum
               c == al.count
           IN  /\ n + m <= c => MapAfter(m, l)' = MapAfter(n + m, l)
               /\ n + m >= c => MapAfter(m, l)' = RmtAtLane(group, n + m - c + 1)[l]
<1> DEFINE n == Decision.commitNum
           c == al.count
           g == Len(group)
<1>1. /\ c \in Nat /\ c \in 0 .. ACTIVE_LIST_ENTRY_NUM
      /\ g \in Nat /\ c + g \in 0 .. ACTIVE_LIST_ENTRY_NUM
      /\ n \in Nat /\ n \in 0 .. c
    BY OperateFacts
<1>2. \A i \in 0 .. c + g - n - 1 :
         OpAt(i)' = IF n + i < c THEN OpAt(n + i) ELSE EntryOf(group, n + i - c + 1)
    BY OperateEntries
<1>3. rrmt'[l] = MapAfter(n, l)
    BY DEF Operate, Retired, MapAfter
<1>m. m \in 0 .. c + g - n
    OBVIOUS
<1> HIDE DEF n, g
<1>n. PICK next \in Nat : next = c + g - n
    BY <1>1
<1> DEFINE W == WritersOf(c, l)
           X == WritersOf(next, l)'
           L == LaneWriters(group, g + 1, l)
<1>4. \A i \in 0 .. c - n - 1 :
         /\ i \in 0 .. next - 1 /\ n + i < c /\ i \in Nat
         /\ n + i \in Nat /\ n + i \in 0 .. c - 1
    BY <1>1, <1>n
<1>5. /\ W \subseteq 0 .. c - 1 /\ X \subseteq 0 .. next - 1 /\ L \subseteq 1 .. g
    <2>1. W \subseteq 0 .. c - 1
        BY DEF WritersOf
    <2>2. X \subseteq 0 .. next - 1
        BY DEF WritersOf
    <2>3. L \subseteq 1 .. (g + 1) - 1 /\ (g + 1) - 1 = g
        BY <1>1 DEF LaneWriters
    <2>4. QED
        BY <2>1, <2>2, <2>3
<1>6. /\ \A i \in 0 .. c - n - 1 : i \in X <=> n + i \in W
      /\ \A i \in 0 .. c - n - 1 : i \in X => DstOf'[i] = DstOf[n + i]
    <2>1. \A i \in 0 .. c - n - 1 : OpAt(i)' = OpAt(n + i)
        <3>1. ASSUME NEW i \in 0 .. c - n - 1
              PROVE  OpAt(i)' = OpAt(n + i)
            <4>1. i \in 0 .. c + g - n - 1 /\ n + i < c
                BY <1>1
            <4>2. QED
                BY <1>2, <4>1
        <3>2. QED
            BY <3>1
    <2>2. QED
        BY <1>4, <2>1 DEF WritersOf, DstOf
<1>7. /\ \A j \in 1 .. g : c - n + j - 1 \in X <=> j \in L
      /\ \A j \in 1 .. g : j \in L => DstOf'[c - n + j - 1] = LaneDst(group)[j]
    <2>1. ASSUME NEW j \in 1 .. g
          PROVE  /\ c - n + j - 1 \in X <=> j \in L
                 /\ j \in L => DstOf'[c - n + j - 1] = LaneDst(group)[j]
        <3>1. PICK i \in Nat : i = c - n + j - 1
            BY <1>1
        <3>2. /\ i \in 0 .. next - 1 /\ i \in 0 .. c + g - n - 1 /\ ~(n + i < c)
              /\ n + i - c + 1 = j /\ j \in 1 .. (g + 1) - 1 /\ j \in Nat
            <4>1. j \in Nat /\ 1 <= j /\ j <= g /\ i \in Nat
                BY <1>1, <3>1
            <4>2. i < c + g - n /\ n + i >= c /\ n + i - c + 1 = j
                <5>1. c \in Int /\ n \in Int /\ g \in Int /\ i \in Int /\ j \in Int
                    BY <1>1, <3>1, <4>1
                <5>2. QED
                    BY <3>1, <4>1, <5>1
            <4>3. QED
                BY <1>1, <1>n, <4>1, <4>2
        <3>3. OpAt(i)' = EntryOf(group, j)
            BY <1>2, <3>2
        <3>4. i \in X <=> group[j].writeReg /\ group[j].log = l
            BY <3>2, <3>3 DEF WritersOf, EntryOf
        <3>5. j \in L <=> group[j].writeReg /\ group[j].log = l
            BY <3>2 DEF LaneWriters
        <3>6. j \in L => DstOf'[i] = LaneDst(group)[j]
            <4>1. ASSUME j \in L
                  PROVE  DstOf'[i] = LaneDst(group)[j]
                <5>1. OpAt(i)'.phyDst = AllocatedGpr(group, j)
                    BY <3>3, <3>5, <4>1 DEF EntryOf
                <5>2. QED
                    BY <3>2, <5>1 DEF DstOf, LaneDst
            <4>2. QED
                BY <4>1
        <3>7. QED
            BY <3>1, <3>4, <3>5, <3>6
    <2>2. QED
        BY <2>1
<1>8. LET base == Last(Below(W, n), DstOf, rrmt[l])
      IN  /\ \A k \in 0 .. c - n : Last(Below(X, k), DstOf', base)
                                    = Last(Below(W, n + k), DstOf, rrmt[l])
          /\ \A k \in 0 .. g : Last(Below(X, c - n + k), DstOf', base)
                 = Last(UpTo(L, k), LaneDst(group), Last(W, DstOf, rrmt[l]))
    <2> HIDE DEF W, X, L
    <2>1. IsCycle(c, n, g, W, L, X, DstOf, LaneDst(group), DstOf')
        BY <1>1, <1>n, <1>5, <1>6, <1>7 DEF IsCycle
    <2> DEFINE vals == DstOf
               valsNext == DstOf'
               lanes == LaneDst(group)
               init == rrmt[l]
    <2>2. IsCycle(c, n, g, W, L, X, vals, lanes, valsNext)
        BY <2>1
    <2> HIDE DEF vals, valsNext, lanes, init
    <2>3. LET base == Last(Below(W, n), vals, init)
          IN  /\ \A k \in 0 .. c - n : Last(Below(X, k), valsNext, base)
                                        = Last(Below(W, n + k), vals, init)
              /\ \A k \in 0 .. g : Last(Below(X, c - n + k), valsNext, base)
                     = Last(UpTo(L, k), lanes, Last(W, vals, init))
        BY <2>2, LastAfterCycle
    <2>4. QED
        BY <2>3 DEF vals, valsNext, lanes, init
<1>9. ASSUME NEW k \in 0 .. c
      PROVE  MapAfter(k, l) = Last(Below(W, k), DstOf, rrmt[l])
    <2>1. k \in 0 .. ACTIVE_LIST_ENTRY_NUM
        BY <1>1, ActiveListSizeAssumption DEF ActiveListSizeAssumption
    <2>2. Below(W, k) = WritersOf(k, l)
        BY <1>1, WritersBelow
    <2>3. QED
        BY <2>1, <2>2, MapAfterIsLast
<1>10. MapAfter(m, l)' = Last(Below(X, m), DstOf', rrmt'[l])
    <2>1. m \in 0 .. ACTIVE_LIST_ENTRY_NUM /\ m \in 0 .. next
        BY <1>1, <1>m, <1>n, ActiveListSizeAssumption DEF ActiveListSizeAssumption
    <2>2. Below(WritersOf(next, l)', m) = WritersOf(m, l)'
        BY <2>1, WritersBelow
    <2>3. QED
        BY <2>1, <2>2, MapAfterIsLast
<1>11. rrmt'[l] = Last(Below(W, n), DstOf, rrmt[l])
    BY <1>1, <1>3, <1>9
<1>12. rmt[l] = Last(W, DstOf, rrmt[l])
    BY <1>1, MapAfterIsLast
<1>13. ASSUME n + m <= c
       PROVE  MapAfter(m, l)' = MapAfter(n + m, l)
    <2>1. PICK k \in 0 .. c : k = n + m
        BY <1>1, <1>m, <1>13
    <2>2. m \in 0 .. c - n
        BY <1>1, <1>m, <1>13
    <2>3. Last(Below(X, m), DstOf', rrmt'[l]) = Last(Below(W, k), DstOf, rrmt[l])
        BY <1>8, <1>11, <2>1, <2>2
    <2> HIDE DEF W, X
    <2>4. QED
        BY <1>9, <1>10, <2>1, <2>3
<1>14. ASSUME n + m >= c
       PROVE  MapAfter(m, l)' = RmtAtLane(group, n + m - c + 1)[l]
    <2>1. PICK k \in 0 .. g : k = n + m - c
        BY <1>1, <1>m, <1>14
    <2>2. PICK lane \in Nat : lane = k + 1
        BY <1>1, <2>1
    <2>3. c - n + k = m /\ n + m - c + 1 = lane
        BY <1>1, <1>m, <2>1, <2>2
    <2>4. Last(Below(X, m), DstOf', rrmt'[l])
             = Last(UpTo(L, k), LaneDst(group), rmt[l])
        <3> HIDE DEF W, X, L
        <3> QED BY <1>8, <1>11, <1>12, <2>3
    <2>5. UpTo(L, k) = LaneWriters(group, lane, l)
        <3>1. UpTo(LaneWriters(group, g + 1, l), k) = LaneWriters(group, k + 1, l)
            BY <1>1, LaneWritersBelow
        <3>2. QED
            BY <2>2, <3>1
    <2>6. RmtAtLane(group, lane)[l] = Last(LaneWriters(group, lane, l), LaneDst(group), rmt[l])
        BY RmtAtLaneIsLast
    <2> HIDE DEF W, X, L
    <2>7. QED
        BY <1>10, <2>3, <2>4, <2>5, <2>6
<1>15. QED
    BY <1>13, <1>14 DEF n

(* The same of the flags map. *)
LEMMA OperateFlagMaps ==
    ASSUME RecoveryInv, manager.phase # "RECOVER_0", committer.phase = "COMMIT",
           NEW group \in Groups, NEW w \in Writes, Operate(group, w),
           flagsPhyReg = FlagsAfter(al.count),
           NEW m \in 0 .. al.count + Len(group) - Decision.commitNum
    PROVE  LET n == Decision.commitNum
               c == al.count
           IN  /\ n + m <= c => FlagsAfter(m)' = FlagsAfter(n + m)
               /\ n + m >= c => FlagsAfter(m)' = FlagsAtLane(group, n + m - c + 1)
<1> DEFINE n == Decision.commitNum
           c == al.count
           g == Len(group)
<1>1. /\ c \in Nat /\ c \in 0 .. ACTIVE_LIST_ENTRY_NUM
      /\ g \in Nat /\ c + g \in 0 .. ACTIVE_LIST_ENTRY_NUM
      /\ n \in Nat /\ n \in 0 .. c
    BY OperateFacts
<1>2. \A i \in 0 .. c + g - n - 1 :
         OpAt(i)' = IF n + i < c THEN OpAt(n + i) ELSE EntryOf(group, n + i - c + 1)
    BY OperateEntries
<1>3. archFlags' = FlagsAfter(n)
    BY DEF Operate, RetiredFlags, FlagsAfter
<1>m. m \in 0 .. c + g - n
    OBVIOUS
<1> HIDE DEF n, g
<1>n. PICK next \in Nat : next = c + g - n
    BY <1>1
<1> DEFINE W == FlagWriters(c)
           X == FlagWriters(next)'
           L == LaneFlagWriters(group, g + 1)
<1>4. \A i \in 0 .. c - n - 1 :
         /\ i \in 0 .. next - 1 /\ n + i < c /\ i \in Nat
         /\ n + i \in Nat /\ n + i \in 0 .. c - 1
    BY <1>1, <1>n
<1>5. /\ W \subseteq 0 .. c - 1 /\ X \subseteq 0 .. next - 1 /\ L \subseteq 1 .. g
    <2>1. W \subseteq 0 .. c - 1
        BY DEF FlagWriters
    <2>2. X \subseteq 0 .. next - 1
        BY DEF FlagWriters
    <2>3. L \subseteq 1 .. (g + 1) - 1 /\ (g + 1) - 1 = g
        BY <1>1 DEF LaneFlagWriters
    <2>4. QED
        BY <2>1, <2>2, <2>3
<1>6. /\ \A i \in 0 .. c - n - 1 : i \in X <=> n + i \in W
      /\ \A i \in 0 .. c - n - 1 : i \in X => DstFlagsOf'[i] = DstFlagsOf[n + i]
    <2>1. \A i \in 0 .. c - n - 1 : OpAt(i)' = OpAt(n + i)
        <3>1. ASSUME NEW i \in 0 .. c - n - 1
              PROVE  OpAt(i)' = OpAt(n + i)
            <4>1. i \in 0 .. c + g - n - 1 /\ n + i < c
                BY <1>1
            <4>2. QED
                BY <1>2, <4>1
        <3>2. QED
            BY <3>1
    <2>2. QED
        BY <1>4, <2>1 DEF FlagWriters, DstFlagsOf
<1>7. /\ \A j \in 1 .. g : c - n + j - 1 \in X <=> j \in L
      /\ \A j \in 1 .. g : j \in L => DstFlagsOf'[c - n + j - 1] = LaneDstFlags(group)[j]
    <2>1. ASSUME NEW j \in 1 .. g
          PROVE  /\ c - n + j - 1 \in X <=> j \in L
                 /\ j \in L => DstFlagsOf'[c - n + j - 1] = LaneDstFlags(group)[j]
        <3>1. PICK i \in Nat : i = c - n + j - 1
            BY <1>1
        <3>2. /\ i \in 0 .. next - 1 /\ i \in 0 .. c + g - n - 1 /\ ~(n + i < c)
              /\ n + i - c + 1 = j /\ j \in 1 .. (g + 1) - 1 /\ j \in Nat
            <4>1. j \in Nat /\ 1 <= j /\ j <= g /\ i \in Nat
                BY <1>1, <3>1
            <4>2. i < c + g - n /\ n + i >= c /\ n + i - c + 1 = j
                <5>1. c \in Int /\ n \in Int /\ g \in Int /\ i \in Int /\ j \in Int
                    BY <1>1, <3>1, <4>1
                <5>2. QED
                    BY <3>1, <4>1, <5>1
            <4>3. ~(n + i < c) /\ n + i - c + 1 = j /\ i \in 0 .. c + g - n - 1
                BY <1>1, <4>1, <4>2
            <4>4. i \in 0 .. next - 1
                BY <1>1, <1>n, <4>1, <4>2
            <4>5. j \in 1 .. (g + 1) - 1
                BY <1>1, <4>1
            <4>6. QED
                BY <4>1, <4>3, <4>4, <4>5
        <3>3. OpAt(i)' = EntryOf(group, j)
            BY <1>2, <3>2
        <3>4. i \in X <=> group[j].writeFlags
            BY <3>2, <3>3 DEF FlagWriters, EntryOf
        <3>5. j \in L <=> group[j].writeFlags
            BY <3>2 DEF LaneFlagWriters
        <3>6. j \in L => DstFlagsOf'[i] = LaneDstFlags(group)[j]
            <4>1. ASSUME j \in L
                  PROVE  DstFlagsOf'[i] = LaneDstFlags(group)[j]
                <5>1. OpAt(i)'.phyDstFlags = AllocatedFlag(group, j)
                    BY <3>3, <3>5, <4>1 DEF EntryOf
                <5>2. QED
                    BY <3>2, <5>1 DEF DstFlagsOf, LaneDstFlags
            <4>2. QED
                BY <4>1
        <3>7. QED
            BY <3>1, <3>4, <3>5, <3>6
    <2>2. QED
        BY <2>1
<1>8. LET base == Last(Below(W, n), DstFlagsOf, archFlags)
      IN  /\ \A k \in 0 .. c - n : Last(Below(X, k), DstFlagsOf', base)
                                    = Last(Below(W, n + k), DstFlagsOf, archFlags)
          /\ \A k \in 0 .. g : Last(Below(X, c - n + k), DstFlagsOf', base)
                 = Last(UpTo(L, k), LaneDstFlags(group), Last(W, DstFlagsOf, archFlags))
    <2> HIDE DEF W, X, L
    <2>1. IsCycle(c, n, g, W, L, X, DstFlagsOf, LaneDstFlags(group), DstFlagsOf')
        BY <1>1, <1>n, <1>5, <1>6, <1>7 DEF IsCycle
    <2> DEFINE vals == DstFlagsOf
               valsNext == DstFlagsOf'
               lanes == LaneDstFlags(group)
               init == archFlags
    <2>2. IsCycle(c, n, g, W, L, X, vals, lanes, valsNext)
        BY <2>1
    <2> HIDE DEF vals, valsNext, lanes, init
    <2>3. LET base == Last(Below(W, n), vals, init)
          IN  /\ \A k \in 0 .. c - n : Last(Below(X, k), valsNext, base)
                                        = Last(Below(W, n + k), vals, init)
              /\ \A k \in 0 .. g : Last(Below(X, c - n + k), valsNext, base)
                     = Last(UpTo(L, k), lanes, Last(W, vals, init))
        BY <2>2, LastAfterCycle
    <2>4. QED
        BY <2>3 DEF vals, valsNext, lanes, init
<1>9. ASSUME NEW k \in 0 .. c
      PROVE  FlagsAfter(k) = Last(Below(W, k), DstFlagsOf, archFlags)
    <2>1. k \in 0 .. ACTIVE_LIST_ENTRY_NUM
        BY <1>1, ActiveListSizeAssumption DEF ActiveListSizeAssumption
    <2>2. Below(W, k) = FlagWriters(k)
        BY <1>1, WritersBelow
    <2>3. QED
        BY <2>1, <2>2, FlagsAfterIsLast
<1>10. FlagsAfter(m)' = Last(Below(X, m), DstFlagsOf', archFlags')
    <2>1. m \in 0 .. ACTIVE_LIST_ENTRY_NUM /\ m \in 0 .. next
        BY <1>1, <1>m, <1>n, ActiveListSizeAssumption DEF ActiveListSizeAssumption
    <2>2. Below(FlagWriters(next)', m) = FlagWriters(m)'
        BY <2>1, WritersBelow
    <2>3. QED
        BY <2>1, <2>2, FlagsAfterIsLast
<1>11. archFlags' = Last(Below(W, n), DstFlagsOf, archFlags)
    BY <1>1, <1>3, <1>9
<1>12. flagsPhyReg = Last(W, DstFlagsOf, archFlags)
    BY <1>1, FlagsAfterIsLast
<1>13. ASSUME n + m <= c
       PROVE  FlagsAfter(m)' = FlagsAfter(n + m)
    <2>1. PICK k \in 0 .. c : k = n + m
        BY <1>1, <1>m, <1>13
    <2>2. m \in 0 .. c - n
        BY <1>1, <1>m, <1>13
    <2>3. Last(Below(X, m), DstFlagsOf', archFlags') = Last(Below(W, k), DstFlagsOf, archFlags)
        BY <1>8, <1>11, <2>1, <2>2
    <2> HIDE DEF W, X
    <2>4. QED
        BY <1>9, <1>10, <2>1, <2>3
<1>14. ASSUME n + m >= c
       PROVE  FlagsAfter(m)' = FlagsAtLane(group, n + m - c + 1)
    <2>1. PICK k \in 0 .. g : k = n + m - c
        BY <1>1, <1>m, <1>14
    <2>2. PICK lane \in Nat : lane = k + 1
        BY <1>1, <2>1
    <2>3. c - n + k = m /\ n + m - c + 1 = lane
        BY <1>1, <1>m, <2>1, <2>2
    <2>4. Last(Below(X, m), DstFlagsOf', archFlags')
             = Last(UpTo(L, k), LaneDstFlags(group), flagsPhyReg)
        <3> HIDE DEF W, X, L
        <3> QED BY <1>8, <1>11, <1>12, <2>3
    <2>5. UpTo(L, k) = LaneFlagWriters(group, lane)
        <3>1. UpTo(LaneFlagWriters(group, g + 1), k) = LaneFlagWriters(group, k + 1)
            BY <1>1, LaneWritersBelow
        <3>2. QED
            BY <2>2, <3>1
    <2>6. FlagsAtLane(group, lane) = Last(LaneFlagWriters(group, lane), LaneDstFlags(group), flagsPhyReg)
        BY FlagsAtLaneIsLast
    <2> HIDE DEF W, X, L
    <2>7. QED
        BY <1>10, <2>3, <2>4, <2>5, <2>6
<1>15. QED
    BY <1>13, <1>14 DEF n

-----------------------------------------------------------------------------
(* The ops of a group name logical registers. *)
LEMMA GroupLogs ==
    ASSUME ListInv, NEW group \in Groups, NEW i \in 1 .. Len(group)
    PROVE  group[i].log \in LReg
<1>1. CASE group = <<>>
    BY <1>1
<1>2. CASE group # <<>>
    <2>1. PICK n \in 0 .. RENAME_WIDTH : group \in [1 .. n -> Ops]
        BY <1>2 DEF Groups
    <2>2. i \in 1 .. n
        BY <2>1, CoreAssumption DEF CoreAssumption
    <2>3. group[i] \in [log : LReg, writeReg : BOOLEAN, writeFlags : BOOLEAN]
        BY <2>1, <2>2, CoreAssumption DEF CoreAssumption
    <2>4. QED
        BY <2>3
<1>3. QED
    BY <1>1, <1>2

(* The invariant in terms of the places of the window *)
LEMMA MapsInvIs ==
    /\ MapsInv <=>
         /\ \A l \in LReg : rmt[l] = MapAfter(al.count, l)
         /\ flagsPhyReg = FlagsAfter(al.count)
         /\ \A i \in 0 .. al.count - 1 :
               /\ OpAt(i).log \in LReg
               /\ OpAt(i).phyPrevDst = MapAfter(i, OpAt(i).log)
               /\ OpAt(i).writeFlags => OpAt(i).phyPrevDstFlags = FlagsAfter(i)
    /\ \A c : c = al'.count =>
        (MapsInv' <=>
         /\ \A l \in LReg : rmt'[l] = MapAfter(c, l)'
         /\ flagsPhyReg' = FlagsAfter(c)'
         /\ \A i \in 0 .. c - 1 : \E e :
               /\ e = OpAt(i)'
               /\ e.log \in LReg
               /\ e.phyPrevDst = MapAfter(i, e.log)'
               /\ e.writeFlags => e.phyPrevDstFlags = FlagsAfter(i)')
<1>1. QED
    BY DEF MapsInv, RmtFollowsProgramOrder, FlagsMapFollowsProgramOrder, LogInv, OpAt

(* Retiring moves the oldest writers into the retirement RMT, the group    *)
(* reads its previous mappings where program order puts them.              *)
LEMMA OperateKeepsMaps ==
    ASSUME RecoveryInv, MapsInv, manager.phase # "RECOVER_0",
           committer.phase = "COMMIT",
           NEW group \in Groups, NEW w \in Writes, Operate(group, w)
    PROVE  MapsInv'
<1> DEFINE n == Decision.commitNum
           c == al.count
           g == Len(group)
<1>1. /\ c \in Nat /\ g \in Nat /\ n \in Nat /\ n \in 0 .. c
    BY OperateFacts
<1>2. \A i \in 0 .. c + g - n - 1 :
         OpAt(i)' = IF n + i < c THEN OpAt(n + i) ELSE EntryOf(group, n + i - c + 1)
    BY OperateEntries
<1>3. \A l \in LReg : rmt[l] = MapAfter(c, l)
    BY MapsInvIs
<1>4. \A l \in LReg : \A m \in 0 .. c + g - n :
         /\ n + m <= c => MapAfter(m, l)' = MapAfter(n + m, l)
         /\ n + m >= c => MapAfter(m, l)' = RmtAtLane(group, n + m - c + 1)[l]
    BY <1>3, OperateMaps
<1>5. \A m \in 0 .. c + g - n :
         /\ n + m <= c => FlagsAfter(m)' = FlagsAfter(n + m)
         /\ n + m >= c => FlagsAfter(m)' = FlagsAtLane(group, n + m - c + 1)
    BY MapsInvIs, OperateFlagMaps
<1>6. al'.count = c + g - n
    BY DEF Operate
<1>7. /\ \A l \in LReg : rmt'[l] = RmtAtLane(group, g + 1)[l]
      /\ flagsPhyReg' = FlagsAtLane(group, g + 1)
    BY DEF Operate, Rename
<1>8. \A i \in 1 .. g : group[i].log \in LReg
    BY GroupLogs DEF RecoveryInv
<1> HIDE DEF n, g
<1>9. PICK next \in Nat : next = c + g - n
    BY <1>1
<1>10. /\ next \in 0 .. c + g - n /\ n + next >= c /\ n + next - c + 1 = g + 1
       /\ al'.count = next
    BY <1>1, <1>6, <1>9
<1>11. /\ \A l \in LReg : rmt'[l] = MapAfter(next, l)'
       /\ flagsPhyReg' = FlagsAfter(next)'
    BY <1>4, <1>5, <1>7, <1>10
<1>12. ASSUME NEW i \in 0 .. next - 1
       PROVE  \E e : /\ e = OpAt(i)'
                     /\ e.log \in LReg
                     /\ e.phyPrevDst = MapAfter(i, e.log)'
                     /\ e.writeFlags => e.phyPrevDstFlags = FlagsAfter(i)'
    <2>1. i \in 0 .. c + g - n - 1 /\ i \in 0 .. c + g - n /\ i \in Nat
        BY <1>1, <1>9
    <2>2. CASE n + i < c
        <3>1. PICK j \in Nat : j = n + i
            BY <1>1, <2>1
        <3>2. j \in 0 .. c - 1 /\ n + i <= c
            BY <1>1, <2>1, <2>2, <3>1
        <3>3. OpAt(i)' = OpAt(j)
            BY <1>2, <2>1, <2>2, <3>1
        <3>4. PICK e : e = OpAt(j)
            OBVIOUS
        <3>5. /\ e.log \in LReg /\ e.phyPrevDst = MapAfter(j, e.log)
              /\ e.writeFlags => e.phyPrevDstFlags = FlagsAfter(j)
            BY <3>2, <3>4, MapsInvIs
        <3>6. PICK l \in LReg : l = e.log
            BY <3>5
        <3>7. MapAfter(i, l)' = MapAfter(j, l) /\ FlagsAfter(i)' = FlagsAfter(j)
            BY <1>4, <1>5, <2>1, <3>1, <3>2
        <3>8. e = OpAt(i)' /\ e.phyPrevDst = MapAfter(i, e.log)'
            BY <3>3, <3>4, <3>5, <3>6, <3>7
        <3>9. QED
            BY <3>5, <3>7, <3>8
    <2>3. CASE ~(n + i < c)
        <3>1. PICK k \in Nat : k = n + i - c + 1
            BY <1>1, <2>1, <2>3
        <3>2. k \in 1 .. g /\ n + i >= c
            BY <1>1, <2>1, <2>3, <3>1
        <3>3. OpAt(i)' = EntryOf(group, k)
            BY <1>2, <2>1, <2>3, <3>1
        <3>4. PICK l \in LReg : l = group[k].log
            BY <1>8, <3>2
        <3>5. MapAfter(i, l)' = RmtAtLane(group, k)[l] /\ FlagsAfter(i)' = FlagsAtLane(group, k)
            BY <1>4, <1>5, <2>1, <3>1, <3>2
        <3>6. PICK e : e = EntryOf(group, k)
            OBVIOUS
        <3>7. /\ e.log = l /\ e.phyPrevDst = RmtAtLane(group, k)[l]
              /\ e.writeFlags => e.phyPrevDstFlags = FlagsAtLane(group, k)
            BY <3>4, <3>6 DEF EntryOf
        <3>8. e = OpAt(i)' /\ e.phyPrevDst = MapAfter(i, e.log)'
            BY <3>3, <3>5, <3>6, <3>7
        <3>9. QED
            BY <3>4, <3>5, <3>7, <3>8
    <2>4. QED
        BY <2>2, <2>3
<1>13. QED
    BY <1>10, <1>11, <1>12, MapsInvIs

(* Where nothing between two places writes a register the maps after them   *)
(* are the same.                                                            *)
LEMMA NoWriterBetween ==
    ASSUME NEW k \in 0 .. ACTIVE_LIST_ENTRY_NUM, NEW j \in 0 .. k
    PROVE  /\ \A l : (\A i \in j .. k - 1 : ~(OpAt(i).writeReg /\ OpAt(i).log = l))
                         => MapAfter(k, l) = MapAfter(j, l)
           /\ (\A i \in j .. k - 1 : ~OpAt(i).writeFlags)
                         => FlagsAfter(k) = FlagsAfter(j)
<1>1. /\ \A i \in 0 .. k - 1 : i \in 0 .. j - 1 \/ i \in j .. k - 1
      /\ \A i \in 0 .. j - 1 : i \in 0 .. k - 1
      /\ j \in 0 .. ACTIVE_LIST_ENTRY_NUM
    BY ActiveListSizeAssumption DEF ActiveListSizeAssumption
<1>2. ASSUME NEW l, \A i \in j .. k - 1 : ~(OpAt(i).writeReg /\ OpAt(i).log = l)
      PROVE  MapAfter(k, l) = MapAfter(j, l)
    <2>1. WritersOf(k, l) = WritersOf(j, l)
        BY <1>1, <1>2 DEF WritersOf
    <2>2. QED
        BY <1>1, <2>1, MapAfterIsLast
<1>3. ASSUME \A i \in j .. k - 1 : ~OpAt(i).writeFlags
      PROVE  FlagsAfter(k) = FlagsAfter(j)
    <2>1. FlagWriters(k) = FlagWriters(j)
        BY <1>1, <1>3 DEF FlagWriters
    <2>2. QED
        BY <1>1, <2>1, FlagsAfterIsLast
<1>4. QED
    BY <1>2, <1>3

(* The maps of the ops that a cycle leaves where they are *)
LEMMA SameMaps ==
    ASSUME NEW k \in 0 .. ACTIVE_LIST_ENTRY_NUM, rrmt' = rrmt, archFlags' = archFlags,
           \A i \in 0 .. k - 1 : OpAt(i)' = OpAt(i),
           NEW j \in 0 .. k
    PROVE  /\ \A l : MapAfter(j, l)' = MapAfter(j, l)
           /\ FlagsAfter(j)' = FlagsAfter(j)
<1>1. /\ \A i \in 0 .. j - 1 : i \in 0 .. k - 1 /\ i \in Nat
      /\ j \in 0 .. ACTIVE_LIST_ENTRY_NUM
    BY ActiveListSizeAssumption DEF ActiveListSizeAssumption
<1>2. ASSUME NEW l
      PROVE  MapAfter(j, l)' = MapAfter(j, l)
    <2>1. WritersOf(j, l)' = WritersOf(j, l)
        BY <1>1 DEF WritersOf
    <2>2. WritersOf(j, l) # {} => MaxOf(WritersOf(j, l)) \in WritersOf(j, l)
        <3>1. \A i \in 0 .. j - 1 : i \in 0 .. j
            BY <1>1
        <3>2. WritersOf(j, l) \in SUBSET (0 .. j) /\ j \in Nat
            BY <1>1, <3>1, ActiveListSizeAssumption
            DEF WritersOf, ActiveListSizeAssumption
        <3>3. QED
            BY <3>2, MaxOfFacts
    <2>3. WritersOf(j, l) # {} =>
             DstOf'[MaxOf(WritersOf(j, l))] = DstOf[MaxOf(WritersOf(j, l))]
        <3>1. \A i \in WritersOf(j, l) : i \in Nat /\ OpAt(i)' = OpAt(i)
            BY <1>1 DEF WritersOf
        <3>2. QED
            BY <2>2, <3>1 DEF DstOf
    <2>4. QED
        BY <1>1, <2>1, <2>3, MapAfterIsLast DEF Last
<1>3. FlagsAfter(j)' = FlagsAfter(j)
    <2>1. FlagWriters(j)' = FlagWriters(j)
        BY <1>1 DEF FlagWriters
    <2>2. FlagWriters(j) # {} => MaxOf(FlagWriters(j)) \in FlagWriters(j)
        <3>1. \A i \in 0 .. j - 1 : i \in 0 .. j
            BY <1>1
        <3>2. FlagWriters(j) \in SUBSET (0 .. j) /\ j \in Nat
            BY <1>1, <3>1, ActiveListSizeAssumption
            DEF FlagWriters, ActiveListSizeAssumption
        <3>3. QED
            BY <3>2, MaxOfFacts
    <2>3. FlagWriters(j) # {} =>
             DstFlagsOf'[MaxOf(FlagWriters(j))] = DstFlagsOf[MaxOf(FlagWriters(j))]
        <3>1. \A i \in FlagWriters(j) : i \in Nat /\ OpAt(i)' = OpAt(i)
            BY <1>1 DEF FlagWriters
        <3>2. QED
            BY <2>2, <3>1 DEF DstFlagsOf
    <2>4. QED
        BY <1>1, <2>1, <2>3, FlagsAfterIsLast DEF Last
<1>4. QED
    BY <1>2, <1>3

(* The oldest popped op of a register holds the mapping from before all    *)
(* popped ones.  It is found among all of them, whether they write it or   *)
(* not: one that does not write it holds the mapping it found.             *)
LEMMA PopKeepsMaps ==
    ASSUME RecoveryInv, MapsInv, PopFlushed
    PROVE  MapsInv'
<1> DEFINE n == PopTailNum
           c == al.count
           h == al.head
<1>1. /\ h \in ALPtr /\ c \in Nat /\ c \in 0 .. ACTIVE_LIST_ENTRY_NUM
      /\ n \in 0 .. c /\ c - n \in 0 .. c /\ al'.count = c - n
      /\ \A i \in 0 .. n - 1 : TailPtr(i) = PtrAt(h, c - 1 - i)
    BY PopFacts
<1>2. \A i \in 0 .. c - n - 1 : OpAt(i)' = OpAt(i)
    BY PopEntries
<1>3. \A i \in 0 .. n - 1 : activeList[TailPtr(i)] = OpAt(c - 1 - i)
    BY <1>1, HeadPtrIsPtrAt DEF OpAt
<1>4. /\ rrmt' = rrmt /\ archFlags' = archFlags
      /\ rmt' = RestoredRmt /\ flagsPhyReg' = RestoredFlags
    BY DEF PopFlushed
<1> DEFINE Popped(l) == {i \in 0 .. n - 1 : OpAt(c - 1 - i).log = l}
           PoppedFlags == {i \in 0 .. n - 1 : OpAt(c - 1 - i).writeFlags}
<1>5. /\ \A l \in LReg : rmt'[l] =
              IF Popped(l) = {} THEN rmt[l]
              ELSE activeList[TailPtr(MaxOf(Popped(l)))].phyPrevDst
      /\ flagsPhyReg' = IF PoppedFlags = {} THEN flagsPhyReg
              ELSE activeList[TailPtr(MaxOf(PoppedFlags))].phyPrevDstFlags
    <2>1. /\ \A l : Popped(l) = {i \in 0 .. n - 1 : activeList[TailPtr(i)].log = l}
          /\ PoppedFlags = {i \in 0 .. n - 1 : activeList[TailPtr(i)].writeFlags}
        BY <1>3
    <2> HIDE DEF Popped, PoppedFlags
    <2>2. QED
        BY <1>4, <2>1 DEF RestoredRmt, RestoredFlags, n
<1> HIDE DEF n
<1>6. PICK kept \in 0 .. c : kept = c - n
    BY <1>1
<1>7. /\ kept \in 0 .. ACTIVE_LIST_ENTRY_NUM /\ kept \in Nat /\ n \in Nat /\ n = c - kept
      /\ \A i \in 0 .. n - 1 : i \in 0 .. n /\ c - 1 - i \in 0 .. c - 1
      /\ \A p \in kept .. c - 1 : c - 1 - p \in 0 .. n - 1 /\ c - 1 - (c - 1 - p) = p
    BY <1>1, <1>6, ActiveListSizeAssumption DEF ActiveListSizeAssumption
<1>8. ASSUME NEW S \in SUBSET (0 .. n - 1), S # {}
      PROVE  \E j \in 0 .. c - 1 :
                /\ c - 1 - j = MaxOf(S) /\ MaxOf(S) \in S
                /\ activeList[TailPtr(MaxOf(S))] = OpAt(j)
                /\ kept \in 0 .. j /\ j \in 0 .. ACTIVE_LIST_ENTRY_NUM
                /\ \A p \in kept .. j - 1 :
                      c - 1 - p \in 0 .. n - 1 /\ c - 1 - (c - 1 - p) = p
                      /\ c - 1 - p \notin S
    <2>1. PICK m : m = MaxOf(S)
        OBVIOUS
    <2>2. m \in S /\ m \in 0 .. n - 1 /\ \A y \in S : y <= m
        <3>1. S \in SUBSET (0 .. n)
            BY <1>7
        <3>2. QED
            BY <1>7, <1>8, <2>1, <3>1, MaxOfFacts
    <2>3. PICK j \in 0 .. c - 1 : j = c - 1 - m
        BY <1>7, <2>2
    <2>4. c - 1 - j = m /\ kept \in 0 .. j /\ j \in 0 .. ACTIVE_LIST_ENTRY_NUM
        BY <1>1, <1>7, <2>2, <2>3, ActiveListSizeAssumption
        DEF ActiveListSizeAssumption
    <2>5. ASSUME NEW p \in kept .. j - 1
          PROVE  c - 1 - p \in 0 .. n - 1 /\ c - 1 - (c - 1 - p) = p
                 /\ c - 1 - p \notin S
        <3>1. p \in kept .. c - 1 /\ ~(c - 1 - p <= m)
            BY <1>1, <1>7, <2>2, <2>3
        <3>2. QED
            BY <1>7, <2>2, <3>1
    <2>6. activeList[TailPtr(m)] = OpAt(j)
        BY <1>3, <2>2, <2>3
    <2>7. QED
        BY <2>1, <2>2, <2>4, <2>5, <2>6
<1>9. ASSUME NEW l \in LReg
      PROVE  rmt'[l] = MapAfter(kept, l)
    <2>1. CASE Popped(l) = {}
        <3>1. \A p \in kept .. c - 1 : ~(OpAt(p).writeReg /\ OpAt(p).log = l)
            BY <1>7, <2>1
        <3>2. MapAfter(c, l) = MapAfter(kept, l)
            BY <1>1, <3>1, NoWriterBetween
        <3>3. QED
            BY <1>5, <2>1, <3>2, MapsInvIs
    <2>2. CASE Popped(l) # {}
        <3>1. PICK j \in 0 .. c - 1 :
                /\ c - 1 - j = MaxOf(Popped(l)) /\ MaxOf(Popped(l)) \in Popped(l)
                /\ activeList[TailPtr(MaxOf(Popped(l)))] = OpAt(j)
                /\ kept \in 0 .. j /\ j \in 0 .. ACTIVE_LIST_ENTRY_NUM
                /\ \A p \in kept .. j - 1 :
                      c - 1 - p \in 0 .. n - 1 /\ c - 1 - (c - 1 - p) = p
                      /\ c - 1 - p \notin Popped(l)
            BY <1>8, <2>2
        <3>2. OpAt(j).log = l
            <4>1. OpAt(c - 1 - (c - 1 - j)).log = l
                BY <3>1
            <4>2. c - 1 - (c - 1 - j) = j
                BY <1>1
            <4>3. QED
                BY <4>1, <4>2
        <3>3. \A p \in kept .. j - 1 : ~(OpAt(p).writeReg /\ OpAt(p).log = l)
            <4>1. ASSUME NEW p \in kept .. j - 1
                  PROVE  OpAt(p).log # l
                <5>1. OpAt(c - 1 - (c - 1 - p)).log # l
                    BY <3>1
                <5>2. QED
                    BY <3>1, <5>1
            <4>2. QED
                BY <4>1
        <3>4. MapAfter(j, l) = MapAfter(kept, l)
            BY <3>1, <3>3, NoWriterBetween
        <3>5. OpAt(j).phyPrevDst = MapAfter(j, l)
            BY <3>2, MapsInvIs
        <3>6. QED
            BY <1>5, <2>2, <3>1, <3>4, <3>5
    <2>3. QED
        BY <2>1, <2>2
<1>10. flagsPhyReg' = FlagsAfter(kept)
    <2>1. CASE PoppedFlags = {}
        <3>1. \A p \in kept .. c - 1 : ~OpAt(p).writeFlags
            BY <1>7, <2>1
        <3>2. FlagsAfter(c) = FlagsAfter(kept)
            BY <1>1, <3>1, NoWriterBetween
        <3>3. QED
            BY <1>5, <2>1, <3>2, MapsInvIs
    <2>2. CASE PoppedFlags # {}
        <3>1. PICK j \in 0 .. c - 1 :
                /\ c - 1 - j = MaxOf(PoppedFlags) /\ MaxOf(PoppedFlags) \in PoppedFlags
                /\ activeList[TailPtr(MaxOf(PoppedFlags))] = OpAt(j)
                /\ kept \in 0 .. j /\ j \in 0 .. ACTIVE_LIST_ENTRY_NUM
                /\ \A p \in kept .. j - 1 :
                      c - 1 - p \in 0 .. n - 1 /\ c - 1 - (c - 1 - p) = p
                      /\ c - 1 - p \notin PoppedFlags
            BY <1>8, <2>2
        <3>2. OpAt(j).writeFlags
            <4>1. OpAt(c - 1 - (c - 1 - j)).writeFlags
                BY <3>1
            <4>2. c - 1 - (c - 1 - j) = j
                BY <1>1
            <4>3. QED
                BY <4>1, <4>2
        <3>3. \A p \in kept .. j - 1 : ~OpAt(p).writeFlags
            <4>1. ASSUME NEW p \in kept .. j - 1
                  PROVE  ~OpAt(p).writeFlags
                <5>1. ~OpAt(c - 1 - (c - 1 - p)).writeFlags
                    BY <3>1
                <5>2. QED
                    BY <3>1, <5>1
            <4>2. QED
                BY <4>1
        <3>4. FlagsAfter(j) = FlagsAfter(kept)
            BY <3>1, <3>3, NoWriterBetween
        <3>5. OpAt(j).phyPrevDstFlags = FlagsAfter(j)
            BY <3>2, MapsInvIs
        <3>6. QED
            BY <1>5, <2>2, <3>1, <3>4, <3>5
    <2>3. QED
        BY <2>1, <2>2
<1>11. \A j \in 0 .. kept : /\ \A l : MapAfter(j, l)' = MapAfter(j, l)
                            /\ FlagsAfter(j)' = FlagsAfter(j)
    BY <1>2, <1>4, <1>6, <1>7, SameMaps
<1>12. ASSUME NEW i \in 0 .. kept - 1
       PROVE  \E e : /\ e = OpAt(i)'
                     /\ e.log \in LReg
                     /\ e.phyPrevDst = MapAfter(i, e.log)'
                     /\ e.writeFlags => e.phyPrevDstFlags = FlagsAfter(i)'
    <2>1. i \in 0 .. c - 1 /\ i \in 0 .. kept /\ OpAt(i)' = OpAt(i)
        BY <1>1, <1>2, <1>6
    <2>2. PICK e : e = OpAt(i)
        OBVIOUS
    <2>3. /\ e.log \in LReg /\ e.phyPrevDst = MapAfter(i, e.log)
          /\ e.writeFlags => e.phyPrevDstFlags = FlagsAfter(i)
        BY <2>1, <2>2, MapsInvIs
    <2>4. QED
        BY <1>11, <2>1, <2>2, <2>3
<1>13. /\ al'.count = kept
       /\ \A l \in LReg : rmt'[l] = MapAfter(kept, l)'
       /\ flagsPhyReg' = FlagsAfter(kept)'
    BY <1>1, <1>6, <1>7, <1>9, <1>10, <1>11
<1>14. QED
    BY <1>12, <1>13, MapsInvIs

(* No cycle of a recovery before its pops touches the maps or the list. *)
LEMMA FlushKeepsMaps ==
    ASSUME RecoveryInv, MapsInv, Rename(<<>>),
           UNCHANGED <<rrmt, archFlags, activeList, al>>
    PROVE  MapsInv'
<1>1. /\ \A l \in LReg : rmt'[l] = rmt[l]
      /\ flagsPhyReg' = flagsPhyReg
    <2>1. Len(<<>>) + 1 = 1 /\ 1 .. 1 - 1 = {}
        OBVIOUS
    <2>2. GprWritersBefore(<<>>, 1) = {} /\ FlagWritersBefore(<<>>, 1) = {}
        BY <2>1 DEF GprWritersBefore, FlagWritersBefore
    <2>3. rmt' = RmtAtLane(<<>>, 1) /\ flagsPhyReg' = FlagsAtLane(<<>>, 1)
        BY <2>1 DEF Rename
    <2>4. \A l \in LReg : RmtAtLane(<<>>, 1)[l] = rmt[l]
        BY <2>2 DEF RmtAtLane
    <2>5. FlagsAtLane(<<>>, 1) = flagsPhyReg
        BY <2>2 DEF FlagsAtLane
    <2>6. QED
        BY <2>3, <2>4, <2>5
<1>2. PICK c \in 0 .. ACTIVE_LIST_ENTRY_NUM : c = al.count
    BY DEF RecoveryInv, ListInv
<1>3. \A i : OpAt(i)' = OpAt(i)
    BY HeadPtrIsPtrAt DEF OpAt
<1>4. \A j \in 0 .. c : /\ \A l : MapAfter(j, l)' = MapAfter(j, l)
                        /\ FlagsAfter(j)' = FlagsAfter(j)
    BY <1>3, SameMaps
<1>5. c \in 0 .. c /\ \A i \in 0 .. c - 1 : i \in 0 .. c
    BY ActiveListSizeAssumption DEF ActiveListSizeAssumption
<1>6. ASSUME NEW i \in 0 .. c - 1
      PROVE  \E e : /\ e = OpAt(i)'
                    /\ e.log \in LReg
                    /\ e.phyPrevDst = MapAfter(i, e.log)'
                    /\ e.writeFlags => e.phyPrevDstFlags = FlagsAfter(i)'
    <2>1. PICK e : e = OpAt(i)
        OBVIOUS
    <2>2. /\ e.log \in LReg /\ e.phyPrevDst = MapAfter(i, e.log)
          /\ e.writeFlags => e.phyPrevDstFlags = FlagsAfter(i)
        BY <1>2, <2>1, MapsInvIs
    <2>3. QED
        BY <1>3, <1>4, <1>5, <2>1, <2>2
<1>7. /\ al'.count = c
      /\ \A l \in LReg : rmt'[l] = MapAfter(c, l)'
      /\ flagsPhyReg' = FlagsAfter(c)'
    BY <1>1, <1>2, <1>4, <1>5, MapsInvIs
<1>8. QED
    BY <1>6, <1>7, MapsInvIs

LEMMA StutterKeepsMaps ==
    ASSUME RecoveryInv, MapsInv, UNCHANGED vars
    PROVE  MapsInv'
<1>1. /\ rmt' = rmt /\ flagsPhyReg' = flagsPhyReg /\ rrmt' = rrmt
      /\ archFlags' = archFlags /\ activeList' = activeList /\ al' = al
    BY DEF vars
<1>2. QED
    BY <1>1
    DEF MapsInv, RmtFollowsProgramOrder, FlagsMapFollowsProgramOrder, LogInv,
        MapAfter, FlagsAfter, OpAt, HeadPtr

LEMMA InitMaps == Init => MapsInv
<1> SUFFICES ASSUME Init
             PROVE  MapsInv
    OBVIOUS
<1>1. /\ al.count = 0 /\ rmt = rrmt /\ flagsPhyReg = archFlags
      /\ 0 .. 0 - 1 = {} /\ 0 \in 0 .. ACTIVE_LIST_ENTRY_NUM
    BY ActiveListSizeAssumption DEF ActiveListSizeAssumption, Init
<1>2. /\ \A l : WritersOf(0, l) = {}
      /\ FlagWriters(0) = {}
    BY <1>1 DEF WritersOf, FlagWriters
<1>3. (\A l : MapAfter(0, l) = rrmt[l]) /\ FlagsAfter(0) = archFlags
    BY <1>1, <1>2, MapAfterIsLast, FlagsAfterIsLast DEF Last
<1>4. QED
    BY <1>1, <1>3, MapsInvIs

LEMMA StepKeepsMaps == RecoveryInv /\ MapsInv /\ [Next]_vars => MapsInv'
<1> SUFFICES ASSUME RecoveryInv, MapsInv, [Next]_vars
             PROVE  MapsInv'
    OBVIOUS
<1>1. CASE Run
    <2>1. manager.phase = "COMMIT" /\ committer.phase = "COMMIT"
        BY <1>1 DEF Run, RecoveryInv, PhaseInv
    <2>2. PICK group \in Groups, w \in Writes : Operate(group, w)
        BY <1>1 DEF Run
    <2>3. QED
        BY <2>1, <2>2, OperateKeepsMaps
<1>2. CASE StartRecovery
    <2>1. Rename(<<>>) /\ UNCHANGED <<rrmt, archFlags, activeList, al>>
        BY <1>2 DEF StartRecovery
    <2>2. QED
        BY <2>1, FlushKeepsMaps
<1>3. CASE LoadRecoveryCount
    <2>1. Rename(<<>>) /\ UNCHANGED <<rrmt, archFlags, activeList, al>>
        BY <1>3 DEF LoadRecoveryCount
    <2>2. QED
        BY <2>1, FlushKeepsMaps
<1>4. CASE PopFlushed
    BY <1>4, PopKeepsMaps
<1>5. CASE AwaitIssueQueue
    <2>1. manager.phase # "RECOVER_0" /\ committer.phase = "COMMIT"
        BY <1>5 DEF AwaitIssueQueue
    <2>2. PICK group \in Groups, w \in Writes : Operate(group, w)
        BY <1>5 DEF AwaitIssueQueue
    <2>3. QED
        BY <2>1, <2>2, OperateKeepsMaps
<1>6. CASE UNCHANGED vars
    BY <1>6, StutterKeepsMaps
<1>7. QED
    BY <1>1, <1>2, <1>3, <1>4, <1>5, <1>6 DEF Next

(* The maps of every reachable state follow program order. *)
THEOREM MapsAreRight == Spec => []MapsInv
<1>1. Init => MapsInv
    BY InitMaps
<1>2. RecoveryInv /\ MapsInv /\ [Next]_vars => MapsInv'
    BY StepKeepsMaps
<1>3. QED
    BY <1>1, <1>2, RecoveryControl, PTL DEF Spec

(* In every cycle, also between two pops of a recovery, the RMT is the     *)
(* retirement RMT overridden by the ops of the active list in order, and   *)
(* each entry holds the mapping that its op replaced: releasing it at      *)
(* commit and restoring it in a recovery are both right.                   *)
THEOREM RmtIsInProgramOrder == Spec => []RmtFollowsProgramOrder
<1>1. MapsInv => RmtFollowsProgramOrder
    BY DEF MapsInv
<1>2. QED
    BY <1>1, MapsAreRight, PTL

(* The same of the single-entry map of the flags, whose restored value     *)
(* comes from the popped ops that wrote the flags only.                    *)
THEOREM FlagsMapIsInProgramOrder == Spec => []FlagsMapFollowsProgramOrder
<1>1. MapsInv => FlagsMapFollowsProgramOrder
    BY DEF MapsInv
<1>2. QED
    BY <1>1, MapsAreRight, PTL
=============================================================================
