---------------------- MODULE MultiWidthFreeList_proofs ----------------------
(***************************************************************************)
(* Proofs about MultiWidthFreeList, for every size and every width.  The   *)
(* invariant is not inductive by itself: that the values read at the head  *)
(* are those pushed at the tail needs the relation between the pointers    *)
(* and the count, and that the count stays within the RAM needs the number *)
(* of the registers the client holds.                                      *)
(***************************************************************************)
EXTENDS MultiWidthFreeList, FiniteSetTheorems, SequenceTheorems, TLAPS

(* The pointer sums fit an IndexPath, or it wraps where the RAM does.  The *)
(* flags free list (SIZE 30, INDEX_MOD 32, PUSH_WIDTH 2) is the one list   *)
(* of the core that does not satisfy this.                                 *)
NoIndexOverflow ==
    \/ SIZE = INDEX_MOD
    \/ SIZE + PUSH_WIDTH < INDEX_MOD /\ SIZE + POP_WIDTH < INDEX_MOD

(* The tail is count places after the head; before the first push it may   *)
(* still be SIZE, which addresses entry 0.                                 *)
PointersAgree(f) ==
    /\ f.head \in 0 .. SIZE - 1
    /\ f.tail \in 0 .. SIZE /\ f.tail < INDEX_MOD
    /\ f.count \in 0 .. SIZE
    /\ WrapAdd(f.tail, 0) = WrapAdd(f.head, f.count)

FreeListInv ==
    /\ TypeOK
    /\ PointersAgree(fl)
    /\ NoLossNoDuplicate
    /\ IsFiniteSet(held)
    /\ Cardinality(held) + fl.count = SIZE + LOGICAL_NUM

-----------------------------------------------------------------------------
(* The addresses of the entries: in the RAM, no two the same, additive. *)
LEMMA WrapAddInRam ==
    ASSUME NEW p \in 0 .. SIZE, NEW n \in 0 .. SIZE, p + n < 2 * SIZE
    PROVE  WrapAdd(p, n) \in 0 .. SIZE - 1
BY QueueSizeAssumption DEF QueueSizeAssumption, WrapAdd

LEMMA WrapAddZero ==
    ASSUME NEW p \in 0 .. SIZE - 1
    PROVE  WrapAdd(p, 0) = p
BY QueueSizeAssumption DEF QueueSizeAssumption, WrapAdd

LEMMA WrapAddInjective ==
    ASSUME NEW p \in 0 .. SIZE - 1, NEW i \in 0 .. SIZE - 1,
           NEW j \in 0 .. SIZE - 1, WrapAdd(p, i) = WrapAdd(p, j)
    PROVE  i = j
BY QueueSizeAssumption DEF QueueSizeAssumption, WrapAdd

LEMMA WrapAddAdditive ==
    ASSUME NEW p \in 0 .. SIZE - 1, NEW i \in Nat, NEW j \in Nat, i + j <= SIZE
    PROVE  WrapAdd(WrapAdd(p, i), j) = WrapAdd(p, i + j)
BY QueueSizeAssumption DEF QueueSizeAssumption, WrapAdd

(* Without an overflow the pointer moves to the entry the port addressed. *)
LEMMA AdvanceIsWrapAdd ==
    ASSUME NoIndexOverflow, NEW p \in 0 .. SIZE, p < INDEX_MOD,
           NEW n \in 0 .. SIZE,
           n <= PUSH_WIDTH \/ (p < SIZE /\ n <= POP_WIDTH)
    PROVE  /\ Advance(p, n) \in 0 .. SIZE
           /\ Advance(p, n) < INDEX_MOD
           /\ p < SIZE => Advance(p, n) < SIZE
           /\ WrapAdd(Advance(p, n), 0) = WrapAdd(WrapAdd(p, 0), n)
<1>1. CASE SIZE = INDEX_MOD
    BY <1>1, QueueSizeAssumption DEF QueueSizeAssumption, Advance, Trunc, WrapAdd
<1>2. CASE SIZE + PUSH_WIDTH < INDEX_MOD /\ SIZE + POP_WIDTH < INDEX_MOD
    BY <1>2, QueueSizeAssumption, WidthAssumption
    DEF QueueSizeAssumption, WidthAssumption, Advance, Trunc, WrapAdd
<1>3. QED
    BY <1>1, <1>2 DEF NoIndexOverflow

(* The k-th place after the tail is the (count + k)-th after the head. *)
LEMMA TailAddress ==
    ASSUME NEW h \in 0 .. SIZE - 1, NEW t \in 0 .. SIZE, NEW c \in 0 .. SIZE,
           WrapAdd(t, 0) = WrapAdd(h, c), NEW k \in Nat, c + k < SIZE
    PROVE  WrapAdd(t, k) = WrapAdd(h, c + k)
BY QueueSizeAssumption DEF QueueSizeAssumption, WrapAdd

(* The pointers after a clock edge. *)
LEMMA ClockPointers ==
    ASSUME NoIndexOverflow, NEW V, NEW f, PointersAgree(f),
           NEW n \in 0 .. POP_WIDTH, n <= f.count,
           NEW s \in Seq(V), Len(s) <= PUSH_WIDTH, f.count + Len(s) <= SIZE
    PROVE  /\ PointersAgree(Clock(f, n, s))
           /\ Clock(f, n, s).count = f.count + Len(s) - n
           /\ Clock(f, n, s).head = WrapAdd(f.head, n)
<1> DEFINE g == Clock(f, n, s)
           head == IF n > 0 THEN Advance(f.head, n) ELSE f.head
           tail == IF s # <<>> THEN Advance(f.tail, Len(s)) ELSE f.tail
           count == f.count + Len(s) - n
<1>1. /\ g.head = head /\ g.tail = tail /\ g.count = count
    BY DEF Clock
<1>2. /\ f.head \in 0 .. SIZE - 1 /\ f.tail \in 0 .. SIZE
      /\ f.tail < INDEX_MOD /\ f.count \in 0 .. SIZE
      /\ WrapAdd(f.tail, 0) = WrapAdd(f.head, f.count)
    BY DEF PointersAgree
<1>3. /\ Len(s) \in Nat /\ Len(s) <= SIZE /\ n <= SIZE
      /\ s = <<>> <=> Len(s) = 0
    BY EmptySeq, LenProperties, QueueSizeAssumption, WidthAssumption, <1>2
    DEF QueueSizeAssumption, WidthAssumption
<1>4. head \in 0 .. SIZE - 1 /\ head = WrapAdd(f.head, n)
    <2>1. CASE n = 0
        <3>1. head = f.head
            BY <2>1
        <3>2. WrapAdd(f.head, 0) = f.head
            BY <1>2, WrapAddZero
        <3>3. QED
            BY <1>2, <2>1, <3>1, <3>2
    <2>2. CASE n > 0
        <3>1. head = Advance(f.head, n)
            BY <2>2
        <3>2. f.head \in 0 .. SIZE /\ f.head < SIZE /\ f.head < INDEX_MOD
            BY <1>2, QueueSizeAssumption DEF QueueSizeAssumption
        <3>3. n \in 0 .. SIZE /\ n <= POP_WIDTH
            BY <1>3, WidthAssumption DEF WidthAssumption
        <3>4. /\ Advance(f.head, n) \in 0 .. SIZE /\ Advance(f.head, n) < SIZE
              /\ WrapAdd(Advance(f.head, n), 0) = WrapAdd(WrapAdd(f.head, 0), n)
            BY <3>2, <3>3, AdvanceIsWrapAdd
        <3>5. WrapAdd(f.head, 0) = f.head
            BY <1>2, WrapAddZero
        <3>6. WrapAdd(Advance(f.head, n), 0) = Advance(f.head, n)
            BY <3>4, QueueSizeAssumption DEF QueueSizeAssumption, WrapAdd
        <3>7. QED
            BY <3>1, <3>4, <3>5, <3>6, QueueSizeAssumption DEF QueueSizeAssumption
    <2>3. QED
        BY <2>1, <2>2, WidthAssumption DEF WidthAssumption
<1>5. /\ tail \in 0 .. SIZE /\ tail < INDEX_MOD
      /\ WrapAdd(tail, 0) = WrapAdd(WrapAdd(f.tail, 0), Len(s))
    <2>1. CASE Len(s) = 0
        BY <2>1, <1>2, <1>3, QueueSizeAssumption DEF QueueSizeAssumption, WrapAdd
    <2>2. CASE Len(s) # 0
        BY <2>2, <1>2, <1>3, AdvanceIsWrapAdd
    <2>3. QED
        BY <2>1, <2>2
<1>6. count \in 0 .. SIZE
    BY <1>2, <1>3, QueueSizeAssumption DEF QueueSizeAssumption
<1>7. WrapAdd(tail, 0) = WrapAdd(head, count)
    <2>1. WrapAdd(tail, 0) = WrapAdd(f.head, f.count + Len(s))
        BY <1>2, <1>3, <1>5, WrapAddAdditive
    <2>2. WrapAdd(head, count) = WrapAdd(f.head, n + count)
        BY <1>2, <1>3, <1>4, <1>6, WrapAddAdditive, QueueSizeAssumption
        DEF QueueSizeAssumption
    <2>3. n + count = f.count + Len(s)
        BY <1>2, <1>3
    <2>4. QED
        BY <2>1, <2>2, <2>3
<1>8. QED
    BY <1>1, <1>4, <1>5, <1>6, <1>7 DEF PointersAgree

(* A pushed value is written where no value still in the list lies. *)
LEMMA PushedAddress ==
    ASSUME NEW V, NEW f, PointersAgree(f), NEW s \in Seq(V),
           f.count + Len(s) <= SIZE, NEW k \in 1 .. Len(s)
    PROVE  PushAddr(f, k) = WrapAdd(f.head, f.count + k - 1)
<1>1. /\ f.head \in 0 .. SIZE - 1 /\ f.tail \in 0 .. SIZE /\ f.count \in 0 .. SIZE
      /\ WrapAdd(f.tail, 0) = WrapAdd(f.head, f.count)
    BY DEF PointersAgree
<1>2. k - 1 \in Nat /\ f.count + (k - 1) < SIZE
    <2>1. Len(s) \in Nat
        BY LenProperties
    <2>2. QED
        BY <1>1, <2>1, QueueSizeAssumption DEF QueueSizeAssumption
<1>3. WrapAdd(f.tail, k - 1) = WrapAdd(f.head, f.count + (k - 1))
    BY <1>1, <1>2, TailAddress
<1>4. f.count + (k - 1) = f.count + k - 1
    BY <1>1
<1>5. QED
    BY <1>3, <1>4 DEF PushAddr

(* The RAM, place by place after the old head, after a clock edge. *)
LEMMA ClockRing ==
    ASSUME NEW V, NEW f, PointersAgree(f), NEW n \in 0 .. POP_WIDTH,
           NEW s \in Seq(V), f.count + Len(s) <= SIZE,
           NEW i \in 0 .. f.count + Len(s) - 1
    PROVE  Clock(f, n, s).ring[WrapAdd(f.head, i)] =
              IF i < f.count THEN f.ring[WrapAdd(f.head, i)]
              ELSE s[i - f.count + 1]
<1> DEFINE a == WrapAdd(f.head, i)
           Hits == {k \in 1 .. Len(s) : PushAddr(f, k) = a}
<1>1. /\ f.head \in 0 .. SIZE - 1 /\ f.count \in 0 .. SIZE
      /\ Len(s) \in Nat /\ i \in 0 .. SIZE - 1
    <2>1. Len(s) \in Nat
        BY LenProperties
    <2>2. f.head \in 0 .. SIZE - 1 /\ f.count \in 0 .. SIZE
        BY DEF PointersAgree
    <2>3. QED
        BY <2>1, <2>2, QueueSizeAssumption DEF QueueSizeAssumption
<1>2. a \in 0 .. SIZE - 1
    <2>1. /\ f.head \in 0 .. SIZE /\ i \in 0 .. SIZE
          /\ f.head + i < 2 * SIZE
        BY <1>1, QueueSizeAssumption DEF QueueSizeAssumption
    <2>2. QED
        BY <2>1, WrapAddInRam
<1>3. Clock(f, n, s).ring[a] =
          IF \E k \in 1 .. Len(s) : PushAddr(f, k) = a
          THEN s[CHOOSE k \in 1 .. Len(s) : PushAddr(f, k) = a]
          ELSE f.ring[a]
    BY <1>2 DEF Clock
<1>4. \A k \in 1 .. Len(s) : PushAddr(f, k) = a => k = i - f.count + 1
    <2>1. TAKE k \in 1 .. Len(s)
    <2>2. f.count + k - 1 \in 0 .. SIZE - 1
        BY <1>1, QueueSizeAssumption DEF QueueSizeAssumption
    <2>3. PushAddr(f, k) = WrapAdd(f.head, f.count + k - 1)
        BY PushedAddress
    <2>4. HAVE PushAddr(f, k) = a
    <2>5. f.count + k - 1 = i
        BY <1>1, <2>2, <2>3, <2>4, WrapAddInjective
    <2>6. QED
        BY <1>1, <2>5
<1>5. CASE i < f.count
    <2>1. \A k \in 1 .. Len(s) : PushAddr(f, k) # a
        BY <1>1, <1>4, <1>5
    <2>2. QED
        BY <1>3, <1>5, <2>1
<1>6. CASE ~(i < f.count)
    <2> DEFINE j == i - f.count + 1
    <2>1. j \in 1 .. Len(s) /\ f.count + j - 1 = i
        BY <1>1, <1>6
    <2>2. PushAddr(f, j) = a
        BY <2>1, PushedAddress
    <2>3. (CHOOSE k \in 1 .. Len(s) : PushAddr(f, k) = a) = j
        <3> HIDE DEF j
        <3>1. QED
            BY <1>4, <2>1, <2>2, Zenon DEF j
    <2>4. QED
        BY <1>3, <1>6, <2>1, <2>2, <2>3
<1>7. QED
    BY <1>5, <1>6

(* The list after a clock edge is the old one without its n oldest values, *)
(* followed by the values pushed.                                          *)
LEMMA ClockContents ==
    ASSUME NoIndexOverflow, NEW V, NEW f, PointersAgree(f),
           NEW n \in 0 .. POP_WIDTH, n <= f.count,
           NEW s \in Seq(V), Len(s) <= PUSH_WIDTH, f.count + Len(s) <= SIZE,
           NEW k \in 1 .. f.count + Len(s) - n
    PROVE  Contents(Clock(f, n, s))[k] =
              IF k <= f.count - n THEN Contents(f)[k + n]
              ELSE s[k - (f.count - n)]
<1> DEFINE g == Clock(f, n, s)
<1>1. /\ f.head \in 0 .. SIZE - 1 /\ f.count \in 0 .. SIZE
      /\ Len(s) \in Nat /\ n \in Nat
    BY LenProperties, WidthAssumption DEF PointersAgree, WidthAssumption
<1>2. g.count = f.count + Len(s) - n /\ g.head = WrapAdd(f.head, n)
    BY ClockPointers
<1>3. Contents(g)[k] = g.ring[WrapAdd(WrapAdd(f.head, n), k - 1)]
    BY <1>2 DEF Contents, Peek
<1>4. WrapAdd(WrapAdd(f.head, n), k - 1) = WrapAdd(f.head, n + (k - 1))
    <2>1. k - 1 \in Nat /\ n + (k - 1) <= SIZE
        BY <1>1, QueueSizeAssumption DEF QueueSizeAssumption
    <2>2. QED
        BY <1>1, <2>1, WrapAddAdditive
<1>5. n + (k - 1) \in 0 .. f.count + Len(s) - 1
    BY <1>1
<1>6. Contents(g)[k] = g.ring[WrapAdd(f.head, n + (k - 1))]
    BY <1>3, <1>4
<1>7. CASE k <= f.count - n
    <2>1. k + n \in 1 .. f.count /\ k + n - 1 = n + (k - 1)
        BY <1>1, <1>7
    <2>2. Contents(f)[k + n] = f.ring[WrapAdd(f.head, n + (k - 1))]
        BY <2>1 DEF Contents, Peek
    <2>3. n + (k - 1) < f.count
        BY <1>1, <1>7
    <2>4. g.ring[WrapAdd(f.head, n + (k - 1))]
              = f.ring[WrapAdd(f.head, n + (k - 1))]
        BY <1>5, <2>3, ClockRing
    <2>5. QED
        BY <1>6, <1>7, <2>2, <2>4
<1>8. CASE ~(k <= f.count - n)
    <2>1. ~(n + (k - 1) < f.count)
        BY <1>1, <1>8
    <2>2. (n + (k - 1)) - f.count + 1 = k - (f.count - n)
        BY <1>1
    <2>3. g.ring[WrapAdd(f.head, n + (k - 1))] = s[(n + (k - 1)) - f.count + 1]
        BY <1>5, <2>1, ClockRing
    <2>4. QED
        BY <1>6, <1>8, <2>2, <2>3
<1>9. QED
    BY <1>7, <1>8

-----------------------------------------------------------------------------
(* m places that hold m different values hold a set of m values. *)
LEMMA ImageCardinality ==
    ASSUME NEW S, NEW m \in Nat, NEW g \in [1 .. m -> S],
           \A i, j \in 1 .. m : g[i] = g[j] => i = j,
           \A x \in S : \E k \in 1 .. m : g[k] = x
    PROVE  IsFiniteSet(S) /\ Cardinality(S) = m
<1>1. IsFiniteSet(1 .. m) /\ Cardinality(1 .. m) = m
    BY FS_Interval
<1>2. g \in Bijection(1 .. m, S)
    BY DEF Bijection, Injection, IsInjective, Surjection
<1>3. ExistsBijection(1 .. m, S)
    BY <1>2 DEF ExistsBijection
<1>4. QED
    BY <1>1, <1>3, FS_Bijection

(* What a cycle of the client gives the free list. *)
LEMMA ReturnsAreSequences ==
    ASSUME NEW s \in Returns
    PROVE  /\ s \in Seq(held) /\ s \in [1 .. Len(s) -> held]
           /\ Len(s) \in 0 .. PUSH_WIDTH
           /\ \A i, j \in 1 .. Len(s) : s[i] = s[j] => i = j
           /\ Len(s) + LOGICAL_NUM <= Cardinality(held)
<1>1. PICK n \in 0 .. PUSH_WIDTH : s \in [1 .. n -> held]
    BY DEF Returns
<1>2. n \in Nat
    BY WidthAssumption DEF WidthAssumption
<1>3. s \in Seq(held) /\ Len(s) = n
    BY <1>1, <1>2
<1>4. QED
    BY <1>1, <1>3 DEF Returns

-----------------------------------------------------------------------------
(* One cycle preserves the invariant. *)
LEMMA CyclePreservesInv ==
    ASSUME NoIndexOverflow, FreeListInv,
           NEW n \in 0 .. POP_WIDTH, NEW s \in Returns, Cycle(n, s)
    PROVE  FreeListInv'
<1> DEFINE C == Contents(fl)
           c == fl.count
           len == Len(s)
<1>1. /\ s \in Seq(held) /\ s \in [1 .. len -> held] /\ len \in 0 .. PUSH_WIDTH
      /\ \A i, j \in 1 .. len : s[i] = s[j] => i = j
      /\ len + LOGICAL_NUM <= Cardinality(held)
    BY ReturnsAreSequences
<1>2. /\ PointersAgree(fl) /\ c \in 0 .. SIZE
      /\ held \subseteq Value /\ IsFiniteSet(held)
      /\ Cardinality(held) + c = SIZE + LOGICAL_NUM
      /\ Cardinality(held) \in Nat
    BY FS_CardinalityType DEF FreeListInv, TypeOK
<1>3. n \in Nat /\ len \in Nat /\ n <= c /\ len <= PUSH_WIDTH /\ c + len <= SIZE
    BY <1>1, <1>2, QueueSizeAssumption, WidthAssumption
    DEF QueueSizeAssumption, WidthAssumption, Cycle
<1>4. /\ fl' = Clock(fl, n, s)
      /\ held' = (held \ Pushed(s)) \cup Popped(n)
    BY DEF Cycle
<1>5. DOMAIN C = 1 .. c /\ DOMAIN C' = 1 .. c' /\ c' = c + len - n
    BY <1>1, <1>2, <1>3, <1>4, ClockPointers DEF Contents
<1>6. /\ \A i, j \in 1 .. c : C[i] = C[j] => i = j
      /\ \A v \in Value : v \in held <=> \A i \in 1 .. c : C[i] # v
    BY <1>5 DEF FreeListInv, NoLossNoDuplicate
<1>7. \A k \in 1 .. c' :
          /\ k <= c - n => k + n \in 1 .. c /\ C'[k] = C[k + n]
          /\ ~(k <= c - n) => /\ k - (c - n) \in 1 .. len
                              /\ C'[k] = s[k - (c - n)]
    <2>1. C' = Contents(Clock(fl, n, s))
        BY <1>4 DEF Contents, Peek
    <2>2. TAKE k \in 1 .. c'
    <2>3. k \in 1 .. c + len - n
        BY <1>5
    <2>4. CASE k <= c - n
        <3>1. k + n \in 1 .. c
            BY <1>2, <1>3, <2>3, <2>4
        <3>2. C'[k] = C[k + n]
            BY <1>1, <1>2, <1>3, <2>1, <2>3, <2>4, ClockContents
        <3>3. QED
            BY <2>4, <3>1, <3>2
    <2>5. CASE ~(k <= c - n)
        <3>1. k - (c - n) \in 1 .. len
            BY <1>2, <1>3, <2>3, <2>5
        <3>2. C'[k] = s[k - (c - n)]
            BY <1>1, <1>2, <1>3, <2>1, <2>3, <2>5, ClockContents
        <3>3. QED
            BY <2>5, <3>1, <3>2
    <2>6. QED
        BY <2>4, <2>5
<1>8. \A k \in 1 .. c : C[k] \in Value
    <2>1. TAKE k \in 1 .. c
    <2>2. WrapAdd(fl.head, k - 1) \in 0 .. SIZE - 1
        BY <1>2, QueueSizeAssumption
        DEF QueueSizeAssumption, PointersAgree, WrapAdd
    <2>3. QED
        BY <2>2 DEF FreeListInv, TypeOK, Contents, Peek
<1>9. Popped(n) = {C[k] : k \in 1 .. n} /\ Pushed(s) = {s[k] : k \in 1 .. len}
    <2>1. \A k \in 1 .. n : C[k] = Peek(fl, k - 1)
        BY <1>2, <1>3 DEF Contents
    <2>2. \A k \in 0 .. n - 1 : k + 1 \in 1 .. n /\ k = (k + 1) - 1
        BY <1>3
    <2>3. \A k \in 1 .. n : k - 1 \in 0 .. n - 1
        BY <1>3
    <2>4. Popped(n) = {C[k] : k \in 1 .. n}
        BY <2>1, <2>2, <2>3 DEF Popped
    <2>5. QED
        BY <1>1, <2>4 DEF Pushed
<1>10. /\ \A k \in 1 .. c : C[k] \notin held
       /\ \A k \in 1 .. len : s[k] \in held
    BY <1>1, <1>6, <1>8
(* Nothing is in the list twice. *)
<1>11. ASSUME NEW i \in 1 .. c', NEW j \in 1 .. c', C'[i] = C'[j]
       PROVE  i = j
    <2>1. i \in Int /\ j \in Int /\ c \in Int
        BY <1>2
    <2>2. CASE i <= c - n /\ j <= c - n
        <3>1. i + n = j + n
            BY <1>6, <1>7, <1>11, <2>2
        <3>2. QED
            BY <1>3, <2>1, <3>1
    <2>3. CASE ~(i <= c - n) /\ ~(j <= c - n)
        <3>1. i - (c - n) = j - (c - n)
            BY <1>1, <1>7, <1>11, <2>3
        <3>2. QED
            BY <1>3, <2>1, <3>1
    <2>4. CASE (i <= c - n) # (j <= c - n)
        BY <1>7, <1>10, <1>11, <2>4
    <2>5. QED
        BY <2>2, <2>3, <2>4
(* A register is with the client exactly if it is not in the list. *)
<1>12. \A k \in 1 .. c : k > n => k - n \in 1 .. c' /\ C'[k - n] = C[k]
    <2>1. TAKE k \in 1 .. c
    <2>2. HAVE k > n
    <2>3. k - n \in 1 .. c' /\ k - n <= c - n /\ (k - n) + n = k
        BY <1>2, <1>3, <1>5, <2>2
    <2>4. QED
        BY <1>7, <2>3
<1>13. \A k \in 1 .. len : \E m \in 1 .. c' : C'[m] = s[k]
    <2>1. TAKE k \in 1 .. len
    <2> DEFINE m == k + (c - n)
    <2>1a. /\ m \in 1 .. c' /\ ~(m <= c - n) /\ m - (c - n) = k
        BY <1>2, <1>3, <1>5
    <2> HIDE DEF m
    <2>2. C'[m] = s[k]
        BY <1>7, <2>1a
    <2>3. QED
        BY <2>1a, <2>2
<1>14. ASSUME NEW v \in Value
       PROVE  v \in held' <=> \A i \in 1 .. c' : C'[i] # v
    <2>1. CASE v \in held /\ v \in Pushed(s)
        <3>1. v \notin Popped(n)
            BY <1>2, <1>3, <1>9, <1>10, <2>1
        <3>2. QED
            BY <1>4, <1>9, <1>13, <2>1, <3>1
    <2>2. CASE v \in held /\ v \notin Pushed(s)
        <3>1. v \in held'
            BY <1>4, <2>2
        <3>2. \A i \in 1 .. c' : C'[i] # v
            BY <1>7, <1>9, <1>10, <2>2
        <3>3. QED
            BY <3>1, <3>2
    <2>3. CASE v \notin held
        <3>1. PICK k \in 1 .. c : C[k] = v
            BY <1>6, <2>3
        <3>2. CASE k <= n
            <4>1. k \in 1 .. n
                BY <1>3, <3>2
            <4>2. v \in held'
                BY <1>4, <1>9, <3>1, <4>1
            <4>3. ASSUME NEW i \in 1 .. c', C'[i] = v
                  PROVE  FALSE
                <5>1. CASE i <= c - n
                    <6>1. i + n = k
                        BY <1>6, <1>7, <3>1, <4>3, <5>1
                    <6>2. QED
                        BY <1>3, <4>1, <6>1
                <5>2. CASE ~(i <= c - n)
                    BY <1>7, <1>10, <2>3, <4>3, <5>2
                <5>3. QED
                    BY <5>1, <5>2
            <4>4. QED
                BY <4>2, <4>3
        <3>3. CASE ~(k <= n)
            <4>1. k - n \in 1 .. c' /\ C'[k - n] = v
                BY <1>3, <1>12, <3>1, <3>3
            <4>2. v \notin Popped(n)
                <5>1. ASSUME NEW j \in 1 .. n, C[j] = v
                      PROVE  FALSE
                    <6>1. j \in 1 .. c /\ j # k
                        BY <1>2, <1>3, <3>3
                    <6>2. QED
                        BY <1>6, <3>1, <5>1, <6>1
                <5>2. QED
                    BY <1>9, <5>1
            <4>3. QED
                BY <1>4, <2>3, <4>1, <4>2
        <3>4. QED
            BY <3>2, <3>3
    <2>4. QED
        BY <2>1, <2>2, <2>3
<1>15. NoLossNoDuplicate'
    BY <1>5, <1>11, <1>14 DEF NoLossNoDuplicate, Value
(* The client holds as many registers more as the list holds less. *)
<1>16. IsFiniteSet(held') /\ Cardinality(held') + c' = SIZE + LOGICAL_NUM
    <2>1. IsFiniteSet(Pushed(s)) /\ Cardinality(Pushed(s)) = len
        <3>1. /\ s \in [1 .. len -> Pushed(s)]
              /\ \A x \in Pushed(s) : \E k \in 1 .. len : s[k] = x
            BY <1>1, <1>9
        <3>2. QED
            BY <1>1, <1>3, <3>1, ImageCardinality
    <2>2. IsFiniteSet(Popped(n)) /\ Cardinality(Popped(n)) = n
        <3> DEFINE g == [k \in 1 .. n |-> C[k]]
        <3>1. \A k \in 1 .. n : k \in 1 .. c
            BY <1>2, <1>3
        <3>2. \A i, j \in 1 .. n : g[i] = g[j] => i = j
            BY <1>6, <3>1
        <3>3. /\ g \in [1 .. n -> Popped(n)]
              /\ \A x \in Popped(n) : \E k \in 1 .. n : g[k] = x
            BY <1>9
        <3> HIDE DEF g
        <3>4. QED
            BY <1>3, <3>2, <3>3, ImageCardinality
    <2>3. held \cap Pushed(s) = Pushed(s)
        BY <1>9, <1>10
    <2>4. /\ IsFiniteSet(held \ Pushed(s))
          /\ Cardinality(held \ Pushed(s)) = Cardinality(held) - len
        <3>1. /\ IsFiniteSet(held \ Pushed(s))
              /\ Cardinality(held \ Pushed(s))
                    = Cardinality(held) - Cardinality(held \cap Pushed(s))
            BY <1>2, FS_Difference
        <3>2. QED
            BY <2>1, <2>3, <3>1
    <2>5. (held \ Pushed(s)) \cap Popped(n) = {}
        <3>1. \A k \in 1 .. n : C[k] \notin held
            BY <1>2, <1>3, <1>10
        <3>2. QED
            BY <1>9, <3>1
    <2>6. /\ IsFiniteSet(held')
          /\ Cardinality(held') = Cardinality(held) - len + n - Cardinality({})
        BY <1>4, <2>2, <2>4, <2>5, FS_Union
    <2>7. Cardinality({}) = 0
        BY FS_EmptySet
    <2>8. QED
        BY <1>2, <1>3, <1>5, <2>6, <2>7, WidthAssumption, QueueSizeAssumption
        DEF WidthAssumption, QueueSizeAssumption
<1>17. PointersAgree(fl')
    BY <1>1, <1>2, <1>3, <1>4, ClockPointers
<1>18. TypeOK'
    <2>1. fl'.ring \in [0 .. SIZE - 1 -> Value]
        <3>1. \A k \in 1 .. len : s[k] \in Value
            BY <1>2, <1>10
        <3>2. fl.ring \in [0 .. SIZE - 1 -> Value]
            BY DEF FreeListInv, TypeOK
        <3>3. \A a : (\E k \in 1 .. len : PushAddr(fl, k) = a) =>
                  s[CHOOSE k \in 1 .. len : PushAddr(fl, k) = a] \in Value
            BY <3>1, Zenon
        <3>4. QED
            BY <1>4, <3>2, <3>3 DEF Clock
    <2>2. held' \subseteq Value
        <3>1. \A k \in 1 .. n : C[k] \in Value
            BY <1>2, <1>3, <1>8
        <3>2. QED
            BY <1>2, <1>4, <1>9, <3>1
    <2>3. /\ fl'.head \in 0 .. SIZE - 1 /\ fl'.tail \in Index
          /\ fl'.count \in 0 .. SIZE
        BY <1>17, QueueSizeAssumption DEF QueueSizeAssumption, PointersAgree, Index
    <2>4. QED
        BY <2>1, <2>2, <2>3 DEF TypeOK, Value, Index
<1>19. QED
    BY <1>15, <1>16, <1>17, <1>18 DEF FreeListInv

-----------------------------------------------------------------------------
(* After the reset entry i holds i and the client the registers beyond. *)
LEMMA InitialContents ==
    ASSUME Init
    PROVE  /\ PointersAgree(fl) /\ fl.count = SIZE
           /\ \A k \in 1 .. SIZE : Contents(fl)[k] = k - 1
<1>1. /\ fl.head = 0 /\ fl.tail = Trunc(SIZE) /\ fl.count = SIZE
      /\ fl.ring = [i \in 0 .. SIZE - 1 |-> i]
    BY WidthAssumption DEF WidthAssumption, Init, InitFreeList
<1>2. PointersAgree(fl)
    <2>1. SIZE \in Nat \ {0} /\ INDEX_MOD \in Nat /\ SIZE <= INDEX_MOD
        BY QueueSizeAssumption DEF QueueSizeAssumption
    <2>2. /\ Trunc(SIZE) \in 0 .. SIZE /\ Trunc(SIZE) < INDEX_MOD
          /\ WrapAdd(Trunc(SIZE), 0) = 0
        BY <2>1 DEF Trunc, WrapAdd
    <2>3. WrapAdd(0, SIZE) = 0
        BY <2>1 DEF WrapAdd
    <2>4. QED
        BY <1>1, <2>1, <2>2, <2>3 DEF PointersAgree
<1>3. ASSUME NEW k \in 1 .. SIZE
      PROVE  Contents(fl)[k] = k - 1
    <2>1. k - 1 \in 0 .. SIZE - 1 /\ WrapAdd(0, k - 1) = k - 1
        BY QueueSizeAssumption DEF QueueSizeAssumption, WrapAdd
    <2>2. QED
        BY <1>1, <2>1 DEF Contents, Peek
<1>4. QED
    BY <1>1, <1>2, <1>3

LEMMA InitEstablishesInv == Init => FreeListInv
<1> SUFFICES ASSUME Init
             PROVE  FreeListInv
    OBVIOUS
<1>1. SIZE \in Nat \ {0} /\ LOGICAL_NUM \in Nat
    BY QueueSizeAssumption, WidthAssumption
    DEF QueueSizeAssumption, WidthAssumption
<1>2. /\ PointersAgree(fl) /\ fl.count = SIZE
      /\ \A k \in 1 .. SIZE : Contents(fl)[k] = k - 1
    BY InitialContents
<1>3. held = SIZE .. SIZE + LOGICAL_NUM - 1
    BY DEF Init
<1>4. TypeOK
    <2>1. fl.ring \in [0 .. SIZE - 1 -> Value]
        BY <1>1 DEF Init, InitFreeList, Value
    <2>2. QED
        BY <1>1, <1>2, <1>3, <2>1, QueueSizeAssumption
        DEF QueueSizeAssumption, TypeOK, PointersAgree, Index, Value
<1>5. NoLossNoDuplicate
    <2>1. DOMAIN Contents(fl) = 1 .. SIZE
        BY <1>2 DEF Contents
    <2>2. \A v \in 0 .. SIZE - 1 : v + 1 \in 1 .. SIZE /\ (v + 1) - 1 = v
        BY <1>1
    <2>3. \A i, j \in 1 .. SIZE : Contents(fl)[i] = Contents(fl)[j] => i = j
        BY <1>1, <1>2
    <2>4. ASSUME NEW v \in Value
          PROVE  v \in held <=> \A i \in 1 .. SIZE : Contents(fl)[i] # v
        <3>1. CASE v \in 0 .. SIZE - 1
            BY <1>1, <1>2, <1>3, <2>2, <3>1
        <3>2. CASE v \in held
            BY <1>1, <1>2, <1>3, <3>2
        <3>3. QED
            BY <1>1, <1>3, <3>1, <3>2 DEF Value
    <2>5. QED
        BY <2>1, <2>3, <2>4 DEF NoLossNoDuplicate, Value
<1>6. IsFiniteSet(held) /\ Cardinality(held) = LOGICAL_NUM
    <2>1. /\ IsFiniteSet(held)
          /\ Cardinality(held) = IF SIZE > SIZE + LOGICAL_NUM - 1 THEN 0
                                 ELSE SIZE + LOGICAL_NUM - 1 - SIZE + 1
        BY <1>1, <1>3, FS_Interval
    <2>2. QED
        BY <1>1, <2>1
<1>7. QED
    BY <1>1, <1>2, <1>4, <1>5, <1>6 DEF FreeListInv

LEMMA NextPreservesInv ==
    ASSUME NoIndexOverflow
    PROVE  FreeListInv /\ [Next]_vars => FreeListInv'
<1> SUFFICES ASSUME FreeListInv, [Next]_vars
             PROVE  FreeListInv'
    OBVIOUS
<1>1. CASE Next
    BY <1>1, CyclePreservesInv DEF Next
<1>2. CASE UNCHANGED vars
    BY <1>2 DEF vars, FreeListInv, TypeOK, NoLossNoDuplicate, PointersAgree,
        Contents, Peek
<1>3. QED
    BY <1>1, <1>2

(* The invariant, in every reachable state. *)
THEOREM FreeListCorrect ==
    ASSUME NoIndexOverflow
    PROVE  Spec => []FreeListInv
<1>1. Init => FreeListInv
    BY InitEstablishesInv
<1>2. FreeListInv /\ [Next]_vars => FreeListInv'
    BY NextPreservesInv
<1>3. QED
    BY <1>1, <1>2, PTL DEF Spec

(* The RAM, the pointers and the count stay in range, for every size and   *)
(* every width whose sums fit the pointers.                                *)
THEOREM FreeListTypeCorrect ==
    ASSUME NoIndexOverflow
    PROVE  Spec => []TypeOK
<1>1. FreeListInv => TypeOK
    BY DEF FreeListInv
<1>2. QED
    BY <1>1, FreeListCorrect, PTL

(* No register is lost and none is handed out twice, likewise. *)
THEOREM FreeListConserves ==
    ASSUME NoIndexOverflow
    PROVE  Spec => []NoLossNoDuplicate
<1>1. FreeListInv => NoLossNoDuplicate
    BY DEF FreeListInv
<1>2. QED
    BY <1>1, FreeListCorrect, PTL

-----------------------------------------------------------------------------
(* The values of the list form a sequence. *)
LEMMA ContentsIsSequence ==
    ASSUME NEW f, f.ring \in [0 .. SIZE - 1 -> Value],
           f.head \in 0 .. SIZE - 1, f.count \in 0 .. SIZE
    PROVE  Contents(f) \in Seq(Value) /\ Len(Contents(f)) = f.count
<1>1. f.count \in Nat
    BY QueueSizeAssumption DEF QueueSizeAssumption
<1>2. ASSUME NEW k \in 1 .. f.count
      PROVE  Peek(f, k - 1) \in Value
    <2>1. WrapAdd(f.head, k - 1) \in 0 .. SIZE - 1
        BY QueueSizeAssumption DEF QueueSizeAssumption, WrapAdd
    <2>2. QED
        BY <2>1 DEF Peek
<1>3. Contents(f) \in [1 .. f.count -> Value]
    BY <1>2 DEF Contents
<1>4. QED
    BY <1>1, <1>3

LEMMA InitRefines == Init => Fifo!Init
<1> SUFFICES ASSUME Init
             PROVE  Fifo!Init
    OBVIOUS
<1>1. /\ fl.count = SIZE /\ \A k \in 1 .. SIZE : Contents(fl)[k] = k - 1
    BY InitialContents
<1>2. Contents(fl) = [k \in 1 .. SIZE |-> k - 1]
    BY <1>1 DEF Contents
<1>3. QED
    BY <1>2 DEF Init, Fifo!Init

(* A cycle of the ring is a cycle of the queue. *)
LEMMA CycleRefines ==
    ASSUME NoIndexOverflow, FreeListInv,
           NEW n \in 0 .. POP_WIDTH, NEW s \in Returns, Cycle(n, s)
    PROVE  Fifo!Cycle(n, s)
<1> DEFINE C == Contents(fl)
           c == fl.count
           len == Len(s)
           rest == SubSeq(C, n + 1, Len(C))
<1>1. /\ s \in Seq(held) /\ len \in 0 .. PUSH_WIDTH
      /\ len + LOGICAL_NUM <= Cardinality(held)
      /\ s \in [1 .. len -> held]
    BY ReturnsAreSequences
<1>2. /\ PointersAgree(fl) /\ c \in 0 .. SIZE
      /\ held \subseteq Value /\ Cardinality(held) \in Nat
      /\ Cardinality(held) + c = SIZE + LOGICAL_NUM
    BY FS_CardinalityType DEF FreeListInv, TypeOK
<1>3. /\ n \in Nat /\ len \in Nat /\ n <= c /\ len <= PUSH_WIDTH
      /\ c + len <= SIZE /\ c \in Nat
    BY <1>1, <1>2, QueueSizeAssumption, WidthAssumption
    DEF QueueSizeAssumption, WidthAssumption, Cycle
<1>4. /\ fl' = Clock(fl, n, s)
      /\ held' = (held \ Pushed(s)) \cup Popped(n)
    BY DEF Cycle
<1>5. C \in Seq(Value) /\ Len(C) = c /\ s \in Seq(Value)
    BY <1>1, <1>2, ContentsIsSequence, SeqMonotonic DEF FreeListInv, TypeOK
<1>6. C' \in Seq(Value) /\ Len(C') = c + len - n
    <2>1. FreeListInv'
        BY CyclePreservesInv
    <2>2. C' \in Seq(Value) /\ Len(C') = c'
        <3>1. /\ fl'.ring \in [0 .. SIZE - 1 -> Value]
              /\ fl'.head \in 0 .. SIZE - 1 /\ fl'.count \in 0 .. SIZE
            BY <2>1 DEF FreeListInv, TypeOK, Value
        <3>2. C' = Contents(fl')
            BY DEF Contents, Peek
        <3>3. QED
            BY <3>1, <3>2, ContentsIsSequence
    <2>3. c' = c + len - n
        BY <1>1, <1>2, <1>3, <1>4, ClockPointers
    <2>4. QED
        BY <2>2, <2>3
<1>7. /\ rest \in Seq(Value) /\ Len(rest) = c - n
      /\ \A i \in 1 .. c - n : rest[i] = C[n + i]
    <2>1. \A i \in n + 1 .. c : C[i] \in Value
        BY <1>3, <1>5, ElementOfSeq
    <2>2. /\ rest \in Seq(Value)
          /\ Len(rest) = IF n + 1 <= c THEN c - (n + 1) + 1 ELSE 0
          /\ \A i \in 1 .. c - (n + 1) + 1 : rest[i] = C[n + 1 + i - 1]
        BY <1>3, <1>5, <2>1, SubSeqProperties
    <2> HIDE DEF rest
    <2>3. Len(rest) = c - n
        BY <1>3, <2>2
    <2>4. ASSUME NEW i \in 1 .. c - n
          PROVE  rest[i] = C[n + i]
        <3>1. i \in 1 .. c - (n + 1) + 1 /\ n + 1 + i - 1 = n + i
            BY <1>3
        <3>2. QED
            BY <2>2, <3>1
    <2>5. QED
        BY <2>2, <2>3, <2>4
<1> HIDE DEF rest, C, c
<1>8. /\ rest \o s \in Seq(Value) /\ Len(rest \o s) = (c - n) + len
      /\ \A i \in 1 .. (c - n) + len :
            (rest \o s)[i] = IF i <= c - n THEN rest[i] ELSE s[i - (c - n)]
    BY <1>5, <1>7, ConcatProperties
<1>9. ASSUME NEW k \in 1 .. Len(C')
      PROVE  C'[k] = (rest \o s)[k]
    <2>1. C' = Contents(Clock(fl, n, s))
        BY <1>4 DEF C, Contents, Peek
    <2>2. k \in 1 .. c + len - n /\ k \in 1 .. (c - n) + len
        BY <1>3, <1>6
    <2>3. C'[k] = IF k <= c - n THEN C[k + n] ELSE s[k - (c - n)]
        BY <1>1, <1>2, <1>3, <2>1, <2>2, ClockContents DEF C, c
    <2>4. k <= c - n => rest[k] = C[k + n]
        <3>1. k <= c - n => k \in 1 .. c - n /\ n + k = k + n
            BY <1>3, <2>2
        <3>2. QED
            BY <1>7, <3>1
    <2>5. QED
        BY <1>8, <2>2, <2>3, <2>4
<1>10. C' = rest \o s
    <2>1. Len(C') = Len(rest \o s)
        BY <1>3, <1>6, <1>8
    <2>2. C' \in Seq(Value) /\ rest \o s \in Seq(Value)
        BY <1>6, <1>8
    <2>3. QED
        BY <1>9, <2>1, <2>2, SeqEqual
<1>11. /\ Popped(n) = {C[k] : k \in 1 .. n}
       /\ Pushed(s) = {s[k] : k \in DOMAIN s}
    <2>1. \A k \in 1 .. n : C[k] = Peek(fl, k - 1)
        BY <1>2, <1>3 DEF C, c, Contents
    <2>2. \A k \in 0 .. n - 1 : k + 1 \in 1 .. n /\ k = (k + 1) - 1
        BY <1>3
    <2>3. \A k \in 1 .. n : k - 1 \in 0 .. n - 1
        BY <1>3
    <2>4. QED
        BY <2>1, <2>2, <2>3 DEF Popped, Pushed
<1>12. QED
    BY <1>3, <1>4, <1>5, <1>10, <1>11 DEF C, rest, Fifo!Cycle

(* The ring implements the FIFO queue that its client may take it for. *)
THEOREM FreeListIsFifo ==
    ASSUME NoIndexOverflow
    PROVE  Spec => FifoSpec
<1>1. Init => Fifo!Init
    BY InitRefines
<1>2. FreeListInv /\ [Next]_vars => [Fifo!Next]_<<Contents(fl), held>>
    <2> SUFFICES ASSUME FreeListInv, [Next]_vars
                 PROVE  [Fifo!Next]_<<Contents(fl), held>>
        OBVIOUS
    <2>1. CASE Next
        <3>1. PICK n \in 0 .. POP_WIDTH, s \in Returns : Cycle(n, s)
            BY <2>1 DEF Next
        <3>2. Fifo!Cycle(n, s)
            BY <3>1, CycleRefines
        <3>3. Len(s) \in 0 .. PUSH_WIDTH /\ s \in [1 .. Len(s) -> held]
            BY ReturnsAreSequences
        <3>4. Fifo!Next
            BY <3>2, <3>3 DEF Fifo!Next
        <3>5. QED
            BY <3>4
    <2>2. CASE UNCHANGED vars
        BY <2>2 DEF vars, Contents, Peek
    <2>3. QED
        BY <2>1, <2>2
<1>3. QED
    BY <1>1, <1>2, FreeListCorrect, PTL DEF Spec, FifoSpec, Fifo!Spec
=============================================================================
