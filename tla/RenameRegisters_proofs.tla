----------------------- MODULE RenameRegisters_proofs -----------------------
(***************************************************************************)
(* No physical register is lost and none is allocated twice, for every     *)
(* size and width, as long as the sums of the free list pointers fit an    *)
(* IndexPath.                                                              *)
(*                                                                         *)
(* The registers are parted among the free list, the pipeline registers    *)
(* behind the committer, the destinations in the active list and the       *)
(* retirement RMT, each of which lists its part without repetition.  A     *)
(* cycle moves them along: a register is allocated to a lane, retires from *)
(* a destination into the RMT or, when a younger op of the cycle takes its *)
(* place, straight into the pipeline, and goes from there to the list.     *)
(* That what leaves the RMT is what the entries release is the program     *)
(* order of the maps (RenameRecovery_proofs).                              *)
(***************************************************************************)
EXTENDS RenameRecovery_proofs, FiniteSetTheorems, FunctionTheorems, SequenceTheorems

(* f takes every value of R exactly once on S *)
Lists(f, S, R) ==
    /\ \A x \in S : f[x] \in R
    /\ \A x, y \in S : f[x] = f[y] => x = y
    /\ \A v \in R : \E x \in S : f[x] = v

(* How many of the lanes S stand before lane j *)
Rank(S, j) == Cardinality({i \in S : i < j})

-----------------------------------------------------------------------------
(* The lanes of a port: compaction numbers those that are used. *)
LEMMA LanesAreFinite ==
    ASSUME NEW g \in Nat, NEW S \in SUBSET (1 .. g)
    PROVE  IsFiniteSet(S) /\ Cardinality(S) \in 0 .. g
<1>1. IsFiniteSet(1 .. g) /\ Cardinality(1 .. g) = g
    <2>1. Cardinality(1 .. g) = IF 1 > g THEN 0 ELSE g - 1 + 1
        BY FS_Interval
    <2>2. QED
        BY <2>1, FS_Interval
<1>2. /\ IsFiniteSet(S) /\ Cardinality(S) <= g
    BY <1>1, FS_Subset
<1>3. Cardinality(S) \in Nat
    BY <1>2, FS_CardinalityType
<1>4. QED
    BY <1>2, <1>3

LEMMA Ranks ==
    ASSUME NEW g \in Nat, NEW S \in SUBSET (1 .. g)
    PROVE  /\ \A j \in S : Rank(S, j) \in 0 .. Cardinality(S) - 1
           /\ \A i, j \in S : Rank(S, i) = Rank(S, j) => i = j
           /\ \A k \in 0 .. Cardinality(S) - 1 : \E j \in S : Rank(S, j) = k
<1> DEFINE m == Cardinality(S)
           Before(j) == {i \in S : i < j}
<1>1. IsFiniteSet(S) /\ m \in Nat
    BY LanesAreFinite
<1>2. \A j : Before(j) \in SUBSET S
    OBVIOUS
<1>3. \A j : IsFiniteSet(Before(j)) /\ Cardinality(Before(j)) \in Nat
    BY <1>1, <1>2, FS_Subset, FS_CardinalityType
<1>4. \A j : Rank(S, j) = Cardinality(Before(j))
    BY DEF Rank
<1>5. ASSUME NEW i \in S, NEW j \in S, i < j
      PROVE  Rank(S, i) < Rank(S, j)
    <2>1. i \notin Before(i) /\ Before(i) \cup {i} \subseteq Before(j)
        <3>1. \A k \in S : k \in Int
            OBVIOUS
        <3>2. ~(i < i) /\ \A k \in S : k < i => k < j
            BY <1>5, <3>1
        <3>3. QED
            BY <1>5, <3>2
    <2> HIDE DEF Before
    <2>2. Cardinality(Before(i) \cup {i}) = Cardinality(Before(i)) + 1
        BY <1>3, <2>1, FS_AddElement
    <2>3. Cardinality(Before(i) \cup {i}) <= Cardinality(Before(j))
        BY <1>3, <2>1, FS_Subset
    <2>4. QED
        BY <1>3, <1>4, <2>2, <2>3
<1>6. \A i, j \in S : Rank(S, i) = Rank(S, j) => i = j
    <2>1. ASSUME NEW i \in S, NEW j \in S, Rank(S, i) = Rank(S, j)
          PROVE  i = j
        <3>1. Rank(S, i) \in Nat /\ Rank(S, j) \in Nat /\ i \in Nat /\ j \in Nat
            <4>1. i \in 1 .. g /\ j \in 1 .. g
                OBVIOUS
            <4> HIDE DEF Before
            <4>2. QED
                BY <1>3, <1>4, <4>1
        <3>2. ~(i < j) /\ ~(j < i)
            BY <1>5, <2>1, <3>1
        <3>3. QED
            BY <3>1, <3>2
    <2>2. QED
        BY <2>1
<1>7. ASSUME NEW j \in S
      PROVE  Rank(S, j) \in 0 .. m - 1
    <2>1. j \notin Before(j) /\ Before(j) \cup {j} \subseteq S
        OBVIOUS
    <2> HIDE DEF Before
    <2>2. Cardinality(Before(j) \cup {j}) = Cardinality(Before(j)) + 1
        BY <1>3, <2>1, FS_AddElement
    <2>3. Cardinality(Before(j) \cup {j}) <= m
        BY <1>1, <2>1, FS_Subset
    <2> HIDE DEF m
    <2>4. QED
        BY <1>1, <1>3, <1>4, <2>2, <2>3
<1>8. ASSUME NEW k \in 0 .. m - 1
      PROVE  \E j \in S : Rank(S, j) = k
    <2> DEFINE r == [j \in S |-> Rank(S, j)]
               T == {r[j] : j \in S}
    <2>1. r \in Bijection(S, T)
        <3>1. r \in [S -> T]
            OBVIOUS
        <3>2. \A i, j \in S : r[i] = r[j] => i = j
            BY <1>6
        <3>3. \A t \in T : \E j \in S : r[j] = t
            OBVIOUS
        <3> HIDE DEF r, T
        <3>4. QED
            BY <3>1, <3>2, <3>3, Fun_IsBij
    <2>2. IsFiniteSet(T) /\ Cardinality(T) = m
        <3> HIDE DEF r, T
        <3>1. ExistsBijection(S, T)
            BY <2>1 DEF ExistsBijection
        <3>2. QED
            BY <1>1, <3>1, FS_Bijection
    <2>3. T \subseteq 0 .. m - 1
        BY <1>7
    <2>4. IsFiniteSet(0 .. m - 1) /\ Cardinality(0 .. m - 1) = m
        <3> HIDE DEF m
        <3>1. 0 \in Int /\ m - 1 \in Int
            BY <1>1
        <3>2. /\ IsFiniteSet(0 .. m - 1)
              /\ Cardinality(0 .. m - 1) = IF 0 > m - 1 THEN 0 ELSE (m - 1) - 0 + 1
            BY <3>1, FS_Interval
        <3>3. QED
            BY <1>1, <3>2
    <2>5. T = 0 .. m - 1
        <3> HIDE DEF T, m
        <3> QED BY <2>2, <2>3, <2>4, FS_Subset
    <2>6. PICK j \in S : r[j] = k
        BY <2>5
    <2>7. QED
        BY <2>6
<1>9. QED
    BY <1>6, <1>7, <1>8

(* The lanes in order are all lanes, each once. *)
LEMMA NthLaneLists ==
    ASSUME NEW g \in Nat, NEW S \in SUBSET (1 .. g)
    PROVE  Lists([k \in 1 .. Cardinality(S) |-> NthLane(S, k)], 1 .. Cardinality(S), S)
<1> DEFINE m == Cardinality(S)
           nth == [k \in 1 .. m |-> NthLane(S, k)]
<1>1. m \in Nat
    BY LanesAreFinite
<1>2. /\ \A j \in S : Rank(S, j) \in 0 .. m - 1
      /\ \A i, j \in S : Rank(S, i) = Rank(S, j) => i = j
      /\ \A k \in 0 .. m - 1 : \E j \in S : Rank(S, j) = k
    BY Ranks
<1>3. \A k : NthLane(S, k) = CHOOSE i \in S : Rank(S, i) = k - 1
    BY DEF NthLane, Rank
<1> HIDE DEF m
<1>4. \A k \in 1 .. m : k - 1 \in 0 .. m - 1 /\ k \in Int
    BY <1>1
<1>5. \A k \in 1 .. m : NthLane(S, k) \in S /\ Rank(S, NthLane(S, k)) = k - 1
    BY <1>2, <1>3, <1>4
<1>6. \A j \in S : Rank(S, j) + 1 \in 1 .. m /\ Rank(S, j) + 1 - 1 = Rank(S, j)
    BY <1>1, <1>2
<1>7. ASSUME NEW j \in S
      PROVE  NthLane(S, Rank(S, j) + 1) = j
    <2>1. PICK k \in 1 .. m : k = Rank(S, j) + 1
        BY <1>6
    <2>2. k - 1 = Rank(S, j)
        <3>1. Rank(S, j) \in Int
            BY <1>1, <1>2
        <3>2. QED
            BY <2>1, <3>1
    <2>3. NthLane(S, k) \in S /\ Rank(S, NthLane(S, k)) = Rank(S, j)
        BY <1>5, <2>1, <2>2
    <2>4. QED
        BY <1>2, <2>1, <2>3
<1>8. /\ \A k \in 1 .. m : nth[k] \in S
      /\ \A k, l \in 1 .. m : nth[k] = nth[l] => k = l
      /\ \A j \in S : \E k \in 1 .. m : nth[k] = j
    <2>1. ASSUME NEW k \in 1 .. m, NEW l \in 1 .. m, nth[k] = nth[l]
          PROVE  k = l
        <3>1. k - 1 = l - 1
            BY <1>5, <2>1
        <3>2. QED
            BY <1>4, <3>1
    <2>2. QED
        BY <1>5, <1>6, <1>7, <2>1
<1>9. QED
    BY <1>8 DEF Lists, m

(* Listing the values of v along a numbering of its places *)
LEMMA ListsAlong ==
    ASSUME NEW T, NEW S, NEW R, NEW nth, NEW v, NEW u,
           Lists(nth, T, S), Lists(v, S, R), \A k \in T : u[k] = v[nth[k]]
    PROVE  Lists(u, T, R)
<1>1. \A k \in T : nth[k] \in S /\ u[k] \in R
    BY DEF Lists
<1>2. ASSUME NEW j \in T, NEW k \in T, u[j] = u[k]
      PROVE  j = k
    <2>1. nth[j] = nth[k]
        BY <1>1, <1>2 DEF Lists
    <2>2. QED
        BY <2>1 DEF Lists
<1>3. ASSUME NEW x \in R
      PROVE  \E k \in T : u[k] = x
    <2>1. PICK y \in S : v[y] = x
        BY DEF Lists
    <2>2. PICK k \in T : nth[k] = y
        BY DEF Lists
    <2>3. QED
        BY <2>1, <2>2
<1>4. QED
    BY <1>1, <1>2, <1>3 DEF Lists

(* The k oldest values of a list *)
Taken(free, k) == {free[j] : j \in 1 .. k}

-----------------------------------------------------------------------------
(* A list of f values in a cycle: k are taken, the r values of pipe added. *)
IsClock(f, r, k, free, pipe, free2) ==
    /\ f \in Nat /\ r \in Nat /\ k \in 0 .. f
    /\ \A j \in 1 .. f + r - k :
          free2[j] = IF j <= f - k THEN free[j + k] ELSE pipe[j - (f - k)]

LEMMA ClockLists ==
    ASSUME NEW f, NEW r, NEW k, NEW free, NEW pipe, NEW free2, NEW F, NEW P,
           IsClock(f, r, k, free, pipe, free2),
           Lists(free, 1 .. f, F), Lists(pipe, 1 .. r, P), F \cap P = {}
    PROVE  /\ Lists(free2, 1 .. f + r - k, (F \ Taken(free, k)) \cup P)
           /\ Taken(free, k) \subseteq F
<1>0. f \in Nat /\ r \in Nat /\ k \in Nat /\ k <= f
    BY DEF IsClock
<1>1. \A j \in 1 .. f + r - k :
         /\ j \in Nat
         /\ j <= f - k => j + k \in 1 .. f /\ j + k > k /\ free2[j] = free[j + k]
         /\ ~(j <= f - k) => j - (f - k) \in 1 .. r /\ free2[j] = pipe[j - (f - k)]
    <2>1. ASSUME NEW j \in 1 .. f + r - k
          PROVE  /\ j \in Nat
                 /\ j <= f - k => j + k \in 1 .. f /\ j + k > k
                 /\ ~(j <= f - k) => j - (f - k) \in 1 .. r
        BY <1>0
    <2>2. QED
        BY <2>1 DEF IsClock
<1>2. \A j \in 1 .. k : j \in 1 .. f /\ j <= k
    BY <1>0
<1>3. Taken(free, k) \subseteq F
    BY <1>2 DEF Taken, Lists
<1>4. \A j \in 1 .. f : j > k => free[j] \in F /\ free[j] \notin Taken(free, k)
    <2>1. ASSUME NEW j \in 1 .. f, j > k, free[j] \in Taken(free, k)
          PROVE  FALSE
        <3>1. PICK i \in 1 .. k : free[i] = free[j]
            BY <2>1 DEF Taken
        <3>2. i = j
            BY <1>2, <3>1 DEF Lists
        <3>3. QED
            BY <1>0, <2>1, <3>2
    <2>2. QED
        BY <2>1 DEF Lists
<1>5. \A j \in 1 .. f + r - k : free2[j] \in (F \ Taken(free, k)) \cup P
    BY <1>1, <1>4 DEF Lists
<1>6. ASSUME NEW i \in 1 .. f + r - k, NEW j \in 1 .. f + r - k, free2[i] = free2[j]
      PROVE  i = j
    <2>1. CASE i <= f - k /\ j <= f - k
        <3>1. i + k = j + k
            BY <1>1, <1>6, <2>1 DEF Lists
        <3>2. QED
            BY <1>0, <1>1, <3>1
    <2>2. CASE ~(i <= f - k) /\ ~(j <= f - k)
        <3>1. i - (f - k) = j - (f - k)
            BY <1>1, <1>6, <2>2 DEF Lists
        <3>2. QED
            BY <1>0, <1>1, <3>1
    <2>3. CASE i <= f - k /\ ~(j <= f - k)
        BY <1>1, <1>6, <2>3 DEF Lists
    <2>4. CASE ~(i <= f - k) /\ j <= f - k
        BY <1>1, <1>6, <2>4 DEF Lists
    <2>5. QED
        BY <2>1, <2>2, <2>3, <2>4
<1>7. ASSUME NEW v \in (F \ Taken(free, k)) \cup P
      PROVE  \E j \in 1 .. f + r - k : free2[j] = v
    <2>1. CASE v \in F /\ v \notin Taken(free, k)
        <3>1. PICK i \in 1 .. f : free[i] = v
            BY <2>1 DEF Lists
        <3>2. ~(i \in 1 .. k)
            BY <2>1, <3>1 DEF Taken
        <3>3. PICK j : j = i - k
            OBVIOUS
        <3>4. j \in 1 .. f + r - k /\ j <= f - k /\ j + k = i
            BY <1>0, <3>2, <3>3
        <3>5. QED
            BY <1>1, <3>1, <3>4
    <2>2. CASE v \in P
        <3>1. PICK i \in 1 .. r : pipe[i] = v
            BY <2>2 DEF Lists
        <3>2. PICK j : j = i + (f - k)
            OBVIOUS
        <3>3. j \in 1 .. f + r - k /\ ~(j <= f - k) /\ j - (f - k) = i
            BY <1>0, <3>2
        <3>4. QED
            BY <1>1, <3>1, <3>3
    <2>3. QED
        BY <2>1, <2>2
<1>8. QED
    BY <1>3, <1>5, <1>6, <1>7 DEF Lists

(* The lanes S of a group of g take the oldest values of a list, in order. *)
IsPopped(g, S, f, free, lane) ==
    /\ g \in Nat /\ S \in SUBSET (1 .. g)
    /\ f \in Nat /\ Cardinality(S) \in 0 .. f
    /\ \A j \in S : lane[j] = free[Rank(S, j) + 1]

LEMMA LanesList ==
    ASSUME NEW g, NEW S, NEW f, NEW free, NEW lane, NEW F,
           IsPopped(g, S, f, free, lane), Lists(free, 1 .. f, F)
    PROVE  Lists(lane, S, Taken(free, Cardinality(S)))
<1> DEFINE k == Cardinality(S)
<1>1. /\ g \in Nat /\ S \in SUBSET (1 .. g) /\ f \in Nat /\ k \in 0 .. f
      /\ \A j \in S : lane[j] = free[Rank(S, j) + 1]
    BY DEF IsPopped
<1>2. /\ \A j \in S : Rank(S, j) \in 0 .. k - 1
      /\ \A i, j \in S : Rank(S, i) = Rank(S, j) => i = j
      /\ \A i \in 0 .. k - 1 : \E j \in S : Rank(S, j) = i
    BY <1>1, Ranks
<1> HIDE DEF k
<1>3. \A i \in 0 .. k - 1 : i + 1 \in 1 .. k /\ i + 1 \in 1 .. f /\ i \in Int
    BY <1>1
<1>4. \A j \in S : lane[j] \in Taken(free, k)
    BY <1>1, <1>2, <1>3 DEF Taken
<1>5. ASSUME NEW i \in S, NEW j \in S, lane[i] = lane[j]
      PROVE  i = j
    <2>1. Rank(S, i) + 1 = Rank(S, j) + 1
        BY <1>1, <1>2, <1>3, <1>5 DEF Lists
    <2>2. Rank(S, i) = Rank(S, j)
        BY <1>2, <1>3, <2>1
    <2>3. QED
        BY <1>2, <2>2
<1>6. ASSUME NEW v \in Taken(free, k)
      PROVE  \E j \in S : lane[j] = v
    <2>1. PICK i \in 1 .. k : v = free[i]
        BY DEF Taken
    <2>2. i - 1 \in 0 .. k - 1 /\ (i - 1) + 1 = i
        BY <1>1
    <2>3. PICK j \in S : Rank(S, j) = i - 1
        BY <1>2, <2>2
    <2>4. QED
        BY <1>1, <2>1, <2>2, <2>3
<1>7. QED
    BY <1>4, <1>5, <1>6 DEF Lists, k

(* The values of some of the places *)
ValuesAt(val, S) == {val[i] : i \in S}

LEMMA SomeAreListed ==
    ASSUME NEW val, NEW W, NEW D, NEW S \in SUBSET W, Lists(val, W, D)
    PROVE  /\ Lists(val, S, ValuesAt(val, S))
           /\ Lists(val, W \ S, D \ ValuesAt(val, S))
           /\ ValuesAt(val, S) \subseteq D
BY DEF Lists, ValuesAt

(* The places of the window after a cycle: the older ones have gone, the   *)
(* lanes have joined.                                                      *)
LEMMA WindowList ==
    ASSUME NEW c, NEW n, NEW g, NEW W, NEW L, NEW X, NEW val, NEW lane, NEW val2,
           NEW D, NEW A,
           IsCycle(c, n, g, W, L, X, val, lane, val2),
           Lists(val, W, D), Lists(lane, L, A), A \cap D = {}
    PROVE  Lists(val2, X, (D \ ValuesAt(val, Below(W, n))) \cup A)
<1> DEFINE Kept2 == D \ ValuesAt(val, Below(W, n))
<1>a. c \in Nat /\ n \in Nat /\ n <= c /\ g \in Nat
    BY DEF IsCycle
<1>b. /\ \A i \in W : i \in 0 .. c - 1
      /\ \A i \in L : i \in 1 .. g
      /\ \A i \in X : i \in 0 .. c + g - n - 1
    BY DEF IsCycle
<1>c. /\ \A i \in 0 .. c - n - 1 : i \in X <=> n + i \in W
      /\ \A i \in 0 .. c - n - 1 : i \in X => val2[i] = val[n + i]
    BY DEF IsCycle
<1>d. /\ \A j \in 1 .. g : c - n + j - 1 \in X <=> j \in L
      /\ \A j \in 1 .. g : j \in L => val2[c - n + j - 1] = lane[j]
    BY DEF IsCycle
<1>1. ASSUME NEW i \in X
      PROVE  /\ i \in Nat
             /\ i < c - n => n + i \in W \ Below(W, n) /\ val2[i] = val[n + i]
             /\ ~(i < c - n) => /\ i - (c - n) + 1 \in L
                                /\ val2[i] = lane[i - (c - n) + 1]
    <2>1. i \in Nat /\ i < c + g - n
        BY <1>a, <1>b
    <2>2. ASSUME i < c - n
          PROVE  n + i \in W \ Below(W, n) /\ val2[i] = val[n + i]
        <3>1. i \in 0 .. c - n - 1 /\ ~(n + i < n)
            BY <1>a, <2>1, <2>2
        <3>2. QED
            BY <1>c, <3>1 DEF Below
    <2>3. ASSUME ~(i < c - n)
          PROVE  i - (c - n) + 1 \in L /\ val2[i] = lane[i - (c - n) + 1]
        <3>1. PICK j : j = i - (c - n) + 1
            OBVIOUS
        <3>2. j \in 1 .. g /\ c - n + j - 1 = i
            BY <1>a, <2>1, <2>3, <3>1
        <3>3. QED
            BY <1>d, <3>1, <3>2
    <2>4. QED
        BY <2>1, <2>2, <2>3
<1>2. Lists(val, W \ Below(W, n), Kept2) /\ Below(W, n) \subseteq W
    <2>1. Below(W, n) \in SUBSET W
        BY DEF Below
    <2>2. QED
        BY <2>1, SomeAreListed
<1>3. Kept2 \cap A = {}
    OBVIOUS
<1> HIDE DEF Kept2
<1>4. \A i \in X : val2[i] \in Kept2 \cup A
    BY <1>1, <1>2 DEF Lists
<1>5. ASSUME NEW i \in X, NEW j \in X, val2[i] = val2[j]
      PROVE  i = j
    <2>1. CASE i < c - n /\ j < c - n
        <3>1. n + i = n + j
            BY <1>1, <1>2, <1>5, <2>1 DEF Lists
        <3>2. QED
            BY <1>a, <1>1, <3>1
    <2>2. CASE ~(i < c - n) /\ ~(j < c - n)
        <3>1. i - (c - n) + 1 = j - (c - n) + 1
            BY <1>1, <1>5, <2>2 DEF Lists
        <3>2. QED
            BY <1>a, <1>1, <3>1
    <2>3. CASE i < c - n /\ ~(j < c - n)
        <3>1. val2[i] \in Kept2 /\ val2[j] \in A
            BY <1>1, <1>2, <2>3 DEF Lists
        <3>2. QED
            BY <1>3, <1>5, <3>1
    <2>4. CASE ~(i < c - n) /\ j < c - n
        <3>1. val2[j] \in Kept2 /\ val2[i] \in A
            BY <1>1, <1>2, <2>4 DEF Lists
        <3>2. QED
            BY <1>3, <1>5, <3>1
    <2>5. QED
        BY <2>1, <2>2, <2>3, <2>4
<1>6. ASSUME NEW v \in Kept2 \cup A
      PROVE  \E i \in X : val2[i] = v
    <2>1. CASE v \in Kept2
        <3>1. PICK k \in W : val[k] = v /\ k \notin Below(W, n)
            BY <1>2, <2>1 DEF Lists
        <3>2. k \in 0 .. c - 1 /\ ~(k < n)
            BY <1>b, <3>1 DEF Below
        <3>3. PICK i : i = k - n
            OBVIOUS
        <3>4. i \in 0 .. c - n - 1 /\ n + i = k
            BY <1>a, <3>2, <3>3
        <3>5. QED
            BY <1>c, <3>1, <3>4
    <2>2. CASE v \in A
        <3>1. PICK j \in L : lane[j] = v
            BY <2>2 DEF Lists
        <3>2. QED
            BY <1>b, <1>d, <3>1
    <2>3. QED
        BY <2>1, <2>2
<1>7. QED
    BY <1>4, <1>5, <1>6 DEF Lists, Kept2

-----------------------------------------------------------------------------
(* Retiring the places R, each of which writes val[i] to key[i]: the map    *)
(* takes the last value of a key, and prev[i] is what place i replaces.     *)
Same(R, key, x) == {i \in R : key[i] = x}

IsRetired(k, R, Keys, key, val, map, prev, map2) ==
    /\ k \in Nat /\ R \in SUBSET (0 .. k)
    /\ \A i \in R : key[i] \in Keys
    /\ \A i \in R :
          prev[i] = Last(Below(Same(R, key, key[i]), i), val, map[key[i]])
    /\ \A x \in Keys : map2[x] = Last(Same(R, key, x), val, map[x])

(* What prev[i] is: the value of the writer before, or the map. *)
LEMMA Replaced ==
    ASSUME NEW k, NEW R, NEW Keys, NEW key, NEW val, NEW map, NEW prev, NEW map2,
           IsRetired(k, R, Keys, key, val, map, prev, map2), NEW i \in R
    PROVE  \/ \E h \in R : /\ h < i /\ key[h] = key[i] /\ prev[i] = val[h]
                           /\ \A j \in R : j < i /\ key[j] = key[i] => j <= h
           \/ /\ \A j \in R : key[j] = key[i] => ~(j < i)
              /\ prev[i] = map[key[i]]
<1> DEFINE B == Below(Same(R, key, key[i]), i)
<1>1. k \in Nat /\ R \in SUBSET (0 .. k) /\ prev[i] = Last(B, val, map[key[i]])
    BY DEF IsRetired
<1>2. /\ B \in SUBSET (0 .. k)
      /\ \A j : j \in B <=> j \in R /\ key[j] = key[i] /\ j < i
    BY <1>1 DEF Below, Same
<1> HIDE DEF B
<1>3. CASE B = {}
    BY <1>1, <1>2, <1>3 DEF Last
<1>4. CASE B # {}
    <2>1. MaxOf(B) \in B /\ \A y \in B : y <= MaxOf(B)
        BY <1>1, <1>2, <1>4, MaxOfFacts
    <2>2. prev[i] = val[MaxOf(B)]
        BY <1>1, <1>4 DEF Last
    <2>3. QED
        BY <1>2, <2>1, <2>2
<1>5. QED
    BY <1>3, <1>4

(* What the map holds: the value of the last writer, or what it held. *)
LEMMA Mapped ==
    ASSUME NEW k, NEW R, NEW Keys, NEW key, NEW val, NEW map, NEW prev, NEW map2,
           IsRetired(k, R, Keys, key, val, map, prev, map2), NEW x \in Keys
    PROVE  \/ \E h \in R : /\ key[h] = x /\ map2[x] = val[h]
                           /\ \A j \in R : key[j] = x => j <= h
           \/ (\A j \in R : key[j] # x) /\ map2[x] = map[x]
<1> DEFINE B == Same(R, key, x)
<1>1. k \in Nat /\ R \in SUBSET (0 .. k) /\ map2[x] = Last(B, val, map[x])
    BY DEF IsRetired
<1>2. /\ B \in SUBSET (0 .. k)
      /\ \A j : j \in B <=> j \in R /\ key[j] = x
    BY <1>1 DEF Same
<1> HIDE DEF B
<1>3. CASE B = {}
    BY <1>1, <1>2, <1>3 DEF Last
<1>4. CASE B # {}
    <2>1. MaxOf(B) \in B /\ \A y \in B : y <= MaxOf(B)
        BY <1>1, <1>2, <1>4, MaxOfFacts
    <2>2. map2[x] = val[MaxOf(B)]
        BY <1>1, <1>4 DEF Last
    <2>3. QED
        BY <1>2, <2>1, <2>2
<1>5. QED
    BY <1>3, <1>4

(* What the writers bring and the map holds is what they release and the   *)
(* map holds after them.                                                   *)
LEMMA RetireLists ==
    ASSUME NEW k, NEW R, NEW Keys, NEW key, NEW val, NEW map, NEW prev, NEW map2,
           NEW D, NEW M,
           IsRetired(k, R, Keys, key, val, map, prev, map2),
           Lists(val, R, D), Lists(map, Keys, M), D \cap M = {}
    PROVE  \E P, M2 : /\ Lists(prev, R, P) /\ Lists(map2, Keys, M2)
                      /\ P \cap M2 = {} /\ P \cup M2 = D \cup M
<1> DEFINE P == ValuesAt(prev, R)
           M2 == ValuesAt(map2, Keys)
<1>1. /\ k \in Nat /\ \A i \in R : i \in 0 .. k
      /\ \A i \in R : key[i] \in Keys
    BY DEF IsRetired
<1>2. /\ \A i \in R : val[i] \in D
      /\ \A i, j \in R : val[i] = val[j] => i = j
      /\ \A x \in Keys : map[x] \in M
      /\ \A x, y \in Keys : map[x] = map[y] => x = y
      /\ \A i \in R : \A x \in Keys : val[i] # map[x]
    BY DEF Lists
<1>3. \A i \in R :
         \/ \E h \in R : /\ h < i /\ key[h] = key[i] /\ prev[i] = val[h]
                         /\ \A j \in R : j < i /\ key[j] = key[i] => j <= h
         \/ /\ \A j \in R : key[j] = key[i] => ~(j < i)
            /\ prev[i] = map[key[i]]
    BY Replaced
<1>4. \A x \in Keys :
         \/ \E h \in R : /\ key[h] = x /\ map2[x] = val[h]
                         /\ \A j \in R : key[j] = x => j <= h
         \/ (\A j \in R : key[j] # x) /\ map2[x] = map[x]
    BY Mapped
<1>5. ASSUME NEW i \in R, NEW j \in R, prev[i] = prev[j], i < j
      PROVE  FALSE
    <2>1. CASE key[i] = key[j]
        <3>1. PICK h \in R : prev[j] = val[h] /\ i <= h
            BY <1>3, <1>5, <2>1
        <3>2. PICK h2 \in R : prev[i] = val[h2] /\ h2 < i
            BY <1>1, <1>2, <1>3, <1>5, <3>1
        <3>3. h = h2
            BY <1>2, <1>5, <3>1, <3>2
        <3>4. QED
            BY <1>1, <3>1, <3>2, <3>3
    <2>2. CASE key[i] # key[j]
        BY <1>1, <1>2, <1>3, <1>5, <2>2
    <2>3. QED
        BY <2>1, <2>2
<1>6. \A i, j \in R : prev[i] = prev[j] => i = j
    BY <1>1, <1>5
<1>7. \A x, y \in Keys : map2[x] = map2[y] => x = y
    BY <1>2, <1>4
<1>8. ASSUME NEW i \in R, NEW x \in Keys, prev[i] = map2[x]
      PROVE  FALSE
    <2>1. CASE key[i] = x
        <3>1. PICK h \in R : map2[x] = val[h] /\ i <= h
            BY <1>4, <2>1
        <3>2. PICK h2 \in R : prev[i] = val[h2] /\ h2 < i
            BY <1>1, <1>2, <1>3, <1>8, <3>1
        <3>3. QED
            BY <1>1, <1>2, <1>8, <3>1, <3>2
    <2>2. CASE key[i] # x
        BY <1>1, <1>2, <1>3, <1>4, <1>8, <2>2
    <2>3. QED
        BY <2>1, <2>2
<1>9. /\ \A i \in R : prev[i] \in D \cup M
      /\ \A x \in Keys : map2[x] \in D \cup M
    BY <1>1, <1>2, <1>3, <1>4
<1>10. ASSUME NEW S \in SUBSET R, S # {}
       PROVE  \E m \in S : \A s \in S : m <= s
    BY <1>1, <1>10, LeastElement
<1>11. ASSUME NEW h \in R
       PROVE  val[h] \in P \cup M2
    <2> DEFINE Later == {i \in R : key[i] = key[h] /\ h < i}
    <2>1. CASE Later = {}
        <3>1. \A j \in R : key[j] = key[h] => j <= h
            BY <1>1, <2>1
        <3>2. PICK h2 \in R : /\ key[h2] = key[h] /\ map2[key[h]] = val[h2]
                              /\ \A j \in R : key[j] = key[h] => j <= h2
            BY <1>1, <1>4
        <3>3. h2 <= h /\ h <= h2
            BY <3>1, <3>2
        <3>4. h2 = h
            BY <1>1, <3>3
        <3>5. QED
            BY <1>1, <3>2, <3>4 DEF ValuesAt
    <2>2. CASE Later # {}
        <3>1. PICK i \in Later : \A j \in Later : i <= j
            BY <1>10, <2>2
        <3>2. \A j \in R : key[j] = key[h] /\ j < i => j <= h
            BY <1>1, <3>1
        <3>3. PICK h2 \in R : /\ h2 < i /\ key[h2] = key[h] /\ prev[i] = val[h2]
                              /\ \A j \in R : j < i /\ key[j] = key[h] => j <= h2
            BY <1>3, <3>1
        <3>4. h2 <= h /\ h <= h2
            BY <3>1, <3>2, <3>3
        <3>5. h2 = h
            BY <1>1, <3>4
        <3>6. QED
            BY <3>1, <3>3, <3>5 DEF ValuesAt
    <2>3. QED
        BY <2>1, <2>2
<1>12. ASSUME NEW x \in Keys
       PROVE  map[x] \in P \cup M2
    <2> DEFINE All == {i \in R : key[i] = x}
    <2>1. CASE All = {}
        BY <1>4, <2>1 DEF ValuesAt
    <2>2. CASE All # {}
        <3>1. PICK i \in All : \A j \in All : i <= j
            BY <1>10, <2>2
        <3>2. \A j \in R : key[j] = key[i] => ~(j < i)
            BY <1>1, <3>1
        <3>3. prev[i] = map[x]
            BY <1>3, <3>1, <3>2
        <3>4. QED
            BY <3>1, <3>3 DEF ValuesAt
    <2>3. QED
        BY <2>1, <2>2
<1>13. P \cup M2 = D \cup M
    <2>1. D \cup M \subseteq P \cup M2
        BY <1>11, <1>12 DEF Lists
    <2>2. P \cup M2 \subseteq D \cup M
        BY <1>9 DEF ValuesAt
    <2>3. QED
        BY <2>1, <2>2
<1>14. P \cap M2 = {}
    BY <1>8 DEF ValuesAt
<1>15. Lists(prev, R, P) /\ Lists(map2, Keys, M2)
    BY <1>6, <1>7 DEF Lists, ValuesAt
<1>16. QED
    BY <1>13, <1>14, <1>15

(* The used ones of g lanes hand the values of the places S on, compacted: *)
(* lane k stands for place at[k].                                          *)
IsPushed(g, T, S, at, v, pipe) ==
    /\ g \in Nat /\ T \in SUBSET (1 .. g)
    /\ Lists(at, T, S)
    /\ \A k \in 1 .. Cardinality(T) : pipe[k] = v[at[NthLane(T, k)]]

LEMMA PipeList ==
    ASSUME NEW g, NEW T, NEW S, NEW at, NEW v, NEW pipe, NEW P,
           IsPushed(g, T, S, at, v, pipe), Lists(v, S, P)
    PROVE  Lists(pipe, 1 .. Cardinality(T), P)
<1> DEFINE m == 1 .. Cardinality(T)
           nth == [k \in m |-> NthLane(T, k)]
           place == [k \in m |-> at[nth[k]]]
<1>1. /\ g \in Nat /\ T \in SUBSET (1 .. g) /\ Lists(at, T, S)
      /\ \A k \in m : pipe[k] = v[at[NthLane(T, k)]]
    BY DEF IsPushed
<1>2. Lists(nth, m, T)
    BY <1>1, NthLaneLists
<1>3. \A k \in m : place[k] = at[nth[k]] /\ pipe[k] = v[place[k]]
    BY <1>1
<1> HIDE DEF m, nth, place
<1>4. Lists(place, m, S)
    BY <1>1, <1>2, <1>3, ListsAlong
<1>5. Lists(pipe, m, P)
    BY <1>3, <1>4, ListsAlong
<1>6. QED
    BY <1>5 DEF m

-----------------------------------------------------------------------------
(* The registers are parted among the list, the pipeline registers, the    *)
(* destinations of the window and the map.                                 *)
Parted(Regs, F, P, D, M) ==
    /\ F \cap P = {} /\ F \cap D = {} /\ F \cap M = {}
    /\ P \cap D = {} /\ P \cap M = {} /\ D \cap M = {}
    /\ Regs = F \cup P \cup D \cup M

Conserved(Regs, free, f, pipe, r, dst, W, map, Keys) ==
    \E F, P, D, M :
        /\ Parted(Regs, F, P, D, M)
        /\ Lists(free, 1 .. f, F) /\ Lists(pipe, 1 .. r, P)
        /\ Lists(dst, W, D) /\ Lists(map, Keys, M)

(* A cycle that renames the lanes L and retires the n oldest of the window *)
LEMMA CycleConserves ==
    ASSUME NEW Regs, NEW f, NEW free, NEW free2, NEW r, NEW pipe, NEW pipe2,
           NEW c, NEW n, NEW g, NEW W, NEW L, NEW X,
           NEW dst, NEW dst2, NEW lane,
           NEW k, NEW Keys, NEW key, NEW map, NEW map2, NEW prev,
           NEW T, NEW at,
           Conserved(Regs, free, f, pipe, r, dst, W, map, Keys),
           IsClock(f, r, Cardinality(L), free, pipe, free2),
           IsPopped(g, L, f, free, lane),
           IsCycle(c, n, g, W, L, X, dst, lane, dst2),
           IsRetired(k, Below(W, n), Keys, key, dst, map, prev, map2),
           IsPushed(n, T, Below(W, n), at, prev, pipe2)
    PROVE  Conserved(Regs, free2, f + r - Cardinality(L), pipe2, Cardinality(T),
                     dst2, X, map2, Keys)
<1>1. PICK F, P, D, M :
         /\ Parted(Regs, F, P, D, M)
         /\ Lists(free, 1 .. f, F) /\ Lists(pipe, 1 .. r, P)
         /\ Lists(dst, W, D) /\ Lists(map, Keys, M)
    BY DEF Conserved
<1> DEFINE A == Taken(free, Cardinality(L))
           DR == ValuesAt(dst, Below(W, n))
<1>2. Lists(free2, 1 .. f + r - Cardinality(L), (F \ A) \cup P) /\ A \subseteq F
    BY <1>1, ClockLists DEF Parted
<1>3. Lists(lane, L, A)
    BY <1>1, LanesList
<1>4. Lists(dst2, X, (D \ DR) \cup A)
    <2>1. A \cap D = {}
        BY <1>1, <1>2 DEF Parted
    <2> HIDE DEF A
    <2>2. QED
        BY <1>1, <1>3, <2>1, WindowList
<1>5. Lists(dst, Below(W, n), DR) /\ DR \subseteq D
    <2>1. Below(W, n) \in SUBSET W
        BY DEF Below
    <2>2. QED
        BY <1>1, <2>1, SomeAreListed
<1> HIDE DEF A, DR
<1>6. PICK P2, M2 : /\ Lists(prev, Below(W, n), P2) /\ Lists(map2, Keys, M2)
                    /\ P2 \cap M2 = {} /\ P2 \cup M2 = DR \cup M
    <2>1. DR \cap M = {}
        BY <1>1, <1>5 DEF Parted
    <2>2. QED
        BY <1>1, <1>5, <2>1, RetireLists
<1>7. Lists(pipe2, 1 .. Cardinality(T), P2)
    BY <1>6, PipeList
<1>8. Parted(Regs, (F \ A) \cup P, P2, (D \ DR) \cup A, M2)
    BY <1>1, <1>2, <1>5, <1>6 DEF Parted
<1>9. QED
    BY <1>2, <1>4, <1>6, <1>7, <1>8 DEF Conserved

(* A cycle in which the places that leave the window are undone *)
LEMMA PopConserves ==
    ASSUME NEW Regs, NEW f, NEW free, NEW free2, NEW r, NEW pipe, NEW pipe2,
           NEW W, NEW X, NEW dst, NEW dst2, NEW Keys, NEW map,
           NEW n, NEW T, NEW at,
           Conserved(Regs, free, f, pipe, r, dst, W, map, Keys),
           IsClock(f, r, 0, free, pipe, free2),
           X \in SUBSET W, \A i \in X : dst2[i] = dst[i],
           IsPushed(n, T, W \ X, at, dst, pipe2)
    PROVE  Conserved(Regs, free2, f + r - 0, pipe2, Cardinality(T), dst2, X, map, Keys)
<1>1. PICK F, P, D, M :
         /\ Parted(Regs, F, P, D, M)
         /\ Lists(free, 1 .. f, F) /\ Lists(pipe, 1 .. r, P)
         /\ Lists(dst, W, D) /\ Lists(map, Keys, M)
    BY DEF Conserved
<1> DEFINE DX == ValuesAt(dst, X)
<1>2. Lists(free2, 1 .. f + r - 0, F \cup P)
    <2>1. Lists(free2, 1 .. f + r - 0, (F \ Taken(free, 0)) \cup P)
        BY <1>1, ClockLists DEF Parted
    <2>2. Taken(free, 0) = {}
        BY DEF Taken
    <2>3. (F \ Taken(free, 0)) \cup P = F \cup P
        BY <2>2
    <2>4. QED
        BY <2>1, <2>3
<1>3. Lists(dst, X, DX) /\ Lists(dst, W \ X, D \ DX) /\ DX \subseteq D
    BY <1>1, SomeAreListed
<1> HIDE DEF DX
<1>4. Lists(dst2, X, DX)
    BY <1>3 DEF Lists
<1>5. Lists(pipe2, 1 .. Cardinality(T), D \ DX)
    BY <1>3, PipeList
<1>6. Parted(Regs, F \cup P, D \ DX, DX, M)
    BY <1>1, <1>3 DEF Parted
<1>7. QED
    BY <1>1, <1>2, <1>4, <1>5, <1>6 DEF Conserved

-----------------------------------------------------------------------------
(* As many places as values *)
LEMMA ListSize ==
    ASSUME NEW v, NEW S, NEW R, IsFiniteSet(S), Lists(v, S, R)
    PROVE  IsFiniteSet(R) /\ Cardinality(R) = Cardinality(S)
<1> DEFINE b == [x \in S |-> v[x]]
<1>1. b \in [S -> R] /\ \A x \in S : b[x] = v[x]
    BY DEF Lists
<1> HIDE DEF b
<1>2. \A x, y \in S : b[x] = b[y] => x = y
    BY <1>1 DEF Lists
<1>3. \A t \in R : \E x \in S : b[x] = t
    BY <1>1 DEF Lists
<1>4. b \in Bijection(S, R)
    BY <1>1, <1>2, <1>3, Fun_IsBij
<1>5. ExistsBijection(S, R)
    BY <1>4 DEF ExistsBijection
<1>6. QED
    BY <1>5, FS_Bijection

LEMMA DisjointSizes ==
    ASSUME NEW S, NEW T, IsFiniteSet(S), IsFiniteSet(T), S \cap T = {}
    PROVE  IsFiniteSet(S \cup T) /\ Cardinality(S \cup T) = Cardinality(S) + Cardinality(T)
<1>1. /\ IsFiniteSet(S \cup T)
      /\ Cardinality(S \cup T) = Cardinality(S) + Cardinality(T) - Cardinality(S \cap T)
    BY FS_Union
<1>2. Cardinality(S \cap T) = 0
    BY FS_EmptySet
<1>3. Cardinality(S) \in Nat /\ Cardinality(T) \in Nat
    BY FS_CardinalityType
<1>4. QED
    BY <1>1, <1>2, <1>3

(* The list and the pipeline registers never hold more than the registers  *)
(* beyond the mapped ones.                                                 *)
LEMMA ConservedSizes ==
    ASSUME NEW Regs, NEW free, NEW f \in Nat, NEW pipe, NEW r \in Nat, NEW dst, NEW W,
           NEW map, NEW Keys, IsFiniteSet(W), IsFiniteSet(Keys),
           Conserved(Regs, free, f, pipe, r, dst, W, map, Keys)
    PROVE  /\ Cardinality(W) \in Nat /\ Cardinality(Keys) \in Nat
           /\ f + r + Cardinality(W) + Cardinality(Keys) = Cardinality(Regs)
<1>1. PICK F, P, D, M :
         /\ Parted(Regs, F, P, D, M)
         /\ Lists(free, 1 .. f, F) /\ Lists(pipe, 1 .. r, P)
         /\ Lists(dst, W, D) /\ Lists(map, Keys, M)
    BY DEF Conserved
<1>2. ASSUME NEW m \in Nat
      PROVE  IsFiniteSet(1 .. m) /\ Cardinality(1 .. m) = m
    <2>1. Cardinality(1 .. m) = IF 1 > m THEN 0 ELSE m - 1 + 1
        BY FS_Interval
    <2>2. QED
        BY <2>1, FS_Interval
<1>3. /\ IsFiniteSet(F) /\ Cardinality(F) = f
      /\ IsFiniteSet(P) /\ Cardinality(P) = r
    BY <1>1, <1>2, ListSize
<1>4. /\ IsFiniteSet(D) /\ Cardinality(D) = Cardinality(W)
      /\ IsFiniteSet(M) /\ Cardinality(M) = Cardinality(Keys)
    BY <1>1, ListSize
<1>5. /\ F \cap P = {} /\ (F \cup P) \cap D = {} /\ (F \cup P \cup D) \cap M = {}
      /\ Regs = F \cup P \cup D \cup M
    BY <1>1 DEF Parted
<1>6. IsFiniteSet(F \cup P) /\ Cardinality(F \cup P) = f + r
    BY <1>3, <1>5, DisjointSizes
<1>7. IsFiniteSet(F \cup P \cup D) /\ Cardinality(F \cup P \cup D) = f + r + Cardinality(W)
    BY <1>4, <1>5, <1>6, DisjointSizes
<1>8. Cardinality(Regs) = f + r + Cardinality(W) + Cardinality(Keys)
    BY <1>4, <1>5, <1>7, DisjointSizes
<1>9. QED
    BY <1>8, FS_CardinalityType

(* Each register has exactly one place. *)
LEMMA OnlyPlace ==
    ASSUME NEW v, NEW S, NEW R, Lists(v, S, R), NEW x
    PROVE  /\ IsFiniteSet({i \in S : v[i] = x})
           /\ Cardinality({i \in S : v[i] = x}) = IF x \in R THEN 1 ELSE 0
<1>1. CASE x \in R
    <2>1. PICK i \in S : v[i] = x
        BY <1>1 DEF Lists
    <2>2. {j \in S : v[j] = x} = {i}
        BY <2>1 DEF Lists
    <2>3. QED
        BY <1>1, <2>2, FS_Singleton
<1>2. CASE x \notin R
    <2>1. {j \in S : v[j] = x} = {}
        BY <1>2 DEF Lists
    <2>2. QED
        BY <1>2, <2>1, FS_EmptySet
<1>3. QED
    BY <1>1, <1>2

-----------------------------------------------------------------------------
(* The free lists of the core are lists of MultiWidthFreeList. *)
GP == INSTANCE MultiWidthFreeList_proofs WITH
    SIZE <- SCALAR_FREE_LIST_ENTRY_NUM, INDEX_MOD <- SCALAR_INDEX_MOD,
    INITIAL_LENGTH <- SCALAR_FREE_LIST_ENTRY_NUM,
    PUSH_WIDTH <- COMMIT_WIDTH, POP_WIDTH <- RENAME_WIDTH,
    LOGICAL_NUM <- Cardinality(LReg), fl <- gprFree,
    held <- SCALAR_FREE_LIST_ENTRY_NUM ..
                SCALAR_FREE_LIST_ENTRY_NUM + Cardinality(LReg) - 1
FP == INSTANCE MultiWidthFreeList_proofs WITH
    SIZE <- FLAG_FREE_LIST_ENTRY_NUM, INDEX_MOD <- FLAG_INDEX_MOD,
    INITIAL_LENGTH <- FLAG_FREE_LIST_ENTRY_NUM,
    PUSH_WIDTH <- COMMIT_WIDTH, POP_WIDTH <- RENAME_WIDTH,
    LOGICAL_NUM <- 1, fl <- flagFree,
    held <- FLAG_FREE_LIST_ENTRY_NUM .. FLAG_FREE_LIST_ENTRY_NUM + 1 - 1

(* The sizes and widths of the core are those the lists assume. *)
LEMMA Sizes ==
    /\ SCALAR_FREE_LIST_ENTRY_NUM \in Nat \ {0} /\ SCALAR_INDEX_MOD \in Nat
    /\ SCALAR_FREE_LIST_ENTRY_NUM <= SCALAR_INDEX_MOD
    /\ FLAG_FREE_LIST_ENTRY_NUM \in Nat \ {0} /\ FLAG_INDEX_MOD \in Nat
    /\ FLAG_FREE_LIST_ENTRY_NUM <= FLAG_INDEX_MOD
    /\ RENAME_WIDTH \in Nat \ {0} /\ COMMIT_WIDTH \in Nat \ {0}
    /\ RENAME_WIDTH <= SCALAR_FREE_LIST_ENTRY_NUM
    /\ COMMIT_WIDTH <= SCALAR_FREE_LIST_ENTRY_NUM
    /\ RENAME_WIDTH <= FLAG_FREE_LIST_ENTRY_NUM
    /\ COMMIT_WIDTH <= FLAG_FREE_LIST_ENTRY_NUM
    /\ IsFiniteSet(LReg) /\ Cardinality(LReg) \in Nat
    /\ LReg = 0 .. Cardinality(LReg) - 1
<1>1. IsFiniteSet(LReg) /\ Cardinality(LReg) \in Nat
    BY RegisterAssumption, FS_CardinalityType DEF RegisterAssumption
<1>2. QED
    BY <1>1, RegisterAssumption, CoreAssumption, CommitWidthAssumption
    DEF RegisterAssumption, CoreAssumption, CommitWidthAssumption

LEMMA ListsFitTheModel ==
    /\ GP!QueueSizeAssumption /\ GP!WidthAssumption
    /\ FP!QueueSizeAssumption /\ FP!WidthAssumption
BY Sizes DEF GP!QueueSizeAssumption, GP!WidthAssumption,
             FP!QueueSizeAssumption, FP!WidthAssumption

LEMMA SameOperators ==
    /\ \A f, n, s : GPR!Clock(f, n, s) = GP!Clock(f, n, s)
    /\ \A f : GPR!Contents(f) = GP!Contents(f)
    /\ \A f, n : GPR!Peek(f, n) = GP!Peek(f, n)
    /\ \A f, n, s : FLG!Clock(f, n, s) = FP!Clock(f, n, s)
    /\ \A f : FLG!Contents(f) = FP!Contents(f)
    /\ \A f, n : FLG!Peek(f, n) = FP!Peek(f, n)
BY DEF GPR!Clock, GP!Clock, GPR!Contents, GP!Contents, GPR!Peek, GP!Peek,
    GPR!PushAddr, GP!PushAddr, GPR!WrapAdd, GP!WrapAdd, GPR!Advance, GP!Advance,
    GPR!Trunc, GP!Trunc,
    FLG!Clock, FP!Clock, FLG!Contents, FP!Contents, FLG!Peek, FP!Peek,
    FLG!PushAddr, FP!PushAddr, FLG!WrapAdd, FP!WrapAdd, FLG!Advance, FP!Advance,
    FLG!Trunc, FP!Trunc

(* A cycle of a free list that holds what it must *)
LEMMA GprClock ==
    ASSUME GP!NoIndexOverflow, NEW V, NEW f, GP!PointersAgree(f),
           NEW n \in 0 .. RENAME_WIDTH, n <= f.count,
           NEW s \in Seq(V), Len(s) <= COMMIT_WIDTH,
           f.count + Len(s) <= SCALAR_FREE_LIST_ENTRY_NUM
    PROVE  LET f2 == GPR!Clock(f, n, s)
           IN  /\ GP!PointersAgree(f2)
               /\ f2.count = f.count + Len(s) - n
               /\ IsClock(f.count, Len(s), n, GPR!Contents(f), s, GPR!Contents(f2))
<1> DEFINE f2 == GP!Clock(f, n, s)
<1>1. GP!PointersAgree(f2) /\ f2.count = f.count + Len(s) - n
    BY GP!ClockPointers, ListsFitTheModel
<1>2. \A k \in 1 .. f.count + Len(s) - n :
         GP!Contents(f2)[k] = IF k <= f.count - n THEN GP!Contents(f)[k + n]
                              ELSE s[k - (f.count - n)]
    BY GP!ClockContents, ListsFitTheModel
<1>3. f.count \in Nat /\ Len(s) \in Nat /\ n \in 0 .. f.count
    <2>1. Len(s) \in Nat
        BY LenProperties
    <2>2. QED
        BY <2>1, Sizes DEF GP!PointersAgree
<1> HIDE DEF f2
<1>4. IsClock(f.count, Len(s), n, GP!Contents(f), s, GP!Contents(f2))
    BY <1>2, <1>3 DEF IsClock
<1>5. QED
    BY <1>1, <1>4, SameOperators DEF f2

LEMMA FlagClock ==
    ASSUME FP!NoIndexOverflow, NEW V, NEW f, FP!PointersAgree(f),
           NEW n \in 0 .. RENAME_WIDTH, n <= f.count,
           NEW s \in Seq(V), Len(s) <= COMMIT_WIDTH,
           f.count + Len(s) <= FLAG_FREE_LIST_ENTRY_NUM
    PROVE  LET f2 == FLG!Clock(f, n, s)
           IN  /\ FP!PointersAgree(f2)
               /\ f2.count = f.count + Len(s) - n
               /\ IsClock(f.count, Len(s), n, FLG!Contents(f), s, FLG!Contents(f2))
<1> DEFINE f2 == FP!Clock(f, n, s)
<1>1. FP!PointersAgree(f2) /\ f2.count = f.count + Len(s) - n
    BY FP!ClockPointers, ListsFitTheModel
<1>2. \A k \in 1 .. f.count + Len(s) - n :
         FP!Contents(f2)[k] = IF k <= f.count - n THEN FP!Contents(f)[k + n]
                              ELSE s[k - (f.count - n)]
    BY FP!ClockContents, ListsFitTheModel
<1>3. f.count \in Nat /\ Len(s) \in Nat /\ n \in 0 .. f.count
    <2>1. Len(s) \in Nat
        BY LenProperties
    <2>2. QED
        BY <2>1, Sizes DEF FP!PointersAgree
<1> HIDE DEF f2
<1>4. IsClock(f.count, Len(s), n, FP!Contents(f), s, FP!Contents(f2))
    BY <1>2, <1>3 DEF IsClock
<1>5. QED
    BY <1>1, <1>4, SameOperators DEF f2

-----------------------------------------------------------------------------
(* The window as the lists see it *)
GprWriters(n) == {i \in 0 .. n - 1 : OpAt(i).writeReg}
LogOf == [i \in Nat |-> OpAt(i).log]
PrevOf == [i \in Nat |-> OpAt(i).phyPrevDst]
PrevFlagsOf == [i \in Nat |-> OpAt(i).phyPrevDstFlags]
(* The flags register is a map with a single key. *)
FlagKeys == {0}
FlagKeyOf == [i \in Nat |-> 0]

GprInv ==
    /\ GP!PointersAgree(gprFree)
    /\ released.gpr \in Seq(PhyReg) /\ Len(released.gpr) <= COMMIT_WIDTH
    /\ Conserved(PhyReg, GPR!Contents(gprFree), gprFree.count,
                 released.gpr, Len(released.gpr),
                 DstOf, GprWriters(al.count), rrmt, LReg)

FlagInv ==
    /\ FP!PointersAgree(flagFree)
    /\ released.flag \in Seq(PhyFlag) /\ Len(released.flag) <= COMMIT_WIDTH
    /\ Conserved(PhyFlag, FLG!Contents(flagFree), flagFree.count,
                 released.flag, Len(released.flag),
                 DstFlagsOf, FlagWriters(al.count),
                 [x \in FlagKeys |-> archFlags], FlagKeys)

(* At most COMMIT_WIDTH ops retire. *)
LEMMA CommitNumBound ==
    ASSUME RecoveryInv
    PROVE  Decision.commitNum \in 0 .. COMMIT_WIDTH
<1>1. al.count \in Nat
    BY ActiveListSizeAssumption DEF ActiveListSizeAssumption, RecoveryInv, ListInv
<1>2. (manager.phase = "COMMIT") \in BOOLEAN /\ UnableToStartRecovery \in BOOLEAN
    BY DEF UnableToStartRecovery
<1> DEFINE start == manager.phase = "COMMIT"
           state == HeadExecState
           d == Decision
<1>3. d = DecideCommit(start, al.count, state, WholeInsns, UnableToStartRecovery)
    BY DEF Decision, WholeInsns
<1> HIDE DEF state, start, d
<1>4. start \in BOOLEAN
    BY DEF start
<1>5. d.commitNum \in 0 .. COMMIT_WIDTH
    BY <1>1, <1>2, <1>3, <1>4, OnlyFinishedOpsRetire
<1>6. QED
    BY <1>5 DEF d

(* A group is renamed only when both lists hold a whole group. *)
LEMMA GroupFits ==
    ASSUME ListInv, NEW group \in Groups, group # <<>>
    PROVE  /\ Len(group) \in 0 .. RENAME_WIDTH
           /\ gprFree.count >= RENAME_WIDTH /\ flagFree.count >= RENAME_WIDTH
<1>1. Allocatable /\ group \in UNION {[1 .. n -> Ops] : n \in 0 .. RENAME_WIDTH}
    BY DEF Groups
<1>2. PICK n \in 0 .. RENAME_WIDTH : group \in [1 .. n -> Ops]
    BY <1>1
<1>3. Len(group) = n
    BY <1>2, Sizes
<1>4. QED
    BY <1>1, <1>3 DEF Allocatable
-----------------------------------------------------------------------------
(* A cycle of the window and of the lanes that join it *)
LEMMA GprCycle ==
    ASSUME RecoveryInv, manager.phase # "RECOVER_0", committer.phase = "COMMIT",
           NEW group \in Groups, NEW w \in Writes, Operate(group, w),
           NEW next \in Nat, next = al.count + Len(group) - Decision.commitNum
    PROVE  IsCycle(al.count, Decision.commitNum, Len(group), GprWriters(al.count),
                   GprWritersBefore(group, Len(group) + 1), GprWriters(next)',
                   DstOf, LaneDst(group), DstOf')
<1> DEFINE n == Decision.commitNum
           c == al.count
           g == Len(group)
           W == GprWriters(c)
           X == GprWriters(next)'
           L == GprWritersBefore(group, g + 1)
<1>1. /\ c \in Nat /\ g \in Nat /\ n \in Nat /\ n \in 0 .. c
    BY OperateFacts
<1>2. \A i \in 0 .. c + g - n - 1 :
         OpAt(i)' = IF n + i < c THEN OpAt(n + i) ELSE EntryOf(group, n + i - c + 1)
    BY OperateEntries
<1>3. next = c + g - n
    OBVIOUS
<1> HIDE DEF n, g, c
<1>4. \A i \in 0 .. c - n - 1 :
         /\ i \in 0 .. next - 1 /\ n + i < c /\ i \in Nat
         /\ n + i \in Nat /\ n + i \in 0 .. c - 1 /\ i \in 0 .. c + g - n - 1
    BY <1>1, <1>3
<1>5. /\ W \subseteq 0 .. c - 1 /\ X \subseteq 0 .. c + g - n - 1 /\ L \subseteq 1 .. g
    <2>1. W \subseteq 0 .. c - 1
        BY DEF GprWriters
    <2>2. X \subseteq 0 .. next - 1
        BY DEF GprWriters
    <2>3. L \subseteq 1 .. (g + 1) - 1 /\ (g + 1) - 1 = g
        BY <1>1 DEF GprWritersBefore
    <2>4. X \subseteq 0 .. c + g - n - 1
        <3>1. next - 1 = c + g - n - 1 /\ next \in Nat
            BY <1>1, <1>3
        <3> HIDE DEF X
        <3>2. QED
            BY <2>2, <3>1
    <2>5. L \subseteq 1 .. g
        <3> HIDE DEF L
        <3> QED BY <2>3
    <2>6. QED
        BY <2>1, <2>4, <2>5
<1>6. /\ \A i \in 0 .. c - n - 1 : i \in X <=> n + i \in W
      /\ \A i \in 0 .. c - n - 1 : i \in X => DstOf'[i] = DstOf[n + i]
    <2>1. \A i \in 0 .. c - n - 1 : OpAt(i)' = OpAt(n + i)
        BY <1>2, <1>4
    <2>2. QED
        BY <1>4, <2>1 DEF GprWriters, DstOf
<1>7. ASSUME NEW j \in 1 .. g
      PROVE  /\ c - n + j - 1 \in X <=> j \in L
             /\ j \in L => DstOf'[c - n + j - 1] = LaneDst(group)[j]
    <2>1. PICK i \in Nat : i = c - n + j - 1
        BY <1>1
    <2>2. /\ i \in 0 .. next - 1 /\ i \in 0 .. c + g - n - 1 /\ ~(n + i < c)
          /\ n + i - c + 1 = j /\ j \in 1 .. (g + 1) - 1 /\ j \in Nat
        <3>1. j \in Nat /\ 1 <= j /\ j <= g /\ i \in Nat
            BY <1>1, <2>1
        <3>2. i < c + g - n /\ n + i >= c /\ n + i - c + 1 = j
            <4>1. c \in Int /\ n \in Int /\ g \in Int /\ i \in Int /\ j \in Int
                BY <1>1, <2>1, <3>1
            <4>2. QED
                BY <2>1, <3>1, <4>1
        <3>3. QED
            BY <1>1, <1>3, <3>1, <3>2
    <2>3. OpAt(i)' = EntryOf(group, j)
        BY <1>2, <2>2
    <2>4. i \in X <=> group[j].writeReg
        BY <2>2, <2>3 DEF GprWriters, EntryOf
    <2>5. j \in L <=> group[j].writeReg
        BY <2>2 DEF GprWritersBefore
    <2>6. j \in L => DstOf'[i] = LaneDst(group)[j]
        <3>1. ASSUME j \in L
              PROVE  DstOf'[i] = LaneDst(group)[j]
            <4>1. OpAt(i)'.phyDst = AllocatedGpr(group, j)
                BY <2>3, <2>5, <3>1 DEF EntryOf
            <4>2. QED
                BY <2>2, <4>1 DEF DstOf, LaneDst
        <3>2. QED
            BY <3>1
    <2>7. QED
        BY <2>1, <2>4, <2>5, <2>6
<1> HIDE DEF W, X, L
<1>8. IsCycle(c, n, g, W, L, X, DstOf, LaneDst(group), DstOf')
    BY <1>1, <1>5, <1>6, <1>7 DEF IsCycle
<1>9. QED
    BY <1>8 DEF c, n, g, W, X, L

LEMMA FlagCycle ==
    ASSUME RecoveryInv, manager.phase # "RECOVER_0", committer.phase = "COMMIT",
           NEW group \in Groups, NEW w \in Writes, Operate(group, w),
           NEW next \in Nat, next = al.count + Len(group) - Decision.commitNum
    PROVE  IsCycle(al.count, Decision.commitNum, Len(group), FlagWriters(al.count),
                   FlagWritersBefore(group, Len(group) + 1), FlagWriters(next)',
                   DstFlagsOf, LaneDstFlags(group), DstFlagsOf')
<1> DEFINE n == Decision.commitNum
           c == al.count
           g == Len(group)
           W == FlagWriters(c)
           X == FlagWriters(next)'
           L == FlagWritersBefore(group, g + 1)
<1>1. /\ c \in Nat /\ g \in Nat /\ n \in Nat /\ n \in 0 .. c
    BY OperateFacts
<1>2. \A i \in 0 .. c + g - n - 1 :
         OpAt(i)' = IF n + i < c THEN OpAt(n + i) ELSE EntryOf(group, n + i - c + 1)
    BY OperateEntries
<1>3. next = c + g - n
    OBVIOUS
<1> HIDE DEF n, g, c
<1>4. \A i \in 0 .. c - n - 1 :
         /\ i \in 0 .. next - 1 /\ n + i < c /\ i \in Nat
         /\ n + i \in Nat /\ n + i \in 0 .. c - 1 /\ i \in 0 .. c + g - n - 1
    BY <1>1, <1>3
<1>5. /\ W \subseteq 0 .. c - 1 /\ X \subseteq 0 .. c + g - n - 1 /\ L \subseteq 1 .. g
    <2>1. W \subseteq 0 .. c - 1
        BY DEF FlagWriters
    <2>2. X \subseteq 0 .. next - 1
        BY DEF FlagWriters
    <2>3. L \subseteq 1 .. (g + 1) - 1 /\ (g + 1) - 1 = g
        BY <1>1 DEF FlagWritersBefore
    <2>4. X \subseteq 0 .. c + g - n - 1
        <3>1. next - 1 = c + g - n - 1 /\ next \in Nat
            BY <1>1, <1>3
        <3> HIDE DEF X
        <3>2. QED
            BY <2>2, <3>1
    <2>5. L \subseteq 1 .. g
        <3> HIDE DEF L
        <3> QED BY <2>3
    <2>6. QED
        BY <2>1, <2>4, <2>5
<1>6. /\ \A i \in 0 .. c - n - 1 : i \in X <=> n + i \in W
      /\ \A i \in 0 .. c - n - 1 : i \in X => DstFlagsOf'[i] = DstFlagsOf[n + i]
    <2>1. \A i \in 0 .. c - n - 1 : OpAt(i)' = OpAt(n + i)
        BY <1>2, <1>4
    <2>2. QED
        BY <1>4, <2>1 DEF FlagWriters, DstFlagsOf
<1>7. ASSUME NEW j \in 1 .. g
      PROVE  /\ c - n + j - 1 \in X <=> j \in L
             /\ j \in L => DstFlagsOf'[c - n + j - 1] = LaneDstFlags(group)[j]
    <2>1. PICK i \in Nat : i = c - n + j - 1
        BY <1>1
    <2>2. /\ i \in 0 .. next - 1 /\ i \in 0 .. c + g - n - 1 /\ ~(n + i < c)
          /\ n + i - c + 1 = j /\ j \in 1 .. (g + 1) - 1 /\ j \in Nat
        <3>1. j \in Nat /\ 1 <= j /\ j <= g /\ i \in Nat
            BY <1>1, <2>1
        <3>2. i < c + g - n /\ n + i >= c /\ n + i - c + 1 = j
            <4>1. c \in Int /\ n \in Int /\ g \in Int /\ i \in Int /\ j \in Int
                BY <1>1, <2>1, <3>1
            <4>2. QED
                BY <2>1, <3>1, <4>1
        <3>3. QED
            BY <1>1, <1>3, <3>1, <3>2
    <2>3. OpAt(i)' = EntryOf(group, j)
        BY <1>2, <2>2
    <2>4. i \in X <=> group[j].writeFlags
        BY <2>2, <2>3 DEF FlagWriters, EntryOf
    <2>5. j \in L <=> group[j].writeFlags
        BY <2>2 DEF FlagWritersBefore
    <2>6. j \in L => DstFlagsOf'[i] = LaneDstFlags(group)[j]
        <3>1. ASSUME j \in L
              PROVE  DstFlagsOf'[i] = LaneDstFlags(group)[j]
            <4>1. OpAt(i)'.phyDstFlags = AllocatedFlag(group, j)
                BY <2>3, <2>5, <3>1 DEF EntryOf
            <4>2. QED
                BY <2>2, <4>1 DEF DstFlagsOf, LaneDstFlags
        <3>2. QED
            BY <3>1
    <2>7. QED
        BY <2>1, <2>4, <2>5, <2>6
<1> HIDE DEF W, X, L
<1>8. IsCycle(c, n, g, W, L, X, DstFlagsOf, LaneDstFlags(group), DstFlagsOf')
    BY <1>1, <1>5, <1>6, <1>7 DEF IsCycle
<1>9. QED
    BY <1>8 DEF c, n, g, W, X, L

-----------------------------------------------------------------------------
(* What the lanes that read entries 1 .. n release, as sequences *)
LanesThatWrite(entries, n) == {k \in 1 .. n : entries[k].writeReg}
LanesThatWriteFlags(entries, n) == {k \in 1 .. n : entries[k].writeFlags}

LEMMA CommittedSequences ==
    ASSUME NEW n \in Nat, NEW entries, DOMAIN entries = 1 .. n
    PROVE  /\ ReleasedBy(entries, TRUE).gpr =
                 [k \in 1 .. Cardinality(LanesThatWrite(entries, n)) |->
                    entries[NthLane(LanesThatWrite(entries, n), k)].phyPrevDst]
           /\ ReleasedBy(entries, TRUE).flag =
                 [k \in 1 .. Cardinality(LanesThatWriteFlags(entries, n)) |->
                    entries[NthLane(LanesThatWriteFlags(entries, n), k)].phyPrevDstFlags]
BY DEF ReleasedBy, LanesThatWrite, LanesThatWriteFlags

LEMMA FlushedSequences ==
    ASSUME NEW n \in Nat, NEW entries, DOMAIN entries = 1 .. n
    PROVE  /\ ReleasedBy(entries, FALSE).gpr =
                 [k \in 1 .. Cardinality(LanesThatWrite(entries, n)) |->
                    entries[NthLane(LanesThatWrite(entries, n), k)].phyDst]
           /\ ReleasedBy(entries, FALSE).flag =
                 [k \in 1 .. Cardinality(LanesThatWriteFlags(entries, n)) |->
                    entries[NthLane(LanesThatWriteFlags(entries, n), k)].phyDstFlags]
BY DEF ReleasedBy, LanesThatWrite, LanesThatWriteFlags

(* The lanes of a commit hand on what their entries replaced. *)
LEMMA GprRetire ==
    ASSUME RecoveryInv, manager.phase # "RECOVER_0", committer.phase = "COMMIT",
           NEW group \in Groups, NEW w \in Writes, Operate(group, w)
    PROVE  \E T, at, m :
              /\ IsPushed(Decision.commitNum, T,
                          Below(GprWriters(al.count), Decision.commitNum), at,
                          PrevOf, released'.gpr)
              /\ m = Cardinality(T) /\ m \in 0 .. Decision.commitNum
              /\ released'.gpr = [k \in 1 .. m |-> released'.gpr[k]]
<1> DEFINE n == Decision.commitNum
           c == al.count
           entries == [k \in 1 .. n |-> activeList[HeadPtr(k - 1)]]
           T == LanesThatWrite(entries, n)
           at == [k \in T |-> k - 1]
           S == Below(GprWriters(c), n)
<1>1. n \in Nat /\ n \in 0 .. c /\ c \in Nat
    BY OperateFacts
<1>2. released' = ReleasedBy(entries, TRUE)
    BY DEF Operate
<1>3. DOMAIN entries = 1 .. n /\ \A k \in 1 .. n : entries[k] = OpAt(k - 1)
    BY DEF OpAt
<1> HIDE DEF n, c, entries
<1>4. released'.gpr = [k \in 1 .. Cardinality(T) |-> entries[NthLane(T, k)].phyPrevDst]
    BY <1>1, <1>2, <1>3, CommittedSequences
<1>5. T \in SUBSET (1 .. n) /\ \A k \in 1 .. n : k \in T <=> OpAt(k - 1).writeReg
    BY <1>3 DEF LanesThatWrite
<1>6. \A i : i \in S <=> i \in 0 .. n - 1 /\ OpAt(i).writeReg
    <2>1. \A i : i \in 0 .. n - 1 <=> i \in 0 .. c - 1 /\ i < n
        BY <1>1
    <2>2. QED
        BY <2>1 DEF GprWriters, Below
<1> HIDE DEF T, S
<1>7. Lists(at, T, S)
    <2>1. /\ \A k \in 1 .. n : k - 1 \in 0 .. n - 1
          /\ \A j, k \in 1 .. n : j - 1 = k - 1 => j = k
          /\ \A i \in 0 .. n - 1 : i + 1 \in 1 .. n /\ (i + 1) - 1 = i
        BY <1>1
    <2>2. \A k \in T : at[k] = k - 1 /\ k \in 1 .. n
        BY <1>5
    <2> HIDE DEF at
    <2>3. \A k \in T : at[k] \in S
        BY <1>5, <1>6, <2>1, <2>2
    <2>4. \A j, k \in T : at[j] = at[k] => j = k
        BY <2>1, <2>2
    <2>5. ASSUME NEW i \in S
          PROVE  \E k \in T : at[k] = i
        <3>1. i \in 0 .. n - 1 /\ OpAt(i).writeReg
            BY <1>6
        <3>2. i + 1 \in T
            BY <1>5, <2>1, <3>1
        <3>3. QED
            BY <2>1, <2>2, <3>1, <3>2
    <2>6. QED
        BY <2>3, <2>4, <2>5 DEF Lists
<1>8. \A k \in 1 .. Cardinality(T) : NthLane(T, k) \in T
    <2>1. Lists([k \in 1 .. Cardinality(T) |-> NthLane(T, k)], 1 .. Cardinality(T), T)
        BY <1>1, <1>5, NthLaneLists
    <2>2. QED
        BY <2>1 DEF Lists
<1>9. \A k \in 1 .. Cardinality(T) : released'.gpr[k] = PrevOf[at[NthLane(T, k)]]
    <2>1. \A k \in T : /\ at[k] \in Nat /\ at[k] = k - 1
                       /\ entries[k] = OpAt(k - 1)
        BY <1>1, <1>3, <1>5
    <2> HIDE DEF at
    <2>2. \A k \in T : entries[k].phyPrevDst = PrevOf[at[k]]
        BY <2>1 DEF PrevOf
    <2>3. QED
        BY <1>4, <1>8, <2>2
<1> HIDE DEF at
<1>10. IsPushed(n, T, S, at, PrevOf, released'.gpr)
    BY <1>1, <1>5, <1>7, <1>9 DEF IsPushed
<1>11. Cardinality(T) \in 0 .. n
    BY <1>1, <1>5, LanesAreFinite
<1>12. QED
    BY <1>4, <1>10, <1>11 DEF n, c, S

LEMMA FlagRetire ==
    ASSUME RecoveryInv, manager.phase # "RECOVER_0", committer.phase = "COMMIT",
           NEW group \in Groups, NEW w \in Writes, Operate(group, w)
    PROVE  \E T, at, m :
              /\ IsPushed(Decision.commitNum, T,
                          Below(FlagWriters(al.count), Decision.commitNum), at,
                          PrevFlagsOf, released'.flag)
              /\ m = Cardinality(T) /\ m \in 0 .. Decision.commitNum
              /\ released'.flag = [k \in 1 .. m |-> released'.flag[k]]
<1> DEFINE n == Decision.commitNum
           c == al.count
           entries == [k \in 1 .. n |-> activeList[HeadPtr(k - 1)]]
           T == LanesThatWriteFlags(entries, n)
           at == [k \in T |-> k - 1]
           S == Below(FlagWriters(c), n)
<1>1. n \in Nat /\ n \in 0 .. c /\ c \in Nat
    BY OperateFacts
<1>2. released' = ReleasedBy(entries, TRUE)
    BY DEF Operate
<1>3. DOMAIN entries = 1 .. n /\ \A k \in 1 .. n : entries[k] = OpAt(k - 1)
    BY DEF OpAt
<1> HIDE DEF n, c, entries
<1>4. released'.flag = [k \in 1 .. Cardinality(T) |-> entries[NthLane(T, k)].phyPrevDstFlags]
    BY <1>1, <1>2, <1>3, CommittedSequences
<1>5. T \in SUBSET (1 .. n) /\ \A k \in 1 .. n : k \in T <=> OpAt(k - 1).writeFlags
    BY <1>3 DEF LanesThatWriteFlags
<1>6. \A i : i \in S <=> i \in 0 .. n - 1 /\ OpAt(i).writeFlags
    <2>1. \A i : i \in 0 .. n - 1 <=> i \in 0 .. c - 1 /\ i < n
        BY <1>1
    <2>2. QED
        BY <2>1 DEF FlagWriters, Below
<1> HIDE DEF T, S
<1>7. Lists(at, T, S)
    <2>1. /\ \A k \in 1 .. n : k - 1 \in 0 .. n - 1
          /\ \A j, k \in 1 .. n : j - 1 = k - 1 => j = k
          /\ \A i \in 0 .. n - 1 : i + 1 \in 1 .. n /\ (i + 1) - 1 = i
        BY <1>1
    <2>2. \A k \in T : at[k] = k - 1 /\ k \in 1 .. n
        BY <1>5
    <2> HIDE DEF at
    <2>3. \A k \in T : at[k] \in S
        BY <1>5, <1>6, <2>1, <2>2
    <2>4. \A j, k \in T : at[j] = at[k] => j = k
        BY <2>1, <2>2
    <2>5. ASSUME NEW i \in S
          PROVE  \E k \in T : at[k] = i
        <3>1. i \in 0 .. n - 1 /\ OpAt(i).writeFlags
            BY <1>6
        <3>2. i + 1 \in T
            BY <1>5, <2>1, <3>1
        <3>3. QED
            BY <2>1, <2>2, <3>1, <3>2
    <2>6. QED
        BY <2>3, <2>4, <2>5 DEF Lists
<1>8. \A k \in 1 .. Cardinality(T) : NthLane(T, k) \in T
    <2>1. Lists([k \in 1 .. Cardinality(T) |-> NthLane(T, k)], 1 .. Cardinality(T), T)
        BY <1>1, <1>5, NthLaneLists
    <2>2. QED
        BY <2>1 DEF Lists
<1>9. \A k \in 1 .. Cardinality(T) : released'.flag[k] = PrevFlagsOf[at[NthLane(T, k)]]
    <2>1. \A k \in T : /\ at[k] \in Nat /\ at[k] = k - 1
                       /\ entries[k] = OpAt(k - 1)
        BY <1>1, <1>3, <1>5
    <2> HIDE DEF at
    <2>2. \A k \in T : entries[k].phyPrevDstFlags = PrevFlagsOf[at[k]]
        BY <2>1 DEF PrevFlagsOf
    <2>3. QED
        BY <1>4, <1>8, <2>2
<1> HIDE DEF at
<1>10. IsPushed(n, T, S, at, PrevFlagsOf, released'.flag)
    BY <1>1, <1>5, <1>7, <1>9 DEF IsPushed
<1>11. Cardinality(T) \in 0 .. n
    BY <1>1, <1>5, LanesAreFinite
<1>12. QED
    BY <1>4, <1>10, <1>11 DEF n, c, S

(* The ops that retire take the place of what they replaced in the map. *)
LEMMA GprMapped ==
    ASSUME RecoveryInv, MapsInv, manager.phase # "RECOVER_0",
           committer.phase = "COMMIT",
           NEW group \in Groups, NEW w \in Writes, Operate(group, w)
    PROVE  IsRetired(al.count, Below(GprWriters(al.count), Decision.commitNum), LReg,
                     LogOf, DstOf, rrmt, PrevOf, rrmt')
<1> DEFINE n == Decision.commitNum
           c == al.count
           R == Below(GprWriters(c), n)
<1>1. /\ n \in Nat /\ n \in 0 .. c /\ c \in Nat
      /\ c \in 0 .. ACTIVE_LIST_ENTRY_NUM
    BY OperateFacts
<1>2. \A i \in 0 .. c - 1 : /\ OpAt(i).log \in LReg
                            /\ OpAt(i).phyPrevDst = MapAfter(i, OpAt(i).log)
    BY MapsInvIs
<1>3. \A l \in LReg : rrmt'[l] = MapAfter(n, l)
    BY DEF Operate, Retired, MapAfter
<1> HIDE DEF n, c
<1>4. /\ \A i \in 0 .. n - 1 : i \in 0 .. c - 1 /\ i \in 0 .. c /\ i \in Nat
                               /\ i \in 0 .. ACTIVE_LIST_ENTRY_NUM
      /\ n \in 0 .. ACTIVE_LIST_ENTRY_NUM
      /\ \A i : i \in 0 .. n - 1 <=> i \in 0 .. c - 1 /\ i < n
    BY <1>1, ActiveListSizeAssumption DEF ActiveListSizeAssumption
<1>5. \A i : i \in R <=> i \in 0 .. n - 1 /\ OpAt(i).writeReg
    BY <1>4 DEF GprWriters, Below
<1> HIDE DEF R
<1>6. \A i \in R : LogOf[i] = OpAt(i).log /\ PrevOf[i] = OpAt(i).phyPrevDst
                   /\ LogOf[i] \in LReg
    BY <1>2, <1>4, <1>5 DEF LogOf, PrevOf
<1>7. \A l : Same(R, LogOf, l) = WritersOf(n, l)
    BY <1>5, <1>6 DEF Same, WritersOf
<1>8. \A x \in LReg : rrmt'[x] = Last(Same(R, LogOf, x), DstOf, rrmt[x])
    BY <1>3, <1>4, <1>7, MapAfterIsLast
<1>9. ASSUME NEW i \in R
      PROVE  PrevOf[i] = Last(Below(Same(R, LogOf, LogOf[i]), i), DstOf, rrmt[LogOf[i]])
    <2>1. PICK l \in LReg : l = LogOf[i]
        BY <1>6
    <2>2. i \in 0 .. n /\ i \in 0 .. ACTIVE_LIST_ENTRY_NUM /\ i \in 0 .. c - 1
        BY <1>1, <1>4, <1>5
    <2>3. PrevOf[i] = MapAfter(i, l)
        BY <1>2, <1>6, <2>1, <2>2
    <2>4. MapAfter(i, l) = Last(WritersOf(i, l), DstOf, rrmt[l])
        BY <2>2, MapAfterIsLast
    <2>5. Below(WritersOf(n, l), i) = WritersOf(i, l)
        BY <1>1, <2>2, WritersBelow
    <2>6. Same(R, LogOf, l) = WritersOf(n, l)
        BY <1>7
    <2>7. QED
        BY <2>1, <2>3, <2>4, <2>5, <2>6
<1>10. R \in SUBSET (0 .. c)
    BY <1>4, <1>5
<1>11. IsRetired(c, R, LReg, LogOf, DstOf, rrmt, PrevOf, rrmt')
    BY <1>1, <1>6, <1>8, <1>9, <1>10 DEF IsRetired
<1>12. QED
    BY <1>11 DEF c, n, R

LEMMA FlagMapped ==
    ASSUME RecoveryInv, MapsInv, manager.phase # "RECOVER_0",
           committer.phase = "COMMIT",
           NEW group \in Groups, NEW w \in Writes, Operate(group, w)
    PROVE  IsRetired(al.count, Below(FlagWriters(al.count), Decision.commitNum), FlagKeys,
                     FlagKeyOf, DstFlagsOf, [x \in FlagKeys |-> archFlags],
                     PrevFlagsOf, [x \in FlagKeys |-> archFlags'])
<1> DEFINE n == Decision.commitNum
           c == al.count
           R == Below(FlagWriters(c), n)
           map == [x \in FlagKeys |-> archFlags]
           map2 == [x \in FlagKeys |-> archFlags']
<1>1. /\ n \in Nat /\ n \in 0 .. c /\ c \in Nat
      /\ c \in 0 .. ACTIVE_LIST_ENTRY_NUM
    BY OperateFacts
<1>2. \A i \in 0 .. c - 1 :
         OpAt(i).writeFlags => OpAt(i).phyPrevDstFlags = FlagsAfter(i)
    BY MapsInvIs
<1>3. archFlags' = FlagsAfter(n)
    BY DEF Operate, RetiredFlags, FlagsAfter
<1> HIDE DEF n, c
<1>4. /\ \A i \in 0 .. n - 1 : i \in 0 .. c - 1 /\ i \in 0 .. c /\ i \in Nat
                               /\ i \in 0 .. ACTIVE_LIST_ENTRY_NUM
      /\ n \in 0 .. ACTIVE_LIST_ENTRY_NUM
      /\ \A i : i \in 0 .. n - 1 <=> i \in 0 .. c - 1 /\ i < n
    BY <1>1, ActiveListSizeAssumption DEF ActiveListSizeAssumption
<1>5. \A i : i \in R <=> i \in 0 .. n - 1 /\ OpAt(i).writeFlags
    BY <1>4 DEF FlagWriters, Below
<1> HIDE DEF R
<1>6. \A i \in R : /\ FlagKeyOf[i] = 0
                   /\ PrevFlagsOf[i] = OpAt(i).phyPrevDstFlags
    BY <1>4, <1>5 DEF FlagKeyOf, PrevFlagsOf
<1>7. Same(R, FlagKeyOf, 0) = FlagWriters(n)
    BY <1>5, <1>6 DEF Same, FlagWriters
<1>8. map[0] = archFlags /\ map2[0] = archFlags' /\ FlagKeys = {0}
    BY DEF FlagKeys
<1> HIDE DEF map, map2
<1>9. \A x \in FlagKeys : map2[x] = Last(Same(R, FlagKeyOf, x), DstFlagsOf, map[x])
    BY <1>3, <1>4, <1>7, <1>8, FlagsAfterIsLast
<1>10. ASSUME NEW i \in R
       PROVE  PrevFlagsOf[i] =
                 Last(Below(Same(R, FlagKeyOf, FlagKeyOf[i]), i), DstFlagsOf,
                      map[FlagKeyOf[i]])
    <2>1. i \in 0 .. n /\ i \in 0 .. ACTIVE_LIST_ENTRY_NUM /\ i \in 0 .. c - 1
        BY <1>1, <1>4, <1>5
    <2>2. PrevFlagsOf[i] = FlagsAfter(i)
        BY <1>2, <1>5, <1>6, <2>1
    <2>3. FlagsAfter(i) = Last(FlagWriters(i), DstFlagsOf, archFlags)
        BY <2>1, FlagsAfterIsLast
    <2>4. Below(FlagWriters(n), i) = FlagWriters(i)
        BY <1>1, <2>1, WritersBelow
    <2>5. QED
        BY <1>6, <1>7, <1>8, <2>2, <2>3, <2>4
<1>11. R \in SUBSET (0 .. c)
    BY <1>4, <1>5
<1>12. IsRetired(c, R, FlagKeys, FlagKeyOf, DstFlagsOf, map, PrevFlagsOf, map2)
    BY <1>1, <1>6, <1>8, <1>9, <1>10, <1>11 DEF IsRetired
<1>13. QED
    BY <1>12 DEF c, n, R, map, map2

-----------------------------------------------------------------------------
(* Every place holds a register of the file. *)
LEMMA ConservedValues ==
    ASSUME NEW Regs, NEW free, NEW f, NEW pipe, NEW r, NEW dst, NEW W, NEW map, NEW Keys,
           Conserved(Regs, free, f, pipe, r, dst, W, map, Keys)
    PROVE  /\ \A k \in 1 .. f : free[k] \in Regs
           /\ \A k \in 1 .. r : pipe[k] \in Regs
           /\ \A i \in W : dst[i] \in Regs
           /\ \A x \in Keys : map[x] \in Regs
BY DEF Conserved, Parted, Lists

(* How many registers there are, and mapped ones *)
LEMMA RegisterNumbers ==
    /\ Cardinality(PhyReg) = SCALAR_FREE_LIST_ENTRY_NUM + Cardinality(LReg)
    /\ Cardinality(PhyFlag) = FLAG_FREE_LIST_ENTRY_NUM + 1
    /\ IsFiniteSet(LReg) /\ IsFiniteSet(FlagKeys) /\ Cardinality(FlagKeys) = 1
<1>1. ASSUME NEW m \in Nat
      PROVE  Cardinality(0 .. m - 1) = m
    <2>1. 0 \in Int /\ m - 1 \in Int
        OBVIOUS
    <2>2. Cardinality(0 .. m - 1) = IF 0 > m - 1 THEN 0 ELSE (m - 1) - 0 + 1
        BY <2>1, FS_Interval
    <2>3. QED
        BY <2>2
<1>2. PICK m \in Nat : m = SCALAR_FREE_LIST_ENTRY_NUM + Cardinality(LReg)
    BY Sizes
<1>3. PhyReg = 0 .. m - 1
    <2>1. SCALAR_FREE_LIST_ENTRY_NUM + Cardinality(LReg) - 1 = m - 1
        BY <1>2, Sizes
    <2>2. QED
        BY <2>1 DEF PhyReg
<1>4. PICK k \in Nat : k = FLAG_FREE_LIST_ENTRY_NUM + 1
    BY Sizes
<1>5. FLAG_FREE_LIST_ENTRY_NUM = k - 1
    BY <1>4, Sizes
<1>6. PhyFlag = 0 .. k - 1
    BY <1>5 DEF PhyFlag
<1>7. Cardinality(PhyReg) = m /\ Cardinality(PhyFlag) = k
    BY <1>1, <1>3, <1>6
<1>8. IsFiniteSet(FlagKeys) /\ Cardinality(FlagKeys) = 1
    BY FS_Singleton DEF FlagKeys
<1>9. QED
    BY <1>2, <1>4, <1>7, <1>8, Sizes

(* The writers of the window are finitely many. *)
LEMMA WindowIsFinite ==
    ASSUME NEW c \in Nat
    PROVE  IsFiniteSet(GprWriters(c)) /\ IsFiniteSet(FlagWriters(c))
<1>1. IsFiniteSet(0 .. c - 1)
    <2>1. 0 \in Int /\ c - 1 \in Int
        OBVIOUS
    <2>2. QED
        BY <2>1, FS_Interval
<1>2. GprWriters(c) \in SUBSET (0 .. c - 1) /\ FlagWriters(c) \in SUBSET (0 .. c - 1)
    BY DEF GprWriters, FlagWriters
<1>3. QED
    BY <1>1, <1>2, FS_Subset

(* The list always has room for what is on its way to it. *)
LEMMA GprListHasRoom ==
    ASSUME ListInv, GprInv
    PROVE  /\ gprFree.count \in Nat /\ gprFree.count \in 0 .. SCALAR_FREE_LIST_ENTRY_NUM
           /\ released.gpr \in Seq(PhyReg)
           /\ Len(released.gpr) \in Nat /\ Len(released.gpr) <= COMMIT_WIDTH
           /\ gprFree.count + Len(released.gpr) <= SCALAR_FREE_LIST_ENTRY_NUM
           /\ GP!PointersAgree(gprFree)
<1>1. /\ GP!PointersAgree(gprFree)
      /\ released.gpr \in Seq(PhyReg) /\ Len(released.gpr) <= COMMIT_WIDTH
      /\ Conserved(PhyReg, GPR!Contents(gprFree), gprFree.count,
                   released.gpr, Len(released.gpr),
                   DstOf, GprWriters(al.count), rrmt, LReg)
    BY DEF GprInv
<1>2. gprFree.count \in Nat /\ gprFree.count \in 0 .. SCALAR_FREE_LIST_ENTRY_NUM
    BY <1>1, Sizes DEF GP!PointersAgree
<1>3. Len(released.gpr) \in Nat
    BY <1>1, LenProperties
<1>4. al.count \in Nat
    BY ActiveListSizeAssumption DEF ActiveListSizeAssumption, ListInv
<1> DEFINE map == rrmt
           free == GPR!Contents(gprFree)
           f == gprFree.count
           pipe == released.gpr
           r == Len(pipe)
           W == GprWriters(al.count)
<1>5. IsFiniteSet(W) /\ Conserved(PhyReg, free, f, pipe, r, DstOf, W, map, LReg)
    BY <1>1, <1>4, WindowIsFinite
<1>6. f \in Nat /\ r \in Nat
    BY <1>2, <1>3
<1> HIDE DEF map, free, f, pipe, r, W
<1>7. /\ Cardinality(W) \in Nat /\ Cardinality(LReg) \in Nat
      /\ f + r + Cardinality(W) + Cardinality(LReg) = Cardinality(PhyReg)
    BY <1>5, <1>6, RegisterNumbers, ConservedSizes
<1>8. f + r <= SCALAR_FREE_LIST_ENTRY_NUM
    BY <1>6, <1>7, RegisterNumbers, Sizes
<1>9. QED
    BY <1>1, <1>2, <1>3, <1>8 DEF f, r, pipe

(* The lanes of a group take the oldest registers of the list, in order. *)
LEMMA GprPopped ==
    ASSUME ListInv, GprInv, NEW group \in Groups
    PROVE  LET g == Len(group)
               L == GprWritersBefore(group, g + 1)
               k == Cardinality(L)
               f == gprFree.count
           IN  /\ L \in SUBSET (1 .. g) /\ k \in 0 .. g
               /\ k \in 0 .. RENAME_WIDTH /\ k \in 0 .. f
               /\ IsPopped(g, L, f, GPR!Contents(gprFree), LaneDst(group))
<1> DEFINE g == Len(group)
           L == GprWritersBefore(group, g + 1)
           k == Cardinality(L)
           f == gprFree.count
           free == GPR!Contents(gprFree)
<1>1. g \in Nat
    BY GroupFacts
<1>2. f \in Nat /\ f \in 0 .. SCALAR_FREE_LIST_ENTRY_NUM
    BY GprListHasRoom
<1>3. L \in SUBSET (1 .. g)
    <2>1. L \subseteq 1 .. (g + 1) - 1 /\ (g + 1) - 1 = g
        BY <1>1 DEF GprWritersBefore
    <2> HIDE DEF L
    <2>2. QED
        BY <2>1
<1>4. k \in 0 .. g
    BY <1>1, <1>3, LanesAreFinite
<1>5. k \in 0 .. RENAME_WIDTH /\ k \in 0 .. f
    <2>1. CASE group = <<>>
        <3>1. g = 0
            BY <2>1
        <3> HIDE DEF k, f, g
        <3>2. QED
            BY <1>2, <1>4, <3>1, Sizes
    <2>2. CASE group # <<>>
        <3>1. g \in 0 .. RENAME_WIDTH /\ f >= RENAME_WIDTH
            BY <2>2, GroupFits
        <3> HIDE DEF k, f, g
        <3>2. QED
            BY <1>2, <1>4, <3>1, Sizes
    <2>3. QED
        BY <2>1, <2>2
<1>6. IsPopped(g, L, f, free, LaneDst(group))
    <2>1. \A j \in L : j \in 1 .. g /\ j \in Nat
        BY <1>1, <1>3
    <2>2. ASSUME NEW j \in L
          PROVE  LaneDst(group)[j] = free[Rank(L, j) + 1]
        <3>1. \A i : i \in 1 .. j - 1 <=> i \in 1 .. (g + 1) - 1 /\ i < j
            BY <1>1, <2>1
        <3>2. GprWritersBefore(group, j) = {i \in L : i < j}
            BY <3>1 DEF GprWritersBefore
        <3>3. LaneDst(group)[j] = GPR!Peek(gprFree, Rank(L, j))
            BY <2>1, <3>2 DEF LaneDst, AllocatedGpr, Rank
        <3>4. Rank(L, j) \in 0 .. k - 1
            BY <1>1, <1>3, Ranks
        <3>5. PICK rank \in Nat : rank = Rank(L, j) /\ rank \in 0 .. k - 1
            BY <1>4, <3>4
        <3>6. rank + 1 \in 1 .. f /\ (rank + 1) - 1 = rank
            <4> HIDE DEF k, f, L
            <4> QED BY <1>2, <1>5, <3>5
        <3>7. free[rank + 1] = GPR!Peek(gprFree, rank)
            BY <3>6 DEF GPR!Contents
        <3>8. QED
            BY <3>3, <3>5, <3>7
    <2> HIDE DEF L, f, g, free
    <2>3. QED
        BY <1>1, <1>2, <1>3, <1>5, <2>2 DEF IsPopped, k
<1>7. QED
    BY <1>3, <1>4, <1>5, <1>6

(* A cycle that renames a group and retires ops keeps every register. *)
LEMMA OperateKeepsGpr ==
    ASSUME GP!NoIndexOverflow, RecoveryInv, MapsInv, GprInv,
           manager.phase # "RECOVER_0", committer.phase = "COMMIT",
           NEW group \in Groups, NEW w \in Writes, Operate(group, w)
    PROVE  GprInv'
<1> DEFINE n == Decision.commitNum
           c == al.count
           g == Len(group)
           L == GprWritersBefore(group, g + 1)
           k == Cardinality(L)
           f == gprFree.count
           pipe == released.gpr
           r == Len(pipe)
           free == GPR!Contents(gprFree)
           free2 == GPR!Contents(gprFree')
<1>1. /\ c \in Nat /\ g \in Nat /\ n \in Nat /\ n \in 0 .. c
      /\ al'.count = c + g - n /\ n \in 0 .. COMMIT_WIDTH
    BY OperateFacts, CommitNumBound
<1>2. /\ f \in Nat /\ f \in 0 .. SCALAR_FREE_LIST_ENTRY_NUM /\ pipe \in Seq(PhyReg)
      /\ r \in Nat /\ r <= COMMIT_WIDTH /\ f + r <= SCALAR_FREE_LIST_ENTRY_NUM
      /\ GP!PointersAgree(gprFree)
    BY GprListHasRoom DEF RecoveryInv
<1>3. /\ L \in SUBSET (1 .. g) /\ k \in 0 .. g
      /\ k \in 0 .. RENAME_WIDTH /\ k \in 0 .. f
      /\ IsPopped(g, L, f, free, LaneDst(group))
    BY GprPopped DEF RecoveryInv
<1>6. gprFree' = GPR!Clock(gprFree, k, pipe)
    BY DEF Operate, Rename
<1>7. /\ GP!PointersAgree(gprFree') /\ gprFree'.count = f + r - k
      /\ IsClock(f, r, k, free, pipe, free2)
    <2>1. k <= f
        <3> HIDE DEF k, f
        <3> QED BY <1>2, <1>3
    <2>2. LET f2 == GPR!Clock(gprFree, k, pipe)
          IN  /\ GP!PointersAgree(f2)
              /\ f2.count = f + r - k
              /\ IsClock(f, r, k, free, pipe, GPR!Contents(f2))
        <3> HIDE DEF k, pipe
        <3> QED BY <1>2, <1>3, <2>1, GprClock DEF r
    <2>3. QED
        BY <1>6, <2>2
<1>9. PICK next \in Nat : next = c + g - n
    BY <1>1
<1> DEFINE W == GprWriters(c)
           X == GprWriters(next)'
           map == rrmt
           map2 == rrmt'
<1>10. IsCycle(c, n, g, W, L, X, DstOf, LaneDst(group), DstOf')
    BY <1>9, GprCycle
<1>11. IsRetired(c, Below(W, n), LReg, LogOf, DstOf, map, PrevOf, map2)
    BY GprMapped
<1>12. PICK T, at, m :
         /\ IsPushed(n, T, Below(W, n), at, PrevOf, released'.gpr)
         /\ m = Cardinality(T) /\ m \in 0 .. n
         /\ released'.gpr = [i \in 1 .. m |-> released'.gpr[i]]
    BY GprRetire
<1>13. Conserved(PhyReg, free, f, pipe, r, DstOf, W, map, LReg)
    BY DEF GprInv
<1>14. Conserved(PhyReg, free2, f + r - k, released'.gpr, m, DstOf', X, map2, LReg)
    <2> DEFINE dst == DstOf
               dst2 == DstOf'
               lane == LaneDst(group)
               prev == PrevOf
               key == LogOf
               pipe2 == released'.gpr
               keys == LReg
    <2>1. /\ IsCycle(c, n, g, W, L, X, dst, lane, dst2)
          /\ IsRetired(c, Below(W, n), keys, key, dst, map, prev, map2)
          /\ IsPushed(n, T, Below(W, n), at, prev, pipe2)
          /\ IsPopped(g, L, f, free, lane)
          /\ IsClock(f, r, Cardinality(L), free, pipe, free2)
          /\ Conserved(PhyReg, free, f, pipe, r, dst, W, map, keys)
        BY <1>3, <1>7, <1>10, <1>11, <1>12, <1>13
    <2> HIDE DEF dst, dst2, lane, prev, key, pipe2, keys, c, n, g, W, L, X, map, map2,
             f, free, free2, pipe, r, k
    <2>2. Conserved(PhyReg, free2, f + r - Cardinality(L), pipe2, Cardinality(T),
                    dst2, X, map2, keys)
        BY <2>1, CycleConserves
    <2>3. QED
        BY <1>12, <2>2 DEF k, pipe2, dst2, keys
<1>15. \A i \in 1 .. m : released'.gpr[i] \in PhyReg
    <2> HIDE DEF X, map2, free2, f, r, k
    <2> QED BY <1>14, ConservedValues
<1>16. m \in Nat /\ m <= COMMIT_WIDTH
    <2> HIDE DEF n, c
    <2> QED BY <1>1, <1>12, Sizes
<1>17. /\ released'.gpr \in Seq(PhyReg) /\ Len(released'.gpr) = m
    <2> DEFINE pipe2 == released'.gpr
    <2>1. pipe2 = [i \in 1 .. m |-> pipe2[i]] /\ \A i \in 1 .. m : pipe2[i] \in PhyReg
        BY <1>12, <1>15
    <2> HIDE DEF pipe2
    <2>2. pipe2 \in [1 .. m -> PhyReg]
        BY <2>1
    <2>3. pipe2 \in Seq(PhyReg) /\ Len(pipe2) = m
        BY <1>16, <2>2
    <2>4. QED
        BY <2>3 DEF pipe2
<1>18. al'.count = next /\ gprFree'.count = f + r - k
    BY <1>1, <1>7, <1>9
<1>19. Conserved(PhyReg, GPR!Contents(gprFree'), gprFree'.count, released'.gpr,
                 Len(released'.gpr), DstOf', GprWriters(next)', rrmt', LReg)
    <2> HIDE DEF f, r, k
    <2> QED BY <1>14, <1>17, <1>18
<1>20. GprWriters(al.count)' = GprWriters(next)'
    BY <1>18 DEF GprWriters
<1>21. QED
    BY <1>7, <1>16, <1>17, <1>19, <1>20 DEF GprInv, GPR!Contents, GPR!Peek

(* The list always has room for what is on its way to it. *)
LEMMA FlagListHasRoom ==
    ASSUME ListInv, FlagInv
    PROVE  /\ flagFree.count \in Nat /\ flagFree.count \in 0 .. FLAG_FREE_LIST_ENTRY_NUM
           /\ released.flag \in Seq(PhyFlag)
           /\ Len(released.flag) \in Nat /\ Len(released.flag) <= COMMIT_WIDTH
           /\ flagFree.count + Len(released.flag) <= FLAG_FREE_LIST_ENTRY_NUM
           /\ FP!PointersAgree(flagFree)
<1>1. /\ FP!PointersAgree(flagFree)
      /\ released.flag \in Seq(PhyFlag) /\ Len(released.flag) <= COMMIT_WIDTH
      /\ Conserved(PhyFlag, FLG!Contents(flagFree), flagFree.count,
                   released.flag, Len(released.flag),
                   DstFlagsOf, FlagWriters(al.count), [x \in FlagKeys |-> archFlags], FlagKeys)
    BY DEF FlagInv
<1>2. flagFree.count \in Nat /\ flagFree.count \in 0 .. FLAG_FREE_LIST_ENTRY_NUM
    BY <1>1, Sizes DEF FP!PointersAgree
<1>3. Len(released.flag) \in Nat
    BY <1>1, LenProperties
<1>4. al.count \in Nat
    BY ActiveListSizeAssumption DEF ActiveListSizeAssumption, ListInv
<1> DEFINE map == [x \in FlagKeys |-> archFlags]
           free == FLG!Contents(flagFree)
           f == flagFree.count
           pipe == released.flag
           r == Len(pipe)
           W == FlagWriters(al.count)
<1>5. IsFiniteSet(W) /\ Conserved(PhyFlag, free, f, pipe, r, DstFlagsOf, W, map, FlagKeys)
    BY <1>1, <1>4, WindowIsFinite
<1>6. f \in Nat /\ r \in Nat
    BY <1>2, <1>3
<1> HIDE DEF map, free, f, pipe, r, W
<1>7. /\ Cardinality(W) \in Nat /\ Cardinality(FlagKeys) \in Nat
      /\ f + r + Cardinality(W) + Cardinality(FlagKeys) = Cardinality(PhyFlag)
    BY <1>5, <1>6, RegisterNumbers, ConservedSizes
<1>8. f + r <= FLAG_FREE_LIST_ENTRY_NUM
    BY <1>6, <1>7, RegisterNumbers, Sizes
<1>9. QED
    BY <1>1, <1>2, <1>3, <1>8 DEF f, r, pipe

(* The lanes of a group take the oldest flag registers of the list, in order. *)
LEMMA FlagPopped ==
    ASSUME ListInv, FlagInv, NEW group \in Groups
    PROVE  LET g == Len(group)
               L == FlagWritersBefore(group, g + 1)
               k == Cardinality(L)
               f == flagFree.count
           IN  /\ L \in SUBSET (1 .. g) /\ k \in 0 .. g
               /\ k \in 0 .. RENAME_WIDTH /\ k \in 0 .. f
               /\ IsPopped(g, L, f, FLG!Contents(flagFree), LaneDstFlags(group))
<1> DEFINE g == Len(group)
           L == FlagWritersBefore(group, g + 1)
           k == Cardinality(L)
           f == flagFree.count
           free == FLG!Contents(flagFree)
<1>1. g \in Nat
    BY GroupFacts
<1>2. f \in Nat /\ f \in 0 .. FLAG_FREE_LIST_ENTRY_NUM
    BY FlagListHasRoom
<1>3. L \in SUBSET (1 .. g)
    <2>1. L \subseteq 1 .. (g + 1) - 1 /\ (g + 1) - 1 = g
        BY <1>1 DEF FlagWritersBefore
    <2> HIDE DEF L
    <2>2. QED
        BY <2>1
<1>4. k \in 0 .. g
    BY <1>1, <1>3, LanesAreFinite
<1>5. k \in 0 .. RENAME_WIDTH /\ k \in 0 .. f
    <2>1. CASE group = <<>>
        <3>1. g = 0
            BY <2>1
        <3> HIDE DEF k, f, g
        <3>2. QED
            BY <1>2, <1>4, <3>1, Sizes
    <2>2. CASE group # <<>>
        <3>1. g \in 0 .. RENAME_WIDTH /\ f >= RENAME_WIDTH
            BY <2>2, GroupFits
        <3> HIDE DEF k, f, g
        <3>2. QED
            BY <1>2, <1>4, <3>1, Sizes
    <2>3. QED
        BY <2>1, <2>2
<1>6. IsPopped(g, L, f, free, LaneDstFlags(group))
    <2>1. \A j \in L : j \in 1 .. g /\ j \in Nat
        BY <1>1, <1>3
    <2>2. ASSUME NEW j \in L
          PROVE  LaneDstFlags(group)[j] = free[Rank(L, j) + 1]
        <3>1. \A i : i \in 1 .. j - 1 <=> i \in 1 .. (g + 1) - 1 /\ i < j
            BY <1>1, <2>1
        <3>2. FlagWritersBefore(group, j) = {i \in L : i < j}
            BY <3>1 DEF FlagWritersBefore
        <3>3. LaneDstFlags(group)[j] = FLG!Peek(flagFree, Rank(L, j))
            BY <2>1, <3>2 DEF LaneDstFlags, AllocatedFlag, Rank
        <3>4. Rank(L, j) \in 0 .. k - 1
            BY <1>1, <1>3, Ranks
        <3>5. PICK rank \in Nat : rank = Rank(L, j) /\ rank \in 0 .. k - 1
            BY <1>4, <3>4
        <3>6. rank + 1 \in 1 .. f /\ (rank + 1) - 1 = rank
            <4> HIDE DEF k, f, L
            <4> QED BY <1>2, <1>5, <3>5
        <3>7. free[rank + 1] = FLG!Peek(flagFree, rank)
            BY <3>6 DEF FLG!Contents
        <3>8. QED
            BY <3>3, <3>5, <3>7
    <2> HIDE DEF L, f, g, free
    <2>3. QED
        BY <1>1, <1>2, <1>3, <1>5, <2>2 DEF IsPopped, k
<1>7. QED
    BY <1>3, <1>4, <1>5, <1>6

(* A cycle that renames a group and retires ops keeps every register. *)
LEMMA OperateKeepsFlag ==
    ASSUME FP!NoIndexOverflow, RecoveryInv, MapsInv, FlagInv,
           manager.phase # "RECOVER_0", committer.phase = "COMMIT",
           NEW group \in Groups, NEW w \in Writes, Operate(group, w)
    PROVE  FlagInv'
<1> DEFINE n == Decision.commitNum
           c == al.count
           g == Len(group)
           L == FlagWritersBefore(group, g + 1)
           k == Cardinality(L)
           f == flagFree.count
           pipe == released.flag
           r == Len(pipe)
           free == FLG!Contents(flagFree)
           free2 == FLG!Contents(flagFree')
<1>1. /\ c \in Nat /\ g \in Nat /\ n \in Nat /\ n \in 0 .. c
      /\ al'.count = c + g - n /\ n \in 0 .. COMMIT_WIDTH
    BY OperateFacts, CommitNumBound
<1>2. /\ f \in Nat /\ f \in 0 .. FLAG_FREE_LIST_ENTRY_NUM /\ pipe \in Seq(PhyFlag)
      /\ r \in Nat /\ r <= COMMIT_WIDTH /\ f + r <= FLAG_FREE_LIST_ENTRY_NUM
      /\ FP!PointersAgree(flagFree)
    BY FlagListHasRoom DEF RecoveryInv
<1>3. /\ L \in SUBSET (1 .. g) /\ k \in 0 .. g
      /\ k \in 0 .. RENAME_WIDTH /\ k \in 0 .. f
      /\ IsPopped(g, L, f, free, LaneDstFlags(group))
    BY FlagPopped DEF RecoveryInv
<1>6. flagFree' = FLG!Clock(flagFree, k, pipe)
    BY DEF Operate, Rename
<1>7. /\ FP!PointersAgree(flagFree') /\ flagFree'.count = f + r - k
      /\ IsClock(f, r, k, free, pipe, free2)
    <2>1. k <= f
        <3> HIDE DEF k, f
        <3> QED BY <1>2, <1>3
    <2>2. LET f2 == FLG!Clock(flagFree, k, pipe)
          IN  /\ FP!PointersAgree(f2)
              /\ f2.count = f + r - k
              /\ IsClock(f, r, k, free, pipe, FLG!Contents(f2))
        <3> HIDE DEF k, pipe
        <3> QED BY <1>2, <1>3, <2>1, FlagClock DEF r
    <2>3. QED
        BY <1>6, <2>2
<1>9. PICK next \in Nat : next = c + g - n
    BY <1>1
<1> DEFINE W == FlagWriters(c)
           X == FlagWriters(next)'
           map == [x \in FlagKeys |-> archFlags]
           map2 == [x \in FlagKeys |-> archFlags']
<1>10. IsCycle(c, n, g, W, L, X, DstFlagsOf, LaneDstFlags(group), DstFlagsOf')
    BY <1>9, FlagCycle
<1>11. IsRetired(c, Below(W, n), FlagKeys, FlagKeyOf, DstFlagsOf, map, PrevFlagsOf, map2)
    BY FlagMapped
<1>12. PICK T, at, m :
         /\ IsPushed(n, T, Below(W, n), at, PrevFlagsOf, released'.flag)
         /\ m = Cardinality(T) /\ m \in 0 .. n
         /\ released'.flag = [i \in 1 .. m |-> released'.flag[i]]
    BY FlagRetire
<1>13. Conserved(PhyFlag, free, f, pipe, r, DstFlagsOf, W, map, FlagKeys)
    BY DEF FlagInv
<1>14. Conserved(PhyFlag, free2, f + r - k, released'.flag, m, DstFlagsOf', X, map2, FlagKeys)
    <2> DEFINE dst == DstFlagsOf
               dst2 == DstFlagsOf'
               lane == LaneDstFlags(group)
               prev == PrevFlagsOf
               key == FlagKeyOf
               pipe2 == released'.flag
               keys == FlagKeys
    <2>1. /\ IsCycle(c, n, g, W, L, X, dst, lane, dst2)
          /\ IsRetired(c, Below(W, n), keys, key, dst, map, prev, map2)
          /\ IsPushed(n, T, Below(W, n), at, prev, pipe2)
          /\ IsPopped(g, L, f, free, lane)
          /\ IsClock(f, r, Cardinality(L), free, pipe, free2)
          /\ Conserved(PhyFlag, free, f, pipe, r, dst, W, map, keys)
        BY <1>3, <1>7, <1>10, <1>11, <1>12, <1>13
    <2> HIDE DEF dst, dst2, lane, prev, key, pipe2, keys, c, n, g, W, L, X, map, map2,
             f, free, free2, pipe, r, k
    <2>2. Conserved(PhyFlag, free2, f + r - Cardinality(L), pipe2, Cardinality(T),
                    dst2, X, map2, keys)
        BY <2>1, CycleConserves
    <2>3. QED
        BY <1>12, <2>2 DEF k, pipe2, dst2, keys
<1>15. \A i \in 1 .. m : released'.flag[i] \in PhyFlag
    <2> HIDE DEF X, map2, free2, f, r, k
    <2> QED BY <1>14, ConservedValues
<1>16. m \in Nat /\ m <= COMMIT_WIDTH
    <2> HIDE DEF n, c
    <2> QED BY <1>1, <1>12, Sizes
<1>17. /\ released'.flag \in Seq(PhyFlag) /\ Len(released'.flag) = m
    <2> DEFINE pipe2 == released'.flag
    <2>1. pipe2 = [i \in 1 .. m |-> pipe2[i]] /\ \A i \in 1 .. m : pipe2[i] \in PhyFlag
        BY <1>12, <1>15
    <2> HIDE DEF pipe2
    <2>2. pipe2 \in [1 .. m -> PhyFlag]
        BY <2>1
    <2>3. pipe2 \in Seq(PhyFlag) /\ Len(pipe2) = m
        BY <1>16, <2>2
    <2>4. QED
        BY <2>3 DEF pipe2
<1>18. al'.count = next /\ flagFree'.count = f + r - k
    BY <1>1, <1>7, <1>9
<1>19. Conserved(PhyFlag, FLG!Contents(flagFree'), flagFree'.count, released'.flag,
                 Len(released'.flag), DstFlagsOf', FlagWriters(next)', [x \in FlagKeys |-> archFlags'], FlagKeys)
    <2> HIDE DEF f, r, k
    <2> QED BY <1>14, <1>17, <1>18
<1>20. FlagWriters(al.count)' = FlagWriters(next)'
    BY <1>18 DEF FlagWriters
<1>21. QED
    BY <1>7, <1>16, <1>17, <1>19, <1>20 DEF FlagInv, FLG!Contents, FLG!Peek

-----------------------------------------------------------------------------
(* A cycle that renames nothing and hands on what leaves the window *)
LEMMA UndoKeepsGpr ==
    ASSUME GP!NoIndexOverflow, ListInv, GprInv,
           gprFree' = GPR!Clock(gprFree, 0, released.gpr),
           rrmt' = rrmt, archFlags' = archFlags,
           NEW next, next = al'.count, NEW n, NEW T, NEW at, NEW m,
           GprWriters(next)' \subseteq GprWriters(al.count),
           \A i \in GprWriters(next)' : DstOf'[i] = DstOf[i],
           IsPushed(n, T, GprWriters(al.count) \ GprWriters(next)', at, DstOf, released'.gpr),
           m = Cardinality(T), m \in Nat, m <= COMMIT_WIDTH,
           released'.gpr = [i \in 1 .. m |-> released'.gpr[i]]
    PROVE  GprInv'
<1> DEFINE f == gprFree.count
           pipe == released.gpr
           r == Len(pipe)
           free == GPR!Contents(gprFree)
           free2 == GPR!Contents(gprFree')
           W == GprWriters(al.count)
           X == GprWriters(next)'
           map == rrmt
<1>1. /\ f \in Nat /\ f \in 0 .. SCALAR_FREE_LIST_ENTRY_NUM /\ pipe \in Seq(PhyReg)
      /\ r \in Nat /\ r <= COMMIT_WIDTH /\ f + r <= SCALAR_FREE_LIST_ENTRY_NUM
      /\ GP!PointersAgree(gprFree)
    BY GprListHasRoom
<1>2. /\ GP!PointersAgree(gprFree') /\ gprFree'.count = f + r - 0
      /\ IsClock(f, r, 0, free, pipe, free2)
    <2>1. 0 <= f /\ 0 \in 0 .. RENAME_WIDTH
        <3> HIDE DEF f
        <3> QED BY <1>1, Sizes
    <2>2. LET f2 == GPR!Clock(gprFree, 0, pipe)
          IN  /\ GP!PointersAgree(f2)
              /\ f2.count = f + r - 0
              /\ IsClock(f, r, 0, free, pipe, GPR!Contents(f2))
        <3> HIDE DEF pipe
        <3> QED BY <1>1, <2>1, GprClock DEF r
    <2>3. QED
        BY <2>2
<1>3. Conserved(PhyReg, free, f, pipe, r, DstOf, W, map, LReg)
    BY DEF GprInv
<1>4. Conserved(PhyReg, free2, f + r - 0, released'.gpr, m, DstOf', X, map, LReg)
    <2> DEFINE dst == DstOf
               dst2 == DstOf'
               pipe2 == released'.gpr
               keys == LReg
    <2>1. /\ IsPushed(n, T, W \ X, at, dst, pipe2)
          /\ IsClock(f, r, 0, free, pipe, free2)
          /\ Conserved(PhyReg, free, f, pipe, r, dst, W, map, keys)
          /\ X \in SUBSET W /\ \A i \in X : dst2[i] = dst[i]
        BY <1>2, <1>3
    <2> HIDE DEF dst, dst2, pipe2, keys, W, X, map, f, free, free2, pipe, r
    <2>2. Conserved(PhyReg, free2, f + r - 0, pipe2, Cardinality(T), dst2, X, map, keys)
        BY <2>1, PopConserves
    <2>3. QED
        BY <2>2 DEF pipe2, dst2, keys
<1>5. \A i \in 1 .. m : released'.gpr[i] \in PhyReg
    <2> HIDE DEF X, map, free2, f, r
    <2> QED BY <1>4, ConservedValues
<1>6. /\ released'.gpr \in Seq(PhyReg) /\ Len(released'.gpr) = m
    <2> DEFINE pipe2 == released'.gpr
    <2>1. pipe2 = [i \in 1 .. m |-> pipe2[i]] /\ \A i \in 1 .. m : pipe2[i] \in PhyReg
        BY <1>5
    <2> HIDE DEF pipe2
    <2>2. pipe2 \in [1 .. m -> PhyReg]
        BY <2>1
    <2>3. pipe2 \in Seq(PhyReg) /\ Len(pipe2) = m
        BY <2>2
    <2>4. QED
        BY <2>3 DEF pipe2
<1>7. Conserved(PhyReg, GPR!Contents(gprFree'), gprFree'.count, released'.gpr,
                 Len(released'.gpr), DstOf', GprWriters(next)', rrmt', LReg)
    <2>1. map = rrmt'
        OBVIOUS
    <2> HIDE DEF f, r, map
    <2> QED BY <1>2, <1>4, <1>6, <2>1
<1>8. GprWriters(al.count)' = GprWriters(next)'
    BY DEF GprWriters
<1>9. QED
    BY <1>2, <1>6, <1>7, <1>8 DEF GprInv, GPR!Contents, GPR!Peek

(* The pop of a recovery: the lanes hand on what the youngest ops took. *)
LEMMA PopKeepsGpr ==
    ASSUME GP!NoIndexOverflow, RecoveryInv, GprInv, PopFlushed
    PROVE  GprInv'
<1> DEFINE n == PopTailNum
           c == al.count
           entries == [k \in 1 .. n |-> activeList[TailPtr(k - 1)]]
           T == LanesThatWrite(entries, n)
           at == [k \in T |-> c - k]
           W == GprWriters(c)
<1>1. /\ c \in Nat /\ n \in 0 .. c /\ al'.count = c - n
      /\ \A i \in 0 .. n - 1 : TailPtr(i) = PtrAt(al.head, c - 1 - i)
    BY PopFacts
<1>2. n \in Nat /\ n <= COMMIT_WIDTH
    <2>1. committer.recoveryCount \in 0 .. c /\ c \in Nat
        BY <1>1 DEF RecoveryInv, PhaseInv
    <2>2. QED
        BY <2>1, Sizes DEF PopTailNum
<1>3. /\ gprFree' = GPR!Clock(gprFree, 0, released.gpr)
      /\ rrmt' = rrmt /\ archFlags' = archFlags
      /\ released' = ReleasedBy(entries, FALSE)
    BY DEF PopFlushed
<1>4. \A i \in 0 .. c - n - 1 : OpAt(i)' = OpAt(i)
    BY PopEntries
<1>5. DOMAIN entries = 1 .. n /\ \A k \in 1 .. n : entries[k] = OpAt(c - k)
    <2>1. DOMAIN entries = 1 .. n
        OBVIOUS
    <2>2. ASSUME NEW k \in 1 .. n
          PROVE  entries[k] = OpAt(c - k)
        <3>1. PICK i \in 0 .. n - 1 : i = k - 1 /\ c - 1 - i = c - k
            BY <1>1, <1>2
        <3>2. activeList[TailPtr(i)] = OpAt(c - k)
            BY <1>1, <3>1, HeadPtrIsPtrAt DEF OpAt
        <3>3. QED
            BY <3>1, <3>2
    <2>3. QED
        BY <2>1, <2>2
<1>6. PICK next \in Nat : next = c - n
    BY <1>1, <1>2
<1> HIDE DEF n, c, entries
<1> DEFINE X == GprWriters(next)'
           S == W \ X
<1>7. /\ \A i \in 0 .. next - 1 : i \in 0 .. c - n - 1 /\ i \in 0 .. c - 1 /\ i \in Nat
      /\ \A i : i \in n - n .. n - 1 => i \in Nat
    BY <1>1, <1>2, <1>6
<1>8. X \subseteq W /\ \A i \in X : DstOf'[i] = DstOf[i]
    <2>1. \A i \in 0 .. next - 1 : OpAt(i)' = OpAt(i)
        BY <1>4, <1>7
    <2>2. QED
        BY <1>7, <2>1 DEF GprWriters, DstOf
<1>9. \A i : i \in S <=> i \in next .. c - 1 /\ OpAt(i).writeReg
    <2>1. \A i \in 0 .. c - 1 : i \notin 0 .. next - 1 <=> i \in next .. c - 1
        BY <1>1, <1>2, <1>6
    <2>2. \A i \in next .. c - 1 : i \in 0 .. c - 1
        BY <1>1, <1>2, <1>6
    <2>3. \A i \in 0 .. next - 1 : i \in X <=> OpAt(i).writeReg
        BY <1>4, <1>7 DEF GprWriters
    <2>4. \A i : i \in X => i \in 0 .. next - 1
        BY DEF GprWriters
    <2>5. \A i : i \in W <=> i \in 0 .. c - 1 /\ OpAt(i).writeReg
        BY DEF GprWriters
    <2> HIDE DEF X, W
    <2>6. QED
        BY <2>1, <2>2, <2>3, <2>4, <2>5
<1>10. T \in SUBSET (1 .. n) /\ \A k \in 1 .. n : k \in T <=> OpAt(c - k).writeReg
    BY <1>5 DEF LanesThatWrite
<1>11. released'.gpr = [k \in 1 .. Cardinality(T) |-> entries[NthLane(T, k)].phyDst]
    BY <1>2, <1>3, <1>5, FlushedSequences
<1> HIDE DEF T, S, X, W
<1>12. Lists(at, T, S)
    <2>1. /\ \A k \in 1 .. n : c - k \in next .. c - 1
          /\ \A j, k \in 1 .. n : c - j = c - k => j = k
          /\ \A i \in next .. c - 1 : c - i \in 1 .. n /\ c - (c - i) = i
        BY <1>1, <1>2, <1>6
    <2>2. \A k \in T : at[k] = c - k /\ k \in 1 .. n
        BY <1>10
    <2> HIDE DEF at
    <2>3. \A k \in T : at[k] \in S
        BY <1>9, <1>10, <2>1, <2>2
    <2>4. \A j, k \in T : at[j] = at[k] => j = k
        BY <2>1, <2>2
    <2>5. ASSUME NEW i \in S
          PROVE  \E k \in T : at[k] = i
        <3>1. i \in next .. c - 1 /\ OpAt(i).writeReg
            BY <1>9
        <3>2. PICK k \in 1 .. n : k = c - i /\ c - k = i
            BY <2>1, <3>1
        <3>3. k \in T
            BY <1>10, <3>1, <3>2
        <3>4. QED
            BY <2>2, <3>2, <3>3
    <2>6. QED
        BY <2>3, <2>4, <2>5 DEF Lists
<1>13. \A k \in 1 .. Cardinality(T) : NthLane(T, k) \in T
    <2>1. Lists([k \in 1 .. Cardinality(T) |-> NthLane(T, k)], 1 .. Cardinality(T), T)
        BY <1>2, <1>10, NthLaneLists
    <2>2. QED
        BY <2>1 DEF Lists
<1>14. \A k \in 1 .. Cardinality(T) : released'.gpr[k] = DstOf[at[NthLane(T, k)]]
    <2>1. \A k \in 1 .. n : c - k \in Nat
        BY <1>1, <1>2
    <2>2. \A k \in T : /\ at[k] \in Nat /\ at[k] = c - k
                       /\ entries[k] = OpAt(c - k)
        BY <1>5, <1>10, <2>1
    <2> HIDE DEF at
    <2>3. \A k \in T : entries[k].phyDst = DstOf[at[k]]
        BY <2>2 DEF DstOf
    <2>4. QED
        BY <1>11, <1>13, <2>3
<1> HIDE DEF at
<1>15. IsPushed(n, T, S, at, DstOf, released'.gpr)
    BY <1>2, <1>10, <1>12, <1>14 DEF IsPushed
<1>16. PICK m : m = Cardinality(T)
    OBVIOUS
<1>17. m \in Nat /\ m <= COMMIT_WIDTH
    <2>1. m \in 0 .. n
        BY <1>2, <1>10, <1>16, LanesAreFinite
    <2>2. QED
        BY <1>2, <2>1, Sizes
<1>18. released'.gpr = [i \in 1 .. m |-> released'.gpr[i]]
    BY <1>11, <1>16
<1>19. next = al'.count
    BY <1>1, <1>6
<1>20. ListInv
    BY DEF RecoveryInv
<1>21. QED
    BY <1>3, <1>8, <1>15, <1>16, <1>17, <1>18, <1>19, <1>20, UndoKeepsGpr
    DEF S, X, W, c

(* A cycle of a recovery that only lets the pipeline registers drain *)
LEMMA FlushKeepsGpr ==
    ASSUME GP!NoIndexOverflow, RecoveryInv, GprInv, Rename(<<>>),
           released' = NothingReleased,
           UNCHANGED <<rrmt, archFlags, activeList, al>>
    PROVE  GprInv'
<1>1. gprFree' = GPR!Clock(gprFree, 0, released.gpr)
    <2>1. Len(<<>>) + 1 = 1 /\ 1 .. 1 - 1 = {}
        OBVIOUS
    <2>2. GprWritersBefore(<<>>, 1) = {}
        BY <2>1 DEF GprWritersBefore
    <2>3. gprFree' = GPR!Clock(gprFree, Cardinality(GprWritersBefore(<<>>, 1)), released.gpr)
        BY <2>1 DEF Rename
    <2>4. Cardinality({}) = 0
        BY FS_EmptySet
    <2>5. QED
        BY <2>2, <2>3, <2>4
<1>2. al.count \in Nat /\ ListInv
    BY ActiveListSizeAssumption DEF ActiveListSizeAssumption, RecoveryInv, ListInv
<1>3. PICK next : next = al'.count /\ next = al.count
    OBVIOUS
<1>4. /\ GprWriters(next)' = GprWriters(next) /\ \A i \in GprWriters(next) : DstOf'[i] = DstOf[i]
    <2>1. \A i : OpAt(i)' = OpAt(i)
        BY DEF OpAt, HeadPtr
    <2>2. QED
        BY <2>1 DEF GprWriters, DstOf
<1>5. /\ GprWriters(next)' \subseteq GprWriters(al.count)
      /\ \A i \in GprWriters(next)' : DstOf'[i] = DstOf[i]
      /\ GprWriters(al.count) \ GprWriters(next)' = {}
    BY <1>3, <1>4
<1>6. released'.gpr = <<>>
    BY DEF NothingReleased
<1>7. Cardinality({}) = 0 /\ 1 .. 0 = {} /\ 0 <= COMMIT_WIDTH
    BY FS_EmptySet, Sizes
<1>8. IsPushed(0, {}, {}, <<>>, DstOf, released'.gpr)
    BY <1>7 DEF IsPushed, Lists
<1>9. <<>> = [i \in 1 .. 0 |-> <<>>[i]]
    BY <1>7
<1>10. released'.gpr = [i \in 1 .. 0 |-> released'.gpr[i]]
    BY <1>6, <1>9
<1>11. PICK m, T, at : m = 0 /\ T = {} /\ at = <<>>
    OBVIOUS
<1>12. /\ IsPushed(0, T, GprWriters(al.count) \ GprWriters(next)', at, DstOf, released'.gpr)
       /\ m = Cardinality(T) /\ m \in Nat /\ m <= COMMIT_WIDTH
       /\ released'.gpr = [i \in 1 .. m |-> released'.gpr[i]]
    BY <1>5, <1>7, <1>8, <1>10, <1>11
<1>13. next = al'.count /\ rrmt' = rrmt /\ archFlags' = archFlags
    BY <1>3
<1>14. QED
    BY <1>1, <1>2, <1>5, <1>12, <1>13, UndoKeepsGpr

(* A cycle that renames nothing and hands on what leaves the window *)
LEMMA UndoKeepsFlag ==
    ASSUME FP!NoIndexOverflow, ListInv, FlagInv,
           flagFree' = FLG!Clock(flagFree, 0, released.flag),
           rrmt' = rrmt, archFlags' = archFlags,
           NEW next, next = al'.count, NEW n, NEW T, NEW at, NEW m,
           FlagWriters(next)' \subseteq FlagWriters(al.count),
           \A i \in FlagWriters(next)' : DstFlagsOf'[i] = DstFlagsOf[i],
           IsPushed(n, T, FlagWriters(al.count) \ FlagWriters(next)', at, DstFlagsOf, released'.flag),
           m = Cardinality(T), m \in Nat, m <= COMMIT_WIDTH,
           released'.flag = [i \in 1 .. m |-> released'.flag[i]]
    PROVE  FlagInv'
<1> DEFINE f == flagFree.count
           pipe == released.flag
           r == Len(pipe)
           free == FLG!Contents(flagFree)
           free2 == FLG!Contents(flagFree')
           W == FlagWriters(al.count)
           X == FlagWriters(next)'
           map == [x \in FlagKeys |-> archFlags]
<1>1. /\ f \in Nat /\ f \in 0 .. FLAG_FREE_LIST_ENTRY_NUM /\ pipe \in Seq(PhyFlag)
      /\ r \in Nat /\ r <= COMMIT_WIDTH /\ f + r <= FLAG_FREE_LIST_ENTRY_NUM
      /\ FP!PointersAgree(flagFree)
    BY FlagListHasRoom
<1>2. /\ FP!PointersAgree(flagFree') /\ flagFree'.count = f + r - 0
      /\ IsClock(f, r, 0, free, pipe, free2)
    <2>1. 0 <= f /\ 0 \in 0 .. RENAME_WIDTH
        <3> HIDE DEF f
        <3> QED BY <1>1, Sizes
    <2>2. LET f2 == FLG!Clock(flagFree, 0, pipe)
          IN  /\ FP!PointersAgree(f2)
              /\ f2.count = f + r - 0
              /\ IsClock(f, r, 0, free, pipe, FLG!Contents(f2))
        <3> HIDE DEF pipe
        <3> QED BY <1>1, <2>1, FlagClock DEF r
    <2>3. QED
        BY <2>2
<1>3. Conserved(PhyFlag, free, f, pipe, r, DstFlagsOf, W, map, FlagKeys)
    BY DEF FlagInv
<1>4. Conserved(PhyFlag, free2, f + r - 0, released'.flag, m, DstFlagsOf', X, map, FlagKeys)
    <2> DEFINE dst == DstFlagsOf
               dst2 == DstFlagsOf'
               pipe2 == released'.flag
               keys == FlagKeys
    <2>1. /\ IsPushed(n, T, W \ X, at, dst, pipe2)
          /\ IsClock(f, r, 0, free, pipe, free2)
          /\ Conserved(PhyFlag, free, f, pipe, r, dst, W, map, keys)
          /\ X \in SUBSET W /\ \A i \in X : dst2[i] = dst[i]
        BY <1>2, <1>3
    <2> HIDE DEF dst, dst2, pipe2, keys, W, X, map, f, free, free2, pipe, r
    <2>2. Conserved(PhyFlag, free2, f + r - 0, pipe2, Cardinality(T), dst2, X, map, keys)
        BY <2>1, PopConserves
    <2>3. QED
        BY <2>2 DEF pipe2, dst2, keys
<1>5. \A i \in 1 .. m : released'.flag[i] \in PhyFlag
    <2> HIDE DEF X, map, free2, f, r
    <2> QED BY <1>4, ConservedValues
<1>6. /\ released'.flag \in Seq(PhyFlag) /\ Len(released'.flag) = m
    <2> DEFINE pipe2 == released'.flag
    <2>1. pipe2 = [i \in 1 .. m |-> pipe2[i]] /\ \A i \in 1 .. m : pipe2[i] \in PhyFlag
        BY <1>5
    <2> HIDE DEF pipe2
    <2>2. pipe2 \in [1 .. m -> PhyFlag]
        BY <2>1
    <2>3. pipe2 \in Seq(PhyFlag) /\ Len(pipe2) = m
        BY <2>2
    <2>4. QED
        BY <2>3 DEF pipe2
<1>7. Conserved(PhyFlag, FLG!Contents(flagFree'), flagFree'.count, released'.flag,
                 Len(released'.flag), DstFlagsOf', FlagWriters(next)', [x \in FlagKeys |-> archFlags'], FlagKeys)
    <2>1. map = [x \in FlagKeys |-> archFlags']
        OBVIOUS
    <2> HIDE DEF f, r, map
    <2> QED BY <1>2, <1>4, <1>6, <2>1
<1>8. FlagWriters(al.count)' = FlagWriters(next)'
    BY DEF FlagWriters
<1>9. QED
    BY <1>2, <1>6, <1>7, <1>8 DEF FlagInv, FLG!Contents, FLG!Peek

(* The pop of a recovery: the lanes hand on what the youngest ops took. *)
LEMMA PopKeepsFlag ==
    ASSUME FP!NoIndexOverflow, RecoveryInv, FlagInv, PopFlushed
    PROVE  FlagInv'
<1> DEFINE n == PopTailNum
           c == al.count
           entries == [k \in 1 .. n |-> activeList[TailPtr(k - 1)]]
           T == LanesThatWriteFlags(entries, n)
           at == [k \in T |-> c - k]
           W == FlagWriters(c)
<1>1. /\ c \in Nat /\ n \in 0 .. c /\ al'.count = c - n
      /\ \A i \in 0 .. n - 1 : TailPtr(i) = PtrAt(al.head, c - 1 - i)
    BY PopFacts
<1>2. n \in Nat /\ n <= COMMIT_WIDTH
    <2>1. committer.recoveryCount \in 0 .. c /\ c \in Nat
        BY <1>1 DEF RecoveryInv, PhaseInv
    <2>2. QED
        BY <2>1, Sizes DEF PopTailNum
<1>3. /\ flagFree' = FLG!Clock(flagFree, 0, released.flag)
      /\ rrmt' = rrmt /\ archFlags' = archFlags
      /\ released' = ReleasedBy(entries, FALSE)
    BY DEF PopFlushed
<1>4. \A i \in 0 .. c - n - 1 : OpAt(i)' = OpAt(i)
    BY PopEntries
<1>5. DOMAIN entries = 1 .. n /\ \A k \in 1 .. n : entries[k] = OpAt(c - k)
    <2>1. DOMAIN entries = 1 .. n
        OBVIOUS
    <2>2. ASSUME NEW k \in 1 .. n
          PROVE  entries[k] = OpAt(c - k)
        <3>1. PICK i \in 0 .. n - 1 : i = k - 1 /\ c - 1 - i = c - k
            BY <1>1, <1>2
        <3>2. activeList[TailPtr(i)] = OpAt(c - k)
            BY <1>1, <3>1, HeadPtrIsPtrAt DEF OpAt
        <3>3. QED
            BY <3>1, <3>2
    <2>3. QED
        BY <2>1, <2>2
<1>6. PICK next \in Nat : next = c - n
    BY <1>1, <1>2
<1> HIDE DEF n, c, entries
<1> DEFINE X == FlagWriters(next)'
           S == W \ X
<1>7. /\ \A i \in 0 .. next - 1 : i \in 0 .. c - n - 1 /\ i \in 0 .. c - 1 /\ i \in Nat
      /\ \A i : i \in n - n .. n - 1 => i \in Nat
    BY <1>1, <1>2, <1>6
<1>8. X \subseteq W /\ \A i \in X : DstFlagsOf'[i] = DstFlagsOf[i]
    <2>1. \A i \in 0 .. next - 1 : OpAt(i)' = OpAt(i)
        BY <1>4, <1>7
    <2>2. QED
        BY <1>7, <2>1 DEF FlagWriters, DstFlagsOf
<1>9. \A i : i \in S <=> i \in next .. c - 1 /\ OpAt(i).writeFlags
    <2>1. \A i \in 0 .. c - 1 : i \notin 0 .. next - 1 <=> i \in next .. c - 1
        BY <1>1, <1>2, <1>6
    <2>2. \A i \in next .. c - 1 : i \in 0 .. c - 1
        BY <1>1, <1>2, <1>6
    <2>3. \A i \in 0 .. next - 1 : i \in X <=> OpAt(i).writeFlags
        BY <1>4, <1>7 DEF FlagWriters
    <2>4. \A i : i \in X => i \in 0 .. next - 1
        BY DEF FlagWriters
    <2>5. \A i : i \in W <=> i \in 0 .. c - 1 /\ OpAt(i).writeFlags
        BY DEF FlagWriters
    <2> HIDE DEF X, W
    <2>6. QED
        BY <2>1, <2>2, <2>3, <2>4, <2>5
<1>10. T \in SUBSET (1 .. n) /\ \A k \in 1 .. n : k \in T <=> OpAt(c - k).writeFlags
    BY <1>5 DEF LanesThatWriteFlags
<1>11. released'.flag = [k \in 1 .. Cardinality(T) |-> entries[NthLane(T, k)].phyDstFlags]
    BY <1>2, <1>3, <1>5, FlushedSequences
<1> HIDE DEF T, S, X, W
<1>12. Lists(at, T, S)
    <2>1. /\ \A k \in 1 .. n : c - k \in next .. c - 1
          /\ \A j, k \in 1 .. n : c - j = c - k => j = k
          /\ \A i \in next .. c - 1 : c - i \in 1 .. n /\ c - (c - i) = i
        BY <1>1, <1>2, <1>6
    <2>2. \A k \in T : at[k] = c - k /\ k \in 1 .. n
        BY <1>10
    <2> HIDE DEF at
    <2>3. \A k \in T : at[k] \in S
        BY <1>9, <1>10, <2>1, <2>2
    <2>4. \A j, k \in T : at[j] = at[k] => j = k
        BY <2>1, <2>2
    <2>5. ASSUME NEW i \in S
          PROVE  \E k \in T : at[k] = i
        <3>1. i \in next .. c - 1 /\ OpAt(i).writeFlags
            BY <1>9
        <3>2. PICK k \in 1 .. n : k = c - i /\ c - k = i
            BY <2>1, <3>1
        <3>3. k \in T
            BY <1>10, <3>1, <3>2
        <3>4. QED
            BY <2>2, <3>2, <3>3
    <2>6. QED
        BY <2>3, <2>4, <2>5 DEF Lists
<1>13. \A k \in 1 .. Cardinality(T) : NthLane(T, k) \in T
    <2>1. Lists([k \in 1 .. Cardinality(T) |-> NthLane(T, k)], 1 .. Cardinality(T), T)
        BY <1>2, <1>10, NthLaneLists
    <2>2. QED
        BY <2>1 DEF Lists
<1>14. \A k \in 1 .. Cardinality(T) : released'.flag[k] = DstFlagsOf[at[NthLane(T, k)]]
    <2>1. \A k \in 1 .. n : c - k \in Nat
        BY <1>1, <1>2
    <2>2. \A k \in T : /\ at[k] \in Nat /\ at[k] = c - k
                       /\ entries[k] = OpAt(c - k)
        BY <1>5, <1>10, <2>1
    <2> HIDE DEF at
    <2>3. \A k \in T : entries[k].phyDstFlags = DstFlagsOf[at[k]]
        BY <2>2 DEF DstFlagsOf
    <2>4. QED
        BY <1>11, <1>13, <2>3
<1> HIDE DEF at
<1>15. IsPushed(n, T, S, at, DstFlagsOf, released'.flag)
    BY <1>2, <1>10, <1>12, <1>14 DEF IsPushed
<1>16. PICK m : m = Cardinality(T)
    OBVIOUS
<1>17. m \in Nat /\ m <= COMMIT_WIDTH
    <2>1. m \in 0 .. n
        BY <1>2, <1>10, <1>16, LanesAreFinite
    <2>2. QED
        BY <1>2, <2>1, Sizes
<1>18. released'.flag = [i \in 1 .. m |-> released'.flag[i]]
    BY <1>11, <1>16
<1>19. next = al'.count
    BY <1>1, <1>6
<1>20. ListInv
    BY DEF RecoveryInv
<1>21. QED
    BY <1>3, <1>8, <1>15, <1>16, <1>17, <1>18, <1>19, <1>20, UndoKeepsFlag
    DEF S, X, W, c

(* A cycle of a recovery that only lets the pipeline registers drain *)
LEMMA FlushKeepsFlag ==
    ASSUME FP!NoIndexOverflow, RecoveryInv, FlagInv, Rename(<<>>),
           released' = NothingReleased,
           UNCHANGED <<rrmt, archFlags, activeList, al>>
    PROVE  FlagInv'
<1>1. flagFree' = FLG!Clock(flagFree, 0, released.flag)
    <2>1. Len(<<>>) + 1 = 1 /\ 1 .. 1 - 1 = {}
        OBVIOUS
    <2>2. FlagWritersBefore(<<>>, 1) = {}
        BY <2>1 DEF FlagWritersBefore
    <2>3. flagFree' = FLG!Clock(flagFree, Cardinality(FlagWritersBefore(<<>>, 1)), released.flag)
        BY <2>1 DEF Rename
    <2>4. Cardinality({}) = 0
        BY FS_EmptySet
    <2>5. QED
        BY <2>2, <2>3, <2>4
<1>2. al.count \in Nat /\ ListInv
    BY ActiveListSizeAssumption DEF ActiveListSizeAssumption, RecoveryInv, ListInv
<1>3. PICK next : next = al'.count /\ next = al.count
    OBVIOUS
<1>4. /\ FlagWriters(next)' = FlagWriters(next) /\ \A i \in FlagWriters(next) : DstFlagsOf'[i] = DstFlagsOf[i]
    <2>1. \A i : OpAt(i)' = OpAt(i)
        BY DEF OpAt, HeadPtr
    <2>2. QED
        BY <2>1 DEF FlagWriters, DstFlagsOf
<1>5. /\ FlagWriters(next)' \subseteq FlagWriters(al.count)
      /\ \A i \in FlagWriters(next)' : DstFlagsOf'[i] = DstFlagsOf[i]
      /\ FlagWriters(al.count) \ FlagWriters(next)' = {}
    BY <1>3, <1>4
<1>6. released'.flag = <<>>
    BY DEF NothingReleased
<1>7. Cardinality({}) = 0 /\ 1 .. 0 = {} /\ 0 <= COMMIT_WIDTH
    BY FS_EmptySet, Sizes
<1>8. IsPushed(0, {}, {}, <<>>, DstFlagsOf, released'.flag)
    BY <1>7 DEF IsPushed, Lists
<1>9. <<>> = [i \in 1 .. 0 |-> <<>>[i]]
    BY <1>7
<1>10. released'.flag = [i \in 1 .. 0 |-> released'.flag[i]]
    BY <1>6, <1>9
<1>11. PICK m, T, at : m = 0 /\ T = {} /\ at = <<>>
    OBVIOUS
<1>12. /\ IsPushed(0, T, FlagWriters(al.count) \ FlagWriters(next)', at, DstFlagsOf, released'.flag)
       /\ m = Cardinality(T) /\ m \in Nat /\ m <= COMMIT_WIDTH
       /\ released'.flag = [i \in 1 .. m |-> released'.flag[i]]
    BY <1>5, <1>7, <1>8, <1>10, <1>11
<1>13. next = al'.count /\ rrmt' = rrmt /\ archFlags' = archFlags
    BY <1>3
<1>14. QED
    BY <1>1, <1>2, <1>5, <1>12, <1>13, UndoKeepsFlag

-----------------------------------------------------------------------------
LEMMA InitGpr ==
    ASSUME Init
    PROVE  GprInv
<1> DEFINE size == SCALAR_FREE_LIST_ENTRY_NUM
           keys == Cardinality(LReg)
           free == GPR!Contents(gprFree)
           map == rrmt
           M == size .. size + keys - 1
<1>1. size \in Nat \ {0} /\ keys \in Nat
    BY Sizes
<1>2. /\ GP!PointersAgree(gprFree) /\ gprFree.count = size
      /\ \A k \in 1 .. size : free[k] = k - 1
    <2>1. gprFree = GP!InitFreeList
        BY DEF Init, GPR!InitFreeList, GP!InitFreeList, GPR!Trunc, GP!Trunc
    <2>2. GP!Init
        BY <2>1 DEF GP!Init
    <2>3. /\ GP!PointersAgree(gprFree) /\ gprFree.count = SCALAR_FREE_LIST_ENTRY_NUM
          /\ \A k \in 1 .. SCALAR_FREE_LIST_ENTRY_NUM : GP!Contents(gprFree)[k] = k - 1
        BY <2>2, ListsFitTheModel, GP!InitialContents
    <2>4. QED
        BY <2>3, SameOperators
<1>3. \A l \in LReg : map[l] = size + l
    BY DEF Init, FlagKeys
<1>4. LReg = 0 .. keys - 1
    BY Sizes DEF FlagKeys
<1>5. PhyReg = 0 .. size + keys - 1
    BY Sizes DEF PhyReg
<1> HIDE DEF size, keys, map, free
<1>6. Lists(free, 1 .. size, 0 .. size - 1)
    <2>1. /\ \A k \in 1 .. size : k - 1 \in 0 .. size - 1 /\ k \in Int
          /\ \A v \in 0 .. size - 1 : v + 1 \in 1 .. size /\ (v + 1) - 1 = v
        BY <1>1
    <2>2. ASSUME NEW i \in 1 .. size, NEW j \in 1 .. size, free[i] = free[j]
          PROVE  i = j
        <3>1. i - 1 = j - 1 /\ i \in Int /\ j \in Int
            BY <1>2, <2>1, <2>2
        <3>2. QED
            BY <3>1
    <2>3. QED
        BY <1>2, <2>1, <2>2 DEF Lists
<1>7. Lists(map, LReg, M)
    <2>1. /\ \A l \in LReg : size + l \in M /\ l \in Int
          /\ \A v \in M : v - size \in LReg /\ size + (v - size) = v
        BY <1>1, <1>4
    <2>2. ASSUME NEW i \in LReg, NEW j \in LReg, map[i] = map[j]
          PROVE  i = j
        <3>1. size + i = size + j /\ i \in Int /\ j \in Int
            BY <1>3, <2>1, <2>2
        <3>2. QED
            BY <1>1, <3>1
    <2> HIDE DEF M
    <2>3. QED
        BY <1>3, <2>1, <2>2 DEF Lists
<1>8. /\ released.gpr = <<>> /\ Len(<<>>) = 0 /\ 1 .. 0 = {} /\ 0 <= COMMIT_WIDTH
      /\ <<>> \in Seq(PhyReg)
    BY Sizes DEF Init, NothingReleased
<1>9. GprWriters(al.count) = {}
    <2>1. al.count = 0 /\ 0 .. 0 - 1 = {}
        BY DEF Init
    <2>2. QED
        BY <2>1 DEF GprWriters
<1>10. Lists(released.gpr, 1 .. 0, {}) /\ Lists(DstOf, {}, {})
    BY <1>8 DEF Lists
<1>11. Parted(PhyReg, 0 .. size - 1, {}, {}, M)
    <2>1. /\ \A v \in 0 .. size - 1 : v \in PhyReg /\ v \notin M
          /\ \A v \in M : v \in PhyReg
          /\ \A v \in PhyReg : v \in 0 .. size - 1 \/ v \in M
        BY <1>1, <1>5
    <2> HIDE DEF M
    <2>2. QED
        BY <2>1 DEF Parted
<1> HIDE DEF M
<1>12. Conserved(PhyReg, free, size, released.gpr, 0, DstOf, GprWriters(al.count), map, LReg)
    BY <1>6, <1>7, <1>9, <1>10, <1>11 DEF Conserved
<1>13. QED
    BY <1>2, <1>8, <1>12 DEF GprInv, free, map

LEMMA StepKeepsGpr ==
    ASSUME GP!NoIndexOverflow
    PROVE  RecoveryInv /\ MapsInv /\ GprInv /\ [Next]_vars => GprInv'
<1> SUFFICES ASSUME RecoveryInv, MapsInv, GprInv, [Next]_vars
             PROVE  GprInv'
    OBVIOUS
<1>1. CASE Run
    <2>1. manager.phase # "RECOVER_0" /\ committer.phase = "COMMIT"
        BY <1>1 DEF Run, RecoveryInv, PhaseInv
    <2>2. PICK group \in Groups, w \in Writes : Operate(group, w)
        BY <1>1 DEF Run
    <2>3. QED
        BY <2>1, <2>2, OperateKeepsGpr
<1>2. CASE StartRecovery
    <2>1. /\ Rename(<<>>) /\ released' = NothingReleased
          /\ UNCHANGED <<rrmt, archFlags, activeList, al>>
        BY <1>2 DEF StartRecovery
    <2>2. QED
        BY <2>1, FlushKeepsGpr
<1>3. CASE LoadRecoveryCount
    <2>1. /\ Rename(<<>>) /\ released' = NothingReleased
          /\ UNCHANGED <<rrmt, archFlags, activeList, al>>
        BY <1>3 DEF LoadRecoveryCount
    <2>2. QED
        BY <2>1, FlushKeepsGpr
<1>4. CASE PopFlushed
    BY <1>4, PopKeepsGpr
<1>5. CASE AwaitIssueQueue
    <2>1. manager.phase # "RECOVER_0" /\ committer.phase = "COMMIT"
        BY <1>5 DEF AwaitIssueQueue
    <2>2. PICK group \in Groups, w \in Writes : Operate(group, w)
        BY <1>5 DEF AwaitIssueQueue
    <2>3. QED
        BY <2>1, <2>2, OperateKeepsGpr
<1>6. CASE UNCHANGED vars
    <2>1. /\ gprFree' = gprFree /\ released' = released /\ rrmt' = rrmt
          /\ archFlags' = archFlags /\ activeList' = activeList /\ al' = al
        BY <1>6 DEF vars
    <2>2. /\ DstOf' = DstOf
          /\ GprWriters(al.count)' = GprWriters(al.count)
          /\ GPR!Contents(gprFree)' = GPR!Contents(gprFree)
        BY <2>1 DEF DstOf, GprWriters, OpAt, HeadPtr, GPR!Contents, GPR!Peek
    <2>3. QED
        BY <2>1, <2>2 DEF GprInv
<1>7. QED
    BY <1>1, <1>2, <1>3, <1>4, <1>5, <1>6 DEF Next

LEMMA InitFlag ==
    ASSUME Init
    PROVE  FlagInv
<1> DEFINE size == FLAG_FREE_LIST_ENTRY_NUM
           keys == 1
           free == FLG!Contents(flagFree)
           map == [x \in FlagKeys |-> archFlags]
           M == size .. size + keys - 1
<1>1. size \in Nat \ {0} /\ keys \in Nat
    BY Sizes
<1>2. /\ FP!PointersAgree(flagFree) /\ flagFree.count = size
      /\ \A k \in 1 .. size : free[k] = k - 1
    <2>1. flagFree = FP!InitFreeList
        BY DEF Init, FLG!InitFreeList, FP!InitFreeList, FLG!Trunc, FP!Trunc
    <2>2. FP!Init
        BY <2>1 DEF FP!Init
    <2>3. /\ FP!PointersAgree(flagFree) /\ flagFree.count = FLAG_FREE_LIST_ENTRY_NUM
          /\ \A k \in 1 .. FLAG_FREE_LIST_ENTRY_NUM : FP!Contents(flagFree)[k] = k - 1
        BY <2>2, ListsFitTheModel, FP!InitialContents
    <2>4. QED
        BY <2>3, SameOperators
<1>3. \A l \in FlagKeys : map[l] = size + l
    <2>1. size + 0 = size /\ archFlags = size
        BY <1>1 DEF Init
    <2>2. QED
        BY <2>1 DEF FlagKeys
<1>4. FlagKeys = 0 .. keys - 1
    BY Sizes DEF FlagKeys
<1>5. PhyFlag = 0 .. size + keys - 1
    BY Sizes DEF PhyFlag
<1> HIDE DEF size, keys, map, free
<1>6. Lists(free, 1 .. size, 0 .. size - 1)
    <2>1. /\ \A k \in 1 .. size : k - 1 \in 0 .. size - 1 /\ k \in Int
          /\ \A v \in 0 .. size - 1 : v + 1 \in 1 .. size /\ (v + 1) - 1 = v
        BY <1>1
    <2>2. ASSUME NEW i \in 1 .. size, NEW j \in 1 .. size, free[i] = free[j]
          PROVE  i = j
        <3>1. i - 1 = j - 1 /\ i \in Int /\ j \in Int
            BY <1>2, <2>1, <2>2
        <3>2. QED
            BY <3>1
    <2>3. QED
        BY <1>2, <2>1, <2>2 DEF Lists
<1>7. Lists(map, FlagKeys, M)
    <2>1. /\ \A l \in FlagKeys : size + l \in M /\ l \in Int
          /\ \A v \in M : v - size \in FlagKeys /\ size + (v - size) = v
        BY <1>1, <1>4
    <2>2. ASSUME NEW i \in FlagKeys, NEW j \in FlagKeys, map[i] = map[j]
          PROVE  i = j
        <3>1. size + i = size + j /\ i \in Int /\ j \in Int
            BY <1>3, <2>1, <2>2
        <3>2. QED
            BY <1>1, <3>1
    <2> HIDE DEF M
    <2>3. QED
        BY <1>3, <2>1, <2>2 DEF Lists
<1>8. /\ released.flag = <<>> /\ Len(<<>>) = 0 /\ 1 .. 0 = {} /\ 0 <= COMMIT_WIDTH
      /\ <<>> \in Seq(PhyFlag)
    BY Sizes DEF Init, NothingReleased
<1>9. FlagWriters(al.count) = {}
    <2>1. al.count = 0 /\ 0 .. 0 - 1 = {}
        BY DEF Init
    <2>2. QED
        BY <2>1 DEF FlagWriters
<1>10. Lists(released.flag, 1 .. 0, {}) /\ Lists(DstFlagsOf, {}, {})
    BY <1>8 DEF Lists
<1>11. Parted(PhyFlag, 0 .. size - 1, {}, {}, M)
    <2>1. /\ \A v \in 0 .. size - 1 : v \in PhyFlag /\ v \notin M
          /\ \A v \in M : v \in PhyFlag
          /\ \A v \in PhyFlag : v \in 0 .. size - 1 \/ v \in M
        BY <1>1, <1>5
    <2> HIDE DEF M
    <2>2. QED
        BY <2>1 DEF Parted
<1> HIDE DEF M
<1>12. Conserved(PhyFlag, free, size, released.flag, 0, DstFlagsOf, FlagWriters(al.count), map, FlagKeys)
    BY <1>6, <1>7, <1>9, <1>10, <1>11 DEF Conserved
<1>13. QED
    BY <1>2, <1>8, <1>12 DEF FlagInv, free, map

LEMMA StepKeepsFlag ==
    ASSUME FP!NoIndexOverflow
    PROVE  RecoveryInv /\ MapsInv /\ FlagInv /\ [Next]_vars => FlagInv'
<1> SUFFICES ASSUME RecoveryInv, MapsInv, FlagInv, [Next]_vars
             PROVE  FlagInv'
    OBVIOUS
<1>1. CASE Run
    <2>1. manager.phase # "RECOVER_0" /\ committer.phase = "COMMIT"
        BY <1>1 DEF Run, RecoveryInv, PhaseInv
    <2>2. PICK group \in Groups, w \in Writes : Operate(group, w)
        BY <1>1 DEF Run
    <2>3. QED
        BY <2>1, <2>2, OperateKeepsFlag
<1>2. CASE StartRecovery
    <2>1. /\ Rename(<<>>) /\ released' = NothingReleased
          /\ UNCHANGED <<rrmt, archFlags, activeList, al>>
        BY <1>2 DEF StartRecovery
    <2>2. QED
        BY <2>1, FlushKeepsFlag
<1>3. CASE LoadRecoveryCount
    <2>1. /\ Rename(<<>>) /\ released' = NothingReleased
          /\ UNCHANGED <<rrmt, archFlags, activeList, al>>
        BY <1>3 DEF LoadRecoveryCount
    <2>2. QED
        BY <2>1, FlushKeepsFlag
<1>4. CASE PopFlushed
    BY <1>4, PopKeepsFlag
<1>5. CASE AwaitIssueQueue
    <2>1. manager.phase # "RECOVER_0" /\ committer.phase = "COMMIT"
        BY <1>5 DEF AwaitIssueQueue
    <2>2. PICK group \in Groups, w \in Writes : Operate(group, w)
        BY <1>5 DEF AwaitIssueQueue
    <2>3. QED
        BY <2>1, <2>2, OperateKeepsFlag
<1>6. CASE UNCHANGED vars
    <2>1. /\ flagFree' = flagFree /\ released' = released /\ rrmt' = rrmt
          /\ archFlags' = archFlags /\ activeList' = activeList /\ al' = al
        BY <1>6 DEF vars
    <2>2. /\ DstFlagsOf' = DstFlagsOf
          /\ FlagWriters(al.count)' = FlagWriters(al.count)
          /\ FLG!Contents(flagFree)' = FLG!Contents(flagFree)
        BY <2>1 DEF DstFlagsOf, FlagWriters, OpAt, HeadPtr, FLG!Contents, FLG!Peek
    <2>3. QED
        BY <2>1, <2>2 DEF FlagInv
<1>7. QED
    BY <1>1, <1>2, <1>3, <1>4, <1>5, <1>6 DEF Next

-----------------------------------------------------------------------------
(* The same of the named set of the places of a value. *)
PlacesIn(v, S, x) == {i \in S : v[i] = x}

LEMMA OnePlaceIn ==
    ASSUME NEW v, NEW S, NEW R, Lists(v, S, R), NEW x
    PROVE  Cardinality(PlacesIn(v, S, x)) = IF x \in R THEN 1 ELSE 0
<1>1. Cardinality({i \in S : v[i] = x}) = IF x \in R THEN 1 ELSE 0
    BY OnlyPlace
<1>2. QED
    BY <1>1 DEF PlacesIn

(* From the four parts to the number of places of a register *)
LEMMA GprOnePlace ==
    ASSUME RecoveryInv, GprInv
    PROVE  GprConserved
<1> DEFINE c == al.count
           h == al.head
           W == GprWriters(c)
           free == GPR!Contents(gprFree)
           pipe == released.gpr
           map == rrmt
<1>1. /\ h \in ALPtr /\ c \in 0 .. ACTIVE_LIST_ENTRY_NUM /\ c \in Nat
      /\ Window = Region(h, c)
    <2>1. h \in ALPtr /\ c \in 0 .. ACTIVE_LIST_ENTRY_NUM
        BY DEF RecoveryInv, ListInv
    <2>2. QED
        BY <2>1, WindowIsRegion, ActiveListSizeAssumption DEF ActiveListSizeAssumption
<1>2. PICK F, P, D, M :
         /\ Parted(PhyReg, F, P, D, M)
         /\ Lists(free, 1 .. gprFree.count, F) /\ Lists(pipe, 1 .. Len(pipe), P)
         /\ Lists(DstOf, W, D) /\ Lists(map, LReg, M)
    BY DEF GprInv, Conserved
<1>3. /\ DOMAIN free = 1 .. gprFree.count
      /\ DOMAIN pipe = 1 .. Len(pipe)
    BY DEF GPR!Contents, GprInv
<1> SUFFICES ASSUME NEW reg \in PhyReg
             PROVE  Places(reg, free, pipe, LAMBDA e : e.writeReg /\ e.phyDst = reg,
                           Cardinality({l \in LReg : rrmt[l] = reg})) = 1
    BY DEF GprConserved
<1> DEFINE S == {i \in W : DstOf[i] = reg}
           R == {p \in Window : activeList[p].writeReg /\ activeList[p].phyDst = reg}
           at == [i \in S |-> HeadPtr(i)]
<1>4. Cardinality(R) = Cardinality(S) /\ IsFiniteSet(S)
    <2>1. \A i \in 0 .. c - 1 : /\ i \in Nat /\ i < ACTIVE_LIST_ENTRY_NUM
                                /\ i \in 0 .. ACTIVE_LIST_ENTRY_NUM - 1
                                /\ i \in 0 .. ACTIVE_LIST_ENTRY_NUM
        BY <1>1, ActiveListSizeAssumption DEF ActiveListSizeAssumption
    <2>2. \A i : i \in S <=> /\ i \in 0 .. c - 1
                             /\ OpAt(i).writeReg /\ OpAt(i).phyDst = reg
        BY <2>1 DEF GprWriters, DstOf
    <2>3. \A i \in S : at[i] = PtrAt(h, i) /\ activeList[at[i]] = OpAt(i)
        BY HeadPtrIsPtrAt DEF OpAt
    <2> HIDE DEF S, at
    <2>4. \A i \in S : at[i] \in R
        <3>1. \A i \in S : PtrAt(h, i) \in Window
            BY <1>1, <2>2 DEF Region
        <3>2. QED
            BY <2>2, <2>3, <3>1
    <2>5. ASSUME NEW i \in S, NEW j \in S, at[i] = at[j]
          PROVE  i = j
        <3>1. i \in ALPtr /\ j \in ALPtr
            BY <2>1, <2>2 DEF ALPtr
        <3>2. PtrAt(h, i) = PtrAt(h, j)
            BY <2>3, <2>5
        <3>3. h \in ALPtr
            BY <1>1
        <3> HIDE DEF h
        <3>4. QED
            BY <3>1, <3>2, <3>3, PtrAtInjective
    <2>6. ASSUME NEW p \in R
          PROVE  \E i \in S : at[i] = p
        <3>1. PICK i \in 0 .. c - 1 : p = PtrAt(h, i)
            BY <1>1, RegionPlace
        <3>2. activeList[p] = OpAt(i)
            BY <3>1, HeadPtrIsPtrAt DEF OpAt
        <3>3. i \in S
            BY <2>2, <3>2
        <3>4. QED
            BY <2>3, <3>1, <3>3
    <2> HIDE DEF R
    <2>7. Lists(at, S, R)
        BY <2>4, <2>5, <2>6 DEF Lists
    <2>8. IsFiniteSet(S)
        <3> DEFINE dst == DstOf
        <3>1. Lists(dst, W, D)
            BY <1>2
        <3>2. S = {i \in W : dst[i] = reg}
            BY DEF S
        <3> HIDE DEF dst, W
        <3>3. QED
            BY <3>1, <3>2, OnlyPlace
    <2>9. QED
        BY <2>7, <2>8, ListSize
<1>5. /\ Cardinality({k \in 1 .. gprFree.count : free[k] = reg}) = IF reg \in F THEN 1 ELSE 0
      /\ Cardinality({k \in 1 .. Len(pipe) : pipe[k] = reg}) = IF reg \in P THEN 1 ELSE 0
      /\ Cardinality(S) = IF reg \in D THEN 1 ELSE 0
      /\ Cardinality({l \in LReg : map[l] = reg}) = IF reg \in M THEN 1 ELSE 0
    <2> DEFINE dst == DstOf
    <2>1. /\ Lists(free, 1 .. gprFree.count, F) /\ Lists(pipe, 1 .. Len(pipe), P)
          /\ Lists(dst, W, D) /\ Lists(map, LReg, M)
        BY <1>2
    <2>2. S = {i \in W : dst[i] = reg}
        OBVIOUS
    <2> HIDE DEF free, pipe, map, W, S, dst
    <2>3. Cardinality({k \in 1 .. gprFree.count : free[k] = reg}) = IF reg \in F THEN 1 ELSE 0
        <3>1. Cardinality(PlacesIn(free, 1 .. gprFree.count, reg)) = IF reg \in F THEN 1 ELSE 0
            BY <2>1, OnePlaceIn
        <3>2. QED
            BY <3>1 DEF PlacesIn
    <2>4. Cardinality({k \in 1 .. Len(pipe) : pipe[k] = reg}) = IF reg \in P THEN 1 ELSE 0
        <3>1. Cardinality(PlacesIn(pipe, 1 .. Len(pipe), reg)) = IF reg \in P THEN 1 ELSE 0
            BY <2>1, OnePlaceIn
        <3>2. QED
            BY <3>1 DEF PlacesIn
    <2>5. Cardinality(S) = IF reg \in D THEN 1 ELSE 0
        <3>1. S = PlacesIn(dst, W, reg)
            BY <2>2 DEF PlacesIn
        <3>2. QED
            BY <2>1, <3>1, OnePlaceIn
    <2>6. Cardinality({l \in LReg : map[l] = reg}) = IF reg \in M THEN 1 ELSE 0
        <3>1. Cardinality(PlacesIn(map, LReg, reg)) = IF reg \in M THEN 1 ELSE 0
            BY <2>1, OnePlaceIn
        <3>2. QED
            BY <3>1 DEF PlacesIn
    <2>7. QED
        BY <2>3, <2>4, <2>5, <2>6
<1>6. (Cardinality({l \in LReg : rrmt[l] = reg})) = IF reg \in M THEN 1 ELSE 0
    BY <1>5
<1>7. /\ reg \in F \/ reg \in P \/ reg \in D \/ reg \in M
      /\ reg \in F => reg \notin P /\ reg \notin D /\ reg \notin M
      /\ reg \in P => reg \notin D /\ reg \notin M
      /\ reg \in D => reg \notin M
    BY <1>2 DEF Parted
<1>8. /\ Cardinality({k \in DOMAIN free : free[k] = reg}) = IF reg \in F THEN 1 ELSE 0
      /\ Cardinality({k \in DOMAIN pipe : pipe[k] = reg}) = IF reg \in P THEN 1 ELSE 0
      /\ Cardinality(R) = IF reg \in D THEN 1 ELSE 0
    BY <1>3, <1>4, <1>5
<1> DEFINE inList == Cardinality({k \in DOMAIN free : free[k] = reg})
           inPipe == Cardinality({k \in DOMAIN pipe : pipe[k] = reg})
           inMap == Cardinality({l \in LReg : rrmt[l] = reg})
<1>9. inList + inPipe + Cardinality(R) + inMap = 1
    <2> HIDE DEF inList, inPipe, inMap, R
    <2>1. /\ inList = IF reg \in F THEN 1 ELSE 0
          /\ inPipe = IF reg \in P THEN 1 ELSE 0
          /\ inMap = IF reg \in M THEN 1 ELSE 0
        BY <1>6, <1>8 DEF inList, inPipe, inMap
    <2>2. QED
        BY <1>7, <1>8, <2>1
<1>10. QED
    BY <1>9 DEF Places

LEMMA FlagOnePlace ==
    ASSUME RecoveryInv, FlagInv
    PROVE  FlagsConserved
<1> DEFINE c == al.count
           h == al.head
           W == FlagWriters(c)
           free == FLG!Contents(flagFree)
           pipe == released.flag
           map == [x \in FlagKeys |-> archFlags]
<1>1. /\ h \in ALPtr /\ c \in 0 .. ACTIVE_LIST_ENTRY_NUM /\ c \in Nat
      /\ Window = Region(h, c)
    <2>1. h \in ALPtr /\ c \in 0 .. ACTIVE_LIST_ENTRY_NUM
        BY DEF RecoveryInv, ListInv
    <2>2. QED
        BY <2>1, WindowIsRegion, ActiveListSizeAssumption DEF ActiveListSizeAssumption
<1>2. PICK F, P, D, M :
         /\ Parted(PhyFlag, F, P, D, M)
         /\ Lists(free, 1 .. flagFree.count, F) /\ Lists(pipe, 1 .. Len(pipe), P)
         /\ Lists(DstFlagsOf, W, D) /\ Lists(map, FlagKeys, M)
    BY DEF FlagInv, Conserved
<1>3. /\ DOMAIN free = 1 .. flagFree.count
      /\ DOMAIN pipe = 1 .. Len(pipe)
    BY DEF FLG!Contents, FlagInv
<1> SUFFICES ASSUME NEW reg \in PhyFlag
             PROVE  Places(reg, free, pipe, LAMBDA e : e.writeFlags /\ e.phyDstFlags = reg,
                           IF archFlags = reg THEN 1 ELSE 0) = 1
    BY DEF FlagsConserved
<1> DEFINE S == {i \in W : DstFlagsOf[i] = reg}
           R == {p \in Window : activeList[p].writeFlags /\ activeList[p].phyDstFlags = reg}
           at == [i \in S |-> HeadPtr(i)]
<1>4. Cardinality(R) = Cardinality(S) /\ IsFiniteSet(S)
    <2>1. \A i \in 0 .. c - 1 : /\ i \in Nat /\ i < ACTIVE_LIST_ENTRY_NUM
                                /\ i \in 0 .. ACTIVE_LIST_ENTRY_NUM - 1
                                /\ i \in 0 .. ACTIVE_LIST_ENTRY_NUM
        BY <1>1, ActiveListSizeAssumption DEF ActiveListSizeAssumption
    <2>2. \A i : i \in S <=> /\ i \in 0 .. c - 1
                             /\ OpAt(i).writeFlags /\ OpAt(i).phyDstFlags = reg
        BY <2>1 DEF FlagWriters, DstFlagsOf
    <2>3. \A i \in S : at[i] = PtrAt(h, i) /\ activeList[at[i]] = OpAt(i)
        BY HeadPtrIsPtrAt DEF OpAt
    <2> HIDE DEF S, at
    <2>4. \A i \in S : at[i] \in R
        <3>1. \A i \in S : PtrAt(h, i) \in Window
            BY <1>1, <2>2 DEF Region
        <3>2. QED
            BY <2>2, <2>3, <3>1
    <2>5. ASSUME NEW i \in S, NEW j \in S, at[i] = at[j]
          PROVE  i = j
        <3>1. i \in ALPtr /\ j \in ALPtr
            BY <2>1, <2>2 DEF ALPtr
        <3>2. PtrAt(h, i) = PtrAt(h, j)
            BY <2>3, <2>5
        <3>3. h \in ALPtr
            BY <1>1
        <3> HIDE DEF h
        <3>4. QED
            BY <3>1, <3>2, <3>3, PtrAtInjective
    <2>6. ASSUME NEW p \in R
          PROVE  \E i \in S : at[i] = p
        <3>1. PICK i \in 0 .. c - 1 : p = PtrAt(h, i)
            BY <1>1, RegionPlace
        <3>2. activeList[p] = OpAt(i)
            BY <3>1, HeadPtrIsPtrAt DEF OpAt
        <3>3. i \in S
            BY <2>2, <3>2
        <3>4. QED
            BY <2>3, <3>1, <3>3
    <2> HIDE DEF R
    <2>7. Lists(at, S, R)
        BY <2>4, <2>5, <2>6 DEF Lists
    <2>8. IsFiniteSet(S)
        <3> DEFINE dst == DstFlagsOf
        <3>1. Lists(dst, W, D)
            BY <1>2
        <3>2. S = {i \in W : dst[i] = reg}
            BY DEF S
        <3> HIDE DEF dst, W
        <3>3. QED
            BY <3>1, <3>2, OnlyPlace
    <2>9. QED
        BY <2>7, <2>8, ListSize
<1>5. /\ Cardinality({k \in 1 .. flagFree.count : free[k] = reg}) = IF reg \in F THEN 1 ELSE 0
      /\ Cardinality({k \in 1 .. Len(pipe) : pipe[k] = reg}) = IF reg \in P THEN 1 ELSE 0
      /\ Cardinality(S) = IF reg \in D THEN 1 ELSE 0
      /\ Cardinality({l \in FlagKeys : map[l] = reg}) = IF reg \in M THEN 1 ELSE 0
    <2> DEFINE dst == DstFlagsOf
    <2>1. /\ Lists(free, 1 .. flagFree.count, F) /\ Lists(pipe, 1 .. Len(pipe), P)
          /\ Lists(dst, W, D) /\ Lists(map, FlagKeys, M)
        BY <1>2
    <2>2. S = {i \in W : dst[i] = reg}
        OBVIOUS
    <2> HIDE DEF free, pipe, map, W, S, dst
    <2>3. Cardinality({k \in 1 .. flagFree.count : free[k] = reg}) = IF reg \in F THEN 1 ELSE 0
        <3>1. Cardinality(PlacesIn(free, 1 .. flagFree.count, reg)) = IF reg \in F THEN 1 ELSE 0
            BY <2>1, OnePlaceIn
        <3>2. QED
            BY <3>1 DEF PlacesIn
    <2>4. Cardinality({k \in 1 .. Len(pipe) : pipe[k] = reg}) = IF reg \in P THEN 1 ELSE 0
        <3>1. Cardinality(PlacesIn(pipe, 1 .. Len(pipe), reg)) = IF reg \in P THEN 1 ELSE 0
            BY <2>1, OnePlaceIn
        <3>2. QED
            BY <3>1 DEF PlacesIn
    <2>5. Cardinality(S) = IF reg \in D THEN 1 ELSE 0
        <3>1. S = PlacesIn(dst, W, reg)
            BY <2>2 DEF PlacesIn
        <3>2. QED
            BY <2>1, <3>1, OnePlaceIn
    <2>6. Cardinality({l \in FlagKeys : map[l] = reg}) = IF reg \in M THEN 1 ELSE 0
        <3>1. Cardinality(PlacesIn(map, FlagKeys, reg)) = IF reg \in M THEN 1 ELSE 0
            BY <2>1, OnePlaceIn
        <3>2. QED
            BY <3>1 DEF PlacesIn
    <2>7. QED
        BY <2>3, <2>4, <2>5, <2>6
<1>6. (IF archFlags = reg THEN 1 ELSE 0) = IF reg \in M THEN 1 ELSE 0
    <2>1. CASE archFlags = reg
        <3>1. {l \in FlagKeys : map[l] = reg} = {0}
            BY <2>1 DEF FlagKeys
        <3>2. QED
            BY <1>5, <2>1, <3>1, FS_Singleton
    <2>2. CASE archFlags # reg
        <3>1. {l \in FlagKeys : map[l] = reg} = {}
            BY <2>2 DEF FlagKeys
        <3>2. QED
            BY <1>5, <2>2, <3>1, FS_EmptySet
    <2>3. QED
        BY <2>1, <2>2
<1>7. /\ reg \in F \/ reg \in P \/ reg \in D \/ reg \in M
      /\ reg \in F => reg \notin P /\ reg \notin D /\ reg \notin M
      /\ reg \in P => reg \notin D /\ reg \notin M
      /\ reg \in D => reg \notin M
    BY <1>2 DEF Parted
<1>8. /\ Cardinality({k \in DOMAIN free : free[k] = reg}) = IF reg \in F THEN 1 ELSE 0
      /\ Cardinality({k \in DOMAIN pipe : pipe[k] = reg}) = IF reg \in P THEN 1 ELSE 0
      /\ Cardinality(R) = IF reg \in D THEN 1 ELSE 0
    BY <1>3, <1>4, <1>5
<1> DEFINE inList == Cardinality({k \in DOMAIN free : free[k] = reg})
           inPipe == Cardinality({k \in DOMAIN pipe : pipe[k] = reg})
           inMap == IF archFlags = reg THEN 1 ELSE 0
<1>9. inList + inPipe + Cardinality(R) + inMap = 1
    <2> HIDE DEF inList, inPipe, inMap, R
    <2>1. /\ inList = IF reg \in F THEN 1 ELSE 0
          /\ inPipe = IF reg \in P THEN 1 ELSE 0
          /\ inMap = IF reg \in M THEN 1 ELSE 0
        BY <1>6, <1>8 DEF inList, inPipe, inMap
    <2>2. QED
        BY <1>7, <1>8, <2>1
<1>10. QED
    BY <1>9 DEF Places

-----------------------------------------------------------------------------
(* The sums of the head or the tail and a group fit the pointers of the    *)
(* list, or the pointers wrap where the list does.  The scalar list of the *)
(* core is such a list; the flags list, 30 entries and pointers of 5 bits  *)
(* with two pushes in a cycle, is not.                                     *)
GprPointersFit ==
    \/ SCALAR_FREE_LIST_ENTRY_NUM = SCALAR_INDEX_MOD
    \/ /\ SCALAR_FREE_LIST_ENTRY_NUM + COMMIT_WIDTH < SCALAR_INDEX_MOD
       /\ SCALAR_FREE_LIST_ENTRY_NUM + RENAME_WIDTH < SCALAR_INDEX_MOD
FlagPointersFit ==
    \/ FLAG_FREE_LIST_ENTRY_NUM = FLAG_INDEX_MOD
    \/ /\ FLAG_FREE_LIST_ENTRY_NUM + COMMIT_WIDTH < FLAG_INDEX_MOD
       /\ FLAG_FREE_LIST_ENTRY_NUM + RENAME_WIDTH < FLAG_INDEX_MOD

(* The free list, the pipeline registers, the window and the retirement    *)
(* RMT part the scalar registers, in every reachable state.                *)
THEOREM GprArePartedForever ==
    ASSUME GprPointersFit
    PROVE  Spec => []GprInv
<1>1. GP!NoIndexOverflow
    BY DEF GprPointersFit, GP!NoIndexOverflow
<1>2. Init => GprInv
    BY InitGpr
<1>3. RecoveryInv /\ MapsInv /\ GprInv /\ [Next]_vars => GprInv'
    BY <1>1, StepKeepsGpr
<1>4. QED
    BY <1>2, <1>3, RecoveryControl, MapsAreRight, PTL DEF Spec

(* Each scalar register is in exactly one place: whatever commits,         *)
(* mispredicts and recovers, none is lost and none is allocated twice.     *)
THEOREM NoGprIsLostOrDoubled ==
    ASSUME GprPointersFit
    PROVE  Spec => []GprConserved
<1>1. RecoveryInv /\ GprInv => GprConserved
    BY GprOnePlace
<1>2. QED
    BY <1>1, RecoveryControl, GprArePartedForever, PTL

(* The same partition of the flag registers *)
THEOREM FlagsArePartedForever ==
    ASSUME FlagPointersFit
    PROVE  Spec => []FlagInv
<1>1. FP!NoIndexOverflow
    BY DEF FlagPointersFit, FP!NoIndexOverflow
<1>2. Init => FlagInv
    BY InitFlag
<1>3. RecoveryInv /\ MapsInv /\ FlagInv /\ [Next]_vars => FlagInv'
    BY <1>1, StepKeepsFlag
<1>4. QED
    BY <1>2, <1>3, RecoveryControl, MapsAreRight, PTL DEF Spec

(* Each flag register is in exactly one place, likewise. *)
THEOREM NoFlagIsLostOrDoubled ==
    ASSUME FlagPointersFit
    PROVE  Spec => []FlagsConserved
<1>1. RecoveryInv /\ FlagInv => FlagsConserved
    BY FlagOnePlace
<1>2. QED
    BY <1>1, RecoveryControl, FlagsArePartedForever, PTL

-----------------------------------------------------------------------------
(***************************************************************************)
(* The core as a whole implements the in-order machine of InOrderCore:     *)
(* each cycle of rename, retirement and recovery is one step of that       *)
(* machine, or none.                                                       *)
(* The sequence of the machine is the window; what is left to show of a    *)
(* cycle is that the window loses ops at its ends only, that the two maps  *)
(* are the retired ops and then the window, applied in order               *)
(* (RenameRecovery_proofs), and that a register given to an op is used by  *)
(* nobody else (the first part).                                           *)
(*                                                                         *)
(* And every register of the code stays in its range: that the lists, the  *)
(* maps and the entries hold registers of the file rests on the partition, *)
(* what the control registers hold on the recovery control.                *)
(***************************************************************************)

(* The RMTs are functions on the logical registers. *)
ShapeInv ==
    /\ rmt = [l \in LReg |-> rmt[l]]
    /\ rrmt = [l \in LReg |-> rrmt[l]]

(* The ops in flight as the in-order machine has them *)
AbsOp(e) == [log |-> e.log, writeReg |-> e.writeReg, phyDst |-> e.phyDst]
Rob == [k \in 1 .. al.count |-> AbsOp(activeList[HeadPtr(k - 1)])]

-----------------------------------------------------------------------------
(* s is the ops that stand at the places 0 .. m - 1, of which S write l     *)
IsShown(m, s, S, val, l) ==
    /\ m \in Nat /\ DOMAIN s = 1 .. m /\ S \in SUBSET (0 .. m - 1)
    /\ \A j \in 1 .. m : /\ j - 1 \in S <=> s[j].writeReg /\ s[j].log = l
                         /\ val[j - 1] = s[j].phyDst

(* Applying a sequence of ops to a map is finding the last writer. *)
LEMMA AppliedIsLast ==
    ASSUME NEW m, NEW s, NEW S, NEW val, NEW l \in LReg, NEW map,
           IsShown(m, s, S, val, l)
    PROVE  InOrder!Apply(map, s)[l] = Last(S, val, map[l])
<1> DEFINE B == {k \in DOMAIN s : s[k].writeReg /\ s[k].log = l}
           val2 == [k \in 1 .. m |-> s[k].phyDst]
<1>0. /\ m \in Nat /\ DOMAIN s = 1 .. m /\ S \in SUBSET (0 .. m - 1)
      /\ \A j \in 1 .. m : /\ j - 1 \in S <=> s[j].writeReg /\ s[j].log = l
                           /\ val[j - 1] = s[j].phyDst
    BY DEF IsShown
<1>1. B \in SUBSET (1 .. m)
    BY <1>0
<1>2. InOrder!Apply(map, s)[l] = Last(B, val2, map[l])
    <2>1. B # {} => MaxOf(B) \in 1 .. m
        <3>1. \A j \in 1 .. m : j \in 0 .. m
            BY <1>0
        <3>2. B \in SUBSET (0 .. m)
            BY <1>1, <3>1
        <3> HIDE DEF B
        <3>3. QED
            BY <1>0, <1>1, <3>2, MaxOfFacts
    <2>2. InOrder!Apply(map, s)[l] =
              IF B = {} THEN map[l]
              ELSE s[CHOOSE k \in B : \A j \in B : j <= k].phyDst
        BY DEF InOrder!Apply
    <2>3. (CHOOSE k \in B : \A j \in B : j <= k) = MaxOf(B)
        BY DEF MaxOf
    <2> HIDE DEF B
    <2>4. QED
        BY <2>1, <2>2, <2>3 DEF Last
<1>3. IsSplit(m, 0, 1, S, B, val, val2)
    <2>1. \A j \in 1 .. m : j \in B <=> j - 1 \in S
        BY <1>0
    <2>2. \A j \in 1 .. m : val2[j] = val[j - 1]
        BY <1>0
    <2> HIDE DEF B, val2
    <2>3. /\ 0 \in 0 .. m /\ m - 0 + 1 - 1 = m
          /\ \A j \in 1 .. m : 0 + j - 1 = j - 1
        BY <1>0
    <2>4. B \in SUBSET (1 .. m - 0 + 1 - 1)
        BY <1>1, <2>3
    <2>5. \A j \in 1 .. m - 0 + 1 - 1 : j \in B <=> 0 + j - 1 \in S
        BY <2>1, <2>3
    <2>6. \A j \in B : val2[j] = val[0 + j - 1]
        BY <1>1, <2>2, <2>3
    <2>7. QED
        BY <1>0, <2>3, <2>4, <2>5, <2>6 DEF IsSplit
<1> HIDE DEF B, val2
<1>4. Last(S, val, map[l]) = Last(B, val2, Last(Below(S, 0), val, map[l]))
    BY <1>3, LastSplit
<1>5. Below(S, 0) = {}
    <2>1. \A i \in S : i \in 0 .. m - 1 /\ ~(i < 0)
        BY <1>0
    <2>2. QED
        BY <2>1 DEF Below
<1>6. Last(Below(S, 0), val, map[l]) = map[l]
    BY <1>5 DEF Last
<1>7. QED
    BY <1>2, <1>4, <1>6

(* The map after the m oldest ops of the window *)
LEMMA MapAfterIsApplied ==
    ASSUME RecoveryInv, NEW m \in 0 .. al.count, NEW l \in LReg
    PROVE  MapAfter(m, l) = InOrder!Apply(rrmt, SubSeq(Rob, 1, m))[l]
<1>1. al.count \in Nat /\ al.count \in 0 .. ACTIVE_LIST_ENTRY_NUM
    BY ActiveListSizeAssumption DEF ActiveListSizeAssumption, RecoveryInv, ListInv
<1>2. m \in Nat /\ m \in 0 .. ACTIVE_LIST_ENTRY_NUM
    BY <1>1, ActiveListSizeAssumption DEF ActiveListSizeAssumption
<1> DEFINE s == SubSeq(Rob, 1, m)
           S == WritersOf(m, l)
<1>3. s = [j \in 1 .. m |-> Rob[j]]
    BY <1>2
<1>4. \A j \in 1 .. m : j \in 1 .. al.count /\ j - 1 \in Nat /\ j - 1 \in 0 .. m - 1
    BY <1>1, <1>2
<1>5. \A j \in 1 .. m : s[j] = AbsOp(OpAt(j - 1))
    BY <1>3, <1>4 DEF Rob, OpAt
<1>6. S \in SUBSET (0 .. m - 1)
    BY DEF WritersOf
<1>7. ASSUME NEW j \in 1 .. m
      PROVE  /\ j - 1 \in S <=> s[j].writeReg /\ s[j].log = l
             /\ DstOf[j - 1] = s[j].phyDst
    <2>1. PICK i \in Nat : i = j - 1 /\ i \in 0 .. m - 1
        BY <1>4
    <2> HIDE DEF s
    <2>2. s[j] = AbsOp(OpAt(i))
        BY <1>5, <2>1
    <2>3. /\ s[j].log = OpAt(i).log /\ s[j].writeReg = OpAt(i).writeReg
          /\ s[j].phyDst = OpAt(i).phyDst
        BY <2>2 DEF AbsOp
    <2>4. QED
        BY <2>1, <2>3 DEF WritersOf, DstOf
<1>8. DOMAIN s = 1 .. m
    BY <1>3
<1> HIDE DEF s, S
<1>9. IsShown(m, s, S, DstOf, l)
    BY <1>2, <1>6, <1>7, <1>8 DEF IsShown
<1>10. InOrder!Apply(rrmt, s)[l] = Last(S, DstOf, rrmt[l])
    BY <1>9, AppliedIsLast
<1>11. QED
    BY <1>2, <1>10, MapAfterIsLast DEF s, S

-----------------------------------------------------------------------------
(* A queue of c ops that loses n at its old end or k at its young end and  *)
(* then grows by those of s                                                *)
IsQueueStep(c, n, k, g, rob, s, rob2) ==
    /\ c \in Nat /\ n \in Nat /\ k \in Nat /\ g \in Nat /\ n + k <= c
    /\ rob = [i \in 1 .. c |-> rob[i]] /\ s = [i \in 1 .. g |-> s[i]]
    /\ rob2 = [i \in 1 .. c - n - k + g |-> rob2[i]]
    /\ \A i \in 1 .. c - n - k : rob2[i] = rob[n + i]
    /\ \A i \in 1 .. g : rob2[c - n - k + i] = s[i]

(* The same as the in-order machine writes it                              *)
IsQueueCycle(n, k, rob, s, rob2) ==
    /\ n + k <= Len(rob)
    /\ rob2 = SubSeq(rob, n + 1, Len(rob) - k) \o s

LEMMA QueueStep ==
    ASSUME NEW c, NEW n, NEW k, NEW g, NEW rob, NEW s, NEW rob2,
           IsQueueStep(c, n, k, g, rob, s, rob2)
    PROVE  IsQueueCycle(n, k, rob, s, rob2)
<1>0. /\ c \in Nat /\ n \in Nat /\ k \in Nat /\ g \in Nat /\ n + k <= c
      /\ rob = [i \in 1 .. c |-> rob[i]] /\ s = [i \in 1 .. g |-> s[i]]
      /\ rob2 = [i \in 1 .. c - n - k + g |-> rob2[i]]
      /\ \A i \in 1 .. c - n - k : rob2[i] = rob[n + i]
      /\ \A i \in 1 .. g : rob2[c - n - k + i] = s[i]
    BY DEF IsQueueStep
<1> DEFINE V == {rob[i] : i \in 1 .. c} \cup {s[i] : i \in 1 .. g}
           old == SubSeq(rob, n + 1, c - k)
<1>1. PICK m \in Nat : m = c - n - k
    BY <1>0
<1>2. rob \in [1 .. c -> V] /\ s \in [1 .. g -> V]
    BY <1>0
<1>3. s \in Seq(V) /\ Len(s) = g /\ Len(rob) = c
    <2> HIDE DEF V
    <2>1. g \in Nat /\ s \in [1 .. g -> V]
        BY <1>0, <1>2
    <2>2. s \in Seq(V) /\ Len(s) = g
        BY <2>1
    <2>3. c \in Nat /\ rob \in [1 .. c -> V]
        BY <1>0, <1>2
    <2>4. Len(rob) = c
        BY <2>3
    <2>5. QED
        BY <2>2, <2>4
<1>4. /\ old \in Seq(V) /\ Len(old) = m
      /\ \A i \in 1 .. m : old[i] = rob[n + i]
    <2>1. n + 1 \in Int /\ c - k \in Int
        BY <1>0
    <2>2. \A i \in n + 1 .. c - k : i \in 1 .. c
        BY <1>0
    <2>3. \A i \in n + 1 .. c - k : rob[i] \in V
        BY <1>2, <2>2
    <2> HIDE DEF V
    <2>4. /\ SubSeq(rob, n + 1, c - k) \in Seq(V)
          /\ Len(SubSeq(rob, n + 1, c - k)) =
                IF n + 1 <= c - k THEN c - k - (n + 1) + 1 ELSE 0
          /\ \A i \in 1 .. c - k - (n + 1) + 1 :
                SubSeq(rob, n + 1, c - k)[i] = rob[n + 1 + i - 1]
        BY <2>1, <2>3, SubSeqProperties
    <2>5. /\ (IF n + 1 <= c - k THEN c - k - (n + 1) + 1 ELSE 0) = m
          /\ c - k - (n + 1) + 1 = m
          /\ \A i \in 1 .. m : n + 1 + i - 1 = n + i
        BY <1>0, <1>1
    <2>6. QED
        BY <2>4, <2>5
<1> HIDE DEF V, old
<1>5. /\ old \o s \in Seq(V) /\ Len(old \o s) = m + g
      /\ \A i \in 1 .. m + g : (old \o s)[i] = IF i <= m THEN old[i] ELSE s[i - m]
    BY <1>3, <1>4, ConcatProperties
<1>6. \A i \in 1 .. m + g : rob2[i] = (old \o s)[i]
    <2>1. ASSUME NEW i \in 1 .. m + g
          PROVE  rob2[i] = (old \o s)[i]
        <3>1. CASE i <= m
            <4>1. i \in 1 .. m
                BY <1>1, <3>1
            <4>2. rob2[i] = rob[n + i]
                BY <1>0, <1>1, <4>1
            <4>3. QED
                BY <1>4, <1>5, <3>1, <4>1, <4>2
        <3>2. CASE ~(i <= m)
            <4>1. i - m \in 1 .. g /\ m + (i - m) = i
                <5>1. m \in Nat /\ g \in Nat /\ i \in Int /\ 1 <= i /\ i <= m + g
                    BY <1>0, <1>1
                <5>2. QED
                    BY <3>2, <5>1
            <4>2. rob2[i] = s[i - m]
                BY <1>0, <1>1, <4>1
            <4>3. QED
                BY <1>5, <3>2, <4>2
        <3>3. QED
            BY <3>1, <3>2
    <2>2. QED
        BY <2>1
<1>7. DOMAIN (old \o s) = 1 .. m + g /\ old \o s = [i \in 1 .. m + g |-> (old \o s)[i]]
    BY <1>5, LenProperties
<1>8. rob2 = [i \in 1 .. m + g |-> rob2[i]]
    BY <1>0, <1>1
<1>9. rob2 = old \o s
    BY <1>6, <1>7, <1>8
<1>10. QED
    BY <1>0, <1>3, <1>9 DEF old, IsQueueCycle

(* The ops that a cycle renames, as the in-order machine has them *)
RenamedOps(group) == [i \in 1 .. Len(group) |-> AbsOp(EntryOf(group, i))]

(* The window of a cycle that renames and retires is a queue step. *)
LEMMA OperateIsQueueStep ==
    ASSUME RecoveryInv, manager.phase # "RECOVER_0", committer.phase = "COMMIT",
           NEW group \in Groups, NEW w \in Writes, Operate(group, w)
    PROVE  IsQueueStep(al.count, Decision.commitNum, 0, Len(group),
                       Rob, RenamedOps(group), Rob')
<1> DEFINE n == Decision.commitNum
           c == al.count
           g == Len(group)
           s == RenamedOps(group)
<1>1. /\ c \in Nat /\ g \in Nat /\ n \in Nat /\ n \in 0 .. c
      /\ al'.count = c + g - n
    BY OperateFacts
<1>2. \A i \in 0 .. c + g - n - 1 :
         OpAt(i)' = IF n + i < c THEN OpAt(n + i) ELSE EntryOf(group, n + i - c + 1)
    BY OperateEntries
<1>3. /\ Rob = [i \in 1 .. c |-> AbsOp(OpAt(i - 1))]
      /\ Rob' = [i \in 1 .. al'.count |-> AbsOp(activeList'[HeadPtr(i - 1)'])]
    BY DEF Rob, OpAt
<1>4. s = [i \in 1 .. g |-> AbsOp(EntryOf(group, i))]
    BY DEF RenamedOps
<1> HIDE DEF n, c, g, s
<1>5. /\ c - n - 0 + g = c + g - n /\ n + 0 <= c /\ 0 \in Nat
      /\ c - n - 0 = c - n
    BY <1>1
<1>6. ASSUME NEW i \in 1 .. c - n
      PROVE  Rob'[i] = Rob[n + i]
    <2>1. PICK k \in Nat : k = i - 1
        BY <1>1
    <2>2. /\ k \in 0 .. c + g - n - 1 /\ n + k < c /\ n + i \in 1 .. c
          /\ (n + i) - 1 = n + k /\ i \in 1 .. al'.count
        BY <1>1, <2>1
    <2>3. Rob'[i] = AbsOp(activeList'[HeadPtr(k)'])
        BY <1>3, <2>1, <2>2
    <2>4. Rob[n + i] = AbsOp(OpAt(n + k))
        BY <1>3, <2>2
    <2>5. activeList'[HeadPtr(k)'] = OpAt(n + k)
        BY <1>2, <2>2 DEF OpAt
    <2>6. QED
        BY <2>3, <2>4, <2>5
<1>7. ASSUME NEW i \in 1 .. g
      PROVE  Rob'[c - n + i] = s[i]
    <2>1. PICK k \in Nat : k = c - n + i - 1
        BY <1>1
    <2>2. /\ k \in 0 .. c + g - n - 1 /\ ~(n + k < c) /\ n + k - c + 1 = i
          /\ c - n + i \in 1 .. al'.count /\ (c - n + i) - 1 = k
        BY <1>1, <2>1
    <2>3. Rob'[c - n + i] = AbsOp(activeList'[HeadPtr(k)'])
        BY <1>3, <2>2
    <2>4. activeList'[HeadPtr(k)'] = EntryOf(group, i)
        BY <1>2, <2>2 DEF OpAt
    <2>5. QED
        BY <1>4, <2>3, <2>4
<1>8. Rob = [i \in 1 .. c |-> Rob[i]] /\ s = [i \in 1 .. g |-> s[i]]
    BY <1>3, <1>4
<1>9. Rob' = [i \in 1 .. c - n - 0 + g |-> Rob'[i]]
    BY <1>1, <1>3, <1>5
<1>10. IsQueueStep(c, n, 0, g, Rob, s, Rob')
    BY <1>1, <1>5, <1>6, <1>7, <1>8, <1>9 DEF IsQueueStep
<1>11. QED
    BY <1>10 DEF n, c, g, s

(* So is the window of a cycle that pops what a recovery flushed. *)
LEMMA PopIsQueueStep ==
    ASSUME RecoveryInv, PopFlushed
    PROVE  IsQueueStep(al.count, 0, PopTailNum, 0, Rob, <<>>, Rob')
<1> DEFINE n == PopTailNum
           c == al.count
<1>1. /\ c \in Nat /\ n \in 0 .. c /\ n \in Nat /\ al'.count = c - n
    <2>1. c \in Nat /\ n \in 0 .. c /\ al'.count = c - n
        BY PopFacts
    <2> HIDE DEF n
    <2>2. QED
        BY <2>1
<1>2. \A i \in 0 .. c - n - 1 : OpAt(i)' = OpAt(i)
    BY PopEntries
<1>3. /\ Rob = [i \in 1 .. c |-> AbsOp(OpAt(i - 1))]
      /\ Rob' = [i \in 1 .. al'.count |-> AbsOp(activeList'[HeadPtr(i - 1)'])]
    BY DEF Rob, OpAt
<1> HIDE DEF n, c
<1>4. c - 0 - n + 0 = c - n /\ c - 0 - n = c - n /\ 0 + n <= c /\ 0 \in Nat
    BY <1>1
<1>5. ASSUME NEW i \in 1 .. c - n
      PROVE  Rob'[i] = Rob[0 + i]
    <2>1. PICK k \in Nat : k = i - 1
        BY <1>1
    <2>2. k \in 0 .. c - n - 1 /\ i \in 1 .. c /\ i \in 1 .. al'.count /\ 0 + i = i
        BY <1>1, <2>1
    <2>3. Rob'[i] = AbsOp(activeList'[HeadPtr(k)'])
        BY <1>3, <2>1, <2>2
    <2>4. Rob[i] = AbsOp(OpAt(k))
        BY <1>3, <2>1, <2>2
    <2>5. activeList'[HeadPtr(k)'] = OpAt(k)
        BY <1>2, <2>2 DEF OpAt
    <2>6. QED
        BY <2>2, <2>3, <2>4, <2>5
<1>6. Rob = [i \in 1 .. c |-> Rob[i]] /\ Rob' = [i \in 1 .. c - 0 - n + 0 |-> Rob'[i]]
    BY <1>1, <1>3, <1>4
<1>7. <<>> = [i \in 1 .. 0 |-> <<>>[i]] /\ 1 .. 0 = {}
    OBVIOUS
<1>8. IsQueueStep(c, 0, n, 0, Rob, <<>>, Rob')
    BY <1>1, <1>4, <1>5, <1>6, <1>7 DEF IsQueueStep
<1>9. QED
    BY <1>8 DEF n, c

-----------------------------------------------------------------------------
(* What the lanes of a group take from the list is used by nobody else. *)
LEMMA PoppedAreFree ==
    ASSUME NEW Regs, NEW free, NEW f, NEW pipe, NEW r, NEW dst, NEW W, NEW map, NEW Keys,
           Conserved(Regs, free, f, pipe, r, dst, W, map, Keys),
           NEW g, NEW L, NEW lane, IsPopped(g, L, f, free, lane), NEW j \in L
    PROVE  /\ lane[j] \in Regs
           /\ \A x \in Keys : map[x] # lane[j]
           /\ \A i \in W : dst[i] # lane[j]
           /\ \A i \in L : lane[i] = lane[j] => i = j
<1>1. PICK F, P, D, M :
         /\ Parted(Regs, F, P, D, M)
         /\ Lists(free, 1 .. f, F) /\ Lists(pipe, 1 .. r, P)
         /\ Lists(dst, W, D) /\ Lists(map, Keys, M)
    BY DEF Conserved
<1>2. Lists(lane, L, Taken(free, Cardinality(L)))
    BY <1>1, LanesList
<1>3. /\ f \in Nat /\ Cardinality(L) \in 0 .. f
    BY DEF IsPopped
<1>4. \A k \in 1 .. Cardinality(L) : k \in 1 .. f
    BY <1>3
<1>5. Taken(free, Cardinality(L)) \subseteq F
    BY <1>1, <1>4 DEF Taken, Lists
<1>6. lane[j] \in F
    BY <1>2, <1>5 DEF Lists
<1>7. lane[j] \in Regs /\ lane[j] \notin D /\ lane[j] \notin M
    BY <1>1, <1>6 DEF Parted
<1>8. QED
    BY <1>1, <1>2, <1>7 DEF Lists

(* The ops of a group are ops the decoder offers. *)
LEMMA GroupOps ==
    ASSUME ListInv, NEW group \in Groups, NEW i \in 1 .. Len(group)
    PROVE  /\ group[i] \in [log : LReg, writeReg : BOOLEAN, writeFlags : BOOLEAN]
           /\ Len(group) \in 0 .. RENAME_WIDTH
<1>1. CASE group = <<>>
    BY <1>1
<1>2. CASE group # <<>>
    <2>1. PICK n \in 0 .. RENAME_WIDTH : group \in [1 .. n -> Ops]
        BY <1>2 DEF Groups
    <2>2. i \in 1 .. n /\ Len(group) = n
        BY <2>1, CoreAssumption DEF CoreAssumption
    <2>3. QED
        BY <2>1, <2>2, CoreAssumption DEF CoreAssumption
<1>3. QED
    BY <1>1, <1>2

LEMMA RenamedAreFree ==
    ASSUME RecoveryInv, GprInv, NEW group \in Groups, NEW i \in 1 .. Len(group),
           group[i].writeReg
    PROVE  LET reg == AllocatedGpr(group, i)
           IN  /\ reg \in PhyReg
               /\ \A l \in LReg : rrmt[l] # reg
               /\ \A j \in 0 .. al.count - 1 : OpAt(j).writeReg => OpAt(j).phyDst # reg
               /\ \A j \in 1 .. i - 1 : group[j].writeReg => AllocatedGpr(group, j) # reg
<1> DEFINE g == Len(group)
           L == GprWritersBefore(group, g + 1)
           f == gprFree.count
           free == GPR!Contents(gprFree)
           lane == LaneDst(group)
           dst == DstOf
           W == GprWriters(al.count)
           pipe == released.gpr
           map == rrmt
<1>1. g \in Nat /\ al.count \in Nat
    BY GroupFacts, ActiveListSizeAssumption
    DEF ActiveListSizeAssumption, RecoveryInv, ListInv
<1>2. IsPopped(g, L, f, free, lane)
    BY GprPopped DEF RecoveryInv
<1>3. Conserved(PhyReg, free, f, pipe, Len(pipe), dst, W, map, LReg)
    BY DEF GprInv
<1>4. i \in Nat /\ \A j \in 1 .. i : j \in Nat /\ j \in 1 .. (g + 1) - 1
    BY <1>1
<1>5. i \in L /\ \A j \in 1 .. i - 1 : group[j].writeReg => j \in L /\ j # i
    BY <1>1, <1>4 DEF GprWritersBefore
<1>6. /\ lane[i] \in PhyReg /\ \A x \in LReg : map[x] # lane[i]
      /\ \A j \in W : dst[j] # lane[i]
      /\ \A j \in L : lane[j] = lane[i] => j = i
    <2> HIDE DEF g, L, f, free, lane, dst, W, pipe, map
    <2> QED BY <1>2, <1>3, <1>5, PoppedAreFree
<1>7. /\ lane[i] = AllocatedGpr(group, i)
      /\ \A j \in 1 .. i - 1 : lane[j] = AllocatedGpr(group, j)
    <2>1. \A j \in 1 .. i - 1 : j \in Nat
        BY <1>4
    <2>2. QED
        BY <1>4, <2>1 DEF LaneDst
<1>8. \A j \in 0 .. al.count - 1 :
         /\ OpAt(j).writeReg => j \in W
         /\ dst[j] = OpAt(j).phyDst
    BY <1>1 DEF GprWriters, DstOf
<1> HIDE DEF g, L, f, free, lane, dst, W, pipe
<1>9. QED
    BY <1>5, <1>6, <1>7, <1>8

LEMMA RenamedOpsType ==
    ASSUME RecoveryInv, GprInv, NEW group \in Groups
    PROVE  /\ RenamedOps(group) \in [1 .. Len(group) -> InOrder!Op]
           /\ Len(group) \in 0 .. RENAME_WIDTH
<1>1. 0 \in PhyReg
    BY Sizes DEF PhyReg
<1>2. ASSUME NEW i \in 1 .. Len(group)
      PROVE  AbsOp(EntryOf(group, i)) \in InOrder!Op
    <2>1. group[i] \in [log : LReg, writeReg : BOOLEAN, writeFlags : BOOLEAN]
        BY GroupOps DEF RecoveryInv
    <2>2. group[i].writeReg => AllocatedGpr(group, i) \in PhyReg
        BY RenamedAreFree
    <2>3. /\ EntryOf(group, i).log = group[i].log
          /\ EntryOf(group, i).writeReg = group[i].writeReg
          /\ EntryOf(group, i).phyDst = IF group[i].writeReg THEN AllocatedGpr(group, i) ELSE 0
        BY DEF EntryOf
    <2>4. QED
        BY <1>1, <2>1, <2>2, <2>3 DEF AbsOp, InOrder!Op
<1>3. Len(group) \in 0 .. RENAME_WIDTH
    <2>1. CASE group = <<>>
        BY <2>1, Sizes
    <2>2. CASE group # <<>>
        BY <2>2, GroupFits DEF RecoveryInv
    <2>3. QED
        BY <2>1, <2>2
<1>4. QED
    BY <1>2, <1>3 DEF RenamedOps

-----------------------------------------------------------------------------
(* The cycles as steps of the in-order machine *)
LEMMA CycleIs ==
    ASSUME NEW n, NEW k, NEW s,
           n + k <= Len(Rob),
           k > 0 => n = 0 /\ s = <<>>,
           \A i \in DOMAIN s : s[i].writeReg =>
              /\ \A l \in LReg : rrmt[l] # s[i].phyDst
              /\ \A j \in DOMAIN Rob : Rob[j].writeReg => Rob[j].phyDst # s[i].phyDst
              /\ \A j \in 1 .. i - 1 : s[j].writeReg => s[j].phyDst # s[i].phyDst,
           Rob' = SubSeq(Rob, n + 1, Len(Rob) - k) \o s,
           rrmt' = InOrder!Apply(rrmt, SubSeq(Rob, 1, n)),
           rmt' = InOrder!Apply(rrmt', Rob')
    PROVE  InOrder!Cycle(n, k, s)
BY DEF InOrder!Cycle, Rob, AbsOp

LEMMA ApplyShape ==
    ASSUME NEW map, NEW s
    PROVE  InOrder!Apply(map, s) = [l \in LReg |-> InOrder!Apply(map, s)[l]]
BY DEF InOrder!Apply

(* The RMT is the retirement RMT with the window applied. *)
LEMMA FrontIsApplied ==
    RecoveryInv /\ MapsInv /\ ShapeInv => rmt = InOrder!Apply(rrmt, Rob)
<1> SUFFICES ASSUME RecoveryInv, MapsInv, ShapeInv
             PROVE  rmt = InOrder!Apply(rrmt, Rob)
    OBVIOUS
<1>1. al.count \in Nat
    BY ActiveListSizeAssumption DEF ActiveListSizeAssumption, RecoveryInv, ListInv
<1>2. al.count \in 0 .. al.count
    BY <1>1
<1>3. SubSeq(Rob, 1, al.count) = Rob
    BY <1>1 DEF Rob
<1>4. \A l \in LReg : rmt[l] = MapAfter(al.count, l)
    BY DEF MapsInv, RmtFollowsProgramOrder
<1>5. \A l \in LReg : rmt[l] = InOrder!Apply(rrmt, Rob)[l]
    BY <1>2, <1>3, <1>4, MapAfterIsApplied
<1>6. rmt = [l \in LReg |-> rmt[l]]
    BY DEF ShapeInv
<1>7. QED
    BY <1>5, <1>6, ApplyShape

LEMMA FrontIsAppliedNext ==
    (RecoveryInv /\ MapsInv /\ ShapeInv)' => (rmt = InOrder!Apply(rrmt, Rob))'
BY FrontIsApplied, PTL

LEMMA OperateIsCycle ==
    ASSUME RecoveryInv, MapsInv, GprInv, ShapeInv,
           RecoveryInv', MapsInv', ShapeInv',
           manager.phase # "RECOVER_0", committer.phase = "COMMIT",
           NEW group \in Groups, NEW w \in Writes, Operate(group, w)
    PROVE  InOrder!Next
<1> DEFINE n == Decision.commitNum
           c == al.count
           g == Len(group)
           s == RenamedOps(group)
<1>1. /\ c \in Nat /\ g \in Nat /\ n \in Nat /\ n \in 0 .. c /\ n \in 0 .. COMMIT_WIDTH
    BY OperateFacts, CommitNumBound
<1>2. IsQueueStep(c, n, 0, g, Rob, s, Rob')
    BY OperateIsQueueStep
<1>3. s \in [1 .. g -> InOrder!Op] /\ g \in 0 .. RENAME_WIDTH
    BY RenamedOpsType
<1>4. rrmt' = InOrder!Apply(rrmt, SubSeq(Rob, 1, n))
    <2>1. \A l \in LReg : rrmt'[l] = MapAfter(n, l)
        BY DEF Operate, Retired, MapAfter
    <2>2. \A l \in LReg : rrmt'[l] = InOrder!Apply(rrmt, SubSeq(Rob, 1, n))[l]
        <3> HIDE DEF n
        <3> QED BY <1>1, <2>1, MapAfterIsApplied
    <2>3. rrmt' = [l \in LReg |-> rrmt'[l]]
        BY DEF ShapeInv
    <2> HIDE DEF n
    <2>4. QED
        BY <2>2, <2>3, ApplyShape
<1>5. rmt' = InOrder!Apply(rrmt', Rob')
    BY FrontIsAppliedNext
<1>6. ASSUME NEW i \in DOMAIN s, s[i].writeReg
      PROVE  /\ \A l \in LReg : rrmt[l] # s[i].phyDst
             /\ \A j \in DOMAIN Rob : Rob[j].writeReg => Rob[j].phyDst # s[i].phyDst
             /\ \A j \in 1 .. i - 1 : s[j].writeReg => s[j].phyDst # s[i].phyDst
    <2>1. i \in 1 .. g /\ \A j \in 1 .. i - 1 : j \in 1 .. g
        <3>1. i \in 1 .. g
            BY <1>6 DEF RenamedOps
        <3>2. QED
            BY <1>1, <3>1
    <2>2. \A j \in 1 .. g : s[j].writeReg <=> group[j].writeReg
        BY DEF RenamedOps, AbsOp, EntryOf
    <2>3. \A j \in 1 .. g : group[j].writeReg => s[j].phyDst = AllocatedGpr(group, j)
        BY DEF RenamedOps, AbsOp, EntryOf
    <2>4. LET reg == AllocatedGpr(group, i)
          IN  /\ reg \in PhyReg
              /\ \A l \in LReg : rrmt[l] # reg
              /\ \A j \in 0 .. al.count - 1 : OpAt(j).writeReg => OpAt(j).phyDst # reg
              /\ \A j \in 1 .. i - 1 : group[j].writeReg => AllocatedGpr(group, j) # reg
        BY <1>6, <2>1, <2>2, RenamedAreFree
    <2>5. \A j \in DOMAIN Rob :
             /\ j - 1 \in 0 .. al.count - 1
             /\ Rob[j].writeReg = OpAt(j - 1).writeReg
             /\ Rob[j].phyDst = OpAt(j - 1).phyDst
        <3>1. \A j \in DOMAIN Rob : j \in 1 .. c /\ j - 1 \in 0 .. c - 1
            BY <1>1 DEF Rob
        <3>2. \A j \in DOMAIN Rob : Rob[j] = AbsOp(OpAt(j - 1))
            BY DEF Rob, OpAt
        <3>3. QED
            BY <3>1, <3>2 DEF AbsOp
    <2> HIDE DEF s, g
    <2>6. s[i].phyDst = AllocatedGpr(group, i)
        BY <1>6, <2>1, <2>2, <2>3
    <2>7. \A j \in DOMAIN Rob : Rob[j].writeReg => Rob[j].phyDst # s[i].phyDst
        BY <2>4, <2>5, <2>6
    <2>8. \A j \in 1 .. i - 1 : s[j].writeReg => s[j].phyDst # s[i].phyDst
        BY <2>1, <2>2, <2>3, <2>4, <2>6
    <2>9. QED
        BY <2>4, <2>6, <2>7, <2>8
<1> HIDE DEF n, c, g, s
<1>7. /\ n + 0 <= Len(Rob) /\ Rob' = SubSeq(Rob, n + 1, Len(Rob) - 0) \o s
    <2>1. IsQueueCycle(n, 0, Rob, s, Rob')
        BY <1>2, QueueStep
    <2>2. QED
        BY <2>1 DEF IsQueueCycle
<1>8. InOrder!Cycle(n, 0, s)
    <2>1. ~(0 > 0)
        OBVIOUS
    <2>2. QED
        BY <1>4, <1>5, <1>6, <1>7, <2>1, CycleIs
<1>9. 0 \in 0 .. COMMIT_WIDTH
    BY Sizes
<1>10. QED
    BY <1>1, <1>3, <1>8, <1>9 DEF InOrder!Next

LEMMA PopIsCycle ==
    ASSUME RecoveryInv, MapsInv, ShapeInv, RecoveryInv', MapsInv', ShapeInv', PopFlushed
    PROVE  InOrder!Next
<1> DEFINE n == PopTailNum
           c == al.count
<1>1. c \in Nat /\ n \in Nat /\ n \in 0 .. COMMIT_WIDTH
    <2>1. committer.recoveryCount \in 0 .. c /\ c \in Nat
        BY PopFacts DEF RecoveryInv, PhaseInv
    <2>2. QED
        BY <2>1, Sizes DEF PopTailNum
<1>2. IsQueueStep(c, 0, n, 0, Rob, <<>>, Rob')
    BY PopIsQueueStep
<1>3. rrmt' = InOrder!Apply(rrmt, SubSeq(Rob, 1, 0))
    <2>1. rrmt' = rrmt /\ rrmt = [l \in LReg |-> rrmt[l]]
        BY DEF PopFlushed, ShapeInv
    <2>2. SubSeq(Rob, 1, 0) = <<>> /\ DOMAIN <<>> = {}
        BY SubSeqEmpty
    <2>3. QED
        BY <2>1, <2>2 DEF InOrder!Apply
<1>4. rmt' = InOrder!Apply(rrmt', Rob')
    BY FrontIsAppliedNext
<1> HIDE DEF n, c
<1>5. 0 + n <= Len(Rob) /\ Rob' = SubSeq(Rob, 0 + 1, Len(Rob) - n) \o <<>>
    <2>1. IsQueueCycle(0, n, Rob, <<>>, Rob')
        BY <1>2, QueueStep
    <2>2. QED
        BY <2>1 DEF IsQueueCycle
<1>6. InOrder!Cycle(0, n, <<>>)
    <2>1. DOMAIN <<>> = {}
        OBVIOUS
    <2>2. SubSeq(Rob, 0 + 1, Len(Rob) - n) = SubSeq(Rob, 1, Len(Rob) - n)
        OBVIOUS
    <2>3. QED
        BY <1>3, <1>4, <1>5, <2>1, CycleIs
<1>7. 0 \in 0 .. COMMIT_WIDTH /\ 0 \in 0 .. RENAME_WIDTH
    BY Sizes
<1>8. <<>> \in [1 .. 0 -> InOrder!Op]
    OBVIOUS
<1>9. QED
    BY <1>1, <1>6, <1>7, <1>8 DEF InOrder!Next

(* A cycle that starts a recovery, or loads its length, shows nothing. *)
LEMMA FlushStutters ==
    ASSUME ShapeInv, Rename(<<>>), UNCHANGED <<rrmt, activeList, al>>
    PROVE  Rob' = Rob /\ rrmt' = rrmt /\ rmt' = rmt
<1>1. Len(<<>>) + 1 = 1 /\ \A j : j \notin 1 .. 1 - 1
    OBVIOUS
<1>2. rmt' = [l \in LReg |-> rmt[l]]
    BY <1>1 DEF Rename, RmtAtLane, GprWritersBefore
<1>3. Rob' = Rob
    BY DEF Rob, HeadPtr, AL!WrapAdd
<1>4. QED
    BY <1>2, <1>3 DEF ShapeInv

LEMMA StutterIs ==
    ASSUME Rob' = Rob, rrmt' = rrmt, rmt' = rmt
    PROVE  [InOrder!Next]_<<Rob, rrmt, rmt>>
OBVIOUS

-----------------------------------------------------------------------------
LEMMA ShapeStep == ShapeInv /\ [Next]_vars => ShapeInv'
<1> SUFFICES ASSUME ShapeInv, [Next]_vars
             PROVE  ShapeInv'
    OBVIOUS
<1>1. ASSUME NEW group, NEW w, Operate(group, w)
      PROVE  ShapeInv'
    BY <1>1 DEF Operate, Rename, RmtAtLane, Retired, ShapeInv
<1>2. CASE Run
    BY <1>1, <1>2 DEF Run
<1>3. CASE StartRecovery
    BY <1>3 DEF StartRecovery, Rename, RmtAtLane, ShapeInv
<1>4. CASE LoadRecoveryCount
    BY <1>4 DEF LoadRecoveryCount, Rename, RmtAtLane, ShapeInv
<1>5. CASE PopFlushed
    BY <1>5 DEF PopFlushed, RestoredRmt, ShapeInv
<1>6. CASE AwaitIssueQueue
    BY <1>1, <1>6 DEF AwaitIssueQueue
<1>7. CASE UNCHANGED vars
    BY <1>7 DEF vars, ShapeInv
<1>8. QED
    BY <1>2, <1>3, <1>4, <1>5, <1>6, <1>7 DEF Next

LEMMA InitIsInOrder == Init => InOrder!Init
<1> SUFFICES ASSUME Init
             PROVE  InOrder!Init
    OBVIOUS
<1>1. /\ al.count = 0 /\ rmt = [l \in LReg |-> SCALAR_FREE_LIST_ENTRY_NUM + l]
      /\ rrmt = [l \in LReg |-> SCALAR_FREE_LIST_ENTRY_NUM + l]
    BY DEF Init
<1>2. 1 .. al.count = {}
    BY <1>1
<1>3. QED
    BY <1>1, <1>2 DEF InOrder!Init

LEMMA StepIsInOrder ==
    ASSUME RecoveryInv, MapsInv, GprInv, ShapeInv, RecoveryInv', MapsInv', ShapeInv',
           [Next]_vars
    PROVE  [InOrder!Next]_<<Rob, rrmt, rmt>>
<1>1. CASE Run
    <2>1. manager.phase # "RECOVER_0" /\ committer.phase = "COMMIT"
        BY <1>1 DEF Run, RecoveryInv, PhaseInv
    <2>2. PICK group \in Groups, w \in Writes : Operate(group, w)
        BY <1>1 DEF Run
    <2>3. QED
        BY <2>1, <2>2, OperateIsCycle
<1>2. CASE StartRecovery
    <2>1. Rename(<<>>) /\ UNCHANGED <<rrmt, activeList, al>>
        BY <1>2 DEF StartRecovery
    <2>2. QED
        BY <2>1, FlushStutters, StutterIs
<1>3. CASE LoadRecoveryCount
    <2>1. Rename(<<>>) /\ UNCHANGED <<rrmt, activeList, al>>
        BY <1>3 DEF LoadRecoveryCount
    <2>2. QED
        BY <2>1, FlushStutters, StutterIs
<1>4. CASE PopFlushed
    BY <1>4, PopIsCycle
<1>5. CASE AwaitIssueQueue
    <2>1. manager.phase # "RECOVER_0" /\ committer.phase = "COMMIT"
        BY <1>5 DEF AwaitIssueQueue
    <2>2. PICK group \in Groups, w \in Writes : Operate(group, w)
        BY <1>5 DEF AwaitIssueQueue
    <2>3. QED
        BY <2>1, <2>2, OperateIsCycle
<1>6. CASE UNCHANGED vars
    <2>1. rmt' = rmt /\ rrmt' = rrmt /\ activeList' = activeList /\ al' = al
        BY <1>6 DEF vars
    <2>2. Rob' = Rob
        BY <2>1 DEF Rob, HeadPtr, AL!WrapAdd
    <2>3. QED
        BY <2>1, <2>2, StutterIs
<1>7. QED
    BY <1>1, <1>2, <1>3, <1>4, <1>5, <1>6 DEF Next

(* The detailed core, with its free lists, pointers, phases and previous   *)
(* mappings, implements the in-order machine.                              *)
THEOREM CoreIsInOrder ==
    ASSUME GprPointersFit
    PROVE  Spec => InOrderSpec
<1>1. Init => ShapeInv
    BY DEF Init, ShapeInv
<1>2. Spec => []ShapeInv
    BY <1>1, ShapeStep, PTL DEF Spec
<1>3. /\ RecoveryInv /\ MapsInv /\ GprInv /\ ShapeInv
      /\ RecoveryInv' /\ MapsInv' /\ ShapeInv' /\ [Next]_vars
      => [InOrder!Next]_<<Rob, rrmt, rmt>>
    BY StepIsInOrder
<1>4. Init => InOrder!Init
    BY InitIsInOrder
<1>5. QED
    BY <1>2, <1>3, <1>4, RecoveryControl, MapsAreRight, GprArePartedForever, PTL
    DEF Spec, InOrderSpec, InOrder!Spec, Rob, AbsOp

-----------------------------------------------------------------------------
(* The registers of the control *)
ControlTypes ==
    /\ al \in [head : ALPtr, tail : ALPtr, count : 0 .. ACTIVE_LIST_ENTRY_NUM]
    /\ recoveryReg \in [valid : BOOLEAN, ptr : ALPtr, state : ExecState]
    /\ manager \in [phase : {"COMMIT", "RECOVER_0", "RECOVER_1"},
                    flushHead : ALPtr, flushTail : ALPtr]
    /\ committer \in [phase : {"COMMIT", "RECOVER_0", "RECOVER_1"},
                      recoveryCount : 0 .. ACTIVE_LIST_ENTRY_NUM]
    /\ recoveryEntryNum \in 0 .. ACTIVE_LIST_ENTRY_NUM
    /\ iqReturning \in BOOLEAN /\ staleOps \in BOOLEAN

LEMMA ListTypes ==
    ASSUME ListInv
    PROVE  /\ al.head \in ALPtr /\ al.tail \in ALPtr
           /\ al.count \in 0 .. ACTIVE_LIST_ENTRY_NUM /\ al.count \in Nat
BY PtrAtRange, ActiveListSizeAssumption DEF ActiveListSizeAssumption, ListInv

LEMMA RecoveryRegType ==
    ASSUME ListInv, PhaseInv, OpsInv, ControlTypes, NEW w \in Writes
    PROVE  NextRecoveryReg(w) \in [valid : BOOLEAN, ptr : ALPtr, state : ExecState]
<1>1. CASE ~Recorded(w)
    BY <1>1 DEF NextRecoveryReg, ControlTypes
<1>2. CASE Recorded(w)
    <2> DEFINE p == OldestOf(Exceptions(w))
    <2>1. p \in DOMAIN w
        BY <1>2, ExceptionFacts DEF Recorded
    <2>2. p \in ALPtr
        BY <2>1, WriteFacts, BackEndPtrs
    <2>3. w[p] \in ExecState
        <3>1. PICK S : w \in [S -> Outcomes]
            BY DEF Writes
        <3>2. w[p] \in Outcomes
            BY <2>1, <3>1
        <3>3. QED
            BY <3>2, CoreAssumption DEF CoreAssumption, ExecState
    <2>4. NextRecoveryReg(w) = [valid |-> TRUE, ptr |-> p,
              state |-> IF DetectedInRwStage(w) THEN "SUCCESS" ELSE w[p]]
        BY <1>2 DEF NextRecoveryReg
    <2> HIDE DEF p
    <2>5. QED
        BY <2>2, <2>3, <2>4 DEF ExecState
<1>3. QED
    BY <1>1, <1>2

LEMMA InPhaseType ==
    ASSUME NEW phase \in {"COMMIT", "RECOVER_0", "RECOVER_1"}
    PROVE  InPhase(phase) \in [phase : {"COMMIT", "RECOVER_0", "RECOVER_1"},
                               flushHead : ALPtr, flushTail : ALPtr]
BY ActiveListSizeAssumption DEF ActiveListSizeAssumption, ALPtr, InPhase

LEMMA NextPtrType ==
    ASSUME NEW p \in ALPtr
    PROVE  NextPtr(p) \in ALPtr
BY ActiveListSizeAssumption DEF ActiveListSizeAssumption, ALPtr, NextPtr

LEMMA AdvanceType ==
    ASSUME NEW p \in ALPtr, NEW n \in 0 .. ACTIVE_LIST_ENTRY_NUM
    PROVE  AL!Advance(p, n) \in ALPtr
BY AdvanceIsPtrAt, PtrAtRange

LEMMA OperateControlTypes ==
    ASSUME RecoveryInv, RecoveryInv', ControlTypes,
           manager.phase # "RECOVER_0", committer.phase = "COMMIT",
           NEW group \in Groups, NEW w \in Writes, Operate(group, w)
    PROVE  ControlTypes'
<1> DEFINE States == [phase : {"COMMIT", "RECOVER_0", "RECOVER_1"},
                      flushHead : ALPtr, flushTail : ALPtr]
           reg == NextRecoveryReg(w)
           g == Len(group)
<1>1. reg \in [valid : BOOLEAN, ptr : ALPtr, state : ExecState]
    BY RecoveryRegType DEF RecoveryInv
<1>2. AL!Advance(al.tail, g) \in ALPtr
    <2>1. g \in Nat /\ al.count + g <= ACTIVE_LIST_ENTRY_NUM
        BY GroupFacts DEF RecoveryInv
    <2>2. al.tail \in ALPtr /\ al.count \in Nat
        BY ListTypes DEF RecoveryInv
    <2> HIDE DEF g
    <2>3. g \in 0 .. ACTIVE_LIST_ENTRY_NUM
        BY <2>1, <2>2, ActiveListSizeAssumption DEF ActiveListSizeAssumption
    <2>4. QED
        BY <2>2, <2>3, AdvanceType
<1>3. reg.ptr \in ALPtr /\ NextPtr(reg.ptr) \in ALPtr
    <2> HIDE DEF reg
    <2>1. reg.ptr \in ALPtr
        BY <1>1
    <2>2. QED
        BY <2>1, NextPtrType
<1>4. manager \in States /\ InPhase("COMMIT") \in States
    BY InPhaseType DEF ControlTypes
<1>5. ManagerStep(w, group) \in States
    <2> DEFINE first(this) == IF this THEN reg.ptr ELSE NextPtr(reg.ptr)
    <2>1. \A this : first(this) \in ALPtr
        BY <1>3
    <2>2. \/ ManagerStep(w, group) = manager
          \/ ManagerStep(w, group) = InPhase("COMMIT")
          \/ \E this : ManagerStep(w, group) =
                [phase |-> "RECOVER_0", flushHead |-> first(this),
                 flushTail |-> AL!Advance(al.tail, g)]
        BY DEF ManagerStep
    <2> HIDE DEF first, g
    <2>3. QED
        BY <1>2, <1>4, <2>1, <2>2
<1>6. al' \in [head : ALPtr, tail : ALPtr, count : 0 .. ACTIVE_LIST_ENTRY_NUM]
    <2>1. al'.head \in ALPtr /\ al'.tail \in ALPtr /\ al'.count \in 0 .. ACTIVE_LIST_ENTRY_NUM
        BY OperateFacts, PtrAtRange
    <2>2. al' = [head |-> al'.head, tail |-> al'.tail, count |-> al'.count]
        BY DEF Operate
    <2>3. QED
        BY <2>1, <2>2
<1>7. recoveryReg' = reg /\ manager' = ManagerStep(w, group)
    BY DEF Operate
<1>8. committer' = committer /\ recoveryEntryNum' = recoveryEntryNum
    BY DEF Operate
<1>9. iqReturning' \in BOOLEAN /\ staleOps' \in BOOLEAN
    BY DEF Operate, Settle, ControlTypes
<1> HIDE DEF reg
<1>10. QED
    BY <1>1, <1>5, <1>6, <1>7, <1>8, <1>9 DEF ControlTypes

LEMMA StepControlTypes ==
    ASSUME RecoveryInv, RecoveryInv', ControlTypes, [Next]_vars
    PROVE  ControlTypes'
<1>1. CASE Run
    <2>1. manager.phase # "RECOVER_0" /\ committer.phase = "COMMIT"
        BY <1>1 DEF Run, RecoveryInv, PhaseInv
    <2>2. PICK group \in Groups, w \in Writes : Operate(group, w)
        BY <1>1 DEF Run
    <2>3. QED
        BY <2>1, <2>2, OperateControlTypes
<1>2. CASE StartRecovery
    <2>1. PICK w \in Writes : recoveryReg' = IF Recorded(w) THEN NextRecoveryReg(w)
                                                            ELSE NoRecovery
        BY <1>2 DEF StartRecovery
    <2>2. NextRecoveryReg(w) \in [valid : BOOLEAN, ptr : ALPtr, state : ExecState]
        BY RecoveryRegType DEF RecoveryInv
    <2>3. NoRecovery \in [valid : BOOLEAN, ptr : ALPtr, state : ExecState]
        BY ActiveListSizeAssumption
        DEF ActiveListSizeAssumption, NoRecovery, ALPtr, ExecState
    <2>4. recoveryReg' \in [valid : BOOLEAN, ptr : ALPtr, state : ExecState]
        BY <2>1, <2>2, <2>3
    <2>5. /\ al' = al /\ manager' = InPhase("RECOVER_1")
          /\ committer' = [phase |-> "RECOVER_0", recoveryCount |-> 0]
          /\ iqReturning' = TRUE /\ staleOps' \in {FALSE, FLUSHED_OPS_LINGER}
        BY <1>2 DEF StartRecovery
    <2>6. committer' \in [phase : {"COMMIT", "RECOVER_0", "RECOVER_1"},
                          recoveryCount : 0 .. ACTIVE_LIST_ENTRY_NUM]
        BY <2>5, ActiveListSizeAssumption DEF ActiveListSizeAssumption
    <2>7. recoveryEntryNum' \in 0 .. ACTIVE_LIST_ENTRY_NUM
        <3>1. committer'.phase = "RECOVER_0"
            BY <2>5
        <3>2. recoveryEntryNum' \in 0 .. al'.count /\ al'.count = al.count
            BY <2>5, <3>1 DEF RecoveryInv, PhaseInv
        <3>3. al.count \in 0 .. ACTIVE_LIST_ENTRY_NUM
            BY ListTypes DEF RecoveryInv
        <3>4. QED
            BY <3>2, <3>3, ActiveListSizeAssumption DEF ActiveListSizeAssumption
    <2>8. iqReturning' \in BOOLEAN /\ staleOps' \in BOOLEAN
        BY <2>5, CoreAssumption DEF CoreAssumption
    <2>9. QED
        BY <2>4, <2>5, <2>6, <2>7, <2>8, InPhaseType DEF ControlTypes
<1>3. CASE LoadRecoveryCount
    <2>1. PICK w \in Writes : recoveryReg' = NextRecoveryReg(w)
        BY <1>3 DEF LoadRecoveryCount
    <2>2. recoveryReg' \in [valid : BOOLEAN, ptr : ALPtr, state : ExecState]
        BY <2>1, RecoveryRegType DEF RecoveryInv
    <2>3. /\ al' = al /\ manager' = manager /\ recoveryEntryNum' = recoveryEntryNum
          /\ committer' = [phase |-> "RECOVER_1", recoveryCount |-> recoveryEntryNum]
          /\ Settle
        BY <1>3 DEF LoadRecoveryCount
    <2>4. QED
        BY <2>2, <2>3 DEF ControlTypes, Settle
<1>4. CASE PopFlushed
    <2>1. PICK w \in Writes : recoveryReg' = NextRecoveryReg(w)
        BY <1>4 DEF PopFlushed
    <2>2. recoveryReg' \in [valid : BOOLEAN, ptr : ALPtr, state : ExecState]
        BY <2>1, RecoveryRegType DEF RecoveryInv
    <2>3. al' \in [head : ALPtr, tail : ALPtr, count : 0 .. ACTIVE_LIST_ENTRY_NUM]
        <3>1. /\ al'.head \in ALPtr /\ al'.tail \in ALPtr
              /\ al'.count \in 0 .. ACTIVE_LIST_ENTRY_NUM
            <4>1. /\ al.head \in ALPtr /\ al'.head = al.head
                  /\ al.count \in 0 .. ACTIVE_LIST_ENTRY_NUM
                  /\ al'.count \in 0 .. al.count /\ al'.tail = PtrAt(al.head, al'.count)
                BY <1>4, PopFacts
            <4>2. al'.count \in 0 .. ACTIVE_LIST_ENTRY_NUM
                BY <4>1, ActiveListSizeAssumption DEF ActiveListSizeAssumption
            <4>3. QED
                BY <4>1, <4>2, PtrAtRange
        <3>2. al' = [head |-> al'.head, tail |-> al'.tail, count |-> al'.count]
            BY <1>4 DEF PopFlushed
        <3>3. QED
            BY <3>1, <3>2
    <2>4. committer' \in [phase : {"COMMIT", "RECOVER_0", "RECOVER_1"},
                          recoveryCount : 0 .. ACTIVE_LIST_ENTRY_NUM]
        <3>1. /\ committer'.phase \in {"COMMIT", "RECOVER_1"}
              /\ committer'.recoveryCount \in 0 .. al'.count
            BY <1>4, PopFacts
        <3>2. al'.count \in 0 .. ACTIVE_LIST_ENTRY_NUM
            BY <2>3
        <3>3. committer'.recoveryCount \in 0 .. ACTIVE_LIST_ENTRY_NUM
            BY <3>1, <3>2, ActiveListSizeAssumption DEF ActiveListSizeAssumption
        <3>4. committer' = [phase |-> committer'.phase,
                            recoveryCount |-> committer'.recoveryCount]
            BY <1>4 DEF PopFlushed
        <3>5. QED
            BY <3>1, <3>3, <3>4
    <2>5. manager' = manager /\ recoveryEntryNum' = recoveryEntryNum /\ Settle
        BY <1>4 DEF PopFlushed
    <2>6. QED
        BY <2>2, <2>3, <2>4, <2>5 DEF ControlTypes, Settle
<1>5. CASE AwaitIssueQueue
    <2>1. manager.phase # "RECOVER_0" /\ committer.phase = "COMMIT"
        BY <1>5 DEF AwaitIssueQueue
    <2>2. PICK group \in Groups, w \in Writes : Operate(group, w)
        BY <1>5 DEF AwaitIssueQueue
    <2>3. QED
        BY <2>1, <2>2, OperateControlTypes
<1>6. CASE UNCHANGED vars
    BY <1>6 DEF vars, ControlTypes
<1>7. QED
    BY <1>1, <1>2, <1>3, <1>4, <1>5, <1>6 DEF Next
-----------------------------------------------------------------------------
(* The registers that hold registers *)
MapTypes == rmt \in [LReg -> PhyReg] /\ flagsPhyReg \in PhyFlag
RingTypes ==
    /\ gprFree.ring \in [0 .. SCALAR_FREE_LIST_ENTRY_NUM - 1 -> PhyReg]
    /\ flagFree.ring \in [0 .. FLAG_FREE_LIST_ENTRY_NUM - 1 -> PhyFlag]
EntryTypes == activeList \in [ALPtr -> Entry]
DataTypes == MapTypes /\ RingTypes /\ EntryTypes

LEMMA ZeroIsRegister == 0 \in PhyReg /\ 0 \in PhyFlag /\ NoEntry \in Entry
<1>1. 0 \in PhyReg /\ 0 \in PhyFlag
    BY Sizes DEF PhyReg, PhyFlag
<1>2. QED
    BY <1>1 DEF NoEntry, Entry

(* A flags register that a lane takes is one of the file. *)
LEMMA RenamedFlagType ==
    ASSUME RecoveryInv, FlagInv, NEW group \in Groups, NEW i \in 1 .. Len(group),
           group[i].writeFlags
    PROVE  AllocatedFlag(group, i) \in PhyFlag
<1> DEFINE g == Len(group)
           L == FlagWritersBefore(group, g + 1)
           f == flagFree.count
           free == FLG!Contents(flagFree)
           lane == LaneDstFlags(group)
           map == [x \in FlagKeys |-> archFlags]
<1>1. g \in Nat
    BY GroupFacts DEF RecoveryInv
<1>2. IsPopped(g, L, f, free, lane)
    BY FlagPopped DEF RecoveryInv
<1>3. Conserved(PhyFlag, free, f, released.flag, Len(released.flag), DstFlagsOf,
                FlagWriters(al.count), map, FlagKeys)
    BY DEF FlagInv
<1>4. i \in Nat /\ i \in 1 .. (g + 1) - 1
    BY <1>1
<1>5. i \in L
    BY <1>4 DEF FlagWritersBefore
<1>6. lane[i] = AllocatedFlag(group, i)
    BY <1>4 DEF LaneDstFlags
<1> HIDE DEF g, L, f, free, lane, map
<1>7. lane[i] \in PhyFlag
    BY <1>2, <1>3, <1>5, PoppedAreFree
<1>8. QED
    BY <1>6, <1>7

(* So is what the maps hold at every lane, and after the last one. *)
LEMMA LaneMapType ==
    ASSUME RecoveryInv, GprInv, MapTypes, NEW group \in Groups,
           NEW i \in 1 .. Len(group) + 1
    PROVE  RmtAtLane(group, i) \in [LReg -> PhyReg]
<1>1. Len(group) \in Nat /\ i \in Nat
    BY GroupFacts DEF RecoveryInv
<1>2. ASSUME NEW l \in LReg
      PROVE  RmtAtLane(group, i)[l] \in PhyReg
    <2> DEFINE S == {j \in GprWritersBefore(group, i) : group[j].log = l}
    <2>1. RmtAtLane(group, i)[l] = IF S = {} THEN rmt[l]
                                   ELSE AllocatedGpr(group, MaxOf(S))
        BY DEF RmtAtLane
    <2>2. \A j \in 1 .. i - 1 : j \in 0 .. i /\ j \in 1 .. Len(group)
        BY <1>1
    <2>3. S \in SUBSET (0 .. i)
        BY <2>2 DEF GprWritersBefore
    <2>4. \A j \in S : j \in 1 .. Len(group) /\ group[j].writeReg
        BY <2>2 DEF GprWritersBefore
    <2> HIDE DEF S
    <2>5. CASE S = {}
        BY <2>1, <2>5 DEF MapTypes
    <2>6. CASE S # {}
        <3>1. MaxOf(S) \in S
            BY <1>1, <2>3, <2>6, MaxOfFacts
        <3>2. MaxOf(S) \in 1 .. Len(group) /\ group[MaxOf(S)].writeReg
            BY <2>4, <3>1
        <3>3. AllocatedGpr(group, MaxOf(S)) \in PhyReg
            BY <3>2, RenamedAreFree
        <3>4. QED
            BY <2>1, <2>6, <3>3
    <2>7. QED
        BY <2>5, <2>6
<1>3. RmtAtLane(group, i) = [l \in LReg |-> RmtAtLane(group, i)[l]]
    BY DEF RmtAtLane
<1>4. QED
    BY <1>2, <1>3

LEMMA LaneFlagsType ==
    ASSUME RecoveryInv, FlagInv, MapTypes, NEW group \in Groups,
           NEW i \in 1 .. Len(group) + 1
    PROVE  FlagsAtLane(group, i) \in PhyFlag
<1> DEFINE S == FlagWritersBefore(group, i)
<1>1. Len(group) \in Nat /\ i \in Nat
    BY GroupFacts DEF RecoveryInv
<1>2. FlagsAtLane(group, i) = IF S = {} THEN flagsPhyReg
                              ELSE AllocatedFlag(group, MaxOf(S))
    BY DEF FlagsAtLane
<1>3. \A j \in 1 .. i - 1 : j \in 0 .. i /\ j \in 1 .. Len(group)
    BY <1>1
<1>4. S \in SUBSET (0 .. i)
    BY <1>3 DEF FlagWritersBefore
<1>5. \A j \in S : j \in 1 .. Len(group) /\ group[j].writeFlags
    BY <1>3 DEF FlagWritersBefore
<1> HIDE DEF S
<1>6. CASE S = {}
    BY <1>2, <1>6 DEF MapTypes
<1>7. CASE S # {}
    <2>1. MaxOf(S) \in S
        BY <1>1, <1>4, <1>7, MaxOfFacts
    <2>2. MaxOf(S) \in 1 .. Len(group) /\ group[MaxOf(S)].writeFlags
        BY <1>5, <2>1
    <2>3. AllocatedFlag(group, MaxOf(S)) \in PhyFlag
        BY <2>2, RenamedFlagType
    <2>4. QED
        BY <1>2, <1>7, <2>3
<1>8. QED
    BY <1>6, <1>7

LEMMA EntryOfType ==
    ASSUME RecoveryInv, GprInv, FlagInv, MapTypes, NEW group \in Groups,
           NEW i \in 1 .. Len(group)
    PROVE  EntryOf(group, i) \in Entry
<1>1. group[i] \in [log : LReg, writeReg : BOOLEAN, writeFlags : BOOLEAN]
    BY GroupOps DEF RecoveryInv
<1>2. i \in 1 .. Len(group) + 1
    <2>1. Len(group) \in Nat
        BY GroupFacts DEF RecoveryInv
    <2>2. QED
        BY <2>1
<1>3. RmtAtLane(group, i)[group[i].log] \in PhyReg /\ FlagsAtLane(group, i) \in PhyFlag
    <2>1. RmtAtLane(group, i) \in [LReg -> PhyReg]
        BY <1>2, LaneMapType
    <2>2. QED
        BY <1>1, <1>2, <2>1, LaneFlagsType
<1>4. group[i].writeReg => AllocatedGpr(group, i) \in PhyReg
    BY RenamedAreFree
<1>5. group[i].writeFlags => AllocatedFlag(group, i) \in PhyFlag
    BY RenamedFlagType
<1>6. QED
    BY <1>1, <1>3, <1>4, <1>5, ZeroIsRegister DEF EntryOf, Entry

-----------------------------------------------------------------------------
(* What a clock of a list writes to its RAM was pushed, or was there.      *)
LEMMA GprRingType ==
    ASSUME RingTypes, NEW n, NEW s \in Seq(PhyReg)
    PROVE  GPR!Clock(gprFree, n, s).ring \in [0 .. SCALAR_FREE_LIST_ENTRY_NUM - 1 -> PhyReg]
<1>1. GPR!Clock(gprFree, n, s).ring =
        [a \in 0 .. SCALAR_FREE_LIST_ENTRY_NUM - 1 |->
            IF \E k \in 1 .. Len(s) : GPR!PushAddr(gprFree, k) = a
            THEN s[CHOOSE k \in 1 .. Len(s) : GPR!PushAddr(gprFree, k) = a]
            ELSE gprFree.ring[a]]
    BY DEF GPR!Clock
<1>2. \A k \in 1 .. Len(s) : s[k] \in PhyReg
    BY ElementOfSeq
<1>3. \A a \in 0 .. SCALAR_FREE_LIST_ENTRY_NUM - 1 : gprFree.ring[a] \in PhyReg
    BY DEF RingTypes
<1> HIDE DEF PhyReg
<1>4. QED
    BY <1>1, <1>2, <1>3

LEMMA FlagRingType ==
    ASSUME RingTypes, NEW n, NEW s \in Seq(PhyFlag)
    PROVE  FLG!Clock(flagFree, n, s).ring \in [0 .. FLAG_FREE_LIST_ENTRY_NUM - 1 -> PhyFlag]
<1>1. FLG!Clock(flagFree, n, s).ring =
        [a \in 0 .. FLAG_FREE_LIST_ENTRY_NUM - 1 |->
            IF \E k \in 1 .. Len(s) : FLG!PushAddr(flagFree, k) = a
            THEN s[CHOOSE k \in 1 .. Len(s) : FLG!PushAddr(flagFree, k) = a]
            ELSE flagFree.ring[a]]
    BY DEF FLG!Clock
<1>2. \A k \in 1 .. Len(s) : s[k] \in PhyFlag
    BY ElementOfSeq
<1>3. \A a \in 0 .. FLAG_FREE_LIST_ENTRY_NUM - 1 : flagFree.ring[a] \in PhyFlag
    BY DEF RingTypes
<1>4. QED
    BY <1>1, <1>2, <1>3

LEMMA StepRingTypes ==
    ASSUME GprInv, FlagInv, RingTypes, [Next]_vars
    PROVE  RingTypes'
<1>1. released.gpr \in Seq(PhyReg) /\ released.flag \in Seq(PhyFlag)
    BY DEF GprInv, FlagInv
<1>2. ASSUME NEW group, Rename(group)
      PROVE  RingTypes'
    BY <1>1, <1>2, GprRingType, FlagRingType DEF Rename, RingTypes
<1>3. CASE Run
    BY <1>2, <1>3 DEF Run, Operate
<1>4. CASE StartRecovery
    BY <1>2, <1>4 DEF StartRecovery
<1>5. CASE LoadRecoveryCount
    BY <1>2, <1>5 DEF LoadRecoveryCount
<1>6. CASE PopFlushed
    BY <1>1, <1>6, GprRingType, FlagRingType DEF PopFlushed, RingTypes
<1>7. CASE AwaitIssueQueue
    BY <1>2, <1>7 DEF AwaitIssueQueue, Operate
<1>8. CASE UNCHANGED vars
    BY <1>8 DEF vars, RingTypes
<1>9. QED
    BY <1>3, <1>4, <1>5, <1>6, <1>7, <1>8 DEF Next

-----------------------------------------------------------------------------
LEMMA OperateDataTypes ==
    ASSUME RecoveryInv, GprInv, FlagInv, MapTypes, EntryTypes,
           NEW group \in Groups, NEW w, Operate(group, w)
    PROVE  MapTypes' /\ EntryTypes'
<1> DEFINE g == Len(group)
<1>1. g \in Nat /\ DOMAIN group = 1 .. g
    BY GroupFacts DEF RecoveryInv
<1>2. MapTypes'
    <2>1. g + 1 \in 1 .. g + 1
        BY <1>1
    <2>2. RmtAtLane(group, g + 1) \in [LReg -> PhyReg] /\ FlagsAtLane(group, g + 1) \in PhyFlag
        BY <2>1, LaneMapType, LaneFlagsType
    <2>3. rmt' = RmtAtLane(group, g + 1) /\ flagsPhyReg' = FlagsAtLane(group, g + 1)
        BY DEF Operate, Rename
    <2>4. QED
        BY <2>2, <2>3 DEF MapTypes
<1>3. ASSUME NEW p \in ALPtr
      PROVE  activeList'[p] \in Entry
    <2>1. activeList'[p] =
            IF p \in PushedPtrs(group)
            THEN EntryOf(group, CHOOSE i \in DOMAIN group : PushedPtr(i) = p)
            ELSE IF p \in CommittedPtrs(Decision.commitNum) THEN NoEntry ELSE activeList[p]
        BY DEF Operate
    <2>2. CASE p \in PushedPtrs(group)
        <3> DEFINE at == CHOOSE i \in DOMAIN group : PushedPtr(i) = p
        <3>1. \E i \in DOMAIN group : PushedPtr(i) = p
            BY <2>2 DEF PushedPtrs
        <3>2. at \in 1 .. g
            BY <1>1, <3>1
        <3> HIDE DEF at
        <3>3. EntryOf(group, at) \in Entry
            BY <3>2, EntryOfType
        <3>4. QED
            BY <2>1, <2>2, <3>3 DEF at
    <2>3. CASE p \notin PushedPtrs(group)
        BY <2>1, <2>3, ZeroIsRegister DEF EntryTypes
    <2>4. QED
        BY <2>2, <2>3
<1>4. activeList' = [p \in ALPtr |-> activeList'[p]]
    BY DEF Operate
<1>5. QED
    BY <1>2, <1>3, <1>4 DEF EntryTypes

LEMMA FlushDataTypes ==
    ASSUME MapTypes, EntryTypes, Rename(<<>>), activeList' = activeList
    PROVE  MapTypes' /\ EntryTypes'
<1>1. Len(<<>>) + 1 = 1 /\ \A j : j \notin 1 .. 1 - 1
    OBVIOUS
<1>2. rmt' = [l \in LReg |-> rmt[l]] /\ flagsPhyReg' = flagsPhyReg
    BY <1>1 DEF Rename, RmtAtLane, FlagsAtLane, GprWritersBefore, FlagWritersBefore
<1>3. QED
    BY <1>2 DEF MapTypes, EntryTypes

LEMMA PopDataTypes ==
    ASSUME RecoveryInv, MapTypes, EntryTypes, PopFlushed
    PROVE  MapTypes' /\ EntryTypes'
<1> DEFINE n == PopTailNum
<1>1. /\ n \in Nat
      /\ \A i \in 0 .. n - 1 : TailPtr(i) \in ALPtr
    <2> DEFINE c == al.count
    <2>1. /\ c \in 0 .. ACTIVE_LIST_ENTRY_NUM /\ c \in Nat /\ n \in 0 .. c
          /\ al.head \in ALPtr
          /\ \A i \in 0 .. n - 1 : TailPtr(i) = PtrAt(al.head, c - 1 - i)
        BY PopFacts
    <2> HIDE DEF n, c
    <2>2. \A i \in 0 .. n - 1 : c - 1 - i \in 0 .. ACTIVE_LIST_ENTRY_NUM
        BY <2>1, ActiveListSizeAssumption DEF ActiveListSizeAssumption
    <2>3. \A i \in 0 .. n - 1 : PtrAt(al.head, c - 1 - i) \in ALPtr
        BY <2>1, <2>2, PtrAtRange
    <2>4. QED
        BY <2>1, <2>3
<1>2. \A i \in 0 .. n - 1 : activeList[TailPtr(i)] \in Entry
    BY <1>1 DEF EntryTypes
<1> HIDE DEF n
<1>3. \A S \in SUBSET (0 .. n - 1) : S # {} => MaxOf(S) \in 0 .. n - 1
    <2>1. ASSUME NEW S \in SUBSET (0 .. n - 1), S # {}
          PROVE  MaxOf(S) \in 0 .. n - 1
        <3>1. S \in SUBSET (0 .. n)
            BY <1>1
        <3>2. MaxOf(S) \in S
            BY <1>1, <2>1, <3>1, MaxOfFacts
        <3>3. QED
            BY <3>2
    <2>2. QED
        BY <2>1
<1>4. \A e \in Entry : e.phyPrevDst \in PhyReg /\ e.phyPrevDstFlags \in PhyFlag
    BY DEF Entry
<1>5. RestoredRmt \in [LReg -> PhyReg]
    <2>1. ASSUME NEW l \in LReg
          PROVE  RestoredRmt[l] \in PhyReg
        <3> DEFINE S == {i \in 0 .. n - 1 : activeList[TailPtr(i)].log = l}
        <3>1. RestoredRmt[l] = IF S = {} THEN rmt[l]
                               ELSE activeList[TailPtr(MaxOf(S))].phyPrevDst
            BY DEF RestoredRmt, n
        <3>2. S \in SUBSET (0 .. n - 1)
            OBVIOUS
        <3> HIDE DEF S
        <3>3. CASE S = {}
            BY <3>1, <3>3 DEF MapTypes
        <3>4. CASE S # {}
            BY <1>2, <1>3, <1>4, <3>1, <3>2, <3>4
        <3>5. QED
            BY <3>3, <3>4
    <2>2. RestoredRmt = [l \in LReg |-> RestoredRmt[l]]
        BY DEF RestoredRmt
    <2>3. QED
        BY <2>1, <2>2
<1>6. RestoredFlags \in PhyFlag
    <2> DEFINE S == {i \in 0 .. n - 1 : activeList[TailPtr(i)].writeFlags}
    <2>1. RestoredFlags = IF S = {} THEN flagsPhyReg
                          ELSE activeList[TailPtr(MaxOf(S))].phyPrevDstFlags
        BY DEF RestoredFlags, n
    <2>2. S \in SUBSET (0 .. n - 1)
        OBVIOUS
    <2> HIDE DEF S
    <2>3. CASE S = {}
        BY <2>1, <2>3 DEF MapTypes
    <2>4. CASE S # {}
        BY <1>2, <1>3, <1>4, <2>1, <2>2, <2>4
    <2>5. QED
        BY <2>3, <2>4
<1>7. rmt' = RestoredRmt /\ flagsPhyReg' = RestoredFlags
    BY DEF PopFlushed
<1>8. activeList' = [p \in ALPtr |->
                        IF p \in PoppedPtrs THEN NoEntry ELSE activeList[p]]
    BY DEF PopFlushed
<1>9. EntryTypes'
    BY <1>8, ZeroIsRegister DEF EntryTypes
<1>10. QED
    BY <1>5, <1>6, <1>7, <1>9 DEF MapTypes

LEMMA StepDataTypes ==
    ASSUME RecoveryInv, GprInv, FlagInv, DataTypes, [Next]_vars
    PROVE  DataTypes'
<1>1. MapTypes /\ RingTypes /\ EntryTypes
    BY DEF DataTypes
<1>2. RingTypes'
    BY <1>1, StepRingTypes
<1>3. MapTypes' /\ EntryTypes'
    <2>1. CASE Run
        <3>1. PICK group \in Groups, w \in Writes : Operate(group, w)
            BY <2>1 DEF Run
        <3>2. QED
            BY <1>1, <3>1, OperateDataTypes
    <2>2. CASE StartRecovery
        <3>1. Rename(<<>>) /\ activeList' = activeList
            BY <2>2 DEF StartRecovery
        <3>2. QED
            BY <1>1, <3>1, FlushDataTypes
    <2>3. CASE LoadRecoveryCount
        <3>1. Rename(<<>>) /\ activeList' = activeList
            BY <2>3 DEF LoadRecoveryCount
        <3>2. QED
            BY <1>1, <3>1, FlushDataTypes
    <2>4. CASE PopFlushed
        BY <1>1, <2>4, PopDataTypes
    <2>5. CASE AwaitIssueQueue
        <3>1. PICK group \in Groups, w \in Writes : Operate(group, w)
            BY <2>5 DEF AwaitIssueQueue
        <3>2. QED
            BY <1>1, <3>1, OperateDataTypes
    <2>6. CASE UNCHANGED vars
        BY <1>1, <2>6 DEF vars, MapTypes, EntryTypes
    <2>7. QED
        BY <2>1, <2>2, <2>3, <2>4, <2>5, <2>6 DEF Next
<1>4. QED
    BY <1>2, <1>3 DEF DataTypes

-----------------------------------------------------------------------------
LEMMA InitTypes == Init => ControlTypes /\ DataTypes
<1> SUFFICES ASSUME Init
             PROVE  ControlTypes /\ DataTypes
    OBVIOUS
<1>1. ControlTypes
    <2>1. 0 \in ALPtr /\ 0 \in 0 .. ACTIVE_LIST_ENTRY_NUM
        BY ActiveListSizeAssumption DEF ActiveListSizeAssumption, ALPtr
    <2>2. QED
        BY <2>1, InPhaseType DEF Init, NoRecovery, ControlTypes, ExecState
<1>2. MapTypes
    <2>1. \A l \in LReg : SCALAR_FREE_LIST_ENTRY_NUM + l \in PhyReg
        BY Sizes DEF PhyReg
    <2>2. FLAG_FREE_LIST_ENTRY_NUM \in PhyFlag
        BY Sizes DEF PhyFlag
    <2>3. QED
        BY <2>1, <2>2 DEF Init, MapTypes
<1>3. RingTypes
    <2>1. /\ \A a \in 0 .. SCALAR_FREE_LIST_ENTRY_NUM - 1 : a \in PhyReg
          /\ \A a \in 0 .. FLAG_FREE_LIST_ENTRY_NUM - 1 : a \in PhyFlag
        BY Sizes DEF PhyReg, PhyFlag
    <2>2. /\ gprFree.ring = [a \in 0 .. SCALAR_FREE_LIST_ENTRY_NUM - 1 |-> a]
          /\ flagFree.ring = [a \in 0 .. FLAG_FREE_LIST_ENTRY_NUM - 1 |-> a]
        BY DEF Init, GPR!InitFreeList, FLG!InitFreeList
    <2>3. QED
        BY <2>1, <2>2 DEF RingTypes
<1>4. EntryTypes
    BY ZeroIsRegister DEF Init, EntryTypes
<1>5. QED
    BY <1>1, <1>2, <1>3, <1>4 DEF DataTypes

(* The retirement maps hold registers of the file because they are a part  *)
(* of the partition, the pointers of the lists are in range because they   *)
(* agree with the counts, the sets of ops because they are in the window.  *)
LEMMA TypesTogether ==
    RecoveryInv /\ GprInv /\ FlagInv /\ ShapeInv /\ ControlTypes /\ DataTypes => TypeOK
<1> SUFFICES ASSUME RecoveryInv, GprInv, FlagInv, ShapeInv, ControlTypes, DataTypes
             PROVE  TypeOK
    OBVIOUS
<1>1. rrmt \in [LReg -> PhyReg]
    <2>1. \A l \in LReg : rrmt[l] \in PhyReg
        BY ConservedValues DEF GprInv
    <2>2. QED
        BY <2>1 DEF ShapeInv
<1>2. archFlags \in PhyFlag
    <2> DEFINE map == [x \in FlagKeys |-> archFlags]
    <2>1. Conserved(PhyFlag, FLG!Contents(flagFree), flagFree.count, released.flag,
                    Len(released.flag), DstFlagsOf, FlagWriters(al.count), map, FlagKeys)
        BY DEF FlagInv
    <2>2. map[0] = archFlags /\ 0 \in FlagKeys
        BY DEF FlagKeys
    <2> HIDE DEF map
    <2>3. QED
        BY <2>1, <2>2, ConservedValues
<1>3. FreeListOK(gprFree, SCALAR_FREE_LIST_ENTRY_NUM, SCALAR_INDEX_MOD, PhyReg)
    <2>1. /\ gprFree.head \in 0 .. SCALAR_FREE_LIST_ENTRY_NUM - 1
          /\ gprFree.tail \in 0 .. SCALAR_FREE_LIST_ENTRY_NUM
          /\ gprFree.tail < SCALAR_INDEX_MOD
          /\ gprFree.count \in 0 .. SCALAR_FREE_LIST_ENTRY_NUM
        BY DEF GprInv, GP!PointersAgree
    <2>2. gprFree.tail \in 0 .. SCALAR_INDEX_MOD - 1
        BY <2>1, Sizes
    <2>3. QED
        BY <2>1, <2>2 DEF DataTypes, RingTypes, FreeListOK
<1>4. FreeListOK(flagFree, FLAG_FREE_LIST_ENTRY_NUM, FLAG_INDEX_MOD, PhyFlag)
    <2>1. /\ flagFree.head \in 0 .. FLAG_FREE_LIST_ENTRY_NUM - 1
          /\ flagFree.tail \in 0 .. FLAG_FREE_LIST_ENTRY_NUM
          /\ flagFree.tail < FLAG_INDEX_MOD
          /\ flagFree.count \in 0 .. FLAG_FREE_LIST_ENTRY_NUM
        BY DEF FlagInv, FP!PointersAgree
    <2>2. flagFree.tail \in 0 .. FLAG_INDEX_MOD - 1
        BY <2>1, Sizes
    <2>3. QED
        BY <2>1, <2>2 DEF DataTypes, RingTypes, FreeListOK
<1>5. finished \subseteq ALPtr /\ backEnd \subseteq ALPtr
    BY BackEndPtrs DEF RecoveryInv, OpsInv
<1>6. QED
    BY <1>1, <1>2, <1>3, <1>4, <1>5 DEF TypeOK, ControlTypes, DataTypes, MapTypes, EntryTypes

(* Every register of rename, retirement and recovery stays in its range,   *)
(* through renamings, retirements and recoveries in any order: no entry,   *)
(* map or list ever names a physical register that the file has not, and   *)
(* no pointer leaves its queue.                                            *)
THEOREM RegistersStayInRange ==
    ASSUME GprPointersFit, FlagPointersFit
    PROVE  Spec => []TypeOK
<1>1. Spec => []ShapeInv
    <2>1. Init => ShapeInv
        BY DEF Init, ShapeInv
    <2>2. QED
        BY <2>1, ShapeStep, PTL DEF Spec
<1>2. RecoveryInv /\ RecoveryInv' /\ ControlTypes /\ [Next]_vars => ControlTypes'
    BY StepControlTypes
<1>3. RecoveryInv /\ GprInv /\ FlagInv /\ DataTypes /\ [Next]_vars => DataTypes'
    BY StepDataTypes
<1>4. QED
    BY <1>1, <1>2, <1>3, InitTypes, TypesTogether, RecoveryControl,
       GprArePartedForever, FlagsArePartedForever, PTL DEF Spec
=============================================================================
