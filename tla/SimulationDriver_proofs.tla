---------------------- MODULE SimulationDriver_proofs ----------------------
(***************************************************************************)
(* What the simulator writes is what the core does, for every width and    *)
(* size, every program and every number of cycles; for the log, as long as *)
(* the ops since the last that retired span no more than a quarter of the  *)
(* serial ids (SpanFits).                                                  *)
(*                                                                         *)
(* The log.  The parser knows an op by a number that it rebuilds from the  *)
(* serial id in the line (GidIsRebuilt).  A line of the log is good in the *)
(* state in which the parser meets it, or it is a retirement: a good line  *)
(* keeps what the parser knows of the others (GoodLine), so that the lines *)
(* of a stage can be parsed in any number, and that each stage writes good *)
(* lines only is read off the debug register, lane by lane.  LogHolds says *)
(* what the parser knows between two cycles.                               *)
(*                                                                         *)
(* The records.  The register file along the active list is that of the    *)
(* program order (RetiredInv, CsvInv, OutInv).                             *)
(*                                                                         *)
(* DriverInv joins the records with CoreInv, the invariant of the core;    *)
(* LogHolds is inductive on top of it.                                     *)
(***************************************************************************)
EXTENDS SimulationDriver, TracedCore_proofs

-----------------------------------------------------------------------------
(* The ids of the log                                                        *)

(* The number under which the parser should know op n: its place in the    *)
(* fetch order, scaled by the micro ops of an instruction.                 *)
Gid(n) == MAX_MICRO_OPS_PER_INSN * (script.first + n)

(* The constants of the log are numbers. *)
LEMMA BoundsOfLog ==
    /\ OP_SERIAL_NUM \in Nat /\ OP_SERIAL_NUM > 0 /\ OP_SERIAL_NUM % 4 = 0
    /\ MAX_MICRO_OPS_PER_INSN \in Nat /\ MAX_MICRO_OPS_PER_INSN > 0
BY LogAssumption

(* Ops that follow op last, by less than a quarter of the serial ids *)
InReach(last, n) == last < n /\ n < last + OP_SERIAL_NUM \div 4

(* Division with remainder *)
LEMMA DivMod ==
    ASSUME NEW a \in Nat, NEW m \in Nat, m > 0
    PROVE  /\ (a % m) \in 0 .. m - 1 /\ (a \div m) \in Nat
           /\ a = (m * (a \div m)) + (a % m)
OBVIOUS

(* A positive factor keeps the order. *)
LEMMA ProductOrder ==
    ASSUME NEW k \in Nat, k > 0, NEW a \in Int, NEW b \in Int
    PROVE  k * a < k * b <=> a < b
OBVIOUS

(* A remainder is determined by its range. *)
LEMMA RemainderIs ==
    ASSUME NEW m \in Nat, m > 0, NEW q \in Nat, NEW r \in 0 .. m - 1
    PROVE  (m * q + r) % m = r
<1> DEFINE a == m * q + r
           p == a \div m
           s == a % m
<1>1. a \in Nat /\ s \in 0 .. m - 1 /\ p \in Nat /\ a = (m * p) + s
    BY DivMod
<1> HIDE DEF a, p, s
<1>2. m * q + r = (m * p) + s
    BY <1>1 DEF a
<1>3. CASE p = q
    BY <1>1, <1>2, <1>3 DEF s, a
<1>4. CASE p > q
    <2>1. PICK d \in Nat : d > 0 /\ p = q + d
        <3>1. p - q \in Nat /\ p - q > 0 /\ p = q + (p - q)
            BY <1>1, <1>4
        <3>2. QED
            BY <3>1
    <2>2. m * p = m * q + m * d
        BY <2>1
    <2>3. m * d >= m /\ m * d \in Nat /\ m * q \in Nat
        BY <2>1
    <2>4. QED
        BY <1>1, <1>2, <2>2, <2>3
<1>5. CASE p < q
    <2>1. PICK d \in Nat : d > 0 /\ q = p + d
        <3>1. q - p \in Nat /\ q - p > 0 /\ q = p + (q - p)
            BY <1>1, <1>5
        <3>2. QED
            BY <3>1
    <2>2. m * q = m * p + m * d
        BY <1>1, <2>1
    <2>3. m * d >= m /\ m * d \in Nat /\ m * p \in Nat
        BY <1>1, <2>1
    <2>4. QED
        BY <1>1, <1>2, <2>2, <2>3
<1>6. QED
    BY <1>1, <1>3, <1>4, <1>5

(* A common factor comes out of a remainder. *)
LEMMA ProductMod ==
    ASSUME NEW k \in Nat, k > 0, NEW m \in Nat, m > 0, NEW a \in Nat
    PROVE  (k * a) % (m * k) = k * (a % m)
<1> DEFINE q == a \div m
           r == a % m
<1>1. q \in Nat /\ r \in 0 .. m - 1 /\ a = (m * q) + r
    BY DivMod
<1> HIDE DEF q, r
<1>2. k * a = (m * k) * q + k * r
    <2>1. k * a = k * (m * q) + k * r
        BY <1>1
    <2>2. k * (m * q) = (m * k) * q
        BY <1>1
    <2>3. QED
        BY <2>1, <2>2
<1>3. (m * k) \in Nat /\ (m * k) > 0 /\ (k * r) \in 0 .. (m * k) - 1
    <2>1. (m * k) \in Nat /\ (k * r) \in Nat /\ (m * k) = k * m
        BY <1>1
    <2>2. k * r < k * m /\ k * 0 < k * m
        BY <1>1, ProductOrder
    <2>3. QED
        BY <2>1, <2>2
<1>4. ((m * k) * q + k * r) % (m * k) = k * r
    BY <1>1, <1>3, RemainderIs
<1>5. QED
    BY <1>2, <1>4 DEF r

(* The parser rebuilds the number of an op from its serial id, as the ops  *)
(* of the log are less than a quarter of the serial ids apart.             *)
LEMMA TurnOfSerial ==
    ASSUME NEW turn \in Nat, NEW quarter \in Nat, quarter > 0, turn = 4 * quarter,
           NEW i \in Nat, NEW j \in Nat, i - j < quarter, j - i < quarter,
           NEW u \in Nat, NEW x \in 0 .. turn - 1, i = (turn * u) + x,
           NEW v \in Nat, NEW y \in 0 .. turn - 1, j = (turn * v) + y
    PROVE  /\ y > 3 * quarter /\ x < quarter => i = (j - y) + turn + x
           /\ x > 3 * quarter /\ y < quarter => i = (j - y) - turn + x
           /\ ~(y > 3 * quarter /\ x < quarter) /\ ~(x > 3 * quarter /\ y < quarter) =>
                 i = (j - y) + x
<1>1. i = (turn * u) + x /\ j = (turn * v) + y
    OBVIOUS
<1> DEFINE d == u - v
<1>2. d \in Int /\ turn * u = turn * v + turn * d /\ turn * d \in Int /\ turn * v \in Int
    BY <1>1
<1> HIDE DEF d
<1>3. turn * d = (i - j) - (x - y)
    BY <1>1, <1>2
<1>4. d \in {-1, 0, 1}
    <2>1. turn * d < 2 * turn /\ turn * d > -(2 * turn)
        BY <1>1, <1>3
    <2>2. d >= 2 => turn * d >= 2 * turn
        BY <1>2
    <2>3. d <= -2 => turn * d <= -(2 * turn)
        BY <1>2
    <2>4. QED
        BY <1>2, <2>1, <2>2, <2>3
<1>5. CASE d = 0
    <2>1. i - j = x - y
        BY <1>1, <1>3, <1>5
    <2>2. QED
        BY <1>1, <2>1
<1>6. CASE d = 1
    <2>1. i - j = (x - y) + turn
        BY <1>1, <1>3, <1>6
    <2>2. QED
        BY <1>1, <2>1
<1>7. CASE d = -1
    <2>1. i - j = (x - y) - turn
        BY <1>1, <1>3, <1>7
    <2>2. QED
        BY <1>1, <2>1
<1>8. QED
    BY <1>4, <1>5, <1>6, <1>7

(* CreateGID rebuilds the number of an op from the serial id in the log    *)
(* and the greatest number that retired, also across the wrap of the       *)
(* serial ids.                                                             *)
LEMMA GidIsRebuilt ==
    ASSUME script \in Scripts, NEW m \in Nat, NEW n \in Nat, InReach(m, n),
           NEW p, p.maxRetired = Gid(m)
    PROVE  CreateGID(p, Sid(n), 0) = Gid(n)
<1> DEFINE K  == MAX_MICRO_OPS_PER_INSN
           W  == OP_SERIAL_NUM
           Q  == W \div 4
           a  == script.first + n
           b  == script.first + m
           ra == a % W
           rb == b % W
<1>1. K \in Nat /\ K > 0 /\ W \in Nat /\ W > 0 /\ W % 4 = 0 /\ m < n /\ n < m + Q
    BY BoundsOfLog DEF InReach
<1>2. Q \in Nat /\ W = 4 * Q /\ Q > 0
    BY <1>1
<1>3. a \in Nat /\ b \in Nat /\ a - b < Q /\ b - a < Q
    <2>1. script.first \in Nat
        BY CoreAssumption
    <2>2. QED
        BY <1>1, <1>2, <2>1
<1>4. p.maxRetired = K * b /\ Sid(n) = ra /\ Gid(n) = K * a
    BY DEF Gid, Sid
<1> HIDE DEF K, W, Q, a, b
<1>5. /\ ra \in 0 .. W - 1 /\ rb \in 0 .. W - 1
      /\ rb > 3 * Q /\ ra < Q => a = (b - rb) + W + ra
      /\ ra > 3 * Q /\ rb < Q => a = (b - rb) - W + ra
      /\ ~(rb > 3 * Q /\ ra < Q) /\ ~(ra > 3 * Q /\ rb < Q) => a = (b - rb) + ra
    <2> DEFINE qa == a \div W
               qb == b \div W
    <2>1. /\ ra \in 0 .. W - 1 /\ qa \in Nat /\ a = (W * qa) + ra
          /\ rb \in 0 .. W - 1 /\ qb \in Nat /\ b = (W * qb) + rb
        BY <1>1, <1>3, DivMod
    <2> HIDE DEF ra, rb, qa, qb
    <2>2. QED
        BY <1>1, <1>2, <1>3, <2>1, TurnOfSerial
<1>6. (K * b) % (W * K) = K * rb
    <2>1. K \in Nat /\ K > 0 /\ W \in Nat /\ W > 0 /\ b \in Nat
        BY <1>1, <1>3
    <2> HIDE DEF rb
    <2>2. (K * b) % (W * K) = K * (b % W)
        BY <2>1, ProductMod
    <2>3. QED
        BY <2>2 DEF rb
<1> HIDE DEF ra, rb
<1>7. (W * K) \div 4 = K * Q
    <2>1. W * K = 4 * (K * Q) /\ K * Q \in Nat
        BY <1>1, <1>2
    <2>2. \A x \in Nat : (4 * x) \div 4 = x
        OBVIOUS
    <2>3. QED
        BY <2>1, <2>2
<1>8. /\ K * rb > (K * Q) * 3 <=> rb > 3 * Q
      /\ K * ra > (K * Q) * 3 <=> ra > 3 * Q
      /\ K * ra < K * Q <=> ra < Q
      /\ K * rb < K * Q <=> rb < Q
    <2>1. (K * Q) * 3 = K * (3 * Q)
        BY <1>1, <1>2
    <2>2. 3 * Q \in Int /\ Q \in Int /\ ra \in Int /\ rb \in Int
        BY <1>2, <1>5
    <2>3. \A x, y \in Int : K * x < K * y <=> x < y
        BY <1>1, ProductOrder
    <2>4. K * rb > K * (3 * Q) <=> rb > 3 * Q
        BY <1>1, <2>2, <2>3
    <2>5. K * ra > K * (3 * Q) <=> ra > 3 * Q
        BY <1>1, <2>2, <2>3
    <2>6. QED
        BY <2>1, <2>2, <2>3, <2>4, <2>5
<1> DEFINE g == K * ra
           r == K * rb
           M == K * Q
           t == K * b - r
<1>9. CreateGID(p, Sid(n), 0) = CASE r > M * 3 /\ g < M -> t + W * K + g
                                  [] g > M * 3 /\ r < M -> t - W * K + g
                                  [] OTHER -> t + g
    <2>1. 0 + ra * K = g /\ g \in Int
        BY <1>1, <1>5
    <2>2. CreateGID(p, Sid(n), 0) =
             LET gg == 0 + Sid(n) * K
                 MM == (W * K) \div 4
                 rr == p.maxRetired % (W * K)
                 nn == p.maxRetired - rr
             IN  CASE rr > MM * 3 /\ gg < MM -> nn + W * K + gg
                   [] gg > MM * 3 /\ rr < MM -> nn - W * K + gg
                   [] OTHER -> nn + gg
        BY DEF CreateGID, GID_WRAP_AROUND, K, W
    <2> HIDE DEF g, r, M
    <2>3. QED
        BY <1>4, <1>6, <1>7, <2>1, <2>2 DEF g, r, M
<1>10. /\ K * ((b - rb) + W + ra) = t + W * K + g
       /\ K * ((b - rb) - W + ra) = t - W * K + g
       /\ K * ((b - rb) + ra) = t + g
    BY <1>1, <1>3, <1>5
<1>11. CASE rb > 3 * Q /\ ra < Q
    BY <1>4, <1>5, <1>8, <1>9, <1>10, <1>11
<1>12. CASE ra > 3 * Q /\ rb < Q
    <2>1. ~(rb > 3 * Q /\ ra < Q)
        BY <1>2, <1>5, <1>12
    <2>2. QED
        BY <1>4, <1>5, <1>8, <1>9, <1>10, <1>12, <2>1
<1>13. CASE ~(rb > 3 * Q /\ ra < Q) /\ ~(ra > 3 * Q /\ rb < Q)
    BY <1>4, <1>5, <1>8, <1>9, <1>10, <1>13
<1>14. QED
    BY <1>11, <1>12, <1>13

(* A quarter of the serial ids is the limit: an op that far ahead of the   *)
(* youngest one that retired is taken for another, so half of the range,   *)
(* the difference that the parser asks for (RSD_Parser.py:72), is too much. *)
THEOREM QuarterIsTheLimit ==
    ASSUME NEW m \in Nat, NEW n \in Nat, n = m + OP_SERIAL_NUM \div 4, script \in Scripts,
           script.first + m = 3 * (OP_SERIAL_NUM \div 4),
           NEW p, p.maxRetired = Gid(m)
    PROVE  CreateGID(p, Sid(n), 0) # Gid(n)
<1> DEFINE K == MAX_MICRO_OPS_PER_INSN
           W == OP_SERIAL_NUM
           Q == W \div 4
           b == script.first + m
<1>1. K \in Nat /\ K > 0 /\ W \in Nat /\ W > 0 /\ Q \in Nat /\ W = 4 * Q /\ b = 3 * Q
    BY BoundsOfLog
<1>2. script.first \in Nat /\ script.first + n = W
    <2>1. script.first \in Nat
        BY CoreAssumption
    <2>2. script.first + n = b + Q
        BY <1>1, <2>1
    <2> HIDE DEF b, Q, W
    <2>3. QED
        BY <1>1, <2>1, <2>2
<1>3. W % W = 0
    BY <1>1
<1>4. p.maxRetired = K * b /\ Sid(n) = W % W /\ Gid(n) = K * W
    BY <1>2 DEF Gid, Sid
<1> HIDE DEF K, W, Q, b
<1>5. /\ W * K = 4 * (K * Q) /\ K * Q \in Nat /\ K * Q > 0 /\ K * b = (K * Q) * 3
      /\ K * W = W * K
    <2>1. K * Q > 0
        BY <1>1
    <2>2. QED
        BY <1>1, <2>1
<1> DEFINE M == K * Q
<1>6. M \in Nat /\ M > 0 /\ (4 * M) \div 4 = M /\ (3 * M) % (4 * M) = 3 * M
    BY <1>5
<1>7. CreateGID(p, Sid(n), 0) =
         LET g == 0 + Sid(n) * K
             MM == (W * K) \div 4
             r == p.maxRetired % (W * K)
             t == p.maxRetired - r
         IN  CASE r > MM * 3 /\ g < MM -> t + W * K + g
               [] g > MM * 3 /\ r < MM -> t - W * K + g
               [] OTHER -> t + g
    BY DEF CreateGID, GID_WRAP_AROUND, K, W
<1> HIDE DEF M
<1>8. /\ 0 + Sid(n) * K = 0 /\ (W * K) \div 4 = M /\ p.maxRetired = 3 * M
      /\ p.maxRetired % (W * K) = 3 * M /\ Gid(n) = 4 * M
    <2>1. Sid(n) = 0 /\ 0 * K = 0
        BY <1>1, <1>3, <1>4
    <2>2. W * K = 4 * M /\ K * b = 3 * M
        BY <1>5, <1>6 DEF M
    <2>3. QED
        BY <1>4, <1>5, <1>6, <2>1, <2>2
<1>9. CreateGID(p, Sid(n), 0) = 0
    BY <1>6, <1>7, <1>8
<1>10. QED
    BY <1>6, <1>8, <1>9

-----------------------------------------------------------------------------
(* The parser over the lines of a cycle                                      *)

(* What the fold over the first k lines is, as a function on sets of lines *)
LinesFolded(h, p, lines, k) ==
    h = [s \in SUBSET (1 .. k) |->
            IF s = {} THEN p ELSE ProcessLine(h[s \ {Max(s)}], lines[Max(s)])]

(* The function exists, by induction on the number of lines. *)
LEMMA LinesFoldedExists ==
    ASSUME NEW p, NEW lines, NEW n \in Nat
    PROVE  \E h : LinesFolded(h, p, lines, n)
<1> DEFINE T == {k \in Nat : \E h : LinesFolded(h, p, lines, k)}
<1>1. 0 \in T
    <2> DEFINE h == [s \in {{}} |-> p]
    <2>1. SUBSET (1 .. 0) = {{}}
        OBVIOUS
    <2>2. h = [s \in SUBSET (1 .. 0) |->
                  IF s = {} THEN p ELSE ProcessLine(h[s \ {Max(s)}], lines[Max(s)])]
        BY <2>1
    <2> HIDE DEF h
    <2>3. LinesFolded(h, p, lines, 0)
        BY <2>2 DEF LinesFolded
    <2>4. QED
        BY <2>3
<1>2. ASSUME NEW k \in Nat, k \in T
      PROVE  k + 1 \in T
    <2>1. PICK h : LinesFolded(h, p, lines, k)
        BY <1>2
    <2>2. \A s \in SUBSET (1 .. k) :
             h[s] = IF s = {} THEN p ELSE ProcessLine(h[s \ {Max(s)}], lines[Max(s)])
        BY <2>1 DEF LinesFolded
    <2> DEFINE g == [s \in SUBSET (1 .. k + 1) |->
                        IF k + 1 \in s THEN ProcessLine(h[s \ {k + 1}], lines[k + 1]) ELSE h[s]]
    <2>3. \A s \in SUBSET (1 .. k + 1) :
             g[s] = IF k + 1 \in s THEN ProcessLine(h[s \ {k + 1}], lines[k + 1]) ELSE h[s]
        OBVIOUS
    <2> HIDE DEF g
    <2>4. ASSUME NEW s \in SUBSET (1 .. k + 1)
          PROVE  g[s] = IF s = {} THEN p ELSE ProcessLine(g[s \ {Max(s)}], lines[Max(s)])
        <3>1. CASE k + 1 \in s
            <4>1. /\ \A i \in s : i \in 0 .. k + 1
                  /\ k + 1 \in Nat /\ s # {}
                BY <3>1
            <4>2. Max(s) \in s /\ \A i \in s : i <= Max(s)
                BY <4>1, MaxIsGreatest
            <4>3. Max(s) = k + 1
                <5>1. Max(s) \in 1 .. k + 1 /\ k + 1 <= Max(s)
                    BY <3>1, <4>2
                <5>2. QED
                    BY <5>1
            <4>4. s \ {k + 1} \in SUBSET (1 .. k + 1) /\ k + 1 \notin s \ {k + 1}
                OBVIOUS
            <4>5. g[s \ {k + 1}] = h[s \ {k + 1}]
                BY <2>3, <4>4
            <4>6. QED
                BY <2>3, <3>1, <4>1, <4>3, <4>5
        <3>2. CASE k + 1 \notin s
            <4>1. s \in SUBSET (1 .. k)
                BY <3>2
            <4>2. s \ {Max(s)} \in SUBSET (1 .. k + 1) /\ k + 1 \notin s \ {Max(s)}
                BY <3>2
            <4>3. g[s] = h[s] /\ g[s \ {Max(s)}] = h[s \ {Max(s)}]
                BY <2>3, <3>2, <4>2
            <4>4. QED
                BY <2>2, <4>1, <4>3
        <3>3. QED
            BY <3>1, <3>2
    <2>5. LinesFolded(g, p, lines, k + 1)
        <3>1. g = [s \in SUBSET (1 .. k + 1) |-> g[s]]
            BY DEF g
        <3>2. QED
            BY <2>4, <3>1 DEF LinesFolded
    <2>6. QED
        BY <2>5
<1>3. Nat \subseteq T
    <2> HIDE DEF T
    <2>1. QED
        BY <1>1, <1>2, SetInduction
<1>4. QED
    BY <1>3

(* The states of the parser along the lines *)
Along(f, p, lines, n) ==
    /\ f[0] = p
    /\ \A j \in 1 .. n : f[j] = ProcessLine(f[j - 1], lines[j])

(* Parsing the lines of a cycle is processing them one after the other. *)
LEMMA ParserRuns ==
    ASSUME NEW p, NEW n \in Nat, NEW lines, DOMAIN lines = 1 .. n
    PROVE  \E f : Along(f, p, lines, n) /\ ParseCycle(p, lines) = f[n]
<1> DEFINE chosen == CHOOSE iter : iter = [s \in SUBSET (1 .. n) |->
                  IF s = {} THEN p ELSE ProcessLine(iter[s \ {Max(s)}], lines[Max(s)])]
<1>1. ParseCycle(p, lines) = chosen[1 .. n]
    BY DEF ParseCycle, FoldLeft, MapThenFoldSet
<1>2. chosen = [s \in SUBSET (1 .. n) |->
              IF s = {} THEN p ELSE ProcessLine(chosen[s \ {Max(s)}], lines[Max(s)])]
    <2>1. PICK g : LinesFolded(g, p, lines, n)
        BY LinesFoldedExists
    <2>2. g = [s \in SUBSET (1 .. n) |->
                  IF s = {} THEN p ELSE ProcessLine(g[s \ {Max(s)}], lines[Max(s)])]
        BY <2>1 DEF LinesFolded
    <2>3. QED
        BY <2>2
<1> HIDE DEF chosen
<1>3. \A s \in SUBSET (1 .. n) :
         chosen[s] = IF s = {} THEN p ELSE ProcessLine(chosen[s \ {Max(s)}], lines[Max(s)])
    BY <1>2
<1> DEFINE f == [j \in 0 .. n |-> chosen[1 .. j]]
<1>4. f[0] = p
    <2>1. 1 .. 0 = {} /\ {} \in SUBSET (1 .. n) /\ 0 \in 0 .. n
        OBVIOUS
    <2>2. f[0] = chosen[{}]
        BY <2>1
    <2> HIDE DEF f
    <2>3. QED
        BY <1>3, <2>1, <2>2
<1>5. ASSUME NEW j \in 1 .. n
      PROVE  f[j] = ProcessLine(f[j - 1], lines[j])
    <2>1. /\ j \in 0 .. n /\ j - 1 \in 0 .. n /\ 1 .. j \in SUBSET (1 .. n)
          /\ 1 .. j # {} /\ (1 .. j) \ {j} = 1 .. j - 1
          /\ j \in Nat /\ \A i \in 1 .. j : i \in 0 .. j
        OBVIOUS
    <2>2. f[j] = chosen[1 .. j] /\ f[j - 1] = chosen[1 .. j - 1]
        BY <2>1
    <2>3. Max(1 .. j) \in 1 .. j /\ \A i \in 1 .. j : i <= Max(1 .. j)
        BY <2>1, MaxIsGreatest
    <2>4. Max(1 .. j) = j
        BY <2>1, <2>3
    <2> HIDE DEF f
    <2>5. QED
        BY <1>3, <2>1, <2>2, <2>4
<1>6. f[n] = chosen[1 .. n]
    OBVIOUS
<1> HIDE DEF f
<1>7. Along(f, p, lines, n)
    BY <1>4, <1>5 DEF Along
<1>8. QED
    BY <1>1, <1>6, <1>7

(* A cycle without lines leaves the parser alone. *)
LEMMA ParseNothing ==
    ASSUME NEW p
    PROVE  ParseCycle(p, <<>>) = p
<1>1. DOMAIN <<>> = 1 .. 0 /\ 0 \in Nat
    OBVIOUS
<1>2. PICK f : Along(f, p, <<>>, 0) /\ ParseCycle(p, <<>>) = f[0]
    BY <1>1, ParserRuns
<1>3. QED
    BY <1>2 DEF Along

(* Parsing a concatenation is parsing its parts in order. *)
LEMMA ParseConcat ==
    ASSUME NEW p, NEW S, NEW s \in Seq(S), NEW t \in Seq(S)
    PROVE  ParseCycle(p, s \o t) = ParseCycle(ParseCycle(p, s), t)
<1> DEFINE q == ParseCycle(p, s)
<1>1. /\ Len(s) \in Nat /\ DOMAIN s = 1 .. Len(s) /\ Len(t) \in Nat /\ DOMAIN t = 1 .. Len(t)
      /\ s \o t \in Seq(S) /\ Len(s \o t) = Len(s) + Len(t)
      /\ \A i \in 1 .. Len(s) : (s \o t)[i] = s[i]
      /\ \A i \in 1 .. Len(t) : (s \o t)[Len(s) + i] = t[i]
    BY ConcatElements
<1>2. DOMAIN (s \o t) = 1 .. Len(s) + Len(t) /\ Len(s) + Len(t) \in Nat
    BY <1>1
<1>3. PICK f : Along(f, p, s, Len(s)) /\ q = f[Len(s)]
    BY <1>1, ParserRuns
<1>4. PICK g : Along(g, q, t, Len(t)) /\ ParseCycle(q, t) = g[Len(t)]
    BY <1>1, ParserRuns
<1> HIDE DEF q
<1>5. PICK h : Along(h, p, s \o t, Len(s) + Len(t)) /\ ParseCycle(p, s \o t) = h[Len(s) + Len(t)]
    BY <1>2, ParserRuns
<1> DEFINE T == {k \in Nat : k <= Len(s) => h[k] = f[k]}
           U == {k \in Nat : k <= Len(t) => h[Len(s) + k] = g[k]}
<1>6. Nat \subseteq T
    <2>1. 0 \in T
        BY <1>3, <1>5 DEF Along
    <2>2. ASSUME NEW k \in Nat, k \in T
          PROVE  k + 1 \in T
        <3>1. SUFFICES ASSUME k + 1 <= Len(s)
                       PROVE  h[k + 1] = f[k + 1]
            OBVIOUS
        <3>2. k + 1 \in 1 .. Len(s) /\ k + 1 \in 1 .. Len(s) + Len(t) /\ (k + 1) - 1 = k /\ k <= Len(s)
            BY <1>1, <3>1
        <3>3. f[k + 1] = ProcessLine(f[k], s[k + 1])
            BY <1>3, <3>2 DEF Along
        <3>4. h[k + 1] = ProcessLine(h[k], (s \o t)[k + 1])
            BY <1>5, <3>2 DEF Along
        <3>5. QED
            BY <1>1, <2>2, <3>2, <3>3, <3>4
    <2>3. QED
        <3> HIDE DEF T
        <3>1. QED
            BY <2>1, <2>2, SetInduction
<1>7. h[Len(s)] = q
    BY <1>1, <1>3, <1>6
<1>8. Nat \subseteq U
    <2>1. 0 \in U
        BY <1>1, <1>4, <1>7 DEF Along
    <2>2. ASSUME NEW k \in Nat, k \in U
          PROVE  k + 1 \in U
        <3>1. SUFFICES ASSUME k + 1 <= Len(t)
                       PROVE  h[Len(s) + (k + 1)] = g[k + 1]
            OBVIOUS
        <3>2. /\ k + 1 \in 1 .. Len(t) /\ Len(s) + (k + 1) \in 1 .. Len(s) + Len(t)
              /\ (k + 1) - 1 = k /\ k <= Len(t)
              /\ (Len(s) + (k + 1)) - 1 = Len(s) + k
            BY <1>1, <3>1
        <3>3. g[k + 1] = ProcessLine(g[k], t[k + 1])
            BY <1>4, <3>2 DEF Along
        <3>4. h[Len(s) + (k + 1)] = ProcessLine(h[Len(s) + k], (s \o t)[Len(s) + (k + 1)])
            BY <1>5, <3>2 DEF Along
        <3>5. QED
            BY <1>1, <2>2, <3>2, <3>3, <3>4
    <2>3. QED
        <3> HIDE DEF U
        <3>1. QED
            BY <2>1, <2>2, SetInduction
<1>9. h[Len(s) + Len(t)] = g[Len(t)]
    BY <1>1, <1>8
<1>10. QED
    BY <1>4, <1>5, <1>9 DEF q

-----------------------------------------------------------------------------
(* The lines of the lanes, one after the other                               *)

(* Flattening appends the sequences one after the other. *)
LEMMA FlattenIs ==
    ASSUME NEW S, NEW m \in Nat, NEW ss \in [1 .. m -> Seq(S)]
    PROVE  \E f : /\ f[0] = <<>> /\ \A i \in 1 .. m : f[i] = f[i - 1] \o ss[i]
                 /\ FlattenSeq(ss) = f[m]
<1> DEFINE Upto(k, f) == f = [i \in 1 .. k |-> IF i = 1 THEN ss[i] ELSE f[i - 1] \o ss[i]]
           T == {k \in Nat : \E f : Upto(k, f)}
<1>1. 0 \in T
    <2> DEFINE f == [i \in 1 .. 0 |-> 0]
    <2>1. Upto(0, f)
        OBVIOUS
    <2>2. QED
        BY <2>1
<1>2. ASSUME NEW k \in Nat, k \in T
      PROVE  k + 1 \in T
    <2>1. PICK f : Upto(k, f)
        BY <1>2
    <2>2. \A i \in 1 .. k : f[i] = IF i = 1 THEN ss[i] ELSE f[i - 1] \o ss[i]
        BY <2>1
    <2> DEFINE g == [i \in 1 .. k + 1 |->
                        IF i = 1 THEN ss[i] ELSE f[i - 1] \o ss[i]]
    <2>3. ASSUME NEW i \in 1 .. k + 1
          PROVE  g[i] = IF i = 1 THEN ss[i] ELSE g[i - 1] \o ss[i]
        <3>1. CASE i = 1
            BY <3>1
        <3>2. CASE i # 1
            <4>1. i - 1 \in 1 .. k /\ i - 1 \in 1 .. k + 1
                BY <3>2
            <4>2. g[i - 1] = f[i - 1]
                BY <2>2, <4>1
            <4>3. g[i] = f[i - 1] \o ss[i]
                BY <3>2
            <4>4. QED
                BY <3>2, <4>2, <4>3
        <3>3. QED
            BY <3>1, <3>2
    <2>4. Upto(k + 1, g)
        <3>1. g = [i \in 1 .. k + 1 |-> g[i]]
            OBVIOUS
        <3> HIDE DEF g
        <3>2. QED
            BY <2>3, <3>1
    <2> HIDE DEF g
    <2>5. \E e : Upto(k + 1, e)
        BY <2>4
    <2>6. k + 1 \in Nat
        OBVIOUS
    <2> HIDE DEF Upto
    <2>7. QED
        BY <2>5, <2>6
<1>3. Nat \subseteq T
    <2> HIDE DEF T
    <2>1. QED
        BY <1>1, <1>2, SetInduction
<1>4. Len(ss) = m
    BY LenProperties
<1>5. CASE m = 0
    <2>1. ss = <<>>
        BY <1>5
    <2>2. FlattenSeq(ss) = <<>>
        BY <1>4, <1>5, <2>1 DEF FlattenSeq
    <2> DEFINE only == [i \in 0 .. 0 |-> <<>>]
    <2>3. only[0] = <<>> /\ \A i \in 1 .. m : FALSE
        BY <1>5
    <2> HIDE DEF only
    <2>4. QED
        BY <1>5, <2>2, <2>3
<1>6. CASE m # 0
    <2> DEFINE chosen == CHOOSE f : f = [i \in 1 .. m |-> IF i = 1 THEN ss[i] ELSE f[i - 1] \o ss[i]]
    <2>1. FlattenSeq(ss) = chosen[m]
        BY <1>4, <1>6 DEF FlattenSeq
    <2>2. chosen = [i \in 1 .. m |-> IF i = 1 THEN ss[i] ELSE chosen[i - 1] \o ss[i]]
        <3>1. PICK f : Upto(m, f)
            BY <1>3
        <3>2. QED
            BY <3>1
    <2> HIDE DEF chosen
    <2> DEFINE g == [i \in 0 .. m |-> IF i = 0 THEN <<>> ELSE chosen[i]]
    <2>3. g[0] = <<>> /\ g[m] = chosen[m]
        BY <1>6
    <2>4. ASSUME NEW i \in 1 .. m
          PROVE  g[i] = g[i - 1] \o ss[i]
        <3>1. i \in 0 .. m /\ i - 1 \in 0 .. m /\ i # 0 /\ ss[i] \in Seq(S)
            OBVIOUS
        <3>2. chosen[i] = IF i = 1 THEN ss[i] ELSE chosen[i - 1] \o ss[i]
            BY <2>2
        <3>3. CASE i = 1
            <4>1. g[i - 1] = <<>> /\ g[i] = ss[i]
                BY <3>1, <3>2, <3>3
            <4> HIDE DEF g
            <4>2. <<>> \o ss[i] = ss[i]
                BY <3>1
            <4>3. QED
                BY <4>1, <4>2
        <3>4. CASE i # 1
            <4>1. g[i - 1] = chosen[i - 1] /\ g[i] = chosen[i]
                BY <3>1, <3>4
            <4> HIDE DEF g
            <4>2. QED
                BY <3>2, <3>4, <4>1
        <3>5. QED
            BY <3>3, <3>4
    <2> HIDE DEF g
    <2>5. QED
        BY <2>1, <2>3, <2>4
<1>7. QED
    BY <1>5, <1>6

(* A flattened sequence has the lines of every part. *)
LEMMA FlattenFacts ==
    ASSUME NEW S, NEW m \in Nat, NEW ss \in [1 .. m -> Seq(S)]
    PROVE  /\ FlattenSeq(ss) \in Seq(S)
           /\ \A i \in 1 .. m : Range(ss[i]) \subseteq Range(FlattenSeq(ss))
<1>1. PICK f : /\ f[0] = <<>> /\ \A i \in 1 .. m : f[i] = f[i - 1] \o ss[i]
               /\ FlattenSeq(ss) = f[m]
    BY FlattenIs
<1> DEFINE T == {k \in Nat : k <= m => /\ f[k] \in Seq(S)
                                      /\ \A i \in 1 .. k : Range(ss[i]) \subseteq Range(f[k])}
<1>2. 0 \in T
    <2>1. <<>> \in Seq(S) /\ \A i \in 1 .. 0 : FALSE
        OBVIOUS
    <2>2. f[0] \in Seq(S)
        BY <1>1, <2>1
    <2>3. QED
        BY <2>1, <2>2
<1>3. ASSUME NEW k \in Nat, k \in T
      PROVE  k + 1 \in T
    <2>1. SUFFICES ASSUME k + 1 <= m
                   PROVE  /\ f[k + 1] \in Seq(S)
                          /\ \A i \in 1 .. k + 1 : Range(ss[i]) \subseteq Range(f[k + 1])
        OBVIOUS
    <2>2. k + 1 \in 1 .. m /\ (k + 1) - 1 = k /\ k <= m
        BY <2>1
    <2>3. f[k + 1] = f[k] \o ss[k + 1] /\ ss[k + 1] \in Seq(S)
        BY <1>1, <2>2
    <2>4. f[k] \in Seq(S) /\ \A i \in 1 .. k : Range(ss[i]) \subseteq Range(f[k])
        BY <1>3, <2>2
    <2> DEFINE u == f[k]
               v == ss[k + 1]
    <2>5. /\ u \in Seq(S) /\ v \in Seq(S) /\ f[k + 1] = u \o v
        BY <2>3, <2>4
    <2> HIDE DEF u, v
    <2>6. /\ u \o v \in Seq(S) /\ Len(u \o v) = Len(u) + Len(v)
          /\ \A i \in 1 .. Len(u) : (u \o v)[i] = u[i]
          /\ \A i \in 1 .. Len(v) : (u \o v)[Len(u) + i] = v[i]
        BY <2>5, ConcatElements
    <2>7. /\ DOMAIN u = 1 .. Len(u) /\ DOMAIN v = 1 .. Len(v) /\ Len(u) \in Nat /\ Len(v) \in Nat
          /\ DOMAIN (u \o v) = 1 .. Len(u) + Len(v)
        BY <2>5, <2>6
    <2>8. Range(u) \subseteq Range(u \o v)
        <3>1. SUFFICES ASSUME NEW i \in 1 .. Len(u)
                       PROVE  u[i] \in Range(u \o v)
            BY <2>7 DEF Range
        <3>2. i \in 1 .. Len(u) + Len(v) /\ (u \o v)[i] = u[i]
            BY <2>6, <2>7
        <3>3. QED
            BY <2>7, <3>2 DEF Range
    <2>9. Range(v) \subseteq Range(u \o v)
        <3>1. SUFFICES ASSUME NEW i \in 1 .. Len(v)
                       PROVE  v[i] \in Range(u \o v)
            BY <2>7 DEF Range
        <3>2. Len(u) + i \in 1 .. Len(u) + Len(v) /\ (u \o v)[Len(u) + i] = v[i]
            BY <2>6, <2>7
        <3>3. QED
            BY <2>7, <3>2 DEF Range
    <2>10. ASSUME NEW i \in 1 .. k + 1
           PROVE  Range(ss[i]) \subseteq Range(f[k + 1])
        <3>1. CASE i \in 1 .. k
            BY <2>4, <2>5, <2>8, <3>1 DEF u
        <3>2. CASE i = k + 1
            BY <2>5, <2>9, <3>2 DEF v
        <3>3. QED
            BY <3>1, <3>2
    <2>11. QED
        BY <2>5, <2>6, <2>10
<1>4. m \in T
    <2> HIDE DEF T
    <2>1. Nat \subseteq T
        BY <1>2, <1>3, SetInduction
    <2>2. QED
        BY <2>1
<1>5. QED
    BY <1>1, <1>4

(* Flattening singletons gives the sequence of their elements. *)
LEMMA FlattenSingles ==
    ASSUME NEW S, NEW m \in Nat, NEW x \in [1 .. m -> S]
    PROVE  FlattenSeq([i \in 1 .. m |-> <<x[i]>>]) = x
<1> DEFINE ss == [i \in 1 .. m |-> <<x[i]>>]
<1>1. ss \in [1 .. m -> Seq(S)] /\ \A i \in 1 .. m : ss[i] = <<x[i]>>
    OBVIOUS
<1> HIDE DEF ss
<1>2. PICK f : /\ f[0] = <<>> /\ \A i \in 1 .. m : f[i] = f[i - 1] \o ss[i]
               /\ FlattenSeq(ss) = f[m]
    BY <1>1, FlattenIs
<1> DEFINE T == {k \in Nat : k <= m => f[k] = [i \in 1 .. k |-> x[i]]}
<1>3. 0 \in T
    <2>1. [i \in 1 .. 0 |-> x[i]] = <<>>
        OBVIOUS
    <2>2. QED
        BY <1>2, <2>1
<1>4. ASSUME NEW k \in Nat, k \in T
      PROVE  k + 1 \in T
    <2>1. SUFFICES ASSUME k + 1 <= m
                   PROVE  f[k + 1] = [i \in 1 .. k + 1 |-> x[i]]
        OBVIOUS
    <2>2. k + 1 \in 1 .. m /\ (k + 1) - 1 = k /\ k <= m
        BY <2>1
    <2>3. f[k + 1] = f[k] \o <<x[k + 1]>> /\ f[k] = [i \in 1 .. k |-> x[i]]
        BY <1>1, <1>2, <1>4, <2>2
    <2>4. \A i \in 1 .. k + 1 : x[i] \in S
        BY <2>2
    <2>5. f[k] \in Seq(S) /\ Len(f[k]) = k /\ <<x[k + 1]>> \in Seq(S)
        BY <2>3, <2>4
    <2>6. f[k] \o <<x[k + 1]>> = [i \in 1 .. k + 1 |-> x[i]]
        BY <2>3, <2>4, <2>5
    <2>7. QED
        BY <2>3, <2>6
<1>5. m \in T
    <2> HIDE DEF T
    <2>1. Nat \subseteq T
        BY <1>3, <1>4, SetInduction
    <2>2. QED
        BY <2>1
<1>6. QED
    BY <1>2, <1>5 DEF ss

-----------------------------------------------------------------------------
(* The parser and the ops of the core                                        *)

(* The fields of the parser, and the two kinds of lines *)
LogFields == {"ops", "flushed", "maxRetired", "committed", "retireEvents", "flushEvents",
              "cancelled", "warned", "failed"}

(* The parser has the op and has not seen its end ... *)
Known(p, n) == Gid(n) \in DOMAIN p.ops /\ p.ops[Gid(n)].stage # KS_CM

(* ... and has seen it behind the next pc stage. *)
Shown(p, n) == Known(p, n) /\ p.ops[Gid(n)].stage # KS_NP

(* The ops whose flush the parser has told, or that it has dropped *)
Told(p) == p.flushEvents \cup p.cancelled

(* A parser that has seen the ops up to last retire, and of the ops in     *)
(* gone perhaps the flush                                                  *)
Sound(p, last, gone) ==
    /\ DOMAIN p = LogFields
    /\ p.failed = FALSE /\ p.warned = FALSE
    /\ p.maxRetired = Gid(last)
    /\ p.flushed \subseteq p.flushEvents
    /\ Told(p) \subseteq Gids(gone)

(* What the lines of a cycle other than those of commits leave as it is *)
Further(p, q, gone) ==
    /\ q.committed = p.committed /\ q.retireEvents = p.retireEvents
    /\ Told(p) \subseteq Told(q)
    /\ \A n \in 1 .. serial - 1 : Shown(p, n) => Shown(q, n)
    /\ \A n \in 1 .. MaxOp : n \notin gone /\ Known(p, n) => Known(q, n)

(* Of the ops the parser knows, only n may have ended. *)
OthersKnown(p, q, n) == \A m \in 1 .. MaxOp : m # n /\ Known(p, m) => Known(q, m)

StageLine(n, stage, stall, clear) ==
    [cmd |-> "S", stage |-> stage, stall |-> stall, clear |-> clear, sid |-> Sid(n), mid |-> 0]

LabelLine(n) == [cmd |-> "L", sid |-> Sid(n), mid |-> 0]

(* The numbers of the ops are in program order. *)
LEMMA GidOrder ==
    ASSUME script \in Scripts, NEW m \in Nat, NEW n \in Nat
    PROVE  /\ Gid(m) \in Nat /\ (Gid(m) < Gid(n) <=> m < n) /\ (Gid(m) = Gid(n) <=> m = n)
<1> DEFINE K == MAX_MICRO_OPS_PER_INSN
           f == script.first
<1>1. K \in Nat /\ K > 0 /\ f \in Nat
    BY BoundsOfLog, CoreAssumption
<1>2. Gid(m) = K * (f + m) /\ Gid(n) = K * (f + n)
    BY DEF Gid
<1> HIDE DEF K, f
<1>3. K * (f + m) \in Nat /\ K * (f + n) \in Nat
    BY <1>1
<1>4. /\ K * (f + m) < K * (f + n) <=> f + m < f + n
      /\ K * (f + n) < K * (f + m) <=> f + n < f + m
    BY <1>1, ProductOrder
<1>5. QED
    BY <1>1, <1>2, <1>3, <1>4

(* An op is in a set of ops if its number is among theirs. *)
LEMMA GidsHold ==
    ASSUME script \in Scripts, NEW n \in Nat, NEW S \in SUBSET Nat
    PROVE  Gid(n) \in Gids(S) <=> n \in S
<1>1. Gids(S) = {Gid(m) : m \in S}
    BY DEF Gids, Gid
<1>2. \A m \in S : Gid(m) = Gid(n) => m = n
    BY GidOrder
<1>3. QED
    BY <1>1, <1>2

(* Ops within reach of the last retirement have serial ids of their own. *)
LEMMA SidsDiffer ==
    ASSUME script \in Scripts, NEW last \in Nat, NEW m \in Nat, NEW n \in Nat,
           InReach(last, m), InReach(last, n), Sid(m) = Sid(n)
    PROVE  m = n
<1> DEFINE parser == [maxRetired |-> Gid(last)]
<1>1. parser.maxRetired = Gid(last)
    OBVIOUS
<1> HIDE DEF parser
<1>2. CreateGID(parser, Sid(m), 0) = Gid(m) /\ CreateGID(parser, Sid(n), 0) = Gid(n)
    BY <1>1, GidIsRebuilt
<1>3. QED
    BY <1>2, GidOrder

(* Two parsers that hold the same *)
SameLog(r, p) ==
    /\ DOMAIN r = LogFields /\ r.ops = p.ops /\ r.flushed = p.flushed
    /\ r.maxRetired = p.maxRetired /\ r.committed = p.committed
    /\ r.retireEvents = p.retireEvents /\ r.flushEvents = p.flushEvents
    /\ r.cancelled = p.cancelled /\ r.warned = p.warned /\ r.failed = p.failed

(* What the parser makes of a line of an op that it may still see *)
Processed(r, gid, op, flush) ==
    CASE flush -> FlushOp(r, gid, op)
      [] /\ ~flush /\ op.stage = KS_CM
         /\ gid \in DOMAIN r.ops /\ r.ops[gid].stage # op.stage -> RetireOp(r, gid)
      [] OTHER -> [r EXCEPT !.ops = With(@, gid, op)]

(* A line of an op that is younger than all that have retired *)
LEMMA LineRead ==
    ASSUME script \in Scripts, NEW last \in 0 .. MaxOp, NEW gone \in SUBSET (1 .. MaxOp), NEW p,
           Sound(p, last, gone),
           NEW n \in 1 .. MaxOp, InReach(last, n), Gid(n) \notin p.flushed,
           NEW stage, NEW stall \in BOOLEAN, NEW clear \in BOOLEAN
    PROVE  \E r : /\ SameLog(r, p)
                 /\ ProcessLine(p, StageLine(n, stage, stall, clear)) =
                      Processed(r, Gid(n), [stage |-> stage, stall |-> stall], clear /\ ~stall)
<1> DEFINE line == StageLine(n, stage, stall, clear)
           gid  == Gid(n)
           op   == [stage |-> stage, stall |-> stall]
           r    == [p EXCEPT !.warned = @ \/ gid \in p.flushed \/ gid < p.maxRetired]
           moved == gid \in DOMAIN p.ops /\ p.ops[gid].stage # stage
<1>1. MaxOp \in Nat /\ n \in Nat /\ last \in Nat
    BY BoundsOfCore
<1>2. CreateGID(p, line.sid, line.mid) = gid
    <2>1. p.maxRetired = Gid(last)
        BY DEF Sound
    <2>2. CreateGID(p, Sid(n), 0) = gid
        BY <1>1, <2>1, GidIsRebuilt
    <2>3. QED
        BY <2>2 DEF StageLine
<1>3. ~(gid < p.maxRetired)
    <2>1. Gid(last) < gid /\ Gid(last) \in Nat /\ gid \in Nat
        BY <1>1, GidOrder DEF InReach
    <2> HIDE DEF gid
    <2>2. QED
        BY <2>1 DEF Sound
<1>4. line.cmd = "S" /\ line.stage = stage /\ line.stall = stall /\ line.clear = clear
    BY DEF StageLine
<1>5. SameLog(r, p)
    <2> HIDE DEF gid
    <2>1. QED
        BY <1>3 DEF SameLog, Sound, LogFields, gid
<1> HIDE DEF gid, op
<1>6. OnRSD_Stage(p, line) =
         CASE clear /\ ~stall /\ gid \in p.flushed -> p
           [] clear /\ ~stall /\ gid \notin p.flushed -> FlushOp(r, gid, op)
           [] ~(clear /\ ~stall) /\ moved /\ stage = KS_CM -> RetireOp(r, gid)
           [] OTHER -> [r EXCEPT !.ops = With(@, gid, op)]
    BY <1>2, <1>4 DEF OnRSD_Stage, op
<1> HIDE DEF line, r
<1>7. ProcessLine(p, line) =
         CASE clear /\ ~stall -> FlushOp(r, gid, op)
           [] ~(clear /\ ~stall) /\ stage = KS_CM /\ moved -> RetireOp(r, gid)
           [] OTHER -> [r EXCEPT !.ops = With(@, gid, op)]
    <2>1. ProcessLine(p, line) = OnRSD_Stage(p, line)
        BY <1>4 DEF ProcessLine
    <2>2. gid \notin p.flushed
        BY DEF gid
    <2> HIDE DEF moved
    <2>3. CASE clear /\ ~stall
        BY <1>6, <2>1, <2>2, <2>3
    <2>4. CASE ~(clear /\ ~stall) /\ stage = KS_CM /\ moved
        BY <1>6, <2>1, <2>2, <2>4
    <2>5. CASE ~(clear /\ ~stall) /\ ~(stage = KS_CM /\ moved)
        BY <1>6, <2>1, <2>2, <2>5
    <2>6. QED
        BY <2>3, <2>4, <2>5
<1>8. op.stage = stage /\ r.ops = p.ops
    BY <1>5 DEF op, SameLog
<1>9. ProcessLine(p, line) = Processed(r, gid, op, clear /\ ~stall)
    BY <1>7, <1>8 DEF Processed
<1>10. QED
    BY <1>5, <1>9 DEF line, gid, op

(* The line moves the op and no other. *)
LEMMA OpMoved ==
    ASSUME script \in Scripts, NEW last \in 0 .. MaxOp, NEW gone \in SUBSET (1 .. MaxOp),
           NEW p, NEW q, serial \in 1 .. MaxOp + 1,
           Sound(p, last, gone),
           NEW n \in 1 .. MaxOp, NEW op, op.stage # KS_CM, op.stage = KS_NP => n >= serial,
           DOMAIN q = LogFields, q.failed = p.failed, q.warned = p.warned,
           q.maxRetired = p.maxRetired, q.committed = p.committed,
           q.retireEvents = p.retireEvents, q.flushed \subseteq q.flushEvents,
           q.ops = With(p.ops, Gid(n), op),
           Told(p) \subseteq Told(q), Told(q) \subseteq Gids(gone)
    PROVE  /\ Sound(q, last, gone) /\ Further(p, q, gone) /\ Known(q, n)
           /\ op.stage # KS_NP => Shown(q, n)
           /\ \A m \in 1 .. MaxOp : Known(p, m) => Known(q, m)
<1> DEFINE gid == Gid(n)
<1>1. MaxOp \in Nat /\ n \in Nat /\ serial \in Nat
    BY BoundsOfCore
<1>2. /\ DOMAIN q.ops = DOMAIN p.ops \cup {gid} /\ q.ops[gid] = op
      /\ \A g \in DOMAIN p.ops : g # gid => q.ops[g] = p.ops[g]
    BY DEF With
<1>3. Sound(q, last, gone)
    BY DEF Sound
<1>4. Known(q, n) /\ (op.stage # KS_NP => Shown(q, n))
    BY <1>2 DEF Known, Shown
<1> HIDE DEF gid
<1>5. ASSUME NEW m \in Nat, Known(p, m)
      PROVE  Known(q, m) /\ (m # n => (Shown(p, m) => Shown(q, m)))
    <2>1. CASE m = n
        BY <1>4, <2>1
    <2>2. CASE m # n
        <3>1. Gid(m) # gid
            BY <1>1, <2>2, GidOrder DEF gid
        <3>2. QED
            BY <1>2, <1>5, <3>1 DEF Known, Shown
    <2>3. QED
        BY <2>1, <2>2
<1>6. ASSUME NEW m \in 1 .. serial - 1, Shown(p, m)
      PROVE  Shown(q, m)
    <2>1. m \in Nat /\ Known(p, m)
        BY <1>1, <1>6 DEF Shown
    <2>2. m = n => op.stage # KS_NP
        BY <1>1
    <2>3. QED
        BY <1>4, <1>5, <1>6, <2>1, <2>2
<1>7. \A m \in 1 .. MaxOp : Known(p, m) => Known(q, m)
    BY <1>1, <1>5
<1>8. Further(p, q, gone)
    BY <1>6, <1>7 DEF Further
<1>9. QED
    BY <1>3, <1>4, <1>7, <1>8

(* A line that is no flush *)
LEMMA PlainLine ==
    ASSUME script \in Scripts, NEW last \in 0 .. MaxOp, NEW gone \in SUBSET (1 .. MaxOp), NEW p,
           Sound(p, last, gone), serial \in 1 .. MaxOp + 1,
           NEW n \in 1 .. MaxOp, InReach(last, n), n \notin gone,
           NEW stage \in 0 .. 13, NEW stall \in BOOLEAN, NEW clear \in BOOLEAN,
           ~(clear /\ ~stall), stage = KS_NP => n >= serial
    PROVE  LET q == ProcessLine(p, StageLine(n, stage, stall, clear))
           IN  /\ Sound(q, last, gone) /\ Further(p, q, gone) /\ Known(q, n)
               /\ stage # KS_NP => Shown(q, n)
               /\ OthersKnown(p, q, n)
<1> DEFINE q  == ProcessLine(p, StageLine(n, stage, stall, clear))
           op == [stage |-> stage, stall |-> stall]
<1>1. MaxOp \in Nat /\ n \in Nat /\ gone \in SUBSET Nat
    BY BoundsOfCore
<1>2. Gid(n) \notin p.flushed
    <2>1. Gid(n) \notin Gids(gone)
        BY <1>1, GidsHold
    <2>2. QED
        BY <2>1 DEF Sound, Told
<1>3. stage # KS_CM /\ op.stage = stage
    BY DEF KS_CM
<1>4. PICK r : SameLog(r, p) /\ q = [r EXCEPT !.ops = With(@, Gid(n), op)]
    <2> HIDE DEF q, op
    <2>1. PICK r : /\ SameLog(r, p)
                   /\ ProcessLine(p, StageLine(n, stage, stall, clear)) =
                        Processed(r, Gid(n), [stage |-> stage, stall |-> stall], clear /\ ~stall)
        BY <1>2, LineRead
    <2>2. q = Processed(r, Gid(n), op, clear /\ ~stall)
        BY <2>1 DEF q, op
    <2>3. QED
        BY <1>3, <2>1, <2>2 DEF Processed
<1> HIDE DEF q, op
<1>5. /\ DOMAIN q = LogFields /\ q.ops = With(p.ops, Gid(n), op)
      /\ q.failed = p.failed /\ q.warned = p.warned /\ q.maxRetired = p.maxRetired
      /\ q.flushed = p.flushed /\ q.flushEvents = p.flushEvents /\ q.cancelled = p.cancelled
      /\ q.committed = p.committed /\ q.retireEvents = p.retireEvents
    BY <1>4 DEF SameLog, LogFields
<1>6. q.flushed \subseteq q.flushEvents /\ Told(p) \subseteq Told(q) /\ Told(q) \subseteq Gids(gone)
    BY <1>5 DEF Sound, Told
<1>7. /\ Sound(q, last, gone) /\ Further(p, q, gone) /\ Known(q, n)
      /\ op.stage # KS_NP => Shown(q, n)
      /\ \A m \in 1 .. MaxOp : Known(p, m) => Known(q, m)
    BY <1>3, <1>5, <1>6, OpMoved
<1>8. QED
    BY <1>3, <1>7 DEF q, OthersKnown

(* The line of a flush: an op that is only known at its next pc is dropped. *)
LEMMA FlushLine ==
    ASSUME script \in Scripts, NEW last \in 0 .. MaxOp, NEW gone \in SUBSET (1 .. MaxOp), NEW p,
           Sound(p, last, gone), serial \in 1 .. MaxOp + 1,
           NEW n \in 1 .. MaxOp, InReach(last, n), n \in gone, Known(p, n),
           NEW stage \in 1 .. 13
    PROVE  LET q == ProcessLine(p, StageLine(n, stage, FALSE, TRUE))
           IN  /\ Sound(q, last, gone) /\ Further(p, q, gone) /\ Gid(n) \in Told(q)
               /\ OthersKnown(p, q, n)
<1> DEFINE q  == ProcessLine(p, StageLine(n, stage, FALSE, TRUE))
           op == [stage |-> stage, stall |-> FALSE]
<1>1. MaxOp \in Nat /\ n \in Nat /\ gone \in SUBSET Nat
    BY BoundsOfCore
<1>2. Gid(n) \in Gids(gone)
    BY <1>1, GidsHold
<1>3. op.stage = stage /\ stage # KS_CM /\ stage # KS_NP
    BY DEF KS_CM, KS_NP
<1>4. CASE Gid(n) \in p.flushed
    <2>1. q = p
        <3> DEFINE line == StageLine(n, stage, FALSE, TRUE)
        <3>1. CreateGID(p, line.sid, line.mid) = Gid(n)
            <4>1. last \in Nat /\ p.maxRetired = Gid(last)
                BY <1>1 DEF Sound
            <4>2. CreateGID(p, Sid(n), 0) = Gid(n)
                BY <1>1, <4>1, GidIsRebuilt
            <4>3. QED
                BY <4>2 DEF StageLine
        <3>2. line.cmd = "S" /\ line.stage = stage /\ line.stall = FALSE /\ line.clear = TRUE
            BY DEF StageLine
        <3> HIDE DEF line
        <3>3. OnRSD_Stage(p, line) = p
            BY <1>4, <3>1, <3>2 DEF OnRSD_Stage
        <3>4. QED
            BY <3>2, <3>3 DEF ProcessLine, line
    <2>2. Gid(n) \in Told(p)
        BY <1>4 DEF Sound, Told
    <2>3. Further(p, p, gone)
        BY DEF Further
    <2> HIDE DEF q
    <2>4. QED
        BY <2>1, <2>2, <2>3 DEF q, OthersKnown
<1>5. CASE Gid(n) \notin p.flushed
    <2>1. PICK r : SameLog(r, p) /\ q = FlushOp(r, Gid(n), op)
        <3> HIDE DEF q, op
        <3>1. ASSUME NEW stall \in BOOLEAN, NEW clear \in BOOLEAN
              PROVE  \E r : /\ SameLog(r, p)
                            /\ ProcessLine(p, StageLine(n, stage, stall, clear)) =
                                 Processed(r, Gid(n), [stage |-> stage, stall |-> stall],
                                           clear /\ ~stall)
            BY <1>5, LineRead
        <3>2. PICK r : /\ SameLog(r, p)
                       /\ ProcessLine(p, StageLine(n, stage, FALSE, TRUE)) =
                            Processed(r, Gid(n), [stage |-> stage, stall |-> FALSE], TRUE)
            BY <3>1
        <3>3. q = Processed(r, Gid(n), op, TRUE)
            BY <3>2 DEF q, op
        <3>4. QED
            BY <3>2, <3>3 DEF Processed
    <2> HIDE DEF q, op
    <2>2. Gid(n) \in DOMAIN r.ops
        BY <2>1 DEF Known, SameLog
    <2>3. CASE p.ops[Gid(n)].stage = KS_NP
        <3>1. q = [r EXCEPT !.ops = Without(@, {Gid(n)}), !.cancelled = @ \cup {Gid(n)}]
            BY <2>1, <2>2, <2>3 DEF FlushOp, SameLog
        <3>2. /\ DOMAIN q = LogFields /\ q.ops = Without(p.ops, {Gid(n)})
              /\ q.failed = p.failed /\ q.warned = p.warned /\ q.maxRetired = p.maxRetired
              /\ q.flushed = p.flushed /\ q.flushEvents = p.flushEvents
              /\ q.cancelled = p.cancelled \cup {Gid(n)}
              /\ q.committed = p.committed /\ q.retireEvents = p.retireEvents
            BY <2>1, <3>1 DEF SameLog, LogFields
        <3>3. /\ DOMAIN q.ops = DOMAIN p.ops \ {Gid(n)}
              /\ \A g \in DOMAIN q.ops : q.ops[g] = p.ops[g]
            BY <3>2 DEF Without
        <3>4. Told(q) = Told(p) \cup {Gid(n)}
            BY <3>2 DEF Told
        <3>5. Sound(q, last, gone)
            BY <1>2, <3>2, <3>4 DEF Sound
        <3>6. ASSUME NEW m \in Nat, m # n, Known(p, m)
              PROVE  Known(q, m) /\ (Shown(p, m) => Shown(q, m))
            <4>1. Gid(m) # Gid(n)
                BY <1>1, <3>6, GidOrder
            <4>2. QED
                BY <3>3, <3>6, <4>1 DEF Known, Shown
        <3>7. ASSUME NEW m \in 1 .. serial - 1, Shown(p, m)
              PROVE  Shown(q, m)
            <4>1. m # n /\ Known(p, m) /\ m \in Nat
                BY <1>1, <2>3, <3>7 DEF Shown
            <4>2. QED
                BY <3>6, <3>7, <4>1
        <3>8. \A m \in 1 .. MaxOp : m # n /\ Known(p, m) => Known(q, m)
            BY <1>1, <3>6
        <3>9. Further(p, q, gone)
            BY <3>2, <3>4, <3>7, <3>8 DEF Further
        <3>10. QED
            BY <3>4, <3>5, <3>8, <3>9 DEF q, OthersKnown
    <2>4. CASE p.ops[Gid(n)].stage # KS_NP
        <3>1. q = [r EXCEPT !.flushed = @ \cup {Gid(n)},
                            !.flushEvents = @ \cup {Gid(n)},
                            !.ops = With(@, Gid(n), op)]
            BY <2>1, <2>2, <2>4 DEF FlushOp, SameLog
        <3>2. /\ DOMAIN q = LogFields /\ q.ops = With(p.ops, Gid(n), op)
              /\ q.failed = p.failed /\ q.warned = p.warned /\ q.maxRetired = p.maxRetired
              /\ q.flushed = p.flushed \cup {Gid(n)}
              /\ q.flushEvents = p.flushEvents \cup {Gid(n)}
              /\ q.cancelled = p.cancelled
              /\ q.committed = p.committed /\ q.retireEvents = p.retireEvents
            BY <2>1, <3>1 DEF SameLog, LogFields
        <3>3. Told(q) = Told(p) \cup {Gid(n)}
            BY <3>2 DEF Told
        <3>4. q.flushed \subseteq q.flushEvents /\ Told(p) \subseteq Told(q) /\ Told(q) \subseteq Gids(gone)
            BY <1>2, <3>2, <3>3 DEF Sound
        <3>5. op.stage # KS_CM /\ (op.stage = KS_NP => n >= serial)
            BY <1>3 DEF op
        <3>6. /\ Sound(q, last, gone) /\ Further(p, q, gone)
              /\ \A m \in 1 .. MaxOp : Known(p, m) => Known(q, m)
            BY <3>2, <3>4, <3>5, OpMoved
        <3>7. QED
            BY <3>3, <3>6 DEF q, OthersKnown
    <2>5. QED
        BY <2>3, <2>4
<1>6. QED
    BY <1>4, <1>5

-----------------------------------------------------------------------------
(* The lines of a cycle                                                      *)

(* Every line a cycle can write *)
AllLines ==
    {StageLine(n, stage, stall, clear) :
        n \in 1 .. MaxOp, stage \in 0 .. 14, stall \in BOOLEAN, clear \in BOOLEAN}
    \cup {LabelLine(n) : n \in 1 .. MaxOp}

(* Lines that the parser p takes without a complaint, whatever good lines   *)
(* come between: of ops that it knows, or that begin, and flushes of ops   *)
(* in gone                                                                 *)
LabelOfShown(line, p, last) ==
    \E n \in 1 .. serial - 1 : InReach(last, n) /\ Shown(p, n) /\ line = LabelLine(n)

(* A line of the log is good for a parser when it labels an op that it     *)
(* shows, flushes a dead op that it shows, or reports the stage of an op   *)
(* that is alive.                                                          *)
FlushOfShown(line, p, last, gone) ==
    \E n \in 1 .. serial - 1, stage \in 1 .. 13 :
        n \in gone /\ InReach(last, n) /\ Shown(p, n) /\ line = StageLine(n, stage, FALSE, TRUE)

StageOfLive(line, last, gone) ==
    \E n \in (1 .. MaxOp) \ gone, stage \in 0 .. 13, stall \in BOOLEAN, clear \in BOOLEAN :
        /\ InReach(last, n) /\ ~(clear /\ ~stall) /\ (stage = KS_NP => n >= serial)
        /\ line = StageLine(n, stage, stall, clear)

GoodLines(p, last, gone) ==
    {line \in AllLines : \/ LabelOfShown(line, p, last)
                         \/ FlushOfShown(line, p, last, gone)
                         \/ StageOfLive(line, last, gone)}

(* What the parser has taken from a line *)
Taken(q, line, last, gone) ==
    \A n \in 1 .. MaxOp : InReach(last, n) =>
        /\ \A stage \in 1 .. 13 : line = StageLine(n, stage, FALSE, TRUE) => Gid(n) \in Told(q)
        /\ n \notin gone /\ line = StageLine(n, KS_NP, FALSE, FALSE) => Known(q, n)

(* Further is reflexive and transitive. *)
LEMMA FurtherOn ==
    ASSUME NEW p, NEW gone
    PROVE  /\ Further(p, p, gone)
           /\ \A q, r : Further(p, q, gone) /\ Further(q, r, gone) => Further(p, r, gone)
<1>1. Further(p, p, gone)
    BY DEF Further
<1>2. ASSUME NEW q, NEW r, Further(p, q, gone), Further(q, r, gone)
      PROVE  Further(p, r, gone)
    BY <1>2 DEF Further
<1>3. QED
    BY <1>1, <1>2

(* A line that is good stays good as the parser goes on. *)
LEMMA GoodStays ==
    ASSUME NEW p, NEW q, NEW last, NEW gone, Further(p, q, gone)
    PROVE  GoodLines(p, last, gone) \subseteq GoodLines(q, last, gone)
<1>1. SUFFICES ASSUME NEW line \in GoodLines(p, last, gone)
               PROVE  line \in GoodLines(q, last, gone)
    OBVIOUS
<1>2. line \in AllLines
    BY DEF GoodLines
<1>3. CASE LabelOfShown(line, p, last)
    BY <1>2, <1>3 DEF LabelOfShown, Further, GoodLines
<1>4. CASE FlushOfShown(line, p, last, gone)
    BY <1>2, <1>4 DEF FlushOfShown, Further, GoodLines
<1>5. CASE StageOfLive(line, last, gone)
    BY <1>2, <1>5 DEF GoodLines
<1>6. QED
    BY <1>3, <1>4, <1>5 DEF GoodLines

(* A good line keeps the parser sound and what it knew, and is noted. *)
LEMMA GoodLine ==
    ASSUME script \in Scripts, NEW last \in 0 .. MaxOp, NEW gone \in SUBSET (1 .. MaxOp), NEW p,
           Sound(p, last, gone), serial \in 1 .. MaxOp + 1,
           NEW line \in GoodLines(p, last, gone)
    PROVE  LET q == ProcessLine(p, line)
           IN  Sound(q, last, gone) /\ Further(p, q, gone) /\ Taken(q, line, last, gone)
<1> DEFINE q == ProcessLine(p, line)
<1>1. MaxOp \in Nat /\ last \in Nat
    BY BoundsOfCore
<1>2. CASE LabelOfShown(line, p, last)
    <2>1. PICK n \in 1 .. serial - 1 : InReach(last, n) /\ Shown(p, n) /\ line = LabelLine(n)
        BY <1>2 DEF LabelOfShown
    <2>2. line.cmd = "L" /\ line.sid = Sid(n) /\ line.mid = 0
        BY <2>1 DEF LabelLine
    <2>3. CreateGID(p, Sid(n), 0) = Gid(n)
        <3>1. n \in Nat /\ p.maxRetired = Gid(last)
            BY <1>1 DEF Sound
        <3>2. QED
            BY <1>1, <2>1, <3>1, GidIsRebuilt
    <2>4. q = [p EXCEPT !.failed = @ \/ Gid(n) \notin DOMAIN p.ops]
        BY <2>2, <2>3 DEF ProcessLine, OnRSD_Label
    <2>5. Gid(n) \in DOMAIN p.ops
        BY <2>1 DEF Shown, Known
    <2> HIDE DEF q
    <2>6. SameLog(q, p)
        BY <2>4, <2>5 DEF Sound, SameLog, LogFields
    <2>7. Sound(q, last, gone) /\ Further(p, q, gone)
        BY <2>6 DEF Sound, Further, SameLog, Told, Known, Shown
    <2>8. \A m, stage : /\ line # StageLine(m, stage, FALSE, TRUE)
                        /\ line # StageLine(m, stage, FALSE, FALSE)
        BY <2>2 DEF StageLine
    <2>9. Taken(q, line, last, gone)
        BY <2>8 DEF Taken
    <2>10. QED
        BY <2>7, <2>9 DEF q
<1>3. CASE FlushOfShown(line, p, last, gone)
    <2>1. PICK n \in 1 .. serial - 1, stage \in 1 .. 13 :
             n \in gone /\ InReach(last, n) /\ Shown(p, n) /\ line = StageLine(n, stage, FALSE, TRUE)
        BY <1>3 DEF FlushOfShown
    <2>2. n \in 1 .. MaxOp /\ n \in 0 .. MaxOp /\ Known(p, n)
        BY <1>1, <2>1 DEF Shown
    <2>3. Sound(q, last, gone) /\ Further(p, q, gone) /\ Gid(n) \in Told(q)
        BY <2>1, <2>2, FlushLine
    <2> HIDE DEF q
    <2>4. ASSUME NEW m \in 1 .. MaxOp, InReach(last, m)
          PROVE  /\ \A st \in 1 .. 13 : line = StageLine(m, st, FALSE, TRUE) => Gid(m) \in Told(q)
                 /\ line # StageLine(m, KS_NP, FALSE, FALSE)
        <3>1. ASSUME NEW st \in 1 .. 13, line = StageLine(m, st, FALSE, TRUE)
              PROVE  Gid(m) \in Told(q)
            <4>1. Sid(m) = Sid(n)
                BY <2>1, <3>1 DEF StageLine
            <4>2. m = n
                BY <1>1, <2>1, <2>2, <2>4, <4>1, SidsDiffer
            <4>3. QED
                BY <2>3, <4>2
        <3>2. line # StageLine(m, KS_NP, FALSE, FALSE)
            BY <2>1 DEF StageLine
        <3>3. QED
            BY <3>1, <3>2
    <2>5. Taken(q, line, last, gone)
        BY <2>4 DEF Taken
    <2>6. QED
        BY <2>3, <2>5 DEF q
<1>4. CASE StageOfLive(line, last, gone)
    <2>1. PICK n \in (1 .. MaxOp) \ gone, stage \in 0 .. 13, stall \in BOOLEAN, clear \in BOOLEAN :
             /\ InReach(last, n) /\ ~(clear /\ ~stall) /\ (stage = KS_NP => n >= serial)
             /\ line = StageLine(n, stage, stall, clear)
        BY <1>4 DEF StageOfLive
    <2>2. Sound(q, last, gone) /\ Further(p, q, gone) /\ Known(q, n)
        BY <2>1, PlainLine
    <2> HIDE DEF q
    <2>3. ASSUME NEW m \in 1 .. MaxOp, InReach(last, m)
          PROVE  /\ \A st \in 1 .. 13 : line # StageLine(m, st, FALSE, TRUE)
                 /\ line = StageLine(m, KS_NP, FALSE, FALSE) => Known(q, m)
        <3>1. ASSUME NEW st \in 1 .. 13
              PROVE  line # StageLine(m, st, FALSE, TRUE)
            BY <2>1 DEF StageLine
        <3>2. ASSUME line = StageLine(m, KS_NP, FALSE, FALSE)
              PROVE  Known(q, m)
            <4>1. Sid(m) = Sid(n)
                BY <2>1, <3>2 DEF StageLine
            <4>2. n \in Nat /\ m \in Nat
                BY <1>1
            <4>3. m = n
                BY <1>1, <2>1, <2>3, <4>1, <4>2, SidsDiffer
            <4>4. QED
                BY <2>2, <4>3
        <3>3. QED
            BY <3>1, <3>2
    <2>4. Taken(q, line, last, gone)
        BY <2>3 DEF Taken
    <2>5. QED
        BY <2>2, <2>4 DEF q
<1>5. QED
    BY <1>2, <1>3, <1>4 DEF GoodLines

(* What was noted stays noted. *)
LEMMA TakenStays ==
    ASSUME NEW p, NEW q, NEW last, NEW gone, NEW line, Further(p, q, gone),
           Taken(p, line, last, gone)
    PROVE  Taken(q, line, last, gone)
BY DEF Taken, Further

(* Any good lines, in any order *)
LEMMA GoodFold ==
    ASSUME script \in Scripts, NEW last \in 0 .. MaxOp, NEW gone \in SUBSET (1 .. MaxOp), NEW p,
           Sound(p, last, gone), serial \in 1 .. MaxOp + 1,
           NEW lines \in Seq(GoodLines(p, last, gone))
    PROVE  LET q == ParseCycle(p, lines)
           IN  /\ Sound(q, last, gone) /\ Further(p, q, gone)
               /\ \A line \in Range(lines) : Taken(q, line, last, gone)
<1>1. /\ Len(lines) \in Nat /\ DOMAIN lines = 1 .. Len(lines)
      /\ \A i \in 1 .. Len(lines) : lines[i] \in GoodLines(p, last, gone)
    OBVIOUS
<1>2. PICK f : Along(f, p, lines, Len(lines)) /\ ParseCycle(p, lines) = f[Len(lines)]
    BY <1>1, ParserRuns
<1> DEFINE Good(k) == /\ Sound(f[k], last, gone) /\ Further(p, f[k], gone)
                      /\ \A i \in 1 .. k : Taken(f[k], lines[i], last, gone)
           T == {k \in Nat : k <= Len(lines) => Good(k)}
<1>3. 0 \in T
    <2>1. f[0] = p /\ \A i \in 1 .. 0 : FALSE
        BY <1>2 DEF Along
    <2>2. QED
        BY <2>1, FurtherOn
<1>4. ASSUME NEW k \in Nat, k \in T
      PROVE  k + 1 \in T
    <2>1. SUFFICES ASSUME k + 1 <= Len(lines)
                   PROVE  Good(k + 1)
        OBVIOUS
    <2>2. k + 1 \in 1 .. Len(lines) /\ (k + 1) - 1 = k /\ k <= Len(lines)
        BY <1>1, <2>1
    <2>3. Good(k)
        BY <1>4, <2>2
    <2> DEFINE line == lines[k + 1]
    <2>4. f[k + 1] = ProcessLine(f[k], line)
        BY <1>2, <2>2 DEF Along
    <2>5. line \in GoodLines(f[k], last, gone)
        <3>1. line \in GoodLines(p, last, gone)
            BY <1>1, <2>2
        <3> HIDE DEF line
        <3>2. GoodLines(p, last, gone) \subseteq GoodLines(f[k], last, gone)
            BY <2>3, GoodStays
        <3>3. QED
            BY <3>1, <3>2
    <2> HIDE DEF line
    <2>6. /\ Sound(f[k + 1], last, gone) /\ Further(f[k], f[k + 1], gone)
          /\ Taken(f[k + 1], line, last, gone)
        BY <2>3, <2>4, <2>5, GoodLine
    <2>7. Further(p, f[k + 1], gone)
        BY <2>3, <2>6, FurtherOn
    <2>8. ASSUME NEW i \in 1 .. k + 1
          PROVE  Taken(f[k + 1], lines[i], last, gone)
        <3>1. CASE i \in 1 .. k
            <4>1. Taken(f[k], lines[i], last, gone)
                BY <2>3, <3>1
            <4>2. QED
                BY <2>6, <4>1, TakenStays
        <3>2. CASE i = k + 1
            BY <2>6, <3>2 DEF line
        <3>3. QED
            BY <3>1, <3>2
    <2>9. QED
        BY <2>6, <2>7, <2>8
<1>5. Good(Len(lines))
    <2>1. Nat \subseteq T
        <3> HIDE DEF T
        <3>1. QED
            BY <1>3, <1>4, SetInduction
    <2>2. Len(lines) \in T
        BY <1>1, <2>1
    <2>3. QED
        BY <1>1, <2>2
<1>6. \A line \in Range(lines) : \E i \in 1 .. Len(lines) : line = lines[i]
    BY <1>1 DEF Range
<1>7. QED
    BY <1>2, <1>5, <1>6

(* A line of the fetch stage, where an op may flush alone *)
LEMMA FetchLine ==
    ASSUME script \in Scripts, NEW last \in 0 .. MaxOp, NEW gone \in SUBSET (1 .. MaxOp), NEW p,
           Sound(p, last, gone), serial \in 1 .. MaxOp + 1,
           NEW n \in 1 .. MaxOp, InReach(last, n), Known(p, n), NEW line,
           n \in gone => line = StageLine(n, KS_IF, FALSE, TRUE),
           n \notin gone => \E stall, clear \in BOOLEAN :
               ~(clear /\ ~stall) /\ line = StageLine(n, KS_IF, stall, clear)
    PROVE  LET q == ProcessLine(p, line)
           IN  /\ Sound(q, last, gone) /\ Further(p, q, gone)
               /\ IF n \in gone THEN Gid(n) \in Told(q) ELSE Shown(q, n)
               /\ OthersKnown(p, q, n)
<1>1. CASE n \in gone
    <2>1. PICK stage \in 1 .. 13 : stage = KS_IF
        BY DEF KS_IF
    <2>2. line = StageLine(n, stage, FALSE, TRUE)
        BY <1>1, <2>1
    <2>3. LET q == ProcessLine(p, StageLine(n, stage, FALSE, TRUE))
          IN  /\ Sound(q, last, gone) /\ Further(p, q, gone) /\ Gid(n) \in Told(q)
              /\ OthersKnown(p, q, n)
        BY <1>1, FlushLine
    <2>4. QED
        BY <1>1, <2>2, <2>3
<1>2. CASE n \notin gone
    <2>1. PICK stall, clear \in BOOLEAN :
             ~(clear /\ ~stall) /\ line = StageLine(n, KS_IF, stall, clear)
        BY <1>2
    <2>2. PICK stage \in 0 .. 13 : stage = KS_IF /\ stage # KS_NP
        BY DEF KS_IF, KS_NP
    <2>3. line = StageLine(n, stage, stall, clear)
        BY <2>1, <2>2
    <2>4. LET q == ProcessLine(p, StageLine(n, stage, stall, clear))
          IN  /\ Sound(q, last, gone) /\ Further(p, q, gone) /\ Shown(q, n)
              /\ OthersKnown(p, q, n)
        BY <1>2, <2>1, <2>2, PlainLine
    <2>5. QED
        BY <1>2, <2>3, <2>4
<1>3. QED
    BY <1>1, <1>2

(* The lines of the fetch stage: of ops in order, each of which the parser *)
(* knows at least at its next pc                                           *)
LEMMA FetchFold ==
    ASSUME script \in Scripts, NEW last \in 0 .. MaxOp, NEW gone \in SUBSET (1 .. MaxOp), NEW p,
           Sound(p, last, gone), serial \in 1 .. MaxOp + 1,
           NEW k \in Nat, NEW s \in [1 .. k -> 1 .. serial - 1],
           \A i, j \in 1 .. k : s[i] = s[j] => i = j,
           \A i \in 1 .. k : Known(p, s[i]) /\ InReach(last, s[i]),
           NEW lines, DOMAIN lines = 1 .. k,
           \A i \in 1 .. k : s[i] \in gone => lines[i] = StageLine(s[i], KS_IF, FALSE, TRUE),
           \A i \in 1 .. k : s[i] \notin gone =>
              \E stall, clear \in BOOLEAN :
                 ~(clear /\ ~stall) /\ lines[i] = StageLine(s[i], KS_IF, stall, clear)
    PROVE  LET q == ParseCycle(p, lines)
           IN  /\ Sound(q, last, gone) /\ Further(p, q, gone)
               /\ \A i \in 1 .. k : IF s[i] \in gone THEN Gid(s[i]) \in Told(q)
                                    ELSE Shown(q, s[i])
<1>1. DOMAIN lines = 1 .. k
    OBVIOUS
<1>2. PICK f : Along(f, p, lines, k) /\ ParseCycle(p, lines) = f[k]
    BY <1>1, ParserRuns
<1>3. MaxOp \in Nat /\ \A i \in 1 .. k : s[i] \in 1 .. MaxOp /\ s[i] \in 1 .. serial - 1
    BY BoundsOfCore
<1> DEFINE Seen(q, i) == IF s[i] \in gone THEN Gid(s[i]) \in Told(q) ELSE Shown(q, s[i])
           Good(j) == /\ Sound(f[j], last, gone) /\ Further(p, f[j], gone)
                      /\ \A i \in 1 .. j : Seen(f[j], i)
                      /\ \A i \in j + 1 .. k : Known(f[j], s[i])
           T == {j \in Nat : j <= k => Good(j)}
<1>4. 0 \in T
    <2>1. f[0] = p /\ (\A i \in 1 .. 0 : FALSE) /\ 0 + 1 = 1
        BY <1>2 DEF Along
    <2>2. QED
        BY <2>1, FurtherOn
<1>5. ASSUME NEW j \in Nat, j \in T
      PROVE  j + 1 \in T
    <2>1. SUFFICES ASSUME j + 1 <= k
                   PROVE  Good(j + 1)
        OBVIOUS
    <2>2. j + 1 \in 1 .. k /\ (j + 1) - 1 = j /\ j <= k
        BY <2>1
    <2>3. Good(j)
        BY <1>5, <2>2
    <2> DEFINE nn == s[j + 1]
               p1 == f[j]
               q1 == f[j + 1]
    <2>4. q1 = ProcessLine(p1, lines[j + 1])
        BY <1>1, <1>2, <2>2 DEF Along
    <2>5. /\ Sound(p1, last, gone) /\ nn \in 1 .. MaxOp /\ InReach(last, nn) /\ Known(p1, nn)
          /\ nn \in 1 .. serial - 1
        <3>1. j + 1 \in j + 1 .. k
            BY <2>2
        <3>2. Known(p1, nn)
            BY <2>3, <3>1
        <3>3. QED
            BY <1>3, <2>2, <2>3, <3>2
    <2>6. /\ Sound(q1, last, gone) /\ Further(p1, q1, gone)
          /\ IF nn \in gone THEN Gid(nn) \in Told(q1) ELSE Shown(q1, nn)
          /\ OthersKnown(p1, q1, nn)
        <3> DEFINE line == lines[j + 1]
        <3>1. /\ nn \in gone => line = StageLine(nn, KS_IF, FALSE, TRUE)
              /\ nn \notin gone => \E stall, clear \in BOOLEAN :
                   ~(clear /\ ~stall) /\ line = StageLine(nn, KS_IF, stall, clear)
            BY <2>2
        <3>2. q1 = ProcessLine(p1, line)
            BY <2>4
        <3> HIDE DEF line, q1, p1, nn
        <3>3. LET r1 == ProcessLine(p1, line)
              IN  /\ Sound(r1, last, gone) /\ Further(p1, r1, gone)
                  /\ IF nn \in gone THEN Gid(nn) \in Told(r1) ELSE Shown(r1, nn)
                  /\ OthersKnown(p1, r1, nn)
            BY <2>5, <3>1, FetchLine
        <3>4. QED
            BY <3>2, <3>3
    <2> HIDE DEF q1, p1, nn
    <2>7. Further(p, q1, gone)
        BY <2>3, <2>6, FurtherOn DEF p1
    <2>8. ASSUME NEW i \in 1 .. j + 1
          PROVE  Seen(q1, i)
        <3>1. CASE i \in 1 .. j
            <4>1. Seen(p1, i) /\ s[i] \in 1 .. serial - 1
                BY <1>3, <2>2, <2>3, <3>1 DEF p1
            <4>2. QED
                BY <2>6, <4>1 DEF Further
        <3>2. CASE i = j + 1
            BY <2>6, <3>2 DEF nn
        <3>3. QED
            BY <3>1, <3>2
    <2>9. ASSUME NEW i \in (j + 1) + 1 .. k
          PROVE  Known(q1, s[i])
        <3>1. i \in j + 1 .. k /\ i \in 1 .. k /\ i # j + 1
            OBVIOUS
        <3>2. s[i] # nn
            BY <2>2, <3>1 DEF nn
        <3>3. Known(p1, s[i]) /\ s[i] \in 1 .. MaxOp
            BY <1>3, <2>3, <3>1 DEF p1
        <3>4. QED
            BY <2>6, <3>2, <3>3 DEF OthersKnown
    <2>10. QED
        BY <2>6, <2>7, <2>8, <2>9 DEF q1
<1>6. Good(k)
    <2>1. Nat \subseteq T
        <3> HIDE DEF T
        <3>1. QED
            BY <1>4, <1>5, SetInduction
    <2>2. k \in T
        BY <2>1
    <2>3. QED
        BY <2>2
<1>7. QED
    BY <1>2, <1>6

(* The line of a commit *)
LEMMA CommitLine ==
    ASSUME script \in Scripts, NEW last \in 0 .. MaxOp, NEW gone \in SUBSET (1 .. MaxOp), NEW p,
           Sound(p, last, gone),
           NEW n \in 1 .. MaxOp, InReach(last, n), n \notin gone, Known(p, n)
    PROVE  LET q == ProcessLine(p, StageLine(n, KS_CM, FALSE, FALSE))
           IN  /\ Sound(q, n, gone) /\ Told(q) = Told(p)
               /\ q.committed = p.committed + 1
               /\ q.retireEvents = p.retireEvents \cup {Gid(n)}
               /\ \A m \in 1 .. MaxOp :
                     n < m => (Known(p, m) => Known(q, m)) /\ (Shown(p, m) => Shown(q, m))
<1> DEFINE q  == ProcessLine(p, StageLine(n, KS_CM, FALSE, FALSE))
           op == [stage |-> KS_CM, stall |-> FALSE]
           gid == Gid(n)
<1>1. MaxOp \in Nat /\ n \in Nat /\ last \in Nat /\ gone \in SUBSET Nat
    BY BoundsOfCore
<1>2. gid \notin p.flushed
    <2>1. Gid(n) \notin Gids(gone)
        BY <1>1, GidsHold
    <2>2. QED
        BY <2>1 DEF Sound, Told
<1>3. PICK r : SameLog(r, p) /\ q = Processed(r, gid, op, FALSE)
    <2>1. ASSUME NEW stall \in BOOLEAN, NEW clear \in BOOLEAN
          PROVE  \E r : /\ SameLog(r, p)
                        /\ ProcessLine(p, StageLine(n, KS_CM, stall, clear)) =
                             Processed(r, Gid(n), [stage |-> KS_CM, stall |-> stall],
                                       clear /\ ~stall)
        <3> HIDE DEF q, op
        <3>1. QED
            BY <1>2, LineRead
    <2>2. \E r : /\ SameLog(r, p)
                 /\ ProcessLine(p, StageLine(n, KS_CM, FALSE, FALSE)) =
                      Processed(r, Gid(n), [stage |-> KS_CM, stall |-> FALSE], FALSE)
        BY <2>1
    <2>3. QED
        BY <2>2
<1> HIDE DEF q
<1>4. q = RetireOp(r, gid)
    <2>1. op.stage = KS_CM /\ gid \in DOMAIN r.ops /\ r.ops[gid].stage # KS_CM
        BY <1>3 DEF Known, SameLog
    <2> HIDE DEF op, gid
    <2>2. QED
        BY <1>3, <2>1 DEF Processed
<1>5. /\ gid \in Nat /\ Gid(last) \in Nat /\ Gid(last) < gid
      /\ \A m \in Nat : Gid(m) \in Nat /\ (n < m => gid < Gid(m))
    BY <1>1, GidOrder DEF InReach
<1>6. r.maxRetired = Gid(last)
    BY <1>3 DEF SameLog, Sound
<1> HIDE DEF gid
<1> DEFINE old == {gid} \cup IF gid % GC_PERIOD = 0 THEN {g \in DOMAIN r.ops : g < gid} ELSE {}
<1>7. q = [r EXCEPT !.maxRetired = gid,
                    !.committed = @ + 1,
                    !.flushed = {g \in @ : g >= gid},
                    !.retireEvents = @ \cup {gid},
                    !.ops = Without(@, old)]
    <2>1. gid > r.maxRetired
        BY <1>5, <1>6
    <2>2. QED
        BY <1>4, <2>1 DEF RetireOp
<1>8. \A g \in old : g = gid \/ g < gid
    OBVIOUS
<1> HIDE DEF old
<1>9. /\ DOMAIN q = LogFields /\ q.ops = Without(p.ops, old)
      /\ q.failed = p.failed /\ q.warned = p.warned /\ q.maxRetired = gid
      /\ q.flushed \subseteq p.flushed /\ q.flushEvents = p.flushEvents
      /\ q.cancelled = p.cancelled
      /\ q.committed = p.committed + 1 /\ q.retireEvents = p.retireEvents \cup {gid}
    <2>1. q.flushed = {g \in r.flushed : g >= gid}
        BY <1>3, <1>7 DEF SameLog, LogFields
    <2>2. /\ DOMAIN q = LogFields /\ q.ops = Without(r.ops, old)
          /\ q.failed = r.failed /\ q.warned = r.warned /\ q.maxRetired = gid
          /\ q.flushEvents = r.flushEvents /\ q.cancelled = r.cancelled
          /\ q.committed = r.committed + 1 /\ q.retireEvents = r.retireEvents \cup {gid}
        BY <1>3, <1>7 DEF SameLog, LogFields
    <2>3. QED
        BY <1>3, <2>1, <2>2 DEF SameLog
<1>10. Told(q) = Told(p)
    BY <1>9 DEF Told
<1>11. Sound(q, n, gone)
    BY <1>9, <1>10 DEF Sound, gid
<1>12. DOMAIN q.ops = DOMAIN p.ops \ old /\ \A g \in DOMAIN q.ops : q.ops[g] = p.ops[g]
    BY <1>9 DEF Without
<1>13. ASSUME NEW m \in 1 .. MaxOp, n < m
       PROVE  (Known(p, m) => Known(q, m)) /\ (Shown(p, m) => Shown(q, m))
    <2>1. Gid(m) \in Nat /\ gid < Gid(m)
        BY <1>1, <1>5, <1>13
    <2>2. Gid(m) \notin old
        BY <1>5, <1>8, <2>1
    <2>3. QED
        BY <1>12, <2>2 DEF Known, Shown
<1>14. QED
    BY <1>9, <1>10, <1>11, <1>13 DEF gid, q

(* What the parser makes of the commits of the k ops of s *)
CommitsRead(p, q, last, gone, k, s) ==
    /\ Sound(q, IF k = 0 THEN last ELSE s[k], gone) /\ Told(q) = Told(p)
    /\ q.committed = p.committed + k
    /\ q.retireEvents = p.retireEvents \cup {Gid(s[i]) : i \in 1 .. k}
    /\ \A m \in 1 .. MaxOp :
          (\A i \in 1 .. k : s[i] < m) =>
              (Known(p, m) => Known(q, m)) /\ (Shown(p, m) => Shown(q, m))

(* The lines of the commits of a cycle *)
LEMMA CommitFold ==
    ASSUME script \in Scripts, NEW last \in 0 .. MaxOp, NEW gone \in SUBSET (1 .. MaxOp), NEW p,
           Sound(p, last, gone), p.committed \in Nat,
           NEW k \in Nat, NEW s \in [1 .. k -> 1 .. MaxOp],
           \A i, j \in 1 .. k : i < j => s[i] < s[j],
           \A i \in 1 .. k : InReach(last, s[i]) /\ s[i] \notin gone /\ Known(p, s[i]),
           NEW lines, DOMAIN lines = 1 .. k,
           \A i \in 1 .. k : lines[i] = StageLine(s[i], KS_CM, FALSE, FALSE)
    PROVE  CommitsRead(p, ParseCycle(p, lines), last, gone, k, s)
<1>1. DOMAIN lines = 1 .. k /\ \A i \in 1 .. k : lines[i] = StageLine(s[i], KS_CM, FALSE, FALSE)
    OBVIOUS
<1>2. PICK f : Along(f, p, lines, k) /\ ParseCycle(p, lines) = f[k]
    BY <1>1, ParserRuns
<1>3. MaxOp \in Nat
    BY BoundsOfCore
<1> DEFINE Good(j) == /\ Sound(f[j], IF j = 0 THEN last ELSE s[j], gone) /\ Told(f[j]) = Told(p)
                      /\ f[j].committed = p.committed + j
                      /\ f[j].retireEvents = p.retireEvents \cup {Gid(s[i]) : i \in 1 .. j}
                      /\ \A m \in 1 .. MaxOp :
                            (\A i \in 1 .. j : s[i] < m) =>
                               (Known(p, m) => Known(f[j], m)) /\ (Shown(p, m) => Shown(f[j], m))
           T == {j \in Nat : j <= k => Good(j)}
<1>4. 0 \in T
    <2>1. f[0] = p /\ (\A i \in 1 .. 0 : FALSE) /\ 1 .. 0 = {}
        BY <1>2 DEF Along
    <2>2. {Gid(s[i]) : i \in 1 .. 0} = {} /\ p.committed + 0 = p.committed
        BY <2>1
    <2>3. QED
        BY <2>1, <2>2
<1>5. ASSUME NEW j \in Nat, j \in T
      PROVE  j + 1 \in T
    <2>1. SUFFICES ASSUME j + 1 <= k
                   PROVE  Good(j + 1)
        OBVIOUS
    <2>2. j + 1 \in 1 .. k /\ (j + 1) - 1 = j /\ j <= k /\ j + 1 # 0
        BY <2>1
    <2>3. Good(j)
        BY <1>5, <2>2
    <2> DEFINE n == s[j + 1]
               p1 == f[j]
               q1 == f[j + 1]
               before == IF j = 0 THEN last ELSE s[j]
    <2>4. q1 = ProcessLine(p1, StageLine(n, KS_CM, FALSE, FALSE))
        BY <1>1, <1>2, <2>2 DEF Along
    <2>5. /\ Sound(p1, before, gone) /\ n \in 1 .. MaxOp /\ before \in 0 .. MaxOp /\ InReach(before, n)
          /\ n \notin gone /\ Known(p, n) /\ \A i \in 1 .. j : s[i] < n
        <3>1. j # 0 => j \in 1 .. k
            BY <2>2
        <3>2. before \in 0 .. MaxOp
            BY <1>3, <3>1
        <3>3. InReach(before, n)
            <4>1. InReach(last, n) /\ n \in Nat /\ last \in Nat
                BY <1>3, <2>2
            <4>2. CASE j = 0
                BY <4>1, <4>2
            <4>3. CASE j # 0
                <5>1. InReach(last, s[j]) /\ s[j] < n /\ s[j] \in Nat
                    BY <1>3, <2>2, <3>1, <4>3
                <5>2. OP_SERIAL_NUM \div 4 \in Nat
                    BY BoundsOfLog
                <5>3. InReach(s[j], n)
                    BY <4>1, <5>1, <5>2 DEF InReach
                <5>4. QED
                    BY <4>3, <5>3
            <4>4. QED
                BY <4>2, <4>3
        <3>4. \A i \in 1 .. j : s[i] < n
            BY <2>2
        <3>5. QED
            BY <2>2, <2>3, <3>2, <3>3, <3>4
    <2>6. Known(p1, n)
        BY <2>3, <2>5
    <2> HIDE DEF q1, p1, n, before
    <2>7. /\ Sound(q1, n, gone) /\ Told(q1) = Told(p1)
          /\ q1.committed = p1.committed + 1
          /\ q1.retireEvents = p1.retireEvents \cup {Gid(n)}
          /\ \A m \in 1 .. MaxOp :
                n < m => (Known(p1, m) => Known(q1, m)) /\ (Shown(p1, m) => Shown(q1, m))
        <3> DEFINE r1 == ProcessLine(p1, StageLine(n, KS_CM, FALSE, FALSE))
        <3>1. /\ Sound(r1, n, gone) /\ Told(r1) = Told(p1)
              /\ r1.committed = p1.committed + 1
              /\ r1.retireEvents = p1.retireEvents \cup {Gid(n)}
              /\ \A m \in 1 .. MaxOp :
                    n < m => (Known(p1, m) => Known(r1, m)) /\ (Shown(p1, m) => Shown(r1, m))
            BY <2>5, <2>6, CommitLine
        <3> HIDE DEF r1
        <3>2. q1 = r1
            BY <2>4 DEF r1
        <3>3. QED
            BY <3>1, <3>2
    <2>8. {Gid(s[i]) : i \in 1 .. j} \cup {Gid(n)} = {Gid(s[i]) : i \in 1 .. j + 1}
        <3>1. 1 .. j + 1 = (1 .. j) \cup {j + 1}
            OBVIOUS
        <3>2. QED
            BY <3>1 DEF n
    <2>9. q1.committed = p.committed + (j + 1)
        <3>1. PICK num \in Nat : num = p.committed
            OBVIOUS
        <3>2. p1.committed = num + j
            BY <2>3, <3>1 DEF p1
        <3>3. q1.committed = num + j + 1
            BY <2>7, <3>2
        <3>4. q1.committed = num + (j + 1)
            BY <3>3
        <3> HIDE DEF p1, q1
        <3>5. QED
            BY <3>1, <3>4
    <2>10. q1.retireEvents = p.retireEvents \cup {Gid(s[i]) : i \in 1 .. j + 1}
        BY <2>3, <2>7, <2>8 DEF p1
    <2>11. ASSUME NEW m \in 1 .. MaxOp, \A i \in 1 .. j + 1 : s[i] < m
           PROVE  (Known(p, m) => Known(q1, m)) /\ (Shown(p, m) => Shown(q1, m))
        <3>1. n < m
            BY <2>11, <2>2 DEF n
        <3>2. \A i \in 1 .. j : s[i] < m
            BY <2>11
        <3>3. QED
            BY <2>3, <2>7, <3>1, <3>2 DEF p1
    <2>12. Sound(q1, IF j + 1 = 0 THEN last ELSE s[j + 1], gone) /\ Told(q1) = Told(p)
        BY <2>2, <2>3, <2>7 DEF p1, n
    <2> HIDE DEF T
    <2>13. QED
        BY <2>9, <2>10, <2>11, <2>12 DEF q1
<1>6. Good(k)
    <2>1. Nat \subseteq T
        <3> HIDE DEF T
        <3>1. QED
            BY <1>4, <1>5, SetInduction
    <2>2. k \in T
        BY <2>1
    <2>3. QED
        BY <2>2
<1>7. QED
    BY <1>2, <1>6 DEF CommitsRead

-----------------------------------------------------------------------------
(* Which ops of a stage die in a cycle, by the control of the stage          *)

(* The youngest op that retired, and the ops that are dead after the cycle *)
LastRetired == LastOf(retired, 0)

Gone(c) == dead \cup NewlyDead(c)

(* An op that is not dead is in one part of the core. *)
LEMMA Elsewhere ==
    ASSUME CoreTypes, OrderInv, StageInv, DeadInv
    PROVE  /\ \A n \in front["if"] : n \notin ListOps \cup front["rn"] \cup front["id"] \cup front["pd"]
           /\ \A n \in front["pd"] : n \notin ListOps \cup front["rn"] \cup front["id"]
           /\ \A n \in Waiting : n \notin ListOps \cup front["rn"]
           /\ \A n \in front["rn"] : n \notin ListOps
           /\ SelectiveFlush \subseteq DOMAIN back /\ DOMAIN back \subseteq ListOps
           /\ front["ds"] \subseteq ListOps
           /\ InsnFlushed \subseteq Waiting \cup dead
           /\ FetchFlushed \subseteq front["if"]
           /\ \A n \in dead : n \notin front["if"] \cup front["pd"] \cup Waiting \cup front["rn"]
                                       \cup front["ds"] \cup DOMAIN back
<1>1. FrontFacts
    BY FrontFactsHold
<1>2. \A n \in ListOps \cup front["rn"] \cup front["id"] \cup front["pd"] \cup front["if"] : n \in Nat
    BY <1>1 DEF FrontFacts
<1>3. \A m \in Nat : ~(m < m)
    OBVIOUS
<1>4. Waiting \subseteq front["id"]
    BY DEF Waiting
<1>5. \A n \in front["if"] : n \notin ListOps \cup front["rn"] \cup front["id"] \cup front["pd"]
    BY <1>2, <1>3 DEF OrderInv, Before
<1>6. \A n \in front["pd"] : n \notin ListOps \cup front["rn"] \cup front["id"]
    BY <1>2, <1>3 DEF OrderInv, Before
<1>7. \A n \in Waiting : n \notin ListOps \cup front["rn"]
    BY <1>2, <1>3, <1>4 DEF OrderInv, Before
<1>8. \A n \in front["rn"] : n \notin ListOps
    BY <1>2, <1>3 DEF OrderInv, Before
<1>9. SelectiveFlush \subseteq DOMAIN back /\ DOMAIN back \subseteq ListOps
    BY DEF SelectiveFlush, CoreTypes
<1>10. InsnFlushed \subseteq Waiting \cup dead
    BY DEF InsnFlushed, Waiting, DeadInv
<1>11. FetchFlushed \subseteq front["if"]
    BY DEF FetchFlushed
<1>12. QED
    BY <1>5, <1>6, <1>7, <1>8, <1>9, <1>10, <1>11 DEF StageInv, DeadInv

(* What the signals of the controller say of the ops of each stage *)
FlushesAre(c, ctrl, gone) ==
    /\ NewOps(c) # {} => ctrl.np = Go
    /\ \A n \in front["if"] : n \in gone <=> /\ ctrl.if.clear \/ n \in FetchFlushed
                                            /\ ~(ctrl.if.stall /\ n \notin FetchFlushed)
    /\ \A n \in front["pd"] : n \in gone <=> ctrl.pd.clear /\ ~ctrl.pd.stall
    /\ \A n \in Waiting : n \in gone <=> /\ ctrl.id.clear \/ n \in InsnFlushed
                                        /\ ~(ctrl.id.stall /\ ~StallByDecodeStage(c))
    /\ \A n \in front["rn"] : n \in gone <=> ctrl.rn.clear /\ ~ctrl.rn.stall
    /\ \A n \in front["ds"] : n \in gone <=> ctrl.ds.clear /\ ~ctrl.ds.stall
    /\ {ctrl.if.clear, ctrl.if.stall, ctrl.pd.clear, ctrl.pd.stall, ctrl.id.clear, ctrl.id.stall,
        ctrl.rn.clear, ctrl.rn.stall, ctrl.ds.clear, ctrl.ds.stall} \subseteq BOOLEAN

(* Which ops of each stage die is what the control of the stage says that  *)
(* the dumper prints: cleared and not stalled.                             *)
LEMMA StageFlushes ==
    ASSUME NEW c, CoreTypes, OrderInv, StageInv, DeadInv, Choice(c)
    PROVE  FlushesAre(c, Controller(c), Gone(c))
<1> DEFINE gone == Gone(c)
<1>1. /\ Go.stall = FALSE /\ Go.clear = FALSE /\ Flush.stall = FALSE /\ Flush.clear = TRUE
      /\ Stall.stall = TRUE /\ Stall.clear = FALSE /\ Bubble.stall = TRUE /\ Bubble.clear = TRUE
    BY DEF Go, Flush, Stall, Bubble, Ctrl
<1>2. \A np, if, pd, id, rn, ds :
         LET ctrl == CtrlIs(np, if, pd, id, rn, ds)
         IN  ctrl.np = np /\ ctrl.if = if /\ ctrl.pd = pd /\ ctrl.id = id /\ ctrl.rn = rn /\ ctrl.ds = ds
    BY DEF CtrlIs
<1>3. \A n \in front["ds"] : phase # "recover0" => n \notin gone
    <2>1. phase # "recover0" => \A n \in NewlyDead(c) : n \in ListOps => n \in dead
        BY NewlyDeadIs
    <2>2. QED
        BY <2>1, Elsewhere DEF Gone
<1>4. CASE phase = "recover0"
    <2>1. /\ Controller(c) = CtrlIs(Go, Flush, Flush, Flush, Flush, Flush)
          /\ front["if"] \cup front["pd"] \cup Waiting \cup front["rn"] \cup front["ds"] \subseteq gone
        BY <1>4, CycleOfRecovery DEF Gone
    <2> HIDE DEF gone
    <2>2. StallByDecodeStage(c) = FALSE
        BY <1>4 DEF StallByDecodeStage
    <2> DEFINE ctrl == Controller(c)
    <2>3. /\ ctrl.np = Go /\ ctrl.if = Flush /\ ctrl.pd = Flush /\ ctrl.id = Flush
          /\ ctrl.rn = Flush /\ ctrl.ds = Flush
        BY <1>2, <2>1
    <2> HIDE DEF ctrl
    <2>4. FlushesAre(c, ctrl, gone)
        BY <1>1, <2>1, <2>2, <2>3 DEF FlushesAre
    <2>5. QED
        BY <2>4 DEF ctrl, gone
<1>5. CASE phase # "recover0" /\ RnStageSendBubbleLower(c)
    <2>1. /\ Controller(c) = CtrlIs(Stall, Stall, Stall, Stall, Bubble, Go)
          /\ ~StallByDecodeStage(c) /\ NewOps(c) = {}
          /\ gone = dead \cup SelectiveFlush \cup FetchFlushed
        BY <1>5, CycleOfBubble DEF Gone
    <2> HIDE DEF gone
    <2> DEFINE ctrl == Controller(c)
    <2>2. /\ ctrl.np = Stall /\ ctrl.if = Stall /\ ctrl.pd = Stall /\ ctrl.id = Stall
          /\ ctrl.rn = Bubble /\ ctrl.ds = Go
        BY <1>2, <2>1
    <2> HIDE DEF ctrl
    <2>3. /\ \A n \in front["if"] : n \in gone <=> n \in FetchFlushed
          /\ \A n \in front["pd"] \cup Waiting \cup front["rn"] : n \notin gone
        BY <2>1, Elsewhere DEF Waiting
    <2>4. FlushesAre(c, ctrl, gone)
        BY <1>1, <1>3, <1>5, <2>1, <2>2, <2>3 DEF FlushesAre
    <2>5. QED
        BY <2>4 DEF ctrl, gone
<1>6. CASE phase # "recover0" /\ ~RnStageSendBubbleLower(c) /\ decFlush
    <2>1. /\ Controller(c) = CtrlIs(Go, Flush, Flush, Flush, Go, Go)
          /\ ~StallByDecodeStage(c)
          /\ gone = dead \cup (front["if"] \cup front["pd"] \cup Waiting
                                 \cup SelectiveFlush \cup FetchFlushed \cup InsnFlushed)
        BY <1>6, CycleOfDecodeFlush DEF Gone
    <2> HIDE DEF gone
    <2> DEFINE ctrl == Controller(c)
    <2>2. /\ ctrl.np = Go /\ ctrl.if = Flush /\ ctrl.pd = Flush /\ ctrl.id = Flush
          /\ ctrl.rn = Go /\ ctrl.ds = Go
        BY <1>2, <2>1
    <2> HIDE DEF ctrl
    <2>3. /\ front["if"] \cup front["pd"] \cup Waiting \subseteq gone
          /\ \A n \in front["rn"] : n \notin gone
        BY <2>1, Elsewhere DEF Waiting
    <2>4. FlushesAre(c, ctrl, gone)
        BY <1>1, <1>3, <1>6, <2>1, <2>2, <2>3 DEF FlushesAre
    <2>5. QED
        BY <2>4 DEF ctrl, gone
<1>7. CASE StallByDecodeStage(c)
    <2>1. /\ phase # "recover0"
          /\ Controller(c) = CtrlIs(Stall, Stall, Stall, Stall, Go, Go)
          /\ NewOps(c) = {}
          /\ gone = dead \cup (SelectiveFlush \cup FetchFlushed \cup InsnFlushed)
        BY <1>7, CycleOfDecodeStall DEF Gone
    <2> HIDE DEF gone
    <2> DEFINE ctrl == Controller(c)
    <2>2. /\ ctrl.np = Stall /\ ctrl.if = Stall /\ ctrl.pd = Stall /\ ctrl.id = Stall
          /\ ctrl.rn = Go /\ ctrl.ds = Go
        BY <1>2, <2>1
    <2> HIDE DEF ctrl
    <2>3. /\ \A n \in front["if"] : n \in gone <=> n \in FetchFlushed
          /\ \A n \in Waiting : n \in gone <=> n \in InsnFlushed
          /\ \A n \in front["pd"] \cup front["rn"] : n \notin gone
        BY <2>1, Elsewhere DEF Waiting
    <2>4. FlushesAre(c, ctrl, gone)
        BY <1>1, <1>3, <1>7, <2>1, <2>2, <2>3 DEF FlushesAre
    <2>5. QED
        BY <2>4 DEF ctrl, gone
<1>8. CASE /\ phase # "recover0" /\ ~RnStageSendBubbleLower(c) /\ ~decFlush
           /\ ~StallByDecodeStage(c)
    <2>1. /\ Controller(c) = CtrlIs(NpCtrl(c), IfCtrl(c), Go, Go, Go, Go)
          /\ NewOps(c) # {} => ~(c.ifMiss \/ c.fetch = 0)
          /\ gone = dead \cup (SelectiveFlush \cup FetchFlushed \cup InsnFlushed)
        BY <1>8, CycleOfFlow DEF Gone, Choice
    <2> HIDE DEF gone
    <2> DEFINE ctrl == Controller(c)
    <2>2. /\ ctrl.np = NpCtrl(c) /\ ctrl.if = IfCtrl(c) /\ ctrl.pd = Go /\ ctrl.id = Go
          /\ ctrl.rn = Go /\ ctrl.ds = Go
        BY <1>2, <2>1
    <2> HIDE DEF ctrl
    <2>3. /\ \A n \in front["if"] : n \in gone <=> n \in FetchFlushed
          /\ \A n \in Waiting : n \in gone <=> n \in InsnFlushed
          /\ \A n \in front["pd"] \cup front["rn"] : n \notin gone
        BY <2>1, Elsewhere DEF Waiting
    <2>4. /\ NewOps(c) # {} => ctrl.np = Go
          /\ ctrl.if.stall = ctrl.if.clear /\ ctrl.if.stall \in BOOLEAN
        BY <1>1, <2>1, <2>2 DEF NpCtrl, IfCtrl
    <2>5. FlushesAre(c, ctrl, gone)
        BY <1>1, <1>3, <1>8, <2>2, <2>3, <2>4 DEF FlushesAre
    <2>6. QED
        BY <2>5 DEF ctrl, gone
<1>9. QED
    BY <1>4, <1>5, <1>6, <1>7, <1>8

-----------------------------------------------------------------------------
(* The lines of a stage, from its lanes                                      *)

(* The lanes of a stage that hold an op each write one line. *)
LEMMA LanesFlatten ==
    ASSUME NEW S, NEW k \in Nat, NEW F, F = [i \in 1 .. k |-> F[i]],
           \A i \in 1 .. k : F[i] = <<>> \/ \E line \in S : F[i] = <<line>>
    PROVE  /\ FlattenSeq(F) \in Seq(S)
           /\ \A i \in 1 .. k, line \in S : F[i] = <<line>> => line \in Range(FlattenSeq(F))
<1>1. F \in [1 .. k -> Seq(S)]
    <2>1. ASSUME NEW i \in 1 .. k
          PROVE  F[i] \in Seq(S)
        <3>1. CASE F[i] = <<>>
            BY <3>1
        <3>2. CASE F[i] # <<>>
            <4>1. PICK line \in S : F[i] = <<line>>
                BY <3>2
            <4>2. <<line>> \in Seq(S)
                OBVIOUS
            <4>3. QED
                BY <4>1, <4>2
        <3>3. QED
            BY <3>1, <3>2
    <2>2. QED
        BY <2>1
<1>2. /\ FlattenSeq(F) \in Seq(S)
      /\ \A i \in 1 .. k : Range(F[i]) \subseteq Range(FlattenSeq(F))
    BY <1>1, FlattenFacts
<1>3. \A line \in S : line \in Range(<<line>>)
    <2>1. SUFFICES ASSUME NEW line \in S
                   PROVE  line \in Range(<<line>>)
        OBVIOUS
    <2>2. 1 \in DOMAIN <<line>> /\ <<line>>[1] = line
        OBVIOUS
    <2>3. QED
        BY <2>2 DEF Range
<1>4. QED
    BY <1>2, <1>3

(* The lanes of the ops of S, k ops in their order s *)
LaneOps(S, flushed, k, s) ==
    /\ k \in Nat /\ s \in [1 .. k -> S]
    /\ Lanes(S, flushed) = [i \in 1 .. k |-> [valid |-> TRUE, flush |-> s[i] \in flushed,
                                              sid |-> Sid(s[i])]]
    /\ \A i, j \in 1 .. k : i < j => s[i] < s[j]
    /\ \A n \in S : \E i \in 1 .. k : s[i] = n

(* The lanes of a stage hold its ops in program order. *)
LEMMA LanesAre ==
    ASSUME NEW S \in SUBSET (1 .. MaxOp), NEW flushed
    PROVE  \E k, s : LaneOps(S, flushed, k, s)
<1> DEFINE s == Ascending(S)
           k == Cardinality(S)
<1>1. MaxOp \in Nat /\ \A n \in S : n \in 0 .. MaxOp
    BY BoundsOfCore
<1>2. /\ k \in Nat /\ s \in [1 .. k -> S]
      /\ \A i, j \in 1 .. k : i < j => s[i] < s[j]
      /\ \A n \in S : \E i \in 1 .. k : s[i] = n
    BY <1>1, AscendingFacts
<1>3. Lanes(S, flushed) = [i \in DOMAIN s |-> [valid |-> TRUE, flush |-> s[i] \in flushed,
                                               sid |-> Sid(s[i])]]
    BY DEF Lanes
<1> HIDE DEF s, k
<1>4. DOMAIN s = 1 .. k
    BY <1>2
<1>5. LaneOps(S, flushed, k, s)
    BY <1>2, <1>3, <1>4 DEF LaneOps
<1>6. QED
    BY <1>5

(* A line of an op that the parser takes as it is meant *)
LineOk(p, last, gone, n, stage, stall, clear) ==
    /\ n \in 1 .. MaxOp /\ InReach(last, n) /\ stage \in 0 .. 13 /\ stall \in BOOLEAN /\ clear \in BOOLEAN
    /\ n \in gone <=> (clear /\ ~stall)
    /\ n \in gone => n < serial /\ Shown(p, n) /\ stage # KS_NP
    /\ stage = KS_NP => n >= serial

(* An op in a stage gives a good line. *)
LEMMA LineOkIsGood ==
    ASSUME NEW p, NEW last, NEW gone, NEW n, NEW stage, NEW stall, NEW clear,
           serial \in 1 .. MaxOp + 1, LineOk(p, last, gone, n, stage, stall, clear)
    PROVE  StageLine(n, stage, stall, clear) \in GoodLines(p, last, gone)
<1> DEFINE line == StageLine(n, stage, stall, clear)
<1>1. n \in 1 .. MaxOp /\ InReach(last, n) /\ stage \in 0 .. 13 /\ stall \in BOOLEAN /\ clear \in BOOLEAN
    BY DEF LineOk
<1>2. line \in AllLines
    BY <1>1 DEF AllLines
<1>3. CASE n \in gone
    <2>1. stall = FALSE /\ clear = TRUE
        BY <1>1, <1>3 DEF LineOk
    <2>2. n \in 1 .. serial - 1 /\ Shown(p, n) /\ stage \in 1 .. 13
        <3>1. n < serial /\ Shown(p, n) /\ stage # 0
            BY <1>3 DEF LineOk, KS_NP
        <3>2. QED
            BY <1>1, <3>1, BoundsOfCore
    <2>3. line = StageLine(n, stage, FALSE, TRUE)
        BY <2>1
    <2> HIDE DEF line
    <2>4. FlushOfShown(line, p, last, gone)
        BY <1>1, <1>3, <2>2, <2>3 DEF FlushOfShown
    <2>5. QED
        BY <1>2, <2>4 DEF GoodLines, line
<1>4. CASE n \notin gone
    <2>1. ~(clear /\ ~stall) /\ (stage = KS_NP => n >= serial)
        BY <1>4 DEF LineOk
    <2>2. StageOfLive(line, last, gone)
        BY <1>1, <1>4, <2>1 DEF StageOfLive
    <2> HIDE DEF line
    <2>3. QED
        BY <1>2, <2>2 DEF GoodLines, line
<1>5. QED
    BY <1>3, <1>4

(* Stages that flush all their lanes or none *)
LEMMA UniformLines ==
    ASSUME NEW p, NEW last, NEW gone, serial \in 1 .. MaxOp + 1,
           NEW S \in SUBSET (1 .. MaxOp), NEW flushed, NEW stage, NEW stall, NEW clear,
           \A n \in S : LineOk(p, last, gone, n, stage, stall, clear)
    PROVE  LET lanes == Lanes(S, flushed)
               lines == FlattenSeq([i \in DOMAIN lanes |->
                            DumpStage(stage, lanes[i].valid, stall, clear, lanes[i].sid)])
           IN  /\ lines \in Seq(GoodLines(p, last, gone))
               /\ \A n \in S : StageLine(n, stage, stall, clear) \in Range(lines)
<1>1. PICK k, s : LaneOps(S, flushed, k, s)
    BY LanesAre
<1> DEFINE lanes == Lanes(S, flushed)
           F == [i \in DOMAIN lanes |->
                            DumpStage(stage, lanes[i].valid, stall, clear, lanes[i].sid)]
           G == GoodLines(p, last, gone)
<1>2. /\ k \in Nat /\ \A i \in 1 .. k : s[i] \in S
      /\ \A n \in S : \E i \in 1 .. k : s[i] = n
      /\ DOMAIN lanes = 1 .. k
      /\ \A i \in 1 .. k : lanes[i].valid = TRUE /\ lanes[i].sid = Sid(s[i])
    BY <1>1 DEF LaneOps
<1> HIDE DEF lanes
<1>3. DOMAIN F = 1 .. k /\ \A i \in 1 .. k : F[i] = <<StageLine(s[i], stage, stall, clear)>>
    BY <1>2 DEF DumpStage, StageLine
<1>4. F = [i \in 1 .. k |-> F[i]]
    BY <1>2
<1> HIDE DEF F, G
<1>5. \A n \in S : StageLine(n, stage, stall, clear) \in G
    BY LineOkIsGood DEF G
<1>6. \A i \in 1 .. k : F[i] = <<>> \/ \E line \in G : F[i] = <<line>>
    BY <1>2, <1>3, <1>5
<1>7. /\ FlattenSeq(F) \in Seq(G)
      /\ \A i \in 1 .. k, line \in G : F[i] = <<line>> => line \in Range(FlattenSeq(F))
    BY <1>2, <1>4, <1>6, LanesFlatten
<1>8. \A n \in S : StageLine(n, stage, stall, clear) \in Range(FlattenSeq(F))
    BY <1>2, <1>3, <1>5, <1>7
<1>9. QED
    BY <1>7, <1>8 DEF F, G, lanes

(* Lanes of ops of the back end *)
BackLanes(lanes) ==
    \E k \in Nat :
        /\ lanes = [i \in 1 .. k |-> lanes[i]]
        /\ \A i \in 1 .. k :
              /\ lanes[i].valid \in BOOLEAN
              /\ lanes[i].valid = TRUE =>
                    \E n \in DOMAIN back : /\ lanes[i].sid = Sid(n)
                                           /\ lanes[i].flush = (n \in SelectiveFlush)

(* The lines of a back end stage are good. *)
LEMMA BackLines ==
    ASSUME NEW p, NEW last, NEW gone, serial \in 1 .. MaxOp + 1,
           NEW stage, NEW d, d.backEndPipeCtrl.stall = FALSE,
           \A n \in DOMAIN back : LineOk(p, last, gone, n, stage, FALSE, n \in SelectiveFlush),
           NEW lanes, BackLanes(lanes)
    PROVE  BackEndLines(d, stage, lanes) \in Seq(GoodLines(p, last, gone))
<1>1. PICK k \in Nat :
        /\ lanes = [i \in 1 .. k |-> lanes[i]]
        /\ \A i \in 1 .. k :
              /\ lanes[i].valid \in BOOLEAN
              /\ lanes[i].valid = TRUE =>
                    \E n \in DOMAIN back : /\ lanes[i].sid = Sid(n)
                                           /\ lanes[i].flush = (n \in SelectiveFlush)
    BY DEF BackLanes
<1> DEFINE F == [i \in DOMAIN lanes |->
                    DumpStage(stage, lanes[i].valid, d.backEndPipeCtrl.stall, lanes[i].flush,
                              lanes[i].sid)]
           G == GoodLines(p, last, gone)
<1>2. BackEndLines(d, stage, lanes) = FlattenSeq(F)
    BY DEF BackEndLines, EachLane
<1>3. DOMAIN lanes = 1 .. k
    BY <1>1
<1>4. F = [i \in 1 .. k |-> F[i]]
    BY <1>3
<1>5. ASSUME NEW i \in 1 .. k
      PROVE  F[i] = <<>> \/ \E line \in G : F[i] = <<line>>
    <2>1. F[i] = DumpStage(stage, lanes[i].valid, FALSE, lanes[i].flush, lanes[i].sid)
        BY <1>3
    <2> HIDE DEF F
    <2>2. CASE lanes[i].valid = TRUE
        <3>1. PICK n \in DOMAIN back : /\ lanes[i].sid = Sid(n)
                                       /\ lanes[i].flush = (n \in SelectiveFlush)
            BY <1>1, <2>2
        <3>2. F[i] = <<StageLine(n, stage, FALSE, n \in SelectiveFlush)>>
            BY <2>1, <2>2, <3>1 DEF DumpStage, StageLine
        <3>3. StageLine(n, stage, FALSE, n \in SelectiveFlush) \in G
            BY LineOkIsGood
        <3>4. QED
            BY <3>2, <3>3
    <2>3. CASE lanes[i].valid = FALSE
        BY <2>1, <2>3 DEF DumpStage
    <2>4. QED
        BY <1>1, <2>2, <2>3
<1> HIDE DEF F, G
<1>6. FlattenSeq(F) \in Seq(G)
    BY <1>4, <1>5, LanesFlatten
<1>7. QED
    BY <1>2, <1>6 DEF G

(* So are those of a stage that has the four pipelines. *)
LEMMA PipeLinesGood ==
    ASSUME NEW p, NEW last, NEW gone, serial \in 1 .. MaxOp + 1,
           NEW stage, NEW d, d.backEndPipeCtrl.stall = FALSE,
           \A n \in DOMAIN back : LineOk(p, last, gone, n, stage, FALSE, n \in SelectiveFlush),
           NEW regs, \A pipe \in Range(Pipes) : BackLanes(regs[pipe])
    PROVE  PipeLines(d, stage, regs) \in Seq(GoodLines(p, last, gone))
<1> DEFINE F == [i \in DOMAIN Pipes |-> BackEndLines(d, stage, regs[Pipes[i]])]
           G == GoodLines(p, last, gone)
<1>1. PipeLines(d, stage, regs) = FlattenSeq(F)
    BY DEF PipeLines, EachLane
<1>2. DOMAIN Pipes = 1 .. 4 /\ \A i \in 1 .. 4 : Pipes[i] \in Range(Pipes)
    BY DEF Pipes, Range
<1>3. F \in [1 .. 4 -> Seq(G)]
    <2>1. \A i \in 1 .. 4 : BackEndLines(d, stage, regs[Pipes[i]]) \in Seq(G)
        BY <1>2, BackLines
    <2>2. QED
        BY <1>2, <2>1
<1> HIDE DEF F, G
<1>4. FlattenSeq(F) \in Seq(G)
    <2>1. 4 \in Nat
        OBVIOUS
    <2>2. QED
        BY <1>3, <2>1, FlattenFacts
<1>5. QED
    BY <1>1, <1>4 DEF G

-----------------------------------------------------------------------------
(* The debug register                                                        *)

(* The debug register that the dumper reads in a cycle, field by field *)
RegisterOf(c) == GetDebugRegister(DebugSignals(c))

RegisterIs(d, c) ==
    /\ d.npReg = Lanes(NewOps(c), {}) /\ d.ifReg = Lanes(front["if"], FetchFlushed)
    /\ d.pdReg = Lanes(front["pd"], {}) /\ d.idReg = IdLanes
    /\ d.rnReg = Lanes(front["rn"], {}) /\ d.dsReg = Lanes(front["ds"], {})
    /\ d.scheduler = Lanes(InStage("SC"), SelectiveFlush)
    /\ d.isReg = PipeLanes(IF c.reissue = {} THEN InStage("IS") ELSE c.reissue)
    /\ d.rrReg = PipeLanes(InStage("RR"))
    /\ \A pipe \in Range(Pipes) :
          d.exReg[pipe] = IF pipe \in {"complex", "fp"} THEN FirstStageOnly(ExLanes(pipe))
                          ELSE ExLanes(pipe)
    /\ d.mtReg = Lanes(InStage("MT"), SelectiveFlush)
    /\ d.maReg = Lanes(InStage("MA"), SelectiveFlush)
    /\ d.rwReg = PipeLanes(InStage("RW")) /\ d.cmReg = CmLanes
    /\ d.npStagePipeCtrl = Controller(c).np /\ d.ifStagePipeCtrl = Controller(c).if
    /\ d.pdStagePipeCtrl = Controller(c).pd /\ d.idStagePipeCtrl = Controller(c).id
    /\ d.rnStagePipeCtrl = Controller(c).rn /\ d.dsStagePipeCtrl = Controller(c).ds
    /\ d.backEndPipeCtrl = Go
    /\ d.stallByDecodeStage = StallByDecodeStage(c)

(* GetDebugRegister fills every field from the wires of the cycle. *)
LEMMA Registers ==
    ASSUME NEW c
    PROVE  RegisterIs(RegisterOf(c), c)
<1> DEFINE r == DebugSignals(c)
           d == RegisterOf(c)
           ctrl == Controller(c)
<1>1. r = [npReg |-> Lanes(NewOps(c), {}),
           ifReg |-> Lanes(front["if"], FetchFlushed),
           pdReg |-> Lanes(front["pd"], {}),
           idReg |-> IdLanes,
           rnReg |-> Lanes(front["rn"], {}),
           dsReg |-> Lanes(front["ds"], {}),
           scheduler |-> Lanes(InStage("SC"), SelectiveFlush),
           isReg |-> PipeLanes(IF c.reissue = {} THEN InStage("IS") ELSE c.reissue),
           rrReg |-> PipeLanes(InStage("RR")),
           exReg |-> [p \in Range(Pipes) |-> ExLanes(p)],
           mtReg |-> Lanes(InStage("MT"), SelectiveFlush),
           maReg |-> Lanes(InStage("MA"), SelectiveFlush),
           rwReg |-> PipeLanes(InStage("RW")),
           cmReg |-> CmLanes,
           npStagePipeCtrl |-> ctrl.np, ifStagePipeCtrl |-> ctrl.if,
           pdStagePipeCtrl |-> ctrl.pd, idStagePipeCtrl |-> ctrl.id,
           rnStagePipeCtrl |-> ctrl.rn, dsStagePipeCtrl |-> ctrl.ds,
           backEndPipeCtrl |-> Go,
           stallByDecodeStage |-> StallByDecodeStage(c)]
    BY DEF DebugSignals
<1>2. /\ r.npReg = Lanes(NewOps(c), {}) /\ r.ifReg = Lanes(front["if"], FetchFlushed)
      /\ r.pdReg = Lanes(front["pd"], {}) /\ r.idReg = IdLanes
      /\ r.rnReg = Lanes(front["rn"], {}) /\ r.dsReg = Lanes(front["ds"], {})
      /\ r.scheduler = Lanes(InStage("SC"), SelectiveFlush)
      /\ r.isReg = PipeLanes(IF c.reissue = {} THEN InStage("IS") ELSE c.reissue)
      /\ r.rrReg = PipeLanes(InStage("RR"))
      /\ r.exReg = [p \in Range(Pipes) |-> ExLanes(p)]
      /\ r.mtReg = Lanes(InStage("MT"), SelectiveFlush)
      /\ r.maReg = Lanes(InStage("MA"), SelectiveFlush)
      /\ r.rwReg = PipeLanes(InStage("RW")) /\ r.cmReg = CmLanes
      /\ r.npStagePipeCtrl = ctrl.np /\ r.ifStagePipeCtrl = ctrl.if
      /\ r.pdStagePipeCtrl = ctrl.pd /\ r.idStagePipeCtrl = ctrl.id
      /\ r.rnStagePipeCtrl = ctrl.rn /\ r.dsStagePipeCtrl = ctrl.ds
      /\ r.backEndPipeCtrl = Go
      /\ r.stallByDecodeStage = StallByDecodeStage(c)
    BY <1>1
<1>3. DOMAIN r = {"npReg", "ifReg", "pdReg", "idReg", "rnReg", "dsReg", "scheduler", "isReg",
                  "rrReg", "exReg", "mtReg", "maReg", "rwReg", "cmReg", "npStagePipeCtrl",
                  "ifStagePipeCtrl", "pdStagePipeCtrl", "idStagePipeCtrl", "rnStagePipeCtrl",
                  "dsStagePipeCtrl", "backEndPipeCtrl", "stallByDecodeStage"}
    BY <1>1
<1> HIDE DEF r
<1>4. {"complex", "fp"} \subseteq Range(Pipes)
    <2>1. /\ 2 \in DOMAIN Pipes /\ Pipes[2] = "complex"
          /\ 4 \in DOMAIN Pipes /\ Pipes[4] = "fp"
        BY DEF Pipes
    <2>2. QED
        BY <2>1 DEF Range
<1>5. d = [r EXCEPT !.exReg["complex"] = FirstStageOnly(@), !.exReg["fp"] = FirstStageOnly(@)]
    BY DEF RegisterOf, GetDebugRegister, r
<1> HIDE DEF d
<1>6. \A pipe \in Range(Pipes) :
          d.exReg[pipe] = IF pipe \in {"complex", "fp"} THEN FirstStageOnly(ExLanes(pipe))
                          ELSE ExLanes(pipe)
    BY <1>2, <1>3, <1>4, <1>5
<1>7. \A field \in DOMAIN r : field # "exReg" => d[field] = r[field]
    BY <1>5
<1>8. /\ d.npReg = r.npReg /\ d.ifReg = r.ifReg /\ d.pdReg = r.pdReg /\ d.idReg = r.idReg
      /\ d.rnReg = r.rnReg /\ d.dsReg = r.dsReg /\ d.scheduler = r.scheduler
      /\ d.isReg = r.isReg /\ d.rrReg = r.rrReg /\ d.mtReg = r.mtReg /\ d.maReg = r.maReg
      /\ d.rwReg = r.rwReg /\ d.cmReg = r.cmReg
    BY <1>3, <1>7
<1>9. /\ d.npStagePipeCtrl = r.npStagePipeCtrl /\ d.ifStagePipeCtrl = r.ifStagePipeCtrl
      /\ d.pdStagePipeCtrl = r.pdStagePipeCtrl /\ d.idStagePipeCtrl = r.idStagePipeCtrl
      /\ d.rnStagePipeCtrl = r.rnStagePipeCtrl /\ d.dsStagePipeCtrl = r.dsStagePipeCtrl
      /\ d.backEndPipeCtrl = r.backEndPipeCtrl
      /\ d.stallByDecodeStage = r.stallByDecodeStage
    BY <1>3, <1>7
<1>10. RegisterIs(d, c)
    BY <1>2, <1>6, <1>8, <1>9 DEF RegisterIs
<1>11. QED
    BY <1>10 DEF d

(* The lanes of the back end stages are flushed by the selective flush,    *)
(* and by it only.                                                         *)
LEMMA LanesOfBack ==
    ASSUME NEW S \in SUBSET DOMAIN back, DOMAIN back \subseteq 1 .. MaxOp
    PROVE  BackLanes(Lanes(S, SelectiveFlush))
<1> DEFINE lanes == Lanes(S, SelectiveFlush)
<1>1. PICK k, s : LaneOps(S, SelectiveFlush, k, s)
    BY LanesAre
<1>2. /\ k \in Nat /\ \A i \in 1 .. k : s[i] \in S
      /\ lanes = [i \in 1 .. k |-> [valid |-> TRUE, flush |-> s[i] \in SelectiveFlush,
                                    sid |-> Sid(s[i])]]
    BY <1>1 DEF LaneOps
<1> HIDE DEF lanes
<1>3. lanes = [i \in 1 .. k |-> lanes[i]]
    BY <1>2
<1>4. ASSUME NEW i \in 1 .. k
      PROVE  /\ lanes[i].valid \in BOOLEAN
             /\ \E n \in DOMAIN back : /\ lanes[i].sid = Sid(n)
                                       /\ lanes[i].flush = (n \in SelectiveFlush)
    <2>1. s[i] \in DOMAIN back
        BY <1>2
    <2>2. /\ lanes[i].valid = TRUE /\ lanes[i].sid = Sid(s[i])
          /\ lanes[i].flush = (s[i] \in SelectiveFlush)
        BY <1>2
    <2>3. QED
        BY <2>1, <2>2
<1>5. BackLanes(lanes)
    BY <1>2, <1>3, <1>4 DEF BackLanes
<1>6. QED
    BY <1>5 DEF lanes

(* The same for the stages that have the four pipelines *)
LEMMA PipeLanesOfBack ==
    ASSUME NEW S \in SUBSET DOMAIN back, DOMAIN back \subseteq 1 .. MaxOp
    PROVE  \A pipe \in Range(Pipes) : BackLanes(PipeLanes(S)[pipe])
<1>1. SUFFICES ASSUME NEW pipe \in Range(Pipes)
               PROVE  BackLanes(PipeLanes(S)[pipe])
    OBVIOUS
<1>2. PipeLanes(S)[pipe] = Lanes({n \in S : PipeOf[n] = pipe}, SelectiveFlush)
    BY DEF PipeLanes
<1>3. {n \in S : PipeOf[n] = pipe} \in SUBSET DOMAIN back
    OBVIOUS
<1>4. QED
    BY <1>2, <1>3, LanesOfBack

(* A lane of the execution stages *)
ExLane(n, depth) ==
    [valid |-> TRUE, flush |-> n \in SelectiveFlush, sid |-> Sid(n), depth |-> depth]

(* The execution lanes: the first stage, then the second *)
LEMMA ExLanesAre ==
    ASSUME CoreTypes, StageInv, NEW pipe
    PROVE  \E k \in Nat, w \in 0 .. 1 :
              /\ ExLanes(pipe) = [i \in 1 .. k |-> ExLanes(pipe)[i]]
              /\ \A i \in 1 .. k : \E n \in DOMAIN back :
                    ExLanes(pipe)[i] = ExLane(n, IF i <= w THEN 1 ELSE 2)
<1> DEFINE S1 == {n \in InStage("EX") : PipeOf[n] = pipe}
           S2 == {n \in InStage("EX2") : PipeOf[n] = pipe}
           L1 == Lanes(S1, SelectiveFlush)
           L2 == Lanes(S2, SelectiveFlush)
           all == {ExLane(n, depth) : n \in DOMAIN back, depth \in 1 .. 2}
           X1 == [i \in DOMAIN L1 |-> [valid |-> TRUE, flush |-> L1[i].flush,
                                       sid |-> L1[i].sid, depth |-> 1]]
           X2 == [i \in DOMAIN L2 |-> [valid |-> TRUE, flush |-> L2[i].flush,
                                       sid |-> L2[i].sid, depth |-> 2]]
<1>1. DOMAIN back \subseteq 1 .. MaxOp /\ S1 \subseteq DOMAIN back /\ S2 \subseteq DOMAIN back
    <2>1. \A n \in 1 .. serial - 1 : n \in 1 .. MaxOp
        BY BoundsOfCore DEF CoreTypes
    <2>2. QED
        BY <2>1 DEF CoreTypes, InStage
<1>2. \A m, n \in S1 : m = n
    BY DEF StageInv
<1>3. ExLanes(pipe) = X1 \o X2
    BY DEF ExLanes
<1> HIDE DEF S1, S2
<1>4. S1 \in SUBSET (1 .. MaxOp) /\ S2 \in SUBSET (1 .. MaxOp)
    BY <1>1
<1>5. PICK k1, s1 : LaneOps(S1, SelectiveFlush, k1, s1)
    BY <1>4, LanesAre
<1>6. PICK k2, s2 : LaneOps(S2, SelectiveFlush, k2, s2)
    BY <1>4, LanesAre
<1>7. /\ k1 \in Nat /\ DOMAIN L1 = 1 .. k1 /\ k2 \in Nat /\ DOMAIN L2 = 1 .. k2
      /\ \A i \in 1 .. k1 : /\ s1[i] \in S1 /\ s1[i] \in DOMAIN back
                            /\ L1[i].flush = (s1[i] \in SelectiveFlush) /\ L1[i].sid = Sid(s1[i])
      /\ \A i \in 1 .. k2 : /\ s2[i] \in DOMAIN back
                            /\ L2[i].flush = (s2[i] \in SelectiveFlush) /\ L2[i].sid = Sid(s2[i])
      /\ \A i, j \in 1 .. k1 : i < j => s1[i] < s1[j]
    BY <1>1, <1>5, <1>6 DEF LaneOps
<1> HIDE DEF L1, L2
<1>8. k1 \in 0 .. 1
    <2>1. SUFFICES ASSUME k1 > 1 PROVE FALSE
        BY <1>7
    <2>2. 1 \in 1 .. k1 /\ 2 \in 1 .. k1 /\ 1 < 2
        BY <1>7, <2>1
    <2>3. s1[1] < s1[2] /\ s1[1] = s1[2] /\ s1[2] \in Nat
        BY <1>1, <1>2, <1>7, <2>2
    <2>4. QED
        BY <2>3
<1>9. /\ X1 = [i \in 1 .. k1 |-> X1[i]] /\ \A i \in 1 .. k1 : X1[i] = ExLane(s1[i], 1)
      /\ X2 = [i \in 1 .. k2 |-> X2[i]] /\ \A i \in 1 .. k2 : X2[i] = ExLane(s2[i], 2)
    BY <1>7 DEF ExLane
<1> HIDE DEF X1, X2
<1>10. /\ \A i \in 1 .. k1 : X1[i] \in all
       /\ \A i \in 1 .. k2 : X2[i] \in all
    BY <1>7, <1>9
<1> HIDE DEF all
<1>11. /\ X1 \in Seq(all) /\ Len(X1) = k1
       /\ X2 \in Seq(all) /\ Len(X2) = k2
    BY <1>7, <1>9, <1>10, SeqOfElements
<1> DEFINE X == X1 \o X2
<1>12. /\ X \in Seq(all) /\ Len(X) = k1 + k2
       /\ \A i \in 1 .. k1 : X[i] = X1[i]
       /\ \A i \in 1 .. k2 : X[k1 + i] = X2[i]
    <2>1. X1 \in Seq(all) /\ X2 \in Seq(all)
        BY <1>11
    <2>2. /\ X1 \o X2 \in Seq(all) /\ Len(X1 \o X2) = Len(X1) + Len(X2)
          /\ \A i \in 1 .. Len(X1) : (X1 \o X2)[i] = X1[i]
          /\ \A i \in 1 .. Len(X2) : (X1 \o X2)[Len(X1) + i] = X2[i]
        BY <2>1, ConcatElements
    <2>3. QED
        BY <1>11, <2>2
<1> HIDE DEF X
<1>13. X = [i \in 1 .. k1 + k2 |-> X[i]] /\ k1 + k2 \in Nat
    BY <1>7, <1>12
<1>14. ASSUME NEW i \in 1 .. k1 + k2
       PROVE  \E n \in DOMAIN back : X[i] = ExLane(n, IF i <= k1 THEN 1 ELSE 2)
    <2>1. CASE i <= k1
        <3>1. i \in 1 .. k1
            BY <1>7, <2>1
        <3>2. QED
            BY <1>7, <1>9, <1>12, <2>1, <3>1
    <2>2. CASE ~(i <= k1)
        <3>1. i - k1 \in 1 .. k2 /\ k1 + (i - k1) = i
            BY <1>7, <2>2
        <3>2. X[i] = ExLane(s2[i - k1], 2) /\ s2[i - k1] \in DOMAIN back
            BY <1>7, <1>9, <1>12, <3>1
        <3>3. QED
            BY <2>2, <3>2
    <2>3. QED
        BY <2>1, <2>2
<1>15. ExLanes(pipe) = X
    BY <1>3 DEF X
<1>16. QED
    BY <1>8, <1>13, <1>14, <1>15

(* The execution lanes are lanes of the back end, also of the pipelines of *)
(* which only the first stage is dumped.                                   *)
LEMMA ExLanesOfBack ==
    ASSUME CoreTypes, StageInv, NEW pipe
    PROVE  BackLanes(ExLanes(pipe)) /\ BackLanes(FirstStageOnly(ExLanes(pipe)))
<1> DEFINE lanes == ExLanes(pipe)
           first == FirstStageOnly(lanes)
<1>1. PICK k \in Nat, w \in 0 .. 1 :
              /\ lanes = [i \in 1 .. k |-> lanes[i]]
              /\ \A i \in 1 .. k : \E n \in DOMAIN back :
                    lanes[i] = ExLane(n, IF i <= w THEN 1 ELSE 2)
    BY ExLanesAre
<1> HIDE DEF lanes
<1>2. ASSUME NEW i \in 1 .. k
      PROVE  \E n \in DOMAIN back : /\ lanes[i].valid = TRUE /\ lanes[i].sid = Sid(n)
                                    /\ lanes[i].flush = (n \in SelectiveFlush)
                                    /\ lanes[i].depth = 1 => i <= w
    <2>1. PICK n \in DOMAIN back : lanes[i] = ExLane(n, IF i <= w THEN 1 ELSE 2)
        BY <1>1
    <2>2. QED
        BY <2>1 DEF ExLane
<1>3. BackLanes(lanes)
    BY <1>1, <1>2 DEF BackLanes
<1>4. DOMAIN lanes = 1 .. k
    BY <1>1
<1>5. /\ first = [i \in 1 .. k |-> first[i]]
      /\ \A i \in 1 .. k : /\ first[i].valid = (lanes[i].valid /\ lanes[i].depth = 1)
                           /\ first[i].flush = lanes[i].flush /\ first[i].sid = lanes[1].sid
    BY <1>4 DEF FirstStageOnly
<1> HIDE DEF first
<1>6. ASSUME NEW i \in 1 .. k
      PROVE  /\ first[i].valid \in BOOLEAN
             /\ first[i].valid = TRUE =>
                    \E n \in DOMAIN back : /\ first[i].sid = Sid(n)
                                           /\ first[i].flush = (n \in SelectiveFlush)
    <2>1. PICK n \in DOMAIN back : /\ lanes[i].valid = TRUE /\ lanes[i].sid = Sid(n)
                                   /\ lanes[i].flush = (n \in SelectiveFlush)
                                   /\ lanes[i].depth = 1 => i <= w
        BY <1>2
    <2>2. first[i].valid = (lanes[i].depth = 1) /\ first[i].valid \in BOOLEAN
        BY <1>5, <2>1
    <2>3. lanes[i].depth = 1 => i = 1
        BY <2>1
    <2>4. first[i].valid = TRUE => first[i].sid = Sid(n)
        BY <1>5, <2>1, <2>2, <2>3
    <2>5. first[i].flush = (n \in SelectiveFlush)
        BY <1>5, <2>1
    <2>6. QED
        BY <2>2, <2>4, <2>5
<1>7. BackLanes(first)
    BY <1>5, <1>6 DEF BackLanes
<1>8. QED
    BY <1>3, <1>7 DEF lanes, first

-----------------------------------------------------------------------------
(* The lines of a cycle between those of the fetch and of the commit stage   *)

(* The ops since the last retirement stay within the bound of the run. *)
SpanInv == serial <= LastRetired + MaxSpan

(* What the records of the driver need to know of the core *)
CoreStands == CoreTypes /\ OrderInv /\ StageInv /\ DeadInv

(* What the log needs to know of it *)
CoreHolds == CoreTypes /\ OrderInv /\ StageInv /\ DeadInv /\ SpanInv /\ SpanFits

(* Ops that have left the fetch stage *)
Decoding == front["pd"] \cup Waiting \cup front["rn"] \cup ListOps

(* The youngest retired op is older than all ops in flight. *)
LEMMA LastIsOldest ==
    ASSUME CoreTypes, OrderInv
    PROVE  /\ LastRetired \in 0 .. MaxOp /\ serial \in 1 .. MaxOp + 1
           /\ \A n \in front["if"] \cup Decoding :
                 n \in 1 .. MaxOp /\ n < serial /\ LastRetired < n
           /\ \A n \in Nat : n >= serial => LastRetired < n
<1>1. FrontFacts /\ MaxOp \in Nat /\ serial \in 1 .. MaxOp + 1
    BY FrontFactsHold, BoundsOfCore DEF CoreTypes
<1>2. /\ Len(retired) \in Nat /\ DOMAIN retired = 1 .. Len(retired)
      /\ retired \in Seq(1 .. MaxOp)
    BY DEF CoreTypes
<1>3. retired # <<>> => LastRetired \in RetiredOps
    <2>1. ASSUME retired # <<>>
          PROVE  LastRetired \in RetiredOps
        <3>1. Len(retired) \in DOMAIN retired
            BY <1>2, <2>1
        <3>2. LastRetired = retired[Len(retired)]
            BY <2>1 DEF LastRetired, LastOf
        <3>3. QED
            BY <3>1, <3>2 DEF RetiredOps
    <2>2. QED
        BY <2>1
<1>4. retired = <<>> => LastRetired = 0
    BY DEF LastRetired, LastOf
<1>5. RetiredOps \subseteq 1 .. serial - 1 /\ serial \in Nat
    BY <1>1 DEF FrontFacts
<1>6. LastRetired \in 0 .. MaxOp /\ LastRetired < serial
    <2>1. CASE retired = <<>>
        BY <1>1, <1>4, <2>1
    <2>2. CASE retired # <<>>
        <3>1. LastRetired \in 1 .. serial - 1
            BY <1>3, <1>5, <2>2
        <3>2. QED
            BY <1>1, <3>1
    <2>3. QED
        BY <2>1, <2>2
<1>7. ASSUME NEW n \in front["if"] \cup Decoding
      PROVE  n \in 1 .. MaxOp /\ n < serial /\ LastRetired < n
    <2>1. n \in 1 .. serial - 1
        BY <1>1 DEF FrontFacts, Decoding, Waiting
    <2>2. n \in 1 .. MaxOp /\ n < serial
        BY <1>1, <2>1
    <2>3. CASE retired = <<>>
        BY <1>4, <2>2, <2>3
    <2>4. CASE retired # <<>>
        BY <1>3, <2>2, <2>4 DEF OrderInv, Before, Decoding
    <2>5. QED
        BY <2>2, <2>3, <2>4
<1>8. QED
    BY <1>1, <1>6, <1>7

(* The ops in flight and those fetched next are within reach. *)
LEMMA OpsInReach ==
    ASSUME CoreTypes, OrderInv, SpanInv, SpanFits
    PROVE  /\ \A n \in front["if"] \cup Decoding : InReach(LastRetired, n)
           /\ \A c : Choice(c) => \A n \in NewOps(c) : InReach(LastRetired, n)
<1>1. /\ LastRetired \in 0 .. MaxOp /\ serial \in 1 .. MaxOp + 1 /\ MaxOp \in Nat
      /\ \A n \in front["if"] \cup Decoding :
            n \in 1 .. MaxOp /\ n < serial /\ LastRetired < n
      /\ \A n \in Nat : n >= serial => LastRetired < n
    BY LastIsOldest, BoundsOfCore
<1> DEFINE Q == OP_SERIAL_NUM \div 4
<1>2. Q \in Nat /\ MaxSpan \in Nat /\ MaxSpan <= Q /\ serial <= LastRetired + MaxSpan
    BY BoundsOfLog, CoreAssumption DEF SpanInv, SpanFits
<1>3. ASSUME NEW n \in front["if"] \cup Decoding
      PROVE  LastRetired < n /\ n < LastRetired + Q
    <2> HIDE DEF Q
    <2>1. n \in 1 .. MaxOp /\ n < serial /\ LastRetired < n
        BY <1>1
    <2>2. QED
        BY <1>1, <1>2, <2>1
<1>4. ASSUME NEW c, Choice(c), NEW n \in NewOps(c)
      PROVE  LastRetired < n /\ n < LastRetired + Q
    <2>1. n \in serial .. serial + c.fetch - 1 /\ c.fetch \in Nat
          /\ (c.fetch > 0 => serial + c.fetch <= LastRetired + MaxSpan)
        BY <1>4, FetchIsBounded DEF NewOps, LastRetired
    <2> HIDE DEF Q
    <2>2. n \in Nat /\ n >= serial /\ c.fetch > 0 /\ n < serial + c.fetch
        BY <1>1, <2>1
    <2>3. QED
        BY <1>1, <1>2, <2>1, <2>2
<1>5. QED
    BY <1>3, <1>4 DEF InReach

(* An op in a stage of the front end behind the fetch gives a good line. *)
LEMMA MiddleOk ==
    ASSUME NEW c, CoreHolds, Choice(c), NEW p, \A n \in Decoding : Shown(p, n),
           NEW n \in Decoding, NEW stage \in 1 .. 13, NEW stall \in BOOLEAN, NEW clear \in BOOLEAN,
           n \in Gone(c) <=> (clear /\ ~stall)
    PROVE  LineOk(p, LastRetired, Gone(c), n, stage, stall, clear)
<1>1. n \in 1 .. MaxOp /\ n < serial /\ InReach(LastRetired, n)
    BY LastIsOldest, OpsInReach DEF CoreHolds
<1>2. stage \in 0 .. 13 /\ stage # KS_NP
    BY DEF KS_NP
<1>3. QED
    BY <1>1, <1>2 DEF LineOk

(* An op in the back end gives a good line in every stage. *)
LEMMA BackOk ==
    ASSUME NEW c, CoreHolds, Choice(c), NEW p, \A n \in Decoding : Shown(p, n),
           NEW stage \in 1 .. 13
    PROVE  \A n \in DOMAIN back :
              LineOk(p, LastRetired, Gone(c), n, stage, FALSE, n \in SelectiveFlush)
<1>1. SUFFICES ASSUME NEW n \in DOMAIN back
               PROVE  LineOk(p, LastRetired, Gone(c), n, stage, FALSE, n \in SelectiveFlush)
    OBVIOUS
<1>2. n \in ListOps /\ n \in Decoding
    BY DEF CoreHolds, CoreTypes, Decoding
<1>3. n \in Gone(c) <=> n \in SelectiveFlush
    <2>1. n \notin dead
        BY Elsewhere DEF CoreHolds
    <2>2. CASE phase = "recover0"
        <3>1. n \in NewlyDead(c) <=> n >= flushFrom
            BY <1>2, <2>2, NewlyDeadIs DEF CoreHolds
        <3>2. QED
            BY <2>1, <2>2, <3>1 DEF Gone, SelectiveFlush
    <2>3. CASE phase # "recover0"
        <3>1. n \notin NewlyDead(c)
            BY <1>2, <2>1, <2>3, NewlyDeadIs DEF CoreHolds
        <3>2. QED
            BY <2>1, <2>3, <3>1 DEF Gone, SelectiveFlush
    <2>4. QED
        BY <2>2, <2>3
<1> DEFINE flushed == n \in SelectiveFlush
<1>4. flushed \in BOOLEAN /\ (flushed <=> n \in SelectiveFlush)
    OBVIOUS
<1> HIDE DEF flushed
<1>5. \A stall, clear \in BOOLEAN :
         (n \in Gone(c) <=> (clear /\ ~stall)) =>
            LineOk(p, LastRetired, Gone(c), n, stage, stall, clear)
    BY <1>2, MiddleOk
<1>6. LineOk(p, LastRetired, Gone(c), n, stage, FALSE, flushed)
    BY <1>3, <1>4, <1>5
<1>7. QED
    BY <1>6 DEF flushed

(* The lines flush all ops of S that die. *)
Dies(S, stage, lines, gone) ==
    \A n \in S \cap gone : StageLine(n, stage, FALSE, TRUE) \in Range(lines)

(* The lines of the pre-decoder are good and flush the ops that die there. *)
LEMMA PreDecodeGood ==
    ASSUME NEW c, CoreHolds, Choice(c), NEW p, \A n \in Decoding : Shown(p, n)
    PROVE  LET lines == PreDecodeLines(RegisterOf(c))
           IN  /\ lines \in Seq(GoodLines(p, LastRetired, Gone(c)))
               /\ Dies(front["pd"], KS_PD, lines, Gone(c))
<1> DEFINE d == RegisterOf(c)
           S == front["pd"]
           stall == Controller(c).pd.stall
           clear == Controller(c).pd.clear
           gone == Gone(c)
<1>1. /\ d.pdReg = Lanes(S, {}) /\ d.pdStagePipeCtrl.stall = stall
      /\ d.pdStagePipeCtrl.clear = clear
    BY Registers DEF RegisterIs
<1>2. /\ \A n \in S : n \in gone <=> clear /\ ~stall
      /\ stall \in BOOLEAN /\ clear \in BOOLEAN
    BY StageFlushes DEF FlushesAre, CoreHolds
<1>3. S \in SUBSET (1 .. MaxOp) /\ S \subseteq Decoding /\ serial \in 1 .. MaxOp + 1
    BY LastIsOldest DEF Decoding, CoreHolds
<1> DEFINE lines == FlattenSeq([i \in DOMAIN Lanes(S, {}) |->
                        DumpStage(KS_PD, Lanes(S, {})[i].valid, stall, clear, Lanes(S, {})[i].sid)])
<1>4. PreDecodeLines(d) = lines
    <2>1. PreDecodeLines(d) = FlattenSeq([i \in DOMAIN d.pdReg |->
              DumpStage(KS_PD, d.pdReg[i].valid, d.pdStagePipeCtrl.stall, d.pdStagePipeCtrl.clear,
                        d.pdReg[i].sid)])
        BY DEF PreDecodeLines, EachLane
    <2> HIDE DEF d, stall, clear
    <2>2. QED
        BY <1>1, <2>1
<1> HIDE DEF d, S, stall, clear, gone
<1>5. KS_PD \in 1 .. 13
    BY DEF KS_PD
<1>6. \A n \in S : LineOk(p, LastRetired, gone, n, KS_PD, stall, clear)
    BY <1>2, <1>3, <1>5, MiddleOk DEF gone
<1>7. /\ lines \in Seq(GoodLines(p, LastRetired, gone))
      /\ \A n \in S : StageLine(n, KS_PD, stall, clear) \in Range(lines)
    BY <1>3, <1>6, UniformLines
<1> HIDE DEF lines
<1>8. ASSUME NEW n \in S \cap gone
      PROVE  StageLine(n, KS_PD, FALSE, TRUE) \in Range(lines)
    <2>1. stall = FALSE /\ clear = TRUE
        BY <1>2
    <2>2. QED
        BY <1>7, <2>1
<1>9. QED
    BY <1>4, <1>7, <1>8 DEF Dies, d, S, gone

(* The same for the rename stage *)
LEMMA RenameGood ==
    ASSUME NEW c, CoreHolds, Choice(c), NEW p, \A n \in Decoding : Shown(p, n)
    PROVE  LET lines == RenameLines(RegisterOf(c))
           IN  /\ lines \in Seq(GoodLines(p, LastRetired, Gone(c)))
               /\ Dies(front["rn"], KS_RN, lines, Gone(c))
<1> DEFINE d == RegisterOf(c)
           S == front["rn"]
           stall == Controller(c).rn.stall
           clear == Controller(c).rn.clear
           gone == Gone(c)
<1>1. /\ d.rnReg = Lanes(S, {}) /\ d.rnStagePipeCtrl.stall = stall
      /\ d.rnStagePipeCtrl.clear = clear
    BY Registers DEF RegisterIs
<1>2. /\ \A n \in S : n \in gone <=> clear /\ ~stall
      /\ stall \in BOOLEAN /\ clear \in BOOLEAN
    BY StageFlushes DEF FlushesAre, CoreHolds
<1>3. S \in SUBSET (1 .. MaxOp) /\ S \subseteq Decoding /\ serial \in 1 .. MaxOp + 1
    BY LastIsOldest DEF Decoding, CoreHolds
<1> DEFINE lines == FlattenSeq([i \in DOMAIN Lanes(S, {}) |->
                        DumpStage(KS_RN, Lanes(S, {})[i].valid, stall, clear, Lanes(S, {})[i].sid)])
<1>4. RenameLines(d) = lines
    <2>1. RenameLines(d) = FlattenSeq([i \in DOMAIN d.rnReg |->
              DumpStage(KS_RN, d.rnReg[i].valid, d.rnStagePipeCtrl.stall, d.rnStagePipeCtrl.clear,
                        d.rnReg[i].sid)])
        BY DEF RenameLines, EachLane
    <2> HIDE DEF d, stall, clear
    <2>2. QED
        BY <1>1, <2>1
<1> HIDE DEF d, S, stall, clear, gone
<1>5. KS_RN \in 1 .. 13
    BY DEF KS_RN
<1>6. \A n \in S : LineOk(p, LastRetired, gone, n, KS_RN, stall, clear)
    BY <1>2, <1>3, <1>5, MiddleOk DEF gone
<1>7. /\ lines \in Seq(GoodLines(p, LastRetired, gone))
      /\ \A n \in S : StageLine(n, KS_RN, stall, clear) \in Range(lines)
    BY <1>3, <1>6, UniformLines
<1> HIDE DEF lines
<1>8. ASSUME NEW n \in S \cap gone
      PROVE  StageLine(n, KS_RN, FALSE, TRUE) \in Range(lines)
    <2>1. stall = FALSE /\ clear = TRUE
        BY <1>2
    <2>2. QED
        BY <1>7, <2>1
<1>9. QED
    BY <1>4, <1>7, <1>8 DEF Dies, d, S, gone

(* The same for the dispatch stage *)
LEMMA DispatchGood ==
    ASSUME NEW c, CoreHolds, Choice(c), NEW p, \A n \in Decoding : Shown(p, n)
    PROVE  LET lines == DispatchLines(RegisterOf(c))
           IN  /\ lines \in Seq(GoodLines(p, LastRetired, Gone(c)))
               /\ Dies(front["ds"], KS_DS, lines, Gone(c))
<1> DEFINE d == RegisterOf(c)
           S == front["ds"]
           stall == Controller(c).ds.stall
           clear == Controller(c).ds.clear
           gone == Gone(c)
<1>1. /\ d.dsReg = Lanes(S, {}) /\ d.dsStagePipeCtrl.stall = stall
      /\ d.dsStagePipeCtrl.clear = clear
    BY Registers DEF RegisterIs
<1>2. /\ \A n \in S : n \in gone <=> clear /\ ~stall
      /\ stall \in BOOLEAN /\ clear \in BOOLEAN
    BY StageFlushes DEF FlushesAre, CoreHolds
<1>3. S \in SUBSET (1 .. MaxOp) /\ S \subseteq Decoding /\ serial \in 1 .. MaxOp + 1
    BY LastIsOldest DEF Decoding, CoreHolds, StageInv
<1> DEFINE lines == FlattenSeq([i \in DOMAIN Lanes(S, {}) |->
                        DumpStage(KS_DS, Lanes(S, {})[i].valid, stall, clear, Lanes(S, {})[i].sid)])
<1>4. DispatchLines(d) = lines
    <2>1. DispatchLines(d) = FlattenSeq([i \in DOMAIN d.dsReg |->
              DumpStage(KS_DS, d.dsReg[i].valid, d.dsStagePipeCtrl.stall, d.dsStagePipeCtrl.clear,
                        d.dsReg[i].sid)])
        BY DEF DispatchLines, EachLane
    <2> HIDE DEF d, stall, clear
    <2>2. QED
        BY <1>1, <2>1
<1> HIDE DEF d, S, stall, clear, gone
<1>5. KS_DS \in 1 .. 13
    BY DEF KS_DS
<1>6. \A n \in S : LineOk(p, LastRetired, gone, n, KS_DS, stall, clear)
    BY <1>2, <1>3, <1>5, MiddleOk DEF gone
<1>7. /\ lines \in Seq(GoodLines(p, LastRetired, gone))
      /\ \A n \in S : StageLine(n, KS_DS, stall, clear) \in Range(lines)
    BY <1>3, <1>6, UniformLines
<1> HIDE DEF lines
<1>8. ASSUME NEW n \in S \cap gone
      PROVE  StageLine(n, KS_DS, FALSE, TRUE) \in Range(lines)
    <2>1. stall = FALSE /\ clear = TRUE
        BY <1>2
    <2>2. QED
        BY <1>7, <2>1
<1>9. QED
    BY <1>4, <1>7, <1>8 DEF Dies, d, S, gone

(* The same for the decode stage, where the ops that were picked from a    *)
(* group have left, and for the labels                                     *)
LEMMA DecodeGood ==
    ASSUME NEW c, CoreHolds, Choice(c), NEW p, \A n \in Decoding : Shown(p, n)
    PROVE  LET d == RegisterOf(c)
               G == GoodLines(p, LastRetired, Gone(c))
           IN  /\ DecodeLines(d) \in Seq(G)
               /\ Dies(Waiting, KS_ID, DecodeLines(d), Gone(c))
               /\ LabelLines(d) \in Seq(G)
<1> DEFINE d == RegisterOf(c)
           s == Ascending(front["id"])
           k == Cardinality(front["id"])
           stall == Controller(c).id.stall /\ ~StallByDecodeStage(c)
           clear == Controller(c).id.clear
           gone == Gone(c)
           G == GoodLines(p, LastRetired, gone)
<1>1. /\ d.idReg = IdLanes /\ d.idStagePipeCtrl.stall = Controller(c).id.stall
      /\ d.idStagePipeCtrl.clear = clear /\ d.stallByDecodeStage = StallByDecodeStage(c)
    BY Registers DEF RegisterIs
<1>2. /\ \A n \in Waiting : n \in gone <=> (clear \/ n \in InsnFlushed) /\ ~stall
      /\ stall \in BOOLEAN /\ clear \in BOOLEAN
    BY StageFlushes DEF FlushesAre, CoreHolds
<1>3. MaxOp \in Nat /\ \A n \in front["id"] : n \in 0 .. MaxOp
    BY FrontFactsHold, BoundsOfCore DEF FrontFacts, CoreHolds, CoreTypes
<1>4. /\ k \in Nat /\ s \in [1 .. k -> front["id"]]
      /\ \A n \in front["id"] : \E i \in 1 .. k : s[i] = n
    BY <1>3, AscendingFacts
<1>5. IdLanes = [i \in DOMAIN s |-> [valid |-> s[i] \notin picked,
                             flush |-> s[i] \in InsnFlushed, sid |-> Sid(s[i])]]
    BY DEF IdLanes
<1>6. Waiting \subseteq Decoding /\ serial \in 1 .. MaxOp + 1
      /\ \A n \in Waiting : n \in 1 .. MaxOp /\ n \in 1 .. serial - 1
    BY LastIsOldest DEF Decoding, CoreHolds
<1> HIDE DEF s, k, d, stall, clear, gone, G
<1> DEFINE lanes == d.idReg
<1>7. /\ DOMAIN lanes = 1 .. k
      /\ \A i \in 1 .. k : /\ lanes[i].valid = (s[i] \notin picked) /\ lanes[i].sid = Sid(s[i])
                           /\ lanes[i].flush = (s[i] \in InsnFlushed)
                           /\ s[i] \in front["id"]
    <2>1. DOMAIN s = 1 .. k
        BY <1>4
    <2>2. QED
        BY <1>1, <1>4, <1>5, <2>1
<1> HIDE DEF lanes
<1> DEFINE F == [i \in DOMAIN lanes |->
                    DumpStage(KS_ID, lanes[i].valid, stall, clear \/ lanes[i].flush, lanes[i].sid)]
           E == [i \in DOMAIN lanes |->
                    IF lanes[i].valid THEN DumpInsnCode(lanes[i].sid) ELSE <<>>]
<1>8. DecodeLines(d) = FlattenSeq(F) /\ LabelLines(d) = FlattenSeq(E)
    <2>1. DecodeLines(d) = FlattenSeq([i \in DOMAIN d.idReg |->
             DumpStage(KS_ID, d.idReg[i].valid, d.idStagePipeCtrl.stall /\ ~d.stallByDecodeStage,
                       d.idStagePipeCtrl.clear \/ d.idReg[i].flush, d.idReg[i].sid)])
        BY DEF DecodeLines, EachLane
    <2>2. (d.idStagePipeCtrl.stall /\ ~d.stallByDecodeStage) = stall
        BY <1>1 DEF stall
    <2>3. DecodeLines(d) = FlattenSeq(F)
        BY <1>1, <2>1, <2>2 DEF lanes
    <2>4. LabelLines(d) = FlattenSeq(E)
        BY DEF LabelLines, EachLane, lanes
    <2>5. QED
        BY <2>3, <2>4
<1>9. F = [i \in 1 .. k |-> F[i]] /\ E = [i \in 1 .. k |-> E[i]]
    BY <1>7
<1>10. ASSUME NEW i \in 1 .. k, s[i] \in picked
       PROVE  F[i] = <<>> /\ E[i] = <<>>
    BY <1>7, <1>10 DEF DumpStage
<1>11. ASSUME NEW i \in 1 .. k, s[i] \notin picked
       PROVE  /\ s[i] \in Waiting
              /\ F[i] = <<StageLine(s[i], KS_ID, stall, clear \/ s[i] \in InsnFlushed)>>
              /\ E[i] = <<LabelLine(s[i])>>
    <2>1. /\ lanes[i].valid = TRUE /\ lanes[i].sid = Sid(s[i])
          /\ lanes[i].flush = (s[i] \in InsnFlushed)
        BY <1>7, <1>11
    <2>2. s[i] \in Waiting
        BY <1>7, <1>11 DEF Waiting
    <2>3. /\ F[i] = DumpStage(KS_ID, lanes[i].valid, stall, clear \/ lanes[i].flush, lanes[i].sid)
          /\ E[i] = IF lanes[i].valid THEN DumpInsnCode(lanes[i].sid) ELSE <<>>
        BY <1>7
    <2> HIDE DEF F, E
    <2>4. QED
        BY <2>1, <2>2, <2>3 DEF DumpStage, DumpInsnCode, StageLine, LabelLine
<1> HIDE DEF F, E
<1>12. ASSUME NEW n \in Waiting
       PROVE  /\ StageLine(n, KS_ID, stall, clear \/ n \in InsnFlushed) \in G
              /\ LabelLine(n) \in G
    <2> DEFINE cleared == clear \/ n \in InsnFlushed
    <2>1. cleared \in BOOLEAN /\ (n \in gone <=> (cleared /\ ~stall)) /\ KS_ID \in 1 .. 13
        BY <1>2 DEF KS_ID
    <2> HIDE DEF cleared
    <2>2. LineOk(p, LastRetired, gone, n, KS_ID, stall, cleared)
        BY <1>2, <1>6, <2>1, MiddleOk DEF gone
    <2>3. StageLine(n, KS_ID, stall, cleared) \in G
        BY <1>6, <2>2, LineOkIsGood DEF G
    <2>4. LabelLine(n) \in AllLines
        BY <1>6 DEF AllLines
    <2>8. n \in Decoding /\ InReach(LastRetired, n)
        BY OpsInReach DEF CoreHolds, Decoding
    <2>5. LabelOfShown(LabelLine(n), p, LastRetired)
        BY <1>6, <2>8 DEF LabelOfShown
    <2>6. LabelLine(n) \in G
        BY <2>4, <2>5 DEF G, GoodLines
    <2>7. QED
        BY <2>3, <2>6 DEF cleared
<1>13. /\ \A i \in 1 .. k : F[i] = <<>> \/ \E line \in G : F[i] = <<line>>
       /\ \A i \in 1 .. k : E[i] = <<>> \/ \E line \in G : E[i] = <<line>>
    BY <1>10, <1>11, <1>12
<1>14. /\ FlattenSeq(F) \in Seq(G)
       /\ \A i \in 1 .. k, line \in G : F[i] = <<line>> => line \in Range(FlattenSeq(F))
    BY <1>4, <1>9, <1>13, LanesFlatten
<1>15. FlattenSeq(E) \in Seq(G)
    BY <1>4, <1>9, <1>13, LanesFlatten
<1>16. ASSUME NEW n \in Waiting \cap gone
       PROVE  StageLine(n, KS_ID, FALSE, TRUE) \in Range(FlattenSeq(F))
    <2>1. stall = FALSE /\ (clear \/ n \in InsnFlushed) = TRUE
        BY <1>2
    <2>2. n \in front["id"] /\ n \notin picked
        BY DEF Waiting
    <2>3. PICK i \in 1 .. k : s[i] = n
        BY <1>4, <2>2
    <2>4. F[i] = <<StageLine(n, KS_ID, FALSE, TRUE)>>
        <3>1. F[i] = <<StageLine(n, KS_ID, stall, clear \/ n \in InsnFlushed)>>
            BY <1>11, <2>2, <2>3
        <3>2. QED
            BY <2>1, <3>1
    <2>5. StageLine(n, KS_ID, FALSE, TRUE) \in G
        <3>1. StageLine(n, KS_ID, stall, clear \/ n \in InsnFlushed) \in G
            BY <1>12
        <3>2. QED
            BY <2>1, <3>1
    <2>6. QED
        BY <1>14, <2>4, <2>5
<1>17. QED
    BY <1>8, <1>14, <1>15, <1>16 DEF Dies, d, gone, G

(* The lines of every stage of the back end are good. *)
LEMMA BackEndGood ==
    ASSUME NEW c, CoreHolds, Choice(c), NEW p, \A n \in Decoding : Shown(p, n)
    PROVE  LET d == RegisterOf(c)
               G == GoodLines(p, LastRetired, Gone(c))
           IN  /\ ScheduleLines(d) \in Seq(G) /\ IssueLines(d) \in Seq(G)
               /\ RegisterReadLines(d) \in Seq(G) /\ ExecutionLines(d) \in Seq(G)
               /\ TagAccessLines(d) \in Seq(G) /\ MemoryAccessLines(d) \in Seq(G)
               /\ RegisterWriteLines(d) \in Seq(G)
<1> DEFINE d == RegisterOf(c)
           gone == Gone(c)
           G == GoodLines(p, LastRetired, gone)
<1>1. RegisterIs(d, c)
    BY Registers
<1>2. d.backEndPipeCtrl.stall = FALSE
    BY <1>1 DEF RegisterIs, Go, Ctrl
<1>3. DOMAIN back \subseteq 1 .. MaxOp /\ serial \in 1 .. MaxOp + 1
    <2>1. DOMAIN back \subseteq Decoding
        BY DEF CoreHolds, CoreTypes, Decoding
    <2>2. QED
        BY <2>1, LastIsOldest DEF CoreHolds
<1>4. ASSUME NEW stage \in 1 .. 13
      PROVE  \A n \in DOMAIN back : LineOk(p, LastRetired, gone, n, stage, FALSE, n \in SelectiveFlush)
    BY BackOk
<1>5. /\ KS_SC \in 1 .. 13 /\ KS_IS \in 1 .. 13 /\ KS_RR \in 1 .. 13 /\ KS_EX \in 1 .. 13
      /\ KS_MT \in 1 .. 13 /\ KS_MA \in 1 .. 13 /\ KS_RW \in 1 .. 13
    BY DEF KS_SC, KS_IS, KS_RR, KS_EX, KS_MT, KS_MA, KS_RW
<1>6. \A st : InStage(st) \in SUBSET DOMAIN back
    BY DEF InStage
<1>7. c.reissue \in SUBSET DOMAIN back
    BY <1>6 DEF Choice, AtMostOne
<1>8. /\ BackLanes(d.scheduler) /\ BackLanes(d.mtReg) /\ BackLanes(d.maReg)
    <2>1. \A S \in SUBSET DOMAIN back : BackLanes(Lanes(S, SelectiveFlush))
        BY <1>3, LanesOfBack
    <2> HIDE DEF d
    <2>2. QED
        BY <1>1, <1>6, <2>1 DEF RegisterIs
<1>9. \A pipe \in Range(Pipes) : /\ BackLanes(d.isReg[pipe]) /\ BackLanes(d.rrReg[pipe])
                                 /\ BackLanes(d.rwReg[pipe])
    <2>1. \A S \in SUBSET DOMAIN back : \A pipe \in Range(Pipes) : BackLanes(PipeLanes(S)[pipe])
        BY <1>3, PipeLanesOfBack
    <2>2. (IF c.reissue = {} THEN InStage("IS") ELSE c.reissue) \in SUBSET DOMAIN back
        BY <1>6, <1>7
    <2> HIDE DEF d
    <2>3. QED
        BY <1>1, <1>6, <2>1, <2>2 DEF RegisterIs
<1>10. \A pipe \in Range(Pipes) : BackLanes(d.exReg[pipe])
    <2>1. \A pipe : BackLanes(ExLanes(pipe)) /\ BackLanes(FirstStageOnly(ExLanes(pipe)))
        BY ExLanesOfBack DEF CoreHolds
    <2> HIDE DEF d
    <2>2. QED
        BY <1>1, <2>1 DEF RegisterIs
<1> HIDE DEF d, gone
<1>11. ASSUME NEW stage \in 1 .. 13, NEW lanes, BackLanes(lanes)
       PROVE  BackEndLines(d, stage, lanes) \in Seq(G)
    <2>1. \A n \in DOMAIN back : LineOk(p, LastRetired, gone, n, stage, FALSE, n \in SelectiveFlush)
        BY <1>4
    <2>2. QED
        BY <1>2, <1>3, <1>11, <2>1, BackLines
<1>12. ASSUME NEW stage \in 1 .. 13, NEW regs, \A pipe \in Range(Pipes) : BackLanes(regs[pipe])
       PROVE  PipeLines(d, stage, regs) \in Seq(G)
    <2>1. \A n \in DOMAIN back : LineOk(p, LastRetired, gone, n, stage, FALSE, n \in SelectiveFlush)
        BY <1>4
    <2>2. QED
        BY <1>2, <1>3, <1>12, <2>1, PipeLinesGood
<1> HIDE DEF G
<1>13. /\ ScheduleLines(d) \in Seq(G) /\ TagAccessLines(d) \in Seq(G)
       /\ MemoryAccessLines(d) \in Seq(G)
    BY <1>5, <1>8, <1>11 DEF ScheduleLines, TagAccessLines, MemoryAccessLines
<1>14. /\ IssueLines(d) \in Seq(G) /\ RegisterReadLines(d) \in Seq(G)
       /\ RegisterWriteLines(d) \in Seq(G) /\ ExecutionLines(d) \in Seq(G)
    BY <1>5, <1>9, <1>10, <1>12
       DEF IssueLines, RegisterReadLines, RegisterWriteLines, ExecutionLines
<1>15. QED
    BY <1>13, <1>14 DEF d, gone, G

-----------------------------------------------------------------------------
(* The lines of the next pc, of the fetch and of the commit stage            *)

(* The lines of the next pc stage announce every fetched op. *)
LEMMA NextPCGood ==
    ASSUME NEW c, CoreHolds, Choice(c), NEW p
    PROVE  LET lines == NextPCLines(RegisterOf(c))
           IN  /\ lines \in Seq(GoodLines(p, LastRetired, dead))
               /\ \A n \in NewOps(c) : StageLine(n, KS_NP, FALSE, FALSE) \in Range(lines)
<1> DEFINE d == RegisterOf(c)
           S == NewOps(c)
           stall == Controller(c).np.stall
           clear == Controller(c).np.clear
<1>1. /\ d.npReg = Lanes(S, {}) /\ d.npStagePipeCtrl.stall = stall
      /\ d.npStagePipeCtrl.clear = clear
    BY Registers DEF RegisterIs
<1>2. S # {} => stall = FALSE /\ clear = FALSE
    <2>1. S # {} => Controller(c).np = Go
        BY StageFlushes DEF FlushesAre, CoreHolds
    <2>2. QED
        BY <2>1 DEF Go, Ctrl
<1>3. /\ serial \in 1 .. MaxOp + 1
      /\ \A n \in S : n \in 1 .. MaxOp /\ n >= serial /\ n \notin dead /\ InReach(LastRetired, n)
    <2>1. MaxOp \in Nat /\ FrontFacts
        BY BoundsOfCore, FrontFactsHold DEF CoreHolds
    <2>2. LET num == Cardinality(NewOps(c))
          IN  /\ num \in Nat /\ serial + num \in serial .. MaxOp + 1
              /\ S = serial .. serial + num - 1
        BY NewOpsFacts DEF CoreHolds
    <2>3. PICK num \in Nat : serial + num \in serial .. MaxOp + 1 /\ S = serial .. serial + num - 1
        BY <2>2
    <2>4. serial \in Nat /\ serial > 0 /\ dead \subseteq 1 .. serial - 1
        BY <2>1 DEF FrontFacts
    <2>5. \A n \in S : n \in 1 .. MaxOp /\ n >= serial /\ n \notin dead /\ n \in Nat
        BY <2>1, <2>3, <2>4
    <2>6. \A n \in S : InReach(LastRetired, n)
        BY OpsInReach DEF CoreHolds
    <2>7. serial \in 1 .. MaxOp + 1
        BY DEF CoreHolds, CoreTypes
    <2>8. QED
        BY <2>5, <2>6, <2>7
<1> DEFINE lines == FlattenSeq([i \in DOMAIN Lanes(S, {}) |->
                        DumpStage(KS_NP, Lanes(S, {})[i].valid, stall, clear, Lanes(S, {})[i].sid)])
<1>4. NextPCLines(d) = lines
    <2>1. NextPCLines(d) = FlattenSeq([i \in DOMAIN d.npReg |->
              DumpStage(KS_NP, d.npReg[i].valid, d.npStagePipeCtrl.stall, d.npStagePipeCtrl.clear,
                        d.npReg[i].sid)])
        BY DEF NextPCLines, EachLane
    <2> HIDE DEF d, stall, clear
    <2>2. QED
        BY <1>1, <2>1
<1> HIDE DEF d, S, stall, clear
<1>5. \A n \in S : LineOk(p, LastRetired, dead, n, KS_NP, stall, clear)
    <2>1. SUFFICES ASSUME NEW n \in S
                   PROVE  LineOk(p, LastRetired, dead, n, KS_NP, stall, clear)
        OBVIOUS
    <2>2. stall = FALSE /\ clear = FALSE /\ n \in 1 .. MaxOp /\ n >= serial /\ n \notin dead
          /\ InReach(LastRetired, n)
        BY <1>2, <1>3
    <2>3. PICK stage \in 0 .. 13 : stage = KS_NP
        BY DEF KS_NP
    <2>4. LineOk(p, LastRetired, dead, n, stage, FALSE, FALSE)
        BY <2>2, <2>3 DEF LineOk
    <2>5. QED
        BY <2>2, <2>3, <2>4
<1>6. S \in SUBSET (1 .. MaxOp)
    BY <1>3
<1>7. /\ lines \in Seq(GoodLines(p, LastRetired, dead))
      /\ \A n \in S : StageLine(n, KS_NP, stall, clear) \in Range(lines)
    BY <1>3, <1>5, <1>6, UniformLines
<1> HIDE DEF lines
<1>8. \A n \in S : StageLine(n, KS_NP, FALSE, FALSE) \in Range(lines)
    BY <1>2, <1>7
<1>9. QED
    BY <1>4, <1>7, <1>8 DEF d, S

(* The lines of the fetch stage show every op in it, or end one that dies  *)
(* before it was ever shown.                                               *)
LEMMA FetchParsed ==
    ASSUME NEW c, CoreHolds, Choice(c), NEW p, Sound(p, LastRetired, Gone(c)),
           \A n \in front["if"] : Known(p, n)
    PROVE  LET lines == FetchLines(RegisterOf(c))
               q == ParseCycle(p, lines)
           IN  /\ lines \in Seq(AllLines)
               /\ Sound(q, LastRetired, Gone(c)) /\ Further(p, q, Gone(c))
               /\ \A n \in front["if"] : IF n \in Gone(c) THEN Gid(n) \in Told(q) ELSE Shown(q, n)
<1> DEFINE d == RegisterOf(c)
           S == front["if"]
           stall == Controller(c).if.stall
           clear == Controller(c).if.clear
           gone == Gone(c)
<1>1. /\ d.ifReg = Lanes(S, FetchFlushed) /\ d.ifStagePipeCtrl.stall = stall
      /\ d.ifStagePipeCtrl.clear = clear
    BY Registers DEF RegisterIs
<1>2. /\ \A n \in S : n \in gone <=> /\ clear \/ n \in FetchFlushed
                                     /\ ~(stall /\ n \notin FetchFlushed)
      /\ stall \in BOOLEAN /\ clear \in BOOLEAN
    BY StageFlushes DEF FlushesAre, CoreHolds
<1>3. /\ serial \in 1 .. MaxOp + 1 /\ LastRetired \in 0 .. MaxOp
      /\ \A n \in S : n \in 1 .. MaxOp /\ n \in 1 .. serial - 1 /\ InReach(LastRetired, n)
    <2>1. \A n \in S : InReach(LastRetired, n)
        BY OpsInReach DEF CoreHolds
    <2>2. QED
        BY <2>1, LastIsOldest DEF CoreHolds
<1>4. S \in SUBSET (1 .. MaxOp) /\ gone \in SUBSET (1 .. MaxOp) /\ script \in Scripts
    <2>1. gone \subseteq 1 .. serial - 1
        BY NewlyDeadIs, FrontFactsHold DEF Gone, CoreHolds, FrontFacts
    <2>2. \A n \in 1 .. serial - 1 : n \in 1 .. MaxOp
        BY <1>3, BoundsOfCore
    <2>3. QED
        BY <1>3, <2>1, <2>2 DEF CoreHolds, CoreTypes
<1>5. PICK k, s : LaneOps(S, FetchFlushed, k, s)
    BY <1>4, LanesAre
<1> HIDE DEF d, S, stall, clear, gone
<1> DEFINE lanes == d.ifReg
           x == [i \in 1 .. k |-> StageLine(s[i], KS_IF, stall /\ s[i] \notin FetchFlushed,
                                            clear \/ s[i] \in FetchFlushed)]
           F == [i \in DOMAIN lanes |->
                    DumpStage(KS_IF, lanes[i].valid, stall /\ ~lanes[i].flush,
                              clear \/ lanes[i].flush, lanes[i].sid)]
<1>6. /\ k \in Nat /\ s \in [1 .. k -> S] /\ DOMAIN lanes = 1 .. k
      /\ \A i, j \in 1 .. k : i < j => s[i] < s[j]
      /\ \A n \in S : \E i \in 1 .. k : s[i] = n
      /\ \A i \in 1 .. k : /\ lanes[i].valid = TRUE /\ lanes[i].sid = Sid(s[i])
                           /\ lanes[i].flush = (s[i] \in FetchFlushed)
    BY <1>1, <1>5 DEF LaneOps
<1> HIDE DEF lanes
<1>7. FetchLines(d) = FlattenSeq(F)
    <2>1. FetchLines(d) = FlattenSeq([i \in DOMAIN d.ifReg |->
              DumpStage(KS_IF, d.ifReg[i].valid, d.ifStagePipeCtrl.stall /\ ~d.ifReg[i].flush,
                        d.ifStagePipeCtrl.clear \/ d.ifReg[i].flush, d.ifReg[i].sid)])
        BY DEF FetchLines, EachLane
    <2>2. QED
        BY <1>1, <2>1 DEF lanes
<1>8. x \in [1 .. k -> AllLines]
    <2>1. ASSUME NEW i \in 1 .. k
          PROVE  StageLine(s[i], KS_IF, stall /\ s[i] \notin FetchFlushed,
                           clear \/ s[i] \in FetchFlushed) \in AllLines
        <3>1. s[i] \in 1 .. MaxOp /\ KS_IF \in 0 .. 14
            BY <1>3, <1>6 DEF KS_IF
        <3> DEFINE st == stall /\ s[i] \notin FetchFlushed
                   cl == clear \/ s[i] \in FetchFlushed
        <3>2. st \in BOOLEAN /\ cl \in BOOLEAN
            BY <1>2
        <3> HIDE DEF st, cl
        <3>3. StageLine(s[i], KS_IF, st, cl) \in AllLines
            BY <3>1, <3>2 DEF AllLines
        <3>4. QED
            BY <3>3 DEF st, cl
    <2>2. QED
        BY <2>1
<1>9. F = [i \in 1 .. k |-> <<x[i]>>]
    BY <1>6 DEF DumpStage, StageLine
<1>10. \A i \in 1 .. k : x[i] = StageLine(s[i], KS_IF, stall /\ s[i] \notin FetchFlushed,
                                          clear \/ s[i] \in FetchFlushed)
    OBVIOUS
<1> HIDE DEF x, F
<1>11. FetchLines(d) = x
    <2>1. FlattenSeq([i \in 1 .. k |-> <<x[i]>>]) = x
        BY <1>6, <1>8, FlattenSingles
    <2>2. QED
        BY <1>7, <1>9, <2>1
<1>12. x \in Seq(AllLines) /\ DOMAIN x = 1 .. k
    BY <1>6, <1>8
<1>13. s \in [1 .. k -> 1 .. serial - 1]
    BY <1>3, <1>6
<1>14. \A i, j \in 1 .. k : s[i] = s[j] => i = j
    <2>1. ASSUME NEW i \in 1 .. k, NEW j \in 1 .. k, s[i] = s[j], i # j
          PROVE  FALSE
        <3>1. s[i] \in Nat /\ s[j] \in Nat /\ (i < j \/ j < i)
            BY <1>3, <1>6, <2>1
        <3>2. QED
            BY <1>6, <2>1, <3>1
    <2>2. QED
        BY <2>1
<1>15. ASSUME NEW i \in 1 .. k
       PROVE  /\ Known(p, s[i]) /\ InReach(LastRetired, s[i])
              /\ s[i] \in gone => x[i] = StageLine(s[i], KS_IF, FALSE, TRUE)
              /\ s[i] \notin gone => \E st, cl \in BOOLEAN :
                    ~(cl /\ ~st) /\ x[i] = StageLine(s[i], KS_IF, st, cl)
    <2> DEFINE st == stall /\ s[i] \notin FetchFlushed
               cl == clear \/ s[i] \in FetchFlushed
    <2>1. s[i] \in S
        BY <1>6
    <2>2. Known(p, s[i]) /\ InReach(LastRetired, s[i])
        BY <1>3, <2>1 DEF S
    <2>3. /\ st \in BOOLEAN /\ cl \in BOOLEAN /\ x[i] = StageLine(s[i], KS_IF, st, cl)
          /\ s[i] \in gone <=> (cl /\ ~st)
        BY <1>2, <1>10, <2>1
    <2> HIDE DEF st, cl
    <2>4. s[i] \in gone => x[i] = StageLine(s[i], KS_IF, FALSE, TRUE)
        <3>1. s[i] \in gone => st = FALSE /\ cl = TRUE
            BY <2>3
        <3>2. QED
            BY <2>3, <3>1
    <2>5. QED
        BY <2>2, <2>3, <2>4
<1>16. LET q == ParseCycle(p, x)
       IN  /\ Sound(q, LastRetired, gone) /\ Further(p, q, gone)
           /\ \A i \in 1 .. k : IF s[i] \in gone THEN Gid(s[i]) \in Told(q) ELSE Shown(q, s[i])
    <2>1. Sound(p, LastRetired, gone)
        BY DEF gone
    <2>2. k \in Nat /\ DOMAIN x = 1 .. k
        BY <1>6, <1>12
    <2>3. \A i \in 1 .. k : Known(p, s[i]) /\ InReach(LastRetired, s[i])
        BY <1>15
    <2>4. \A i \in 1 .. k : s[i] \in gone => x[i] = StageLine(s[i], KS_IF, FALSE, TRUE)
        BY <1>15
    <2>5. \A i \in 1 .. k : s[i] \notin gone => \E stt, clr \in BOOLEAN :
                    ~(clr /\ ~stt) /\ x[i] = StageLine(s[i], KS_IF, stt, clr)
        BY <1>15
    <2> HIDE DEF lanes
    <2>6. QED
        BY <1>3, <1>4, <1>13, <1>14, <2>1, <2>2, <2>3, <2>4, <2>5, FetchFold
<1>17. \A n \in S : LET q == ParseCycle(p, x)
                    IN  IF n \in gone THEN Gid(n) \in Told(q) ELSE Shown(q, n)
    BY <1>6, <1>16
<1>18. QED
    BY <1>11, <1>12, <1>16, <1>17 DEF d, S, gone

(* The lines of the commit stage: commits, or entries taken back *)
LEMMA CommitLinesAre ==
    ASSUME NEW c, CoreHolds
    PROVE  CommitLines(RegisterOf(c)) =
              [i \in 1 .. commitNum + FlushNum |->
                  IF i <= commitNum THEN StageLine(al[i].op, KS_CM, FALSE, FALSE)
                  ELSE StageLine(al[Len(al) + 1 - (i - commitNum)].op, KS_WC, FALSE, TRUE)]
<1> DEFINE d == RegisterOf(c)
           A == [i \in 1 .. commitNum |-> [commit |-> TRUE, flush |-> FALSE, sid |-> Sid(al[i].op)]]
           B == [i \in 1 .. FlushNum |->
                    [commit |-> FALSE, flush |-> TRUE, sid |-> Sid(al[Len(al) + 1 - i].op)]]
           k == commitNum + FlushNum
           lanes == d.cmReg
           x == [i \in 1 .. k |->
                  IF i <= commitNum THEN StageLine(al[i].op, KS_CM, FALSE, FALSE)
                  ELSE StageLine(al[Len(al) + 1 - (i - commitNum)].op, KS_WC, FALSE, TRUE)]
           all == {A[i] : i \in 1 .. commitNum} \cup {B[i] : i \in 1 .. FlushNum}
<1>1. commitNum \in Nat /\ FlushNum \in Nat
    BY FlushNumFacts DEF CoreHolds
<1>2. d.cmReg = A \o B
    BY Registers DEF RegisterIs, CmLanes
<1>3. /\ A = [i \in 1 .. commitNum |-> A[i]] /\ B = [i \in 1 .. FlushNum |-> B[i]]
      /\ \A i \in 1 .. commitNum : /\ A[i].commit = TRUE /\ A[i].flush = FALSE
                                   /\ A[i].sid = Sid(al[i].op)
      /\ \A i \in 1 .. FlushNum : B[i].flush = TRUE /\ B[i].sid = Sid(al[Len(al) + 1 - i].op)
    OBVIOUS
<1> HIDE DEF A, B
<1>4. (\A i \in 1 .. commitNum : A[i] \in all) /\ (\A i \in 1 .. FlushNum : B[i] \in all)
    OBVIOUS
<1> HIDE DEF all, d
<1>5. /\ A \in Seq(all) /\ Len(A) = commitNum /\ B \in Seq(all) /\ Len(B) = FlushNum
    <2>1. A \in Seq(all) /\ Len(A) = commitNum
        BY <1>1, <1>3, <1>4, SeqOfElements
    <2>2. B \in Seq(all) /\ Len(B) = FlushNum
        BY <1>1, <1>3, <1>4, SeqOfElements
    <2>3. QED
        BY <2>1, <2>2
<1>6. /\ lanes \in Seq(all) /\ Len(lanes) = k
      /\ \A i \in 1 .. commitNum : lanes[i] = A[i]
      /\ \A i \in 1 .. FlushNum : lanes[commitNum + i] = B[i]
    <2>1. A \in Seq(all) /\ B \in Seq(all)
        BY <1>5
    <2>2. /\ A \o B \in Seq(all) /\ Len(A \o B) = Len(A) + Len(B)
          /\ \A i \in 1 .. Len(A) : (A \o B)[i] = A[i]
          /\ \A i \in 1 .. Len(B) : (A \o B)[Len(A) + i] = B[i]
        BY <2>1, ConcatElements
    <2>3. QED
        BY <1>2, <1>5, <2>2
<1>7. DOMAIN lanes = 1 .. k /\ k \in Nat
    BY <1>1, <1>6
<1> DEFINE F == [i \in DOMAIN lanes |->
                    IF lanes[i].flush THEN DumpStage(KS_WC, TRUE, FALSE, TRUE, lanes[i].sid)
                    ELSE DumpStage(KS_CM, lanes[i].commit, FALSE, FALSE, lanes[i].sid)]
<1>8. CommitLines(d) = FlattenSeq(F)
    BY DEF CommitLines, EachLane
<1> HIDE DEF lanes, k
<1>9. ASSUME NEW i \in 1 .. k
      PROVE  F[i] = <<x[i]>>
    <2>1. F[i] = IF lanes[i].flush THEN DumpStage(KS_WC, TRUE, FALSE, TRUE, lanes[i].sid)
                 ELSE DumpStage(KS_CM, lanes[i].commit, FALSE, FALSE, lanes[i].sid)
        BY <1>7
    <2>2. x[i] = IF i <= commitNum THEN StageLine(al[i].op, KS_CM, FALSE, FALSE)
                 ELSE StageLine(al[Len(al) + 1 - (i - commitNum)].op, KS_WC, FALSE, TRUE)
        OBVIOUS
    <2> HIDE DEF F, x
    <2>3. CASE i <= commitNum
        <3>1. i \in 1 .. commitNum
            BY <1>1, <1>7, <2>3
        <3>2. lanes[i].flush = FALSE /\ lanes[i].commit = TRUE /\ lanes[i].sid = Sid(al[i].op)
            BY <1>3, <1>6, <3>1
        <3>3. QED
            BY <2>1, <2>2, <2>3, <3>2 DEF DumpStage, StageLine
    <2>4. CASE ~(i <= commitNum)
        <3> DEFINE j == i - commitNum
        <3>1. j \in 1 .. FlushNum /\ commitNum + j = i
            BY <1>1, <1>7, <2>4 DEF k
        <3> HIDE DEF j
        <3>2. lanes[i].flush = TRUE /\ lanes[i].sid = Sid(al[Len(al) + 1 - j].op)
            BY <1>3, <1>6, <3>1
        <3>3. x[i] = StageLine(al[Len(al) + 1 - j].op, KS_WC, FALSE, TRUE)
            BY <2>2, <2>4 DEF j
        <3>4. QED
            BY <2>1, <3>2, <3>3 DEF DumpStage, StageLine
    <2>5. QED
        BY <2>3, <2>4
<1>10. F = [i \in 1 .. k |-> <<x[i]>>]
    <2>1. F = [i \in 1 .. k |-> F[i]]
        BY <1>7
    <2> HIDE DEF F, x
    <2>2. QED
        BY <1>9, <2>1
<1> DEFINE range == {x[i] : i \in 1 .. k}
<1>11. x \in [1 .. k -> range]
    OBVIOUS
<1> HIDE DEF F, x, range
<1>12. FlattenSeq([i \in 1 .. k |-> <<x[i]>>]) = x
    BY <1>7, <1>11, FlattenSingles
<1>13. CommitLines(d) = x
    BY <1>8, <1>10, <1>12
<1>14. QED
    BY <1>13 DEF d, x, k

-----------------------------------------------------------------------------
(* The parser after the lines of a cycle, up to those of the commit stage    *)

(* After the lines of A the parser that began in p0 is as good as q0, and  *)
(* has taken the lines of T.                                               *)
Reached(p0, A, q0, T, gone) ==
    LET q == ParseCycle(p0, A)
    IN  /\ A \in Seq(AllLines)
        /\ Sound(q, LastRetired, gone) /\ Further(q0, q, gone)
        /\ \A line \in T : Taken(q, line, LastRetired, gone)

(* Good lines are lines. *)
LEMMA GoodAreLines ==
    ASSUME NEW p, NEW last, NEW gone, NEW s \in Seq(GoodLines(p, last, gone))
    PROVE  s \in Seq(AllLines)
<1>1. GoodLines(p, last, gone) \subseteq AllLines
    BY DEF GoodLines
<1>2. QED
    BY <1>1

(* Good lines take the parser further. *)
LEMMA GoodAppend ==
    ASSUME CoreTypes, OrderInv, NEW gone \in SUBSET (1 .. MaxOp),
           NEW p0, NEW A, NEW q0, NEW T, Reached(p0, A, q0, T, gone),
           NEW B \in Seq(GoodLines(q0, LastRetired, gone))
    PROVE  Reached(p0, A \o B, q0, T \cup Range(B), gone)
<1> DEFINE q == ParseCycle(p0, A)
           r == ParseCycle(q, B)
<1>1. /\ A \in Seq(AllLines) /\ Sound(q, LastRetired, gone) /\ Further(q0, q, gone)
      /\ \A line \in T : Taken(q, line, LastRetired, gone)
    BY DEF Reached
<1>2. B \in Seq(AllLines)
    BY GoodAreLines
<1>3. A \o B \in Seq(AllLines) /\ ParseCycle(p0, A \o B) = r
    BY <1>1, <1>2, ParseConcat
<1>4. script \in Scripts /\ LastRetired \in 0 .. MaxOp /\ serial \in 1 .. MaxOp + 1
    BY LastIsOldest DEF CoreTypes
<1> HIDE DEF q
<1>5. B \in Seq(GoodLines(q, LastRetired, gone))
    <2>1. GoodLines(q0, LastRetired, gone) \subseteq GoodLines(q, LastRetired, gone)
        BY <1>1, GoodStays
    <2>2. QED
        BY <2>1
<1>6. /\ Sound(r, LastRetired, gone) /\ Further(q, r, gone)
      /\ \A line \in Range(B) : Taken(r, line, LastRetired, gone)
    BY <1>1, <1>4, <1>5, GoodFold
<1> HIDE DEF r
<1>7. Further(q0, r, gone)
    BY <1>1, <1>6, FurtherOn
<1>8. \A line \in T : Taken(r, line, LastRetired, gone)
    BY <1>1, <1>6, TakenStays
<1>9. QED
    BY <1>3, <1>6, <1>7, <1>8 DEF Reached

(* Dead ops whose line is taken are told. *)
LEMMA DiesTold ==
    ASSUME NEW S \in SUBSET (1 .. MaxOp), \A n \in S : InReach(LastRetired, n), NEW stage \in 1 .. 13, NEW lines, NEW gone, NEW q,
           Dies(S, stage, lines, gone), \A line \in Range(lines) : Taken(q, line, LastRetired, gone)
    PROVE  \A n \in S \cap gone : Gid(n) \in Told(q)
<1>1. SUFFICES ASSUME NEW n \in S \cap gone
               PROVE  Gid(n) \in Told(q)
    OBVIOUS
<1>2. StageLine(n, stage, FALSE, TRUE) \in Range(lines)
    BY DEF Dies
<1>3. Taken(q, StageLine(n, stage, FALSE, TRUE), LastRetired, gone)
    BY <1>2
<1> DEFINE line == StageLine(n, stage, FALSE, TRUE)
<1>4. Taken(q, line, LastRetired, gone) /\ line = StageLine(n, stage, FALSE, TRUE) /\ n \in 1 .. MaxOp
      /\ InReach(LastRetired, n)
    BY <1>3
<1> HIDE DEF line
<1>5. QED
    BY <1>4 DEF Taken

(* The parser follows the core: it knows every op that is under way, and   *)
(* has told of those that are dead, but for entries still to be taken back *)
(* from the active list.                                                   *)
LogHolds ==
    /\ Sound(log, LastRetired, dead)
    /\ log.committed = Len(retired) /\ log.retireEvents = Gids(RetiredOps)
    /\ \A n \in dead : Gid(n) \in Told(log) \/ n \in ListOps
    /\ \A n \in front["if"] : Known(log, n)
    /\ \A n \in Decoding : Shown(log, n)

(* The lines of the next pc and the fetch stage *)
UpToFetch(d) == NextPCLines(d) \o FetchLines(d)

(* Dead ops have been fetched. *)
LEMMA GoneIsPast ==
    ASSUME NEW c, CoreHolds, Choice(c)
    PROVE  /\ Gone(c) \in SUBSET (1 .. MaxOp) /\ dead \in SUBSET (1 .. MaxOp)
           /\ dead \subseteq Gone(c) /\ Gone(c) \subseteq 1 .. serial - 1
           /\ \A n \in 1 .. serial - 1 : n \in 1 .. MaxOp
<1>1. NewlyDead(c) \subseteq 1 .. serial - 1
    BY NewlyDeadIs DEF CoreHolds
<1>2. dead \subseteq 1 .. serial - 1 /\ serial \in 1 .. MaxOp + 1
    BY DEF CoreHolds, CoreTypes
<1>3. \A n \in 1 .. serial - 1 : n \in 1 .. MaxOp
    BY <1>2, BoundsOfCore
<1>4. QED
    BY <1>1, <1>2, <1>3 DEF Gone

(* A parser that is sound for few dead ops is sound for more. *)
LEMMA WeakerSound ==
    ASSUME NEW p, NEW last, NEW small, NEW large, small \subseteq large, Sound(p, last, small)
    PROVE  Sound(p, last, large)
<1>1. Gids(small) \subseteq Gids(large)
    BY DEF Gids
<1>2. QED
    BY <1>1 DEF Sound

(* The same for what it takes back *)
LEMMA WeakerFurther ==
    ASSUME NEW p, NEW q, NEW small, NEW large, small \subseteq large, Further(p, q, small)
    PROVE  Further(p, q, large)
BY DEF Further

(* After the lines of the fetch stage the parser shows or has ended every  *)
(* op in flight.                                                           *)
LEMMA FrontParsed ==
    ASSUME NEW c, CoreHolds, Choice(c), LogHolds
    PROVE  LET A == UpToFetch(RegisterOf(c))
               q == ParseCycle(log, A)
           IN  /\ A \in Seq(AllLines)
               /\ Sound(q, LastRetired, Gone(c)) /\ Further(log, q, Gone(c))
               /\ \A n \in front["if"] : IF n \in Gone(c) THEN Gid(n) \in Told(q) ELSE Shown(q, n)
               /\ \A n \in NewOps(c) : Known(q, n)
               /\ \A n \in Decoding : Shown(q, n)
<1> DEFINE d  == RegisterOf(c)
           np == NextPCLines(d)
           if == FetchLines(d)
           q1 == ParseCycle(log, np)
           q2 == ParseCycle(q1, if)
           gone == Gone(c)
<1>1. /\ script \in Scripts /\ LastRetired \in 0 .. MaxOp /\ serial \in 1 .. MaxOp + 1
      /\ dead \in SUBSET (1 .. MaxOp) /\ Sound(log, LastRetired, dead)
    BY LastIsOldest, GoneIsPast DEF CoreHolds, CoreTypes, LogHolds
<1>2. /\ np \in Seq(GoodLines(log, LastRetired, dead))
      /\ \A n \in NewOps(c) : StageLine(n, KS_NP, FALSE, FALSE) \in Range(np)
    BY NextPCGood
<1> HIDE DEF np
<1>3. /\ Sound(q1, LastRetired, dead) /\ Further(log, q1, dead)
      /\ \A line \in Range(np) : Taken(q1, line, LastRetired, dead)
    BY <1>1, <1>2, GoodFold
<1> HIDE DEF q1
<1>4. \A n \in NewOps(c) : Known(q1, n)
    <2>1. SUFFICES ASSUME NEW n \in NewOps(c)
                   PROVE  Known(q1, n)
        OBVIOUS
    <2>2. n \in 1 .. MaxOp /\ n \notin dead
        <3>1. LET num == Cardinality(NewOps(c))
              IN  num \in Nat /\ serial + num \in serial .. MaxOp + 1
                  /\ NewOps(c) = serial .. serial + num - 1
            BY NewOpsFacts DEF CoreHolds
        <3>2. PICK num \in Nat : /\ serial + num \in serial .. MaxOp + 1
                                 /\ NewOps(c) = serial .. serial + num - 1
            BY <3>1
        <3>3. dead \subseteq 1 .. serial - 1
            BY DEF CoreHolds, CoreTypes
        <3>4. QED
            BY <1>1, <3>2, <3>3, BoundsOfCore
    <2> DEFINE line == StageLine(n, KS_NP, FALSE, FALSE)
    <2>3. Taken(q1, line, LastRetired, dead) /\ line = StageLine(n, KS_NP, FALSE, FALSE)
        BY <1>2, <1>3
    <2>5. InReach(LastRetired, n)
        BY OpsInReach DEF CoreHolds
    <2> HIDE DEF line
    <2>4. QED
        BY <2>2, <2>3, <2>5 DEF Taken
<1>5. dead \subseteq gone /\ \A n \in NewOps(c) : n \in 1 .. MaxOp /\ n \notin gone
    <2>1. LET num == Cardinality(NewOps(c))
          IN  num \in Nat /\ serial + num \in serial .. MaxOp + 1
              /\ NewOps(c) = serial .. serial + num - 1
        BY NewOpsFacts DEF CoreHolds
    <2>2. PICK num \in Nat : /\ serial + num \in serial .. MaxOp + 1
                             /\ NewOps(c) = serial .. serial + num - 1
        BY <2>1
    <2>3. gone \subseteq 1 .. serial - 1 /\ dead \subseteq gone
        BY GoneIsPast
    <2>4. QED
        BY <1>1, <2>2, <2>3, BoundsOfCore
<1>6. Sound(q1, LastRetired, gone) /\ Further(log, q1, gone)
    BY <1>3, <1>5, WeakerSound, WeakerFurther
<1>7. \A n \in front["if"] : Known(q1, n)
    <2>1. \A n \in front["if"] : n \in 1 .. MaxOp /\ n \notin dead /\ Known(log, n)
        BY LastIsOldest DEF CoreHolds, DeadInv, LogHolds
    <2>2. QED
        BY <1>3, <2>1 DEF Further
<1>8. /\ if \in Seq(AllLines)
      /\ Sound(q2, LastRetired, gone) /\ Further(q1, q2, gone)
      /\ \A n \in front["if"] : IF n \in gone THEN Gid(n) \in Told(q2) ELSE Shown(q2, n)
    BY <1>6, <1>7, FetchParsed
<1>9. np \in Seq(AllLines)
    BY <1>2, GoodAreLines
<1>10. UpToFetch(d) \in Seq(AllLines) /\ ParseCycle(log, UpToFetch(d)) = q2
    <2>1. UpToFetch(d) = np \o if
        BY DEF UpToFetch, np
    <2> HIDE DEF if
    <2>2. np \o if \in Seq(AllLines) /\ ParseCycle(log, np \o if) = ParseCycle(ParseCycle(log, np), if)
        BY <1>8, <1>9, ParseConcat
    <2>3. QED
        BY <2>1, <2>2 DEF q1
<1> HIDE DEF q2, if
<1>11. Further(log, q2, gone)
    BY <1>6, <1>8, FurtherOn
<1>12. \A n \in NewOps(c) : Known(q2, n)
    BY <1>4, <1>5, <1>8 DEF Further
<1>13. \A n \in Decoding : Shown(q2, n)
    <2>1. \A n \in Decoding : n \in 1 .. serial - 1 /\ Shown(log, n)
        <3>1. \A n \in Decoding : n \in 1 .. MaxOp /\ n < serial
            BY LastIsOldest DEF CoreHolds
        <3>2. QED
            BY <1>1, <3>1, BoundsOfCore DEF LogHolds
    <2>2. QED
        BY <1>11, <2>1 DEF Further
<1>14. QED
    BY <1>8, <1>10, <1>11, <1>12, <1>13 DEF d, gone

(* The lines of a cycle up to those of the commit stage *)
UpToWrite(d) ==
    UpToFetch(d) \o PreDecodeLines(d) \o DecodeLines(d) \o LabelLines(d) \o RenameLines(d)
      \o DispatchLines(d) \o ScheduleLines(d) \o IssueLines(d) \o RegisterReadLines(d)
      \o ExecutionLines(d) \o TagAccessLines(d) \o MemoryAccessLines(d) \o RegisterWriteLines(d)

(* What the parser knows before the lines of the commit stage *)
BeforeCommit(c, q) ==
    /\ Sound(q, LastRetired, Gone(c)) /\ Further(log, q, Gone(c))
    /\ \A n \in front["if"] : IF n \in Gone(c) THEN Gid(n) \in Told(q) ELSE Shown(q, n)
    /\ \A n \in NewOps(c) : Known(q, n)
    /\ \A n \in Decoding : Shown(q, n)
    /\ \A n \in front["pd"] \cup Waiting \cup front["rn"] \cup front["ds"] :
          n \in Gone(c) => Gid(n) \in Told(q)

(* After them the parser has ended every op of the front end that died in  *)
(* the cycle.                                                              *)
LEMMA StagesParsed ==
    ASSUME NEW c, CoreHolds, Choice(c), LogHolds
    PROVE  LET A == UpToWrite(RegisterOf(c))
           IN  A \in Seq(AllLines) /\ BeforeCommit(c, ParseCycle(log, A))
<1> DEFINE d  == RegisterOf(c)
           A0 == UpToFetch(d)
           q0 == ParseCycle(log, A0)
           gone == Gone(c)
           G == GoodLines(q0, LastRetired, gone)
           pd == PreDecodeLines(d)
           id == DecodeLines(d)
           lb == LabelLines(d)
           rn == RenameLines(d)
           ds == DispatchLines(d)
           sc == ScheduleLines(d)
           is == IssueLines(d)
           rr == RegisterReadLines(d)
           ex == ExecutionLines(d)
           mt == TagAccessLines(d)
           ma == MemoryAccessLines(d)
           rw == RegisterWriteLines(d)
           T == Range(pd) \cup Range(id) \cup Range(rn) \cup Range(ds)
<1>1. /\ A0 \in Seq(AllLines)
      /\ Sound(q0, LastRetired, gone) /\ Further(log, q0, gone)
      /\ \A n \in front["if"] : IF n \in gone THEN Gid(n) \in Told(q0) ELSE Shown(q0, n)
      /\ \A n \in NewOps(c) : Known(q0, n)
      /\ \A n \in Decoding : Shown(q0, n)
    BY FrontParsed
<1>2. /\ gone \in SUBSET (1 .. MaxOp) /\ CoreTypes /\ OrderInv
      /\ \A n \in 1 .. serial - 1 : n \in 1 .. MaxOp
    BY GoneIsPast DEF CoreHolds
<1>3. Reached(log, A0, q0, {}, gone)
    <2>1. Further(q0, q0, gone)
        BY FurtherOn
    <2>2. QED
        BY <1>1, <2>1 DEF Reached
<1> HIDE DEF q0
<1>4. pd \in Seq(G) /\ Dies(front["pd"], KS_PD, pd, gone)
    BY <1>1, PreDecodeGood
<1>5. id \in Seq(G) /\ Dies(Waiting, KS_ID, id, gone) /\ lb \in Seq(G)
    BY <1>1, DecodeGood
<1>6. rn \in Seq(G) /\ Dies(front["rn"], KS_RN, rn, gone)
    BY <1>1, RenameGood
<1>7. ds \in Seq(G) /\ Dies(front["ds"], KS_DS, ds, gone)
    BY <1>1, DispatchGood
<1>8. /\ sc \in Seq(G) /\ is \in Seq(G) /\ rr \in Seq(G) /\ ex \in Seq(G)
      /\ mt \in Seq(G) /\ ma \in Seq(G) /\ rw \in Seq(G)
    BY <1>1, BackEndGood
<1> DEFINE A1 == A0 \o pd
           A2 == A1 \o id
           A3 == A2 \o lb
           A4 == A3 \o rn
           A5 == A4 \o ds
           A6 == A5 \o sc
           A7 == A6 \o is
           A8 == A7 \o rr
           A9 == A8 \o ex
           A10 == A9 \o mt
           A11 == A10 \o ma
           A12 == A11 \o rw
           T1 == {} \cup Range(pd)
           T2 == T1 \cup Range(id)
           T3 == T2 \cup Range(lb)
           T4 == T3 \cup Range(rn)
           T5 == T4 \cup Range(ds)
           T6 == T5 \cup Range(sc)
           T7 == T6 \cup Range(is)
           T8 == T7 \cup Range(rr)
           T9 == T8 \cup Range(ex)
           T10 == T9 \cup Range(mt)
           T11 == T10 \cup Range(ma)
           T12 == T11 \cup Range(rw)
<1>9. UpToWrite(d) = A12
    BY DEF UpToWrite
<1>10. T \subseteq T12
    OBVIOUS
<1> HIDE DEF A0, pd, id, lb, rn, ds, sc, is, rr, ex, mt, ma, rw, gone, T
<1>11. Reached(log, A1, q0, T1, gone)
    BY <1>2, <1>3, <1>4, GoodAppend
<1> HIDE DEF A1, T1
<1>12. Reached(log, A2, q0, T2, gone)
    BY <1>2, <1>11, <1>5, GoodAppend
<1> HIDE DEF A2, T2
<1>13. Reached(log, A3, q0, T3, gone)
    BY <1>2, <1>12, <1>5, GoodAppend
<1> HIDE DEF A3, T3
<1>14. Reached(log, A4, q0, T4, gone)
    BY <1>2, <1>13, <1>6, GoodAppend
<1> HIDE DEF A4, T4
<1>15. Reached(log, A5, q0, T5, gone)
    BY <1>2, <1>14, <1>7, GoodAppend
<1> HIDE DEF A5, T5
<1>16. Reached(log, A6, q0, T6, gone)
    BY <1>2, <1>15, <1>8, GoodAppend
<1> HIDE DEF A6, T6
<1>17. Reached(log, A7, q0, T7, gone)
    BY <1>2, <1>16, <1>8, GoodAppend
<1> HIDE DEF A7, T7
<1>18. Reached(log, A8, q0, T8, gone)
    BY <1>2, <1>17, <1>8, GoodAppend
<1> HIDE DEF A8, T8
<1>19. Reached(log, A9, q0, T9, gone)
    BY <1>2, <1>18, <1>8, GoodAppend
<1> HIDE DEF A9, T9
<1>20. Reached(log, A10, q0, T10, gone)
    BY <1>2, <1>19, <1>8, GoodAppend
<1> HIDE DEF A10, T10
<1>21. Reached(log, A11, q0, T11, gone)
    BY <1>2, <1>20, <1>8, GoodAppend
<1> HIDE DEF A11, T11
<1>22. Reached(log, A12, q0, T12, gone)
    BY <1>2, <1>21, <1>8, GoodAppend
<1> HIDE DEF A12, T12
<1> DEFINE q == ParseCycle(log, A12)
<1>23. /\ A12 \in Seq(AllLines) /\ Sound(q, LastRetired, gone) /\ Further(q0, q, gone)
       /\ \A line \in T : Taken(q, line, LastRetired, gone)
    BY <1>10, <1>22 DEF Reached
<1> HIDE DEF q
<1>24. Further(log, q, gone)
    BY <1>1, <1>23, FurtherOn
<1>25. \A n \in front["if"] : IF n \in gone THEN Gid(n) \in Told(q) ELSE Shown(q, n)
    <2>1. \A n \in front["if"] : n \in 1 .. serial - 1
        BY FrontFactsHold DEF CoreHolds, FrontFacts
    <2>2. QED
        BY <1>1, <1>23, <2>1 DEF Further
<1>26. \A n \in NewOps(c) : Known(q, n)
    <2>1. \A n \in NewOps(c) : n \in 1 .. MaxOp /\ n \notin gone
        <3>1. LET num == Cardinality(NewOps(c))
              IN  /\ num \in Nat /\ serial + num \in serial .. MaxOp + 1
                  /\ NewOps(c) = serial .. serial + num - 1
            BY NewOpsFacts DEF CoreHolds
        <3>2. PICK num \in Nat : /\ serial + num \in serial .. MaxOp + 1
                                 /\ NewOps(c) = serial .. serial + num - 1
            BY <3>1
        <3>3. gone \subseteq 1 .. serial - 1 /\ serial \in 1 .. MaxOp + 1
            BY GoneIsPast DEF gone, CoreHolds, CoreTypes
        <3>4. QED
            BY <3>2, <3>3, BoundsOfCore
    <2>2. QED
        BY <1>1, <1>23, <2>1 DEF Further
<1>27. \A n \in Decoding : Shown(q, n) /\ n \in 1 .. MaxOp
    <2>1. \A n \in Decoding : n \in 1 .. MaxOp /\ n < serial /\ serial \in 1 .. MaxOp + 1
        BY LastIsOldest DEF CoreHolds
    <2>2. \A n \in Decoding : n \in 1 .. serial - 1
        BY <2>1, BoundsOfCore
    <2>3. QED
        BY <1>1, <1>23, <2>1, <2>2 DEF Further
<1>28. \A n \in front["pd"] \cup Waiting \cup front["rn"] \cup front["ds"] :
          n \in gone => Gid(n) \in Told(q)
    <2>1. /\ front["pd"] \in SUBSET (1 .. MaxOp) /\ Waiting \in SUBSET (1 .. MaxOp)
          /\ front["rn"] \in SUBSET (1 .. MaxOp) /\ front["ds"] \in SUBSET (1 .. MaxOp)
        <3>1. front["ds"] \subseteq Decoding
            BY DEF CoreHolds, StageInv, Decoding
        <3>2. QED
            BY <1>27, <3>1 DEF Decoding
    <2>9. /\ \A n \in front["pd"] : InReach(LastRetired, n)
          /\ \A n \in Waiting : InReach(LastRetired, n)
          /\ \A n \in front["rn"] : InReach(LastRetired, n)
          /\ \A n \in front["ds"] : InReach(LastRetired, n)
        <3>1. front["ds"] \subseteq Decoding
            BY DEF CoreHolds, StageInv, Decoding
        <3>2. \A n \in Decoding : InReach(LastRetired, n)
            BY OpsInReach DEF CoreHolds
        <3>3. QED
            BY <3>1, <3>2 DEF Decoding
    <2>2. /\ \A line \in Range(pd) : Taken(q, line, LastRetired, gone)
          /\ \A line \in Range(id) : Taken(q, line, LastRetired, gone)
          /\ \A line \in Range(rn) : Taken(q, line, LastRetired, gone)
          /\ \A line \in Range(ds) : Taken(q, line, LastRetired, gone)
        BY <1>23 DEF T
    <2>3. KS_PD \in 1 .. 13 /\ KS_ID \in 1 .. 13 /\ KS_RN \in 1 .. 13 /\ KS_DS \in 1 .. 13
        BY DEF KS_PD, KS_ID, KS_RN, KS_DS
    <2>4. \A n \in front["pd"] \cap gone : Gid(n) \in Told(q)
        BY <1>4, <2>1, <2>2, <2>3, <2>9, DiesTold
    <2>5. \A n \in Waiting \cap gone : Gid(n) \in Told(q)
        BY <1>5, <2>1, <2>2, <2>3, <2>9, DiesTold
    <2>6. \A n \in front["rn"] \cap gone : Gid(n) \in Told(q)
        BY <1>6, <2>1, <2>2, <2>3, <2>9, DiesTold
    <2>7. \A n \in front["ds"] \cap gone : Gid(n) \in Told(q)
        BY <1>7, <2>1, <2>2, <2>3, <2>9, DiesTold
    <2>8. QED
        BY <2>4, <2>5, <2>6, <2>7
<1>29. BeforeCommit(c, q)
    BY <1>23, <1>24, <1>25, <1>26, <1>27, <1>28 DEF BeforeCommit, gone
<1>30. QED
    BY <1>9, <1>23, <1>29 DEF q, d

(* What the lines of the commit stage tell the parser: the commits of the  *)
(* cycle, or the entries that a recovery takes back                        *)
CommitsTold(c, p, q) ==
    /\ Sound(q, IF commitNum = 0 THEN LastRetired ELSE al[commitNum].op, Gone(c))
    /\ Told(p) \subseteq Told(q)
    /\ q.committed = p.committed + commitNum
    /\ q.retireEvents = p.retireEvents \cup {Gid(n) : n \in Committed}
    /\ \A m \in 1 .. MaxOp :
          m \notin Gone(c) /\ (\A n \in Committed : n < m) /\ Known(p, m) => Known(q, m)
    /\ \A m \in 1 .. serial - 1 :
          (\A n \in Committed : n < m) /\ Shown(p, m) => Shown(q, m)
    /\ \A n \in ListOps : n \in KeptOps \/ n \in Committed \/ Gid(n) \in Told(q)

(* The lines of the commit stage in a cycle in which no op retires: the    *)
(* dead ops of the list are flushed.                                       *)
LEMMA TakenBackTold ==
    ASSUME NEW c, CoreHolds, Choice(c), NEW p, Sound(p, LastRetired, Gone(c)), commitNum = 0,
           p.committed \in Nat, \A n \in Decoding : Shown(p, n)
    PROVE  LET lines == CommitLines(RegisterOf(c))
           IN  lines \in Seq(AllLines) /\ CommitsTold(c, p, ParseCycle(p, lines))
<1> DEFINE x == [i \in 1 .. FlushNum |-> StageLine(al[Len(al) + 1 - i].op, KS_WC, FALSE, TRUE)]
           gone == Gone(c)
           G == GoodLines(p, LastRetired, gone)
           q == ParseCycle(p, x)
<1>1. /\ CoreTypes /\ OrderInv /\ StageInv /\ DeadInv /\ SpanInv /\ SpanFits
      /\ script \in Scripts /\ LastRetired \in 0 .. MaxOp /\ serial \in 1 .. MaxOp + 1
    BY LastIsOldest DEF CoreHolds, CoreTypes
<1>2. /\ FlushNum \in Nat /\ FlushNum <= DeadInList /\ FlushNum <= Len(al)
      /\ FlushNum > 0 => phase = "recover1"
      /\ Len(al) \in Nat /\ DOMAIN al = 1 .. Len(al)
    <2>1. commitNum + FlushNum <= Len(al) /\ FlushNum \in Nat /\ FlushNum <= DeadInList
          /\ (FlushNum > 0 => phase = "recover1")
        BY <1>1, FlushNumFacts
    <2>2. al \in Seq(ListEntries)
        BY <1>1 DEF CoreTypes
    <2>3. QED
        BY <2>1, <2>2, EntriesOf
<1>3. CommitLines(RegisterOf(c)) = x
    <2> DEFINE y == [i \in 1 .. commitNum + FlushNum |->
                  IF i <= commitNum THEN StageLine(al[i].op, KS_CM, FALSE, FALSE)
                  ELSE StageLine(al[Len(al) + 1 - (i - commitNum)].op, KS_WC, FALSE, TRUE)]
    <2>1. CommitLines(RegisterOf(c)) = y
        BY CommitLinesAre
    <2>2. 1 .. commitNum + FlushNum = 1 .. FlushNum
        BY <1>2
    <2>3. ASSUME NEW i \in 1 .. FlushNum
          PROVE  y[i] = StageLine(al[Len(al) + 1 - i].op, KS_WC, FALSE, TRUE)
        <3>1. ~(i <= commitNum) /\ i - commitNum = i /\ i \in 1 .. commitNum + FlushNum
            BY <1>2
        <3>2. QED
            BY <3>1
    <2>4. y = [i \in 1 .. FlushNum |-> y[i]]
        BY <2>2
    <2> HIDE DEF y
    <2>5. y = x
        BY <2>3, <2>4
    <2>6. QED
        BY <2>1, <2>5
<1>4. ASSUME NEW i \in 1 .. FlushNum
      PROVE  LET n == al[Len(al) + 1 - i].op
             IN  /\ n \in 1 .. MaxOp /\ n \in 1 .. serial - 1 /\ n \in gone
                 /\ InReach(LastRetired, n)
                 /\ Shown(p, n)
    <2> DEFINE j == Len(al) + 1 - i
               n == al[j].op
    <2>1. DeadInList \in 0 .. Len(al) /\ DeadEntries = Len(al) - DeadInList + 1 .. Len(al)
        BY <1>1, DeadEntriesAreLast
    <2>2. j \in DeadEntries /\ j \in DOMAIN al
        BY <1>2, <2>1
    <2>3. n \in ListOps
        BY <2>2 DEF ListOps
    <2>4. phase = "recover1" /\ n >= flushFrom
        BY <1>2, <2>2 DEF DeadEntries, Dead
    <2>5. n \in dead
        BY <1>1, <2>3, <2>4 DEF DeadInv
    <2>6. n \in Decoding
        BY <2>3 DEF Decoding
    <2>7. n \in 1 .. MaxOp /\ n < serial /\ InReach(LastRetired, n)
        BY <1>1, <2>6, LastIsOldest, OpsInReach
    <2>8. n \in gone /\ Shown(p, n)
        BY <2>5, <2>6 DEF Gone
    <2> HIDE DEF n
    <2>9. n \in 1 .. serial - 1
        BY <1>1, <2>7, BoundsOfCore
    <2>10. QED
        BY <2>7, <2>8, <2>9 DEF n
<1>5. ASSUME NEW i \in 1 .. FlushNum
      PROVE  x[i] \in G
    <2> DEFINE n == al[Len(al) + 1 - i].op
               line == StageLine(n, KS_WC, FALSE, TRUE)
    <2>1. x[i] = line
        OBVIOUS
    <2>2. /\ n \in 1 .. MaxOp /\ n \in 1 .. serial - 1 /\ n \in gone
          /\ InReach(LastRetired, n) /\ Shown(p, n)
        BY <1>4
    <2> HIDE DEF n, x
    <2>3. PICK stage \in 1 .. 13 : stage = KS_WC /\ stage \in 0 .. 14
        BY DEF KS_WC
    <2>4. PICK stall \in BOOLEAN, clear \in BOOLEAN : stall = FALSE /\ clear = TRUE
        OBVIOUS
    <2>5. line = StageLine(n, stage, stall, clear) /\ line = StageLine(n, stage, FALSE, TRUE)
        BY <2>3, <2>4
    <2> HIDE DEF line
    <2>6. line \in AllLines
        <3>1. n \in 1 .. MaxOp /\ stage \in 0 .. 14 /\ stall \in BOOLEAN /\ clear \in BOOLEAN
            BY <2>2, <2>3, <2>4
        <3>2. StageLine(n, stage, stall, clear) \in AllLines
            BY <3>1 DEF AllLines
        <3>3. QED
            BY <2>5, <3>2
    <2>7. FlushOfShown(line, p, LastRetired, gone)
        BY <2>2, <2>5 DEF FlushOfShown
    <2>8. QED
        BY <2>1, <2>6, <2>7 DEF GoodLines
<1>6. x = [i \in 1 .. FlushNum |-> x[i]] /\ DOMAIN x = 1 .. FlushNum
      /\ \A i \in 1 .. FlushNum : x[i] = StageLine(al[Len(al) + 1 - i].op, KS_WC, FALSE, TRUE)
    OBVIOUS
<1> HIDE DEF x, G, gone
<1>7. x \in Seq(G)
    BY <1>2, <1>5, <1>6, SeqOfElements
<1>8. gone \in SUBSET (1 .. MaxOp) /\ Sound(p, LastRetired, gone)
    BY GoneIsPast DEF gone
<1>9. /\ Sound(q, LastRetired, gone) /\ Further(p, q, gone)
      /\ \A line \in Range(x) : Taken(q, line, LastRetired, gone)
    BY <1>1, <1>7, <1>8, GoodFold DEF G
<1>10. x \in Seq(AllLines)
    BY <1>7, GoodAreLines DEF G
<1> HIDE DEF q
<1>11. Committed = {}
    BY DEF Committed
<1>12. ASSUME NEW n \in ListOps, n \notin KeptOps
       PROVE  Gid(n) \in Told(q)
    <2>1. PICK k \in DOMAIN al : n = al[k].op
        BY DEF ListOps
    <2>2. k \notin 1 .. Len(al) - FlushNum
        BY <1>12, <2>1 DEF KeptOps
    <2> DEFINE i == Len(al) + 1 - k
    <2>3. i \in 1 .. FlushNum /\ Len(al) + 1 - i = k
        BY <1>2, <2>1, <2>2
    <2> HIDE DEF i
    <2>4. x[i] = StageLine(n, KS_WC, FALSE, TRUE) /\ n \in 1 .. MaxOp /\ InReach(LastRetired, n)
        BY <1>4, <1>6, <2>1, <2>3
    <2>5. x[i] \in Range(x)
        BY <1>6, <2>3 DEF Range
    <2>6. PICK stage \in 1 .. 13 : stage = KS_WC
        BY DEF KS_WC
    <2> DEFINE line == x[i]
    <2>7. Taken(q, line, LastRetired, gone) /\ line = StageLine(n, stage, FALSE, TRUE)
        BY <1>9, <2>4, <2>5, <2>6
    <2> HIDE DEF line
    <2>8. QED
        BY <2>4, <2>7 DEF Taken
<1>13. q.committed = p.committed + commitNum /\ Told(p) \subseteq Told(q)
       /\ q.retireEvents = p.retireEvents
    BY <1>9 DEF Further
<1>14. {Gid(n) : n \in Committed} = {}
    BY <1>11
<1>15. CommitsTold(c, p, q)
    <2>1. \A m \in 1 .. MaxOp : m \notin Gone(c) /\ Known(p, m) => Known(q, m)
        BY <1>9 DEF Further, gone
    <2>2. \A m \in 1 .. serial - 1 : Shown(p, m) => Shown(q, m)
        BY <1>9 DEF Further
    <2>3. Sound(q, IF commitNum = 0 THEN LastRetired ELSE al[commitNum].op, Gone(c))
        BY <1>9 DEF gone
    <2>4. q.retireEvents = p.retireEvents \cup {Gid(n) : n \in Committed}
        BY <1>13, <1>14
    <2>5. QED
        BY <1>12, <1>13, <2>1, <2>2, <2>3, <2>4 DEF CommitsTold
<1>16. QED
    BY <1>3, <1>10, <1>15 DEF q

(* The lines of the commit stage in a cycle in which ops retire: each      *)
(* retires, in order.                                                      *)
LEMMA CommittedTold ==
    ASSUME NEW c, CoreHolds, Choice(c), NEW p, Sound(p, LastRetired, Gone(c)), commitNum # 0,
           p.committed \in Nat, \A n \in Decoding : Shown(p, n)
    PROVE  LET lines == CommitLines(RegisterOf(c))
           IN  lines \in Seq(AllLines) /\ CommitsTold(c, p, ParseCycle(p, lines))
<1> DEFINE k == commitNum
           s == [i \in 1 .. k |-> al[i].op]
           x == [i \in 1 .. k |-> StageLine(s[i], KS_CM, FALSE, FALSE)]
           gone == Gone(c)
           q == ParseCycle(p, x)
<1>1. /\ CoreTypes /\ OrderInv /\ StageInv /\ DeadInv /\ SpanInv /\ SpanFits
      /\ script \in Scripts /\ LastRetired \in 0 .. MaxOp /\ serial \in 1 .. MaxOp + 1
    BY LastIsOldest DEF CoreHolds, CoreTypes
<1>2. k \in Nat /\ k > 0 /\ FlushNum = 0 /\ phase = "commit" /\ k <= Len(al)
      /\ Len(al) \in Nat /\ DOMAIN al = 1 .. Len(al)
    <2>1. /\ commitNum + FlushNum <= Len(al) /\ FlushNum \in Nat /\ commitNum \in Nat
          /\ (FlushNum > 0 => phase = "recover1" /\ commitNum = 0)
          /\ (commitNum > 0 => phase = "commit")
        BY <1>1, FlushNumFacts
    <2>2. al \in Seq(ListEntries)
        BY <1>1 DEF CoreTypes
    <2>3. QED
        BY <2>1, <2>2, EntriesOf
<1>3. CommitLines(RegisterOf(c)) = x
    <2> DEFINE y == [i \in 1 .. commitNum + FlushNum |->
                  IF i <= commitNum THEN StageLine(al[i].op, KS_CM, FALSE, FALSE)
                  ELSE StageLine(al[Len(al) + 1 - (i - commitNum)].op, KS_WC, FALSE, TRUE)]
    <2>1. CommitLines(RegisterOf(c)) = y
        BY CommitLinesAre
    <2>2. commitNum + FlushNum = k
        BY <1>2
    <2>3. ASSUME NEW i \in 1 .. k
          PROVE  y[i] = StageLine(al[i].op, KS_CM, FALSE, FALSE)
        <3>1. i <= commitNum /\ i \in 1 .. commitNum + FlushNum
            BY <1>2
        <3>2. QED
            BY <3>1
    <2>4. y = [i \in 1 .. k |-> y[i]]
        BY <2>2
    <2> HIDE DEF y
    <2>5. y = x
        BY <2>3, <2>4
    <2>6. QED
        BY <2>1, <2>5
<1>4. Committed = {s[i] : i \in 1 .. k}
    BY DEF Committed
<1>5. ASSUME NEW i \in 1 .. k
      PROVE  /\ s[i] \in 1 .. MaxOp /\ InReach(LastRetired, s[i]) /\ s[i] \notin gone /\ Known(p, s[i])
             /\ s[i] \in ListOps
    <2>1. s[i] \in ListOps /\ s[i] \in Committed
        BY <1>2 DEF ListOps, Committed
    <2> HIDE DEF s
    <2>2. s[i] \in Decoding
        BY <2>1 DEF Decoding
    <2>3. s[i] \in 1 .. MaxOp /\ InReach(LastRetired, s[i])
        BY <1>1, <2>2, LastIsOldest, OpsInReach
    <2>4. s[i] \notin dead
        BY <1>1, <2>1, KeptOpsAre
    <2>5. s[i] \notin NewlyDead(c)
        BY <1>1, <1>2, <2>1, <2>4, NewlyDeadIs
    <2>6. QED
        BY <2>1, <2>2, <2>3, <2>4, <2>5 DEF Gone, Shown
<1>6. \A i, j \in 1 .. k : i < j => s[i] < s[j]
    BY <1>1, <1>2 DEF OrderInv
<1>7. s[k] = al[commitNum].op /\ k # 0 /\ s = [i \in 1 .. k |-> s[i]]
    BY <1>2
<1> HIDE DEF s
<1>8. s \in [1 .. k -> 1 .. MaxOp]
    BY <1>5, <1>7
<1>9. gone \in SUBSET (1 .. MaxOp) /\ Sound(p, LastRetired, gone)
    BY GoneIsPast
<1> HIDE DEF gone
<1>10. /\ Sound(q, IF k = 0 THEN LastRetired ELSE s[k], gone) /\ Told(q) = Told(p)
       /\ q.committed = p.committed + k
       /\ q.retireEvents = p.retireEvents \cup {Gid(s[i]) : i \in 1 .. k}
       /\ \A m \in 1 .. MaxOp :
             (\A i \in 1 .. k : s[i] < m) =>
                 (Known(p, m) => Known(q, m)) /\ (Shown(p, m) => Shown(q, m))
    <2>1. \A i \in 1 .. k : InReach(LastRetired, s[i]) /\ s[i] \notin gone /\ Known(p, s[i])
        BY <1>5
    <2>2. k \in Nat
        BY <1>2
    <2>3. DOMAIN x = 1 .. k /\ \A i \in 1 .. k : x[i] = StageLine(s[i], KS_CM, FALSE, FALSE)
        OBVIOUS
    <2> HIDE DEF k, x, q
    <2>4. CommitsRead(p, ParseCycle(p, x), LastRetired, gone, k, s)
        BY <1>1, <1>6, <1>8, <1>9, <2>1, <2>2, <2>3, CommitFold
    <2>5. QED
        BY <2>4 DEF CommitsRead, q
<1>11. x \in Seq(AllLines)
    <2>1. ASSUME NEW i \in 1 .. k
          PROVE  x[i] \in AllLines
        <3>1. PICK stage \in 0 .. 14 : stage = KS_CM
            BY DEF KS_CM
        <3>2. PICK off \in BOOLEAN : off = FALSE
            OBVIOUS
        <3>3. x[i] = StageLine(s[i], stage, off, off)
            BY <3>1, <3>2
        <3>4. s[i] \in 1 .. MaxOp
            BY <1>5
        <3> HIDE DEF x
        <3>5. StageLine(s[i], stage, off, off) \in AllLines
            BY <3>1, <3>2, <3>4 DEF AllLines
        <3>6. QED
            BY <3>3, <3>5
    <2>2. x = [i \in 1 .. k |-> x[i]]
        OBVIOUS
    <2> HIDE DEF x
    <2>3. QED
        BY <1>2, <2>1, <2>2, SeqOfElements
<1> HIDE DEF q, x
<1>12. {Gid(s[i]) : i \in 1 .. k} = {Gid(n) : n \in Committed}
    BY <1>4
<1>13. \A n \in ListOps : n \in KeptOps \/ n \in Committed
    <2>1. ASSUME NEW i \in DOMAIN al
          PROVE  i \in commitNum + 1 .. Len(al) - FlushNum \/ i \in 1 .. commitNum
        BY <1>2
    <2>2. QED
        BY <2>1 DEF ListOps, KeptOps, Committed
<1>14. CommitsTold(c, p, q)
    <2>1. ASSUME NEW m \in 1 .. MaxOp, \A n \in Committed : n < m
          PROVE  (Known(p, m) => Known(q, m)) /\ (Shown(p, m) => Shown(q, m))
        <3>1. \A i \in 1 .. k : s[i] < m
            BY <1>4, <2>1
        <3>2. QED
            BY <1>10, <3>1
    <2>2. \A m \in 1 .. serial - 1 : m \in 1 .. MaxOp
        BY GoneIsPast
    <2>3. Sound(q, IF commitNum = 0 THEN LastRetired ELSE al[commitNum].op, Gone(c))
        BY <1>7, <1>10 DEF gone
    <2>4. q.retireEvents = p.retireEvents \cup {Gid(n) : n \in Committed}
        BY <1>10, <1>12
    <2>5. Told(p) \subseteq Told(q) /\ q.committed = p.committed + commitNum
        BY <1>10
    <2>6. QED
        BY <1>13, <2>1, <2>2, <2>3, <2>4, <2>5 DEF CommitsTold
<1>15. QED
    BY <1>3, <1>11, <1>14 DEF q

-----------------------------------------------------------------------------
(* A cycle of the parser                                                     *)

(* Where the ops of each stage of the front end were a cycle before *)
FrontSources(c) ==
    LET next == NextFront(c)
    IN  /\ next["if"] \subseteq NewOps(c) \cup front["if"]
        /\ next["pd"] \subseteq front["if"] \cup front["pd"]
        /\ next["id"] \ NextPicked(c) \subseteq front["pd"] \cup Waiting
        /\ next["rn"] \subseteq Waiting \cup front["rn"]

(* The front end takes its ops from the stage before or keeps them. *)
LEMMA FrontSourcesHold ==
    ASSUME NEW c, CoreTypes, Choice(c)
    PROVE  FrontSources(c)
<1> DEFINE next == NextFront(c)
<1>1. c.ifMiss \in BOOLEAN /\ Picks(c) \subseteq Waiting
    BY PicksAreOldest DEF Choice
<1>2. CASE phase = "recover0"
    <2>1. next = FrontIs(NewOps(c), {}, {}, {}, {})
        BY <1>2, CycleOfRecovery
    <2>2. QED
        BY <2>1 DEF FrontSources, FrontIs
<1>3. CASE phase # "recover0" /\ RnStageSendBubbleLower(c)
    <2>1. /\ next = FrontIs(KeptInIf, front["pd"], front["id"], front["rn"], {})
          /\ NextPicked(c) = picked
        BY <1>3, CycleOfBubble
    <2>2. QED
        BY <2>1 DEF FrontSources, FrontIs, KeptInIf, Waiting
<1>4. CASE phase # "recover0" /\ ~RnStageSendBubbleLower(c) /\ decFlush
    <2>1. next = FrontIs(NewOps(c), {}, {}, {}, front["rn"])
        BY <1>4, CycleOfDecodeFlush
    <2>2. QED
        BY <2>1 DEF FrontSources, FrontIs
<1>5. CASE StallByDecodeStage(c)
    <2>1. /\ next = FrontIs(KeptInIf, front["pd"], front["id"], Picks(c) \ InsnFlushed, front["rn"])
          /\ NextPicked(c) = picked \cup Picks(c) \cup InsnFlushed
        BY <1>5, CycleOfDecodeStall
    <2>2. QED
        BY <1>1, <2>1 DEF FrontSources, FrontIs, KeptInIf, Waiting
<1>6. CASE /\ phase # "recover0" /\ ~RnStageSendBubbleLower(c) /\ ~decFlush
           /\ ~StallByDecodeStage(c)
    <2>1. next = FrontIs(IF c.ifMiss THEN KeptInIf ELSE NewOps(c),
                         IF c.ifMiss THEN {} ELSE KeptInIf,
                         front["pd"], Picks(c) \ InsnFlushed, front["rn"])
        BY <1>1, <1>6, CycleOfFlow
    <2>2. QED
        BY <1>1, <2>1 DEF FrontSources, FrontIs, KeptInIf
<1>7. QED
    BY <1>2, <1>3, <1>4, <1>5, <1>6

(* What may die in a cycle *)
LEMMA NewlyDeadWas ==
    ASSUME NEW c, CoreHolds
    PROVE  NewlyDead(c) \subseteq front["if"] \cup front["pd"] \cup Waiting \cup front["rn"]
                                    \cup front["ds"] \cup ListOps \cup dead
<1>1. /\ SelectiveFlush \subseteq ListOps /\ InsnFlushed \subseteq Waiting \cup dead
      /\ FetchFlushed \subseteq front["if"]
    BY Elsewhere DEF CoreHolds
<1> DEFINE taken == {al[i].op : i \in {j \in DOMAIN al : Dead(al[j])}}
<1>2. taken \subseteq ListOps
    BY DEF ListOps
<1> HIDE DEF taken
<1>3. NewlyDead(c) \subseteq front["if"] \cup front["pd"] \cup (front["id"] \ picked) \cup front["rn"]
         \cup front["ds"] \cup SelectiveFlush \cup FetchFlushed \cup InsnFlushed \cup taken
    BY DEF NewlyDead, taken
<1>4. QED
    BY <1>1, <1>2, <1>3 DEF Waiting

(* The youngest retired op after a cycle *)
LEMMA LastStep ==
    ASSUME NEW c, CoreStands, Choice(c), CoreClock(c)
    PROVE  LastRetired' = IF commitNum = 0 THEN LastRetired ELSE al[commitNum].op
<1>1. /\ retired' \in Seq(1 .. MaxOp) /\ Len(retired') = Len(retired) + commitNum
      /\ \A i \in 1 .. Len(retired) : retired'[i] = retired[i]
      /\ \A i \in 1 .. commitNum : retired'[Len(retired) + i] = al[i].op
    BY OpsStep DEF CoreStands
<1>2. retired \in Seq(1 .. MaxOp) /\ commitNum \in Nat /\ Len(retired) \in Nat
    BY BoundsOfCore DEF CoreStands, CoreTypes
<1>3. LastRetired = (IF retired = <<>> THEN 0 ELSE retired[Len(retired)])
      /\ LastRetired' = (IF retired' = <<>> THEN 0 ELSE retired'[Len(retired')])
    BY DEF LastRetired, LastOf
<1>4. CASE commitNum = 0
    <2>1. Len(retired') = Len(retired)
        BY <1>1, <1>2, <1>4
    <2>2. CASE Len(retired) = 0
        <3>1. retired = <<>> /\ retired' = <<>>
            BY <1>1, <1>2, <2>1, <2>2
        <3>2. QED
            BY <1>3, <1>4, <3>1
    <2>3. CASE Len(retired) # 0
        <3>1. Len(retired) \in 1 .. Len(retired) /\ retired # <<>> /\ retired' # <<>>
            BY <1>2, <2>1, <2>3
        <3>2. QED
            BY <1>1, <1>3, <1>4, <2>1, <3>1
    <2>4. QED
        BY <2>2, <2>3
<1>5. CASE commitNum # 0
    <2>1. commitNum \in 1 .. commitNum /\ Len(retired') # 0
        BY <1>1, <1>2, <1>5
    <2>2. retired' # <<>>
        BY <2>1
    <2>3. QED
        BY <1>1, <1>3, <1>5, <2>1, <2>2
<1>6. QED
    BY <1>4, <1>5

(* The lines of a cycle are those of all stages in the order in which      *)
(* Dumper::DumpCycle writes them.                                          *)
LEMMA CycleParsed ==
    ASSUME NEW c, CoreHolds, Choice(c), LogHolds
    PROVE  \E q : /\ BeforeCommit(c, q)
                 /\ CommitsTold(c, q, ParseCycle(log, DumpCycle(RegisterOf(c))))
<1> DEFINE d == RegisterOf(c)
           A == UpToWrite(d)
           B == CommitLines(d)
           q == ParseCycle(log, A)
<1>1. A \in Seq(AllLines) /\ BeforeCommit(c, q)
    BY StagesParsed
<1>2. DumpCycle(d) = A \o B
    BY DEF DumpCycle, UpToWrite, UpToFetch
<1> HIDE DEF A, q
<1>3. /\ Sound(q, LastRetired, Gone(c)) /\ \A n \in Decoding : Shown(q, n)
    BY <1>1 DEF BeforeCommit
<1>4. q.committed \in Nat
    <2>1. q.committed = log.committed /\ log.committed = Len(retired)
        BY <1>1 DEF BeforeCommit, Further, LogHolds
    <2>2. Len(retired) \in Nat
        BY DEF CoreHolds, CoreTypes
    <2>3. QED
        BY <2>1, <2>2
<1>5. B \in Seq(AllLines) /\ CommitsTold(c, q, ParseCycle(q, B))
    BY <1>3, <1>4, TakenBackTold, CommittedTold
<1> HIDE DEF B, d
<1>6. ParseCycle(log, A \o B) = ParseCycle(q, B)
    BY <1>1, <1>5, ParseConcat DEF q
<1>7. CommitsTold(c, q, ParseCycle(log, DumpCycle(d)))
    BY <1>2, <1>5, <1>6
<1>8. QED
    BY <1>1, <1>7 DEF d

(* A cycle of the core keeps the span of its ops: the fetch stays below    *)
(* it, and the youngest op that retired never becomes an older one.        *)
LEMMA SpanStep ==
    ASSUME NEW c, CoreInv, SpanInv, Choice(c), CoreClock(c)
    PROVE  SpanInv'
<1>1. CoreStands /\ CoreTypes /\ OrderInv /\ StageInv /\ DeadInv
    BY DEF CoreInv, CoreStands
<1> DEFINE num == Cardinality(NewOps(c))
           last == LastRetired'
<1>2. MaxSpan \in Nat /\ serial <= LastRetired + MaxSpan
    BY CoreAssumption DEF SpanInv
<1>3. serial' = serial + num /\ serial \in Nat /\ LastRetired \in Nat
    BY <1>1, LastIsOldest, BoundsOfCore DEF CoreClock
<1>4. serial + num <= LastRetired + MaxSpan
    <2>1. num \in Nat /\ NewOps(c) = serial .. serial + num - 1
        BY <1>1, NewOpsFacts
    <2>2. \A n \in NewOps(c) : n < LastRetired + MaxSpan
        <3>1. c.fetch \in Nat /\ (c.fetch > 0 => serial + c.fetch <= LastRetired + MaxSpan)
            BY <1>1, FetchIsBounded DEF LastRetired
        <3>2. ASSUME NEW n \in NewOps(c)
              PROVE  n \in serial .. serial + c.fetch - 1
            BY DEF NewOps
        <3>3. QED
            BY <1>2, <1>3, <3>1, <3>2
    <2> HIDE DEF num
    <2>3. CASE num = 0
        BY <1>2, <1>3, <2>3
    <2>4. CASE num # 0
        <3>1. serial + num - 1 \in NewOps(c)
            BY <1>3, <2>1, <2>4
        <3>2. QED
            BY <1>2, <1>3, <2>1, <2>2, <3>1
    <2>5. QED
        BY <2>3, <2>4
<1>5. last \in Nat /\ LastRetired <= last
    <2>1. last = IF commitNum = 0 THEN LastRetired ELSE al[commitNum].op
        BY <1>1, LastStep
    <2>2. ASSUME commitNum # 0
          PROVE  al[commitNum].op \in Decoding
        <3>1. commitNum \in DOMAIN al
            BY <1>1, <2>2, EntriesOf, BoundsOfCore DEF CoreTypes
        <3>2. QED
            BY <3>1 DEF ListOps, Decoding
    <2>3. \A n \in Decoding : n \in 1 .. MaxOp /\ LastRetired < n
        BY <1>1, LastIsOldest
    <2> HIDE DEF last
    <2>4. CASE commitNum = 0
        BY <1>3, <2>1, <2>4
    <2>5. CASE commitNum # 0
        BY <1>3, <2>1, <2>2, <2>3, <2>5
    <2>6. QED
        BY <2>4, <2>5
<1>6. num \in Nat
    BY <1>1, NewOpsFacts
<1>7. serial' <= last + MaxSpan
    <2> HIDE DEF num, last
    <2>1. QED
        BY <1>2, <1>3, <1>4, <1>5, <1>6
<1>8. QED
    BY <1>7 DEF SpanInv

(* A cycle of the core and of the parser keeps the log true. *)
LEMMA LogStep ==
    ASSUME NEW c, CoreInv, SpanInv, SpanFits, Choice(c), CoreClock(c), LogHolds,
           log' = ParseCycle(log, DumpCycle(RegisterOf(c)))
    PROVE  LogHolds'
<1> DEFINE r == ParseCycle(log, DumpCycle(RegisterOf(c)))
           gone == Gone(c)
<1>1. CoreHolds /\ CoreStands /\ CoreTypes /\ OrderInv /\ StageInv /\ DeadInv
    BY DEF CoreInv, CoreHolds, CoreStands
<1>2. PICK q : BeforeCommit(c, q) /\ CommitsTold(c, q, r)
    BY <1>1, CycleParsed
<1> HIDE DEF r
<1>3. log' = r /\ script' = script /\ front' = NextFront(c) /\ picked' = NextPicked(c)
      /\ dead' = gone
    BY DEF CoreClock, Gone, r
<1>4. /\ ListOps' = KeptOps \cup NextFront(c)["ds"]
      /\ RetiredOps' = RetiredOps \cup Committed
      /\ Len(retired') = Len(retired) + commitNum
      /\ KeptOps \subseteq ListOps
      /\ NextFront(c)["ds"] \subseteq front["rn"]
    BY <1>1, OpsStep
<1>5. OrderInv' /\ CoreTypes'
    BY CoreStep DEF CoreInv
<1>6. /\ \A n : Gid(n)' = Gid(n)
      /\ \A n : Known(log, n)' <=> Known(r, n)
      /\ \A n : Shown(log, n)' <=> Shown(r, n)
      /\ \A S : Gids(S)' = Gids(S)
      /\ Told(log)' = Told(r)
    BY <1>3 DEF Gid, Known, Shown, Gids, Told
<1>7. FrontSources(c) /\ FrontDeaths(c)
    BY <1>1, FrontSourcesHold, FrontDeathsHold
<1> HIDE DEF gone
<1>8. /\ Sound(q, LastRetired, gone) /\ Further(log, q, gone)
      /\ \A n \in front["if"] : IF n \in gone THEN Gid(n) \in Told(q) ELSE Shown(q, n)
      /\ \A n \in NewOps(c) : Known(q, n)
      /\ \A n \in Decoding : Shown(q, n)
      /\ \A n \in front["pd"] \cup Waiting \cup front["rn"] \cup front["ds"] :
            n \in gone => Gid(n) \in Told(q)
    BY <1>2 DEF BeforeCommit, gone
<1>9. /\ Sound(r, IF commitNum = 0 THEN LastRetired ELSE al[commitNum].op, gone)
      /\ Told(q) \subseteq Told(r)
      /\ r.committed = q.committed + commitNum
      /\ r.retireEvents = q.retireEvents \cup {Gid(n) : n \in Committed}
      /\ \A m \in 1 .. MaxOp :
            m \notin gone /\ (\A n \in Committed : n < m) /\ Known(q, m) => Known(r, m)
      /\ \A m \in 1 .. serial - 1 : (\A n \in Committed : n < m) /\ Shown(q, m) => Shown(r, m)
      /\ \A n \in ListOps : n \in KeptOps \/ n \in Committed \/ Gid(n) \in Told(r)
    BY <1>2 DEF CommitsTold, gone
<1>10. Told(log) \subseteq Told(q) /\ q.committed = log.committed
       /\ q.retireEvents = log.retireEvents
    BY <1>8 DEF Further
<1>11. Sound(log, LastRetired, dead)'
    <2>1. LastRetired' = IF commitNum = 0 THEN LastRetired ELSE al[commitNum].op
        BY <1>1, LastStep
    <2>2. Sound(r, LastRetired', gone)
        BY <1>9, <2>1
    <2> DEFINE last == LastRetired'
    <2>3. Sound(r, last, gone)
        BY <2>2
    <2> HIDE DEF last
    <2>4. /\ DOMAIN r = LogFields /\ r.failed = FALSE /\ r.warned = FALSE
          /\ r.maxRetired = Gid(last) /\ r.flushed \subseteq r.flushEvents
          /\ Told(r) \subseteq Gids(gone)
        BY <2>3 DEF Sound
    <2>6. Gid(LastRetired)' = Gid(last)
        BY <1>3 DEF Gid, last
    <2>7. Gids(dead)' = Gids(gone)
        BY <1>3 DEF Gids
    <2>5. LogFields' = LogFields
        BY DEF LogFields
    <2>9. QED
        BY <1>3, <1>6, <2>4, <2>5, <2>6, <2>7 DEF Sound
<1>12. log'.committed = Len(retired')
    <2>1. r.committed = Len(retired) + commitNum
        BY <1>9, <1>10 DEF LogHolds
    <2>2. QED
        BY <1>3, <1>4, <2>1
<1>13. log'.retireEvents = Gids(RetiredOps)'
    <2>1. r.retireEvents = Gids(RetiredOps) \cup {Gid(n) : n \in Committed}
        BY <1>9, <1>10 DEF LogHolds
    <2>2. Gids(RetiredOps)' = {Gid(n) : n \in RetiredOps \cup Committed}
        BY <1>3, <1>4 DEF Gids, Gid
    <2>3. Gids(RetiredOps) = {Gid(n) : n \in RetiredOps}
        BY DEF Gids, Gid
    <2>4. QED
        BY <1>3, <2>1, <2>2, <2>3
<1>14. ASSUME NEW n \in gone
       PROVE  Gid(n) \in Told(r) \/ n \in ListOps'
    <2>1. CASE n \in dead
        <3>1. Gid(n) \in Told(log) \/ n \in ListOps
            BY <2>1 DEF LogHolds
        <3>2. n \in ListOps => n \in KeptOps \/ Gid(n) \in Told(r)
            BY <1>1, <1>9, <2>1, KeptOpsAre
        <3>3. QED
            BY <1>4, <1>9, <1>10, <3>1, <3>2
    <2>2. CASE n \notin dead
        <3>1. n \in NewlyDead(c)
            BY <2>2 DEF gone, Gone
        <3>2. CASE n \in front["if"]
            BY <1>8, <1>9, <3>2
        <3>3. CASE n \in front["pd"] \cup Waiting \cup front["rn"] \cup front["ds"]
            BY <1>8, <1>9, <3>3
        <3>4. CASE n \in ListOps
            <4>1. phase = "recover0"
                BY <1>1, <2>2, <3>1, <3>4, NewlyDeadIs
            <4>2. n \notin Committed
                BY <1>1, <4>1, KeptOpsAre
            <4>3. QED
                BY <1>4, <1>9, <3>4, <4>2
        <3>5. QED
            BY <1>1, <2>2, <3>1, <3>2, <3>3, <3>4, NewlyDeadWas
    <2>3. QED
        BY <2>1, <2>2
<1>15. ASSUME NEW n \in front'["if"]
       PROVE  Known(r, n)
    <2>1. n \in NextFront(c)["if"] /\ n \notin gone
        BY <1>3, <1>7 DEF FrontDeaths, gone, Gone
    <2>2. n \in NewOps(c) \/ n \in front["if"]
        BY <1>7, <2>1 DEF FrontSources
    <2>3. Known(q, n)
        BY <1>8, <2>1, <2>2 DEF Shown
    <2>4. \A m \in Committed : m < n
        BY <1>4, <1>5 DEF OrderInv, Before
    <2>5. n \in 1 .. MaxOp
        <3>1. /\ serial' \in 1 .. MaxOp + 1 /\ front'["if"] \subseteq 1 .. serial' - 1
            BY <1>5 DEF CoreTypes, FrontStages
        <3>2. QED
            BY <3>1, BoundsOfCore
    <2>6. QED
        BY <1>9, <2>1, <2>3, <2>4, <2>5
<1>16. ASSUME NEW n \in Decoding'
       PROVE  Shown(r, n)
    <2>1. Decoding' = NextFront(c)["pd"] \cup (NextFront(c)["id"] \ NextPicked(c))
                        \cup NextFront(c)["rn"] \cup ListOps'
        BY <1>3 DEF Decoding, Waiting
    <2>2. n \in front["if"] \/ n \in Decoding
        BY <1>4, <1>7, <2>1 DEF FrontSources, Decoding
    <2>3. n \in front["if"] /\ n \notin Decoding => n \notin gone
        <3>1. n \notin Decoding => n \in NextFront(c)["pd"]
            BY <1>4, <1>7, <2>1 DEF FrontSources, Decoding
        <3>2. n \in NextFront(c)["pd"] => n \notin gone
            BY <1>7 DEF FrontDeaths, gone, Gone
        <3>3. QED
            BY <3>1, <3>2
    <2>4. Shown(q, n)
        BY <1>8, <2>2, <2>3
    <2>5. \A m \in Committed : m < n
        <3>1. Committed \subseteq RetiredOps'
            BY <1>4
        <3>2. Decoding' = front'["pd"] \cup Waiting' \cup front'["rn"] \cup ListOps'
            BY DEF Decoding
        <3>3. Before(RetiredOps, ListOps)' /\ Before(RetiredOps \cup ListOps, front["rn"])'
              /\ Before(RetiredOps \cup ListOps \cup front["rn"], Waiting)'
              /\ Before(RetiredOps \cup ListOps \cup front["rn"] \cup front["id"], front["pd"])'
            BY <1>5 DEF OrderInv
        <3>4. QED
            BY <3>1, <3>2, <3>3 DEF Before
    <2>6. n \in 1 .. serial - 1
        BY <1>1, <2>2, FrontFactsHold DEF FrontFacts, Decoding, Waiting
    <2>7. QED
        BY <1>9, <2>4, <2>5, <2>6
<1>17. QED
    BY <1>3, <1>6, <1>11, <1>12, <1>13, <1>14, <1>15, <1>16 DEF LogHolds

-----------------------------------------------------------------------------
(* The register file along the entries of the active list                   *)

(* The register file after one more entry *)
Written(m, e) == IF e.writeReg THEN [m EXCEPT ![e.reg] = e.phy] ELSE m

(* The register file along a list of entries, as a function on sets of     *)
(* places                                                                  *)
EntriesFolded(h, p, es, k) ==
    h = [s \in SUBSET (1 .. k) |->
            IF s = {} THEN p ELSE Written(h[s \ {Max(s)}], es[Max(s)])]

(* The function exists, by induction on the number of entries. *)
LEMMA EntriesFoldedExists ==
    ASSUME NEW p, NEW es, NEW n \in Nat
    PROVE  \E h : EntriesFolded(h, p, es, n)
<1> DEFINE T == {k \in Nat : \E h : EntriesFolded(h, p, es, k)}
<1>1. 0 \in T
    <2> DEFINE h == [s \in {{}} |-> p]
    <2>1. SUBSET (1 .. 0) = {{}}
        OBVIOUS
    <2>2. h = [s \in SUBSET (1 .. 0) |->
                  IF s = {} THEN p ELSE Written(h[s \ {Max(s)}], es[Max(s)])]
        BY <2>1
    <2> HIDE DEF h
    <2>3. EntriesFolded(h, p, es, 0)
        BY <2>2 DEF EntriesFolded
    <2>4. QED
        BY <2>3
<1>2. ASSUME NEW k \in Nat, k \in T
      PROVE  k + 1 \in T
    <2>1. PICK h : EntriesFolded(h, p, es, k)
        BY <1>2
    <2>2. \A s \in SUBSET (1 .. k) :
             h[s] = IF s = {} THEN p ELSE Written(h[s \ {Max(s)}], es[Max(s)])
        BY <2>1 DEF EntriesFolded
    <2> DEFINE g == [s \in SUBSET (1 .. k + 1) |->
                        IF k + 1 \in s THEN Written(h[s \ {k + 1}], es[k + 1]) ELSE h[s]]
    <2>3. \A s \in SUBSET (1 .. k + 1) :
             g[s] = IF k + 1 \in s THEN Written(h[s \ {k + 1}], es[k + 1]) ELSE h[s]
        OBVIOUS
    <2> HIDE DEF g
    <2>4. ASSUME NEW s \in SUBSET (1 .. k + 1)
          PROVE  g[s] = IF s = {} THEN p ELSE Written(g[s \ {Max(s)}], es[Max(s)])
        <3>1. CASE k + 1 \in s
            <4>1. /\ \A i \in s : i \in 0 .. k + 1
                  /\ k + 1 \in Nat /\ s # {}
                BY <3>1
            <4>2. Max(s) \in s /\ \A i \in s : i <= Max(s)
                BY <4>1, MaxIsGreatest
            <4>3. Max(s) = k + 1
                <5>1. Max(s) \in 1 .. k + 1 /\ k + 1 <= Max(s)
                    BY <3>1, <4>2
                <5>2. QED
                    BY <5>1
            <4>4. s \ {k + 1} \in SUBSET (1 .. k + 1) /\ k + 1 \notin s \ {k + 1}
                OBVIOUS
            <4>5. g[s \ {k + 1}] = h[s \ {k + 1}]
                BY <2>3, <4>4
            <4>6. QED
                BY <2>3, <3>1, <4>1, <4>3, <4>5
        <3>2. CASE k + 1 \notin s
            <4>1. s \in SUBSET (1 .. k)
                BY <3>2
            <4>2. s \ {Max(s)} \in SUBSET (1 .. k + 1) /\ k + 1 \notin s \ {Max(s)}
                BY <3>2
            <4>3. g[s] = h[s] /\ g[s \ {Max(s)}] = h[s \ {Max(s)}]
                BY <2>3, <3>2, <4>2
            <4>4. QED
                BY <2>2, <4>1, <4>3
        <3>3. QED
            BY <3>1, <3>2
    <2>5. EntriesFolded(g, p, es, k + 1)
        <3>1. g = [s \in SUBSET (1 .. k + 1) |-> g[s]]
            BY DEF g
        <3>2. QED
            BY <2>4, <3>1 DEF EntriesFolded
    <2>6. QED
        BY <2>5
<1>3. Nat \subseteq T
    <2> HIDE DEF T
    <2>1. QED
        BY <1>1, <1>2, SetInduction
<1>4. QED
    BY <1>3

(* The states of the register file along the entries *)
Writing(f, p, es, n) ==
    /\ f[0] = p
    /\ \A j \in 1 .. n : f[j] = Written(f[j - 1], es[j])

(* GetCommittedRegisterValue is the last file of a sequence, each of which *)
(* has one more entry written.                                             *)
ValueAlong(p, list, head, n, garbage, es) ==
    \E f : /\ Writing(f, p, es, n)
           /\ GetCommittedRegisterValue(p, list, head, n, garbage) = f[n]

(* The loop of GetCommittedRegisterValue writes the entries in order. *)
LEMMA EntriesWritten ==
    ASSUME NEW p, NEW list, NEW head, NEW n \in Nat, NEW garbage,
           NEW es, es = [k \in 1 .. n |-> Entry(list, head, k, garbage)]
    PROVE  ValueAlong(p, list, head, n, garbage, es)
<1> DEFINE entries == [k \in 1 .. n |-> Entry(list, head, k, garbage)]
           folded == CHOOSE iter : iter = [s \in SUBSET (DOMAIN entries) |->
                  IF s = {} THEN p ELSE Written(iter[s \ {Max(s)}], entries[Max(s)])]
           chosen == CHOOSE iter : iter = [s \in SUBSET (1 .. n) |->
                  IF s = {} THEN p ELSE Written(iter[s \ {Max(s)}], es[Max(s)])]
<1>a. GetCommittedRegisterValue(p, list, head, n, garbage) = folded[DOMAIN entries]
    BY DEF GetCommittedRegisterValue, FoldLeft, MapThenFoldSet, Written
<1>b. entries = es /\ DOMAIN es = 1 .. n
    OBVIOUS
<1> HIDE DEF entries
<1>1. GetCommittedRegisterValue(p, list, head, n, garbage) = chosen[1 .. n]
    BY <1>a, <1>b
<1> HIDE DEF folded
<1>2. chosen = [s \in SUBSET (1 .. n) |->
              IF s = {} THEN p ELSE Written(chosen[s \ {Max(s)}], es[Max(s)])]
    <2>1. PICK g : EntriesFolded(g, p, es, n)
        BY EntriesFoldedExists
    <2>2. g = [s \in SUBSET (1 .. n) |->
                  IF s = {} THEN p ELSE Written(g[s \ {Max(s)}], es[Max(s)])]
        BY <2>1 DEF EntriesFolded
    <2>3. QED
        BY <2>2
<1> HIDE DEF chosen
<1>3. \A s \in SUBSET (1 .. n) :
         chosen[s] = IF s = {} THEN p ELSE Written(chosen[s \ {Max(s)}], es[Max(s)])
    BY <1>2
<1> DEFINE f == [j \in 0 .. n |-> chosen[1 .. j]]
<1>4. f[0] = p
    <2>1. 1 .. 0 = {} /\ {} \in SUBSET (1 .. n) /\ 0 \in 0 .. n
        OBVIOUS
    <2>2. f[0] = chosen[{}]
        BY <2>1
    <2> HIDE DEF f
    <2>3. QED
        BY <1>3, <2>1, <2>2
<1>5. ASSUME NEW j \in 1 .. n
      PROVE  f[j] = Written(f[j - 1], es[j])
    <2>1. /\ j \in 0 .. n /\ j - 1 \in 0 .. n /\ 1 .. j \in SUBSET (1 .. n)
          /\ 1 .. j # {} /\ (1 .. j) \ {j} = 1 .. j - 1
          /\ j \in Nat /\ \A i \in 1 .. j : i \in 0 .. j
        OBVIOUS
    <2>2. f[j] = chosen[1 .. j] /\ f[j - 1] = chosen[1 .. j - 1]
        BY <2>1
    <2>3. Max(1 .. j) \in 1 .. j /\ \A i \in 1 .. j : i <= Max(1 .. j)
        BY <2>1, MaxIsGreatest
    <2>4. Max(1 .. j) = j
        BY <2>1, <2>3
    <2> HIDE DEF f
    <2>5. QED
        BY <1>3, <2>1, <2>2, <2>4
<1>6. f[n] = chosen[1 .. n]
    OBVIOUS
<1> HIDE DEF f
<1>7. Writing(f, p, es, n)
    BY <1>4, <1>5 DEF Writing
<1>8. QED
    BY <1>1, <1>6, <1>7 DEF ValueAlong


(* The places that write a register, and the last of them *)
Writers(ops, l) == {k \in DOMAIN ops : Dst[ops[k]] = l}

LastWriter(ops, l, w) == w \in Writers(ops, l) /\ \A k \in Writers(ops, l) : k <= w

(* The register of the last op that writes it, if there is one *)
LEMMA RetireAt ==
    ASSUME NEW ops \in Seq(1 .. MaxOp), NEW map, NEW l \in LReg
    PROVE  \/ Writers(ops, l) = {} /\ Retire(map, ops)[l] = map[l]
           \/ \E w \in DOMAIN ops : LastWriter(ops, l, w) /\ Retire(map, ops)[l] = ops[w]
<1> DEFINE W == Writers(ops, l)
<1>1. Retire(map, ops)[l] = IF W = {} THEN map[l] ELSE ops[Max(W)]
    BY DEF Retire, Writers
<1>2. Len(ops) \in Nat /\ \A k \in W : k \in 0 .. Len(ops) /\ k \in DOMAIN ops
    BY DEF Writers
<1>3. CASE W = {}
    BY <1>1, <1>3
<1>4. CASE W # {}
    <2>1. Max(W) \in W /\ \A k \in W : k <= Max(W)
        BY <1>2, <1>4, MaxIsGreatest
    <2>2. LastWriter(ops, l, Max(W))
        BY <2>1 DEF LastWriter
    <2>3. QED
        BY <1>1, <1>2, <1>4, <2>1, <2>2
<1>5. QED
    BY <1>3, <1>4

(* After ops retire, a register holds the last of them that writes it, and *)
(* what it held before when none does.                                     *)
LEMMA RetireIs ==
    ASSUME NEW ops \in Seq(1 .. MaxOp), NEW map, NEW l \in LReg
    PROVE  /\ Writers(ops, l) = {} => Retire(map, ops)[l] = map[l]
           /\ \A w \in DOMAIN ops : LastWriter(ops, l, w) => Retire(map, ops)[l] = ops[w]
<1>1. \/ Writers(ops, l) = {} /\ Retire(map, ops)[l] = map[l]
      \/ \E w \in DOMAIN ops : LastWriter(ops, l, w) /\ Retire(map, ops)[l] = ops[w]
    BY RetireAt
<1>2. \A v, w \in DOMAIN ops : LastWriter(ops, l, v) /\ LastWriter(ops, l, w) => v = w
    <2>1. \A v \in DOMAIN ops : v \in Nat
        OBVIOUS
    <2>2. SUFFICES ASSUME NEW v \in DOMAIN ops, NEW w \in DOMAIN ops,
                          LastWriter(ops, l, v), LastWriter(ops, l, w)
                   PROVE  v = w
        OBVIOUS
    <2>3. v <= w /\ w <= v
        BY <2>2 DEF LastWriter
    <2>4. QED
        BY <2>1, <2>3
<1>3. QED
    BY <1>1, <1>2 DEF LastWriter

(* The retirement map is a function on the logical registers. *)
LEMMA RetireFunction ==
    ASSUME NEW map, NEW ops
    PROVE  DOMAIN Retire(map, ops) = LReg /\ Retire(map, ops) = [l \in LReg |-> Retire(map, ops)[l]]
BY DEF Retire

(* Ops retire one after the other. *)
LEMMA RetireConcat ==
    ASSUME NEW a \in Seq(1 .. MaxOp), NEW b \in Seq(1 .. MaxOp), NEW map
    PROVE  Retire(Retire(map, a), b) = Retire(map, a \o b)
<1> DEFINE ab == a \o b
           m == Retire(map, a)
<1>1. /\ ab \in Seq(1 .. MaxOp) /\ Len(ab) = Len(a) + Len(b)
      /\ \A i \in 1 .. Len(a) : ab[i] = a[i]
      /\ \A i \in 1 .. Len(b) : ab[Len(a) + i] = b[i]
    BY ConcatElements
<1>2. /\ Len(a) \in Nat /\ DOMAIN a = 1 .. Len(a) /\ Len(b) \in Nat /\ DOMAIN b = 1 .. Len(b)
    OBVIOUS
<1> HIDE DEF ab
<1>3. DOMAIN ab = 1 .. Len(a) + Len(b)
    BY <1>1
<1>4. ASSUME NEW k \in DOMAIN ab
      PROVE  \/ k \in 1 .. Len(a) /\ ab[k] = a[k]
             \/ k - Len(a) \in 1 .. Len(b) /\ ab[k] = b[k - Len(a)] /\ k > Len(a)
    <2>1. CASE k <= Len(a)
        BY <1>1, <1>2, <1>3, <2>1
    <2>2. CASE ~(k <= Len(a))
        <3> DEFINE j == k - Len(a)
        <3>1. j \in 1 .. Len(b) /\ Len(a) + j = k /\ k > Len(a)
            BY <1>2, <1>3, <2>2
        <3> HIDE DEF j
        <3>2. ab[k] = b[j]
            BY <1>1, <3>1
        <3>3. QED
            BY <3>1, <3>2 DEF j
    <2>3. QED
        BY <2>1, <2>2
<1>5. ASSUME NEW l \in LReg
      PROVE  Retire(m, b)[l] = Retire(map, ab)[l]
    <2>1. CASE Writers(b, l) # {}
        <3> HIDE DEF m
        <3>1. PICK w \in DOMAIN b : LastWriter(b, l, w) /\ Retire(m, b)[l] = b[w]
            BY <2>1, RetireAt
        <3>2. /\ Len(a) + w \in DOMAIN ab /\ ab[Len(a) + w] = b[w] /\ Dst[b[w]] = l
              /\ w \in Nat /\ w \in 1 .. Len(b)
            BY <1>1, <1>2, <1>3, <3>1 DEF LastWriter, Writers
        <3>3. Len(a) + w \in Writers(ab, l)
            BY <3>2 DEF Writers
        <3>4. ASSUME NEW k \in Writers(ab, l)
              PROVE  k <= Len(a) + w
            <4>1. k \in DOMAIN ab /\ Dst[ab[k]] = l
                BY DEF Writers
            <4>2. CASE k \in 1 .. Len(a)
                BY <1>2, <3>2, <4>2
            <4>3. CASE k - Len(a) \in 1 .. Len(b) /\ ab[k] = b[k - Len(a)]
                <5>1. k - Len(a) \in Writers(b, l)
                    BY <1>2, <4>1, <4>3 DEF Writers
                <5>2. k - Len(a) <= w
                    BY <3>1, <5>1 DEF LastWriter
                <5>3. k \in Nat
                    BY <1>3, <4>1
                <5>4. QED
                    BY <1>2, <3>2, <5>2, <5>3
            <4>4. QED
                BY <1>4, <4>1, <4>2, <4>3
        <3>5. LastWriter(ab, l, Len(a) + w)
            BY <3>3, <3>4 DEF LastWriter
        <3>6. Retire(map, ab)[l] = ab[Len(a) + w]
            BY <1>1, <3>2, <3>5, RetireIs
        <3>7. QED
            BY <3>1, <3>2, <3>6
    <2>2. CASE Writers(b, l) = {}
        <3>1. Retire(m, b)[l] = m[l]
            BY <2>2, RetireIs
        <3>2. ASSUME NEW k \in Writers(ab, l)
              PROVE  k \in Writers(a, l)
            <4>1. k \in DOMAIN ab /\ Dst[ab[k]] = l
                BY DEF Writers
            <4>2. CASE k \in 1 .. Len(a) /\ ab[k] = a[k]
                BY <1>2, <4>1, <4>2 DEF Writers
            <4>3. CASE k - Len(a) \in 1 .. Len(b) /\ ab[k] = b[k - Len(a)]
                <5>1. k - Len(a) \in Writers(b, l)
                    BY <1>2, <4>1, <4>3 DEF Writers
                <5>2. QED
                    BY <2>2, <5>1
            <4>4. QED
                BY <1>4, <4>1, <4>2, <4>3
        <3>3. CASE Writers(a, l) = {}
            <4>1. Writers(ab, l) = {}
                BY <3>2, <3>3
            <4>2. Retire(map, ab)[l] = map[l]
                BY <1>1, <4>1, RetireIs
            <4>3. m[l] = map[l]
                BY <3>3, RetireIs
            <4>4. QED
                BY <3>1, <4>2, <4>3
        <3>4. CASE Writers(a, l) # {}
            <4>1. PICK w \in DOMAIN a : LastWriter(a, l, w) /\ m[l] = a[w]
                BY <3>4, RetireAt
            <4>2. w \in DOMAIN ab /\ ab[w] = a[w] /\ Dst[a[w]] = l
                BY <1>1, <1>2, <1>3, <4>1 DEF LastWriter, Writers
            <4>3. w \in Writers(ab, l)
                BY <4>2 DEF Writers
            <4>4. LastWriter(ab, l, w)
                BY <3>2, <4>1, <4>3 DEF LastWriter
            <4>5. Retire(map, ab)[l] = ab[w]
                BY <1>1, <4>2, <4>4, RetireIs
            <4>6. QED
                BY <3>1, <4>1, <4>2, <4>5
        <3>5. QED
            BY <3>3, <3>4
    <2>3. QED
        BY <2>1, <2>2
<1> HIDE DEF m
<1>6. Retire(m, b) = Retire(map, ab)
    BY <1>5, RetireFunction
<1>7. QED
    BY <1>6 DEF m, ab

(* One more op retires. *)
LEMMA RetireOne ==
    ASSUME NEW n \in 1 .. MaxOp, NEW map, DOMAIN map = LReg,
           map = [l \in LReg |-> map[l]]
    PROVE  Retire(map, <<n>>) = IF Dst[n] = NoReg THEN map ELSE [map EXCEPT ![Dst[n]] = n]
<1> DEFINE one == <<n>>
<1>1. one \in Seq(1 .. MaxOp) /\ DOMAIN one = {1} /\ one[1] = n
    OBVIOUS
<1> HIDE DEF one
<1>2. Dst[n] \in LReg \cup {NoReg} /\ NoReg \notin LReg
    BY CoreAssumption
<1> DEFINE m == IF Dst[n] = NoReg THEN map ELSE [map EXCEPT ![Dst[n]] = n]
<1>3. ASSUME NEW l \in LReg
      PROVE  Retire(map, one)[l] = m[l]
    <2>1. CASE Dst[n] = l
        <3>1. LastWriter(one, l, 1) /\ 1 \in DOMAIN one
            BY <1>1, <2>1 DEF LastWriter, Writers
        <3>2. Retire(map, one)[l] = n
            BY <1>1, <3>1, RetireIs
        <3>3. m[l] = n
            BY <1>2, <2>1
        <3>4. QED
            BY <3>2, <3>3
    <2>2. CASE Dst[n] # l
        <3>1. Writers(one, l) = {}
            BY <1>1, <2>2 DEF Writers
        <3>2. Retire(map, one)[l] = map[l]
            BY <1>1, <3>1, RetireIs
        <3>3. m[l] = map[l]
            BY <2>2
        <3>4. QED
            BY <3>2, <3>3
    <2>3. QED
        BY <2>1, <2>2
<1>4. m = [l \in LReg |-> m[l]]
    BY <1>2
<1> HIDE DEF m
<1>5. Retire(map, one) = m
    BY <1>3, <1>4, RetireFunction
<1>6. QED
    BY <1>5 DEF m, one

(* The ops of the first entries of a list *)
LEMMA OpsOfList ==
    ASSUME NEW list \in Seq(ListEntries), NEW n \in Nat, n <= Len(list)
    PROVE  /\ OpsOf(list, n) \in Seq(1 .. MaxOp) /\ Len(OpsOf(list, n)) = n
           /\ \A i \in 1 .. n : OpsOf(list, n)[i] = list[i].op /\ list[i].op \in 1 .. MaxOp
<1> DEFINE ops == OpsOf(list, n)
<1>1. \A i \in 1 .. n : i \in 1 .. Len(list) /\ list[i].op \in 1 .. MaxOp
    BY EntriesOf
<1>2. ops = [i \in 1 .. n |-> ops[i]] /\ \A i \in 1 .. n : ops[i] = list[i].op
    BY DEF OpsOf
<1> HIDE DEF ops
<1>3. \A i \in 1 .. n : ops[i] \in 1 .. MaxOp
    BY <1>1, <1>2
<1>4. ops \in Seq(1 .. MaxOp) /\ Len(ops) = n
    BY <1>2, <1>3, SeqOfElements
<1>5. QED
    BY <1>1, <1>2, <1>4 DEF ops

(* One entry more is one op more. *)
LEMMA OpsOfMore ==
    ASSUME NEW list \in Seq(ListEntries), NEW n \in Nat, n + 1 <= Len(list)
    PROVE  OpsOf(list, n + 1) = OpsOf(list, n) \o <<list[n + 1].op>>
<1> DEFINE a == OpsOf(list, n)
           b == <<list[n + 1].op>>
           c == OpsOf(list, n + 1)
<1>1. /\ a \in Seq(1 .. MaxOp) /\ Len(a) = n /\ \A i \in 1 .. n : a[i] = list[i].op
      /\ c \in Seq(1 .. MaxOp) /\ Len(c) = n + 1 /\ \A i \in 1 .. n + 1 : c[i] = list[i].op
    <2>1. n <= Len(list) /\ n + 1 \in Nat
        BY EntriesOf
    <2>2. a \in Seq(1 .. MaxOp) /\ Len(a) = n /\ \A i \in 1 .. n : a[i] = list[i].op
        BY <2>1, OpsOfList
    <2>3. c \in Seq(1 .. MaxOp) /\ Len(c) = n + 1 /\ \A i \in 1 .. n + 1 : c[i] = list[i].op
        BY <2>1, OpsOfList
    <2>4. QED
        BY <2>2, <2>3
<1>2. list[n + 1].op \in 1 .. MaxOp
    <2>1. n + 1 \in 1 .. Len(list)
        BY EntriesOf
    <2>2. QED
        BY <2>1, EntriesOf
<1>3. b \in Seq(1 .. MaxOp) /\ Len(b) = 1 /\ b[1] = list[n + 1].op
    BY <1>2
<1> HIDE DEF a, b, c
<1>4. /\ a \o b \in Seq(1 .. MaxOp) /\ Len(a \o b) = n + 1
      /\ \A i \in 1 .. n : (a \o b)[i] = a[i]
      /\ (a \o b)[n + 1] = b[1]
    <2>1. /\ a \o b \in Seq(1 .. MaxOp) /\ Len(a \o b) = Len(a) + Len(b)
          /\ \A i \in 1 .. Len(a) : (a \o b)[i] = a[i]
          /\ \A i \in 1 .. Len(b) : (a \o b)[Len(a) + i] = b[i]
        <3>1. a \in Seq(1 .. MaxOp) /\ b \in Seq(1 .. MaxOp)
            BY <1>1, <1>3
        <3>2. QED
            BY <3>1, ConcatElements
    <2>2. 1 \in 1 .. Len(b)
        BY <1>3
    <2>3. QED
        BY <1>1, <1>3, <2>1, <2>2
<1> DEFINE ab == a \o b
<1>5. /\ ab \in Seq(1 .. MaxOp) /\ Len(ab) = n + 1
      /\ \A i \in 1 .. n + 1 : ab[i] = c[i]
    <2>1. \A i \in 1 .. n : ab[i] = c[i]
        BY <1>1, <1>4
    <2>2. ab[n + 1] = c[n + 1]
        BY <1>1, <1>3, <1>4
    <2>3. \A i \in 1 .. n + 1 : i \in 1 .. n \/ i = n + 1
        OBVIOUS
    <2>4. ab \in Seq(1 .. MaxOp) /\ Len(ab) = n + 1
        BY <1>4
    <2> HIDE DEF ab
    <2>5. QED
        BY <2>1, <2>2, <2>3, <2>4
<1> HIDE DEF ab
<1>6. ab = c
    BY <1>1, <1>5
<1>7. QED
    BY <1>6 DEF a, b, c, ab

(* The register file that the driver computes from the entries is that of  *)
(* the retirement of their ops, when they do not wrap around the array.    *)
LEMMA CommittedValue ==
    ASSUME NEW list \in Seq(ListEntries), NEW head \in Nat, NEW num \in Nat, num <= Len(list),
           head + num <= ACTIVE_LIST_ENTRY_NUM, NEW garbage,
           NEW map, map = [l \in LReg |-> map[l]]
    PROVE  GetCommittedRegisterValue(map, list, head, num, garbage)
              = Retire(map, OpsOf(list, num))
<1> DEFINE es == [k \in 1 .. num |-> Entry(list, head, k, garbage)]
<1>1. \A k \in 1 .. num : es[k] = Entry(list, head, k, garbage)
    OBVIOUS
<1>2. es = [k \in 1 .. num |-> Entry(list, head, k, garbage)]
    OBVIOUS
<1> HIDE DEF es
<1>3. PICK f : /\ Writing(f, map, es, num)
               /\ GetCommittedRegisterValue(map, list, head, num, garbage) = f[num]
    <2>1. ValueAlong(map, list, head, num, garbage, es)
        BY <1>2, EntriesWritten
    <2>2. QED
        BY <2>1 DEF ValueAlong
<1>4. ACTIVE_LIST_ENTRY_NUM \in Nat /\ Len(list) \in Nat /\ NoReg \notin LReg
    BY BoundsOfCore, EntriesOf, CoreAssumption
<1> DEFINE T == {j \in Nat : j <= num => f[j] = Retire(map, OpsOf(list, j))}
<1>5. 0 \in T
    <2>1. f[0] = map
        BY <1>3 DEF Writing
    <2>2. Retire(map, OpsOf(list, 0)) = map
        <3> DEFINE none == OpsOf(list, 0)
        <3>1. none \in Seq(1 .. MaxOp) /\ Len(none) = 0
            BY <1>4, OpsOfList
        <3> HIDE DEF none
        <3>2. DOMAIN none = {}
            BY <3>1
        <3>3. \A l \in LReg : Writers(none, l) = {}
            BY <3>2 DEF Writers
        <3>4. \A l \in LReg : Retire(map, none)[l] = map[l]
            <4>1. SUFFICES ASSUME NEW l \in LReg
                           PROVE  Retire(map, none)[l] = map[l]
                OBVIOUS
            <4>2. Writers(none, l) = {} /\ none \in Seq(1 .. MaxOp)
                BY <3>1, <3>3
            <4>3. QED
                BY <4>2, RetireIs
        <3>5. Retire(map, none) = map
            BY <3>4, RetireFunction
        <3>6. QED
            BY <3>5 DEF none
    <2>3. QED
        BY <2>1, <2>2
<1>6. ASSUME NEW j \in Nat, j \in T
      PROVE  j + 1 \in T
    <2>1. SUFFICES ASSUME j + 1 <= num
                   PROVE  f[j + 1] = Retire(map, OpsOf(list, j + 1))
        OBVIOUS
    <2> DEFINE n == list[j + 1].op
               a == OpsOf(list, j)
               m == Retire(map, a)
    <2>2. j + 1 \in 1 .. num /\ (j + 1) - 1 = j /\ j <= num /\ j + 1 \in 1 .. Len(list)
          /\ j <= Len(list) /\ j + 1 <= Len(list) /\ head + (j + 1) <= ACTIVE_LIST_ENTRY_NUM
        BY <1>4, <2>1
    <2>3. f[j] = m
        BY <1>6, <2>2
    <2>4. f[j + 1] = Written(m, es[j + 1])
        BY <1>3, <2>2, <2>3 DEF Writing
    <2>5. n \in 1 .. MaxOp
        BY <2>2, EntriesOf
    <2>6. Retire(map, OpsOf(list, j + 1)) = Retire(m, <<n>>)
        <3>1. OpsOf(list, j + 1) = a \o <<n>>
            BY <2>2, OpsOfMore
        <3>2. a \in Seq(1 .. MaxOp)
            BY <2>2, OpsOfList
        <3> DEFINE b == <<n>>
        <3>3. b \in Seq(1 .. MaxOp)
            BY <2>5
        <3> HIDE DEF a, b, n, m
        <3>4. Retire(Retire(map, a), b) = Retire(map, a \o b)
            BY <3>2, <3>3, RetireConcat
        <3>5. OpsOf(list, j + 1) = a \o b
            BY <3>1 DEF b
        <3>6. Retire(map, OpsOf(list, j + 1)) = Retire(m, b)
            BY <3>4, <3>5 DEF m
        <3>7. QED
            BY <3>6 DEF b
    <2>7. DOMAIN m = LReg /\ m = [l \in LReg |-> m[l]]
        BY RetireFunction
    <2> HIDE DEF m, a
    <2>8. Retire(m, <<n>>) = IF Dst[n] = NoReg THEN m ELSE [m EXCEPT ![Dst[n]] = n]
        BY <2>5, <2>7, RetireOne
    <2>9. es[j + 1] = IF Dst[n] = NoReg THEN [writeReg |-> FALSE]
                      ELSE [writeReg |-> TRUE, reg |-> Dst[n], phy |-> n]
        BY <1>1, <2>2 DEF Entry
    <2> HIDE DEF n
    <2>10. Written(m, es[j + 1]) = IF Dst[n] = NoReg THEN m ELSE [m EXCEPT ![Dst[n]] = n]
        <3>1. CASE Dst[n] = NoReg
            <4>1. es[j + 1].writeReg = FALSE
                BY <2>9, <3>1
            <4>2. QED
                BY <3>1, <4>1 DEF Written
        <3>2. CASE Dst[n] # NoReg
            <4>1. es[j + 1].writeReg = TRUE /\ es[j + 1].reg = Dst[n] /\ es[j + 1].phy = n
                BY <2>9, <3>2
            <4>2. QED
                BY <3>2, <4>1 DEF Written
        <3>3. QED
            BY <3>1, <3>2
    <2>11. QED
        BY <2>4, <2>6, <2>8, <2>10
<1>7. num \in T
    <2>1. Nat \subseteq T
        <3> HIDE DEF T
        <3>1. QED
            BY <1>5, <1>6, SetInduction
    <2>2. QED
        BY <2>1
<1>8. QED
    BY <1>3, <1>7

-----------------------------------------------------------------------------
(* The records of the driver                                                 *)

(* The map before any op retires *)
NoneWritten == [l \in LReg |-> 0]

(* The driver counts what has retired. *)
RetiredInv ==
    /\ rrmt = RegistersAfter(retired)
    /\ numCommittedMicroOp = Len(retired)
    /\ lastCommittedPC = IF ENABLE_PC_GOAL THEN LedOut ELSE 0

(* A row of the CSV file for each op that commits in this cycle *)
CsvInv ==
    /\ csv = [i \in 1 .. commitNum |-> csv[i]]
    /\ ~CommitsWrap =>
          \A i \in 1 .. commitNum :
             /\ csv[i].pc = al[i].op
             /\ csv[i].regs = RegistersAfter(retired \o OpsOf(al, i - 1))

(* What the driver reports at the end is the program order of the ops that *)
(* retired and those that commit in the last cycle.                        *)
OutInv ==
    regOut # <<>> =>
        /\ ~CommitsWrap => regOut.regs = RegistersAfter(retired \o OpsOf(al, commitNum))
        /\ regOut.pc = IF ENABLE_PC_GOAL THEN LedOut ELSE 0

(* The inductive invariant of the core and the driver's own records; with  *)
(* LogHolds it is that of the log too.                                     *)
DriverInv == CoreInv /\ SpanInv /\ RetiredInv /\ CsvInv /\ OutInv

(* The size of an interval *)
LEMMA IntervalCard ==
    ASSUME NEW n \in Nat
    PROVE  Cardinality(1 .. n) = n
<1>1. Cardinality(1 .. n) = IF 1 > n THEN 0 ELSE n - 1 + 1
    BY FS_Interval
<1>2. QED
    BY <1>1

(* The lanes that the driver counts as committed are the ops that commit   *)
(* in the cycle.                                                           *)
LEMMA CountIs ==
    ASSUME NEW c, CoreStands
    PROVE  CountCommitted(RegisterOf(c)) = commitNum
<1> DEFINE d == RegisterOf(c)
           A == [i \in 1 .. commitNum |-> [commit |-> TRUE, flush |-> FALSE, sid |-> Sid(al[i].op)]]
           B == [i \in 1 .. FlushNum |->
                    [commit |-> FALSE, flush |-> TRUE, sid |-> Sid(al[Len(al) + 1 - i].op)]]
           all == {A[i] : i \in 1 .. commitNum} \cup {B[i] : i \in 1 .. FlushNum}
           lanes == A \o B
<1>1. commitNum \in Nat /\ FlushNum \in Nat
    BY FlushNumFacts DEF CoreStands
<1>2. d.cmReg = lanes
    BY Registers DEF RegisterIs, CmLanes
<1>3. /\ A = [i \in 1 .. commitNum |-> A[i]] /\ B = [i \in 1 .. FlushNum |-> B[i]]
      /\ \A i \in 1 .. commitNum : A[i].commit = TRUE
      /\ \A i \in 1 .. FlushNum : B[i].commit = FALSE
    OBVIOUS
<1> HIDE DEF A, B
<1>4. (\A i \in 1 .. commitNum : A[i] \in all) /\ (\A i \in 1 .. FlushNum : B[i] \in all)
    OBVIOUS
<1> HIDE DEF all, d
<1>5. /\ A \in Seq(all) /\ Len(A) = commitNum /\ B \in Seq(all) /\ Len(B) = FlushNum
    <2>1. A \in Seq(all) /\ Len(A) = commitNum
        BY <1>1, <1>3, <1>4, SeqOfElements
    <2>2. B \in Seq(all) /\ Len(B) = FlushNum
        BY <1>1, <1>3, <1>4, SeqOfElements
    <2>3. QED
        BY <2>1, <2>2
<1>6. /\ lanes \in Seq(all) /\ Len(lanes) = commitNum + FlushNum
      /\ \A i \in 1 .. commitNum : lanes[i] = A[i]
      /\ \A i \in 1 .. FlushNum : lanes[commitNum + i] = B[i]
    <2>1. A \in Seq(all) /\ B \in Seq(all)
        BY <1>5
    <2>2. /\ A \o B \in Seq(all) /\ Len(A \o B) = Len(A) + Len(B)
          /\ \A i \in 1 .. Len(A) : (A \o B)[i] = A[i]
          /\ \A i \in 1 .. Len(B) : (A \o B)[Len(A) + i] = B[i]
        BY <2>1, ConcatElements
    <2>3. QED
        BY <1>5, <2>2
<1> HIDE DEF lanes
<1>7. DOMAIN lanes = 1 .. commitNum + FlushNum
    BY <1>1, <1>6
<1>8. ASSUME NEW i \in DOMAIN lanes
      PROVE  lanes[i].commit <=> i \in 1 .. commitNum
    <2>1. CASE i <= commitNum
        <3>1. i \in 1 .. commitNum
            BY <1>1, <1>7, <2>1
        <3>2. QED
            BY <1>3, <1>6, <3>1
    <2>2. CASE ~(i <= commitNum)
        <3> DEFINE j == i - commitNum
        <3>1. j \in 1 .. FlushNum /\ commitNum + j = i /\ i \notin 1 .. commitNum
            BY <1>1, <1>7, <2>2
        <3> HIDE DEF j
        <3>2. lanes[i].commit = FALSE
            BY <1>3, <1>6, <3>1
        <3>3. QED
            BY <3>1, <3>2
    <2>3. QED
        BY <2>1, <2>2
<1>9. {i \in DOMAIN lanes : lanes[i].commit} = 1 .. commitNum
    <2>1. 1 .. commitNum \subseteq DOMAIN lanes
        BY <1>1, <1>7
    <2>2. QED
        BY <1>8, <2>1
<1>10. CountCommitted(d) = Cardinality(1 .. commitNum)
    <2>1. CountCommitted(d) = Cardinality({i \in DOMAIN d.cmReg : d.cmReg[i].commit})
        BY DEF CountCommitted
    <2>2. {i \in DOMAIN d.cmReg : d.cmReg[i].commit} = 1 .. commitNum
        BY <1>2, <1>9
    <2>3. QED
        BY <2>1, <2>2
<1>11. QED
    BY <1>1, <1>10, IntervalCard DEF d

(* Retiring ops after others is retiring all of them. *)
LEMMA RegistersAfterIs ==
    ASSUME NEW a \in Seq(1 .. MaxOp), NEW b \in Seq(1 .. MaxOp)
    PROVE  /\ Retire(RegistersAfter(a), b) = RegistersAfter(a \o b)
           /\ RegistersAfter(a) = [l \in LReg |-> RegistersAfter(a)[l]]
<1>1. RegistersAfter(a) = Retire(NoneWritten, a) /\ RegistersAfter(a \o b) = Retire(NoneWritten, a \o b)
    BY DEF RegistersAfter, NoneWritten
<1>2. Retire(Retire(NoneWritten, a), b) = Retire(NoneWritten, a \o b)
    BY RetireConcat
<1>3. QED
    BY <1>1, <1>2, RetireFunction

(* A sampled cycle keeps the map and the counter of retired ops right. *)
LEMMA RetiredStep ==
    ASSUME NEW c, CoreInv, Choice(c), RetiredInv, Sample(c)
    PROVE  RetiredInv'
<1> DEFINE ops == OpsOf(al, commitNum)
<1>1. CoreStands /\ CoreTypes /\ OrderInv /\ CoreClock(c)
    BY DEF CoreInv, CoreStands, Sample
<1>2. /\ ops \in Seq(1 .. MaxOp) /\ Len(ops) = commitNum /\ commitNum \in Nat
      /\ \A i \in 1 .. commitNum : ops[i] = al[i].op
    BY <1>1, OpsOfFacts
<1>3. retired \in Seq(1 .. MaxOp)
    BY <1>1 DEF CoreTypes
<1>4. /\ rrmt' = Retire(rrmt, ops) /\ retired' = retired \o ops
      /\ numCommittedMicroOp' = numCommittedMicroOp + CountCommitted(RegisterOf(c))
      /\ lastCommittedPC' = (IF ENABLE_PC_GOAL THEN LedOut' ELSE lastCommittedPC)
      /\ ENABLE_PC_GOAL' = ENABLE_PC_GOAL
    BY DEF Sample, CoreClock, RegisterOf
<1> HIDE DEF ops
<1>5. rrmt' = RegistersAfter(retired)'
    <2>1. Retire(RegistersAfter(retired), ops) = RegistersAfter(retired \o ops)
        BY <1>2, <1>3, RegistersAfterIs
    <2>2. RegistersAfter(retired)' = RegistersAfter(retired \o ops)
        BY <1>4 DEF RegistersAfter
    <2>3. QED
        BY <1>4, <2>1, <2>2 DEF RetiredInv
<1>6. numCommittedMicroOp' = Len(retired')
    <2>1. Len(retired') = Len(retired) + commitNum
        BY <1>1, OpsStep DEF CoreStands
    <2>2. QED
        BY <1>1, <1>4, <2>1, CountIs DEF RetiredInv
<1>7. lastCommittedPC' = (IF ENABLE_PC_GOAL' THEN LedOut' ELSE 0)
    BY <1>4 DEF RetiredInv
<1>8. QED
    BY <1>5, <1>6, <1>7 DEF RetiredInv

(* The register file that the driver shows with num of the ops at the head *)
(* of the active list retired as well                                      *)
LEMMA ValueIs ==
    ASSUME NEW list \in Seq(ListEntries), NEW head \in Nat, NEW num \in Nat, num <= Len(list),
           head + num <= ACTIVE_LIST_ENTRY_NUM, NEW garbage,
           NEW past \in Seq(1 .. MaxOp)
    PROVE  GetCommittedRegisterValue(RegistersAfter(past), list, head, num, garbage)
              = RegistersAfter(past \o OpsOf(list, num))
<1> DEFINE map == RegistersAfter(past)
           ops == OpsOf(list, num)
<1>1. ops \in Seq(1 .. MaxOp)
    BY OpsOfList
<1> HIDE DEF ops
<1>2. Retire(RegistersAfter(past), ops) = RegistersAfter(past \o ops)
      /\ RegistersAfter(past) = [l \in LReg |-> RegistersAfter(past)[l]]
    BY <1>1, RegistersAfterIs
<1>3. map = [l \in LReg |-> map[l]]
    BY <1>2
<1> HIDE DEF map
<1>4. GetCommittedRegisterValue(map, list, head, num, garbage) = Retire(map, OpsOf(list, num))
    BY <1>3, CommittedValue
<1>5. QED
    BY <1>2, <1>4 DEF map, ops

(* Row i has the i-th entry and the registers from before it. *)
RowsFollow(rows, list, num, past) ==
    \A i \in 1 .. num : /\ rows[i].pc = list[i].op
                        /\ rows[i].regs = RegistersAfter(past \o OpsOf(list, i - 1))

(* The rows of a cycle follow the entries of the list, as long as these do *)
(* not wrap.                                                               *)
LEMMA RowsAre ==
    ASSUME NEW list \in Seq(ListEntries), NEW head \in Nat, NEW num \in Nat, num <= Len(list),
           head + num <= ACTIVE_LIST_ENTRY_NUM, NEW garbage,
           NEW past \in Seq(1 .. MaxOp),
           NEW rows, rows = CsvRows(RegistersAfter(past), list, head, num, garbage)
    PROVE  RowsFollow(rows, list, num, past)
<1>1. SUFFICES ASSUME NEW i \in 1 .. num
               PROVE  /\ rows[i].pc = list[i].op
                      /\ rows[i].regs = RegistersAfter(past \o OpsOf(list, i - 1))
    BY DEF RowsFollow
<1>2. /\ rows[i].pc = list[i].op
      /\ rows[i].regs = GetCommittedRegisterValue(RegistersAfter(past), list, head, i - 1, garbage)
    BY DEF CsvRows
<1> DEFINE before == i - 1
<1>3. Len(list) \in Nat /\ ACTIVE_LIST_ENTRY_NUM \in Nat
    BY EntriesOf, BoundsOfCore
<1>4. before \in Nat /\ before <= Len(list) /\ head + before <= ACTIVE_LIST_ENTRY_NUM
    BY <1>3
<1> HIDE DEF before
<1>5. GetCommittedRegisterValue(RegistersAfter(past), list, head, before, garbage)
         = RegistersAfter(past \o OpsOf(list, before))
    BY <1>4, ValueIs
<1>6. QED
    BY <1>2, <1>5 DEF before

(* A sampled cycle writes the rows of the ops that commit in it. *)
LEMMA CsvStep ==
    ASSUME NEW c, CoreInv', RetiredInv', Sample(c)
    PROVE  CsvInv'
<1> DEFINE list == al'
           head == headPtr'
           num == commitNum'
           past == retired'
           map == rrmt'
           rows == csv'
<1>1. /\ list \in Seq(ListEntries) /\ num \in Nat /\ num <= Len(list) /\ past \in Seq(1 .. MaxOp)
      /\ head \in Nat
    <2>1. /\ al' \in Seq(ListEntries) /\ commitNum' \in 0 .. COMMIT_WIDTH /\ commitNum' <= Len(al')
          /\ retired' \in Seq(1 .. MaxOp) /\ headPtr' \in 0 .. ACTIVE_LIST_ENTRY_NUM - 1
        BY DEF CoreInv, CoreTypes, ListEntries
    <2>2. QED
        BY <2>1, BoundsOfCore
<1>2. PICK garbage : rows = CsvRows(map, list, head, num, garbage)
    BY DEF Sample
<1>3. map = RegistersAfter(past)
    BY DEF RetiredInv, RegistersAfter
<1>4. CommitsWrap' <=> head + num > ACTIVE_LIST_ENTRY_NUM
    BY DEF CommitsWrap
<1>5. CsvInv' <=>
         /\ rows = [i \in 1 .. num |-> rows[i]]
         /\ ~CommitsWrap' =>
               \A i \in 1 .. num :
                  /\ rows[i].pc = list[i].op
                  /\ rows[i].regs = RegistersAfter(past \o OpsOf(list, i - 1))
    BY DEF CsvInv, RegistersAfter, OpsOf
<1> HIDE DEF list, head, num, past, map, rows
<1>6. rows = [i \in 1 .. num |-> rows[i]]
    BY <1>2 DEF CsvRows
<1>7. ASSUME ~CommitsWrap'
      PROVE  \A i \in 1 .. num :
                  /\ rows[i].pc = list[i].op
                  /\ rows[i].regs = RegistersAfter(past \o OpsOf(list, i - 1))
    <2>1. head + num <= ACTIVE_LIST_ENTRY_NUM
        BY <1>1, <1>4, <1>7, BoundsOfCore
    <2>2. rows = CsvRows(RegistersAfter(past), list, head, num, garbage)
        BY <1>2, <1>3
    <2>3. QED
        <3>1. RowsFollow(rows, list, num, past)
            BY <1>1, <2>1, <2>2, RowsAre
        <3>2. QED
            BY <3>1 DEF RowsFollow
<1>8. QED
    BY <1>5, <1>6, <1>7

(* The end of the simulation reports the registers of program order. *)
LEMMA OutStep ==
    ASSUME CoreInv, RetiredInv, Finish
    PROVE  OutInv'
<1> DEFINE wrap == headPtr + commitNum > ACTIVE_LIST_ENTRY_NUM
<1>1. PICK garbage : regOut' = [pc |-> lastCommittedPC,
              regs |-> GetCommittedRegisterValue(rrmt, al, headPtr, commitNum, garbage)]
    BY DEF Finish
<1>2. /\ CommitsWrap' = wrap /\ LedOut' = LedOut /\ ENABLE_PC_GOAL' = ENABLE_PC_GOAL
      /\ RegistersAfter(retired \o OpsOf(al, commitNum))' = RegistersAfter(retired \o OpsOf(al, commitNum))
    BY DEF Finish, coreVars, CommitsWrap, LedOut, LastOf, RegistersAfter, OpsOf
<1>3. /\ al \in Seq(ListEntries) /\ commitNum \in 0 .. COMMIT_WIDTH /\ commitNum <= Len(al)
      /\ retired \in Seq(1 .. MaxOp) /\ headPtr \in 0 .. ACTIVE_LIST_ENTRY_NUM - 1
    BY DEF CoreInv, CoreTypes
<1>4. commitNum \in Nat /\ headPtr \in Nat /\ ACTIVE_LIST_ENTRY_NUM \in Nat
    BY <1>3, BoundsOfCore
<1>5. ASSUME ~wrap
      PROVE  GetCommittedRegisterValue(rrmt, al, headPtr, commitNum, garbage)
                = RegistersAfter(retired \o OpsOf(al, commitNum))
    <2>1. headPtr + commitNum <= ACTIVE_LIST_ENTRY_NUM
        BY <1>4, <1>5
    <2>2. rrmt = RegistersAfter(retired)
        BY DEF RetiredInv
    <2>3. GetCommittedRegisterValue(RegistersAfter(retired), al, headPtr, commitNum, garbage)
             = RegistersAfter(retired \o OpsOf(al, commitNum))
        BY <1>3, <1>4, <2>1, ValueIs
    <2>4. QED
        BY <2>2, <2>3
<1> HIDE DEF wrap
<1>6. regOut'.pc = lastCommittedPC
      /\ regOut'.regs = GetCommittedRegisterValue(rrmt, al, headPtr, commitNum, garbage)
    BY <1>1
<1>7. lastCommittedPC = IF ENABLE_PC_GOAL THEN LedOut ELSE 0
    BY DEF RetiredInv
<1>8. QED
    BY <1>2, <1>5, <1>6, <1>7 DEF OutInv

(* A step of the driver is a cycle of the core that is sampled. *)
LEMMA ClockChooses ==
    ASSUME Clock
    PROVE  regOut = <<>> /\ \E c : Choice(c) /\ Sample(c)
<1>1. \A S : FlagFor(S) \subseteq BOOLEAN
    BY DEF FlagFor
<1>2. PICK fetch \in FetchChoices, ifMiss \in FlagFor(front["if"]),
           blocked \in FlagFor(front["rn"]),
           pickOne \in (IF Cardinality(front["id"] \ picked) > 1 THEN BOOLEAN ELSE {FALSE}),
           hold \in AtMostOne(InStage("MT")), fail \in AtMostOne(Failing) :
       \E reissue \in AtMostOne(InStage("replay")) :
       \E issue \in IF reissue = {} THEN AtMostOne(InStage("SC")) ELSE {{}} :
          Sample([fetch |-> fetch, ifMiss |-> ifMiss, blocked |-> blocked, pickOne |-> pickOne,
                  issue |-> issue, reissue |-> reissue, hold |-> hold, fail |-> fail])
    BY DEF Clock
<1>3. PICK reissue \in AtMostOne(InStage("replay")) :
       \E issue \in IF reissue = {} THEN AtMostOne(InStage("SC")) ELSE {{}} :
          Sample([fetch |-> fetch, ifMiss |-> ifMiss, blocked |-> blocked, pickOne |-> pickOne,
                  issue |-> issue, reissue |-> reissue, hold |-> hold, fail |-> fail])
    BY <1>2
<1>4. PICK issue \in IF reissue = {} THEN AtMostOne(InStage("SC")) ELSE {{}} :
          Sample([fetch |-> fetch, ifMiss |-> ifMiss, blocked |-> blocked, pickOne |-> pickOne,
                  issue |-> issue, reissue |-> reissue, hold |-> hold, fail |-> fail])
    BY <1>3
<1> DEFINE c == [fetch |-> fetch, ifMiss |-> ifMiss, blocked |-> blocked, pickOne |-> pickOne,
                 issue |-> issue, reissue |-> reissue, hold |-> hold, fail |-> fail]
<1>5. Sample(c)
    BY <1>4
<1>6. /\ c.fetch = fetch /\ c.ifMiss = ifMiss /\ c.blocked = blocked /\ c.pickOne = pickOne
      /\ c.issue = issue /\ c.reissue = reissue /\ c.hold = hold /\ c.fail = fail
    OBVIOUS
<1> HIDE DEF c
<1>7. ifMiss \in BOOLEAN /\ blocked \in BOOLEAN
    BY <1>1, <1>2
<1>8. Choice(c)
    BY <1>2, <1>3, <1>4, <1>6, <1>7 DEF Choice, Waiting
<1>9. QED
    BY <1>5, <1>8 DEF Clock

-----------------------------------------------------------------------------
(* The invariant of the driver                                               *)

(* The start of the driver satisfies the invariant. *)
LEMMA DriverStart ==
    ASSUME Init
    PROVE  DriverInv /\ LogHolds
<1>1. CoreInv
    BY CoreStart DEF Init
<1>2. /\ retired = <<>> /\ dead = {} /\ al = <<>> /\ commitNum = 0 /\ picked = {}
      /\ front = [s \in {"if", "pd", "id", "rn", "ds"} |-> {}]
      /\ rrmt = [l \in LReg |-> 0] /\ script \in Scripts
      /\ log = ParserAfter(script.first * MAX_MICRO_OPS_PER_INSN, 0)
      /\ csv = <<>> /\ numCommittedMicroOp = 0 /\ lastCommittedPC = 0 /\ regOut = <<>>
    BY DEF Init, CoreInit
<1>3. LastRetired = 0 /\ RetiredOps = {} /\ ListOps = {}
      /\ front["if"] = {} /\ Decoding = {}
    BY <1>2 DEF LastRetired, LastOf, RetiredOps, ListOps, Decoding, Waiting
<1>4. LogHolds
    <2>1. Gid(0) = script.first * MAX_MICRO_OPS_PER_INSN
        <3> DEFINE f == script.first
                   k == MAX_MICRO_OPS_PER_INSN
        <3>1. f \in Nat /\ k \in Nat
            BY <1>2, CoreAssumption, BoundsOfLog
        <3>2. Gid(0) = k * (f + 0)
            BY DEF Gid
        <3> HIDE DEF f, k
        <3>3. k * (f + 0) = f * k
            BY <3>1
        <3>4. QED
            BY <3>2, <3>3 DEF f, k
    <2>2. /\ DOMAIN log = LogFields /\ log.failed = FALSE /\ log.warned = FALSE
          /\ log.maxRetired = script.first * MAX_MICRO_OPS_PER_INSN /\ log.committed = 0
          /\ log.flushed = {} /\ log.flushEvents = {} /\ log.cancelled = {}
          /\ log.retireEvents = {}
        BY <1>2 DEF ParserAfter, LogFields
    <2>3. Sound(log, LastRetired, dead)
        BY <1>3, <2>1, <2>2 DEF Sound, Told
    <2>4. Gids(RetiredOps) = {} /\ Len(retired) = 0
        BY <1>2, <1>3 DEF Gids
    <2>5. QED
        BY <1>2, <1>3, <2>2, <2>3, <2>4 DEF LogHolds
<1>5. RetiredInv
    <2>1. RegistersAfter(<<>>) = [l \in LReg |-> 0]
        <3> DEFINE none == <<>>
        <3>1. none \in Seq(1 .. MaxOp) /\ DOMAIN none = {}
            OBVIOUS
        <3> HIDE DEF none
        <3>2. \A l \in LReg : Writers(none, l) = {}
            BY <3>1 DEF Writers
        <3>3. ASSUME NEW l \in LReg
              PROVE  Retire(NoneWritten, none)[l] = 0
            <4>1. Retire(NoneWritten, none)[l] = NoneWritten[l]
                BY <3>1, <3>2, RetireIs
            <4>2. QED
                BY <4>1 DEF NoneWritten
        <3>4. Retire(NoneWritten, none) = [l \in LReg |-> 0]
            BY <3>3, RetireFunction
        <3>5. QED
            BY <3>4 DEF RegistersAfter, NoneWritten, none
    <2>2. LedOut = 0
        <3>1. OpsOf(al, commitNum) = <<>>
            BY <1>2 DEF OpsOf
        <3>2. LastOf(OpsOf(al, commitNum), LastOf(retired, 0)) = 0
            BY <1>2, <3>1 DEF LastOf
        <3>3. LED_NUM \in Nat /\ LED_NUM > 0 /\ 0 % LED_NUM = 0
            BY LedAssumption
        <3>4. QED
            BY <3>2, <3>3 DEF LedOut
    <2>3. QED
        BY <1>2, <1>3, <2>1, <2>2 DEF RetiredInv
<1>6. CsvInv
    <2>1. csv = [i \in 1 .. commitNum |-> csv[i]]
        BY <1>2
    <2>2. QED
        BY <1>2, <2>1 DEF CsvInv
<1>7. OutInv
    BY <1>2 DEF OutInv
<1>8. SpanInv
    <2>1. MaxSpan \in Nat /\ MaxSpan > 0
        BY CoreAssumption
    <2>2. serial = 1
        BY DEF Init, CoreInit
    <2>3. QED
        BY <1>3, <2>1, <2>2 DEF SpanInv
<1>9. QED
    BY <1>1, <1>4, <1>5, <1>6, <1>7, <1>8 DEF DriverInv

(* Every step of the driver keeps the invariant of its records. *)
LEMMA DriverStep ==
    ASSUME DriverInv, [Next]_vars
    PROVE  DriverInv'
<1>1. CASE Clock
    <2>1. regOut = <<>> /\ \E c : Choice(c) /\ Sample(c)
        BY <1>1, ClockChooses
    <2>2. PICK c : Choice(c) /\ Sample(c)
        BY <2>1
    <2>3. CoreClock(c) /\ regOut' = regOut
        BY <2>2 DEF Sample
    <2>4. CoreInv /\ SpanInv /\ RetiredInv
        BY DEF DriverInv
    <2>5. CoreInv' /\ SpanInv'
        BY <2>2, <2>3, <2>4, CoreStep, SpanStep
    <2>6. RetiredInv'
        BY <2>2, <2>4, RetiredStep
    <2>7. CsvInv'
        BY <2>2, <2>5, <2>6, CsvStep
    <2>8. OutInv'
        BY <2>1, <2>3 DEF OutInv
    <2>9. QED
        BY <2>5, <2>6, <2>7, <2>8 DEF DriverInv
<1>2. ASSUME UNCHANGED <<coreVars, ENABLE_PC_GOAL, log, csv, numCommittedMicroOp, lastCommittedPC>>
      PROVE  CoreInv' /\ SpanInv' /\ RetiredInv' /\ CsvInv'
    <2>1. CoreInv'
        BY <1>2 DEF DriverInv, coreVars, CoreInv, CoreTypes, OrderInv, StageInv, DeadInv, WidthInv,
                    ListOps, RetiredOps, Waiting, Before, InStage, ListEntries
    <2>2. RetiredInv'
        BY <1>2 DEF DriverInv, coreVars, RetiredInv, RegistersAfter, LedOut, LastOf, OpsOf
    <2>3. CsvInv'
        BY <1>2 DEF DriverInv, coreVars, CsvInv, CommitsWrap, RegistersAfter, OpsOf
    <2>4. SpanInv'
        BY <1>2 DEF DriverInv, coreVars, SpanInv, LastRetired, LastOf
    <2>5. QED
        BY <2>1, <2>2, <2>3, <2>4
<1>3. CASE Finish
    <2>1. UNCHANGED <<coreVars, ENABLE_PC_GOAL, log, csv, numCommittedMicroOp, lastCommittedPC>>
        BY <1>3 DEF Finish
    <2>2. OutInv'
        BY <1>3, OutStep DEF DriverInv
    <2>3. QED
        BY <1>2, <2>1, <2>2 DEF DriverInv
<1>4. CASE UNCHANGED vars
    <2>1. UNCHANGED <<coreVars, ENABLE_PC_GOAL, log, csv, numCommittedMicroOp, lastCommittedPC>>
        BY <1>4 DEF vars, driverVars
    <2>2. OutInv'
        BY <1>4 DEF DriverInv, OutInv, vars, driverVars, coreVars, CommitsWrap, RegistersAfter, OpsOf,
                    LedOut, LastOf
    <2>3. QED
        BY <1>2, <2>1, <2>2 DEF DriverInv
<1>5. QED
    BY <1>1, <1>3, <1>4 DEF Next

(* Every step of the driver keeps the log true, while the ops in flight    *)
(* fit the ids that the parser tells apart.                                *)
LEMMA LogKept ==
    ASSUME SpanFits, DriverInv, LogHolds, [Next]_vars
    PROVE  LogHolds'
<1>1. CASE Clock
    <2>1. PICK c : Choice(c) /\ Sample(c)
        BY <1>1, ClockChooses
    <2>2. CoreClock(c) /\ log' = ParseCycle(log, DumpCycle(RegisterOf(c)))
        BY <2>1 DEF Sample, RegisterOf
    <2>3. CoreInv /\ SpanInv
        BY DEF DriverInv
    <2>4. QED
        BY <2>1, <2>2, <2>3, LogStep
<1>2. CASE UNCHANGED <<coreVars, log>>
    BY <1>2 DEF coreVars, LogHolds, Sound, Told, Gids, Gid, Known, Shown, LastRetired,
                LastOf, RetiredOps, ListOps, Decoding, Waiting, LogFields
<1>3. CASE Finish
    <2>1. UNCHANGED <<coreVars, log>>
        BY <1>3 DEF Finish
    <2>2. QED
        BY <1>2, <2>1
<1>4. CASE UNCHANGED vars
    <2>1. UNCHANGED <<coreVars, log>>
        BY <1>4 DEF vars, driverVars
    <2>2. QED
        BY <1>2, <2>1
<1>5. QED
    BY <1>1, <1>3, <1>4 DEF Next

(* The invariant of the driver: that of the core that is traced, and that  *)
(* the counts, the rows and the report have the registers of program order *)
(* (TestMain.cpp, VerilatorHelper.h).                                      *)
THEOREM DriverSafe == Spec => []DriverInv
<1>1. Init => DriverInv
    BY DriverStart
<1>2. DriverInv /\ [Next]_vars => DriverInv'
    BY DriverStep
<1>3. QED
    BY <1>1, <1>2, PTL DEF Spec

(* The invariant of the log: the parser knows which ops retired, died or   *)
(* are in flight, if these span no more than a quarter of the serial ids   *)
(* (Dumper.h DumpCycle, RSD_Parser.py OnRSD_Stage_).                       *)
THEOREM LogSafe ==
    ASSUME SpanFits
    PROVE  Spec => []LogHolds
<1>1. Init => LogHolds
    BY DriverStart
<1>2. DriverInv /\ LogHolds /\ [Next]_vars => LogHolds'
    BY LogKept
<1>3. QED
    BY <1>1, <1>2, DriverSafe, PTL DEF Spec

-----------------------------------------------------------------------------
(* The properties of the driver                                              *)

(* No more ops retire than there are: they retire in their order. *)
LEMMA RetiredAreFew ==
    ASSUME CoreTypes, OrderInv
    PROVE  Len(retired) \in 0 .. MaxOp
<1>1. /\ retired \in Seq(1 .. MaxOp) /\ Len(retired) \in Nat /\ MaxOp \in Nat
      /\ \A i \in 1 .. Len(retired) : retired[i] \in 1 .. MaxOp
      /\ \A i, j \in 1 .. Len(retired) : i < j => retired[i] < retired[j]
    BY BoundsOfCore DEF CoreTypes, OrderInv
<1> DEFINE T == {k \in Nat : k \in 1 .. Len(retired) => k <= retired[k]}
<1>2. 0 \in T
    OBVIOUS
<1>3. ASSUME NEW k \in Nat, k \in T
      PROVE  k + 1 \in T
    <2>1. SUFFICES ASSUME k + 1 \in 1 .. Len(retired)
                   PROVE  k + 1 <= retired[k + 1]
        OBVIOUS
    <2>2. retired[k + 1] \in 1 .. MaxOp
        BY <1>1, <2>1
    <2>3. CASE k = 0
        BY <2>2, <2>3
    <2>4. CASE k # 0
        <3>1. k \in 1 .. Len(retired) /\ k < k + 1
            BY <1>1, <2>1, <2>4
        <3>2. k <= retired[k] /\ retired[k] < retired[k + 1] /\ retired[k] \in 1 .. MaxOp
            BY <1>1, <1>3, <2>1, <3>1
        <3>3. QED
            BY <2>2, <3>2
    <2>5. QED
        BY <2>3, <2>4
<1>4. Len(retired) \in T
    <2>1. Nat \subseteq T
        <3> HIDE DEF T
        <3>1. QED
            BY <1>2, <1>3, SetInduction
    <2>2. QED
        BY <1>1, <2>1
<1>5. CASE Len(retired) = 0
    BY <1>1, <1>5
<1>6. CASE Len(retired) # 0
    <2>1. Len(retired) \in 1 .. Len(retired)
        BY <1>1, <1>6
    <2>2. Len(retired) <= retired[Len(retired)] /\ retired[Len(retired)] \in 1 .. MaxOp
        BY <1>1, <1>4, <2>1
    <2>3. QED
        BY <1>1, <2>2
<1>7. QED
    BY <1>5, <1>6

(* TypeOK follows from the inductive invariant. *)
LEMMA TypesOfDriver ==
    ASSUME DriverInv
    PROVE  TypeOK
<1>1. CoreTypes /\ OrderInv /\ StageInv /\ WidthInv /\ RetiredInv /\ CsvInv
    BY DEF DriverInv, CoreInv
<1>2. serial \in 1 .. MaxOp + 1 /\ MaxOp \in Nat
    BY <1>1, BoundsOfCore DEF CoreTypes
<1>3. \A n \in 1 .. serial - 1 : n \in 1 .. MaxOp
    BY <1>2
<1>4. front \in [{"if", "pd", "id", "rn", "ds"} -> SUBSET (1 .. MaxOp)]
    <2>1. front \in [FrontStages -> SUBSET (1 .. serial - 1)]
        BY <1>1 DEF CoreTypes
    <2>2. QED
        BY <1>3, <2>1 DEF FrontStages
<1>5. Len(al) <= ACTIVE_LIST_ENTRY_NUM /\ commitNum \in 0 .. COMMIT_WIDTH
    BY <1>1 DEF WidthInv, CoreTypes
<1>6. DOMAIN back \subseteq 1 .. MaxOp
    BY <1>1, <1>3 DEF CoreTypes
<1>7. rrmt \in [LReg -> 0 .. MaxOp]
    <2>1. retired \in Seq(1 .. MaxOp) /\ rrmt = Retire(NoneWritten, retired)
        BY <1>1 DEF CoreTypes, RetiredInv, RegistersAfter, NoneWritten
    <2>2. ASSUME NEW l \in LReg
          PROVE  Retire(NoneWritten, retired)[l] \in 0 .. MaxOp
        <3>1. \/ Writers(retired, l) = {} /\ Retire(NoneWritten, retired)[l] = NoneWritten[l]
              \/ \E w \in DOMAIN retired : /\ LastWriter(retired, l, w)
                                           /\ Retire(NoneWritten, retired)[l] = retired[w]
            BY <2>1, RetireAt
        <3>2. NoneWritten[l] = 0
            BY DEF NoneWritten
        <3>3. retired \in Seq(1 .. MaxOp)
            BY <2>1
        <3>4. \A w \in DOMAIN retired : retired[w] \in 1 .. MaxOp
            BY <3>3, ValuesAreElements
        <3>5. QED
            BY <1>2, <3>1, <3>2, <3>4
    <2>3. QED
        BY <2>1, <2>2, RetireFunction
<1>8. numCommittedMicroOp \in 0 .. MaxOp
    BY <1>1, RetiredAreFew DEF RetiredInv
<1>9. Len(csv) <= COMMIT_WIDTH
    <2>1. commitNum \in Nat /\ commitNum <= COMMIT_WIDTH
        BY <1>5, BoundsOfCore
    <2>2. Len(csv) = commitNum
        <3> DEFINE rows == {csv[i] : i \in 1 .. commitNum}
        <3>1. csv = [i \in 1 .. commitNum |-> csv[i]] /\ \A i \in 1 .. commitNum : csv[i] \in rows
            BY <1>1 DEF CsvInv
        <3> HIDE DEF rows
        <3>2. QED
            BY <2>1, <3>1, SeqOfElements
    <2>3. QED
        BY <2>1, <2>2
<1>10. QED
    BY <1>2, <1>4, <1>5, <1>6, <1>7, <1>8, <1>9 DEF TypeOK

(* CsvFollowsCommits follows from the invariant. *)
LEMMA RowsOfDriver ==
    ASSUME DriverInv
    PROVE  CsvFollowsCommits
<1>1. CoreTypes /\ OrderInv /\ StageInv /\ DeadInv /\ CsvInv
    BY DEF DriverInv, CoreInv
<1>2. SUFFICES ASSUME ~CommitsWrap, NEW i \in DOMAIN csv
               PROVE  LET before == retired \o [k \in 1 .. i - 1 |-> csv[k].pc]
                      IN  /\ csv[i].pc \notin Range(before) \cup dead
                          /\ csv[i].regs = RegistersAfter(before)
    BY DEF CsvFollowsCommits
<1>3. /\ DOMAIN csv = 1 .. commitNum
      /\ \A k \in 1 .. commitNum :
            csv[k].pc = al[k].op /\ csv[k].regs = RegistersAfter(retired \o OpsOf(al, k - 1))
    BY <1>1, <1>2 DEF CsvInv
<1>4. /\ commitNum \in Nat /\ commitNum <= Len(al) /\ al \in Seq(ListEntries)
      /\ retired \in Seq(1 .. MaxOp) /\ Len(al) \in Nat /\ DOMAIN al = 1 .. Len(al)
    BY <1>1, BoundsOfCore, EntriesOf DEF CoreTypes
<1> DEFINE num == i - 1
           ops == OpsOf(al, num)
           before == retired \o ops
<1>5. num \in Nat /\ num <= Len(al) /\ i \in 1 .. commitNum /\ \A k \in 1 .. num : k \in 1 .. commitNum
    BY <1>3, <1>4
<1>6. [k \in 1 .. i - 1 |-> csv[k].pc] = ops
    BY <1>3, <1>5 DEF OpsOf
<1>7. /\ ops \in Seq(1 .. MaxOp) /\ Len(ops) = num
      /\ \A k \in 1 .. num : ops[k] = al[k].op
    <2> HIDE DEF num
    <2>1. QED
        BY <1>4, <1>5, OpsOfList
<1> DEFINE n == al[i].op
<1>8. n \in ListOps /\ n \in Committed /\ i \in DOMAIN al
    BY <1>4, <1>5 DEF ListOps, Committed
<1>9. n \notin dead
    BY <1>1, <1>8, KeptOpsAre
<1>10. n \notin Range(before)
    <2>1. SUFFICES ASSUME NEW k \in DOMAIN before, before[k] = n
                   PROVE  FALSE
        BY DEF Range
    <2> HIDE DEF ops, n, num
    <2>2. /\ Len(retired \o ops) = Len(retired) + Len(ops) /\ retired \o ops \in Seq(1 .. MaxOp)
          /\ \A j \in 1 .. Len(retired) : (retired \o ops)[j] = retired[j]
          /\ \A j \in 1 .. Len(ops) : (retired \o ops)[Len(retired) + j] = ops[j]
        <3>1. retired \in Seq(1 .. MaxOp) /\ ops \in Seq(1 .. MaxOp)
            BY <1>4, <1>7
        <3>2. QED
            BY <3>1, ConcatElements
    <2> HIDE DEF before
    <2>3. /\ Len(retired) \in Nat /\ num \in Nat /\ DOMAIN before = 1 .. Len(retired) + num
          /\ DOMAIN retired = 1 .. Len(retired)
        BY <1>4, <1>5, <1>7, <2>2 DEF before
    <2>4. n \in Nat /\ n \in 1 .. MaxOp
        <3>1. i \in 1 .. Len(al)
            BY <1>4, <1>8
        <3>2. QED
            BY <1>4, <3>1, EntriesOf DEF n
    <2>5. CASE k <= Len(retired)
        <3>1. k \in DOMAIN retired /\ before[k] = retired[k]
            BY <2>2, <2>3, <2>5 DEF before
        <3>2. before[k] \in RetiredOps
            BY <3>1 DEF RetiredOps
        <3>3. before[k] < n
            BY <1>1, <1>8, <3>2 DEF OrderInv, Before
        <3>4. QED
            BY <2>1, <2>4, <3>3
    <2>6. CASE ~(k <= Len(retired))
        <3> DEFINE j == k - Len(retired)
        <3>1. j \in 1 .. num /\ Len(retired) + j = k
            BY <2>3, <2>6
        <3>2. j < i /\ j \in DOMAIN al
            BY <1>4, <1>5, <3>1 DEF num
        <3> HIDE DEF j
        <3>3. before[k] = al[j].op
            BY <1>7, <2>2, <3>1 DEF before
        <3>4. al[j].op < n
            BY <1>1, <1>8, <3>2 DEF OrderInv, n
        <3>5. QED
            BY <2>1, <2>4, <3>3, <3>4
    <2>7. QED
        BY <2>5, <2>6
<1>11. csv[i].pc = n /\ csv[i].regs = RegistersAfter(before)
    BY <1>3, <1>5
<1> HIDE DEF ops, n, num
<1>12. retired \o [k \in 1 .. i - 1 |-> csv[k].pc] = before
    BY <1>6
<1> HIDE DEF before
<1>13. csv[i].pc \notin Range(before) \cup dead /\ csv[i].regs = RegistersAfter(before)
    BY <1>9, <1>10, <1>11
<1>14. QED
    BY <1>12, <1>13

(* The last of two sequences in a row *)
LEMMA LastOfConcat ==
    ASSUME NEW N \in Nat, NEW s \in Seq(1 .. N), NEW t \in Seq(1 .. N)
    PROVE  LastOf(s \o t, 0) = LastOf(t, LastOf(s, 0))
<1>1. /\ Len(s \o t) = Len(s) + Len(t) /\ s \o t \in Seq(1 .. N)
      /\ \A i \in 1 .. Len(t) : (s \o t)[Len(s) + i] = t[i]
      /\ Len(s) \in Nat /\ Len(t) \in Nat
    BY ConcatElements
<1>2. CASE t = <<>>
    <2>1. s \o t = s
        BY <1>2
    <2>2. QED
        BY <1>2, <2>1 DEF LastOf
<1>3. CASE t # <<>>
    <2>1. Len(t) \in 1 .. Len(t)
        BY <1>1, <1>3
    <2>2. s \o t # <<>> /\ (s \o t)[Len(s \o t)] = t[Len(t)]
        BY <1>1, <2>1
    <2>3. QED
        BY <1>3, <2>2 DEF LastOf
<1>4. QED
    BY <1>2, <1>3

(* ResultsAgree follows from the invariant. *)
LEMMA ResultsOfDriver ==
    ASSUME DriverInv, LogHolds
    PROVE  ResultsAgree
<1> DEFINE ops == OpsOf(al, commitNum)
<1>1. CoreInv /\ RetiredInv /\ OutInv
    BY DEF DriverInv
<1>2. numCommittedMicroOp = Len(retired) /\ numCommittedMicroOp = log.committed
    BY <1>1 DEF RetiredInv, LogHolds
<1>3. /\ retired \in Seq(1 .. MaxOp) /\ al \in Seq(ListEntries) /\ MaxOp \in Nat
      /\ commitNum \in Nat /\ commitNum <= Len(al)
    BY <1>1, BoundsOfCore DEF CoreInv, CoreTypes
<1>4. ops \in Seq(1 .. MaxOp)
    BY <1>3, OpsOfList
<1> HIDE DEF ops
<1>5. LastOf(retired \o ops, 0) = LastOf(ops, LastOf(retired, 0))
    BY <1>3, <1>4, LastOfConcat
<1>6. LedOut = LastOf(retired \o ops, 0) % LED_NUM
    BY <1>5 DEF LedOut, ops
<1>7. QED
    BY <1>1, <1>2, <1>6 DEF OutInv, ResultsAgree, ops

(* LogTellsTheTruth follows from the invariant. *)
LEMMA LogOfDriver ==
    ASSUME DriverInv, LogHolds
    PROVE  LogTellsTheTruth
<1>1. LogHolds /\ DeadInv
    BY DEF DriverInv, CoreInv
<1>2. /\ ~log.failed /\ ~log.warned /\ log.retireEvents = Gids(RetiredOps)
      /\ Told(log) \subseteq Gids(dead)
    BY <1>1 DEF LogHolds, Sound
<1>3. Retired = RetiredOps
    BY DEF Retired, RetiredOps, Range
<1>4. ASSUME phase = "commit", NEW n \in dead
      PROVE  Gid(n) \in Told(log)
    <2>1. n \notin ListOps
        BY <1>1, <1>4 DEF DeadInv
    <2>2. QED
        BY <1>1, <2>1 DEF LogHolds
<1>5. phase = "commit" => Gids(dead) \subseteq Told(log)
    BY <1>4 DEF Gids, Gid
<1>6. QED
    BY <1>2, <1>3, <1>5 DEF LogTellsTheTruth, Told

(* The stages of the core and the records of the driver have their types   *)
(* in every state of the simulation (TestMain.cpp, the main loop).         *)
THEOREM DriverTypes == Spec => []TypeOK
<1>1. DriverInv => TypeOK
    BY TypesOfDriver
<1>2. QED
    BY <1>1, DriverSafe, PTL

(* Whatever the core commits, flushes and recovers, the rows of the CSV    *)
(* file are the states of the register file along the retired ops, one at  *)
(* a time and in program order, while the commits do not run past the end  *)
(* of the active list array (TestMain.cpp 278-292).                        *)
THEOREM RowsFollowCommits == Spec => []CsvFollowsCommits
<1>1. DriverInv => CsvFollowsCommits
    BY RowsOfDriver
<1>2. QED
    BY <1>1, DriverSafe, PTL

(* Wherever the simulation stops, at the goal or after any cycle, its      *)
(* counts are those of the log and of the ops that have retired; the       *)
(* register dump is of these and of the ops retiring in the last cycle,    *)
(* and its pc has the low bits that the LEDs show of the last of them, or  *)
(* is 0 when the goal is not looked for (TestMain.cpp 305-308, 331-368).   *)
THEOREM DumpsAgree ==
    ASSUME SpanFits
    PROVE  Spec => []ResultsAgree
<1>1. DriverInv /\ LogHolds => ResultsAgree
    BY ResultsOfDriver
<1>2. QED
    BY <1>1, DriverSafe, LogSafe, PTL

(* For every width of the machine, every size of the active list and every *)
(* choice of the stalls, flushes and failures, the parser of the log tells *)
(* of each op what became of it: serial ids that wrap are never mistaken,  *)
(* no line is refused, and once a recovery is over all of the wrong path   *)
(* is shown flushed or left out (Dumper.h DumpCycle, RSD_Parser.py).       *)
THEOREM LogIsTrue ==
    ASSUME SpanFits
    PROVE  Spec => []LogTellsTheTruth
<1>1. DriverInv /\ LogHolds => LogTellsTheTruth
    BY LogOfDriver
<1>2. QED
    BY <1>1, DriverSafe, LogSafe, PTL
=============================================================================
