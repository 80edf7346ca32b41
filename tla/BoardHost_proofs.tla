-------------------------- MODULE BoardHost_proofs --------------------------
(***************************************************************************)
(* The board host, for every image, memory, queue and number of runs: RSD  *)
(* runs the image, and what it prints comes out once and in order.         *)
(*                                                                         *)
(* The output rests on three registers that are one clock old.  A read of  *)
(* the status takes two clocks from its request to its answer, so the      *)
(* status that is answered was taken after the last pop (StatusInv, first  *)
(* two conjuncts); a queue that was not empty then stays so until this     *)
(* host reads its head, since nobody else reads (ChannelInv); and the head *)
(* that is answered is the one that is popped with the answer.             *)
(*                                                                         *)
(* The memory rests on what the loads leave half done: Memory is what RSD  *)
(* would read if the cache were flushed, and MemoryInv says how far it is, *)
(* up to the words that stores of RSD have reached.  Every store under way *)
(* is of this release or was under way when RSD was last reset.            *)
(***************************************************************************)
EXTENDS BoardHost, SequenceTheorems, TLAPS

(* The sizes a host loads fit the text and the memory. *)
LEMMA SizeFacts ==
    ASSUME NEW s \in Sizes \cup {16 * Len(File)}
    PROVE  /\ s \in Nat /\ s \div 16 \in 1 .. Len(File) /\ Len(File) \in Nat
           /\ s \div 4 \in Nat /\ s \div 4 <= MEM_WORDS
           /\ 4 * ((s + 15) \div 16) <= MEM_WORDS
           /\ MEM_WORDS \in Nat \ {0}
<1>1. Len(File) \in Nat /\ Sizes \subseteq Nat
    <2>1. File \in Seq([1 .. 4 -> Int])
        BY SizeAssumption, Zenon DEF SizeAssumption
    <2>2. Sizes \subseteq Nat
        BY SizeAssumption, Zenon DEF SizeAssumption
    <2>3. QED
        BY <2>1, <2>2, LenProperties, Zenon
<1>2. s \in Nat /\ MEM_WORDS \in Nat
    BY <1>1, BoundAssumption DEF BoundAssumption
<1>3. s \div 16 \in 1 .. Len(File) /\ 4 * ((s + 15) \div 16) <= MEM_WORDS
    BY SizeAssumption DEF SizeAssumption
<1>4. s \div 4 <= 4 * ((s + 15) \div 16) /\ s \div 4 \in Nat
    BY <1>2
<1>5. QED
    BY <1>1, <1>2, <1>3, <1>4

(* The places of the words of the text in memory *)
LEMMA HostIndexFacts ==
    ASSUME NEW j \in Nat
    PROVE  /\ HostIndex(j) \in Nat
           /\ HostIndex(HostIndex(j)) = j
           /\ HostIndex(j) \div 4 = j \div 4
           /\ HostIndex(j) % 4 = 3 - (j % 4)
           /\ j % 4 \in 0 .. 3 /\ j \div 4 \in Nat /\ j = 4 * (j \div 4) + (j % 4)
<1>1. PICK q \in Nat, r \in 0 .. 3 : j = 4 * q + r /\ q = j \div 4 /\ r = j % 4
    BY SMT
<1>2. HostIndex(j) = 4 * q + (3 - r)
    BY <1>1 DEF HostIndex
<1>3. 3 - r \in 0 .. 3 /\ HostIndex(j) \in Nat
    BY <1>1, <1>2
<1>4. HostIndex(j) \div 4 = q /\ HostIndex(j) % 4 = 3 - r
    BY <1>1, <1>2, <1>3
<1>5. QED
    BY <1>1, <1>2, <1>3, <1>4 DEF HostIndex

(* No word of the text goes past the end of memory. *)
LEMMA HostIndexInMemory ==
    ASSUME NEW s \in Sizes \cup {16 * Len(File)}, NEW j \in Nat, j < s \div 4
    PROVE  HostIndex(j) \in Words
<1>1. s \in Nat /\ MEM_WORDS \in Nat /\ 4 * ((s + 15) \div 16) <= MEM_WORDS
    BY SizeFacts
<1>2. PICK q \in Nat, r \in 0 .. 3 : j = 4 * q + r /\ q = j \div 4 /\ r = j % 4
    BY SMT
<1>3. HostIndex(j) \in Nat /\ HostIndex(j) <= 4 * q + 3
    BY <1>2 DEF HostIndex
<1>4. 4 * q + 1 <= s \div 4
    BY <1>1, <1>2
<1>5. 16 * q + 4 <= s
    BY <1>1, <1>4
<1>6. q + 1 <= (s + 15) \div 16
    BY <1>1, <1>2, <1>5
<1>7. HostIndex(j) < MEM_WORDS
    BY <1>1, <1>3, <1>6
<1>8. QED
    BY <1>1, <1>3, <1>7 DEF Words

-----------------------------------------------------------------------------
(* The host program: where its counters stand at each place *)
ControlInv ==
    /\ host \in {"loader", "run_simple"} /\ hpc \in States /\ runs \in 1 .. MaxRuns
    /\ size \in Sizes \cup {16 * Len(File)}
    /\ host = "run_simple" => size = 16 * Len(File)
    /\ step \in 0 .. MEM_WORDS
    /\ hpc = "zero" => step < MEM_WORDS
    /\ hpc = "write" => step <= size \div 4
    /\ hpc \in {"flush", "release"} => step = size \div 4
    /\ t \in 0 .. PERIOD /\ u \in 0 .. PERIODS
    /\ hpc # "exit" => u < PERIODS

(* The read channel: a request, the request with its acceptance, the       *)
(* answer; and the place where the host waits for it, if it still lives.   *)
ChannelInv ==
    /\ bus \in [arvalid : BOOLEAN, arready : BOOLEAN, rvalid : BOOLEAN,
                addr : {EMPTY_OFFSET, DATA_OFFSET}, rdata : Nat, live : BOOLEAN]
    /\ regs \in [1 .. 2 -> Nat] /\ queue \in Seq(Nat) /\ sent \in Nat /\ got \in Nat
    /\ bus.arready => bus.arvalid
    /\ ~(bus.arvalid /\ bus.rvalid)
    /\ hpc = "empty?" => bus.live /\ ~Free /\ bus.addr = EMPTY_OFFSET
    /\ hpc = "data?" => bus.live /\ ~Free /\ bus.addr = DATA_OFFSET
    /\ bus.live /\ ~Free => hpc \in {"empty?", "data?"}
    /\ hpc = "fetch" => Free

LEMMA InitControl == Init => ControlInv /\ ChannelInv
<1> SUFFICES ASSUME Init PROVE ControlInv /\ ChannelInv
    OBVIOUS
<1>1. 16 * Len(File) \in Sizes \cup {16 * Len(File)}
    OBVIOUS
<1>2. MEM_WORDS \in Nat \ {0}
    BY <1>1, SizeFacts
<1>3. ControlInv
    BY <1>2, BoundAssumption DEF Init, ControlInv, BoundAssumption, States
<1>4. << 1, 0 >> \in [1 .. 2 -> Nat]
    OBVIOUS
<1>5. ChannelInv
    BY <1>4 DEF Init, ChannelInv, Idle, EMPTY_OFFSET, DATA_OFFSET, Stale
<1>6. QED
    BY <1>3, <1>5

(* One clock of the channel *)
LEMMA NextBusIs ==
    ASSUME ChannelInv
    PROVE  /\ NextBus \in [arvalid : BOOLEAN, arready : BOOLEAN, rvalid : BOOLEAN,
                           addr : {EMPTY_OFFSET, DATA_OFFSET}, rdata : Nat, live : BOOLEAN]
           /\ NextBus.addr = bus.addr /\ NextBus.live = bus.live
           /\ NextBus.arvalid = (bus.arvalid /\ ~bus.arready)
           /\ NextBus.arready = (bus.arvalid /\ ~bus.arready)
           /\ NextBus.rvalid = (bus.arvalid /\ bus.arready)
           /\ bus.arready => NextBus.rdata = regs[bus.addr + 1]
<1>1. bus.addr + 1 \in 1 .. 2
    BY DEF ChannelInv, EMPTY_OFFSET, DATA_OFFSET
<1>2. regs[bus.addr + 1] \in Nat
    BY <1>1 DEF ChannelInv
<1>3. QED
    BY <1>2 DEF ChannelInv, NextBus, Accepting

LEMMA NextQueueIs ==
    ASSUME ChannelInv, NEW we \in BOOLEAN
    PROVE  NextQueue(we, sent + 1) \in Seq(Nat)
BY DEF ChannelInv, NextQueue, Pop, Empty

LEMMA EndRoundIs ==
    ASSUME NEW now \in 0 .. PERIOD, ControlInv, u < PERIODS, EndRound(now)
    PROVE  /\ t' \in 0 .. PERIOD /\ u' \in 0 .. PERIODS
           /\ hpc' \in {"poll", "exit"} /\ (hpc' # "exit" => u' < PERIODS)
<1>1. PERIOD \in Nat /\ PERIODS \in Nat \ {0}
    BY BoundAssumption DEF BoundAssumption
<1>2. CASE now < PERIOD
    BY <1>1, <1>2 DEF EndRound, ControlInv
<1>3. CASE ~(now < PERIOD)
    <2>1. t' = 0
        BY <1>3 DEF EndRound
    <2>2. CASE host = "loader"
        BY <1>1, <1>3, <2>1, <2>2 DEF EndRound, ControlInv
    <2>3. CASE host # "loader"
        <3>1. u' = u + 1 /\ hpc' = IF u + 1 = PERIODS THEN "exit" ELSE "poll"
            BY <1>3, <2>3 DEF EndRound
        <3>2. QED
            BY <1>1, <2>1, <3>1 DEF ControlInv
    <2>4. QED
        BY <2>2, <2>3
<1>4. QED
    BY <1>2, <1>3

(* Every step keeps the places of the host and the shapes of the channel. *)
LEMMA StepKeepsControl ==
    ASSUME ControlInv, ChannelInv, [Next]_vars
    PROVE  ControlInv' /\ ChannelInv'
<1> USE DEF hostVars, memVars, storeVars, history, EMPTY_OFFSET, DATA_OFFSET
<1>0. 16 * Len(File) \in Sizes \cup {16 * Len(File)} /\ MEM_WORDS \in Nat \ {0}
    BY SizeFacts
<1>s. size \div 4 \in Nat /\ size \div 4 <= MEM_WORDS
    BY SizeFacts DEF ControlInv
<1>p. PERIOD \in Nat /\ PERIODS \in Nat \ {0} /\ MaxRuns \in Nat \ {0}
    BY BoundAssumption DEF BoundAssumption
<1>1. CASE HoldReset
    <2>1. ControlInv'
        BY <1>0, <1>s, <1>p, <1>1 DEF HoldReset, ControlInv, States
    <2>2. ChannelInv'
        BY <1>1 DEF HoldReset, ChannelInv, Free
    <2>3. QED
        BY <2>1, <2>2
<1>2. CASE ZeroMemory
    <2>1. ControlInv'
        BY <1>0, <1>s, <1>p, <1>2 DEF ZeroMemory, ControlInv, States
    <2>2. ChannelInv'
        BY <1>2 DEF ZeroMemory, ChannelInv, Free
    <2>3. QED
        BY <2>1, <2>2
<1>3. CASE WriteWord
    <2>1. ControlInv'
        BY <1>0, <1>s, <1>p, <1>3 DEF WriteWord, ControlInv, States, WordsToSend
    <2>2. ChannelInv'
        BY <1>3 DEF WriteWord, ChannelInv, Free
    <2>3. QED
        BY <2>1, <2>2
<1>4. CASE AllWritten
    <2>1. ControlInv'
        BY <1>0, <1>s, <1>p, <1>4 DEF AllWritten, ControlInv, States, WordsToSend
    <2>2. ChannelInv'
        BY <1>4 DEF AllWritten, ChannelInv, Free
    <2>3. QED
        BY <2>1, <2>2
<1>5. CASE Flush
    <2>1. ControlInv'
        BY <1>0, <1>s, <1>p, <1>5 DEF Flush, ControlInv, States
    <2>2. ChannelInv'
        BY <1>5 DEF Flush, ChannelInv, Free
    <2>3. QED
        BY <2>1, <2>2
<1>6. CASE Release
    <2>1. ControlInv'
        BY <1>0, <1>s, <1>p, <1>6 DEF Release, ControlInv, States
    <2>2. ChannelInv'
        BY <1>6 DEF Release, ChannelInv, Free
    <2>3. QED
        BY <2>1, <2>2
<1>7. CASE AskEmpty
    <2>1. ControlInv'
        BY <1>p, <1>7 DEF AskEmpty, Ask, ControlInv, States
    <2>2. bus' = [arvalid |-> TRUE, arready |-> FALSE, rvalid |-> FALSE,
                  addr |-> 0, rdata |-> 0, live |-> TRUE]
        BY <1>7 DEF AskEmpty, Ask, Idle
    <2>3. bus' \in [arvalid : BOOLEAN, arready : BOOLEAN, rvalid : BOOLEAN,
                    addr : {0, 1}, rdata : Nat, live : BOOLEAN]
        BY <2>2
    <2>4. /\ bus'.arvalid /\ ~bus'.arready /\ ~bus'.rvalid
          /\ bus'.live /\ bus'.addr = 0
        BY <2>2
    <2>5. UNCHANGED << queue, regs, sent, got >> /\ hpc' = "empty?"
        BY <1>7 DEF AskEmpty, Ask
    <2>6. ChannelInv'
        BY <2>3, <2>4, <2>5 DEF ChannelInv, Free
    <2>7. QED
        BY <2>1, <2>6
<1>8. CASE AskData
    <2>1. ControlInv'
        BY <1>p, <1>8 DEF AskData, Ask, ControlInv, States
    <2>2. bus' = [arvalid |-> TRUE, arready |-> FALSE, rvalid |-> FALSE,
                  addr |-> 1, rdata |-> 0, live |-> TRUE]
        BY <1>8 DEF AskData, Ask, Idle
    <2>3. bus' \in [arvalid : BOOLEAN, arready : BOOLEAN, rvalid : BOOLEAN,
                    addr : {0, 1}, rdata : Nat, live : BOOLEAN]
        BY <2>2
    <2>4. /\ bus'.arvalid /\ ~bus'.arready /\ ~bus'.rvalid
          /\ bus'.live /\ bus'.addr = 1
        BY <2>2
    <2>5. UNCHANGED << queue, regs, sent, got >> /\ hpc' = "data?"
        BY <1>8 DEF AskData, Ask
    <2>6. ChannelInv'
        BY <2>3, <2>4, <2>5 DEF ChannelInv, Free
    <2>7. QED
        BY <2>1, <2>6
<1>9. CASE PrintChar
    <2>1. u < PERIODS /\ t \in 0 .. PERIOD /\ EndRound(t)
        BY <1>9 DEF PrintChar, ControlInv
    <2>2. /\ t' \in 0 .. PERIOD /\ u' \in 0 .. PERIODS
          /\ hpc' \in {"poll", "exit"} /\ (hpc' # "exit" => u' < PERIODS)
        BY <2>1, EndRoundIs
    <2>3. ControlInv'
        BY <1>9, <2>2 DEF PrintChar, ControlInv, States
    <2>4. ChannelInv'
        BY <1>9, <2>2 DEF PrintChar, ChannelInv, Free
    <2>5. QED
        BY <2>3, <2>4
<1>10. CASE SkipPrint
    <2>1. u < PERIODS /\ t \in 0 .. PERIOD /\ EndRound(t)
        BY <1>10 DEF SkipPrint, ControlInv
    <2>2. /\ t' \in 0 .. PERIOD /\ u' \in 0 .. PERIODS
          /\ hpc' \in {"poll", "exit"} /\ (hpc' # "exit" => u' < PERIODS)
        BY <2>1, EndRoundIs
    <2>3. ControlInv'
        BY <1>10, <2>2 DEF SkipPrint, ControlInv, States
    <2>4. ChannelInv'
        BY <1>10, <2>2 DEF SkipPrint, ChannelInv, Free
    <2>5. QED
        BY <2>3, <2>4
<1>11. CASE Clock
    <2>1. PICK we \in BOOLEAN :
             /\ sent' = (IF we THEN sent + 1 ELSE sent) /\ queue' = NextQueue(we, sent + 1)
             /\ regs' = << IF Empty THEN 1 ELSE 0, HeadData >>
             /\ bus' = NextBus /\ Deliver
             /\ UNCHANGED << host, runs, size, step, t, u, memVars, printed >>
        BY <1>11 DEF Clock
    <2>2. \/ ~(bus.rvalid /\ bus.live) /\ UNCHANGED << hpc, got >>
          \/ /\ bus.rvalid /\ bus.live
             /\ hpc' \in {"fetch", "skip", "print"} /\ got' \in Nat
        BY <2>1 DEF Deliver, Answered, ChannelInv
    <2>3. bus.rvalid /\ bus.live => hpc \in {"empty?", "data?"}
        BY DEF ChannelInv, Free
    <2>4. ControlInv'
        BY <2>1, <2>2, <2>3 DEF ControlInv, States
    <2>5. HeadData \in Nat
        BY DEF ChannelInv, HeadData, Empty, Stale
    <2>6. regs' \in [1 .. 2 -> Nat]
        BY <2>1, <2>5
    <2>7. queue' \in Seq(Nat) /\ sent' \in Nat /\ got' \in Nat
        BY <2>1, <2>2, NextQueueIs DEF ChannelInv
    <2>8. ChannelInv'
        BY <2>1, <2>2, <2>3, <2>6, <2>7, NextBusIs DEF ChannelInv, Free
    <2>9. QED
        BY <2>4, <2>8
<1>12. CASE Evict
    BY <1>12 DEF Evict, ControlInv, ChannelInv, Free
<1>16. CASE RsdStore \/ StoreLands
    BY <1>16 DEF RsdStore, StoreLands, ControlInv, ChannelInv, Free
<1>13. CASE Rerun
    <2>1. size' \in Sizes \cup {16 * Len(File)}
        BY <1>13 DEF Rerun, ControlInv
    <2>2. ControlInv'
        BY <1>0, <1>p, <1>13, <2>1 DEF Rerun, ControlInv, States
    <2>3. ChannelInv'
        BY <1>13 DEF Rerun, ChannelInv, Free
    <2>4. QED
        BY <2>2, <2>3
<1>14. CASE UNCHANGED vars
    BY <1>14 DEF vars, ControlInv, ChannelInv, Free
<1>15. QED
    BY <1>1, <1>2, <1>3, <1>4, <1>5, <1>6, <1>7, <1>8, <1>9, <1>10, <1>11,
       <1>12, <1>13, <1>14, <1>16
    DEF Next, HostStep

-----------------------------------------------------------------------------
(* The characters: each place holds later ones than the place before it *)
Increasing(s) == \A j, k \in DOMAIN s : j < k => s[j] < s[k]

LEMMA TailFacts ==
    ASSUME NEW s \in Seq(Nat), s # << >>, Increasing(s)
    PROVE  /\ Tail(s) \in Seq(Nat) /\ Len(Tail(s)) = Len(s) - 1
           /\ Increasing(Tail(s)) /\ Head(s) \in Nat
           /\ Elements(s) = {Head(s)} \cup Elements(Tail(s))
           /\ \A x \in Elements(Tail(s)) : Head(s) < x
<1>1. /\ Len(s) \in Nat \ {0} /\ Head(s) = s[1] /\ Tail(s) \in Seq(Nat)
      /\ Len(Tail(s)) = Len(s) - 1
      /\ \A i \in 1 .. Len(s) - 1 : Tail(s)[i] = s[i + 1]
    BY HeadTailProperties, LenProperties, EmptySeq
<1>2. DOMAIN s = 1 .. Len(s) /\ DOMAIN Tail(s) = 1 .. Len(s) - 1 /\ \A i \in DOMAIN s : s[i] \in Nat
    BY <1>1
<1>3. Increasing(Tail(s))
    BY <1>1, <1>2 DEF Increasing
<1>4. \A x \in Elements(Tail(s)) : Head(s) < x
    BY <1>1, <1>2 DEF Increasing, Elements
<1>5. \A k \in DOMAIN s : k = 1 \/ (k - 1 \in DOMAIN Tail(s) /\ Tail(s)[k - 1] = s[k])
    BY <1>1, <1>2
<1>6. \A k \in DOMAIN Tail(s) : k + 1 \in DOMAIN s /\ Tail(s)[k] = s[k + 1]
    BY <1>1, <1>2
<1>7. 1 \in DOMAIN s
    BY <1>1, <1>2
<1>8. Elements(s) = {Head(s)} \cup Elements(Tail(s))
    <2>1. \A x \in Elements(s) : x = Head(s) \/ x \in Elements(Tail(s))
        <3> SUFFICES ASSUME NEW k \in DOMAIN s
                     PROVE  s[k] = Head(s) \/ s[k] \in Elements(Tail(s))
            BY DEF Elements
        <3>1. CASE k = 1
            BY <1>1, <3>1
        <3>2. CASE k # 1
            <4>1. k - 1 \in DOMAIN Tail(s) /\ Tail(s)[k - 1] = s[k]
                BY <1>5, <3>2
            <4>2. QED
                BY <4>1 DEF Elements
        <3>3. QED
            BY <3>1, <3>2
    <2>2. \A x \in Elements(Tail(s)) : x \in Elements(s)
        BY <1>6 DEF Elements
    <2>3. Head(s) \in Elements(s)
        BY <1>1, <1>7 DEF Elements
    <2>4. QED
        BY <2>1, <2>2, <2>3
<1>9. QED
    BY <1>1, <1>2, <1>3, <1>4, <1>7, <1>8

LEMMA AddFacts ==
    ASSUME NEW s \in Seq(Nat), NEW c \in Nat, Increasing(s), \A x \in Elements(s) : x < c
    PROVE  /\ s \o << c >> \in Seq(Nat) /\ Len(s \o << c >>) = Len(s) + 1
           /\ Increasing(s \o << c >>)
           /\ Elements(s \o << c >>) = Elements(s) \cup {c}
           /\ s \o << c >> # << >>
           /\ s # << >> => Head(s \o << c >>) = Head(s)
<1> DEFINE r == s \o << c >>
<1>1. /\ r \in Seq(Nat) /\ Len(s) \in Nat /\ Len(r) = Len(s) + 1 /\ r[Len(s) + 1] = c
      /\ \A i \in 1 .. Len(s) : r[i] = s[i] /\ s[i] \in Nat
    OBVIOUS
<1>2. DOMAIN s = 1 .. Len(s) /\ DOMAIN r = 1 .. Len(s) + 1
    BY <1>1
<1> HIDE DEF r
<1>3. \A i \in DOMAIN s : s[i] < c
    BY DEF Elements
<1>4. Increasing(r)
    <2> SUFFICES ASSUME NEW j \in DOMAIN r, NEW k \in DOMAIN r, j < k
                 PROVE  r[j] < r[k]
        BY DEF Increasing
    <2>1. j \in DOMAIN s /\ r[j] = s[j]
        BY <1>1, <1>2
    <2>2. CASE k \in DOMAIN s
        <3>1. r[k] = s[k] /\ s[j] < s[k]
            BY <1>1, <1>2, <2>1, <2>2 DEF Increasing
        <3>2. QED
            BY <2>1, <3>1
    <2>3. CASE k \notin DOMAIN s
        <3>1. k = Len(s) + 1
            BY <1>1, <1>2, <2>3
        <3>2. QED
            BY <1>1, <1>3, <2>1, <3>1
    <2>4. QED
        BY <2>2, <2>3
<1>5. \A i \in DOMAIN r : i \in DOMAIN s \/ i = Len(s) + 1
    BY <1>1, <1>2
<1>6. Len(s) + 1 \in DOMAIN r /\ \A i \in DOMAIN s : i \in DOMAIN r
    BY <1>1, <1>2
<1>7. Elements(r) = Elements(s) \cup {c}
    BY <1>1, <1>2, <1>5, <1>6 DEF Elements
<1>8. r # << >>
    BY <1>1
<1>9. s # << >> => Head(r) = Head(s)
    <2> SUFFICES ASSUME s # << >> PROVE Head(r) = Head(s)
        OBVIOUS
    <2>1. Len(s) # 0
        BY EmptySeq
    <2>2. Head(s) = s[1] /\ Head(r) = r[1]
        BY <1>1, <1>8, HeadTailProperties
    <2>3. QED
        BY <1>1, <2>1, <2>2
<1>10. QED
    BY <1>1, <1>4, <1>7, <1>8, <1>9 DEF r

(* What a clock does to the queue *)
LEMMA QueueStep ==
    ASSUME ChannelInv, Increasing(queue), Len(queue) <= QUEUE_SIZE,
           \A x \in Elements(queue) : x <= sent,
           NEW we \in BOOLEAN, NEW new, new = NextQueue(we, sent + 1)
    PROVE  /\ new \in Seq(Nat) /\ Increasing(new) /\ Len(new) <= QUEUE_SIZE
           /\ Elements(queue) \subseteq Elements(new) \cup (IF Pop THEN {Head(queue)} ELSE {})
           /\ Elements(new) \subseteq Elements(queue) \cup (IF we /\ ~Full THEN {sent + 1} ELSE {})
           /\ we /\ ~Full => sent + 1 \in Elements(new)
           /\ Pop => /\ queue # << >> /\ Head(queue) \in Elements(queue)
                     /\ \A x \in Elements(new) : Head(queue) < x
           /\ ~Pop /\ queue # << >> => new # << >> /\ Head(new) = Head(queue)
<1> DEFINE r == IF Pop THEN Tail(queue) ELSE queue
           add == we /\ ~Full
<1>1. sent \in Nat /\ queue \in Seq(Nat) /\ QUEUE_SIZE \in Nat \ {0}
    BY QueueAssumption DEF ChannelInv, QueueAssumption
<1>2. Pop => queue # << >>
    BY DEF Pop, Empty
<1>3. /\ r \in Seq(Nat) /\ Increasing(r) /\ Len(r) <= Len(queue)
      /\ Elements(queue) = Elements(r) \cup (IF Pop THEN {Head(queue)} ELSE {})
      /\ Pop => \A x \in Elements(r) : Head(queue) < x
      /\ Pop => Head(queue) \in Nat /\ Head(queue) \in Elements(queue)
    <2>1. CASE Pop
        <3>1. queue # << >> /\ r = Tail(queue)
            BY <2>1, <1>2
        <3>2. Len(queue) \in Nat
            BY <1>1
        <3>3. QED
            BY <1>1, <2>1, <3>1, <3>2, TailFacts
    <2>2. CASE ~Pop
        BY <1>1, <2>2
    <2>3. QED
        BY <2>1, <2>2
<1>4. \A x \in Elements(r) : x \in Nat /\ x < sent + 1
    <2> SUFFICES ASSUME NEW x \in Elements(r)
                 PROVE  x \in Nat /\ x < sent + 1
        OBVIOUS
    <2>1. x \in Elements(queue)
        BY <1>3
    <2>2. x \in Nat
        BY <1>1, <2>1 DEF Elements
    <2>3. QED
        BY <1>1, <2>1, <2>2
<1>5. new = r \o (IF add THEN << sent + 1 >> ELSE << >>)
    BY DEF NextQueue
<1>6. CASE add
    <2>1. new = r \o << sent + 1 >>
        BY <1>5, <1>6
    <2>2. Len(queue) < QUEUE_SIZE
        BY <1>1, <1>6, LenProperties DEF Full
    <2> HIDE DEF r
    <2>3. /\ new \in Seq(Nat) /\ Len(new) = Len(r) + 1 /\ Increasing(new)
          /\ Elements(new) = Elements(r) \cup {sent + 1} /\ new # << >>
          /\ r # << >> => Head(new) = Head(r)
        <3>1. sent + 1 \in Nat /\ \A x \in Elements(r) : x < sent + 1
            BY <1>1, <1>4
        <3>2. r \in Seq(Nat) /\ Increasing(r)
            BY <1>3
        <3>3. QED
            BY <2>1, <3>1, <3>2, AddFacts
    <2>4. Len(new) <= QUEUE_SIZE
        BY <1>1, <1>3, <2>2, <2>3, LenProperties
    <2>5. Pop => \A x \in Elements(new) : Head(queue) < x
        <3>1. Pop => Head(queue) \in Nat /\ Head(queue) <= sent
            BY <1>3
        <3>2. Pop => Head(queue) < sent + 1
            BY <1>1, <3>1
        <3>3. QED
            BY <1>3, <2>3, <3>2
    <2>6. ~Pop => r = queue
        BY DEF r
    <2>7. QED
        BY <1>2, <1>3, <1>6, <2>3, <2>4, <2>5, <2>6
<1>7. CASE ~add
    <2>1. new = r
        BY <1>3, <1>5, <1>7, ConcatEmptySeq
    <2>2. Len(new) <= QUEUE_SIZE
        BY <1>1, <1>3, <2>1, LenProperties
    <2>3. ~Pop => new = queue
        BY <2>1
    <2> HIDE DEF r
    <2>4. QED
        BY <1>2, <1>3, <1>7, <2>1, <2>2, <2>3
<1>8. QED
    BY <1>6, <1>7

(* The status registers are one clock old, and the host acts on them later *)
(* still.  What they said of a head is true for as long as it counts.      *)
StatusInv ==
    /\ bus.arready /\ regs[1] # 1 => queue # << >>
    /\ bus.rvalid /\ bus.addr = EMPTY_OFFSET /\ bus.rdata # 1 => queue # << >>
    /\ hpc \in {"fetch", "data?"} => queue # << >> /\ regs[2] = Head(queue)
    /\ bus.rvalid /\ hpc = "data?" => bus.rdata = Head(queue)

OutputInv ==
    /\ printed \in Seq(Nat) /\ Increasing(printed)
    /\ Increasing(queue) /\ Len(queue) <= QUEUE_SIZE
    /\ \A p \in Elements(printed) : \A q \in Elements(queue) : p < q
    /\ hpc = "print" => /\ \A p \in Elements(printed) : p < got
                        /\ \A q \in Elements(queue) : got < q
    /\ accepted \subseteq Nat /\ \A c \in accepted : c <= sent
    /\ accepted = Elements(printed) \cup Elements(queue) \cup InFlight \cup lost

LEMMA InitOutput == Init => StatusInv /\ OutputInv
<1> SUFFICES ASSUME Init PROVE StatusInv /\ OutputInv
    OBVIOUS
<1>1. Increasing(<< >>) /\ Elements(<< >>) = {} /\ << >> \in Seq(Nat) /\ Len(<< >>) = 0
    BY EmptySeq DEF Increasing, Elements
<1>2. OutputInv
    BY <1>1, QueueAssumption DEF Init, OutputInv, InFlight, QueueAssumption
<1>3. StatusInv
    BY DEF Init, StatusInv, Idle
<1>4. QED
    BY <1>2, <1>3

(* One clock *)
LEMMA ClockKeepsStatus ==
    ASSUME ControlInv, ChannelInv, StatusInv, OutputInv, Clock
    PROVE  StatusInv'
<1> USE DEF EMPTY_OFFSET, DATA_OFFSET
<1>1. PICK we \in BOOLEAN :
         /\ queue' = NextQueue(we, sent + 1)
         /\ regs' = << IF Empty THEN 1 ELSE 0, HeadData >>
         /\ bus' = NextBus /\ Deliver
    BY DEF Clock
<1>2. \A x \in Elements(queue) : x <= sent
    BY DEF OutputInv
<1>3. ~Pop /\ queue # << >> => queue' # << >> /\ Head(queue') = Head(queue)
    BY <1>1, <1>2, QueueStep DEF OutputInv
<1>4. regs'[1] # 1 => queue # << >>
    BY <1>1 DEF Empty
<1>5. queue # << >> => regs'[2] = Head(queue)
    BY <1>1 DEF HeadData, Empty
<1>6. ~bus.rvalid => ~Pop
    BY DEF Pop, Answered
<1>7. bus.arvalid => ~bus.rvalid
    BY DEF ChannelInv
<1>8. bus'.arready /\ regs'[1] # 1 => queue' # << >>
    BY <1>1, <1>3, <1>4, <1>6, <1>7, NextBusIs
<1>9. bus'.rvalid /\ bus'.addr = EMPTY_OFFSET /\ bus'.rdata # 1 => queue' # << >>
    <2> SUFFICES ASSUME bus'.rvalid, bus'.addr = EMPTY_OFFSET, bus'.rdata # 1
                 PROVE  queue' # << >>
        OBVIOUS
    <2>1. bus.arvalid /\ bus.arready /\ bus.addr = 0 /\ bus'.rdata = regs[bus.addr + 1]
        BY <1>1, NextBusIs
    <2>2. regs[1] # 1
        BY <2>1
    <2>3. QED
        BY <1>3, <1>6, <1>7, <2>1, <2>2 DEF StatusInv
<1>10. hpc' = "fetch" => queue' # << >> /\ regs'[2] = Head(queue')
    <2> SUFFICES ASSUME hpc' = "fetch"
                 PROVE  queue' # << >> /\ regs'[2] = Head(queue')
        OBVIOUS
    <2>1. CASE bus.rvalid /\ bus.live
        <3>1. bus.addr = EMPTY_OFFSET /\ bus.rdata # 1
            BY <1>1, <2>1 DEF Deliver, Answered, ChannelInv
        <3>2. queue # << >> /\ ~Pop
            BY <2>1, <3>1 DEF StatusInv, Pop
        <3>3. QED
            BY <1>3, <1>5, <3>2
    <2>2. CASE ~(bus.rvalid /\ bus.live)
        <3>1. hpc = "fetch"
            BY <1>1, <2>2 DEF Deliver, Answered
        <3>2. queue # << >> /\ ~Pop
            BY <1>6, <3>1 DEF StatusInv, ChannelInv, Free
        <3>3. QED
            BY <1>3, <1>5, <3>2
    <2>3. QED
        BY <2>1, <2>2
<1>11. hpc' = "data?" => /\ queue' # << >> /\ regs'[2] = Head(queue')
                         /\ bus'.rvalid => bus'.rdata = Head(queue')
    <2> SUFFICES ASSUME hpc' = "data?"
                 PROVE  /\ queue' # << >> /\ regs'[2] = Head(queue')
                        /\ bus'.rvalid => bus'.rdata = Head(queue')
        OBVIOUS
    <2>1. ~(bus.rvalid /\ bus.live) /\ hpc = "data?"
        BY <1>1 DEF Deliver, Answered
    <2>2. bus.live /\ bus.addr = DATA_OFFSET
        BY <2>1 DEF ChannelInv
    <2>3. queue # << >> /\ regs[2] = Head(queue) /\ ~Pop
        BY <1>6, <2>1, <2>2 DEF StatusInv
    <2>4. bus'.rvalid => bus'.rdata = regs[2]
        <3>1. bus'.rvalid => bus'.rdata = regs[bus.addr + 1]
            BY <1>1, NextBusIs
        <3>2. bus.addr + 1 = 2
            BY <2>2
        <3>3. QED
            BY <3>1, <3>2
    <2>5. QED
        BY <1>3, <1>5, <2>3, <2>4
<1>12. QED
    BY <1>8, <1>9, <1>10, <1>11 DEF StatusInv

LEMMA ClockKeepsOutput ==
    ASSUME ControlInv, ChannelInv, StatusInv, OutputInv, Clock
    PROVE  OutputInv'
<1> USE DEF EMPTY_OFFSET, DATA_OFFSET
<1>1. PICK we \in BOOLEAN :
         /\ sent' = (IF we THEN sent + 1 ELSE sent)
         /\ accepted' = (IF we /\ ~Full THEN accepted \cup {sent + 1} ELSE accepted)
         /\ queue' = NextQueue(we, sent + 1)
         /\ Deliver
         /\ lost' = (IF Pop /\ ~bus.live THEN lost \cup {Head(queue)} ELSE lost)
         /\ UNCHANGED printed
    BY DEF Clock
<1>2. \A x \in Elements(queue) : x <= sent
    BY DEF OutputInv
<1>3. /\ queue' \in Seq(Nat) /\ Increasing(queue') /\ Len(queue') <= QUEUE_SIZE
      /\ Elements(queue) \subseteq Elements(queue') \cup (IF Pop THEN {Head(queue)} ELSE {})
      /\ Elements(queue') \subseteq Elements(queue) \cup (IF we /\ ~Full THEN {sent + 1} ELSE {})
      /\ we /\ ~Full => sent + 1 \in Elements(queue')
      /\ Pop => /\ queue # << >> /\ Head(queue) \in Elements(queue)
                /\ \A x \in Elements(queue') : Head(queue) < x
    BY <1>1, <1>2, QueueStep DEF OutputInv
<1>4. sent \in Nat /\ got \in Nat /\ Elements(printed) \subseteq Nat /\ Elements(queue) \subseteq Nat
    BY DEF ChannelInv, OutputInv, Elements
<1>5. accepted' \subseteq Nat /\ \A c \in accepted' : c <= sent'
    <2> SUFFICES ASSUME NEW c \in accepted'
                 PROVE  c \in Nat /\ c <= sent'
        OBVIOUS
    <2>1. CASE c \in accepted
        <3>1. c \in Nat /\ c <= sent
            BY <2>1 DEF OutputInv
        <3>2. QED
            BY <1>1, <1>4, <3>1
    <2>2. CASE c \notin accepted
        BY <1>1, <1>4, <2>2
    <2>3. QED
        BY <2>1, <2>2
<1>6. \A p \in Elements(printed) : \A q \in Elements(queue') : p < q
    <2> SUFFICES ASSUME NEW p \in Elements(printed), NEW q \in Elements(queue')
                 PROVE  p < q
        OBVIOUS
    <2>1. CASE q \in Elements(queue)
        BY <2>1 DEF OutputInv
    <2>2. CASE q \notin Elements(queue)
        <3>1. q = sent + 1
            BY <1>3, <2>2
        <3>2. p \in accepted
            BY DEF OutputInv
        <3>3. p <= sent /\ p \in Nat
            BY <1>4, <3>2 DEF OutputInv
        <3>4. QED
            BY <1>4, <3>1, <3>3
    <2>3. QED
        BY <2>1, <2>2
<1>7. \/ /\ ~(bus.rvalid /\ bus.live) /\ UNCHANGED << hpc, got >>
      \/ /\ bus.rvalid /\ bus.live /\ bus.addr = EMPTY_OFFSET
         /\ hpc \in {"empty?", "data?"} /\ hpc' \in {"fetch", "skip"} /\ ~Pop
      \/ /\ bus.rvalid /\ bus.live /\ hpc = "data?" /\ hpc' = "print" /\ Pop
         /\ got' = Head(queue)
    <2>1. CASE ~(bus.rvalid /\ bus.live)
        BY <1>1, <2>1 DEF Deliver, Answered
    <2>2. CASE bus.rvalid /\ bus.live /\ bus.addr = EMPTY_OFFSET
        BY <1>1, <2>2 DEF Deliver, Answered, ChannelInv, Free, Pop
    <2>3. CASE bus.rvalid /\ bus.live /\ bus.addr # EMPTY_OFFSET
        <3>1. hpc = "data?" /\ bus.addr = DATA_OFFSET
            BY <2>3 DEF ChannelInv, Free
        <3>2. hpc' = "print" /\ got' = bus.rdata
            BY <1>1, <2>3 DEF Deliver, Answered
        <3>3. bus.rdata = Head(queue) /\ queue # << >>
            BY <2>3, <3>1 DEF StatusInv
        <3>4. QED
            BY <2>3, <3>1, <3>2, <3>3 DEF Pop, Answered, Empty
    <2>4. QED
        BY <2>1, <2>2, <2>3
<1>8. hpc' = "print" => /\ \A p \in Elements(printed) : p < got'
                        /\ \A q \in Elements(queue') : got' < q
    <2> SUFFICES ASSUME hpc' = "print"
                 PROVE  /\ \A p \in Elements(printed) : p < got'
                        /\ \A q \in Elements(queue') : got' < q
        OBVIOUS
    <2>1. CASE ~(bus.rvalid /\ bus.live)
        <3>1. hpc = "print" /\ got' = got
            BY <1>7, <2>1
        <3>2. got <= sent
            BY <3>1 DEF OutputInv, InFlight
        <3>3. got < sent + 1
            BY <1>4, <3>2
        <3>4. QED
            BY <1>3, <3>1, <3>3 DEF OutputInv
    <2>2. CASE bus.rvalid /\ bus.live
        <3>1. Pop /\ got' = Head(queue)
            BY <1>7, <2>2
        <3>2. QED
            BY <1>3, <3>1 DEF OutputInv
    <2>3. QED
        BY <2>1, <2>2
<1>9. accepted' = Elements(printed') \cup Elements(queue') \cup InFlight' \cup lost'
    <2>1. accepted = Elements(printed) \cup Elements(queue) \cup InFlight \cup lost
        BY DEF OutputInv
    <2>2. /\ accepted' = accepted \cup (IF we /\ ~Full THEN {sent + 1} ELSE {})
          /\ lost' = lost \cup (IF Pop /\ ~bus.live THEN {Head(queue)} ELSE {})
          /\ printed' = printed
        BY <1>1
    <2>3. InFlight' = InFlight \cup (IF Pop /\ bus.live THEN {Head(queue)} ELSE {})
        <3>1. CASE ~(bus.rvalid /\ bus.live)
            BY <1>7, <3>1 DEF InFlight, Pop, Answered
        <3>2. CASE bus.rvalid /\ bus.live
            BY <1>7, <3>2 DEF InFlight
        <3>3. QED
            BY <3>1, <3>2
    <2>4. Pop => Head(queue) \in Elements(queue)
        BY <1>3
    <2>5. QED
        BY <1>3, <2>1, <2>2, <2>3, <2>4, Zenon
<1>10. QED
    BY <1>1, <1>3, <1>5, <1>6, <1>8, <1>9 DEF OutputInv

(* Steps of the host that touch none of it *)
LEMMA FrameStatus ==
    ASSUME StatusInv, UNCHANGED << queue, regs >>,
           \/ ~bus'.arready /\ ~bus'.rvalid
           \/ /\ bus'.arready = bus.arready /\ bus'.rvalid = bus.rvalid
              /\ bus'.addr = bus.addr /\ bus'.rdata = bus.rdata
              /\ hpc' # "data?" \/ hpc = "data?",
           hpc' \in {"fetch", "data?"} => hpc \in {"fetch", "data?"}
    PROVE  StatusInv'
BY DEF StatusInv

LEMMA FrameOutput ==
    ASSUME OutputInv, UNCHANGED << queue, sent, got, accepted, printed, lost >>,
           hpc' = "print" <=> hpc = "print"
    PROVE  OutputInv'
<1>1. InFlight' = InFlight
    BY DEF InFlight
<1>2. QED
    BY <1>1 DEF OutputInv

LEMMA PrintKeepsOutput ==
    ASSUME ControlInv, ChannelInv, OutputInv, PrintChar
    PROVE  OutputInv'
<1>1. /\ hpc = "print" /\ printed' = Append(printed, got) /\ hpc' # "print"
      /\ UNCHANGED << queue, sent, accepted, lost >>
    BY DEF PrintChar, EndRound
<1>2. printed' = printed \o << got >> /\ got \in Nat /\ printed \in Seq(Nat)
    BY <1>1, AppendIsConcat DEF ChannelInv, OutputInv
<1>3. \A p \in Elements(printed) : p < got
    BY <1>1 DEF OutputInv
<1>4. /\ printed' \in Seq(Nat) /\ Increasing(printed')
      /\ Elements(printed') = Elements(printed) \cup {got}
    BY <1>2, <1>3, AddFacts DEF OutputInv
<1>5. \A p \in Elements(printed') : \A q \in Elements(queue) : p < q
    BY <1>1, <1>4 DEF OutputInv
<1>6. InFlight = {got} /\ InFlight' = {}
    BY <1>1 DEF InFlight
<1>7. accepted = Elements(printed') \cup Elements(queue) \cup InFlight' \cup lost
    BY <1>4, <1>6 DEF OutputInv
<1>8. QED
    BY <1>1, <1>4, <1>5, <1>7 DEF OutputInv

LEMMA RerunKeepsOutput ==
    ASSUME OutputInv, Rerun
    PROVE  OutputInv'
<1>1. /\ hpc' = "start" /\ UNCHANGED << queue, sent, accepted, printed >>
      /\ lost' = lost \cup InFlight
    BY DEF Rerun, InFlight
<1>2. InFlight' = {}
    BY <1>1 DEF InFlight
<1>3. accepted = Elements(printed) \cup Elements(queue) \cup InFlight' \cup lost'
    BY <1>1, <1>2 DEF OutputInv
<1>4. QED
    BY <1>1, <1>3 DEF OutputInv

(* Every step keeps what the status registers promise and where the        *)
(* characters are.                                                         *)
LEMMA StepKeepsOutput ==
    ASSUME ControlInv, ChannelInv, StatusInv, OutputInv, [Next]_vars
    PROVE  StatusInv' /\ OutputInv'
<1> USE DEF hostVars, memVars, storeVars, history
<1>1. CASE HoldReset
    <2>1. /\ UNCHANGED << bus, queue, regs, sent, got, accepted, printed, lost >>
          /\ hpc' = "print" <=> hpc = "print"
          /\ hpc' \in {"fetch", "data?"} => hpc' = hpc
        BY <1>1 DEF HoldReset
    <2>2. QED
        BY <2>1, FrameStatus, FrameOutput
<1>2. CASE ZeroMemory
    <2>1. /\ UNCHANGED << bus, queue, regs, sent, got, accepted, printed, lost >>
          /\ hpc' = "print" <=> hpc = "print"
          /\ hpc' \in {"fetch", "data?"} => hpc' = hpc
        BY <1>2 DEF ZeroMemory
    <2>2. QED
        BY <2>1, FrameStatus, FrameOutput
<1>3. CASE WriteWord
    <2>1. /\ UNCHANGED << bus, queue, regs, sent, got, accepted, printed, lost >>
          /\ hpc' = "print" <=> hpc = "print"
          /\ hpc' \in {"fetch", "data?"} => hpc' = hpc
        BY <1>3 DEF WriteWord
    <2>2. QED
        BY <2>1, FrameStatus, FrameOutput
<1>4. CASE AllWritten
    <2>1. /\ UNCHANGED << bus, queue, regs, sent, got, accepted, printed, lost >>
          /\ hpc' = "print" <=> hpc = "print"
          /\ hpc' \in {"fetch", "data?"} => hpc' = hpc
        BY <1>4 DEF AllWritten
    <2>2. QED
        BY <2>1, FrameStatus, FrameOutput
<1>5. CASE Flush
    <2>1. /\ UNCHANGED << bus, queue, regs, sent, got, accepted, printed, lost >>
          /\ hpc' = "print" <=> hpc = "print"
          /\ hpc' \in {"fetch", "data?"} => hpc' = hpc
        BY <1>5 DEF Flush
    <2>2. QED
        BY <2>1, FrameStatus, FrameOutput
<1>6. CASE Release
    <2>1. /\ UNCHANGED << bus, queue, regs, sent, got, accepted, printed, lost >>
          /\ hpc' = "print" <=> hpc = "print"
          /\ hpc' \in {"fetch", "data?"} => hpc' = hpc
        BY <1>6 DEF Release
    <2>2. QED
        BY <2>1, FrameStatus, FrameOutput
<1>7. CASE SkipPrint
    <2>1. /\ UNCHANGED << bus, queue, regs, sent, got, accepted, printed, lost >>
          /\ hpc' = "print" <=> hpc = "print"
          /\ hpc' \in {"fetch", "data?"} => hpc' = hpc
        BY <1>7 DEF SkipPrint, EndRound
    <2>2. QED
        BY <2>1, FrameStatus, FrameOutput
<1>8. CASE Evict
    <2>1. /\ UNCHANGED << bus, queue, regs, sent, got, accepted, printed, lost >>
          /\ hpc' = "print" <=> hpc = "print"
          /\ hpc' \in {"fetch", "data?"} => hpc' = hpc
        BY <1>8 DEF Evict
    <2>2. QED
        BY <2>1, FrameStatus, FrameOutput
<1>9. CASE AskEmpty
    <2>1. /\ UNCHANGED << queue, regs, sent, got, accepted, printed, lost >>
          /\ hpc # "print" /\ hpc' # "print"
          /\ hpc' \in {"fetch", "data?"} => hpc \in {"fetch", "data?"}
        BY <1>9 DEF AskEmpty, Ask
    <2>2. ~bus'.arready /\ ~bus'.rvalid
        BY <1>9 DEF AskEmpty, Ask, Idle
    <2>3. QED
        BY <2>1, <2>2, FrameStatus, FrameOutput
<1>10. CASE AskData
    <2>1. /\ UNCHANGED << queue, regs, sent, got, accepted, printed, lost >>
          /\ hpc # "print" /\ hpc' # "print"
          /\ hpc' \in {"fetch", "data?"} => hpc \in {"fetch", "data?"}
        BY <1>10 DEF AskData, Ask
    <2>2. ~bus'.arready /\ ~bus'.rvalid
        BY <1>10 DEF AskData, Ask, Idle
    <2>3. QED
        BY <2>1, <2>2, FrameStatus, FrameOutput
<1>11. CASE PrintChar
    <2>1. UNCHANGED << bus, queue, regs >> /\ hpc' \in {"poll", "exit"}
        BY <1>11 DEF PrintChar, EndRound
    <2>2. QED
        BY <1>11, <2>1, FrameStatus, PrintKeepsOutput
<1>12. CASE Rerun
    <2>1. /\ UNCHANGED << queue, regs >> /\ hpc' = "start"
          /\ bus'.arready = bus.arready /\ bus'.rvalid = bus.rvalid
          /\ bus'.addr = bus.addr /\ bus'.rdata = bus.rdata
        BY <1>12 DEF Rerun, ChannelInv
    <2>2. QED
        BY <1>12, <2>1, FrameStatus, RerunKeepsOutput
<1>13. CASE Clock
    BY <1>13, ClockKeepsStatus, ClockKeepsOutput
<1>14. CASE RsdStore \/ StoreLands \/ UNCHANGED vars
    <2>1. UNCHANGED << bus, queue, regs, sent, got, accepted, printed, lost, hpc >>
        BY <1>14 DEF vars, RsdStore, StoreLands
    <2>2. QED
        BY <2>1, FrameStatus, FrameOutput
<1>15. QED
    BY <1>1, <1>2, <1>3, <1>4, <1>5, <1>6, <1>7, <1>8, <1>9, <1>10, <1>11,
       <1>12, <1>13, <1>14
    DEF Next, HostStep

-----------------------------------------------------------------------------
(* What RSD would read if the cache were flushed now *)
Memory == [a \in Words |-> IF a \in DOMAIN cache THEN cache[a] ELSE dram[a]]

(* Word a is as a load of size s leaves it that has stored n words: the    *)
(* text so far, and 0 for the rest.                                        *)
LoadedAt(v, s, n, a) ==
    /\ HostIndex(a) >= n => v = 0
    /\ HostIndex(a) < n /\ HostIndex(a) < 4 * (s \div 16) =>
          v = File[(HostIndex(a) \div 4) + 1][(HostIndex(a) % 4) + 1]

(* A load has stored its first n words, but for those that a store has     *)
(* reached which was under way when the load began.                        *)
Shows(mem, s, n) ==
    \A a \in Words : StoredLate(a, mem[a]) \/ LoadedAt(mem[a], s, n, a)

Loading == {"zero", "write", "flush", "release"}

(* Only an unfinished load leaves stores in the cache, and none is under   *)
(* way while RSD runs.                                                     *)
MemoryInv ==
    /\ DOMAIN dram = Words /\ DOMAIN cache \subseteq Words /\ done \in BOOLEAN
    /\ \A s \in pending : s \in late \/ (done /\ s.era = era)
    /\ DOMAIN cache # {} => host = "run_simple" /\ hpc \in {"zero", "write", "flush"}
    /\ hpc = "zero" => \A a \in Words : a < step => StoredLate(a, Memory[a]) \/ Memory[a] = 0
    /\ hpc \in {"write", "flush", "release"} => Shows(Memory, size, step)
    /\ hpc \in Loading => ~done
    /\ done => /\ loaded \in Sizes \cup {16 * Len(File)}
               /\ \A a \in Words : \/ dram[a] = RsdWord(era) \/ StoredLate(a, dram[a])
                                    \/ LoadedAt(dram[a], loaded, loaded \div 4, a)

LEMMA InitMemory == Init => MemoryInv
<1> SUFFICES ASSUME Init PROVE MemoryInv
    OBVIOUS
<1>1. DOMAIN cache = {}
    BY EmptySeq DEF Init
<1>2. DOMAIN dram = Words
    BY DEF Init
<1>3. hpc = "start" /\ ~done /\ done \in BOOLEAN /\ pending = {}
    BY DEF Init
<1>4. QED
    BY <1>1, <1>2, <1>3 DEF MemoryInv, Loading

LEMMA MemoryAt ==
    ASSUME NEW b \in Words
    PROVE  Memory[b] = IF b \in DOMAIN cache THEN cache[b] ELSE dram[b]
BY DEF Memory

LEMMA StoreIs ==
    ASSUME MemoryInv, NEW a \in Words, NEW v, HostStore(a, v),
           hpc \in {"zero", "write"}
    PROVE  /\ DOMAIN dram' = Words /\ DOMAIN cache' \subseteq Words
           /\ DOMAIN cache' # {} => host = "run_simple"
           /\ \A b \in Words : Memory'[b] = IF b = a THEN v ELSE Memory[b]
<1>1. DOMAIN dram = Words /\ DOMAIN cache \subseteq Words
    BY DEF MemoryInv
<1>2. CASE host = "run_simple"
    <2>1. dram' = dram
        BY <1>2 DEF HostStore
    <2>2. cache' = [b \in {a} \cup DOMAIN cache |-> IF b = a THEN v ELSE cache[b]]
        BY <1>2 DEF HostStore
    <2>3. DOMAIN cache' = {a} \cup DOMAIN cache
        BY <2>2
    <2>4. \A b \in Words : Memory'[b] = IF b \in DOMAIN cache' THEN cache'[b] ELSE dram'[b]
        BY DEF Memory
    <2>5. \A b \in Words : Memory'[b] = IF b = a THEN v ELSE Memory[b]
        BY <2>1, <2>2, <2>3, <2>4, MemoryAt
    <2>6. QED
        BY <1>1, <1>2, <2>1, <2>3, <2>5
<1>3. CASE host # "run_simple"
    <2>1. cache' = cache /\ dram' = [dram EXCEPT ![a] = v]
        BY <1>3 DEF HostStore
    <2>2. DOMAIN cache = {}
        BY <1>3 DEF MemoryInv
    <2>3. \A b \in Words : Memory'[b] = IF b \in DOMAIN cache' THEN cache'[b] ELSE dram'[b]
        BY DEF Memory
    <2>4. \A b \in Words : Memory'[b] = IF b = a THEN v ELSE Memory[b]
        BY <1>1, <2>1, <2>2, <2>3, MemoryAt
    <2>5. QED
        BY <1>1, <2>1, <2>2, <2>4
<1>4. QED
    BY <1>2, <1>3

LEMMA ZeroKeepsMemory ==
    ASSUME ControlInv, MemoryInv, ZeroMemory
    PROVE  MemoryInv'
<1>1. hpc = "zero" /\ HostStore(step, 0) /\ UNCHANGED << host, size, done, loaded, era, pending, late >>
    BY DEF ZeroMemory, storeVars
<1>2. step \in Nat /\ step < MEM_WORDS /\ MEM_WORDS \in Nat /\ step \in Words
    BY <1>1, BoundAssumption DEF ControlInv, BoundAssumption, Words
<1>3. /\ DOMAIN dram' = Words /\ DOMAIN cache' \subseteq Words
      /\ DOMAIN cache' # {} => host = "run_simple"
      /\ \A b \in Words : Memory'[b] = IF b = step THEN 0 ELSE Memory[b]
    BY <1>1, <1>2, StoreIs
<1>4. ~done
    BY <1>1 DEF MemoryInv, Loading
<1>5. \A a \in Words : a < step + 1 => StoredLate(a, Memory'[a]) \/ Memory'[a] = 0
    <2>1. \A a \in Words : a < step + 1 /\ a # step => a < step
        BY <1>2 DEF Words
    <2>2. \A a \in Words : a < step => StoredLate(a, Memory[a]) \/ Memory[a] = 0
        BY <1>1 DEF MemoryInv
    <2>3. QED
        BY <1>3, <2>1, <2>2
<1>6. CASE step + 1 = MEM_WORDS
    <2>1. hpc' = "write" /\ step' = 0
        BY <1>1, <1>6 DEF ZeroMemory
    <2>2. \A a \in Words : StoredLate(a, Memory'[a]) \/ Memory'[a] = 0
        BY <1>2, <1>5, <1>6 DEF Words
    <2>3. \A a \in Words : ~(HostIndex(a) < 0)
        BY <1>2, HostIndexFacts DEF Words
    <2>4. Shows(Memory, size, step)'
        BY <1>1, <2>1, <2>2, <2>3 DEF Shows, LoadedAt, StoredLate
    <2>5. QED
        BY <1>1, <1>3, <1>4, <2>1, <2>4 DEF MemoryInv
<1>7. CASE step + 1 # MEM_WORDS
    <2>1. hpc' = "zero" /\ step' = step + 1
        BY <1>1, <1>7 DEF ZeroMemory
    <2>2. \A a \in Words : a < step' => (StoredLate(a, Memory[a]) \/ Memory[a] = 0)'
        BY <1>1, <1>5, <2>1 DEF StoredLate
    <2>3. QED
        BY <1>1, <1>3, <1>4, <2>1, <2>2 DEF MemoryInv
<1>8. QED
    BY <1>6, <1>7

LEMMA WriteKeepsMemory ==
    ASSUME ControlInv, MemoryInv, WriteWord
    PROVE  MemoryInv'
<1>1. PICK v \in TextWord(step) : HostStore(HostIndex(step), v)
    BY DEF WriteWord
<1>2. /\ hpc = "write" /\ step < size \div 4 /\ step' = step + 1
      /\ UNCHANGED << host, hpc, size, done, loaded, era, pending, late >>
    BY DEF WriteWord, WordsToSend, storeVars
<1>3. step \in Nat /\ HostIndex(step) \in Words
    BY <1>2, HostIndexInMemory DEF ControlInv
<1>4. /\ DOMAIN dram' = Words /\ DOMAIN cache' \subseteq Words
      /\ DOMAIN cache' # {} => host = "run_simple"
      /\ \A b \in Words : Memory'[b] = IF b = HostIndex(step) THEN v ELSE Memory[b]
    BY <1>1, <1>2, <1>3, StoreIs
<1>5. ~done
    BY <1>2 DEF MemoryInv, Loading
<1>6. Shows(Memory, size, step)
    BY <1>2 DEF MemoryInv
<1>7. \A a \in Words : StoredLate(a, Memory'[a]) \/ LoadedAt(Memory'[a], size, step + 1, a)
    <2> SUFFICES ASSUME NEW a \in Words
                 PROVE  StoredLate(a, Memory'[a]) \/ LoadedAt(Memory'[a], size, step + 1, a)
        OBVIOUS
    <2>1. a \in Nat
        BY BoundAssumption DEF Words, BoundAssumption
    <2>2. HostIndex(a) \in Nat /\ HostIndex(HostIndex(a)) = a /\ HostIndex(HostIndex(step)) = step
        BY <1>3, <2>1, HostIndexFacts
    <2>3. CASE a = HostIndex(step)
        <3>1. HostIndex(a) = step /\ Memory'[a] = v
            BY <1>4, <2>2, <2>3
        <3>2. step < 4 * (size \div 16) => v = File[step \div 4 + 1][(step % 4) + 1]
            BY <1>1 DEF TextWord
        <3>3. ~(HostIndex(a) >= step + 1)
            BY <1>3, <3>1
        <3>4. QED
            BY <3>1, <3>2, <3>3 DEF LoadedAt
    <2>4. CASE a # HostIndex(step)
        <3>1. HostIndex(a) # step /\ Memory'[a] = Memory[a]
            BY <1>4, <2>2, <2>4
        <3>2. StoredLate(a, Memory[a]) \/ LoadedAt(Memory[a], size, step, a)
            BY <1>6 DEF Shows
        <3>3. /\ HostIndex(a) >= step + 1 => HostIndex(a) >= step
              /\ HostIndex(a) < step + 1 => HostIndex(a) < step
            BY <1>3, <2>2, <3>1
        <3>4. QED
            BY <3>1, <3>2, <3>3 DEF LoadedAt
    <2>5. QED
        BY <2>3, <2>4
<1>8. Shows(Memory, size, step)'
    BY <1>2, <1>7 DEF Shows, LoadedAt, StoredLate
<1>9. QED
    BY <1>2, <1>4, <1>5, <1>8 DEF MemoryInv, Loading

LEMMA FlushKeepsMemory ==
    ASSUME MemoryInv, Flush
    PROVE  MemoryInv'
<1>1. /\ hpc = "flush" /\ hpc' = "release" /\ cache' = << >>
      /\ UNCHANGED << host, size, step, done, loaded, era, pending, late >>
    BY DEF Flush, storeVars
<1>2. DOMAIN cache' = {}
    BY <1>1, EmptySeq
<1>3. dram' = Memory
    BY DEF Flush, Memory
<1>4. DOMAIN dram' = Words
    BY <1>3 DEF Memory
<1>5. \A a \in Words : Memory'[a] = Memory[a]
    BY <1>2, <1>3 DEF Memory
<1>6. Shows(Memory, size, step)'
    BY <1>1, <1>5 DEF MemoryInv, Shows, LoadedAt, StoredLate
<1>7. ~done
    BY <1>1 DEF MemoryInv, Loading
<1>8. QED
    BY <1>1, <1>2, <1>4, <1>6, <1>7 DEF MemoryInv, Loading

LEMMA EvictKeepsMemory ==
    ASSUME MemoryInv, Evict
    PROVE  MemoryInv'
<1>1. PICK a \in DOMAIN cache :
         /\ dram' = [dram EXCEPT ![a] = cache[a]]
         /\ cache' = [b \in DOMAIN cache \ {a} |-> cache[b]]
    BY DEF Evict
<1>2. UNCHANGED << host, hpc, size, step, done, loaded, era, pending, late >>
    BY DEF Evict, hostVars, storeVars
<1>3. DOMAIN dram = Words /\ DOMAIN cache \subseteq Words
    BY DEF MemoryInv
<1>4. DOMAIN dram' = Words /\ DOMAIN cache' = DOMAIN cache \ {a}
    BY <1>1, <1>3
<1>5. \A b \in Words : Memory'[b] = Memory[b]
    <2>1. \A b \in Words : Memory'[b] = IF b \in DOMAIN cache' THEN cache'[b] ELSE dram'[b]
        BY DEF Memory
    <2>2. QED
        BY <1>1, <1>3, <1>4, <2>1, MemoryAt
<1>6. host = "run_simple" /\ hpc \in {"zero", "write", "flush"}
    BY DEF MemoryInv
<1>7. ~done
    BY <1>6 DEF MemoryInv, Loading
<1>8. hpc \in {"write", "flush", "release"} => Shows(Memory, size, step)'
    BY <1>2, <1>5 DEF MemoryInv, Shows, LoadedAt, StoredLate
<1>9. hpc = "zero" => \A b \in Words : b < step => (StoredLate(b, Memory[b]) \/ Memory[b] = 0)'
    BY <1>2, <1>5 DEF MemoryInv, StoredLate
<1>10. QED
    BY <1>2, <1>3, <1>4, <1>6, <1>7, <1>8, <1>9 DEF MemoryInv, Loading

LEMMA ReleaseKeepsMemory ==
    ASSUME ControlInv, MemoryInv, Release
    PROVE  MemoryInv'
<1>1. /\ hpc = "release" /\ hpc' = "poll" /\ done' = TRUE /\ loaded' = size
      /\ UNCHANGED << cache, dram, pending, late >>
    BY DEF Release, storeVars
<1>2. DOMAIN cache = {} /\ ~done
    BY <1>1 DEF MemoryInv, Loading
<1>3. \A a \in Words : StoredLate(a, dram[a]) \/ LoadedAt(dram[a], size, size \div 4, a)
    <2>1. Shows(Memory, size, size \div 4)
        BY <1>1 DEF MemoryInv, ControlInv
    <2>2. \A a \in Words : Memory[a] = dram[a]
        BY <1>2, MemoryAt
    <2>3. QED
        BY <2>1, <2>2 DEF Shows
<1>4. \A a \in Words : (\/ dram[a] = RsdWord(era) \/ StoredLate(a, dram[a])
                        \/ LoadedAt(dram[a], loaded, loaded \div 4, a))'
    BY <1>1, <1>3 DEF StoredLate, LoadedAt
<1>5. size \in Sizes \cup {16 * Len(File)}
    BY DEF ControlInv
<1>6. \A s \in pending : s \in late
    BY <1>2 DEF MemoryInv
<1>7. QED
    BY <1>1, <1>2, <1>4, <1>5, <1>6 DEF MemoryInv, Loading

(* A store of RSD under way: of this release *)
LEMMA StoreKeepsMemory ==
    ASSUME MemoryInv, RsdStore
    PROVE  MemoryInv'
<1>1. PICK e \in StoredEntries : pending' = pending \cup {[entry |-> e, era |-> era]}
    BY DEF RsdStore
<1>2. done /\ UNCHANGED << host, hpc, size, step, cache, dram, done, loaded, era, late >>
    BY DEF RsdStore, hostVars
<1>3. hpc \notin Loading
    BY <1>2 DEF MemoryInv
<1>4. \A s \in pending' : s \in late' \/ (done' /\ s.era = era')
    BY <1>1, <1>2 DEF MemoryInv
<1>5. \A a \in Words : (\/ dram[a] = RsdWord(era) \/ StoredLate(a, dram[a])
                        \/ LoadedAt(dram[a], loaded, loaded \div 4, a))'
    BY <1>2 DEF MemoryInv, StoredLate, LoadedAt
<1>6. QED
    BY <1>2, <1>3, <1>4, <1>5 DEF MemoryInv, Loading

(* A store that lands leaves a word as it was, or as stored late, or as    *)
(* stored in this release.                                                 *)
LEMMA LandingKeepsMemory ==
    ASSUME MemoryInv, StoreLands
    PROVE  MemoryInv'
<1>1. PICK s \in pending :
         /\ dram' = [a \in Words |-> IF EntryOf(a) = s.entry THEN RsdWord(s.era) ELSE dram[a]]
         /\ pending' = pending \ {s}
    BY DEF StoreLands
<1>2. UNCHANGED << host, hpc, size, step, cache, done, loaded, era, late >>
    BY DEF StoreLands, hostVars
<1>3. s \in late \/ (done /\ s.era = era)
    BY DEF MemoryInv
<1>4. DOMAIN dram' = Words /\ DOMAIN cache' = DOMAIN cache
    BY <1>1, <1>2
<1>5. \A a \in Words : s \in late => dram'[a] = dram[a] \/ StoredLate(a, dram'[a])
    BY <1>1 DEF StoredLate
<1>6. \A a \in Words : ~(s \in late) => dram'[a] = dram[a] \/ dram'[a] = RsdWord(era)
    BY <1>1, <1>3
<1>7. \A a \in Words : s \in late => Memory'[a] = Memory[a] \/ StoredLate(a, Memory'[a])
    <2>1. \A a \in Words : Memory'[a] = IF a \in DOMAIN cache' THEN cache'[a] ELSE dram'[a]
        BY DEF Memory
    <2>2. QED
        BY <1>2, <1>5, <2>1, MemoryAt
<1>8. hpc \in Loading => s \in late
    BY <1>3 DEF MemoryInv
<1>9. hpc = "zero" => \A a \in Words : a < step => (StoredLate(a, Memory[a]) \/ Memory[a] = 0)'
    <2> SUFFICES ASSUME hpc = "zero", NEW a \in Words, a < step
                 PROVE  (StoredLate(a, Memory[a]) \/ Memory[a] = 0)'
        OBVIOUS
    <2>1. StoredLate(a, Memory[a]) \/ Memory[a] = 0
        BY DEF MemoryInv
    <2>2. StoredLate(a, Memory'[a]) \/ Memory'[a] = 0
        BY <1>7, <1>8, <2>1 DEF Loading
    <2>3. QED
        BY <1>2, <2>2 DEF StoredLate
<1>10. hpc \in {"write", "flush", "release"} => Shows(Memory, size, step)'
    <2> SUFFICES ASSUME hpc \in {"write", "flush", "release"}
                 PROVE  Shows(Memory, size, step)'
        OBVIOUS
    <2>1. \A a \in Words : StoredLate(a, Memory[a]) \/ LoadedAt(Memory[a], size, step, a)
        BY DEF MemoryInv, Shows
    <2>2. \A a \in Words : StoredLate(a, Memory'[a]) \/ LoadedAt(Memory'[a], size, step, a)
        BY <1>7, <1>8, <2>1 DEF Loading
    <2>3. QED
        BY <1>2, <2>2 DEF Shows, StoredLate, LoadedAt
<1>11. done => \A a \in Words :
                 (\/ dram[a] = RsdWord(era) \/ StoredLate(a, dram[a])
                  \/ LoadedAt(dram[a], loaded, loaded \div 4, a))'
    <2> SUFFICES ASSUME done, NEW a \in Words
                 PROVE  (\/ dram[a] = RsdWord(era) \/ StoredLate(a, dram[a])
                         \/ LoadedAt(dram[a], loaded, loaded \div 4, a))'
        OBVIOUS
    <2>1. \/ dram[a] = RsdWord(era) \/ StoredLate(a, dram[a])
          \/ LoadedAt(dram[a], loaded, loaded \div 4, a)
        BY DEF MemoryInv
    <2>2. \/ dram'[a] = RsdWord(era) \/ StoredLate(a, dram'[a])
          \/ LoadedAt(dram'[a], loaded, loaded \div 4, a)
        BY <1>5, <1>6, <2>1
    <2>3. QED
        BY <1>2, <2>2 DEF StoredLate, LoadedAt
<1>12. \A x \in pending' : x \in late' \/ (done' /\ x.era = era')
    BY <1>1, <1>2 DEF MemoryInv
<1>13. QED
    BY <1>2, <1>4, <1>9, <1>10, <1>11, <1>12 DEF MemoryInv, Loading

(* Steps that neither store nor move the host into or within a load *)
LEMMA FrameMemory ==
    ASSUME MemoryInv, UNCHANGED << host, cache, dram, done, loaded, era, pending, late >>,
           (hpc' \notin Loading /\ hpc \notin Loading) \/ UNCHANGED << hpc, size, step >>
    PROVE  MemoryInv'
<1>1. Memory' = Memory
    BY DEF Memory
<1>2. \A s \in pending' : s \in late' \/ (done' /\ s.era = era')
    BY DEF MemoryInv
<1>3. done => \A a \in Words :
                 (\/ dram[a] = RsdWord(era) \/ StoredLate(a, dram[a])
                  \/ LoadedAt(dram[a], loaded, loaded \div 4, a))'
    BY DEF MemoryInv, StoredLate, LoadedAt
<1>4. CASE hpc' \notin Loading /\ hpc \notin Loading
    BY <1>2, <1>3, <1>4 DEF MemoryInv, Loading
<1>5. CASE UNCHANGED << hpc, size, step >>
    <2>1. Shows(Memory, size, step)' = Shows(Memory, size, step)
        BY <1>1, <1>5 DEF Shows, StoredLate, LoadedAt
    <2>2. \A a \in Words : (StoredLate(a, Memory[a]) \/ Memory[a] = 0)'
                             = (StoredLate(a, Memory[a]) \/ Memory[a] = 0)
        BY <1>1 DEF StoredLate
    <2>3. QED
        BY <1>2, <1>3, <1>5, <2>1, <2>2 DEF MemoryInv, Loading
<1>6. QED
    BY <1>4, <1>5

(* Every step keeps the memory a prefix of the load, or the image. *)
LEMMA StepKeepsMemory ==
    ASSUME ControlInv, ChannelInv, MemoryInv, [Next]_vars
    PROVE  MemoryInv'
<1> USE DEF hostVars, memVars, storeVars, history
<1>1. CASE HoldReset
    <2>1. /\ hpc = "start" /\ hpc' = "zero" /\ step' = 0 /\ done' = FALSE
          /\ late' = pending /\ UNCHANGED << host, cache, dram, pending >>
        BY <1>1 DEF HoldReset
    <2>2. DOMAIN cache = {}
        BY <2>1 DEF MemoryInv
    <2>3. \A a \in Words : ~(a < 0)
        BY BoundAssumption DEF Words, BoundAssumption
    <2>4. QED
        BY <2>1, <2>2, <2>3 DEF MemoryInv, Loading
<1>2. CASE ZeroMemory
    BY <1>2, ZeroKeepsMemory
<1>3. CASE WriteWord
    BY <1>3, WriteKeepsMemory
<1>4. CASE AllWritten
    <2>1. /\ hpc = "write" /\ step = size \div 4
          /\ hpc' = (IF host = "run_simple" THEN "flush" ELSE "release")
          /\ UNCHANGED << host, cache, dram, size, step, done, loaded, era, pending, late >>
        BY <1>4 DEF AllWritten, WordsToSend
    <2>2. Memory' = Memory
        BY <2>1 DEF Memory
    <2>3. ~done /\ Shows(Memory, size, step)
        BY <2>1 DEF MemoryInv, Loading
    <2>4. Shows(Memory, size, step)'
        BY <2>1, <2>2, <2>3 DEF Shows, StoredLate, LoadedAt
    <2>5. QED
        BY <2>1, <2>3, <2>4 DEF MemoryInv, Loading
<1>5. CASE Flush
    BY <1>5, FlushKeepsMemory
<1>6. CASE Release
    BY <1>6, ReleaseKeepsMemory
<1>7. CASE AskEmpty \/ AskData
    <2>1. /\ hpc \in {"poll", "fetch"} /\ hpc' \in {"empty?", "data?"}
          /\ UNCHANGED << host, cache, dram, done, loaded, era, pending, late >>
        BY <1>7 DEF AskEmpty, AskData, Ask
    <2>2. QED
        BY <2>1, FrameMemory DEF Loading
<1>8. CASE PrintChar \/ SkipPrint
    <2>1. /\ hpc \in {"print", "skip"} /\ hpc' \in {"poll", "exit"}
          /\ UNCHANGED << host, cache, dram, done, loaded, era, pending, late >>
        BY <1>8 DEF PrintChar, SkipPrint, EndRound
    <2>2. QED
        BY <2>1, FrameMemory DEF Loading
<1>9. CASE Clock
    <2>1. /\ UNCHANGED << host, size, step, cache, dram, done, loaded, era, pending, late >>
          /\ Deliver
        BY <1>9 DEF Clock
    <2>2. CASE bus.rvalid /\ bus.live
        <3>1. hpc \in {"empty?", "data?"}
            BY <2>2 DEF ChannelInv, Free
        <3>2. hpc' \in {"fetch", "skip", "print"}
            BY <2>1, <2>2 DEF Deliver, Answered
        <3>3. QED
            BY <2>1, <3>1, <3>2, FrameMemory DEF Loading
    <2>3. CASE ~(bus.rvalid /\ bus.live)
        <3>1. hpc' = hpc
            BY <2>1, <2>3 DEF Deliver, Answered
        <3>2. QED
            BY <2>1, <3>1, FrameMemory
    <2>4. QED
        BY <2>2, <2>3
<1>10. CASE Evict
    BY <1>10, EvictKeepsMemory
<1>11. CASE Rerun
    <2>1. /\ hpc' = "start" /\ UNCHANGED << host, cache, dram, done, loaded, era, pending, late >>
          /\ host = "loader" \/ hpc = "exit"
        BY <1>11 DEF Rerun
    <2>2. DOMAIN cache = {}
        BY <2>1 DEF MemoryInv
    <2>3. \A s \in pending' : s \in late' \/ (done' /\ s.era = era')
        BY <2>1 DEF MemoryInv
    <2>4. done => \A a \in Words :
                     (\/ dram[a] = RsdWord(era) \/ StoredLate(a, dram[a])
                      \/ LoadedAt(dram[a], loaded, loaded \div 4, a))'
        BY <2>1 DEF MemoryInv, StoredLate, LoadedAt
    <2>5. QED
        BY <2>1, <2>2, <2>3, <2>4 DEF MemoryInv, Loading
<1>14. CASE RsdStore
    BY <1>14, StoreKeepsMemory
<1>15. CASE StoreLands
    BY <1>15, LandingKeepsMemory
<1>12. CASE UNCHANGED vars
    <2>1. UNCHANGED << host, cache, dram, hpc, size, step, done, loaded, era, pending, late >>
        BY <1>12 DEF vars
    <2>2. QED
        BY <2>1, FrameMemory
<1>13. QED
    BY <1>1, <1>2, <1>3, <1>4, <1>5, <1>6, <1>7, <1>8, <1>9, <1>10, <1>11, <1>12,
       <1>14, <1>15
    DEF Next, HostStep

-----------------------------------------------------------------------------
(* The words of the image that the simulator would load *)
LEMMA ImageIs ==
    ASSUME NEW s \in Sizes \cup {16 * Len(File)}, NEW a \in Words,
           NEW image, image = loadHexFile(LoadedImage(s))
    PROVE  /\ a \in DOMAIN image <=> HostIndex(a) < 4 * (s \div 16)
           /\ a \in DOMAIN image =>
                 image[a] = File[(HostIndex(a) \div 4) + 1][(HostIndex(a) % 4) + 1]
<1>1. s \in Nat /\ s \div 16 \in Nat /\ a \in Nat
    BY SizeFacts, BoundAssumption DEF Words, BoundAssumption
<1> DEFINE n == s \div 16
           lines == [l \in 0 .. n - 1 |-> File[l + 1]]
           hex == [n |-> n, lines |-> lines]
<1>2. LoadedImage(s) = hex
    BY DEF LoadedImage
<1>3. /\ HostIndex(a) \in Nat /\ HostIndex(a) \div 4 = a \div 4
      /\ HostIndex(a) % 4 = 3 - (a % 4)
      /\ a % 4 \in 0 .. 3 /\ a \div 4 \in Nat /\ a = 4 * (a \div 4) + (a % 4)
    BY <1>1, HostIndexFacts
<1>4. HostIndex(a) = 4 * (a \div 4) + (3 - (a % 4))
    BY DEF HostIndex
<1>5. HostIndex(a) < 4 * n <=> a \div 4 < n
    BY <1>1, <1>3, <1>4
<1>6. a \in WordAddresses(hex) <=> a \div 4 < n
    <2>1. ASSUME a \div 4 < n
          PROVE  a \in WordAddresses(hex)
        <3>1. a \div 4 \in 0 .. n - 1
            BY <1>1, <1>3, <2>1
        <3>2. QED
            BY <1>3, <3>1 DEF WordAddresses
    <2>2. ASSUME a \in WordAddresses(hex)
          PROVE  a \div 4 < n
        <3>1. PICK l \in 0 .. n - 1, i \in 0 .. 3 : a = 4 * l + i
            BY <2>2 DEF WordAddresses
        <3>2. QED
            BY <1>1, <3>1
    <2>3. QED
        BY <2>1, <2>2
<1>7. image = [b \in WordAddresses(hex) |-> lines[b \div 4][(3 - (b % 4)) + 1]]
    BY <1>2 DEF loadHexFile
<1>8. a \in WordAddresses(hex) => image[a] = File[a \div 4 + 1][(3 - (a % 4)) + 1]
    <2> SUFFICES ASSUME a \in WordAddresses(hex)
                 PROVE  image[a] = File[a \div 4 + 1][(3 - (a % 4)) + 1]
        OBVIOUS
    <2>1. a \div 4 \in 0 .. n - 1
        BY <1>1, <1>3, <1>6
    <2>2. QED
        BY <1>7, <2>1
<1>9. QED
    BY <1>3, <1>5, <1>6, <1>7, <1>8

LEMMA MemoryIsImage == MemoryInv => RsdRunsTheImage
<1> SUFFICES ASSUME MemoryInv, done, NEW a \in Words \ TailWords(loaded),
                    NEW image, image = loadHexFile(LoadedImage(loaded)),
                    dram[a] # RsdWord(era), ~StoredLate(a, dram[a])
             PROVE  dram[a] = IF a \in DOMAIN image THEN image[a] ELSE 0
    BY DEF RsdRunsTheImage
<1>1. loaded \in Sizes \cup {16 * Len(File)} /\ LoadedAt(dram[a], loaded, loaded \div 4, a)
    BY DEF MemoryInv
<1>2. a \in Nat /\ loaded \in Nat
    BY <1>1, SizeFacts, BoundAssumption DEF Words, BoundAssumption
<1>3. HostIndex(a) \in Nat /\ HostIndex(HostIndex(a)) = a
    BY <1>2, HostIndexFacts
<1>4. 4 * (loaded \div 16) <= loaded \div 4 /\ loaded \div 16 \in Nat /\ loaded \div 4 \in Nat
    BY <1>2
<1>5. ~(HostIndex(a) \in 4 * (loaded \div 16) .. loaded \div 4 - 1)
    BY <1>3 DEF TailWords
<1>6. HostIndex(a) < 4 * (loaded \div 16) \/ HostIndex(a) >= loaded \div 4
    BY <1>3, <1>4, <1>5
<1>7. /\ a \in DOMAIN image <=> HostIndex(a) < 4 * (loaded \div 16)
      /\ a \in DOMAIN image =>
            image[a] = File[(HostIndex(a) \div 4) + 1][(HostIndex(a) % 4) + 1]
    BY <1>1, ImageIs
<1>8. CASE a \in DOMAIN image
    <2>1. HostIndex(a) < loaded \div 4
        BY <1>3, <1>4, <1>7, <1>8
    <2>2. QED
        BY <1>1, <1>7, <1>8, <2>1 DEF LoadedAt
<1>9. CASE a \notin DOMAIN image
    BY <1>1, <1>6, <1>7, <1>9 DEF LoadedAt
<1>10. QED
    BY <1>8, <1>9

LEMMA CharactersAreExact == ChannelInv /\ OutputInv => OutputIsExact
<1> SUFFICES ASSUME ChannelInv, OutputInv
             PROVE  OutputIsExact
    OBVIOUS
<1>1. \A j, k \in DOMAIN printed : j < k => printed[j] < printed[k]
    BY DEF OutputInv, Increasing
<1>2. Elements(printed) \subseteq Nat /\ Elements(queue) \subseteq Nat /\ got \in Nat
    BY DEF ChannelInv, OutputInv, Elements
<1>3. Elements(queue) \cap (Elements(printed) \cup InFlight) = {}
    <2> SUFFICES ASSUME NEW q \in Elements(queue), q \in Elements(printed) \cup InFlight
                 PROVE  FALSE
        OBVIOUS
    <2>1. q \in Nat
        BY <1>2
    <2>2. CASE q \in Elements(printed)
        BY <2>1, <2>2 DEF OutputInv
    <2>3. CASE q \in InFlight
        BY <2>1, <2>3 DEF OutputInv, InFlight
    <2>4. QED
        BY <2>2, <2>3
<1>4. QED
    BY <1>1, <1>3 DEF OutputIsExact, OutputInv

-----------------------------------------------------------------------------
(* The host and the read channel keep step, whoever is killed where: a     *)
(* transaction of a killed host ends before the next host asks.            *)
THEOREM HostAndChannelKeepStep == Spec => [](ControlInv /\ ChannelInv)
BY InitControl, StepKeepsControl, PTL DEF Spec

(* The characters printed, in the host's hand, and in the queue are in the *)
(* order RSD wrote them, and what the stale status registers say of a head *)
(* still holds when the host acts on it.                                   *)
THEOREM HeadIsFreshWhenRead == Spec => [](StatusInv /\ OutputInv)
BY InitOutput, StepKeepsOutput, HostAndChannelKeepStep, PTL DEF Spec

(* Memory is a prefix of the load, or the image while RSD runs, under the  *)
(* stores that have reached it.                                            *)
THEOREM MemoryIsLoadedInOrder == Spec => []MemoryInv
BY InitMemory, StepKeepsMemory, HostAndChannelKeepStep, PTL DEF Spec

(* The reads of one host are never two at a time, and the counters and the *)
(* queue stay in their ranges.                                             *)
THEOREM BoardStaysInRange == Spec => []TypeOK
<1>1. ControlInv /\ ChannelInv /\ OutputInv /\ MemoryInv => TypeOK
    <2> SUFFICES ASSUME ControlInv, ChannelInv, OutputInv, MemoryInv
                 PROVE  TypeOK
        OBVIOUS
    <2>1. /\ hpc \in States /\ runs \in 1 .. MaxRuns /\ step \in 0 .. MEM_WORDS
          /\ t \in 0 .. PERIOD /\ u \in 0 .. PERIODS
        BY DEF ControlInv
    <2>2. /\ DOMAIN cache \subseteq Words /\ DOMAIN dram = Words
          /\ done \in BOOLEAN /\ Len(queue) <= QUEUE_SIZE
        BY DEF OutputInv, MemoryInv
    <2>3. /\ ~(bus.arvalid /\ bus.rvalid)
          /\ bus.live /\ ~Free => hpc \in {"empty?", "data?"}
        BY DEF ChannelInv
    <2>4. QED
        BY <2>1, <2>2, <2>3 DEF TypeOK
<1>2. QED
    BY <1>1, HostAndChannelKeepStep, HeadIsFreshWhenRead, MemoryIsLoadedInOrder, PTL

(* While RSD is out of reset, a word that it has not stored itself is the  *)
(* word of the image the simulator would load, or 0 behind it, for every   *)
(* image, size and memory, whatever the cache writes back, wherever the    *)
(* loader is killed and in whatever order RSD's stores land; but for the   *)
(* entries with a store under way when a host reset RSD.                   *)
THEOREM RsdAlwaysRunsTheImage == Spec => []RsdRunsTheImage
BY MemoryIsImage, MemoryIsLoadedInOrder, PTL

(* Each character that the queue took is in one place or was lost with a   *)
(* killed host; the output has none twice, none out of order, none that    *)
(* RSD did not write.                                                      *)
THEOREM OutputIsAlwaysExact == Spec => []OutputIsExact
BY CharactersAreExact, HostAndChannelKeepStep, HeadIsFreshWhenRead, PTL
=============================================================================
