------------------------------ MODULE BoardHost ------------------------------
(***************************************************************************)
(* RSD on the Zynq board: a host program on the processing system loads    *)
(* the image into the memory that RSD runs from, releases RSD, and prints  *)
(* what RSD writes to its serial port.                                     *)
(*                                                                         *)
(* host says which program: "loader", a Linux process (loader.c) that      *)
(* polls until it is killed, or "run_simple", a bare-metal program         *)
(* (run_simple.c) whose stores stay in the data cache until it flushes it. *)
(* Between them stands the logic of Axi4LiteControlRegister.sv, one clock  *)
(* at a time: the queue of characters, the registers the host reads (each  *)
(* a copy one clock old) and the read channel of the bus.                  *)
(*                                                                         *)
(* RSD's own stores go through Axi4Memory to the same memory.  Releasing   *)
(* and resetting RSD does not reset Axi4Memory: a store that it has taken  *)
(* lands whenever the bus lets it, also after RSD was stopped.             *)
(*                                                                         *)
(* Word addresses throughout.  RSD's characters are numbered in the order  *)
(* in which it writes them; a word of one of its stores is told by the     *)
(* release under which RSD stored it, and by nothing else.                 *)
(***************************************************************************)
EXTENDS HexImage

CONSTANTS File,             \* code.hex: a sequence of lines of four words
          Sizes,            \* sizes in bytes the loader may be given
          Garbage,          \* words an uninitialized buffer may hold
          MEM_WORDS,        \* bound: words of memory that are cleared
          ENTRY_WORDS,      \* words of a memory entry, the unit of RSD's stores
          WRITE_ID_NUM,     \* MEMORY_AXI4_WRITE_ID_NUM: stores under way
          StoredEntries,    \* bound: entries that RSD stores to
          QUEUE_SIZE,       \* PS_PL_CTRL_QUEUE_SIZE
          PERIOD, PERIODS,  \* bound: polls per report (10000000), reports (10)
          MaxChars,         \* bound: characters RSD writes
          MaxRuns           \* bound: runs of the host program

ASSUME QueueAssumption == QUEUE_SIZE \in Nat \ {0}
ASSUME StoreAssumption == {ENTRY_WORDS, WRITE_ID_NUM} \subseteq Nat \ {0}
ASSUME BoundAssumption ==
    /\ {MEM_WORDS, PERIOD, MaxChars} \subseteq Nat
    /\ {PERIODS, MaxRuns} \subseteq Nat \ {0}
ASSUME SizeAssumption ==
    /\ File \in Seq([1 .. 4 -> Int]) /\ Sizes \subseteq Nat
    /\ \A s \in Sizes \cup {16 * Len(File)} :
          s \div 16 \in 1..Len(File) /\ 4 * ((s + 15) \div 16) <= MEM_WORDS

VARIABLES host, hpc, runs, size, step, got, t, u,   \* the host program
          cache, dram,                              \* memory, and stores not in it yet
          done, loaded, era,                        \* the run register; size and run it was set for
          pending, late,                            \* RSD's stores under way; those of them at the last reset
          bus, queue, regs,                         \* the control registers of the PL
          sent, accepted, printed, lost             \* history of the characters

hostVars == << host, hpc, runs, size, step, got, t, u >>
storeVars == << pending, late >>
memVars == << cache, dram, done, loaded, era, storeVars >>
history == << sent, accepted, printed, lost >>
vars == << hostVars, memVars, bus, queue, regs, history >>

Words == 0..(MEM_WORDS - 1)
EMPTY_OFFSET == 0
DATA_OFFSET == 1
Stale == 0                  \* what the head of an empty queue holds

\* bus: the read channel.  live: the process that asked is still there.
Idle == [ arvalid |-> FALSE, arready |-> FALSE, rvalid |-> FALSE,
          addr |-> EMPTY_OFFSET, rdata |-> 0, live |-> FALSE ]

Init ==
    /\ host \in {"loader", "run_simple"} /\ hpc = "start" /\ runs = 1
    /\ size \in (IF host = "loader" THEN Sizes ELSE {16 * Len(File)})
    /\ step = 0 /\ got = 0 /\ t = 0 /\ u = 0
    /\ cache = << >> /\ dram \in [Words -> {FillWord}]
    /\ done = FALSE /\ loaded = 0 /\ era = 0
    /\ pending = {} /\ late = {}
    /\ bus = Idle /\ queue = << >> /\ regs = << 1, Stale >>
    /\ sent = 0 /\ accepted = {} /\ printed = << >> /\ lost = {}

-----------------------------------------------------------------------------
(* Loading.                                                                *)

\* A store of the host: in the cache for run_simple; loader maps the memory
\* of a device, which is not cached.
HostStore(a, v) ==
    IF host = "run_simple"
    THEN /\ cache' = [b \in {a} \cup DOMAIN cache |-> IF b = a THEN v ELSE cache[b]]
         /\ UNCHANGED dram
    ELSE dram' = [dram EXCEPT ![a] = v] /\ UNCHANGED cache

\* rsd_ps2pl[DONE_OFFSET] = 0 holds RSD in reset, before anything is stored.
\* What Axi4Memory has taken from RSD stays under way.
HoldReset_StaysReleased ==          \* fault for mutation
    /\ hpc = "start"
    /\ hpc' = "zero" /\ step' = 0
    /\ UNCHANGED << host, runs, size, got, t, u, memVars, bus, queue, regs, history >>

HoldReset ==
    /\ hpc = "start"
    /\ hpc' = "zero" /\ step' = 0 /\ done' = FALSE /\ late' = pending
    /\ UNCHANGED << host, runs, size, got, t, u, cache, dram, loaded, era, pending,
                     bus, queue, regs, history >>

ZeroMemory ==
    /\ hpc = "zero"
    /\ HostStore(step, 0)
    /\ IF step + 1 = MEM_WORDS THEN hpc' = "write" /\ step' = 0
                               ELSE hpc' = hpc /\ step' = step + 1
    /\ UNCHANGED << host, runs, size, got, t, u, done, loaded, era, storeVars,
                     bus, queue, regs, history >>

\* The j-th word of the text.  loader reads size / 16 whole lines into its
\* buffer but sends size bytes of it.
WordsToSend == size \div 4
TextWord(j) ==
    IF j < 4 * (size \div 16) THEN {File[(j \div 4) + 1][(j % 4) + 1]} ELSE Garbage

WriteWord ==
    /\ hpc = "write" /\ step < WordsToSend
    /\ \E v \in TextWord(step) : HostStore(HostIndex(step), v)
    /\ step' = step + 1
    /\ UNCHANGED << host, hpc, runs, size, got, t, u, done, loaded, era, storeVars,
                     bus, queue, regs, history >>

AllWritten ==
    /\ hpc = "write" /\ step = WordsToSend
    /\ hpc' = IF host = "run_simple" THEN "flush" ELSE "release"
    /\ UNCHANGED << host, runs, size, step, got, t, u, memVars, bus, queue, regs, history >>

Flush ==
    /\ hpc = "flush"
    /\ dram' = [a \in Words |-> IF a \in DOMAIN cache THEN cache[a] ELSE dram[a]]
    /\ cache' = << >>
    /\ hpc' = "release"
    /\ UNCHANGED << host, runs, size, step, got, t, u, done, loaded, era, storeVars,
                     bus, queue, regs, history >>

Release ==
    /\ hpc = "release"
    /\ done' = TRUE /\ loaded' = size /\ era' = runs /\ hpc' = "poll" /\ t' = 0 /\ u' = 0
    /\ UNCHANGED << host, runs, size, step, got, cache, dram, storeVars,
                     bus, queue, regs, history >>

\* A dirty line may leave the cache at any time.
Evict ==
    /\ \E a \in DOMAIN cache :
         /\ dram' = [dram EXCEPT ![a] = cache[a]]
         /\ cache' = [b \in DOMAIN cache \ {a} |-> cache[b]]
    /\ UNCHANGED << hostVars, done, loaded, era, storeVars, bus, queue, regs, history >>

-----------------------------------------------------------------------------
(* RSD's stores, an entry of memory at a time.                             *)

RsdWord(release) == -release
EntryOf(a) == a \div ENTRY_WORDS

\* RSD stores only when it runs, and waits for room in the queue of the
\* stores under way.  Two stores of a release to an entry count as one.
RsdStore ==
    /\ done /\ Cardinality(pending) < WRITE_ID_NUM
    /\ \E e \in StoredEntries : pending' = pending \cup {[entry |-> e, era |-> era]}
    /\ UNCHANGED << hostVars, cache, dram, done, loaded, era, late, bus, queue, regs, history >>

\* A store reaches the memory, in any order and whether RSD still runs or not.
StoreLands ==
    /\ \E s \in pending :
         /\ dram' = [a \in Words |-> IF EntryOf(a) = s.entry THEN RsdWord(s.era) ELSE dram[a]]
         /\ pending' = pending \ {s}
    /\ UNCHANGED << hostVars, cache, done, loaded, era, late, bus, queue, regs, history >>

-----------------------------------------------------------------------------
(* Polling.  A read of a register is a transaction of the bus: the host    *)
(* raises ARVALID when the bus is free and waits for the answer.           *)

Free == ~bus.arvalid /\ ~bus.arready /\ ~bus.rvalid

Ask(from, addr, waiting) ==
    /\ hpc = from /\ Free
    /\ bus' = [Idle EXCEPT !.arvalid = TRUE, !.addr = addr, !.live = TRUE]
    /\ hpc' = waiting
    /\ UNCHANGED << host, runs, size, step, got, t, u, memVars, queue, regs, history >>

AskEmpty == Ask("poll", EMPTY_OFFSET, "empty?")
AskData == Ask("fetch", DATA_OFFSET, "data?")

\* Fault for mutation: the loader leaves the loop as run_simple does.
EndRound_LoaderExits(now) ==
    IF now < PERIOD THEN t' = now + 1 /\ u' = u /\ hpc' = "poll"
    ELSE /\ t' = 0
         /\ u' = u + 1 /\ hpc' = IF u + 1 = PERIODS THEN "exit" ELSE "poll"

\* The end of a round of the polling loop; run_simple leaves it at last.
EndRound(now) ==
    IF now < PERIOD THEN t' = now + 1 /\ u' = u /\ hpc' = "poll"
    ELSE /\ t' = 0
         /\ IF host = "loader" THEN u' = u /\ hpc' = "poll"
            ELSE u' = u + 1 /\ hpc' = IF u + 1 = PERIODS THEN "exit" ELSE "poll"

PrintChar ==
    /\ hpc = "print"
    /\ printed' = Append(printed, got)
    /\ EndRound(t)
    /\ UNCHANGED << host, runs, size, step, got, memVars, bus, queue, regs, sent, accepted, lost >>

SkipPrint ==
    /\ hpc = "skip"
    /\ EndRound(t)
    /\ UNCHANGED << host, runs, size, step, got, memVars, bus, queue, regs, history >>

\* The loader can be killed at any point; a run_simple that has ended can be
\* started again.  A read in flight completes for nobody.
Rerun ==
    /\ runs < MaxRuns
    /\ host = "loader" \/ hpc = "exit"
    /\ runs' = runs + 1 /\ hpc' = "start" /\ step' = 0 /\ t' = 0 /\ u' = 0
    /\ size' \in (IF host = "loader" THEN Sizes ELSE {size})
    /\ bus' = [bus EXCEPT !.live = FALSE]
    /\ lost' = IF hpc = "print" THEN lost \cup {got} ELSE lost
    /\ UNCHANGED << host, got, memVars, queue, regs, sent, accepted, printed >>

-----------------------------------------------------------------------------
(* One clock of the programmable logic.                                    *)

Empty == queue = << >>
Full == Len(queue) = QUEUE_SIZE
HeadData == IF Empty THEN Stale ELSE Head(queue)

\* Faults for mutation: the answer does not wait for ARREADY; every read pops.
Accepting_NotReady == bus.arvalid /\ ~bus.rvalid
Pop_AnyRead == bus.rvalid /\ ~Empty

Accepting == bus.arready /\ bus.arvalid /\ ~bus.rvalid
Answered == bus.rvalid              \* the host takes read data at once
Pop == Answered /\ bus.addr = DATA_OFFSET /\ ~Empty

NextBus ==
    [ bus EXCEPT
        !.arready = ~bus.arready /\ bus.arvalid,
        !.arvalid = bus.arvalid /\ ~bus.arready,
        !.rvalid = Accepting,
        !.rdata = IF Accepting THEN regs[bus.addr + 1] ELSE @ ]

NextQueue(we, c) ==
    (IF Pop THEN Tail(queue) ELSE queue) \o (IF we /\ ~Full THEN << c >> ELSE << >>)

\* What the answer of the bus makes of the host that waits for it.
Deliver ==
    IF ~(Answered /\ bus.live) THEN UNCHANGED << hpc, got >>
    ELSE IF bus.addr = EMPTY_OFFSET
         THEN hpc' = (IF bus.rdata # 1 THEN "fetch" ELSE "skip") /\ UNCHANGED got
         ELSE hpc' = "print" /\ got' = bus.rdata

\* RSD writes a character only when it runs; a full queue drops it.
Clock ==
    \E we \in BOOLEAN :
        /\ we => done /\ sent < MaxChars
        /\ sent' = IF we THEN sent + 1 ELSE sent
        /\ accepted' = IF we /\ ~Full THEN accepted \cup {sent + 1} ELSE accepted
        /\ queue' = NextQueue(we, sent + 1)
        /\ regs' = << IF Empty THEN 1 ELSE 0, HeadData >>
        /\ bus' = NextBus
        /\ Deliver
        /\ lost' = IF Pop /\ ~bus.live THEN lost \cup {Head(queue)} ELSE lost
        /\ UNCHANGED << host, runs, size, step, t, u, memVars, printed >>

-----------------------------------------------------------------------------

HostStep ==
    \/ HoldReset \/ ZeroMemory \/ WriteWord \/ AllWritten \/ Flush \/ Release
    \/ AskEmpty \/ AskData \/ PrintChar \/ SkipPrint

Next == HostStep \/ Clock \/ RsdStore \/ StoreLands \/ Evict \/ Rerun

\* The host program keeps running and the clock keeps ticking.  Nothing is
\* assumed of RSD, of its stores, of the cache or of who starts the host again.
Fairness == WF_vars(HostStep) /\ WF_vars(Clock)

Spec == Init /\ [][Next]_vars /\ Fairness

-----------------------------------------------------------------------------
(* Properties.                                                             *)

States == {"start", "zero", "write", "flush", "release", "poll", "empty?",
           "fetch", "data?", "print", "skip", "exit"}

\* The reads of one host are never two at a time, and its counters stay in
\* their ranges.
TypeOK ==
    /\ hpc \in States /\ runs \in 1..MaxRuns /\ step \in 0..MEM_WORDS
    /\ t \in 0..PERIOD /\ u \in 0..PERIODS
    /\ DOMAIN cache \subseteq Words /\ DOMAIN dram = Words
    /\ done \in BOOLEAN /\ Len(queue) <= QUEUE_SIZE
    /\ ~(bus.arvalid /\ bus.rvalid)
    /\ bus.live /\ ~Free => hpc \in {"empty?", "data?"}

\* While RSD is out of reset, a word of its memory that it has not stored
\* itself since its release is the word of the image, as the simulator's
\* loadHexFile lays it out, or zero behind it; killing the loader and running
\* it again changes nothing of this.  Two exceptions: the tail of an image
\* whose size is not a whole number of lines, where the loader sends what its
\* buffer happens to hold (loader.c, run_simple.c), and an entry that had a
\* store of RSD under way when a host reset RSD, since nothing waits for that
\* store before the next load (Main_Zynq.sv 270).
LoadedImage(s) == [ n |-> s \div 16, lines |-> [l \in 0..(s \div 16 - 1) |-> File[l + 1]] ]
TailWords(s) == { HostIndex(j) : j \in (4 * (s \div 16))..(s \div 4 - 1) }
StoredLate(a, v) == \E s \in late : s.entry = EntryOf(a) /\ v = RsdWord(s.era)
RsdRunsTheImage ==
    done => LET image == loadHexFile(LoadedImage(loaded))
            IN \A a \in Words \ TailWords(loaded) :
                 \/ dram[a] = IF a \in DOMAIN image THEN image[a] ELSE 0
                 \/ dram[a] = RsdWord(era)
                 \/ StoredLate(a, dram[a])

\* What the host prints is in the order RSD wrote it, nothing twice and
\* nothing that RSD did not write (no stale head of an empty queue); and a
\* character the queue took is printed, queued, on its way, or went with a
\* host that was killed.
InFlight == IF hpc = "print" THEN {got} ELSE {}
Elements(s) == {s[k] : k \in DOMAIN s}
OutputIsExact ==
    /\ \A j, k \in DOMAIN printed : j < k => printed[j] < printed[k]
    /\ accepted = Elements(printed) \cup Elements(queue) \cup InFlight \cup lost
    /\ Elements(queue) \cap (Elements(printed) \cup InFlight) = {}

\* Every character that the queue took is printed by the loader in the end,
\* unless a loader is killed with it in hand: there is always a later moment
\* when none is left behind (RSD writes MaxChars, so it falls silent).
LoaderPrintsAll ==
    (host = "loader") ~> (accepted \subseteq Elements(printed) \cup lost)
=============================================================================
