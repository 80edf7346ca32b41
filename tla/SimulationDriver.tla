--------------------------- MODULE SimulationDriver ---------------------------
(***************************************************************************)
(* The test bench of the Verilator simulation (TestMain.cpp) around the    *)
(* core, with the two files it writes: the pipeline log, read back by      *)
(* RSD_Parser as it grows, and the register file after each op (CSV) and   *)
(* at the end.  The main loop samples after the clock edge.  The debug     *)
(* register holds the cycle that just ended; the commit signals, the LEDs, *)
(* the retirement map and the active list are those of the cycle that      *)
(* begins.                                                                 *)
(***************************************************************************)
EXTENDS TracedCore

CONSTANTS PC_GOAL,        \* pc at which the simulation may end
          LED_NUM         \* values that the LEDs can show

ASSUME LedAssumption == PC_GOAL \in Nat /\ LED_NUM \in Nat \ {0}

VARIABLES
    ENABLE_PC_GOAL,         \* from the command line
    log,                    \* the parser, fed with every cycle
    csv,                    \* rows of the CSV file written in the last iteration
    numCommittedMicroOp,
    lastCommittedPC,
    regOut                  \* the final register file; <<>> while running

driverVars == <<ENABLE_PC_GOAL, log, csv, numCommittedMicroOp, lastCommittedPC, regOut>>

vars == <<coreVars, driverVars>>

Init ==
    /\ CoreInit
    /\ ENABLE_PC_GOAL \in BOOLEAN
    /\ log = ParserAfter(script.first * MAX_MICRO_OPS_PER_INSN, 0)
    /\ csv = <<>>
    /\ numCommittedMicroOp = 0
    /\ lastCommittedPC = 0
    /\ regOut = <<>>

----------------------------------------------------------------------------
\* What lies behind the end of the active list array: an entry that may
\* write any register.
Garbage == {[writeReg |-> FALSE]} \cup [writeReg : {TRUE}, reg : LReg]

\* Slot k of the array, in a state whose head is at headPtr.  The index is a
\* byte that is not reduced to the size of the array.
Entry(list, head, k, garbage) ==
    IF head + k <= ACTIVE_LIST_ENTRY_NUM
    THEN LET op == list[k].op
         IN  IF Dst[op] = NoReg THEN [writeReg |-> FALSE]
             ELSE [writeReg |-> TRUE, reg |-> Dst[op], phy |-> op]
    ELSE IF garbage.writeReg THEN [writeReg |-> TRUE, reg |-> garbage.reg, phy |-> 0]
    ELSE garbage

\* The register file with the first num ops of the active list retired.
GetCommittedRegisterValue(map, list, head, num, garbage) ==
    LET Apply(m, e) == IF e.writeReg THEN [m EXCEPT ![e.reg] = e.phy] ELSE m
    IN  FoldLeft(Apply, map, [k \in 1 .. num |-> Entry(list, head, k, garbage)])

\* Fault for mutation: every row shows the map that was sampled.
CsvRows_SampledMap(map, list, head, num, garbage) ==
    [i \in 1 .. num |-> [pc |-> list[i].op, regs |-> map]]

\* The rows of the CSV file for the ops that commit in the cycle that begins.
CsvRows(map, list, head, num, garbage) ==
    [i \in 1 .. num |->
        [pc |-> list[i].op,
         regs |-> GetCommittedRegisterValue(map, list, head, i - 1, garbage)]]

CountCommitted(d) == Cardinality({i \in DOMAIN d.cmReg : d.cmReg[i].commit})

\* Fault for mutation: the LEDs show the ops that have retired.
LedOut_Retired == LastOf(retired, 0) % LED_NUM

\* The LEDs: the low bits of the pc of the last op that has retired or that
\* commits in the cycle that begins.
LedOut == LastOf(OpsOf(al, commitNum), LastOf(retired, 0)) % LED_NUM

\* One rising clock edge: the core steps, then the driver samples it.
Sample(c) ==
    LET d == GetDebugRegister(DebugSignals(c))
    IN  /\ CoreClock(c)
        /\ log' = ParseCycle(log, DumpCycle(d))
        /\ \E g \in IF headPtr' + commitNum' > ACTIVE_LIST_ENTRY_NUM
                    THEN Garbage ELSE {[writeReg |-> FALSE]} :
               csv' = CsvRows(rrmt', al', headPtr', commitNum', g)
        /\ numCommittedMicroOp' = numCommittedMicroOp + CountCommitted(d)
        /\ lastCommittedPC' = IF ENABLE_PC_GOAL THEN LedOut' ELSE lastCommittedPC
        /\ UNCHANGED <<ENABLE_PC_GOAL, regOut>>

Clock ==
    /\ regOut = <<>>
    /\ ENABLE_PC_GOAL => lastCommittedPC # PC_GOAL % LED_NUM
    /\ \E fetch \in FetchChoices, ifMiss \in FlagFor(front["if"]),
          blocked \in FlagFor(front["rn"]),
          pickOne \in IF Cardinality(front["id"] \ picked) > 1 THEN BOOLEAN ELSE {FALSE},
          hold \in AtMostOne(InStage("MT")), fail \in AtMostOne(Failing) :
       \E reissue \in AtMostOne(InStage("replay")) :
       \E issue \in IF reissue = {} THEN AtMostOne(InStage("SC")) ELSE {{}} :
          Sample([fetch |-> fetch, ifMiss |-> ifMiss, blocked |-> blocked, pickOne |-> pickOne,
                  issue |-> issue, reissue |-> reissue, hold |-> hold, fail |-> fail])

(* The end of the loop, at the goal or after MAX_TEST_CYCLES, which may be *)
(* any number of cycles: the registers are dumped with the ops that commit *)
(* in the last cycle.                                                      *)
Finish ==
    /\ regOut = <<>>
    /\ \E g \in IF headPtr + commitNum > ACTIVE_LIST_ENTRY_NUM
                THEN Garbage ELSE {[writeReg |-> FALSE]} :
          regOut' = [pc |-> lastCommittedPC,
                     regs |-> GetCommittedRegisterValue(rrmt, al, headPtr, commitNum, g)]
    /\ UNCHANGED <<coreVars, ENABLE_PC_GOAL, log, csv, numCommittedMicroOp, lastCommittedPC>>

Next == Clock \/ Finish

Spec == Init /\ [][Next]_vars

----------------------------------------------------------------------------
Gids(ops) == {MAX_MICRO_OPS_PER_INSN * (script.first + n) : n \in ops}

Retired == Range(retired)

(* The stages of the core and the driver's records are of their types. *)
TypeOK ==
    /\ serial \in 1 .. MaxOp + 1
    /\ front \in [{"if", "pd", "id", "rn", "ds"} -> SUBSET (1 .. MaxOp)]
    /\ Len(al) <= ACTIVE_LIST_ENTRY_NUM
    /\ DOMAIN back \subseteq 1 .. MaxOp
    /\ commitNum \in 0 .. COMMIT_WIDTH
    /\ rrmt \in [LReg -> 0 .. MaxOp]
    /\ numCommittedMicroOp \in 0 .. MaxOp
    /\ Len(csv) <= COMMIT_WIDTH

(* What the parser needs of the core, and does not check: the ops since    *)
(* the last that retired span no more than a quarter of the serial ids.    *)
SpanFits == MaxSpan <= OP_SERIAL_NUM \div 4

(* Whatever the stalls, the flushes and the wraps of the serial ids, the   *)
(* parser tells of each op what became of it: an op is shown as retired    *)
(* just when it has retired, only ops on a wrong path are shown flushed,   *)
(* or left out, and all of them once a recovery is over; the parser never  *)
(* meets a line it has no op for, or an op after its end (Dumper.h         *)
(* DumpCycle, RSD_Parser.py OnRSD_Stage_).                                 *)
LogTellsTheTruth ==
    /\ ~log.failed /\ ~log.warned
    /\ log.retireEvents = Gids(Retired)
    /\ log.flushEvents \cup log.cancelled \subseteq Gids(dead)
    /\ phase = "commit" => log.flushEvents \cup log.cancelled = Gids(dead)

RegistersAfter(ops) == Retire([l \in LReg |-> 0], ops)

(* The commits of a cycle that run past the end of the active list array. *)
CommitsWrap == headPtr + commitNum > ACTIVE_LIST_ENTRY_NUM

(* The rows of the CSV file are the states of the register file along the  *)
(* retired ops, one at a time and in program order, although the map the   *)
(* driver reads is that of the cycle before (TestMain.cpp 278-292).        *)
CsvFollowsCommits ==
    ~CommitsWrap /\ regOut = <<>> =>
        \A i \in DOMAIN csv :
            LET before == retired \o [k \in 1 .. i - 1 |-> csv[k].pc]
            IN  /\ csv[i].pc \notin Range(before) \cup dead
                /\ csv[i].regs = RegistersAfter(before)

(* Wherever the simulation stops, the register dump is that of the ops     *)
(* that have retired or are retiring in the last cycle, and the pc it is   *)
(* labelled with has the low bits of the last of these ops, or is 0 when   *)
(* the goal is not looked for; the counts are of the ops that have retired *)
(* and agree with those of the log (TestMain.cpp 305-308, 331-368).        *)
ResultsAgree ==
    /\ numCommittedMicroOp = Len(retired)
    /\ numCommittedMicroOp = log.committed
    /\ regOut # <<>> =>
          LET dumped == retired \o OpsOf(al, commitNum)
          IN  /\ ~CommitsWrap => regOut.regs = RegistersAfter(dumped)
              /\ regOut.pc = IF ENABLE_PC_GOAL THEN LastOf(dumped, 0) % LED_NUM ELSE 0
=============================================================================
