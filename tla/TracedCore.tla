----------------------------- MODULE TracedCore -----------------------------
(***************************************************************************)
(* The core as its debug register shows it: one step is a clock cycle, in  *)
(* which every op moves through the stages of the log.  What decides a     *)
(* stall, an issue order, a cache miss or a failure is left open here (see *)
(* RenameRecovery and CommitDecision for those); how the controller, the   *)
(* stages and the flushes answer is not.  Ops are numbered in fetch order  *)
(* and the number stands for the pc, the value and the physical register   *)
(* of an op.                                                               *)
(***************************************************************************)
EXTENDS DebugLog, FiniteSets, FiniteSetsExt

CONSTANTS FETCH_WIDTH,            \* of every stage of the front end
          COMMIT_WIDTH,
          ACTIVE_LIST_ENTRY_NUM,
          LReg, NoReg,            \* logical registers; the destination of none
          Dst, PipeOf,            \* of each op
          MaxOp,                  \* bound: ops fetched
          MaxSpan,                \* bound: ops fetched since the last that retired
          Scripts                 \* serial number of the first op, branches

ASSUME CoreAssumption ==
    /\ NoReg \notin LReg
    /\ {FETCH_WIDTH, COMMIT_WIDTH, ACTIVE_LIST_ENTRY_NUM, MaxOp, MaxSpan} \subseteq Nat \ {0}
    /\ Dst \in [1 .. MaxOp -> LReg \cup {NoReg}]
    /\ PipeOf \in [1 .. MaxOp -> Range(Pipes)]
    /\ Scripts \subseteq [first : Nat, taken : 0 .. MaxOp, miss : 0 .. MaxOp]

VARIABLES
    script,     \* first: sid before op 1; taken: branch predicted taken;
                \* miss: branch whose target the decoder corrects
    serial,     \* next op
    front,      \* ops in the pipeline registers if, pd, id, rn and ds
    picked,     \* ops of the ID stage already sent on
    decFlush,   \* regFlush of the rename stage
    back,       \* stage of each op in the back end
    al,         \* active list, oldest first
    headPtr,
    phase, flushFrom,   \* recovery: first op on the wrong path
    rrmt,       \* retirement map
    commitNum,  \* ops the commit stage commits in this cycle
    retired, dead       \* history: ops retired, in order; ops flushed

coreVars == <<script, serial, front, picked, decFlush, back, al, headPtr, phase,
              flushFrom, rrmt, commitNum, retired, dead>>

Sid(n) == (script.first + n) % OP_SERIAL_NUM

\* The ops of a set in program order.
Ascending(S) ==
    [i \in 1 .. Cardinality(S) |-> CHOOSE n \in S : Cardinality({m \in S : m < n}) = i - 1]

CoreInit ==
    /\ script \in Scripts
    /\ serial = 1
    /\ front = [s \in {"if", "pd", "id", "rn", "ds"} |-> {}]
    /\ picked = {} /\ decFlush = FALSE
    /\ back = <<>> /\ al = <<>> /\ headPtr = 0
    /\ phase = "commit" /\ flushFrom = 0
    /\ rrmt = [l \in LReg |-> 0]
    /\ commitNum = 0
    /\ retired = <<>> /\ dead = {}

----------------------------------------------------------------------------
\* What a cycle is free to do: the fields of a choice c.

LastOf(s, old) == IF s = <<>> THEN old ELSE s[Len(s)]

\* The bounds of a run: ops, and how far they are ahead of what retired.
SerialLimit == Min({MaxOp + 1, LastOf(retired, 0) + MaxSpan})

FetchChoices == LET left == SerialLimit - serial
                IN  IF left <= 0 THEN {0} ELSE 1 .. Min({left, FETCH_WIDTH})

InStage(s) == {n \in DOMAIN back : back[n] = s}

AtMostOne(S) == {{}} \cup {{n} : n \in S}

FlagFor(S) == IF S = {} THEN {FALSE} ELSE BOOLEAN

\* Ops that may fail: in register write, or at the head of what commits.
Failing ==
    IF phase # "commit" THEN {}
    ELSE {[from |-> n + 1] : n \in InStage("RW")}
           \cup {[from |-> al[k].op] :
                    k \in {i \in {commitNum + 1} \cap DOMAIN al : al[i].done}}

----------------------------------------------------------------------------
\* Signals of the front end.

\* Later lanes of a fetch group behind a branch that is predicted taken.
FetchFlushed ==
    IF script.taken \in front["if"] THEN {n \in front["if"] : n > script.taken} ELSE {}

\* Later lanes of the decode stage behind a corrected branch.
InsnFlushed ==
    IF script.miss \in front["id"] THEN {n \in front["id"] : n > script.miss} ELSE {}

Picks(c) ==
    LET left == front["id"] \ picked
    IN  IF c.pickOne THEN {Min(left)} ELSE left

Complete(c) == front["id"] \ (picked \cup Picks(c)) = {}

Dead(entry) == phase # "commit" /\ entry.op >= flushFrom

DeadInList == Cardinality({i \in DOMAIN al : Dead(al[i])})

\* Fault for mutation: the room in the active list is not checked.
RnStageSendBubbleLower_NoCount(c) == front["rn"] # {} /\ (c.blocked \/ DeadInList > 0)

RnStageSendBubbleLower(c) ==
    /\ front["rn"] # {}
    /\ \/ c.blocked
       \/ Len(al) > ACTIVE_LIST_ENTRY_NUM - FETCH_WIDTH
       \/ DeadInList > 0

Ctrl(stall, clear) == [stall |-> stall, clear |-> clear]
Go     == Ctrl(FALSE, FALSE)
Flush  == Ctrl(FALSE, TRUE)
Stall  == Ctrl(TRUE, FALSE)
Bubble == Ctrl(TRUE, TRUE)

StallByDecodeStage(c) ==
    phase # "recover0" /\ ~RnStageSendBubbleLower(c) /\ ~decFlush /\ ~Complete(c)

Controller(c) ==
    LET Stages(np, i, pd, id, rn, ds) ==
            [np |-> np, if |-> i, pd |-> pd, id |-> id, rn |-> rn, ds |-> ds]
    IN  CASE phase = "recover0" -> Stages(Go, Flush, Flush, Flush, Flush, Flush)
          [] phase # "recover0" /\ RnStageSendBubbleLower(c) ->
                 Stages(Stall, Stall, Stall, Stall, Bubble, Go)
          [] phase # "recover0" /\ ~RnStageSendBubbleLower(c) /\ decFlush ->
                 Stages(Go, Flush, Flush, Flush, Go, Go)
          [] StallByDecodeStage(c) -> Stages(Stall, Stall, Stall, Stall, Go, Go)
          [] OTHER -> IF c.ifMiss THEN Stages(Bubble, Bubble, Go, Go, Go, Go)
                      ELSE IF c.fetch = 0 THEN Stages(Bubble, Go, Go, Go, Go, Go)
                      ELSE Stages(Go, Go, Go, Go, Go, Go)

NewOps(c) == IF Controller(c).np.stall THEN {} ELSE serial .. serial + c.fetch - 1

\* Ops of the back end that the recovery flushes in this cycle.
SelectiveFlush == IF phase = "recover0" THEN {n \in DOMAIN back : n >= flushFrom} ELSE {}

\* Entries taken back from the tail of the active list.
FlushNum == IF phase # "recover1" THEN 0
            ELSE IF DeadInList < COMMIT_WIDTH THEN DeadInList ELSE COMMIT_WIDTH

----------------------------------------------------------------------------
\* The debug signals of a cycle.

Lanes(S, flushed) ==
    LET s == Ascending(S)
    IN  [i \in DOMAIN s |-> [valid |-> TRUE, flush |-> s[i] \in flushed, sid |-> Sid(s[i])]]

PipeLanes(S) == [p \in Range(Pipes) |-> Lanes({n \in S : PipeOf[n] = p}, SelectiveFlush)]

\* The execution stages of a pipe; the second one lies behind the first.
ExLanes(p) ==
    LET Of(s, depth) == LET lanes == Lanes({n \in InStage(s) : PipeOf[n] = p}, SelectiveFlush)
                        IN  [i \in DOMAIN lanes |->
                                [valid |-> TRUE, flush |-> lanes[i].flush,
                                 sid |-> lanes[i].sid, depth |-> depth]]
    IN  Of("EX", 1) \o Of("EX2", 2)

IdLanes ==
    LET s == Ascending(front["id"])
    IN  [i \in DOMAIN s |-> [valid |-> s[i] \notin picked,
                             flush |-> s[i] \in InsnFlushed, sid |-> Sid(s[i])]]

CmLanes ==
    [i \in 1 .. commitNum |-> [commit |-> TRUE, flush |-> FALSE, sid |-> Sid(al[i].op)]]
      \o [i \in 1 .. FlushNum |->
             [commit |-> FALSE, flush |-> TRUE, sid |-> Sid(al[Len(al) + 1 - i].op)]]

DebugSignals(c) ==
    LET ctrl == Controller(c)
    IN  [npReg |-> Lanes(NewOps(c), {}),
         ifReg |-> Lanes(front["if"], FetchFlushed),
         pdReg |-> Lanes(front["pd"], {}),
         idReg |-> IdLanes,
         rnReg |-> Lanes(front["rn"], {}),
         dsReg |-> Lanes(front["ds"], {}),
         scheduler |-> Lanes(InStage("SC"), SelectiveFlush),
         isReg |-> PipeLanes(IF c.reissue = {} THEN InStage("IS") ELSE c.reissue),
         rrReg |-> PipeLanes(InStage("RR")),
         exReg |-> [p \in Range(Pipes) |-> ExLanes(p)],
         mtReg |-> Lanes(InStage("MT"), SelectiveFlush),
         maReg |-> Lanes(InStage("MA"), SelectiveFlush),
         rwReg |-> PipeLanes(InStage("RW")),
         cmReg |-> CmLanes,
         npStagePipeCtrl |-> ctrl.np, ifStagePipeCtrl |-> ctrl.if,
         pdStagePipeCtrl |-> ctrl.pd, idStagePipeCtrl |-> ctrl.id,
         rnStagePipeCtrl |-> ctrl.rn, dsStagePipeCtrl |-> ctrl.ds,
         backEndPipeCtrl |-> Go,
         stallByDecodeStage |-> StallByDecodeStage(c)]

----------------------------------------------------------------------------
\* The clock edge.

NextFront(c) ==
    LET ctrl == Controller(c)
        \* What a stage hands on: nothing when it stalls or is cleared.
        Out(s, ops) == IF ctrl[s].stall \/ ctrl[s].clear THEN {} ELSE ops
    IN  [if |-> IF ctrl.if.stall THEN front["if"] \ FetchFlushed ELSE NewOps(c),
         pd |-> IF ctrl.pd.stall THEN front["pd"] ELSE Out("if", front["if"] \ FetchFlushed),
         id |-> IF ctrl.id.stall THEN front["id"] ELSE Out("pd", front["pd"]),
         rn |-> IF ctrl.rn.stall THEN front["rn"]
                ELSE IF ctrl.id.clear THEN {} ELSE Picks(c) \ InsnFlushed,
         ds |-> Out("rn", front["rn"])]

NextPicked(c) ==
    CASE Controller(c).id.clear \/ (Complete(c) /\ ~Controller(c).id.stall) -> {}
      [] StallByDecodeStage(c) -> picked \cup Picks(c) \cup InsnFlushed
      [] OTHER -> picked

NextDecFlush(c) ==
    IF Controller(c).rn.stall THEN decFlush
    ELSE Complete(c) /\ script.miss \in front["id"] /\ ~Controller(c).id.clear

NextStage(n, c) ==
    CASE back[n] = "SC" -> IF n \in c.issue THEN "IS" ELSE "SC"
      [] back[n] = "IS" -> IF c.reissue = {} THEN "RR" ELSE "IS"
      [] back[n] = "RR" -> "EX"
      [] back[n] = "EX" /\ PipeOf[n] = "int" -> "RW"
      [] back[n] = "EX" /\ PipeOf[n] = "mem" -> "MT"
      [] back[n] = "EX" /\ PipeOf[n] \in {"complex", "fp"} -> "EX2"
      [] back[n] = "MT" -> IF n \in c.hold THEN "replay" ELSE "MA"
      [] back[n] \in {"MA", "EX2"} -> "RW"
      [] back[n] = "replay" -> IF n \in c.reissue THEN "RR" ELSE "replay"

NextBack(c) ==
    LET staying == DOMAIN back \ (SelectiveFlush \cup InStage("RW"))
        new == IF Controller(c).ds.clear THEN {} ELSE front["ds"]
    IN  [n \in staying \cup new |-> IF n \in new THEN "SC" ELSE NextStage(n, c)]

NextActiveList(c) ==
    LET kept == SubSeq(al, commitNum + 1, Len(al) - FlushNum)
        new  == Ascending(NextFront(c).ds)
    IN  [i \in DOMAIN kept |-> [kept[i] EXCEPT !.done = @ \/ kept[i].op \in InStage("RW")]]
          \o [i \in DOMAIN new |-> [op |-> new[i], done |-> FALSE]]

\* Of the ops that write the same register, the last one counts.
Retire(map, ops) ==
    [l \in LReg |-> LET writers == {k \in DOMAIN ops : Dst[ops[k]] = l}
                    IN  IF writers = {} THEN map[l] ELSE ops[Max(writers)]]

OpsOf(list, num) == [i \in 1 .. num |-> list[i].op]

NextPhase(c) ==
    CASE phase = "commit" -> IF c.fail = {} THEN "commit" ELSE "recover0"
      [] phase = "recover0" -> "recover1"
      [] phase = "recover1" -> IF DeadInList = 0 THEN "commit" ELSE "recover1"

\* How many ops the commit stage may commit: any number of completed ones.
CommitChoices(list, ph) ==
    {k \in 0 .. (IF ph = "commit" THEN COMMIT_WIDTH ELSE 0) :
        k <= Len(list) /\ \A i \in 1 .. k : list[i].done}

NewlyDead(c) ==
    LET ctrl == Controller(c)
        Cleared(s, ops) == IF ctrl[s].clear /\ ~ctrl[s].stall THEN ops ELSE {}
    IN  Cleared("if", front["if"]) \cup Cleared("pd", front["pd"])
          \cup Cleared("id", front["id"] \ picked)
          \cup Cleared("rn", front["rn"]) \cup Cleared("ds", front["ds"])
          \cup SelectiveFlush \cup FetchFlushed
          \cup (IF ctrl.id.stall /\ ~StallByDecodeStage(c) THEN {} ELSE InsnFlushed)
          \cup (IF phase = "recover0" THEN {al[i].op : i \in {j \in DOMAIN al : Dead(al[j])}} ELSE {})

CoreClock(c) ==
    /\ serial' = serial + Cardinality(NewOps(c))
    /\ front' = NextFront(c)
    /\ picked' = NextPicked(c)
    /\ decFlush' = NextDecFlush(c)
    /\ back' = NextBack(c)
    /\ al' = NextActiveList(c)
    /\ headPtr' = (headPtr + commitNum) % ACTIVE_LIST_ENTRY_NUM
    /\ phase' = NextPhase(c)
    /\ flushFrom' = IF phase = "commit" /\ c.fail # {} THEN Min({f.from : f \in c.fail})
                    ELSE IF NextPhase(c) = "commit" THEN 0 ELSE flushFrom
    /\ rrmt' = Retire(rrmt, OpsOf(al, commitNum))
    /\ commitNum' \in CommitChoices(al', phase')
    /\ retired' = retired \o OpsOf(al, commitNum)
    /\ dead' = dead \cup NewlyDead(c)
    /\ UNCHANGED script
=============================================================================
