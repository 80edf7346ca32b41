------------------------------ MODULE DebugLog ------------------------------
(***************************************************************************)
(* The pipeline log of a simulation: what KanataDumper (Dumper.h) writes   *)
(* of one cycle, and what RSD_Parser.py makes of the lines.                *)
(*                                                                         *)
(* A debug register is a record with one sequence of lanes per stage (for  *)
(* the back end one per pipe) and the stall and clear signals.  A lane is  *)
(* a record with valid, flush and sid.  The decoder makes one micro-op of  *)
(* an instruction (MICRO_OP_MAX_NUM = 1, Decoder/MicroOp.sv:17), so mid is *)
(* 0 everywhere.  The comments of the lines are left out.                  *)
(***************************************************************************)
EXTENDS Integers, Sequences, SequencesExt

CONSTANTS OP_SERIAL_NUM,             \* 2^OP_SERIAL_WIDTH serial ids
          MAX_MICRO_OPS_PER_INSN,
          GC_PERIOD                  \* retired gids at which old ops are dropped (64)

ASSUME LogAssumption ==
    /\ {OP_SERIAL_NUM, MAX_MICRO_OPS_PER_INSN, GC_PERIOD} \subseteq Nat \ {0}
    /\ OP_SERIAL_NUM % 4 = 0

\* Stages of the log, by number.
KS_NP == 0
KS_IF == 1
KS_PD == 2
KS_ID == 3
KS_RN == 4
KS_DS == 5
KS_SC == 6
KS_IS == 7
KS_RR == 8
KS_EX == 9
KS_MA == 10
KS_MT == 11
KS_RW == 12
KS_WC == 13
KS_CM == 14

Pipes == <<"int", "complex", "mem", "fp">>

EachLane(lanes, LinesOf(_)) ==
    FlattenSeq([i \in DOMAIN lanes |-> LinesOf(lanes[i])])

----------------------------------------------------------------------------
\* The helper that samples the debug register of the core.

(* The accessors of the complex and floating point pipes sample only the   *)
(* first execution stage; an op in a later one has a lane that is never    *)
(* valid.  The loop over opId does not step its index.                     *)
FirstStageOnly(lanes) ==
    [i \in DOMAIN lanes |->
        [valid |-> lanes[i].valid /\ lanes[i].depth = 1,
         flush |-> lanes[i].flush,
         sid   |-> lanes[1].sid,
         depth |-> lanes[i].depth]]

GetDebugRegister(r) ==
    [r EXCEPT !.exReg["complex"] = FirstStageOnly(@),
              !.exReg["fp"]      = FirstStageOnly(@)]

----------------------------------------------------------------------------
\* KanataDumper: the lines of a cycle.

DumpStage(stage, valid, stall, clear, sid) ==
    IF valid
    THEN <<[cmd |-> "S", stage |-> stage, stall |-> stall, clear |-> clear,
            sid |-> sid, mid |-> 0]>>
    ELSE <<>>

DumpInsnCode(sid) == <<[cmd |-> "L", sid |-> sid, mid |-> 0]>>

NextPCLines(d) ==
    EachLane(d.npReg, LAMBDA r :
        DumpStage(KS_NP, r.valid, d.npStagePipeCtrl.stall, d.npStagePipeCtrl.clear, r.sid))

FetchLines(d) ==
    EachLane(d.ifReg, LAMBDA r :
        DumpStage(KS_IF, r.valid, d.ifStagePipeCtrl.stall /\ ~r.flush,
                  d.ifStagePipeCtrl.clear \/ r.flush, r.sid))

PreDecodeLines(d) ==
    EachLane(d.pdReg, LAMBDA r :
        DumpStage(KS_PD, r.valid, d.pdStagePipeCtrl.stall, d.pdStagePipeCtrl.clear, r.sid))

DecodeLines(d) ==
    EachLane(d.idReg, LAMBDA r :
        DumpStage(KS_ID, r.valid, d.idStagePipeCtrl.stall /\ ~d.stallByDecodeStage,
                  d.idStagePipeCtrl.clear \/ r.flush, r.sid))

LabelLines(d) ==
    EachLane(d.idReg, LAMBDA r : IF r.valid THEN DumpInsnCode(r.sid) ELSE <<>>)

RenameLines(d) ==
    EachLane(d.rnReg, LAMBDA r :
        DumpStage(KS_RN, r.valid, d.rnStagePipeCtrl.stall, d.rnStagePipeCtrl.clear, r.sid))

DispatchLines(d) ==
    EachLane(d.dsReg, LAMBDA r :
        DumpStage(KS_DS, r.valid, d.dsStagePipeCtrl.stall, d.dsStagePipeCtrl.clear, r.sid))

\* The lanes of a stage of the back end: its stall is that of the whole back end.
BackEndLines(d, stage, lanes) ==
    EachLane(lanes, LAMBDA r :
        DumpStage(stage, r.valid, d.backEndPipeCtrl.stall, r.flush, r.sid))

PipeLines(d, stage, regs) ==
    EachLane(Pipes, LAMBDA p : BackEndLines(d, stage, regs[p]))

ScheduleLines(d)     == BackEndLines(d, KS_SC, d.scheduler)
IssueLines(d)        == PipeLines(d, KS_IS, d.isReg)
RegisterReadLines(d) == PipeLines(d, KS_RR, d.rrReg)
ExecutionLines(d)    == PipeLines(d, KS_EX, d.exReg)
TagAccessLines(d)    == BackEndLines(d, KS_MT, d.mtReg)
MemoryAccessLines(d) == BackEndLines(d, KS_MA, d.maReg)
RegisterWriteLines(d) == PipeLines(d, KS_RW, d.rwReg)

CommitLines(d) ==
    EachLane(d.cmReg, LAMBDA r :
        IF r.flush THEN DumpStage(KS_WC, TRUE, FALSE, TRUE, r.sid)
        ELSE DumpStage(KS_CM, r.commit, FALSE, FALSE, r.sid))

DumpCycle(d) ==
    NextPCLines(d) \o FetchLines(d) \o PreDecodeLines(d) \o DecodeLines(d)
      \o LabelLines(d) \o RenameLines(d) \o DispatchLines(d) \o ScheduleLines(d)
      \o IssueLines(d) \o RegisterReadLines(d) \o ExecutionLines(d)
      \o TagAccessLines(d) \o MemoryAccessLines(d) \o RegisterWriteLines(d)
      \o CommitLines(d)

----------------------------------------------------------------------------
(* RSD_Parser.  Its state is a record: ops maps a gid to the stage and the *)
(* stall of its last line; flushed and maxRetired are the source's sets;   *)
(* retireEvents, flushEvents and cancelled say what the parser told the    *)
(* generator of each gid (cancelled: nothing at all).  warned stands for   *)
(* the messages about an op dumped after its end, failed for a KeyError.   *)
(* The events are handed over some cycles late in the source; the ops they *)
(* delete are deleted at once here.                                        *)

GID_WRAP_AROUND == OP_SERIAL_NUM * MAX_MICRO_OPS_PER_INSN

\* Fault for mutation: the serial ids are taken as they are within a turn.
CreateGID_NoWrap(p, sid, mid) ==
    p.maxRetired - (p.maxRetired % GID_WRAP_AROUND) + sid * MAX_MICRO_OPS_PER_INSN + mid

CreateGID(p, sid, mid) ==
    LET g == mid + sid * MAX_MICRO_OPS_PER_INSN
        M == GID_WRAP_AROUND \div 4
        r == p.maxRetired % GID_WRAP_AROUND
        n == p.maxRetired - r
    IN  CASE r > M * 3 /\ g < M -> n + GID_WRAP_AROUND + g
          [] g > M * 3 /\ r < M -> n - GID_WRAP_AROUND + g
          [] OTHER -> n + g

Without(ops, gids) == [g \in DOMAIN ops \ gids |-> ops[g]]

With(ops, gid, op) == [g \in DOMAIN ops \cup {gid} |-> IF g = gid THEN op ELSE ops[g]]

RetireOp(p, gid) ==
    LET newest == IF gid > p.maxRetired THEN gid ELSE p.maxRetired
    IN  [p EXCEPT !.maxRetired = newest,
                  !.committed = @ + 1,
                  !.flushed = {g \in @ : g >= newest},
                  !.retireEvents = @ \cup {gid},
                  !.ops = Without(@, {gid} \cup IF gid % GC_PERIOD = 0
                                               THEN {g \in DOMAIN @ : g < gid} ELSE {})]

FlushOp(p, gid, op) ==
    CASE gid \notin DOMAIN p.ops -> [p EXCEPT !.failed = TRUE]
      [] gid \in DOMAIN p.ops /\ p.ops[gid].stage = KS_NP ->
             [p EXCEPT !.ops = Without(@, {gid}), !.cancelled = @ \cup {gid}]
      [] OTHER -> [p EXCEPT !.flushed = @ \cup {gid},
                            !.flushEvents = @ \cup {gid},
                            !.ops = With(@, gid, op)]

OnRSD_Stage(p, line) ==
    LET gid == CreateGID(p, line.sid, line.mid)
        flush == line.clear /\ ~line.stall
        op == [stage |-> line.stage, stall |-> line.stall]
        q == [p EXCEPT !.warned = @ \/ gid \in p.flushed \/ gid < p.maxRetired]
        moved == gid \in DOMAIN p.ops /\ p.ops[gid].stage # line.stage
    IN  CASE flush /\ gid \in p.flushed -> p
          [] flush /\ gid \notin p.flushed -> FlushOp(q, gid, op)
          [] ~flush /\ moved /\ line.stage = KS_CM -> RetireOp(q, gid)
          [] OTHER -> [q EXCEPT !.ops = With(@, gid, op)]

OnRSD_Label(p, line) ==
    [p EXCEPT !.failed = @ \/ CreateGID(p, line.sid, line.mid) \notin DOMAIN p.ops]

ProcessLine(p, line) == IF line.cmd = "S" THEN OnRSD_Stage(p, line) ELSE OnRSD_Label(p, line)

\* The parser after the lines of one cycle.
ParseCycle(p, lines) == FoldLeft(ProcessLine, p, lines)

\* The parser of a log in which every op up to gid has retired.
ParserAfter(gid, count) ==
    [ops |-> <<>>, flushed |-> {}, maxRetired |-> gid, committed |-> count,
     retireEvents |-> {}, flushEvents |-> {}, cancelled |-> {},
     warned |-> FALSE, failed |-> FALSE]
=============================================================================
