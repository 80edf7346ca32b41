----------------------------- MODULE AsmLowering -----------------------------
(***************************************************************************)
(* What assemble_line of m65f32asm.c emits for an instruction: the         *)
(* lowering of a 65xx mnemonic and addressing mode to fixed-width words.   *)
(*                                                                         *)
(* An instruction is [mn, args]: the upper-case mnemonic and its operands. *)
(* Lower(env, mn, args) is the set of results described in AsmOperands:    *)
(* empty when the line ends the program with an error, otherwise the one   *)
(* record [words, fix] of the words emitted and the fixup recorded for the *)
(* first of them (NoFix for none).                                         *)
(***************************************************************************)
EXTENDS AsmOperands

R3(op, rd, rs1, rs2, f) == enc_r3(op, rd, rs1, rs2, 0, f)
Shift(kind, amount) == kind * 2^10 + amount

\* S then T, if neither is an error.
Then(S, T) == {s \o t : s \in S, t \in T}

\* A constant: one ADDI, or LUI and the low 12 bits with ORI.
LoadSmall(rd, v) == << enc_i13f(Imm(OP.ADD), rd, REG.ZERO, v, 0) >>
LoadWide(rd, v) ==
    << enc_u20(OP.LUI, rd, v \div 2^12) >>
    \o IF v % 2^12 = 0 THEN << >>
       ELSE << enc_i13f(Imm(OP.OR), rd, rd, v % 2^12, 0) >>

\* Fault for mutation: one value too many is taken for a small one.
emit_load_const_OffByOne(rd, v) ==
    IF v \in -4096..4096 THEN LoadSmall(rd, v) ELSE LoadWide(rd, v)

emit_load_const(rd, v) ==
    IF v \in -4096..4095 THEN LoadSmall(rd, v) ELSE LoadWide(rd, v)

\* Direct page addresses 0, 4, .. 252 are the registers R0 .. R63.
IsWindow(v) == v \in 0..252 /\ v % 4 = 0
dp_to_reg(v) == v \div 4

Index(mode) == IF mode \in {"DPX", "ABSX", "INDX"} THEN REG.X ELSE REG.Y
Near(v) == v \in -8192..8191
AddT(a, b) == R3(OP.ADD, REG.T, a, b, 0)

\* A load or store of data through an addressing mode, with T as scratch.
emit_mem_access(ls, data, mode, v) ==
    LET m(base, off) == << enc_m14(ls, data, base, off) >>
        pointer(base, off) == << enc_m14(OP.LD, REG.T, base, off) >>
        x == Index(mode)
    IN CASE mode = "DP" /\ IsWindow(v) ->
              { << IF ls = OP.LD THEN R3(OP.XFER, data, dp_to_reg(v), 0, 0)
                                 ELSE R3(OP.XFER, dp_to_reg(v), data, 0, 0) >> }
         [] mode = "DP" -> { m(REG.D, v) }
         [] mode \in {"DPX", "DPY"} -> { << AddT(REG.D, x) >> \o m(REG.T, v) }
         [] mode = "ABS" /\ Near(v) -> { m(REG.B, v) }
         [] mode = "ABS" -> { emit_load_const(REG.T, v)
                              \o << AddT(REG.B, REG.T) >> \o m(REG.T, 0) }
         [] mode \in {"ABSX", "ABSY"} /\ Near(v) ->
              { << AddT(REG.B, x) >> \o m(REG.T, v) }
         [] mode \in {"ABSX", "ABSY"} ->
              { << AddT(REG.B, x) >> \o emit_load_const(REG.T, v)
                \o << AddT(REG.T, x), AddT(REG.B, REG.T) >> \o m(REG.T, 0) }
         [] mode = "IND" /\ IsWindow(v) -> { m(dp_to_reg(v), 0) }
         [] mode = "IND" -> { pointer(REG.D, v) \o m(REG.T, 0) }
         [] mode \in {"INDX", "INDY"} /\ IsWindow(v) ->
              { << AddT(dp_to_reg(v), x) >> \o m(REG.T, 0) }
         [] mode = "INDX" -> { << AddT(REG.D, REG.X) >> \o pointer(REG.T, v)
                               \o m(REG.T, 0) }
         [] mode = "INDY" -> { pointer(REG.D, v) \o << AddT(REG.T, REG.Y) >>
                               \o m(REG.T, 0) }
         [] OTHER -> {}

\* dst := src OP operand, setting the flags whatever the mnemonic's prefix.
emit_alu_mem(op, dst, src, o) ==
    CASE o.mode = "IMM" /\ o.v \in -4096..4095 ->
           { << enc_i13f(Imm(op), dst, src, o.v, 1) >> }
      [] o.mode = "IMM" -> { emit_load_const(REG.T, o.v)
                             \o << R3(op, dst, src, REG.T, 1) >> }
      [] o.mode = "DP" /\ IsWindow(o.v) ->
           { << R3(op, dst, src, dp_to_reg(o.v), 1) >> }
      [] OTHER -> Then(emit_mem_access(OP.LD, REG.T, o.mode, o.v),
                       { << R3(op, dst, src, REG.T, 1) >> })

\* Read-modify-write: the address is computed again for the store, in T,
\* which by then holds the value to store.
rmw(o, modify) ==
    Then(emit_mem_access(OP.LD, REG.T, o.mode, o.v),
         Then({modify}, emit_mem_access(OP.ST, REG.T, o.mode, o.v)))

\* op rd, rd, #imm on a window register, else the same on T around memory.
UnaryMem(o, op, imm) ==
    IF o.mode = "DP" /\ IsWindow(o.v)
    THEN { << enc_i13f(op, dp_to_reg(o.v), dp_to_reg(o.v), imm, 1) >> }
    ELSE rmw(o, << enc_i13f(op, REG.T, REG.T, imm, 1) >>)

EMIT_PUSH(r) == << enc_i13f(Imm(OP.SUB), REG.SP, REG.SP, 4, 0),
                   enc_m14(OP.ST, r, REG.SP, 0) >>
EMIT_PULL(r) == << enc_m14(OP.LD, r, REG.SP, 0),
                   enc_i13f(Imm(OP.ADD), REG.SP, REG.SP, 4, 0) >>

-----------------------------------------------------------------------------
(* Operands by position; text between commas, as the 3-operand forms and   *)
(* the comma count read it: R1,X is two of them.                           *)

Arg(args, k) == IF k <= Len(args) THEN args[k] ELSE NoArg

Fields(args) ==
    FoldLeft(LAMBDA acc, o :
        acc \o IF o.syn \in {"text", "num", "numhi", "b+"} /\ o.idx # ""
               THEN << [o EXCEPT !.idx = ""], Operand("text", Name(o.idx), "") >>
               ELSE << o >>, << >>, args)

comma_count(args) ==
    Len(Fields(args)) - 1
    + Cardinality({k \in 1..Len(args) : args[k].syn \in {"paren", "bracket"}
                                        /\ args[k].idx # ""})
    + Cardinality({k \in 1..Len(args) : args[k].idx = "inSY"})

ThreeRegs(args, W(_, _, _)) ==
    LET g(k) == parse_register(Arg(Fields(args), k))
    IN { << W(a, b, c) >> : a \in g(1), b \in g(2), c \in g(3) }

TwoRegs(args, W(_, _)) ==
    LET g(k) == parse_register(Arg(Fields(args), k))
    IN { W(a, b) : a \in g(1), b \in g(2) }

OneReg(args, W(_)) == { W(r) : r \in parse_register(Arg(args, 1)) }

\* reject_flag_operand: a field F after the operands.
FlagOperand(args, k) ==
    /\ Arg(Fields(args), k).syn = "text"
    /\ Arg(Fields(args), k).e[1][2].sym = "F"

\* The first operand as an addressed one.
First(env, args) == parse_operand(env, Arg(args, 1))

Value(env, args, k) == parse_expr(env, Arg(args, k).e)

-----------------------------------------------------------------------------
(* The groups of mnemonics, in the order in which assemble_line tries them.*)

\* The forms of a row are tried before the next row: XOR is the third form
\* of OR before it is the first of its own row.
AluRow(m, ambig) == [ mn |-> << m, m \o "I", "X" \o m, "X" \o m \o "I" >>,
                      op |-> OP[m], ambig |-> ambig ]
alu_tbl == << AluRow("ADD", FALSE), AluRow("SUB", FALSE), AluRow("AND", TRUE),
              AluRow("OR", TRUE), AluRow("XOR", TRUE), AluRow("SLT", FALSE),
              AluRow("SLTU", FALSE), AluRow("CMP", TRUE) >>
AluNames == UNION {ToSet(alu_tbl[i].mn) : i \in DOMAIN alu_tbl}
AluMatch(mn) == SelectSeq(alu_tbl, LAMBDA row : mn \in ToSet(row.mn))[1]

\* CMP is the only form that compares with a destination: two operands
\* separated by a comma are registers, or a register and an immediate.
LowerCmp(env, args) ==
    LET rhs == Arg(Fields(args), 2)
        lhs == parse_register(Arg(Fields(args), 1))
    IN CASE comma_count(args) >= 2 -> {}
         [] comma_count(args) = 1 /\ rhs.syn = "imm" ->
              { << enc_i13f(Imm(OP.CMP), REG.ZERO, l, parse_expr(env, rhs.e), 1) >>
                : l \in lhs }
         [] comma_count(args) = 1 ->
              { << R3(OP.CMP, REG.ZERO, l, r, 1) >>
                : l \in lhs, r \in parse_register(rhs) }
         [] OTHER -> emit_alu_mem(OP.CMP, REG.ZERO, REG.A, First(env, args))

LowerAlu(env, mn, args, row) ==
    LET form == CHOOSE k \in 1..4 : row.mn[k] = mn
        f == IF form <= 2 THEN 1 ELSE 0
    IN CASE mn = "CMP" -> LowerCmp(env, args)
         [] form = 1 /\ row.ambig /\ ( \/ comma_count(args) < 2
                                       \/ ~IS_3OP_START(Arg(args, 1)) ) ->
              emit_alu_mem(row.op, REG.A, REG.A, First(env, args))
         [] form \in {1, 3} ->
              ThreeRegs(args, LAMBDA rd, rs1, rs2 : R3(row.op, rd, rs1, rs2, f))
         [] mn = "CMPI" \/ Len(args) < 3 -> {}
         [] OTHER -> TwoRegs(args, LAMBDA rd, rs1 :
                        << enc_i13f(Imm(row.op), rd, rs1, Value(env, args, 3), f) >>)

ShiftKind == [ SHL |-> SH.SHL, SHR |-> SH.SHR, SAR |-> SH.SAR, ROL |-> SH.ROL,
               ROR |-> SH.ROR, LSL |-> SH.SHL, LSR |-> SH.SHR, ASR |-> SH.SAR ]

\* A first operand A selects the shift of the accumulator by 1, whatever
\* follows it.
LowerShift(env, mn, args) ==
    LET k == ShiftKind[mn]
        first == Arg(args, 1)
    IN CASE args = << >> \/ (first.syn = "text" /\ first.e[1][2].sym = "A") ->
              { << enc_i13f(OP.SHIFT_I, REG.A, REG.A, Shift(k, 1), 1) >> }
         [] comma_count(args) >= 2 /\ FlagOperand(args, 4) -> {}
         [] comma_count(args) >= 2 /\ Arg(args, 3).syn \in {"imm", "num"} ->
              TwoRegs(args, LAMBDA rd, rs1 :
                  << enc_i13f(OP.SHIFT_I, rd, rs1,
                              Shift(k, Value(env, args, 3) % 32), 1) >>)
         [] comma_count(args) >= 2 ->
              ThreeRegs(args, LAMBDA rd, rs1, rs2 :
                            enc_r3(OP.SHIFT_R, rd, rs1, rs2, k, 1))
         [] OTHER -> UnaryMem(parse_operand(env, first), OP.SHIFT_I, Shift(k, 1))

\* LD Rt, [base + off], or LD Rt, <addressing mode>; ST likewise.
LowerLoadStore(env, ls, args) ==
    LET o == Arg(args, 2)
        base == parse_register(Operand("text", SubSeq(o.e, 1, 1), ""))
    IN UNION { IF o.syn = "bracket"
               THEN { << enc_m14(ls, rt, b, parse_expr(env, Tail(o.e))) >> : b \in base }
               ELSE LET p == parse_operand(env, o)
                    IN emit_mem_access(ls, rt, p.mode, p.v)
               : rt \in parse_register(Arg(args, 1)) }

-----------------------------------------------------------------------------
(* Branches and jumps.  A label defined already is encoded at once; one    *)
(* that is not is recorded in a fixup and a zero word holds its place.     *)

NoFix == [type |-> "none"]
Result(words, fix) == [words |-> words, fix |-> fix]
Resolved(w) == { Result(<< w >>, NoFix) }
Forward(fix) == { Result(<< 0 >>, fix) }

emit_branch(env, cond, link, p) ==
    LET disp == Sub32(p.v, Add32(env.pc, 4))
        word == enc_b21(cond, link, disp \div 4)
    IN CASE p.label = "" -> Resolved(word)
         [] p.label \notin DOMAIN env.labels ->
              Forward([type |-> "B21", label |-> p.label, cond |-> cond, link |-> link])
         [] disp % 4 = 0 -> Resolved(word)
         [] OTHER -> {}

JumpOp == [ JMP |-> OP.JMP_ABS, JML |-> OP.JMP_ABS,
            JSR |-> OP.JSR_ABS, JSL |-> OP.JSR_ABS ]

\* JSL takes any addressing mode for an absolute address; JMP and JML also
\* go through a pointer.
LowerJump(env, mn, p) ==
    LET op == JumpOp[mn]
    IN CASE p.label # "" /\ p.label \notin DOMAIN env.labels ->
              Forward([type |-> "J26", label |-> p.label, opcode |-> op])
         [] p.label # "" \/ p.mode \in {"LABEL", "ABS"} \/ mn = "JSL" ->
              Resolved(enc_j26(op, p.v \div 4))
         [] p.mode = "IND" /\ mn \in {"JMP", "JML"} ->
              { Result(s, NoFix) : s \in
                  Then(emit_mem_access(OP.LD, REG.T, "DP", p.v),
                       { << enc_jr(OP.JMP_REG, 0, REG.T) >> }) }
         [] OTHER -> {}

-----------------------------------------------------------------------------
(* Traditional instructions with an addressed operand.                     *)

LoadReg == [ LDA |-> REG.A, LDX |-> REG.X, LDY |-> REG.Y ]
StoreReg == [ STA |-> REG.A, STX |-> REG.X, STY |-> REG.Y, STZ |-> REG.ZERO ]

\* <<operation, destination, left operand>>
AccOp == [ ADC |-> << OP.ADD, REG.A, REG.A >>, SBC |-> << OP.SUB, REG.A, REG.A >>,
           ORA |-> << OP.OR, REG.A, REG.A >>,  EOR |-> << OP.XOR, REG.A, REG.A >>,
           CPX |-> << OP.CMP, REG.ZERO, REG.X >>,
           CPY |-> << OP.CMP, REG.ZERO, REG.Y >> ]

LowerBit(p) ==
    CASE p.mode = "IMM" -> { << enc_i13f(Imm(OP.AND), REG.ZERO, REG.A, p.v, 1) >> }
      [] p.mode = "DP" /\ IsWindow(p.v) ->
           { << R3(OP.AND, REG.ZERO, REG.A, dp_to_reg(p.v), 1) >> }
      [] OTHER -> Then(emit_mem_access(OP.LD, REG.T, p.mode, p.v),
                       { << R3(OP.AND, REG.ZERO, REG.A, REG.T, 1) >> })

LowerLea(p) ==
    CASE p.mode = "DP" -> { << enc_i13f(Imm(OP.ADD), REG.A, REG.D, p.v, 0) >> }
      [] p.mode = "DPX" -> { << enc_i13f(Imm(OP.ADD), REG.A, REG.D, p.v, 0),
                                R3(OP.ADD, REG.A, REG.A, REG.X, 0) >> }
      [] p.mode = "ABS" -> { emit_load_const(REG.A, p.v)
                             \o << R3(OP.ADD, REG.A, REG.B, REG.A, 0) >> }
      [] OTHER -> {}

TestBits == R3(OP.AND, REG.ZERO, REG.A, REG.T, 1)

\* TRB clears the bits through R1.
ModifyBits == [
    TSB |-> << TestBits, R3(OP.OR, REG.T, REG.T, REG.A, 0) >>,
    TRB |-> << TestBits, R3(OP.AND, REG.ZERO, REG.T, REG.A, 0),
               R3(OP.AND, 1, REG.T, REG.A, 0), R3(OP.XOR, REG.T, REG.T, 1, 0) >> ]

Step == [ INC |-> Imm(OP.ADD), DEC |-> Imm(OP.SUB) ]

\* SVBR, SB and SD take an immediate only.
SetReg == [ SVBR |-> REG.VBR, SB |-> REG.B, SD |-> REG.D ]

\* The pushes of an effective address go through T.
LowerPushAddress(env, mn, args, p) ==
    LET T == REG.T
    IN CASE mn \in {"PEA", "PER"} /\ args # << >> ->
              { emit_load_const(T, Value(env, args, 1)) \o EMIT_PUSH(T) }
         [] mn = "PEI" -> Then(emit_mem_access(OP.LD, T, p.mode, p.v), { EMIT_PUSH(T) })
         [] OTHER -> {}

LowerAddressed(env, mn, args, p) ==
    CASE mn \in DOMAIN LoadReg /\ p.mode = "IMM" ->
           { emit_load_const(LoadReg[mn], p.v) }
      [] mn \in DOMAIN LoadReg -> emit_mem_access(OP.LD, LoadReg[mn], p.mode, p.v)
      [] mn \in DOMAIN StoreReg -> emit_mem_access(OP.ST, StoreReg[mn], p.mode, p.v)
      [] mn \in DOMAIN AccOp ->
           emit_alu_mem(AccOp[mn][1], AccOp[mn][2], AccOp[mn][3], p)
      [] mn = "BIT" -> LowerBit(p)
      [] mn \in DOMAIN Step /\ args = << >> ->
           { << enc_i13f(Step[mn], REG.A, REG.A, 1, 1) >> }
      [] mn \in DOMAIN Step -> UnaryMem(p, Step[mn], 1)
      [] mn = "ASL" /\ p.mode \in {"IMP", "ACC"} ->
           { << enc_i13f(OP.SHIFT_I, REG.A, REG.A, Shift(SH.SHL, 1), 1) >> }
      [] mn = "ASL" -> UnaryMem(p, OP.SHIFT_I, Shift(SH.SHL, 1))
      [] mn = "LEA" -> LowerLea(p)
      [] mn \in DOMAIN ModifyBits -> rmw(p, ModifyBits[mn])
      [] mn \in DOMAIN SetReg /\ p.mode = "IMM" -> { emit_load_const(SetReg[mn], p.v) }
      [] OTHER -> LowerPushAddress(env, mn, args, p)

AddressedNames ==
    DOMAIN LoadReg \cup DOMAIN StoreReg \cup DOMAIN AccOp \cup DOMAIN Step
    \cup DOMAIN ModifyBits \cup DOMAIN SetReg
    \cup {"BIT", "ASL", "LEA", "PEA", "PER", "PEI"}

-----------------------------------------------------------------------------
(* Instructions without an addressed operand.                              *)

Transfer == [ TAX |-> << "X", "A" >>, TXA |-> << "A", "X" >>, TAY |-> << "Y", "A" >>,
              TYA |-> << "A", "Y" >>, TSX |-> << "X", "SP" >>, TXS |-> << "SP", "X" >>,
              TAB |-> << "B", "A" >>, TBA |-> << "A", "B" >>, TCD |-> << "D", "A" >>,
              TDC |-> << "A", "D" >>, TTA |-> << "A", "T" >>, TAT |-> << "T", "A" >>,
              TXY |-> << "Y", "X" >>, TYX |-> << "X", "Y" >>, TCS |-> << "SP", "A" >>,
              TSC |-> << "A", "SP" >> ]

Count == [ INA |-> << OP.ADD, REG.A >>, DEA |-> << OP.SUB, REG.A >>,
           INX |-> << OP.ADD, REG.X >>, DEX |-> << OP.SUB, REG.X >>,
           INY |-> << OP.ADD, REG.Y >>, DEY |-> << OP.SUB, REG.Y >> ]

\* PHP pushes zero and PLP discards: there is no flags register to move.
PushName == [ PHA |-> REG.A, PHX |-> REG.X, PHY |-> REG.Y, PHB |-> REG.B,
              PHD |-> REG.D, PHP |-> REG.ZERO, PHK |-> REG.ZERO ]
PullName == [ PLA |-> REG.A, PLX |-> REG.X, PLY |-> REG.Y, PLB |-> REG.B,
              PLD |-> REG.D, PLP |-> REG.ZERO ]

\* The flag instructions and the mode changes are placeholders.
NopNames == {"NOP", "CLC", "SEC", "CLD", "SED", "CLI", "SEI", "CLV",
             "RSET", "RCLR", "XCE"}
NopWithOperand == {"REP", "SEP", "REPE", "SEPE"}

ShiftBy(rd, rs, kind, amount, f) ==
    enc_i13f(OP.SHIFT_I, rd, rs, Shift(kind, amount), f)

Extend == [ SEXT8 |-> << SH.SAR, 24 >>, SEXT16 |-> << SH.SAR, 16 >>,
            ZEXT16 |-> << SH.SHR, 16 >> ]

Xba == << ShiftBy(REG.T, REG.A, SH.SHR, 8, 0),
          enc_i13f(Imm(OP.AND), REG.T, REG.T, 255, 0),
          ShiftBy(REG.A, REG.A, SH.SHL, 8, 0), R3(OP.OR, REG.A, REG.A, REG.T, 0) >>

\* Three-operand forms without flags.
LowerMove(env, mn, args) ==
    CASE mn \in {"MOV", "XFER"} /\ ~FlagOperand(args, 3) ->
           TwoRegs(args, LAMBDA rd, rs : << R3(OP.XFER, rd, rs, 0, 0) >>)
      [] mn \in {"MUL", "DIV"} /\ ~FlagOperand(args, 4) ->
           ThreeRegs(args, LAMBDA rd, rs1, rs2 : R3(OP[mn], rd, rs1, rs2, 0))
      [] mn \in {"LUI", "AUIPC"} /\ Len(args) >= 2 ->
           OneReg(args, LAMBDA rd : << enc_u20(OP[mn], rd, Value(env, args, 2)) >>)
      [] OTHER -> {}

\* Jumps through a register; the returns all go through T.
LowerRegJump(mn, args) ==
    CASE mn \in {"RTS", "RTL", "RTI"} -> { << enc_jr(OP.RTS, 0, REG.T) >> }
      [] mn \in {"JMPR", "JMP.REG"} ->
           OneReg(args, LAMBDA rs : << enc_jr(OP.JMP_REG, 0, rs) >>)
      [] mn \in {"JSRR", "JSR.REG"} ->
           TwoRegs(args, LAMBDA rd, rs : << enc_jr(OP.JSR_REG, rd, rs) >>)
      [] OTHER -> {}

LowerExtend(mn, args) ==
    CASE mn \in DOMAIN Extend ->
           TwoRegs(args, LAMBDA rd, rs :
               << ShiftBy(rd, rs, SH.SHL, Extend[mn][2], 0),
                  ShiftBy(rd, rd, Extend[mn][1], Extend[mn][2], 1) >>)
      [] mn = "ZEXT8" ->
           TwoRegs(args, LAMBDA rd, rs : << enc_i13f(Imm(OP.AND), rd, rs, 255, 1) >>)
      [] OTHER -> {}

\* System instructions; BRK and COP are traps.
LowerSys(env, mn, args) ==
    CASE mn = "TRAP" ->
           { << enc_sys(SYSOP.TRAP, IF args = << >> THEN 0 ELSE Value(env, args, 1)) >> }
      [] mn \in DOMAIN SYSOP -> { << enc_sys(SYSOP[mn], 0) >> }
      [] mn = "BRK" \/ (mn = "COP" /\ args # << >>) -> { << enc_sys(SYSOP.TRAP, 0) >> }
      [] OTHER -> {}

LowerSimple(env, mn, args) ==
    CASE mn \in NopNames -> { << NOP >> }
      [] mn \in DOMAIN Transfer ->
           { << R3(OP.XFER, REG[Transfer[mn][1]], REG[Transfer[mn][2]], 0, 0) >> }
      [] mn \in DOMAIN Count ->
           { << enc_i13f(Imm(Count[mn][1]), Count[mn][2], Count[mn][2], 1, 1) >> }
      [] mn \in DOMAIN PushName -> { EMIT_PUSH(PushName[mn]) }
      [] mn \in DOMAIN PullName -> { EMIT_PULL(PullName[mn]) }
      [] mn = "PUSH" -> OneReg(args, EMIT_PUSH)
      [] mn \in {"PULL", "POP"} -> OneReg(args, EMIT_PULL)
      [] mn = "XBA" -> { Xba }
      [] mn \in NopWithOperand /\ args # << >> -> { << NOP >> }
      [] OTHER -> LowerMove(env, mn, args) \cup LowerRegJump(mn, args)
                  \cup LowerExtend(mn, args) \cup LowerSys(env, mn, args)

-----------------------------------------------------------------------------
(* The last resort: a mnemonic with a size suffix, an X prefix or both.    *)
(* The prefix clears f_bit, which not every case below uses.               *)

ext_alu == [ ADC |-> OP.ADD, SBC |-> OP.SUB, AND |-> OP.AND, ORA |-> OP.OR,
             EOR |-> OP.XOR, CMP |-> OP.CMP, BIT |-> OP.AND,
             LDA |-> OP.ADD, LD |-> OP.ADD ]
ext_shift == [ ASL |-> SH.SHL, LSR |-> SH.SHR, ROL |-> SH.ROL, ROR |-> SH.ROR ]
ext_store == [ STA |-> REG.A, ST |-> REG.A, STZ |-> REG.ZERO ]

ExtForm(base, size, x) ==
    [ base |-> base, bits |-> size[2], f |-> IF x THEN 0 ELSE 1,
      name |-> (IF x THEN "X" ELSE "") \o base \o size[1] ]
ExtForms ==
    { ExtForm(b, s, x) :
        b \in DOMAIN ext_alu \cup DOMAIN ext_shift \cup DOMAIN ext_store \cup DOMAIN Step,
        s \in {<< ".B", 8 >>, << ".W", 16 >>, << "", 32 >>}, x \in BOOLEAN }

Low16(f) == << ShiftBy(REG.A, REG.A, SH.SHL, 16, 0), ShiftBy(REG.A, REG.A, SH.SHR, 16, f) >>

MaskA(bits, f) ==
    CASE bits = 8 -> << enc_i13f(Imm(OP.AND), REG.A, REG.A, 255, f) >>
      [] bits = 16 -> Low16(f)
      [] OTHER -> << >>

Masked(v, bits) == IF bits = 32 THEN v ELSE v % 2^bits

LowerExt(form, p) ==
    LET b == form.base
        op == ext_alu[b]
    IN CASE b \in {"LDA", "LD"} /\ p.mode = "IMM" ->
              { emit_load_const(REG.A, Masked(p.v, form.bits)) }
         [] b \in {"LDA", "LD"} ->
              Then(emit_mem_access(OP.LD, REG.A, p.mode, p.v), { MaskA(form.bits, 0) })
         [] b \in {"CMP", "BIT"} /\ p.mode = "IMM" ->
              { << enc_i13f(Imm(op), REG.ZERO, REG.A, Masked(p.v, form.bits), form.f) >> }
         [] b \in {"CMP", "BIT"} ->
              Then(emit_mem_access(OP.LD, REG.T, p.mode, p.v),
                   { << R3(op, REG.ZERO, REG.A, REG.T, form.f) >> })
         [] b \in DOMAIN ext_alu ->
              Then(emit_alu_mem(op, REG.A, REG.A, p), { MaskA(form.bits, form.f) })
         [] b \in DOMAIN Step -> { << enc_i13f(Step[b], REG.A, REG.A, 1, form.f) >> }
         [] b \in DOMAIN ext_shift ->
              { << ShiftBy(REG.A, REG.A, ext_shift[b], 1, form.f) >> }
         [] OTHER -> emit_mem_access(OP.ST, ext_store[b], p.mode, p.v)

-----------------------------------------------------------------------------
(* The dispatch of assemble_line.                                          *)

LowerWords(env, mn, args) ==
    CASE mn \in AluNames -> LowerAlu(env, mn, args, AluMatch(mn))
      [] mn \in DOMAIN ShiftKind -> LowerShift(env, mn, args)
      [] mn \in {"LD", "LDW"} -> LowerLoadStore(env, OP.LD, args)
      [] mn \in {"ST", "STW"} -> LowerLoadStore(env, OP.ST, args)
      [] mn \in AddressedNames -> LowerAddressed(env, mn, args, First(env, args))
      [] \E form \in ExtForms : form.name = mn ->
           LowerExt(CHOOSE form \in ExtForms : form.name = mn, First(env, args))
      [] OTHER -> LowerSimple(env, mn, args)

Lower(env, mn, args) ==
    CASE mn \in DOMAIN COND -> emit_branch(env, COND[mn], 0, First(env, args))
      [] mn \in {"BSR", "BRL"} ->
           emit_branch(env, COND.BRA, IF mn = "BSR" THEN 1 ELSE 0, First(env, args))
      [] mn \in DOMAIN JumpOp -> LowerJump(env, mn, First(env, args))
      [] OTHER -> { Result(s, NoFix) : s \in LowerWords(env, mn, args) }
=============================================================================
