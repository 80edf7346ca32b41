----------------------------- MODULE MCToolchain -----------------------------
EXTENDS ToolchainProperties

Line(label, mn, args) == [label |-> label, mn |-> mn, args |-> args]
I(mn, args) == Line("", mn, args)

reg(n) == Operand("text", Rn(n), "")
nm(s) == Operand("text", Name(s), "")
num(v) == Operand("num", Lit(v), "")
imm(v) == Operand("imm", Lit(v), "")
brk(base, v) == Operand("bracket", base.e \o Lit(v), "")

\* One operand of every syntax, with values on both sides of each boundary.
AddressOperands ==
    { Operand("text", Rn(4), i) : i \in {"", "X", "Y"} }
    \cup { Operand("num", Lit(v), i) : v \in {16, 17, 300, 9000}, i \in {"", "X", "Y"} }
    \cup { Operand("paren", e, i) : e \in {Rn(4), Lit(17), Lit(9000)}, i \in {"", "inX", "Y"} }
    \cup { Operand("b+", Lit(v), i) : v \in {8, 20480}, i \in {"", "X"} }
    \cup { Operand("bracket", Lit(17), "Y"), Operand("num", Lit(17), "S"),
           Operand("numhi", Lit(MinInt), "") }
Immediates == {5, -5, 4095, 4096, 4097, -4096, -4097, 305418240}

OneOperandNames == ReadNames \cup ModifyNames \cup AddressNames
OneOperand ==
    { I(mn, << o >>) : mn \in OneOperandNames, o \in AddressOperands }
    \cup { I(mn, << imm(v) >>) : mn \in ReadNames \cup ConstNames, v \in Immediates }
    \cup { I(mn, << >>) : mn \in {"XBA", "NOP"} }

RegisterNames == DOMAIN ThreeOps \cup DOMAIN ShiftKind
ThreeOperands ==
    { I(mn, << rd, reg(2), reg(3) >>) : mn \in RegisterNames, rd \in {nm("A"), reg(1)} }
    \cup { I(mn, << reg(1), reg(2), imm(v) >>) : mn \in DOMAIN ShiftKind, v \in {3, 31} }
    \cup { I(k \o "I", << reg(1), reg(2), imm(v) >>) :
             k \in DOMAIN ThreeOps, v \in {7, -7, 4095, 4096} }
    \cup { I(mn, << reg(1), nm("SP") >>) : mn \in ExtendNames }
    \cup { I(mn, << reg(1), brk(nm("B"), v) >>) : mn \in {"LD", "ST"},
             v \in {4, -4, 8191, 8192, -8192} }

SimpleLines ==
    { I(mn, << >>) : mn \in NopNames \cup DOMAIN Transfer \cup DOMAIN Count
        \cup DOMAIN PushName \cup DOMAIN PullName \cup DOMAIN SYSOP \cup DOMAIN Step
        \cup {"RTS", "RTI", "BRK"} \cup DOMAIN ShiftOf }
    \cup { I(mn, << nm("A") >>) : mn \in DOMAIN ShiftOf }
    \cup { I(mn, << reg(7) >>) : mn \in {"PUSH", "PULL", "JMPR"} }
    \cup { I(mn, << reg(7), reg(8) >>) : mn \in {"JSRR", "MOV"} }
    \cup { I(mn, << reg(7), num(74565) >>) : mn \in {"LUI", "AUIPC"} }
    \cup { I(mn, << reg(7), reg(8), reg(9) >>) : mn \in {"MUL", "DIV", "XADD", "XXOR"} }
    \cup { I(mn, << imm(9) >>) : mn \in {"TRAP", "COP", "REP", "INC.W", "XASL", "ADC.B", "ADC.W"} }
    \cup { I("CMP", << reg(4), o >>) : o \in {reg(5), imm(6)} }
    \cup { I(mn, << num(v) >>) : mn \in {"JMP", "JSR", "JSL", "BRA"}, v \in {64, 8192} }
    \cup { I(mn, << nm("UNDEFINED") >>) : mn \in {"LDA", "BEQ", "JSR"} }

-----------------------------------------------------------------------------
(* Words for the disassembler: every opcode with the register patterns it  *)
(* matches, and the pairs it folds with their near misses.                 *)

Words2(w, v) == << I(".DWORD", << num(w), num(v) >>) >>
WithAndWithoutF(w) == Words2(w - (w % 2), w - (w % 2) + 1)

OpcodeWords ==
    { WithAndWithoutF(enc_r3(op, rr[1], rr[2], rs2, fn, 0)) :
        op \in 0..47, rs2 \in {0, 2}, fn \in {0, 3},
        rr \in { << REG.A, REG.A >>, << 0, REG.A >>, << 3, 2 >>, << REG.X, REG.X >>,
                 << REG.A, REG.B >>, << 4, REG.A >>, << REG.A, 5 >> } }
ImmediateWords ==
    { WithAndWithoutF(enc_i13f(op, r, r, v, 0)) :
        op \in {Imm(OP.ADD), Imm(OP.SUB), Imm(OP.AND), OP.SHIFT_I}, r \in {0, 3, REG.A, REG.Y},
        v \in {1, 255, -1, 3 * 2^10 + 1} }

Pairs ==
    { Words2(enc_u20(OP.LUI, REG.X, u), enc_i13f(Imm(OP.OR), REG.X, REG.X, v, f)) :
        u \in {3, 4}, v \in {5, -5}, f \in {0, 1} }
    \cup { Words2(EMIT_PUSH(r)[1], EMIT_PUSH(r)[2]) : r \in {0, 3, REG.A, REG.D} }
    \cup { Words2(EMIT_PULL(r)[1], EMIT_PULL(r)[2]) : r \in {0, 3, REG.A, REG.D} }
    \cup { Words2(R3(OP.ADD, REG.T, base, x, f), enc_m14(op, r, REG.T, off)) :
             base \in {REG.B, 2}, x \in {REG.X, REG.Y}, f \in {0, 1}, op \in {OP.LD, OP.ST},
             r \in {REG.A, REG.X, 3}, off \in {0, 8, -4} }
    \cup { Words2(ShiftBy(3, 2, SH.SHL, n, 0), ShiftBy(3, 3, kind, n, f)) :
             n \in {8, 16, 24}, kind \in {SH.SAR, SH.SHR}, f \in {0, 1} }

-----------------------------------------------------------------------------
(* Programs of several lines: labels before and after their use, data that *)
(* names them, constants, and code in ROM and in RAM.                      *)

ToLabel(mn, s) == I(mn, << nm(s) >>)
BodyLines ==
    { Line("L1", "NOP", << >>), Line("L2", "", << >>), ToLabel("BEQ", "L1"),
      ToLabel("BSR", "L2"), ToLabel("JMP", "L2"), ToLabel("JSR", "L1"),
      ToLabel(".DWORD", "L2"), I(".BYTE", << num(300) >>),
      Line("K", "EQU", << num(5) >>), I("LDA", << imm(9) >>) }
Origins == { << >>, << I(".ORG", << Operand("numhi", Lit(MinInt + 8), "") >>) >> }
Sequences == { o \o << a, b, c >> : o \in Origins, a, b, c \in BodyLines }

FarLines == << I(".ORG", << num(500000) >>) >>
Directed ==
    { << Line("L1", "NOP", << >>) >> \o FarLines \o << ToLabel("JMP", "L1"), ToLabel("BRA", "L1") >>,
      << ToLabel("BRA", "L1"), ToLabel("JSR", "L1"),
         I(".ORG", << Operand("numhi", Lit(MinInt), "") >>), Line("L1", "NOP", << >>) >>,
      << I(".BYTE", << num(7) >>), I(".ALIGN", << num(4) >>), I(".DS", << num(2) >>),
         Line("L1", ".WORD", << num(1), num(2) >>), ToLabel("BRA", "L1") >>,
      << ToLabel("BRA", "L1"), I(".BYTE", << num(7) >>), Line("L1", ".LONG", << num(70000) >>) >>,
      << ToLabel("JMP", "L1"), I(".BYTE", << num(7) >>), Line("L1", "NOP", << >>) >>,
      << I(".ORG", << num(600000) >>), I("NOP", << >>) >>,
      << Line("K", "EQU", << Operand("num", Lit(8) \o << <<"-", Atom("", "", 3)>> >>, "") >>),
         I("LDA", << Operand("imm", Name("K"), "") >>), Line("K", "EQU", << num(1) >>) >> }

-----------------------------------------------------------------------------

Machine(f) == [ r |-> [n \in 0..63 |-> IF n = 0 THEN 0 ELSE f[n]], mem |-> << >>,
                fl |-> << >>, next |-> << >> ]
MCMachines == { Machine([n \in 1..63 |-> 1000003 * n + 5]),
                Machine([n \in 1..63 |-> -(7654321 * n) + 2]) }

MCPrograms == { << x >> : x \in OneOperand \cup ThreeOperands \cup SimpleLines }
              \cup OpcodeWords \cup ImmediateWords \cup Pairs
              \cup Sequences \cup Directed
MCStarts == {ROM_BASE}
=============================================================================
