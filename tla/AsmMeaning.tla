----------------------------- MODULE AsmMeaning -----------------------------
(***************************************************************************)
(* What a source instruction means, stated without its lowering: the value *)
(* and the address of each addressing mode, and one register, memory and   *)
(* flag update per mnemonic.  The lowering may use T as it likes.          *)
(***************************************************************************)
EXTENDS M65Machine

WithT(m) == [m EXCEPT !.r = [@ EXCEPT ![REG.T] = 0]]
Same(m, n) == WithT(m) = WithT(n)

\* A rotation to the left is one to the right by the rest of the word.
Shifted(kind, v, n) == IF kind = SH.ROL THEN RotateRight(v, (32 - (n % 32)) % 32)
                       ELSE ShiftOp(kind, v, n)

SetFlags(m, op, a, b) == Flags(m, 1, op, a, b)
R(m, name) == m.r[REG[name]]

\* A pointer: the register of a window address, else the word at D + v.
Pointer(m, v) == IF IsWindow(v) THEN m.r[dp_to_reg(v)] ELSE Load(m, Add32(R(m, "D"), v))

Address(m, p) ==
    LET indexed(name) == Add32(R(m, name), p.v)
    IN CASE p.mode = "DP"   -> indexed("D")
         [] p.mode = "DPX"  -> Add32(indexed("D"), R(m, "X"))
         [] p.mode = "DPY"  -> Add32(indexed("D"), R(m, "Y"))
         [] p.mode = "ABS"  -> indexed("B")
         [] p.mode = "ABSX" -> Add32(indexed("B"), R(m, "X"))
         [] p.mode = "ABSY" -> Add32(indexed("B"), R(m, "Y"))
         [] p.mode = "IND"  -> Pointer(m, p.v)
         [] p.mode = "INDY" -> Add32(Pointer(m, p.v), R(m, "Y"))
         [] p.mode = "INDX" /\ IsWindow(p.v) -> Add32(m.r[dp_to_reg(p.v)], R(m, "X"))
         [] p.mode = "INDX" -> Load(m, Add32(indexed("D"), R(m, "X")))

InWindow(p) == p.mode = "DP" /\ IsWindow(p.v)
ReadOp(m, p) == CASE p.mode = "IMM" -> p.v
                  [] InWindow(p) -> m.r[dp_to_reg(p.v)]
                  [] OTHER -> Load(m, Address(m, p))
WriteOp(m, p, v) == IF InWindow(p) THEN Write(m, dp_to_reg(p.v), v)
                    ELSE Store(m, Address(m, p), v)

Push(m, v) == LET sp == Sub32(R(m, "SP"), 4)
              IN Store(Write(m, REG.SP, sp), sp, v)

MemoryModes == {"DP", "DPX", "DPY", "ABS", "ABSX", "ABSY", "IND", "INDX", "INDY"}
ValueModes == MemoryModes \cup {"IMM"}

-----------------------------------------------------------------------------
(* One operand, addressed.                                                 *)

ByOneOp == [ INC |-> OP.ADD, DEC |-> OP.SUB ]
ShiftOf == [ ASL |-> SH.SHL, LSR |-> SH.SHR, ROL |-> SH.ROL, ROR |-> SH.ROR ]
AccMeaning == [ AND |-> OP.AND, OR |-> OP.OR, XOR |-> OP.XOR ] @@
              [ ADC |-> OP.ADD, SBC |-> OP.SUB, ORA |-> OP.OR, EOR |-> OP.XOR ]
Compared == [ CMP |-> "A", CPX |-> "X", CPY |-> "Y" ]
Sizes == (".B" :> 8) @@ (".W" :> 16)

ReadNames == DOMAIN LoadReg \cup DOMAIN AccMeaning \cup DOMAIN Compared \cup {"BIT"}
             \cup {"LDA.B", "LDA.W", "CMP.B", "XADC"}
ModifyNames == DOMAIN ByOneOp \cup DOMAIN ShiftOf \cup {"TSB", "TRB", "XINC"}
AddressNames == {"LEA", "PEI", "STA.B"} \cup DOMAIN StoreReg

MeaningRead(m, mn, v) ==
    LET a == R(m, "A")
    IN CASE mn \in DOMAIN LoadReg -> Write(m, LoadReg[mn], v)
         [] mn = "LDA.B" -> Write(m, REG.A, v % 2^8)
         [] mn = "LDA.W" -> Write(m, REG.A, v % 2^16)
         [] mn \in DOMAIN AccMeaning ->
              Write(SetFlags(m, AccMeaning[mn], a, v), REG.A, Alu(AccMeaning[mn], a, v))
         [] mn = "XADC" -> Write(m, REG.A, Add32(a, v))
         [] mn \in DOMAIN Compared -> SetFlags(m, OP.CMP, R(m, Compared[mn]), v)
         [] mn = "CMP.B" -> SetFlags(m, OP.CMP, a % 2^8, v % 2^8)
         [] mn = "BIT" -> SetFlags(m, OP.AND, a, v)

\* The new value of the operand, and the flags.
Modified(m, mn, v) ==
    CASE mn \in DOMAIN ByOneOp -> Alu(ByOneOp[mn], v, 1)
      [] mn = "XINC" -> Add32(v, 1)
      [] mn \in DOMAIN ShiftOf -> Shifted(ShiftOf[mn], v, 1)
      [] mn = "TSB" -> Or32(v, R(m, "A"))
      [] mn = "TRB" -> And32(v, -1 - R(m, "A"))
ModifyFlags(m, mn, v) ==
    CASE mn \in DOMAIN ByOneOp -> SetFlags(m, ByOneOp[mn], v, 1)
      [] mn \in DOMAIN ShiftOf -> SetFlags(m, OP.SHIFT_R + ShiftOf[mn] * 64, v, 1)
      [] mn \in {"TSB", "TRB"} -> SetFlags(m, OP.AND, R(m, "A"), v)
      [] OTHER -> m
MeaningModify(m, mn, p, v) == WriteOp(ModifyFlags(m, mn, v), p, Modified(m, mn, v))
MeaningAccumulator(m, mn, a) == Write(ModifyFlags(m, mn, a), REG.A, Modified(m, mn, a))

LowByte(v, b) == v - (v % 2^8) + (b % 2^8)
MeaningAddress(m, mn, p) ==
    CASE mn = "LEA" -> Write(m, REG.A, Address(m, p))
      [] mn = "PEI" -> Push(m, Pointer(m, p.v))
      [] OTHER -> WriteOp(m, p, IF mn = "STA.B" THEN LowByte(ReadOp(m, p), R(m, "A"))
                                ELSE m.r[StoreReg[mn]])

-----------------------------------------------------------------------------
(* Registers and constants by name.                                        *)

ThreeOps == [ ADD |-> OP.ADD, SUB |-> OP.SUB, AND |-> OP.AND, OR |-> OP.OR,
              XOR |-> OP.XOR, SLT |-> OP.SLT, SLTU |-> OP.SLTU ]
Plain(mn, suffix) == CHOOSE k \in DOMAIN ThreeOps : k \o suffix = mn
IsThreeOp(mn, suffix) == \E k \in DOMAIN ThreeOps : k \o suffix = mn

MeaningRegisters(m, mn, args, env) ==
    LET reg(k) == CHOOSE r \in parse_register(args[k]) : TRUE
        a == m.r[reg(2)]
        last == IF args[3].syn = "imm" THEN parse_expr(env, args[3].e) ELSE m.r[reg(3)]
    IN IF mn \in DOMAIN ShiftKind
       THEN Write(SetFlags(m, OP.SHIFT_R + ShiftKind[mn] * 64, a, last % 32), reg(1),
                  Shifted(ShiftKind[mn], a, last))
       ELSE LET op == ThreeOps[Plain(mn, IF args[3].syn = "imm" THEN "I" ELSE "")]
            IN Write(SetFlags(m, op, a, last), reg(1), Alu(op, a, last))

\* LD Rt, [base + off] and ST Rt, [base + off].
MeaningBracket(m, mn, args, env) ==
    LET rt == CHOOSE r \in parse_register(args[1]) : TRUE
        base == CHOOSE r \in parse_register(Operand("text", SubSeq(args[2].e, 1, 1), "")) : TRUE
        a == Add32(m.r[base], parse_expr(env, Tail(args[2].e)))
    IN IF mn = "LD" THEN Write(m, rt, Load(m, a)) ELSE Store(m, a, m.r[rt])

ExtendMeaning(mn, v) ==
    CASE mn = "SEXT8" -> Signed(v, 8) [] mn = "SEXT16" -> Signed(v, 16)
      [] mn = "ZEXT8" -> v % 2^8      [] mn = "ZEXT16" -> v % 2^16

SwapLow(v) == (v - (v % 2^16)) + ((v % 2^8) * 2^8) + Field(v, 8, 8)

-----------------------------------------------------------------------------
(* The instructions that have a meaning here, and the meaning.             *)

OneAddressed(args, modes, p) == Len(args) = 1 /\ p.mode \in modes
Registers(args, n) == Len(args) = n /\ \A k \in 1..n : parse_register(args[k]) # {}
ThreeOrImm(mn, args) ==
    /\ Len(args) = 3 /\ \A k \in 1..2 : parse_register(args[k]) # {}
    /\ \/ /\ parse_register(args[3]) # {}
          /\ mn \in DOMAIN ShiftKind \cup DOMAIN ThreeOps
       \/ /\ args[3].syn = "imm"
          /\ mn \in DOMAIN ShiftKind \/ IsThreeOp(mn, "I")
ConstNames == {"PEA", "SB", "SD", "SVBR"}
ExtendNames == {"SEXT8", "SEXT16", "ZEXT8", "ZEXT16"}

\* INC and DEC alone, or a shift alone or of A.
OnAccumulator(mn, args, p) ==
    \/ args = << >> /\ mn \in DOMAIN ByOneOp \cup DOMAIN ShiftOf
    \/ p.mode = "ACC" /\ mn \in DOMAIN ShiftOf

KindOf(mn, args, p) ==
    CASE mn \in ReadNames /\ OneAddressed(args, ValueModes, p) -> "read"
      [] mn \in ModifyNames /\ OneAddressed(args, MemoryModes, p) -> "modify"
      [] OnAccumulator(mn, args, p) -> "accumulator"
      [] mn \in DOMAIN StoreReg \cup {"STA.B"} /\ OneAddressed(args, MemoryModes, p) -> "address"
      [] mn = "PEI" /\ OneAddressed(args, {"IND"}, p) -> "address"
      [] mn = "LEA" /\ OneAddressed(args, {"DP", "DPX", "ABS"}, p) -> "address"
      [] ThreeOrImm(mn, args) -> "registers"
      [] mn \in {"LD", "ST"} /\ Len(args) = 2 /\ args[2].syn = "bracket" -> "bracket"
      [] mn \in ExtendNames /\ Registers(args, 2) -> "extend"
      [] mn = "XBA" -> "swap"
      [] mn \in ConstNames /\ Len(args) = 1 -> "const"
      [] OTHER -> "none"
Kind(mn, args, env) == KindOf(mn, args, First(env, args))

MeaningOf(kind, m, env, mn, args, p) ==
    LET reg(k) == CHOOSE r \in parse_register(args[k]) : TRUE
    IN CASE kind = "read" -> MeaningRead(m, mn, ReadOp(m, p))
         [] kind = "modify" -> MeaningModify(m, mn, p, ReadOp(m, p))
         [] kind = "accumulator" -> MeaningAccumulator(m, mn, R(m, "A"))
         [] kind = "address" -> MeaningAddress(m, mn, p)
         [] kind = "registers" -> MeaningRegisters(m, mn, args, env)
         [] kind = "bracket" -> MeaningBracket(m, mn, args, env)
         [] kind = "swap" -> Write(m, REG.A, SwapLow(R(m, "A")))
         [] kind = "extend" ->
              LET v == m.r[reg(2)]
                  f == CASE mn = "SEXT8" -> << OP.SHIFT_R + 2 * 64, ShiftLeft(v, 24), 24 >>
                         [] mn = "SEXT16" -> << OP.SHIFT_R + 2 * 64, ShiftLeft(v, 16), 16 >>
                         [] mn = "ZEXT8" -> << OP.AND, v, 255 >>
                         [] OTHER -> << OP.SHIFT_R + 64, ShiftLeft(v, 16), 16 >>
              IN Write([m EXCEPT !.fl = f], reg(1), ExtendMeaning(mn, v))
         [] mn = "PEA" -> Push(m, parse_expr(env, args[1].e))
         [] OTHER -> Write(m, SetReg[mn], p.v)

Meaning(m, env, mn, args) ==
    MeaningOf(Kind(mn, args, env), m, env, mn, args, First(env, args))

-----------------------------------------------------------------------------
(* Where the assembler does something else than the meaning: what the       *)
(* findings of MCAsmClaims show, line by line.                             *)

\* The 13 bits of an immediate, which the logical operations and SLTU
\* extend with zeros.  As operands of the accumulator, constants of more
\* than 12 bits and a sign are built in T first.
ZeroExtended == {"AND", "OR", "XOR", "ORA", "EOR", "BIT", "ANDI", "ORI", "XORI", "SLTUI"}
Holds(mn, v) == IF mn \in ZeroExtended THEN v \in 0..8191 ELSE v \in -4096..4095

\* The address is computed in T, where the value to store already is.
AddressInT(p) ==
    \/ p.mode \in {"DPX", "DPY", "ABSX", "ABSY", "INDX", "INDY"}
    \/ p.mode = "ABS" /\ ~Near(p.v)
    \/ p.mode = "IND" /\ ~IsWindow(p.v)

DivergentOf(kind, env, mn, args, p) ==
    LET v == p.v
        far == p.mode \in {"IND", "INDX", "INDY"} /\ ~Near(v)
    IN CASE kind = "read" ->
              \/ far
              \/ mn = "XOR"                         \* assembled as a flagless OR
              \/ p.mode = "IMM" /\ v \in -4096..-1 /\ mn \in ZeroExtended
              \/ p.mode = "IMM" /\ ~Holds(mn, v) /\ mn = "BIT"
              \/ mn = "CMP.B"                       \* compares all of A
              \/ mn = "CMP" /\ comma_count(args) > 0       \* taken for CMP Rs1, Rs2
              \/ mn = "XADC"                        \* sets the flags
         [] kind = "modify" ->
              \/ AddressInT(p)
              \/ mn \in {"TRB", "XINC"}
              \/ mn = "ROL"                         \* executed as ROR
         [] kind = "accumulator" -> mn = "ROL"
         [] kind = "address" ->
              far \/ mn = "PEI" \/ mn = "STA.B"
         [] kind = "registers" ->
              \/ mn \in {"XOR", "XORI", "ROL"}
              \/ mn \in DOMAIN ShiftKind /\ args[1].e[1][2].sym = "A"
         [] kind = "swap" -> TRUE
         [] OTHER -> FALSE

\* A constant of a fixed-width form that is cut to its field, in silence.
CutOff(env, mn, args) ==
    LET kind == Kind(mn, args, env)
        last == args[Len(args)]
    IN \/ /\ kind = "registers" /\ last.syn = "imm" /\ mn \notin DOMAIN ShiftKind
          /\ ~Holds(mn, parse_expr(env, last.e))
       \/ kind = "bracket" /\ ~Near(parse_expr(env, Tail(args[2].e)))

Divergent(env, mn, args) ==
    DivergentOf(Kind(mn, args, env), env, mn, args, First(env, args))
=============================================================================
