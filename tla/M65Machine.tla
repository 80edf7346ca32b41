----------------------------- MODULE M65Machine -----------------------------
(***************************************************************************)
(* What the words mean: the instruction decoder of the core (Decoder.sv),  *)
(* one instruction at a time, and what the traditional instructions mean   *)
(* in the terms of their addressing modes.                                 *)
(*                                                                         *)
(* A machine is [r, mem, fl, next]: the registers, the memory words        *)
(* written so far, the flags and where control goes.  The flags are the    *)
(* operation and operands that last set them, which is all that can be     *)
(* told apart without computing N, Z, C and V.  next is << >> for the      *)
(* instruction that follows.  Multiplication and division are left as      *)
(* free functions of their operands.                                       *)
(***************************************************************************)
EXTENDS AsmLowering
LOCAL INSTANCE Bitwise

\* Bitwise operators are defined on naturals: a word is two halves.
Low(v) == v % 2^16
High(v) == Field(v, 16, 16)
Join(hi, lo) == Signed(hi, 16) * 2^16 + lo
And32(a, b) == Join(High(a) & High(b), Low(a) & Low(b))
Or32(a, b) == Join(High(a) | High(b), Low(a) | Low(b))
Xor32(a, b) == Join(High(a) ^^ High(b), Low(a) ^^ Low(b))

\* Bits shifted by n places; a rotation keeps all of them.  The first or the
\* last place is shifted apart, to stay within the range of an integer.
ShiftLeft(v, n) ==
    CASE n = 0 -> v
      [] n = 1 -> Add32(v, v)
      [] OTHER -> LET u == Signed(v, 32 - n) * 2^(n - 1) IN Add32(u, u)
ShiftRight(v, n) ==
    LET half == IF v < 0 THEN (v - MinInt) \div 2 + 2^30 ELSE v \div 2
    IN IF n = 0 THEN v ELSE half \div 2^(n - 1)
ShiftSigned(v, n) == IF n = 31 THEN (IF v < 0 THEN -1 ELSE 0) ELSE v \div 2^n
RotateRight(v, n) ==
    IF n = 0 THEN v ELSE Or32(ShiftRight(v, n), ShiftLeft(v, 32 - n))

ShiftBits(kind, v, n) ==
    CASE kind = SH.SHL -> ShiftLeft(v, n)
      [] kind = SH.SHR -> ShiftRight(v, n)
      [] kind = SH.SAR -> ShiftSigned(v, n)
      [] kind = SH.ROR -> RotateRight(v, n)
ShiftOp(kind, v, amount) == ShiftBits(kind, v, amount % 32)

\* The decoder gives a ROL to the shifter as a rotation to the right, of the
\* same amount, and a kind it does not know as a shift to the left.
ShiftType(kind) == CASE kind = SH.ROL -> SH.ROR
                     [] kind \in {SH.SHR, SH.SAR, SH.ROR} -> kind
                     [] OTHER -> SH.SHL

Alu(op, a, b) ==
    CASE op = OP.ADD -> Add32(a, b)
      [] op \in {OP.SUB, OP.CMP} -> Sub32(a, b)
      [] op = OP.AND -> And32(a, b)
      [] op = OP.OR -> Or32(a, b)
      [] op = OP.XOR -> Xor32(a, b)
      [] op = OP.SLT -> IF a < b THEN 1 ELSE 0
      [] OTHER -> IF (a < 0) = (b < 0) THEN (IF a < b THEN 1 ELSE 0)
                  ELSE (IF b < 0 THEN 1 ELSE 0)

-----------------------------------------------------------------------------

\* R0 reads as zero and is never written.
Write(m, rd, v) == IF rd = 0 THEN m ELSE [m EXCEPT !.r = [@ EXCEPT ![rd] = v]]

Flags(m, f, op, a, b) == IF f = 1 THEN [m EXCEPT !.fl = << op, a, b >>] ELSE m

\* A word nothing has stored to holds a value that tells its address.
Load(m, a) == IF a \in DOMAIN m.mem THEN m.mem[a]
              ELSE Add32(a, RotateRight(a, 13))
Store(m, a, v) == [m EXCEPT !.mem = (a :> v) @@ @]

SignedImm == {OP.ADD, OP.SUB, OP.SLT, OP.CMP}

\* ADDI, SUBI, SLTI and CMPI sign-extend their immediate; the others do not.
ImmOf(op, d) == IF op \in SignedImm THEN d.imm13 ELSE d.imm13 % 2^13

Operate(m, op, d, b, f) ==
    LET a == m.r[d.rs1]
        n == Flags(m, f, op, a, b)
    IN IF op = OP.CMP THEN n ELSE Write(n, d.rd, Alu(op, a, b))

RegisterAlu == {OP.ADD, OP.SUB, OP.AND, OP.OR, OP.XOR, OP.SLT, OP.SLTU, OP.CMP}
CmpAlways(op, f) == IF op = OP.CMP THEN 1 ELSE f

Jump(m, target) == [m EXCEPT !.next = << "jump", target >>]

ExecShift(m, kind, d, a, b) ==
    Write(Flags(m, d.f, OP.SHIFT_R + kind * 64, a, b % 32), d.rd, ShiftOp(kind, a, b))

ExecDecoded(m, pc, w, d) ==
    LET op == d.op
        src == m.r[d.rs1]
        link == Write(m, IF op = OP.JSR_REG THEN d.rd ELSE REG.T, Add32(pc, 4))
    IN CASE op \in RegisterAlu -> Operate(m, op, d, m.r[d.rs2], CmpAlways(op, d.f))
         [] op - 1 \in RegisterAlu ->
              Operate(m, op - 1, d, ImmOf(op - 1, d), CmpAlways(op - 1, d.f))
         [] op = OP.SHIFT_R -> ExecShift(m, ShiftType(d.func7 % 8), d, src, m.r[d.rs2])
         [] op = OP.SHIFT_I ->
              ExecShift(m, ShiftType(Field(w, 11, 3)), d, src, Field(w, 1, 5))
         [] op = OP.XFER -> Write(m, d.rd, src)
         [] op \in {OP.MUL, OP.DIV} ->
              Write(m, d.rd, Add32(op, Xor32(RotateRight(src, op), m.r[d.rs2])))
         [] op = OP.LD -> Write(m, d.rd, Load(m, Add32(src, d.off14)))
         [] op = OP.ST -> Store(m, Add32(src, d.off14), m.r[d.rd])
         [] op = OP.LUI -> Write(m, d.rd, Signed(d.imm20, 20) * 2^12)
         [] op = OP.AUIPC -> Write(m, d.rd, Add32(pc, Signed(d.imm20, 20) * 2^12))
         [] op = OP.BR ->
              LET n == IF d.link = 1 THEN link ELSE m
                  c == IF d.cond <= 8 THEN d.cond ELSE 8
              IN [n EXCEPT !.next = IF c = 8 THEN << "jump", BranchTarget(pc, d) >>
                                    ELSE << "branch", BranchTarget(pc, d), c >>]
         [] op = OP.JMP_ABS -> Jump(m, JumpTarget(pc, d))
         [] op = OP.JSR_ABS -> Jump(link, JumpTarget(pc, d))
         [] op \in {OP.JMP_REG, OP.RTS} -> Jump(m, src)
         [] op = OP.JSR_REG -> Jump(link, src)
         [] op = OP.SYS /\ d.imm20 % 8 <= SYSOP.STP ->
              [m EXCEPT !.next = << "sys", d.imm20 % 8,
                                    IF d.imm20 % 8 = SYSOP.TRAP THEN d.imm20 % 2^12 ELSE 0 >>]
         [] OTHER -> [m EXCEPT !.next = << "undefined", op >>]

Exec(m, pc, w) == ExecDecoded(m, pc, w, decode(w))

\* The words from pc on, in order, until one of them transfers control.
Run(m, pc, words) ==
    FoldLeft(LAMBDA acc, w : IF acc.m.next # << >> THEN acc
                             ELSE [m |-> Exec(acc.m, acc.pc, w), pc |-> Add32(acc.pc, 4)],
             [m |-> m, pc |-> pc], words).m
=============================================================================
