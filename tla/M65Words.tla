------------------------------ MODULE M65Words ------------------------------
(***************************************************************************)
(* 32-bit words and the instruction formats of the fixed-width encoding,   *)
(* as the assembler packs them (enc_* of m65f32asm.c) and the disassembler *)
(* takes them apart (decode of m65f32dis.c).                               *)
(*                                                                         *)
(* A word, an address and a register value are the same thing here: the    *)
(* integer in -2^31 .. 2^31 - 1 with that bit pattern, so 0x80000000 is    *)
(* MinInt.  \div and % round towards minus infinity, which makes           *)
(* (w \div 2^lo) % 2^n the n bits of w from bit lo, whatever the sign.     *)
(***************************************************************************)
EXTENDS Integers, Sequences

MinInt == -2147483647 - 1

Field(w, lo, n) == (w \div 2^lo) % 2^n

\* The two's complement reading of the n bits of v.
Signed(v, n) == IF v % 2^n >= 2^(n - 1) THEN (v % 2^n) - 2^n ELSE v % 2^n

\* a + b in 32 bits; the sums are arranged so that no step leaves the range.
Add32(a, b) ==
    IF a >= 0 /\ b > 2147483647 - a THEN (a + MinInt) + (b + MinInt)
    ELSE IF a < 0 /\ b < MinInt - a THEN (a - MinInt) + (b - MinInt)
    ELSE a + b

Neg32(a) == IF a = MinInt THEN MinInt ELSE -a
Sub32(a, b) == IF b = MinInt THEN Add32(Add32(a, 2147483647), 1)
                             ELSE Add32(a, -b)

-----------------------------------------------------------------------------
(* Registers and opcodes with a name of their own.                         *)

REG == [ ZERO |-> 0, A |-> 56, X |-> 57, Y |-> 58, SP |-> 59,
         D |-> 60, B |-> 61, VBR |-> 62, T |-> 63 ]

OP == [ ADD |-> 0, SUB |-> 2, AND |-> 4, OR |-> 6, XOR |-> 8, SLT |-> 10,
        SLTU |-> 12, CMP |-> 14, SHIFT_R |-> 16, SHIFT_I |-> 17,
        XFER |-> 18, MUL |-> 26, DIV |-> 27, LD |-> 28, ST |-> 29,
        LUI |-> 30, AUIPC |-> 31, BR |-> 37, JMP_ABS |-> 38,
        JMP_REG |-> 39, JSR_ABS |-> 40, JSR_REG |-> 41, RTS |-> 42,
        STACK |-> 43, SYS |-> 45 ]

Imm(op) == op + 1       \* ADDI .. CMPI follow their register forms

SH == [ SHL |-> 0, SHR |-> 1, SAR |-> 2, ROL |-> 3, ROR |-> 4 ]

COND == [ BEQ |-> 0, BNE |-> 1, BCS |-> 2, BCC |-> 3, BMI |-> 4,
          BPL |-> 5, BVS |-> 6, BVC |-> 7, BRA |-> 8 ]

SYSOP == [ TRAP |-> 0, FENCE |-> 1, FENCER |-> 2, FENCEW |-> 3,
           WAI |-> 4, STP |-> 5 ]

-----------------------------------------------------------------------------
(* Packing.  Every field is masked to its width, as the enc_* helpers do.  *)

Pack(op, low26) == Signed(op, 6) * 2^26 + low26

enc_r3(op, rd, rs1, rs2, func7, f) ==
    Pack(op, (rd % 64) * 2^20 + (rs1 % 64) * 2^14 + (rs2 % 64) * 2^8
             + (func7 % 128) * 2 + (f % 2))

enc_i13f(op, rd, rs1, imm13, f) ==
    Pack(op, (rd % 64) * 2^20 + (rs1 % 64) * 2^14
             + (imm13 % 2^13) * 2 + (f % 2))

enc_m14(op, rt, base, off14) ==
    Pack(op, (rt % 64) * 2^20 + (base % 64) * 2^14 + (off14 % 2^14))

enc_u20(op, rd, imm20) == Pack(op, (rd % 64) * 2^20 + (imm20 % 2^20))

enc_b21(cond, link, off21) ==
    Pack(OP.BR, (cond % 16) * 2^22 + (link % 2) * 2^21 + (off21 % 2^21))

enc_j26(op, t26) == Pack(op, t26 % 2^26)

enc_jr(op, rd, rs1) == Pack(op, (rd % 64) * 2^20 + (rs1 % 64) * 2^14)

enc_sys(sub, payload) ==
    Pack(OP.SYS, ((payload % 2^17) * 8) + (sub % 8))

NOP == enc_r3(OP.ADD, 0, 0, 0, 0, 0)

-----------------------------------------------------------------------------
(* Taking a word apart.  cond is four bits; a branch displacement counts   *)
(* words from the next instruction; a jump keeps the top four bits of pc.  *)

decode(w) ==
    [ op    |-> Field(w, 26, 6),  rd  |-> Field(w, 20, 6),
      rs1   |-> Field(w, 14, 6),  rs2 |-> Field(w, 8, 6),
      func7 |-> Field(w, 1, 7),   f   |-> w % 2,
      imm13 |-> Signed(Field(w, 1, 13), 13),  off14 |-> Signed(w, 14),
      imm20 |-> w % 2^20,         off21 |-> Signed(w, 21),
      t26   |-> w % 2^26,         cond |-> Field(w, 22, 4),
      link  |-> Field(w, 21, 1) ]

BranchTarget(pc, d) == Add32(Add32(pc, 4), d.off21 * 4)

JumpTarget(pc, d) == (pc \div 2^28) * 2^28 + d.t26 * 4

\* The displacement the assembler stores for a branch at pc to addr: the
\* low 21 bits of (addr - pc - 4) >> 2.
BranchDisp(addr, pc) == Sub32(addr, Add32(pc, 4)) \div 4

Bytes(w) == [ k \in 0..3 |-> Field(w, 8 * k, 8) ]

\* read32: the word in four bytes, lowest first.
WordOf(b) == b[0] + b[1] * 2^8 + b[2] * 2^16 + Signed(b[3], 8) * 2^24
=============================================================================
