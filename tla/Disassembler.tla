---------------------------- MODULE Disassembler ----------------------------
(***************************************************************************)
(* What m65f32dis.c prints for an instruction, as the [mn, args] the       *)
(* assembler would read from that text: dis_raw for one word, and          *)
(* match_traditional, which folds one or two words into a 65xx             *)
(* instruction and falls back to dis_raw.                                  *)
(***************************************************************************)
EXTENDS AsmLowering

Text(mn, args) == [mn |-> mn, args |-> args]

AliasOf == [ r \in 56..63 |-> CHOOSE s \in DOMAIN REG : REG[s] = r ]
reg_name(r) == Operand("text", IF r >= 56 THEN Name(AliasOf[r]) ELSE Rn(r), "")
Window(r) == Operand("text", Rn(r), "")             \* "R%d", whatever r is
Number(v) == Operand(IF v < 0 THEN "numhi" ELSE "num", Lit(v), "")
HashNumber(v) == Operand("imm", Lit(v), "")
Bracket(base, off) ==
    Operand("bracket", reg_name(base).e \o << <<"+", Atom("", "", off)>> >>, "")
BPlus(off, idx) == Operand("b+", Lit(off % 2^16), idx)

FlagF(d) == IF d.f = 1 THEN << Operand("text", Name("F"), "") >> ELSE << >>
Regs3(d) == << reg_name(d.rd), reg_name(d.rs1), reg_name(d.rs2) >>
Regs2(d) == << reg_name(d.rd), reg_name(d.rs1) >>

\* The name of the field of a table that holds v.
KeyOf(table, v) == CHOOSE k \in DOMAIN table : table[k] = v
RRNames == {"ADD", "SUB", "AND", "OR", "XOR", "SLT", "SLTU", "CMP"}
HasRR(op) == \E k \in RRNames : OP[k] = op
RRName(op) == CHOOSE k \in RRNames : OP[k] = op

ShiftName(kind) == IF kind < 5 THEN KeyOf(SH, kind) ELSE "SH?"

DisBranch(d, pc) ==
    Text(CASE d.cond > 8 -> "B??"
           [] d.link = 1 -> "BSR"
           [] OTHER -> KeyOf(COND, d.cond),
         << Number(BranchTarget(pc, d)) >>)

DisSys(d) ==
    LET sub == d.imm20 % 8
    IN CASE sub = SYSOP.TRAP -> Text("TRAP", << HashNumber(d.imm20 \div 8) >>)
         [] sub <= SYSOP.STP -> Text(KeyOf(SYSOP, sub), << >>)
         [] OTHER -> Text("SYS", << HashNumber(sub), Number(d.imm20 \div 8) >>)

DisDecoded(w, pc, d) ==
    LET op == d.op
    IN CASE HasRR(op) -> Text(RRName(op), Regs3(d) \o FlagF(d))
         [] op \in {OP.MUL, OP.DIV} -> Text(KeyOf(OP, op), Regs3(d) \o FlagF(d))
         [] op = OP.XFER -> Text("MOV", Regs2(d) \o FlagF(d))
         [] HasRR(op - 1) ->
              Text(RRName(op - 1) \o "I",
                   Regs2(d) \o << HashNumber(d.imm13) >> \o FlagF(d))
         [] op = OP.SHIFT_R -> Text(ShiftName(d.func7 % 8), Regs3(d) \o FlagF(d))
         [] op = OP.SHIFT_I ->
              Text(ShiftName(Field(w, 11, 3)),
                   Regs2(d) \o << HashNumber(Field(w, 1, 5)) >> \o FlagF(d))
         [] op \in {OP.LD, OP.ST} ->
              Text(KeyOf(OP, op), << reg_name(d.rd), Bracket(d.rs1, d.off14) >>)
         [] op \in {OP.LUI, OP.AUIPC} ->
              Text(KeyOf(OP, op), << reg_name(d.rd), Number(d.imm20) >>)
         [] op = OP.BR -> DisBranch(d, pc)
         [] op = OP.JMP_ABS -> Text("JMP", << Number(JumpTarget(pc, d)) >>)
         [] op = OP.JSR_ABS -> Text("JSR", << Number(JumpTarget(pc, d)) >>)
         [] op = OP.JMP_REG -> Text("JMP.REG", << reg_name(d.rs1) >>)
         [] op = OP.JSR_REG -> Text("JSR.REG", Regs2(d))
         [] op = OP.RTS -> Text("RTS", << >>)
         [] op = OP.SYS -> DisSys(d)
         [] op = OP.STACK -> Text(IF Field(w, 25, 1) = 1 THEN "PULL" ELSE "PUSH",
                                  << reg_name(Field(w, 19, 6)) >>)
         [] OTHER -> Text(".DWORD", << Number(w) >>)
dis_raw(w, pc) == DisDecoded(w, pc, decode(w))

-----------------------------------------------------------------------------
(* Patterns of one word, by opcode; {} when none applies.  A result is     *)
(* [text, n]: the words consumed.                                          *)

One(mn, args) == { [text |-> Text(mn, args), n |-> 1] }
Two(mn, args) == { [text |-> Text(mn, args), n |-> 2] }

IsGpr(r) == r \in 1..55

\* Fault for mutation: the left operand is not looked at.
OnA_Destination(d) == d.rd = REG.A

OnA(d) == d.rd = REG.A /\ d.rs1 = REG.A
NamedTransfer(d) ==
    { mn \in DOMAIN Transfer :
        REG[Transfer[mn][1]] = d.rd /\ REG[Transfer[mn][2]] = d.rs1 }

MatchXfer(d) ==
    CASE NamedTransfer(d) # {} -> One(CHOOSE mn \in NamedTransfer(d) : TRUE, << >>)
      [] d.rd = REG.A /\ d.rs1 <= 55 -> One("LDA", << Window(d.rs1) >>)
      [] d.rs1 = REG.A /\ d.rd <= 55 -> One("STA", << Window(d.rd) >>)
      [] OTHER -> One("MOV", Regs2(d))

\* LDA/LDX/LDY of a constant, or LD of another register from B + off.
LoadName(r) == KeyOf(LoadReg, r)
IsLoadReg(r) == \E k \in DOMAIN LoadReg : LoadReg[k] = r
StoreName(r) == KeyOf(StoreReg, r)
IsStoreReg(r) == \E k \in DOMAIN StoreReg : StoreReg[k] = r

MatchMem(d) ==
    CASE d.op = OP.LD /\ d.rs1 = REG.B /\ IsLoadReg(d.rd) ->
           One(LoadName(d.rd), << BPlus(d.off14, "") >>)
      [] d.op = OP.ST /\ d.rs1 = REG.B /\ IsStoreReg(d.rd) ->
           One(StoreName(d.rd), << BPlus(d.off14, "") >>)
      [] d.rs1 = REG.B -> One(KeyOf(OP, d.op), << reg_name(d.rd), Bracket(REG.B, d.off14) >>)
      [] d.op = OP.LD /\ d.rd = REG.A /\ d.off14 = 0 /\ IsGpr(d.rs1) ->
           One("LDA", << Operand("paren", Rn(d.rs1), "") >>)
      [] OTHER -> {}

AccName == [ ADC |-> OP.ADD, SBC |-> OP.SUB, AND |-> OP.AND, ORA |-> OP.OR,
             EOR |-> OP.XOR ]
IsAccOp(op) == \E k \in DOMAIN AccName : AccName[k] = op
CompareName == [ CMP |-> REG.A, CPX |-> REG.X, CPY |-> REG.Y ]

\* OP A, A, Rn with flags; CMP R0, A, Rn.
MatchRegister(d) ==
    CASE d.f = 1 /\ IsGpr(d.rs2) /\ IsAccOp(d.op) /\ OnA(d) ->
           One(KeyOf(AccName, d.op), << Window(d.rs2) >>)
      [] d.f = 1 /\ IsGpr(d.rs2) /\ d.op = OP.CMP /\ d.rd = 0 /\ d.rs1 = REG.A ->
           One("CMP", << Window(d.rs2) >>)
      [] d.f = 1 /\ d.op = OP.AND /\ d.rd = 0 /\ d.rs1 = REG.A ->
           One("BIT", << Window(d.rs2) >>)
      [] OTHER -> {}

ByOne == [ INX |-> << OP.ADD, REG.X >>, DEX |-> << OP.SUB, REG.X >>,
           INY |-> << OP.ADD, REG.Y >>, DEY |-> << OP.SUB, REG.Y >>,
           INC |-> << OP.ADD, REG.A >>, DEC |-> << OP.SUB, REG.A >> ]
HasByOne(d) == \E k \in DOMAIN ByOne : ByOne[k] = << d.op - 1, d.rd >>

\* Increments before the generic forms; a logic immediate is printed
\* without its sign.
MatchImmediate(d) ==
    LET op == d.op - 1
        inPlace == d.rd = d.rs1 /\ d.imm13 = 1 /\ op \in {OP.ADD, OP.SUB}
        imm == IF op \in {OP.ADD, OP.SUB, OP.CMP} THEN d.imm13 ELSE d.imm13 % 2^13
    IN CASE d.f = 0 /\ op = OP.ADD /\ d.rs1 = 0 /\ IsLoadReg(d.rd) ->
              One(LoadName(d.rd), << HashNumber(d.imm13) >>)
         [] d.f = 0 -> {}
         [] inPlace /\ HasByOne(d) -> One(KeyOf(ByOne, << op, d.rd >>), << >>)
         [] inPlace /\ IsGpr(d.rd) ->
              One(IF op = OP.ADD THEN "INC" ELSE "DEC", << Window(d.rd) >>)
         [] IsAccOp(op) /\ OnA(d) -> One(KeyOf(AccName, op), << HashNumber(imm) >>)
         [] op = OP.CMP /\ d.rd = 0 /\ \E k \in DOMAIN CompareName : CompareName[k] = d.rs1 ->
              One(KeyOf(CompareName, d.rs1), << HashNumber(imm) >>)
         [] op = OP.AND /\ d.rd = 0 /\ d.rs1 = REG.A -> One("BIT", << HashNumber(imm) >>)
         [] op = OP.AND /\ imm = 255 -> One("ZEXT8", Regs2(d))
         [] OTHER -> {}

MatchShift(w, d) ==
    LET kind == Field(w, 11, 3)
        name == CASE kind = SH.SHL -> "ASL" [] kind = SH.SHR -> "LSR"
                  [] kind = SH.ROL -> "ROL" [] OTHER -> "ROR"
    IN IF d.rd # d.rs1 \/ d.f = 0 \/ Field(w, 1, 5) # 1 \/ kind \notin {0, 1, 3, 4} THEN {}
       ELSE One(name, IF d.rd = REG.A THEN << >> ELSE << Window(d.rd) >>)

MatchDecoded(w, d) ==
    CASE w = NOP \/ (d.op = OP.ADD /\ d.rd = 0 /\ d.rs1 = 0 /\ d.rs2 = 0 /\ d.f = 0) ->
           One("NOP", << >>)
      [] d.op = OP.XFER /\ d.f = 0 -> MatchXfer(d)
      [] d.op \in {OP.LD, OP.ST} -> MatchMem(d)
      [] HasRR(d.op) -> MatchRegister(d)
      [] HasRR(d.op - 1) -> MatchImmediate(d)
      [] d.op = OP.SHIFT_I -> MatchShift(w, d)
      [] OTHER -> {}
MatchOne(w) == MatchDecoded(w, decode(w))

-----------------------------------------------------------------------------
(* Patterns of two words.  The ones that start with LUI, SUBI SP, LD [SP]  *)
(* come before the one-word patterns of their first word apply; no other   *)
(* first word has both.                                                    *)

SpBy4(d, op) ==
    d.op = Imm(op) /\ d.rd = REG.SP /\ d.rs1 = REG.SP /\ d.imm13 = 4 /\ d.f = 0
AtSp(d, op) == d.op = op /\ d.rs1 = REG.SP /\ d.off14 = 0
StackName(table, r) == { k \in DOMAIN table : table[k] = r /\ r # 0 }
StackText(table, generic, r) ==
    IF StackName(table, r) # {} THEN Two(CHOOSE k \in StackName(table, r) : TRUE, << >>)
    ELSE Two(generic, << reg_name(r) >>)

\* LUI rd; ORI rd, rd: the constant keeps 12 of the 13 bits of the ORI and
\* forgets its flag bit.
MatchConst(a, b) ==
    IF a.op = OP.LUI /\ b.op = Imm(OP.OR) /\ b.rd = a.rd /\ b.rs1 = a.rd /\ IsLoadReg(a.rd)
    THEN Two(LoadName(a.rd),
             << HashNumber(Signed(a.imm20, 20) * 2^12 + (b.imm13 % 2^12)) >>)
    ELSE {}

MatchStack(a, b) ==
    CASE SpBy4(a, OP.SUB) /\ AtSp(b, OP.ST) -> StackText(PushName, "PUSH", b.rd)
      [] AtSp(a, OP.LD) /\ SpBy4(b, OP.ADD) -> StackText(PullName, "PULL", a.rd)
      [] OTHER -> {}

IntoT(a, idx) == a.op = OP.ADD /\ a.rd = REG.T /\ a.rs2 = REG[idx]

\* ADD T, B, X before LD or ST off[T]: the mnemonic follows the data
\* register for X and Y with index X, and is LDA or STA otherwise.
IndexedName(op, r, idx) ==
    LET reg == CASE r = REG.X /\ idx = "X" -> "X" [] r = REG.Y /\ idx = "X" -> "Y"
                 [] OTHER -> "A"
    IN KeyOf(OP, op) \o reg

MatchIndexed(a, b, idx) ==
    LET loadA == b.op = OP.LD /\ b.rd = REG.A /\ b.rs1 = REG.T /\ b.off14 = 0
    IN CASE ~IntoT(a, idx) -> {}
         [] loadA /\ a.rs1 <= 55 ->
              Two("LDA", << Operand("paren", Rn(a.rs1), IF idx = "X" THEN "inX" ELSE "Y") >>)
         [] a.rs1 = REG.B /\ b.op \in {OP.LD, OP.ST} /\ b.rs1 = REG.T ->
              Two(IndexedName(b.op, b.rd, idx), << BPlus(b.off14, idx) >>)
         [] OTHER -> {}

MatchExtend(w, a, v, b) ==
    LET names == { k \in DOMAIN Extend :
                     /\ Field(w, 11, 3) = SH.SHL /\ Field(w, 1, 5) = Extend[k][2]
                     /\ Field(v, 11, 3) = Extend[k][1] /\ Field(v, 1, 5) = Extend[k][2] }
    IN IF /\ a.op = OP.SHIFT_I /\ b.op = OP.SHIFT_I
          /\ b.rs1 = a.rd /\ b.rd = a.rd /\ names # {}
       THEN Two(CHOOSE k \in names : TRUE, Regs2(a))
       ELSE {}

MatchTwo(w, v) ==
    LET a == decode(w)
        b == decode(v)
    IN MatchConst(a, b) \cup MatchStack(a, b) \cup MatchIndexed(a, b, "X")
       \cup MatchIndexed(a, b, "Y") \cup MatchExtend(w, a, v, b)

\* words: the instructions from pc to the end of the listing, at least one.
Preferred(two, one, raw) == CASE two # {} -> CHOOSE x \in two : TRUE
                              [] one # {} -> CHOOSE x \in one : TRUE
                              [] OTHER -> [text |-> raw, n |-> 1]
match_traditional(words, pc) ==
    Preferred(IF Len(words) >= 2 THEN MatchTwo(words[1], words[2]) ELSE {},
              MatchOne(words[1]), dis_raw(words[1], pc))
=============================================================================
