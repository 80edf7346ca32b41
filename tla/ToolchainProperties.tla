------------------------ MODULE ToolchainProperties ------------------------
(***************************************************************************)
(* What the assembler and the disassembler have to get right, over whole   *)
(* runs of Toolchain: from a source line to the words in the image, and    *)
(* from the image back to a source line.                                   *)
(***************************************************************************)
EXTENDS Toolchain, AsmMeaning

CONSTANT Machines           \* machine states in which meanings are compared

WordsAt(pc, n) == [k \in 1..n |-> read32(code, log_to_phy(Add32(pc, 4 * (k - 1))))]

IsInstruction(line) == line.mn \notin Directives \cup {"", "EQU", ".ORG"}

\* The tables, the image and the counters of both programs are of their
\* types and within their capacities; nothing is emitted outside the image.
TypeOK ==
    /\ at \in 1..(Len(source) + 1)
    /\ status \in {"assembling", "fixing", "written", "error",
                   "no code", "listing", "listed"}
    /\ cur_pc \in Int /\ max_phy \in 0..MAX_CODE_BYTES
    /\ \A p \in DOMAIN code : p \in 0..(max_phy - 1) /\ code[p] \in 0..255
    /\ Cardinality(DOMAIN labels \cup pending) <= MAX_LABELS
    /\ Cardinality(DOMAIN constants) <= MAX_CONSTANTS
    /\ Len(fixups) <= MAX_FIXUPS
    /\ Len(placed) = at - 1
    /\ idx <= 1 + (IF insns = << >> THEN 0 ELSE Len(insns.words))

-----------------------------------------------------------------------------
(* From source to words.                                                   *)

LastLine == source[at - 1]
LastEnv == [consts |-> constants, labels |-> labels, pc |-> placed[at - 1]]
LastWords == WordsAt(placed[at - 1], Sub32(cur_pc, placed[at - 1]) \div 4)

\* Outside the combinations of MCAsmClaims, and the constants too wide for
\* the field of a fixed-width form, an instruction that has a meaning is
\* assembled, and its words do what it says in every machine:
\* through the splitting of an address over several words, T as the only
\* scratch register, constants too wide for a field and the forms that share
\* a mnemonic (emit_mem_access, emit_alu_mem and assemble_line of
\* m65f32asm.c, against Decoder.sv).
DoesWhatItSays(m, pc, words, env, line) ==
    Same(Run(m, pc, words), Meaning(m, env, line.mn, line.args))
LoweringKeepsMeaning ==
    /\ at > 1 /\ status \in {"assembling", "fixing"} =>
         LET line == LastLine
             env == LastEnv
         IN /\ Kind(line.mn, line.args, env) # "none"
            /\ ~Divergent(env, line.mn, line.args) /\ ~CutOff(env, line.mn, line.args)
            => \A m \in Machines : DoesWhatItSays(m, placed[at - 1], LastWords, env, line)
    /\ status = "error" /\ at <= Len(source) =>
         LET line == source[at]
         IN ( /\ LabelOk(line)
              /\ Lower(Env(line), line.mn, line.args) = {}
              /\ Kind(line.mn, line.args, Env(line)) # "none" )
            => Divergent(Env(line), line.mn, line.args)

\* The lines of a finished program that transfer control to a name.
BranchNames == DOMAIN COND \cup {"BSR", "BRL"}
ControlLines ==
    { k \in DOMAIN source :
        /\ source[k].mn \in BranchNames \cup DOMAIN JumpOp
        /\ source[k].args[1].syn = "text" /\ source[k].args[1].idx = ""
        /\ source[k].args[1].e[1][2].sym \in DOMAIN labels \ DOMAIN constants }

\* A branch reaches 2^20 words either way; a jump stays in the 256 MB of its
\* own address and drops the two low bits.
Reaches(k) ==
    LET addr == labels[source[k].args[1].e[1][2].sym]
    IN IF source[k].mn \in BranchNames
       THEN BranchDisp(addr, placed[k]) \in -(2^20)..(2^20 - 1)
       ELSE addr \div 2^28 = placed[k] \div 2^28 /\ addr % 4 = 0

TargetAt(k) ==
    LET d == decode(read32(code, log_to_phy(placed[k])))
    IN IF source[k].mn \in BranchNames THEN BranchTarget(placed[k], d)
                                       ELSE JumpTarget(placed[k], d)

\* In the finished code every branch and jump to a label, forward (a fixup)
\* or backward (encoded at once), goes to the address the label ended up
\* with, exactly when its field can hold the way there (emit_branch,
\* assemble_line JMP/JSR and resolve_fixups of m65f32asm.c).
ControlReachesItsLabel ==
    status = "written" => \A k \in ControlLines :
        (TargetAt(k) = labels[source[k].args[1].e[1][2].sym]) <=> Reaches(k)

\* Lines that put the value of one label in the code as data.
NamesLabel(o) == /\ Len(o.e) = 1 /\ o.e[1][2].pre = ""
                 /\ o.e[1][2].sym \in DOMAIN labels \ DOMAIN constants
DataLines == { k \in DOMAIN source :
                 source[k].mn = ".DWORD" /\ Len(source[k].args) = 1
                 /\ NamesLabel(source[k].args[1]) }
DefinedAt(s) == CHOOSE k \in DOMAIN source : source[k].label = s /\ source[k].mn # "EQU"

\* A word of data that names a label of the same or an earlier line holds
\* its address, whatever constants and fixups come between (parse_atom of
\* m65f32asm.c; a later label is a finding of MCAsmClaims).
DataSeesEarlierLabels ==
    status = "written" => \A k \in DataLines :
        LET s == source[k].args[1].e[1][2].sym
        IN DefinedAt(s) <= k => read32(code, log_to_phy(placed[k])) = labels[s]

-----------------------------------------------------------------------------
(* From the image to its readers.                                          *)

\* The image holds the code buffer byte for byte, at the same physical
\* address, for the simulator's loadHexFile, for the disassembler's read_hex
\* and in the order in which the board hosts store words; and the
\* disassembler's end of the code leaves nothing out but fill.
ImageRoundTrip ==
    status = "written" =>
        LET sim == loadHexFile(hex)
            dis == read_hex(hex)
        IN /\ \A p \in DOMAIN code :
                /\ Bytes(sim[p \div 4])[p % 4] = code[p]
                /\ dis.code[p] = code[p]
                /\ LET l == hex.lines[p \div 16]
                   IN \E j \in 0..3 : HostIndex(j) = (p % 16) \div 4
                                      /\ Bytes(l[j + 1])[p % 4] = code[p]
           /\ \A p \in (DOMAIN dis.code) \ DOMAIN code : dis.code[p] = Fill
           /\ \A p \in DOMAIN code : p >= dis.max_phy => code[p] = Fill
           /\ max_phy <= 16 * hex.n

-----------------------------------------------------------------------------
(* From words to text, and back.                                           *)

\* What the text of a listing entry assembles to.
Reassembled(entry) ==
    LET env == [consts |-> << >>, labels |-> << >>, pc |-> entry.pc]
    IN IF entry.text.mn = ".DWORD" THEN {entry.words}
       ELSE { e.words : e \in { x \in Lower(env, entry.text.mn, entry.text.args) : x.fix = NoFix } }

\* A listing entry says what its words do: assembled again where it stands,
\* it has the effect of the words it was printed for.
SaysWhatItDoes(entry) ==
    \E words \in Reassembled(entry) :
        \A m \in Machines : Same(Run(m, entry.pc, words), Run(m, entry.pc, entry.words))

\* Text in fixed-width notation, which the assembler reads differently: it
\* knows F only by the absence of an X prefix, and no third operand of CMP.
RawAlu(entry) ==
    Len(entry.words) = 1 /\ Len(entry.text.args) >= 3
    /\ (HasRR(decode(entry.words[1]).op) \/ HasRR(decode(entry.words[1]).op - 1))

\* What the text of a pattern of two words leaves out of them.
PairLoses(a, b, mn, args) ==
    CASE a.op = OP.LUI -> b.f = 1 \/ (b.imm13 < 0 /\ a.imm20 % 2 = 0)
      [] a.op = OP.ADD ->                       \* ADD T, base, X or Y
           \/ a.f = 1
           \/ args[1].syn = "b+" /\ ( \/ b.off14 < 0
                                      \/ b.rd # (LoadReg @@ StoreReg)[mn] )
      [] a.op = OP.SHIFT_I -> a.f = 1 \/ b.f = 0
      [] OTHER -> FALSE

LosesMeaning(entry) ==
    LET nA == reg_name(REG.A)       \* read as the accumulator shifted by one
        mn == entry.text.mn
        args == entry.text.args
        d == decode(entry.words[1])
    IN CASE Len(entry.words) = 2 -> PairLoses(d, decode(entry.words[2]), mn, args)
         [] RawAlu(entry) -> d.f = 0 \/ mn \in {"CMP", "CMPI"}
         [] d.op \in {OP.SHIFT_R, OP.SHIFT_I} ->
              Len(args) >= 3 /\ << mn, d.f, args[1], args[2], args[3] >>
                                 \notin { << k, 1, nA, nA, HashNumber(1) >> : k \in DOMAIN SH }
         [] d.op \in {OP.MUL, OP.DIV, OP.XFER} -> d.f = 1
         [] d.op \in {OP.LD, OP.ST} -> args[1].syn = "b+" /\ d.off14 < 0
         [] d.op = OP.BR -> d.cond > 8 \/ (d.link = 1 /\ d.cond # COND.BRA)
         [] d.op \in {OP.JMP_ABS, OP.JSR_ABS} -> JumpTarget(entry.pc, d) \in 0..255
         [] d.op = OP.RTS -> d.rs1 # REG.T
         [] d.op = OP.STACK -> TRUE
         [] d.op = OP.SYS -> d.imm20 % 8 > SYSOP.STP
         [] OTHER -> FALSE

\* An XOR in fixed-width notation is read as an OR (LoweringKeepsMeaning),
\* which differs or not with the values.
XorText(entry) == RawAlu(entry) /\ entry.text.mn \in {"XOR", "XORI"}

\* Outside the losses of MCListing, every entry of every listing, raw or
\* folded from two words, assembles to words of the same effect: a pattern
\* takes no word it does not match, and each field is printed as the
\* assembler reads it (dis_raw and match_traditional of m65f32dis.c against
\* assemble_line).
ListingSaysWhatItDoes ==
    \A k \in DOMAIN listing :
        XorText(listing[k]) \/ LosesMeaning(listing[k]) \/ SaysWhatItDoes(listing[k])
=============================================================================
