------------------------------ MODULE MCListing ------------------------------
(* A program of one instruction per pattern of the disassembler and its     *)
(* neighbours, assembled by m65f32asm and listed whole by m65f32dis.        *)
EXTENDS ToolchainProperties

Source(text, mn, args) == [text |-> text, line |-> [label |-> "", mn |-> mn, args |-> args]]

reg(n) == Operand("text", Rn(n), "")
b(v, i) == Operand("b+", Lit(v), i)
imm(v) == Operand("imm", Lit(v), "")
num(v) == Operand("num", Lit(v), "")

Lines == <<
    Source("LDA #$12345678", "LDA", << imm(305419896) >>),
    Source("LDA R1", "LDA", << reg(1) >>),
    Source("ADC R2", "ADC", << reg(2) >>),
    Source("LDA (R10,X)", "LDA", << Operand("paren", Rn(10), "inX") >>),
    Source("PHA", "PHA", << >>),
    Source("LDA B+8", "LDA", << b(8, "") >>),
    Source("LDA B+-4", "LDA", << b(-4, "") >>),
    Source("STX B+-4", "STX", << b(-4, "") >>),
    Source("STA B+8,X", "STA", << b(8, "X") >>),
    Source("STA B+-4,X", "STA", << b(-4, "X") >>),
    Source("STZ B+8,X", "STZ", << b(8, "X") >>),
    Source("ST R3, B+8,X", "ST", << reg(3), b(8, "X") >>),
    Source("LDX B+8,Y", "LDX", << b(8, "Y") >>),
    Source("STY B+8,Y", "STY", << b(8, "Y") >>),
    Source("ADD R1, R2, R3", "ADD", << reg(1), reg(2), reg(3) >>),
    Source("XADD R1, R2, R3", "XADD", << reg(1), reg(2), reg(3) >>),
    Source("CMP R1, R2", "CMP", << reg(1), reg(2) >>),
    Source("SHL R3, R2, #4", "SHL", << reg(3), reg(2), imm(4) >>),
    Source("JSR $2000", "JSR", << num(8192) >>),
    Source("JSL $40", "JSL", << num(64) >>) >>

VARIABLE lost           \* the lines whose listing says something else

EntriesOf(k) == { e \in {listing[j] : j \in DOMAIN listing} : e.pc = placed[k] }
Lost == { Lines[k].text : k \in { j \in DOMAIN Lines : ~ \E e \in EntriesOf(j) : SaysWhatItDoes(e) } }

\* The whole program has been listed in traditional notation.
WholeListing == status = "listed" /\ ~insns.raw /\ 4 * Len(insns.words) = cur_pc - ROM_BASE

Compare ==
    /\ WholeListing
    /\ \E lines \in {Lost} : lost' = lines
    /\ UNCHANGED vars

ListingSpec == Init /\ lost = {} /\ [][(Next /\ UNCHANGED lost) \/ Compare]_<< vars, lost >>

(* The disassembler "recognizes multi-instruction sequences emitted by the *)
(* assembler [...] and reconstructs the original high-level notation"      *)
(* (m65f32dis.c:4-7): each listed instruction, assembled again, has the    *)
(* effect of the line it was assembled from.                               *)
ReconstructsNotation == lost = {}

Machine(f) == [ r |-> [n \in 0..63 |-> IF n = 0 THEN 0 ELSE f[n]], mem |-> << >>,
                fl |-> << >>, next |-> << >> ]
MCMachines == { Machine([n \in 1..63 |-> 1000003 * n + 5]),
                Machine([n \in 1..63 |-> -(7654321 * n) + 2]) }
MCPrograms == { [k \in DOMAIN Lines |-> Lines[k].line] }
MCStarts == {ROM_BASE}
=============================================================================
