----------------------------- MODULE MCAsmClaims -----------------------------
(* Lines of the repository's assembler tests, and lines in the syntax that *)
(* m65f32asm.c says it takes, each with the place of the comment that says *)
(* what it does.  The last one is refused, which ends the program.         *)
EXTENDS ToolchainProperties

Claim(says, mn, args) == [says |-> says, line |-> [label |-> "", mn |-> mn, args |-> args]]
At(label, claim) == [claim EXCEPT !.line.label = label]

reg(n) == Operand("text", Rn(n), "")
nm(s) == Operand("text", Name(s), "")
dp(v) == Operand("num", Lit(v), "")
imm(v) == Operand("imm", Lit(v), "")
inX(o) == [o EXCEPT !.idx = "X"]
pointer(v) == Operand("paren", Lit(v), "")

Claims == <<
    Claim("BasicALU/test.asm:43  R11 = 0xFF | 0x0F", "OR", << reg(11), reg(8), reg(9) >>),
    Claim("BasicALU/test.asm:44  R12 = 0xFF ^ 0x0F", "XOR", << reg(12), reg(8), reg(9) >>),
    Claim("Compat/test.asm:209  R8 = R1 ^ R2", "XOR", << reg(8), reg(1), reg(2) >>),
    Claim("Compat/test.asm:225  LSR", "LSR", << >>),
    Claim("Compat/test.asm:226  ROL, rotate left", "ROL", << >>),
    Claim("Compat/test.asm:233  R23 = R1 rotated left 8", "ROL", << reg(23), reg(1), imm(8) >>),
    Claim("Compat/test.asm:234  R24 = R1 rotated right 8", "ROR", << reg(24), reg(1), imm(8) >>),
    Claim("m65f32asm.c:1014  SHR Rd, Rs1, #imm, Rd = A", "SHR", << nm("A"), reg(20), imm(2) >>),
    Claim("m65f32asm.c:1230  INC $10", "INC", << dp(16) >>),
    Claim("m65f32asm.c:1230  INC $10,X", "INC", << inX(dp(16)) >>),
    Claim("m65f32asm.c:1029  LSR ($12), read-modify-write", "LSR", << pointer(18) >>),
    Claim("m65f32asm.c:1460  TSB $10, test and set bits", "TSB", << dp(16) >>),
    Claim("m65f32asm.c:1460  TSB $2328, test and set bits", "TSB", << dp(9000) >>),
    Claim("m65f32asm.c:1470  TRB $10, [addr] &= ~A", "TRB", << dp(16) >>),
    Claim("m65f32asm.c:1519  XBA, swap low bytes of A", "XBA", << >>),
    Claim("m65f32asm.c:1543  PEI ($10), push the value at the dp address", "PEI", << pointer(16) >>),
    Claim("m65f32asm.c:1606  LDA.B $10, byte masking", "LDA.B", << dp(16) >>),
    Claim("m65f32asm.c:1606  STA.B $10, byte masking", "STA.B", << dp(16) >>),
    Claim("m65f32asm.c:1672  CMP.B $10, compare with masking", "CMP.B", << dp(16) >>),
    Claim("m65f32asm.c:1740  XADC $10, flagless", "XADC", << dp(16) >>),
    Claim("m65f32asm.c:9  XINC $10, lowered", "XINC", << dp(16) >>),
    Claim("Compat/test.asm:6  AND #255", "AND", << imm(255) >>),
    Claim("Compat/test.asm:6  AND #-5", "AND", << imm(-5) >>),
    Claim("Compat/test.asm:6  BIT #$12345678", "BIT", << imm(305419896) >>),
    Claim("Compat/test.asm:6  LDA ($2328)", "LDA", << pointer(9000) >>),
    Claim("m65f32asm.c:480  .dword of a label on a later line", ".DWORD", << nm("later") >>),
    At("later", Claim("m65f32asm.c:480  .dword of a label on its line", ".DWORD", << nm("later") >>)),
    Claim("Compat/test.asm:3  CMP $10,X, accepted", "CMP", << inX(dp(16)) >>) >>

VARIABLE diverging      \* the lines found not to do what they say

EnvOf(k) == [consts |-> constants, labels |-> labels, pc |-> placed[k]]
WordsOf(k) == WordsAt(placed[k], Sub32(Append(placed, cur_pc)[k + 1], placed[k]) \div 4)

Diverges(k) ==
    IF k \in DataLines THEN WordsOf(k) # << labels[source[k].args[1].e[1][2].sym] >>
    ELSE \E m \in Machines : ~DoesWhatItSays(m, placed[k], WordsOf(k), EnvOf(k), source[k])

Refused == IF status = "error" THEN {at} ELSE {}
Diverging == { Claims[k].says : k \in { j \in DOMAIN placed : Diverges(j) } \cup Refused }

\* The assembler is done: its words are compared with what the lines say.
Compare ==
    /\ status \in {"written", "error"}
    /\ \E lines \in {Diverging} : diverging' = lines
    /\ UNCHANGED vars

ClaimsSpec == Init /\ diverging = {}
              /\ [][(Next /\ UNCHANGED diverging) \/ Compare]_<< vars, diverging >>

(* "Every syntax pattern accepted by the original m65832as assembler in    *)
(* 32-bit mode (W=11) must assemble correctly here. [...] the semantics    *)
(* must be equivalent" (Compat/test.asm:3-7): every line is assembled, and *)
(* its words do what the line says, by the comment at its place.           *)
CompatibleSemantics == diverging = {}

Machine(f) == [ r |-> [n \in 0..63 |-> IF n = 0 THEN 0 ELSE f[n]], mem |-> << >>,
                fl |-> << >>, next |-> << >> ]
MCMachines == { Machine([n \in 1..63 |-> 1000003 * n + 5]),
                Machine([n \in 1..63 |-> -(7654321 * n) + 2]) }
MCPrograms == { [k \in DOMAIN Claims |-> Claims[k].line] }
MCStarts == {ROM_BASE}
=============================================================================
