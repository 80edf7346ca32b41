------------------------------ MODULE HexImage ------------------------------
(***************************************************************************)
(* The hex image of a program (code.hex): what m65f32asm writes and what   *)
(* its three readers take from it: the simulator's loadHexFile, the        *)
(* disassembler's read_hex, and the word order of the two board hosts.     *)
(*                                                                         *)
(* A line of text is 16 bytes of memory, its four words highest first.  A  *)
(* memory is a function on the byte addresses that were written; the       *)
(* others hold the fill byte, and an image leaves out the lines that are   *)
(* all fill.                                                               *)
(***************************************************************************)
EXTENDS M65Words, FiniteSets, TLC

RAM_BASE_PHY == 65536
MAX_CODE_BYTES == 524288
Fill == 205
FillWord == WordOf([k \in 0..3 |-> Fill])

ByteAt(mem, p) == IF p \in DOMAIN mem THEN mem[p] ELSE Fill
read32(mem, p) == WordOf([k \in 0..3 |-> ByteAt(mem, p + k)])
patch32(mem, p, w) == [q \in p..(p + 3) |-> Bytes(w)[q - p]] @@ mem

-----------------------------------------------------------------------------
(* write_hex: whole lines up to the end of the code, and at least one line *)
(* of RAM.                                                                 *)

\* Fault for mutation: the lowest word of a line first.
HexLine_LowFirst(mem, a) ==
    << read32(mem, a), read32(mem, a + 4), read32(mem, a + 8), read32(mem, a + 12) >>

HexLine(mem, a) ==
    << read32(mem, a + 12), read32(mem, a + 8), read32(mem, a + 4), read32(mem, a) >>

HexLines(max) ==
    LET n == (max + 15) \div 16
        least == RAM_BASE_PHY \div 16 + 1
    IN IF n < least THEN least ELSE n

write_hex(mem, max) ==
    [ n |-> HexLines(max),
      lines |-> [l \in {p \div 16 : p \in DOMAIN mem} |-> HexLine(mem, l * 16)] ]

-----------------------------------------------------------------------------
(* The readers.                                                            *)

WordAddresses(hex) == { 4 * l + i : l \in DOMAIN hex.lines, i \in 0..3 }

\* Main memory of the simulation, in words: word i of a line is the text at
\* column (3 - i) * 8.
loadHexFile(hex) ==
    [a \in WordAddresses(hex) |-> hex.lines[a \div 4][(3 - (a % 4)) + 1]]

\* sscanf fills w[3], w[2], w[1], w[0] in this order; max_phy is the end of
\* the last word that is not fill.
ScannedInto == << 3, 2, 1, 0 >>
WordOfLine(line, i) == line[CHOOSE k \in 1..4 : ScannedInto[k] = i]

read_hex(hex) ==
    LET mem == [p \in UNION {(4 * a)..(4 * a + 3) : a \in WordAddresses(hex)} |->
                    Bytes(WordOfLine(hex.lines[p \div 16], (p % 16) \div 4))[p % 4]]
        ends == { 4 * a + 4 : a \in {b \in WordAddresses(hex) : read32(mem, 4 * b) # FillWord} }
    IN [ code |-> mem,
         max_phy |-> IF ends = {} THEN 0
                     ELSE CHOOSE e \in ends : \A d \in ends : d <= e ]

\* The hosts of the board read the text eight characters at a time: the
\* j-th word read goes to offset + k, where k counts down from 3.
HostIndex(j) == 4 * (j \div 4) + (3 - (j % 4))
=============================================================================
