------------------------------ MODULE Toolchain ------------------------------
(***************************************************************************)
(* The assembler and the disassembler as programs: m65f32asm reads its     *)
(* source line by line into a code buffer, resolves its fixups and writes  *)
(* the hex image; m65f32dis reads the image back and lists it.             *)
(*                                                                         *)
(* A source line is [label, mn, args]; label is "" for none and mn is ""   *)
(* for a label alone.  The code buffer, and every reading of the image, is *)
(* a function on the physical byte addresses that were written: the others *)
(* hold the fill byte.  placed records, for the properties only, the value *)
(* of cur_pc at each line.                                                 *)
(***************************************************************************)
EXTENDS Disassembler, HexImage

CONSTANTS Programs,         \* the sources to assemble
          MAX_LABELS,       \* size of the label table
          MAX_CONSTANTS,    \* size of the constant table (MAX_LABELS in the code)
          MAX_FIXUPS,       \* size of the fixup table
          Starts,           \* start addresses given to the disassembler
          MaxListing        \* bound: instructions of one listing

VARIABLES source, at, cur_pc, code, max_phy, labels, pending, constants,
          fixups, status, hex, insns, idx, listing, placed

asmVars == << source, at, cur_pc, code, max_phy, labels, pending, constants, fixups, placed >>
disVars == << insns, idx, listing >>
vars == << asmVars, status, hex, disVars >>

ROM_BASE == 4096
RAM_BASE_LOG == MinInt
RAM_SIZE == 262144

log_to_phy(la) == IF la < RAM_BASE_LOG + RAM_SIZE THEN RAM_BASE_PHY + (la - RAM_BASE_LOG)
                                                  ELSE la

-----------------------------------------------------------------------------
(* What a line puts in the buffer: a sequence of <<size, value>> items.    *)

ByteItem(v) == << 1, v % 256 >>
WordItem(v) == << 4, v >>

\* emit8 and emit32 on [ok, pc, code, max]; ok is FALSE once one has failed.
Put(s, item) ==
    LET p == log_to_phy(s.pc)
        n == item[1]
    IN [ ok |-> s.ok, pc |-> Add32(s.pc, n),
         code |-> [q \in p..(p + n - 1) |-> Bytes(item[2])[q - p]] @@ s.code,
         max |-> IF p + n > s.max THEN p + n ELSE s.max ]

\* Fault for mutation: the end of the buffer is not checked.
EmitItem_NoBound(s, item) == IF s.ok THEN Put(s, item) ELSE s

EmitItem(s, item) ==
    IF s.ok /\ log_to_phy(s.pc) + item[1] - 1 \in 0..(MAX_CODE_BYTES - 1)
    THEN Put(s, item) ELSE [s EXCEPT !.ok = FALSE]

EmitAll(s, items) == FoldLeft(EmitItem, s, items)

Values(env, args) == [k \in DOMAIN args |-> parse_expr(env, args[k].e)]
Split(v, n) == [k \in 1..n |-> ByteItem(Field(v, 8 * (k - 1), 8))]
DataBytes == (".BYTE" :> 1) @@ (".WORD" :> 2) @@ (".LONG" :> 3)
Zeros(n) == [k \in 1..n |-> ByteItem(0)]
Ignored == {".EQU", ".END", ".TEXT", ".DATA", ".M32", ".A32", ".X32"}

Directive(env, mn, args) ==
    LET v == Values(env, args)
    IN CASE mn \in DOMAIN DataBytes ->
              FlattenSeq([k \in DOMAIN v |-> Split(v[k], DataBytes[mn])])
         [] mn = ".DWORD" -> [k \in DOMAIN v |-> WordItem(v[k])]
         [] mn = ".DS" -> Zeros(v[1])
         [] mn = ".ALIGN" -> Zeros(IF v[1] <= 0 THEN 0 ELSE (v[1] - (env.pc % v[1])) % v[1])
         [] OTHER -> << >>
Directives == DOMAIN DataBytes \cup {".DWORD", ".DS", ".ALIGN"} \cup Ignored

\* Names that the line adds to the label table without defining them.
ExprMnemonics == {"LUI", "AUIPC", "PEA", "PER", "TRAP", "COP"} \cup NopWithOperand
                 \cup { alu_tbl[i].mn[k] : i \in DOMAIN alu_tbl, k \in {2, 4} }
Named(env, line, fix) ==
    LET read == { k \in DOMAIN line.args :
                    \/ line.args[k].syn # "text"
                    \/ line.mn \in Directives
                    \/ line.mn \in ExprMnemonics /\ parse_register(line.args[k]) = {} }
    IN UNION { Mentions(env, line.args[k].e) : k \in read }
       \cup (IF fix = NoFix THEN {} ELSE {fix.label})

-----------------------------------------------------------------------------

Init ==
    /\ source \in Programs
    /\ at = 1 /\ cur_pc = ROM_BASE /\ max_phy = 0
    /\ code = << >> /\ labels = << >> /\ constants = << >>
    /\ pending = {} /\ fixups = << >> /\ placed = << >>
    /\ status = "assembling"
    /\ hex = << >> /\ insns = << >> /\ idx = 1 /\ listing = << >>

\* error() and the tables' checks end the program without an image.
Fail == status' = "error" /\ UNCHANGED << asmVars, hex, disVars >>

NextLine ==
    /\ at' = at + 1
    /\ placed' = Append(placed, cur_pc)
    /\ status' = IF at = Len(source) THEN "fixing" ELSE "assembling"
    /\ UNCHANGED << source, hex, disVars >>

LabelRoom(names) == Cardinality(DOMAIN labels \cup pending \cup names) <= MAX_LABELS

\* The label of a line: a duplicate, or one more than the table holds, fails.
LabelOk(line) == line.label = "" \/ ( /\ line.label \notin DOMAIN labels
                                      /\ LabelRoom({line.label}) )
LabelsAfter(line) == IF line.label = "" THEN labels ELSE (line.label :> cur_pc) @@ labels

Env(line) == [consts |-> constants, labels |-> LabelsAfter(line), pc |-> cur_pc]

\* name = expr.  The table is checked before the name is looked up, so that
\* a full table refuses a redefinition too.
AssembleEqu ==
    /\ status = "assembling"
    /\ LET line == source[at]
           env == [consts |-> constants, labels |-> labels, pc |-> cur_pc]
           names == Mentions(env, line.args[1].e)
       IN /\ line.mn = "EQU"
          /\ IF Cardinality(DOMAIN constants) >= MAX_CONSTANTS \/ ~LabelRoom(names)
             THEN Fail
             ELSE /\ constants' = (line.label :> parse_expr(env, line.args[1].e)) @@ constants
                  /\ pending' = pending \cup names
                  /\ NextLine
                  /\ UNCHANGED << cur_pc, code, max_phy, labels, fixups >>

\* .ORG expr, or *= expr
AssembleOrg ==
    /\ status = "assembling"
    /\ LET line == source[at]
           names == Mentions(Env(line), line.args[1].e)
       IN /\ line.mn = ".ORG"
          /\ IF ~LabelOk(line) \/ ~LabelRoom(names \cup ({line.label} \ {""})) THEN Fail
             ELSE /\ labels' = LabelsAfter(line)
                  /\ pending' = pending \cup names
                  /\ cur_pc' = parse_expr(Env(line), line.args[1].e)
                  /\ NextLine
                  /\ UNCHANGED << code, max_phy, constants, fixups >>

\* The emission of a line: the items, and the fixup of its first word.
Emission(env, line) ==
    CASE line.mn = "" -> { Result(<< >>, NoFix) }
      [] line.mn \in Directives -> { Result(Directive(env, line.mn, line.args), NoFix) }
      [] OTHER -> { Result([k \in DOMAIN e.words |-> WordItem(e.words[k])], e.fix) :
                    e \in Lower(env, line.mn, line.args) }

\* What a line does: the buffer after it, the names it adds to the label
\* table and its fixup; none when an error or a full table ends the program.
Buffer == [ok |-> TRUE, pc |-> cur_pc, code |-> code, max |-> max_phy]
Effect(env, line, e) ==
    [ s |-> EmitAll(Buffer, e.words),
      names |-> Named(env, line, e.fix),
      fix |-> IF e.fix = NoFix THEN << >>
              ELSE << [f |-> e.fix, pc |-> cur_pc, code_offset |-> log_to_phy(cur_pc)] >> ]

Effects(env, line) ==
    { x \in { Effect(env, line, e) : e \in Emission(env, line) } :
        /\ LabelOk(line)
        /\ LabelRoom(x.names \cup ({line.label} \ {""}))
        /\ Len(fixups \o x.fix) <= MAX_FIXUPS
        /\ x.s.ok }

Assemble(line, effects) ==
    \/ effects = {} /\ Fail
    \/ \E x \in effects :
         /\ labels' = LabelsAfter(line)
         /\ pending' = pending \cup x.names
         /\ fixups' = fixups \o x.fix
         /\ cur_pc' = x.s.pc /\ code' = x.s.code /\ max_phy' = x.s.max
         /\ NextLine
         /\ UNCHANGED constants

AssembleLine ==
    /\ status = "assembling" /\ source[at].mn \notin {"EQU", ".ORG"}
    /\ Assemble(source[at], Effects(Env(source[at]), source[at]))

\* Fault for mutation: the displacement counts from the branch itself.
FixedWord_FromBranch(fx) ==
    LET addr == labels[fx.f.label]
    IN IF fx.f.type = "B21"
       THEN enc_b21(fx.f.cond, fx.f.link, Sub32(addr, fx.pc) \div 4)
       ELSE enc_j26(fx.f.opcode, addr \div 4)

FixedWord(fx) ==
    LET addr == labels[fx.f.label]
    IN IF fx.f.type = "B21"
       THEN enc_b21(fx.f.cond, fx.f.link, BranchDisp(addr, fx.pc))
       ELSE enc_j26(fx.f.opcode, addr \div 4)

\* One round of the loop of resolve_fixups.
ResolveFixup ==
    /\ status = "fixing" /\ fixups # << >>
    /\ LET fx == Head(fixups)
       IN IF \/ fx.f.label \notin DOMAIN labels
             \/ fx.f.type = "B21" /\ Sub32(labels[fx.f.label], fx.pc) % 4 # 0
          THEN Fail
          ELSE /\ code' = patch32(code, fx.code_offset, FixedWord(fx))
               /\ fixups' = Tail(fixups)
               /\ UNCHANGED << source, at, cur_pc, max_phy, labels, pending, constants,
                               placed, status, hex, disVars >>

WriteHex ==
    /\ status = "fixing" /\ fixups = << >>
    /\ status' = "written"
    /\ hex' = write_hex(code, max_phy)
    /\ UNCHANGED << asmVars, disVars >>

-----------------------------------------------------------------------------
(* The disassembler, run on the image with its options: -s start, -e end   *)
(* (0: up to the last word that is not fill), -r (raw).                    *)

StartListing ==
    /\ status = "written"
    /\ \E start \in Starts, end \in {0, ROM_BASE + 8}, raw \in BOOLEAN :
         LET image == read_hex(hex)
             end_addr == IF end = 0 THEN image.max_phy ELSE end
             n == (end_addr - start) \div 4
         IN IF end_addr <= start
            THEN /\ status' = "no code"
                 /\ UNCHANGED << insns, idx, listing >>
            ELSE /\ n <= MaxListing
                 /\ status' = "listing"
                 /\ insns' = [ start |-> start, raw |-> raw,
                               words |-> [i \in 1..n |-> read32(image.code, start + 4 * (i - 1))] ]
                 /\ UNCHANGED << idx, listing >>
    /\ UNCHANGED << asmVars, hex >>

\* One round of the loop of main: one or two words, one line of text.
Listed(words, pc) == IF insns.raw THEN [text |-> dis_raw(words[1], pc), n |-> 1]
                                  ELSE match_traditional(words, pc)
ListStep ==
    LET words == SubSeq(insns.words, idx, Len(insns.words))
        pc == insns.start + 4 * (idx - 1)
    IN /\ status = "listing" /\ idx <= Len(insns.words)
       /\ \E r \in {Listed(words, pc)} :
            /\ listing' = Append(listing, [pc |-> pc, words |-> SubSeq(words, 1, r.n),
                                           text |-> r.text])
            /\ idx' = idx + r.n
       /\ UNCHANGED << asmVars, status, hex, insns >>

ListEnd ==
    /\ status = "listing" /\ idx > Len(insns.words)
    /\ status' = "listed"
    /\ UNCHANGED << asmVars, hex, disVars >>

-----------------------------------------------------------------------------

Next ==
    \/ AssembleEqu \/ AssembleOrg \/ AssembleLine
    \/ ResolveFixup \/ WriteHex
    \/ StartListing \/ ListStep \/ ListEnd

Spec == Init /\ [][Next]_vars
=============================================================================
