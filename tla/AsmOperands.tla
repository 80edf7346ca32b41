----------------------------- MODULE AsmOperands -----------------------------
(***************************************************************************)
(* How the assembler reads the text of an operand: expressions             *)
(* (parse_atom, parse_expr), registers (parse_register) and addressing     *)
(* modes (parse_operand).                                                  *)
(*                                                                         *)
(* The text itself is abstracted to what the parser tells apart.  An atom  *)
(* is [pre, sym, v]: a prefix ("" for none), then the number v (sym = ""), *)
(* "*", the name sym, or the text Rn (sym = "R", v = n).  An expression is *)
(* a non-empty sequence of <<operator, atom>>.  An operand is [syn, e,     *)
(* idx]: how its text starts, its expression, and the index after it.      *)
(*   syn "text"    a letter: a name or Rn        idx "", "X", "Y"          *)
(*       "num"     a number (numhi: one of 0x80000000 or more), idx also   *)
(*                 "S"                                                     *)
(*       "imm"     #                                                       *)
(*       "paren"   ( ... )   idx "", "inX", "inS", "inSY", "Y", "X"        *)
(*       "bracket" [ ... ]   idx "", "Y"                                   *)
(*       "b+"      B+        idx "", "X", "Y"                              *)
(*                                                                         *)
(* An operation that may call error(), which ends the program, returns the *)
(* set of its results: empty on an error, else one element.                *)
(*                                                                         *)
(* env is the assembler's state as the parser sees it: [consts, labels,    *)
(* pc], where consts and labels are functions on the names of the EQU      *)
(* constants and of the labels defined so far.                             *)
(***************************************************************************)
EXTENDS M65Words, FiniteSets, SequencesExt

Atom(pre, sym, v) == [pre |-> pre, sym |-> sym, v |-> v]
Lit(n) == << <<"+", Atom("", "", n)>> >>
Name(s) == << <<"+", Atom("", s, 0)>> >>
Rn(n) == << <<"+", Atom("", "R", n)>> >>

Operand(syn, e, idx) == [syn |-> syn, e |-> e, idx |-> idx]
NoArg == Operand("none", Lit(0), "")

\* Fault for mutation: labels are not looked up.
Lookup_ConstantsOnly(env, s) == IF s \in DOMAIN env.consts THEN env.consts[s] ELSE 0

\* The value of a name: a constant before a label; a name that is not
\* defined yet is added to the labels and reads as 0.
Lookup(env, s) == IF s \in DOMAIN env.consts THEN env.consts[s]
                  ELSE IF s \in DOMAIN env.labels THEN env.labels[s] ELSE 0

AtomValue(env, a) == CASE a.sym = "" -> a.v
                       [] a.sym = "*" -> env.pc
                       [] OTHER -> Lookup(env, a.sym)

Prefixed(pre, v) == CASE pre = "-" -> Neg32(v)
                      [] pre = "~" -> -1 - v
                      [] pre = "<" -> v % 2^8
                      [] pre = ">" -> Field(v, 8, 8)
                      [] pre = "^" -> Field(v, 16, 8)
                      [] OTHER -> v

parse_atom(env, a) == Prefixed(a.pre, AtomValue(env, a))

\* The operators that add; * / & | are applied in the same way.
Combine(op, acc, v) == IF op = "+" THEN Add32(acc, v) ELSE Sub32(acc, v)

\* No precedence: the operators apply from left to right.
parse_expr(env, e) ==
    FoldLeft(LAMBDA acc, t : Combine(t[1], acc, parse_atom(env, t[2])), 0, e)

\* The names parse_expr adds to the label table when it meets them.
Mentions(env, e) ==
    { e[i][2].sym : i \in 1..Len(e) }
        \ ({"", "*"} \cup DOMAIN env.consts \cup DOMAIN env.labels)

\* A register operand.
parse_register(o) ==
    LET a == o.e[1][2]
    IN IF o.syn # "text" THEN {}
       ELSE IF a.sym = "R" THEN {n \in {a.v} : n <= 63}
       ELSE {REG[s] : s \in {a.sym} \cap DOMAIN REG}

\* The test that tells ADD Rd, Rs1, Rs2 from a traditional operand; B and
\* VBR are not in it.
IS_3OP_START(o) ==
    o.syn = "text" /\ o.e[1][2].sym \in
        {"R", "A", "X", "Y", "SP", "ZERO", "T", "D"}

\* An addressed operand: mode, value and the name of a label ("" for none).
Addr(mode, v) == [mode |-> mode, v |-> v, label |-> ""]

\* Inside ( ) and [ ], Rn stands for its window address 4n, n unchecked.
Inner(env, e) == IF e[1][2].sym = "R" THEN e[1][2].v * 4 ELSE parse_expr(env, e)

ParseParen(env, o) ==
    Addr(CASE o.idx = "" -> "IND"
           [] o.idx = "inX" -> "INDX"
           [] o.idx = "Y" -> "INDY"
           [] o.idx = "inS" -> "IND"       \* "approximate": S is ignored
           [] o.idx = "inSY" -> "INDY"
           [] OTHER -> "IMP",
         Inner(env, o.e))

ParseBracket(env, o) ==
    Addr(IF o.idx = "Y" THEN "INDY" ELSE "IND", Inner(env, o.e))

ParseBPlus(env, o) == Addr("ABS" \o o.idx, parse_expr(env, o.e))

ParseRn(o) == Addr("DP" \o o.idx, o.e[1][2].v * 4)

\* A name takes no offset: what follows it on the line is not read.
ParseName(env, o) ==
    LET s == o.e[1][2].sym
    IN [ mode |-> IF s = "A" /\ o.idx = "" THEN "ACC"
                  ELSE IF o.idx = "" THEN "LABEL" ELSE "ABS" \o o.idx,
         v |-> Lookup(env, s),
         label |-> IF s \in DOMAIN env.consts \/ (s = "A" /\ o.idx = "")
                   THEN "" ELSE s ]

ParseNumber(o, v) ==
    Addr(CASE o.idx = "S" -> "DP"           \* "stack relative approx"
           [] o.idx # "S" /\ o.syn = "num" /\ v <= 255 -> "DP" \o o.idx
           [] OTHER -> "ABS" \o o.idx, v)

parse_operand(env, o) ==
    CASE o.syn = "none" -> Addr("IMP", 0)
      [] o.syn = "imm" -> Addr("IMM", parse_expr(env, o.e))
      [] o.syn = "paren" -> ParseParen(env, o)
      [] o.syn = "bracket" -> ParseBracket(env, o)
      [] o.syn = "b+" -> ParseBPlus(env, o)
      [] o.syn = "text" -> IF o.e[1][2].sym = "R" THEN ParseRn(o)
                                                   ELSE ParseName(env, o)
      [] OTHER -> ParseNumber(o, parse_expr(env, o.e))
=============================================================================
