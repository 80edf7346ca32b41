---------------------------- MODULE InOrderCore ----------------------------
(***************************************************************************)
(* What renaming, retirement and recovery promise together, without free   *)
(* lists, pointers, phases or previous mappings: the ops in flight form a  *)
(* sequence in program order that grows at its young end, loses ops at its *)
(* old end when they retire and at its young end when they are squashed;   *)
(* arch is the map of the retired ops; and in every cycle the map the      *)
(* renamer reads is arch overridden by the ops in flight.                  *)
(***************************************************************************)
EXTENDS Naturals, Sequences

CONSTANTS LReg, PhyReg, InitMap, RENAME_WIDTH, COMMIT_WIDTH

VARIABLES
    rob,      \* the ops in flight, oldest first
    arch,     \* the map of the retired ops
    front     \* the map the renamer reads

Op == [log : LReg, writeReg : BOOLEAN, phyDst : PhyReg]

(* map after the ops of s, in order *)
Apply(map, s) ==
    [l \in LReg |->
        LET writers == {k \in DOMAIN s : s[k].writeReg /\ s[k].log = l}
        IN  IF writers = {} THEN map[l]
            ELSE s[CHOOSE k \in writers : \A j \in writers : j <= k].phyDst]

Init == rob = <<>> /\ arch = InitMap /\ front = InitMap

(* n ops retire or k are squashed, never both; those of s are renamed to   *)
(* registers that neither arch nor an op in flight uses.                   *)
Cycle(n, k, s) ==
    /\ n + k <= Len(rob)
    /\ k > 0 => n = 0 /\ s = <<>>
    /\ \A i \in DOMAIN s : s[i].writeReg =>
          /\ \A l \in LReg : arch[l] # s[i].phyDst
          /\ \A j \in DOMAIN rob : rob[j].writeReg => rob[j].phyDst # s[i].phyDst
          /\ \A j \in 1 .. i - 1 : s[j].writeReg => s[j].phyDst # s[i].phyDst
    /\ rob' = SubSeq(rob, n + 1, Len(rob) - k) \o s
    /\ arch' = Apply(arch, SubSeq(rob, 1, n))
    /\ front' = Apply(arch', rob')

Next ==
    \E n, k \in 0 .. COMMIT_WIDTH, len \in 0 .. RENAME_WIDTH :
        \E s \in [1 .. len -> Op] : Cycle(n, k, s)

Spec == Init /\ [][Next]_<<rob, arch, front>>
=============================================================================
