-------------------------- MODULE MCRenameRecovery --------------------------
(* Values of the constants of RenameRecovery for the runs *)
EXTENDS RenameRecovery

OneLReg == {0}

Op(l, w, f) == [log |-> l, writeReg |-> w, writeFlags |-> f]

(* Ops that write no register: every failure, the free lists at rest *)
PlainOps == {Op(0, FALSE, FALSE)}
(* Writers of a register and of the flags, in any mix *)
MixedOps == {Op(0, TRUE, FALSE), Op(0, FALSE, TRUE)}
(* Writers of the flags only *)
FlagOps == {Op(0, FALSE, TRUE)}
=============================================================================
