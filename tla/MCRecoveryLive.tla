--------------------------- MODULE MCRecoveryLive ---------------------------
(* Values of the constants of RenameRecoveryLive *)
EXTENDS RenameRecoveryLive

OneLReg == {0}
PlainOps == {[log |-> 0, writeReg |-> FALSE, writeFlags |-> FALSE]}
=============================================================================
