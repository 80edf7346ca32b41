------------------------- MODULE RenameRecoveryLive -------------------------
(***************************************************************************)
(* RenameRecovery under a clock that never stops, for its liveness.  The   *)
(* level of the clock is a variable of its own, so that a cycle in which   *)
(* no register changes is still a step and "the clock ticks" needs no      *)
(* assumption about what is enabled.                                       *)
(***************************************************************************)
EXTENDS RenameRecovery

VARIABLE clk    \* toggles at every edge

LiveInit == Init /\ clk = 0
Tick == Next /\ clk' = 1 - clk

(* Fairness.  The clock ticks; and of the environment: the oldest op is    *)
(* replayed until it finishes; the issue queue returns its entries in a    *)
(* fixed number of cycles (ISSUE_QUEUE_RETURN_INDEX_CYCLE); the flushed    *)
(* ops drain from the replay queue and the wakeup pipeline registers.      *)
LiveSpec ==
    /\ LiveInit /\ [][Tick]_<<vars, clk>>
    /\ []<><<Tick>>_clk
    /\ []<>~iqReturning
    /\ []<>~staleOps
    /\ \A p \in ALPtr : []<>~(p \in backEnd /\ p = al.head)

(* Every recovery ends: the three phase machines never wait on each other. *)
RecoveryEnds == manager.phase # "COMMIT" ~> manager.phase = "COMMIT"

(* The op at the head retires or is flushed (CommitStage asserts that the  *)
(* core never goes 500 cycles without retiring), also when its own failure *)
(* had to wait for an earlier recovery.                                    *)
HeadLeaves ==
    \A p \in ALPtr :
        (al.count > 0 /\ al.head = p) ~> (al.count = 0 \/ al.head # p)
=============================================================================
