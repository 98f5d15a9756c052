------------------------- MODULE MCBarrierPrograms -------------------------
(* BarrierPrograms for TLC.  The quarters weigh differently, so that a sum  *)
(* tells which of them it is made of.                                       *)
EXTENDS BarrierPrograms

MCQuarter == [id \in 0..3 |-> 10 ^ id]

=============================================================================
