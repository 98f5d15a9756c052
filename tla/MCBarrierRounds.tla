-------------------------- MODULE MCBarrierRounds --------------------------
(* BarrierRounds for TLC.  NThreads comes from the group itself, and where *)
(* only safety is checked the threads are interchangeable.                 *)
EXTENDS BarrierRounds, TLC

MCNThreads == Cardinality(Threads)

ThreadSymmetry == Permutations(Threads)

=============================================================================
