------------------------------- MODULE MCHello -------------------------------
(* threads.c and nlocks.c with three threads, and two rounds in place of   *)
(* the thousand of nlocks.c.                                               *)
EXTENDS Hello

Rounds == 2

MCCells == 0..(N - 1)

\* threads.c: the counter is cell 0.
MCThreads == [t \in Threads |-> IF t = Main THEN <<>> ELSE <<0>>]

\* nlocks.c: thread t has a cell of its own, main goes through all of them.
MCNLocks ==
  [t \in Threads |->
     IF t = Main THEN [i \in 1..(N * Rounds) |-> (i - 1) % N]
                 ELSE [i \in 1..Rounds |-> t]]

MCPrograms == {MCThreads, MCNLocks}

=============================================================================
