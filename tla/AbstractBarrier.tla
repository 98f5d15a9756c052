-------------------------- MODULE AbstractBarrier --------------------------
(***************************************************************************)
(* What barrier_wait promises its callers (2_barrier/barrier.c), without   *)
(* saying how: a call returns only when every thread of the group has      *)
(* begun its call of the same round, and then it does return.              *)
(***************************************************************************)
EXTENDS Integers

CONSTANTS
  Threads,  \* the group of threads that meet at the barrier
  Rounds    \* how many times each of them calls barrier_wait

VARIABLES
  entered,  \* entered[t]: calls thread t has begun
  left      \* left[t]: calls that have returned to thread t

vars == <<entered, left>>

Init ==
  /\ entered = [t \in Threads |-> 0]
  /\ left = [t \in Threads |-> 0]

\* Thread t begins a call.
Enter(t) ==
  /\ left[t] = entered[t]
  /\ entered[t] < Rounds
  /\ entered' = [entered EXCEPT ![t] = @ + 1]
  /\ UNCHANGED left

\* The call of thread t returns: nobody is still short of this round.
Leave(t) ==
  /\ left[t] < entered[t]
  /\ \A u \in Threads : entered[t] <= entered[u]
  /\ left' = [left EXCEPT ![t] = @ + 1]
  /\ UNCHANGED entered

Next == \E t \in Threads : Enter(t) \/ Leave(t)

\* The safety half, which BarrierRounds_proofs shows barrier.c to implement.
SafeSpec == Init /\ [][Next]_vars

Fairness == \A t \in Threads : WF_vars(Enter(t)) /\ WF_vars(Leave(t))

Spec == SafeSpec /\ Fairness

=============================================================================
