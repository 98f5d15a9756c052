--------------------------- MODULE BarrierRounds ---------------------------
(***************************************************************************)
(* A group of threads that call barrier_wait on one barrier a number of    *)
(* times, with work of their own between the calls: the client of          *)
(* 2_barrier/barrier-testcase1.c, 2 and 3 with what they compute left out. *)
(***************************************************************************)
EXTENDS Barrier, FiniteSets

CONSTANT Rounds  \* how many times each thread calls barrier_wait

ASSUME GroupAssumption ==
  /\ IsFiniteSet(Threads)
  /\ NThreads = Cardinality(Threads)
  /\ NThreads > 0
  /\ NoThread \notin Threads
  /\ SpuriousWakeups \in BOOLEAN
  /\ Rounds \in Nat

VARIABLES
  entered,  \* entered[t]: calls thread t has begun (it got the mutex)
  left      \* left[t]: calls that have returned to thread t

vars == <<count, m_lock, stage, entered, left>>

Init ==
  /\ BarrierInit
  /\ entered = [t \in Threads |-> 0]
  /\ left = [t \in Threads |-> 0]

Call(t) ==
  /\ entered[t] < Rounds
  /\ Lock(t)
  /\ entered' = [entered EXCEPT ![t] = @ + 1]
  /\ UNCHANGED left

Return(t) ==
  /\ Unlock(t)
  /\ left' = [left EXCEPT ![t] = @ + 1]
  /\ UNCHANGED entered

InsideCall(t) == Inside(t) /\ UNCHANGED <<entered, left>>

Finished == \A t \in Threads : left[t] = Rounds

\* Every thread has made its calls and exits.
Exit == Finished /\ UNCHANGED vars

Next ==
  \/ \E t \in Threads : Call(t) \/ InsideCall(t) \/ Return(t)
  \/ Exit

SafeSpec == Init /\ [][Next]_vars

\* A thread that can take its next statement is scheduled.  The calls are
\* finitely many, so nobody can be kept from the mutex for ever and weak
\* fairness is enough; a spurious wakeup is owed to nobody.
Fairness ==
  \A t \in Threads :
    /\ WF_vars(Call(t))
    /\ WF_vars(Progress(t) /\ UNCHANGED <<entered, left>>)
    /\ WF_vars(Return(t))

Spec == SafeSpec /\ Fairness

-----------------------------------------------------------------------------
(* Properties *)

\* The type invariant.  The range of count is the one part that is not by
\* shape: it never falls below zero and never exceeds the group.
TypeOK ==
  /\ BarrierTypeOK
  /\ entered \in [Threads -> 0..Rounds]
  /\ left \in [Threads -> 0..Rounds]

\* No thread has crossed more often than another has called, whatever the
\* interleaving of late leavers of one round with early callers of the next:
\* what barrier-testcase3.c:32 reports as an error otherwise ("How I crossed
\* the barrier before Thread 0 invokes barrier_wait()?").
Lockstep == \A t, u \in Threads : left[t] <= entered[u]

\* No wakeup is lost: while a thread is blocked in pthread_cond_wait, some
\* thread has yet to call in its round, or has called and has yet to find out
\* whether it is the last one.
NoStrandedWaiter ==
  \A t \in Threads :
    stage[t] = "waiting" =>
      \E u \in Threads :
        entered[u] < entered[t] \/ stage[u] \in {"decrement", "test"}

\* The calls that have decremented the counter: the n-th call of thread t is
\* <<t, n>>.
Decremented ==
  {c \in Threads \X (1..Rounds) :
     \/ c[2] < entered[c[1]]
     \/ c[2] = entered[c[1]] /\ stage[c[1]] # "decrement"}

\* How many of them belong to the group that is not yet full.
Short == Cardinality(Decremented) % NThreads

\* The call that has filled a group has yet to restore the counter.
Filled ==
  Short = 0 /\ \E t \in Threads : stage[t] \in {"test", "reset"}

\* The counter is what the group still misses, zero only until the call that
\* fills the group restores it: also when threads were woken spuriously and
\* have run ahead of their round, reusing the barrier neither loses nor repeats
\* a decrement or a reset.
CountTellsCalls == count = IF Filled THEN 0 ELSE NThreads - Short

\* The code implements the abstract barrier: the same calls are begun and
\* returned, in an order it allows, and every call it must answer returns.
Abstract == INSTANCE AbstractBarrier
ImplementsBarrier == Abstract!Spec

-----------------------------------------------------------------------------
(* The inductive invariant of BarrierRounds_proofs                         *)

\* The threads the counter has been decremented for in the current round.
Arrived == {t \in Threads : stage[t] \in {"test", "waiting"}}

Resetting == \E t \in Threads : stage[t] = "reset"

\* A thread is between lock and unlock exactly while it holds the mutex.
MutexHeld == \A t \in Threads : stage[t] \in Critical <=> m_lock = t

\* From its broadcast until it restores the counter the last thread is alone
\* with the threads it has woken.
ResetAlone ==
  Resetting =>
    /\ count = 0
    /\ \A t \in Threads : stage[t] \in {"reset", "signalled"}

\* Otherwise the counter is the number of threads that have not arrived, and
\* once it is zero the last arrival has not yet seen it.
CountMissing ==
  ~Resetting =>
    /\ count = NThreads - Cardinality(Arrived)
    /\ count = 0 => \E t \in Threads : stage[t] = "test"

\* Where thread t stands when g rounds are complete: it has left all of them,
\* has called for the next one, or is on its way out of the last one.
InRound(t, g) ==
  /\ stage[t] = "outside" => entered[t] = g /\ left[t] = g
  /\ stage[t] \in {"decrement", "test", "waiting"} =>
       entered[t] = g + 1 /\ left[t] = g
  /\ stage[t] \in {"signalled", "reset", "unlock"} =>
       entered[t] = g /\ left[t] = g - 1

RoundsAgree == \E g \in 0..Rounds : \A t \in Threads : InRound(t, g)

\* The inductive invariant, for condition variables without spurious wakeups.
IInv ==
  /\ TypeOK
  /\ MutexHeld
  /\ ResetAlone
  /\ CountMissing
  /\ RoundsAgree

=============================================================================
