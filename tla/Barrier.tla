------------------------------ MODULE Barrier ------------------------------
(***************************************************************************)
(* barrier_init and barrier_wait of 2_barrier/barrier.c: one barrier_t,    *)
(* its mutex, its condition variable and the statement each calling thread *)
(* has reached.  A client conjoins Lock (the call begins) and Unlock (the  *)
(* call returns) with its own steps and lets Inside run in between.        *)
(*                                                                         *)
(* The pthread objects are modelled as POSIX describes them: a thread in   *)
(* pthread_cond_wait gives the mutex up and blocks in one step, a broadcast*)
(* unblocks every blocked thread, and an unblocked thread needs the mutex  *)
(* again before its call returns.                                          *)
(***************************************************************************)
EXTENDS Integers

CONSTANTS
  Threads,          \* the threads that may call barrier_wait
  NThreads,         \* nthreads, the argument of barrier_init
  NoThread,         \* the holder of a mutex nobody holds
  SpuriousWakeups   \* may pthread_cond_wait return unsignalled (POSIX: yes)

VARIABLES
  count,   \* barrier->count
  m_lock,  \* the holder of barrier->m_lock, or NoThread
  stage    \* stage[t]: the next statement of t in barrier_wait

barrierVars == <<count, m_lock, stage>>

Stages == {"outside", "decrement", "test", "waiting", "signalled", "reset", "unlock"}

\* The stages between pthread_mutex_lock and pthread_mutex_unlock.
Critical == {"decrement", "test", "reset", "unlock"}

\* barrier_init; nobody has called barrier_wait yet.
BarrierInit ==
  /\ count = NThreads
  /\ m_lock = NoThread
  /\ stage = [t \in Threads |-> "outside"]

Goto(t, from, to) ==
  /\ stage[t] = from
  /\ stage' = [stage EXCEPT ![t] = to]

\* pthread_mutex_lock: returns with the mutex, which must be free.
TakeLock(t) == m_lock = NoThread /\ m_lock' = t

\* Mutation: the mutex is not taken on entry.
LockUnheld(t) == Goto(t, "outside", "decrement") /\ UNCHANGED <<m_lock, count>>

Lock(t) ==
  /\ Goto(t, "outside", "decrement")
  /\ TakeLock(t)
  /\ UNCHANGED count

\* Mutation: the decrement is lost.
DecrementLost(t) == Goto(t, "decrement", "test") /\ UNCHANGED <<count, m_lock>>

\* barrier->count-=1;
Decrement(t) ==
  /\ Goto(t, "decrement", "test")
  /\ count' = count - 1
  /\ UNCHANGED m_lock

\* Mutation: the wait is skipped.
WaitSkipped(t) ==
  /\ count # 0
  /\ Goto(t, "test", "unlock")
  /\ UNCHANGED <<count, m_lock>>

\* count != 0: pthread_cond_wait gives the mutex up and blocks.
Wait(t) ==
  /\ count # 0
  /\ Goto(t, "test", "waiting")
  /\ m_lock' = NoThread
  /\ UNCHANGED count

\* Mutation: pthread_cond_signal in place of pthread_cond_broadcast.
SignalOne(t) ==
  /\ count = 0
  /\ stage[t] = "test"
  /\ LET waiters == {u \in Threads : stage[u] = "waiting"}
     IN  \/ /\ waiters = {}
            /\ stage' = [stage EXCEPT ![t] = "reset"]
         \/ \E u \in waiters :
              stage' = [stage EXCEPT ![t] = "reset", ![u] = "signalled"]
  /\ UNCHANGED <<count, m_lock>>

\* The last thread: pthread_cond_broadcast unblocks every waiting thread.
Broadcast(t) ==
  /\ count = 0
  /\ stage[t] = "test"
  /\ stage' = [u \in Threads |-> IF u = t THEN "reset"
                                 ELSE IF stage[u] = "waiting" THEN "signalled"
                                 ELSE stage[u]]
  /\ UNCHANGED <<count, m_lock>>

\* Mutation: the counter is not restored for the next round.
ResetForgotten(t) == Goto(t, "reset", "unlock") /\ UNCHANGED <<count, m_lock>>

\* barrier->count=barrier->thread_count_initial;
Reset(t) ==
  /\ Goto(t, "reset", "unlock")
  /\ count' = NThreads
  /\ UNCHANGED m_lock

\* pthread_cond_wait returns although nobody signalled.  The `if' around it
\* does not look at the counter again.
SpuriousWakeup(t) ==
  /\ SpuriousWakeups
  /\ Goto(t, "waiting", "signalled")
  /\ UNCHANGED <<count, m_lock>>

\* An unblocked thread has the mutex again: pthread_cond_wait returns.
Reacquire(t) ==
  /\ Goto(t, "signalled", "unlock")
  /\ TakeLock(t)
  /\ UNCHANGED count

\* pthread_mutex_unlock; the call returns.
Unlock(t) ==
  /\ Goto(t, "unlock", "outside")
  /\ m_lock' = NoThread
  /\ UNCHANGED count

\* Every step of a call but the first and the last.
Inside(t) ==
  \/ Decrement(t)
  \/ Wait(t)
  \/ Broadcast(t)
  \/ Reset(t)
  \/ SpuriousWakeup(t)
  \/ Reacquire(t)

\* The steps a running thread or a freed mutex owes: not a spurious wakeup.
Progress(t) ==
  \/ Decrement(t)
  \/ Wait(t)
  \/ Broadcast(t)
  \/ Reset(t)
  \/ Reacquire(t)

BarrierTypeOK ==
  /\ count \in 0..NThreads
  /\ m_lock \in Threads \cup {NoThread}
  /\ stage \in [Threads -> Stages]

=============================================================================
