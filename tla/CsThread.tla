------------------------------ MODULE CsThread ------------------------------
(***************************************************************************)
(* 3_race/cs_thread.h: its locks and condition variables over those of     *)
(* pthreads, with the assertions that end the process.  Every operation is *)
(* one step, which a client conjoins with the move of its own thread.      *)
(***************************************************************************)
EXTENDS Integers

CONSTANTS
  Locks, Conditions,
  NoThread  \* the holder of a lock nobody holds

VARIABLES
  holder,   \* holder[l]: the thread that holds lock l, or NoThread
  waiting,  \* waiting[c]: the threads blocked in pthread_cond_wait on c
  fatal     \* an assertion has failed and the process has exited

csVars == <<holder, waiting, fatal>>

\* lock_init and cond_init of every lock and condition.
CsInit ==
  /\ holder = [l \in Locks |-> NoThread]
  /\ waiting = [c \in Conditions |-> {}]
  /\ fatal = FALSE

\* The test the assertions make: pthread_mutex_trylock fails.  It does not
\* tell who holds the lock.
Held(l) == holder[l] # NoThread

\* __assert prints its message and calls exit.
AssertFails == fatal' = TRUE /\ UNCHANGED <<holder, waiting>>

lock_acquire(t, l) ==
  /\ ~Held(l)
  /\ holder' = [holder EXCEPT ![l] = t]
  /\ UNCHANGED <<waiting, fatal>>

lock_release(l) ==
  \/ ~Held(l) /\ AssertFails
  \/ /\ Held(l)
     /\ holder' = [holder EXCEPT ![l] = NoThread]
     /\ UNCHANGED <<waiting, fatal>>

\* The call of pthread_cond_wait: the lock is given up and t blocks.  Wakeups
\* that nobody has signalled are left out.
cond_wait(t, c, l) ==
  \/ ~Held(l) /\ AssertFails
  \/ /\ Held(l)
     /\ holder' = [holder EXCEPT ![l] = NoThread]
     /\ waiting' = [waiting EXCEPT ![c] = @ \cup {t}]
     /\ UNCHANGED fatal

\* The return of pthread_cond_wait: t is unblocked and gets the lock back.
cond_wait_returns(t, c, l) ==
  /\ t \notin waiting[c]
  /\ lock_acquire(t, l)

\* One blocked thread is unblocked; a signal nobody waits for is lost.
cond_signal(c, l) ==
  \/ ~Held(l) /\ AssertFails
  \/ Held(l) /\ waiting[c] = {} /\ UNCHANGED csVars
  \/ /\ Held(l)
     /\ \E t \in waiting[c] : waiting' = [waiting EXCEPT ![c] = @ \ {t}]
     /\ UNCHANGED <<holder, fatal>>

CsTypeOK(Threads) ==
  /\ holder \in [Locks -> Threads \cup {NoThread}]
  /\ waiting \in [Conditions -> SUBSET Threads]
  /\ fatal \in BOOLEAN

=============================================================================
