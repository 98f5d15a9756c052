-------------------------------- MODULE Race --------------------------------
(***************************************************************************)
(* The threads of 3_race/hare_tortoise.c: main creates the three workers   *)
(* one by one, each with a handshake, then the Reporter, which lets the    *)
(* workers act once per tick by a pair of condition variables for each.    *)
(*                                                                         *)
(* Every call of cs_thread.h is a step.  Left out are the three locks that *)
(* protect one variable each (reporter_lock and the two distance locks):   *)
(* their sections are one step here, and SerialActors shows that no worker *)
(* runs one while another does.                                            *)
(***************************************************************************)
EXTENDS RaceRules

CONSTANT NoThread

Threads == Workers \cup {"main", "reporter"}

ASSUME RaceAssumption == NoThread \notin Threads

\* <w>_main_lock and <w>_reporter_lock; <w>_main_cv, reporter_to_<w>_cv and
\* <w>_to_reporter_cv.
MainLock(w) == <<"main_lock", w>>
ReporterLock(w) == <<"reporter_lock", w>>
MainCv(w) == <<"main_cv", w>>
ToWorker(w) == <<"to_worker_cv", w>>
ToReporter(w) == <<"to_reporter_cv", w>>

Locks == {"main_lock", "reporter_lock"} \X Workers
Conditions == {"main_cv", "to_worker_cv", "to_reporter_cv"} \X Workers

VARIABLES
  holder, waiting, fatal,  \* the locks and conditions
  pc,        \* pc[t]: the next step of thread t
  subject,   \* subject[t]: the worker that main or the Reporter is dealing with
  reached,   \* reached[w]: <w>_thread_reached
  curr_time, \* the local curr_time of the Randomizer
  lost       \* a worker has missed a signal of the Reporter (not in the code)

cs == INSTANCE CsThread

threadVars == <<pc, subject, reached, curr_time, lost>>
vars == <<rulesVars, cs!csVars, threadVars>>

Init ==
  /\ RulesInit
  /\ cs!CsInit
  /\ pc = [t \in Threads |-> IF t = "main" THEN "create" ELSE "none"]
  /\ subject = [t \in {"main", "reporter"} |-> "randomizer"]
  /\ reached = [w \in Workers |-> FALSE]
  /\ curr_time = -1
  /\ lost = FALSE

Goto(t, from, to) ==
  /\ pc[t] = from
  /\ pc' = [pc EXCEPT ![t] = to]

\* The worker after w, in the order of init and of Report.
After(w) == IF w = "randomizer" THEN "turtle" ELSE "hare"

\* Thread t is done with its subject: it goes on with the next worker, or
\* past the last one.
NextSubject(t, from, again, past) ==
  IF subject[t] = "hare"
  THEN Goto(t, from, past) /\ subject' = [subject EXCEPT ![t] = "randomizer"]
  ELSE Goto(t, from, again) /\ subject' = [subject EXCEPT ![t] = After(@)]

-----------------------------------------------------------------------------
(* init, run by main                                                       *)

\* pthread_create of the worker.
Create ==
  /\ pc["main"] = "create"
  /\ pc' = [pc EXCEPT !["main"] = "lock", ![subject["main"]] = "head"]
  /\ UNCHANGED <<rulesVars, holder, waiting, fatal, subject, reached, curr_time, lost>>

\* main waits until the worker has reached its position.
MainHandshake ==
  LET w == subject["main"]
  IN  /\ \/ /\ Goto("main", "lock", IF reached[w] THEN "release" ELSE "wait")
            /\ cs!lock_acquire("main", MainLock(w))
            /\ UNCHANGED subject
         \/ /\ Goto("main", "wait", "waiting")
            /\ cs!cond_wait("main", MainCv(w), MainLock(w))
            /\ UNCHANGED subject
         \/ /\ Goto("main", "waiting", "release")
            /\ cs!cond_wait_returns("main", MainCv(w), MainLock(w))
            /\ UNCHANGED subject
         \/ /\ NextSubject("main", "release", "create", "create_reporter")
            /\ cs!lock_release(MainLock(w))
      /\ UNCHANGED <<rulesVars, reached, curr_time, lost>>

CreateReporter ==
  /\ pc["main"] = "create_reporter"
  /\ pc' = [pc EXCEPT !["main"] = "join", !["reporter"] = "head"]
  /\ UNCHANGED <<rulesVars, holder, waiting, fatal, subject, reached, curr_time, lost>>

\* The four joins return, and init returns overall_winner.
Join ==
  /\ \A t \in Threads \ {"main"} : pc[t] = "exit"
  /\ Goto("main", "join", "returned")
  /\ UNCHANGED <<rulesVars, holder, waiting, fatal, subject, reached, curr_time, lost>>

-----------------------------------------------------------------------------
(* Randomizer, Turtle and Hare                                             *)

\* while (no_winner), and the first iteration told from the others.
WorkerHead(w) ==
  /\ Goto(w, "head", IF no_winner = 0 THEN "exit"
                     ELSE IF reached[w] THEN "lock" ELSE "main_lock")
  /\ UNCHANGED <<rulesVars, holder, waiting, fatal, subject, reached, curr_time, lost>>

\* Mutation: the worker tells main before it holds the lock of its conditions.
GreetTooSoon(w) ==
  /\ \/ /\ Goto(w, "main_lock", "main_signal")
        /\ cs!lock_acquire(w, MainLock(w))
        /\ reached' = [reached EXCEPT ![w] = TRUE]
     \/ /\ Goto(w, "main_signal", "main_release")
        /\ cs!cond_signal(MainCv(w), MainLock(w))
        /\ UNCHANGED reached
     \/ /\ Goto(w, "main_release", "lock")
        /\ cs!lock_release(MainLock(w))
        /\ UNCHANGED reached
  /\ UNCHANGED <<rulesVars, subject, curr_time, lost>>

\* The handshake with main: when main goes on, the worker holds the lock the
\* Reporter needs to signal it.
Greet(w) ==
  /\ \/ /\ Goto(w, "main_lock", "own_lock")
        /\ cs!lock_acquire(w, MainLock(w))
        /\ reached' = [reached EXCEPT ![w] = TRUE]
     \/ /\ Goto(w, "own_lock", "main_signal")
        /\ cs!lock_acquire(w, ReporterLock(w))
        /\ UNCHANGED reached
     \/ /\ Goto(w, "main_signal", "main_release")
        /\ cs!cond_signal(MainCv(w), MainLock(w))
        /\ UNCHANGED reached
     \/ /\ Goto(w, "main_release", "wait")
        /\ cs!lock_release(MainLock(w))
        /\ UNCHANGED reached
  /\ UNCHANGED <<rulesVars, subject, curr_time, lost>>

\* The worker waits for the Reporter to call it.
AwaitReporter(w) ==
  /\ \/ /\ Goto(w, "lock", "wait")
        /\ cs!lock_acquire(w, ReporterLock(w))
     \/ /\ Goto(w, "wait", "waiting")
        /\ cs!cond_wait(w, ToWorker(w), ReporterLock(w))
     \/ /\ Goto(w, "waiting", "read_clock")
        /\ cs!cond_wait_returns(w, ToWorker(w), ReporterLock(w))
  /\ UNCHANGED <<rulesVars, subject, reached, curr_time, lost>>

\* curr_time = clock_tick, which only the Randomizer uses.
ReadClock(w) ==
  /\ Goto(w, "read_clock", "act")
  /\ curr_time' = IF w = "randomizer" THEN clock_tick ELSE curr_time
  /\ UNCHANGED <<rulesVars, holder, waiting, fatal, subject, reached, lost>>

\* What the worker does in a tick, or nothing when the race is won.
Perform(w) ==
  /\ Goto(w, "act", "signal")
  /\ Act(w, curr_time)
  /\ turn' = IF turn = w THEN Turns[w] ELSE turn
  /\ UNCHANGED <<race, clock_tick, holder, waiting, fatal>>
  /\ UNCHANGED <<subject, reached, curr_time, lost>>

\* Mutation: the lock is released before the signal.
AnswerUnlocked(w) ==
  /\ \/ /\ Goto(w, "signal", "release")
        /\ cs!lock_release(ReporterLock(w))
     \/ /\ Goto(w, "release", "head")
        /\ cs!cond_signal(ToReporter(w), ReporterLock(w))
  /\ UNCHANGED <<rulesVars, subject, reached, curr_time, lost>>

\* The worker answers the Reporter.
Answer(w) ==
  /\ \/ /\ Goto(w, "signal", "release")
        /\ cs!cond_signal(ToReporter(w), ReporterLock(w))
     \/ /\ Goto(w, "release", "head")
        /\ cs!lock_release(ReporterLock(w))
  /\ UNCHANGED <<rulesVars, subject, reached, curr_time, lost>>

Worker(w) ==
  \/ WorkerHead(w)
  \/ Greet(w)
  \/ AwaitReporter(w)
  \/ ReadClock(w)
  \/ Perform(w)
  \/ Answer(w)

-----------------------------------------------------------------------------
(* Report                                                                  *)

\* while (no_winner)
ReporterHead ==
  /\ Goto("reporter", "head", IF no_winner = 0 THEN "exit" ELSE "tick")
  /\ UNCHANGED <<rulesVars, holder, waiting, fatal, subject, reached, curr_time, lost>>

\* The section of reporter_lock: clock_tick += 1.
IncrementClock ==
  /\ Goto("reporter", "tick", "lock")
  /\ clock_tick' = clock_tick + 1
  /\ turn' = Turns["reporter"]
  /\ UNCHANGED <<race, data, holder, waiting, fatal>>
  /\ UNCHANGED <<subject, reached, curr_time, lost>>

\* Mutation: the Reporter does not wait for the answer.
CallWithoutWaiting ==
  LET w == subject["reporter"]
  IN  /\ \/ /\ Goto("reporter", "lock", "signal")
            /\ cs!lock_acquire("reporter", ReporterLock(w))
            /\ UNCHANGED <<subject, lost>>
         \/ /\ Goto("reporter", "signal", "release")
            /\ cs!cond_signal(ToWorker(w), ReporterLock(w))
            /\ lost' = (lost \/ waiting[ToWorker(w)] = {})
            /\ UNCHANGED subject
         \/ /\ NextSubject("reporter", "release", "lock", "test")
            /\ cs!lock_release(ReporterLock(w))
            /\ UNCHANGED lost
      /\ UNCHANGED <<rulesVars, reached, curr_time>>

\* The Reporter calls each worker in turn and waits for its answer.  A worker
\* that is not in its cond_wait misses the call.
CallWorker ==
  LET w == subject["reporter"]
  IN  /\ \/ /\ Goto("reporter", "lock", "signal")
            /\ cs!lock_acquire("reporter", ReporterLock(w))
            /\ UNCHANGED <<subject, lost>>
         \/ /\ Goto("reporter", "signal", "wait")
            /\ cs!cond_signal(ToWorker(w), ReporterLock(w))
            /\ lost' = (lost \/ waiting[ToWorker(w)] = {})
            /\ UNCHANGED subject
         \/ /\ Goto("reporter", "wait", "waiting")
            /\ cs!cond_wait("reporter", ToReporter(w), ReporterLock(w))
            /\ UNCHANGED <<subject, lost>>
         \/ /\ Goto("reporter", "waiting", "release")
            /\ cs!cond_wait_returns("reporter", ToReporter(w), ReporterLock(w))
            /\ UNCHANGED <<subject, lost>>
         \/ /\ NextSubject("reporter", "release", "lock", "test")
            /\ cs!lock_release(ReporterLock(w))
            /\ UNCHANGED lost
      /\ UNCHANGED <<rulesVars, reached, curr_time>>

\* Mutation: the other threads are not stopped.
NobodyStopped ==
  /\ Goto("reporter", "test", "head")
  /\ UNCHANGED <<rulesVars, holder, waiting, fatal, subject, reached, curr_time, lost>>

\* if (no_winner == 0), after the Hare.
TestWinner ==
  /\ Goto("reporter", "test", IF no_winner = 0 THEN "stop_lock" ELSE "head")
  /\ UNCHANGED <<rulesVars, holder, waiting, fatal, subject, reached, curr_time, lost>>

\* The Reporter wakes each worker once more and does not wait for it.  A
\* worker past its loop test, but not yet in cond_wait, misses the signal.
StopWorker ==
  LET w == subject["reporter"]
  IN  /\ \/ /\ Goto("reporter", "stop_lock", "stop_signal")
            /\ cs!lock_acquire("reporter", ReporterLock(w))
            /\ UNCHANGED <<subject, lost>>
         \/ /\ Goto("reporter", "stop_signal", "stop_release")
            /\ cs!cond_signal(ToWorker(w), ReporterLock(w))
            /\ lost' = (lost \/ pc[w] \in {"lock", "wait"})
            /\ UNCHANGED subject
         \/ /\ NextSubject("reporter", "stop_release", "stop_lock", "head")
            /\ cs!lock_release(ReporterLock(w))
            /\ UNCHANGED lost
      /\ UNCHANGED <<rulesVars, reached, curr_time>>

Main == Create \/ MainHandshake \/ CreateReporter \/ Join

Reporter == ReporterHead \/ IncrementClock \/ CallWorker \/ TestWinner \/ StopWorker

-----------------------------------------------------------------------------

\* A failed assertion ends the process.
Next ==
  /\ ~fatal
  /\ \/ Main
     \/ Reporter
     \/ \E w \in Workers : Worker(w)

SafeSpec == Init /\ [][Next]_vars

\* Every thread that can take a step is scheduled.  No lock is contended for
\* ever, since the Reporter waits for each worker, so this is weak fairness.
Fairness ==
  /\ WF_vars(~fatal /\ Main)
  /\ WF_vars(~fatal /\ Reporter)
  /\ \A w \in Workers : WF_vars(~fatal /\ Worker(w))

Spec == SafeSpec /\ Fairness

-----------------------------------------------------------------------------
(* Properties *)

PCs ==
  {"none", "create", "create_reporter", "join", "returned", "exit", "head",
   "main_lock", "own_lock", "main_signal", "main_release", "lock", "wait",
   "waiting", "read_clock", "act", "signal", "release", "tick", "test",
   "stop_lock", "stop_signal", "stop_release"}

TypeOK ==
  /\ RulesTypeOK
  /\ cs!CsTypeOK(Threads)
  /\ pc \in [Threads -> PCs]
  /\ subject \in [{"main", "reporter"} -> Workers]
  /\ reached \in [Workers -> BOOLEAN]
  /\ curr_time \in Nat \cup {-1}
  /\ lost \in BOOLEAN

\* The program points at which a thread is to hold a lock.
HoldsMainLock == {"own_lock", "main_signal", "main_release"}
HoldsReporterLock ==
  {"main_signal", "main_release", "wait", "read_clock", "act", "signal", "release"}
MainHolds == {"wait", "release"}
ReporterHolds == {"signal", "wait", "release", "stop_signal", "stop_release"}

\* The thread that holds the lock at the program points the threads are at.
HolderOfMainLock(w) ==
  {t \in {w} : pc[w] \in HoldsMainLock} \cup
  {t \in {"main"} : pc[t] \in MainHolds /\ subject[t] = w}
HolderOfReporterLock(w) ==
  {t \in {w} : pc[w] \in HoldsReporterLock} \cup
  {t \in {"reporter"} : pc[t] \in ReporterHolds /\ subject[t] = w}

\* Whatever the schedule, every wait, signal and release is made by the
\* thread that holds the lock.  The assertions of cs_thread.h, which never
\* fail then, cannot tell the holder from another thread (cs_thread.h:78).
LocksOwned ==
  /\ ~fatal
  /\ \A w \in Workers :
       /\ HolderOfMainLock(w) = {holder[MainLock(w)]} \ {NoThread}
       /\ HolderOfReporterLock(w) = {holder[ReporterLock(w)]} \ {NoThread}

Acting == {"read_clock", "act", "signal"}

\* Until there is a winner the workers run one at a time, and only while the
\* Reporter waits for the answer of that very worker.  This is what makes the
\* Randomizer's unlocked writes to the distances (hare_tortoise.c:241, 255)
\* and the Hare's unlocked read of its own distance safe.
SerialActors ==
  no_winner = 1 =>
    \A w \in Workers :
      pc[w] \in Acting =>
        /\ pc["reporter"] = "waiting"
        /\ subject["reporter"] = w
        /\ \A v \in Workers \ {w} : pc[v] \notin Acting

\* The handshake with main does its work: in the first tick every worker is
\* in its cond_wait when the Reporter signals it.
FirstCallHeard == clock_tick <= 0 /\ turn # "reporter" => ~lost

\* With every schedule the threads apply the rules in order: each worker acts
\* once per tick, after the one before it, and never after the race is won.
FollowsRules == RulesSafeSpec

\* The program ends, with all threads joined, exactly when each signal of the
\* Reporter finds its worker in cond_wait or, after the race, on its way out.
EndsUnlessSignalLost == <>[](pc["main"] = "returned" <=> ~lost)

\* "Turtle will perform for 1 unit" (hare_tortoise.c:308), in every tick.
TurtlePerforms == turn = "turtle" ~> turn # "turtle"

=============================================================================
