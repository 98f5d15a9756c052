---------------------------- MODULE Race_proofs ----------------------------
(***************************************************************************)
(* For every race and every schedule: each wait, signal and release is     *)
(* made by the thread that holds the lock, the workers act one at a time   *)
(* until somebody has won, none of them misses its first call, and the     *)
(* threads implement the rules of RaceRules.                               *)
(***************************************************************************)
EXTENDS Race, RaceRules_proofs

-----------------------------------------------------------------------------
(* The inductive invariant                                                 *)

\* LocksOwned, lock by lock: who holds it, and where that thread is.
MainLockOwned(w) ==
  /\ holder[MainLock(w)] \in {w, "main", NoThread}
  /\ holder[MainLock(w)] = w <=> pc[w] \in HoldsMainLock
  /\ holder[MainLock(w)] = "main" <=> pc["main"] \in MainHolds /\ subject["main"] = w

ReporterLockOwned(w) ==
  /\ holder[ReporterLock(w)] \in {w, "reporter", NoThread}
  /\ holder[ReporterLock(w)] = w <=> pc[w] \in HoldsReporterLock
  /\ holder[ReporterLock(w)] = "reporter" <=>
       pc["reporter"] \in ReporterHolds /\ subject["reporter"] = w

Owned == ~fatal /\ \A w \in Workers : MainLockOwned(w) /\ ReporterLockOwned(w)

\* Each condition has one thread that waits for it, at its cond_wait.
MainAsleep(w) == "main" \in waiting[MainCv(w)]
Asleep(w) == w \in waiting[ToWorker(w)]
ReporterAsleep(w) == "reporter" \in waiting[ToReporter(w)]

WaitSets ==
  \A w \in Workers :
    /\ waiting[MainCv(w)] \subseteq {"main"}
    /\ MainAsleep(w) => pc["main"] = "waiting" /\ subject["main"] = w
    /\ waiting[ToWorker(w)] \subseteq {w}
    /\ Asleep(w) => pc[w] = "waiting"
    /\ waiting[ToReporter(w)] \subseteq {"reporter"}
    /\ ReporterAsleep(w) => pc["reporter"] = "waiting" /\ subject["reporter"] = w

\* A worker the Reporter cannot miss: it holds its lock on its way into
\* cond_wait, or is blocked there.
Ready(w) == pc[w] = "wait" \/ Asleep(w)

\* The workers behind w in the order of init and of Report.
Behind(w) == CASE w = "randomizer" -> {"turtle", "hare"}
               [] w = "turtle" -> {"hare"}
               [] OTHER -> {}

Greeting == {"own_lock", "main_signal", "main_release"}

\* Where a worker is until the Reporter exists: reached tells on which side
\* of its first critical section.
BeforeReach(w) == pc[w] \in {"none", "head", "main_lock"} /\ ~reached[w]
AfterReach(w) == (pc[w] \in Greeting \/ Ready(w)) /\ reached[w]

\* What main knows of the worker it deals with.
Greeted(w) ==
  /\ pc["main"] = "create" => pc[w] = "none"
  /\ pc["main"] = "lock" => pc[w] # "none"
  /\ pc["main"] = "wait" => pc[w] # "none" /\ ~reached[w]
  /\ pc["main"] = "waiting" /\ MainAsleep(w) =>
       pc[w] \in {"head", "main_lock", "own_lock", "main_signal"}
  /\ pc["main"] = "waiting" /\ ~MainAsleep(w) =>
       pc[w] = "main_release" \/ Ready(w)
  /\ pc["main"] = "release" => Ready(w)

\* While main creates the workers, those before its subject are ready and
\* those behind it do not exist.
Handshake ==
  /\ pc["reporter"] = "none" <=> pc["main"] \notin {"join", "returned"}
  /\ pc["reporter"] = "none" =>
       /\ clock_tick = -1
       /\ \A w \in Workers : BeforeReach(w) \/ AfterReach(w)
       /\ pc["main"] = "create_reporter" => \A w \in Workers : Ready(w)
       /\ pc["main"] # "create_reporter" =>
            /\ pc["main"] \in {"create", "lock", "wait", "waiting", "release"}
            /\ Greeted(subject["main"])
            /\ \A w \in Behind(subject["main"]) : pc[w] = "none"
            /\ \A w \in Workers \ {subject["main"]} :
                 w \notin Behind(subject["main"]) => Ready(w)

\* The Reporter begins the first tick with every worker ready, and those it
\* has not called in that tick stay so.
FirstTick ==
  /\ clock_tick = -1 =>
       /\ no_winner = 1
       /\ pc["reporter"] \in {"none", "head", "tick"}
       /\ pc["reporter"] # "none" => \A w \in Workers : Ready(w)
  /\ clock_tick = 0 =>
       /\ pc["reporter"] \in {"lock", "signal"} => Ready(subject["reporter"])
       /\ pc["reporter"] \in {"lock", "signal", "wait", "waiting", "release"} =>
            \A w \in Behind(subject["reporter"]) : Ready(w)

\* Where the Reporter is between two ticks, and what it has read of no_winner.
Stopping == {"stop_lock", "stop_signal", "stop_release"}
ReporterAt ==
  /\ pc["reporter"] \in {"none", "head", "tick", "test", "exit"} =>
       subject["reporter"] = "randomizer"
  /\ pc["reporter"] \in {"none", "tick"} => no_winner = 1
  /\ pc["reporter"] \in Stopping \cup {"exit"} => no_winner = 0

\* The Reporter no longer waits for answers.
Stopped == no_winner = 0 /\ pc["reporter"] \in Stopping \cup {"exit", "head"}

\* A worker that has been called and has not yet answered.
Called(w) == pc[w] \in Acting \/ (pc[w] = "waiting" /\ ~Asleep(w))

\* Only the subject of the Reporter is called, and the Reporter does not go
\* on before the answer.
Calls ==
  ~Stopped =>
    \A w \in Workers :
      Called(w) =>
        /\ subject["reporter"] = w
        /\ \/ pc["reporter"] = "wait" /\ pc[w] = "waiting"
           \/ pc["reporter"] = "waiting" /\ ReporterAsleep(w)

\* turn follows the Reporter, and goes on when the worker has acted.
TurnAgrees ==
  LET s == subject["reporter"]
  IN  /\ pc["reporter"] \in {"none", "head", "tick", "test", "exit"} \cup Stopping =>
           turn = "reporter"
      /\ pc["reporter"] \in {"lock", "signal", "wait"} => turn = s
      /\ pc["reporter"] = "waiting" =>
           turn = IF ReporterAsleep(s) /\ pc[s] # "signal" THEN s ELSE Turns[s]
      /\ pc["reporter"] = "release" => turn = Turns[s]

\* The time the Randomizer has read is still the time when it acts.
TimeRead == no_winner = 1 /\ pc["randomizer"] = "act" => curr_time = clock_tick

\* No call is lost before the end of the first tick.
NoneLost == clock_tick <= 0 /\ ~Stopped => ~lost

IInv ==
  /\ TypeOK
  /\ WinnerAtFinish
  /\ Owned
  /\ WaitSets
  /\ Handshake
  /\ FirstTick
  /\ ReporterAt
  /\ Calls
  /\ TurnAgrees
  /\ TimeRead
  /\ NoneLost

-----------------------------------------------------------------------------
(* Names of threads, locks and conditions                                  *)

LEMMA Names ==
  /\ \A w \in Workers : w \in Threads /\ w # "main" /\ w # "reporter" /\ w # NoThread
  /\ "main" \in Threads /\ "reporter" \in Threads
  /\ "main" # NoThread /\ "reporter" # NoThread
  /\ "randomizer" \in Workers /\ "turtle" \in Workers /\ "hare" \in Workers
BY RaceAssumption DEF Threads, Workers

LEMMA LockNames ==
  \A v, w \in Workers :
    /\ MainLock(w) \in Locks
    /\ ReporterLock(w) \in Locks
    /\ MainLock(v) # ReporterLock(w)
    /\ MainLock(v) = MainLock(w) => v = w
    /\ ReporterLock(v) = ReporterLock(w) => v = w
BY DEF MainLock, ReporterLock, Locks

LEMMA ConditionNames ==
  \A v, w \in Workers :
    /\ MainCv(w) \in Conditions
    /\ ToWorker(w) \in Conditions
    /\ ToReporter(w) \in Conditions
    /\ MainCv(v) # ToWorker(w)
    /\ MainCv(v) # ToReporter(w)
    /\ ToWorker(v) # ToReporter(w)
    /\ MainCv(v) = MainCv(w) => v = w
    /\ ToWorker(v) = ToWorker(w) => v = w
    /\ ToReporter(v) = ToReporter(w) => v = w
BY DEF MainCv, ToWorker, ToReporter, Conditions

\* What TypeOK says of the threads and their locks.
LEMMA ThreadTypes ==
  ASSUME TypeOK
  PROVE  /\ pc \in [Threads -> PCs]
         /\ subject \in [{"main", "reporter"} -> Workers]
         /\ subject["main"] \in Workers
         /\ subject["reporter"] \in Workers
         /\ reached \in [Workers -> BOOLEAN]
         /\ holder \in [Locks -> Threads \cup {NoThread}]
         /\ waiting \in [Conditions -> SUBSET Threads]
         /\ no_winner \in {0, 1}
         /\ clock_tick \in Int /\ clock_tick >= -1
BY DEF TypeOK, cs!CsTypeOK, RulesTypeOK

-----------------------------------------------------------------------------
(* Types                                                                   *)

\* The operations of cs_thread.h keep the types of the locks and conditions.
LEMMA LockingTypes ==
  ASSUME cs!CsTypeOK(Threads), NEW t \in Threads, NEW l \in Locks,
         NEW c \in Conditions,
         \/ UNCHANGED <<holder, waiting, fatal>>
         \/ cs!lock_acquire(t, l)
         \/ cs!lock_release(l)
         \/ cs!cond_wait(t, c, l)
         \/ cs!cond_wait_returns(t, c, l)
         \/ cs!cond_signal(c, l)
  PROVE  cs!CsTypeOK(Threads)'
<1> USE DEF cs!CsTypeOK
<1>1. CASE UNCHANGED <<holder, waiting, fatal>>
  BY <1>1
<1>2. CASE cs!lock_acquire(t, l) \/ cs!cond_wait_returns(t, c, l)
  BY <1>2 DEF cs!lock_acquire, cs!cond_wait_returns
<1>3. CASE cs!lock_release(l)
  BY <1>3 DEF cs!lock_release, cs!AssertFails
<1>4. CASE cs!cond_wait(t, c, l)
  BY <1>4 DEF cs!cond_wait, cs!AssertFails
<1>5. CASE cs!cond_signal(c, l)
  BY <1>5 DEF cs!cond_signal, cs!AssertFails, cs!csVars
<1> QED
  BY <1>1, <1>2, <1>3, <1>4, <1>5

-----------------------------------------------------------------------------
(* Locks                                                                   *)

\* main creates threads that do not exist.
LEMMA CreatedNew ==
  ASSUME Handshake
  PROVE  /\ Create => pc[subject["main"]] = "none"
         /\ CreateReporter => pc["reporter"] = "none"
BY DEF Handshake, Greeted, Create, CreateReporter

\* The assertions of cs_thread.h do not fail, and whoever goes on as the
\* holder of a lock has just acquired it.
LEMMA OwnedKept ==
  ASSUME TypeOK, Owned, Handshake, Next
  PROVE  Owned'
<1> USE Names, LockNames, ThreadTypes DEF Owned, MainLockOwned, ReporterLockOwned,
        HoldsMainLock, HoldsReporterLock, MainHolds, ReporterHolds, Goto
<1>1. CASE Create
  BY <1>1, CreatedNew DEF Create
<1>2. CASE MainHandshake
  BY <1>2 DEF MainHandshake, NextSubject, cs!lock_acquire, cs!lock_release,
     cs!cond_wait, cs!cond_wait_returns, cs!Held, cs!AssertFails, rulesVars
<1>3. CASE CreateReporter \/ Join
  BY <1>3, CreatedNew DEF CreateReporter, Join
<1>4. CASE Reporter
  <2>1. CASE ReporterHead \/ IncrementClock \/ TestWinner
    BY <2>1 DEF ReporterHead, IncrementClock, TestWinner
  <2>2. CASE CallWorker
    BY <2>2 DEF CallWorker, NextSubject, cs!lock_acquire, cs!lock_release,
     cs!cond_wait, cs!cond_wait_returns, cs!cond_signal, cs!csVars, cs!Held, cs!AssertFails
  <2>3. CASE StopWorker
    BY <2>3 DEF StopWorker, NextSubject, cs!lock_acquire, cs!lock_release,
     cs!cond_signal, cs!csVars, cs!Held, cs!AssertFails
  <2> QED
    BY <1>4, <2>1, <2>2, <2>3 DEF Reporter
<1>5. ASSUME NEW w \in Workers, Worker(w) PROVE Owned'
  <2>1. CASE WorkerHead(w) \/ ReadClock(w) \/ Perform(w)
    BY <2>1 DEF WorkerHead, ReadClock, Perform
  <2>2. CASE Greet(w)
    BY <2>2 DEF Greet, cs!lock_acquire, cs!lock_release, cs!cond_signal, cs!csVars, cs!Held, cs!AssertFails
  <2>3. CASE AwaitReporter(w)
    BY <2>3 DEF AwaitReporter, cs!lock_acquire, cs!cond_wait, cs!cond_wait_returns, cs!Held, cs!AssertFails
  <2>4. CASE Answer(w)
    BY <2>4 DEF Answer, cs!lock_release, cs!cond_signal, cs!csVars, cs!Held, cs!AssertFails
  <2> QED
    BY <1>5, <2>1, <2>2, <2>3, <2>4 DEF Worker
<1> QED
  BY <1>1, <1>2, <1>3, <1>4, <1>5 DEF Next, Main

-----------------------------------------------------------------------------
(* Conditions                                                              *)

LEMMA WaitSetsKept ==
  ASSUME TypeOK, Owned, WaitSets, Handshake, Next
  PROVE  WaitSets'
<1> USE Names, ConditionNames, ThreadTypes DEF WaitSets, MainAsleep, Asleep, ReporterAsleep, Goto
<1>1. CASE Create
  BY <1>1, CreatedNew DEF Create
<1>2. CASE MainHandshake
  BY <1>2 DEF MainHandshake, NextSubject, cs!lock_acquire, cs!lock_release,
     cs!cond_wait, cs!cond_wait_returns, cs!AssertFails
<1>3. CASE CreateReporter \/ Join
  BY <1>3, CreatedNew DEF CreateReporter, Join
<1>4. CASE Reporter
  <2>1. CASE ReporterHead \/ IncrementClock \/ TestWinner
    BY <2>1 DEF ReporterHead, IncrementClock, TestWinner
  <2>2. CASE CallWorker
    BY <2>2 DEF CallWorker, NextSubject, cs!lock_acquire, cs!lock_release,
     cs!cond_wait, cs!cond_wait_returns, cs!cond_signal, cs!csVars, cs!AssertFails
  <2>3. CASE StopWorker
    BY <2>3 DEF StopWorker, NextSubject, cs!lock_acquire, cs!lock_release,
     cs!cond_signal, cs!csVars, cs!AssertFails
  <2> QED
    BY <1>4, <2>1, <2>2, <2>3 DEF Reporter
<1>5. ASSUME NEW w \in Workers, Worker(w) PROVE WaitSets'
  <2>1. CASE WorkerHead(w) \/ ReadClock(w) \/ Perform(w)
    BY <2>1 DEF WorkerHead, ReadClock, Perform
  <2>2. CASE Greet(w)
    BY <2>2 DEF Greet, cs!lock_acquire, cs!lock_release, cs!cond_signal, cs!csVars, cs!AssertFails
  <2>3. CASE AwaitReporter(w)
    BY <2>3 DEF AwaitReporter, cs!lock_acquire, cs!cond_wait, cs!cond_wait_returns, cs!AssertFails
  <2>4. CASE Answer(w)
    BY <2>4 DEF Answer, cs!lock_release, cs!cond_signal, cs!csVars, cs!AssertFails
  <2> QED
    BY <1>5, <2>1, <2>2, <2>3, <2>4 DEF Worker
<1> QED
  BY <1>1, <1>2, <1>3, <1>4, <1>5 DEF Next, Main

\* A ready worker stays so until the Reporter signals it.
LEMMA ReadyKept ==
  ASSUME TypeOK, Owned, WaitSets, Handshake, Next,
         NEW v \in Workers, Ready(v),
         ~(/\ pc["reporter"] \in {"signal", "stop_signal"}
           /\ subject["reporter"] = v
           /\ pc'["reporter"] # pc["reporter"])
  PROVE  Ready(v)'
<1> USE Names, ConditionNames, ThreadTypes
        DEF Ready, WaitSets, Asleep, Goto
<1>1. CASE Create
  BY <1>1, CreatedNew DEF Create
<1>2. CASE MainHandshake
  BY <1>2 DEF MainHandshake, NextSubject, cs!lock_acquire, cs!lock_release,
     cs!cond_wait, cs!cond_wait_returns, cs!Held, cs!AssertFails
<1>3. CASE CreateReporter \/ Join
  BY <1>3 DEF CreateReporter, Join
<1>4. CASE Reporter
  <2>1. CASE ReporterHead \/ IncrementClock \/ TestWinner
    BY <2>1 DEF ReporterHead, IncrementClock, TestWinner
  <2>2. CASE CallWorker
    BY <2>2 DEF CallWorker, NextSubject, cs!lock_acquire, cs!lock_release,
       cs!cond_wait, cs!cond_wait_returns, cs!cond_signal, cs!csVars, cs!Held,
       cs!AssertFails
  <2>3. CASE StopWorker
    BY <2>3 DEF StopWorker, NextSubject, cs!lock_acquire, cs!lock_release,
       cs!cond_signal, cs!csVars, cs!Held, cs!AssertFails
  <2> QED
    BY <1>4, <2>1, <2>2, <2>3 DEF Reporter
<1>5. ASSUME NEW w \in Workers, Worker(w) PROVE Ready(v)'
  <2>1. CASE WorkerHead(w) \/ ReadClock(w) \/ Perform(w)
    BY <2>1 DEF WorkerHead, ReadClock, Perform
  <2>2. CASE Greet(w)
    BY <2>2 DEF Greet, cs!lock_acquire, cs!lock_release, cs!cond_signal,
       cs!csVars, cs!Held, cs!AssertFails
  <2>3. CASE AwaitReporter(w)
    BY <2>3, LockNames DEF AwaitReporter, cs!lock_acquire, cs!cond_wait,
       cs!cond_wait_returns, cs!Held, cs!AssertFails, Owned,
       ReporterLockOwned, HoldsReporterLock
  <2>4. CASE Answer(w)
    BY <2>4 DEF Answer, cs!lock_release, cs!cond_signal, cs!csVars, cs!Held,
       cs!AssertFails
  <2> QED
    BY <1>5, <2>1, <2>2, <2>3, <2>4 DEF Worker
<1> QED
  BY <1>1, <1>2, <1>3, <1>4, <1>5 DEF Next, Main


-----------------------------------------------------------------------------
(* The handshakes of init                                                  *)

\* The order of the workers.
LEMMA Order ==
  /\ Behind("randomizer") = {"turtle", "hare"} /\ After("randomizer") = "turtle"
  /\ Behind("turtle") = {"hare"} /\ After("turtle") = "hare"
  /\ Behind("hare") = {}
  /\ \A w \in Workers : Behind(w) \subseteq Workers /\ w \notin Behind(w)
  /\ \A w \in Workers \ {"hare"} :
       /\ After(w) \in Workers
       /\ Behind(w) = {After(w)} \cup Behind(After(w))
       /\ After(w) \notin Behind(After(w))
       /\ w # After(w)
       /\ w \notin Behind(After(w))
BY DEF Behind, After, Workers

\* The first conjunct of Handshake, and what follows once the Reporter exists.
LEMMA ReporterCreated ==
  ASSUME TypeOK, Handshake, Next
  PROVE  /\ pc'["reporter"] = "none" <=> pc'["main"] \notin {"join", "returned"}
         /\ pc'["reporter"] = "none" => pc["reporter"] = "none"
<1> USE Names, ThreadTypes DEF Goto, Handshake, Greeted
<1>1. CASE Create
  BY <1>1 DEF Create
<1>2. CASE MainHandshake
  BY <1>2 DEF MainHandshake, NextSubject
<1>3. CASE CreateReporter \/ Join
  BY <1>3 DEF CreateReporter, Join
<1>4. CASE Reporter
  BY <1>4 DEF Reporter, ReporterHead, IncrementClock, CallWorker, TestWinner, StopWorker,
     NextSubject
<1>5. ASSUME NEW w \in Workers, Worker(w)
      PROVE  pc'["reporter"] = pc["reporter"] /\ pc'["main"] = pc["main"]
  BY <1>5 DEF Worker, WorkerHead, Greet, AwaitReporter, ReadClock, Perform, Answer
<1> QED
  BY <1>1, <1>2, <1>3, <1>4, <1>5 DEF Next, Main

\* Until the Reporter exists only main and the workers step, and no worker is
\* past its first cond_wait.
LEMMA OnlyMainAndWorkers ==
  ASSUME TypeOK, WaitSets, Handshake, FirstTick, Next, pc["reporter"] = "none"
  PROVE  /\ clock_tick = -1 /\ no_winner = 1
         /\ clock_tick' = clock_tick
         /\ \/ Create \/ MainHandshake \/ CreateReporter
            \/ \E w \in Workers : WorkerHead(w) \/ Greet(w) \/ AwaitReporter(w)
<1> USE DEF Goto
<1>1. clock_tick = -1 /\ no_winner = 1 /\ pc["main"] \notin {"join", "returned"}
  BY DEF Handshake, FirstTick
<1>2. ~Join /\ ~Reporter
  BY <1>1 DEF Join, Reporter, ReporterHead, IncrementClock, CallWorker, TestWinner,
     StopWorker, NextSubject
<1>3. \A w \in Workers : pc[w] \notin Acting \cup {"release"}
  BY DEF Handshake, BeforeReach, AfterReach, Greeting, Acting, Ready, Asleep, WaitSets
<1>4. \A w \in Workers : ~ReadClock(w) /\ ~Perform(w) /\ ~Answer(w)
  BY <1>3 DEF ReadClock, Perform, Answer, Acting
<1>5. \/ Create \/ MainHandshake \/ CreateReporter
      \/ \E w \in Workers : WorkerHead(w) \/ Greet(w) \/ AwaitReporter(w)
  BY <1>2, <1>4 DEF Next, Main, Worker
<1>6. clock_tick' = clock_tick
  BY <1>5 DEF rulesVars, Create, MainHandshake, CreateReporter, WorkerHead, Greet, AwaitReporter
<1> QED
  BY <1>1, <1>5, <1>6

\* Each worker reaches the position in which it is ready.
LEMMA PlacesKept ==
  ASSUME TypeOK, Owned, WaitSets, Handshake, FirstTick, Next,
         pc["reporter"] = "none", NEW v \in Workers
  PROVE  (BeforeReach(v) \/ AfterReach(v))'
<1> USE Names, ThreadTypes DEF Goto, BeforeReach, AfterReach, Greeting
<1>1. BeforeReach(v) \/ AfterReach(v)
  BY DEF Handshake
<1>2. Ready(v) => Ready(v)'
  BY ReadyKept
<1>3. CASE Create
  BY <1>1, <1>2, <1>3, CreatedNew DEF Create
<1>4. CASE MainHandshake
  BY <1>1, <1>2, <1>4 DEF MainHandshake, NextSubject
<1>5. CASE CreateReporter
  BY <1>1, <1>2, <1>5 DEF CreateReporter
<1>6. ASSUME NEW w \in Workers, WorkerHead(w) \/ Greet(w) \/ AwaitReporter(w)
      PROVE  (BeforeReach(v) \/ AfterReach(v))'
  <2>1. CASE WorkerHead(w)
    BY <1>1, <1>2, <2>1, OnlyMainAndWorkers DEF WorkerHead, Ready, WaitSets
  <2>2. CASE Greet(w)
    BY <1>1, <1>2, <2>2 DEF Greet, Ready
  <2>3. CASE AwaitReporter(w)
    BY <1>1, <1>2, <2>3 DEF AwaitReporter, Ready, Asleep, WaitSets, cs!cond_wait_returns
  <2> QED
    BY <1>6, <2>1, <2>2, <2>3
<1> QED
  BY <1>3, <1>4, <1>5, <1>6, OnlyMainAndWorkers

\* main's own steps: it goes on when the worker has released the lock of
\* their condition, which the worker does in cond_wait at the earliest.
LEMMA MainGreets ==
  ASSUME TypeOK, Owned, WaitSets, Handshake, FirstTick,
         pc["reporter"] = "none", MainHandshake,
         NEW m \in Workers, m = subject'["main"]
  PROVE  /\ pc'["main"] = "create_reporter" => \A v \in Workers : Ready(v)'
         /\ pc'["main"] # "create_reporter" =>
              /\ pc'["main"] \in {"create", "lock", "wait", "waiting", "release"}
              /\ Greeted(m)'
              /\ \A v \in Behind(m) : pc'[v] = "none"
              /\ \A v \in Workers \ {m} : v \notin Behind(m) => Ready(v)'
<1> USE Names, ThreadTypes DEF Goto
<1>0. PICK w \in Workers : w = subject["main"]
  OBVIOUS
<1>1. /\ BeforeReach(w) \/ AfterReach(w)
      /\ Greeted(w)
      /\ \A v \in Behind(w) : pc[v] = "none"
      /\ \A v \in Workers \ {w} : v \notin Behind(w) => Ready(v)
  BY <1>0 DEF Handshake, MainHandshake, NextSubject
<1>2. \A v \in Workers : pc'[v] = pc[v] /\ Asleep(v)' = Asleep(v) /\ reached' = reached
  BY ConditionNames DEF MainHandshake, NextSubject, cs!lock_acquire, cs!lock_release,
     cs!cond_wait, cs!cond_wait_returns, cs!AssertFails, Asleep
<1>3. CASE pc["main"] = "release"
  <2>1. /\ m = IF w = "hare" THEN "randomizer" ELSE After(w)
        /\ pc'["main"] = IF w = "hare" THEN "create_reporter" ELSE "create"
    BY <1>0, <1>3 DEF MainHandshake, NextSubject
  <2>2. \A v \in Workers \ Behind(w) : Ready(v)
    BY <1>1, <1>3 DEF Greeted
  <2>3. \A v \in Workers : Ready(v)' = Ready(v)
    BY <1>2 DEF Ready
  <2>4. CASE w = "hare"
    BY <2>1, <2>2, <2>3, <2>4, Order
  <2>5. CASE w # "hare"
    BY <1>1, <1>2, <2>1, <2>2, <2>3, <2>5, Order DEF Greeted
  <2> QED
    BY <2>4, <2>5
<1>4. CASE pc["main"] # "release"
  <2>1. subject' = subject /\ m = w /\ pc'["main"] \in {"wait", "waiting", "release"}
    BY <1>0, <1>4 DEF MainHandshake, NextSubject
  <2>2. Greeted(w)'
    <3> USE <1>0, LockNames, ConditionNames DEF MainHandshake, NextSubject, Greeted
    <3>1. pc[w] \notin Greeting => holder[MainLock(w)] # w
      BY <1>1 DEF Owned, MainLockOwned, HoldsMainLock, Greeting
    <3>2. holder[MainLock(w)] = NoThread => pc[w] \notin Greeting
      BY <1>1 DEF Owned, MainLockOwned, HoldsMainLock, Greeting
    <3>3. CASE pc["main"] = "lock"
      BY <1>1, <1>2, <2>1, <3>2, <3>3 DEF cs!lock_acquire, cs!Held, BeforeReach, AfterReach, Ready
    <3>4. CASE pc["main"] = "wait"
      BY <1>1, <1>2, <2>1, <3>1, <3>4 DEF cs!cond_wait, cs!Held, BeforeReach, AfterReach,
         Owned, MainLockOwned, MainHolds, MainAsleep
    <3>5. CASE pc["main"] = "waiting"
      BY <1>1, <1>2, <2>1, <3>2, <3>5 DEF cs!cond_wait_returns, cs!lock_acquire, cs!Held,
         MainAsleep, Greeting, Ready
    <3> QED
      BY <1>4, <3>3, <3>4, <3>5 DEF NextSubject
  <2> QED
    BY <1>1, <1>2, <2>1, <2>2, Order DEF Ready
<1> QED
  BY <1>3, <1>4

\* A worker's own steps: one that does not exist takes none, and main's
\* subject goes the way main expects.
LEMMA WorkerGreets ==
  ASSUME TypeOK, Owned, WaitSets, Handshake, FirstTick, Next,
         pc["reporter"] = "none",
         NEW w \in Workers, WorkerHead(w) \/ Greet(w) \/ AwaitReporter(w),
         NEW m \in Workers, m = subject["main"], pc["main"] # "create_reporter"
  PROVE  Greeted(m)' /\ \A v \in Behind(m) : pc'[v] = "none"
<1> USE Names, ThreadTypes DEF Goto
<1>1. /\ BeforeReach(m) \/ AfterReach(m)
      /\ Greeted(m)
      /\ \A v \in Behind(m) : pc[v] = "none"
      /\ Ready(m) => Ready(m)'
  BY ReadyKept DEF Handshake
<1>2. /\ pc[w] # "none" /\ pc' = [pc EXCEPT ![w] = pc'[w]] /\ subject' = subject
      /\ pc'[w] # "none"
  BY DEF WorkerHead, Greet, AwaitReporter
<1>3. \A v \in Behind(m) : pc'[v] = "none"
  BY <1>1, <1>2, Order
<1> SUFFICES Greeted(m)'
  BY <1>3
<1>4. CASE w # m
  <2>1. MainAsleep(m)' = MainAsleep(m) /\ reached'[m] = reached[m]
    BY <1>4, ConditionNames DEF WorkerHead, Greet, AwaitReporter, MainAsleep,
       cs!lock_acquire, cs!lock_release, cs!cond_wait, cs!cond_wait_returns,
       cs!cond_signal, cs!csVars, cs!AssertFails
  <2> QED
    BY <1>1, <1>2, <1>4, <2>1 DEF Greeted
<1>5. CASE w = m
  <2>1. CASE WorkerHead(m)
    BY <1>1, <2>1, OnlyMainAndWorkers DEF WorkerHead, Greeted, MainAsleep, Ready, WaitSets,
       BeforeReach, AfterReach, Greeting
  <2>2. CASE Greet(m)
    <3> USE <1>1, LockNames, ConditionNames DEF Greet, Greeted, MainAsleep, Ready
    <3>1. CASE pc[m] = "main_lock"
      BY <2>2, <3>1 DEF cs!lock_acquire, cs!Held, Owned, MainLockOwned, MainHolds, WaitSets
    <3>2. CASE pc[m] = "own_lock"
      BY <2>2, <3>2 DEF cs!lock_acquire, BeforeReach, AfterReach, Greeting, WaitSets
    <3>3. CASE pc[m] = "main_signal"
      BY <2>2, <3>3 DEF cs!cond_signal, cs!csVars, cs!Held, Owned, MainLockOwned, HoldsMainLock,
         BeforeReach, WaitSets
    <3>4. CASE pc[m] = "main_release"
      BY <2>2, <3>4 DEF cs!lock_release, cs!Held, Owned, MainLockOwned, HoldsMainLock,
         BeforeReach
    <3> QED
      BY <2>2, <3>1, <3>2, <3>3, <3>4
  <2>3. CASE AwaitReporter(m)
    <3>1. pc[m] = "wait"
      BY <1>1, <2>3 DEF AwaitReporter, BeforeReach, AfterReach, Greeting, Ready, WaitSets, Asleep,
         cs!cond_wait_returns
    <3>2. MainAsleep(m)' = MainAsleep(m) /\ reached'[m] = reached[m]
      BY <2>3, ConditionNames DEF AwaitReporter, MainAsleep, cs!lock_acquire, cs!cond_wait,
         cs!cond_wait_returns, cs!AssertFails
    <3> QED
      BY <1>1, <1>2, <1>5, <3>1, <3>2 DEF Greeted, Ready
  <2> QED
    BY <1>5, <2>1, <2>2, <2>3
<1> QED
  BY <1>4, <1>5

LEMMA HandshakeKept ==
  ASSUME TypeOK, Owned, WaitSets, Handshake, FirstTick, Next
  PROVE  Handshake'
<1> USE Names, ThreadTypes
<1> SUFFICES ASSUME pc'["reporter"] = "none"
             PROVE  /\ clock_tick' = -1
                    /\ \A w \in Workers : (BeforeReach(w) \/ AfterReach(w))'
                    /\ pc'["main"] = "create_reporter" => \A w \in Workers : Ready(w)'
                    /\ pc'["main"] # "create_reporter" =>
                         /\ pc'["main"] \in {"create", "lock", "wait", "waiting", "release"}
                         /\ Greeted(subject["main"])'
                         /\ \A w \in Behind(subject'["main"]) : pc'[w] = "none"
                         /\ \A w \in Workers \ {subject'["main"]} :
                              w \notin Behind(subject'["main"]) => Ready(w)'
  BY ReporterCreated DEF Handshake
<1>1. pc["reporter"] = "none"
  BY ReporterCreated
<1>2. clock_tick' = -1
  BY <1>1, OnlyMainAndWorkers
<1>3. \A w \in Workers : (BeforeReach(w) \/ AfterReach(w))'
  BY <1>1, PlacesKept
<1>4. \A w \in Workers : Ready(w) => Ready(w)'
  BY <1>1, ReadyKept
<1>5. subject'["main"] \in Workers
  BY <1>1, OnlyMainAndWorkers, Order DEF Create, MainHandshake, CreateReporter, NextSubject,
     WorkerHead, Greet, AwaitReporter
<1>6. PICK m \in Workers : m = subject'["main"]
  BY <1>5
<1> SUFFICES /\ pc'["main"] = "create_reporter" => \A w \in Workers : Ready(w)'
             /\ pc'["main"] # "create_reporter" =>
                  /\ pc'["main"] \in {"create", "lock", "wait", "waiting", "release"}
                  /\ Greeted(m)'
                  /\ \A w \in Behind(m) : pc'[w] = "none"
                  /\ \A w \in Workers \ {m} : w \notin Behind(m) => Ready(w)'
  BY <1>2, <1>3, <1>6 DEF Greeted, Ready, MainAsleep
<1>7. CASE Create
  <2>1. m = subject["main"] /\ pc' = [pc EXCEPT !["main"] = "lock", ![m] = "head"]
    BY <1>6, <1>7 DEF Create
  <2>2. \A w \in Behind(m) : pc'[w] = "none"
    BY <1>1, <1>7, <2>1, Order DEF Handshake, Create
  <2>3. \A w \in Workers \ {m} : w \notin Behind(m) => Ready(w)'
    BY <1>1, <1>4, <1>7, <2>1 DEF Handshake, Create
  <2> QED
    BY <2>1, <2>2, <2>3 DEF Greeted
<1>8. CASE MainHandshake
  BY <1>1, <1>6, <1>8, MainGreets
<1>9. ~CreateReporter
  BY DEF CreateReporter
<1>10. ASSUME NEW w \in Workers, WorkerHead(w) \/ Greet(w) \/ AwaitReporter(w)
       PROVE  /\ subject' = subject /\ pc'["main"] = pc["main"]
              /\ pc["main"] # "create_reporter" =>
                   Greeted(m)' /\ \A v \in Behind(m) : pc'[v] = "none"
  <2>1. subject' = subject /\ pc'["main"] = pc["main"]
    BY <1>10 DEF WorkerHead, Greet, AwaitReporter, Goto
  <2> QED
    BY <1>1, <1>6, <1>10, <2>1, WorkerGreets
<1>11. CASE \E w \in Workers : WorkerHead(w) \/ Greet(w) \/ AwaitReporter(w)
  BY <1>1, <1>4, <1>6, <1>10, <1>11 DEF Handshake
<1> QED
  BY <1>1, <1>7, <1>8, <1>9, <1>11, OnlyMainAndWorkers

-----------------------------------------------------------------------------
(* Types and rules                                                         *)

\* Two steps of the threads touch the data of the race.
LEMMA RulesSteps ==
  ASSUME Next
  PROVE  \/ IncrementClock
         \/ \E w \in Workers : Perform(w)
         \/ UNCHANGED rulesVars
BY DEF Next, Main, Reporter, Worker, Create, MainHandshake, CreateReporter, Join,
   WorkerHead, Greet, AwaitReporter, ReadClock, Answer, ReporterHead, CallWorker,
   TestWinner, StopWorker, rulesVars, data

LEMMA RulesTypesKept ==
  ASSUME TypeOK, WinnerAtFinish, Next
  PROVE  (RulesTypeOK /\ WinnerAtFinish)'
<1> USE DEF RulesTypeOK
<1>1. RulesTypeOK
  BY DEF TypeOK
<1>2. CASE IncrementClock
  BY <1>1, <1>2 DEF IncrementClock, data, WinnerAtFinish, Turns
<1>3. ASSUME NEW w \in Workers, Perform(w) PROVE (RulesTypeOK /\ WinnerAtFinish)'
  <2>1. Act(w, curr_time) /\ UNCHANGED <<race, clock_tick>>
    BY <1>3 DEF Perform
  <2>2. turn' \in DOMAIN Turns
    BY <1>1, <1>3 DEF Perform, Turns, Workers
  <2> QED
    BY <1>1, <2>1, <2>2, ActCorrect
<1>4. CASE UNCHANGED rulesVars
  BY <1>1, <1>4 DEF rulesVars, data, WinnerAtFinish
<1> QED
  BY <1>2, <1>3, <1>4, RulesSteps

LEMMA WinnerStays ==
  ASSUME TypeOK, WinnerAtFinish, Next
  PROVE  no_winner = 0 => no_winner' = 0 /\ UNCHANGED data
BY RulesSteps, ActAfterWinner DEF IncrementClock, Perform, rulesVars, data

\* The locks and conditions of a step are those of a worker, and the thread
\* is one of Threads.
LEMMA LockTypesKept ==
  ASSUME TypeOK, Next
  PROVE  cs!CsTypeOK(Threads)'
<1> USE Names, LockNames, ConditionNames, ThreadTypes
<1>1. cs!CsTypeOK(Threads)
  BY DEF TypeOK
<1>2. CASE UNCHANGED <<holder, waiting, fatal>>
  BY <1>1, <1>2 DEF cs!CsTypeOK
<1>3. CASE Main
  <2>1. CASE MainHandshake
    BY <1>1, <1>2, <2>1, LockingTypes DEF MainHandshake
  <2> QED
    BY <1>2, <1>3, <2>1 DEF Main, Create, CreateReporter, Join
<1>4. CASE Reporter
  <2>1. CASE CallWorker
    BY <1>1, <1>2, <2>1, LockingTypes DEF CallWorker
  <2>2. CASE StopWorker
    BY <1>1, <1>2, <2>2, LockingTypes DEF StopWorker
  <2> QED
    BY <1>2, <1>4, <2>1, <2>2 DEF Reporter, ReporterHead, IncrementClock, TestWinner
<1>5. ASSUME NEW w \in Workers, Worker(w) PROVE cs!CsTypeOK(Threads)'
  <2>1. CASE Greet(w)
    BY <1>1, <2>1, LockingTypes DEF Greet
  <2>2. CASE AwaitReporter(w)
    BY <1>1, <2>2, LockingTypes DEF AwaitReporter
  <2>3. CASE Answer(w)
    BY <1>1, <2>3, LockingTypes DEF Answer
  <2> QED
    BY <1>2, <1>5, <2>1, <2>2, <2>3 DEF Worker, WorkerHead, ReadClock, Perform
<1> QED
  BY <1>3, <1>4, <1>5 DEF Next

LEMMA ThreadTypesKept ==
  ASSUME TypeOK, Next
  PROVE  /\ pc' \in [Threads -> PCs]
         /\ subject' \in [{"main", "reporter"} -> Workers]
         /\ reached' \in [Workers -> BOOLEAN]
         /\ curr_time' \in Nat \cup {-1}
         /\ lost' \in BOOLEAN
<1> USE Names, ThreadTypes, Order DEF Goto, NextSubject
<1>1. curr_time \in Nat \cup {-1} /\ lost \in BOOLEAN /\ clock_tick \in Nat \cup {-1}
  BY DEF TypeOK, RulesTypeOK
<1>2. CASE Main
  <2>1. pc' \in [Threads -> PCs]
    BY <1>2 DEF PCs, Main, Create, MainHandshake, CreateReporter, Join
  <2> QED
    BY <1>1, <1>2, <2>1 DEF Main, Create, MainHandshake, CreateReporter, Join
<1>3. CASE Reporter
  <2>1. pc' \in [Threads -> PCs]
    BY <1>3 DEF PCs, Reporter, ReporterHead, IncrementClock, CallWorker, TestWinner,
       StopWorker
  <2> QED
    <3>1. CASE CallWorker
      <4>1. lost' \in BOOLEAN
        BY <1>1, <3>1, Zenon DEF CallWorker
      <4> QED
        BY <1>1, <2>1, <3>1, <4>1 DEF CallWorker
    <3>2. CASE StopWorker
      <4>1. lost' \in BOOLEAN
        BY <1>1, <3>2, Zenon DEF StopWorker
      <4> QED
        BY <1>1, <2>1, <3>2, <4>1 DEF StopWorker
    <3> QED
      BY <1>1, <1>3, <2>1, <3>1, <3>2 DEF Reporter, ReporterHead, IncrementClock, TestWinner
<1>4. ASSUME NEW w \in Workers, Worker(w)
      PROVE  /\ pc' \in [Threads -> PCs]
             /\ subject' = subject
             /\ reached' \in [Workers -> BOOLEAN]
             /\ curr_time' \in Nat \cup {-1}
             /\ lost' = lost
  <2>1. pc' \in [Threads -> PCs]
    BY <1>4 DEF PCs, Worker, WorkerHead, Greet, AwaitReporter, ReadClock, Perform, Answer
  <2> QED
    BY <1>1, <1>4, <2>1 DEF Worker, WorkerHead, Greet, AwaitReporter, ReadClock, Perform,
       Answer
<1> QED
  BY <1>1, <1>2, <1>3, <1>4 DEF Next

LEMMA TypeKept ==
  ASSUME TypeOK, WinnerAtFinish, Next
  PROVE  TypeOK'
BY RulesTypesKept, LockTypesKept, ThreadTypesKept DEF TypeOK

-----------------------------------------------------------------------------
(* The ticks                                                               *)

\* The moves of the Reporter.
LEMMA ReporterMoves ==
  ASSUME TypeOK, Handshake, Next
  PROVE  \/ UNCHANGED <<pc["reporter"], subject["reporter"]>>
         \/ /\ CreateReporter
            /\ pc["reporter"] = "none" /\ pc'["reporter"] = "head"
            /\ subject' = subject
         \/ Reporter
<1> USE Names, ThreadTypes DEF Goto
<1>1. CASE Create \/ MainHandshake \/ Join
  BY <1>1 DEF Create, MainHandshake, Join, NextSubject
<1>2. CASE CreateReporter
  BY <1>2, CreatedNew DEF CreateReporter
<1>3. ASSUME NEW w \in Workers, Worker(w)
      PROVE  UNCHANGED <<pc["reporter"], subject["reporter"]>>
  BY <1>3 DEF Worker, WorkerHead, Greet, AwaitReporter, ReadClock, Perform, Answer
<1> QED
  BY <1>1, <1>2, <1>3 DEF Next, Main

\* Who acts before the race is over has been called by the Reporter, which
\* waits for the answer.
LEMMA ActsWhenCalled ==
  ASSUME Calls, NEW w \in Workers, Called(w), ~Stopped
  PROVE  /\ subject["reporter"] = w
         /\ pc["reporter"] \in {"wait", "waiting"}
         /\ pc[w] \in Acting => pc["reporter"] = "waiting" /\ ReporterAsleep(w)
BY DEF Calls, Acting

LEMMA NoWinnerKept ==
  ASSUME TypeOK, WinnerAtFinish, Calls, Next, no_winner = 1,
         pc["reporter"] \notin {"wait", "waiting"}
  PROVE  no_winner' = 1
<1>1. \A w \in Workers : ~Perform(w)
  BY ActsWhenCalled DEF Perform, Goto, Called, Acting, Stopped
<1> QED
  BY <1>1, RulesSteps DEF IncrementClock, rulesVars, data

LEMMA ReporterAtKept ==
  ASSUME TypeOK, WinnerAtFinish, Handshake, ReporterAt, Calls, Next
  PROVE  ReporterAt'
<1> USE ThreadTypes, NoWinnerKept, WinnerStays, TypeKept DEF ReporterAt, Stopping
<1>1. no_winner' \in {0, 1}
  BY DEF TypeOK, RulesTypeOK
<1>2. CASE UNCHANGED <<pc["reporter"], subject["reporter"]>>
  BY <1>1, <1>2
<1>3. CASE CreateReporter
  BY <1>1, <1>3, CreatedNew, Names DEF CreateReporter
<1>4. CASE Reporter
  BY <1>1, <1>4, Names DEF Reporter, ReporterHead, IncrementClock, CallWorker, TestWinner,
     StopWorker, Goto, NextSubject
<1> QED
  BY <1>2, <1>3, <1>4, ReporterMoves

LEMMA StoppedStays ==
  ASSUME TypeOK, WinnerAtFinish, Handshake, ReporterAt, Calls, Next, Stopped
  PROVE  Stopped'
<1> USE ThreadTypes, Names, WinnerStays DEF Stopped, Stopping
<1>1. CASE UNCHANGED <<pc["reporter"], subject["reporter"]>>
  BY <1>1
<1>2. CASE CreateReporter
  BY <1>2, CreatedNew DEF CreateReporter
<1>3. CASE Reporter
  BY <1>3 DEF Reporter, ReporterHead, IncrementClock, CallWorker, TestWinner,
     StopWorker, Goto, NextSubject
<1> QED
  BY <1>1, <1>2, <1>3, ReporterMoves

LEMMA CallsKept ==
  ASSUME TypeOK, WinnerAtFinish, Owned, WaitSets, Handshake, ReporterAt, Calls, Next
  PROVE  Calls'
<1> USE Names, ConditionNames, ThreadTypes
<1> SUFFICES ASSUME ~Stopped', NEW v \in Workers, Called(v)'
             PROVE  /\ subject'["reporter"] = v
                    /\ \/ pc'["reporter"] = "wait" /\ pc'[v] = "waiting"
                       \/ pc'["reporter"] = "waiting" /\ ReporterAsleep(v)'
  BY DEF Calls
<1>1. /\ ~Stopped
      /\ \A w \in Workers :
           Called(w) =>
             /\ subject["reporter"] = w
             /\ \/ pc["reporter"] = "wait" /\ pc[w] = "waiting"
                \/ pc["reporter"] = "waiting" /\ ReporterAsleep(w)
  BY StoppedStays DEF Calls
<1> USE <1>1 DEF Called, Asleep, ReporterAsleep, Acting, Goto
<1>2. CASE Create
  BY <1>2, CreatedNew DEF Create
<1>3. CASE MainHandshake
  BY <1>3 DEF MainHandshake, NextSubject, cs!lock_acquire, cs!lock_release,
     cs!cond_wait, cs!cond_wait_returns, cs!AssertFails
<1>4. CASE CreateReporter \/ Join
  BY <1>4, CreatedNew DEF CreateReporter, Join
<1>5. CASE Reporter
  <2>1. CASE ReporterHead \/ IncrementClock \/ TestWinner
    BY <2>1 DEF ReporterHead, IncrementClock, TestWinner
  <2>2. CASE CallWorker
    BY <2>2, LockNames DEF CallWorker, NextSubject, WaitSets, Owned, ReporterLockOwned,
       ReporterHolds, cs!lock_acquire, cs!lock_release, cs!cond_wait,
       cs!cond_wait_returns, cs!cond_signal, cs!csVars, cs!Held, cs!AssertFails
  <2>3. CASE StopWorker
    BY <2>3, ReporterAtKept DEF StopWorker, NextSubject, Stopped, ReporterAt, Stopping
  <2> QED
    BY <1>5, <2>1, <2>2, <2>3 DEF Reporter
<1>6. ASSUME NEW w \in Workers, Worker(w)
      PROVE  /\ subject'["reporter"] = v
             /\ \/ pc'["reporter"] = "wait" /\ pc'[v] = "waiting"
                \/ pc'["reporter"] = "waiting" /\ ReporterAsleep(v)'
  <2>1. CASE WorkerHead(w) \/ ReadClock(w) \/ Perform(w)
    BY <2>1 DEF WorkerHead, ReadClock, Perform
  <2>2. CASE Greet(w)
    BY <2>2 DEF Greet, WaitSets, cs!lock_acquire, cs!lock_release, cs!cond_signal, cs!csVars,
       cs!AssertFails
  <2>3. CASE AwaitReporter(w)
    BY <2>3, LockNames DEF AwaitReporter, Owned, ReporterLockOwned, HoldsReporterLock,
       ReporterHolds, cs!lock_acquire, cs!cond_wait, cs!cond_wait_returns, cs!Held,
       cs!AssertFails
  <2>4. CASE Answer(w)
    BY <2>4, LockNames DEF Answer, WaitSets, Owned, ReporterLockOwned, HoldsReporterLock,
       cs!lock_release, cs!cond_signal, cs!csVars, cs!Held, cs!AssertFails
  <2> QED
    BY <1>6, <2>1, <2>2, <2>3, <2>4 DEF Worker
<1> QED
  BY <1>2, <1>3, <1>4, <1>5, <1>6 DEF Next, Main

\* The order of the turns is that of the workers.
LEMMA TurnOrder ==
  /\ Turns["reporter"] = "randomizer"
  /\ \A w \in Workers : Turns[w] = IF w = "hare" THEN "reporter" ELSE After(w)
  /\ \A w \in Workers : Turns[w] # w
BY DEF Turns, After, Workers

LEMMA TurnAgreesKept ==
  ASSUME TypeOK, WinnerAtFinish, Owned, WaitSets, Handshake, ReporterAt, Calls,
         TurnAgrees, Next
  PROVE  TurnAgrees'
<1> USE Names, ConditionNames, ThreadTypes
<1>1. PICK s \in Workers : s = subject["reporter"]
  OBVIOUS
<1> USE <1>1 DEF TurnAgrees, ReporterAsleep, Stopping, Goto
<1>2. CASE Create
  <2>1. pc["reporter"] = "none"
    BY <1>2 DEF Handshake, Create
  <2> QED
    BY <1>2, <2>1, CreatedNew DEF Create, rulesVars
<1>3. CASE MainHandshake
  BY <1>3 DEF MainHandshake, NextSubject, rulesVars, cs!lock_acquire, cs!lock_release,
     cs!cond_wait, cs!cond_wait_returns, cs!AssertFails
<1>4. CASE CreateReporter \/ Join
  BY <1>4, CreatedNew DEF CreateReporter, Join, rulesVars
<1>5. CASE Reporter
  <2>1. CASE ReporterHead \/ IncrementClock \/ TestWinner
    BY <2>1, TurnOrder DEF ReporterHead, IncrementClock, TestWinner, ReporterAt, rulesVars
  <2>2. CASE CallWorker
    <3>1. turn' = turn
      BY <2>2 DEF CallWorker, rulesVars
    <3>2. CASE pc["reporter"] \in {"lock", "signal"}
      BY <2>2, <3>1, <3>2 DEF CallWorker, NextSubject
    <3>3. CASE pc["reporter"] = "wait"
      <4>1. pc[s] # "signal"
        BY <3>3 DEF Calls, Called, Acting, Stopped
      <4> QED
        BY <2>2, <3>1, <3>3, <4>1, LockNames DEF CallWorker, NextSubject, Owned,
           ReporterLockOwned, ReporterHolds, cs!cond_wait, cs!Held
    <3>4. CASE pc["reporter"] = "waiting"
      BY <2>2, <3>1, <3>4 DEF CallWorker, NextSubject, cs!cond_wait_returns
    <3>5. CASE pc["reporter"] = "release"
      BY <2>2, <3>1, <3>5, TurnOrder, Order DEF CallWorker, NextSubject
    <3> QED
      BY <2>2, <3>2, <3>3, <3>4, <3>5 DEF CallWorker, NextSubject
  <2>3. CASE StopWorker
    BY <2>3 DEF StopWorker, NextSubject, rulesVars
  <2> QED
    BY <1>5, <2>1, <2>2, <2>3 DEF Reporter
<1>6. ASSUME NEW w \in Workers, Worker(w) PROVE TurnAgrees'
  <2>1. CASE WorkerHead(w) \/ ReadClock(w)
    BY <2>1 DEF WorkerHead, ReadClock, rulesVars
  <2>2. CASE Perform(w)
    <3>1. CASE Stopped
      BY <2>2, <3>1 DEF Perform, Stopped
    <3>2. CASE ~Stopped
      <4>1. w = s /\ pc["reporter"] = "waiting" /\ ReporterAsleep(w) /\ pc[w] = "act"
        BY <2>2, <3>2, ActsWhenCalled DEF Perform, Called, Acting
      <4> QED
        BY <2>2, <4>1, TurnOrder DEF Perform
    <3> QED
      BY <3>1, <3>2
  <2>3. CASE Greet(w)
    BY <2>3 DEF Greet, rulesVars, cs!lock_acquire, cs!lock_release, cs!cond_signal,
       cs!csVars, cs!AssertFails
  <2>4. CASE AwaitReporter(w)
    BY <2>4 DEF AwaitReporter, rulesVars, cs!lock_acquire, cs!cond_wait,
       cs!cond_wait_returns, cs!AssertFails
  <2>5. CASE Answer(w)
    BY <2>5, LockNames DEF Answer, rulesVars, WaitSets, Owned, ReporterLockOwned,
       HoldsReporterLock, cs!lock_release, cs!cond_signal, cs!csVars, cs!Held,
       cs!AssertFails
  <2> QED
    BY <1>6, <2>1, <2>2, <2>3, <2>4, <2>5 DEF Worker
<1> QED
  BY <1>2, <1>3, <1>4, <1>5, <1>6 DEF Next, Main

LEMMA TimeReadKept ==
  ASSUME TypeOK, WinnerAtFinish, Calls, TimeRead, Next
  PROVE  TimeRead'
<1> USE Names, ThreadTypes DEF TimeRead, Goto
<1> SUFFICES ASSUME no_winner' = 1, pc'["randomizer"] = "act"
             PROVE  curr_time' = clock_tick'
  OBVIOUS
<1>1. no_winner = 1
  BY WinnerStays
<1>2. CASE Main
  BY <1>1, <1>2 DEF Main, Create, MainHandshake, CreateReporter, Join, NextSubject, rulesVars
<1>3. CASE Reporter
  <2>1. CASE IncrementClock
    BY <1>1, <2>1, ActsWhenCalled DEF IncrementClock, Called, Acting, Stopped
  <2> QED
    BY <1>1, <1>3, <2>1 DEF Reporter, ReporterHead, CallWorker, TestWinner, StopWorker,
       NextSubject, rulesVars
<1>4. ASSUME NEW w \in Workers, Worker(w) PROVE curr_time' = clock_tick'
  BY <1>1, <1>4 DEF Worker, WorkerHead, Greet, AwaitReporter, ReadClock, Perform, Answer,
     rulesVars
<1> QED
  BY <1>2, <1>3, <1>4 DEF Next

\* Only a tick changes the clock.
LEMMA ClockSteps ==
  ASSUME Next
  PROVE  clock_tick' = clock_tick \/ IncrementClock
BY RulesSteps DEF Perform, rulesVars

LEMMA FirstTickKept ==
  ASSUME TypeOK, WinnerAtFinish, Owned, WaitSets, Handshake, FirstTick, ReporterAt,
         Calls, Next
  PROVE  FirstTick'
<1> USE Names, ThreadTypes DEF FirstTick
<1>1. PICK s \in Workers : s = subject["reporter"]
  OBVIOUS
<1>2. \A v \in Workers :
        Ready(v) /\ ~(/\ pc["reporter"] \in {"signal", "stop_signal"}
                      /\ s = v
                      /\ pc'["reporter"] # pc["reporter"])
        => Ready(v)'
  BY <1>1, ReadyKept
<1>3. CASE IncrementClock
  <2>1. /\ pc["reporter"] = "tick" /\ pc'["reporter"] = "lock"
        /\ clock_tick' = clock_tick + 1 /\ subject' = subject
    BY <1>3 DEF IncrementClock, Goto
  <2>2. clock_tick # -1 => clock_tick' > 0
    BY <2>1
  <2>3. clock_tick = -1 => \A v \in Workers : Ready(v)'
    BY <1>2, <2>1
  <2>4. Behind(s) \subseteq Workers
    BY Order
  <2> QED
    BY <1>1, <2>1, <2>2, <2>3, <2>4 DEF Ready, Asleep
<1>4. CASE clock_tick' = clock_tick /\ clock_tick = -1
  <2>1. no_winner' = 1
    BY <1>4, NoWinnerKept
  <2>2. CASE UNCHANGED <<pc["reporter"], subject["reporter"]>>
    BY <1>2, <1>4, <2>1, <2>2
  <2>3. CASE CreateReporter
    BY <1>2, <1>4, <2>1, <2>3, CreatedNew DEF CreateReporter, Handshake
  <2>4. CASE Reporter
    BY <1>2, <1>4, <2>1, <2>4 DEF Reporter, ReporterHead, IncrementClock, CallWorker,
       TestWinner, StopWorker, NextSubject, Goto
  <2> QED
    BY <2>2, <2>3, <2>4, ReporterMoves
<1>5. CASE clock_tick' = clock_tick /\ clock_tick # -1
  <2>1. PICK r \in Workers : r = subject'["reporter"]
    BY TypeKept, ThreadTypesKept
  <2> SUFFICES ASSUME clock_tick = 0
               PROVE  /\ pc'["reporter"] \in {"lock", "signal"} => Ready(r)'
                      /\ pc'["reporter"] \in {"lock", "signal", "wait", "waiting", "release"} =>
                           \A v \in Behind(r) : Ready(v)'
    BY <1>5, <2>1 DEF Ready, Asleep
  <2>2. /\ pc["reporter"] \in {"lock", "signal"} => Ready(s)
        /\ pc["reporter"] \in {"lock", "signal", "wait", "waiting", "release"} =>
             \A v \in Behind(s) : Ready(v)
    BY <1>1
  <2>3. Behind(s) \subseteq Workers /\ s \notin Behind(s)
    BY Order
  <2>4. CASE UNCHANGED <<pc["reporter"], subject["reporter"]>>
    <3>1. r = s /\ pc'["reporter"] = pc["reporter"]
      BY <1>1, <2>1, <2>4
    <3> QED
      BY <1>2, <2>2, <2>3, <3>1
  <2>5. CASE CreateReporter
    BY <1>5, <2>5, CreatedNew DEF CreateReporter, Handshake
  <2>6. CASE Reporter
    <3>1. CASE CallWorker /\ pc["reporter"] # "release"
      <4>1. r = s
        BY <1>1, <2>1, <3>1 DEF CallWorker, NextSubject, Goto
      <4>2. /\ pc'["reporter"] = "signal" => pc["reporter"] = "lock"
            /\ pc["reporter"] \in {"lock", "signal", "wait", "waiting"}
            /\ pc'["reporter"] # "lock"
        BY <3>1 DEF CallWorker, NextSubject, Goto
      <4> QED
        BY <1>2, <2>2, <2>3, <4>1, <4>2
    <3>2. CASE CallWorker /\ pc["reporter"] = "release"
      <4>1. /\ s = "hare" => pc'["reporter"] = "test"
            /\ s # "hare" => r = After(s)
        BY <1>1, <2>1, <3>2 DEF CallWorker, NextSubject, Goto
      <4>2. \A v \in Behind(s) : Ready(v)'
        BY <1>2, <2>2, <2>3, <3>2
      <4> QED
        BY <4>1, <4>2, Order
    <3>3. CASE ~CallWorker
      BY <1>5, <2>6, <3>3 DEF Reporter, ReporterHead, IncrementClock, TestWinner, StopWorker,
         NextSubject, Goto
    <3> QED
      BY <3>1, <3>2, <3>3
  <2> QED
    BY <2>4, <2>5, <2>6, ReporterMoves
<1> QED
  BY <1>3, <1>4, <1>5, ClockSteps

\* In the first tick the worker that is called is blocked in its cond_wait,
\* since the Reporter holds the lock that it holds elsewhere.
LEMMA CallHeard ==
  ASSUME TypeOK, Owned, FirstTick, clock_tick <= 0, pc["reporter"] = "signal"
  PROVE  waiting[ToWorker(subject["reporter"])] # {}
<1>1. PICK s \in Workers : s = subject["reporter"]
  BY ThreadTypes
<1>2. Ready(s)
  BY <1>1, ThreadTypes DEF FirstTick
<1>3. pc[s] # "wait"
  BY <1>1, Names DEF Owned, ReporterLockOwned, HoldsReporterLock, ReporterHolds
<1> QED
  BY <1>1, <1>2, <1>3 DEF Ready, Asleep

LEMMA NoneLostKept ==
  ASSUME TypeOK, WinnerAtFinish, Owned, WaitSets, Handshake, FirstTick, ReporterAt,
         Calls, NoneLost, Next
  PROVE  NoneLost'
<1> USE Names, ThreadTypes
<1> SUFFICES ASSUME clock_tick' <= 0, ~Stopped' PROVE ~lost'
  BY DEF NoneLost
<1>1. clock_tick <= 0
  BY ClockSteps DEF IncrementClock
<1>2. ~lost
  BY <1>1, StoppedStays DEF NoneLost
<1>3. CASE CallWorker
  BY <1>1, <1>2, <1>3, CallHeard DEF CallWorker, Goto
<1>4. CASE StopWorker
  <2>1. pc["reporter"] # "stop_signal"
    BY <1>4, ReporterAtKept DEF StopWorker, NextSubject, Goto, Stopped, ReporterAt, Stopping
  <2> QED
    BY <1>2, <1>4, <2>1 DEF StopWorker, Goto
<1>5. CASE ~CallWorker /\ ~StopWorker
  BY <1>2, <1>5 DEF Next, Main, Reporter, Worker, Create, MainHandshake, CreateReporter,
     Join, WorkerHead, Greet, AwaitReporter, ReadClock, Perform, Answer, ReporterHead,
     IncrementClock, TestWinner
<1> QED
  BY <1>3, <1>4, <1>5

-----------------------------------------------------------------------------
(* The invariant holds                                                     *)

LEMMA InitIInv == Init => IInv
<1> SUFFICES ASSUME Init PROVE IInv
  OBVIOUS
<1> USE Names, LockNames, ConditionNames
<1>1. RulesTypeOK /\ WinnerAtFinish
  BY RulesInitCorrect DEF Init
<1>2. TypeOK
  BY <1>1 DEF Init, RulesInit, TypeOK, cs!CsInit, cs!CsTypeOK, PCs, Workers, Threads
<1>3. /\ \A w \in Workers : pc[w] = "none" /\ ~reached[w] /\ ~Asleep(w)
      /\ pc["reporter"] = "none" /\ pc["main"] = "create"
      /\ subject["main"] = "randomizer" /\ subject["reporter"] = "randomizer"
      /\ clock_tick = -1 /\ no_winner = 1 /\ turn = "reporter" /\ ~lost
  BY DEF Init, RulesInit, cs!CsInit, Asleep, Threads
<1>4. Owned
  BY <1>3 DEF Init, cs!CsInit, Owned, MainLockOwned, ReporterLockOwned, HoldsMainLock,
     HoldsReporterLock, MainHolds, ReporterHolds
<1>5. WaitSets
  BY DEF Init, cs!CsInit, WaitSets, MainAsleep, Asleep, ReporterAsleep
<1>6. Handshake
  BY <1>3, Order DEF Handshake, BeforeReach, Greeted, Workers
<1>7. FirstTick /\ ReporterAt /\ Calls /\ TurnAgrees /\ TimeRead /\ NoneLost
  BY <1>3 DEF FirstTick, ReporterAt, Calls, Called, Acting, TurnAgrees, TimeRead, NoneLost,
     Stopping
<1> QED
  BY <1>1, <1>2, <1>4, <1>5, <1>6, <1>7 DEF IInv

LEMMA IInvKept == IInv /\ [Next]_vars => IInv'
<1>1. ASSUME IInv, Next PROVE IInv'
  BY <1>1, TypeKept, RulesTypesKept, OwnedKept, WaitSetsKept, HandshakeKept, FirstTickKept,
     ReporterAtKept, CallsKept, TurnAgreesKept, TimeReadKept, NoneLostKept DEF IInv
<1>2. ASSUME IInv, UNCHANGED vars PROVE IInv'
  <2> USE <1>2 DEF IInv, vars, cs!csVars, threadVars, rulesVars, data
  <2>1. TypeOK' /\ WinnerAtFinish'
    BY DEF TypeOK, RulesTypeOK, cs!CsTypeOK, WinnerAtFinish
  <2>2. Owned' /\ WaitSets'
    BY DEF Owned, MainLockOwned, ReporterLockOwned, WaitSets, MainAsleep, Asleep,
       ReporterAsleep
  <2>3. Handshake' /\ FirstTick'
    BY DEF Handshake, Greeted, BeforeReach, AfterReach, FirstTick, Ready, MainAsleep, Asleep
  <2>4. ReporterAt' /\ Calls' /\ TurnAgrees' /\ TimeRead' /\ NoneLost'
    BY DEF ReporterAt, Calls, Called, Stopped, TurnAgrees, TimeRead, NoneLost, Asleep,
       ReporterAsleep
  <2> QED
    BY <2>1, <2>2, <2>3, <2>4
<1> QED
  BY <1>1, <1>2

LEMMA IInvHolds == SafeSpec => []IInv
BY InitIInv, IInvKept, PTL DEF SafeSpec

-----------------------------------------------------------------------------
(* What it gives                                                           *)

\* Types, for every race.
THEOREM TypeCorrect == SafeSpec => []TypeOK
<1>1. IInv => TypeOK
  BY DEF IInv
<1> QED
  BY <1>1, IInvHolds, PTL

\* Every wait, signal and release of 3_race is made by the thread that holds
\* the lock, whatever the race and the schedule; no assertion of cs_thread.h
\* fails.
THEOREM LocksOwnedHolds == SafeSpec => []LocksOwned
<1>1. IInv => LocksOwned
  <2> SUFFICES ASSUME TypeOK, Owned, NEW w \in Workers
               PROVE  /\ HolderOfMainLock(w) = {holder[MainLock(w)]} \ {NoThread}
                      /\ HolderOfReporterLock(w) = {holder[ReporterLock(w)]} \ {NoThread}
    BY DEF IInv, LocksOwned, Owned
  <2>1. MainLockOwned(w) /\ ReporterLockOwned(w)
    BY DEF Owned
  <2> QED
    BY <2>1, Names DEF MainLockOwned, ReporterLockOwned, HolderOfMainLock, HolderOfReporterLock
<1> QED
  BY <1>1, IInvHolds, PTL

\* Until there is a winner at most one worker acts, and the Reporter is
\* waiting for it.
THEOREM SerialActorsHolds == SafeSpec => []SerialActors
<1>1. IInv => SerialActors
  BY DEF IInv, Calls, Called, Acting, Stopped, SerialActors
<1> QED
  BY <1>1, IInvHolds, PTL

\* In the first tick no signal of the Reporter is lost: the handshakes of
\* init do their work.
THEOREM FirstCallHeardHolds == SafeSpec => []FirstCallHeard
<1>1. IInv => FirstCallHeard
  BY DEF IInv, NoneLost, TurnAgrees, Stopped, FirstCallHeard, Stopping
<1> QED
  BY <1>1, IInvHolds, PTL

-----------------------------------------------------------------------------
(* The threads follow the rules                                            *)

\* A worker takes its turn, or has been woken after the end of the race and
\* changes nothing.
LEMMA PerformFollows ==
  ASSUME IInv, NEW w \in Workers, Perform(w)
  PROVE  WorkerTurn(w) \/ UNCHANGED rulesVars
<1>1. /\ pc[w] = "act" /\ Act(w, curr_time)
      /\ turn' = IF turn = w THEN Turns[w] ELSE turn
      /\ UNCHANGED <<race, clock_tick>>
  BY DEF Perform, Goto
<1>2. CASE no_winner = 0
  <2>1. UNCHANGED data
    BY <1>1, <1>2, ActAfterWinner DEF IInv
  <2>2. Act(w, clock_tick)
    BY <1>1, <1>2, <2>1 DEF Act, RandomizerActs, TurtleActs, HareActs, data
  <2> QED
    BY <1>1, <2>1, <2>2 DEF WorkerTurn, rulesVars
<1>3. CASE no_winner = 1
  <2>1. turn = w
    BY <1>1, <1>3, ActsWhenCalled, Names DEF IInv, Called, Acting, Stopped, TurnAgrees
  <2>2. Act(w, clock_tick)
    BY <1>1, <1>3 DEF IInv, TimeRead, Act, RandomizerActs, TurtleActs, HareActs
  <2> QED
    BY <1>1, <2>1, <2>2 DEF WorkerTurn
<1> QED
  BY <1>2, <1>3 DEF IInv, TypeOK, RulesTypeOK

\* Race implements RaceRules: with every schedule the workers act once per
\* tick and in order, on a clock that only the Reporter moves on.
THEOREM FollowsRulesHolds == SafeSpec => FollowsRules
<1>1. Init => RulesInit
  BY DEF Init
<1>2. IInv /\ [Next]_vars => [RulesNext]_rulesVars
  <2>1. ASSUME IInv, IncrementClock PROVE Tick
    <3>1. turn = "reporter" /\ no_winner = 1
      BY <2>1 DEF IInv, TurnAgrees, ReporterAt, IncrementClock, Goto
    <3> QED
      BY <2>1, <3>1 DEF IncrementClock, Tick
  <2>2. UNCHANGED vars => UNCHANGED rulesVars
    BY DEF vars
  <2> QED
    BY <2>1, <2>2, RulesSteps, PerformFollows DEF RulesNext
<1> QED
  BY <1>1, <1>2, IInvHolds, PTL DEF SafeSpec, RulesSafeSpec, FollowsRules

\* So what holds of the rules holds of the threads with every schedule: the
\* winner is alone at the finish, and the repositionings are applied when they
\* are due as far as they are in order.
THEOREM ThreadsKeepRules ==
  SafeSpec => []WinnerAtFinish /\ []AppliedInOrder
BY FollowsRulesHolds, WinnerAtFinishHolds, AppliedInOrderHolds, PTL
   DEF FollowsRules

=============================================================================
