-------------------------- MODULE BarrierPrograms --------------------------
(***************************************************************************)
(* 2_barrier/barrier-testcase2.c, barrier-testcase4.c, barrier-testcase5.c *)
(* as programs of statements.  In the first, each of the threads writes    *)
(* its own cell of an array between calls of one barrier, and thread 0     *)
(* sums the cells without a lock (barrier-testcase1.c is the part up to    *)
(* the first sum).  In the second, four threads sum a quarter of an array  *)
(* each and the partial sums meet pairwise, at barriers for two.  In the   *)
(* third, two threads print in turn; main, here thread 0, starts the game  *)
(* by one call in the place of thread 2, and thread 1 ends it by one call  *)
(* after its loop.                                                         *)
(***************************************************************************)
EXTENDS Integers, FiniteSets, Sequences

CONSTANTS
  NoThread,
  NTHREADS,  \* threads and cells of the array test: 1000 in the code
  Quarter,   \* Quarter[id]: what the elements thread id adds up come to
  Loops      \* iterations of the printing loop: 10 in the code

\* As many as the largest of the programs has.
Threads == 0..(IF NTHREADS < 4 THEN 3 ELSE NTHREADS - 1)

ASSUME ProgramsAssumption ==
  /\ NoThread \notin Threads
  /\ NTHREADS \in Nat \ {0}
  /\ Quarter \in [0..3 -> Nat]
  /\ Loops \in Nat \ {0}

VARIABLES
  test,                   \* which of the three programs runs
  count0, lock0, stage0,  \* barrier of the array test
  count1, lock1, stage1,  \* barrier1, or b1
  count2, lock2, stage2,  \* barrier2, or b2
  count3, lock3, stage3,  \* barrier3
  pc,                     \* pc[id]: how far thread id is in Program[id]
  sum,                    \* the array sum; in the array test, the array
  total,                  \* the local sum of thread 0 there
  i                       \* and the index of its loop over the cells

bar0Vars == <<count0, lock0, stage0>>
bar1Vars == <<count1, lock1, stage1>>
bar2Vars == <<count2, lock2, stage2>>
bar3Vars == <<count3, lock3, stage3>>
pairVars == <<bar1Vars, bar2Vars, bar3Vars>>
vars == <<test, bar0Vars, pairVars, pc, sum, total, i>>

bar0 == INSTANCE Barrier WITH NThreads <- NTHREADS, SpuriousWakeups <- FALSE,
                              count <- count0, m_lock <- lock0, stage <- stage0
bar1 == INSTANCE Barrier WITH NThreads <- 2, SpuriousWakeups <- FALSE,
                              count <- count1, m_lock <- lock1, stage <- stage1
bar2 == INSTANCE Barrier WITH NThreads <- 2, SpuriousWakeups <- FALSE,
                              count <- count2, m_lock <- lock2, stage <- stage2
bar3 == INSTANCE Barrier WITH NThreads <- 2, SpuriousWakeups <- FALSE,
                              count <- count3, m_lock <- lock3, stage <- stage3

-----------------------------------------------------------------------------
(* The programs                                                            *)

\* Mutation: the second call of barrier_wait is missing.
CellsUnguarded(id) ==
  IF id = 0
    THEN <<"increment", "wait0", "clear", "read", "add10", "wait0", "clear", "read">>
  ELSE IF id < NTHREADS THEN <<"increment", "wait0", "add10", "wait0">>
  ELSE <<>>

\* ThreadRoutine of the array test: thread 0 sums the cells twice.
CellSums(id) ==
  IF id = 0
    THEN <<"increment", "wait0", "clear", "read", "wait0",
           "add10", "wait0", "clear", "read">>
  ELSE IF id < NTHREADS THEN <<"increment", "wait0", "wait0", "add10", "wait0">>
  ELSE <<>>

\* Mutation: thread 2 passes its sum on before it has added that of thread 3.
EarlyMeeting ==
  << <<"quarter", "wait1", "add1", "wait3", "add2">>, <<"quarter", "wait1">>,
     <<"quarter", "wait2", "wait3", "add3">>,         <<"quarter", "wait2">> >>

\* The branches of ThreadRoutine for id 0 to 3; add<k> is
\* sum[id] = sum[id] + sum[k].
SumTree ==
  << <<"quarter", "wait1", "add1", "wait3", "add2">>, <<"quarter", "wait1">>,
     <<"quarter", "wait2", "add3", "wait3">>,         <<"quarter", "wait2">> >>

\* A loop: its body Loops times.
Repeated(body) == [k \in 1..(Loops * Len(body)) |-> body[((k - 1) % Len(body)) + 1]]

\* Mutation: the call of thread 1 after its loop is missing.
NoLastCall ==
  << <<"wait1">>, Repeated(<<"wait1", "print", "wait2">>),
     Repeated(<<"wait2", "print", "wait1">>), <<>> >>

\* main, thread 1 and thread 2.
PingPong ==
  << <<"wait1">>, Repeated(<<"wait1", "print", "wait2">>) \o <<"wait1">>,
     Repeated(<<"wait2", "print", "wait1">>), <<>> >>

Program ==
  [id \in Threads |-> IF test = "array" THEN CellSums(id)
                      ELSE IF id > 3 THEN <<>>
                      ELSE IF test = "sums" THEN SumTree[id + 1]
                      ELSE PingPong[id + 1]]

\* Whose sum is read by a statement that adds it to sum[id].
Source == [add1 |-> 1, add2 |-> 2, add3 |-> 3]

-----------------------------------------------------------------------------

At(id, statement) == pc[id] <= Len(Program[id]) /\ Program[id][pc[id]] = statement

Advance(id) == pc' = [pc EXCEPT ![id] = @ + 1]

Init ==
  /\ test \in {"array", "sums", "game"}
  /\ bar0!BarrierInit
  /\ bar1!BarrierInit
  /\ bar2!BarrierInit
  /\ bar3!BarrierInit
  /\ pc = [id \in Threads |-> 1]
  /\ sum = [id \in Threads |-> 0]
  /\ total = 0
  /\ i = 0

\* The loop over the quarter of the thread, which nobody else touches.
SumQuarter(id) ==
  /\ At(id, "quarter")
  /\ sum' = [sum EXCEPT ![id] = @ + Quarter[id]]
  /\ Advance(id)
  /\ UNCHANGED <<test, bar0Vars, pairVars, total, i>>

\* array[id]++, and array[id] += 10.
WriteCell(id) ==
  /\ At(id, "increment") \/ At(id, "add10")
  /\ sum' = [sum EXCEPT ![id] = @ + IF At(id, "add10") THEN 10 ELSE 1]
  /\ Advance(id)
  /\ UNCHANGED <<test, bar0Vars, pairVars, total, i>>

\* sum = 0 and i = 0 before the loop over the cells.
Clear(id) ==
  /\ At(id, "clear")
  /\ total' = 0
  /\ i' = 0
  /\ Advance(id)
  /\ UNCHANGED <<test, bar0Vars, pairVars, sum>>

\* sum += array[i], and the next turn of the loop or its end.
ReadCell(id) ==
  /\ At(id, "read")
  /\ total' = total + sum[i]
  /\ i' = i + 1
  /\ IF i + 1 < NTHREADS THEN UNCHANGED pc ELSE Advance(id)
  /\ UNCHANGED <<test, bar0Vars, pairVars, sum>>

Wait0(id) ==
  /\ At(id, "wait0")
  /\ \/ (bar0!Lock(id) \/ bar0!Inside(id)) /\ UNCHANGED pc
     \/ bar0!Unlock(id) /\ Advance(id)
  /\ UNCHANGED <<test, pairVars, sum, total, i>>

Wait1(id) ==
  /\ At(id, "wait1")
  /\ \/ (bar1!Lock(id) \/ bar1!Inside(id)) /\ UNCHANGED pc
     \/ bar1!Unlock(id) /\ Advance(id)
  /\ UNCHANGED <<test, bar0Vars, bar2Vars, bar3Vars, sum, total, i>>

Wait2(id) ==
  /\ At(id, "wait2")
  /\ \/ (bar2!Lock(id) \/ bar2!Inside(id)) /\ UNCHANGED pc
     \/ bar2!Unlock(id) /\ Advance(id)
  /\ UNCHANGED <<test, bar0Vars, bar1Vars, bar3Vars, sum, total, i>>

Wait3(id) ==
  /\ At(id, "wait3")
  /\ \/ (bar3!Lock(id) \/ bar3!Inside(id)) /\ UNCHANGED pc
     \/ bar3!Unlock(id) /\ Advance(id)
  /\ UNCHANGED <<test, bar0Vars, bar1Vars, bar2Vars, sum, total, i>>

\* Mutation: the addition is made again and again.
AddAgain(id) ==
  \E add \in DOMAIN Source :
    /\ At(id, add)
    /\ sum' = [sum EXCEPT ![id] = @ + sum[Source[add]]]
    /\ UNCHANGED <<test, bar0Vars, pairVars, pc, total, i>>

\* The sum of another thread is read without a lock and added to one's own.
Add(id) ==
  \E add \in DOMAIN Source :
    /\ At(id, add)
    /\ sum' = [sum EXCEPT ![id] = @ + sum[Source[add]]]
    /\ Advance(id)
    /\ UNCHANGED <<test, bar0Vars, pairVars, total, i>>

PrintLine(id) ==
  /\ At(id, "print")
  /\ Advance(id)
  /\ UNCHANGED <<test, bar0Vars, pairVars, sum, total, i>>

Finished == \A id \in Threads : pc[id] > Len(Program[id])

\* main joins the threads.
Exit == Finished /\ UNCHANGED vars

Step(id) ==
  \/ WriteCell(id) \/ Clear(id) \/ ReadCell(id)
  \/ SumQuarter(id) \/ Add(id) \/ PrintLine(id)
  \/ Wait0(id) \/ Wait1(id) \/ Wait2(id) \/ Wait3(id)

Next == (\E id \in Threads : Step(id)) \/ Exit

\* Every thread that can take a statement is scheduled.
Spec ==
  /\ Init
  /\ [][Next]_vars
  /\ \A id \in Threads : WF_vars(Step(id))

-----------------------------------------------------------------------------
(* Properties *)

\* What the quarters come to.
Whole == Quarter[0] + Quarter[1] + Quarter[2] + Quarter[3]

\* The types; each thread uses only its own barriers, so no counter leaves
\* its range.
TypeOK ==
  /\ bar0!BarrierTypeOK
  /\ bar1!BarrierTypeOK
  /\ bar2!BarrierTypeOK
  /\ bar3!BarrierTypeOK
  /\ \A id \in Threads : pc[id] \in 1..Len(Program[id]) + 1
  /\ sum \in [Threads -> 0..(Whole + 11)]
  /\ total \in 0..(11 * NTHREADS)
  /\ i \in 0..NTHREADS

\* Thread id is about to read the cell or the sum of thread owner.
Reads(id, owner) ==
  \/ At(id, "read") /\ owner = i
  \/ \E add \in DOMAIN Source : At(id, add) /\ owner = Source[add]

\* The reads need no lock: while a thread is about to read the cell or sum of
\* another, its owner is not about to write it; and a partial sum that is
\* passed on is complete.
ReadsSettled ==
  \A id, owner \in Threads :
    Reads(id, owner) /\ owner # id =>
      \A k \in DOMAIN Program[owner] :
        k = pc[owner] \/ (test = "sums" /\ k > pc[owner]) =>
          Program[owner][k] \in {"wait0", "wait1", "wait2", "wait3"}

\* Thread 0 ends with every quarter added exactly once; and its two sums of the
\* array are the number of threads and eleven times as much.
TotalExact ==
  /\ test = "sums" /\ pc[0] > Len(Program[0]) => sum[0] = Whole
  /\ test = "array" /\ pc[0] = 5 => total = NTHREADS
  /\ test = "array" /\ pc[0] > Len(Program[0]) => total = 11 * NTHREADS

\* How many lines a thread has printed.
Printed(id) == Cardinality({k \in 1..(pc[id] - 1) : Program[id][k] = "print"})

\* The players print in turn, thread 1 first, although the barriers alone
\* order them and main takes part in one round of b1.
Alternation == Printed(1) - Printed(2) \in {0, 1}

\* Main's only call meets the first call of thread 1: it is never main that
\* a later round waits for, which would leave main and a player stuck.
MainOpensOnly ==
  test = "game" /\ stage1[0] \in {"decrement", "test", "waiting"} => Printed(1) = 0

\* The programs end: no thread is left at a barrier.
AllExit == <>Finished

=============================================================================
