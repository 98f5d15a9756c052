---------------------- MODULE BarrierPrograms_proofs ----------------------
(***************************************************************************)
(* For every number of threads and cells of the array test, every contents *)
(* of the array of the sum test and every number of turns of the game, the *)
(* unlocked reads of the test programs are settled by the barriers alone,  *)
(* the sums come out and the players print in turn.                        *)
(***************************************************************************)
EXTENDS BarrierPrograms, FunctionTheorems, FiniteSetTheorems, SequenceTheorems, TLAPS

-----------------------------------------------------------------------------
(* A barrier_t in the hands of any client                                  *)

\* A call has begun and its round is not complete; or it is, and the call is
\* on its way out.
Arriving == {"decrement", "test", "waiting"}
Leaving == {"signalled", "reset", "unlock"}

\* The threads that stand in stages s and have been counted in this round.
Counted(s) == {t \in Threads : s[t] \in {"test", "waiting"}}

\* What barrier_t keeps true for n threads whoever calls it and how often,
\* with counter c, mutex m and the stages s: a thread is between lock and
\* unlock exactly while it has the mutex, nobody is counted while the counter
\* is about to be restored, and otherwise the counter is the number of calls
\* that are missing, and when it is zero the last caller has yet to see it.
Books(n, c, m, s) ==
  /\ c \in 0..n
  /\ m \in Threads \cup {NoThread}
  /\ s \in [Threads -> bar0!Stages]
  /\ \A t \in Threads : s[t] \in bar0!Critical <=> m = t
  /\ (\E t \in Threads : s[t] = "reset") => c = 0 /\ Counted(s) = {}
  /\ (\A t \in Threads : s[t] # "reset") =>
       /\ c = n - Cardinality(Counted(s))
       /\ c = 0 => \E t \in Threads : s[t] = "test"

\* The steps of a call of barrier_wait by t: the mutex on entry, the steps in
\* between and the mutex on return.
Moved(t, from, to, s, s2) == s[t] = from /\ s2 = [s EXCEPT ![t] = to]

Begins(t, c, m, s, c2, m2, s2) ==
  m = NoThread /\ m2 = t /\ Moved(t, "outside", "decrement", s, s2) /\ c2 = c

Counts(t, c, m, s, c2, m2, s2) ==
  c2 = c - 1 /\ m2 = m /\ Moved(t, "decrement", "test", s, s2)

Blocks(t, c, m, s, c2, m2, s2) ==
  c # 0 /\ c2 = c /\ m2 = NoThread /\ Moved(t, "test", "waiting", s, s2)

Wakes(t, c, m, s, c2, m2, s2) ==
  /\ c = 0 /\ c2 = c /\ m2 = m
  /\ s[t] = "test"
  /\ s2 = [u \in Threads |-> IF u = t THEN "reset"
                             ELSE IF s[u] = "waiting" THEN "signalled"
                             ELSE s[u]]

Restores(n, t, c, m, s, c2, m2, s2) ==
  c2 = n /\ m2 = m /\ Moved(t, "reset", "unlock", s, s2)

Returns(t, c, m, s, c2, m2, s2) ==
  m = NoThread /\ m2 = t /\ Moved(t, "signalled", "unlock", s, s2) /\ c2 = c

Ends(t, c, m, s, c2, m2, s2) ==
  m2 = NoThread /\ Moved(t, "unlock", "outside", s, s2) /\ c2 = c

Within(n, t, c, m, s, c2, m2, s2) ==
  \/ Counts(t, c, m, s, c2, m2, s2)
  \/ Blocks(t, c, m, s, c2, m2, s2)
  \/ Wakes(t, c, m, s, c2, m2, s2)
  \/ Restores(n, t, c, m, s, c2, m2, s2)
  \/ Returns(t, c, m, s, c2, m2, s2)

LEMMA ThreadsFinite == IsFiniteSet(Threads) /\ 0..3 \subseteq Threads
<1> DEFINE top == IF NTHREADS < 4 THEN 3 ELSE NTHREADS - 1
<1>1. top \in Nat /\ 3 <= top /\ Threads = 0..top
  BY ProgramsAssumption DEF Threads
<1> HIDE DEF top
<1>2. IsFiniteSet(0..top)
  BY <1>1, FS_Interval
<1> QED
  BY <1>1, <1>2

LEMMA CountedFinite ==
  ASSUME NEW s
  PROVE  IsFiniteSet(Counted(s)) /\ Cardinality(Counted(s)) \in Nat
BY ThreadsFinite, FS_Subset, FS_CardinalityType DEF Counted

\* A step that leaves the counter and the counted threads as they are.
LEMMA SameBooks ==
  ASSUME NEW n \in Nat \ {0}, NEW c, NEW m, NEW s, Books(n, c, m, s),
         NEW t \in Threads, NEW m2, NEW s2, NEW to \in bar0!Stages,
         s2 = [s EXCEPT ![t] = to],
         s[t] # "reset", to # "reset",
         s[t] \in {"test", "waiting"} <=> to \in {"test", "waiting"},
         c = 0 => s[t] # "test",
         m2 \in Threads \cup {NoThread},
         \A u \in Threads : s2[u] \in bar0!Critical <=> m2 = u
  PROVE  Books(n, c, m2, s2)
<1>1. s2 \in [Threads -> bar0!Stages]
  BY DEF Books
<1>2. Counted(s2) = Counted(s)
  BY DEF Books, Counted
<1>3. \A u \in Threads : s2[u] = IF u = t THEN to ELSE s[u]
  BY DEF Books
<1> QED
  BY <1>1, <1>2, <1>3 DEF Books

LEMMA BeginsBooks ==
  ASSUME NEW n \in Nat \ {0}, NEW c, NEW m, NEW s, Books(n, c, m, s),
         NEW t \in Threads, NEW c2, NEW m2, NEW s2, Begins(t, c, m, s, c2, m2, s2)
  PROVE  Books(n, c2, m2, s2)
<1>1. \A u \in Threads : s2[u] \in bar0!Critical <=> m2 = u
  BY ProgramsAssumption DEF Books, Begins, Moved, bar0!Critical
<1> QED
  BY <1>1, SameBooks DEF Begins, Moved, bar0!Stages

LEMMA BlocksBooks ==
  ASSUME NEW n \in Nat \ {0}, NEW c, NEW m, NEW s, Books(n, c, m, s),
         NEW t \in Threads, NEW c2, NEW m2, NEW s2, Blocks(t, c, m, s, c2, m2, s2)
  PROVE  Books(n, c2, m2, s2)
<1>1. \A u \in Threads : s2[u] \in bar0!Critical <=> m2 = u
  BY ProgramsAssumption DEF Books, Blocks, Moved, bar0!Critical
<1> QED
  BY <1>1, SameBooks DEF Blocks, Moved, bar0!Stages

LEMMA ReturnsBooks ==
  ASSUME NEW n \in Nat \ {0}, NEW c, NEW m, NEW s, Books(n, c, m, s),
         NEW t \in Threads, NEW c2, NEW m2, NEW s2, Returns(t, c, m, s, c2, m2, s2)
  PROVE  Books(n, c2, m2, s2)
<1>1. \A u \in Threads : s2[u] \in bar0!Critical <=> m2 = u
  BY ProgramsAssumption DEF Books, Returns, Moved, bar0!Critical
<1> QED
  BY <1>1, SameBooks DEF Returns, Moved, bar0!Stages

LEMMA EndsBooks ==
  ASSUME NEW n \in Nat \ {0}, NEW c, NEW m, NEW s, Books(n, c, m, s),
         NEW t \in Threads, NEW c2, NEW m2, NEW s2, Ends(t, c, m, s, c2, m2, s2)
  PROVE  Books(n, c2, m2, s2)
<1>1. \A u \in Threads : s2[u] \in bar0!Critical <=> m2 = u
  BY ProgramsAssumption DEF Books, Ends, Moved, bar0!Critical
<1> QED
  BY <1>1, SameBooks DEF Ends, Moved, bar0!Stages

\* The decrement finds a counter that is not zero, and counts its thread.
LEMMA CountsBooks ==
  ASSUME NEW n \in Nat \ {0}, NEW c, NEW m, NEW s, Books(n, c, m, s),
         NEW t \in Threads, NEW c2, NEW m2, NEW s2, Counts(t, c, m, s, c2, m2, s2)
  PROVE  Books(n, c2, m2, s2)
<1>1. /\ s \in [Threads -> bar0!Stages] /\ s[t] = "decrement"
      /\ s2 = [s EXCEPT ![t] = "test"] /\ m2 = m /\ c2 = c - 1
  BY DEF Counts, Moved, Books
<1>2. \A u \in Threads : s2[u] = IF u = t THEN "test" ELSE s[u]
  BY <1>1
<1>3. \A u \in Threads : s[u] \in bar0!Critical <=> u = t
  BY <1>1 DEF Books, bar0!Critical
<1>4. (\A u \in Threads : s[u] # "reset") /\ (\A u \in Threads : s[u] # "test")
  BY <1>1, <1>3 DEF bar0!Critical
<1>5. c # 0 /\ c \in 0..n /\ c = n - Cardinality(Counted(s))
  BY <1>4 DEF Books
<1>6. Counted(s2) = Counted(s) \cup {t} /\ t \notin Counted(s)
  BY <1>1, <1>2 DEF Counted
<1>7. Cardinality(Counted(s2)) = Cardinality(Counted(s)) + 1
  BY <1>6, CountedFinite, FS_AddElement
<1>8. c2 \in 0..n /\ c2 = n - Cardinality(Counted(s2))
  BY <1>1, <1>5, <1>7, CountedFinite
<1>9. s2 \in [Threads -> bar0!Stages]
  BY <1>1 DEF bar0!Stages
<1>10. \A u \in Threads : s2[u] \in bar0!Critical <=> m2 = u
  BY <1>1, <1>2 DEF Books, bar0!Critical
<1>11. (\A u \in Threads : s2[u] # "reset") /\ (\E u \in Threads : s2[u] = "test")
  BY <1>2, <1>4
<1> QED
  BY <1>1, <1>8, <1>9, <1>10, <1>11 DEF Books

\* The broadcast wakes everybody who is counted.
LEMMA WakesBooks ==
  ASSUME NEW n \in Nat \ {0}, NEW c, NEW m, NEW s, Books(n, c, m, s),
         NEW t \in Threads, NEW c2, NEW m2, NEW s2, Wakes(t, c, m, s, c2, m2, s2)
  PROVE  Books(n, c2, m2, s2)
<1>1. s \in [Threads -> bar0!Stages] /\ s[t] = "test" /\ m2 = m /\ c2 = 0 /\ c = 0
  BY DEF Wakes, Books
<1>2. \A u \in Threads : s2[u] = IF u = t THEN "reset"
                                 ELSE IF s[u] = "waiting" THEN "signalled" ELSE s[u]
  BY DEF Wakes
<1>3. \A u \in Threads : s[u] \in bar0!Critical <=> u = t
  BY <1>1 DEF Books, bar0!Critical
<1>4. Counted(s2) = {}
  BY <1>2, <1>3 DEF Counted, bar0!Critical
<1>5. s2 \in [Threads -> bar0!Stages]
  <2>1. \A u \in Threads : s2[u] \in bar0!Stages
    BY <1>1, <1>2 DEF bar0!Stages
  <2> QED
    BY <2>1 DEF Wakes
<1>6. \A u \in Threads : s2[u] \in bar0!Critical <=> m2 = u
  BY <1>1, <1>2, <1>3 DEF Books, bar0!Critical
<1>7. s2[t] = "reset" /\ 0 \in 0..n
  BY <1>2
<1> QED
  BY <1>1, <1>4, <1>5, <1>6, <1>7 DEF Books

\* The reset begins a round in which nobody is counted yet.
LEMMA RestoresBooks ==
  ASSUME NEW n \in Nat \ {0}, NEW c, NEW m, NEW s, Books(n, c, m, s),
         NEW t \in Threads, NEW c2, NEW m2, NEW s2, Restores(n, t, c, m, s, c2, m2, s2)
  PROVE  Books(n, c2, m2, s2)
<1>1. /\ s \in [Threads -> bar0!Stages] /\ s[t] = "reset"
      /\ s2 = [s EXCEPT ![t] = "unlock"] /\ m2 = m /\ c2 = n
  BY DEF Restores, Moved, Books
<1>2. \A u \in Threads : s2[u] = IF u = t THEN "unlock" ELSE s[u]
  BY <1>1
<1>3. \A u \in Threads : s[u] \in bar0!Critical <=> u = t
  BY <1>1 DEF Books, bar0!Critical
<1>4. Counted(s2) = {}
  <2>1. Counted(s) = {}
    BY <1>1 DEF Books
  <2> QED
    BY <1>2, <2>1 DEF Counted
<1>5. Cardinality(Counted(s2)) = 0
  BY <1>4, FS_EmptySet
<1>6. s2 \in [Threads -> bar0!Stages]
  BY <1>1 DEF bar0!Stages
<1>7. \A u \in Threads : s2[u] \in bar0!Critical <=> m2 = u
  BY <1>1, <1>2 DEF Books, bar0!Critical
<1>8. \A u \in Threads : s2[u] # "reset"
  BY <1>2, <1>3 DEF bar0!Critical
<1>9. c2 \in 0..n /\ c2 = n - 0 /\ c2 # 0
  BY <1>1
<1> QED
  BY <1>1, <1>5, <1>6, <1>7, <1>8, <1>9 DEF Books

LEMMA WithinBooks ==
  ASSUME NEW n \in Nat \ {0}, NEW c, NEW m, NEW s, Books(n, c, m, s),
         NEW t \in Threads, NEW c2, NEW m2, NEW s2, Within(n, t, c, m, s, c2, m2, s2)
  PROVE  Books(n, c2, m2, s2)
BY CountsBooks, BlocksBooks, WakesBooks, RestoresBooks, ReturnsBooks, Zenon DEF Within

-----------------------------------------------------------------------------
(* What a step of a call looks like to the clients                         *)

\* Nobody but t moves.
Alone(t, s, s2) ==
  s2 \in [Threads -> bar0!Stages] /\ \A u \in Threads : u # t => s2[u] = s[u]

\* How many rounds a thread in this stage, to whom k calls have returned, has
\* seen complete.
Round(stage, k) == IF stage \in Leaving THEN k + 1 ELSE k

Enters(t, s, s2) == Alone(t, s, s2) /\ s[t] = "outside" /\ s2[t] \in Arriving

Stays(t, s, s2) ==
  /\ Alone(t, s, s2)
  /\ \/ s[t] \in Arriving /\ s2[t] \in Arriving
     \/ s[t] \in Leaving /\ s2[t] \in Leaving

\* The n threads that have arrived are on their way out, the others where they
\* were.
Completes(n, t, s, s2) ==
  /\ s2 \in [Threads -> bar0!Stages]
  /\ t \in Counted(s)
  /\ Cardinality(Counted(s)) = n
  /\ \A u \in Counted(s) : s[u] \in Arriving /\ s2[u] \in Leaving
  /\ \A u \in Threads \ Counted(s) : s2[u] = s[u]

Leaves(t, s, s2) == Alone(t, s, s2) /\ s[t] \in Leaving /\ s2[t] = "outside"

LEMMA BeginsEnters ==
  ASSUME NEW n \in Nat \ {0}, NEW c, NEW m, NEW s, Books(n, c, m, s),
         NEW t \in Threads, NEW c2, NEW m2, NEW s2, Begins(t, c, m, s, c2, m2, s2)
  PROVE  Enters(t, s, s2)
BY DEF Books, Begins, Moved, Enters, Alone, Arriving, bar0!Stages

LEMMA EndsLeaves ==
  ASSUME NEW n \in Nat \ {0}, NEW c, NEW m, NEW s, Books(n, c, m, s),
         NEW t \in Threads, NEW c2, NEW m2, NEW s2, Ends(t, c, m, s, c2, m2, s2)
  PROVE  Leaves(t, s, s2)
BY DEF Books, Ends, Moved, Leaves, Alone, Leaving, bar0!Stages

LEMMA WithinEffect ==
  ASSUME NEW n \in Nat \ {0}, NEW c, NEW m, NEW s, Books(n, c, m, s),
         NEW t \in Threads, NEW c2, NEW m2, NEW s2, Within(n, t, c, m, s, c2, m2, s2)
  PROVE  Stays(t, s, s2) \/ Completes(n, t, s, s2)
<1>1. ASSUME Counts(t, c, m, s, c2, m2, s2)
      PROVE  Stays(t, s, s2)
  BY <1>1 DEF Books, Counts, Moved, Stays, Alone, Arriving, bar0!Stages
<1>2. ASSUME Blocks(t, c, m, s, c2, m2, s2)
      PROVE  Stays(t, s, s2)
  BY <1>2 DEF Books, Blocks, Moved, Stays, Alone, Arriving, bar0!Stages
<1>3. ASSUME Restores(n, t, c, m, s, c2, m2, s2)
      PROVE  Stays(t, s, s2)
  BY <1>3 DEF Books, Restores, Moved, Stays, Alone, Leaving, bar0!Stages
<1>4. ASSUME Returns(t, c, m, s, c2, m2, s2)
      PROVE  Stays(t, s, s2)
  BY <1>4 DEF Books, Returns, Moved, Stays, Alone, Leaving, bar0!Stages
<1>5. ASSUME Wakes(t, c, m, s, c2, m2, s2)
      PROVE  Completes(n, t, s, s2)
  <2>1. s[t] = "test" /\ c = 0 /\ s \in [Threads -> bar0!Stages]
    BY <1>5 DEF Wakes, Books
  <2>2. \A u \in Threads : s2[u] = IF u = t THEN "reset"
                                   ELSE IF s[u] = "waiting" THEN "signalled" ELSE s[u]
    BY <1>5 DEF Wakes
  <2>3. \A u \in Threads : s[u] \in bar0!Critical <=> u = t
    BY <2>1 DEF Books, bar0!Critical
  <2>4. \A u \in Threads : s[u] # "reset"
    BY <2>1, <2>3 DEF bar0!Critical
  <2>5. c = n - Cardinality(Counted(s))
    BY <2>4 DEF Books
  <2>6. Cardinality(Counted(s)) = n
    BY <2>1, <2>5, CountedFinite
  <2>7. t \in Counted(s)
    BY <2>1 DEF Counted
  <2>8. \A u \in Counted(s) : s[u] \in Arriving /\ s2[u] \in Leaving
    BY <2>2, <2>3 DEF Counted, Arriving, Leaving, bar0!Critical
  <2>9. \A u \in Threads \ Counted(s) : s2[u] = s[u]
    BY <2>2, <2>7 DEF Counted
  <2>10. s2 \in [Threads -> bar0!Stages]
    <3>1. \A u \in Threads : s2[u] \in bar0!Stages
      BY <2>1, <2>2 DEF bar0!Stages
    <3> QED
      BY <1>5, <3>1 DEF Wakes
  <2> QED
    BY <2>6, <2>7, <2>8, <2>9, <2>10 DEF Completes
<1> QED
  BY <1>1, <1>2, <1>3, <1>4, <1>5 DEF Within

\* When only n threads may have arrived, a round is complete with all of them.
LEMMA CompletesAll ==
  ASSUME NEW n \in Nat, NEW P \in SUBSET Threads, Cardinality(P) = n,
         NEW t, NEW s, NEW s2, Completes(n, t, s, s2), Counted(s) \subseteq P
  PROVE  Counted(s) = P
BY ThreadsFinite, FS_Subset DEF Completes

-----------------------------------------------------------------------------
(* The four barriers of the programs                                       *)

AllBooks ==
  /\ Books(NTHREADS, count0, lock0, stage0)
  /\ Books(2, count1, lock1, stage1)
  /\ Books(2, count2, lock2, stage2)
  /\ Books(2, count3, lock3, stage3)

\* A call by id at a barrier for n threads begins, goes on, completes its round
\* or returns; and only then is id at its next statement.
CallStep(n, id, s, s2) ==
  \/ /\ pc' = pc
     /\ Enters(id, s, s2) \/ Stays(id, s, s2) \/ Completes(n, id, s, s2)
  \/ Leaves(id, s, s2) /\ Advance(id)

LEMMA Wait0Step ==
  ASSUME AllBooks, NEW id \in Threads, Wait0(id)
  PROVE  Books(NTHREADS, count0', lock0', stage0') /\ CallStep(NTHREADS, id, stage0, stage0')
<1>1. NTHREADS \in Nat \ {0} /\ Books(NTHREADS, count0, lock0, stage0)
  BY ProgramsAssumption DEF AllBooks
<1>2. ASSUME bar0!Lock(id)
      PROVE  Begins(id, count0, lock0, stage0, count0', lock0', stage0')
  BY <1>2 DEF bar0!Lock, bar0!Goto, bar0!TakeLock, Begins, Moved
<1>3. ASSUME bar0!Inside(id)
      PROVE  Within(NTHREADS, id, count0, lock0, stage0, count0', lock0', stage0')
  BY <1>3 DEF bar0!Inside, bar0!Goto, bar0!TakeLock, bar0!Decrement, bar0!Wait,
              bar0!Broadcast, bar0!Reset, bar0!SpuriousWakeup, bar0!Reacquire,
              Within, Counts, Blocks, Wakes, Restores, Returns, Moved
<1>4. ASSUME bar0!Unlock(id)
      PROVE  Ends(id, count0, lock0, stage0, count0', lock0', stage0')
  BY <1>4 DEF bar0!Unlock, bar0!Goto, Ends, Moved
<1>5. CASE bar0!Lock(id) /\ UNCHANGED pc
  BY <1>1, <1>2, <1>5, BeginsBooks, BeginsEnters DEF CallStep
<1>6. CASE bar0!Inside(id) /\ UNCHANGED pc
  BY <1>1, <1>3, <1>6, WithinBooks, WithinEffect DEF CallStep
<1>7. CASE bar0!Unlock(id) /\ Advance(id)
  BY <1>1, <1>4, <1>7, EndsBooks, EndsLeaves DEF CallStep
<1> QED
  BY <1>5, <1>6, <1>7 DEF Wait0

LEMMA Wait1Step ==
  ASSUME AllBooks, NEW id \in Threads, Wait1(id)
  PROVE  Books(2, count1', lock1', stage1') /\ CallStep(2, id, stage1, stage1')
<1>1. 2 \in Nat \ {0} /\ Books(2, count1, lock1, stage1)
  BY ProgramsAssumption DEF AllBooks
<1>2. ASSUME bar1!Lock(id)
      PROVE  Begins(id, count1, lock1, stage1, count1', lock1', stage1')
  BY <1>2 DEF bar1!Lock, bar1!Goto, bar1!TakeLock, Begins, Moved
<1>3. ASSUME bar1!Inside(id)
      PROVE  Within(2, id, count1, lock1, stage1, count1', lock1', stage1')
  BY <1>3 DEF bar1!Inside, bar1!Goto, bar1!TakeLock, bar1!Decrement, bar1!Wait,
              bar1!Broadcast, bar1!Reset, bar1!SpuriousWakeup, bar1!Reacquire,
              Within, Counts, Blocks, Wakes, Restores, Returns, Moved
<1>4. ASSUME bar1!Unlock(id)
      PROVE  Ends(id, count1, lock1, stage1, count1', lock1', stage1')
  BY <1>4 DEF bar1!Unlock, bar1!Goto, Ends, Moved
<1>5. CASE bar1!Lock(id) /\ UNCHANGED pc
  BY <1>1, <1>2, <1>5, BeginsBooks, BeginsEnters DEF CallStep
<1>6. CASE bar1!Inside(id) /\ UNCHANGED pc
  BY <1>1, <1>3, <1>6, WithinBooks, WithinEffect DEF CallStep
<1>7. CASE bar1!Unlock(id) /\ Advance(id)
  BY <1>1, <1>4, <1>7, EndsBooks, EndsLeaves DEF CallStep
<1> QED
  BY <1>5, <1>6, <1>7 DEF Wait1

LEMMA Wait2Step ==
  ASSUME AllBooks, NEW id \in Threads, Wait2(id)
  PROVE  Books(2, count2', lock2', stage2') /\ CallStep(2, id, stage2, stage2')
<1>1. 2 \in Nat \ {0} /\ Books(2, count2, lock2, stage2)
  BY ProgramsAssumption DEF AllBooks
<1>2. ASSUME bar2!Lock(id)
      PROVE  Begins(id, count2, lock2, stage2, count2', lock2', stage2')
  BY <1>2 DEF bar2!Lock, bar2!Goto, bar2!TakeLock, Begins, Moved
<1>3. ASSUME bar2!Inside(id)
      PROVE  Within(2, id, count2, lock2, stage2, count2', lock2', stage2')
  BY <1>3 DEF bar2!Inside, bar2!Goto, bar2!TakeLock, bar2!Decrement, bar2!Wait,
              bar2!Broadcast, bar2!Reset, bar2!SpuriousWakeup, bar2!Reacquire,
              Within, Counts, Blocks, Wakes, Restores, Returns, Moved
<1>4. ASSUME bar2!Unlock(id)
      PROVE  Ends(id, count2, lock2, stage2, count2', lock2', stage2')
  BY <1>4 DEF bar2!Unlock, bar2!Goto, Ends, Moved
<1>5. CASE bar2!Lock(id) /\ UNCHANGED pc
  BY <1>1, <1>2, <1>5, BeginsBooks, BeginsEnters DEF CallStep
<1>6. CASE bar2!Inside(id) /\ UNCHANGED pc
  BY <1>1, <1>3, <1>6, WithinBooks, WithinEffect DEF CallStep
<1>7. CASE bar2!Unlock(id) /\ Advance(id)
  BY <1>1, <1>4, <1>7, EndsBooks, EndsLeaves DEF CallStep
<1> QED
  BY <1>5, <1>6, <1>7 DEF Wait2

LEMMA Wait3Step ==
  ASSUME AllBooks, NEW id \in Threads, Wait3(id)
  PROVE  Books(2, count3', lock3', stage3') /\ CallStep(2, id, stage3, stage3')
<1>1. 2 \in Nat \ {0} /\ Books(2, count3, lock3, stage3)
  BY ProgramsAssumption DEF AllBooks
<1>2. ASSUME bar3!Lock(id)
      PROVE  Begins(id, count3, lock3, stage3, count3', lock3', stage3')
  BY <1>2 DEF bar3!Lock, bar3!Goto, bar3!TakeLock, Begins, Moved
<1>3. ASSUME bar3!Inside(id)
      PROVE  Within(2, id, count3, lock3, stage3, count3', lock3', stage3')
  BY <1>3 DEF bar3!Inside, bar3!Goto, bar3!TakeLock, bar3!Decrement, bar3!Wait,
              bar3!Broadcast, bar3!Reset, bar3!SpuriousWakeup, bar3!Reacquire,
              Within, Counts, Blocks, Wakes, Restores, Returns, Moved
<1>4. ASSUME bar3!Unlock(id)
      PROVE  Ends(id, count3, lock3, stage3, count3', lock3', stage3')
  BY <1>4 DEF bar3!Unlock, bar3!Goto, Ends, Moved
<1>5. CASE bar3!Lock(id) /\ UNCHANGED pc
  BY <1>1, <1>2, <1>5, BeginsBooks, BeginsEnters DEF CallStep
<1>6. CASE bar3!Inside(id) /\ UNCHANGED pc
  BY <1>1, <1>3, <1>6, WithinBooks, WithinEffect DEF CallStep
<1>7. CASE bar3!Unlock(id) /\ Advance(id)
  BY <1>1, <1>4, <1>7, EndsBooks, EndsLeaves DEF CallStep
<1> QED
  BY <1>5, <1>6, <1>7 DEF Wait3

LEMMA InitBooks ==
  ASSUME NEW n \in Nat \ {0}
  PROVE  Books(n, n, NoThread, [t \in Threads |-> "outside"])
<1> DEFINE s == [t \in Threads |-> "outside"]
<1>1. Counted(s) = {}
  BY DEF Counted
<1>2. Cardinality(Counted(s)) = 0
  BY <1>1, FS_EmptySet
<1>3. /\ s \in [Threads -> bar0!Stages]
      /\ \A t \in Threads : s[t] = "outside"
  BY DEF bar0!Stages
<1> HIDE DEF s
<1>4. \A t \in Threads : s[t] \in bar0!Critical <=> NoThread = t
  BY <1>3, ProgramsAssumption DEF bar0!Critical
<1>5. Books(n, n, NoThread, s)
  BY <1>2, <1>3, <1>4 DEF Books
<1> QED
  BY <1>5 DEF s

\* Whichever program runs, every barrier keeps its books.
LEMMA AllBooksInit == Init => AllBooks
BY InitBooks, ProgramsAssumption
DEF Init, AllBooks, bar0!BarrierInit, bar1!BarrierInit, bar2!BarrierInit, bar3!BarrierInit

LEMMA AllBooksNext ==
  ASSUME AllBooks, [Next]_vars
  PROVE  AllBooks'
<1> USE DEF vars, bar0Vars, pairVars, bar1Vars, bar2Vars, bar3Vars
<1>1. CASE UNCHANGED <<bar0Vars, pairVars>>
  BY <1>1 DEF AllBooks
<1>2. ASSUME NEW id \in Threads, Wait0(id)
      PROVE  AllBooks'
  BY <1>2, Wait0Step DEF AllBooks, Wait0
<1>3. ASSUME NEW id \in Threads, Wait1(id)
      PROVE  AllBooks'
  BY <1>3, Wait1Step DEF AllBooks, Wait1
<1>4. ASSUME NEW id \in Threads, Wait2(id)
      PROVE  AllBooks'
  BY <1>4, Wait2Step DEF AllBooks, Wait2
<1>5. ASSUME NEW id \in Threads, Wait3(id)
      PROVE  AllBooks'
  BY <1>5, Wait3Step DEF AllBooks, Wait3
<1>6. ASSUME NEW id \in Threads,
             WriteCell(id) \/ Clear(id) \/ ReadCell(id) \/ SumQuarter(id) \/ Add(id) \/ PrintLine(id)
      PROVE  UNCHANGED <<bar0Vars, pairVars>>
  BY <1>6 DEF WriteCell, Clear, ReadCell, SumQuarter, Add, PrintLine
<1>7. CASE Exit \/ UNCHANGED vars
  BY <1>1, <1>7 DEF Exit
<1> QED
  BY <1>1, <1>2, <1>3, <1>4, <1>5, <1>6, <1>7 DEF Next, Step


-----------------------------------------------------------------------------
(* The array test                                                          *)

\* Which statement thread id of the array test is at.
LEMMA ArrayProgram ==
  ASSUME test = "array", NEW id \in Threads
  PROVE  /\ id = 0 =>
              Program[id] = <<"increment", "wait0", "clear", "read", "wait0",
                              "add10", "wait0", "clear", "read">>
         /\ id # 0 /\ id < NTHREADS =>
              Program[id] = <<"increment", "wait0", "wait0", "add10", "wait0">>
         /\ id >= NTHREADS => Program[id] = <<>>
<1>1. 0 < NTHREADS /\ NTHREADS \in Nat /\ id \in Nat
  BY ProgramsAssumption DEF Threads
<1>2. Program[id] = CellSums(id)
  BY DEF Program
<1> QED
  BY <1>1, <1>2 DEF CellSums

LEMMA ArrayFirst ==
  ASSUME test = "array", pc[0] \in 1..10
  PROVE  /\ Len(Program[0]) = 9
         /\ At(0, "increment") <=> pc[0] = 1
         /\ At(0, "wait0") <=> pc[0] \in {2, 5, 7}
         /\ At(0, "clear") <=> pc[0] \in {3, 8}
         /\ At(0, "read") <=> pc[0] \in {4, 9}
         /\ At(0, "add10") <=> pc[0] = 6
         /\ \A x \in {"quarter", "print", "wait1", "wait2", "wait3", "add1", "add2", "add3"} :
              ~At(0, x)
<1>1. Program[0] = <<"increment", "wait0", "clear", "read", "wait0",
                     "add10", "wait0", "clear", "read">>
  BY ArrayProgram, ThreadsFinite
<1>2. Len(Program[0]) = 9
  BY <1>1
<1>3. \/ pc[0] = 1 \/ pc[0] = 2 \/ pc[0] = 3 \/ pc[0] = 4 \/ pc[0] = 5
      \/ pc[0] = 6 \/ pc[0] = 7 \/ pc[0] = 8 \/ pc[0] = 9 \/ pc[0] = 10
  OBVIOUS
<1> QED
  BY <1>1, <1>2, <1>3 DEF At

LEMMA ArrayOther ==
  ASSUME test = "array", NEW id \in Threads, id # 0, id < NTHREADS, pc[id] \in 1..6
  PROVE  /\ Len(Program[id]) = 5
         /\ At(id, "increment") <=> pc[id] = 1
         /\ At(id, "wait0") <=> pc[id] \in {2, 3, 5}
         /\ At(id, "add10") <=> pc[id] = 4
         /\ \A x \in {"clear", "read", "quarter", "print", "wait1", "wait2", "wait3",
                      "add1", "add2", "add3"} : ~At(id, x)
<1>1. Program[id] = <<"increment", "wait0", "wait0", "add10", "wait0">>
  BY ArrayProgram
<1>2. Len(Program[id]) = 5
  BY <1>1
<1>3. pc[id] = 1 \/ pc[id] = 2 \/ pc[id] = 3 \/ pc[id] = 4 \/ pc[id] = 5 \/ pc[id] = 6
  OBVIOUS
<1> QED
  BY <1>1, <1>2, <1>3 DEF At

\* A thread without statements is at none.
LEMMA Idle ==
  ASSUME NEW id \in Threads, Program[id] = <<>>, pc[id] = 1, NEW x
  PROVE  Len(Program[id]) = 0 /\ ~At(id, x)
BY DEF At

\* The calls of barrier_wait that have returned to thread t.
Crossed0(t) ==
  IF t = 0
    THEN IF pc[t] <= 2 THEN 0 ELSE IF pc[t] <= 5 THEN 1 ELSE IF pc[t] <= 7 THEN 2 ELSE 3
    ELSE IF pc[t] <= 2 THEN 0 ELSE IF pc[t] <= 3 THEN 1 ELSE IF pc[t] <= 5 THEN 2 ELSE 3

Rounds0(t) == Round(stage0[t], Crossed0(t))

Workers == 0..(NTHREADS - 1)

\* Only the workers have something to do, and only at their calls of
\* barrier_wait are they in one.
ArrayPlaces ==
  /\ pc \in [Threads -> 1..10]
  /\ \A t \in Threads : t # 0 => pc[t] <= 6
  /\ \A t \in Threads \ Workers : pc[t] = 1 /\ stage0[t] = "outside"
  /\ \A t \in Workers : stage0[t] # "outside" =>
       pc[t] \in (IF t = 0 THEN {2, 5, 7} ELSE {2, 3, 5})
  /\ \A t \in Threads :
       stage1[t] = "outside" /\ stage2[t] = "outside" /\ stage3[t] = "outside"

\* All workers have seen as many rounds complete.
ArrayRounds == \A t, u \in Workers : Rounds0(t) = Rounds0(u)

\* What the cells hold, and how far thread 0 has come with its two sums.
ArrayCells ==
  /\ sum \in [Threads -> Nat]
  /\ \A t \in Threads :
       sum[t] = IF pc[t] = 1 THEN 0
                ELSE IF pc[t] <= (IF t = 0 THEN 6 ELSE 4) THEN 1 ELSE 11
  /\ i \in Nat /\ total \in Nat
  /\ pc[0] <= 3 => i = 0 /\ total = 0
  /\ pc[0] = 4 => i < NTHREADS /\ total = i
  /\ pc[0] \in 5..8 => i = NTHREADS /\ total = NTHREADS
  /\ pc[0] = 9 => i < NTHREADS /\ total = 11 * i
  /\ pc[0] = 10 => i = NTHREADS /\ total = 11 * NTHREADS

ArrayInv ==
  /\ test = "array"
  /\ ArrayPlaces
  /\ ArrayRounds
  /\ ArrayCells


-----------------------------------------------------------------------------
(* The sum test                                                            *)

\* Where thread t stands in its round of barrier b: each is used once.
Rounds1(t) == Round(stage1[t], IF pc[t] > 2 THEN 1 ELSE 0)
Rounds2(t) == Round(stage2[t], IF pc[t] > 2 THEN 1 ELSE 0)
Rounds3(t) == Round(stage3[t], IF pc[t] > 4 THEN 1 ELSE 0)

SumsPlaces ==
  /\ pc \in [Threads -> 1..6]
  /\ pc[1] <= 3 /\ pc[2] <= 5 /\ pc[3] <= 3
  /\ \A t \in Threads : t > 3 => pc[t] = 1
  /\ \A t \in Threads :
       /\ stage0[t] = "outside"
       /\ stage1[t] # "outside" => t \in {0, 1} /\ pc[t] = 2
       /\ stage2[t] # "outside" => t \in {2, 3} /\ pc[t] = 2
       /\ stage3[t] # "outside" => t \in {0, 2} /\ pc[t] = 4

SumsRounds == Rounds1(0) = Rounds1(1) /\ Rounds2(2) = Rounds2(3) /\ Rounds3(0) = Rounds3(2)

\* What the sums are made of.
SumsParts ==
  /\ sum \in [Threads -> Nat]
  /\ sum[0] = IF pc[0] = 1 THEN 0 ELSE IF pc[0] <= 3 THEN Quarter[0]
              ELSE IF pc[0] <= 5 THEN Quarter[0] + Quarter[1] ELSE Whole
  /\ sum[1] = IF pc[1] = 1 THEN 0 ELSE Quarter[1]
  /\ sum[2] = IF pc[2] = 1 THEN 0 ELSE IF pc[2] <= 3 THEN Quarter[2]
              ELSE Quarter[2] + Quarter[3]
  /\ sum[3] = IF pc[3] = 1 THEN 0 ELSE Quarter[3]
  /\ \A t \in Threads : t > 3 => sum[t] = 0
  /\ total = 0 /\ i = 0

SumsInv ==
  /\ test = "sums"
  /\ SumsPlaces
  /\ SumsRounds
  /\ SumsParts

-----------------------------------------------------------------------------
(* The game                                                                *)

\* The calls that have returned: of b1 and of b2, to thread 1, at the statement
\* p, and to thread 2.
FirstOne(p) == (p + 1) \div 3
SecondOne(p) == (p - 1) \div 3
FirstTwo(p) == (p - 1) \div 3
SecondTwo(p) == (p + 1) \div 3

GamePlaces ==
  /\ pc \in [Threads -> 1..(3 * Loops + 2)]
  /\ pc[0] <= 2 /\ pc[2] <= 3 * Loops + 1
  /\ \A t \in Threads : t > 2 => pc[t] = 1
  /\ \A t \in Threads :
       /\ stage0[t] = "outside" /\ stage3[t] = "outside"
       /\ stage1[t] # "outside" => t \in 0..2
       /\ stage2[t] # "outside" => t \in 1..2
  /\ stage1[0] # "outside" => pc[0] = 1
  /\ stage1[1] # "outside" => pc[1] % 3 = 1
  /\ stage2[1] # "outside" => pc[1] % 3 = 0
  /\ stage1[2] # "outside" => pc[2] % 3 = 0
  /\ stage2[2] # "outside" => pc[2] % 3 = 1

\* The rounds of b1 that main and the players, and those of b2 that the players
\* have seen complete.
Opened == Round(stage1[0], pc[0] - 1)
First1 == Round(stage1[1], FirstOne(pc[1]))
First2 == Round(stage1[2], FirstTwo(pc[2]))
Second1 == Round(stage2[1], SecondOne(pc[1]))
Second2 == Round(stage2[2], SecondTwo(pc[2]))

\* The players agree on the rounds of b2.  Main takes the part of thread 2 in
\* the first round of b1, which thread 2 does not see.
GameRounds ==
  /\ Second1 = Second2
  /\ First1 = 0 => stage1[2] = "outside" /\ First2 = 0 /\ Opened = 0
  /\ First1 > 0 => First2 = First1 - 1 /\ Opened = 1

GameInv ==
  /\ test = "game"
  /\ GamePlaces
  /\ GameRounds
  /\ sum = [t \in Threads |-> 0] /\ total = 0 /\ i = 0

-----------------------------------------------------------------------------

IInv == AllBooks /\ (ArrayInv \/ SumsInv \/ GameInv)


-----------------------------------------------------------------------------
(* The steps of the array test                                             *)

LEMMA WorkersSome == Workers \subseteq Threads /\ 0 \in Workers /\ NTHREADS \in Nat \ {0}
BY ProgramsAssumption DEF Workers, Threads

\* A thread at a statement is a worker, and which one it is at tells its pc.
LEMMA ArrayAt ==
  ASSUME ArrayInv, NEW id \in Threads
  PROVE  /\ \A x : At(id, x) => id \in Workers
         /\ id = 0 =>
              /\ At(id, "increment") <=> pc[id] = 1
              /\ At(id, "wait0") <=> pc[id] \in {2, 5, 7}
              /\ At(id, "clear") <=> pc[id] \in {3, 8}
              /\ At(id, "read") <=> pc[id] \in {4, 9}
              /\ At(id, "add10") <=> pc[id] = 6
         /\ id \in Workers \ {0} =>
              /\ At(id, "increment") <=> pc[id] = 1
              /\ At(id, "wait0") <=> pc[id] \in {2, 3, 5}
              /\ At(id, "add10") <=> pc[id] = 4
              /\ ~At(id, "clear") /\ ~At(id, "read")
         /\ \A x \in {"quarter", "print", "wait1", "wait2", "wait3", "add1", "add2", "add3"} :
              ~At(id, x)
<1>1. test = "array" /\ pc \in [Threads -> 1..10] /\ (id # 0 => pc[id] <= 6)
  BY DEF ArrayInv, ArrayPlaces
<1>2. CASE id = 0
  BY <1>1, <1>2, ArrayFirst, WorkersSome
<1>3. CASE id \in Workers \ {0}
  <2>1. id < NTHREADS /\ pc[id] \in 1..6
    BY <1>1, <1>3, WorkersSome DEF Workers
  <2> QED
    BY <1>1, <1>3, <2>1, ArrayOther
<1>4. CASE id \notin Workers
  <2>1. id >= NTHREADS /\ id # 0
    BY <1>4, ProgramsAssumption DEF Workers, Threads
  <2>2. Program[id] = <<>>
    BY <1>1, <2>1, ArrayProgram
  <2>3. pc[id] = 1
    BY <1>4 DEF ArrayInv, ArrayPlaces
  <2>4. \A x : ~At(id, x)
    BY <2>2, <2>3, Idle
  <2> QED
    BY <1>4, <2>1, <2>4
<1> QED
  BY <1>2, <1>3, <1>4

\* A worker adds to its own cell, which takes it from no call to none.
LEMMA ArrayWriteCell ==
  ASSUME ArrayInv, NEW id \in Threads, WriteCell(id)
  PROVE  ArrayInv'
<1>1. /\ id \in Workers
      /\ \/ pc[id] = 1 /\ At(id, "increment") /\ ~At(id, "add10")
         \/ pc[id] = (IF id = 0 THEN 6 ELSE 4) /\ At(id, "add10")
  BY ArrayAt DEF WriteCell
<1>2. /\ pc' = [pc EXCEPT ![id] = @ + 1]
      /\ sum' = [sum EXCEPT ![id] = @ + IF At(id, "add10") THEN 10 ELSE 1]
      /\ UNCHANGED <<test, stage0, stage1, stage2, stage3, total, i>>
  BY DEF WriteCell, Advance, bar0Vars, pairVars, bar1Vars, bar2Vars, bar3Vars
<1>3. pc \in [Threads -> 1..10] /\ (id # 0 => pc[id] <= 6)
  BY DEF ArrayInv, ArrayPlaces
<1>4. pc'[id] = pc[id] + 1 /\ \A t \in Threads : t # id => pc'[t] = pc[t]
  BY <1>2, <1>3
<1>5. stage0[id] = "outside"
  BY <1>1 DEF ArrayInv, ArrayPlaces
<1>6. ArrayPlaces'
  BY <1>1, <1>2, <1>3, <1>4, <1>5 DEF ArrayInv, ArrayPlaces
<1>7. \A t \in Workers : Rounds0(t)' = Rounds0(t)
  BY <1>1, <1>2, <1>4, WorkersSome DEF Rounds0, Crossed0
<1>8. ArrayRounds'
  BY <1>7 DEF ArrayInv, ArrayRounds
<1>9. ArrayCells'
  <2>1. sum \in [Threads -> Nat]
    BY DEF ArrayInv, ArrayCells
  <2>2. sum[id] = IF pc[id] = 1 THEN 0
                  ELSE IF pc[id] <= (IF id = 0 THEN 6 ELSE 4) THEN 1 ELSE 11
    BY DEF ArrayInv, ArrayCells
  <2>3. /\ sum' \in [Threads -> Nat]
        /\ sum'[id] = IF pc[id] = 1 THEN 1 ELSE 11
        /\ \A t \in Threads : t # id => sum'[t] = sum[t]
    BY <1>1, <1>2, <2>1, <2>2
  <2>4. ASSUME NEW t \in Threads
        PROVE  sum'[t] = IF pc'[t] = 1 THEN 0
                         ELSE IF pc'[t] <= (IF t = 0 THEN 6 ELSE 4) THEN 1 ELSE 11
    <3>1. CASE t = id
      BY <1>1, <1>4, <2>3, <3>1
    <3>2. CASE t # id
      BY <1>4, <2>3, <3>2 DEF ArrayInv, ArrayCells
    <3> QED
      BY <3>1, <3>2
  <2>5. \/ pc'[0] = pc[0]
        \/ pc[0] = 1 /\ pc'[0] = 2
        \/ pc[0] = 6 /\ pc'[0] = 7
    BY <1>1, <1>4, ThreadsFinite
  <2> QED
    BY <1>2, <2>3, <2>4, <2>5 DEF ArrayInv, ArrayCells
<1> QED
  BY <1>2, <1>6, <1>8, <1>9 DEF ArrayInv

\* Thread 0 goes on alone: its statement is not a call.
LEMMA ArrayAlone ==
  ASSUME ArrayInv, Clear(0) \/ ReadCell(0)
  PROVE  ArrayPlaces' /\ ArrayRounds'
<1>1. pc[0] \in {3, 4, 8, 9}
  BY ArrayAt, ThreadsFinite DEF Clear, ReadCell
<1>2. /\ pc' = pc \/ pc' = [pc EXCEPT ![0] = @ + 1]
      /\ UNCHANGED <<test, stage0, stage1, stage2, stage3>>
  BY DEF Clear, ReadCell, Advance, bar0Vars, pairVars, bar1Vars, bar2Vars, bar3Vars
<1>3. pc \in [Threads -> 1..10] /\ 0 \in Threads
  BY ThreadsFinite DEF ArrayInv, ArrayPlaces
<1>4. /\ pc'[0] = pc[0] \/ pc'[0] = pc[0] + 1
      /\ \A t \in Threads : t # 0 => pc'[t] = pc[t]
      /\ pc' \in [Threads -> 1..10]
  BY <1>1, <1>2, <1>3
<1>5. stage0[0] = "outside"
  BY <1>1, WorkersSome DEF ArrayInv, ArrayPlaces
<1>6. ArrayPlaces'
  BY <1>2, <1>4, <1>5, WorkersSome DEF ArrayInv, ArrayPlaces
<1>7. \A t \in Workers : Rounds0(t)' = Rounds0(t)
  BY <1>1, <1>2, <1>4, WorkersSome DEF Rounds0, Crossed0
<1> QED
  BY <1>6, <1>7 DEF ArrayInv, ArrayRounds

LEMMA ArrayClear ==
  ASSUME ArrayInv, NEW id \in Threads, Clear(id)
  PROVE  ArrayInv'
<1>1. id = 0 /\ pc[0] \in {3, 8}
  BY ArrayAt DEF Clear
<1>2. ArrayPlaces' /\ ArrayRounds'
  BY <1>1, ArrayAlone
<1>3. /\ pc' = [pc EXCEPT ![0] = @ + 1] /\ pc \in [Threads -> 1..10] /\ 0 \in Threads
      /\ total' = 0 /\ i' = 0 /\ sum' = sum /\ test' = test
  BY <1>1, ThreadsFinite DEF Clear, Advance, ArrayInv, ArrayPlaces
<1>4. pc'[0] = pc[0] + 1 /\ \A t \in Threads : t # 0 => pc'[t] = pc[t]
  BY <1>3
<1>5. ArrayCells'
  BY <1>1, <1>3, <1>4, WorkersSome DEF ArrayInv, ArrayCells
<1> QED
  BY <1>2, <1>3, <1>5 DEF ArrayInv

\* While thread 0 reads, the others are between the same two writes.
LEMMA ArrayReading ==
  ASSUME AllBooks, ArrayInv, pc[0] \in {4, 9}, NEW t \in Workers \ {0}
  PROVE  /\ pc[t] \in (IF pc[0] = 4 THEN {2, 3} ELSE {5, 6})
         /\ sum[t] = IF pc[0] = 4 THEN 1 ELSE 11
<1>1. stage0 \in [Threads -> bar0!Stages] /\ t \in Threads /\ pc \in [Threads -> 1..10] /\ pc[t] <= 6
  BY WorkersSome DEF AllBooks, Books, ArrayInv, ArrayPlaces
<1>2. stage0[0] = "outside"
  BY WorkersSome DEF ArrayInv, ArrayPlaces
<1>3. Rounds0(0) = IF pc[0] = 4 THEN 1 ELSE 3
  BY <1>2 DEF Rounds0, Round, Crossed0, Leaving
<1>4. Rounds0(t) = Rounds0(0)
  BY WorkersSome DEF ArrayInv, ArrayRounds
<1>5. stage0[t] # "outside" => pc[t] \in {2, 3, 5}
  BY DEF ArrayInv, ArrayPlaces
<1>6. stage0[t] = "outside" => Rounds0(t) = Crossed0(t)
  BY DEF Rounds0, Round, Leaving
<1>7. Rounds0(t) = Crossed0(t) \/ Rounds0(t) = Crossed0(t) + 1
  BY DEF Rounds0, Round
<1>8. pc[t] \in (IF pc[0] = 4 THEN {2, 3} ELSE {5, 6})
  BY <1>1, <1>3, <1>4, <1>5, <1>6, <1>7 DEF Crossed0
<1>9. sum[t] = IF pc[t] = 1 THEN 0 ELSE IF pc[t] <= 4 THEN 1 ELSE 11
  BY <1>1 DEF ArrayInv, ArrayCells
<1> QED
  BY <1>8, <1>9

LEMMA ArrayReadCell ==
  ASSUME AllBooks, ArrayInv, NEW id \in Threads, ReadCell(id)
  PROVE  ArrayInv'
<1>1. id = 0 /\ pc[0] \in {4, 9}
  BY ArrayAt DEF ReadCell
<1>2. ArrayPlaces' /\ ArrayRounds'
  BY <1>1, ArrayAlone
<1>3. /\ pc \in [Threads -> 1..10] /\ 0 \in Threads
      /\ total' = total + sum[i] /\ i' = i + 1 /\ sum' = sum /\ test' = test
      /\ i + 1 < NTHREADS => pc' = pc
      /\ ~(i + 1 < NTHREADS) => pc' = [pc EXCEPT ![0] = @ + 1]
  BY <1>1, ThreadsFinite DEF ReadCell, Advance, ArrayInv, ArrayPlaces
<1>4. /\ pc'[0] = IF i + 1 < NTHREADS THEN pc[0] ELSE pc[0] + 1
      /\ \A t \in Threads : t # 0 => pc'[t] = pc[t]
  BY <1>3
<1>5. /\ i \in Nat /\ i < NTHREADS /\ total \in Nat
      /\ total = IF pc[0] = 4 THEN i ELSE 11 * i
  BY <1>1 DEF ArrayInv, ArrayCells
<1>6. i \in Workers
  BY <1>5, WorkersSome DEF Workers
<1>7. sum[i] = IF pc[0] = 4 THEN 1 ELSE 11
  <2>1. CASE i = 0
    <3>1. sum[0] = IF pc[0] = 1 THEN 0 ELSE IF pc[0] <= 6 THEN 1 ELSE 11
      BY ThreadsFinite DEF ArrayInv, ArrayCells
    <3> QED
      BY <1>1, <2>1, <3>1
  <2>2. CASE i # 0
    BY <1>1, <1>6, <2>2, ArrayReading
  <2> QED
    BY <2>1, <2>2
<1>8. total' = IF pc[0] = 4 THEN i' ELSE 11 * i'
  BY <1>1, <1>3, <1>5, <1>7
<1>9. i' \in Nat /\ total' \in Nat /\ (i + 1 < NTHREADS => i' < NTHREADS)
      /\ (~(i + 1 < NTHREADS) => i' = NTHREADS)
  BY <1>3, <1>5, <1>7, WorkersSome
<1>10. ASSUME NEW t \in Threads
       PROVE  sum'[t] = IF pc'[t] = 1 THEN 0
                        ELSE IF pc'[t] <= (IF t = 0 THEN 6 ELSE 4) THEN 1 ELSE 11
  BY <1>1, <1>3, <1>4 DEF ArrayInv, ArrayCells
<1>11. ArrayCells'
  BY <1>1, <1>3, <1>4, <1>8, <1>9, <1>10, WorkersSome DEF ArrayInv, ArrayCells
<1> QED
  BY <1>2, <1>3, <1>11 DEF ArrayInv


LEMMA ArrayWait ==
  ASSUME AllBooks, ArrayInv, NEW id \in Threads, Wait0(id)
  PROVE  ArrayInv'
<1>1. CallStep(NTHREADS, id, stage0, stage0')
  BY Wait0Step
<1>2. /\ id \in Workers /\ pc[id] \in (IF id = 0 THEN {2, 5, 7} ELSE {2, 3, 5})
      /\ UNCHANGED <<test, stage1, stage2, stage3, sum, total, i>>
  BY ArrayAt, WorkersSome DEF Wait0, pairVars, bar1Vars, bar2Vars, bar3Vars
<1>3. /\ pc \in [Threads -> 1..10] /\ stage0 \in [Threads -> bar0!Stages]
      /\ Workers \subseteq Threads
  BY WorkersSome DEF AllBooks, Books, ArrayInv, ArrayPlaces
<1>4. ASSUME pc' = pc, Enters(id, stage0, stage0') \/ Stays(id, stage0, stage0')
      PROVE  ArrayInv'
  <2>1. /\ \A t \in Threads : t # id => stage0'[t] = stage0[t]
        /\ stage0'[id] \in Leaving <=> stage0[id] \in Leaving
    BY <1>4 DEF Enters, Stays, Alone, Arriving, Leaving
  <2>2. ArrayPlaces'
    BY <1>2, <1>3, <1>4, <2>1 DEF ArrayInv, ArrayPlaces
  <2>3. \A t \in Workers : Rounds0(t)' = Rounds0(t)
    BY <1>3, <1>4, <2>1 DEF Rounds0, Round, Crossed0
  <2>4. ArrayRounds' /\ ArrayCells'
    BY <1>2, <1>4, <2>3 DEF ArrayInv, ArrayRounds, ArrayCells
  <2> QED
    BY <1>2, <2>2, <2>4 DEF ArrayInv
<1>5. ASSUME pc' = pc, Completes(NTHREADS, id, stage0, stage0')
      PROVE  ArrayInv'
  <2>1. Counted(stage0) \subseteq Workers
    BY DEF Counted, ArrayInv, ArrayPlaces
  <2>2. Cardinality(Workers) = NTHREADS
    BY FS_Interval, WorkersSome DEF Workers
  <2>3. Counted(stage0) = Workers
    BY <1>3, <1>5, <2>1, <2>2, CompletesAll, WorkersSome
  <2>4. /\ \A t \in Workers : stage0[t] \in Arriving /\ stage0'[t] \in Leaving
        /\ \A t \in Threads \ Workers : stage0'[t] = stage0[t]
    BY <1>5, <2>3 DEF Completes
  <2>5. ArrayPlaces'
    BY <1>2, <1>5, <2>4 DEF ArrayInv, ArrayPlaces, Arriving
  <2>6. \A t \in Workers : Rounds0(t)' = Rounds0(t) + 1
    BY <1>5, <2>4 DEF Rounds0, Round, Crossed0, Arriving, Leaving
  <2>7. ArrayRounds' /\ ArrayCells'
    BY <1>2, <1>5, <2>6 DEF ArrayInv, ArrayRounds, ArrayCells
  <2> QED
    BY <1>2, <2>5, <2>7 DEF ArrayInv
<1>6. ASSUME Leaves(id, stage0, stage0'), Advance(id)
      PROVE  ArrayInv'
  <2>1. /\ stage0[id] \in Leaving /\ stage0'[id] = "outside"
        /\ \A t \in Threads : t # id => stage0'[t] = stage0[t]
    BY <1>6 DEF Leaves, Alone
  <2>2. /\ pc' = [pc EXCEPT ![id] = @ + 1]
        /\ pc'[id] = pc[id] + 1 /\ \A t \in Threads : t # id => pc'[t] = pc[t]
    BY <1>3, <1>6 DEF Advance
  <2>3. ArrayPlaces'
    BY <1>2, <1>3, <2>1, <2>2, WorkersSome DEF ArrayInv, ArrayPlaces
  <2>4. Crossed0(id)' = Crossed0(id) + 1
    BY <1>2, <2>2 DEF Crossed0
  <2>5. Rounds0(id)' = Rounds0(id)
    BY <2>1, <2>4 DEF Rounds0, Round, Leaving
  <2>6. \A t \in Workers : t # id => Rounds0(t)' = Rounds0(t)
    BY <1>3, <2>1, <2>2 DEF Rounds0, Crossed0
  <2>7. ArrayRounds'
    BY <2>5, <2>6 DEF ArrayInv, ArrayRounds
  <2>8. ASSUME NEW t \in Threads
        PROVE  sum'[t] = IF pc'[t] = 1 THEN 0
                         ELSE IF pc'[t] <= (IF t = 0 THEN 6 ELSE 4) THEN 1 ELSE 11
    <3>1. sum[t] = IF pc[t] = 1 THEN 0
                   ELSE IF pc[t] <= (IF t = 0 THEN 6 ELSE 4) THEN 1 ELSE 11
      BY DEF ArrayInv, ArrayCells
    <3> QED
      BY <1>2, <2>2, <3>1
  <2>9. \/ pc'[0] = pc[0]
        \/ pc[0] = 2 /\ pc'[0] = 3
        \/ pc[0] = 5 /\ pc'[0] = 6
        \/ pc[0] = 7 /\ pc'[0] = 8
    BY <1>2, <2>2, WorkersSome
  <2>10. ArrayCells'
    BY <1>2, <2>8, <2>9 DEF ArrayInv, ArrayCells
  <2> QED
    BY <1>2, <2>3, <2>7, <2>10 DEF ArrayInv
<1> QED
  BY <1>1, <1>4, <1>5, <1>6 DEF CallStep

\* No other statement occurs in the array test.
LEMMA ArrayNext ==
  ASSUME AllBooks, ArrayInv, [Next]_vars
  PROVE  ArrayInv'
<1>1. CASE Exit \/ UNCHANGED vars
  <2>1. UNCHANGED <<test, stage0, stage1, stage2, stage3, pc, sum, total, i>>
    BY <1>1 DEF Exit, vars, bar0Vars, pairVars, bar1Vars, bar2Vars, bar3Vars
  <2> QED
    BY <2>1 DEF ArrayInv, ArrayPlaces, ArrayRounds, Rounds0, Crossed0, ArrayCells
<1>2. ASSUME NEW id \in Threads, Step(id)
      PROVE  ArrayInv'
  <2>1. ~SumQuarter(id) /\ ~PrintLine(id) /\ ~Wait1(id) /\ ~Wait2(id) /\ ~Wait3(id)
    BY ArrayAt DEF SumQuarter, PrintLine, Wait1, Wait2, Wait3
  <2>2. ~Add(id)
    BY ArrayAt DEF Add, Source
  <2> QED
    BY <1>2, <2>1, <2>2, ArrayWriteCell, ArrayClear, ArrayReadCell, ArrayWait DEF Step
<1> QED
  BY <1>1, <1>2 DEF Next


-----------------------------------------------------------------------------
(* The steps of the sum test                                               *)

LEMMA SumsProgram ==
  ASSUME test = "sums"
  PROVE  /\ Program[0] = <<"quarter", "wait1", "add1", "wait3", "add2">>
         /\ Program[1] = <<"quarter", "wait1">>
         /\ Program[2] = <<"quarter", "wait2", "add3", "wait3">>
         /\ Program[3] = <<"quarter", "wait2">>
         /\ \A id \in Threads : id > 3 => Program[id] = <<>>
<1>1. 0..3 \subseteq Threads
  BY ThreadsFinite
<1>2. \A id \in 0..3 : Program[id] = SumTree[id + 1]
  BY <1>1 DEF Program
<1>3. \A id \in Threads : id > 3 => Program[id] = <<>>
  BY DEF Program
<1> QED
  BY <1>2, <1>3 DEF SumTree

\* Which one a thread is at tells its pc.
LEMMA SumsAt ==
  ASSUME test = "sums", SumsPlaces, NEW id \in Threads
  PROVE  /\ At(id, "quarter") <=> id \in 0..3 /\ pc[id] = 1
         /\ At(id, "wait1") <=> id \in {0, 1} /\ pc[id] = 2
         /\ At(id, "wait2") <=> id \in {2, 3} /\ pc[id] = 2
         /\ At(id, "wait3") <=> id \in {0, 2} /\ pc[id] = 4
         /\ At(id, "add1") <=> id = 0 /\ pc[id] = 3
         /\ At(id, "add2") <=> id = 0 /\ pc[id] = 5
         /\ At(id, "add3") <=> id = 2 /\ pc[id] = 3
         /\ \A x \in {"increment", "add10", "clear", "read", "print", "wait0"} : ~At(id, x)
<1>1. /\ pc \in [Threads -> 1..6] /\ pc[1] <= 3 /\ pc[2] <= 5 /\ pc[3] <= 3
      /\ id > 3 => pc[id] = 1
  BY DEF SumsPlaces
<1>2. CASE id = 0
  <2>1. Program[0] = <<"quarter", "wait1", "add1", "wait3", "add2">>
    BY SumsProgram
  <2>2. Len(Program[0]) = 5
    BY <2>1
  <2>3. pc[0] = 1 \/ pc[0] = 2 \/ pc[0] = 3 \/ pc[0] = 4 \/ pc[0] = 5 \/ pc[0] = 6
    BY <1>1, <1>2
  <2> QED
    BY <1>2, <2>1, <2>2, <2>3 DEF At
<1>3. CASE id = 1
  <2>1. Program[1] = <<"quarter", "wait1">>
    BY SumsProgram
  <2>2. Len(Program[1]) = 2
    BY <2>1
  <2>3. pc[1] = 1 \/ pc[1] = 2 \/ pc[1] = 3
    BY <1>1, <1>3
  <2> QED
    BY <1>3, <2>1, <2>2, <2>3 DEF At
<1>4. CASE id = 2
  <2>1. Program[2] = <<"quarter", "wait2", "add3", "wait3">>
    BY SumsProgram
  <2>2. Len(Program[2]) = 4
    BY <2>1
  <2>3. pc[2] = 1 \/ pc[2] = 2 \/ pc[2] = 3 \/ pc[2] = 4 \/ pc[2] = 5
    BY <1>1, <1>4
  <2> QED
    BY <1>4, <2>1, <2>2, <2>3 DEF At
<1>5. CASE id = 3
  <2>1. Program[3] = <<"quarter", "wait2">>
    BY SumsProgram
  <2>2. Len(Program[3]) = 2
    BY <2>1
  <2>3. pc[3] = 1 \/ pc[3] = 2 \/ pc[3] = 3
    BY <1>1, <1>5
  <2> QED
    BY <1>5, <2>1, <2>2, <2>3 DEF At
<1>6. CASE id \notin 0..3
  <2>1. id > 3
    BY <1>6 DEF Threads
  <2>2. \A x : ~At(id, x)
    BY <1>1, <2>1, SumsProgram, Idle
  <2> QED
    BY <1>6, <2>1, <2>2
<1> QED
  BY <1>2, <1>3, <1>4, <1>5, <1>6

\* A thread that goes on outside its calls is in the same rounds as before.
LEMMA SumsOutside ==
  ASSUME test = "sums", SumsPlaces, NEW id \in 0..3, pc[id] \in {1, 3, 5},
         id \in {1, 3} => pc[id] < 3, id = 2 => pc[id] < 5,
         Advance(id), UNCHANGED <<stage0, stage1, stage2, stage3>>
  PROVE  SumsPlaces' /\ (SumsRounds => SumsRounds')
<1>1. pc \in [Threads -> 1..6] /\ 0..3 \subseteq Threads
  BY ThreadsFinite DEF SumsPlaces
<1>2. pc'[id] = pc[id] + 1 /\ \A t \in Threads : t # id => pc'[t] = pc[t]
  BY <1>1 DEF Advance
<1>3. pc' \in [Threads -> 1..6]
  BY <1>1 DEF Advance
<1>4. SumsPlaces'
  BY <1>1, <1>2, <1>3 DEF SumsPlaces
<1>5. \A t \in 0..3 : (pc'[t] > 2 <=> pc[t] > 2) /\ (pc'[t] > 4 <=> pc[t] > 4)
  BY <1>1, <1>2
<1>6. ASSUME NEW t \in 0..3
      PROVE  Rounds1(t)' = Rounds1(t) /\ Rounds2(t)' = Rounds2(t) /\ Rounds3(t)' = Rounds3(t)
  <2>1. (pc'[t] > 2 <=> pc[t] > 2) /\ (pc'[t] > 4 <=> pc[t] > 4)
    BY <1>5
  <2> QED
    BY <2>1 DEF Rounds1, Rounds2, Rounds3
<1> QED
  BY <1>4, <1>6 DEF SumsRounds


\* The loop over a quarter leaves its sum in the cell of its thread.
LEMMA SumsQuarter ==
  ASSUME SumsInv, NEW id \in Threads, SumQuarter(id)
  PROVE  SumsInv'
<1>1. id \in 0..3 /\ pc[id] = 1
  BY SumsAt DEF SumQuarter, SumsInv
<1>2. /\ pc' = [pc EXCEPT ![id] = @ + 1]
      /\ sum' = [sum EXCEPT ![id] = @ + Quarter[id]]
      /\ UNCHANGED <<test, stage0, stage1, stage2, stage3, total, i>>
  BY DEF SumQuarter, Advance, bar0Vars, pairVars, bar1Vars, bar2Vars, bar3Vars
<1>3. SumsPlaces' /\ SumsRounds'
  <2>1. test = "sums" /\ SumsPlaces /\ SumsRounds
    BY DEF SumsInv
  <2>2. Advance(id) /\ UNCHANGED <<stage0, stage1, stage2, stage3>>
    BY <1>1, <1>2 DEF Advance
  <2>3. /\ id \in 0..3 /\ pc[id] \in {1, 3, 5}
        /\ id \in {1, 3} => pc[id] < 3
        /\ id = 2 => pc[id] < 5
    BY <1>1, <1>2
  <2> QED
    BY <2>1, <2>2, <2>3, SumsOutside
<1>4. /\ sum \in [Threads -> Nat] /\ sum[id] = 0
      /\ pc \in [Threads -> 1..6] /\ 0..3 \subseteq Threads
  BY <1>1, ThreadsFinite DEF SumsInv, SumsPlaces, SumsParts
<1>5. Quarter \in [0..3 -> Nat]
  BY ProgramsAssumption
<1>6. /\ sum' \in [Threads -> Nat]
      /\ sum'[id] = Quarter[id] /\ \A t \in Threads : t # id => sum'[t] = sum[t]
      /\ pc'[id] = 2 /\ \A t \in Threads : t # id => pc'[t] = pc[t]
  BY <1>1, <1>2, <1>4, <1>5
<1>7. SumsParts'
  BY <1>1, <1>2, <1>4, <1>6 DEF SumsInv, SumsParts
<1> QED
  BY <1>2, <1>3, <1>7 DEF SumsInv

\* A thread whose part of a round is complete has found the other one there.
LEMMA SumsMet ==
  ASSUME AllBooks, SumsInv
  PROVE  /\ pc[0] = 3 => pc[1] >= 2
         /\ pc[2] = 3 => pc[3] >= 2
         /\ pc[0] = 5 => pc[2] >= 4
<1>1. pc \in [Threads -> 1..6] /\ 0..3 \subseteq Threads
  BY ThreadsFinite DEF SumsInv, SumsPlaces
<1>2. /\ pc[0] = 3 => stage1[0] = "outside"
      /\ pc[2] = 3 => stage2[2] = "outside"
      /\ pc[0] = 5 => stage3[0] = "outside"
  BY <1>1 DEF SumsInv, SumsPlaces
<1>3. ASSUME pc[0] = 3
      PROVE  pc[1] >= 2
  <2>1. Rounds1(1) = 1
    BY <1>2, <1>3 DEF Rounds1, Round, Leaving, SumsInv, SumsRounds
  <2>2. stage1[1] # "outside" \/ pc[1] > 2
    BY <2>1 DEF Rounds1, Round, Leaving
  <2> QED
    BY <1>1, <2>2 DEF SumsInv, SumsPlaces
<1>4. ASSUME pc[2] = 3
      PROVE  pc[3] >= 2
  <2>1. Rounds2(3) = 1
    BY <1>2, <1>4 DEF Rounds2, Round, Leaving, SumsInv, SumsRounds
  <2>2. stage2[3] # "outside" \/ pc[3] > 2
    BY <2>1 DEF Rounds2, Round, Leaving
  <2> QED
    BY <1>1, <2>2 DEF SumsInv, SumsPlaces
<1>5. ASSUME pc[0] = 5
      PROVE  pc[2] >= 4
  <2>1. Rounds3(2) = 1
    BY <1>2, <1>5 DEF Rounds3, Round, Leaving, SumsInv, SumsRounds
  <2>2. stage3[2] # "outside" \/ pc[2] > 4
    BY <2>1 DEF Rounds3, Round, Leaving
  <2> QED
    BY <1>1, <2>2 DEF SumsInv, SumsPlaces
<1> QED
  BY <1>3, <1>4, <1>5

\* What is added is complete.
LEMMA SumsAdd ==
  ASSUME AllBooks, SumsInv, NEW id \in Threads, Add(id)
  PROVE  SumsInv'
<1>1. PICK add \in DOMAIN Source :
        /\ At(id, add)
        /\ sum' = [sum EXCEPT ![id] = @ + sum[Source[add]]]
        /\ pc' = [pc EXCEPT ![id] = @ + 1]
        /\ UNCHANGED <<test, stage0, stage1, stage2, stage3, total, i>>
  BY DEF Add, Advance, bar0Vars, pairVars, bar1Vars, bar2Vars, bar3Vars
<1>2. \/ id = 0 /\ pc[0] = 3 /\ Source[add] = 1
      \/ id = 0 /\ pc[0] = 5 /\ Source[add] = 2
      \/ id = 2 /\ pc[2] = 3 /\ Source[add] = 3
  BY <1>1, SumsAt DEF Source, SumsInv
<1>3. SumsPlaces' /\ SumsRounds'
  <2>1. test = "sums" /\ SumsPlaces /\ SumsRounds
    BY DEF SumsInv
  <2>2. Advance(id) /\ UNCHANGED <<stage0, stage1, stage2, stage3>>
    BY <1>1, <1>2 DEF Advance
  <2>3. /\ id \in 0..3 /\ pc[id] \in {1, 3, 5}
        /\ id \in {1, 3} => pc[id] < 3
        /\ id = 2 => pc[id] < 5
    BY <1>1, <1>2
  <2> QED
    BY <2>1, <2>2, <2>3, SumsOutside
<1>4. /\ sum \in [Threads -> Nat] /\ pc \in [Threads -> 1..6] /\ 0..3 \subseteq Threads
      /\ Quarter[0] \in Nat /\ Quarter[1] \in Nat /\ Quarter[2] \in Nat /\ Quarter[3] \in Nat
  BY ThreadsFinite, ProgramsAssumption DEF SumsInv, SumsPlaces, SumsParts
<1>5. /\ sum' \in [Threads -> Nat]
      /\ sum'[id] = sum[id] + sum[Source[add]]
      /\ \A t \in Threads : t # id => sum'[t] = sum[t]
      /\ pc'[id] = pc[id] + 1 /\ \A t \in Threads : t # id => pc'[t] = pc[t]
  BY <1>1, <1>2, <1>4
<1>6. CASE id = 0 /\ pc[0] = 3 /\ Source[add] = 1
  <2>1. sum'[0] = Quarter[0] + Quarter[1]
    BY <1>4, <1>5, <1>6, SumsMet DEF SumsInv, SumsParts
  <2> QED
    BY <1>1, <1>3, <1>4, <1>5, <1>6, <2>1 DEF SumsInv, SumsParts
<1>7. CASE id = 0 /\ pc[0] = 5 /\ Source[add] = 2
  <2>1. sum'[0] = Whole
    BY <1>4, <1>5, <1>7, SumsMet DEF SumsInv, SumsParts, Whole
  <2> QED
    BY <1>1, <1>3, <1>4, <1>5, <1>7, <2>1 DEF SumsInv, SumsParts
<1>8. CASE id = 2 /\ pc[2] = 3 /\ Source[add] = 3
  <2>1. sum'[2] = Quarter[2] + Quarter[3]
    BY <1>4, <1>5, <1>8, SumsMet DEF SumsInv, SumsParts
  <2> QED
    BY <1>1, <1>3, <1>4, <1>5, <1>8, <2>1 DEF SumsInv, SumsParts
<1> QED
  BY <1>2, <1>6, <1>7, <1>8


\* Where only two threads may have arrived, a round is complete with these two.
LEMMA PairCompletes ==
  ASSUME NEW a \in Threads, NEW b \in Threads, a # b, NEW t, NEW s, NEW s2,
         Completes(2, t, s, s2),
         \A u \in Threads : s[u] \in Arriving => u \in {a, b}
  PROVE  /\ s[a] \in Arriving /\ s2[a] \in Leaving
         /\ s[b] \in Arriving /\ s2[b] \in Leaving
         /\ \A u \in Threads : u \notin {a, b} => s2[u] = s[u]
<1>1. Cardinality({a}) = 1 /\ IsFiniteSet({a})
  BY FS_Singleton
<1>2. {a, b} = {a} \cup {b} /\ b \notin {a}
  OBVIOUS
<1>3. Cardinality({a, b}) = 2
  BY <1>1, <1>2, FS_AddElement
<1>4. Counted(s) \subseteq {a, b}
  BY DEF Counted, Arriving
<1>5. Counted(s) = {a, b}
  BY <1>3, <1>4, CompletesAll
<1> QED
  BY <1>5 DEF Completes

LEMMA SumsWait1 ==
  ASSUME AllBooks, SumsInv, NEW id \in Threads, Wait1(id)
  PROVE  SumsInv'
<1>1. CallStep(2, id, stage1, stage1')
  BY Wait1Step
<1>2. /\ id \in {0, 1} /\ pc[id] = 2
      /\ UNCHANGED <<test, stage0, stage2, stage3, sum, total, i>>
  BY SumsAt DEF Wait1, SumsInv, bar0Vars, bar1Vars, bar2Vars, bar3Vars
<1>3. /\ pc \in [Threads -> 1..6] /\ stage1 \in [Threads -> bar0!Stages]
      /\ 0..3 \subseteq Threads
  BY ThreadsFinite DEF AllBooks, Books, SumsInv, SumsPlaces
<1>4. Rounds1(0) = Rounds1(1)
  BY DEF SumsInv, SumsRounds
<1>5. ASSUME pc' = pc, Enters(id, stage1, stage1') \/ Stays(id, stage1, stage1')
      PROVE  SumsInv'
  <2>1. /\ \A t \in Threads : t # id => stage1'[t] = stage1[t]
        /\ stage1'[id] \in Leaving <=> stage1[id] \in Leaving
    BY <1>5 DEF Enters, Stays, Alone, Arriving, Leaving
  <2>2. SumsPlaces'
    BY <1>2, <1>3, <1>5, <2>1 DEF SumsInv, SumsPlaces
  <2>3. \A t \in {0, 1} : Rounds1(t)' = Rounds1(t)
    BY <1>3, <1>5, <2>1 DEF Rounds1, Round
  <2>4. SumsRounds' /\ SumsParts'
    BY <1>2, <1>5, <2>3 DEF SumsInv, SumsRounds, SumsParts, Rounds2, Rounds3
  <2> QED
    BY <1>2, <2>2, <2>4 DEF SumsInv
<1>6. ASSUME pc' = pc, Completes(2, id, stage1, stage1')
      PROVE  SumsInv'
  <2>1. \A u \in Threads : stage1[u] \in Arriving => u \in {0, 1}
    BY DEF Arriving, SumsInv, SumsPlaces
  <2>2. /\ stage1[0] \in Arriving /\ stage1'[0] \in Leaving
        /\ stage1[1] \in Arriving /\ stage1'[1] \in Leaving
        /\ \A u \in Threads : u \notin {0, 1} => stage1'[u] = stage1[u]
    BY <1>3, <1>6, <2>1, PairCompletes
  <2>3. SumsPlaces'
    BY <1>2, <1>3, <1>6, <2>2 DEF SumsInv, SumsPlaces, Arriving
  <2>4. \A t \in {0, 1} : Rounds1(t)' = Rounds1(t) + 1
    BY <1>6, <2>2 DEF Rounds1, Round, Arriving, Leaving
  <2>5. SumsRounds' /\ SumsParts'
    BY <1>2, <1>4, <1>6, <2>4 DEF SumsInv, SumsRounds, SumsParts, Rounds2, Rounds3
  <2> QED
    BY <1>2, <2>3, <2>5 DEF SumsInv
<1>7. ASSUME Leaves(id, stage1, stage1'), Advance(id)
      PROVE  SumsInv'
  <2>1. /\ stage1[id] \in Leaving /\ stage1'[id] = "outside"
        /\ \A t \in Threads : t # id => stage1'[t] = stage1[t]
    BY <1>7 DEF Leaves, Alone
  <2>2. /\ pc' = [pc EXCEPT ![id] = @ + 1] /\ pc' \in [Threads -> 1..6]
        /\ pc'[id] = 2 + 1 /\ \A t \in Threads : t # id => pc'[t] = pc[t]
    BY <1>2, <1>3, <1>7 DEF Advance
  <2>3. \A t \in Threads : stage2[t] # "outside" \/ stage3[t] # "outside" => t # id
    BY <1>2, <2>1 DEF SumsInv, SumsPlaces, Leaving
  <2>4. SumsPlaces'
    BY <1>2, <1>3, <2>1, <2>2, <2>3 DEF SumsInv, SumsPlaces
  <2>5. \A t \in {0, 1} : Rounds1(t)' = Rounds1(t)
    BY <1>2, <1>3, <2>1, <2>2 DEF Rounds1, Round, Leaving
  <2>6. /\ \A t \in {2, 3} : Rounds2(t)' = Rounds2(t)
        /\ \A t \in {0, 2} : Rounds3(t)' = Rounds3(t)
    BY <1>2, <1>3, <2>1, <2>2 DEF Rounds2, Rounds3
  <2>7. SumsRounds'
    BY <1>4, <2>5, <2>6 DEF SumsInv, SumsRounds
  <2>8. SumsParts'
    BY <1>2, <1>3, <2>2 DEF SumsInv, SumsParts
  <2> QED
    BY <1>2, <2>4, <2>7, <2>8 DEF SumsInv
<1> QED
  BY <1>1, <1>5, <1>6, <1>7 DEF CallStep

LEMMA SumsWait2 ==
  ASSUME AllBooks, SumsInv, NEW id \in Threads, Wait2(id)
  PROVE  SumsInv'
<1>1. CallStep(2, id, stage2, stage2')
  BY Wait2Step
<1>2. /\ id \in {2, 3} /\ pc[id] = 2
      /\ UNCHANGED <<test, stage0, stage1, stage3, sum, total, i>>
  BY SumsAt DEF Wait2, SumsInv, bar0Vars, bar1Vars, bar2Vars, bar3Vars
<1>3. /\ pc \in [Threads -> 1..6] /\ stage2 \in [Threads -> bar0!Stages]
      /\ 0..3 \subseteq Threads
  BY ThreadsFinite DEF AllBooks, Books, SumsInv, SumsPlaces
<1>4. Rounds2(2) = Rounds2(3)
  BY DEF SumsInv, SumsRounds
<1>5. ASSUME pc' = pc, Enters(id, stage2, stage2') \/ Stays(id, stage2, stage2')
      PROVE  SumsInv'
  <2>1. /\ \A t \in Threads : t # id => stage2'[t] = stage2[t]
        /\ stage2'[id] \in Leaving <=> stage2[id] \in Leaving
    BY <1>5 DEF Enters, Stays, Alone, Arriving, Leaving
  <2>2. SumsPlaces'
    BY <1>2, <1>3, <1>5, <2>1 DEF SumsInv, SumsPlaces
  <2>3. \A t \in {2, 3} : Rounds2(t)' = Rounds2(t)
    BY <1>3, <1>5, <2>1 DEF Rounds2, Round
  <2>4. SumsRounds' /\ SumsParts'
    BY <1>2, <1>5, <2>3 DEF SumsInv, SumsRounds, SumsParts, Rounds1, Rounds3
  <2> QED
    BY <1>2, <2>2, <2>4 DEF SumsInv
<1>6. ASSUME pc' = pc, Completes(2, id, stage2, stage2')
      PROVE  SumsInv'
  <2>1. \A u \in Threads : stage2[u] \in Arriving => u \in {2, 3}
    BY DEF Arriving, SumsInv, SumsPlaces
  <2>2. /\ stage2[2] \in Arriving /\ stage2'[2] \in Leaving
        /\ stage2[3] \in Arriving /\ stage2'[3] \in Leaving
        /\ \A u \in Threads : u \notin {2, 3} => stage2'[u] = stage2[u]
    BY <1>3, <1>6, <2>1, PairCompletes
  <2>3. SumsPlaces'
    BY <1>2, <1>3, <1>6, <2>2 DEF SumsInv, SumsPlaces, Arriving
  <2>4. \A t \in {2, 3} : Rounds2(t)' = Rounds2(t) + 1
    BY <1>6, <2>2 DEF Rounds2, Round, Arriving, Leaving
  <2>5. SumsRounds' /\ SumsParts'
    BY <1>2, <1>4, <1>6, <2>4 DEF SumsInv, SumsRounds, SumsParts, Rounds1, Rounds3
  <2> QED
    BY <1>2, <2>3, <2>5 DEF SumsInv
<1>7. ASSUME Leaves(id, stage2, stage2'), Advance(id)
      PROVE  SumsInv'
  <2>1. /\ stage2[id] \in Leaving /\ stage2'[id] = "outside"
        /\ \A t \in Threads : t # id => stage2'[t] = stage2[t]
    BY <1>7 DEF Leaves, Alone
  <2>2. /\ pc' = [pc EXCEPT ![id] = @ + 1] /\ pc' \in [Threads -> 1..6]
        /\ pc'[id] = 2 + 1 /\ \A t \in Threads : t # id => pc'[t] = pc[t]
    BY <1>2, <1>3, <1>7 DEF Advance
  <2>3. \A t \in Threads : stage1[t] # "outside" \/ stage3[t] # "outside" => t # id
    BY <1>2, <2>1 DEF SumsInv, SumsPlaces, Leaving
  <2>4. SumsPlaces'
    BY <1>2, <1>3, <2>1, <2>2, <2>3 DEF SumsInv, SumsPlaces
  <2>5. \A t \in {2, 3} : Rounds2(t)' = Rounds2(t)
    BY <1>2, <1>3, <2>1, <2>2 DEF Rounds2, Round, Leaving
  <2>6. /\ \A t \in {0, 1} : Rounds1(t)' = Rounds1(t)
        /\ \A t \in {0, 2} : Rounds3(t)' = Rounds3(t)
    BY <1>2, <1>3, <2>1, <2>2 DEF Rounds1, Rounds3
  <2>7. SumsRounds'
    BY <1>4, <2>5, <2>6 DEF SumsInv, SumsRounds
  <2>8. SumsParts'
    BY <1>2, <1>3, <2>2 DEF SumsInv, SumsParts
  <2> QED
    BY <1>2, <2>4, <2>7, <2>8 DEF SumsInv
<1> QED
  BY <1>1, <1>5, <1>6, <1>7 DEF CallStep

LEMMA SumsWait3 ==
  ASSUME AllBooks, SumsInv, NEW id \in Threads, Wait3(id)
  PROVE  SumsInv'
<1>1. CallStep(2, id, stage3, stage3')
  BY Wait3Step
<1>2. /\ id \in {0, 2} /\ pc[id] = 4
      /\ UNCHANGED <<test, stage0, stage1, stage2, sum, total, i>>
  BY SumsAt DEF Wait3, SumsInv, bar0Vars, bar1Vars, bar2Vars, bar3Vars
<1>3. /\ pc \in [Threads -> 1..6] /\ stage3 \in [Threads -> bar0!Stages]
      /\ 0..3 \subseteq Threads
  BY ThreadsFinite DEF AllBooks, Books, SumsInv, SumsPlaces
<1>4. Rounds3(0) = Rounds3(2)
  BY DEF SumsInv, SumsRounds
<1>5. ASSUME pc' = pc, Enters(id, stage3, stage3') \/ Stays(id, stage3, stage3')
      PROVE  SumsInv'
  <2>1. /\ \A t \in Threads : t # id => stage3'[t] = stage3[t]
        /\ stage3'[id] \in Leaving <=> stage3[id] \in Leaving
    BY <1>5 DEF Enters, Stays, Alone, Arriving, Leaving
  <2>2. SumsPlaces'
    BY <1>2, <1>3, <1>5, <2>1 DEF SumsInv, SumsPlaces
  <2>3. \A t \in {0, 2} : Rounds3(t)' = Rounds3(t)
    BY <1>3, <1>5, <2>1 DEF Rounds3, Round
  <2>4. SumsRounds' /\ SumsParts'
    BY <1>2, <1>5, <2>3 DEF SumsInv, SumsRounds, SumsParts, Rounds1, Rounds2
  <2> QED
    BY <1>2, <2>2, <2>4 DEF SumsInv
<1>6. ASSUME pc' = pc, Completes(2, id, stage3, stage3')
      PROVE  SumsInv'
  <2>1. \A u \in Threads : stage3[u] \in Arriving => u \in {0, 2}
    BY DEF Arriving, SumsInv, SumsPlaces
  <2>2. /\ stage3[0] \in Arriving /\ stage3'[0] \in Leaving
        /\ stage3[2] \in Arriving /\ stage3'[2] \in Leaving
        /\ \A u \in Threads : u \notin {0, 2} => stage3'[u] = stage3[u]
    BY <1>3, <1>6, <2>1, PairCompletes
  <2>3. SumsPlaces'
    BY <1>2, <1>3, <1>6, <2>2 DEF SumsInv, SumsPlaces, Arriving
  <2>4. \A t \in {0, 2} : Rounds3(t)' = Rounds3(t) + 1
    BY <1>6, <2>2 DEF Rounds3, Round, Arriving, Leaving
  <2>5. SumsRounds' /\ SumsParts'
    BY <1>2, <1>4, <1>6, <2>4 DEF SumsInv, SumsRounds, SumsParts, Rounds1, Rounds2
  <2> QED
    BY <1>2, <2>3, <2>5 DEF SumsInv
<1>7. ASSUME Leaves(id, stage3, stage3'), Advance(id)
      PROVE  SumsInv'
  <2>1. /\ stage3[id] \in Leaving /\ stage3'[id] = "outside"
        /\ \A t \in Threads : t # id => stage3'[t] = stage3[t]
    BY <1>7 DEF Leaves, Alone
  <2>2. /\ pc' = [pc EXCEPT ![id] = @ + 1] /\ pc' \in [Threads -> 1..6]
        /\ pc'[id] = 4 + 1 /\ \A t \in Threads : t # id => pc'[t] = pc[t]
    BY <1>2, <1>3, <1>7 DEF Advance
  <2>3. \A t \in Threads : stage1[t] # "outside" \/ stage2[t] # "outside" => t # id
    BY <1>2, <2>1 DEF SumsInv, SumsPlaces, Leaving
  <2>4. SumsPlaces'
    BY <1>2, <1>3, <2>1, <2>2, <2>3 DEF SumsInv, SumsPlaces
  <2>5. \A t \in {0, 2} : Rounds3(t)' = Rounds3(t)
    BY <1>2, <1>3, <2>1, <2>2 DEF Rounds3, Round, Leaving
  <2>6. /\ \A t \in {0, 1} : Rounds1(t)' = Rounds1(t)
        /\ \A t \in {2, 3} : Rounds2(t)' = Rounds2(t)
    BY <1>2, <1>3, <2>1, <2>2 DEF Rounds1, Rounds2
  <2>7. SumsRounds'
    BY <1>4, <2>5, <2>6 DEF SumsInv, SumsRounds
  <2>8. SumsParts'
    BY <1>2, <1>3, <2>2 DEF SumsInv, SumsParts
  <2> QED
    BY <1>2, <2>4, <2>7, <2>8 DEF SumsInv
<1> QED
  BY <1>1, <1>5, <1>6, <1>7 DEF CallStep

LEMMA SumsNext ==
  ASSUME AllBooks, SumsInv, [Next]_vars
  PROVE  SumsInv'
<1>1. CASE Exit \/ UNCHANGED vars
  <2>1. UNCHANGED <<test, stage0, stage1, stage2, stage3, pc, sum, total, i>>
    BY <1>1 DEF Exit, vars, bar0Vars, pairVars, bar1Vars, bar2Vars, bar3Vars
  <2> QED
    BY <2>1 DEF SumsInv, SumsPlaces, SumsRounds, Rounds1, Rounds2, Rounds3, SumsParts
<1>2. ASSUME NEW id \in Threads, Step(id)
      PROVE  SumsInv'
  <2>1. ~WriteCell(id) /\ ~Clear(id) /\ ~ReadCell(id) /\ ~PrintLine(id) /\ ~Wait0(id)
    BY SumsAt DEF WriteCell, Clear, ReadCell, PrintLine, Wait0, SumsInv
  <2> QED
    BY <1>2, <2>1, SumsQuarter, SumsAdd, SumsWait1, SumsWait2, SumsWait3 DEF Step
<1> QED
  BY <1>1, <1>2 DEF Next


-----------------------------------------------------------------------------
(* The steps of the game                                                   *)

\* Remainders and quotients by three of successive numbers.
LEMMA Thirds ==
  ASSUME NEW p \in Nat \ {0}
  PROVE  /\ p % 3 \in {0, 1, 2}
         /\ (p - 1) % 3 = IF p % 3 = 0 THEN 2 ELSE (p % 3) - 1
         /\ (p + 1) % 3 = IF p % 3 = 2 THEN 0 ELSE (p % 3) + 1
         /\ (p + 1) \div 3 \in Nat /\ (p - 1) \div 3 \in Nat
         /\ (p + 1 + 1) \div 3 = IF p % 3 = 1 THEN ((p + 1) \div 3) + 1 ELSE (p + 1) \div 3
         /\ (p + 1 - 1) \div 3 = IF p % 3 = 0 THEN ((p - 1) \div 3) + 1 ELSE (p - 1) \div 3
<1>1. p % 3 = 0 \/ p % 3 = 1 \/ p % 3 = 2
  OBVIOUS
<1>2. CASE p % 3 = 0
  BY <1>2
<1>3. CASE p % 3 = 1
  BY <1>3
<1>4. CASE p % 3 = 2
  BY <1>4
<1> QED
  BY <1>1, <1>2, <1>3, <1>4

LEMMA Multiple ==
  ASSUME NEW k \in Nat
  PROVE  (3 * k) % 3 = 0 /\ (3 * k + 1) % 3 = 1 /\ (3 * k + 2) % 3 = 2
OBVIOUS

\* The statements of a loop with a body of three.
LEMMA RepeatedThree ==
  ASSUME NEW S, NEW x \in S, NEW y \in S, NEW z \in S
  PROVE  /\ Repeated(<<x, y, z>>) \in Seq(S)
         /\ Len(Repeated(<<x, y, z>>)) = 3 * Loops
         /\ \A k \in 1..(3 * Loops) :
              Repeated(<<x, y, z>>)[k] =
                IF k % 3 = 1 THEN x ELSE IF k % 3 = 2 THEN y ELSE z
<1> DEFINE body == <<x, y, z>>
           R == Repeated(body)
           n == 3 * Loops
<1>1. Len(body) = 3 /\ body[1] = x /\ body[2] = y /\ body[3] = z
  OBVIOUS
<1> HIDE DEF body
<1>2. n \in Nat /\ Loops * 3 = n
  BY ProgramsAssumption
<1>3. R = [k \in 1..(Loops * 3) |-> body[((k - 1) % 3) + 1]]
  BY <1>1 DEF Repeated
<1>4. R = [k \in 1..n |-> body[((k - 1) % 3) + 1]]
  BY <1>2, <1>3
<1> HIDE DEF n, R
<1>5. ASSUME NEW k \in 1..n
      PROVE  R[k] = IF k % 3 = 1 THEN x ELSE IF k % 3 = 2 THEN y ELSE z
  <2>1. R[k] = body[((k - 1) % 3) + 1]
    BY <1>4
  <2> DEFINE m == k % 3
             c == (k - 1) % 3
             b == c + 1
  <2>2. (m = 0 /\ b = 3) \/ (m = 1 /\ b = 1) \/ (m = 2 /\ b = 2)
    <3>1. k \in Nat \ {0}
      BY <1>2
    <3>2. m \in {0, 1, 2} /\ c = IF m = 0 THEN 2 ELSE m - 1
      BY <3>1, Thirds
    <3> HIDE DEF m, c
    <3>3. (m = 0 /\ c = 2) \/ (m = 1 /\ c = 0) \/ (m = 2 /\ c = 1)
      BY <3>2
    <3> QED
      BY <3>3
  <2> HIDE DEF m, c, b
  <2>3. R[k] = IF m = 1 THEN x ELSE IF m = 2 THEN y ELSE z
    BY <1>1, <2>1, <2>2 DEF b, c
  <2> QED
    BY <2>3 DEF m
<1>6. R \in [1..n -> S]
  <2>1. DOMAIN R = 1..n /\ \A k \in 1..n : R[k] \in S
    BY <1>4, <1>5
  <2>2. R = [k \in 1..n |-> R[k]]
    BY <1>4, <2>1
  <2> QED
    BY <2>1, <2>2
<1>7. R \in Seq(S) /\ Len(R) = n
  <2>1. R \in Seq(S)
    BY <1>2, <1>6, SeqDef
  <2> QED
    BY <1>2, <1>6, <2>1, LenProperties
<1> QED
  BY <1>5, <1>7 DEF n, R, body

LEMMA GameProgram ==
  ASSUME test = "game"
  PROVE  /\ Program[0] = <<"wait1">>
         /\ Len(Program[1]) = 3 * Loops + 1
         /\ \A k \in 1..(3 * Loops + 1) :
              Program[1][k] = IF k % 3 = 1 THEN "wait1" ELSE IF k % 3 = 2 THEN "print" ELSE "wait2"
         /\ Len(Program[2]) = 3 * Loops
         /\ \A k \in 1..(3 * Loops) :
              Program[2][k] = IF k % 3 = 1 THEN "wait2" ELSE IF k % 3 = 2 THEN "print" ELSE "wait1"
         /\ \A id \in Threads : id > 2 => Program[id] = <<>>
<1> DEFINE S == {"wait1", "print", "wait2"}
           one == Repeated(<<"wait1", "print", "wait2">>)
           two == Repeated(<<"wait2", "print", "wait1">>)
           last == <<"wait1">>
           n == 3 * Loops
<1>1. n \in Nat /\ (n + 1) % 3 = 1
  BY ProgramsAssumption, Multiple
<1>2. /\ one \in Seq(S) /\ Len(one) = n
      /\ \A k \in 1..n :
           one[k] = IF k % 3 = 1 THEN "wait1" ELSE IF k % 3 = 2 THEN "print" ELSE "wait2"
  <2>1. "wait1" \in S /\ "print" \in S /\ "wait2" \in S
    OBVIOUS
  <2> HIDE DEF S
  <2> QED
    BY <2>1, RepeatedThree
<1>3. /\ Len(two) = n
      /\ \A k \in 1..n :
           two[k] = IF k % 3 = 1 THEN "wait2" ELSE IF k % 3 = 2 THEN "print" ELSE "wait1"
  <2>1. "wait1" \in S /\ "print" \in S /\ "wait2" \in S
    OBVIOUS
  <2> HIDE DEF S
  <2> QED
    BY <2>1, RepeatedThree
<1>4. /\ last \in Seq(S) /\ Len(last) = 1 /\ last[1] = "wait1"
  OBVIOUS
<1>5. /\ Program[0] = last /\ Program[1] = one \o last /\ Program[2] = two
      /\ \A id \in Threads : id > 2 => Program[id] = <<>>
  <2>1. \A id \in Threads : Program[id] = IF id > 3 THEN <<>> ELSE PingPong[id + 1]
    BY DEF Program
  <2>2. /\ PingPong[1] = last /\ PingPong[2] = one \o last /\ PingPong[3] = two
        /\ PingPong[4] = <<>>
    BY DEF PingPong
  <2> HIDE DEF one, two, last
  <2>3. \A id \in Threads : id > 2 => Program[id] = <<>>
    BY <2>1, <2>2 DEF Threads
  <2>4. Program[0] = PingPong[1] /\ Program[1] = PingPong[2] /\ Program[2] = PingPong[3]
    <3>1. 0 \in Threads /\ 1 \in Threads /\ 2 \in Threads
      BY ThreadsFinite
    <3> QED
      BY <2>1, <3>1
  <2> QED
    BY <2>2, <2>3, <2>4
<1> HIDE DEF one, two, last, n, S
<1>6. /\ Len(one \o last) = n + 1
      /\ \A k \in 1..(n + 1) : (one \o last)[k] = IF k <= n THEN one[k] ELSE last[k - n]
  <2>1. /\ Len(one \o last) = Len(one) + Len(last)
        /\ \A k \in 1..(Len(one) + Len(last)) :
             (one \o last)[k] = IF k <= Len(one) THEN one[k] ELSE last[k - Len(one)]
    BY <1>2, <1>4, ConcatProperties, Zenon
  <2> QED
    BY <1>2, <1>4, <2>1
<1>7. ASSUME NEW k \in 1..(n + 1)
      PROVE  Program[1][k] = IF k % 3 = 1 THEN "wait1" ELSE IF k % 3 = 2 THEN "print" ELSE "wait2"
  <2>1. CASE k <= n
    BY <1>1, <1>2, <1>5, <1>6, <2>1
  <2>2. CASE k = n + 1
    BY <1>1, <1>4, <1>5, <1>6, <2>2
  <2> QED
    BY <1>1, <2>1, <2>2
<1> QED
  BY <1>3, <1>5, <1>6, <1>7 DEF n, last


\* Which statement main or a player is at tells its pc.
LEMMA GameAt ==
  ASSUME test = "game", GamePlaces, NEW id \in Threads
  PROVE  /\ At(id, "wait1") <=> \/ id = 0 /\ pc[0] = 1
                                \/ id = 1 /\ pc[1] % 3 = 1
                                \/ id = 2 /\ pc[2] % 3 = 0
         /\ At(id, "wait2") <=> \/ id = 1 /\ pc[1] % 3 = 0
                                \/ id = 2 /\ pc[2] % 3 = 1 /\ pc[2] <= 3 * Loops
         /\ At(id, "print") <=> \/ id = 1 /\ pc[1] % 3 = 2 /\ pc[1] <= 3 * Loops
                                \/ id = 2 /\ pc[2] % 3 = 2
         /\ \A x : At(id, x) => x \in {"wait1", "wait2", "print"}
<1> DEFINE n == 3 * Loops
<1>1. n \in Nat /\ (n + 1) % 3 = 1 /\ (n + 2) % 3 = 2
  BY ProgramsAssumption, Multiple
<1>2. /\ Program[0] = <<"wait1">>
      /\ Len(Program[1]) = n + 1
      /\ \A k \in 1..(n + 1) :
           Program[1][k] = IF k % 3 = 1 THEN "wait1" ELSE IF k % 3 = 2 THEN "print" ELSE "wait2"
      /\ Len(Program[2]) = n
      /\ \A k \in 1..n :
           Program[2][k] = IF k % 3 = 1 THEN "wait2" ELSE IF k % 3 = 2 THEN "print" ELSE "wait1"
      /\ \A u \in Threads : u > 2 => Program[u] = <<>>
  BY GameProgram
<1>3. /\ pc \in [Threads -> 1..(n + 2)] /\ pc[0] <= 2 /\ pc[2] <= n + 1
      /\ 0 \in Threads /\ 1 \in Threads /\ 2 \in Threads /\ Threads \subseteq Nat
  <2>1. Threads \subseteq Nat
    BY DEF Threads
  <2> QED
    BY <2>1, ThreadsFinite DEF GamePlaces
<1> SUFFICES /\ At(id, "wait1") <=> \/ id = 0 /\ pc[0] = 1
                                    \/ id = 1 /\ pc[1] % 3 = 1
                                    \/ id = 2 /\ pc[2] % 3 = 0
             /\ At(id, "wait2") <=> \/ id = 1 /\ pc[1] % 3 = 0
                                    \/ id = 2 /\ pc[2] % 3 = 1 /\ pc[2] <= n
             /\ At(id, "print") <=> \/ id = 1 /\ pc[1] % 3 = 2 /\ pc[1] <= n
                                    \/ id = 2 /\ pc[2] % 3 = 2
             /\ \A x : At(id, x) => x \in {"wait1", "wait2", "print"}
  OBVIOUS
<1> HIDE DEF n
<1>4. CASE id = 0
  <2>1. Len(Program[0]) = 1 /\ Program[0][1] = "wait1"
    BY <1>2
  <2>2. pc[0] = 1 \/ pc[0] = 2
    BY <1>3
  <2> QED
    BY <1>4, <2>1, <2>2 DEF At
<1>5. CASE id = 1
  <2>1. pc[1] \in 1..(n + 2)
    BY <1>3
  <2>2. CASE pc[1] = n + 2
    BY <1>1, <1>2, <1>5, <2>2 DEF At
  <2>3. CASE pc[1] \in 1..(n + 1)
    <3> DEFINE m == pc[1] % 3
    <3>1. m \in {0, 1, 2} /\ (m = 2 => pc[1] <= n)
      <4>1. pc[1] \in Nat \ {0}
        BY <1>1, <2>3
      <4>2. pc[1] = n + 1 => m = 1
        BY <1>1
      <4>3. m \in {0, 1, 2}
        BY <4>1, Thirds
      <4> HIDE DEF m
      <4> QED
        BY <1>1, <2>3, <4>2, <4>3
    <3>2. Program[1][pc[1]] = IF m = 1 THEN "wait1" ELSE IF m = 2 THEN "print" ELSE "wait2"
      BY <1>2, <2>3
    <3>3. pc[1] <= Len(Program[1])
      BY <1>1, <1>2, <2>3
    <3> HIDE DEF m
    <3>4. /\ At(1, "wait1") <=> m = 1
          /\ At(1, "wait2") <=> m = 0
          /\ At(1, "print") <=> m = 2 /\ pc[1] <= n
          /\ \A x : At(1, x) => x \in {"wait1", "wait2", "print"}
      BY <3>1, <3>2, <3>3 DEF At
    <3> QED
      BY <1>5, <3>4 DEF m
  <2> QED
    BY <1>1, <2>1, <2>2, <2>3
<1>6. CASE id = 2
  <2>1. pc[2] \in 1..(n + 1)
    BY <1>1, <1>3
  <2>2. CASE pc[2] = n + 1
    BY <1>1, <1>2, <1>6, <2>2 DEF At
  <2>3. CASE pc[2] \in 1..n
    <3> DEFINE m == pc[2] % 3
    <3>1. m \in {0, 1, 2}
      <4>1. pc[2] \in Nat \ {0}
        BY <1>1, <2>3
      <4> QED
        BY <4>1, Thirds
    <3>2. Program[2][pc[2]] = IF m = 1 THEN "wait2" ELSE IF m = 2 THEN "print" ELSE "wait1"
      BY <1>2, <2>3
    <3>3. pc[2] <= Len(Program[2]) /\ pc[2] <= n
      BY <1>1, <1>2, <2>3
    <3> HIDE DEF m
    <3>4. /\ At(2, "wait1") <=> m = 0
          /\ At(2, "wait2") <=> m = 1 /\ pc[2] <= n
          /\ At(2, "print") <=> m = 2
          /\ \A x : At(2, x) => x \in {"wait1", "wait2", "print"}
      BY <3>1, <3>2, <3>3 DEF At
    <3> QED
      BY <1>6, <3>4 DEF m
  <2> QED
    BY <1>1, <2>1, <2>2, <2>3
<1>7. CASE id > 2
  <2>1. Len(Program[id]) = 0 /\ pc[id] >= 1 /\ pc[id] \in Nat
    BY <1>1, <1>2, <1>3, <1>7
  <2>2. ~(pc[id] <= Len(Program[id]))
    BY <2>1
  <2> QED
    BY <1>7, <2>2 DEF At
<1> QED
  BY <1>3, <1>4, <1>5, <1>6, <1>7

\* Each thread's numbers of rounds are numbers.
LEMMA GameNumbers ==
  ASSUME GamePlaces
  PROVE  Opened \in Nat /\ First1 \in Nat /\ First2 \in Nat /\ Second1 \in Nat /\ Second2 \in Nat
<1>1. pc[0] \in Nat \ {0} /\ pc[1] \in Nat \ {0} /\ pc[2] \in Nat \ {0}
  BY ThreadsFinite, ProgramsAssumption DEF GamePlaces
<1>2. /\ FirstOne(pc[1]) \in Nat /\ SecondOne(pc[1]) \in Nat
      /\ FirstTwo(pc[2]) \in Nat /\ SecondTwo(pc[2]) \in Nat
  BY <1>1, Thirds DEF FirstOne, SecondOne, FirstTwo, SecondTwo
<1> QED
  BY <1>1, <1>2 DEF Opened, First1, First2, Second1, Second2, Round


\* A step that moves nobody in the program and across no round of b1 or b2.
LEMMA GameSame ==
  ASSUME GameInv, pc' = pc, UNCHANGED <<test, sum, total, i>>, GamePlaces',
         \A t \in 0..2 : stage1'[t] \in Leaving <=> stage1[t] \in Leaving,
         \A t \in 1..2 : stage2'[t] \in Leaving <=> stage2[t] \in Leaving,
         First1 = 0 => stage1'[2] = "outside"
  PROVE  GameInv'
<1>1. /\ Opened' = Opened /\ First1' = First1 /\ First2' = First2
      /\ Second1' = Second1 /\ Second2' = Second2
  BY DEF Opened, First1, First2, Second1, Second2, Round
<1> QED
  BY <1>1 DEF GameInv, GameRounds

\* What one step forward does to the returned calls.
LEMMA GameForward ==
  ASSUME NEW p \in Nat \ {0}
  PROVE  /\ FirstOne(p + 1) = IF p % 3 = 1 THEN FirstOne(p) + 1 ELSE FirstOne(p)
         /\ SecondTwo(p + 1) = IF p % 3 = 1 THEN SecondTwo(p) + 1 ELSE SecondTwo(p)
         /\ SecondOne(p + 1) = IF p % 3 = 0 THEN SecondOne(p) + 1 ELSE SecondOne(p)
         /\ FirstTwo(p + 1) = IF p % 3 = 0 THEN FirstTwo(p) + 1 ELSE FirstTwo(p)
BY Thirds DEF FirstOne, SecondOne, FirstTwo, SecondTwo

LEMMA GamePrint ==
  ASSUME AllBooks, GameInv, NEW id \in Threads, PrintLine(id)
  PROVE  GameInv'
<1>1. /\ UNCHANGED <<test, stage0, stage1, stage2, stage3, sum, total, i>>
      /\ pc' = [pc EXCEPT ![id] = @ + 1]
  BY DEF PrintLine, Advance, bar0Vars, pairVars, bar1Vars, bar2Vars, bar3Vars
<1>2. (id = 1 /\ pc[1] % 3 = 2 /\ pc[1] <= 3 * Loops) \/ (id = 2 /\ pc[2] % 3 = 2)
  BY GameAt DEF PrintLine, GameInv
<1>3. /\ pc \in [Threads -> 1..(3 * Loops + 2)] /\ pc[2] <= 3 * Loops + 1
      /\ 0..3 \subseteq Threads /\ Loops \in Nat \ {0}
  BY ThreadsFinite, ProgramsAssumption DEF GameInv, GamePlaces
<1>4. pc[2] % 3 = 2 => pc[2] <= 3 * Loops
  BY <1>3, Multiple
<1>5. /\ pc[id] \in Nat \ {0} /\ pc[id] <= 3 * Loops /\ pc[id] % 3 = 2
      /\ pc'[id] = pc[id] + 1 /\ \A t \in Threads : t # id => pc'[t] = pc[t]
  BY <1>1, <1>2, <1>3, <1>4
<1>6. stage1[id] = "outside" /\ stage2[id] = "outside"
  BY <1>2, <1>5 DEF GameInv, GamePlaces
<1>7. GamePlaces'
  BY <1>1, <1>2, <1>3, <1>5, <1>6 DEF GameInv, GamePlaces
<1>8. /\ FirstOne(pc[id] + 1) = FirstOne(pc[id]) /\ SecondOne(pc[id] + 1) = SecondOne(pc[id])
      /\ FirstTwo(pc[id] + 1) = FirstTwo(pc[id]) /\ SecondTwo(pc[id] + 1) = SecondTwo(pc[id])
  BY <1>5, GameForward
<1>9. /\ Opened' = Opened /\ First1' = First1 /\ First2' = First2
      /\ Second1' = Second1 /\ Second2' = Second2
  BY <1>1, <1>2, <1>3, <1>5, <1>8 DEF Opened, First1, First2, Second1, Second2
<1> QED
  BY <1>1, <1>7, <1>9 DEF GameInv, GameRounds

\* Before the first round of b1 is complete, thread 2 is still in its first
\* call, of b2.
LEMMA GameFirst ==
  ASSUME GameInv, First1 = 0
  PROVE  pc[2] % 3 # 0
<1>1. SUFFICES ASSUME pc[2] % 3 = 0
               PROVE  FALSE
  OBVIOUS
<1>2. pc[1] \in Nat \ {0} /\ pc[2] \in Nat \ {0}
  BY ThreadsFinite, ProgramsAssumption DEF GameInv, GamePlaces
<1>3. SecondTwo(pc[2]) >= 1 /\ SecondTwo(pc[2]) \in Nat
  BY <1>1, <1>2 DEF SecondTwo
<1>4. Second2 >= 1 /\ Second2 \in Nat
  BY <1>3 DEF Second2, Round
<1>5. Second1 >= 1
  BY <1>4 DEF GameInv, GameRounds
<1>6. SecondOne(pc[1]) >= 1 \/ pc[1] % 3 = 0
  BY <1>5 DEF Second1, Round, Leaving, GameInv, GamePlaces
<1>7. FirstOne(pc[1]) >= 1 /\ FirstOne(pc[1]) \in Nat
  BY <1>2, <1>6 DEF FirstOne, SecondOne
<1>8. First1 >= 1
  BY <1>7 DEF First1, Round
<1> QED
  BY <1>8


LEMMA GameWait1 ==
  ASSUME AllBooks, GameInv, NEW id \in Threads, Wait1(id)
  PROVE  GameInv'
<1>1. CallStep(2, id, stage1, stage1')
  BY Wait1Step
<1>2. UNCHANGED <<test, stage0, stage2, stage3, sum, total, i>>
  BY DEF Wait1, bar0Vars, bar1Vars, bar2Vars, bar3Vars
<1>3. \/ id = 0 /\ pc[0] = 1
      \/ id = 1 /\ pc[1] % 3 = 1
      \/ id = 2 /\ pc[2] % 3 = 0
  BY GameAt DEF Wait1, GameInv
<1>4. /\ pc \in [Threads -> 1..(3 * Loops + 2)] /\ stage1 \in [Threads -> bar0!Stages]
      /\ 0..3 \subseteq Threads /\ Loops \in Nat \ {0}
  BY ThreadsFinite, ProgramsAssumption DEF AllBooks, Books, GameInv, GamePlaces
<1>5. First1 = 0 => stage1[2] = "outside" /\ (id = 2 => FALSE)
  BY <1>3, GameFirst DEF GameInv, GameRounds
<1>6. ASSUME pc' = pc, Enters(id, stage1, stage1') \/ Stays(id, stage1, stage1')
      PROVE  GameInv'
  <2>1. /\ \A t \in Threads : t # id => stage1'[t] = stage1[t]
        /\ stage1'[id] \in Leaving <=> stage1[id] \in Leaving
    BY <1>6 DEF Enters, Stays, Alone, Arriving, Leaving
  <2>2. GamePlaces'
    BY <1>2, <1>3, <1>4, <1>6, <2>1 DEF GameInv, GamePlaces
  <2>3. First1 = 0 => stage1'[2] = "outside"
    BY <1>4, <1>5, <2>1
  <2> QED
    BY <1>2, <1>4, <1>6, <2>1, <2>2, <2>3, GameSame
<1>7. ASSUME pc' = pc, Completes(2, id, stage1, stage1')
      PROVE  GameInv'
  <2>1. First1 \in Nat
    BY GameNumbers DEF GameInv
  <2>2. CASE First1 = 0
    <3>1. \A u \in Threads : stage1[u] \in Arriving => u \in {0, 1}
      BY <1>5, <2>2 DEF Arriving, GameInv, GamePlaces
    <3>2. /\ stage1[0] \in Arriving /\ stage1'[0] \in Leaving
          /\ stage1[1] \in Arriving /\ stage1'[1] \in Leaving
          /\ \A u \in Threads : u \notin {0, 1} => stage1'[u] = stage1[u]
      BY <1>4, <1>7, <3>1, PairCompletes
    <3>3. GamePlaces'
      BY <1>2, <1>4, <1>7, <3>2 DEF GameInv, GamePlaces, Arriving
    <3>4. First1' = First1 + 1 /\ Opened' = Opened + 1
      BY <1>7, <3>2 DEF First1, Opened, Round, Arriving, Leaving
    <3>5. First2' = First2 /\ Second1' = Second1 /\ Second2' = Second2
      BY <1>2, <1>4, <1>7, <3>2 DEF First2, Second1, Second2
    <3>6. GameRounds'
      BY <2>2, <3>4, <3>5 DEF GameInv, GameRounds
    <3> QED
      BY <1>2, <3>3, <3>6 DEF GameInv
  <2>3. CASE First1 > 0
    <3>1. stage1[0] \notin Arriving
      <4>1. Opened = 1
        BY <2>3 DEF GameInv, GameRounds
      <4>2. stage1[0] \in Arriving => pc[0] = 1 /\ stage1[0] \notin Leaving
        BY DEF GameInv, GamePlaces, Arriving, Leaving
      <4> QED
        BY <4>1, <4>2 DEF Opened, Round
    <3>2. \A u \in Threads : stage1[u] \in Arriving => u \in {1, 2}
      BY <3>1 DEF Arriving, GameInv, GamePlaces
    <3>3. /\ stage1[1] \in Arriving /\ stage1'[1] \in Leaving
          /\ stage1[2] \in Arriving /\ stage1'[2] \in Leaving
          /\ \A u \in Threads : u \notin {1, 2} => stage1'[u] = stage1[u]
      BY <1>4, <1>7, <3>2, PairCompletes
    <3>4. GamePlaces'
      BY <1>2, <1>4, <1>7, <3>3 DEF GameInv, GamePlaces, Arriving
    <3>5. First1' = First1 + 1 /\ First2' = First2 + 1
      BY <1>7, <3>3 DEF First1, First2, Round, Arriving, Leaving
    <3>6. Opened' = Opened /\ Second1' = Second1 /\ Second2' = Second2
      BY <1>2, <1>4, <1>7, <3>3 DEF Opened, Second1, Second2
    <3>7. GameRounds'
      BY <2>1, <2>3, <3>5, <3>6 DEF GameInv, GameRounds
    <3> QED
      BY <1>2, <3>4, <3>7 DEF GameInv
  <2> QED
    BY <2>1, <2>2, <2>3
<1>8. ASSUME Leaves(id, stage1, stage1'), Advance(id)
      PROVE  GameInv'
  <2>1. /\ stage1[id] \in Leaving /\ stage1'[id] = "outside"
        /\ \A t \in Threads : t # id => stage1'[t] = stage1[t]
    BY <1>8 DEF Leaves, Alone
  <2>2. /\ pc[id] \in Nat \ {0} /\ pc'[id] = pc[id] + 1
        /\ \A t \in Threads : t # id => pc'[t] = pc[t]
    BY <1>4, <1>8 DEF Advance
  <2>3. /\ pc[2] <= 3 * Loops + 1
        /\ (3 * Loops + 2) % 3 = 2 /\ (3 * Loops + 1) % 3 = 1
    BY <1>4, Multiple DEF GameInv, GamePlaces
  <2>4. /\ pc[id] + 1 <= 3 * Loops + 2
        /\ id = 2 => pc[id] + 1 <= 3 * Loops + 1
        /\ id = 0 => pc[id] + 1 = 2
    BY <1>3, <1>4, <2>3
  <2>5. pc' \in [Threads -> 1..(3 * Loops + 2)]
    BY <1>4, <1>8, <2>2, <2>4 DEF Advance
  <2>6. stage2[id] = "outside"
    BY <1>3 DEF GameInv, GamePlaces
  <2>7. GamePlaces'
    BY <1>2, <1>3, <1>4, <2>1, <2>2, <2>4, <2>5, <2>6 DEF GameInv, GamePlaces
  <2>8. /\ FirstOne(pc[id] + 1) = IF pc[id] % 3 = 1 THEN FirstOne(pc[id]) + 1 ELSE FirstOne(pc[id])
        /\ SecondTwo(pc[id] + 1) = IF pc[id] % 3 = 1 THEN SecondTwo(pc[id]) + 1 ELSE SecondTwo(pc[id])
        /\ SecondOne(pc[id] + 1) = IF pc[id] % 3 = 0 THEN SecondOne(pc[id]) + 1 ELSE SecondOne(pc[id])
        /\ FirstTwo(pc[id] + 1) = IF pc[id] % 3 = 0 THEN FirstTwo(pc[id]) + 1 ELSE FirstTwo(pc[id])
    BY <2>2, GameForward
  <2>9. Opened' = Opened /\ First1' = First1 /\ First2' = First2
    BY <1>3, <1>4, <2>1, <2>2, <2>8 DEF Opened, First1, First2, Round, Leaving
  <2>10. Second1' = Second1 /\ Second2' = Second2
    BY <1>2, <1>3, <1>4, <2>2, <2>8 DEF Second1, Second2
  <2>11. First1 = 0 => stage1'[2] = "outside"
    BY <1>4, <1>5, <2>1
  <2>12. GameRounds'
    BY <2>9, <2>10, <2>11 DEF GameInv, GameRounds
  <2> QED
    BY <1>2, <2>7, <2>12 DEF GameInv
<1> QED
  BY <1>1, <1>6, <1>7, <1>8 DEF CallStep

LEMMA GameWait2 ==
  ASSUME AllBooks, GameInv, NEW id \in Threads, Wait2(id)
  PROVE  GameInv'
<1>1. CallStep(2, id, stage2, stage2')
  BY Wait2Step
<1>2. UNCHANGED <<test, stage0, stage1, stage3, sum, total, i>>
  BY DEF Wait2, bar0Vars, bar1Vars, bar2Vars, bar3Vars
<1>3. (id = 1 /\ pc[1] % 3 = 0) \/ (id = 2 /\ pc[2] % 3 = 1 /\ pc[2] <= 3 * Loops)
  BY GameAt DEF Wait2, GameInv
<1>4. /\ pc \in [Threads -> 1..(3 * Loops + 2)] /\ stage2 \in [Threads -> bar0!Stages]
      /\ 0..3 \subseteq Threads /\ Loops \in Nat \ {0}
  BY ThreadsFinite, ProgramsAssumption DEF AllBooks, Books, GameInv, GamePlaces
<1>5. First1 = 0 => stage1[2] = "outside"
  BY DEF GameInv, GameRounds
<1>6. ASSUME pc' = pc, Enters(id, stage2, stage2') \/ Stays(id, stage2, stage2')
      PROVE  GameInv'
  <2>1. /\ \A t \in Threads : t # id => stage2'[t] = stage2[t]
        /\ stage2'[id] \in Leaving <=> stage2[id] \in Leaving
    BY <1>6 DEF Enters, Stays, Alone, Arriving, Leaving
  <2>2. GamePlaces'
    BY <1>2, <1>3, <1>4, <1>6, <2>1 DEF GameInv, GamePlaces
  <2> QED
    BY <1>2, <1>4, <1>5, <1>6, <2>1, <2>2, GameSame
<1>7. ASSUME pc' = pc, Completes(2, id, stage2, stage2')
      PROVE  GameInv'
  <2>1. \A u \in Threads : stage2[u] \in Arriving => u \in {1, 2}
    BY DEF Arriving, GameInv, GamePlaces
  <2>2. /\ stage2[1] \in Arriving /\ stage2'[1] \in Leaving
        /\ stage2[2] \in Arriving /\ stage2'[2] \in Leaving
        /\ \A u \in Threads : u \notin {1, 2} => stage2'[u] = stage2[u]
    BY <1>4, <1>7, <2>1, PairCompletes
  <2>3. GamePlaces'
    BY <1>2, <1>4, <1>7, <2>2 DEF GameInv, GamePlaces, Arriving
  <2>4. Second1' = Second1 + 1 /\ Second2' = Second2 + 1
    BY <1>7, <2>2 DEF Second1, Second2, Round, Arriving, Leaving
  <2>5. Opened' = Opened /\ First1' = First1 /\ First2' = First2
    BY <1>2, <1>7 DEF Opened, First1, First2
  <2>6. GameRounds'
    BY <1>2, <2>4, <2>5 DEF GameInv, GameRounds
  <2> QED
    BY <1>2, <2>3, <2>6 DEF GameInv
<1>8. ASSUME Leaves(id, stage2, stage2'), Advance(id)
      PROVE  GameInv'
  <2>1. /\ stage2[id] \in Leaving /\ stage2'[id] = "outside"
        /\ \A t \in Threads : t # id => stage2'[t] = stage2[t]
    BY <1>8 DEF Leaves, Alone
  <2>2. /\ pc[id] \in Nat \ {0} /\ pc'[id] = pc[id] + 1
        /\ \A t \in Threads : t # id => pc'[t] = pc[t]
    BY <1>4, <1>8 DEF Advance
  <2>3. /\ (3 * Loops + 2) % 3 = 2 /\ (3 * Loops + 1) % 3 = 1
    BY <1>4, Multiple
  <2>4. /\ pc[id] + 1 <= 3 * Loops + 2
        /\ id = 2 => pc[id] + 1 <= 3 * Loops + 1
    BY <1>3, <1>4, <2>3
  <2>5. pc' \in [Threads -> 1..(3 * Loops + 2)]
    BY <1>4, <1>8, <2>2, <2>4 DEF Advance
  <2>6. stage1[id] = "outside"
    BY <1>3 DEF GameInv, GamePlaces
  <2>7. GamePlaces'
    BY <1>2, <1>3, <1>4, <2>1, <2>2, <2>4, <2>5, <2>6 DEF GameInv, GamePlaces
  <2>8. /\ FirstOne(pc[id] + 1) = IF pc[id] % 3 = 1 THEN FirstOne(pc[id]) + 1 ELSE FirstOne(pc[id])
        /\ SecondTwo(pc[id] + 1) = IF pc[id] % 3 = 1 THEN SecondTwo(pc[id]) + 1 ELSE SecondTwo(pc[id])
        /\ SecondOne(pc[id] + 1) = IF pc[id] % 3 = 0 THEN SecondOne(pc[id]) + 1 ELSE SecondOne(pc[id])
        /\ FirstTwo(pc[id] + 1) = IF pc[id] % 3 = 0 THEN FirstTwo(pc[id]) + 1 ELSE FirstTwo(pc[id])
    BY <2>2, GameForward
  <2>9. Second1' = Second1 /\ Second2' = Second2
    BY <1>3, <1>4, <2>1, <2>2, <2>8 DEF Second1, Second2, Round, Leaving
  <2>10. Opened' = Opened /\ First1' = First1 /\ First2' = First2
    BY <1>2, <1>3, <1>4, <2>2, <2>8 DEF Opened, First1, First2
  <2>11. GameRounds'
    BY <1>2, <2>9, <2>10 DEF GameInv, GameRounds
  <2> QED
    BY <1>2, <2>7, <2>11 DEF GameInv
<1> QED
  BY <1>1, <1>6, <1>7, <1>8 DEF CallStep

LEMMA GameNext ==
  ASSUME AllBooks, GameInv, [Next]_vars
  PROVE  GameInv'
<1>1. CASE Exit \/ UNCHANGED vars
  <2>1. UNCHANGED <<test, stage0, stage1, stage2, stage3, pc, sum, total, i>>
    BY <1>1 DEF Exit, vars, bar0Vars, pairVars, bar1Vars, bar2Vars, bar3Vars
  <2> QED
    BY <2>1 DEF GameInv, GamePlaces, GameRounds, Opened, First1, First2, Second1, Second2
<1>2. ASSUME NEW id \in Threads, Step(id)
      PROVE  GameInv'
  <2>1. \A x : At(id, x) => x \in {"wait1", "wait2", "print"}
    BY GameAt DEF GameInv
  <2>2. /\ ~WriteCell(id) /\ ~Clear(id) /\ ~ReadCell(id) /\ ~SumQuarter(id)
        /\ ~Wait0(id) /\ ~Wait3(id)
    BY <2>1 DEF WriteCell, Clear, ReadCell, SumQuarter, Wait0, Wait3
  <2>3. ~Add(id)
    BY <2>1 DEF Add, Source
  <2> QED
    BY <1>2, <2>2, <2>3, GamePrint, GameWait1, GameWait2 DEF Step
<1> QED
  BY <1>1, <1>2 DEF Next


-----------------------------------------------------------------------------
(* The invariant, and the properties that follow                           *)

LEMMA ArrayInit == Init /\ test = "array" => ArrayInv
<1> SUFFICES ASSUME Init, test = "array"
             PROVE  ArrayInv
  OBVIOUS
<1> USE DEF Init, bar0!BarrierInit, bar1!BarrierInit, bar2!BarrierInit, bar3!BarrierInit
<1>1. ArrayPlaces
  BY WorkersSome DEF ArrayPlaces
<1>2. \A t \in Workers : Rounds0(t) = 0
  BY WorkersSome DEF Rounds0, Round, Crossed0, Leaving
<1>3. ArrayRounds
  BY <1>2 DEF ArrayRounds
<1>4. ArrayCells
  BY WorkersSome DEF ArrayCells
<1> QED
  BY <1>1, <1>3, <1>4 DEF ArrayInv

LEMMA SumsInit == Init /\ test = "sums" => SumsInv
<1> SUFFICES ASSUME Init, test = "sums"
             PROVE  SumsInv
  OBVIOUS
<1> USE DEF Init, bar0!BarrierInit, bar1!BarrierInit, bar2!BarrierInit, bar3!BarrierInit
<1>1. SumsPlaces
  BY ThreadsFinite DEF SumsPlaces
<1>2. \A t \in 0..3 : Rounds1(t) = 0 /\ Rounds2(t) = 0 /\ Rounds3(t) = 0
  BY ThreadsFinite DEF Rounds1, Rounds2, Rounds3, Round, Leaving
<1>3. SumsRounds
  BY <1>2 DEF SumsRounds
<1>4. SumsParts
  BY ThreadsFinite DEF SumsParts
<1> QED
  BY <1>1, <1>3, <1>4 DEF SumsInv

LEMMA GameInit == Init /\ test = "game" => GameInv
<1> SUFFICES ASSUME Init, test = "game"
             PROVE  GameInv
  OBVIOUS
<1> USE DEF Init, bar0!BarrierInit, bar1!BarrierInit, bar2!BarrierInit, bar3!BarrierInit
<1>1. pc[0] = 1 /\ pc[1] = 1 /\ pc[2] = 1
  BY ThreadsFinite
<1>2. GamePlaces
  BY <1>1, ThreadsFinite, ProgramsAssumption DEF GamePlaces
<1>3. FirstOne(1) = 0 /\ SecondOne(1) = 0 /\ FirstTwo(1) = 0 /\ SecondTwo(1) = 0
  BY DEF FirstOne, SecondOne, FirstTwo, SecondTwo
<1>4. Opened = 0 /\ First1 = 0 /\ First2 = 0 /\ Second1 = 0 /\ Second2 = 0
  BY <1>1, <1>3, ThreadsFinite DEF Opened, First1, First2, Second1, Second2, Round, Leaving
<1>5. GameRounds
  BY <1>4, ThreadsFinite DEF GameRounds
<1> QED
  BY <1>2, <1>5 DEF GameInv

\* Whatever the scheduler does, every barrier keeps its books and each program
\* is where its barriers allow it to be.
THEOREM Invariance == Spec => []IInv
<1>1. Init => IInv
  BY AllBooksInit, ArrayInit, SumsInit, GameInit DEF IInv, Init
<1>2. IInv /\ [Next]_vars => IInv'
  BY AllBooksNext, ArrayNext, SumsNext, GameNext DEF IInv
<1> QED
  BY <1>1, <1>2, PTL DEF Spec

LEMMA BooksTyped ==
  ASSUME AllBooks
  PROVE  bar0!BarrierTypeOK /\ bar1!BarrierTypeOK /\ bar2!BarrierTypeOK /\ bar3!BarrierTypeOK
BY DEF AllBooks, Books, bar0!BarrierTypeOK, bar1!BarrierTypeOK, bar2!BarrierTypeOK,
       bar3!BarrierTypeOK, bar0!Stages, bar1!Stages, bar2!Stages, bar3!Stages

LEMMA WholeTyped ==
  /\ Whole \in Nat /\ NTHREADS \in Nat \ {0}
  /\ \A id \in 0..3 : Quarter[id] \in Nat
<1>1. \A id \in 0..3 : Quarter[id] \in Nat
  BY ProgramsAssumption
<1> QED
  BY <1>1, ProgramsAssumption DEF Whole

LEMMA ArrayTyped ==
  ASSUME ArrayInv
  PROVE  /\ \A id \in Threads : pc[id] \in 1..(Len(Program[id]) + 1)
         /\ sum \in [Threads -> 0..(Whole + 11)] /\ total \in 0..(11 * NTHREADS) /\ i \in 0..NTHREADS
<1>1. /\ test = "array" /\ pc \in [Threads -> 1..10]
      /\ \A t \in Threads : t # 0 => pc[t] <= 6
  BY DEF ArrayInv, ArrayPlaces
<1>2. ASSUME NEW id \in Threads
      PROVE  pc[id] \in 1..(Len(Program[id]) + 1)
  <2>1. CASE id = 0
    <3>1. Len(Program[0]) = 9
      BY <1>1, <2>1, ArrayFirst
    <3> QED
      BY <1>1, <2>1, <3>1
  <2>2. CASE id \in Workers \ {0}
    <3>1. id < NTHREADS /\ pc[id] \in 1..6
      BY <1>1, <2>2, WorkersSome DEF Workers
    <3>2. Len(Program[id]) = 5
      BY <1>1, <2>2, <3>1, ArrayOther
    <3> QED
      BY <3>1, <3>2
  <2>3. CASE id \notin Workers
    <3>1. id >= NTHREADS
      BY <2>3, ProgramsAssumption DEF Workers, Threads
    <3>2. Program[id] = <<>> /\ pc[id] = 1
      BY <1>1, <2>3, <3>1, ArrayProgram DEF ArrayInv, ArrayPlaces
    <3> QED
      BY <3>2, Idle
  <2> QED
    BY <2>1, <2>2, <2>3
<1>3. sum \in [Threads -> 0..(Whole + 11)]
  <2>1. \A t \in Threads : sum[t] \in 0..(Whole + 11)
    BY <1>1, WholeTyped DEF ArrayInv, ArrayCells
  <2> QED
    BY <2>1 DEF ArrayInv, ArrayCells
<1>4. pc[0] \in 1..10
  BY <1>1, WorkersSome
<1>5. total \in 0..(11 * NTHREADS) /\ i \in 0..NTHREADS
  BY <1>4, WholeTyped DEF ArrayInv, ArrayCells
<1> QED
  BY <1>2, <1>3, <1>5

LEMMA SumsTyped ==
  ASSUME SumsInv
  PROVE  /\ \A id \in Threads : pc[id] \in 1..(Len(Program[id]) + 1)
         /\ sum \in [Threads -> 0..(Whole + 11)] /\ total \in 0..(11 * NTHREADS) /\ i \in 0..NTHREADS
<1>1. /\ test = "sums" /\ pc \in [Threads -> 1..6] /\ pc[1] <= 3 /\ pc[2] <= 5 /\ pc[3] <= 3
      /\ \A t \in Threads : t > 3 => pc[t] = 1
  BY DEF SumsInv, SumsPlaces
<1>2. /\ Len(Program[0]) = 5 /\ Len(Program[1]) = 2 /\ Len(Program[2]) = 4 /\ Len(Program[3]) = 2
      /\ \A id \in Threads : id > 3 => Len(Program[id]) = 0
  <2>1. /\ Program[0] = <<"quarter", "wait1", "add1", "wait3", "add2">>
        /\ Program[1] = <<"quarter", "wait1">>
        /\ Program[2] = <<"quarter", "wait2", "add3", "wait3">>
        /\ Program[3] = <<"quarter", "wait2">>
        /\ \A id \in Threads : id > 3 => Program[id] = <<>>
    BY <1>1, SumsProgram
  <2> QED
    BY <2>1
<1>3. ASSUME NEW id \in Threads
      PROVE  pc[id] \in 1..(Len(Program[id]) + 1)
  <2>1. id \in Nat
    BY DEF Threads
  <2>2. id = 0 \/ id = 1 \/ id = 2 \/ id = 3 \/ id > 3
    BY <2>1
  <2>3. pc[id] \in 1..6
    BY <1>1
  <2>4. CASE id = 0
    BY <1>2, <2>3, <2>4
  <2>5. CASE id = 1
    <3>1. Len(Program[id]) = 2 /\ pc[id] <= 3
      BY <1>1, <1>2, <2>5
    <3> QED
      BY <1>1, <2>3, <3>1
  <2>6. CASE id = 2
    <3>1. Len(Program[id]) = 4 /\ pc[id] <= 5
      BY <1>1, <1>2, <2>6
    <3> QED
      BY <1>1, <2>3, <3>1
  <2>7. CASE id = 3
    <3>1. Len(Program[id]) = 2 /\ pc[id] <= 3
      BY <1>1, <1>2, <2>7
    <3> QED
      BY <1>1, <2>3, <3>1
  <2>8. CASE id > 3
    BY <1>1, <1>2, <2>8
  <2> QED
    BY <2>2, <2>4, <2>5, <2>6, <2>7, <2>8
<1>4. sum \in [Threads -> 0..(Whole + 11)]
  <2>1. ASSUME NEW t \in Threads
        PROVE  sum[t] \in 0..(Whole + 11)
    <3>1. t = 0 \/ t = 1 \/ t = 2 \/ t = 3 \/ t > 3
      BY DEF Threads
    <3> QED
      BY <3>1, WholeTyped DEF SumsInv, SumsParts, Whole
  <2> QED
    BY <2>1 DEF SumsInv, SumsParts
<1> QED
  BY <1>3, <1>4, WholeTyped DEF SumsInv, SumsParts

LEMMA GameTyped ==
  ASSUME GameInv
  PROVE  /\ \A id \in Threads : pc[id] \in 1..(Len(Program[id]) + 1)
         /\ sum \in [Threads -> 0..(Whole + 11)] /\ total \in 0..(11 * NTHREADS) /\ i \in 0..NTHREADS
<1>1. /\ test = "game" /\ pc \in [Threads -> 1..(3 * Loops + 2)] /\ pc[0] <= 2
      /\ pc[2] <= 3 * Loops + 1 /\ Loops \in Nat
      /\ \A t \in Threads : t > 2 => pc[t] = 1
  BY ProgramsAssumption DEF GameInv, GamePlaces
<1>2. /\ Len(Program[0]) = 1 /\ Len(Program[1]) = 3 * Loops + 1 /\ Len(Program[2]) = 3 * Loops
      /\ \A id \in Threads : id > 2 => Len(Program[id]) = 0
  <2>1. Program[0] = <<"wait1">> /\ \A id \in Threads : id > 2 => Program[id] = <<>>
    BY <1>1, GameProgram
  <2>2. Len(Program[1]) = 3 * Loops + 1 /\ Len(Program[2]) = 3 * Loops
    BY <1>1, GameProgram
  <2> QED
    BY <2>1, <2>2
<1>3. ASSUME NEW id \in Threads
      PROVE  pc[id] \in 1..(Len(Program[id]) + 1)
  <2>1. id = 0 \/ id = 1 \/ id = 2 \/ id > 2
    BY DEF Threads
  <2>2. pc[id] \in 1..(3 * Loops + 2)
    BY <1>1
  <2>3. CASE id = 0
    <3>1. Len(Program[id]) = 1 /\ pc[id] <= 2
      BY <1>1, <1>2, <2>3
    <3> QED
      BY <1>1, <2>2, <3>1
  <2>4. CASE id = 1
    BY <1>1, <1>2, <2>2, <2>4
  <2>5. CASE id = 2
    <3>1. Len(Program[id]) = 3 * Loops /\ pc[id] <= 3 * Loops + 1
      BY <1>1, <1>2, <2>5
    <3> QED
      BY <1>1, <2>2, <3>1
  <2>6. CASE id > 2
    BY <1>1, <1>2, <2>6
  <2> QED
    BY <2>1, <2>3, <2>4, <2>5, <2>6
<1> QED
  BY <1>3, WholeTyped DEF GameInv

\* The types: no counter of a barrier leaves its range, no thread leaves its
\* program and no sum exceeds what there is to add.
THEOREM TypeCorrect == Spec => []TypeOK
<1>1. IInv => TypeOK
  BY BooksTyped, ArrayTyped, SumsTyped, GameTyped DEF IInv, TypeOK
<1> QED
  BY <1>1, Invariance, PTL


LEMMA ArraySettled ==
  ASSUME AllBooks, ArrayInv
  PROVE  ReadsSettled
<1> SUFFICES ASSUME NEW id \in Threads, NEW owner \in Threads, Reads(id, owner), owner # id,
                    NEW k \in DOMAIN Program[owner], k = pc[owner]
             PROVE  Program[owner][k] \in {"wait0", "wait1", "wait2", "wait3"}
  BY DEF ReadsSettled, ArrayInv
<1>1. At(id, "read") /\ owner = i
  <2>1. \A add \in DOMAIN Source : ~At(id, add)
    BY ArrayAt DEF Source
  <2> QED
    BY <2>1 DEF Reads
<1>2. id = 0 /\ pc[0] \in {4, 9}
  BY <1>1, ArrayAt
<1>3. owner \in Workers \ {0}
  <2>1. i \in Nat /\ i < NTHREADS
    BY <1>2 DEF ArrayInv, ArrayCells
  <2> QED
    BY <1>1, <1>2, <2>1, WorkersSome DEF Workers
<1>4. pc[owner] \in {2, 3, 5, 6}
  BY <1>2, <1>3, ArrayReading
<1>5. Program[owner] = <<"increment", "wait0", "wait0", "add10", "wait0">>
  BY <1>3, WorkersSome, ArrayProgram DEF Workers, ArrayInv
<1> QED
  BY <1>4, <1>5

LEMMA SumsSettled ==
  ASSUME AllBooks, SumsInv
  PROVE  ReadsSettled
<1> SUFFICES ASSUME NEW id \in Threads, NEW owner \in Threads, Reads(id, owner), owner # id,
                    NEW k \in DOMAIN Program[owner], k = pc[owner] \/ k > pc[owner]
             PROVE  Program[owner][k] \in {"wait0", "wait1", "wait2", "wait3"}
  BY DEF ReadsSettled
<1>1. PICK add \in DOMAIN Source : At(id, add) /\ owner = Source[add]
  <2>1. ~At(id, "read")
    BY SumsAt DEF SumsInv
  <2> QED
    BY <2>1 DEF Reads
<1>2. \/ pc[0] = 3 /\ owner = 1
      \/ pc[0] = 5 /\ owner = 2
      \/ pc[2] = 3 /\ owner = 3
  BY <1>1, SumsAt DEF Source, SumsInv
<1>3. (owner = 1 /\ pc[1] >= 2) \/ (owner = 2 /\ pc[2] >= 4) \/ (owner = 3 /\ pc[3] >= 2)
  BY <1>2, SumsMet
<1>4. /\ Program[1] = <<"quarter", "wait1">>
      /\ Program[2] = <<"quarter", "wait2", "add3", "wait3">>
      /\ Program[3] = <<"quarter", "wait2">>
  BY SumsProgram DEF SumsInv
<1>5. pc \in [Threads -> 1..6]
  BY DEF SumsInv, SumsPlaces
<1>6. CASE owner = 1
  BY <1>3, <1>4, <1>5, <1>6
<1>7. CASE owner = 2
  BY <1>3, <1>4, <1>5, <1>7
<1>8. CASE owner = 3
  BY <1>3, <1>4, <1>5, <1>8
<1> QED
  BY <1>3, <1>6, <1>7, <1>8

\* What is read without a lock is settled: in whatever order the threads run,
\* nobody reads a cell or a sum whose owner is about to write it, and the
\* partial sums that are passed on are complete.
THEOREM ReadsSettledHolds == Spec => []ReadsSettled
<1>1. GameInv => ReadsSettled
  <2> SUFFICES ASSUME GameInv, NEW id \in Threads, NEW owner \in Threads
               PROVE  ~Reads(id, owner)
    BY DEF ReadsSettled
  <2>1. \A x : At(id, x) => x \in {"wait1", "wait2", "print"}
    BY GameAt DEF GameInv
  <2> QED
    BY <2>1 DEF Reads, Source
<1>2. IInv => ReadsSettled
  BY <1>1, ArraySettled, SumsSettled DEF IInv
<1> QED
  BY <1>2, Invariance, PTL

\* Thread 0 ends with every quarter added exactly once, and its two sums of the
\* cells are the number of threads and eleven times as much, however many
\* threads there are and whatever the quarters come to.
THEOREM TotalExactHolds == Spec => []TotalExact
<1>1. ArrayInv => TotalExact
  <2> SUFFICES ASSUME ArrayInv
               PROVE  TotalExact
    OBVIOUS
  <2>1. test = "array" /\ pc[0] \in 1..10
    BY WorkersSome DEF ArrayInv, ArrayPlaces
  <2>2. Len(Program[0]) = 9
    BY <2>1, ArrayFirst
  <2> QED
    BY <2>1, <2>2 DEF TotalExact, ArrayInv, ArrayCells
<1>2. SumsInv => TotalExact
  <2> SUFFICES ASSUME SumsInv
               PROVE  TotalExact
    OBVIOUS
  <2>1. test = "sums" /\ pc[0] \in 1..6
    BY ThreadsFinite DEF SumsInv, SumsPlaces
  <2>2. Program[0] = <<"quarter", "wait1", "add1", "wait3", "add2">>
    BY <2>1, SumsProgram
  <2>3. Len(Program[0]) = 5
    BY <2>2
  <2> QED
    BY <2>1, <2>3 DEF TotalExact, SumsInv, SumsParts
<1>3. GameInv => TotalExact
  BY DEF GameInv, TotalExact
<1>4. IInv => TotalExact
  BY <1>1, <1>2, <1>3 DEF IInv
<1> QED
  BY <1>4, Invariance, PTL

\* Every third number up to p - 1 is the number of a line.
LEMMA EveryThird ==
  ASSUME NEW p \in Nat \ {0}, NEW P, P = {k \in 1..(p - 1) : k % 3 = 2}
  PROVE  Cardinality(P) = p \div 3
<1> DEFINE d == p \div 3
           f == [j \in 1..d |-> 3 * j - 1]
<1>1. d \in Nat /\ 3 * d <= p /\ p <= 3 * d + 2
  OBVIOUS
<1>2. ASSUME NEW j \in 1..d
      PROVE  3 * j - 1 \in P
  <2>1. j \in Nat /\ 3 * j - 1 \in 1..(p - 1)
    BY <1>1, <1>2
  <2>2. (3 * j - 1) % 3 = 2
    BY <2>1
  <2> QED
    BY <2>1, <2>2
<1>3. ASSUME NEW k \in P
      PROVE  \E j \in 1..d : 3 * j - 1 = k
  <2>1. k \in 1..(p - 1) /\ k % 3 = 2
    OBVIOUS
  <2> DEFINE q == (k + 1) \div 3
  <2>2. q \in Int /\ 3 * q = k + 1
    BY <2>1
  <2> HIDE DEF q, d
  <2>3. q \in 1..d /\ 3 * q - 1 = k
    BY <1>1, <2>1, <2>2
  <2> QED
    BY <2>3
<1> HIDE DEF d
<1>4. f \in [1..d -> P]
  BY <1>2
<1>5. \A a, b \in 1..d : f[a] = f[b] => a = b
  BY <1>1
<1>6. \A k \in P : \E j \in 1..d : f[j] = k
  BY <1>3
<1> HIDE DEF f
<1>7. f \in Bijection(1..d, P)
  BY <1>4, <1>5, <1>6, Fun_IsBij
<1>8. ExistsBijection(1..d, P)
  BY <1>7, Fun_ExistsBij
<1>9. IsFiniteSet(1..d) /\ Cardinality(1..d) = d
  BY <1>1, FS_Interval
<1>10. Cardinality(P) = d
  BY <1>8, <1>9, FS_Bijection
<1> QED
  BY <1>10 DEF d

LEMMA GamePrinted ==
  ASSUME GameInv, NEW id \in {1, 2}
  PROVE  pc[id] \in Nat \ {0} /\ Printed(id) = pc[id] \div 3
<1> DEFINE n == 3 * Loops
           P == {k \in 1..(pc[id] - 1) : Program[id][k] = "print"}
<1>1. /\ pc[id] \in 1..(n + 2) /\ pc[2] <= n + 1
      /\ n \in Nat
  BY ThreadsFinite, ProgramsAssumption DEF GameInv, GamePlaces
<1>2. test = "game"
  BY DEF GameInv
<1>3. ASSUME NEW k \in 1..(pc[id] - 1)
      PROVE  Program[id][k] = "print" <=> k % 3 = 2
  <2>1. CASE id = 1
    <3>1. k \in 1..(n + 1)
      BY <1>1
    <3>2. Program[1][k] = IF k % 3 = 1 THEN "wait1" ELSE IF k % 3 = 2 THEN "print" ELSE "wait2"
      BY <1>2, <3>1, GameProgram
    <3> QED
      BY <2>1, <3>2
  <2>2. CASE id = 2
    <3>1. k \in 1..n
      BY <1>1, <2>2
    <3>2. Program[2][k] = IF k % 3 = 1 THEN "wait2" ELSE IF k % 3 = 2 THEN "print" ELSE "wait1"
      BY <1>2, <3>1, GameProgram
    <3> QED
      BY <2>2, <3>2
  <2> QED
    BY <2>1, <2>2
<1> HIDE DEF n
<1>4. P = {k \in 1..(pc[id] - 1) : k % 3 = 2}
  BY <1>3
<1> HIDE DEF P
<1>5. pc[id] \in Nat \ {0}
  BY <1>1
<1>6. Cardinality(P) = pc[id] \div 3
  BY <1>4, <1>5, EveryThird
<1> QED
  BY <1>5, <1>6 DEF Printed, P

\* The players' numbers of lines, from the rounds they have in common.
LEMMA GameAlternates ==
  ASSUME GameInv
  PROVE  (pc[1] \div 3) - (pc[2] \div 3) \in {0, 1}
<1> DEFINE a == pc[1]
           b == pc[2]
<1>1. a \in Nat \ {0} /\ b \in Nat \ {0}
  BY ThreadsFinite, ProgramsAssumption DEF GameInv, GamePlaces
<1>2. /\ Second1 = (a - 1) \div 3 \/ (a % 3 = 0 /\ Second1 = ((a - 1) \div 3) + 1)
      /\ Second2 = (b + 1) \div 3 \/ (b % 3 = 1 /\ Second2 = ((b + 1) \div 3) + 1)
      /\ First1 = (a + 1) \div 3 \/ (a % 3 = 1 /\ First1 = ((a + 1) \div 3) + 1)
      /\ First2 = (b - 1) \div 3 \/ (b % 3 = 0 /\ First2 = ((b - 1) \div 3) + 1)
  BY DEF Second1, Second2, First1, First2, SecondOne, SecondTwo, FirstOne, FirstTwo,
         Round, Leaving, GameInv, GamePlaces
<1>3. Second1 = Second2 /\ (First1 = First2 + 1 \/ (First1 = 0 /\ First2 = 0))
  BY GameNumbers DEF GameInv, GameRounds
<1> HIDE DEF a, b
<1>4. (a \div 3) - (b \div 3) \in {0, 1}
  BY <1>1, <1>2, <1>3
<1> QED
  BY <1>4 DEF a, b

\* Nobody prints in the other programs.
LEMMA NothingPrinted ==
  ASSUME IInv, test # "game", NEW id \in {1, 2}
  PROVE  Printed(id) = 0
<1> DEFINE P == {k \in 1..(pc[id] - 1) : Program[id][k] = "print"}
<1>1. id \in Threads
  BY ThreadsFinite
<1>2. pc[id] \in 1..(Len(Program[id]) + 1)
  BY <1>1, ArrayTyped, SumsTyped DEF IInv, GameInv
<1>3. \A k \in 1..Len(Program[id]) : Program[id][k] # "print"
  <2>1. CASE test = "array"
    <3>1. \/ Program[id] = <<>>
          \/ Program[id] = <<"increment", "wait0", "wait0", "add10", "wait0">>
      BY <1>1, <2>1, ArrayProgram, ProgramsAssumption
    <3> QED
      BY <3>1
  <2>2. CASE test = "sums"
    <3>1. \/ Program[id] = <<"quarter", "wait1">>
          \/ Program[id] = <<"quarter", "wait2", "add3", "wait3">>
      BY <2>2, SumsProgram
    <3> QED
      BY <3>1
  <2> QED
    BY <2>1, <2>2 DEF IInv, ArrayInv, SumsInv, GameInv
<1>4. P = {}
  BY <1>2, <1>3
<1> QED
  BY <1>4, FS_EmptySet DEF Printed

\* The players print in turn, thread 1 first, for every number of turns.
THEOREM AlternationHolds == Spec => []Alternation
<1>1. ASSUME IInv
      PROVE  Alternation
  <2>1. CASE test = "game"
    <3>1. GameInv
      BY <1>1, <2>1 DEF IInv, ArrayInv, SumsInv
    <3>2. Printed(1) = pc[1] \div 3 /\ Printed(2) = pc[2] \div 3
      BY <3>1, GamePrinted
    <3> QED
      BY <3>1, <3>2, GameAlternates DEF Alternation
  <2>2. CASE test # "game"
    <3>1. Printed(1) = 0 /\ Printed(2) = 0
      BY <1>1, <2>2, NothingPrinted
    <3> QED
      BY <3>1 DEF Alternation
  <2> QED
    BY <2>1, <2>2
<1> QED
  BY <1>1, Invariance, PTL

\* Main's only call meets the first call of thread 1: main takes no part in a
\* later round of b1.
THEOREM MainOpensOnlyHolds == Spec => []MainOpensOnly
<1>1. ASSUME IInv, test = "game", stage1[0] \in Arriving
      PROVE  Printed(1) = 0
  <2>1. GameInv
    BY <1>1 DEF IInv, ArrayInv, SumsInv
  <2>2. pc[0] = 1 /\ stage1[0] \notin Leaving
    BY <1>1, <2>1 DEF GameInv, GamePlaces, Arriving, Leaving
  <2>3. Opened = 0
    BY <2>2 DEF Opened, Round
  <2>4. First1 = 0
    BY <2>1, <2>3, GameNumbers DEF GameInv, GameRounds
  <2>5. pc[1] \in Nat \ {0} /\ Printed(1) = pc[1] \div 3
    BY <2>1, GamePrinted
  <2>6. FirstOne(pc[1]) \in Nat
    BY <2>5 DEF FirstOne
  <2>7. FirstOne(pc[1]) = 0
    BY <2>4, <2>6 DEF First1, Round
  <2>8. pc[1] \div 3 = 0
    BY <2>5, <2>7 DEF FirstOne
  <2> QED
    BY <2>5, <2>8
<1>2. IInv => MainOpensOnly
  BY <1>1 DEF MainOpensOnly, Arriving
<1> QED
  BY <1>2, Invariance, PTL

=============================================================================
