------------------------------- MODULE Hello -------------------------------
(***************************************************************************)
(* 1_hello/threads.c and nlocks.c: threads that add one to cells of a      *)
(* shared array, each cell under a mutex of its own, and a main that       *)
(* creates them, adds to cells itself, joins them and prints the array.    *)
(* The two programs differ in the cells a thread visits: every thread of   *)
(* threads.c the one counter, once; thread i of nlocks.c data[i], again    *)
(* and again, and main all the cells in turn.                              *)
(***************************************************************************)
EXTENDS Integers, Sequences, FiniteSets

CONSTANTS
  N,         \* NUMBER_OF_THREADS; they are 0 to N - 1
  Cells,     \* counter, or the indices of data
  NoThread,  \* the holder of a mutex nobody holds
  Programs   \* which cells each thread visits, in order

Main == N
Threads == 0..N

ASSUME HelloAssumption ==
  /\ N \in Nat
  /\ NoThread \notin Threads
  /\ Programs \subseteq [Threads -> Seq(Cells)]

VARIABLES
  visits,   \* the program that is run
  created,  \* the threads main has created
  data,     \* data[c], or counter
  m_lock,   \* m_lock[c]: the holder of the cell's mutex, or NoThread
  done,     \* done[t]: the additions of t that are finished
  stage,    \* stage[t]: the next statement of t
  value     \* value[t]: what t has loaded for its `+= 1'

vars == <<visits, created, data, m_lock, done, stage, value>>

Init ==
  /\ visits \in Programs
  /\ created = 0
  /\ data = [c \in Cells |-> 0]
  /\ m_lock = [c \in Cells |-> NoThread]
  /\ done = [t \in Threads |-> 0]
  /\ stage = [t \in Threads |-> "outside"]
  /\ value = [t \in Threads |-> 0]

\* pthread_create of the next thread.
Create ==
  /\ created < N
  /\ created' = created + 1
  /\ UNCHANGED <<visits, data, m_lock, done, stage, value>>

\* A thread runs once it is created, main's loop once all of them are.
Running(t) == IF t = Main THEN created = N ELSE t < created

Finished(t) == done[t] = Len(visits[t])

\* The cell thread t is at.
Cell(t) == visits[t][done[t] + 1]

Goto(t, from, to) ==
  /\ Running(t) /\ ~Finished(t)
  /\ stage[t] = from
  /\ stage' = [stage EXCEPT ![t] = to]
  /\ UNCHANGED <<visits, created>>

\* Mutation: the mutex is not taken.
LockUnheld(t) ==
  Goto(t, "outside", "load") /\ UNCHANGED <<data, m_lock, done, value>>

\* pthread_mutex_lock
Lock(t) ==
  /\ Goto(t, "outside", "load")
  /\ m_lock[Cell(t)] = NoThread
  /\ m_lock' = [m_lock EXCEPT ![Cell(t)] = t]
  /\ UNCHANGED <<data, done, value>>

\* The increment is a load and a store.
Load(t) ==
  /\ Goto(t, "load", "store")
  /\ value' = [value EXCEPT ![t] = data[Cell(t)]]
  /\ UNCHANGED <<data, m_lock, done>>

Store(t) ==
  /\ Goto(t, "store", "unlock")
  /\ data' = [data EXCEPT ![Cell(t)] = value[t] + 1]
  /\ UNCHANGED <<m_lock, done, value>>

\* Mutation: the mutex is not released.
UnlockForgotten(t) ==
  /\ Goto(t, "unlock", "outside")
  /\ done' = [done EXCEPT ![t] = @ + 1]
  /\ UNCHANGED <<data, m_lock, value>>

\* pthread_mutex_unlock, and on to the next addition.
Unlock(t) ==
  /\ Goto(t, "unlock", "outside")
  /\ m_lock' = [m_lock EXCEPT ![Cell(t)] = NoThread]
  /\ done' = [done EXCEPT ![t] = @ + 1]
  /\ UNCHANGED <<data, value>>

Add(t) == Lock(t) \/ Load(t) \/ Store(t) \/ Unlock(t)

\* Mutation: main prints without joining the threads.
PrintUnjoined ==
  /\ created = N /\ Finished(Main)
  /\ stage[Main] = "outside"
  /\ stage' = [stage EXCEPT ![Main] = "printed"]
  /\ UNCHANGED <<visits, created, data, m_lock, done, value>>

\* main has joined every thread and prints the array.
PrintData ==
  /\ created = N /\ \A t \in Threads : Finished(t)
  /\ stage[Main] = "outside"
  /\ stage' = [stage EXCEPT ![Main] = "printed"]
  /\ UNCHANGED <<visits, created, data, m_lock, done, value>>

Exit == stage[Main] = "printed" /\ UNCHANGED vars

Next ==
  \/ Create
  \/ \E t \in Threads : Add(t)
  \/ PrintData
  \/ Exit

SafeSpec == Init /\ [][Next]_vars

\* Every thread that can take its next statement is scheduled.  The additions
\* are finitely many, so nobody is kept from a mutex for ever.
Fairness ==
  /\ WF_vars(Create)
  /\ \A t \in Threads : WF_vars(Add(t))
  /\ WF_vars(PrintData)

Spec == SafeSpec /\ Fairness

-----------------------------------------------------------------------------
(* Properties *)

TypeOK ==
  /\ visits \in [Threads -> Seq(Cells)]
  /\ created \in 0..N
  /\ data \in [Cells -> Nat]
  /\ m_lock \in [Cells -> Threads \cup {NoThread}]
  /\ done \in [Threads -> Nat]
  /\ \A t \in Threads : done[t] <= Len(visits[t])
  /\ stage \in [Threads -> {"outside", "load", "store", "unlock", "printed"}]
  /\ value \in [Threads -> Nat]

Critical == {"load", "store", "unlock"}

\* A thread between its lock and its unlock has an addition left to make and
\* holds the mutex of its cell, and nobody else holds a mutex.
MutexHeld ==
  /\ \A t \in Threads :
       stage[t] \in Critical => ~Finished(t) /\ m_lock[Cell(t)] = t
  /\ \A c \in Cells :
       m_lock[c] # NoThread => stage[m_lock[c]] \in Critical /\ Cell(m_lock[c]) = c

\* What a thread is about to store is based on what the cell holds now.
ValuesCurrent ==
  \A t \in Threads : stage[t] = "store" => value[t] = data[Cell(t)]

\* The additions of the program: <<t, i>> is the i-th of thread t.
Additions == UNION {{t} \X DOMAIN visits[t] : t \in Threads}

\* How many additions thread t has stored.
StoredBy(t) == done[t] + (IF stage[t] = "unlock" THEN 1 ELSE 0)

Stored(c) ==
  {a \in Additions : a[2] <= StoredBy(a[1]) /\ visits[a[1]][a[2]] = c}

\* No increment is lost: each cell holds the number of additions made to it,
\* although main and thread i meet on cell i in any order and an increment is
\* a load and a store (threads.c:17, nlocks.c:21 and 59).
NoUpdateLost ==
  \A c \in Cells : IsFiniteSet(Stored(c)) /\ data[c] = Cardinality(Stored(c))

\* What main prints are the totals ("Make sure you reap all threads created
\* by your program before printing the counter", threads.c:63).
TotalsPrinted ==
  stage[Main] = "printed" => \A c \in Cells : 
    data[c] = Cardinality({a \in Additions : visits[a[1]][a[2]] = c})

\* main does print: nobody blocks for ever.
Prints == <>(stage[Main] = "printed")

\* The inductive invariant of Hello_proofs.
IInv == TypeOK /\ MutexHeld /\ ValuesCurrent /\ NoUpdateLost

=============================================================================
