---------------------------- MODULE Hello_proofs ----------------------------
(***************************************************************************)
(* For every number of threads, every set of cells and every list of cells *)
(* a thread visits: no increment is lost and main prints the totals.       *)
(***************************************************************************)
EXTENDS Hello, FiniteSetTheorems, TLAPS

-----------------------------------------------------------------------------
(* The stored additions                                                    *)

\* A running, unfinished thread is at a cell of the program.
LEMMA CellType ==
  ASSUME TypeOK, NEW t \in Threads, ~Finished(t)
  PROVE  /\ Cell(t) \in Cells
         /\ done[t] + 1 \in DOMAIN visits[t]
<1>1. visits[t] \in Seq(Cells) /\ done[t] \in Nat /\ done[t] < Len(visits[t])
  BY DEF TypeOK, Finished
<1> QED
  BY <1>1 DEF Cell

\* What is stored changes only with the program counters of the threads.
LEMMA StoredSame ==
  ASSUME UNCHANGED visits, \A t \in Threads : StoredBy(t)' = StoredBy(t),
         NEW c \in Cells
  PROVE  Stored(c)' = Stored(c)
BY DEF Stored, Additions, StoredBy

\* A store adds its addition, and no other, to those of its cell.
LEMMA StoredGrows ==
  ASSUME TypeOK, NEW t \in Threads, Store(t), NEW c \in Cells
  PROVE  /\ c = Cell(t) => /\ Stored(c)' = Stored(c) \cup {<<t, done[t] + 1>>}
                           /\ <<t, done[t] + 1>> \notin Stored(c)
         /\ c # Cell(t) => Stored(c)' = Stored(c)
<1> DEFINE new == <<t, done[t] + 1>>
<1>1. /\ stage[t] = "store" /\ stage' = [stage EXCEPT ![t] = "unlock"]
      /\ ~Finished(t)
      /\ UNCHANGED <<visits, done>>
  BY DEF Store, Goto
<1>2. /\ StoredBy(t) = done[t]
      /\ StoredBy(t)' = done[t] + 1
      /\ \A u \in Threads \ {t} : StoredBy(u)' = StoredBy(u)
  BY <1>1 DEF StoredBy, TypeOK
<1>3. Additions' = Additions
  BY <1>1 DEF Additions
<1>4. new \in Additions
  BY <1>1, CellType DEF Additions
<1>5. \A a \in Additions : a[1] \in Threads /\ a[2] \in Nat /\ a = <<a[1], a[2]>>
  <2> SUFFICES ASSUME NEW u \in Threads, NEW i \in DOMAIN visits[u]
               PROVE  i \in Nat
    BY DEF Additions
  <2>1. visits[u] \in Seq(Cells)
    BY DEF TypeOK
  <2> QED
    BY <2>1
<1>6. done[t] \in Nat
  BY DEF TypeOK
<1>7. \A a \in Additions :
        a[2] <= StoredBy(a[1])' <=> a[2] <= StoredBy(a[1]) \/ a = new
  <2> TAKE a \in Additions
  <2>1. CASE a[1] = t
    BY <2>1, <1>2, <1>5, <1>6
  <2>2. CASE a[1] # t
    BY <2>2, <1>2, <1>5
  <2> QED
    BY <2>1, <2>2
<1>8. visits[new[1]][new[2]] = Cell(t)
  BY DEF Cell
<1>9. ~(new[2] <= StoredBy(new[1]))
  BY <1>2, <1>6
<1> QED
  BY <1>1, <1>3, <1>4, <1>7, <1>8, <1>9 DEF Stored

-----------------------------------------------------------------------------
(* The inductive invariant                                                 *)

LEMMA InitIInv == Init => IInv
<1> SUFFICES ASSUME Init PROVE IInv
  OBVIOUS
<1>1. TypeOK
  BY HelloAssumption DEF Init, TypeOK, Threads
<1>2. MutexHeld /\ ValuesCurrent
  BY DEF Init, MutexHeld, ValuesCurrent, Critical
<1>3. ASSUME NEW c \in Cells PROVE Stored(c) = {}
  <2> SUFFICES ASSUME NEW a \in Stored(c) PROVE FALSE
    OBVIOUS
  <2>1. PICK u \in Threads : \E i \in DOMAIN visits[u] : a = <<u, i>>
    BY DEF Stored, Additions
  <2>2. visits[u] \in Seq(Cells) /\ StoredBy(u) = 0
    BY <1>1 DEF Init, StoredBy, TypeOK
  <2>3. a[1] = u /\ a[2] \in Nat \ {0}
    BY <2>1, <2>2
  <2> QED
    BY <2>1, <2>2, <2>3 DEF Stored
<1>4. NoUpdateLost
  BY <1>3, FS_EmptySet DEF NoUpdateLost, Init
<1> QED
  BY <1>1, <1>2, <1>4 DEF IInv

\* Steps that store nothing leave what is stored, and the data, alone.
LEMMA NoUpdateLostSame ==
  ASSUME NoUpdateLost, UNCHANGED <<visits, data>>,
         \A t \in Threads : StoredBy(t)' = StoredBy(t)
  PROVE  NoUpdateLost'
BY StoredSame DEF NoUpdateLost

\* Two threads that are both between lock and unlock are at different cells.
LEMMA Alone ==
  ASSUME MutexHeld, NEW t \in Threads, NEW u \in Threads, t # u,
         stage[t] \in Critical, stage[u] \in Critical
  PROVE  Cell(t) # Cell(u)
BY DEF MutexHeld

LEMMA LockIInv ==
  ASSUME IInv, NEW t \in Threads, Lock(t)
  PROVE  IInv'
<1> USE DEF IInv, Lock, Goto
<1>1. Cell(t) \in Cells
  BY CellType
<1>2. TypeOK'
  BY <1>1 DEF TypeOK
<1>3. \A u \in Threads : Cell(u)' = Cell(u) /\ Finished(u)' = Finished(u)
  BY DEF Cell, Finished
<1>4. MutexHeld'
  BY <1>1, <1>3, HelloAssumption DEF MutexHeld, Critical, TypeOK
<1>5. ValuesCurrent'
  BY <1>3 DEF ValuesCurrent, TypeOK
<1>6. NoUpdateLost'
  BY NoUpdateLostSame DEF StoredBy, TypeOK
<1> QED
  BY <1>2, <1>4, <1>5, <1>6

LEMMA LoadIInv ==
  ASSUME IInv, NEW t \in Threads, Load(t)
  PROVE  IInv'
<1> USE DEF IInv, Load, Goto
<1>1. Cell(t) \in Cells
  BY CellType
<1>2. TypeOK'
  BY <1>1 DEF TypeOK
<1>3. \A u \in Threads : Cell(u)' = Cell(u) /\ Finished(u)' = Finished(u)
  BY DEF Cell, Finished
<1>4. MutexHeld'
  BY <1>1, <1>3 DEF MutexHeld, Critical, TypeOK
<1>5. ValuesCurrent'
  BY <1>3 DEF ValuesCurrent, TypeOK
<1>6. NoUpdateLost'
  BY NoUpdateLostSame DEF StoredBy, TypeOK
<1> QED
  BY <1>2, <1>4, <1>5, <1>6

\* The store: nobody else is at this cell, and the value is the current one.
LEMMA StoreIInv ==
  ASSUME IInv, NEW t \in Threads, Store(t)
  PROVE  IInv'
<1> USE DEF IInv, Store, Goto
<1>1. Cell(t) \in Cells
  BY CellType
<1>2. TypeOK'
  BY <1>1 DEF TypeOK
<1>3. \A u \in Threads : Cell(u)' = Cell(u) /\ Finished(u)' = Finished(u)
  BY DEF Cell, Finished
<1>4. MutexHeld'
  BY <1>3 DEF MutexHeld, Critical, TypeOK
<1>5. ValuesCurrent'
  <2> SUFFICES ASSUME NEW u \in Threads, stage'[u] = "store"
               PROVE  value'[u] = data'[Cell(u)']
    BY DEF ValuesCurrent
  <2>1. u # t /\ stage[u] = "store"
    BY DEF TypeOK
  <2>2. Cell(u) # Cell(t)
    BY <2>1, Alone DEF Critical
  <2> QED
    BY <1>3, <2>1, <2>2 DEF ValuesCurrent, TypeOK
<1>6. NoUpdateLost'
  <2> SUFFICES ASSUME NEW c \in Cells
               PROVE  IsFiniteSet(Stored(c)') /\ data'[c] = Cardinality(Stored(c)')
    BY DEF NoUpdateLost
  <2>1. IsFiniteSet(Stored(c)) /\ data[c] = Cardinality(Stored(c))
    BY DEF NoUpdateLost
  <2>2. CASE c = Cell(t)
    <3>1. data'[c] = data[c] + 1
      BY <1>1, <2>2 DEF ValuesCurrent, TypeOK
    <3>2. /\ Stored(c)' = Stored(c) \cup {<<t, done[t] + 1>>}
          /\ <<t, done[t] + 1>> \notin Stored(c)
      BY <2>2, StoredGrows
    <3>3. /\ IsFiniteSet(Stored(c)')
          /\ Cardinality(Stored(c)') = Cardinality(Stored(c)) + 1
      BY ONLY <2>1, <3>2, FS_AddElement
    <3> QED
      BY ONLY <2>1, <3>1, <3>3
  <2>3. CASE c # Cell(t)
    BY <2>1, <2>3, StoredGrows DEF TypeOK
  <2> QED
    BY <2>2, <2>3
<1> QED
  BY <1>2, <1>4, <1>5, <1>6

LEMMA UnlockIInv ==
  ASSUME IInv, NEW t \in Threads, Unlock(t)
  PROVE  IInv'
<1> USE DEF IInv, Unlock, Goto
<1>1. Cell(t) \in Cells /\ m_lock[Cell(t)] = t
  BY CellType DEF MutexHeld, Critical
<1>2. TypeOK'
  <2>1. done[t] + 1 <= Len(visits[t])
    <3>1. visits[t] \in Seq(Cells) /\ done[t] \in Nat
      BY DEF TypeOK
    <3> QED
      BY <3>1 DEF TypeOK, Finished
  <2> QED
    BY <1>1, <2>1 DEF TypeOK
<1>3. \A u \in Threads \ {t} : Cell(u)' = Cell(u) /\ Finished(u)' = Finished(u)
  BY DEF Cell, Finished, TypeOK
<1>4. MutexHeld'
  <2>1. ASSUME NEW u \in Threads, stage'[u] \in Critical
        PROVE  ~Finished(u)' /\ m_lock'[Cell(u)'] = u
    <3>1. u # t /\ stage[u] \in Critical
      BY <2>1 DEF Critical, TypeOK
    <3>2. Cell(u) # Cell(t)
      BY <3>1, Alone DEF Critical
    <3> QED
      BY <1>3, <3>1, <3>2 DEF MutexHeld, TypeOK
  <2>2. ASSUME NEW c \in Cells, m_lock'[c] # NoThread
        PROVE  stage'[m_lock'[c]] \in Critical /\ visits[m_lock'[c]][done'[m_lock'[c]] + 1] = c
    <3>1. c # Cell(t) /\ m_lock'[c] = m_lock[c]
      BY <2>2, <1>1 DEF TypeOK
    <3>2. m_lock[c] # t /\ m_lock[c] \in Threads
      BY <2>2, <3>1 DEF MutexHeld, TypeOK
    <3> QED
      BY <2>2, <3>1, <3>2 DEF MutexHeld, TypeOK, Cell
  <2> QED
    BY <2>1, <2>2 DEF MutexHeld, Cell
<1>5. ValuesCurrent'
  BY <1>3 DEF ValuesCurrent, TypeOK
<1>6. NoUpdateLost'
  BY NoUpdateLostSame DEF StoredBy, TypeOK
<1> QED
  BY <1>2, <1>4, <1>5, <1>6

LEMMA NextIInv == IInv /\ [Next]_vars => IInv'
<1> SUFFICES ASSUME IInv, [Next]_vars PROVE IInv'
  OBVIOUS
<1>1. ASSUME UNCHANGED <<visits, data, m_lock, done, stage, value>>,
             created' \in 0..N
      PROVE  IInv'
  BY <1>1, NoUpdateLostSame
  DEF IInv, TypeOK, MutexHeld, ValuesCurrent, Cell, Finished, StoredBy
<1>2. CASE Create
  BY <1>1, <1>2, HelloAssumption DEF Create, IInv, TypeOK
<1>3. ASSUME NEW t \in Threads, Add(t) PROVE IInv'
  BY <1>3, LockIInv, LoadIInv, StoreIInv, UnlockIInv DEF Add
<1>4. CASE PrintData
  <2> USE <1>4 DEF PrintData, IInv
  <2>1. \A u \in Threads : Cell(u)' = Cell(u) /\ Finished(u)' = Finished(u)
    BY DEF Cell, Finished
  <2>2. TypeOK' /\ ValuesCurrent'
    BY <2>1, HelloAssumption DEF TypeOK, ValuesCurrent, Main, Threads
  <2>3. MutexHeld'
    BY <2>1, HelloAssumption DEF MutexHeld, Critical, TypeOK, Main, Threads
  <2>4. NoUpdateLost'
    BY NoUpdateLostSame DEF StoredBy, TypeOK
  <2> QED
    BY <2>2, <2>3, <2>4
<1>5. CASE UNCHANGED vars
  BY <1>1, <1>5 DEF vars, IInv, TypeOK
<1> QED
  BY <1>2, <1>3, <1>4, <1>5 DEF Next, Exit

\* The inductive invariant holds for every program.
THEOREM Invariance == SafeSpec => []IInv
<1>1. Init => IInv
  BY InitIInv
<1>2. IInv /\ [Next]_vars => IInv'
  BY NextIInv
<1> QED
  BY <1>1, <1>2, PTL DEF SafeSpec

\* No increment is lost, for every number of threads and additions.
THEOREM NoUpdateLostHolds == SafeSpec => []NoUpdateLost
<1>1. IInv => NoUpdateLost
  BY DEF IInv
<1> QED
  BY <1>1, Invariance, PTL

-----------------------------------------------------------------------------
(* The totals                                                              *)

\* main prints after the join of every thread, and nobody adds afterwards.
Joined == stage[Main] = "printed" => \A t \in Threads : Finished(t)

LEMMA JoinedStep == IInv /\ Joined /\ [Next]_vars => Joined'
<1> SUFFICES ASSUME IInv, Joined, [Next]_vars, stage'[Main] = "printed"
             PROVE  \A t \in Threads : Finished(t)'
  BY DEF Joined
<1>1. Main \in Threads
  BY HelloAssumption DEF Main, Threads
<1>2. CASE PrintData
  BY <1>2 DEF PrintData, Finished
<1>3. CASE stage[Main] = "printed"
  <2>1. \A t \in Threads : ~Add(t)
    BY <1>3 DEF Joined, Add, Lock, Load, Store, Unlock, Goto
  <2> QED
    BY <1>3, <2>1 DEF Next, Create, PrintData, Exit, vars, Joined, Finished
<1>4. CASE stage[Main] # "printed" /\ ~PrintData
  <2>1. PICK t \in Threads : Add(t)
    BY <1>4 DEF Next, Create, Exit, vars
  <2>2. stage'[Main] # "printed"
    BY <1>1, <1>4, <2>1 DEF Add, Lock, Load, Store, Unlock, Goto, IInv, TypeOK
  <2> QED
    BY <2>2
<1> QED
  BY <1>2, <1>3, <1>4

\* When every thread is finished everything is stored.
LEMMA AllStored ==
  ASSUME IInv, \A t \in Threads : Finished(t), NEW c \in Cells
  PROVE  Stored(c) = {a \in Additions : visits[a[1]][a[2]] = c}
<1>1. ASSUME NEW a \in Additions PROVE a[2] <= StoredBy(a[1])
  <2>1. PICK t \in Threads : \E i \in DOMAIN visits[t] : a = <<t, i>>
    BY DEF Additions
  <2>2. visits[t] \in Seq(Cells) /\ done[t] = Len(visits[t])
    BY DEF IInv, TypeOK, Finished
  <2>3. StoredBy(t) = Len(visits[t])
    <3>1. stage[t] # "unlock"
      BY DEF IInv, MutexHeld, Critical
    <3>2. Len(visits[t]) \in Nat
      BY <2>2
    <3> QED
      BY ONLY <2>2, <3>1, <3>2 DEF StoredBy
  <2>4. PICK i \in DOMAIN visits[t] : a = <<t, i>>
    BY ONLY <2>1
  <2>5. a[1] = t /\ a[2] = i
    BY ONLY <2>4
  <2>6. i <= Len(visits[t])
    BY ONLY <2>2, <2>4
  <2>7. a[2] <= StoredBy(t)
    BY ONLY <2>3, <2>5, <2>6
  <2> QED
    BY ONLY <2>5, <2>7
<1> QED
  BY <1>1 DEF Stored

\* main prints, for each cell, how many additions the program makes to it.
THEOREM TotalsPrintedHolds == SafeSpec => []TotalsPrinted
<1>1. Init => Joined
  BY HelloAssumption DEF Init, Joined, Main, Threads
<1>2. IInv /\ Joined => TotalsPrinted
  BY AllStored DEF Joined, TotalsPrinted, IInv, NoUpdateLost
<1> QED
  BY <1>1, <1>2, JoinedStep, Invariance, PTL DEF SafeSpec

=============================================================================
