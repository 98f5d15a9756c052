------------------------ MODULE BarrierRounds_proofs ------------------------
(***************************************************************************)
(* For every finite group, every number of rounds and condition variables  *)
(* that wake only when signalled, barrier.c keeps the group in lockstep,   *)
(* loses no wakeup and implements the safety half of AbstractBarrier; and  *)
(* its counter has the value the calls made give it, however they wake.    *)
(***************************************************************************)
EXTENDS BarrierRounds, FiniteSetTheorems, TLAPS

-----------------------------------------------------------------------------
(* The set of arrived threads and its size                                 *)

\* The arrived threads are a finite set no larger than the group, and as
\* large as the group only when they are the whole group.
LEMMA ArrivedBounds ==
  /\ IsFiniteSet(Arrived)
  /\ Cardinality(Arrived) \in 0..NThreads
  /\ NThreads \in Nat \ {0}
  /\ Cardinality(Arrived) = NThreads => Arrived = Threads
<1>1. Arrived \in SUBSET Threads
  BY DEF Arrived
<1>2. /\ IsFiniteSet(Arrived)
      /\ Cardinality(Arrived) <= Cardinality(Threads)
      /\ Cardinality(Threads) = Cardinality(Arrived) => Threads = Arrived
  BY <1>1, FS_Subset, GroupAssumption
<1>3. Cardinality(Arrived) \in Nat /\ Cardinality(Threads) \in Nat
  BY <1>2, FS_CardinalityType, GroupAssumption
<1> QED
  BY <1>2, <1>3, GroupAssumption

\* The decrement counts exactly the thread that makes it.
LEMMA ArrivedGrows ==
  ASSUME NEW t \in Threads, stage \in [Threads -> Stages],
         Goto(t, "decrement", "test")
  PROVE  Cardinality(Arrived') = Cardinality(Arrived) + 1
<1>1. Arrived' = Arrived \cup {t} /\ t \notin Arrived
  BY DEF Arrived, Goto, Stages
<1> QED
  BY <1>1, ArrivedBounds, FS_AddElement

-----------------------------------------------------------------------------
(* The inductive invariant                                                 *)

LEMMA InitIInv == Init => IInv
<1> SUFFICES ASSUME Init PROVE IInv
  OBVIOUS
<1> USE DEF Init, BarrierInit
<1>1. Arrived = {}
  BY DEF Arrived
<1>2. Cardinality(Arrived) = 0
  BY <1>1, FS_EmptySet
<1>3. TypeOK
  BY ArrivedBounds, GroupAssumption DEF TypeOK, BarrierTypeOK, Stages
<1>4. MutexHeld
  BY GroupAssumption DEF MutexHeld, Critical
<1>5. ResetAlone
  BY DEF ResetAlone, Resetting
<1>6. CountMissing
  BY <1>2, ArrivedBounds DEF CountMissing
<1>7. RoundsAgree
  BY GroupAssumption DEF RoundsAgree, InRound
<1> QED
  BY <1>3, <1>4, <1>5, <1>6, <1>7 DEF IInv

\* A call begins: the mutex was free, so nobody is at the reset.
LEMMA CallIInv ==
  ASSUME IInv, NEW t \in Threads, Call(t)
  PROVE  IInv'
<1> USE DEF IInv, Call, Lock, Goto, TakeLock
<1>1. TypeOK'
  BY GroupAssumption DEF TypeOK, BarrierTypeOK, Stages
<1>2. MutexHeld'
  BY GroupAssumption DEF MutexHeld, Critical, TypeOK, BarrierTypeOK
<1>3. ~Resetting /\ ~Resetting'
  BY GroupAssumption DEF Resetting, MutexHeld, Critical, TypeOK, BarrierTypeOK
<1>4. ResetAlone'
  BY <1>3 DEF ResetAlone
<1>5. Arrived' = Arrived
  BY DEF Arrived, TypeOK, BarrierTypeOK
<1>6. count # 0
  <2>1. t \notin Arrived
    BY DEF Arrived
  <2> QED
    BY <1>3, <2>1, ArrivedBounds DEF CountMissing
<1>7. CountMissing'
  BY <1>3, <1>5, <1>6 DEF CountMissing
<1>8. RoundsAgree'
  BY GroupAssumption DEF RoundsAgree, InRound, TypeOK, BarrierTypeOK
<1> QED
  BY <1>1, <1>2, <1>4, <1>7, <1>8

\* The decrement: one more thread has arrived, and it is at the test.
LEMMA DecrementIInv ==
  ASSUME IInv, NEW t \in Threads, Decrement(t), UNCHANGED <<entered, left>>
  PROVE  IInv'
<1> USE DEF IInv, Decrement, Goto
<1>1. ~Resetting
  BY DEF ResetAlone, Resetting
<1>2. ~Resetting' /\ stage'[t] = "test"
  BY <1>1 DEF Resetting, TypeOK, BarrierTypeOK
<1>3. Cardinality(Arrived') = Cardinality(Arrived) + 1
  BY ArrivedGrows DEF TypeOK, BarrierTypeOK
<1>4. Cardinality(Arrived) < NThreads
  <2>1. t \notin Arrived
    BY DEF Arrived
  <2> QED
    BY <2>1, ArrivedBounds
<1>5. TypeOK'
  BY <1>1, <1>4, ArrivedBounds DEF TypeOK, BarrierTypeOK, Stages, CountMissing
<1>6. MutexHeld'
  BY DEF MutexHeld, Critical, TypeOK, BarrierTypeOK
<1>7. CountMissing'
  BY <1>1, <1>2, <1>3, <1>4, ArrivedBounds DEF CountMissing
<1>8. RoundsAgree'
  BY DEF RoundsAgree, InRound, TypeOK, BarrierTypeOK
<1> QED
  BY <1>2, <1>5, <1>6, <1>7, <1>8 DEF ResetAlone

\* The wait: the thread stays arrived, and the counter is not zero.
LEMMA WaitIInv ==
  ASSUME IInv, NEW t \in Threads, Wait(t), UNCHANGED <<entered, left>>
  PROVE  IInv'
<1> USE DEF IInv, Wait, Goto
<1>1. ~Resetting /\ ~Resetting'
  BY DEF ResetAlone, Resetting, TypeOK, BarrierTypeOK
<1>2. Arrived' = Arrived
  BY DEF Arrived, TypeOK, BarrierTypeOK
<1>3. TypeOK'
  BY DEF TypeOK, BarrierTypeOK, Stages
<1>4. MutexHeld'
  BY GroupAssumption DEF MutexHeld, Critical, TypeOK, BarrierTypeOK
<1>5. CountMissing'
  BY <1>1, <1>2 DEF CountMissing
<1>6. RoundsAgree'
  BY DEF RoundsAgree, InRound, TypeOK, BarrierTypeOK
<1> QED
  BY <1>1, <1>3, <1>4, <1>5, <1>6 DEF ResetAlone

\* The broadcast: the whole group has arrived, so the next round is complete.
LEMMA BroadcastIInv ==
  ASSUME IInv, NEW t \in Threads, Broadcast(t), UNCHANGED <<entered, left>>
  PROVE  IInv'
<1> USE DEF IInv, Broadcast
<1>1. ~Resetting
  BY DEF ResetAlone, Resetting
<1>2. Arrived = Threads
  BY <1>1, ArrivedBounds DEF CountMissing
<1>3. \A u \in Threads : u = t \/ stage[u] = "waiting"
  BY <1>2 DEF Arrived, MutexHeld, Critical
<1>4. \A u \in Threads : stage'[u] = IF u = t THEN "reset" ELSE "signalled"
  BY <1>3
<1>5. TypeOK'
  BY DEF TypeOK, BarrierTypeOK, Stages
<1>6. MutexHeld'
  BY <1>3, <1>4 DEF MutexHeld, Critical
<1>7. ResetAlone' /\ CountMissing'
  BY <1>4 DEF ResetAlone, CountMissing, Resetting
<1>8. RoundsAgree'
  <2>1. PICK g \in 0..Rounds : \A u \in Threads : InRound(u, g)
    BY DEF RoundsAgree
  <2>2. \A u \in Threads : entered[u] = g + 1 /\ left[u] = g
    BY <1>3, <2>1 DEF InRound
  <2>3. g + 1 \in 0..Rounds
    BY <2>2, GroupAssumption DEF TypeOK
  <2>4. \A u \in Threads : InRound(u, g + 1)'
    BY <1>4, <2>2 DEF InRound
  <2> QED
    BY <2>3, <2>4 DEF RoundsAgree
<1> QED
  BY <1>5, <1>6, <1>7, <1>8

\* The reset: nobody has arrived in the next round yet.
LEMMA ResetIInv ==
  ASSUME IInv, NEW t \in Threads, Reset(t), UNCHANGED <<entered, left>>
  PROVE  IInv'
<1> USE DEF IInv, Reset, Goto
<1>1. \A u \in Threads : u = t \/ stage[u] = "signalled"
  BY DEF ResetAlone, Resetting, MutexHeld, Critical
<1>2. \A u \in Threads : stage'[u] = IF u = t THEN "unlock" ELSE "signalled"
  BY <1>1 DEF TypeOK, BarrierTypeOK
<1>3. ~Resetting'
  BY <1>2 DEF Resetting
<1>4. Cardinality(Arrived') = 0
  <2>1. Arrived' = {}
    BY <1>2 DEF Arrived
  <2> QED
    BY <2>1, FS_EmptySet
<1>5. TypeOK'
  BY ArrivedBounds DEF TypeOK, BarrierTypeOK, Stages
<1>6. MutexHeld'
  BY DEF MutexHeld, Critical, TypeOK, BarrierTypeOK
<1>7. CountMissing'
  BY <1>4, ArrivedBounds DEF CountMissing
<1>8. RoundsAgree'
  BY DEF RoundsAgree, InRound, TypeOK, BarrierTypeOK
<1> QED
  BY <1>3, <1>5, <1>6, <1>7, <1>8 DEF ResetAlone

\* A woken thread has the mutex again: it is not one of the arrived.
LEMMA ReacquireIInv ==
  ASSUME IInv, NEW t \in Threads, Reacquire(t), UNCHANGED <<entered, left>>
  PROVE  IInv'
<1> USE DEF IInv, Reacquire, Goto, TakeLock
<1>1. ~Resetting /\ ~Resetting'
  BY GroupAssumption DEF Resetting, MutexHeld, Critical, TypeOK, BarrierTypeOK
<1>2. Arrived' = Arrived /\ t \notin Arrived
  BY DEF Arrived, TypeOK, BarrierTypeOK
<1>3. count # 0
  BY <1>1, <1>2, ArrivedBounds DEF CountMissing
<1>4. TypeOK'
  BY DEF TypeOK, BarrierTypeOK, Stages
<1>5. MutexHeld'
  BY GroupAssumption DEF MutexHeld, Critical, TypeOK, BarrierTypeOK
<1>6. CountMissing'
  BY <1>1, <1>2, <1>3 DEF CountMissing
<1>7. RoundsAgree'
  BY DEF RoundsAgree, InRound, TypeOK, BarrierTypeOK
<1> QED
  BY <1>1, <1>4, <1>5, <1>6, <1>7 DEF ResetAlone

\* A call returns: its thread has left one more round.
LEMMA ReturnIInv ==
  ASSUME IInv, NEW t \in Threads, Return(t)
  PROVE  IInv'
<1> USE DEF IInv, Return, Unlock, Goto
<1>1. ~Resetting /\ ~Resetting'
  BY DEF Resetting, ResetAlone, TypeOK, BarrierTypeOK
<1>2. Arrived' = Arrived /\ t \notin Arrived
  BY DEF Arrived, TypeOK, BarrierTypeOK
<1>3. count # 0
  BY <1>1, <1>2, ArrivedBounds DEF CountMissing
<1>4. TypeOK'
  BY GroupAssumption
  DEF TypeOK, BarrierTypeOK, Stages, RoundsAgree, InRound
<1>5. MutexHeld'
  BY GroupAssumption DEF MutexHeld, Critical, TypeOK, BarrierTypeOK
<1>6. CountMissing'
  BY <1>1, <1>2, <1>3 DEF CountMissing
<1>7. RoundsAgree'
  BY GroupAssumption DEF RoundsAgree, InRound, TypeOK, BarrierTypeOK
<1> QED
  BY <1>1, <1>4, <1>5, <1>6, <1>7 DEF ResetAlone

LEMMA StutterIInv ==
  ASSUME IInv, UNCHANGED vars
  PROVE  IInv'
BY DEF IInv, vars, TypeOK, BarrierTypeOK, MutexHeld, ResetAlone, Resetting,
       CountMissing, Arrived, RoundsAgree, InRound

\* Every step preserves the invariant when nobody is woken spuriously.
LEMMA NextIInv ==
  ASSUME ~SpuriousWakeups, IInv, [Next]_vars
  PROVE  IInv'
<1>1. CASE \E t \in Threads : Call(t)
  BY <1>1, CallIInv
<1>2. CASE \E t \in Threads : InsideCall(t)
  <2>1. PICK t \in Threads : InsideCall(t)
    BY <1>2
  <2>2. UNCHANGED <<entered, left>>
    BY <2>1 DEF InsideCall
  <2>3. CASE Decrement(t)
    BY <2>2, <2>3, DecrementIInv
  <2>4. CASE Wait(t)
    BY <2>2, <2>4, WaitIInv
  <2>5. CASE Broadcast(t)
    BY <2>2, <2>5, BroadcastIInv
  <2>6. CASE Reset(t)
    BY <2>2, <2>6, ResetIInv
  <2>7. CASE Reacquire(t)
    BY <2>2, <2>7, ReacquireIInv
  <2> QED
    BY <2>1, <2>3, <2>4, <2>5, <2>6, <2>7 DEF InsideCall, Inside, SpuriousWakeup
<1>3. CASE \E t \in Threads : Return(t)
  BY <1>3, ReturnIInv
<1>4. CASE Exit \/ UNCHANGED vars
  BY <1>4, StutterIInv DEF Exit
<1> QED
  BY <1>1, <1>2, <1>3, <1>4 DEF Next

\* The inductive invariant holds in every reachable state.
THEOREM Invariance ==
  ASSUME ~SpuriousWakeups
  PROVE  SafeSpec => []IInv
<1>1. Init => IInv
  BY InitIInv
<1>2. IInv /\ [Next]_vars => IInv'
  BY NextIInv
<1> QED
  BY <1>1, <1>2, PTL DEF SafeSpec

-----------------------------------------------------------------------------
(* What the invariant gives                                                *)

\* No thread crosses a round before every thread has called in it.
LEMMA IInvLockstep == IInv => Lockstep
<1> SUFFICES ASSUME IInv, NEW t \in Threads, NEW u \in Threads
             PROVE  left[t] <= entered[u]
  BY DEF Lockstep
<1>1. PICK g \in 0..Rounds : \A v \in Threads : InRound(v, g)
  BY DEF IInv, RoundsAgree
<1>2. \A v \in Threads : left[v] \in {g - 1, g} /\ entered[v] \in {g, g + 1}
  BY <1>1 DEF IInv, TypeOK, BarrierTypeOK, InRound, Stages
<1> QED
  BY <1>2, GroupAssumption

THEOREM LockstepHolds ==
  ASSUME ~SpuriousWakeups
  PROVE  SafeSpec => []Lockstep
BY IInvLockstep, Invariance, PTL

\* No wakeup is lost.  A blocked thread excludes the reset.  Either somebody
\* has not arrived, and is at most at its decrement, or everybody has, and
\* the counter is zero and the last of them still at the test.
LEMMA IInvNoStrandedWaiter == IInv => NoStrandedWaiter
<1> SUFFICES ASSUME IInv, NEW t \in Threads, stage[t] = "waiting"
             PROVE  \E u \in Threads :
                      \/ entered[u] < entered[t]
                      \/ stage[u] \in {"decrement", "test"}
  BY DEF NoStrandedWaiter
<1>1. PICK g \in 0..Rounds : \A v \in Threads : InRound(v, g)
  BY DEF IInv, RoundsAgree
<1>2. ~Resetting
  BY DEF IInv, ResetAlone
<1>3. CASE Arrived = Threads
  <2>1. count = 0
    BY <1>2, <1>3, GroupAssumption, ArrivedBounds DEF IInv, CountMissing
  <2> QED
    BY <1>2, <2>1 DEF IInv, CountMissing
<1>4. CASE Arrived # Threads
  <2>1. PICK u \in Threads : u \notin Arrived
    BY <1>4 DEF Arrived
  <2>2. stage[u] = "decrement" \/ entered[u] = g
    BY <1>1, <2>1 DEF Arrived, InRound, IInv, TypeOK, BarrierTypeOK, Stages
  <2>3. entered[t] = g + 1
    BY <1>1 DEF InRound
  <2> QED
    BY <2>2, <2>3, GroupAssumption
<1> QED
  BY <1>3, <1>4

THEOREM NoStrandedWaiterHolds ==
  ASSUME ~SpuriousWakeups
  PROVE  SafeSpec => []NoStrandedWaiter
BY IInvNoStrandedWaiter, Invariance, PTL

-----------------------------------------------------------------------------
(* Refinement of the abstract barrier                                      *)

\* A call of the code begins a call of the abstract barrier.
LEMMA CallEnters ==
  ASSUME IInv, NEW t \in Threads, Call(t)
  PROVE  Abstract!Enter(t)
<1>1. entered[t] = left[t]
  BY GroupAssumption DEF IInv, RoundsAgree, InRound, Call, Lock, Goto
<1> QED
  BY <1>1 DEF Call, Abstract!Enter

\* A call of the code returns when the abstract barrier lets it: a thread on
\* its way out is in the latest round that anybody is short of.
LEMMA ReturnLeaves ==
  ASSUME IInv, NEW t \in Threads, Return(t)
  PROVE  Abstract!Leave(t)
<1>1. PICK g \in 0..Rounds : \A u \in Threads : InRound(u, g)
  BY DEF IInv, RoundsAgree
<1>2. entered[t] = g /\ left[t] = g - 1
  BY <1>1 DEF InRound, Return, Unlock, Goto
<1>3. \A u \in Threads : entered[u] \in {g, g + 1}
  BY <1>1 DEF InRound, IInv, TypeOK, BarrierTypeOK, Stages
<1> QED
  BY <1>2, <1>3, GroupAssumption DEF Return, Abstract!Leave

\* Every behaviour of the code is one of the abstract barrier, as far as what
\* may happen goes; that every call does return is left to TLC.
THEOREM Refinement ==
  ASSUME ~SpuriousWakeups
  PROVE  SafeSpec => Abstract!SafeSpec
<1>1. Init => Abstract!Init
  BY DEF Init, Abstract!Init
<1>2. IInv /\ [Next]_vars => [Abstract!Next]_(Abstract!vars)
  <2> SUFFICES ASSUME IInv, [Next]_vars
               PROVE  Abstract!Next \/ UNCHANGED Abstract!vars
    OBVIOUS
  <2>1. CASE \E t \in Threads : Call(t)
    BY <2>1, CallEnters DEF Abstract!Next
  <2>2. CASE \E t \in Threads : Return(t)
    BY <2>2, ReturnLeaves DEF Abstract!Next
  <2>3. CASE \E t \in Threads : InsideCall(t)
    BY <2>3 DEF InsideCall, Abstract!vars
  <2>4. CASE Exit \/ UNCHANGED vars
    BY <2>4 DEF Exit, vars, Abstract!vars
  <2> QED
    BY <2>1, <2>2, <2>3, <2>4 DEF Next
<1> QED
  BY <1>1, <1>2, Invariance, PTL DEF SafeSpec, Abstract!SafeSpec


-----------------------------------------------------------------------------
(* The counter under spurious wakeups                                      *)

\* What is left of it with spurious wakeups: the counter is zero from the last
\* call's decrement to its reset, in which nobody else has the mutex.
ZeroHeld ==
  /\ count = 0 => \E t \in Threads : stage[t] \in {"test", "reset"}
  /\ Resetting => count = 0

\* A call that has begun and not returned is the difference of the two.
CallsAgree ==
  \A t \in Threads :
    entered[t] = left[t] + IF stage[t] = "outside" THEN 0 ELSE 1

SpuriousIInv ==
  /\ TypeOK
  /\ MutexHeld
  /\ ZeroHeld
  /\ CallsAgree
  /\ CountTellsCalls

\* One call more of a group: the remainder goes up by one, and from the last
\* call but one of a group to zero.
LEMMA CallMore ==
  ASSUME NEW n \in Nat \ {0}, NEW a \in Nat
  PROVE  (a + 1) % n = IF a % n = n - 1 THEN 0 ELSE (a % n) + 1
<1> DEFINE q == a \div n
           r == a % n
           p == (a + 1) \div n
           s == (a + 1) % n
<1>1. a = n * q + r /\ r \in 0..n-1 /\ q \in Int
  OBVIOUS
<1>2. a + 1 = n * p + s /\ s \in 0..n-1 /\ p \in Int
  OBVIOUS
<1> SUFFICES s = IF r = n - 1 THEN 0 ELSE r + 1
  OBVIOUS
<1> HIDE DEF q, p, r, s
<1>3. n * (p - q) = r + 1 - s
  BY <1>1, <1>2
<1>4. CASE p - q >= 2
  <2>1. n * (p - q) >= n * 2
    BY <1>1, <1>2, <1>4
  <2> QED
    BY <1>1, <1>2, <1>3, <2>1
<1>5. CASE p - q <= -1
  <2>1. n * (p - q) <= -n
    BY <1>1, <1>2, <1>5
  <2> QED
    BY <1>1, <1>2, <1>3, <2>1
<1>6. CASE p - q = 0
  BY <1>1, <1>2, <1>3, <1>6
<1>7. CASE p - q = 1
  BY <1>1, <1>2, <1>3, <1>7
<1> QED
  BY <1>1, <1>2, <1>4, <1>5, <1>6, <1>7

LEMMA DecrementedFinite ==
  ASSUME TypeOK
  PROVE  /\ IsFiniteSet(Decremented)
         /\ Cardinality(Decremented) \in Nat
         /\ Short \in 0..NThreads - 1
<1>1. IsFiniteSet(1..Rounds) /\ IsFiniteSet(Threads)
  BY FS_Interval, GroupAssumption
<1>2. IsFiniteSet(Threads \X (1..Rounds))
  BY <1>1, FS_Product
<1>3. IsFiniteSet(Decremented) /\ Cardinality(Decremented) \in Nat
  BY <1>2, FS_Subset, FS_CardinalityType DEF Decremented
<1> QED
  BY <1>3, ArrivedBounds DEF Short

LEMMA SpuriousInit == Init => SpuriousIInv
<1> SUFFICES ASSUME Init PROVE SpuriousIInv
  OBVIOUS
<1> USE DEF Init, BarrierInit
<1>1. IInv
  BY InitIInv
<1>2. TypeOK /\ MutexHeld
  BY <1>1 DEF IInv
<1>3. ZeroHeld
  BY GroupAssumption, ArrivedBounds DEF ZeroHeld, Resetting
<1>4. CallsAgree
  <2> SUFFICES ASSUME NEW t \in Threads
               PROVE  entered[t] = left[t] + IF stage[t] = "outside" THEN 0 ELSE 1
    BY DEF CallsAgree
  <2>1. entered[t] = 0 /\ left[t] = 0 /\ stage[t] = "outside"
    OBVIOUS
  <2> HIDE DEF Init, BarrierInit
  <2> QED
    BY <2>1
<1>5. Decremented = {}
  BY GroupAssumption DEF Decremented
<1>6. CountTellsCalls
  <2>1. Short = 0
    BY <1>5, FS_EmptySet, ArrivedBounds DEF Short
  <2>2. ~Filled
    BY DEF Filled
  <2> QED
    BY <2>1, <2>2, ArrivedBounds DEF CountTellsCalls
<1> QED
  BY <1>2, <1>3, <1>4, <1>6 DEF SpuriousIInv

\* A step that leaves the counter and the calls alone, and the group as full
\* as it was.
LEMMA SameCalls ==
  ASSUME SpuriousIInv, count' = count, Decremented' = Decremented,
         Filled' <=> Filled
  PROVE  CountTellsCalls'
BY DEF SpuriousIInv, CountTellsCalls, Short

\* A counter of zero is that of a full group.
LEMMA ZeroFilled ==
  ASSUME SpuriousIInv, count = 0
  PROVE  Filled
BY DecrementedFinite, ArrivedBounds DEF SpuriousIInv, CountTellsCalls

LEMMA SpuriousNext == SpuriousIInv /\ [Next]_vars => SpuriousIInv'
<1> SUFFICES ASSUME SpuriousIInv, [Next]_vars
             PROVE  SpuriousIInv'
  OBVIOUS
<1> USE GroupAssumption DEF SpuriousIInv, Goto, TakeLock
<1>1. ASSUME NEW t \in Threads, Call(t)
      PROVE  SpuriousIInv'
  <2> USE <1>1 DEF Call, Lock
  <2>1. TypeOK'
    BY DEF TypeOK, BarrierTypeOK, Stages
  <2>2. MutexHeld'
    BY DEF MutexHeld, Critical, TypeOK, BarrierTypeOK
  <2>3. ZeroHeld'
    BY DEF ZeroHeld, MutexHeld, Critical, Resetting, TypeOK, BarrierTypeOK
  <2>4. CallsAgree'
    BY DEF CallsAgree, TypeOK, BarrierTypeOK
  <2>5. Decremented' = Decremented
    BY DEF Decremented, TypeOK, BarrierTypeOK
  <2>6. ~Filled /\ ~Filled'
    BY DEF Filled, MutexHeld, Critical, TypeOK, BarrierTypeOK
  <2> QED
    BY <2>1, <2>2, <2>3, <2>4, <2>5, <2>6, SameCalls
<1>2. ASSUME NEW t \in Threads, Decrement(t), UNCHANGED <<entered, left>>
      PROVE  SpuriousIInv'
  <2> USE <1>2 DEF Decrement
  <2>1. count # 0
    BY DEF ZeroHeld, MutexHeld, Critical, TypeOK, BarrierTypeOK
  <2>2. TypeOK'
    BY <2>1, ArrivedBounds DEF TypeOK, BarrierTypeOK, Stages
  <2>3. MutexHeld'
    BY DEF MutexHeld, Critical, TypeOK, BarrierTypeOK
  <2>4. ZeroHeld'
    BY <2>1 DEF ZeroHeld, MutexHeld, Critical, Resetting, TypeOK, BarrierTypeOK
  <2>5. CallsAgree'
    BY DEF CallsAgree, TypeOK, BarrierTypeOK
  <2>6. entered[t] \in 1..Rounds
    BY DEF CallsAgree, TypeOK, BarrierTypeOK
  <2>7. <<t, entered[t]>> \notin Decremented
    BY DEF Decremented, TypeOK, BarrierTypeOK
  <2>8. Decremented' = Decremented \cup {<<t, entered[t]>>}
    BY <2>6 DEF Decremented, TypeOK, BarrierTypeOK
  <2>9. Cardinality(Decremented') = Cardinality(Decremented) + 1
    BY <2>7, <2>8, DecrementedFinite, FS_AddElement
  <2>10. CountTellsCalls'
    <3>1. ~Filled
      BY DEF Filled, MutexHeld, Critical, TypeOK, BarrierTypeOK
    <3>2. count = NThreads - Short
      BY <3>1 DEF CountTellsCalls
    <3>3. Short' = IF Short = NThreads - 1 THEN 0 ELSE Short + 1
      BY <2>9, DecrementedFinite, ArrivedBounds, CallMore DEF Short
    <3>4. \E u \in Threads : stage'[u] \in {"test", "reset"}
      BY DEF TypeOK, BarrierTypeOK
    <3>5. CASE Short = NThreads - 1
      <4>1. Filled' /\ count' = 0
        BY <3>2, <3>3, <3>4, <3>5, DecrementedFinite, ArrivedBounds DEF Filled
      <4> QED
        BY <4>1 DEF CountTellsCalls
    <3>6. CASE Short # NThreads - 1
      <4>1. ~Filled'
        BY <3>3, <3>6, DecrementedFinite DEF Filled
      <4>2. count' = NThreads - Short'
        BY <3>2, <3>3, <3>6, DecrementedFinite, ArrivedBounds
      <4> QED
        BY <4>1, <4>2 DEF CountTellsCalls
    <3> QED
      BY <3>5, <3>6
  <2> QED
    BY <2>2, <2>3, <2>4, <2>5, <2>10
<1>3. ASSUME NEW t \in Threads, UNCHANGED <<entered, left>>,
             Wait(t) \/ Broadcast(t) \/ SpuriousWakeup(t) \/ Reacquire(t)
      PROVE  SpuriousIInv'
  <2> USE <1>3 DEF Wait, Broadcast, SpuriousWakeup, Reacquire
  <2>1. TypeOK'
    BY DEF TypeOK, BarrierTypeOK, Stages
  <2>2. MutexHeld'
    BY DEF MutexHeld, Critical, TypeOK, BarrierTypeOK
  <2>3. ZeroHeld'
    BY DEF ZeroHeld, MutexHeld, Critical, Resetting, TypeOK, BarrierTypeOK
  <2>4. CallsAgree'
    BY DEF CallsAgree, TypeOK, BarrierTypeOK
  <2>5. \A u \in Threads : stage'[u] = "decrement" <=> stage[u] = "decrement"
    BY DEF TypeOK, BarrierTypeOK
  <2>6. Decremented' = Decremented
    BY <2>5 DEF Decremented
  <2>7. Short' = Short
    BY <2>6 DEF Short
  <2>8. ASSUME Wait(t) PROVE Filled' <=> Filled
    <3>1. ~Filled
      BY <2>8 DEF CountTellsCalls
    <3>2. Short # 0
      BY <2>8, <3>1 DEF Filled
    <3> HIDE <1>3 DEF Wait, Broadcast, SpuriousWakeup, Reacquire, SpuriousIInv
    <3>3. ~Filled'
      BY <2>7, <3>2 DEF Filled
    <3> QED
      BY <3>1, <3>3
  <2>9. ASSUME Broadcast(t) PROVE Filled' <=> Filled
    <3>1. Filled
      BY <2>9, ZeroFilled
    <3>2. stage'[t] = "reset"
      BY <2>9 DEF TypeOK, BarrierTypeOK
    <3> HIDE <1>3 DEF Wait, Broadcast, SpuriousWakeup, Reacquire, SpuriousIInv
    <3>3. Filled'
      BY <2>7, <3>1, <3>2 DEF Filled
    <3> QED
      BY <3>1, <3>3
  <2>10. ASSUME SpuriousWakeup(t) \/ Reacquire(t) PROVE Filled' <=> Filled
    <3>1. \A u \in Threads :
            stage'[u] \in {"test", "reset"} <=> stage[u] \in {"test", "reset"}
      BY <2>10 DEF TypeOK, BarrierTypeOK
    <3> HIDE <1>3 DEF Wait, Broadcast, SpuriousWakeup, Reacquire, SpuriousIInv
    <3> QED
      BY <2>7, <3>1 DEF Filled
  <2>11. Filled' <=> Filled
    <3> HIDE DEF Wait, Broadcast, SpuriousWakeup, Reacquire, SpuriousIInv
    <3> QED
      BY <1>3, <2>8, <2>9, <2>10
  <2>12. CountTellsCalls'
    BY <2>6, <2>11, SameCalls
  <2> QED
    BY <2>1, <2>2, <2>3, <2>4, <2>12
<1>4. ASSUME NEW t \in Threads, Reset(t), UNCHANGED <<entered, left>>
      PROVE  SpuriousIInv'
  <2> USE <1>4 DEF Reset
  <2>1. count = 0
    BY DEF ZeroHeld, Resetting
  <2>2. TypeOK'
    BY ArrivedBounds DEF TypeOK, BarrierTypeOK, Stages
  <2>3. MutexHeld'
    BY DEF MutexHeld, Critical, TypeOK, BarrierTypeOK
  <2>4. ZeroHeld'
    BY ArrivedBounds DEF ZeroHeld, MutexHeld, Critical, Resetting, TypeOK, BarrierTypeOK
  <2>5. CallsAgree'
    BY DEF CallsAgree, TypeOK, BarrierTypeOK
  <2>6. Decremented' = Decremented
    BY DEF Decremented, TypeOK, BarrierTypeOK
  <2>7. CountTellsCalls'
    <3>1. Short' = 0
      BY <2>1, <2>6, ZeroFilled DEF Filled, Short
    <3>2. ~Filled'
      BY DEF Filled, MutexHeld, Critical, TypeOK, BarrierTypeOK
    <3> QED
      BY <3>1, <3>2, ArrivedBounds DEF CountTellsCalls
  <2> QED
    BY <2>2, <2>3, <2>4, <2>5, <2>7
<1>5. ASSUME NEW t \in Threads, Return(t)
      PROVE  SpuriousIInv'
  <2> USE <1>5 DEF Return, Unlock
  <2>1. left[t] < Rounds
    BY DEF CallsAgree, TypeOK, BarrierTypeOK
  <2>2. TypeOK'
    BY <2>1 DEF TypeOK, BarrierTypeOK, Stages
  <2>3. MutexHeld'
    BY DEF MutexHeld, Critical, TypeOK, BarrierTypeOK
  <2>4. ZeroHeld'
    BY DEF ZeroHeld, MutexHeld, Critical, Resetting, TypeOK, BarrierTypeOK
  <2>5. CallsAgree'
    BY DEF CallsAgree, TypeOK, BarrierTypeOK
  <2>6. Decremented' = Decremented
    BY DEF Decremented, TypeOK, BarrierTypeOK
  <2>7. ~Filled /\ ~Filled'
    BY DEF Filled, MutexHeld, Critical, TypeOK, BarrierTypeOK
  <2> QED
    BY <2>2, <2>3, <2>4, <2>5, <2>6, <2>7, SameCalls
<1>6. CASE UNCHANGED vars
  <2> USE <1>6 DEF vars
  <2>1. TypeOK' /\ MutexHeld' /\ ZeroHeld' /\ CallsAgree'
    BY DEF TypeOK, BarrierTypeOK, MutexHeld, ZeroHeld, Resetting, CallsAgree
  <2>2. CountTellsCalls'
    BY DEF CountTellsCalls, Filled, Short, Decremented
  <2> QED
    BY <2>1, <2>2
<1> QED
  BY <1>1, <1>2, <1>3, <1>4, <1>5, <1>6 DEF Next, InsideCall, Inside, Exit

LEMMA SpuriousAlways == SafeSpec => []SpuriousIInv
BY SpuriousInit, SpuriousNext, PTL DEF SafeSpec

\* The types of the variables, with the counter between zero and the group,
\* whether wakeups are signalled or not.
THEOREM TypeCorrect == SafeSpec => []TypeOK
<1>1. SpuriousIInv => TypeOK
  BY DEF SpuriousIInv
<1> QED
  BY <1>1, SpuriousAlways, PTL

\* Whichever threads wake without a signal and run ahead of their round, the
\* counter is what the group that is filling still misses, and zero only until
\* the call that fills it restores it: no decrement and no reset is lost or
\* repeated.
THEOREM CountTellsCallsHolds == SafeSpec => []CountTellsCalls
<1>1. SpuriousIInv => CountTellsCalls
  BY DEF SpuriousIInv
<1> QED
  BY <1>1, SpuriousAlways, PTL

=============================================================================
