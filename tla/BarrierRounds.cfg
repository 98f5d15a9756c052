\* Four threads, four rounds: enough for a slow leaver of one round to meet
\* later rounds of the same barrier_t.  No symmetry: liveness is checked.
SPECIFICATION Spec
CONSTANTS
  t1 = t1
  t2 = t2
  t3 = t3
  t4 = t4
  Threads = {t1, t2, t3, t4}
  NThreads <- MCNThreads
  NoThread = NoThread
  SpuriousWakeups = FALSE
  Rounds = 4
INVARIANTS
  Lockstep
  NoStrandedWaiter
  IInv
PROPERTY
  ImplementsBarrier
