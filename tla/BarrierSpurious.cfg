\* pthread_cond_wait may return unsignalled: what still holds.
SPECIFICATION SafeSpec
CONSTANTS
  t1 = t1
  t2 = t2
  t3 = t3
  Threads = {t1, t2, t3}
  NThreads <- MCNThreads
  NoThread = NoThread
  SpuriousWakeups = TRUE
  Rounds = 3
SYMMETRY ThreadSymmetry
INVARIANTS
  CountTellsCalls
