\* The claim of barrier-testcase3.c under POSIX's spurious wakeups.
SPECIFICATION SafeSpec
CONSTANTS
  t1 = t1
  t2 = t2
  Threads = {t1, t2}
  NThreads <- MCNThreads
  NoThread = NoThread
  SpuriousWakeups = TRUE
  Rounds = 2
INVARIANT
  Lockstep
