\* barrier-testcase2.c with four threads, barrier-testcase4.c with its four
\* threads and three barriers, and barrier-testcase5.c with its ten iterations.
SPECIFICATION Spec
CONSTANTS
  NoThread = 99
  NTHREADS = 4
  Quarter <- MCQuarter
  Loops = 10
INVARIANTS
  TypeOK
  ReadsSettled
  TotalExact
  Alternation
  MainOpensOnly
PROPERTY
  AllExit
