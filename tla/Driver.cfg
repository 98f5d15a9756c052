\* mm.c, correct packages and arbitrary ones.
SPECIFICATION Spec
CONSTANTS
  Word = 64
  HeapLo = 40
  MAX_HEAP = 8
  ALIGNMENT = 2
  ByteSize = 8
  Repeats = 2
  Tests <- MCTests
  Answers <- MCAnswers
  Increments = {0, 4}
INVARIANTS
  TypeOK
  RangesAreLive
  NoPartialOverlap
  DataKept
  AcceptsCorrect
  MmBlocksDisjoint
  MmServesWhatFits
  UtilizationAtMostOne
