\* mdriver.c:649 says that the data of the old block is compared.  Four byte
\* values, so that 2 stands for 128 of 256.
SPECIFICATION Spec
CONSTANTS
  Word = 64
  HeapLo = 40
  MAX_HEAP = 8
  ALIGNMENT = 2
  ByteSize = 4
  Repeats = 2
  Tests <- MCHighIndex
  Answers <- MCAnswers
  Increments = {0, 4, 8}
INVARIANT
  AcceptsCorrect
