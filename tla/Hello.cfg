\* threads.c and nlocks.c, every schedule.
SPECIFICATION Spec
CONSTANTS
  N = 3
  Cells <- MCCells
  NoThread = 99
  Programs <- MCPrograms
INVARIANTS
  NoUpdateLost
  TotalsPrinted
PROPERTY
  Prints
