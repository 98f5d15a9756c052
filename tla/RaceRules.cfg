\* Every small race: arrays in order, out of order, with equal times; and the
\* three input files of Testcases, with the numbers they have.
SPECIFICATION NapsSpec
CONSTANT
  Races <- MCRaces
INVARIANTS
  RulesTypeOK
  WinnerAtFinish
  AppliedInOrder
  NapLength
PROPERTY
  SomebodyWins
