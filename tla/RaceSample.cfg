\* The race of Testcases/test_format.txt names the Hare as its winner.
SPECIFICATION NapsSpec
CONSTANT
  Races <- MCInputFiles
INVARIANT
  ExpectedWinner
