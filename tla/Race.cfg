\* Every schedule of the five threads.  The program may stop for good: when a
\* signal was lost, or when main has returned.
SPECIFICATION Spec
CONSTANTS
  Races <- MCRaces
  NoThread = "nobody"
INVARIANTS
  TypeOK
  LocksOwned
  SerialActors
  FirstCallHeard
PROPERTIES
  FollowsRules
  EndsUnlessSignalLost
CHECK_DEADLOCK FALSE
