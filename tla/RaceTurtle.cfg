\* hare_tortoise.c:308 says that the Turtle performs in every tick.  The program
\* may stop for good: it hangs when a signal is lost.
SPECIFICATION Spec
CONSTANTS
  Races <- MCOneRace
  NoThread = "nobody"
PROPERTY
  TurtlePerforms
CHECK_DEADLOCK FALSE
