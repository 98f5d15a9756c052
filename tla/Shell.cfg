\* Short sessions, a file of commands, every redirection, and two ^C.
SPECIFICATION Spec
CONSTANTS
  Pids = {1, 2, 3, 4, 5}
  Shell = 1
  Scripts <- MCScripts
  Batch <- MCBatch
  Programs <- MCPrograms
  Readable = {"input.txt"}
  Writable = {"output.txt"}
  Directories = {"home", "directory"}
  Pipes = {"p1", "p2", "p3", "p4"}
  Capacity = 2
  Interrupts = 2
INVARIANTS
  TypeOK
  NoChildLeft
  ConnectedAsWritten
  DescriptorsKept
PROPERTIES
  LineEnds
  HangsForGood
CHECK_DEADLOCK FALSE
