SPECIFICATION Spec
CONSTANTS
  Boards <- BouncedBoard
  Cmds <- BigRead
  Heaps <- OneHeap
INVARIANTS
  NoWarning
CHECK_DEADLOCK FALSE
