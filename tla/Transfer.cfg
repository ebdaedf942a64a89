SPECIFICATION FairSpec
CONSTANTS
  Boards <- AllBoards
  Cmds <- AllCmds
  Heaps <- AllHeaps
INVARIANTS
  TypeOK
  Placed
  Complete
  WellFormed
  Agreed
  Watched
  EndedOnce
  Counted
PROPERTIES
  Ends
CHECK_DEADLOCK FALSE
