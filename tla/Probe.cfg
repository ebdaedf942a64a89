SPECIFICATION FairSpec
CONSTANTS
  Boards <- AllBoards
  Controllers <- AllControllers
  Scarce <- AllScarce
  MaxLoops = 2
  MaxEvents = 4
INVARIANTS
  TypeOK
  Armed
  WakesWaiters
  Undone
  
  KeepsTo33
PROPERTIES
  Noticed
