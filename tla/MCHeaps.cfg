SPECIFICATION BuildSpec
CONSTANTS
  base_addres = 1
  mem_ammount = 13
  PAGE_SIZE = 2
  Sizes = {0, 1, 2, 3, 5, 7, 14, 15}
  MemAmmounts = {8, 12}
  Requests = {0, 2, 3, 9}
  Width = 4
INVARIANTS
  TypeOK
  BlocksDisjoint
  BitmapDescribesBlocks
  ScanIsFirstFit
  TreeDescribesBlocks
  AllocatedSinksBySlack
PROPERTY
  ImplementsHeap
