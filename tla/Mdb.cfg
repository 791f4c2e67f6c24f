CONSTANTS
  ChunkSize = 8
  Boot <- MCBoot
  Added <- MCAdded
  Null = Null
  PageSize = 16
  MngSize = 5
  MdbSizes = {3, 4, 32}
  OtherSizes = {2, 16}
  Colours <- MCColours
  MaxOthers = 2
SPECIFICATION Spec
INVARIANTS FreeListSorted OutOfMemory PagesListed BuffersDisjoint
PROPERTY ImplementsMemPool
