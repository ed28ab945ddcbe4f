SPECIFICATION MCSpec
CONSTANTS
  Elem = {1, 2, 3}
  List = {1, 2}
  Keys <- MCKeys
  HashElem = {1, 2, 3, 4, 5}
  KeyOf <- MCKeyOf
  HashOf <- MCHashOf
  MinBuckets = 1
  BEST_ELEMS_PER_BUCKET = 1
  ELEM_BITS = 8
  PGSIZE = 16
  ArenaSize = 4
  BitmapSize = 2
  MinBlock = 3
  SizeMod = 64
  FirstPage = 1
  RamPages = 9
  UserLimit = 3
  Requests = {2, 5, 13, 55, 62}
  Factors <- MCFactors
  MaxLive = 3
  HalfBits = 4
  RcSize = 4
  Bits <- MCBits
  BufSize = 8
  UlongMax = 4095
  IntMax = 2047
  NameSize = 4
  SizeSize = 6
  MaxText = 3
  MaxLine = 7
  StackPage = 48
  Values <- MCValues
  Loops <- MCLoops
  MapBits = 9
INVARIANTS BucketsConsistent MemoryAccounted LibraryAgrees ArgumentsOnStack
PROPERTIES ImplementsSequences BehavesAsSet
