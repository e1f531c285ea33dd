SPECIFICATION PartSpec
CONSTANTS
  v = v
  w = w
  null = null
  nothing = nothing
  vm = vm
  a = a
  b = b
  c = c
  Keys <- MCKeys
  Vals <- MCVals
  Null = null
  Hash <- MCHash
  InitialSizes <- MCSizes
  Objects <- MCObjects
  NoObject = nothing
  ObjectHash <- MCAddress
  MaxRefs = 2
  Strings <- MCStrings
  StringHash <- MCStringHash
  Root = vm
  Things <- MCThings
  NoThing = nothing
  Width <- MCWidth
  MaxOwned = 2
SYMMETRY Symmetric
INVARIANTS FreeIsFree AllAreFound LoopIsExact CountsHolders ListsPartition StringsAreUnique NothingDangles GarbageGoes MarkingReaches
PROPERTY DictSpec
CHECK_DEADLOCK FALSE
