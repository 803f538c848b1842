SPECIFICATION MCSpec
CONSTANTS
  one = one
  two = two
  single = single
  Hw = {one, two, single}
  Instances <- ThreeModules
  Linked <- LinkedModules
  MaxDev = 4
  CountMod = 2
  Files = {f1, f2}
  NoFile = NoFile
  NoHw = NoHw
INVARIANT TypeOK
PROPERTY SortedWalkFindsFree
INVARIANT OpenCountsRight
INVARIANT NothingFreedInUse
