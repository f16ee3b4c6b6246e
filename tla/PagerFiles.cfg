SPECIFICATION CleanSpec
CONSTANTS
  Pid = {1, 2}
  NoPid = 0
  NPages = 2
  PCnt = 3
  BlCnt = 2
  File = {f}
  FBlock = {0}
  Data = {z, a}
  Zero = z
  Junk = a
  NameOf <- SameName
  Spill = {}
  Word = 4
INVARIANTS
  FramesPartitioned CoreExact AccessesSeen CleanMeansSaved WritesAllowed OneBacking
  AssertionsHold
PROPERTIES
  OnlyStoresWrite ArenasKept
