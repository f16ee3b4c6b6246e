SPECIFICATION LiveSpec
CONSTANTS
  Pid = {1, 2}
  NoPid = 0
  NPages = 2
  PCnt = 3
  BlCnt = 2
  File = {f}
  SWAP = s
  FBlock = {0}
  Data = {z, a}
  Zero = z
  Junk = a
  NameOf <- SameName
  Spill = {a}
INVARIANTS
  TypeOK FramesQueued MappedExact BitsAgree FirstFreeLeast CleanMeansSaved
  WritesAllowed AssertionsHold
PROPERTIES
  OnlyStoresWrite ArenasKept CallsReturn
