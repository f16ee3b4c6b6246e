SPECIFICATION CleanSpec
CONSTANTS
  Pid = {1, 2}
  NoPid = 0
  NPages = 3
  PCnt = 2
  BlCnt = 2
  File = {f}
  FBlock = {0, 1}
  Data = {z}
  Zero = z
  Junk = z
  NameOf <- SameName
  Spill = {}
  Word = 4
INVARIANTS
  FilemapExact BackedAsMapped
