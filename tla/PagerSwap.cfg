SPECIFICATION CleanSpec
CONSTANTS
  Pid = {1, 2}
  NoPid = 0
  NPages = 2
  PCnt = 3
  BlCnt = 3
  File = {f}
  FBlock = {0}
  Data = {z, a}
  Zero = z
  Junk = a
  NameOf <- SameName
  Spill = {z, a}
  Word = 4
INVARIANTS
  NoRepeatedFault
PROPERTIES
  OnlyStoresWrite ArenasKept
