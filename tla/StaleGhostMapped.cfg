SPECIFICATION FlatSpec
CONSTANTS
  Pid = {1, 2}
  NoPid = 0
  NPages = 3
  PCnt = 2
  BlCnt = 2
  File = {f}
  FBlock = {0, 1}
  Data = {z, a}
  Zero = z
  Junk = a
  NameOf <- SameName
  Spill = {}
  Word = 4
INVARIANT BackedAsMapped
