SPECIFICATION CleanSpec
CONSTANTS
  Pid = {1, 2}
  NoPid = 0
  NPages = 2
  PCnt = 2
  BlCnt = 1
  File = {f}
  FBlock = {0}
  Data = {z, a}
  Zero = z
  Junk = a
  NameOf <- SameName
  Spill = {}
  Word = 4
PROPERTIES CowOfGhost
