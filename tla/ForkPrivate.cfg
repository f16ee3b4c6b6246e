SPECIFICATION Spec
CONSTANTS
  Pid = {1, 2}
  NoPid = 0
  NPages = 2
  PCnt = 3
  BlCnt = 4
  File = {f}
  FBlock = {0}
  Data = {z, a}
  Zero = z
  Junk = a
  NameOf <- SameName
  Spill = {z, a}
  Word = 5
CHECK_DEADLOCK FALSE
INVARIANT StoresPrivate
