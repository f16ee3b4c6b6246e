SPECIFICATION Spec
CONSTANTS
  Pid = {1, 2}
  NoPid = 0
  NPages = 2
  PCnt = 2
  BlCnt = 2
  File = {f}
  FBlock = {0}
  Data = {z, a}
  Zero = z
  Junk = a
  NameOf <- SameName
  Spill = {z, a}
  Word = 4
CHECK_DEADLOCK FALSE
PROPERTIES ChildInherits
