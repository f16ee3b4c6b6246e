SPECIFICATION LiveSpec
CONSTANTS
  Pid = {1}
  NoPid = 0
  NPages = 3
  PCnt = 2
  BlCnt = 2
  File = {f, g}
  FBlock = {0}
  Data = {z, a, s}
  Zero = z
  Junk = s
  NameOf <- TwoNames
  Spill = {s}
  Word = 3
PROPERTIES
  NameRead CallsReturn
