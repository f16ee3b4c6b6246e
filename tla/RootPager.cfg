SPECIFICATION RootSpec
CONSTANTS
  Pid = {1, 2}
  NoPid = 0
  NPages = 2
  PCnt = 2
  BlCnt = 2
  File = {f}
  FBlock = {0}
  Data = {z}
  Zero = z
  Junk = z
  NameOf <- SameName
  Spill = {}
  Word = 3
CHECK_DEADLOCK FALSE
CONSTRAINT FewFreeFrames
ACTION_CONSTRAINT OneFamily
INVARIANTS
  TypeOK SwapReserved NumswCounts RecordsLive
PROPERTIES ForkAsWhole
