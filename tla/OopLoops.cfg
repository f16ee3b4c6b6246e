SPECIFICATION Spec
CONSTANTS
  PCnt = 5
  Loc = l
INVARIANTS
  LoopsAgree LoopAsserts
PROPERTIES
  LoopsEnd
