SPECIFICATION Spec
CONSTANTS
  PCnt = 5
  NoPage = 0
INVARIANTS
  LoopsAgree SecondChance
PROPERTIES
  AllocReturns
