SPECIFICATION FairSpec
CONSTANTS
  Opacities = {"clear", "dim", "opaque"}
  Clear = "clear"
  Faults = {"globals", "closed", "draw"}
  MaxSets = 3
  MaxOutages = 2
CHECK_DEADLOCK FALSE
INVARIANTS
  TypeOK
  HearsTheLastWord
  NoEarlyBuffer
  ShowsTheLastWord
PROPERTIES
  Converges
  ImplementsRegister
