SPECIFICATION FairSpec
CONSTANTS
  Apps = {a1, a2}
  CookieMax = 3
  MaxCalls = 4
CHECK_DEADLOCK FALSE
INVARIANTS
  TypeOK
  HonoursHeld
  OnlyRealHolders
  NothingPinned
PROPERTIES
  GoneReaped
  ReleasedInTheEnd
