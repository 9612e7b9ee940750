SPECIFICATION FairSpec
CONSTANTS
  IdleTimeout = 1
  DimWarning = 1
  Debug = FALSE
  ServiceSets <- NoScreensaver
  Faults = {}
  Signals = {}
  Clients = {c1}
  Lines = {"blank", "wake", "status", "other", "broken"}
  None = None
  MaxStarts = 1
CHECK_DEADLOCK FALSE
PROPERTIES
  InputWakes
