SPECIFICATION FairSpecWithClients
CONSTANTS
  IdleTimeout = 1
  DimWarning = 1
  Debug = FALSE
  ServiceSets <- NoScreensaver
  Faults = {"crash"}
  Signals = {}
  Clients = {c1}
  Lines = {"blank", "wake", "status", "other", "broken"}
  None = None
  MaxStarts = 2
CHECK_DEADLOCK FALSE
PROPERTIES
  InputWakes
