SPECIFICATION Spec
CONSTANTS
  IdleTimeout = 1
  DimWarning = 0
  Debug = FALSE
  ServiceSets <- SomeServices
  Faults = {"logind"}
  Signals = {"usr2", "term"}
  Clients = {c1}
  Lines = {"blank", "wake", "status", "other", "broken"}
  None = None
  MaxStarts = 2
PROPERTIES
  InhibitorRespected
  BlankOnlyWhenQuiet
