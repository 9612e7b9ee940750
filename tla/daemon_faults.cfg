SPECIFICATION Spec
CONSTANTS
  IdleTimeout = 1
  DimWarning = 2
  Debug = TRUE
  ServiceSets <- SomeServices
  Faults = {"cec", "unplug", "logind", "crash"}
  Signals = {"int"}
  Clients = {c1}
  Lines = {"blank", "wake", "status", "other", "broken"}
  None = None
  MaxStarts = 2
INVARIANTS
  TypeOK
  TvMatchesState
  CleanExit
  OverlayMatchesState
  RepliesTruthful
PROPERTIES
  FullWarning
  InhibitorRespected
  BlankOnlyWhenQuiet
