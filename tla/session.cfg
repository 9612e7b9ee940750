SPECIFICATION FairSession
CONSTANTS
  Opacities = {"clear", "dim", "opaque"}
  Clear = "clear"
  Displays = {"unset"}
  MaxQueue = 2
  MaxOutages = 1
  IdleTimeout = 1
  DimWarning = 1
  Debug = FALSE
  ServiceSets = {{"overlay", "logind"}}
  Faults = {"crash", "unplug"}
  Signals = {"term"}
  Clients = {c1}
  Lines = {"blank", "wake"}
  None = None
  MaxStarts = 2
  MaxTrouble = 1
CHECK_DEADLOCK FALSE
INVARIANTS
  TypeOK
  HearsTheLastWord
  NoStaleFrame
  NoOrphanFrame
  GlassMatchesState
PROPERTIES
  TouchLights
  DarkWhenAlone
  RegisterSurvives
