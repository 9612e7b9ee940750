SPECIFICATION Spec
CONSTANTS
  Top = 16
  StickTop = 8
  Share = 4
  Deadzone = 1
  Touch = {}
  Event = {e1}
  Hidraw = {}
  Ignored = {}
  Infos <- StickInfos
  Samples <- StickSamples
  Sticks = {}
  Buttons = {}
CHECK_DEADLOCK FALSE
INVARIANTS
  PushesCount
