SPECIFICATION FairSpec
CONSTANTS
  Top = 8
  StickTop = 4
  Share = 2
  Deadzone = 2
  Touch = {grip}
  Event = {e1}
  Hidraw = {h1}
  Ignored = {}
  Infos <- MCInfos
  Samples <- MCSamples
  Sticks <- MCSticks
  Buttons = {a, grip}
CHECK_DEADLOCK FALSE
INVARIANTS
  TypeOK
  OneReader
PROPERTIES
  
  EventuallyWatched
