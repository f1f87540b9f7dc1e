SPECIFICATION FairSpec
CONSTANTS
  r1 = r1
  r2 = r2
  ctrl = ctrl
  ctrl2 = ctrl2
  Renderers = {r1, r2}
  Controllers = {ctrl, ctrl2}
  Files <- SceneFiles
  Script <- TwoControllers
  WindowsPerFrame = 3
  BrokenStartup = {}
  BrokenCleanup = {"b"}
  MaxFaults = 0
INVARIANTS
  TypeOK
  OneTask
  ServesFrontJob
  ScanOrder
  FirstFrameComplete
  FramesComplete
PROPERTIES
  SceneEventuallyEnds
CHECK_DEADLOCK FALSE
