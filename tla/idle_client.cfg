SPECIFICATION FairSpec
CONSTANTS
  r1 = r1
  r2 = r2
  ctrl = ctrl
  ctrl2 = ctrl2
  Renderers = {r1, r2}
  Controllers = {ctrl}
  Files <- SceneFiles
  Script <- TwoJobs
  WindowsPerFrame = 2
  BrokenStartup = {}
  BrokenCleanup = {}
  MaxFaults = 0
PROPERTIES
  EveryClientGetsTask
CHECK_DEADLOCK FALSE
