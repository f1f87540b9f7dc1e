SPECIFICATION Spec
CONSTANTS
  r1 = r1
  r2 = r2
  ctrl = ctrl
  ctrl2 = ctrl2
  Renderers = {r1, r2}
  Controllers = {ctrl}
  Files <- SceneFiles
  Script <- ThreeJobs
  WindowsPerFrame = 2
  BrokenStartup = {"c"}
  BrokenCleanup = {}
  MaxFaults = 1
SYMMETRY RendererSymmetry
INVARIANTS
  ServesFrontJob
  FilmForEveryTask
  FramesInOrder
  SamplesMatchFilm
  StartsClean
  EveryFrameOnDisk
PROPERTIES
  EndedFrameIsFinal
CHECK_DEADLOCK FALSE
