CONSTANTS
  k1 = k1  k2 = k2  cam1 = cam1  cam2 = cam2
  Checks = {k1}
  Cameras = {cam1}
  CameraOf <- OneCheck
  Expected <- ExpectClosed
  Looks = {"closed", "open", "nothing"}
  SampleCount = 3
  Threads = 3
  MaxFrames = 4
  NoCheck = NoCheck
  NoFrame = NoFrame
  NoCode = NoCode
SPECIFICATION VisionSafety
INVARIANTS VerdictSeen
CHECK_DEADLOCK FALSE
