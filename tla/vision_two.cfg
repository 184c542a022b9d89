CONSTANTS
  k1 = k1  k2 = k2  cam1 = cam1  cam2 = cam2
  Checks = {k1, k2}
  Cameras = {cam1, cam2}
  CameraOf <- TwoRobots
  Expected <- BothClosed
  Looks = {"closed"}
  SampleCount = 1
  Threads = 2
  MaxFrames = 1
  NoCheck = NoCheck
  NoFrame = NoFrame
  NoCode = NoCode
SPECIFICATION VisionSpec
INVARIANTS ThrottleRestored NoCameraLeft
PROPERTIES AnswersChecks
CHECK_DEADLOCK FALSE
