SPECIFICATION Spec
CONSTANTS
  o1 = o1
  o4 = o4
  Outputs <- MCOutputs
  GpioReady <- MCGpioReady
  Word = 16
  Second = 3
  Day = 3
  BootTime = 1
  ForSeconds <- MCForSeconds
  UntilTargets <- MCUntilTargets
  RestartDrops = FALSE
INVARIANTS TypeOK PinsFollowData
PROPERTIES RunningTimerSwitchesOff ImplementsTimedSwitches
