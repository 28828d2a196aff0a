SPECIFICATION PromiseSpec
CONSTANTS
  o1 = o1
  o2 = o2
  Outputs <- MCOutputs
  GpioReady <- MCOutputs
  Word = 32
  Second = 2
  Day = 3
  BootTime = 1
  ForSeconds <- MCForSeconds
  UntilTargets <- MCUntilTargets
  RestartDrops = FALSE
SYMMETRY Symmetry
INVARIANTS PromiseTypeOK KeptOn SwitchesOffInTime
