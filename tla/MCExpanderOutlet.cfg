SPECIFICATION OutletSpec
CONSTANTS
  MaxPins = 3
  Outputs <- MCOutputs
  Word = 16
  Second = 3
  Day = 3
  BootTime = 1
  ForSeconds <- MCForSeconds
  UntilTargets <- MCUntilTargets
INVARIANTS OutletTypeOK AnswerIsTrue NoLightForgotten
PROPERTY TimersDarken
