SPECIFICATION Spec
CONSTANTS
  Faults <- MCRaceFaults
  MaxFaults = 2
  MaxGets = 0
  MaxId = 50
  Word = 52
INVARIANTS PublishesWhenSubscribed
