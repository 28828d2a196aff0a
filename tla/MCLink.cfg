SPECIFICATION Spec
CONSTANTS
  Faults <- FaultKinds
  MaxFaults = 3
  MaxGets = 1
  MaxId = 50
  Word = 52
INVARIANTS TypeOK NeverAhead GreetingLast
PROPERTIES GreetsDespiteATFaults
