SPECIFICATION InboxSpec
CONSTANTS
  m1 = m1
  m2 = m2
  m3 = m3
  Header = Header
  Ok = Ok
  Error = Error
  Nothing = Nothing
  Messages <- MCMessages
  Capacity = 2
  MaxFaults = 0
CHECK_DEADLOCK FALSE
PROPERTIES EveryCommandReceived
