SPECIFICATION Spec
CONSTANTS
  a = a
  b = b
  c = c
  Header = Header
  Ok = Ok
  Error = Error
  Nothing = Nothing
  Messages <- MCMessages
  Chars = {a, b, c}
  Numbers <- MCNumbers
  NewNumbers <- MCNewNumbers
  Capacity = 3
  Slots = 4
  SlotLen = 2
  PrefixLen = 1
  BufferLen = 4
  MaxFaults = 2
CHECK_DEADLOCK FALSE
INVARIANTS InboxTypeOK ObeyedInOrder RepeatsOnlyOvertaken LossesBounded EveryoneLetInIsKnown
PROPERTIES WaitingIsObeyed
