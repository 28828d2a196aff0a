SPECIFICATION Spec
CONSTANTS
  a = a
  b = b
  Chars = {a, b}
  Numbers <- MCSlotNumbers
  NewNumbers <- MCNewNumbers
  Slots = 4
  SlotLen = 2
  PrefixLen = 1
  BufferLen = 4
  MaxFaults = 1
INVARIANTS ManagerStays
