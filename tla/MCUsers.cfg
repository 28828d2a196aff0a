SPECIFICATION Spec
CONSTANTS
  a = a
  b = b
  Chars = {a, b}
  Numbers <- MCNumbers
  NewNumbers <- MCNewNumbers
  Slots = 4
  SlotLen = 2
  PrefixLen = 1
  BufferLen = 4
  MaxFaults = 2
INVARIANTS UsersTypeOK ManagerKept StoredUsersKnown FileFits
