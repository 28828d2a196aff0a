SPECIFICATION Spec
CONSTANTS
  one = one
  two = two
  newline = newline
  Keys <- MCKeys
  OtherChars <- MCOtherChars
  BufferLen = 2
  DriverLen = 3
INVARIANTS SerialTypeOK SlowTypingWorks
PROPERTIES KeysClearNothing TypedIsRead
