SPECIFICATION Spec
CONSTANTS
  AnySecond <- MCAnySecond
  Unit = 128
  Word = 33554432
  Written <- MCWritten
  Lines <- MCLines
  Greeting <- MCGreeting
  UsersAnswer <- MCUsersAnswer
  Dates <- MCDates
  Times <- MCTimes
  MaxTexts = 2
INVARIANT TextsTypeOK
PROPERTIES DoesAsMeant TopicFallsQuiet DaysAreCounted
CHECK_DEADLOCK FALSE
