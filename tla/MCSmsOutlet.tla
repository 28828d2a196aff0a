---------------------------- MODULE MCSmsOutlet -----------------------------
(* The manager's first message, one that adds a user and one of that user, *)
(* who may add nobody; numbers of two characters.                          *)
EXTENDS SmsOutlet

CONSTANTS a, b, c

MCNumbers == {<<a, a>>, <<b, b>>}
MCNewNumbers == {<<b, b>>, <<c, c>>, <<c>>}
MCMessages ==
  { [id |-> 1, from |-> <<a, a>>, adds |-> <<>>],
    [id |-> 2, from |-> <<a, a>>, adds |-> <<b, b>>],
    [id |-> 3, from |-> <<b, b>>, adds |-> <<c, c>>] }
=============================================================================
