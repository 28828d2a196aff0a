----------------------------- MODULE SmsOutlet ------------------------------
(***************************************************************************)
(* The two halves of command by SMS together: SmsInbox brings the messages *)
(* and Users obeys them.  A message names its sender and its command; the  *)
(* file system does not fail here, as it does in Users.                    *)
(***************************************************************************)
EXTENDS SmsInbox

CONSTANTS Chars, Numbers, NewNumbers, Slots, SlotLen, PrefixLen, BufferLen

VARIABLES users, file, told, saved

Directory == INSTANCE Users WITH MaxFaults <- 0, faults <- 0, seen <- {}

usersVars == <<users, file, told, saved>>
vars == <<inboxVars, usersVars>>

ASSUME OutletAssumption ==
  /\ Messages \subseteq [id : Nat, from : Numbers, adds : NewNumbers \cup {<<>>}]
  /\ Directory!UsersAssumption

(* The text of a message: "Manager" when it adds nobody. *)
IsManagerCommand(m) == m.adds = <<>>

Accepted(m) ==
  /\ Directory!Recognised(m.from)
  /\ Directory!IsManager(m.from)
  /\ Directory!Fits(m.adds)
  /\ Directory!HasRoom(Len(file))

ObeyAfterRefusal(m) ==   \* mutant: the sender of a refused command is let in
  \/ IsManagerCommand(m) /\ Directory!Manager(m.from)
  \/ /\ ~IsManagerCommand(m)
     /\ \/ Directory!AddUser(m.from, m.adds)
        \/ ~Accepted(m) /\ Directory!Manager(m.from)

(* Hdlr_RecvNewSMS, from the message on. *)
Obey(m) ==
  \/ IsManagerCommand(m) /\ Directory!Manager(m.from)
  \/ /\ ~IsManagerCommand(m)
     /\ \/ Directory!AddUser(m.from, m.adds)
        \/ ~Accepted(m) /\ UNCHANGED usersVars

Receiving ==
  /\ RecvNewSMS
  /\ IF obeyed' = obeyed THEN UNCHANGED usersVars ELSE Obey(Last(obeyed'))

Init ==
  /\ InboxInit
  /\ Directory!Init

Next ==
  \/ \E m \in Messages, i \in Index : Arrive(m, i) /\ UNCHANGED usersVars
  \/ BecomeReady /\ UNCHANGED usersVars
  \/ Receiving
  \/ Initialize /\ UNCHANGED usersVars
  \/ Restart /\ Directory!Boot

Fairness ==
  /\ WF_vars(Receiving \/ (Initialize /\ UNCHANGED usersVars))
  /\ WF_vars(BecomeReady /\ UNCHANGED usersVars)

Spec == Init /\ [][Next]_vars /\ Fairness
-----------------------------------------------------------------------------
(* Who is known, first the manager, after a command: "Manager" lets in its *)
(* sender alone, and the manager adds others while there is a place.       *)
AfterCommand(known, m) ==
  IF IsManagerCommand(m) THEN <<m.from>>
  ELSE IF /\ known # <<>>
          /\ m.from = Head(known)
          /\ Len(m.adds) = SlotLen
          /\ Len(known) < Slots
    THEN Append(known, m.adds)
    ELSE known

(* ... and after a sequence of commands.                                   *)
Known(messages) ==
  LET known[k \in 0 .. Len(messages)] ==
        IF k = 0 THEN <<>> ELSE AfterCommand(known[k - 1], messages[k])
  IN  known[Len(messages)]

(* Each of these numbers has its own place in users.                       *)
InPlaces(known) == \A k \in DOMAIN known : users[k - 1] = known[k]

(* users knows whom the obeyed messages let in, each in his own place, at  *)
(* every moment: also after restarts, when indications were dropped and    *)
(* reads failed.  When every message has been obeyed, and none overtook    *)
(* another, it knows whom the messages let in in the order in which they   *)
(* were stored.                                                            *)
EveryoneLetInIsKnown ==
  /\ InPlaces(Known(obeyed))
  /\ Len(arrived) = Len(obeyed) /\ overtaken = {} => InPlaces(Known(arrived))
=============================================================================
