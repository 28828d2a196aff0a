------------------------------- MODULE Users -------------------------------
(***************************************************************************)
(* Who may command the outlet by SMS: the array users in RAM, the file     *)
(* data.txt that keeps their numbers, and the commands that change them.   *)
(*                                                                         *)
(* The file holds one number after the other, with nothing between them:   *)
(* a number is found again only by its place, in slots of SlotLen          *)
(* characters.  A number is a sequence of characters.                      *)
(***************************************************************************)
EXTENDS Naturals, Sequences

CONSTANTS
  Chars,       \* the characters of numbers
  Numbers,     \* the numbers SMS come from
  NewNumbers,  \* the texts that "Add user" is sent with
  Slots,       \* places in users (4)
  SlotLen,     \* characters of a number in the file (13)
  PrefixLen,   \* characters by which a sender is recognised (7)
  BufferLen,   \* characters of a place of users (15), the final 0 included
  MaxFaults    \* bound on the number of failures

(* A sender's number need not fit a place of users: oa has up to 21        *)
(* characters, a place 15.  It is shorter than two places.                 *)
ASSUME UsersAssumption ==
  /\ Slots \in Nat \ 0 .. 1
  /\ SlotLen \in Nat \ {0}
  /\ PrefixLen \in 1 .. SlotLen
  /\ BufferLen \in Nat \ 0 .. SlotLen
  /\ Numbers \cup NewNumbers \subseteq Seq(Chars)
  /\ \A n \in Numbers : Len(n) \in 1 .. 2 * BufferLen - 1
  /\ MaxFaults \in Nat

FaultKinds ==
  {"open",    \* the file cannot be opened
   "read",    \* reading the file fails, no byte is read
   "write",   \* writing the file fails, no byte is written
   "crash"}   \* the outlet restarts in the middle of a handler

VARIABLES
  users,    \* per slot, the characters in its place up to the first 0; empty:
            \* nobody; BufferLen of them: the text runs on in the next place
  file,     \* the characters in data.txt; empty: no file or an empty one
  told,     \* the number last told "You are manager now!"
  saved,    \* the manager's number at the head of the file; empty: none
  faults,   \* how many failures there have been
  seen      \* of which kinds

vars == <<users, file, told, saved, faults, seen>>

Slot == 0 .. Slots - 1
Nobody == <<>>

(* Every text in users ends in its own place, but for the number of a      *)
(* manager that is too long for the first one.                             *)
UsersTypeOK ==
  /\ users \in [Slot -> Seq(Chars)]
  /\ \A i \in Slot :
       \/ Len(users[i]) < BufferLen
       \/ i = 0 /\ Len(users[0]) = BufferLen /\ Len(told) >= BufferLen
  /\ file \in Seq(Chars)
  /\ {told, saved} \subseteq Numbers \cup {Nobody}
  /\ faults \in 0 .. MaxFaults
  /\ seen \subseteq FaultKinds

Fault(kind) ==
  /\ faults < MaxFaults
  /\ faults' = faults + 1
  /\ seen' = seen \cup {kind}

NoFault == UNCHANGED <<faults, seen>>
-----------------------------------------------------------------------------
Prefix(text, len) == SubSeq(text, 1, IF len < Len(text) THEN len ELSE Len(text))

(* Ql_strncmp(a, b, len) == 0 *)
Same(a, b, len) == Prefix(a, len) = Prefix(b, len)

Recognised(n) == \E i \in Slot : Same(n, users[i], PrefixLen)
IsManager(n) == Same(n, users[0], SlotLen)

(* check_file: each slot of the file, as far as the file goes. *)
Load(text) ==
  [i \in Slot |->
     Prefix(SubSeq(text, i * SlotLen + 1, Len(text)), SlotLen)]

(* Ql_strcpy to the place of slot i, whatever the length of the text: what *)
(* does not fit, or its final 0, is written over the next place.           *)
Copied(i, text) ==
  [k \in Slot |->
     IF k = i THEN Prefix(text, BufferLen)
     ELSE IF k = i + 1 /\ Len(text) >= BufferLen
       THEN SubSeq(text, BufferLen + 1, Len(text))
       ELSE users[k]]

HasRoomForOneMore(readen) == readen \div SlotLen <= Slots   \* mutant: <= for <

HasRoom(readen) == readen \div SlotLen < Slots

NextSlotAfter(readen) == (readen \div SlotLen + 1) % Slots   \* mutant: one too far

NextSlot(readen) == readen \div SlotLen

FitsAnyLength(new) == Len(new) >= SlotLen   \* mutant: longer numbers pass

(* The length check of the text of "Add user". *)
Fits(new) == Len(new) = SlotLen
-----------------------------------------------------------------------------
(* Hdlr_RecvNewSMS. *)

(* "Manager": the sender becomes manager, is told so, and only then is the *)
(* file made anew, with this number alone.                                 *)
Manager(n) ==
  /\ users' = Copied(0, n)
  /\ told' = n
  /\ \/ file' = n /\ saved' = n /\ NoFault
     \/ UNCHANGED <<file, saved>> /\ Fault("open")
     \/ file' = <<>> /\ saved' = Nobody /\ Fault("write")

(* ... and the outlet restarts before the number is in the file. *)
CrashInManager(n) ==
  /\ Fault("crash")
  /\ told' = n
  /\ \/ UNCHANGED <<file, saved>>
     \/ file' = <<>> /\ saved' = Nobody
  /\ users' = Load(file')

(* The number takes the slot after those that were read, if there is one. *)
Place(new, readen) ==
  /\ HasRoom(readen)
  /\ users' = Copied(NextSlot(readen), new)

AddUserRewinding(n, new) ==   \* mutant: the file is measured from its end
  /\ Recognised(n)
  /\ IsManager(n)
  /\ Fits(new)
  /\ Place(new, 0)
  /\ file' = file \o new
  /\ UNCHANGED <<told, saved, faults, seen>>

(* "Add user", sent by the manager: the number takes its slot in RAM and   *)
(* is appended to the file.  When the file cannot be opened, or there is   *)
(* no slot, or the sender or the number is refused, nothing changes.       *)
AddUser(n, new) ==
  /\ Recognised(n)
  /\ IsManager(n)
  /\ Fits(new)
  /\ \/ Place(new, Len(file)) /\ file' = file \o new /\ NoFault
     \/ Place(new, 0) /\ file' = file \o new /\ Fault("read")
     \/ Place(new, Len(file)) /\ UNCHANGED file /\ Fault("write")
  /\ UNCHANGED <<told, saved>>

(* The outlet restarts: RAM is lost, check_file reads the file.  When it   *)
(* cannot, nobody is known, although the file still holds the numbers.     *)
Boot ==
  /\ \/ users' = Load(file) /\ NoFault
     \/ /\ users' = [i \in Slot |-> Nobody]
        /\ Fault("open") \/ Fault("read")
  /\ UNCHANGED <<file, told, saved>>

Init ==
  /\ users = [i \in Slot |-> Nobody]
  /\ file = <<>>
  /\ told = Nobody
  /\ saved = Nobody
  /\ faults = 0
  /\ seen = {}

Next ==
  \/ \E n \in Numbers :
       \/ Manager(n)
       \/ CrashInManager(n)
       \/ \E new \in NewNumbers : AddUser(n, new)
  \/ Boot

Spec == Init /\ [][Next]_vars
-----------------------------------------------------------------------------
(* Whoever was told to be the manager passes for the manager, until        *)
(* another number does: no user added and no restart takes that place.     *)
ManagerStays == told # Nobody => IsManager(told)

(* So it is as long as the file system works, no handler is cut short and  *)
(* the manager's number fills a slot, however much longer it is.           *)
ManagerKept == seen = {} /\ Len(told) >= SlotLen => ManagerStays

(* The file was not made with a manager's number that is no slot long.     *)
SavedFits == saved = Nobody \/ Len(saved) = SlotLen

(* Every number in the file has its place in users, the same one, also     *)
(* after restarts at any moment and failed writes, while the manager's     *)
(* number fills its slot and no more.                                      *)
StoredUsersKnown ==
  seen \subseteq {"write", "crash"} /\ SavedFits =>
    \A i \in Slot : Load(file)[i] # Nobody => users[i] = Load(file)[i]

(* The file holds no more numbers than users has places for, whatever      *)
(* fails except reading it, while the manager's number fills its slot.     *)
FileFits ==
  "read" \notin seen /\ SavedFits => Len(file) <= Slots * SlotLen
=============================================================================
