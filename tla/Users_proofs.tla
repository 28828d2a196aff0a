---------------------------- MODULE Users_proofs ----------------------------
(***************************************************************************)
(* What TLAPS proves of Users, for any number of places and of characters  *)
(* of a number: who keeps his place, also when a manager's number does not *)
(* fill its slot, or not even fit its place in users.                      *)
(***************************************************************************)
EXTENDS Users, SequenceTheorems, TLAPS
-----------------------------------------------------------------------------
(* Places in the file. *)

(* Slots do not overlap.                                                  *)
LEMMA SlotsApart ==
  ASSUME NEW i \in Nat, NEW k \in Nat, NEW len \in Nat
  PROVE  /\ i * len \in Nat
         /\ i < k => i * len + len <= k * len
         /\ (i + 1) * len = i * len + len
<1>1. i * len \in Nat /\ (i + 1) * len = i * len + len
  OBVIOUS
<1>2. ASSUME i < k PROVE i * len + len <= k * len
  <2> DEFINE d == k - (i + 1)
  <2>1. d \in Nat /\ k = (i + 1) + d
    BY <1>2
  <2>2. k * len = (i + 1) * len + d * len /\ d * len \in Nat
    BY <2>1
  <2> QED
    BY <1>1, <2>2
<1> QED
  BY <1>1, <1>2

(* A file of k numbers has its next slot behind them.                      *)
LEMMA SlotOf ==
  ASSUME NEW k \in Nat, NEW len \in Nat \ {0}
  PROVE  (k * len) \div len = k
OBVIOUS

(* A slot of the file holds the characters of its place.                   *)
LEMMA SlotHolds ==
  ASSUME NEW text \in Seq(Chars), NEW i \in Slot
  PROVE  /\ Load(text)[i] \in Seq(Chars)
         /\ Len(Load(text)[i]) <= SlotLen
         /\ Len(text) <= i * SlotLen => Load(text)[i] = Nobody
         /\ i * SlotLen + SlotLen <= Len(text) =>
              /\ Len(Load(text)[i]) = SlotLen
              /\ \A j \in 1 .. SlotLen :
                   Load(text)[i][j] = text[i * SlotLen + j]
<1> DEFINE from == i * SlotLen
           rest == SubSeq(text, from + 1, Len(text))
           len == IF SlotLen < Len(rest) THEN SlotLen ELSE Len(rest)
<1>1. i \in Nat /\ SlotLen \in Nat \ {0} /\ from \in Nat
  BY UsersAssumption, SlotsApart DEF Slot
<1> HIDE DEF from
<1>2. /\ rest \in Seq(Chars)
      /\ Len(rest) = IF from < Len(text) THEN Len(text) - from ELSE 0
      /\ \A j \in 1 .. Len(text) - from : rest[j] = text[from + j]
  <2>1. \A j \in from + 1 .. Len(text) : text[j] \in Chars
    BY <1>1
  <2> QED
    BY <1>1, <2>1, SubSeqProperties
<1> HIDE DEF rest
<1>3. Load(text)[i] = SubSeq(rest, 1, len)
  BY DEF Load, Prefix, rest, from
<1>4. len \in Nat /\ len <= SlotLen /\ len <= Len(rest)
  BY <1>1, <1>2
<1>5. \A j \in 1 .. len : rest[j] \in Chars
  BY <1>2, <1>4
<1> HIDE DEF len
<1>6. /\ SubSeq(rest, 1, len) \in Seq(Chars)
      /\ Len(SubSeq(rest, 1, len)) = len
      /\ \A j \in 1 .. len : SubSeq(rest, 1, len)[j] = rest[j]
  BY <1>4, <1>5, SubSeqProperties
<1>7. Len(text) <= from => Load(text)[i] = Nobody
  BY <1>1, <1>2, <1>3, <1>4, <1>6, EmptySeq DEF Nobody
<1>8. from + SlotLen <= Len(text) =>
        len = SlotLen /\ \A j \in 1 .. SlotLen : rest[j] = text[from + j]
  BY <1>1, <1>2 DEF len
<1> QED
  BY <1>3, <1>4, <1>6, <1>7, <1>8 DEF from

(* The file holds whole numbers, k of them.                                *)
Holds(text, k) == text \in Seq(Chars) /\ Len(text) = k * SlotLen

(* A file of k whole numbers has the first k slots taken.                  *)
LEMMA TakenSlots ==
  ASSUME NEW k \in Nat, NEW text, Holds(text, k), NEW i \in Slot
  PROVE  (Load(text)[i] # Nobody) <=> i < k
<1>1. i \in Nat /\ SlotLen \in Nat \ {0}
  BY UsersAssumption DEF Slot
<1>2. CASE i < k
  <2>1. i * SlotLen + SlotLen <= k * SlotLen
    BY <1>1, <1>2, SlotsApart
  <2>2. Len(Load(text)[i]) = SlotLen
    BY <2>1, SlotHolds DEF Holds
  <2> QED
    BY <1>1, <1>2, <2>2 DEF Nobody
<1>3. CASE i >= k
  <2>1. k * SlotLen <= i * SlotLen
    <3>1. CASE i = k
      BY <1>1, <3>1
    <3>2. CASE k < i
      BY <1>1, <3>2, SlotsApart
    <3> QED
      BY <1>1, <1>3, <3>1, <3>2
  <2>2. Load(text)[i] = Nobody
    BY <2>1, SlotHolds DEF Holds
  <2> QED
    BY <1>1, <1>3, <2>2
<1> QED
  BY <1>1, <1>2, <1>3

(* A number that is appended fills the next slot and no other.             *)
LEMMA NextSlotFilled ==
  ASSUME NEW k \in Nat, NEW text, Holds(text, k),
         NEW new \in Seq(Chars), Len(new) = SlotLen
  PROVE  /\ Holds(text \o new, k + 1)
         /\ \A i \in Slot :
              /\ i < k => Load(text \o new)[i] = Load(text)[i]
              /\ i = k => Load(text \o new)[i] = new
<1>1. SlotLen \in Nat \ {0}
  BY UsersAssumption
<1>2. /\ text \o new \in Seq(Chars)
      /\ Len(text \o new) = k * SlotLen + SlotLen
      /\ k * SlotLen \in Nat /\ (k + 1) * SlotLen = k * SlotLen + SlotLen
      /\ \A j \in 1 .. k * SlotLen + SlotLen :
           (text \o new)[j] = IF j <= k * SlotLen THEN text[j]
                                                  ELSE new[j - k * SlotLen]
  BY <1>1, ConcatProperties, SlotsApart DEF Holds
<1>3. Holds(text \o new, k + 1)
  BY <1>2 DEF Holds
<1>4. ASSUME NEW i \in Slot, i < k
      PROVE  Load(text \o new)[i] = Load(text)[i]
  <2> DEFINE from == i * SlotLen
             len == k * SlotLen
  <2>1. from \in Nat /\ len \in Nat /\ from + SlotLen <= len
    BY <1>1, <1>4, SlotsApart DEF Slot
  <2>2. /\ i * SlotLen + SlotLen <= Len(text \o new)
        /\ \A j \in 1 .. SlotLen :
             (text \o new)[i * SlotLen + j] = text[i * SlotLen + j]
    <3>1. /\ Len(text \o new) = len + SlotLen
          /\ \A j \in 1 .. len + SlotLen :
               j <= len => (text \o new)[j] = text[j]
      BY <1>2
    <3> HIDE DEF from, len
    <3>2. from + SlotLen <= Len(text \o new)
      BY <1>1, <2>1, <3>1
    <3>3. \A j \in 1 .. SlotLen :
            from + j \in 1 .. len + SlotLen /\ from + j <= len
      BY <1>1, <2>1
    <3>4. \A j \in 1 .. SlotLen : (text \o new)[from + j] = text[from + j]
      BY <3>1, <3>3
    <3> QED
      BY <3>2, <3>4 DEF from
  <2> DEFINE s == Load(text \o new)[i]
             t == Load(text)[i]
  <2>3. /\ s \in Seq(Chars) /\ t \in Seq(Chars)
        /\ Len(s) = SlotLen /\ Len(t) = SlotLen
        /\ \A j \in 1 .. SlotLen : s[j] = t[j]
    <3>1. /\ t \in Seq(Chars) /\ Len(t) = SlotLen
          /\ \A j \in 1 .. SlotLen : t[j] = text[i * SlotLen + j]
      BY <2>1, SlotHolds DEF Holds
    <3>2. /\ s \in Seq(Chars) /\ Len(s) = SlotLen
          /\ \A j \in 1 .. SlotLen : s[j] = (text \o new)[i * SlotLen + j]
      BY <1>2, <2>2, SlotHolds
    <3> QED
      BY <2>2, <3>1, <3>2
  <2> QED
    BY <2>3, SeqEqual
<1>5. ASSUME NEW i \in Slot, i = k
      PROVE  Load(text \o new)[i] = new
  <2> DEFINE s == Load(text \o new)[i]
  <2>1. \A j \in 1 .. SlotLen : (text \o new)[i * SlotLen + j] = new[j]
    <3> DEFINE len == k * SlotLen
    <3>1. /\ len \in Nat
          /\ \A j \in 1 .. len + SlotLen :
               ~(j <= len) => (text \o new)[j] = new[j - len]
      BY <1>2
    <3> HIDE DEF len
    <3>2. \A j \in 1 .. SlotLen :
            /\ len + j \in 1 .. len + SlotLen
            /\ ~(len + j <= len) /\ (len + j) - len = j
      BY <1>1, <3>1
    <3>3. \A j \in 1 .. SlotLen : (text \o new)[len + j] = new[j]
      BY <3>1, <3>2
    <3> QED
      BY <1>5, <3>3 DEF len
  <2>2. i * SlotLen + SlotLen <= Len(text \o new)
    BY <1>1, <1>2, <1>5
  <2>3. /\ s \in Seq(Chars) /\ Len(s) = SlotLen
        /\ \A j \in 1 .. SlotLen : s[j] = (text \o new)[i * SlotLen + j]
    BY <1>2, <2>2, SlotHolds
  <2> QED
    BY <2>1, <2>3, SeqEqual
<1> QED
  BY <1>3, <1>4, <1>5
-----------------------------------------------------------------------------
(* Texts copied to their places in users. *)

(* The first characters of a text.                                         *)
LEMMA PrefixHolds ==
  ASSUME NEW s \in Seq(Chars), NEW len \in Nat
  PROVE  /\ Prefix(s, len) \in Seq(Chars)
         /\ Len(Prefix(s, len)) = IF len < Len(s) THEN len ELSE Len(s)
         /\ \A j \in 1 .. Len(Prefix(s, len)) : Prefix(s, len)[j] = s[j]
         /\ Len(s) <= len => Prefix(s, len) = s
<1> DEFINE k == IF len < Len(s) THEN len ELSE Len(s)
           p == SubSeq(s, 1, k)
<1>1. k \in Nat /\ k <= Len(s) /\ Prefix(s, len) = p
  BY LenProperties DEF Prefix
<1>2. \A j \in 1 .. k : s[j] \in Chars
  BY <1>1
<1> HIDE DEF k
<1>3. p \in Seq(Chars) /\ Len(p) = k /\ \A j \in 1 .. k : p[j] = s[j]
  BY <1>1, <1>2, SubSeqProperties
<1> HIDE DEF p
<1>4. Len(s) <= len => p = s
  <2> SUFFICES ASSUME Len(s) <= len PROVE p = s
    OBVIOUS
  <2>1. k = Len(s)
    BY LenProperties DEF k
  <2> QED
    BY <1>3, <2>1, SeqEqual
<1> QED
  BY <1>1, <1>3, <1>4 DEF k

(* The first characters of the first characters.                           *)
LEMMA PrefixTwice ==
  ASSUME NEW s \in Seq(Chars), NEW more \in Nat, NEW len \in 0 .. more
  PROVE  Prefix(Prefix(s, more), len) = Prefix(s, len)
<1> DEFINE p == Prefix(s, more)
           q == Prefix(p, len)
           r == Prefix(s, len)
<1>1. /\ p \in Seq(Chars)
      /\ Len(p) = IF more < Len(s) THEN more ELSE Len(s)
      /\ \A j \in 1 .. Len(p) : p[j] = s[j]
  BY PrefixHolds
<1>2. /\ q \in Seq(Chars)
      /\ Len(q) = IF len < Len(p) THEN len ELSE Len(p)
      /\ \A j \in 1 .. Len(q) : q[j] = p[j]
  BY <1>1, PrefixHolds
<1>3. /\ r \in Seq(Chars)
      /\ Len(r) = IF len < Len(s) THEN len ELSE Len(s)
      /\ \A j \in 1 .. Len(r) : r[j] = s[j]
  BY PrefixHolds
<1> HIDE DEF p, q, r
<1>4. Len(q) = Len(r) /\ Len(q) <= Len(p) /\ Len(q) \in Nat /\ Len(p) \in Nat
  BY <1>1, <1>2, <1>3, LenProperties
<1>5. \A j \in 1 .. Len(q) : q[j] = r[j]
  BY <1>1, <1>2, <1>3, <1>4
<1>6. q = r
  BY <1>2, <1>3, <1>4, <1>5, SeqEqual
<1> QED
  BY <1>6 DEF p, q, r

(* A text that fits its place changes no other.                            *)
LEMMA CopiedFits ==
  ASSUME users \in [Slot -> Seq(Chars)],
         NEW i, NEW text \in Seq(Chars), Len(text) < BufferLen
  PROVE  Copied(i, text) = [users EXCEPT ![i] = text]
<1>1. BufferLen \in Nat /\ Len(text) \in Nat
  BY UsersAssumption, LenProperties
<1>2. Prefix(text, BufferLen) = text /\ ~(Len(text) >= BufferLen)
  BY <1>1, PrefixHolds
<1>3. Copied(i, text) = [k \in Slot |-> IF k = i THEN text ELSE users[k]]
  BY <1>2 DEF Copied
<1> QED
  BY <1>3

(* The copy of a manager's number: what is too long for the first place is *)
(* in the second one, and ends there.                                      *)
LEMMA CopiedManager ==
  ASSUME UsersTypeOK, NEW n \in Numbers
  PROVE  /\ Copied(0, n) \in [Slot -> Seq(Chars)]
         /\ Copied(0, n)[0] = Prefix(n, BufferLen)
         /\ \A i \in Slot :
              \/ Len(Copied(0, n)[i]) < BufferLen
              \/ /\ i = 0 /\ Len(Copied(0, n)[0]) = BufferLen
                 /\ Len(n) >= BufferLen
<1>1. /\ n \in Seq(Chars) /\ Len(n) \in Nat /\ BufferLen \in Nat
      /\ Len(n) < 2 * BufferLen /\ 0 \in Slot
  BY UsersAssumption, LenProperties DEF Slot
<1>2. /\ Prefix(n, BufferLen) \in Seq(Chars)
      /\ Len(Prefix(n, BufferLen)) = IF BufferLen < Len(n) THEN BufferLen ELSE Len(n)
  BY <1>1, PrefixHolds
<1> DEFINE rest == SubSeq(n, BufferLen + 1, Len(n))
<1>3. Len(n) >= BufferLen => rest \in Seq(Chars) /\ Len(rest) < BufferLen
  <2> SUFFICES ASSUME Len(n) >= BufferLen
               PROVE  rest \in Seq(Chars) /\ Len(rest) < BufferLen
    OBVIOUS
  <2>1. \A j \in BufferLen + 1 .. Len(n) : n[j] \in Chars
    BY <1>1
  <2>2. /\ rest \in Seq(Chars)
        /\ Len(rest) = IF BufferLen + 1 <= Len(n)
                         THEN Len(n) - (BufferLen + 1) + 1 ELSE 0
    BY <1>1, <2>1, SubSeqProperties
  <2> HIDE DEF rest
  <2> QED
    BY <1>1, <2>2
<1>4. Copied(0, n) =
        [k \in Slot |-> IF k = 0 THEN Prefix(n, BufferLen)
                        ELSE IF k = 0 + 1 /\ Len(n) >= BufferLen THEN rest
                        ELSE users[k]]
  BY DEF Copied
<1> HIDE DEF rest
<1>5. /\ users \in [Slot -> Seq(Chars)]
      /\ \A k \in Slot : k # 0 => Len(users[k]) < BufferLen
  BY DEF UsersTypeOK
<1>6. ASSUME NEW i \in Slot
      PROVE  /\ Copied(0, n)[i] \in Seq(Chars)
             /\ \/ Len(Copied(0, n)[i]) < BufferLen
                \/ i = 0 /\ Len(Copied(0, n)[0]) = BufferLen /\ Len(n) >= BufferLen
  <2>1. CASE i = 0
    BY <1>1, <1>2, <1>4, <2>1
  <2>2. CASE i # 0
    BY <1>3, <1>4, <1>5, <2>2
  <2> QED
    BY <2>1, <2>2
<1>7. Copied(0, n)[0] = Prefix(n, BufferLen)
  BY <1>1, <1>4
<1>8. Copied(0, n) \in [Slot -> Seq(Chars)]
  <2>1. Copied(0, n) = [k \in Slot |-> Copied(0, n)[k]]
    BY DEF Copied
  <2> QED
    BY <1>6, <2>1
<1> QED
  BY <1>6, <1>7, <1>8
-----------------------------------------------------------------------------
(* The types. *)

(* What check_file finds in a text fits users.                             *)
LEMMA LoadType ==
  ASSUME NEW text \in Seq(Chars)
  PROVE  /\ Load(text) \in [Slot -> Seq(Chars)]
         /\ \A i \in Slot : Len(Load(text)[i]) < BufferLen
<1>1. \A i \in Slot :
        Load(text)[i] \in Seq(Chars) /\ Len(Load(text)[i]) <= SlotLen
  BY SlotHolds
<1>2. SlotLen \in Nat /\ BufferLen \in Nat /\ SlotLen < BufferLen
  BY UsersAssumption
<1>3. Load(text) = [i \in Slot |-> Load(text)[i]]
  BY DEF Load
<1> QED
  BY <1>1, <1>2, <1>3

(* A failure, or none, is counted within its bound.                        *)
LEMMA FaultType ==
  ASSUME UsersTypeOK, NEW kind \in FaultKinds, Fault(kind) \/ NoFault
  PROVE  faults' \in 0 .. MaxFaults /\ seen' \subseteq FaultKinds
BY UsersAssumption DEF UsersTypeOK, Fault, NoFault

(* Every step keeps the types.                                             *)
LEMMA NextType ==
  ASSUME UsersTypeOK, [Next]_vars
  PROVE  UsersTypeOK'
<1> USE DEF FaultKinds
<1>1. Nobody \in Seq(Chars)
  BY EmptySeq DEF Nobody
<1>2. ASSUME NEW n \in Numbers, Manager(n)
      PROVE  UsersTypeOK'
  <2>1. n \in Seq(Chars) /\ users' = Copied(0, n) /\ told' = n
    BY <1>2, UsersAssumption DEF Manager
  <2>2. /\ users' \in [Slot -> Seq(Chars)]
        /\ \A i \in Slot :
             \/ Len(users'[i]) < BufferLen
             \/ i = 0 /\ Len(users'[0]) = BufferLen /\ Len(told') >= BufferLen
    BY <2>1, CopiedManager
  <2>3. file' \in Seq(Chars) /\ saved' \in Numbers \cup {Nobody}
    BY <1>1, <1>2, <2>1 DEF Manager, UsersTypeOK, Nobody
  <2>4. faults' \in 0 .. MaxFaults /\ seen' \subseteq FaultKinds
    BY <1>2, FaultType DEF Manager
  <2> QED
    BY <1>2, <2>2, <2>3, <2>4 DEF Manager, UsersTypeOK
<1>3. ASSUME NEW n \in Numbers, CrashInManager(n)
      PROVE  UsersTypeOK'
  <2>1. file' \in Seq(Chars) /\ saved' \in Numbers \cup {Nobody}
    BY <1>1, <1>3 DEF CrashInManager, UsersTypeOK, Nobody
  <2>2. /\ users' \in [Slot -> Seq(Chars)]
        /\ \A i \in Slot : Len(users'[i]) < BufferLen
    BY <1>3, <2>1, LoadType DEF CrashInManager
  <2>3. faults' \in 0 .. MaxFaults /\ seen' \subseteq FaultKinds
    BY <1>3, FaultType DEF CrashInManager
  <2> QED
    BY <1>3, <2>1, <2>2, <2>3 DEF CrashInManager, UsersTypeOK
<1>4. ASSUME NEW n \in Numbers, NEW new \in NewNumbers, AddUser(n, new)
      PROVE  UsersTypeOK'
  <2>1. /\ new \in Seq(Chars) /\ Len(new) = SlotLen
        /\ SlotLen \in Nat /\ BufferLen \in Nat /\ SlotLen < BufferLen
    BY <1>4, UsersAssumption DEF AddUser, Fits
  <2>2. ASSUME NEW readen, Place(new, readen)
        PROVE  /\ users' \in [Slot -> Seq(Chars)]
               /\ \A i \in Slot :
                    \/ Len(users'[i]) < BufferLen
                    \/ /\ i = 0 /\ Len(users'[0]) = BufferLen
                       /\ Len(told) >= BufferLen
    <3>1. users \in [Slot -> Seq(Chars)]
      BY DEF UsersTypeOK
    <3>2. users' = [users EXCEPT ![NextSlot(readen)] = new]
      BY <2>1, <2>2, <3>1, CopiedFits DEF Place
    <3> QED
      BY <2>1, <3>1, <3>2 DEF UsersTypeOK
  <2>3. file' \in Seq(Chars)
    <3>1. file \in Seq(Chars) /\ file \o new \in Seq(Chars)
      BY <2>1, ConcatProperties DEF UsersTypeOK
    <3>2. file' \in {file, file \o new}
      BY <1>4 DEF AddUser
    <3> QED
      BY <3>1, <3>2
  <2>4. faults' \in 0 .. MaxFaults /\ seen' \subseteq FaultKinds
    BY <1>4, FaultType DEF AddUser
  <2> QED
    BY <1>4, <2>2, <2>3, <2>4 DEF AddUser, UsersTypeOK
<1>5. CASE Boot
  <2>1. BufferLen \in Nat \ {0} /\ Len(Nobody) = 0
    BY UsersAssumption DEF Nobody
  <2>2. faults' \in 0 .. MaxFaults /\ seen' \subseteq FaultKinds
    BY <1>5, FaultType DEF Boot
  <2>3. CASE users' = Load(file)
    BY <1>5, <2>2, <2>3, LoadType DEF Boot, UsersTypeOK
  <2>4. CASE users' = [i \in Slot |-> Nobody]
    BY <1>1, <1>5, <2>1, <2>2, <2>4 DEF Boot, UsersTypeOK
  <2> QED
    BY <1>5, <2>3, <2>4 DEF Boot
<1>6. CASE UNCHANGED vars
  BY <1>6 DEF vars, UsersTypeOK
<1> QED
  BY <1>2, <1>3, <1>4, <1>5, <1>6 DEF Next

(* UsersTypeOK holds of every behaviour: of the texts in users only the    *)
(* number of a manager that is too long for the first place does not end   *)
(* in its own place.                                                       *)
THEOREM TypeCorrect == Spec => []UsersTypeOK
<1>1. Init => UsersTypeOK
  <2>1. /\ Nobody \in Seq(Chars) /\ Len(Nobody) = 0
        /\ BufferLen \in Nat \ {0}
    BY EmptySeq, UsersAssumption DEF Nobody
  <2> QED
    BY <2>1, UsersAssumption DEF Init, UsersTypeOK, Nobody
<1>2. UsersTypeOK /\ [Next]_vars => UsersTypeOK'
  BY NextType
<1> QED
  BY <1>1, <1>2, PTL DEF Spec
-----------------------------------------------------------------------------
(* Numbers in their places. *)

(* The file holds whole numbers, no more than there are places.            *)
WholeNumbers ==
  "read" \notin seen /\ SavedFits => \E k \in 0 .. Slots : Holds(file, k)

(* The manager's number is the first of the file, once there is a manager, *)
(* as far as a slot goes.                                                  *)
ManagerStored ==
  seen = {} =>
    /\ told = Nobody => file = <<>> /\ users[0] = Nobody
    /\ Len(told) >= SlotLen =>
         /\ Len(file) >= SlotLen
         /\ Prefix(file, SlotLen) = Prefix(told, SlotLen)
         /\ IsManager(told)

UsersInv == WholeNumbers /\ StoredUsersKnown /\ ManagerStored

(* The files a number or nobody makes.                                     *)
LEMMA SmallFiles ==
  /\ Holds(<<>>, 0)
  /\ \A i \in Slot : Load(<<>>)[i] = Nobody
  /\ \A n \in Seq(Chars) : Len(n) = SlotLen =>
       /\ Holds(n, 1)
       /\ Load(n)[0] = n
       /\ \A i \in Slot : Load(n)[i] # Nobody => i = 0
<1>1. Holds(<<>>, 0) /\ SlotLen \in Nat \ {0} /\ 0 \in Slot
  BY EmptySeq, UsersAssumption DEF Holds, Slot
<1>2. \A i \in Slot : Load(<<>>)[i] = Nobody
  BY <1>1, TakenSlots DEF Slot
<1>3. ASSUME NEW n \in Seq(Chars), Len(n) = SlotLen
      PROVE  /\ Holds(n, 1)
             /\ Load(n)[0] = n
             /\ \A i \in Slot : Load(n)[i] # Nobody => i = 0
  <2> DEFINE t == Load(n)[0]
  <2>1. 0 * SlotLen = 0 /\ 0 * SlotLen + SlotLen <= Len(n)
    BY <1>1, <1>3
  <2>2. /\ t \in Seq(Chars) /\ Len(t) = SlotLen
        /\ \A j \in 1 .. SlotLen : t[j] = n[j]
    BY <1>1, <2>1, SlotHolds
  <2>3. Holds(n, 1) /\ Load(n)[0] = n
    BY <1>1, <1>3, <2>2, SeqEqual DEF Holds
  <2>4. \A i \in Slot : Load(n)[i] # Nobody => i < 1
    BY <2>3, TakenSlots
  <2> QED
    BY <2>3, <2>4 DEF Slot
<1> QED
  BY <1>1, <1>2, <1>3

(* Nobody passes for the manager while there is none.                      *)
LEMMA OnlyTheManager ==
  ASSUME NEW n \in Numbers, IsManager(n), users[0] = Nobody
  PROVE  FALSE
<1>1. /\ n \in Seq(Chars) /\ Len(n) \in Nat \ {0} /\ SlotLen \in Nat \ {0}
      /\ Nobody \in Seq(Chars) /\ Len(Nobody) = 0
  BY UsersAssumption, EmptySeq DEF Nobody
<1>2. Len(Prefix(n, SlotLen)) # 0
  BY <1>1, PrefixHolds
<1>3. Len(Prefix(Nobody, SlotLen)) = 0
  BY <1>1, PrefixHolds
<1> QED
  BY <1>2, <1>3 DEF IsManager, Same

(* The first slot of a file is its beginning.                              *)
LEMMA FirstSlot ==
  ASSUME NEW text \in Seq(Chars)
  PROVE  Load(text)[0] = Prefix(text, SlotLen)
<1>1. 0 \in Slot /\ 0 * SlotLen + 1 = 1
  BY UsersAssumption DEF Slot
<1>2. Load(text)[0] = Prefix(SubSeq(text, 1, Len(text)), SlotLen)
  BY <1>1 DEF Load
<1>3. SubSeq(text, 1, Len(text)) = text
  <2> DEFINE t == SubSeq(text, 1, Len(text))
  <2>1. Len(text) \in Nat /\ \A m \in 1 .. Len(text) : text[m] \in Chars
    BY LenProperties
  <2>2. /\ t \in Seq(Chars) /\ Len(t) = Len(text)
        /\ \A m \in 1 .. Len(text) : t[m] = text[m]
    BY <2>1, SubSeqProperties
  <2> QED
    BY <2>2, SeqEqual
<1> QED
  BY <1>2, <1>3

(* What is appended does not change the beginning.                         *)
LEMMA SameBeginning ==
  ASSUME NEW text \in Seq(Chars), NEW more \in Seq(Chars),
         Len(text) >= SlotLen
  PROVE  /\ text \o more \in Seq(Chars) /\ Len(text \o more) >= SlotLen
         /\ Prefix(text \o more, SlotLen) = Prefix(text, SlotLen)
<1> DEFINE both == text \o more
           p == Prefix(both, SlotLen)
           q == Prefix(text, SlotLen)
<1>1. /\ Len(text) \in Nat /\ Len(more) \in Nat /\ SlotLen \in Nat
      /\ both \in Seq(Chars) /\ Len(both) = Len(text) + Len(more)
      /\ \A m \in 1 .. Len(text) : both[m] = text[m]
  BY UsersAssumption, LenProperties, ConcatProperties
<1> HIDE DEF both
<1>2. /\ p \in Seq(Chars) /\ Len(p) = SlotLen
      /\ \A m \in 1 .. SlotLen : p[m] = both[m]
  <2>1. Len(both) \in Nat /\ Len(both) >= SlotLen
    BY <1>1
  <2>2. Len(p) = IF SlotLen < Len(both) THEN SlotLen ELSE Len(both)
    BY <1>1, PrefixHolds
  <2>3. Len(p) = SlotLen
    BY <1>1, <2>1, <2>2
  <2> QED
    BY <1>1, <2>3, PrefixHolds
<1>3. /\ q \in Seq(Chars) /\ Len(q) = SlotLen
      /\ \A m \in 1 .. SlotLen : q[m] = text[m]
  BY <1>1, PrefixHolds
<1> HIDE DEF p, q
<1>4. p = q
  BY <1>1, <1>2, <1>3, SeqEqual
<1> QED
  BY <1>1, <1>4 DEF both, p, q

(* "Manager" makes the file anew, or not.                                  *)
LEMMA ManagerKeeps ==
  ASSUME UsersTypeOK, UsersInv, NEW n \in Numbers,
         Manager(n) \/ CrashInManager(n)
  PROVE  UsersInv'
<1>1. /\ n \in Seq(Chars) /\ Len(n) \in Nat \ {0} /\ SlotLen \in Nat \ {0}
      /\ BufferLen \in Nat /\ SlotLen < BufferLen
      /\ 1 \in 0 .. Slots /\ 0 \in 0 .. Slots /\ 0 \in Slot
  BY UsersAssumption DEF Slot
<1>2. n # Nobody
  BY <1>1 DEF Nobody
<1>3. /\ \/ file' = n /\ saved' = n
         \/ UNCHANGED <<file, saved>>
         \/ file' = <<>>
      /\ "read" \in seen => "read" \in seen'
  BY DEF Manager, CrashInManager, Fault, NoFault
<1>4. WholeNumbers'
  BY <1>1, <1>2, <1>3, SmallFiles
     DEF UsersInv, WholeNumbers, Holds, SavedFits
<1>5. CASE Manager(n)
  <2>1. users' = Copied(0, n) /\ told' = n
    BY <1>5 DEF Manager
  <2>2. CASE file' = n /\ saved' = n /\ NoFault
    <3>1. StoredUsersKnown'
      <4> SUFFICES ASSUME Len(n) = SlotLen
                   PROVE  StoredUsersKnown'
        BY <1>2, <2>2 DEF StoredUsersKnown, SavedFits
      <4>1. users' = [users EXCEPT ![0] = n]
        BY <1>1, <2>1, CopiedFits DEF UsersTypeOK
      <4> QED
        BY <1>1, <2>2, <4>1, SmallFiles DEF StoredUsersKnown, UsersTypeOK
    <3>2. ManagerStored'
      <4>1. users'[0] = Prefix(n, BufferLen)
        BY <2>1, CopiedManager
      <4>2. Prefix(users'[0], SlotLen) = Prefix(n, SlotLen)
        BY <1>1, <4>1, PrefixTwice
      <4> QED
        BY <1>2, <2>1, <2>2, <4>2 DEF ManagerStored, IsManager, Same
    <3> QED
      BY <1>4, <3>1, <3>2 DEF UsersInv
  <2>3. CASE Fault("open")
    BY <1>4, <2>3 DEF UsersInv, StoredUsersKnown, ManagerStored, Fault
  <2>4. CASE file' = <<>> /\ Fault("write")
    BY <1>4, <2>4, SmallFiles
       DEF UsersInv, StoredUsersKnown, ManagerStored, Fault
  <2> QED
    BY <1>5, <2>2, <2>3, <2>4 DEF Manager
<1>6. CASE CrashInManager(n)
  BY <1>4, <1>6
     DEF CrashInManager, Fault, UsersInv, StoredUsersKnown, ManagerStored
<1> QED
  BY <1>5, <1>6

(* A user that is added does not take the place of the manager.            *)
LEMMA AddUserKeepsManager ==
  ASSUME UsersTypeOK, ManagerStored,
         NEW n \in Numbers, NEW new \in NewNumbers, AddUser(n, new)
  PROVE  ManagerStored'
<1> SUFFICES ASSUME seen' = {} PROVE ManagerStored'
  BY DEF ManagerStored
<1>1. /\ new \in Seq(Chars) /\ Len(new) < BufferLen /\ 0 \in Slot
      /\ SlotLen \in Nat \ {0} /\ file \in Seq(Chars)
      /\ users \in [Slot -> Seq(Chars)]
  BY UsersAssumption DEF AddUser, Fits, Slot, UsersTypeOK
<1>2. /\ Place(new, Len(file)) /\ file' = file \o new
      /\ told' = told /\ seen = {}
  BY DEF AddUser, Fault, NoFault
<1>3. told # Nobody
  <2> SUFFICES ASSUME told = Nobody PROVE FALSE
    OBVIOUS
  <2>1. users[0] = Nobody
    BY <1>2 DEF ManagerStored
  <2> QED
    BY <2>1, OnlyTheManager DEF AddUser
<1>4. ASSUME Len(told) >= SlotLen
      PROVE  /\ Len(file') >= SlotLen
             /\ Prefix(file', SlotLen) = Prefix(told, SlotLen)
             /\ users'[0] = users[0]
  <2>1. /\ Len(file) >= SlotLen /\ Len(file) \in Nat
        /\ Prefix(file, SlotLen) = Prefix(told, SlotLen)
    BY <1>1, <1>2, <1>4, LenProperties DEF ManagerStored
  <2>2. Len(file') >= SlotLen /\ Prefix(file', SlotLen) = Prefix(told, SlotLen)
    BY <1>1, <1>2, <2>1, SameBeginning
  <2> DEFINE at == NextSlot(Len(file))
  <2>3. at # 0
    <3>1. \A m \in Nat : m >= SlotLen => m \div SlotLen # 0
      BY <1>1
    <3> QED
      BY <2>1, <3>1 DEF NextSlot
  <2>4. users' = [users EXCEPT ![at] = new]
    BY <1>1, <1>2, CopiedFits DEF Place
  <2> HIDE DEF at
  <2> QED
    BY <1>1, <2>2, <2>3, <2>4
<1> QED
  BY <1>2, <1>3, <1>4 DEF ManagerStored, IsManager, Same

(* "Add user" takes the slot behind the numbers in the file.               *)
LEMMA AddUserKeeps ==
  ASSUME UsersTypeOK, UsersInv,
         NEW n \in Numbers, NEW new \in NewNumbers, AddUser(n, new)
  PROVE  UsersInv'
<1>1. /\ new \in Seq(Chars) /\ Len(new) = SlotLen /\ Len(new) < BufferLen
      /\ SlotLen \in Nat \ {0} /\ Slots \in Nat \ {0} /\ 0 \in Slot
      /\ new # Nobody
  BY UsersAssumption DEF AddUser, Fits, Slot, Nobody
<1>2. ManagerStored'
  BY AddUserKeepsManager DEF UsersInv
<1>3. saved' = saved
  BY DEF AddUser
<1>4. CASE Fault("read")
  BY <1>2, <1>4 DEF Fault, UsersInv, WholeNumbers, StoredUsersKnown
<1>5. CASE /\ Place(new, Len(file))
           /\ \/ file' = file \o new /\ NoFault
              \/ UNCHANGED file /\ Fault("write")
  <2>1. CASE "read" \in seen \/ ~SavedFits
    <3>1. "read" \in seen' \/ ~SavedFits'
      BY <1>3, <1>5, <2>1 DEF Fault, NoFault, SavedFits
    <3> QED
      BY <1>2, <3>1 DEF UsersInv, WholeNumbers, StoredUsersKnown
  <2>2. CASE "read" \notin seen /\ SavedFits
    <3>1. PICK k \in 0 .. Slots : Holds(file, k)
      BY <2>2 DEF UsersInv, WholeNumbers
    <3>2. k < Slots /\ users' = [users EXCEPT ![k] = new] /\ k \in Slot
      <4>1. Len(file) \div SlotLen = k
        BY <1>1, <3>1, SlotOf DEF Holds
      <4>2. HasRoom(Len(file))
        BY <1>5 DEF Place
      <4>3. k < Slots
        BY <4>1, <4>2 DEF HasRoom
      <4>4. NextSlot(Len(file)) = k
        BY <4>1 DEF NextSlot
      <4>5. users' = Copied(k, new)
        BY <1>5, <4>4 DEF Place
      <4>6. users' = [users EXCEPT ![k] = new]
        BY <1>1, <4>5, CopiedFits DEF UsersTypeOK
      <4> QED
        BY <1>1, <3>1, <4>3, <4>6 DEF Slot
    <3>3. k + 1 \in 0 .. Slots /\ Holds(file \o new, k + 1)
      BY <1>1, <3>1, <3>2, NextSlotFilled
    <3>4. WholeNumbers'
      BY <1>5, <3>1, <3>3 DEF WholeNumbers, Holds
    <3>5. \A i \in Slot : (Load(file)[i] # Nobody) <=> i < k
      BY <3>1, TakenSlots
    <3>6. \A i \in Slot : (Load(file \o new)[i] # Nobody) <=> i < k + 1
      BY <3>3, TakenSlots
    <3>7. \A i \in Slot :
            /\ i < k => Load(file \o new)[i] = Load(file)[i]
            /\ i = k => Load(file \o new)[i] = new
      BY <1>1, <3>1, NextSlotFilled
    <3>8. StoredUsersKnown'
      <4> SUFFICES ASSUME seen' \subseteq {"write", "crash"}, NEW i \in Slot,
                          Load(file')[i] # Nobody
                   PROVE  users'[i] = Load(file')[i]
        BY DEF StoredUsersKnown
      <4>1. seen \subseteq {"write", "crash"}
        BY <1>5 DEF Fault, NoFault
      <4>2. i \in Nat /\ k \in Nat
        BY <3>2 DEF Slot
      <4>3. CASE i < k
        <5>1. Load(file)[i] # Nobody
          BY <3>5, <4>3
        <5>2. users[i] = Load(file)[i]
          BY <2>2, <4>1, <5>1 DEF UsersInv, StoredUsersKnown
        <5>3. Load(file')[i] = Load(file)[i]
          BY <1>5, <3>7, <4>3
        <5> QED
          BY <3>2, <4>2, <4>3, <5>2, <5>3 DEF UsersTypeOK
      <4>4. CASE i >= k
        <5>1. file' # file
          BY <3>5, <4>2, <4>4
        <5>2. file' = file \o new
          BY <1>5, <5>1
        <5>3. i < k + 1
          BY <3>6, <5>2
        <5>4. i = k
          BY <4>2, <4>4, <5>3
        <5> QED
          BY <3>2, <3>7, <5>2, <5>4 DEF UsersTypeOK
      <4> QED
        BY <4>2, <4>3, <4>4
    <3> QED
      BY <1>2, <3>4, <3>8 DEF UsersInv
  <2> QED
    BY <2>1, <2>2
<1> QED
  BY <1>4, <1>5 DEF AddUser

(* A restart finds in the file what it left there.                         *)
LEMMA BootKeeps ==
  ASSUME UsersTypeOK, UsersInv, Boot
  PROVE  UsersInv'
<1>1. /\ file' = file /\ saved' = saved /\ told' = told
      /\ "read" \in seen => "read" \in seen'
  BY DEF Boot, Fault, NoFault
<1>2. WholeNumbers'
  BY <1>1 DEF UsersInv, WholeNumbers, SavedFits, Holds
<1>3. CASE users' = Load(file) /\ NoFault
  <2>1. seen' = seen
    BY <1>3 DEF NoFault
  <2>2. StoredUsersKnown'
    BY <1>1, <1>3 DEF StoredUsersKnown
  <2>3. users'[0] = Prefix(file, SlotLen) /\ file \in Seq(Chars)
    BY <1>3, FirstSlot DEF UsersTypeOK
  <2>4. Prefix(users'[0], SlotLen) = Prefix(file, SlotLen)
    BY <2>3, UsersAssumption, PrefixTwice
  <2>5. file = <<>> => users'[0] = Nobody
    <3>1. 0 \in Slot
      BY UsersAssumption DEF Slot
    <3> QED
      BY <1>3, <3>1, SmallFiles
  <2>6. ManagerStored'
    BY <1>1, <2>1, <2>4, <2>5 DEF UsersInv, ManagerStored, IsManager, Same
  <2> QED
    BY <1>2, <2>2, <2>6 DEF UsersInv
<1>4. CASE Fault("open") \/ Fault("read")
  <2>1. "open" \in seen' \/ "read" \in seen'
    BY <1>4 DEF Fault
  <2>2. StoredUsersKnown'
    BY <2>1 DEF StoredUsersKnown
  <2>3. ManagerStored'
    BY <2>1 DEF ManagerStored
  <2> QED
    BY <1>2, <2>2, <2>3 DEF UsersInv
<1> QED
  BY <1>3, <1>4 DEF Boot

(* The places are kept by every command and by every restart.              *)
THEOREM UsersInvHolds == Spec => []UsersInv
<1>1. Init => UsersInv
  <2>1. 0 \in Slot /\ 0 \in 0 .. Slots /\ Len(Nobody) = 0
        /\ SlotLen \in Nat \ {0}
    BY UsersAssumption DEF Slot, Nobody
  <2> QED
    BY <2>1, SmallFiles
       DEF Init, UsersInv, WholeNumbers, StoredUsersKnown, ManagerStored, Nobody
<1>2. UsersInv /\ UsersTypeOK /\ [Next]_vars => UsersInv'
  <2> SUFFICES ASSUME UsersInv, UsersTypeOK, [Next]_vars PROVE UsersInv'
    OBVIOUS
  <2>1. CASE UNCHANGED vars
    BY <2>1
       DEF vars, UsersInv, WholeNumbers, Holds, StoredUsersKnown, SavedFits,
           ManagerStored, IsManager, Same
  <2> QED
    BY <2>1, ManagerKeeps, AddUserKeeps, BootKeeps DEF Next
<1> QED
  BY <1>1, <1>2, TypeCorrect, PTL DEF Spec

(* The manager stays the manager while nothing fails and his number fills  *)
(* a slot, also one that runs over the place of the first user.            *)
THEOREM ManagerSafe == Spec => []ManagerKept
<1>1. UsersInv => ManagerKept
  BY DEF UsersInv, ManagerStored, ManagerKept, ManagerStays
<1> QED
  BY <1>1, UsersInvHolds, PTL

(* Who is in the file is known by his place, whatever restarts or writes   *)
(* that fail, while the manager's number in the file is a slot long.       *)
THEOREM StoredSafe == Spec => []StoredUsersKnown
<1>1. UsersInv => StoredUsersKnown
  BY DEF UsersInv
<1> QED
  BY <1>1, UsersInvHolds, PTL

(* The file never holds more numbers than there are places, while the      *)
(* manager's number in it is a slot long.                                  *)
THEOREM FileSafe == Spec => []FileFits
<1>1. UsersInv => FileFits
  <2> SUFFICES ASSUME UsersInv, "read" \notin seen /\ SavedFits
               PROVE  Len(file) <= Slots * SlotLen
    BY DEF FileFits
  <2>1. PICK k \in 0 .. Slots : Holds(file, k)
    BY DEF UsersInv, WholeNumbers
  <2>2. Slots \in Nat /\ SlotLen \in Nat /\ k \in Nat
    BY UsersAssumption
  <2>3. k * SlotLen <= Slots * SlotLen
    <3>1. CASE k = Slots
      BY <2>2, <3>1
    <3>2. CASE k < Slots
      <4> DEFINE a == k * SlotLen
                 b == Slots * SlotLen
      <4>1. a \in Nat /\ b \in Nat /\ a + SlotLen <= b
        BY <2>2, <3>2, SlotsApart
      <4> HIDE DEF a, b
      <4>2. a <= b
        BY <2>2, <4>1
      <4> QED
        BY <4>2 DEF a, b
    <3> QED
      BY <2>1, <2>2, <3>1, <3>2
  <2> QED
    BY <2>1, <2>3 DEF Holds
<1> QED
  BY <1>1, UsersInvHolds, PTL
=============================================================================
