---------------------------- MODULE Dfota_proofs ----------------------------
(* What TLAPS proves of Dfota for any package, any answers of the server, any  *)
(* files, urls and buffer, and any number of attempts.                         *)
EXTENDS Dfota, SequenceTheorems, WellFoundedInduction, TLAPS

USE FotaAssumption, HttpAssumption, FtpAssumption, UrlsAssumption

-----------------------------------------------------------------------------
(* Looking for a piece in a sequence.                                          *)

\* A set of natural numbers that is not empty has a least element.
LEMMA Least ==
    ASSUME NEW S \in SUBSET Nat, S # {}
    PROVE  \E m \in S : \A k \in S : m <= k
<1> DEFINE less == OpToRel(<, Nat)
<1>1. IsWellFoundedOn(less, Nat)
  BY NatLessThanWellFounded
<1>2. \A k \in S, m \in S : k < m => <<k, m>> \in less
  BY DEF OpToRel
<1> HIDE DEF less
<1>3. PICK m \in S : \A k \in S : ~(<<k, m>> \in less)
  BY <1>1, WFMin
<1>4. \A k \in S : ~(k < m)
  BY <1>2, <1>3
<1> QED
  BY <1>4

\* SelectInSeq finds the first e.
LEMMA FirstIn ==
    ASSUME NEW seq \in Seq(STRING), NEW e
    PROVE  LET i == SelectInSeq(seq, LAMBDA p : p = e)
           IN  /\ i \in 0..Len(seq)
               /\ i = 0 => \A j \in 1..Len(seq) : seq[j] # e
               /\ i > 0 => seq[i] = e /\ \A j \in 1..(i - 1) : seq[j] # e
<1> DEFINE I == {j \in 1..Len(seq) : seq[j] = e}
           first == SelectInSeq(seq, LAMBDA p : p = e)
<1> SUFFICES /\ first \in 0..Len(seq)
             /\ first = 0 => \A j \in 1..Len(seq) : seq[j] # e
             /\ first > 0 => seq[first] = e /\ \A j \in 1..(first - 1) : seq[j] # e
  OBVIOUS
<1>1. first = IF I # {} THEN Min(I) ELSE 0
  BY DEF SelectInSeq
<1>2. Len(seq) \in Nat
  BY LenProperties
<1>3. I # {} => Min(I) \in I /\ \A j \in I : Min(I) <= j
  <2> HIDE DEF I
  <2> SUFFICES ASSUME I # {} PROVE Min(I) \in I /\ \A j \in I : Min(I) <= j
    OBVIOUS
  <2>1. I \in SUBSET Nat
    BY <1>2 DEF I
  <2>2. \E m \in I : \A k \in I : m <= k
    BY <2>1, Least
  <2> QED
    BY <2>2 DEF Min
<1> HIDE DEF first
<1>4. CASE I = {}
  BY <1>1, <1>2, <1>4
<1>5. CASE I # {}
  <2>1. first \in I /\ \A j \in I : first <= j
    BY <1>1, <1>3, <1>5
  <2>2. first \in 1..Len(seq) /\ seq[first] = e
    BY <2>1
  <2>3. \A j \in 1..(first - 1) : seq[j] # e
    BY <1>2, <2>1, <2>2
  <2> QED
    BY <1>2, <2>2, <2>3
<1> QED
  BY <1>4, <1>5

\* SelectLastInSeq finds one of the kinds, if there is any.
LEMMA LastIn ==
    ASSUME NEW seq \in Seq(STRING), NEW kinds
    PROVE  LET i == SelectLastInSeq(seq, LAMBDA p : p \in kinds)
           IN  i # 0 => i \in 1..Len(seq) /\ seq[i] \in kinds
<1> DEFINE I == {j \in 1..Len(seq) : seq[j] \in kinds}
           last == SelectLastInSeq(seq, LAMBDA p : p \in kinds)
           Behind == {Len(seq) - j : j \in I}
<1> SUFFICES last # 0 => last \in 1..Len(seq) /\ seq[last] \in kinds
  OBVIOUS
<1>1. last = IF I # {} THEN Max(I) ELSE 0
  BY DEF SelectLastInSeq
<1>2. Len(seq) \in Nat
  BY LenProperties
<1>3. I # {} => Max(I) \in I
  <2>0. \A j \in I : j \in Nat /\ j <= Len(seq)
    BY <1>2
  <2> HIDE DEF I
  <2> SUFFICES ASSUME I # {} PROVE Max(I) \in I
    OBVIOUS
  <2>1. Behind \in SUBSET Nat /\ Behind # {}
    BY <1>2, <2>0
  <2>2. PICK n \in Behind : \A k \in Behind : n <= k
    <3> HIDE DEF Behind
    <3> QED
      BY <2>1, Least
  <2>3. PICK m \in I : n = Len(seq) - m
    OBVIOUS
  <2>4. \A k \in I : Len(seq) - m <= Len(seq) - k
    BY <2>2, <2>3
  <2>5. \A k \in I : m >= k
    BY <1>2, <2>0, <2>4
  <2> QED
    BY <2>5 DEF Max
<1> HIDE DEF last
<1> QED
  BY <1>1, <1>3

\* What can be received has arrived, and does not reach the close.
LEMMA ReceivableArrived ==
    ASSUME DfotaTypeOK, NEW n \in Receivable
    PROVE  n \in 1..Len(arrived) /\ \A j \in 1..n : arrived[j] # "fin"
<1> DEFINE fin == SelectInSeq(arrived, LAMBDA p : p = "fin")
           room == BufferSize - Len(http.data)
           before == IF fin = 0 THEN Len(arrived) ELSE fin - 1
<1>1. arrived \in Seq(STRING) /\ http.data \in Seq(STRING)
  BY DEF DfotaTypeOK, HttpTypeOK
<1>2. /\ fin \in 0..Len(arrived)
      /\ fin = 0 => \A j \in 1..Len(arrived) : arrived[j] # "fin"
      /\ fin > 0 => arrived[fin] = "fin" /\ \A j \in 1..(fin - 1) : arrived[j] # "fin"
  BY <1>1, FirstIn, Zenon
<1>3. n \in 1..Min({room, before})
  BY DEF Receivable
<1> HIDE DEF fin
<1>4. Len(arrived) \in Nat /\ room \in Int
  BY <1>1, LenProperties
<1>5. before \in Int
  BY <1>2, <1>4
<1> HIDE DEF room, before
<1>6. Min({room, before}) \in Int /\ Min({room, before}) <= before
  <2>1. \E m \in {room, before} : \A k \in {room, before} : m <= k
    BY <1>4, <1>5
  <2> QED
    BY <1>4, <1>5, <2>1 DEF Min
<1>7. n \in Nat /\ n > 0 /\ n <= before
  BY <1>3, <1>5, <1>6
<1> QED
  BY <1>2, <1>4, <1>7 DEF before
-----------------------------------------------------------------------------
(* Types and buffers.  The two go together: that a buffer is there to be freed *)
(* is what keeps heap a natural number.                                        *)

\* Whoever reads has a buffer, a context with a buffer has its socket, and there
\* is no download before the first attempt.
ReadersHaveBuffers ==
    /\ main \in {"head", "body"} => http.socketdata
    /\ http.socketdata => http.socketid \in sockets
    /\ download # "none" => attempt > 0

TypeInv == DfotaTypeOK /\ BuffersAccountedFor /\ ReadersHaveBuffers

Contexts ==
    [socketid : 0..MaxAttempts, socketdata : BOOLEAN, data : Seq(STRING),
     ContentLength : Int, receivedbodydata : Nat, httpGettimerstate : BOOLEAN]

Headers == [ContentLength : Int, Exist : BOOLEAN, httpresponse : StatusLines]

LEMMA InitializedType ==
    ASSUME NEW s \in 0..MaxAttempts
    PROVE  Initialized(s) \in Contexts /\ ~Initialized(s).socketdata
BY EmptySeq DEF Initialized, Contexts

LEMMA HeaderType ==
    ASSUME NEW h \in Headers, NEW lines \in Seq(STRING)
    PROVE  DecodeHttpLines(h, lines) \in Headers
<1> DEFINE status == SelectLastInSeq(lines, LAMBDA line : line \in StatusLines)
           length == SelectLastInSeq(lines, LAMBDA line :
                                         line \in DOMAIN Announces \cup {"chunked"})
           chunked == lines[length] = "chunked"
           d == DecodeHttpLines(h, lines)
<1>1. status # 0 => lines[status] \in StatusLines
  BY LastIn
<1>2. length # 0 => lines[length] \in DOMAIN Announces \cup {"chunked"}
  BY LastIn
<1>3. d = [httpresponse  |-> IF status = 0 THEN h.httpresponse ELSE lines[status],
           Exist         |-> IF length = 0 THEN h.Exist ELSE ~chunked,
           ContentLength |-> IF length = 0 THEN h.ContentLength
                             ELSE IF chunked THEN Unknown ELSE Announces[lines[length]]]
  BY DEF DecodeHttpLines
<1> HIDE DEF status, length, d
<1>4. \A line \in DOMAIN Announces : Announces[line] \in Int
  BY LenProperties DEF Announces
<1>5. (IF length = 0 THEN h.ContentLength
       ELSE IF chunked THEN Unknown ELSE Announces[lines[length]]) \in Int
  BY <1>2, <1>4 DEF Headers, Unknown
<1>6. (IF length = 0 THEN h.Exist ELSE ~chunked) \in BOOLEAN
  BY Zenon DEF Headers
<1>7. (IF status = 0 THEN h.httpresponse ELSE lines[status]) \in StatusLines
  BY <1>1 DEF Headers
<1> HIDE DEF chunked
<1>8. d \in Headers
  BY <1>3, <1>5, <1>6, <1>7, Zenon DEF Headers
<1> QED
  BY <1>8 DEF d

LEMMA InitTypes == Init => TypeInv
<1> SUFFICES ASSUME Init PROVE TypeInv
  OBVIOUS
<1> USE DEF Init
<1>1. /\ flash \in Seq(STRING) /\ unread \in Seq(STRING)
      /\ coming \in Seq(STRING) /\ arrived \in Seq(STRING)
  BY EmptySeq DEF FotaInit, HttpInit, FtpInit
<1>2. FotaTypeOK
  <2>1. attempt \in 0..MaxAttempts
    BY DEF FotaInit
  <2> QED
    BY <1>1, <2>1 DEF FotaInit, FotaTypeOK
<1>3. http \in Contexts /\ ~http.socketdata
  BY InitializedType DEF HttpInit, NoSocket
<1>4. HttpTypeOK
  <2>1. httpheader \in Headers
    BY DEF HttpInit, Headers, StatusLines
  <2> QED
    BY <1>1, <1>3, <2>1 DEF HttpInit, HttpTypeOK, Contexts, Headers
<1>5. FtpTypeOK
  BY <1>1 DEF FtpInit, FtpTypeOK
<1>6. BuffersAccountedFor /\ ReadersHaveBuffers
  BY <1>3 DEF FotaInit, FtpInit, BuffersAccountedFor, ReadersHaveBuffers
<1> QED
  BY <1>2, <1>4, <1>5, <1>6 DEF TypeInv, DfotaTypeOK

\* A failure in the read callback frees the buffer, if there is one.
LEMMA FailedTypes ==
    ASSUME TypeInv, NEW h \in Contexts, h.socketid = http.socketid,
           NEW times \in Nat, Failed(h, times),
           UNCHANGED <<flash, marked, module, answer, attempt, leaked, ftpVars, leftover>>,
           httpheader' \in Headers, timer' \in BOOLEAN, resolving' \in Nat,
           sockets' \subseteq Attempts, signal' \subseteq Attempts,
           coming' \in Seq(STRING), arrived' \in Seq(STRING)
    PROVE  TypeInv'
<1>1. /\ http' \in Contexts /\ ~http'.socketdata
  BY InitializedType DEF Failed, Freed, TypeInv, DfotaTypeOK, HttpTypeOK
<1>2. heap' = heap - (IF http.socketdata THEN 1 ELSE 0)
  BY DEF Failed, TypeInv, DfotaTypeOK, FotaTypeOK
<1>3. heap' = leaked' + (IF urc' = "write" THEN 1 ELSE 0)
  BY <1>2 DEF TypeInv, BuffersAccountedFor, DfotaTypeOK, FotaTypeOK, ftpVars
<1>4. heap' \in Nat
  BY <1>3 DEF TypeInv, DfotaTypeOK, FotaTypeOK
<1>5. BuffersAccountedFor'
  BY <1>1, <1>3, <1>4 DEF BuffersAccountedFor, TypeInv, DfotaTypeOK, FotaTypeOK
<1>6. FotaTypeOK'
  BY <1>4 DEF Failed, ReportFailure, Reports, FotaTypeOK, TypeInv, DfotaTypeOK
<1>7. HttpTypeOK'
  BY <1>1 DEF HttpTypeOK, Contexts, Headers
<1>8. FtpTypeOK' /\ leftover' \in BOOLEAN
  BY DEF FtpTypeOK, ftpVars, TypeInv, DfotaTypeOK
<1>9. ReadersHaveBuffers'
  BY <1>1 DEF ReadersHaveBuffers, Failed, ftpVars, TypeInv
<1> QED
  BY <1>5, <1>6, <1>7, <1>8, <1>9 DEF TypeInv, DfotaTypeOK

\* The end of a body closes the socket and frees the buffer.
LEMMA DownloadedTypes ==
    ASSUME TypeInv, Downloaded, http.socketdata,
           UNCHANGED <<answer, attempt, leaked, ftpVars, leftover>>,
           flash' \in Seq(STRING), marked' \in BOOLEAN,
           module' \in {"running", "updating", "crashed"},
           failures' \in Nat, told' \subseteq Endings,
           httpheader' \in Headers, timer' \in BOOLEAN, resolving' \in Nat,
           coming' \in Seq(STRING), arrived' \in Seq(STRING)
    PROVE  TypeInv'
<1>1. /\ http' \in Contexts /\ ~http'.socketdata
  BY InitializedType DEF Downloaded, NoSocket
<1>2. heap' = leaked' + (IF urc' = "write" THEN 1 ELSE 0)
  BY DEF Downloaded, TypeInv, BuffersAccountedFor, DfotaTypeOK, FotaTypeOK, ftpVars
<1>3. heap' \in Nat
  BY <1>2 DEF TypeInv, DfotaTypeOK, FotaTypeOK
<1>4. BuffersAccountedFor'
  BY <1>1, <1>2, <1>3 DEF BuffersAccountedFor, TypeInv, DfotaTypeOK, FotaTypeOK
<1>5. FotaTypeOK'
  BY <1>3 DEF Downloaded, FotaTypeOK, TypeInv, DfotaTypeOK
<1>6. sockets' \subseteq Attempts /\ signal' \subseteq Attempts
  BY DEF Downloaded, TypeInv, DfotaTypeOK, HttpTypeOK
<1>7. HttpTypeOK'
  BY <1>1, <1>6 DEF HttpTypeOK, Contexts, Headers
<1>8. FtpTypeOK' /\ leftover' \in BOOLEAN
  BY DEF FtpTypeOK, ftpVars, TypeInv, DfotaTypeOK
<1>9. ReadersHaveBuffers'
  BY <1>1 DEF ReadersHaveBuffers, Downloaded, ftpVars, TypeInv
<1> QED
  BY <1>4, <1>5, <1>7, <1>8, <1>9 DEF TypeInv, DfotaTypeOK

\* Connecting the context h, which has no connected socket and no buffer if it
\* can be connected; the socket is then its own.
LEMMA ConnectTypes ==
    ASSUME NEW h \in Contexts, NEW f \in Nat, NEW e \in SUBSET Endings,
           http_GetImagefilefromServer(h, f, e),
           h.socketdata => h.socketid \in sockets,
           sockets \subseteq Attempts, coming \in Seq(STRING), arrived \in Seq(STRING),
           heap \in Nat, timer \in BOOLEAN
    PROVE  /\ http' \in Contexts
           /\ http'.socketdata => http'.socketid \in sockets'
           /\ heap' \in Nat
           /\ heap' = heap + (IF http'.socketdata /\ ~h.socketdata THEN 1 ELSE 0)
           /\ h.socketdata => http'.socketdata
           /\ sockets' \subseteq Attempts
           /\ coming' \in Seq(STRING) /\ arrived' \in Seq(STRING)
           /\ timer' \in BOOLEAN /\ failures' \in Nat /\ told' \subseteq Endings
<1>1. CASE http' = h /\ Reports(f + 1, e) /\ UNCHANGED <<timer, heap, sockets, coming, arrived>>
  BY <1>1 DEF Reports
<1>2. CASE /\ Connectable(h.socketid) /\ http' = Initialized(NoSocket)
           /\ Reports(f + 1, e) /\ UNCHANGED <<timer, heap, sockets, coming, arrived>>
  BY <1>2, InitializedType DEF Reports, Connectable, NoSocket
<1>3. CASE /\ Connectable(h.socketid)
           /\ http' = [h EXCEPT !.socketdata = TRUE, !.httpGettimerstate = TRUE]
           /\ sockets' = sockets \cup {h.socketid}
           /\ coming' \in Answers /\ arrived' = <<>>
           /\ heap' = heap + 1 /\ timer' = TRUE /\ Reports(f, e)
  <2>1. ~h.socketdata
    BY <1>3 DEF Connectable
  <2>2. h.socketid \in Attempts
    BY <1>3 DEF Connectable, NoSocket, Contexts, Attempts
  <2>3. http' \in Contexts /\ http'.socketdata /\ http'.socketid = h.socketid
    BY <1>3 DEF Contexts
  <2>4. arrived' \in Seq(STRING)
    BY <1>3, EmptySeq
  <2> QED
    BY <1>3, <2>1, <2>2, <2>3, <2>4 DEF Reports
<1> QED
  BY <1>1, <1>2, <1>3 DEF http_GetImagefilefromServer

\* The call that starts an attempt: a forgotten buffer is leaked.
LEMMA HttpStartTypes ==
    ASSUME TypeInv, NEW url \in Urls, attempt < MaxAttempts, attempt' = attempt + 1,
           main = "idle", main' = "idle", HTTP_DfotaMain(attempt + 1, url)
    PROVE  /\ http' \in Contexts /\ httpheader' \in Headers
           /\ heap' \in Nat /\ leaked' \in Nat
           /\ heap' = leaked' + (IF http'.socketdata THEN 1 ELSE 0)
                              + (IF urc = "write" THEN 1 ELSE 0)
           /\ http'.socketdata => http'.socketid \in sockets'
           /\ sockets' \subseteq Attempts /\ signal' = signal
           /\ coming' \in Seq(STRING) /\ arrived' \in Seq(STRING)
           /\ timer' \in BOOLEAN /\ resolving' \in Nat
           /\ failures' \in Nat /\ told' \subseteq Endings
<1> USE DEF TypeInv, DfotaTypeOK, FotaTypeOK, HttpTypeOK, BuffersAccountedFor,
            ReadersHaveBuffers
<1> DEFINE h == Initialized(attempt + 1)
           forgotten == IF http.socketdata THEN 1 ELSE 0
<1>1. h \in Contexts /\ ~h.socketdata
  BY InitializedType
<1>2. httpheader' \in Headers /\ signal' = signal
  BY DEF HTTP_DfotaMain, Headers
<1>3. CASE /\ Reports(1, {"refused"})
           /\ UNCHANGED <<http, timer, resolving, sockets, coming, arrived, heap, leaked>>
  BY <1>2, <1>3 DEF Reports, Endings, Contexts
<1>4. CASE /\ leaked' = leaked + forgotten /\ http' = h
           /\ UNCHANGED <<timer, sockets, coming, arrived, heap>>
           /\ resolving' \in {resolving, resolving + 1}
           /\ Reports(0, {}) \/ Reports(1, {}) \/ Reports(1, {"refused"})
  <2> HIDE DEF h
  <2> QED
    BY <1>1, <1>2, <1>4 DEF Reports, Endings
<1>5. CASE /\ leaked' = leaked + forgotten /\ UNCHANGED resolving
           /\ http_GetImagefilefromServer(h, 0, {})
  <2>1. leaked' \in Nat /\ heap = leaked' + (IF urc = "write" THEN 1 ELSE 0)
    BY <1>5
  <2> HIDE DEF h
  <2>2. /\ http' \in Contexts
        /\ http'.socketdata => http'.socketid \in sockets'
        /\ heap' \in Nat
        /\ heap' = heap + (IF http'.socketdata /\ ~h.socketdata THEN 1 ELSE 0)
        /\ sockets' \subseteq Attempts
        /\ coming' \in Seq(STRING) /\ arrived' \in Seq(STRING)
        /\ timer' \in BOOLEAN /\ failures' \in Nat /\ told' \subseteq Endings
    BY <1>1, <1>5, ConnectTypes
  <2> QED
    BY <1>1, <1>2, <1>5, <2>1, <2>2
<1> QED
  BY <1>3, <1>4, <1>5 DEF HTTP_DfotaMain

LEMMA StartTypes ==
    ASSUME TypeInv, NEW url \in Urls, Ql_DFOTA_StartUpgrade(url)
    PROVE  TypeInv'
<1> USE DEF TypeInv, DfotaTypeOK
<1>1. /\ main = "idle" /\ module = "running"
      /\ attempt < MaxAttempts /\ attempt' = attempt + 1 /\ attempt' \in 0..MaxAttempts
  BY DEF Ql_DFOTA_StartUpgrade, FotaTypeOK
<1>0. ASSUME main' \notin {"head", "body"},
             http'.socketdata => http'.socketid \in sockets'
      PROVE  ReadersHaveBuffers'
  BY <1>1, <1>0 DEF ReadersHaveBuffers, FotaTypeOK
<1>2. CASE /\ Reports(0, {"initFail"})
           /\ UNCHANGED <<flash, marked, module, answer, main, heap, leaked,
                          httpVars, ftpVars, leftover>>
  <2>1. FotaTypeOK'
    BY <1>1, <1>2 DEF FotaTypeOK, Reports, Endings
  <2> QED
    BY <1>0, <1>1, <1>2, <2>1
       DEF httpVars, ftpVars, HttpTypeOK, FtpTypeOK, BuffersAccountedFor, ReadersHaveBuffers
<1>3. ASSUME flash' = <<>>, marked' = FALSE, answer' \in {"yes", "no"},
             leftover' = SomethingLeft
      PROVE  flash' \in Seq(STRING) /\ leftover' \in BOOLEAN
  BY <1>3, EmptySeq DEF SomethingLeft, HttpTypeOK
<1>4. CASE /\ flash' \in Seq(STRING) /\ marked' = FALSE /\ answer' \in {"yes", "no"}
           /\ leftover' \in BOOLEAN
           /\ FTP_DfotaMain(url) /\ UNCHANGED <<heap, leaked, httpVars>>
  <2>1. /\ module' \in {"running", "crashed"} /\ main' \in {"idle", "get"}
        /\ download' \in {"none", "running", "succeeded", "failed"}
        /\ failures' \in Nat /\ told' \subseteq Endings
        /\ UNCHANGED <<FtpGet_IND_CB, urc, handled, unread, lost>>
    BY <1>1, <1>4 DEF FTP_DfotaMain, Reports, Endings, FtpTypeOK
  <2>2. FotaTypeOK'
    BY <1>1, <1>4, <2>1 DEF FotaTypeOK
  <2>3. HttpTypeOK' /\ FtpTypeOK'
    BY <1>4, <2>1 DEF httpVars, HttpTypeOK, FtpTypeOK
  <2> QED
    BY <1>0, <1>1, <1>4, <2>1, <2>2, <2>3
       DEF httpVars, BuffersAccountedFor, ReadersHaveBuffers
<1>5. CASE /\ flash' \in Seq(STRING) /\ marked' = FALSE /\ answer' \in {"yes", "no"}
           /\ leftover' \in BOOLEAN
           /\ HTTP_DfotaMain(attempt + 1, url) /\ UNCHANGED <<module, main, ftpVars>>
  <2>1. /\ http' \in Contexts /\ httpheader' \in Headers
        /\ heap' \in Nat /\ leaked' \in Nat
        /\ heap' = leaked' + (IF http'.socketdata THEN 1 ELSE 0)
                           + (IF urc = "write" THEN 1 ELSE 0)
        /\ http'.socketdata => http'.socketid \in sockets'
        /\ sockets' \subseteq Attempts /\ signal' = signal
        /\ coming' \in Seq(STRING) /\ arrived' \in Seq(STRING)
        /\ timer' \in BOOLEAN /\ resolving' \in Nat
        /\ failures' \in Nat /\ told' \subseteq Endings
    BY <1>1, <1>5, HttpStartTypes
  <2>2. FotaTypeOK'
    BY <1>1, <1>5, <2>1 DEF FotaTypeOK
  <2>3. HttpTypeOK'
    BY <1>5, <2>1 DEF HttpTypeOK, Contexts, Headers
  <2>4. FtpTypeOK' /\ urc' = urc
    BY <1>5 DEF ftpVars, FtpTypeOK
  <2> QED
    BY <1>0, <1>1, <1>5, <2>1, <2>2, <2>3, <2>4 DEF BuffersAccountedFor
<1>6. CASE /\ flash' \in Seq(STRING) /\ marked' = FALSE /\ answer' \in {"yes", "no"}
           /\ leftover' \in BOOLEAN /\ Reports(0, {"refused"})
           /\ UNCHANGED <<module, main, heap, leaked, httpVars, ftpVars>>
  <2>1. FotaTypeOK'
    BY <1>1, <1>6 DEF FotaTypeOK, Reports, Endings
  <2> QED
    BY <1>0, <1>1, <1>6, <2>1
       DEF httpVars, ftpVars, HttpTypeOK, FtpTypeOK, BuffersAccountedFor, ReadersHaveBuffers
<1> QED
  BY <1>2, <1>3, <1>4, <1>5, <1>6 DEF Ql_DFOTA_StartUpgrade

LEMMA LookupTypes ==
    ASSUME TypeInv, Callback_GetIpByHostName, UNCHANGED <<ftpVars, leftover>>
    PROVE  TypeInv'
<1> USE DEF TypeInv, DfotaTypeOK
<1> USE DEF Callback_GetIpByHostName
<1>1. resolving' \in Nat /\ resolving > 0
  BY DEF HttpTypeOK
<1>2. CASE ReportFailure(1) /\ UNCHANGED <<http, sockets, timer, heap, coming, arrived>>
  <2>1. FotaTypeOK'
    BY <1>2 DEF FotaTypeOK, ReportFailure, Reports
  <2> QED
    BY <1>1, <1>2, <2>1 DEF ftpVars, HttpTypeOK, FtpTypeOK, BuffersAccountedFor,
                            ReadersHaveBuffers
<1>3. CASE http_GetImagefilefromServer(http, failures, told)
  <2>1. /\ http' \in Contexts
        /\ http'.socketdata => http'.socketid \in sockets'
        /\ heap' \in Nat
        /\ heap' = heap + (IF http'.socketdata /\ ~http.socketdata THEN 1 ELSE 0)
        /\ http.socketdata => http'.socketdata
        /\ sockets' \subseteq Attempts
        /\ coming' \in Seq(STRING) /\ arrived' \in Seq(STRING)
        /\ timer' \in BOOLEAN /\ failures' \in Nat /\ told' \subseteq Endings
    BY <1>3, ConnectTypes DEF HttpTypeOK, FotaTypeOK, ReadersHaveBuffers, Contexts
  <2>2. FotaTypeOK'
    BY <2>1 DEF FotaTypeOK
  <2>3. HttpTypeOK'
    BY <1>1, <2>1 DEF HttpTypeOK, Contexts
  <2>4. FtpTypeOK' /\ leftover' \in BOOLEAN /\ urc' = urc
    BY DEF FtpTypeOK, ftpVars
  <2>5. BuffersAccountedFor'
    BY <2>1, <2>4 DEF BuffersAccountedFor, FotaTypeOK
  <2>6. ReadersHaveBuffers'
    BY <2>1 DEF ReadersHaveBuffers, ftpVars
  <2> QED
    BY <2>2, <2>3, <2>4, <2>5, <2>6
<1> QED
  BY <1>2, <1>3

LEMMA TimerTypes ==
    ASSUME TypeInv, http_TimerCallback, UNCHANGED <<ftpVars, leftover>>
    PROVE  TypeInv'
<1>1. Failed(http, 1)
  BY DEF http_TimerCallback, Failed
<1> QED
  BY <1>1, FailedTypes
     DEF http_TimerCallback, link, TypeInv, DfotaTypeOK, HttpTypeOK, Contexts, Headers

LEMMA ReadErrorTypes ==
    ASSUME TypeInv, NEW s \in Attempts, ReadError(s), UNCHANGED <<ftpVars, leftover>>
    PROVE  TypeInv'
BY FailedTypes DEF ReadError, TypeInv, DfotaTypeOK, HttpTypeOK, Contexts, Headers

LEMMA ReadSuccessTypes ==
    ASSUME TypeInv, NEW s \in Attempts, ReadSuccess(s), UNCHANGED <<ftpVars, leftover>>
    PROVE  TypeInv'
<1> USE DEF TypeInv, DfotaTypeOK, ReadSuccess, Silence, Reports
<1>1. CASE ~http.socketdata
  <2>1. HttpTypeOK'
    BY <1>1 DEF HttpTypeOK
  <2>2. FotaTypeOK' /\ FtpTypeOK' /\ leftover' \in BOOLEAN
    BY <1>1 DEF FotaTypeOK, FtpTypeOK, ftpVars
  <2>3. BuffersAccountedFor' /\ ReadersHaveBuffers'
    BY <1>1 DEF BuffersAccountedFor, ReadersHaveBuffers, ftpVars
  <2> QED
    BY <2>1, <2>2, <2>3
<1>2. CASE http.socketdata
  <2>1. http' \in Contexts /\ http'.socketdata /\ http'.socketid = http.socketid
    BY <1>2 DEF HttpTypeOK, Contexts
  <2>2. timer' \in BOOLEAN
    BY <1>2, Zenon DEF HttpTypeOK
  <2>3. HttpTypeOK'
    BY <2>1, <2>2 DEF HttpTypeOK, Contexts
  <2>4. FotaTypeOK' /\ FtpTypeOK' /\ leftover' \in BOOLEAN
    BY <1>2 DEF FotaTypeOK, FtpTypeOK, ftpVars
  <2>5. BuffersAccountedFor' /\ ReadersHaveBuffers'
    BY <1>2, <2>1 DEF BuffersAccountedFor, ReadersHaveBuffers, ftpVars
  <2> QED
    BY <2>3, <2>4, <2>5
<1> QED
  BY <1>1, <1>2

LEMMA ReadLaterTypes ==
    ASSUME TypeInv, ReadLater(http), http.socketdata,
           UNCHANGED <<flash, marked, module, answer, attempt, leaked, httpheader,
                       resolving, sockets, coming, arrived, signal, ftpVars, leftover>>
    PROVE  TypeInv'
<1> USE DEF TypeInv, DfotaTypeOK, ReadLater, Silence, Reports
<1>1. timer' \in BOOLEAN
  BY Zenon
<1>2. HttpTypeOK'
  BY <1>1 DEF HttpTypeOK
<1>3. FotaTypeOK' /\ FtpTypeOK' /\ leftover' \in BOOLEAN
  BY DEF FotaTypeOK, FtpTypeOK, ftpVars
<1>4. BuffersAccountedFor' /\ ReadersHaveBuffers'
  BY DEF BuffersAccountedFor, ReadersHaveBuffers, ftpVars
<1> QED
  BY <1>2, <1>3, <1>4

\* What a read takes from what has arrived.
LEMMA ReceivedTypes ==
    ASSUME TypeInv, NEW n \in Receivable, Taken(n)
    PROVE  /\ n \in 1..Len(arrived)
           /\ SubSeq(arrived, 1, n) \in Seq(STRING)
           /\ Received(n) \in Seq(STRING) /\ arrived' \in Seq(STRING)
<1>1. arrived \in Seq(STRING) /\ http.data \in Seq(STRING) /\ n \in 1..Len(arrived)
  BY ReceivableArrived DEF TypeInv, DfotaTypeOK, HttpTypeOK
<1>2. Len(arrived) \in Nat
  BY <1>1, LenProperties
<1>3. SubSeq(arrived, 1, n) \in Seq(STRING)
  BY <1>1, <1>2, SubSeqProperties
<1>4. SubSeq(arrived, n + 1, Len(arrived)) \in Seq(STRING)
  BY <1>1, <1>2, SubSeqProperties
<1> QED
  BY <1>1, <1>3, <1>4, ConcatProperties DEF Received, Taken

\* The whole lines in the buffer, which held `pieces', are decoded.
LEMMA HeadReceivedTypes ==
    ASSUME TypeInv, http.socketdata, NEW pieces \in Seq(STRING), HeadReceived(pieces),
           arrived' \in Seq(STRING),
           UNCHANGED <<flash, marked, module, answer, attempt, leaked, timer,
                       resolving, sockets, coming, signal, ftpVars, leftover>>
    PROVE  TypeInv'
<1> USE DEF TypeInv, DfotaTypeOK
<1>1. PICK k \in 0..Len(pieces) :
        /\ httpheader' = DecodeHttpLines(httpheader, SubSeq(pieces, 1, k))
        /\ IF Contains(SubSeq(pieces, 1, k), "end")
           THEN HeadEnds(httpheader', SubSeq(pieces, k + 1, Len(pieces)))
           ELSE /\ http' = [http EXCEPT !.data = SubSeq(pieces, k + 1, Len(pieces))]
                /\ Silence /\ UNCHANGED <<main, heap>>
  BY DEF HeadReceived
<1> DEFINE lines == SubSeq(pieces, 1, k)
           rest == SubSeq(pieces, k + 1, Len(pieces))
<1>2. lines \in Seq(STRING) /\ rest \in Seq(STRING)
  <2>1. Len(pieces) \in Nat /\ k \in Nat /\ k <= Len(pieces)
    BY LenProperties
  <2> QED
    BY <2>1, SubSeqProperties
<1> HIDE DEF lines, rest
<1>3. httpheader' \in Headers
  BY <1>1, <1>2, HeaderType DEF lines, HttpTypeOK, Headers
<1>4. \A h \in Contexts, times \in {1, 2} :
        h.socketid = http.socketid /\ Failed(h, times) => TypeInv'
  <2>1. /\ timer' \in BOOLEAN /\ resolving' \in Nat /\ sockets' \subseteq Attempts
        /\ signal' \subseteq Attempts /\ coming' \in Seq(STRING)
    BY DEF HttpTypeOK
  <2> QED
    BY <1>3, <2>1, FailedTypes
<1> DEFINE kept == [http EXCEPT !.data = rest]
           length == IF httpheader'.Exist THEN httpheader'.ContentLength ELSE Unknown
           known == [http EXCEPT !.data = rest, !.ContentLength = length]
<1>5. length \in Int
  BY <1>3 DEF Headers, Unknown
<1>6. kept \in Contexts /\ kept.socketid = http.socketid /\ kept.socketdata
  BY <1>2 DEF HttpTypeOK, Contexts
<1>7. known \in Contexts /\ known.socketid = http.socketid /\ known.socketdata
  <2> HIDE DEF length
  <2> QED
    BY <1>2, <1>5 DEF HttpTypeOK, Contexts
<1> HIDE DEF kept, known
<1>8. ASSUME http' \in {kept, known}, main' \in {main, "body"}, Silence, UNCHANGED heap
      PROVE  TypeInv'
  <2>1. http' \in Contexts /\ http'.socketid = http.socketid /\ http'.socketdata
    BY <1>6, <1>7, <1>8
  <2>2. HttpTypeOK'
    BY <1>3, <2>1 DEF HttpTypeOK, Contexts, Headers
  <2>3. FotaTypeOK' /\ FtpTypeOK' /\ leftover' \in BOOLEAN
    BY <1>8 DEF FotaTypeOK, FtpTypeOK, ftpVars, Silence, Reports
  <2>4. BuffersAccountedFor' /\ ReadersHaveBuffers'
    BY <1>8, <2>1 DEF BuffersAccountedFor, ReadersHaveBuffers, ftpVars
  <2> QED
    BY <2>2, <2>3, <2>4
<1>9. CASE ~Contains(lines, "end")
  BY <1>1, <1>8, <1>9 DEF kept, lines, rest
<1>10. CASE Contains(lines, "end")
  <2>1. \/ Failed(kept, 1) \/ Failed(known, 2)
        \/ http' = known /\ main' = "body" /\ Silence /\ UNCHANGED heap
    BY <1>1, <1>10 DEF HeadEnds, kept, known, lines, rest
  <2> QED
    BY <1>4, <1>6, <1>7, <1>8, <2>1
<1> QED
  BY <1>9, <1>10

LEMMA HeadTypes ==
    ASSUME TypeInv, http_RecvHttpHead, UNCHANGED <<ftpVars, leftover>>
    PROVE  TypeInv'
<1>1. http.socketdata /\ http \in Contexts /\ httpheader \in Headers
  BY DEF http_RecvHttpHead, TypeInv, ReadersHaveBuffers, DfotaTypeOK, HttpTypeOK,
         Contexts, Headers
<1>2. CASE Failed(http, 1) /\ UNCHANGED <<httpheader, timer, arrived>>
  BY <1>1, <1>2, FailedTypes DEF http_RecvHttpHead, TypeInv, DfotaTypeOK, HttpTypeOK
<1>3. CASE ReadLater(http) /\ UNCHANGED <<httpheader, arrived>>
  BY <1>1, <1>3, ReadLaterTypes DEF http_RecvHttpHead
<1>4. ASSUME NEW n \in Receivable, Taken(n), HeadReceived(Received(n)), UNCHANGED timer
      PROVE  TypeInv'
  BY <1>1, <1>4, ReceivedTypes, HeadReceivedTypes DEF http_RecvHttpHead
<1> QED
  BY <1>2, <1>3, <1>4 DEF http_RecvHttpHead

\* The end of a body is a success or, with the pool not as it should be, not.
LEMMA BodyEndTypes ==
    ASSUME TypeInv, http.socketdata, Downloaded, flash' \in Seq(STRING),
           \/ \E times \in {1, 2} : ReportFailure(times) /\ UNCHANGED <<marked, module>>
           \/ \E now \in BOOLEAN : Upgraded(now),
           UNCHANGED <<answer, attempt, leaked, httpheader, timer, resolving, coming,
                       ftpVars, leftover>>,
           arrived' \in Seq(STRING)
    PROVE  TypeInv'
<1> USE DEF TypeInv, DfotaTypeOK
<1>1. /\ marked' \in BOOLEAN /\ module' \in {"running", "updating", "crashed"}
      /\ failures' \in Nat /\ told' \subseteq Endings
  <2>1. CASE \E times \in {1, 2} : ReportFailure(times) /\ UNCHANGED <<marked, module>>
    BY <2>1 DEF ReportFailure, Reports, FotaTypeOK
  <2>2. CASE \E now \in BOOLEAN : Upgraded(now)
    BY <2>2 DEF Upgraded, Tell, Reports, FotaTypeOK, Endings
  <2> QED
    BY <2>1, <2>2
<1>2. /\ httpheader' \in Headers /\ timer' \in BOOLEAN /\ resolving' \in Nat
      /\ coming' \in Seq(STRING)
  BY DEF HttpTypeOK, Headers
<1> QED
  BY <1>1, <1>2, DownloadedTypes

LEMMA PartTypes ==
    ASSUME TypeInv, http.socketdata, NEW pieces \in Seq(STRING), PartReceived(pieces),
           UNCHANGED <<answer, attempt, leaked, httpheader, timer, resolving, coming,
                       ftpVars, leftover>>,
           arrived' \in Seq(STRING)
    PROVE  TypeInv'
<1> USE DEF TypeInv, DfotaTypeOK
<1> DEFINE size == http.receivedbodydata + Len(pieces)
<1>1. http \in Contexts /\ size \in Nat
  BY LenProperties DEF HttpTypeOK, Contexts
<1> HIDE DEF size
<1>2. Written(pieces) => flash' \in Seq(STRING)
  BY ConcatProperties DEF Written, FotaTypeOK
<1>3. CASE Failed(http, 2) /\ UNCHANGED <<flash, marked, module, sockets, signal>>
  BY <1>1, <1>3, FailedTypes DEF HttpTypeOK, Headers
<1>4. CASE /\ Written(pieces) /\ Silence
           /\ http' = [http EXCEPT !.receivedbodydata = size, !.data = <<>>]
           /\ UNCHANGED <<marked, module, main, heap, sockets, signal>>
  <2>1. http' \in Contexts /\ http'.socketid = http.socketid /\ http'.socketdata
    BY <1>1, <1>4, EmptySeq DEF Contexts
  <2>2. HttpTypeOK'
    BY <1>4, <2>1 DEF HttpTypeOK, Contexts, Headers
  <2>3. FotaTypeOK' /\ FtpTypeOK' /\ leftover' \in BOOLEAN
    BY <1>2, <1>4 DEF FotaTypeOK, FtpTypeOK, ftpVars, Silence, Reports
  <2>4. BuffersAccountedFor' /\ ReadersHaveBuffers'
    BY <1>4, <2>1 DEF BuffersAccountedFor, ReadersHaveBuffers, ftpVars
  <2> QED
    BY <2>2, <2>3, <2>4
<1>5. CASE /\ Written(pieces) /\ Downloaded
           /\ IF FinishSucceeds
              THEN Upgraded(answer = "yes")
              ELSE ReportFailure(2) /\ UNCHANGED <<marked, module>>
  <2>1. \/ ReportFailure(2) /\ UNCHANGED <<marked, module>>
        \/ \E now \in BOOLEAN : Upgraded(now)
    BY <1>5
  <2> QED
    BY <1>2, <1>5, <2>1, BodyEndTypes
<1> QED
  BY <1>3, <1>4, <1>5 DEF PartReceived, size

LEMMA BodyTypes ==
    ASSUME TypeInv, http_RecvHttpBody, UNCHANGED <<ftpVars, leftover>>
    PROVE  TypeInv'
<1> USE DEF TypeInv, DfotaTypeOK
<1>1. http.socketdata /\ http \in Contexts /\ http.data \in Seq(STRING)
  BY DEF http_RecvHttpBody, ReadersHaveBuffers, HttpTypeOK, Contexts
<1>2. CASE BodyBehindHead
  <2>1. flash' \in Seq(STRING)
    <3>1. flash \in Seq(STRING) /\ flash \o http.data \in Seq(STRING)
      BY <1>1, ConcatProperties DEF FotaTypeOK
    <3>2. flash' = flash \/ flash' = flash \o http.data
      BY <1>2 DEF BodyBehindHead, Written
    <3> QED
      BY <3>1, <3>2
  <2>2. \/ \E times \in {1, 2} : ReportFailure(times) /\ UNCHANGED <<marked, module>>
        \/ \E now \in BOOLEAN : Upgraded(now)
    BY <1>2 DEF BodyBehindHead
  <2>3. arrived' \in Seq(STRING)
    BY <1>2 DEF BodyBehindHead, HttpTypeOK
  <2> QED
    BY <1>1, <1>2, <2>1, <2>2, <2>3, BodyEndTypes DEF BodyBehindHead
<1>3. CASE BodyReceived
  <2>1. CASE ReadLater(http) /\ UNCHANGED <<flash, marked, module, sockets, signal, arrived>>
    BY <1>1, <1>3, <2>1, ReadLaterTypes DEF BodyReceived
  <2>2. CASE /\ Failed(http, 1)
             /\ UNCHANGED <<flash, marked, module, timer, sockets, signal, arrived>>
    BY <1>1, <1>3, <2>2, FailedTypes DEF BodyReceived, HttpTypeOK, Headers
  <2>3. ASSUME NEW n \in Receivable, Taken(n), PartReceived(Received(n)), UNCHANGED timer
        PROVE  TypeInv'
    BY <1>1, <1>3, <2>3, ReceivedTypes, PartTypes DEF BodyReceived
  <2> QED
    BY <1>3, <2>1, <2>2, <2>3 DEF BodyReceived
<1> QED
  BY <1>2, <1>3 DEF http_RecvHttpBody

\* FTP: the main task, the module and the URC task leave the HTTP side alone.
LEMMA FtpStepTypes ==
    ASSUME TypeInv, UNCHANGED <<httpVars, leftover, answer, attempt>>,
           flash' \in Seq(STRING), marked' \in BOOLEAN,
           module' \in {"running", "updating", "crashed"}, main' \in {main, "idle"},
           heap' \in Nat, leaked' \in Nat,
           heap' - heap = (leaked' - leaked) + (IF urc' = "write" THEN 1 ELSE 0)
                                             - (IF urc = "write" THEN 1 ELSE 0),
           failures' \in Nat, told' \subseteq Endings, FtpTypeOK',
           download' # "none" => download # "none"
    PROVE  TypeInv'
<1> USE DEF TypeInv, DfotaTypeOK
<1>1. HttpTypeOK' /\ leftover' \in BOOLEAN /\ http' = http /\ sockets' = sockets
  BY DEF httpVars, HttpTypeOK
<1>2. FotaTypeOK'
  BY DEF FotaTypeOK
<1>3. BuffersAccountedFor'
  <2> DEFINE buffer == IF http.socketdata THEN 1 ELSE 0
             writing == IF urc = "write" THEN 1 ELSE 0
  <2>1. buffer \in Nat /\ writing \in Nat /\ writing' \in Nat /\ buffer' = buffer
    BY <1>1
  <2>2. heap = leaked + buffer + writing
    BY DEF BuffersAccountedFor
  <2>3. heap' - heap = (leaked' - leaked) + writing' - writing
    OBVIOUS
  <2>5. heap \in Nat /\ leaked \in Nat
    BY DEF FotaTypeOK
  <2> HIDE DEF buffer, writing
  <2>4. heap' = leaked' + buffer' + writing'
    <3> DEFINE h1 == heap'
               l1 == leaked'
               w1 == writing'
    <3>1. h1 \in Nat /\ l1 \in Nat /\ w1 \in Nat /\ h1 - heap = (l1 - leaked) + w1 - writing
      BY <2>1, <2>3
    <3> HIDE DEF h1, l1, w1
    <3>2. h1 = l1 + buffer + w1
      BY <2>1, <2>2, <2>5, <3>1
    <3> QED
      BY <2>1, <3>2 DEF h1, l1, w1
  <2> QED
    BY <2>4 DEF BuffersAccountedFor, buffer, writing
<1>4. ReadersHaveBuffers'
  BY <1>1 DEF ReadersHaveBuffers
<1> QED
  BY <1>1, <1>2, <1>3, <1>4

LEMMA GetTypes ==
    ASSUME TypeInv, RIL_FTP_QFTPGET, UNCHANGED <<httpVars, leftover>>
    PROVE  TypeInv'
<1> USE DEF RIL_FTP_QFTPGET
<1>1. FotaTypeOK /\ FtpTypeOK
  BY DEF TypeInv, DfotaTypeOK
<1>2. attempt \in {NoTransfer} \cup Attempts
  BY <1>1 DEF NoTransfer, Attempts, FotaTypeOK
<1>3. FtpTypeOK' /\ (download' # "none" => download # "none")
  BY <1>1, <1>2 DEF FtpTypeOK
<1>4. failures' \in Nat /\ told' \subseteq Endings
  BY <1>1 DEF Silence, Tell, Reports, FotaTypeOK, Endings
<1> QED
  BY <1>1, <1>3, <1>4, FtpStepTypes DEF FotaTypeOK

LEMMA DownloadEndsTypes ==
    ASSUME TypeInv, DownloadEnds, UNCHANGED <<httpVars, leftover>>
    PROVE  TypeInv'
<1> USE DEF DownloadEnds, fotaVars
<1>1. FotaTypeOK /\ FtpTypeOK
  BY DEF TypeInv, DfotaTypeOK
<1>2. FtpTypeOK'
  BY <1>1 DEF FtpTypeOK
<1> QED
  BY <1>1, <1>2, FtpStepTypes DEF FotaTypeOK

\* +QFTPGET, which is of an attempt.
LEMMA FtpDownloadTypes ==
    ASSUME TypeInv, OnURCHandler_FTP_Download, UNCHANGED <<httpVars, leftover>>
    PROVE  TypeInv'
<1> USE DEF OnURCHandler_FTP_Download
<1>1. FotaTypeOK /\ FtpTypeOK
  BY DEF TypeInv, DfotaTypeOK
<1>2. attempt \in Attempts
  BY <1>1 DEF Attempts, FotaTypeOK, TypeInv, ReadersHaveBuffers
<1>3. FtpTypeOK'
  BY <1>1, <1>2 DEF FtpTypeOK
<1>4. failures' \in {failures, failures + 1} /\ told' \in {told, told \cup {"message"}}
  BY DEF Silence, Reports
<1>5. failures' \in Nat /\ told' \subseteq Endings
  BY <1>1, <1>4 DEF FotaTypeOK, Endings
<1>6. urc # "write" /\ urc' # "write" /\ leaked' = leaked
  OBVIOUS
<1> HIDE DEF OnURCHandler_FTP_Download
<1>7. /\ UNCHANGED <<flash, marked, module, answer, main, heap, attempt>>
      /\ download' = "none"
  BY DEF OnURCHandler_FTP_Download
<1> QED
  BY <1>1, <1>3, <1>5, <1>6, <1>7, FtpStepTypes DEF FotaTypeOK

LEMMA DoUpgradeTypes ==
    ASSUME TypeInv, OpenFile \/ WriteBlock \/ FinishFile, UNCHANGED <<httpVars, leftover>>
    PROVE  TypeInv'
<1>1. FotaTypeOK /\ FtpTypeOK
  BY DEF TypeInv, DfotaTypeOK
<1>2. heap \in Nat /\ leaked \in Nat /\ failures \in Nat
  BY <1>1 DEF FotaTypeOK
<1>3. CASE OpenFile
  <2>1. /\ heap' \in Nat /\ leaked' \in Nat /\ failures' \in Nat /\ told' = told
        /\ heap' - heap = (leaked' - leaked) + (IF urc' = "write" THEN 1 ELSE 0)
        /\ urc # "write"
    BY <1>2, <1>3 DEF OpenFile, GiveUp, ReportFailure, Silence, Reports
  <2>2. FtpTypeOK'
    BY <1>1, <1>3 DEF OpenFile, GiveUp, FtpTypeOK
  <2>3. /\ UNCHANGED <<flash, marked, module, answer, main, attempt, download>>
    BY <1>3 DEF OpenFile
  <2> QED
    BY <1>1, <1>2, <2>1, <2>2, <2>3, FtpStepTypes DEF FotaTypeOK
<1>4. CASE WriteBlock
  <2>1. /\ heap' = heap /\ leaked' \in Nat /\ failures' \in Nat /\ told' = told
        /\ urc = "write"
        /\ 0 = (leaked' - leaked) + (IF urc' = "write" THEN 1 ELSE 0) - 1
    BY <1>2, <1>4 DEF WriteBlock, GiveUp, ReportFailure, Silence, Reports
  <2>2. Head(unread) \in STRING /\ Tail(unread) \in Seq(STRING)
    BY <1>1, <1>4, HeadTailProperties DEF WriteBlock, FtpTypeOK
  <2>3. <<Head(unread)>> \in Seq(STRING) /\ flash \in Seq(STRING)
    BY <1>1, <2>2 DEF FotaTypeOK
  <2>4. flash \o <<Head(unread)>> \in Seq(STRING)
    BY <2>3, ConcatProperties
  <2>5. flash' \in Seq(STRING)
    BY <1>4, <2>3, <2>4 DEF WriteBlock, Written
  <2>6. FtpTypeOK'
    BY <1>1, <1>4, <2>2 DEF WriteBlock, GiveUp, FtpTypeOK
  <2>7. /\ UNCHANGED <<marked, module, answer, main, attempt, download>>
    BY <1>4 DEF WriteBlock
  <2> QED
    BY <1>1, <1>2, <2>1, <2>5, <2>6, <2>7, FtpStepTypes DEF FotaTypeOK
<1>5. CASE FinishFile
  <2>1. urc = "write" /\ urc' = "clear" /\ leaked' = leaked /\ heap' = heap - 1
    BY <1>5 DEF FinishFile
  <2>2. heap' \in Nat
    BY <1>2, <2>1 DEF TypeInv, BuffersAccountedFor
  <2>3. failures' \in {failures, failures + 1} /\ told' \in {told, told \cup {"complete"}}
        /\ marked' \in {marked, TRUE} /\ module' \in {module, "updating"}
    BY <1>5 DEF FinishFile, Upgraded, ReportFailure, Tell, Reports
  <2>4. failures' \in Nat /\ told' \subseteq Endings
    BY <1>1, <2>3 DEF FotaTypeOK, Endings
  <2>7. marked' \in BOOLEAN /\ module' \in {"running", "updating", "crashed"}
    BY <1>1, <2>3 DEF FotaTypeOK
  <2>5. FtpTypeOK'
    BY <1>1, <1>5 DEF FinishFile, FtpTypeOK
  <2>6. /\ UNCHANGED <<flash, answer, main, attempt, download>>
    BY <1>5 DEF FinishFile
  <2> QED
    BY <1>1, <1>2, <2>1, <2>2, <2>4, <2>5, <2>6, <2>7, FtpStepTypes DEF FotaTypeOK
<1> QED
  BY <1>3, <1>4, <1>5

LEMMA ForgetTypes ==
    ASSUME TypeInv, ForgetCallback, UNCHANGED <<httpVars, leftover>>
    PROVE  TypeInv'
<1> USE DEF ForgetCallback, fotaVars
<1>1. FotaTypeOK /\ FtpTypeOK
  BY DEF TypeInv, DfotaTypeOK
<1>2. FtpTypeOK'
  BY <1>1 DEF FtpTypeOK, NoTransfer
<1> QED
  BY <1>1, <1>2, FtpStepTypes DEF FotaTypeOK

LEMMA ArriveTypes ==
    ASSUME TypeInv, Arrive \/ \E s \in Attempts : ArriveLate(s),
           UNCHANGED <<ftpVars, leftover>>
    PROVE  TypeInv'
<1> USE DEF TypeInv, DfotaTypeOK
<1>1. FotaTypeOK' /\ FtpTypeOK' /\ leftover' \in BOOLEAN
  <2>1. UNCHANGED <<fotaVars, ftpVars, leftover>>
    BY DEF Arrive, ArriveLate
  <2> QED
    BY <2>1 DEF fotaVars, ftpVars, FotaTypeOK, FtpTypeOK
<1>2. /\ http.socketdata => http.socketid \in sockets'
      /\ sockets' \subseteq Attempts /\ signal' \subseteq Attempts
  BY DEF Arrive, ArriveLate, HttpTypeOK, ReadersHaveBuffers
<1>3. coming' \in Seq(STRING) /\ arrived' \in Seq(STRING)
  <2>1. CASE Arrive
    BY <2>1, HeadTailProperties, AppendProperties DEF Arrive, HttpTypeOK
  <2>2. CASE \E s \in Attempts : ArriveLate(s)
    BY <2>2 DEF ArriveLate, HttpTypeOK
  <2> QED
    BY <2>1, <2>2
<1>4. HttpTypeOK'
  BY <1>2, <1>3 DEF Arrive, ArriveLate, HttpTypeOK
<1> QED
  BY <1>1, <1>2, <1>4
     DEF Arrive, ArriveLate, fotaVars, ftpVars, BuffersAccountedFor, ReadersHaveBuffers

LEMMA NextTypes == TypeInv /\ [Next]_vars => TypeInv'
<1> SUFFICES ASSUME TypeInv, [Next]_vars PROVE TypeInv'
  OBVIOUS
<1>1. ASSUME NEW url \in Urls, Ql_DFOTA_StartUpgrade(url) PROVE TypeInv'
  BY <1>1, StartTypes
<1>2. CASE HttpMain /\ UNCHANGED <<ftpVars, leftover>>
  BY <1>2, LookupTypes, TimerTypes, HeadTypes, BodyTypes, ReadSuccessTypes DEF HttpMain
<1>3. CASE HttpNetwork /\ UNCHANGED <<ftpVars, leftover>>
  BY <1>3, ArriveTypes, ReadErrorTypes DEF HttpNetwork
<1>4. CASE (RIL_FTP_QFTPGET \/ DownloadEnds \/ Urc) /\ UNCHANGED <<httpVars, leftover>>
  BY <1>4, GetTypes, DownloadEndsTypes, FtpDownloadTypes, DoUpgradeTypes, ForgetTypes DEF Urc
<1>5. CASE UNCHANGED vars
  BY <1>5
     DEF vars, fotaVars, httpVars, ftpVars, TypeInv, DfotaTypeOK, FotaTypeOK, HttpTypeOK,
         FtpTypeOK, BuffersAccountedFor, ReadersHaveBuffers
<1> QED
  BY <1>1, <1>2, <1>3, <1>4, <1>5 DEF Next, MainTask, UrcTask, Module

THEOREM TypesHold == Spec => []TypeInv
BY InitTypes, NextTypes, PTL DEF Spec

\* Every variable keeps its type, whatever the server sends and however many
\* attempts there are; in particular no buffer is freed twice.
THEOREM TypeCorrect == Spec => []DfotaTypeOK
<1>1. TypeInv => DfotaTypeOK
  BY DEF TypeInv
<1> QED
  BY <1>1, TypesHold, PTL

\* At any time, a buffer in use is the one of the download or of DoUpgrade, and
\* the others are those that DoUpgrade or a download cut off by the next attempt
\* has left.
THEOREM BuffersSafe == Spec => []BuffersAccountedFor
<1>1. TypeInv => BuffersAccountedFor
  BY DEF TypeInv
<1> QED
  BY <1>1, TypesHold, PTL

-----------------------------------------------------------------------------
(* One transfer at a time.  An attempt that begins when nothing is left of the *)
(* ones before has the module, the buffer and the pool for itself.             *)

FtpAtWork ==
    main = "get" \/ download # "none" \/ FtpGet_IND_CB # NoTransfer \/ urc # "idle"

HttpAtWork == timer \/ resolving > 0 \/ sockets # {}

\* It is on one of the two ways, and at one place on it: first a lookup, then one
\* socket; first the command, then the download, then the URC task.
OneTransfer ==
    ~leftover =>
        /\ ~(FtpAtWork /\ HttpAtWork)
        /\ sockets \subseteq {http.socketid}
        /\ resolving > 0 => resolving = 1 /\ sockets = {} /\ ~timer
        /\ FtpGet_IND_CB # NoTransfer => main # "get"
        /\ urc # "idle" =>
             main # "get" /\ download = "none" /\ FtpGet_IND_CB # NoTransfer

\* Nothing can write to the pool any more: a download that goes on after its
\* command has failed finds no callback.
NothingWrites ==
    /\ resolving = 0 /\ ~http.socketdata /\ main = "idle"
    /\ download = "none" \/ FtpGet_IND_CB = NoTransfer
    /\ urc \notin {"open", "write"}

\* The end of an attempt is the end of its work; what may still come of it is
\* a report.
OverIsOver == ~leftover /\ (attempt = 0 \/ Over) => NothingWrites

\* A pool is marked at the end of an attempt, and is then the image; of the
\* sockets of the attempt none is open.
MarkedIsOver ==
    marked => Over /\ (leftover \/ (flash = Image /\ sockets = {}))

TransferInv ==
    /\ OneTransfer /\ OverIsOver /\ MarkedIsOver
    /\ module = "updating" => flash = Image

\* Of an attempt that has the pool for itself: a reader is alone, and so is a
\* lookup.
LEMMA AtWorkAlone ==
    ASSUME TypeInv, TransferInv, ~leftover, http.socketdata \/ resolving > 0
    PROVE  /\ ~FtpAtWork
           /\ http.socketdata => resolving = 0 /\ sockets = {http.socketid}
           /\ resolving > 0 => resolving = 1 /\ sockets = {} /\ ~timer /\ ~http.socketdata
           /\ ~marked /\ ~Over /\ attempt # 0
<1> USE DEF TypeInv, TransferInv
<1>1. resolving \in Nat /\ http.socketdata \in BOOLEAN
  BY DEF DfotaTypeOK, HttpTypeOK
<1>2. http.socketdata => http.socketid \in sockets
  BY DEF ReadersHaveBuffers
<1>3. ~NothingWrites
  BY <1>1 DEF NothingWrites
<1>4. ~FtpAtWork
  BY <1>2 DEF OneTransfer, HttpAtWork
<1>5. http.socketdata => resolving = 0 /\ sockets = {http.socketid}
  BY <1>1, <1>2 DEF OneTransfer
<1>6. resolving > 0 => resolving = 1 /\ sockets = {} /\ ~timer /\ ~http.socketdata
  BY <1>2 DEF OneTransfer
<1>7. ~Over /\ attempt # 0
  BY <1>3 DEF OverIsOver
<1>8. ~marked
  BY <1>7 DEF MarkedIsOver
<1> QED
  BY <1>4, <1>5, <1>6, <1>7, <1>8

\* More reports, and fewer sockets, change nothing of it.
LEMMA LessToDo ==
    ASSUME TypeInv, TransferInv,
           UNCHANGED <<leftover, attempt, marked, flash, module, main, ftpVars, resolving>>,
           UNCHANGED <<failures, told>> \/ NothingWrites,
           Over => Over',
           http'.socketid = http.socketid, http'.socketdata => http.socketdata,
           sockets' \subseteq sockets, timer' => timer \/ http.socketdata
    PROVE  TransferInv'
<1> USE DEF TransferInv, ftpVars
<1>1. NothingWrites => NothingWrites'
  BY DEF NothingWrites
<1>2. OneTransfer'
  <2>1. SUFFICES ASSUME ~leftover PROVE OneTransfer'
    BY DEF OneTransfer
  <2>2. http.socketdata => ~FtpAtWork /\ resolving = 0
    BY <2>1, AtWorkAlone
  <2>3. FtpAtWork' => FtpAtWork /\ ~timer' /\ resolving' = resolving /\ sockets' \subseteq sockets
    BY <2>1, <2>2 DEF FtpAtWork, OneTransfer, HttpAtWork
  <2>4. ~(FtpAtWork /\ HttpAtWork)'
    BY <2>1, <2>3 DEF OneTransfer, HttpAtWork
  <2>5. (resolving > 0 => resolving = 1 /\ sockets = {} /\ ~timer)'
    <3>1. resolving > 0 => ~http.socketdata
      BY <2>1, AtWorkAlone
    <3> QED
      BY <2>1, <3>1 DEF OneTransfer
  <2> QED
    BY <2>1, <2>4, <2>5 DEF OneTransfer
<1>3. OverIsOver'
  BY <1>1 DEF OverIsOver, Over
<1>4. MarkedIsOver'
  BY DEF MarkedIsOver
<1> QED
  BY <1>2, <1>3, <1>4

\* What fails has failed: a callback that frees the context.
LEMMA FailedAlone ==
    ASSUME TypeInv, TransferInv, http.socketdata \/ timer \/ sockets # {},
           UNCHANGED <<leftover, attempt, marked, flash, module, ftpVars, resolving, told>>,
           http'.socketid = http.socketid, ~http'.socketdata, main' = "idle",
           failures' \in Nat, failures' > failures,
           sockets' \subseteq sockets, timer' => timer \/ http.socketdata
    PROVE  TransferInv'
<1> USE DEF TransferInv, ftpVars
<1>1. resolving \in Nat /\ failures \in Nat
  BY DEF TypeInv, DfotaTypeOK, HttpTypeOK, FotaTypeOK
<1>2. Over'
  BY <1>1 DEF Over
<1>3. ASSUME ~leftover PROVE ~FtpAtWork /\ resolving = 0
  <2>1. http.socketdata => ~FtpAtWork /\ resolving = 0
    BY <1>3, AtWorkAlone
  <2>2. timer \/ sockets # {} => ~FtpAtWork /\ resolving = 0
    BY <1>1, <1>3 DEF OneTransfer, HttpAtWork
  <2> QED
    BY <2>1, <2>2
<1>4. OneTransfer'
  BY <1>3 DEF OneTransfer, FtpAtWork
<1>5. OverIsOver'
  BY <1>3 DEF OverIsOver, NothingWrites, FtpAtWork
<1>6. MarkedIsOver'
  BY <1>2 DEF MarkedIsOver
<1> QED
  BY <1>4, <1>5, <1>6

\* A reader goes on reading.
LEMMA ReaderGoesOn ==
    ASSUME TypeInv, TransferInv, http.socketdata, module = "running",
           UNCHANGED <<leftover, attempt, marked, module, ftpVars, resolving, sockets,
                       failures, told>>,
           http'.socketid = http.socketid, main' # "get"
    PROVE  TransferInv'
<1> USE DEF TransferInv, ftpVars
<1>1. CASE leftover
  BY <1>1 DEF OneTransfer, OverIsOver, MarkedIsOver, Over
<1>2. CASE ~leftover
  <2>1. ~FtpAtWork /\ resolving = 0 /\ ~marked /\ ~Over /\ attempt # 0
    BY <1>2, AtWorkAlone
  <2>2. ~Over' /\ ~FtpAtWork'
    BY <2>1 DEF Over, FtpAtWork
  <2>3. OneTransfer'
    BY <1>2, <2>1, <2>2 DEF OneTransfer, FtpAtWork
  <2> QED
    BY <1>2, <2>1, <2>2, <2>3 DEF OverIsOver, MarkedIsOver
<1> QED
  BY <1>1, <1>2

\* A reader comes to the end of the body.
LEMMA ReaderEnds ==
    ASSUME TypeInv, TransferInv, http.socketdata, module = "running", Downloaded,
           \/ \E times \in {1, 2} : ReportFailure(times) /\ UNCHANGED <<marked, module>>
           \/ FinishSucceeds /\ \E now \in BOOLEAN : Upgraded(now),
           UNCHANGED <<leftover, attempt, ftpVars, resolving>>
    PROVE  TransferInv'
<1> USE DEF TransferInv, ftpVars
<1>1. ~http'.socketdata /\ main' = "idle" /\ sockets' = sockets \ {http.socketid}
  BY DEF Downloaded, Initialized
<1>2. failures \in Nat
  BY DEF TypeInv, DfotaTypeOK, FotaTypeOK
<1>3. Over' /\ (marked' => marked \/ flash' = Image)
  <2>1. failures' > failures \/ "complete" \in told'
    BY <1>2 DEF ReportFailure, Upgraded, Tell, Reports
  <2>2. Over'
    BY <1>2, <2>1 DEF Over, ReportFailure, Upgraded, Tell, Reports
  <2>3. marked' => marked \/ flash' = Image
    BY DEF FinishSucceeds
  <2> QED
    BY <2>2, <2>3
<1>4. module' = "updating" => flash' = Image
  BY DEF ReportFailure, Upgraded, Tell, Reports, FinishSucceeds
<1>5. CASE leftover
  BY <1>3, <1>4, <1>5 DEF OneTransfer, OverIsOver, MarkedIsOver
<1>6. CASE ~leftover
  <2>1. ~FtpAtWork /\ resolving = 0 /\ ~marked /\ sockets' = {}
    BY <1>1, <1>6, AtWorkAlone
  <2>2. OneTransfer' /\ NothingWrites'
    BY <1>1, <2>1 DEF OneTransfer, NothingWrites, FtpAtWork
  <2> QED
    BY <1>3, <1>4, <2>1, <2>2 DEF OverIsOver, MarkedIsOver
<1> QED
  BY <1>5, <1>6

\* The steps of HTTP's callbacks.
LEMMA FailedTransfers ==
    ASSUME TypeInv, TransferInv, http.socketdata \/ timer \/ sockets # {},
           NEW h \in Contexts, h.socketid = http.socketid,
           NEW times \in Nat \ {0}, Failed(h, times),
           UNCHANGED <<leftover, attempt, marked, flash, module, ftpVars, resolving>>,
           sockets' \subseteq sockets, timer' => timer \/ http.socketdata
    PROVE  TransferInv'
<1>1. http'.socketid = http.socketid /\ ~http'.socketdata
  BY DEF Failed, Freed, Initialized
<1>2. failures' \in Nat /\ failures' > failures /\ told' = told /\ main' = "idle"
  BY DEF Failed, ReportFailure, Reports, TypeInv, DfotaTypeOK, FotaTypeOK
<1> QED
  BY <1>1, <1>2, FailedAlone

LEMMA LookupTransfers ==
    ASSUME TypeInv, TransferInv, Callback_GetIpByHostName, UNCHANGED <<ftpVars, leftover>>
    PROVE  TransferInv'
<1> USE DEF Callback_GetIpByHostName, TransferInv, ftpVars
<1>1. resolving > 0 /\ resolving \in Nat /\ failures \in Nat
  BY DEF TypeInv, DfotaTypeOK, HttpTypeOK, FotaTypeOK
<1>2. /\ failures' \in {failures, failures + 1} /\ told' = told
      /\ UNCHANGED <<flash, marked, module, main, attempt>>
  BY DEF http_GetImagefilefromServer, ReportFailure, Reports
<1>3. Over => Over'
  BY <1>1, <1>2 DEF Over
<1>4. CASE leftover
  BY <1>2, <1>3, <1>4 DEF OneTransfer, OverIsOver, MarkedIsOver
<1>5. CASE ~leftover
  <2>1. /\ ~FtpAtWork /\ resolving = 1 /\ sockets = {} /\ ~timer
        /\ ~http.socketdata /\ ~marked /\ ~Over /\ attempt # 0
    BY <1>1, <1>5, AtWorkAlone
  <2>2. ~FtpAtWork' /\ resolving' = 0 /\ main' = "idle"
    BY <1>2, <2>1 DEF FtpAtWork
  <2>3. sockets' \subseteq {http'.socketid}
    BY <2>1, Zenon DEF http_GetImagefilefromServer, Initialized, TypeInv, DfotaTypeOK,
                HttpTypeOK
  <2>4. http'.socketdata => failures' = failures
    BY <2>1 DEF http_GetImagefilefromServer, Initialized, ReportFailure, Reports
  <2>5. http'.socketdata => ~Over'
    BY <1>2, <2>1, <2>4 DEF Over
  <2>6. OneTransfer'
    BY <1>5, <2>2, <2>3 DEF OneTransfer, FtpAtWork
  <2>7. OverIsOver'
    BY <1>2, <2>1, <2>2, <2>5 DEF OverIsOver, NothingWrites, FtpAtWork
  <2> QED
    BY <1>2, <2>1, <2>6, <2>7 DEF MarkedIsOver
<1> QED
  BY <1>4, <1>5

LEMMA CallbackTransfers ==
    ASSUME TypeInv, TransferInv,
           http_TimerCallback \/ \E s \in Attempts : ReadError(s) \/ ReadSuccess(s),
           UNCHANGED <<ftpVars, leftover>>
    PROVE  TransferInv'
<1>1. http \in Contexts
  BY DEF TypeInv, DfotaTypeOK, HttpTypeOK, Contexts
<1>2. CASE http_TimerCallback
  <2>1. Failed(http, 1)
    BY <1>2 DEF http_TimerCallback, Failed
  <2> QED
    BY <1>1, <1>2, <2>1, FailedTransfers DEF http_TimerCallback, link
<1>3. ASSUME NEW s \in Attempts, ReadError(s) PROVE TransferInv'
  BY <1>1, <1>3, FailedTransfers DEF ReadError
<1>4. ASSUME NEW s \in Attempts, ReadSuccess(s), http.socketdata PROVE TransferInv'
  <2>1. http'.socketid = http.socketid
    BY <1>1, <1>4 DEF ReadSuccess, Contexts
  <2> QED
    BY <1>4, <2>1, ReaderGoesOn DEF ReadSuccess, Silence, Reports
<1>5. ASSUME NEW s \in Attempts, ReadSuccess(s), ~http.socketdata PROVE TransferInv'
  BY <1>5, LessToDo DEF ReadSuccess, Silence, Reports, Over
<1> QED
  BY <1>2, <1>3, <1>4, <1>5

LEMMA HeadTransfers ==
    ASSUME TypeInv, TransferInv, http_RecvHttpHead, UNCHANGED <<ftpVars, leftover>>
    PROVE  TransferInv'
<1> USE DEF http_RecvHttpHead
<1>1. http.socketdata /\ http \in Contexts
  BY DEF TypeInv, ReadersHaveBuffers, DfotaTypeOK, HttpTypeOK, Contexts
<1>2. \A h \in Contexts, times \in {1, 2} :
        h.socketid = http.socketid /\ Failed(h, times) /\ UNCHANGED timer => TransferInv'
  BY <1>1, FailedTransfers
<1>3. CASE ReadLater(http)
  BY <1>1, <1>3, ReaderGoesOn DEF ReadLater, Silence, Reports
<1>4. ASSUME NEW n \in Receivable, Taken(n), HeadReceived(Received(n)), UNCHANGED timer
      PROVE  TransferInv'
  <2> DEFINE pieces == Received(n)
  <2>1. pieces \in Seq(STRING)
    BY <1>4, ReceivedTypes
  <2> HIDE DEF pieces
  <2>2. PICK k \in 0..Len(pieces) :
          /\ httpheader' = DecodeHttpLines(httpheader, SubSeq(pieces, 1, k))
          /\ IF Contains(SubSeq(pieces, 1, k), "end")
             THEN HeadEnds(httpheader', SubSeq(pieces, k + 1, Len(pieces)))
             ELSE /\ http' = [http EXCEPT !.data = SubSeq(pieces, k + 1, Len(pieces))]
                  /\ Silence /\ UNCHANGED <<main, heap>>
    BY <1>4 DEF HeadReceived, pieces
  <2> DEFINE rest == SubSeq(pieces, k + 1, Len(pieces))
             kept == [http EXCEPT !.data = rest]
             length == IF httpheader'.Exist THEN httpheader'.ContentLength ELSE Unknown
             known == [http EXCEPT !.data = rest, !.ContentLength = length]
  <2>3. SubSeq(pieces, 1, k) \in Seq(STRING) /\ rest \in Seq(STRING)
    <3>1. Len(pieces) \in Nat /\ k \in Nat /\ k <= Len(pieces)
      BY <2>1, LenProperties
    <3> QED
      BY <2>1, <3>1, SubSeqProperties
  <2>4. httpheader' \in Headers
    BY <2>2, <2>3, HeaderType DEF TypeInv, DfotaTypeOK, HttpTypeOK, Headers
  <2>5. length \in Int
    BY <2>4 DEF Headers, Unknown
  <2> HIDE DEF rest, length
  <2>6. /\ kept \in Contexts /\ kept.socketid = http.socketid
        /\ known \in Contexts /\ known.socketid = http.socketid
    BY <1>1, <2>3, <2>5 DEF Contexts
  <2> HIDE DEF kept, known
  <2>7. \/ Failed(kept, 1) \/ Failed(known, 2)
        \/ http' \in {kept, known} /\ main' \in {main, "body"} /\ Silence
    BY <2>2 DEF HeadEnds, kept, known, rest, length
  <2>8. CASE http' \in {kept, known} /\ main' \in {main, "body"} /\ Silence
    BY <1>1, <2>6, <2>8, ReaderGoesOn DEF Silence, Reports
  <2> QED
    BY <1>2, <1>4, <2>6, <2>7, <2>8
<1> QED
  BY <1>1, <1>2, <1>3, <1>4

LEMMA BodyTransfers ==
    ASSUME TypeInv, TransferInv, http_RecvHttpBody, UNCHANGED <<ftpVars, leftover>>
    PROVE  TransferInv'
<1>1. http.socketdata /\ http \in Contexts /\ module = "running" /\ main = "body"
  BY DEF http_RecvHttpBody, TypeInv, ReadersHaveBuffers, DfotaTypeOK, HttpTypeOK, Contexts
<1>2. CASE BodyBehindHead
  <2>1. \/ \E times \in {1, 2} : ReportFailure(times) /\ UNCHANGED <<marked, module>>
        \/ FinishSucceeds /\ \E now \in BOOLEAN : Upgraded(now)
    BY <1>2 DEF BodyBehindHead
  <2> QED
    BY <1>1, <1>2, <2>1, ReaderEnds DEF BodyBehindHead
<1>3. CASE BodyReceived
  <2> USE <1>3 DEF BodyReceived
  <2>1. CASE ReadLater(http) /\ UNCHANGED <<flash, marked, module, sockets, signal, arrived>>
    BY <1>1, <2>1, ReaderGoesOn DEF ReadLater, Silence, Reports
  <2>2. CASE /\ Failed(http, 1)
             /\ UNCHANGED <<flash, marked, module, timer, sockets, signal, arrived>>
    BY <1>1, <2>2, FailedTransfers
  <2>3. ASSUME NEW n \in Receivable, PartReceived(Received(n)), UNCHANGED timer
        PROVE  TransferInv'
    <3> DEFINE pieces == Received(n)
               size == http.receivedbodydata + Len(pieces)
    <3>1. CASE Failed(http, 2) /\ UNCHANGED <<flash, marked, module, sockets, signal>>
      BY <1>1, <2>3, <3>1, FailedTransfers
    <3>2. CASE /\ http' = [http EXCEPT !.receivedbodydata = size, !.data = <<>>]
               /\ Silence /\ UNCHANGED <<marked, module, main, heap, sockets, signal>>
      <4>1. http'.socketid = http.socketid
        <5> HIDE DEF size
        <5> QED
          BY <1>1, <3>2 DEF Contexts
      <4> QED
        BY <1>1, <3>2, <4>1, ReaderGoesOn DEF Silence, Reports
    <3>3. CASE /\ Downloaded
               /\ IF FinishSucceeds
                  THEN Upgraded(answer = "yes")
                  ELSE ReportFailure(2) /\ UNCHANGED <<marked, module>>
      <4>1. \/ ReportFailure(2) /\ UNCHANGED <<marked, module>>
            \/ FinishSucceeds /\ \E now \in BOOLEAN : Upgraded(now)
        BY <3>3
      <4> QED
        BY <1>1, <3>3, <4>1, ReaderEnds
    <3> QED
      BY <2>3, <3>1, <3>2, <3>3 DEF PartReceived
  <2> QED
    BY <2>1, <2>2, <2>3
<1> QED
  BY <1>2, <1>3 DEF http_RecvHttpBody

LEMMA ArriveTransfers ==
    ASSUME TypeInv, TransferInv, Arrive \/ \E s \in Attempts : ArriveLate(s),
           UNCHANGED <<ftpVars, leftover>>
    PROVE  TransferInv'
BY LessToDo DEF Arrive, ArriveLate, fotaVars, Over

\* A step of FTP in an attempt that has the pool for itself.
LEMMA FtpAlone ==
    ASSUME TypeInv, TransferInv, ~leftover,
           \/ main = "get"
           \/ download # "none" /\ FtpGet_IND_CB # NoTransfer
           \/ urc \in {"open", "write"}
    PROVE  /\ ~HttpAtWork /\ ~http.socketdata /\ main \in {"idle", "get"}
           /\ ~marked /\ ~Over /\ attempt # 0
<1> USE DEF TypeInv, TransferInv
<1>1. FtpAtWork /\ ~NothingWrites
  BY DEF FtpAtWork, NothingWrites
<1>2. ~HttpAtWork /\ ~http.socketdata
  BY <1>1 DEF OneTransfer, HttpAtWork, ReadersHaveBuffers
<1>3. main \in {"idle", "get"}
  BY <1>2 DEF ReadersHaveBuffers, DfotaTypeOK, FotaTypeOK
<1>4. ~Over /\ attempt # 0
  BY <1>1 DEF OverIsOver
<1> QED
  BY <1>2, <1>3, <1>4 DEF MarkedIsOver

LEMMA GetTransfers ==
    ASSUME TypeInv, TransferInv, RIL_FTP_QFTPGET, UNCHANGED <<httpVars, leftover>>
    PROVE  TransferInv'
<1> USE DEF RIL_FTP_QFTPGET, TransferInv, httpVars
<1>1. failures' = failures /\ told \subseteq told'
  BY DEF Silence, Tell, Reports
<1>2. Over => Over'
  BY <1>1 DEF Over
<1>3. CASE leftover
  BY <1>2, <1>3 DEF OneTransfer, OverIsOver, MarkedIsOver
<1>4. CASE ~leftover
  <2>1. /\ ~HttpAtWork /\ ~http.socketdata /\ ~marked /\ ~Over /\ attempt # 0
        /\ urc = "idle" /\ FtpGet_IND_CB = NoTransfer
    BY <1>4, FtpAlone DEF OneTransfer
  <2>2. resolving = 0
    BY <2>1 DEF HttpAtWork, TypeInv, DfotaTypeOK, HttpTypeOK
  <2>3. OneTransfer'
    BY <2>1, <2>2 DEF OneTransfer, FtpAtWork, HttpAtWork
  <2>4. ~Over' \/ FtpGet_IND_CB' = NoTransfer
    BY <2>1 DEF Over, Silence, Reports
  <2>5. OverIsOver'
    BY <2>1, <2>2, <2>4 DEF OverIsOver, NothingWrites
  <2> QED
    BY <2>1, <2>3, <2>5 DEF MarkedIsOver
<1> QED
  BY <1>3, <1>4

\* The module reports the end of the download, and the URC task takes it.
LEMMA DownloadTransfers ==
    ASSUME TypeInv, TransferInv, DownloadEnds \/ OnURCHandler_FTP_Download,
           UNCHANGED <<httpVars, leftover>>
    PROVE  TransferInv'
<1> USE DEF TransferInv, httpVars, fotaVars
<1>1. /\ UNCHANGED <<flash, marked, module, main, attempt, FtpGet_IND_CB>>
      /\ download # "none" /\ download \in {"running", "succeeded", "failed"}
  BY DEF DownloadEnds, OnURCHandler_FTP_Download
<1>2. /\ UNCHANGED <<failures, told>> \/ (urc' = "clear" /\ failures' = failures + 1)
      /\ urc' # "idle" => (FtpGet_IND_CB # NoTransfer /\ download' = "none") \/ urc' = urc
      /\ urc' = "clear" => download' = "none" \/ urc' = urc
  BY DEF DownloadEnds, OnURCHandler_FTP_Download, Silence, Reports
<1>3. failures \in Nat
  BY DEF TypeInv, DfotaTypeOK, FotaTypeOK
<1>4. Over => Over'
  BY <1>2, <1>3 DEF Over
<1>5. CASE leftover
  BY <1>1, <1>4, <1>5 DEF OneTransfer, OverIsOver, MarkedIsOver
<1>6. CASE ~leftover /\ FtpGet_IND_CB = NoTransfer
  <2>1. /\ UNCHANGED <<failures, told>> /\ urc' = urc
        /\ UNCHANGED <<flash, marked, module, main, attempt, FtpGet_IND_CB>>
    BY <1>6 DEF DownloadEnds, OnURCHandler_FTP_Download, Silence, Reports
  <2>2. urc = "idle"
    BY <1>6 DEF OneTransfer
  <2>3. OneTransfer'
    BY <1>1, <1>6, <2>1, <2>2 DEF OneTransfer, FtpAtWork, HttpAtWork
  <2>4. OverIsOver' /\ MarkedIsOver'
    BY <1>6, <2>1 DEF OverIsOver, MarkedIsOver, NothingWrites, Over
  <2> QED
    BY <1>1, <2>3, <2>4
<1>7. CASE ~leftover /\ FtpGet_IND_CB # NoTransfer
  <2>1. /\ ~HttpAtWork /\ ~http.socketdata /\ main \in {"idle", "get"}
        /\ ~marked /\ ~Over /\ attempt # 0 /\ urc = "idle"
        /\ FtpGet_IND_CB # NoTransfer => main # "get"
    BY <1>1, <1>7, FtpAlone DEF OneTransfer
  <2>2. resolving = 0
    BY <2>1 DEF HttpAtWork, TypeInv, DfotaTypeOK, HttpTypeOK
  <2>3. OneTransfer'
    BY <1>1, <1>2, <2>1, <2>2 DEF OneTransfer, FtpAtWork, HttpAtWork
  <2>4. CASE UNCHANGED <<failures, told>>
    BY <1>1, <2>1, <2>3, <2>4 DEF OverIsOver, MarkedIsOver, Over
  <2>5. CASE urc' = "clear" /\ failures' = failures + 1
    <3>1. main = "idle" /\ download' = "none"
      BY <1>2, <2>1, <2>5
    <3>2. NothingWrites'
      BY <1>1, <2>1, <2>2, <2>5, <3>1 DEF NothingWrites
    <3> QED
      BY <1>1, <2>1, <2>3, <3>2 DEF OverIsOver, MarkedIsOver
  <2> QED
    BY <1>2, <2>4, <2>5
<1> QED
  BY <1>5, <1>6, <1>7

\* DoUpgrade, from the file to the pool.
LEMMA DoUpgradeTransfers ==
    ASSUME TypeInv, TransferInv, OpenFile \/ WriteBlock \/ FinishFile,
           UNCHANGED <<httpVars, leftover>>
    PROVE  TransferInv'
<1> USE DEF TransferInv, httpVars
<1>1. /\ UNCHANGED <<main, attempt, FtpGet_IND_CB, download>>
      /\ module = "running" /\ urc \in {"open", "write"}
  BY DEF OpenFile, WriteBlock, FinishFile
<1>2. \/ /\ urc' \in {"open", "write"}
         /\ failures' = failures /\ told' = told /\ marked' = marked /\ module' = module
      \/ /\ urc' = "clear"
         /\ failures' = failures + 1 /\ told' = told /\ marked' = marked /\ module' = module
      \/ /\ urc' = "clear" /\ flash' = Image /\ marked' = TRUE
         /\ failures' = failures /\ told' = told \cup {"complete"}
  BY DEF OpenFile, WriteBlock, FinishFile, GiveUp, Silence, ReportFailure, Reports,
         Tell, Upgraded, FinishSucceeds
<1>3. failures \in Nat
  BY DEF TypeInv, DfotaTypeOK, FotaTypeOK
<1>4. /\ Over => Over'
      /\ urc' = "clear" => Over'
      /\ marked' => marked \/ (Over' /\ flash' = Image)
      /\ module' = "updating" => flash' = Image
  <2>1. (Over => Over') /\ (urc' = "clear" => Over')
    <3>1. CASE failures' = failures /\ told' = told /\ urc' # "clear"
      BY <3>1 DEF Over
    <3>2. CASE failures' = failures + 1
      BY <1>3, <3>2 DEF Over
    <3>3. CASE told' = told \cup {"complete"}
      BY <3>3 DEF Over
    <3> QED
      BY <1>2, <3>1, <3>2, <3>3
  <2>2. marked' => marked \/ (urc' = "clear" /\ flash' = Image)
    BY <1>2, Zenon
  <2>3. module' = "updating" => flash' = Image
    BY <1>1, <1>2
  <2> QED
    BY <2>1, <2>2, <2>3
<1>5. CASE leftover
  BY <1>4, <1>5 DEF OneTransfer, OverIsOver, MarkedIsOver
<1>6. CASE ~leftover
  <2>1. /\ ~HttpAtWork /\ ~http.socketdata /\ main = "idle" /\ download = "none"
        /\ ~marked /\ ~Over /\ attempt # 0 /\ FtpGet_IND_CB # NoTransfer
    BY <1>1, <1>6, FtpAlone DEF OneTransfer
  <2>2. resolving = 0 /\ sockets = {}
    BY <2>1 DEF HttpAtWork, TypeInv, DfotaTypeOK, HttpTypeOK
  <2>3. OneTransfer'
    BY <1>1, <1>2, <2>1, <2>2 DEF OneTransfer, FtpAtWork, HttpAtWork
  <2>4. urc' = "clear" => NothingWrites'
    BY <1>1, <2>1, <2>2 DEF NothingWrites
  <2>5. OverIsOver'
    <3>1. urc' # "clear" => ~Over'
      BY <1>2, <2>1 DEF Over
    <3> QED
      BY <1>1, <2>1, <2>4, <3>1 DEF OverIsOver
  <2>6. MarkedIsOver'
    BY <1>4, <2>1, <2>2 DEF MarkedIsOver
  <2> QED
    BY <1>4, <2>3, <2>5, <2>6
<1> QED
  BY <1>5, <1>6

LEMMA ForgetTransfers ==
    ASSUME TypeInv, TransferInv, ForgetCallback, UNCHANGED <<httpVars, leftover>>
    PROVE  TransferInv'
<1> USE DEF ForgetCallback, TransferInv, httpVars, fotaVars
<1>1. OneTransfer'
  BY DEF OneTransfer, FtpAtWork, HttpAtWork
<1>2. OverIsOver' /\ MarkedIsOver'
  BY DEF OverIsOver, MarkedIsOver, NothingWrites, Over
<1> QED
  BY <1>1, <1>2

\* A call that starts an attempt over HTTP, when nothing is left.
LEMMA HttpStartAlone ==
    ASSUME TypeInv, ~SomethingLeft, NEW url \in Urls, attempt < MaxAttempts,
           HTTP_DfotaMain(attempt + 1, url)
    PROVE  /\ resolving' \in {0, 1} /\ sockets' \subseteq {http'.socketid}
           /\ resolving' > 0 => sockets' = {} /\ ~timer' /\ ~http'.socketdata
           /\ (failures' > 0 \/ told' # {}) => resolving' = 0 /\ ~http'.socketdata
<1> DEFINE h == Initialized(attempt + 1)
<1>1. /\ ~timer /\ resolving = 0 /\ sockets = {} /\ ~http.socketdata
  BY DEF SomethingLeft, TypeInv, ReadersHaveBuffers, DfotaTypeOK, HttpTypeOK
<1>2. ~h.socketdata
  BY DEF Initialized
<1>3. CASE http_GetImagefilefromServer(h, 0, {}) /\ UNCHANGED resolving
  <2>1. ~Initialized(NoSocket).socketdata
    BY DEF Initialized
  <2>2. CASE http' \in {h, Initialized(NoSocket)} /\ UNCHANGED sockets
    BY <1>1, <1>2, <1>3, <2>1, <2>2
  <2>3. CASE /\ http' = [h EXCEPT !.socketdata = TRUE, !.httpGettimerstate = TRUE]
             /\ sockets' = sockets \cup {h.socketid} /\ Reports(0, {})
    <3>1. http'.socketid = h.socketid
      BY <2>3 DEF Initialized
    <3> HIDE DEF h
    <3> QED
      BY <1>1, <1>3, <2>3, <3>1 DEF Reports
  <2> HIDE DEF h
  <2> QED
    BY <1>3, <2>2, <2>3 DEF http_GetImagefilefromServer
<1>4. CASE /\ UNCHANGED <<timer, sockets>> /\ http' \in {http, h}
           /\ resolving' = resolving \/ (resolving' = resolving + 1 /\ Reports(0, {}))
  <2> HIDE DEF h
  <2> QED
    BY <1>1, <1>2, <1>4 DEF Reports
<1> HIDE DEF h
<1> QED
  BY <1>3, <1>4 DEF HTTP_DfotaMain, h

LEMMA StartTransfers ==
    ASSUME TypeInv, TransferInv, NEW url \in Urls, Ql_DFOTA_StartUpgrade(url)
    PROVE  TransferInv'
<1> USE DEF TransferInv
<1>1. /\ main = "idle" /\ module = "running" /\ attempt < MaxAttempts
      /\ attempt \in Nat /\ attempt' = attempt + 1 /\ (attempt > 0 => Over)
  BY DEF Ql_DFOTA_StartUpgrade, TypeInv, DfotaTypeOK, FotaTypeOK
<1>2. CASE /\ Reports(0, {"initFail"})
           /\ UNCHANGED <<flash, marked, module, answer, main, heap, leaked,
                          httpVars, ftpVars, leftover>>
  <2> USE <1>2 DEF httpVars, ftpVars
  <2>1. OneTransfer'
    BY DEF OneTransfer, FtpAtWork, HttpAtWork
  <2>2. ~leftover => NothingWrites'
    BY <1>1 DEF OverIsOver, NothingWrites
  <2>3. Over'
    BY DEF Over, Reports
  <2> QED
    BY <1>1, <2>1, <2>2, <2>3 DEF OverIsOver, MarkedIsOver
<1>3. ASSUME marked' = FALSE, leftover' = SomethingLeft,
             module' \in {"running", "crashed"}, main' \in {"idle", "get"},
             \/ FTP_DfotaMain(url) /\ UNCHANGED httpVars
             \/ HTTP_DfotaMain(attempt + 1, url) /\ UNCHANGED <<main, ftpVars>>
             \/ Reports(0, {"refused"}) /\ UNCHANGED <<main, httpVars, ftpVars>>
      PROVE  TransferInv'
  <2>1. CASE SomethingLeft
    BY <1>3, <2>1 DEF OneTransfer, OverIsOver, MarkedIsOver
  <2>2. CASE ~SomethingLeft
    <3>1. /\ ~timer /\ resolving = 0 /\ sockets = {} /\ ~http.socketdata
          /\ download = "none" /\ FtpGet_IND_CB = NoTransfer /\ urc = "idle"
          /\ attempt' # 0
      BY <1>1, <2>2 DEF SomethingLeft, TypeInv, ReadersHaveBuffers, DfotaTypeOK, HttpTypeOK
    <3>2. CASE FTP_DfotaMain(url) /\ UNCHANGED httpVars
      <4>1. /\ UNCHANGED <<timer, resolving, sockets, http, FtpGet_IND_CB, urc>>
            /\ \/ main' = "idle" /\ download' = "none"
               \/ main' = "get" /\ failures' = 0 /\ told' = {}
        BY <1>1, <3>1, <3>2 DEF FTP_DfotaMain, httpVars, Reports
      <4>2. OneTransfer'
        BY <3>1, <4>1 DEF OneTransfer, FtpAtWork, HttpAtWork
      <4>3. OverIsOver'
        BY <3>1, <4>1 DEF OverIsOver, NothingWrites, Over
      <4> QED
        BY <1>3, <4>2, <4>3 DEF MarkedIsOver
    <3>3. CASE HTTP_DfotaMain(attempt + 1, url) /\ UNCHANGED <<main, ftpVars>>
      <4>1. /\ resolving' \in {0, 1} /\ sockets' \subseteq {http'.socketid}
            /\ resolving' > 0 => sockets' = {} /\ ~timer' /\ ~http'.socketdata
            /\ Over' => resolving' = 0 /\ ~http'.socketdata
        BY <1>1, <2>2, <3>3, HttpStartAlone DEF Over
      <4>2. /\ main' = "idle" /\ download' = "none"
            /\ FtpGet_IND_CB' = NoTransfer /\ urc' = "idle"
        BY <1>1, <3>1, <3>3 DEF ftpVars
      <4>3. OneTransfer'
        BY <4>1, <4>2 DEF OneTransfer, FtpAtWork, HttpAtWork
      <4>4. OverIsOver'
        BY <3>1, <4>1, <4>2 DEF OverIsOver, NothingWrites
      <4> QED
        BY <1>3, <4>3, <4>4 DEF MarkedIsOver
    <3>4. CASE Reports(0, {"refused"}) /\ UNCHANGED <<main, httpVars, ftpVars>>
      <4>1. NothingWrites'
        BY <1>1, <3>1, <3>4 DEF NothingWrites, httpVars, ftpVars
      <4>2. OneTransfer'
        BY <1>1, <3>1, <3>4 DEF OneTransfer, FtpAtWork, HttpAtWork, httpVars, ftpVars
      <4> QED
        BY <1>3, <4>1, <4>2 DEF OverIsOver, MarkedIsOver
    <3> QED
      BY <1>3, <3>2, <3>3, <3>4
  <2> QED
    BY <2>1, <2>2
<1>4. FTP_DfotaMain(url) => main' \in {main, "get"} /\ module' \in {module, "crashed"}
  BY DEF FTP_DfotaMain
<1> QED
  BY <1>1, <1>2, <1>3, <1>4 DEF Ql_DFOTA_StartUpgrade

LEMMA InitTransfers == Init => TransferInv
BY DEF Init, FotaInit, HttpInit, FtpInit, Initialized, NoSocket, TransferInv, OneTransfer,
       FtpAtWork, HttpAtWork, OverIsOver, NothingWrites, MarkedIsOver

LEMMA NextTransfers == TypeInv /\ TransferInv /\ [Next]_vars => TransferInv'
<1> SUFFICES ASSUME TypeInv, TransferInv, [Next]_vars PROVE TransferInv'
  OBVIOUS
<1>1. ASSUME NEW url \in Urls, Ql_DFOTA_StartUpgrade(url) PROVE TransferInv'
  BY <1>1, StartTransfers
<1>2. CASE HttpMain /\ UNCHANGED <<ftpVars, leftover>>
  BY <1>2, LookupTransfers, CallbackTransfers, HeadTransfers, BodyTransfers DEF HttpMain
<1>3. CASE HttpNetwork /\ UNCHANGED <<ftpVars, leftover>>
  BY <1>3, ArriveTransfers, CallbackTransfers DEF HttpNetwork
<1>4. CASE (RIL_FTP_QFTPGET \/ DownloadEnds \/ Urc) /\ UNCHANGED <<httpVars, leftover>>
  BY <1>4, GetTransfers, DownloadTransfers, DoUpgradeTransfers, ForgetTransfers DEF Urc
<1>5. CASE UNCHANGED vars
  BY <1>5 DEF vars, fotaVars, httpVars, ftpVars, TransferInv, OneTransfer, FtpAtWork,
              HttpAtWork, OverIsOver, NothingWrites, MarkedIsOver, Over
<1> QED
  BY <1>1, <1>2, <1>3, <1>4, <1>5 DEF Next, MainTask, UrcTask, Module

THEOREM TransfersHold == Spec => [](TypeInv /\ TransferInv)
<1>1. Init => TypeInv /\ TransferInv
  BY InitTypes, InitTransfers
<1>2. (TypeInv /\ TransferInv) /\ [Next]_vars => (TypeInv /\ TransferInv)'
  BY NextTypes, NextTransfers
<1> QED
  BY <1>1, <1>2, PTL DEF Spec

\* The module updates, and a pool is marked, only with the whole package in it,
\* however attempts over HTTP and FTP fail and follow each other; the mark may
\* only be wrong of an attempt that began with something of another at work.
THEOREM ImageSafe == Spec => []UpdatesFromTheImage
<1>1. TransferInv => UpdatesFromTheImage
  BY DEF TransferInv, MarkedIsOver, UpdatesFromTheImage
<1> QED
  BY <1>1, TransfersHold, PTL

\* What a step may still do when nothing writes.
LEMMA QuietSteps ==
    ASSUME TypeInv, NothingWrites, attempt' = attempt, [Next]_vars
    PROVE  /\ UNCHANGED <<flash, marked, module>>
           /\ failures' # failures => (timer /\ ~timer') \/ sockets # {}
<1> USE DEF NothingWrites
<1>1. ASSUME NEW url \in Urls, Ql_DFOTA_StartUpgrade(url) PROVE FALSE
  BY <1>1 DEF Ql_DFOTA_StartUpgrade, TypeInv, DfotaTypeOK, FotaTypeOK
<1>2. CASE HttpMain
  <2>1. ~Callback_GetIpByHostName /\ ~http_RecvHttpHead /\ ~http_RecvHttpBody
    BY DEF Callback_GetIpByHostName, http_RecvHttpHead, http_RecvHttpBody
  <2>2. CASE http_TimerCallback
    BY <2>2 DEF http_TimerCallback
  <2>3. CASE \E s \in Attempts : ReadSuccess(s)
    BY <2>3 DEF ReadSuccess, Silence, Reports
  <2> QED
    BY <1>2, <2>1, <2>2, <2>3 DEF HttpMain
<1>3. CASE HttpNetwork
  BY <1>3 DEF HttpNetwork, Arrive, ArriveLate, ReadError, fotaVars
<1>4. CASE RIL_FTP_QFTPGET \/ DownloadEnds \/ Urc
  <2>1. ~RIL_FTP_QFTPGET /\ ~OpenFile /\ ~WriteBlock /\ ~FinishFile
    BY DEF RIL_FTP_QFTPGET, OpenFile, WriteBlock, FinishFile
  <2>2. CASE DownloadEnds \/ ForgetCallback
    BY <2>2 DEF DownloadEnds, ForgetCallback, fotaVars
  <2>3. CASE OnURCHandler_FTP_Download
    <3>1. FtpGet_IND_CB = NoTransfer
      BY <2>3 DEF OnURCHandler_FTP_Download
    <3> QED
      BY <2>3, <3>1 DEF OnURCHandler_FTP_Download, Silence, Reports
  <2> QED
    BY <1>4, <2>1, <2>2, <2>3 DEF Urc
<1>5. CASE UNCHANGED vars
  BY <1>5 DEF vars, fotaVars
<1> QED
  BY <1>1, <1>2, <1>3, <1>4, <1>5 DEF Next, MainTask, UrcTask, Module

\* After a failure is reported, the attempt writes no more and does not complete.
THEOREM FailureIsFinal == Spec => StopsAfterFailure
<1>1. TypeInv /\ TransferInv /\ [Next]_vars
      => [attempt' = attempt /\ attempt > 0 /\ failures > 0 /\ ~leftover
            => UNCHANGED <<flash, marked, module>>]_vars
  <2> SUFFICES ASSUME TypeInv, TransferInv, [Next]_vars,
                      attempt' = attempt, failures > 0, ~leftover
               PROVE  UNCHANGED <<flash, marked, module>>
    OBVIOUS
  <2>1. NothingWrites
    BY DEF TransferInv, OverIsOver, Over
  <2> QED
    BY <2>1, QuietSteps
<1> QED
  BY <1>1, TransfersHold, PTL DEF Spec, StopsAfterFailure

\* A complete attempt is reported failed only by the timer left running.
THEOREM LateFailureIsTheTimer == Spec => FailsLateByTimer
<1>1. TypeInv /\ TransferInv /\ [Next]_vars
      => [attempt' = attempt /\ marked /\ failures' # failures
            => (timer /\ ~timer') \/ leftover]_vars
  <2> SUFFICES ASSUME TypeInv, TransferInv, [Next]_vars,
                      attempt' = attempt, marked, failures' # failures, ~leftover
               PROVE  timer /\ ~timer'
    OBVIOUS
  <2>1. NothingWrites /\ sockets = {}
    BY DEF TransferInv, MarkedIsOver, OverIsOver
  <2> QED
    BY <2>1, QuietSteps
<1> QED
  BY <1>1, TransfersHold, PTL DEF Spec, FailsLateByTimer

-----------------------------------------------------------------------------
(* The order of what is written.  What the context's socket has delivered and  *)
(* what the server is still to send are, behind what has been consumed, the    *)
(* rest of one answer; of a file, what DoUpgrade has not read is the rest.     *)

NoFin(pieces) == \A i \in 1..Len(pieces) : pieces[i] # "fin"

\* What has been received and not written, and what is still to come.
Unwritten == http.data \o (arrived \o coming)

\* The end of an answer, from some place in it.
IsRest(q) == \E p \in Seq(STRING) : p \o q \in Answers

\* Associativity under a name: the provers get lost in a quantified equation.
Associates(s, t, u) == (s \o t) \o u = s \o (t \o u)

LEMMA Associative == \A s, t, u \in Seq(STRING) : Associates(s, t, u)
BY ConcatAssociative DEF Associates

LEMMA HeadAndTail ==
    ASSUME NEW s \in Seq(STRING), s # <<>>
    PROVE  s = <<Head(s)>> \o Tail(s)
<1>1. Len(s) \in Nat \ {0}
  BY EmptySeq
<1>2. SubSeq(s, 1, Len(s)) = <<s[1]>> \o SubSeq(s, 1 + 1, Len(s))
  BY <1>1, SubSeqRecursiveFirst
<1>3. SubSeq(s, 1, Len(s)) = s /\ SubSeq(s, 2, Len(s)) = Tail(s) /\ s[1] = Head(s)
  BY SubSeqFull, TailIsSubSeq
<1> QED
  BY <1>2, <1>3

LEMMA RestOfRest ==
    ASSUME NEW p \in Seq(STRING), NEW q \in Seq(STRING), IsRest(p \o q)
    PROVE  IsRest(q)
<1>1. PICK p0 \in Seq(STRING) : p0 \o (p \o q) \in Answers
  BY DEF IsRest
<1>2. Associates(p0, p, q)
  BY Associative
<1>3. p0 \o p \in Seq(STRING)
  BY ConcatProperties
<1>4. (p0 \o p) \o q \in Answers
  BY <1>1, <1>2 DEF Associates
<1>5. \E p1 \in Seq(STRING) : p1 \o q \in Answers
  BY <1>3, <1>4
<1> QED
  BY <1>5 DEF IsRest

LEMMA AnswerIsRest ==
    ASSUME NEW reply \in Answers
    PROVE  IsRest(reply)
<1>1. <<>> \in Seq(STRING) /\ <<>> \o reply = reply
  BY EmptySeq, ConcatEmptySeq
<1> QED
  BY <1>1 DEF IsRest

\* What follows p in p \o q is q.
LEMMA Behind ==
    ASSUME NEW p \in Seq(STRING), NEW q \in Seq(STRING)
    PROVE  SubSeq(p \o q, Len(p) + 1, Len(p \o q)) = q
<1> DEFINE s == p \o q
           t == SubSeq(s, Len(p) + 1, Len(s))
<1>1. /\ Len(p) \in Nat /\ Len(q) \in Nat /\ s \in Seq(STRING)
      /\ Len(s) = Len(p) + Len(q)
      /\ \A i \in 1..Len(s) : s[i] = IF i <= Len(p) THEN p[i] ELSE q[i - Len(p)]
  BY ConcatProperties, LenProperties
<1>2. \A i \in (Len(p) + 1)..Len(s) : s[i] \in STRING
  BY <1>1, ElementOfSeq
<1> HIDE DEF s
<1>3. /\ t \in Seq(STRING)
      /\ Len(t) = IF Len(p) + 1 <= Len(s) THEN Len(s) - (Len(p) + 1) + 1 ELSE 0
      /\ \A i \in 1..(Len(s) - (Len(p) + 1) + 1) : t[i] = s[Len(p) + 1 + i - 1]
  BY <1>1, <1>2, SubSeqProperties
<1> HIDE DEF t
<1>4. Len(t) = Len(q)
  BY <1>1, <1>3
<1>5. ASSUME NEW i \in 1..Len(t) PROVE t[i] = q[i]
  <2>1. i \in Nat /\ i >= 1 /\ i <= Len(q)
    BY <1>1, <1>4
  <2>2. t[i] = s[Len(p) + i]
    BY <1>1, <1>3, <2>1
  <2>3. s[Len(p) + i] = q[(Len(p) + i) - Len(p)]
    <3> DEFINE k == Len(p) + i
    <3>1. k \in 1..Len(s) /\ ~(k <= Len(p))
      BY <1>1, <2>1
    <3> HIDE DEF k
    <3>2. s[k] = q[k - Len(p)]
      BY <1>1, <3>1
    <3> QED
      BY <3>2 DEF k
  <2>4. (Len(p) + i) - Len(p) = i
    BY <1>1, <2>1
  <2> QED
    BY <2>2, <2>3, <2>4
<1>6. t = q
  BY <1>3, <1>4, <1>5, SeqEqual
<1> QED
  BY <1>6 DEF t, s

\* The last of p \o q is the last of q.
LEMMA LastOfConcat ==
    ASSUME NEW p \in Seq(STRING), NEW q \in Seq(STRING), Len(q) > 0
    PROVE  /\ (p \o q)[Len(p \o q)] = q[Len(q)]
           /\ Len(p \o q) \in 1..Len(p \o q)
<1> DEFINE n == Len(p) + Len(q)
<1>1. Len(p) \in Nat /\ Len(q) \in Nat
  BY LenProperties
<1>2. Len(p \o q) = n
  BY ConcatProperties
<1>3. \A i \in 1..n : (p \o q)[i] = IF i <= Len(p) THEN p[i] ELSE q[i - Len(p)]
  BY ConcatProperties
<1>4. n \in 1..n /\ ~(n <= Len(p)) /\ n - Len(p) = Len(q)
  BY <1>1
<1> HIDE DEF n
<1> QED
  BY <1>2, <1>3, <1>4

\* What follows an empty line in the rest of an answer is a body.
LEMMA BodyBehindEnd ==
    ASSUME NEW p \in Seq(STRING), NEW q \in Seq(STRING), IsRest(p \o q),
           Len(p) > 0, p[Len(p)] = "end"
    PROVE  q \in Bodies
<1>1. PICK p0 \in Seq(STRING) : p0 \o (p \o q) \in Answers
  BY DEF IsRest
<1> DEFINE head == p0 \o p
           reply == head \o q
<1>2. head \in Seq(STRING) /\ reply \in Answers
  <2>1. head \in Seq(STRING)
    BY ConcatProperties
  <2>2. Associates(p0, p, q)
    BY Associative
  <2> QED
    BY <1>1, <2>1, <2>2 DEF Associates
<1>3. head[Len(head)] = "end" /\ Len(head) \in 1..Len(head)
  BY <1>2, LastOfConcat
<1> HIDE DEF head
<1>4. reply[Len(head)] = "end" /\ Len(head) \in DOMAIN reply
  BY <1>2, <1>3, ConcatProperties, LenProperties
<1>5. q = SubSeq(reply, Len(head) + 1, Len(reply))
  BY <1>2, Behind
<1> HIDE DEF reply
<1>6. q \in {SubSeq(reply, i + 1, Len(reply)) : i \in {j \in DOMAIN reply : reply[j] = "end"}}
  BY <1>4, <1>5
<1> DEFINE Following(r) ==
             {SubSeq(r, i + 1, Len(r)) : i \in {j \in DOMAIN r : r[j] = "end"}}
<1>7. Bodies = UNION {Following(r) : r \in Answers}
  BY DEF Bodies
<1>8. q \in Following(reply)
  BY <1>6
<1> HIDE DEF Following
<1> QED
  BY <1>2, <1>7, <1>8

LEMMA PrefixOfConcat ==
    ASSUME NEW p \in Seq(STRING), NEW q \in Seq(STRING)
    PROVE  IsPrefix(p, p \o q)
<1>1. /\ p \o q \in Seq(STRING) /\ Len(p) \in Nat /\ Len(q) \in Nat
      /\ Len(p \o q) = Len(p) + Len(q)
  BY ConcatProperties, LenProperties
<1>2. SubSeq(p \o q, 1, Len(p)) = SubSeq(p, 1, Len(p))
  <2>1. CASE Len(p) = 0
    BY <2>1, SubSeqEmpty
  <2>2. CASE Len(p) > 0
    BY <1>1, <2>2, SubSeqOfConcat1
  <2> QED
    BY <1>1, <2>1, <2>2
<1> QED
  BY <1>1, <1>2 DEF IsPrefix

LEMMA ConcatNoFin ==
    ASSUME NEW p \in Seq(STRING), NEW q \in Seq(STRING)
    PROVE  NoFin(p) /\ NoFin(q) => NoFin(p \o q)
<1> SUFFICES ASSUME NoFin(p), NoFin(q), NEW i \in 1..Len(p \o q)
             PROVE  (p \o q)[i] # "fin"
  BY DEF NoFin
<1>1. /\ Len(p) \in Nat /\ Len(q) \in Nat /\ Len(p \o q) = Len(p) + Len(q)
      /\ (p \o q)[i] = IF i <= Len(p) THEN p[i] ELSE q[i - Len(p)]
  BY ConcatProperties, LenProperties
<1> QED
  BY <1>1 DEF NoFin

\* A sequence cut in two.
LEMMA Cut ==
    ASSUME NEW s \in Seq(STRING), NEW k \in 0..Len(s)
    PROVE  LET front == SubSeq(s, 1, k)
               rest  == SubSeq(s, k + 1, Len(s))
           IN  /\ front \in Seq(STRING) /\ rest \in Seq(STRING)
               /\ front \o rest = s
               /\ Len(front) = k /\ \A i \in 1..k : front[i] = s[i]
               /\ NoFin(s) => NoFin(rest)
<1>1. Len(s) \in Nat /\ k \in Nat /\ k <= Len(s)
  BY LenProperties
<1>2. \A i \in 1..Len(s) : s[i] \in STRING
  BY ElementOfSeq
<1> DEFINE front == SubSeq(s, 1, k)
           rest  == SubSeq(s, k + 1, Len(s))
<1>3. front \in Seq(STRING) /\ Len(front) = k /\ \A i \in 1..k : front[i] = s[i]
  BY <1>1, <1>2, SubSeqProperties
<1>4. /\ rest \in Seq(STRING)
      /\ \A i \in 1..Len(rest) : k + i \in 1..Len(s) /\ rest[i] = s[k + i]
  BY <1>1, <1>2, SubSeqProperties
<1>5. front \o rest = s
  <2>1. 1 \in 1..Len(s) + 1 /\ k \in (1 - 1)..Len(s) /\ Len(s) \in k..Len(s)
    BY <1>1
  <2>2. front \o rest = SubSeq(s, 1, Len(s))
    BY <2>1, ConcatAdjacentSubSeq
  <2> QED
    BY <2>2, SubSeqFull
<1>6. ASSUME NoFin(s) PROVE NoFin(rest)
  <2> HIDE DEF rest
  <2> QED
    BY <1>4, <1>6 DEF NoFin
<1> HIDE DEF front, rest
<1>7. /\ front \in Seq(STRING) /\ rest \in Seq(STRING)
      /\ front \o rest = s
      /\ Len(front) = k /\ \A i \in 1..k : front[i] = s[i]
      /\ NoFin(s) => NoFin(rest)
  BY <1>3, <1>4, <1>5, <1>6
<1> QED
  BY <1>7 DEF front, rest

-----------------------------------------------------------------------------
(* The context of the download.                                                *)

\* Without a buffer nothing of it is kept; while the header is read its length
\* is not known; and a close is not received.
ContextInv ==
    /\ ~http.socketdata => http.ContentLength = 0 /\ http.data = <<>>
    /\ main = "head" => http.ContentLength = 0
    /\ NoFin(http.data)

LEMMA InitializedContext ==
    ASSUME NEW s
    PROVE  /\ ~Initialized(s).socketdata /\ Initialized(s).socketid = s
           /\ Initialized(s).ContentLength = 0 /\ Initialized(s).data = <<>>
           /\ NoFin(Initialized(s).data)
BY EmptySeq DEF Initialized, NoFin

LEMMA FreshContext ==
    ASSUME NEW s, http' = Initialized(s), main' # "head"
    PROVE  ContextInv'
BY InitializedContext DEF ContextInv, NoFin

LEMMA SameContext ==
    ASSUME ContextInv, http'.data = http.data, http'.ContentLength = http.ContentLength,
           http.socketdata => http'.socketdata, main' = "head" => http.ContentLength = 0
    PROVE  ContextInv'
BY DEF ContextInv, NoFin

\* A read takes pieces before the close, and the rest stays.
LEMMA ReceivedPieces ==
    ASSUME TypeInv, ContextInv, NEW n \in Receivable, Taken(n)
    PROVE  /\ Received(n) \in Seq(STRING) /\ NoFin(Received(n))
           /\ arrived' \in Seq(STRING)
           /\ Unwritten = Received(n) \o (arrived' \o coming)
<1>1. /\ http.data \in Seq(STRING) /\ arrived \in Seq(STRING) /\ coming \in Seq(STRING)
  BY DEF TypeInv, DfotaTypeOK, HttpTypeOK
<1>2. n \in 1..Len(arrived) /\ \A j \in 1..n : arrived[j] # "fin"
  BY ReceivableArrived DEF TypeInv
<1> DEFINE front == SubSeq(arrived, 1, n)
           rest  == SubSeq(arrived, n + 1, Len(arrived))
<1>3. n \in 0..Len(arrived)
  BY <1>1, <1>2, LenProperties
<1>4. /\ front \in Seq(STRING) /\ rest \in Seq(STRING)
      /\ front \o rest = arrived
      /\ Len(front) = n /\ \A i \in 1..n : front[i] = arrived[i]
  BY <1>1, <1>3, Cut
<1>5. arrived' = rest /\ Received(n) = http.data \o front
  BY DEF Taken, Received
<1> HIDE DEF front, rest
<1>6. NoFin(front)
  BY <1>2, <1>4 DEF NoFin
<1>7. Received(n) \in Seq(STRING) /\ NoFin(Received(n))
  BY <1>1, <1>4, <1>5, <1>6, ConcatProperties, ConcatNoFin DEF ContextInv
<1>8. Unwritten = Received(n) \o (rest \o coming)
  <2> DEFINE later == rest \o coming
  <2>1. arrived \o coming = front \o later
    <3>1. front \in Seq(STRING) /\ rest \in Seq(STRING) /\ coming \in Seq(STRING)
      BY <1>1, <1>4
    <3>2. Associates(front, rest, coming)
      BY <3>1, Associative
    <3> QED
      BY <1>4, <3>2 DEF Associates
  <2>2. later \in Seq(STRING)
    BY <1>1, <1>4, ConcatProperties
  <2> HIDE DEF later
  <2>3. (http.data \o front) \o later = http.data \o (front \o later)
    <3>1. http.data \in Seq(STRING) /\ front \in Seq(STRING)
      BY <1>1, <1>4
    <3>2. Associates(http.data, front, later)
      BY <2>2, <3>1, Associative
    <3> QED
      BY <3>2 DEF Associates
  <2> QED
    BY <1>5, <2>1, <2>3 DEF Unwritten, later
<1> QED
  BY <1>4, <1>5, <1>7, <1>8

\* The download is behind the header.
InBody == main = "body" \/ http.ContentLength # 0

\* Nothing is written before DoUpgrade has the file, nor before a lookup ends.
FileOrder ==
    /\ resolving > 0 \/ download # "none" \/ urc = "open" => flash = <<>>
    /\ urc = "write" => \E file \in Files : file = flash \o unread

AnswerOrder ==
    http.socketdata =>
        IF InBody
        THEN NoFin(flash) /\ flash \o Unwritten \in Bodies
        ELSE flash = <<>> /\ IsRest(Unwritten)

OrderInv ==
    /\ ContextInv
    /\ WritesInOrder
    /\ ~leftover => FileOrder /\ AnswerOrder

\* With what an earlier attempt has left, only the context matters.
LEMMA LeftoverOrder == ContextInv /\ leftover => OrderInv
BY DEF OrderInv, WritesInOrder

\* A callback that leaves no buffer and writes nothing.
LEMMA NoBufferOrder ==
    ASSUME OrderInv, ContextInv', ~http'.socketdata, resolving' > 0 => resolving > 0,
           UNCHANGED <<leftover, flash, download, urc, unread>>
    PROVE  OrderInv'
<1>1. WritesInOrder'
  BY DEF OrderInv, WritesInOrder
<1>2. ~leftover => FileOrder'
  BY DEF OrderInv, FileOrder
<1> QED
  BY <1>1, <1>2 DEF OrderInv, AnswerOrder

\* A step that moves nothing out of the context, nor out of what is to come.
LEMMA SameOrder ==
    ASSUME OrderInv, ContextInv', InBody' = InBody,
           http'.socketdata = http.socketdata, http'.data = http.data,
           (arrived \o coming)' = arrived \o coming, resolving' > 0 => resolving > 0,
           UNCHANGED <<leftover, flash, download, urc, unread>>
    PROVE  OrderInv'
<1>1. Unwritten' = Unwritten
  BY DEF Unwritten
<1>2. WritesInOrder'
  BY DEF OrderInv, WritesInOrder
<1>3. ~leftover => FileOrder'
  BY DEF OrderInv, FileOrder
<1>4. ~leftover => AnswerOrder'
  BY <1>1 DEF OrderInv, AnswerOrder
<1> QED
  BY <1>2, <1>3, <1>4 DEF OrderInv

\* What is written to the pool behind the header.
LEMMA WrittenOrder ==
    ASSUME TypeInv, OrderInv, ~leftover, leftover' = leftover, http.socketdata, InBody,
           NEW pieces \in Seq(STRING), NoFin(pieces), NEW later \in Seq(STRING),
           Unwritten = pieces \o later, Written(pieces)
    PROVE  /\ NoFin(flash') /\ flash' \o later \in Bodies
           /\ WritesInOrder'
<1>1. NoFin(flash) /\ flash \o Unwritten \in Bodies
  BY DEF OrderInv, AnswerOrder
<1>2. flash \in Seq(STRING) /\ flash' = flash \o pieces
  BY DEF Written, TypeInv, DfotaTypeOK, FotaTypeOK
<1>3. flash' \in Seq(STRING) /\ NoFin(flash')
  BY <1>1, <1>2, ConcatProperties, ConcatNoFin
<1>4. Associates(flash, pieces, later)
  BY <1>2, Associative
<1>5. flash' \o later \in Bodies
  BY <1>1, <1>2, <1>4 DEF Associates
<1>6. IsPrefix(flash', flash' \o later)
  <2> DEFINE written == flash'
  <2>1. written \in Seq(STRING)
    BY <1>3
  <2> HIDE DEF written
  <2>2. IsPrefix(written, written \o later)
    BY <2>1, PrefixOfConcat
  <2> QED
    BY <2>2 DEF written
<1>7. ~Contains(flash', "fin")
  BY <1>3 DEF NoFin, Contains
<1>8. (~Contains(flash, "fin") /\ \E body \in Bodies : IsPrefix(flash, body))'
  <2>1. \E body \in Bodies : IsPrefix(flash', body)
    BY <1>5, <1>6
  <2> QED
    BY <1>7, <2>1 DEF Bodies
<1> QED
  BY <1>3, <1>5, <1>8 DEF WritesInOrder

\* Connecting the context h; once the request is sent its answer is to come.
LEMMA ConnectOrder ==
    ASSUME NEW h \in Contexts, NEW f, NEW e, http_GetImagefilefromServer(h, f, e),
           NoFin(h.data), main' # "head",
           ~h.socketdata => h.ContentLength = 0 /\ h.data = <<>>
    PROVE  /\ ContextInv'
           /\ http'.socketdata /\ ~h.socketdata /\ main' = "idle"
              => ~InBody' /\ IsRest(Unwritten')
<1>1. CASE http' = h
  BY <1>1 DEF ContextInv, NoFin
<1>2. CASE http' = Initialized(NoSocket)
  BY <1>2, FreshContext, InitializedContext
<1>3. CASE /\ http' = [h EXCEPT !.socketdata = TRUE, !.httpGettimerstate = TRUE]
           /\ coming' \in Answers /\ arrived' = <<>>
  <2>1. /\ http'.socketdata /\ http'.data = h.data
        /\ http'.ContentLength = h.ContentLength
    BY <1>3 DEF Contexts
  <2>2. ContextInv'
    BY <2>1 DEF ContextInv, NoFin
  <2>3. ASSUME ~h.socketdata, main' = "idle" PROVE ~InBody' /\ IsRest(Unwritten')
    <3>1. ~InBody' /\ http'.data = <<>>
      BY <2>1, <2>3 DEF InBody
    <3> DEFINE reply == coming'
    <3>2. Unwritten' = <<>> \o (<<>> \o reply) /\ reply \in Answers
      BY <1>3, <3>1 DEF Unwritten
    <3> HIDE DEF reply
    <3>3. reply \in Seq(STRING) /\ IsRest(reply)
      BY <3>2, AnswerIsRest
    <3>4. <<>> \o (<<>> \o reply) = reply
      BY <3>3, ConcatEmptySeq
    <3> QED
      BY <3>1, <3>2, <3>3, <3>4
  <2> QED
    BY <2>2, <2>3
<1> QED
  BY <1>1, <1>2, <1>3 DEF http_GetImagefilefromServer

LEMMA LookupOrder ==
    ASSUME TypeInv, TransferInv, OrderInv, Callback_GetIpByHostName,
           UNCHANGED <<ftpVars, leftover>>
    PROVE  OrderInv'
<1> USE DEF Callback_GetIpByHostName, ftpVars
<1>1. /\ resolving > 0 /\ resolving \in Nat /\ main' = "idle" /\ flash' = flash
      /\ http \in Contexts
  BY DEF TypeInv, DfotaTypeOK, HttpTypeOK, Contexts
<1>2. CASE UNCHANGED <<http, sockets, timer, heap, coming, arrived>>
  <2>1. ContextInv' /\ InBody' = InBody
    BY <1>1, <1>2 DEF OrderInv, ContextInv, NoFin, InBody
  <2> QED
    BY <1>1, <1>2, <2>1, SameOrder
<1>3. CASE http_GetImagefilefromServer(http, failures, told)
  <2>1. /\ ContextInv'
        /\ http'.socketdata /\ ~http.socketdata => ~InBody' /\ IsRest(Unwritten')
    BY <1>1, <1>3, ConnectOrder DEF OrderInv, ContextInv
  <2>2. CASE leftover
    BY <2>1, <2>2 DEF OrderInv, WritesInOrder
  <2>3. CASE ~leftover
    <3>1. ~http.socketdata /\ flash = <<>>
      BY <1>1, <2>3, AtWorkAlone DEF OrderInv, FileOrder
    <3>2. AnswerOrder'
      BY <1>1, <2>1, <3>1 DEF AnswerOrder
    <3>3. FileOrder' /\ WritesInOrder'
      BY <1>1, <2>3, <3>1 DEF OrderInv, FileOrder, WritesInOrder
    <3> QED
      BY <2>1, <3>2, <3>3 DEF OrderInv
  <2> QED
    BY <2>2, <2>3
<1> QED
  BY <1>2, <1>3

LEMMA FailedOrder ==
    ASSUME OrderInv, NEW h, NEW times, Failed(h, times),
           UNCHANGED <<flash, ftpVars, leftover, resolving>>
    PROVE  OrderInv'
<1>1. http' = Initialized(h.socketid) /\ main' = "idle"
  BY DEF Failed, Freed
<1>2. ContextInv' /\ ~http'.socketdata
  BY <1>1, FreshContext, InitializedContext
<1> QED
  BY <1>2, NoBufferOrder DEF ftpVars

LEMMA CallbackOrder ==
    ASSUME TypeInv, OrderInv,
           http_TimerCallback \/ \E s \in Attempts : ReadError(s) \/ ReadSuccess(s),
           UNCHANGED <<ftpVars, leftover>>
    PROVE  OrderInv'
<1>1. CASE http_TimerCallback
  <2>1. Failed(http, 1)
    BY <1>1 DEF http_TimerCallback, Failed
  <2> QED
    BY <1>1, <2>1, FailedOrder DEF http_TimerCallback, link
<1>2. ASSUME NEW s \in Attempts, ReadError(s) PROVE OrderInv'
  BY <1>2, FailedOrder DEF ReadError
<1>3. ASSUME NEW s \in Attempts, ReadSuccess(s) PROVE OrderInv'
  <2>1. /\ http'.data = http.data /\ http'.ContentLength = http.ContentLength
        /\ http'.socketdata = http.socketdata
    BY <1>3 DEF ReadSuccess, TypeInv, DfotaTypeOK, HttpTypeOK
  <2>2. /\ main = "idle" /\ main' \in {"idle", "head", "body"}
        /\ main' = "head" => http.ContentLength = 0
        /\ main' = "body" => http.ContentLength # 0
    BY <1>3 DEF ReadSuccess
  <2>3. ContextInv'
    BY <2>1, <2>2, SameContext DEF OrderInv
  <2>4. InBody' = InBody
    BY <2>1, <2>2 DEF InBody
  <2> QED
    BY <1>3, <2>1, <2>3, <2>4, SameOrder DEF ReadSuccess, ftpVars
<1> QED
  BY <1>1, <1>2, <1>3

\* A read that would block.
LEMMA LaterOrder ==
    ASSUME OrderInv, ReadLater(http), main = "body" => http.ContentLength # 0,
           UNCHANGED <<flash, ftpVars, leftover, resolving, arrived, coming>>
    PROVE  OrderInv'
<1>1. http' = http /\ main' = "idle"
  BY DEF ReadLater
<1>2. ContextInv'
  BY <1>1, SameContext DEF OrderInv
<1>3. InBody' = InBody
  BY <1>1 DEF InBody
<1> QED
  BY <1>1, <1>2, <1>3, SameOrder DEF ftpVars

LEMMA ArriveOrder ==
    ASSUME TypeInv, OrderInv, Arrive \/ \E s \in Attempts : ArriveLate(s),
           UNCHANGED <<ftpVars, leftover>>
    PROVE  OrderInv'
<1>1. /\ http' = http /\ main' = main /\ UNCHANGED <<resolving, flash>>
  BY DEF Arrive, ArriveLate, fotaVars
<1>2. ContextInv' /\ InBody' = InBody
  BY <1>1 DEF OrderInv, ContextInv, NoFin, InBody
<1>3. (arrived \o coming)' = arrived \o coming
  <2>1. CASE Arrive
    <3>1. /\ arrived \in Seq(STRING) /\ coming \in Seq(STRING) /\ coming # <<>>
          /\ arrived' = Append(arrived, Head(coming)) /\ coming' = Tail(coming)
      BY <2>1 DEF Arrive, TypeInv, DfotaTypeOK, HttpTypeOK
    <3>2. Head(coming) \in STRING /\ Tail(coming) \in Seq(STRING)
      BY <3>1, HeadTailProperties
    <3>3. coming = <<Head(coming)>> \o Tail(coming)
      BY <3>1, HeadAndTail
    <3>4. <<Head(coming)>> \in Seq(STRING)
      BY <3>2
    <3>5. Append(arrived, Head(coming)) = arrived \o <<Head(coming)>>
      BY <3>1, <3>2, AppendIsConcat
    <3>6. Associates(arrived, <<Head(coming)>>, Tail(coming))
      BY <3>1, <3>2, <3>4, Associative
    <3> QED
      BY <3>1, <3>3, <3>5, <3>6 DEF Associates
  <2>2. CASE \E s \in Attempts : ArriveLate(s)
    BY <2>2 DEF ArriveLate
  <2> QED
    BY <2>1, <2>2
<1> QED
  BY <1>1, <1>2, <1>3, SameOrder DEF ftpVars

\* If the decoded lines hold an empty one, it is the last of them.
LEMMA DecodedEnd ==
    ASSUME NEW pieces \in Seq(STRING), NEW k \in 0..Len(pieces), k = Decoded(pieces),
           Contains(SubSeq(pieces, 1, k), "end")
    PROVE  k > 0 /\ pieces[k] = "end"
<1> DEFINE end == SelectInSeq(pieces, LAMBDA p : p = "end")
           lines == SubSeq(pieces, 1, k)
<1>1. /\ end \in 0..Len(pieces)
      /\ end = 0 => \A j \in 1..Len(pieces) : pieces[j] # "end"
      /\ end > 0 => pieces[end] = "end" /\ \A j \in 1..(end - 1) : pieces[j] # "end"
  BY FirstIn, Zenon
<1>2. end > 0 => k = end
  BY DEF Decoded
<1> HIDE DEF end
<1>3. Len(lines) = k /\ \A i \in 1..k : lines[i] = pieces[i]
  BY Cut
<1>4. PICK i \in 1..Len(lines) : lines[i] = "end"
  BY DEF Contains
<1> HIDE DEF lines
<1>5. i \in 1..Len(pieces) /\ pieces[i] = "end"
  BY <1>3, <1>4, LenProperties
<1> QED
  BY <1>1, <1>2, <1>5, LenProperties

LEMMA HeadOrder ==
    ASSUME TypeInv, OrderInv, http_RecvHttpHead, UNCHANGED <<ftpVars, leftover>>
    PROVE  OrderInv'
<1> USE DEF http_RecvHttpHead
<1>1. /\ http.socketdata /\ http \in Contexts /\ main = "head"
      /\ http.ContentLength = 0 /\ ~InBody
  BY DEF TypeInv, ReadersHaveBuffers, DfotaTypeOK, HttpTypeOK, Contexts, OrderInv,
         ContextInv, InBody
<1>2. \A h, times : Failed(h, times) => OrderInv'
  BY FailedOrder
<1>3. CASE ReadLater(http) /\ UNCHANGED arrived
  BY <1>1, <1>3, LaterOrder
<1>4. ASSUME NEW n \in Receivable, Taken(n), HeadReceived(Received(n))
      PROVE  OrderInv'
  <2> DEFINE pieces == Received(n)
             arrivedNext == arrived'
  <2>1. /\ pieces \in Seq(STRING) /\ NoFin(pieces) /\ arrivedNext \in Seq(STRING)
        /\ Unwritten = pieces \o (arrivedNext \o coming) /\ coming \in Seq(STRING)
    BY <1>4, ReceivedPieces DEF OrderInv, TypeInv, DfotaTypeOK, HttpTypeOK
  <2> HIDE DEF pieces, arrivedNext
  <2>2. PICK k \in 0..Len(pieces) :
          /\ k = Decoded(pieces)
          /\ IF Contains(SubSeq(pieces, 1, k), "end")
             THEN HeadEnds(httpheader', SubSeq(pieces, k + 1, Len(pieces)))
             ELSE /\ http' = [http EXCEPT !.data = SubSeq(pieces, k + 1, Len(pieces))]
                  /\ Silence /\ UNCHANGED <<main, heap>>
    BY <1>4 DEF HeadReceived, pieces
  <2> DEFINE lines == SubSeq(pieces, 1, k)
             rest == SubSeq(pieces, k + 1, Len(pieces))
             length == IF httpheader'.Exist THEN httpheader'.ContentLength ELSE Unknown
             known == [http EXCEPT !.data = rest, !.ContentLength = length]
             later == rest \o (arrivedNext \o coming)
  <2>3. /\ lines \in Seq(STRING) /\ rest \in Seq(STRING) /\ lines \o rest = pieces
        /\ Len(lines) = k /\ NoFin(rest)
    BY <2>1, Cut
  <2>4. k > 0 => lines[k] = pieces[k]
    BY <2>1, Cut
  <2>5. Contains(lines, "end") => k > 0 /\ lines[k] = "end"
    BY <2>1, <2>2, <2>4, DecodedEnd
  <2> HIDE DEF lines, rest, length
  <2>6. Unwritten = lines \o later /\ later \in Seq(STRING)
    <3> DEFINE tail == arrivedNext \o coming
    <3>1. tail \in Seq(STRING)
      BY <2>1, ConcatProperties
    <3> HIDE DEF tail
    <3>2. lines \in Seq(STRING) /\ rest \in Seq(STRING)
      BY <2>3
    <3>3. Associates(lines, rest, tail)
      BY <3>1, <3>2, Associative
    <3>4. rest \o tail \in Seq(STRING)
      BY <3>1, <3>2, ConcatProperties
    <3> QED
      BY <2>1, <2>3, <3>3, <3>4 DEF tail, Associates
  <2>7. CASE http' = [http EXCEPT !.data = rest] /\ main' = main
    <3>1. /\ http'.data = rest /\ http'.ContentLength = 0 /\ http'.socketdata
      BY <1>1, <2>7 DEF Contexts
    <3>2. ContextInv' /\ ~InBody'
      BY <1>1, <2>3, <2>7, <3>1 DEF ContextInv, NoFin, InBody
    <3>3. Unwritten' = later
      BY <3>1 DEF Unwritten, arrivedNext
    <3> HIDE DEF later
    <3>4. ASSUME ~leftover PROVE FileOrder' /\ AnswerOrder'
      <4>1. flash = <<>> /\ IsRest(Unwritten)
        BY <1>1, <3>4 DEF OrderInv, AnswerOrder
      <4>2. IsRest(later)
        BY <2>3, <2>6, <4>1, RestOfRest
      <4>3. AnswerOrder'
        BY <3>2, <3>3, <4>1, <4>2 DEF AnswerOrder
      <4> QED
        BY <3>4, <4>3 DEF OrderInv, FileOrder, ftpVars
    <3>5. WritesInOrder'
      BY DEF OrderInv, WritesInOrder
    <3> QED
      BY <3>2, <3>4, <3>5 DEF OrderInv
  <2>8. CASE http' = known /\ main' = "body" /\ Contains(lines, "end")
    <3>1. http'.data = rest /\ http'.socketdata
      BY <1>1, <2>8 DEF Contexts
    <3>2. ContextInv' /\ InBody'
      BY <2>3, <2>8, <3>1 DEF ContextInv, NoFin, InBody
    <3>3. Unwritten' = later
      BY <3>1 DEF Unwritten, arrivedNext
    <3> HIDE DEF later, known
    <3>4. ASSUME ~leftover PROVE FileOrder' /\ AnswerOrder'
      <4>1. flash = <<>> /\ IsRest(Unwritten)
        BY <1>1, <3>4 DEF OrderInv, AnswerOrder
      <4>2. later \in Bodies
        BY <2>3, <2>5, <2>6, <2>8, <4>1, BodyBehindEnd
      <4>3. flash' = <<>> /\ NoFin(flash')
        BY <4>1, EmptySeq DEF NoFin
      <4>4. <<>> \o later = later
        BY <2>6, ConcatEmptySeq
      <4>5. AnswerOrder'
        <5>1. (flash \o Unwritten)' = later
          BY <3>3, <4>3, <4>4
        <5>2. (flash \o Unwritten \in Bodies)'
          BY <4>2, <5>1 DEF Bodies
        <5>3. NoFin(flash)'
          BY <4>3 DEF NoFin
        <5> QED
          BY <3>2, <5>2, <5>3 DEF AnswerOrder
      <4> QED
        BY <3>4, <4>5 DEF OrderInv, FileOrder, ftpVars
    <3>5. WritesInOrder'
      BY DEF OrderInv, WritesInOrder
    <3> QED
      BY <3>2, <3>4, <3>5 DEF OrderInv
  <2> HIDE DEF known, later
  <2>9. \/ \E h, times : Failed(h, times)
        \/ http' = [http EXCEPT !.data = rest] /\ main' = main
        \/ http' = known /\ main' = "body" /\ Contains(lines, "end")
    BY <2>2 DEF HeadEnds, known, lines, rest, length
  <2> QED
    BY <1>2, <2>7, <2>8, <2>9
<1> QED
  BY <1>2, <1>3, <1>4

\* The end of a body: what was written was the rest of it.
LEMMA DownloadedOrder ==
    ASSUME TypeInv, TransferInv, OrderInv, http.socketdata, Downloaded,
           flash' = flash \/ (~leftover => WritesInOrder'),
           UNCHANGED <<leftover, resolving, ftpVars>>
    PROVE  OrderInv'
<1>1. ContextInv' /\ ~http'.socketdata
  BY FreshContext, InitializedContext DEF Downloaded
<1>2. WritesInOrder'
  BY DEF OrderInv, WritesInOrder
<1>3. ~leftover => FileOrder'
  <2>1. ~leftover => resolving = 0 /\ download = "none" /\ urc = "idle"
    BY AtWorkAlone DEF FtpAtWork
  <2> QED
    BY <2>1 DEF FileOrder, ftpVars
<1> QED
  BY <1>1, <1>2, <1>3 DEF OrderInv, AnswerOrder

LEMMA PartOrder ==
    ASSUME TypeInv, TransferInv, OrderInv, http.socketdata, main = "body",
           NEW n \in Receivable, Taken(n), PartReceived(Received(n)),
           UNCHANGED <<leftover, resolving, coming, ftpVars>>
    PROVE  OrderInv'
<1> DEFINE pieces == Received(n)
           arrivedNext == arrived'
           later == arrivedNext \o coming
           size == http.receivedbodydata + Len(pieces)
<1>1. /\ pieces \in Seq(STRING) /\ NoFin(pieces) /\ later \in Seq(STRING)
      /\ Unwritten = pieces \o later
  <2>1. /\ pieces \in Seq(STRING) /\ NoFin(pieces) /\ arrivedNext \in Seq(STRING)
        /\ Unwritten = pieces \o later /\ coming \in Seq(STRING)
    BY ReceivedPieces DEF OrderInv, TypeInv, DfotaTypeOK, HttpTypeOK
  <2> HIDE DEF arrivedNext, pieces
  <2> QED
    BY <2>1, ConcatProperties
<1> HIDE DEF pieces
<1>2. ASSUME ~leftover, Written(pieces)
      PROVE  NoFin(flash') /\ flash' \o later \in Bodies /\ WritesInOrder'
  <2> HIDE DEF later
  <2> QED
    BY <1>1, <1>2, WrittenOrder DEF InBody
<1>3. CASE Failed(http, 2) /\ UNCHANGED flash
  BY <1>3, FailedOrder
<1>4. CASE /\ Written(pieces) /\ main' = main
           /\ http' = [http EXCEPT !.receivedbodydata = size, !.data = <<>>]
  <2>1. /\ http'.data = <<>> /\ http'.socketdata
    <3> HIDE DEF size
    <3> QED
      BY <1>4 DEF TypeInv, DfotaTypeOK, HttpTypeOK
  <2>2. ContextInv' /\ InBody'
    BY <1>4, <2>1, EmptySeq DEF ContextInv, NoFin, InBody
  <2>3. Unwritten' = <<>> \o later
    BY <2>1 DEF Unwritten
  <2> HIDE DEF later
  <2>4. Unwritten' = later
    BY <1>1, <2>3, ConcatEmptySeq
  <2>5. CASE leftover
    BY <2>2, <2>5 DEF OrderInv, WritesInOrder
  <2>6. CASE ~leftover
    <3>1. NoFin(flash)' /\ (flash \o Unwritten)' = flash' \o later /\ WritesInOrder'
      BY <1>2, <1>4, <2>4, <2>6 DEF NoFin
    <3>2. (flash \o Unwritten \in Bodies)'
      BY <1>2, <1>4, <2>6, <3>1 DEF Bodies
    <3>3. AnswerOrder'
      BY <2>2, <3>1, <3>2 DEF AnswerOrder
    <3>4. FileOrder'
      <4>1. resolving = 0 /\ download = "none" /\ urc = "idle"
        BY <2>6, AtWorkAlone DEF FtpAtWork
      <4> QED
        BY <4>1 DEF FileOrder, ftpVars
    <3> QED
      BY <2>2, <3>1, <3>3, <3>4 DEF OrderInv
  <2> QED
    BY <2>5, <2>6
<1>5. CASE Written(pieces) /\ Downloaded
  BY <1>2, <1>5, DownloadedOrder
<1> QED
  BY <1>3, <1>4, <1>5 DEF PartReceived, pieces

LEMMA BodyOrder ==
    ASSUME TypeInv, TransferInv, OrderInv, http_RecvHttpBody, UNCHANGED <<ftpVars, leftover>>
    PROVE  OrderInv'
<1>1. /\ http.socketdata /\ http \in Contexts /\ main = "body" /\ InBody
      /\ arrived \in Seq(STRING) /\ coming \in Seq(STRING) /\ http.data \in Seq(STRING)
  BY DEF http_RecvHttpBody, TypeInv, ReadersHaveBuffers, DfotaTypeOK, HttpTypeOK,
         Contexts, InBody
<1>2. CASE BodyBehindHead
  <2>1. Downloaded /\ resolving' = resolving
    BY <1>2 DEF BodyBehindHead
  <2>2. ASSUME ~leftover, Written(http.data) PROVE WritesInOrder'
    <3>1. NoFin(http.data) /\ arrived \o coming \in Seq(STRING)
      BY <1>1, ConcatProperties DEF OrderInv, ContextInv
    <3> QED
      BY <1>1, <2>2, <3>1, WrittenOrder DEF Unwritten
  <2>3. flash' = flash \/ Written(http.data)
    BY <1>2 DEF BodyBehindHead
  <2> QED
    BY <1>1, <2>1, <2>2, <2>3, DownloadedOrder
<1>3. CASE BodyReceived
  <2>1. Len(http.data) < http.ContentLength /\ UNCHANGED <<resolving, coming>>
    BY <1>3 DEF BodyReceived
  <2>2. CASE ReadLater(http) /\ UNCHANGED <<flash, arrived>>
    <3>1. http.ContentLength # 0
      BY <1>1, <2>1, LenProperties
    <3> QED
      BY <2>1, <2>2, <3>1, LaterOrder
  <2>3. CASE Failed(http, 1) /\ UNCHANGED flash
    BY <2>1, <2>3, FailedOrder
  <2>4. ASSUME NEW n \in Receivable, Taken(n), PartReceived(Received(n))
        PROVE  OrderInv'
    BY <1>1, <2>1, <2>4, PartOrder
  <2> QED
    BY <1>3, <2>2, <2>3, <2>4 DEF BodyReceived
<1> QED
  BY <1>2, <1>3 DEF http_RecvHttpBody

\* A step of FTP that writes nothing.
LEMMA FtpQuietOrder ==
    ASSUME OrderInv, UNCHANGED <<httpVars, leftover, flash>>,
           main' = main \/ (main = "get" /\ main' = "idle"),
           ~leftover => FileOrder'
    PROVE  OrderInv'
<1> USE DEF httpVars
<1>1. ContextInv' /\ InBody' = InBody
  BY DEF OrderInv, ContextInv, NoFin, InBody
<1>2. WritesInOrder'
  BY DEF OrderInv, WritesInOrder
<1>3. ~leftover => AnswerOrder'
  BY <1>1 DEF OrderInv, AnswerOrder, Unwritten
<1> QED
  BY <1>1, <1>2, <1>3 DEF OrderInv

LEMMA WriteBlockOrder ==
    ASSUME TypeInv, TransferInv, OrderInv, WriteBlock, UNCHANGED <<httpVars, leftover>>
    PROVE  OrderInv'
<1> USE DEF WriteBlock
<1>1. CASE urc' = "clear" /\ UNCHANGED <<flash, unread>>
  <2>1. ~leftover => FileOrder'
    BY <1>1 DEF OrderInv, FileOrder, httpVars
  <2> QED
    BY <1>1, <2>1, FtpQuietOrder
<1>2. CASE Written(<<Head(unread)>>) /\ unread' = Tail(unread) /\ urc' = urc
  <2>1. ContextInv'
    BY DEF OrderInv, ContextInv, NoFin, httpVars
  <2>2. CASE leftover
    BY <2>1, <2>2 DEF OrderInv, WritesInOrder
  <2>3. CASE ~leftover
    <3>1. PICK file \in Files : file = flash \o unread
      BY <2>3 DEF OrderInv, FileOrder
    <3>2. flash \in Seq(STRING) /\ unread \in Seq(STRING) /\ unread # <<>>
      BY DEF TypeInv, DfotaTypeOK, FotaTypeOK, FtpTypeOK
    <3> DEFINE block == <<Head(unread)>>
               rest == Tail(unread)
               written == flash \o block
    <3>3. block \in Seq(STRING) /\ rest \in Seq(STRING)
      BY <3>2, HeadTailProperties
    <3>4. unread = block \o rest
      BY <3>2, HeadAndTail
    <3>5. flash' = written /\ unread' = rest
      BY <1>2 DEF Written
    <3> HIDE DEF block, rest
    <3>6. written \in Seq(STRING)
      BY <3>2, <3>3, ConcatProperties
    <3>7. file = written \o rest
      <4>1. Associates(flash, block, rest)
        BY <3>2, <3>3, Associative
      <4> QED
        BY <3>1, <3>4, <4>1 DEF Associates
    <3> HIDE DEF written
    <3>8. IsPrefix(written, file)
      BY <3>3, <3>6, <3>7, PrefixOfConcat
    <3>9. WritesInOrder'
      BY <3>5, <3>8 DEF WritesInOrder
    <3>10. ~http.socketdata /\ resolving = 0 /\ download = "none"
      <4>1. ~http.socketdata /\ ~HttpAtWork
        BY <2>3, FtpAlone
      <4> QED
        BY <2>3, <4>1 DEF HttpAtWork, TransferInv, OneTransfer, TypeInv, DfotaTypeOK, HttpTypeOK
    <3>11. FileOrder'
      <4>1. (\E f \in Files : f = flash \o unread)'
        BY <3>5, <3>7
      <4>2. resolving' = 0 /\ download' = "none" /\ urc' = "write"
        BY <1>2, <3>10 DEF httpVars
      <4>3. ~(resolving > 0 \/ download # "none" \/ urc = "open")'
        BY <4>2
      <4> QED
        BY <4>1, <4>3, Zenon DEF FileOrder
    <3>12. AnswerOrder'
      BY <3>10 DEF AnswerOrder, httpVars
    <3> QED
      BY <2>1, <3>9, <3>11, <3>12 DEF OrderInv
  <2> QED
    BY <2>2, <2>3
<1> QED
  BY <1>1, <1>2 DEF GiveUp

LEMMA FtpOrder ==
    ASSUME TypeInv, TransferInv, OrderInv, RIL_FTP_QFTPGET \/ DownloadEnds \/ Urc,
           UNCHANGED <<httpVars, leftover>>
    PROVE  OrderInv'
<1> USE DEF httpVars
<1>0. flash \in Seq(STRING)
  BY DEF TypeInv, DfotaTypeOK, FotaTypeOK
<1>1. CASE RIL_FTP_QFTPGET
  <2>1. ~leftover => FileOrder'
    BY <1>1 DEF RIL_FTP_QFTPGET, OrderInv, FileOrder
  <2> QED
    BY <1>1, <2>1, FtpQuietOrder DEF RIL_FTP_QFTPGET
<1>2. CASE DownloadEnds
  <2>1. ~leftover => FileOrder'
    BY <1>2 DEF DownloadEnds, fotaVars, OrderInv, FileOrder
  <2> QED
    BY <1>2, <2>1, FtpQuietOrder DEF DownloadEnds, fotaVars
<1>3. CASE OnURCHandler_FTP_Download
  <2>1. ~leftover => FileOrder'
    BY <1>3 DEF OnURCHandler_FTP_Download, OrderInv, FileOrder
  <2> QED
    BY <1>3, <2>1, FtpQuietOrder DEF OnURCHandler_FTP_Download
<1>4. CASE OpenFile
  <2>1. ASSUME ~leftover PROVE FileOrder'
    <3>1. flash = <<>> /\ flash' = <<>>
      BY <1>4, <2>1 DEF OpenFile, OrderInv, FileOrder
    <3>2. urc' = "write" => unread' \in Files
      BY <1>4 DEF OpenFile, GiveUp
    <3>3. urc' = "write" => \E file \in Files : file = flash' \o unread'
      <4> DEFINE read == unread'
      <4>1. urc' = "write" => read \in Files /\ read \in Seq(STRING)
        BY <3>2
      <4> HIDE DEF read
      <4>2. urc' = "write" => read = <<>> \o read
        BY <4>1, ConcatEmptySeq
      <4> QED
        BY <3>1, <4>1, <4>2 DEF read
    <3>4. (\E file \in Files : file = flash \o unread)' \/ urc' # "write"
      BY <3>3
    <3> QED
      BY <3>1, <3>4 DEF FileOrder
  <2> QED
    BY <1>4, <2>1, FtpQuietOrder DEF OpenFile
<1>5. CASE FinishFile
  <2>1. ~leftover => FileOrder'
    BY <1>5 DEF FinishFile, OrderInv, FileOrder
  <2> QED
    BY <1>5, <2>1, FtpQuietOrder DEF FinishFile
<1>6. CASE ForgetCallback
  <2>1. ~leftover => FileOrder'
    BY <1>6 DEF ForgetCallback, fotaVars, OrderInv, FileOrder
  <2> QED
    BY <1>6, <2>1, FtpQuietOrder DEF ForgetCallback, fotaVars
<1> QED
  BY <1>1, <1>2, <1>3, <1>4, <1>5, <1>6, WriteBlockOrder DEF Urc

LEMMA HttpStartOrder ==
    ASSUME TypeInv, OrderInv, NEW url \in Urls, main' = "idle", attempt < MaxAttempts,
           HTTP_DfotaMain(attempt + 1, url)
    PROVE  /\ ContextInv'
           /\ http'.socketdata /\ ~http.socketdata => ~InBody' /\ IsRest(Unwritten')
<1> DEFINE h == Initialized(attempt + 1)
<1>1. h \in Contexts
  BY InitializedType DEF TypeInv, DfotaTypeOK, FotaTypeOK
<1>2. ~h.socketdata /\ h.ContentLength = 0 /\ h.data = <<>> /\ NoFin(h.data)
  BY InitializedContext
<1>3. CASE http_GetImagefilefromServer(h, 0, {})
  <2> HIDE DEF h
  <2> QED
    BY <1>1, <1>2, <1>3, ConnectOrder
<1>4. CASE http' = h
  <2> HIDE DEF h
  <2> QED
    BY <1>2, <1>4 DEF ContextInv, NoFin
<1>5. CASE http' = http
  BY <1>5 DEF OrderInv, ContextInv, NoFin
<1> HIDE DEF h
<1> QED
  BY <1>3, <1>4, <1>5 DEF HTTP_DfotaMain, h

LEMMA StartOrder ==
    ASSUME TypeInv, OrderInv, NEW url \in Urls, Ql_DFOTA_StartUpgrade(url)
    PROVE  OrderInv'
<1>1. main = "idle" /\ attempt < MaxAttempts
  BY DEF Ql_DFOTA_StartUpgrade
<1>2. CASE UNCHANGED <<flash, main, httpVars, ftpVars, leftover>>
  <2>1. ContextInv' /\ InBody' = InBody
    BY <1>2 DEF OrderInv, ContextInv, NoFin, InBody, httpVars
  <2> QED
    BY <1>2, <2>1, SameOrder DEF httpVars, ftpVars
<1>3. ASSUME flash' = <<>>, leftover' = SomethingLeft, main' \in {"idle", "get"},
             \/ UNCHANGED httpVars /\ urc' = urc
             \/ HTTP_DfotaMain(attempt + 1, url) /\ UNCHANGED <<main, ftpVars>>
      PROVE  OrderInv'
  <2>1. /\ ContextInv'
        /\ http'.socketdata /\ ~http.socketdata => ~InBody' /\ IsRest(Unwritten')
    <3>1. CASE UNCHANGED httpVars
      BY <1>3, <3>1 DEF OrderInv, ContextInv, NoFin, httpVars
    <3>2. CASE HTTP_DfotaMain(attempt + 1, url) /\ main' = "idle"
      BY <1>1, <3>2, HttpStartOrder
    <3> QED
      BY <1>1, <1>3, <3>1, <3>2
  <2>2. CASE SomethingLeft
    BY <1>3, <2>1, <2>2 DEF OrderInv, WritesInOrder
  <2>3. CASE ~SomethingLeft
    <3>1. ~http.socketdata /\ urc' = "idle"
      BY <1>3, <2>3 DEF SomethingLeft, TypeInv, ReadersHaveBuffers, ftpVars
    <3>2. AnswerOrder'
      BY <1>3, <2>1, <3>1 DEF AnswerOrder
    <3> QED
      BY <1>3, <2>1, <3>1, <3>2 DEF OrderInv, WritesInOrder, FileOrder
  <2> QED
    BY <2>2, <2>3
<1>4. FTP_DfotaMain(url) => main' \in {main, "get"} /\ urc' = urc
  BY DEF FTP_DfotaMain
<1>5. UNCHANGED ftpVars => urc' = urc
  BY DEF ftpVars
<1> QED
  BY <1>1, <1>2, <1>3, <1>4, <1>5 DEF Ql_DFOTA_StartUpgrade

LEMMA InitOrder == Init => OrderInv
<1> SUFFICES ASSUME Init PROVE OrderInv
  OBVIOUS
<1>1. ContextInv
  BY InitializedContext DEF Init, FotaInit, HttpInit, ContextInv
<1>2. ~http.socketdata /\ flash = <<>> /\ urc = "idle"
  BY InitializedContext DEF Init, FotaInit, HttpInit, FtpInit
<1> QED
  BY <1>1, <1>2 DEF OrderInv, WritesInOrder, FileOrder, AnswerOrder

LEMMA NextOrder == TypeInv /\ TransferInv /\ OrderInv /\ [Next]_vars => OrderInv'
<1> SUFFICES ASSUME TypeInv, TransferInv, OrderInv, [Next]_vars PROVE OrderInv'
  OBVIOUS
<1>1. ASSUME NEW url \in Urls, Ql_DFOTA_StartUpgrade(url) PROVE OrderInv'
  BY <1>1, StartOrder
<1>2. CASE HttpMain /\ UNCHANGED <<ftpVars, leftover>>
  BY <1>2, LookupOrder, CallbackOrder, HeadOrder, BodyOrder DEF HttpMain
<1>3. CASE HttpNetwork /\ UNCHANGED <<ftpVars, leftover>>
  BY <1>3, ArriveOrder, CallbackOrder DEF HttpNetwork
<1>4. CASE (RIL_FTP_QFTPGET \/ DownloadEnds \/ Urc) /\ UNCHANGED <<httpVars, leftover>>
  BY <1>4, FtpOrder
<1>5. CASE UNCHANGED vars
  <2>1. ContextInv' /\ InBody' = InBody
    BY <1>5 DEF OrderInv, ContextInv, NoFin, InBody, vars, fotaVars, httpVars
  <2> QED
    BY <1>5, <2>1, SameOrder DEF vars, fotaVars, httpVars, ftpVars
<1> QED
  BY <1>1, <1>2, <1>3, <1>4, <1>5 DEF Next, MainTask, UrcTask, Module

\* What is in the pool is the beginning of one file, or of one body that the
\* server sent behind an empty line, in order and without a hole, whatever the
\* pieces it came in and the way it ended; unless an earlier attempt could
\* still write.
THEOREM PoolInOrder == Spec => []WritesInOrder
<1>1. Init => TypeInv /\ TransferInv /\ OrderInv
  BY InitTypes, InitTransfers, InitOrder
<1>2. TypeInv /\ TransferInv /\ OrderInv /\ [Next]_vars => (TypeInv /\ TransferInv /\ OrderInv)'
  BY NextTypes, NextTransfers, NextOrder
<1>3. OrderInv => WritesInOrder
  BY DEF OrderInv
<1> QED
  BY <1>1, <1>2, <1>3, PTL DEF Spec
===============================================================================
