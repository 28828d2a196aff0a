----------------------------- MODULE DfotaHttp -----------------------------
(* The upgrade over HTTP (dfota_http.c, dfota_http_code.c).  Everything here   *)
(* runs in the main task: HTTP_DfotaMain until the request is sent, then the   *)
(* socket, name and timer callbacks, one at a time.  A read callback loops     *)
(* until the socket would block; data may arrive between two turns of it.      *)
(* Socket n is the one attempt n creates.  Pieces of an answer: header lines,  *)
(* "bit" (part of a line), blocks, and "fin" where the server closes.          *)
EXTENDS Fota, Integers, FiniteSetsExt

CONSTANTS
    Answers,        \* sequences of pieces the server may send
    BufferSize      \* pieces that fit in QUECTEL_HTTP_DATABUFFER_SIZE

ASSUME HttpAssumption == Answers \subseteq Seq(STRING) /\ BufferSize \in Nat \ {0}

VARIABLES
    http,           \* httpMainContext, without its httpheader
    httpheader,     \* httpMainContext.httpheader
    timer,          \* timer HTTP_GETREADTIMERID is running
    resolving,      \* lookups whose Callback_GetIpByHostName is to come
    sockets,        \* sockets connected, not closed and working
    coming,         \* pieces the server is still to send on the context's socket
    arrived,        \* pieces received on it and not read
    signal          \* sockets with a read event to deliver

httpVars == <<http, httpheader, timer, resolving, sockets, coming, arrived, signal>>
link == <<resolving, sockets, coming, arrived, signal>>

Unknown == -1       \* ContentLength 0xFFFFFFFF
NoSocket == 0       \* socketid -1

StatusLines == {"100", "200", "302", "404"}     \* "100" with its empty line
\* What Content-Length lines say; any other line is skipped.
Announces == [empty |-> 0, short |-> Len(Image) - 1, whole |-> Len(Image)]

HttpTypeOK ==
    /\ http \in [socketid : 0..MaxAttempts, socketdata : BOOLEAN, data : Seq(STRING),
                 ContentLength : Int, receivedbodydata : Nat,
                 httpGettimerstate : BOOLEAN]
    /\ httpheader \in [ContentLength : Int, Exist : BOOLEAN,
                       httpresponse : StatusLines]
    /\ timer \in BOOLEAN /\ resolving \in Nat
    /\ sockets \subseteq Attempts /\ signal \subseteq Attempts
    /\ coming \in Seq(STRING) /\ arrived \in Seq(STRING)

\* http_initialize leaves httpheader as it is and forgets a buffer that is
\* still allocated.  bpeersocketclose, which is set only where the buffer is
\* freed and read only while there is one, is left out.
Initialized(s) ==
    [socketid |-> s, socketdata |-> FALSE, data |-> <<>>, ContentLength |-> 0,
     receivedbodydata |-> 0, httpGettimerstate |-> FALSE]

\* Without its buffer, what is left of the context h is its socket: the other
\* fields are not read again before http_initialize.
Freed(h) == Initialized(h.socketid)

HttpInit ==
    /\ http = Initialized(NoSocket)
    /\ httpheader = [ContentLength |-> 0, Exist |-> FALSE, httpresponse |-> "404"]
    /\ timer = FALSE /\ resolving = 0
    /\ sockets = {} /\ signal = {}
    /\ coming = <<>> /\ arrived = <<>>

-----------------------------------------------------------------------------
(* Connecting and asking.                                                      *)

\* A socket can be connected once.
Connectable(s) == s # NoSocket /\ s \notin sockets

\* With the context h, once the address is known; f and e were reported before.
http_GetImagefilefromServer(h, f, e) ==
    \/ \* Ql_SOC_ConnectEx fails: the socket is not closed, nor used again
       /\ http' = h
       /\ Reports(f + 1, e)
       /\ UNCHANGED <<timer, heap, sockets, coming, arrived>>
    \/ \* http_SendHttpGetHead fails: a line not sent, or no memory
       /\ Connectable(h.socketid)
       /\ http' = Initialized(NoSocket)
       /\ Reports(f + 1, e)
       /\ UNCHANGED <<timer, heap, sockets, coming, arrived>>
    \/ \* the request is sent
       /\ Connectable(h.socketid)
       /\ http' = [h EXCEPT !.socketdata = TRUE,
                            !.httpGettimerstate = TRUE]
       /\ sockets' = sockets \cup {h.socketid}
       /\ coming' \in Answers /\ arrived' = <<>>
       /\ heap' = heap + 1
       /\ timer' = TRUE
       /\ Reports(f, e)

\* What the url's host is, in hostip or hostname; both are empty when it cannot
\* be decoded.
http_DecodeURL(url) ==
    IF url.head = "http://" /\ url.parts # "long" THEN url.host ELSE "none"

\* The rest of the call that starts attempt a with an HTTP url.  A socket is
\* always created (socketid is a u8: the test for a negative one never holds).
HTTP_DfotaMain(a, url) ==
    LET h == Initialized(a)
        forgotten == IF http.socketdata THEN 1 ELSE 0
    IN
    /\ UNCHANGED <<httpheader, signal>>
    /\ \/ \* the PDP context is not activated
          /\ Reports(1, {"refused"})
          /\ UNCHANGED <<http, timer, resolving, sockets, coming, arrived, heap, leaked>>
       \/ /\ leaked' = leaked + forgotten
          /\ \/ \* the address is none
                /\ http_DecodeURL(url) = "address"
                /\ http' = h
                /\ Reports(1, {"refused"})
                /\ UNCHANGED <<timer, resolving, sockets, coming, arrived, heap>>
             \/ /\ http_DecodeURL(url) = "address"
                /\ http_GetImagefilefromServer(h, 0, {})
                /\ UNCHANGED resolving
             \/ \* the lookup starts
                /\ http_DecodeURL(url) = "name"
                /\ http' = h /\ resolving' = resolving + 1
                /\ Reports(0, {})
                /\ UNCHANGED <<timer, sockets, coming, arrived, heap>>
             \/ \* it does not start, nor for an empty name (UP_URLDECODEFAIL has
                \* been reported, but the call goes on)
                /\ http_DecodeURL(url) # "address"
                /\ http' = h
                /\ Reports(1, {})
                /\ UNCHANGED <<timer, resolving, sockets, coming, arrived, heap>>

Callback_GetIpByHostName ==
    /\ module = "running" /\ main = "idle" /\ resolving > 0
    /\ resolving' = resolving - 1
    /\ \/ http_GetImagefilefromServer(http, failures, told)
       \/ /\ ReportFailure(1)
          /\ UNCHANGED <<http, sockets, timer, heap, coming, arrived>>
    /\ UNCHANGED <<flash, marked, module, answer, main, attempt, leaked, httpheader,
                   signal>>

http_TimerCallback ==
    /\ module = "running" /\ main = "idle" /\ timer
    /\ timer' = FALSE
    /\ ReportFailure(1)
    /\ http' = Freed(http)
    /\ heap' = IF http.socketdata THEN heap - 1 ELSE heap
    /\ UNCHANGED <<flash, marked, module, answer, main, attempt, leaked, httpheader, link>>

-----------------------------------------------------------------------------
(* The read callback and its loops.                                            *)

\* mutant: the buffer is kept, and with it the context
FailedKeeping(h, times) ==
    /\ http' = h
    /\ ReportFailure(times)
    /\ main' = "idle"
    /\ UNCHANGED heap

\* mutant: the context is cleared but the buffer not freed
FailedForgetting(h, times) ==
    /\ http' = Freed(h)
    /\ ReportFailure(times)
    /\ main' = "idle"
    /\ UNCHANGED heap

\* mutant: the buffer is freed whether there is one or not
FailedFreeing(h, times) ==
    /\ http' = Freed(h)
    /\ heap' = heap - 1
    /\ ReportFailure(times)
    /\ main' = "idle"

\* The buffer freed and the failure reported, `times' in all (a function that
\* returns an error has often reported it already), and the callback returns.
\* What the buffer held is not read again.
Failed(h, times) ==
    /\ http' = Freed(h)
    /\ heap' = IF http.socketdata THEN heap - 1 ELSE heap
    /\ ReportFailure(times)
    /\ main' = "idle"

\* Httpcallback_socket_read with an error code: the socket has broken.
ReadError(s) ==
    /\ module = "running" /\ main = "idle"
    /\ s \in sockets
    /\ sockets' = sockets \ {s} /\ signal' = signal \ {s}
    /\ Failed(http, 1)
    /\ UNCHANGED <<flash, marked, module, answer, attempt, leaked, httpheader, timer,
                   resolving, coming, arrived>>

\* Httpcallback_socket_read with SOC_SUCCESS: whichever socket s has data, the
\* one of the context is read.  ContentLength is not Unknown while there is a
\* buffer: the chunked branch is never entered from here.
ReadSuccess(s) ==
    /\ module = "running" /\ main = "idle"
    /\ s \in signal
    /\ signal' = signal \ {s}
    /\ IF ~http.socketdata
       THEN UNCHANGED <<http, timer, main>>
       ELSE /\ http' = [http EXCEPT !.httpGettimerstate = FALSE]
            /\ timer' = (timer /\ ~http.httpGettimerstate)
            /\ main' = IF http.ContentLength = 0 THEN "head" ELSE "body"
    /\ Silence
    /\ UNCHANGED <<flash, marked, module, answer, heap, attempt, leaked, httpheader,
                   resolving, sockets, coming, arrived>>

\* Ql_SOC_Recv on the socket of the context.
Readable == http.socketid \in sockets
WouldBlock == Readable /\ arrived = <<>>
Closed == Readable => arrived # <<>> /\ Head(arrived) = "fin"

\* How many pieces can be received: never more than there is room for, nor
\* beyond the close.
Receivable ==
    LET fin == SelectInSeq(arrived, LAMBDA p : p = "fin")
        room == BufferSize - Len(http.data)
    IN 1 .. Min({room, IF fin = 0 THEN Len(arrived) ELSE fin - 1})

Received(n) == http.data \o SubSeq(arrived, 1, n)

Taken(n) ==
    arrived' = SubSeq(arrived, n + 1, Len(arrived))

\* The end of a read that would block: httpGettimerstate stays FALSE although
\* the timer is started, so that the next read does not stop it.
ReadLater(h) ==
    /\ timer' = (timer \/ ~http.httpGettimerstate)
    /\ http' = h
    /\ main' = "idle"
    /\ Silence
    /\ UNCHANGED heap

\* What DecodeHttpLine leaves in the header h, called with each of the lines: the
\* last status, and the length that the last line about it announces.
DecodeHttpLines(h, lines) ==
    LET status == SelectLastInSeq(lines, LAMBDA line : line \in StatusLines)
        length == SelectLastInSeq(lines, LAMBDA line :
                                      line \in DOMAIN Announces \cup {"chunked"})
        chunked == lines[length] = "chunked"
    IN [httpresponse  |-> IF status = 0 THEN h.httpresponse ELSE lines[status],
        Exist         |-> IF length = 0 THEN h.Exist ELSE ~chunked,
        ContentLength |-> IF length = 0 THEN h.ContentLength
                          ELSE IF chunked THEN Unknown ELSE Announces[lines[length]]]

\* How many of the pieces http_DecodeHeader consumes: whole lines, up to the
\* empty one.
Decoded(pieces) ==
    LET end == SelectInSeq(pieces, LAMBDA p : p = "end")
    IN IF end > 0 THEN end ELSE SelectLastInSeq(pieces, LAMBDA p : p # "bit")

\* After the empty line, with header d and the pieces `rest' behind it.
HeadEnds(d, rest) ==
    LET h == [http EXCEPT !.data = rest,
                          !.ContentLength = IF d.Exist THEN d.ContentLength ELSE Unknown]
    IN  \/ d.httpresponse # "200" /\ Failed([http EXCEPT !.data = rest], 1)
        \/ d.httpresponse = "200" /\ ~d.Exist /\ Failed(h, 2)  \* chunked: reports
        \/ d.httpresponse = "200" /\ d.Exist
              /\ http' = h /\ main' = "body" /\ Silence /\ UNCHANGED heap

\* Whole lines are decoded and dropped from the buffer, which held `pieces'.
HeadReceived(pieces) ==
    \E k \in 0..Len(pieces) :
        /\ k = Decoded(pieces)
        /\ httpheader' = DecodeHttpLines(httpheader, SubSeq(pieces, 1, k))
        /\ IF Contains(SubSeq(pieces, 1, k), "end")
           THEN HeadEnds(httpheader', SubSeq(pieces, k + 1, Len(pieces)))
           ELSE /\ http' = [http EXCEPT !.data = SubSeq(pieces, k + 1, Len(pieces))]
                /\ Silence /\ UNCHANGED <<main, heap>>

\* One turn of http_RecvHttpHead.
http_RecvHttpHead ==
    /\ module = "running" /\ main = "head"
    /\ UNCHANGED <<flash, marked, module, answer, attempt, leaked, resolving, sockets,
                   coming, signal>>
    /\ \/ \* the buffer holds part of one line
          /\ Len(http.data) = BufferSize
          /\ Failed(http, 1)
          /\ UNCHANGED <<httpheader, timer, arrived>>
       \/ /\ Len(http.data) < BufferSize /\ WouldBlock
          /\ ReadLater(http)
          /\ UNCHANGED <<httpheader, arrived>>
       \/ /\ Len(http.data) < BufferSize /\ Closed
          /\ Failed(http, 1)
          /\ UNCHANGED <<httpheader, timer, arrived>>
       \/ /\ Len(http.data) < BufferSize /\ ~WouldBlock /\ ~Closed
          /\ \E n \in Receivable : Taken(n) /\ HeadReceived(Received(n))
          /\ UNCHANGED timer

\* mutant: the socket is left open
DownloadedOpen ==
    /\ http' = Freed(http)
    /\ UNCHANGED <<sockets, signal>>
    /\ heap' = heap - 1
    /\ main' = "idle"

\* Both ways to the end of the body close the socket and free the buffer.
Downloaded ==
    /\ http' = Initialized(NoSocket)
    /\ sockets' = sockets \ {http.socketid} /\ signal' = signal \ {http.socketid}
    /\ heap' = heap - 1
    /\ main' = "idle"

\* mutant: the result of Ql_DFOTA_Finish is not looked at
BodyBehindHeadUnchecked ==
    /\ Len(http.data) >= http.ContentLength
    /\ Downloaded
    /\ Written(http.data)
    /\ Upgraded(TRUE)
    /\ UNCHANGED <<answer, attempt, leaked, httpheader, timer, resolving, coming, arrived>>

\* The whole body came behind the head: it is written, and whatever the
\* callback says Ql_DFOTA_Update is called at once.
BodyBehindHead ==
    /\ Len(http.data) >= http.ContentLength
    /\ Downloaded
    /\ \/ ReportFailure(1) /\ UNCHANGED <<flash, marked, module>>
       \/ /\ Written(http.data)
          /\ IF FinishSucceeds
             THEN Upgraded(TRUE)
             ELSE ReportFailure(2) /\ UNCHANGED <<marked, module>>
    /\ UNCHANGED <<answer, attempt, leaked, httpheader, timer, resolving, coming, arrived>>

\* The next part of the body is in the buffer.  The callback's answer to the last
\* report, of 100 per cent, decides on Ql_DFOTA_Update.
PartReceived(pieces) ==
    LET size == http.receivedbodydata + Len(pieces) IN
    \/ \* Ql_DFOTA_WriteData fails
       /\ Failed(http, 2)
       /\ UNCHANGED <<flash, marked, module, sockets, signal>>
    \/ /\ Written(pieces)
       /\ size < http.ContentLength
       /\ http' = [http EXCEPT !.receivedbodydata = size, !.data = <<>>]
       /\ Silence
       /\ UNCHANGED <<marked, module, main, heap, sockets, signal>>
    \/ /\ Written(pieces)
       /\ size >= http.ContentLength
       /\ Downloaded
       /\ IF FinishSucceeds
          THEN Upgraded(answer = "yes")
          ELSE ReportFailure(2) /\ UNCHANGED <<marked, module>>

\* The body is received and written part after part.
BodyReceived ==
    /\ Len(http.data) < http.ContentLength
    /\ UNCHANGED <<answer, attempt, leaked, httpheader, resolving, coming>>
    /\ \/ /\ WouldBlock
          /\ ReadLater(http)
          /\ UNCHANGED <<flash, marked, module, sockets, signal, arrived>>
       \/ /\ Closed
          /\ Failed(http, 1)
          /\ UNCHANGED <<flash, marked, module, timer, sockets, signal, arrived>>
       \/ /\ ~WouldBlock /\ ~Closed
          /\ \E n \in Receivable : Taken(n) /\ PartReceived(Received(n))
          /\ UNCHANGED timer

\* One turn of http_RecvHttpBody.
http_RecvHttpBody ==
    /\ module = "running" /\ main = "body"
    /\ BodyBehindHead \/ BodyReceived

-----------------------------------------------------------------------------
\* The network: the server's next piece reaches the socket of the context.
Arrive ==
    /\ module = "running"
    /\ http.socketid \in sockets /\ coming # <<>>
    /\ coming' = Tail(coming)
    /\ arrived' = Append(arrived, Head(coming))
    /\ signal' = signal \cup {http.socketid}
    /\ UNCHANGED <<fotaVars, http, httpheader, timer, resolving, sockets>>

\* Something reaches a socket of an earlier attempt, which is never read: one
\* event stands for all of them.
ArriveLate(s) ==
    /\ module = "running"
    /\ s \in sockets \ {http.socketid}
    /\ sockets' = sockets \ {s}
    /\ signal' = signal \cup {s}
    /\ UNCHANGED <<fotaVars, http, httpheader, timer, resolving, coming, arrived>>

HttpMain ==
    \/ Callback_GetIpByHostName
    \/ http_TimerCallback
    \/ http_RecvHttpHead
    \/ http_RecvHttpBody
    \/ \E s \in Attempts : ReadSuccess(s)

HttpNetwork == Arrive \/ \E s \in Attempts : ArriveLate(s) \/ ReadError(s)
=============================================================================
