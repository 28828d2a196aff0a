------------------------------- MODULE Dfota -------------------------------
(* Firmware upgrade (custom/dfota): Ql_DFOTA_StartUpgrade over HTTP or FTP,    *)
(* attempt after attempt.  The application starts an attempt from its message  *)
(* loop, and again only when it has learnt that the last one is over.          *)
EXTENDS DfotaHttp, DfotaFtp

CONSTANTS
    Urls            \* records [head, host, parts]

ASSUME UrlsAssumption ==
    Urls \subseteq [head : {"ftp://", "http://", "https://", "other"},
                    host : {"address", "name"},
                    parts : {"full", "path", "long"}]

VARIABLES
    leftover        \* history: something of an earlier attempt could still act
                    \* when the last one began

vars == <<fotaVars, httpVars, ftpVars, leftover>>

Init == FotaInit /\ HttpInit /\ FtpInit /\ leftover = FALSE

\* The timer, a lookup not answered, a socket still open, a transfer not over.
SomethingLeft ==
    \/ timer \/ resolving > 0 \/ sockets # {}
    \/ download # "none" \/ FtpGet_IND_CB # NoTransfer \/ urc # "idle"

\* Ql_DFOTA_StartUpgrade(url): the callback is the application's or the default
\* one, which says yes.
Ql_DFOTA_StartUpgrade(url) ==
    /\ module = "running" /\ main = "idle"
    /\ attempt < MaxAttempts /\ (attempt > 0 => Over)
    /\ attempt' = attempt + 1
    /\ \/ \* Ql_DFOTA_Init fails
          /\ Reports(0, {"initFail"})
          /\ UNCHANGED <<flash, marked, module, answer, main, heap, leaked,
                         httpVars, ftpVars, leftover>>
       \/ /\ flash' = <<>> /\ marked' = FALSE
          /\ answer' \in {"yes", "no"}
          /\ leftover' = SomethingLeft
          /\ \/ /\ url.head = "ftp://"
                /\ FTP_DfotaMain(url)
                /\ UNCHANGED <<heap, leaked, httpVars>>
             \/ /\ url.head \in {"http://", "https://"}
                /\ HTTP_DfotaMain(attempt + 1, url)
                /\ UNCHANGED <<module, main, ftpVars>>
             \/ /\ url.head = "other"
                /\ Reports(0, {"refused"})
                /\ UNCHANGED <<module, main, heap, leaked, httpVars, ftpVars>>

MainTask == (HttpMain /\ UNCHANGED ftpVars) \/ (RIL_FTP_QFTPGET /\ UNCHANGED httpVars)
UrcTask == Urc /\ UNCHANGED httpVars
Module == DownloadEnds /\ UNCHANGED httpVars

Next ==
    \/ \E url \in Urls : Ql_DFOTA_StartUpgrade(url)
    \/ (MainTask \/ UrcTask \/ Module) /\ UNCHANGED leftover
    \/ HttpNetwork /\ UNCHANGED <<ftpVars, leftover>>

\* Both tasks run: timers expire, a lookup has an answer, events and URCs are
\* delivered; the module reports the end of a download.  Nothing makes the
\* server send, nor the application start again.
Fairness ==
    /\ WF_vars(MainTask /\ UNCHANGED leftover)
    /\ WF_vars(UrcTask /\ UNCHANGED leftover)
    /\ WF_vars(Module /\ UNCHANGED leftover)

Spec == Init /\ [][Next]_vars /\ Fairness

-----------------------------------------------------------------------------
DfotaTypeOK ==
    /\ FotaTypeOK /\ HttpTypeOK /\ FtpTypeOK
    /\ leftover \in BOOLEAN

\* What follows an empty line in an answer.
Bodies ==
    UNION {{SubSeq(reply, i + 1, Len(reply)) :
              i \in {j \in DOMAIN reply : reply[j] = "end"}} : reply \in Answers}

\* The module is made to update only with the whole package in the pool; a pool
\* marked for the next start holds it too, unless an earlier attempt may still
\* have been writing.
UpdatesFromTheImage ==
    /\ module = "updating" => flash = Image
    /\ marked => flash = Image \/ leftover

\* What is in the pool is the beginning of one file, or of one body before the
\* server closes, as it was served: no block twice, none left out, none of an
\* earlier attempt, unless that one was left writing.
WritesInOrder ==
    \/ leftover \/ flash = <<>>
    \/ \E file \in Files : IsPrefix(flash, file)
    \/ ~Contains(flash, "fin") /\ \E body \in Bodies : IsPrefix(flash, body)

\* Every buffer in use is one that somebody will free: the one of the download,
\* the one of DoUpgrade while it writes.  The others are those that DoUpgrade left
\* at a failed read or write, or that a new attempt's context no longer knows.
BuffersAccountedFor ==
    heap = leaked + (IF http.socketdata THEN 1 ELSE 0)
                  + (IF urc = "write" THEN 1 ELSE 0)

\* After UP_UPGRADFAILED an attempt writes no more and does not complete, unless
\* an earlier attempt had left something that could still act: then the failure
\* may have been of that one.
StopsAfterFailure ==
    [][attempt' = attempt /\ attempt > 0 /\ failures > 0
            /\ ~leftover
       => UNCHANGED <<flash, marked, module>>]_vars

\* An attempt that is complete is reported failed afterwards only by the timer,
\* which a read that would block has left running, or by what an earlier attempt
\* had left.
FailsLateByTimer ==
    [][attempt' = attempt /\ marked /\ failures' # failures
       => (timer /\ ~timer') \/ leftover]_vars

\* Every attempt ends: the application learns that it failed, or the pool is
\* complete.  Two ends are lost: a +QFTPGET that finds no callback (not yet
\* set, or cleared for the transfer before), and the url that crashes.
AttemptsEnd ==
    \A a \in Attempts :
        attempt = a ~> attempt > a \/ Over \/ a \in lost \/ module = "crashed"
=============================================================================
