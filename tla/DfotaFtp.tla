------------------------------ MODULE DfotaFtp ------------------------------
(* The upgrade over FTP (dfota_ftp.c, ril_ftp.c and the +QFTPGET entry of      *)
(* ril_urc.c).  The main task opens the connection and asks for the file with  *)
(* AT commands; the module downloads it by itself and says so in +QFTPGET,     *)
(* which the URC task handles: it closes the connection, then reads the file   *)
(* and writes it to the spare pool.                                            *)
EXTENDS Fota

CONSTANTS
    Files           \* what the file may hold once it is downloaded

ASSUME FtpAssumption == Files \subseteq Seq(STRING)

NoTransfer == 0

VARIABLES
    FtpGet_IND_CB,  \* the attempt that set the callback; NoTransfer: NULL
    download,       \* in the module: "none", "running", or its +QFTPGET to
                    \* come, "succeeded" or "failed"
    urc,            \* what the URC task is doing
    handled,        \* attempt whose +QFTPGET the URC task is handling
    unread,         \* blocks of the file that DoUpgrade has not read
    \* History:
    lost            \* attempts whose +QFTPGET found no callback

ftpVars == <<FtpGet_IND_CB, download, urc, handled, unread, lost>>

FtpTypeOK ==
    /\ FtpGet_IND_CB \in {NoTransfer} \cup Attempts
    /\ download \in {"none", "running", "succeeded", "failed"}
    /\ urc \in {"idle", "open", "write", "clear"}
    /\ handled \in {NoTransfer} \cup Attempts
    /\ unread \in Seq(STRING)
    /\ lost \subseteq Attempts

FtpInit ==
    /\ FtpGet_IND_CB = NoTransfer
    /\ download = "none"
    /\ urc = "idle"
    /\ handled = NoTransfer
    /\ unread = <<>>
    /\ lost = {}

-----------------------------------------------------------------------------
(* The main task.                                                              *)

\* FTP_DecodeURL on an FTP url.  One without a port and without "@" is taken
\* for one with a port: the length of the port's digits is 0 - 1, unsigned, and
\* that many bytes are copied.
FTP_DecodeURL(url) ==
    IF url.head # "ftp://" \/ url.parts = "long" THEN "fails"
    ELSE IF url.parts = "path" THEN "overruns"
    ELSE "decoded"

\* The rest of the call that starts an attempt with an FTP url: FTP_DfotaMain
\* and FTP_Program up to AT+QFTPGET.
FTP_DfotaMain(url) ==
    /\ UNCHANGED <<FtpGet_IND_CB, urc, handled, unread, leaked, lost>>
    /\ \/ /\ FTP_DecodeURL(url) = "fails"
          /\ Reports(0, {"refused"})
          /\ UNCHANGED <<main, module, download>>
       \/ /\ FTP_DecodeURL(url) = "overruns"
          /\ module' = "crashed"
          /\ Reports(0, {})
          /\ UNCHANGED <<main, download>>
       \/ \* RIL_FTP_QFTPOPEN has failed FTP_CONNECT_ATTEMPTS times
          /\ FTP_DecodeURL(url) = "decoded"
          /\ Reports(0, {"message"})
          /\ UNCHANGED <<main, module, download>>
       \/ /\ FTP_DecodeURL(url) = "decoded"
          /\ main' = "get"
          /\ download' = "running"
          /\ Reports(0, {})
          /\ UNCHANGED module

\* mutant: the application is not informed
RIL_FTP_QFTPGETQuiet ==
    /\ module = "running" /\ main = "get"
    /\ main' = "idle"
    /\ \/ /\ FtpGet_IND_CB' = attempt
          /\ UNCHANGED download
       \/ /\ UNCHANGED download \/ (download = "running" /\ download' = "none")
          /\ UNCHANGED FtpGet_IND_CB
    /\ Silence
    /\ UNCHANGED <<flash, marked, module, answer, heap, attempt, urc, handled,
                   unread, leaked, lost>>

\* The end of RIL_FTP_QFTPGET and of FTP_Program.  The callback is set when the command has been
\* answered; +QFTPGET may have been handled by then.
RIL_FTP_QFTPGET ==
    /\ module = "running" /\ main = "get"
    /\ main' = "idle"
    /\ \/ /\ FtpGet_IND_CB' = attempt
          /\ Silence
          /\ UNCHANGED download
       \/ \* ERROR, or no answer in time to a command that the module may have
          \* executed: the application is informed and the connection closed,
          \* which ends a download that still runs, or fails too
          /\ UNCHANGED download \/ (download = "running" /\ download' = "none")
          /\ Tell("message")
          /\ UNCHANGED FtpGet_IND_CB
    /\ UNCHANGED <<flash, marked, module, answer, heap, attempt, urc, handled,
                   unread, leaked, lost>>

-----------------------------------------------------------------------------
(* The module, and the URC task.                                               *)

\* The module's download ends, once the command has reached it.
DownloadEnds ==
    /\ module = "running"
    /\ download = "running"
    /\ download' \in {"succeeded", "failed"}
    /\ UNCHANGED <<fotaVars, FtpGet_IND_CB, urc, handled, unread, lost>>

\* OnURCHandler_FTP_Download, and FTP_Callback_OnDownload up to DoUpgrade.  The
\* transfer is that of the last attempt; without a callback nothing is done.
OnURCHandler_FTP_Download ==
    /\ module = "running" /\ urc = "idle"
    /\ download \in {"succeeded", "failed"}
    /\ download' = "none"
    /\ handled' = IF FtpGet_IND_CB = NoTransfer THEN NoTransfer ELSE attempt
    /\ \/ /\ FtpGet_IND_CB = NoTransfer
          /\ lost' = lost \cup {attempt}
          /\ Silence
          /\ UNCHANGED urc
       \/ /\ FtpGet_IND_CB # NoTransfer /\ download = "succeeded"
          /\ urc' = "open"
          /\ Silence
          /\ UNCHANGED lost
       \/ /\ FtpGet_IND_CB # NoTransfer /\ download = "failed"
          /\ Reports(failures + 1, told \cup {"message"})
          /\ urc' = "clear"
          /\ UNCHANGED lost
    /\ UNCHANGED <<flash, marked, module, answer, main, heap, attempt,
                   FtpGet_IND_CB, unread, leaked>>

\* DoUpgrade gives up: the failure is reported, the buffer not freed.
GiveUp(buffers) ==
    /\ ReportFailure(1)
    /\ leaked' = leaked + buffers
    /\ urc' = "clear"

\* DoUpgrade up to its loop: the file is checked and opened, a buffer allocated.
OpenFile ==
    /\ module = "running" /\ urc = "open"
    /\ \/ /\ GiveUp(0)
          /\ UNCHANGED <<heap, unread>>
       \/ /\ unread' \in Files
          /\ heap' = heap + 1
          /\ urc' = "write"
          /\ Silence
          /\ UNCHANGED leaked
    /\ UNCHANGED <<flash, marked, module, answer, main, attempt, FtpGet_IND_CB,
                   download, handled, lost>>

\* mutant: a failed write is tried again although part of it may be written
WriteBlockAgain ==
    /\ module = "running" /\ urc = "write" /\ unread # <<>>
    /\ Written(<<Head(unread)>>)
    /\ unread' \in {unread, Tail(unread)}
    /\ Len(flash) < 4
    /\ Silence
    /\ UNCHANGED <<marked, module, answer, main, heap, attempt, FtpGet_IND_CB,
                   download, urc, handled, leaked, lost>>

\* One turn of DoUpgrade's loop: a block is read and written.
WriteBlock ==
    /\ module = "running" /\ urc = "write" /\ unread # <<>>
    /\ \/ /\ GiveUp(1)
          /\ UNCHANGED <<flash, unread>>
       \/ /\ Written(<<Head(unread)>>)
          /\ unread' = Tail(unread)
          /\ Silence
          /\ UNCHANGED <<leaked, urc>>
    /\ UNCHANGED <<marked, module, answer, main, heap, attempt, FtpGet_IND_CB,
                   download, handled, lost>>

\* The end of DoUpgrade, with the callback's answer to UP_SYSTEM_REBOOT.
FinishFile ==
    /\ module = "running" /\ urc = "write" /\ unread = <<>>
    /\ heap' = heap - 1
    /\ urc' = "clear"
    /\ UNCHANGED flash
    /\ IF FinishSucceeds
       THEN Upgraded(answer = "yes")
       ELSE ReportFailure(1) /\ UNCHANGED <<marked, module>>
    /\ UNCHANGED <<answer, main, attempt, FtpGet_IND_CB, download, handled,
                   unread, leaked, lost>>

\* The callback has returned: OnURCHandler_FTP_Download forgets it, or the one
\* that has been set meanwhile.
ForgetCallback ==
    /\ module = "running" /\ urc = "clear"
    /\ FtpGet_IND_CB' = NoTransfer
    /\ lost' = IF FtpGet_IND_CB \in {NoTransfer, handled} THEN lost
               ELSE lost \cup {FtpGet_IND_CB}
    /\ urc' = "idle"
    /\ handled' = NoTransfer
    /\ UNCHANGED <<fotaVars, download, unread>>

Urc ==
    \/ OnURCHandler_FTP_Download
    \/ OpenFile
    \/ WriteBlock
    \/ FinishFile
    \/ ForgetCallback
=============================================================================
