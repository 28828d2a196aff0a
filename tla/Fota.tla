-------------------------------- MODULE Fota --------------------------------
(* What the firmware upgrade by HTTP and the one by FTP share: the spare       *)
(* image pool behind Ql_DFOTA_*, the reports to the application (the macro     *)
(* FOTA_UPGRADE_IND, dfota_main.h:82) and the attempts the application makes.  *)
EXTENDS Naturals, Sequences, SequencesExt

CONSTANTS
    Image,          \* the upgrade package, block by block
    MaxAttempts     \* bound: calls of Ql_DFOTA_StartUpgrade

ASSUME FotaAssumption == Image \in Seq(STRING) /\ MaxAttempts \in Nat \ {0}

VARIABLES
    flash,          \* blocks written to the spare pool since Ql_DFOTA_Init
    marked,         \* Ql_DFOTA_Finish has marked the pool UPDATE_NEEDED
    module,         \* "running"; "updating": Ql_DFOTA_Update called;
                    \* "crashed": the code has run into undefined behaviour
    answer,         \* Fota_UpgardeState: "none" (NULL) or what it returns
    main,           \* what the main task is doing; "idle" in its message loop
    heap,           \* buffers allocated and not freed
    \* History:
    attempt,        \* calls of Ql_DFOTA_StartUpgrade so far
    failures,       \* times UP_UPGRADFAILED was reported since the last one
    leaked,         \* buffers allocated that nothing will free
    told            \* other ways the application has learnt that it is over

fotaVars == <<flash, marked, module, answer, main, heap, attempt, failures,
              leaked, told>>

Attempts == 1..MaxAttempts

Endings ==
    {"initFail",    \* UP_FOTAINITFAIL, or -1 when there is no callback yet
     "refused",     \* the call returned -1
     "message",     \* MSG_ID_FTP_RESULT_IND or MSG_ID_RESET_MODULE_REQ
     "complete"}    \* 100 per cent, or UP_SYSTEM_REBOOT

FotaTypeOK ==
    /\ flash \in Seq(STRING)
    /\ marked \in BOOLEAN
    /\ module \in {"running", "updating", "crashed"}
    /\ answer \in {"none", "yes", "no"}
    /\ main \in {"idle", "get", "head", "body"}
    /\ heap \in Nat
    /\ attempt \in 0..MaxAttempts
    /\ failures \in Nat
    /\ leaked \in Nat
    /\ told \subseteq Endings

FotaInit ==
    /\ flash = <<>>
    /\ marked = FALSE
    /\ module = "running"
    /\ answer = "none"
    /\ main = "idle"
    /\ heap = 0
    /\ attempt = 0
    /\ failures = 0
    /\ leaked = 0
    /\ told = {}

-----------------------------------------------------------------------------
(* Reports.  FOTA_UPGRADE_IND names no attempt: the application takes it for   *)
(* the one it started last.                                                    *)

\* `times' failures and `endings' reported in the attempt, in all.
Reports(times, endings) == failures' = times /\ told' = endings

Silence == Reports(failures, told)
ReportFailure(times) == Reports(failures + times, told)
Tell(ending) == Reports(failures, told \cup {ending})

Over == failures > 0 \/ told # {}

-----------------------------------------------------------------------------
(* Ql_DFOTA_WriteData appends to the pool or fails; Ql_DFOTA_Finish compares   *)
(* the checksum, here the blocks themselves, and marks the pool.               *)

Written(blocks) == flash' = flash \o blocks

FinishSucceeds == flash' = Image

\* After a successful Ql_DFOTA_Finish: Ql_DFOTA_Update now, or the callback
\* has said no and the application is to call it before it reboots.
Upgraded(now) ==
    /\ marked' = TRUE
    /\ module' = IF now THEN "updating" ELSE module
    /\ Tell("complete")
=============================================================================
