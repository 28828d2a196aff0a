# A TLA+ model of the SmartOutlet firmware

SmartOutlet is the firmware of a remotely switched outlet: one program,
`src/main.c`, that runs on a Quectel M65 GSM module under its OpenCPU SDK.  It
takes commands by SMS, over MQTT and from a serial port, switches six outputs,
for a time if asked to, and keeps the telephone numbers it obeys in a file.

This directory holds TLA+ modules of its parts, the TLC configurations that
check them on small instances, and proofs, checked by TLAPS, of what holds for
all instances.  Line numbers below are those of `src/main.c` unless another
file is named; `PROJECT.json` maps every definition to its lines.

    tlc -config MCOutputs.cfg MCOutputs.tla       # a run
    tlapm Outputs_proofs.tla                      # the proofs of a module

## 1. Inventory

### How the program runs

The SDK starts three tasks (`src/M65 SDK/custom/config/custom_task_cfg.h:53-55`):
the **main task** `proc_main_task`, a RIL task and the **URC task**.  The main
task initialises (1083-1139) and then takes messages for ever (1142 on).  The
SDK also calls the main task's callbacks, between its messages: the timers it
registered, the MQTT receive callback and the serial port callback.  A handler
runs to its end before the next one starts.  So

* the handlers of SMS, MQTT, serial port and timers are atomic towards each
  other, in any order, and time passes between and during them: a timer may
  run out while the main task is busy, and its callback is then late;
* the URC task is *not* atomic towards them: it parses an unsolicited result
  code (URC) of the modem into a global, posts a message with the address of
  that global, and may go on to the next URC before the message is taken;
* an AT command blocks the main task until the modem's answer or a timeout,
  while the modem and the broker go on.

The outlet can restart at any moment, also inside a handler.  RAM is lost; the
users file stays.

### The parts

| Part | State | Operations | Hard behaviour | What makes it correct | Module |
|---|---|---|---|---|---|
| Outputs, timers, local time (196-313, 384-589, 709-948, 997-1036, 1083-1136, 1433-1440) | `Data`, six pins, six timers, the clock | ALL ON/OFF, ON/OFF OUT, FOR, UNTIL by SMS and MQTT; toggle and clear by serial port; timer callbacks; boot | channels and timers in any order, late callbacks, a timer started again, `u32` products, midnight, pins never initialised | pins show the bits; commands and timers change their own output only; FOR and UNTIL are kept and end | `Outputs`, `TimedSwitches`, `OutputPromises` |
| Users and their file (637-691, 1066-1081) | `users[4][15]`, `data.txt` | Manager, Add user, recognition of senders, `check_file` | restarts between two steps of a handler, file operations that fail, a slot computed from a length | who was told to be manager is; RAM knows everyone in the file; the file fits | `Users` |
| MQTT link (366-383, 1053-1064, 1178-1288, 1300-1431; `ril_urc.c`, `ril_mqtt.c`) | `m_mqtt_state`, `mqtt_urc_param`, `pub_message_id`, the message queue | the timer's state machine, the URC handlers, the message loop, answers to status requests | three parties; one global shared without a lock; late, repeated and lost results | never ahead of the modem; gets to the first packet; never starts over after it | `MqttLink` |
| SMS storage and indications (235-251, 594-625, 1163-1176, 1208; `ril_urc.c:326-402`, `ril_sms.c`) | the modem's message store, the queue, `s_bSMSReadContentFlag` | `+CMTI`, reading by index, deletion of all messages at "SMS Ready" | an index read after its message was deleted, answers cut short, restarts with messages waiting, a full store | every stored command is obeyed once, in order; losses have a cause | `SmsInbox`; with the users `SmsOutlet` |
| Command parsing (352-591, 693-956) | none; what an earlier line left in the buffer | text to command | words looked for anywhere, digits at fixed places, the outlet's own messages coming back | a text does what its writer means, on both ways in | `Commands`, `Texts` |
| Time conversion (190-219) | none | calendar to seconds | leap days, `u32`, times that sscanf cannot read | the order of the times of a day is kept | `TimeConv`, `Texts` |
| Firmware update (`custom/dfota`, `ril_ftp.c`, `ril_urc.c:475-507`) | `httpMainContext`, `FtpGet_IND_CB`, the spare pool, a timer, sockets | start over HTTP or FTP, callbacks of socket, lookup, timer and URC, writing the package | attempts that overlap in one context, late events, pieces cut anywhere, every call failing | the module updates only from a whole package; an attempt ends; nothing is written after a failure | `Fota`, `DfotaHttp`, `DfotaFtp`, `Dfota` |
| URC dispatch (`ril_urc.c`) | tables | one handler per keyword | order of tables, prefixes | a URC reaches its own handler | the handlers of MQTT, SMS, "SMS Ready" and FTP; not the tables |
| RIL network and other layers (`ril/src`) | none of their own | AT commands | errors, timeouts | | return values; the FTP and SMS reading ones as above |
| Serial port reading (975-1036) | `m_RxBuf_Uart1`, the driver's buffer and its event | the reading loop of the callback | characters that arrive between two reads, a burst longer than the buffer, reads that fail | slow typing is obeyed; keys alone never clear the outputs; the port goes on listening | `SerialPort` |
| Port expander (`custom/PCF8574.c`) | `pcf8574_pinstatus`, the chip's output latch | set all pins, by I2C | writes that fail unseen, a chip that outlives a restart | | `Expander` |
| SMS-only firmware (`custom/main.c`) | the bits, timers and clock as above, relays behind the expander | the commands by SMS, the serial keys, timer callbacks, boot | a restart between a FOR and its end, a failed write | Get Outputs tells the truth; no relay stays on that nobody left on | `ExpanderOutlet` over `Expander` and `Outputs` |
| LED subtask, `mqtt_connect_and_subscribe` | | | | | dead code: the task is not in the table, the call is commented out |

**Interactions.**  All commands end in `Data` and `update_IO`; the MQTT link
and the SMS layer are only the ways in.  Outputs do not depend on who asked,
users decide only whether an SMS is obeyed (MQTT and the serial port ask
nobody), and the link delivers commands and carries answers.  What the parts
share is the main task, which is why each handler is atomic in every module.
Two of them do meet, and are composed: the inbox decides which commands reach
the users, and in which order (`SmsOutlet`); and the outlet publishes on the
topic it is subscribed to, so that what it says is also what it hears (`Texts`).
The firmware update is a library of the SDK tree: its functions are compiled
with the application, which starts it with `Ql_DFOTA_StartUpgrade`; `main.c`
does not yet.

There are two firmwares.  `src/main.c` is the one the README describes; it
drives pins of the module.  The SDK tree has another `main.c` in `custom`, where
the build takes it from (`src/README.md:40`): without MQTT, with the relays
behind a PCF8574 port expander.  Bits, timers, users and SMS are the same code in
both; `ExpanderOutlet` models what differs.

## 2. The modules

### Outputs

`data` is the set of the bits of `Data`, `pin` the set of high pins, `timer`
and `expired` the SDK's one-shot timers (running with so many milliseconds to
go; run out, with the callback still due), `clock` the local time.  One action
per command and channel, `TimerCallback(n)` for the six callbacks, `Boot` for
the start of `proc_main_task`, `Tick` for a millisecond.

* `update_IO` leaves pins outside `GpioReady` alone: only `OUT_1..3` are
  initialised (1102-1104), the other three are set without it (1437-1439).
* `Interval` is `Ql_atoi` converted to `u32`, multiplied by 1000 in `u32`.
* `TimerStart` follows the contract in `ql_timer.h`: intervals start at 1 ms,
  and starting a running timer starts it anew.  The header does not say
  whether an expiry already posted is then discarded; `RestartDrops` is
  either, and no property assumes one or the other.
* `SwitchOnUntil` compares seconds since midnight: both timestamps that the
  code compares (384-438) have today's date.
* The SMS actions take a recognised sender, whose command was parsed.

`TimedSwitches` is the abstract specification: independent switches, each with
a countdown that turns it off.  It has no pins, clock, channels, seconds or
machine integers.  `Outputs` implements it, with `lit` as `data`, `left` as
`timer`, `over` as `expired`.

`OutputPromises` adds, to each action of `Outputs`, the record of what the
output was last asked (`asked`), how much promised time is left (`owed`), and
whether an expiry was waiting, and was kept, when it was asked (`crossed`).
These are history: no action reads them.

### Users

`users` is the array, `file` the text of `data.txt`; numbers are sequences of
characters because the code finds a user in the file by dividing its length by
13 (670-672) and tells users apart by their first 7 or 13 characters (661,
663).  `Manager` is atomic unless the file fails or `CrashInManager` cuts it
short, before or after the file is made empty; `AddUser` has one crash
outcome, none of it on file, which is `Boot` before it.  `Boot` may fail to open
or to read the file, and then knows nobody.  `Copied` is `Ql_strcpy` to a place of
`users`: a sender's number may be longer than the place, and then runs on in the
next one (640).  `told` is who was last told "You are manager now!", `saved` the
manager's number at the head of the file, `seen` the failures so far; these are
history.

### MqttLink

The main task's actions are `SimReady`, `Callback_Timer` (one disjunct per
state), `ReceiveGet` (a status request, answered by `publish_mqtt_msg`) and
`HandleUrc` (the cases of the message loop).  The URC task has two steps per
URC, because two fields of the global are written one after the other:
`ParseResult` writes `result`, `PostUrc` writes `sub_value` and posts the
message.  `jobs`, `socket` and `subscribed` are the modem's and the broker's;
`Takes` is which AT commands the modem accepts, `Report...` what it reports.
Misbehaviour is counted by `faults`, which `MaxFaults` bounds, and its kinds
collected in `seen`: a failed AT command, one whose answer is lost, a URC with
a failure, one about a retransmission, a refused connection, a rejected
subscription, a lost connection.

### SmsInbox and SmsOutlet

`store` is the modem's, `queue` the messages to the main task, `readContent`
the static flag of `HdlrReadPDUMsg`.  The answer to AT+CMGR is a sequence of
lines that `SMS_CMD_GeneralHandler` is given one by one, and may end before any.
`Arrive` and `BecomeReady` are the URC task with the modem behind it,
`RecvNewSMS` and `Initialize` the two cases of the message loop; a fault is a
failed command, an answer cut short or a restart.  `arrived`, `obeyed`,
`overtaken` and `dropped` are history.

`SmsOutlet` composes it with `Users` (an INSTANCE whose own failures are
switched off): a message names its sender and whom it adds, and the step that
reads it also obeys it.  `EveryoneLetInIsKnown` compares `users`, at every moment,
with those whom the messages obeyed so far let in, and in the end with those whom
the messages that arrived let in.

### Commands, TimeConv and Texts

Texts are TLA+ strings, because the positions of characters are what the
parsers are about.  `Commands` has the two parsers: `Sms` compares, `Mqtt`
searches, in the order of the chain, a line that `adjust_buffer` has moved;
memory behind the text keeps what it had, after the character `NUL`.
`TimeConv` has `ConvertToTimestamp`, in units of 128 s so that the `u32` wraps
within TLC's integers (86400 and 2^32 are multiples of 128).  Both are functions
without state; `Texts` is their state machine: people write by SMS or on the
topic, the outlet obeys and answers on the topic, the clock goes on over the
dates of the instance.  A text carries what its writer means, so that
`DoesAsMeant` can compare.

### Fota, DfotaHttp, DfotaFtp and Dfota

`Fota` is what both ways share: the pool (`flash`, `marked`), the reports to the
application, which name no attempt, and the count of attempts.  `DfotaHttp` has
`httpMainContext`, the timer, sockets and the read callback, one action per turn
of its loops, since data may arrive between two turns; an answer of the server
is a sequence of pieces (header lines, parts of lines, blocks).  `DfotaFtp` has
the AT commands of the main task (an AT+QFTPGET that times out may be executed
all the same, and its callback is then not set) and, in the URC task,
`FTP_Callback_OnDownload`
and `DoUpgrade`, one action per block.  `Dfota` starts attempts: the application
waits for the end of one before the next, as far as it was told.  `leftover`
remembers that an attempt began while something of an earlier one could still
act.

### SerialPort

`fifo`, `armed` and `event` are the UART driver, by the contract of
`Ql_UART_Read`: a new event is posted for characters that arrive after a read
that got less than it asked for.  `CallBack_UART_Hdlr` begins the loop of
`ReadSerialPort`, `ReadChunk` is a turn that gets something, `ReadEnd` the turn
that gets nothing and what the callback then obeys, `ReadFails` a port error.
Characters may arrive between any two of them.  `typed`, `hasty`, `filled` and
`failed` are history.

### Expander and ExpanderOutlet

`Expander` is the chip and `pcf8574_setoutput`: `pinstatus` in RAM, `latch` in the
chip.  A byte is the set of its bits.  `Send` is `Ql_IIC_Write`, which succeeds or
fails.  `behind` (the last write failed, or none since boot) is history.

`ExpanderOutlet` extends it with the commands of `custom/main.c`.  What a handler
does to bits, timers and clock is the action of `Outputs`, taken as an INSTANCE
without pins, since the code is the same; each is followed by `update_IO`, which
here writes the inverted bits to the expander (a relay is on while its pin is
low).  `Boot` has no `update_IO`, as in the code.  `byHand`, the outputs last
switched on without an end, is history.

## 3. What the runs check

Each passing property has a mutant in `PROJECT.json`, a plausible bug of the
code under which the same run fails.

| Run | Instance | Checks |
|---|---|---|
| `outputs` | 2 outputs, one with an uninitialised pin; a second of 3 ms, a day of 3 s, 4-bit words; FOR -1, 0, 1, 2; `RestartDrops` FALSE | `TypeOK`, `PinsFollowData`, `RunningTimerSwitchesOff`, `ImplementsTimedSwitches` |
| `promises` | 2 outputs; a second of 2 ms, a day of 3 s, 5-bit words; FOR 1, 2; `RestartDrops` FALSE | `PromiseTypeOK`, `KeptOn`, `SwitchesOffInTime` |
| `users` | 4 places of 3 characters and a 0, slots of 2 characters, recognised by 1; senders' numbers of 1, 2, 3 and 5; 2 failures of any kind | `UsersTypeOK`, `ManagerKept`, `StoredUsersKnown`, `FileFits` |
| `users_told` | the same, senders' numbers of 2, 1 failure | violated: `ManagerStays` |
| `link` | 3 faults of any of 7 kinds, 1 status request | `TypeOK`, `NeverAhead`, `GreetingLast`, `GreetsDespiteATFaults` |
| `link_race` | 1 retransmission, 1 rejection | violated: `PublishesWhenSubscribed` |
| `inbox` | `SmsOutlet`: 3 messages of 2 senders, a store of 3, 2 faults of 3 kinds | `InboxTypeOK`, `ObeyedInOrder`, `RepeatsOnlyOvertaken`, `LossesBounded`, `EveryoneLetInIsKnown`, `WaitingIsObeyed` |
| `sms_full` | `SmsInbox`: 3 messages, a store of 2, no fault | violated: `EveryCommandReceived` |
| `texts` | 12 texts, 3 beginnings of a line, 10 dates, 3 times of day, 2 texts sent | `TextsTypeOK`, `DoesAsMeant`, `TopicFallsQuiet`, `DaysAreCounted` |
| `dfota` | 2 attempts, a package of 2 blocks, a buffer of 3 pieces, 6 answers, 2 files, 8 urls | `DfotaTypeOK`, `UpdatesFromTheImage`, `WritesInOrder`, `BuffersAccountedFor`, `StopsAfterFailure`, `FailsLateByTimer`, `AttemptsEnd` |
| `serial` | 2 keys, another character, a buffer of 2, a driver of 3 | `SerialTypeOK`, `SlowTypingWorks`, `KeysClearNothing`, `TypedIsRead` |
| `expander_outlet` | 2 outputs on 3 pins; a second of 3 ms, a day of 3 s, 4-bit words; FOR 0, 1, 2, 6 | `OutletTypeOK`, `AnswerIsTrue`, `NoLightForgotten`, `TimersDarken` |

**What they show.**

* *Outputs.*  No order of channels and timers leaves an initialised pin
  different from its bit.  A timer that runs and is not started again does
  switch its output off, while other commands keep coming.  Every command and
  callback is a step of the abstract switches.
* *Promises.*  What FOR and UNTIL promise is kept, to the end and less than a
  second beyond it (UNTIL reads whole seconds), also when an earlier timer runs or
  is started again.  One thing cuts it: an expiry that was already posted when the
  timer was started again, if the SDK keeps it; `ql_timer.h` does not say that it
  does not, so the instance lets it, and `KeptOn` names it (`crossed`).  FOR 000 is
  left out: it starts no timer and stays
  on.  ON OUT does not stop an earlier timer, which switches the output off.
* *Users.*  Without failures the manager stays the manager through every
  addition and restart.  With failed writes and restarts anywhere, RAM still
  has everyone who is in the file, in the same place.  Unless reading fails,
  the file never holds more than four numbers.  The sender is told before the
  file is written, so one failure is enough for the next restart to make
  somebody else manager.  A manager whose number is shorter than 13 characters
  needs no failure for that: the slot of a user is a length divided by 13, and
  `ManagerKept` is stated for numbers of a slot or more.  A longer number moves the
  slots of the file behind it, so the two properties about the file are stated
  while it begins with a number of its slot's length (`SavedFits`); one of 15
  characters or more is written over the place of the first user, the only text
  in `users` that does not end in its own place (`UsersTypeOK`).
* *Link.*  Whatever the order of URCs, repetitions and timeouts, the state
  machine asks for each thing only when the modem has what it needs, but for
  two ways of being misled (`Misled`): a refused connection, because
  `connect_code` is never read, and a rejected subscription of which the result
  is read together with the granted QoS of another.  Once the first packet was
  handed over it never starts over.  Failed and timed-out AT commands alone do
  not keep it from getting there.  One failure URC does, for good, and the
  answer to a status request that comes before the first packet makes it skip
  the packet; `GreetsDespiteATFaults` excludes both.
* *Inbox.*  Commands are obeyed in the order in which they were stored, each
  once, whatever fails, as long as `SMS_Initialize` does not delete a message
  whose indication is waiting; then an index can be read for another message,
  and that one twice.  A failed command costs one message, an answer cut short
  two at most: the flag it leaves behind misleads the next read and no other.
  Those whom the obeyed messages let in are known at every moment, also behind
  restarts and failed reads; if everything that arrived was obeyed, the users are
  those whom the messages, in their order, let in.  Nothing deletes a message at run
  time, so that a full
  store takes no more.
* *Texts.*  The texts in the forms the parsers expect do what they mean, by SMS
  and over MQTT, behind every beginning of a line and on every date, but on
  14 July 2041, when the `u32` starts again; the day numbers that are wrong at
  the ends of leap years do no harm, since both times are of the same day.  The
  outlet's own messages, which come back to it, are no commands to it.  (Section 5
  has the documented texts that the parsers do not take.)
* *Firmware update.*  The module is never made to update from anything but the
  whole package, although one context serves all attempts.  After a failure
  nothing more is written and nothing completes, unless an earlier attempt has
  left a timer, a lookup, a socket or a transfer.  The timer that a read has
  left running can report a failure of an attempt that has succeeded.  Each
  attempt ends for the application, but for a `+QFTPGET` that the URC task
  handles before the callback is set, or whose callback it has cleared with the
  one before, and for the url that crashes the parser.  `DoUpgrade` does not
  free its buffer when a read or a write fails.

* *Serial port.*  Somebody who waits for each key to be obeyed gets what he
  types.  In a burst the first character alone is obeyed; keys never clear the
  outputs, even when an event finds its characters read already.  Once a burst
  has filled the buffer, the last read asks for nothing, and the driver, which
  waits for a read that gets less than it asked for, posts no event any more.
* *SMS-only firmware.*  After a write that succeeded the bits are the relays, and
  a relay that is on was left on or has a timer.  Both end with a failed write or
  a restart, after which nothing writes by itself: a relay that FOR has switched
  on stays on, and Get Outputs says it is off.

### Bounds and why they are enough

* Two outputs: commands name one output or all, and timers are per output, so
  a third one behaves like the second.  The proofs cover any number.
* Seconds, days and words are short so that midnight passes and products wrap;
  nothing depends on their sizes except which FOR values wrap, and -1 and the
  UNTIL time beyond the day are there for it.  There is no bound on the length
  of a behaviour: `clock` and `timer` are finite by themselves.
* Users has the code's four places.  Two failures allow one failure to hide
  another; each property names the failures it holds for.  A place of 3 characters
  and a 0 lies above a slot of 2, as 14 above 13: the numbers are one of a slot, one
  shorter, one that fits the place only, and one that fits neither.
* Link: three faults let a timeout, the repetition it causes and a loss or
  retransmission meet.  Identifiers end at 50 and wrap at 52: one answer
  (+50) after the first packet (+1) is out of range, the way 65535 is after
  1310 answers.  One status request is enough to race the first packet.
* Inbox: three messages are the manager, the user he adds and a command of that
  user, the longest chain of which each depends on the one before.  Two faults
  let a restart and a cut answer, or two cut answers, meet.  The store holds
  all of them, in any places; `sms_full` has one place less.
* Texts: the properties are about one step, or about two neighbouring dates;
  two texts are enough for an answer to be on the topic behind another text.
  No text is too short for the digits it should have, or has a time that sscanf
  cannot read: it would mean nothing (hazards of `PROJECT.json`).  The answer of
  Get All Users is one fixed text of telephone numbers, although Add user takes any
  13 characters (664).
  The dates are the days about 29 February, the turns of the year into and out
  of leap years, and the day of the wrap.  The clock shows three times: a time
  asked for can be past, now or later.
* Firmware update: two attempts are one and its predecessor; the safety
  properties were checked once with three, without a difference.  A package of
  two blocks has a beginning that is not the whole, a buffer of three pieces
  fills up in a header and holds a header's last line with the whole body.
* Serial port: what matters is whether a burst fits the buffer (2) and the
  driver (3); two keys can differ, and a third character is no key.
* SMS-only firmware: as for the outputs, with a third pin that drives no relay, as
  two of the eight do.
* Symmetry is used in `promises` only, where both outputs are initialised and
  no liveness is checked.

### Fairness

* `Outputs`: weak fairness of `Tick` (time passes) and of each
  `TimerCallback(n)` (the main task's loop takes every message posted to it,
  and no handler waits for ever).  Commands are not fair: nobody must send one.
* `MqttLink`: weak fairness of `SimReady` (the SIM is reported ready once),
  `Callback_Timer` (the timer repeats, 500 ms), `ReceiveGet` and `HandleUrc`
  (the message loop), `Report` and `PostUrc` (the modem finishes, the URC task
  runs).  Faults and requests are not fair; bounded faults mean that AT
  commands do not fail for ever, which retrying cannot cure.
* `SmsInbox`, `SmsOutlet`: weak fairness of the message loop, of "SMS Ready",
  and, in `SmsInbox` alone, of the arrival of a message that was sent and for
  which there is a place.  Faults are not fair.
* `Texts`: weak fairness of the MQTT callback, which is given every message.
* `Dfota`: weak fairness of the main task (its callbacks, its timer), of the URC
  task and of the module's download, which ends or fails.  The server need not
  send anything, nor the application start again.
* `SerialPort`: weak fairness of the callback and of the turns of its loop.
  Nobody has to type, and no read has to fail.
* `ExpanderOutlet`: as `Outputs`, the ticks and the callbacks; whether a write
  succeeds is not fair.
* `Users` and `OutputPromises` state safety only and have no fairness.

## 4. What is proved

Every invariant and action property that a passing run checks is a theorem, in
`Outputs_proofs`, `ExpanderOutlet_proofs`, `MqttLink_proofs`, `Users_proofs`,
`SmsOutlet_proofs`, `SerialPort_proofs`, `Dfota_proofs` and `Texts_proofs`, all
leaves checked: for **any** set of
outputs and of initialised pins, any word size, length of a second and of a day,
any inputs; any number and kinds of faults and of status requests; any number of
places and length of a slot; any messages and capacity of the modem's store; any
keys and sizes of the serial buffers; any package, files, urls and answers of the
server, size of the read buffer and number of attempts; any texts, dates of the
calendar and times of day, and any width of a word and unit of time.  The
assumptions are those that the modules name (`OutputsAssumption`, `ExpanderAssumption`,
`ExpanderOutletAssumption`, `LinkAssumption`, `UsersAssumption`,
`InboxAssumption`, `OutletAssumption`, `SerialAssumption`, `FotaAssumption`,
`HttpAssumption`, `FtpAssumption`, `UrlsAssumption`, `TimeAssumption`,
`TextsAssumption`), which say of what sort the constants are, and the premises
`Intended`, `NumbersFit` and `Understood`, which are part of the theorems that
need them.  Two assumptions say more than a sort: the places of `users` are longer
than a slot (15 and 13), and the number of a sender is shorter than two places:
`oa` has at most 21 characters (`ril_sms.h:46`, `:100`), two places have 30.

| Theorem | Says | Argument |
|---|---|---|
| `TypeCorrect` | `Spec => []TypeOK` | inductive as it is; `IntervalType` (the product reduced to a word is a word) is its arithmetic |
| `PinsFollow` | `Spec => []PinsFollowData` | inductive as it is: every handler that changes a bit ends in `update_IO`, which sets the pins whatever they were |
| `RefinesTimedSwitches` | `Spec => Abstract!SwitchSafety` | each action maps to a step of `TimedSwitches` or leaves it alone, from `TypeOK` |
| `PromisesKept` | `Intended`: `PromiseSpec => []KeptOn` | from `PromiseInv` |
| `PromisesEnd` | `Intended`: `PromiseSpec => []SwitchesOffInTime` | from `PromiseInv` |
| `PromiseTypes` | `PromiseSpec => []PromiseTypeOK` | inductive as it is, without `Intended` |
| `RecordsTheOutputs` | `PromiseSpec => Init /\ [][Next]_vars` of `Outputs` | the history changes no action (`RecordOnly`) |
| `OutletTypes` | `OutletSpec => []OutletTypeOK` | inductive as it is, from the types of `Outputs` |
| `AnswersTrue` | `OutletSpec => []AnswerIsTrue` | from `OutletInv` |
| `NoneForgotten` | `OutletSpec => []NoLightForgotten` | from `OutletInv` |
| `TypeCorrect` (link) | `Spec => []TypeOK` | from `TypeInv`, which adds that no more requests wait than were delivered |
| `NeverStartsOver` | `Spec => []GreetingLast` | from `LinkInv` |
| `WaitsForTheModem` | `Spec => []NeverAhead` | from `AheadInv`, over `LinkInv` |
| `TypeCorrect` (users) | `Spec => []UsersTypeOK` | inductive as it is; `CopiedFits` and `CopiedManager` say which copies stay in their place, `LoadType` is about `check_file` |
| `ManagerSafe` | `Spec => []ManagerKept` | from `UsersInv` |
| `StoredSafe` | `Spec => []StoredUsersKnown` | from `UsersInv` |
| `FileSafe` | `Spec => []FileFits` | from `UsersInv` |
| `InboxTypes` | `InboxSafety => []InboxTypeOK` | inductive as it is |
| `OrderKept` | `InboxSafety => []ObeyedInOrder` | from `KnownInv` and `OrderInv` |
| `RepeatsBounded` | `InboxSafety => []RepeatsOnlyOvertaken` | from `RepeatInv` |
| `LossesExcused` | `InboxSafety => []LossesBounded` | from `LossInv` |
| `OutletKeepsInbox` | the four of them from the `Spec` of `SmsOutlet` | its steps are steps of the inbox or none |
| `EveryoneKnown` | `NumbersFit => (Spec => []EveryoneLetInIsKnown)` | from `UsersKnow`, over the inbox's invariants |
| `SerialTypes` | `Spec => []SerialTypeOK` | inductive as it is |
| `SlowTypingSafe` | `Spec => []SlowTypingWorks` | from `OneUnderWay` |
| `KeysToggleOne` | `Spec => KeysClearNothing` | a step property, from the types |
| `TypeCorrect` (dfota) | `Spec => []DfotaTypeOK` | from `TypeInv` |
| `BuffersSafe` | `Spec => []BuffersAccountedFor` | from `TypeInv` |
| `ImageSafe` | `Spec => []UpdatesFromTheImage` | from `TransferInv` |
| `FailureIsFinal` | `Spec => StopsAfterFailure` | from `TransferInv` |
| `LateFailureIsTheTimer` | `Spec => FailsLateByTimer` | from `TransferInv` |
| `PoolInOrder` | `Spec => []WritesInOrder` | from `OrderInv`, over `TransferInv` |
| `DaysCounted` | `Spec => DaysAreCounted` | calendar arithmetic, for every day that `Calendar` has |
| `TextsTypes` | `Understood => (Spec => []TextsTypeOK)` | inductive as it is |
| `UnderstoodIsObeyed` | `Understood => (Spec => DoesAsMeant)` | from the types and `SameDay` |

`KeptOn` alone is not inductive: a state in which an output owes time, is on,
and has an expiry waiting satisfies it, and the callback then breaks it.
`PromiseInv` adds `Kept` (while an output owes time, its timer has at least
that long to run and no expiry waits but one that `crossed` knows of) to `Ends`
(while it is on, its timer has
less than a second more than that, or an expiry waits).  The two are what ties
the timer to the promise from both sides.  A FOR or UNTIL establishes them
(`StartKeeps`; for UNTIL from `LocalTimeExact`, the clock lies in the second it
is read as), a tick moves both sides by one, a callback acts only on an output
that owes nothing or was crossed, and a command without a time ends the promise.

`Intended` is where the promises are claimed to hold: durations of a second or
more, with an interval that fits a `u32`.  Without the first, FOR 000
is the counterexample: no timer is started and the output stays on.  FOR takes three
characters, so that no
duration it can name exceeds 999 s and only a negative one wraps; the two-digit
fields of UNTIL end at 99:99:99, some four days.  Both are far below the 2^32 ms
of a word.  Of the SDK nothing is assumed: what an expiry that it keeps can do is
the exception in `KeptOn`, and `SwitchesOffInTime` has none.

`NoLightForgotten` speaks of relays, and is not inductive: a state in which the
expander is behind satisfies it whatever the bits are, and the next write shows
them.  `OutletInv` says the same of the bits, without the excuse
(`NoBitForgotten`: a bit that is set was set by hand or has a timer or an expiry
waiting), and keeps `AnswerIsTrue` to carry it over to the relays.  `UpdateShows`
is the half about the expander, common to all handlers, and `HandKeeps`,
`ForKeeps` and `UntilKeeps` the other, one for each kind of command.

`GreetingLast` is not inductive: in a state that satisfies it the result of an
earlier CONN may still be in the queue, and the message loop would take it and
subscribe again.  `LinkInv` says why there is none.  The modem takes a command
only when it has what that needs, so what it works on fits its socket (`JobsFit`)
and, before there is a connection, neither a result of a subscription nor one of
a publication is under way (`NothingLate`); results are posted in the order in
which it finishes, so no result of an OPEN or a CONN comes behind one of those
(`EarlyFirst`).  The state PUB is entered only by taking the result of a
subscription: the earlier ones are behind it (`EarlyIsOver`).

`NeverAhead` is about values and not about order: the message loop takes the
message of one URC and reads the result that another left in `mqtt_urc_param`.
`ResultsMeanIt` says why that does no harm: whenever the result reads success, it
is true of *every* URC under way, also of those that reported something else.  Its
hard case is a rejected subscription, which reports success too: unless
something was repeated there is never more than one OPEN, CONN or SUB, or result
of one, anywhere (`OneAtATime`), so that the granted QoS the loop reads is the one
that was rejected (`SeenRejected`).  `Misled` is exactly what the proof cannot do
without: a refused CONN reports success, and after a repetition there may be two.

`UsersInv` says that the file holds whole numbers, as many as were stored
(`WholeNumbers`), and that while nothing failed the file begins as the manager's
number does (`ManagerStored`).  The first is what makes the length of the file,
divided by the length of a slot, the next place, and a number appended to the file
fill that place and no other (`NextSlotFilled`).  It needs that the manager's
number in the file is as long as a slot (`SavedFits`: `Manager` checks no length,
`Add user` does), which `StoredSafe` and `FileSafe` therefore say.  `ManagerSafe`
needs only that it is not shorter: then no number is ever added in his place
(`AddUserKeepsManager`), and the slot of a file that begins with a longer one is
recognised as that one, by its first 13 characters (`FirstSlot`,
`SameBeginning`).  `EveryoneKnown` has the simpler premise that the numbers of all
senders fill a slot (`NumbersFit`).

`ObeyedInOrder` is about what has been obeyed, the proof about what is still to
be.  `KnownInv` says that nothing is stored, obeyed or deleted that did not arrive.
`OrderInv` says that, as long as nothing was overtaken, the indications that wait
point at messages in the order in which these arrived, none of them twice, and all
behind what has been obeyed: a place is given to a new message only when it is
empty, and nothing empties it but the deletion.  The next message read is
therefore a later one.  The other two are counted.  `RepeatInv`: the commands
obeyed and the indications waiting are together no more than the different
messages among them, and those overtaken; an indication that outlives its message
can be read for another one, but the message it was for is then overtaken.
`LossInv`: what was neither obeyed nor waits nor is excused by a deletion or a
restart, and one more while the flag is set, are no more than the failed commands
and twice the cut answers.  Counting the flag is what makes it inductive: a cut
answer may lose the message it is of and set the flag, and the read that loses
another to the flag resets it, with nothing more to pay.

`SlowTypingWorks` says what was obeyed once the port is at rest, and is not
inductive.  `OneUnderWay` says where the one key typed is in the meantime, in the
driver or in the buffer and alone there, and that it is all that `typed` is ahead
of the outputs.  `KeysClearNothing` needs the types alone: only `ReadEnd`
changes outputs, by the first character of the buffer.

The firmware update has three layers.  `TypeInv` adds to the types that every
buffer has an owner and that whoever reads has one.  `TransferInv` says, of an
attempt with nothing `leftover`, that one thing at a time is at work for it
(`OneTransfer`: FTP or HTTP, a lookup or a socket), that the end of an attempt is
the end of its work (`OverIsOver`), and that a marked pool is at the end and is the
image (`MarkedIsOver`).  The step properties follow from it: what writes after a
failure, or fails after a success, cannot be there.  `OrderInv` follows the data:
the pool, the context's buffer and the pieces not yet received are, put together,
a body of the answer (`AnswerOrder`), and the pool and the part of the file not
yet read a file (`FileOrder`), so that however the answer is cut into reads the
pool is a beginning.  While the header is read, the pieces are the rest of an
answer whose empty line is to come (`IsRest`), and no piece in the buffer is the
close (`ContextInv`).  Where the header ends is a minimum, the first empty line;
that a set of numbers has one is not an axiom of the provers' arithmetic and is
proved from well-foundedness (`Least`).

`EveryoneLetInIsKnown` speaks of what arrived, the step that obeys a message only
of what has been obeyed.  `UsersKnow` says of the latter that each of those known
has his place in the file and the same one in `users`; `ObeyKnown` shows that the
code lets in exactly whom `AfterCommand` does (`AcceptedIs`: the slot computed from
the file's length is the next one), and `BootKnown` that a restart reads the same
users back.  It takes the lemmas about the file from `Users_proofs`, by INSTANCE.
What was obeyed is a subsequence of what arrived (`ObeyedInOrder`), and if there are
as many, it is all of it: a map of 1..n into itself that keeps the order moves
nothing (`EachAtItsPlace`).  `Known` is a recursive function over the messages; all
that is needed of it is one more message (`KnownAppend`), which rests on there being
one such function and no other (`FollowsExists`, `FollowsAgree`).

`DaysAreCounted` needs the table that `DaysBefore` adds up, twelve steps of a
recursive function, and how the three divisions by 4, 100 and 400 grow from one year
to the next, which is one for a leap year and nothing otherwise (`LeapDaysGrow`).

`DoesAsMeant` compares timestamps with times of day.  `SameDay` says that on a day on
which the `u32` does not start again from 0 they have the same order and the same
differences, whatever the number of the day: this is why the day numbers that are
wrong do no harm.  `Understood` says that the parsers take each text for what its
writer means, or for a command that does nothing where nothing is meant.  It is about
strings alone, no state, and is what the theorems cannot say for all texts: a text
in another form is not understood (section 5 has some).  It holds of the texts of
`MCTexts` (TLC accepts `ASSUME Understood` in a module that extends it), and the run
shows its consequence: `DoesAsMeant` fails there if the words are looked for in
another order.

**Model-checked only.**  Liveness (`RunningTimerSwitchesOff`,
`GreetsDespiteATFaults`, `WaitingIsObeyed`, `TopicFallsQuiet`, `AttemptsEnd`,
`TypedIsRead`, `TimersDarken`, the fairness half of `ImplementsTimedSwitches`) is
out of reach of this prover.  So is what the two parsers make of a given string,
`Understood`: the provers know nothing of the characters of a string, and `Ql_atoi`
is a fold over them.

## 5. Where code and documents disagree

With a run, listed under `findings` in `PROJECT.json`: the manager told before the
save; the race on `mqtt_urc_param`; messages never deleted.

Seen in the behaviours of a passing run, whose property names the exception, or
met while reading:

* `FTP_DecodeURL` crashes on a url with neither port nor `@`
  (`dfota_ftp.c:472`: it copies `i - 1` bytes with `i = 0`), one of the forms
  that `dfota_main.h:100-104` documents (`AttemptsEnd`).
* A burst that fills the serial buffer makes the last read ask for 0 characters
  (984), which is not the read of less than was asked for that
  `ql_uart.h:279-281` requires before another event (`TypedIsRead`).
* Get Outputs of `custom/main.c` (383-389) prints bits, which after a restart or a
  failed write are not the relays; `src/README.md:148` says "Get the state of all
  outputs" (`AnswerIsTrue`).
* `Get ALL Users` and `Current time`, as `src/README.md:146` and `:149` write them,
  are compared with other capitals; the seconds of FOR (`:151`) must have three
  characters, since the output is taken from the sixteenth.
* `pcf8574_setoutputpin` and `pcf8574_setoutputpins` start from the levels of the
  pins instead of what was written (`PCF8574.c:76`, `:99`), so that a pulled pin,
  or a failed read, lowers others than the example in lines 65-70 says.
* UNTIL a time that has passed today is dropped in silence (393), not moved to
  tomorrow; `src/README.md:150` says "Until given time set output [number]
  state to on".
* Outputs 4 to 6 are set (1437-1439) on pins never initialised (1102-1104);
  `src/README.md:153` counts them among the outputs.
* If `Ql_FS_Read` fails, the user being added takes slot 0, the manager's
  (668-672); nobody checks its return value.
* Manager sent again truncates the file, while RAM keeps the other users
  until the next restart (643-650).
* Get All Users is answered to `users[0]`, not to the sender (698), against
  `src/README.md:163`; its buffer of 100 characters is too small for four users of
  13 characters.
* `pub_message_id` grows by 50 per answer and leaves 0-65535, the range its
  own comment names (1055).
* `connect_code`, the server's return code, is stored and never read (1231-1241;
  `src/M65 SDK/ril/inc/ril.h:80`).
* A lost connection is posted as URC_MQTT_STATE, for which the message loop has
  no case: it is never opened again.
* A sender is recognised by the first 7 characters of the number (661): all
  numbers with the same country code and prefix are.
* ON OUT after FOR leaves the timer running, which switches the output off
  (755-789); `src/README.md:143` says "ON OUT [number] -> On out [number]".
* FOR 000, or three characters that are no number, starts no timer: 0 ms is
  below what `Ql_Timer_Start` accepts and its result is ignored (439-489).
* `Manager` copies the sender's number into 15 characters (640) without a look at
  its length, and `oa` has up to 21: from 15 on the end of it is written over the
  place of the first user, up to the next restart (`UsersTypeOK`).
* After a manager's number of fewer than 13 characters the first user added takes
  his place (672); after one of more than 13, a restart reads every user's number
  out of its place (1072-1075).
* If `data.txt` cannot be opened or read at start-up (1067-1070), nobody is known
  until the next restart, and nobody is told.
* A URC that reports failure is only logged (1226): `m_mqtt_state` stays in the
  state in which the timer does nothing, and the first packet that
  `src/README.md:77` promises is not sent.  It is not sent either when an answer
  succeeds in `STATE_MQTT_PUB` (1260).
* `ConvertToTimestamp` (196-208) gives 31 December of a leap year and the
  1 January after it the same day number, and leaves out a number before the
  1 January of a leap year: `year / 4` already counts the leap day that line
  202 adds from March on (`DaysAreCounted` says so exactly).
* `dfota_http.c:400` and `:570` start the timer and record that it is not
  running; `dfota_http.c:137-144` reports a url that cannot be decoded and goes on;
  the header gives `http://hostname/filePath/fileName:port`, but `http_DecodeURL`
  looks for the port after the host only.

## 6. What is not modelled

* *Partial writes* of the file and a torn one at a restart: a write is done or
  not.
* *`mode`*: it is `SET_ADMIN` from its initialisation on and nothing changes it.
* *Answers by SMS*: to whom and what; that sending one can block is not.  The PDU
  codec, sending and the storage commands of `ril_sms.c` are not modelled.
* *Failures of the file system* in `SmsOutlet`: they are in `Users`.
* *Messages in several parts* (`g_asConSMSBuf`): the buffers are only reset.
* *Close, disconnect and unsubscribe* are in `ril_mqtt.c` but `main.c` never
  asks for them.
* *The SIM not ready*, no network: `SimReady` is fair and registration is one
  call that succeeds or is tried again.
* *`sub_message_id`* only numbers the subscription for the modem.
* *The keyword tables of `ril_urc.c`* and the handlers that only post what they
  were told, to cases of the message loop that only log.
* *Firmware update*: progress reports; attempts that the application starts
  without waiting; names that a shorter url of a second attempt leaves in the
  static buffers of `dfota_ftp.c`; an FTP file that is read in parts of no
  length, on which `DoUpgrade` would not end.
* *The other RIL layers* are called by nothing in `main.c`.
* *What the serial port echoes* and the driver's other events, which the callback
  ignores.
* *The other functions of `PCF8574.c`*: setters of one pin and of a field, and
  getters, which nothing calls.
* *The rest of `custom/main.c`*: its users, their file and its reading of SMS are
  the code of `src/main.c`, line for line, and are modelled there.
* *Several I2C writes of one handler* (FOR and UNTIL call `update_IO` up to three
  times with the same bits) are one, which fails if all of them do.
* *Examples, SDK headers and tools* are the vendor's.  They are most of the
  repository: the program's own file has 1440 lines of some 55 000, and the
  largest, `example_audio.c`, is 20 000 lines of sound.  So the share of the
  repository's lines that the models stand for is small, while of `main.c` only
  initialisation, logging and dead code are outside them.

## 7. Plan

Done, in this order: `Outputs`, `TimedSwitches`, `OutputPromises` (the purpose
of the device), `Users` (what survives a restart), `MqttLink` (what is
concurrent), the proofs about outputs; then `SmsInbox` and `SmsOutlet` (how a
command gets to the users), `Commands`, `TimeConv` and `Texts` (what a text is
taken for), the firmware update, the serial port, and the firmware over the
expander with its proofs, and the proofs about the link and the users; then
those about the inbox, the serial port and the firmware update, about the inbox
with the users, and about the calendar and the texts.

Next:

1. The keyword tables of `ril_urc.c`, if a handler of theirs gets a state.
2. Liveness of a single timer as a theorem, if a prover for ENABLED is at hand.
