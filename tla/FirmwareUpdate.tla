---------------------------- MODULE FirmwareUpdate ----------------------------
(***************************************************************************)
(* Writing new firmware: Task_FirmwareUpdate on a thread of its own, the   *)
(* connect, load and status tasks on the task runner's worker, both        *)
(* sending through one connection; the handlers and modal windows of the   *)
(* UI thread, which start further updates; and the WSPRlite's bootloader.  *)
(*                                                                         *)
(* The bootloader starts a firmware only if a reset address is programmed, *)
(* so the program erases first and writes the reset address last.  What is *)
(* said of the bootloader is what the program's comments rely on: erasing  *)
(* clears the reset address, and programming a record never writes it.     *)
(*                                                                         *)
(* A send either takes effect or not whatever its result, see Exchange.    *)
(***************************************************************************)
EXTENDS Naturals, Sequences, FiniteSets

CONSTANTS
    Images,        \* firmware images: the old one, and the hex files
    NoImage,       \* an erased flash word, a missing file
    Depth,         \* bound: how many firmware dialogs may be nested
    NumRecords,    \* bound: the records of a hex file
    MaxAttempts,   \* 3 in handleQEntry
    Capacity,      \* bound: the frames the line can hold
    LateReplies,   \* as in Exchange: FALSE means that a transmission finds no
                   \* traffic of an earlier one under way
    MaxTasks,      \* bound: the status timer rests while so many tasks wait
    MaxModals,     \* bound: how many windows may be nested
    MaxClicks,     \* bound: presses of Connect and Update firmware
    MaxMishaps     \* bound: unplugging, given up connections, changes on disk

ASSUME FirmwareUpdateAssumption ==
    /\ NoImage \notin Images /\ "mixed" \notin Images
    /\ Depth \in Nat \ {0} /\ NumRecords \in Nat \ {0} /\ MaxAttempts \in Nat \ {0}
    /\ Capacity \in Nat \ {0} /\ MaxTasks \in Nat /\ MaxModals \in Nat \ {0}
    /\ MaxClicks \in Nat /\ MaxMishaps \in Nat
    /\ LateReplies \in BOOLEAN

VARIABLES
    conn,             \* deviceModel->conn leads to a device that answers
    connectEnabled,   \* btn_connect
    updateEnabled,    \* btn_firmwareUpdate
    bootloaderState,  \* deviceModel->bootloaderState: 0, 1, 2 by name
    modals,           \* the nested message boxes and firmware windows
    events,           \* handlers posted to the UI thread
    declined,         \* history: a dialog was closed that was the only way on
    lastPath,         \* Dlg_FirmwareChoose::lastPath is set
    disk,             \* the hex file as it is on disk now
    tasks,            \* AsyncTaskRunner::q
    task, step,       \* the worker's task and the message it sends next
    update,           \* the firmware updates, one for each nested dialog
    reporting,        \* the update threads that are about to call onProgress
    stranded,         \* the senders whose response nobody will give
    handling,         \* whose command the communication thread handles
    attempt,          \* handleQEntry's attempts at it
    toDev, toHost,    \* the line
    mode,             \* device: "app" or "boot"
    flash,            \* device: the image each record's words belong to
    resetAddr,        \* device: the image the reset address belongs to
    clicks, mishaps

uiVars     == <<connectEnabled, updateEnabled, modals, declined, lastPath, clicks>>
workerVars == <<task, step, bootloaderState>>
commVars   == <<handling, attempt>>
lineVars   == <<toDev, toHost>>
devVars    == <<mode, flash, resetAddr>>
waitVars   == <<reporting, stranded>>
vars       == <<conn, uiVars, events, disk, tasks, workerVars, update, waitVars,
                commVars, lineVars, devVars, mishaps>>

-------------------------------------------------------------------------------
Records  == 1 .. NumRecords
Updaters == 1 .. Depth
Worker   == 0
Nobody   == Depth + 1

States == {"app", "boot", "empty"}      \* 0, 1 and 2 of Bootloader_State

ReadRecords == [i \in Records |-> "ProgramHexRec"]

\* Mutant: the image is made bootable before it is verified.
UpdateOps_AddressFirst ==
    <<"Enter", "State", "EraseAll">> \o ReadRecords
        \o <<"ProgramResetAddr", "CRC", "Reset">>

\* Task_FirmwareUpdate::task.
UpdateOps ==
    <<"Enter", "State", "EraseAll">> \o ReadRecords
        \o <<"CRC", "ProgramResetAddr", "Reset">>

\* The tasks of the worker; of a load only that it reads.
TaskOps(t) ==
    CASE t \in {"connect", "reconnect"} -> <<"State", "Version", "Reset", "State", "Version">>
      [] t = "load"  -> <<"Read">>
      [] t = "check" -> <<"State", "Mode">>

DataOps == {"State", "Version", "Mode", "Read", "CRC"}

NoUpdate == [phase |-> "idle", step |-> 0, loaded |-> NoImage, source |-> NoImage,
             success |-> FALSE]

Ack  == [type |-> "ACK", kind |-> "none", val |-> NoImage]
Nack == [type |-> "NACK", kind |-> "none", val |-> NoImage]
Data(kind, val) == [type |-> "Data", kind |-> kind, val |-> val]
NoReply == [type |-> "none", kind |-> "none", val |-> NoImage]

Cmd(op) == [op |-> op, rec |-> 0, img |-> NoImage]

\* What update u sends next: the records come from the file, the checksum and
\* the reset address from the image loaded by the dialog.
UpdateCommand(u) ==
    LET op == UpdateOps[update[u].step]
    IN  CASE op = "ProgramHexRec" ->
                [op |-> op, rec |-> update[u].step - 3, img |-> update[u].source]
          [] op = "ProgramResetAddr" -> [Cmd(op) EXCEPT !.img = update[u].loaded]
          [] OTHER -> Cmd(op)

CommandOf(r) == IF r = Worker THEN Cmd(TaskOps(task)[step]) ELSE UpdateCommand(r)

\* The device either has firmware it can start, or none.
Init ==
    /\ conn = FALSE
    /\ connectEnabled = TRUE
    /\ updateEnabled = FALSE
    /\ bootloaderState = "app"
    /\ modals = <<>>
    /\ events = <<>>
    /\ declined = FALSE
    /\ lastPath = FALSE
    /\ disk \in Images
    /\ tasks = <<>>
    /\ task = "none"
    /\ step = 0
    /\ update = [u \in Updaters |-> NoUpdate]
    /\ reporting = {}
    /\ stranded = {}
    /\ handling = Nobody
    /\ attempt = 0
    /\ toDev = <<>>
    /\ toHost = <<>>
    /\ resetAddr \in Images \cup {NoImage}
    /\ flash = [i \in Records |-> resetAddr]
    /\ mode = IF resetAddr = NoImage THEN "boot" ELSE "app"
    /\ clicks = 0
    /\ mishaps = 0

-------------------------------------------------------------------------------
\* The UI thread.

OpenDialogs == {i \in DOMAIN modals : modals[i] = "update"}
Innermost == Cardinality(OpenDialogs)
Top == modals[Len(modals)]
Below == SubSeq(modals, 1, Len(modals) - 1)

\* Reading a file that is gone never ends: a stream that could not be opened
\* fails, but is never at its end.
Frozen == \E u \in Updaters : update[u].phase = "frozen"
Hung == \E u \in Updaters : update[u].phase \in {"frozen", "hung"}

\* A call that is under way on the connection fails when it is closed.
AbortExchange == attempt' = IF handling = Nobody THEN attempt ELSE MaxAttempts + 1

\* Mutant: the Connect button is left as it was.
OnDisconnect_ConnectStaysOff ==
    /\ conn' = FALSE
    /\ updateEnabled' = FALSE
    /\ UNCHANGED connectEnabled

OnDisconnect ==
    /\ conn' = FALSE
    /\ connectEnabled' = TRUE
    /\ updateEnabled' = FALSE

\* What update u does before the message of step s: between two records it calls
\* onProgress at every tenth line of the file.
ProgressBefore(s) ==
    CASE UpdateOps[s] = "State" -> {FALSE}
      [] UpdateOps[s] = "ProgramHexRec" /\ s > 4 -> BOOLEAN
      [] OTHER -> {TRUE}

AtProgram(u) == update[u].phase = "running" /\ UpdateOps[update[u].step] = "ProgramHexRec"

\* Requester r has called send for its next message, which waits in the queue.
Sending(r) ==
    /\ handling # r
    /\ r \notin stranded
    /\ IF r = Worker
       THEN task # "none"
       ELSE /\ update[r].phase = "running"
            /\ r \notin reporting
            /\ AtProgram(r) => update[r].source # NoImage

\* The last pointer to the connection is dropped: an entry that is in its queue
\* then, or is pushed by a thread that has read the pointer before, may never be
\* taken up (Stranded in Connection).
DropConnection ==
    /\ \E S \in SUBSET {r \in 0 .. Depth : Sending(r)} : stranded' = stranded \cup S
    /\ UNCHANGED reporting

\* deviceConnect and connectStartComm(false).
DeviceConnect ==
    /\ modals = <<>>
    /\ connectEnabled
    /\ clicks < MaxClicks
    /\ clicks' = clicks + 1
    /\ conn' = TRUE
    /\ connectEnabled' = FALSE
    /\ tasks' = Append(tasks, "connect")
    /\ AbortExchange
    /\ DropConnection
    /\ UNCHANGED <<updateEnabled, modals, declined, lastPath, events, disk, workerVars,
                   update, handling, lineVars, devVars, mishaps>>

\* The port cannot be opened: the old connection is closed all the same, and
\* dropped when the box is.
DeviceConnectFails ==
    /\ modals = <<>>
    /\ connectEnabled
    /\ clicks < MaxClicks
    /\ clicks' = clicks + 1
    /\ conn' = FALSE
    /\ connectEnabled' = FALSE
    /\ modals' = <<"error">>
    /\ AbortExchange
    /\ UNCHANGED <<updateEnabled, declined, lastPath, events, disk, tasks, workerVars,
                   update, handling, lineVars, devVars, mishaps, waitVars>>

\* doFirmwareUpdate opens the dialog, whose constructor reads the file that
\* was chosen the last time.  A new window replaces "windows".
OpenDialog(windows) ==
    LET u == Innermost + 1
    IN  /\ u \in Updaters
        /\ modals' = Append(windows, "update")
        /\ update' = [update EXCEPT ![u] =
                [NoUpdate EXCEPT !.phase = IF lastPath /\ disk = NoImage
                                           THEN "frozen" ELSE "choosing"]]

PressUpdate ==
    /\ modals = <<>>
    /\ updateEnabled
    /\ clicks < MaxClicks
    /\ clicks' = clicks + 1
    /\ OpenDialog(<<>>)
    /\ UNCHANGED <<conn, connectEnabled, updateEnabled, declined, lastPath, events,
                   disk, tasks, workerVars, commVars, lineVars, devVars, mishaps,
                   waitVars>>

\* The dialog is left without a valid file, by Cancel, or by a "no" to a
\* downgrade, after a file may have been opened in it: nothing is done about
\* the connection.
LeaveDialog ==
    /\ modals # <<>> /\ Top = "update"
    /\ update[Innermost].phase = "choosing"
    /\ update' = [update EXCEPT ![Innermost] = NoUpdate]
    /\ modals' = Below
    /\ declined' = (declined \/ ~updateEnabled)
    /\ lastPath' \in {lastPath, lastPath \/ disk # NoImage}
    /\ UNCHANGED <<conn, connectEnabled, updateEnabled, clicks, events, disk, tasks,
                   workerVars, commVars, lineVars, devVars, mishaps, waitVars>>

\* OK with a valid file starts the thread of FirmwareUpdate_runUi.
BeginUpdate ==
    /\ modals # <<>> /\ Top = "update"
    /\ update[Innermost].phase = "choosing"
    /\ disk # NoImage
    /\ lastPath' = TRUE
    /\ update' = [update EXCEPT ![Innermost] =
            [NoUpdate EXCEPT !.phase = "running", !.step = 1, !.loaded = disk]]
    /\ reporting' = reporting \cup {Innermost}
    /\ UNCHANGED <<conn, connectEnabled, updateEnabled, modals, declined, clicks,
                   events, disk, tasks, workerVars, stranded, commVars, lineVars,
                   devVars, mishaps>>

\* FirmwareUpdate_runUi returns, after its box if the update has failed; whatever
\* it returns, connectStartComm(true).
UpdateReturns ==
    /\ modals # <<>> /\ Top = "update"
    /\ update[Innermost].phase = "over"
    /\ update' = [update EXCEPT ![Innermost] = NoUpdate]
    /\ modals' = Below
    /\ tasks' = Append(tasks, "reconnect")
    /\ UNCHANGED <<conn, connectEnabled, updateEnabled, declined, lastPath, clicks,
                   events, disk, workerVars, commVars, lineVars, devVars, mishaps,
                   waitVars>>

\* A handler whose box would nest too deep for the bounds waits.
ShowBox(w) ==
    /\ Len(modals) < MaxModals
    /\ w = "noFirmware" =>
           Cardinality({i \in DOMAIN modals : modals[i] \in {"noFirmware", "update"}})
               < Depth
    /\ modals' = Append(modals, w)
    /\ UNCHANGED <<tasks, connectEnabled, updateEnabled>>

\* The success handler of connectStartComm: it reads what the device model
\* holds by now.
OnConnected ==
    IF bootloaderState = "app"
    THEN tasks' = Append(tasks, "load") /\ UNCHANGED <<modals, connectEnabled, updateEnabled>>
    ELSE ShowBox(IF Head(events) = "connect" THEN "noFirmware" ELSE "error")

\* deviceLoad's handler tells the user of firmware that should be updated, or
\* checks the status.
OnLoaded ==
    /\ connectEnabled' = TRUE
    /\ updateEnabled' = TRUE
    /\ \/ /\ Len(modals) < MaxModals
          /\ modals' = Append(modals, "required")
          /\ UNCHANGED tasks
       \/ /\ tasks' = IF conn THEN Append(tasks, "check") ELSE tasks
          /\ UNCHANGED modals

HandleEvent ==
    /\ ~Frozen
    /\ events # <<>>
    /\ events' = Tail(events)
    /\ \/ Head(events) \in {"connect", "reconnect"} /\ OnConnected
       \/ Head(events) = "load" /\ OnLoaded
       \/ Head(events) = "failed" /\ ShowBox("error")
    /\ UNCHANGED <<conn, declined, lastPath, clicks, disk, workerVars, update, commVars,
                   lineVars, devVars, mishaps, waitVars>>

\* The box of an error handler is followed by onDisconnect.
CloseErrorBox ==
    /\ modals # <<>> /\ Top = "error"
    /\ modals' = Below
    /\ OnDisconnect
    /\ AbortExchange
    /\ DropConnection
    /\ UNCHANGED <<declined, lastPath, clicks, events, disk, tasks, workerVars, update,
                   handling, lineVars, devVars, mishaps>>

\* The box that says that there is no firmware, by doFirmwareUpdate.
CloseNoFirmwareBox ==
    /\ modals # <<>> /\ Top = "noFirmware"
    /\ OpenDialog(Below)
    /\ UNCHANGED <<conn, connectEnabled, updateEnabled, declined, lastPath, clicks,
                   events, disk, tasks, workerVars, commVars, lineVars, devVars,
                   mishaps, waitVars>>

\* Nothing follows the box that a firmware update is required.
CloseRequiredBox ==
    /\ modals # <<>> /\ Top = "required"
    /\ modals' = Below
    /\ UNCHANGED <<conn, connectEnabled, updateEnabled, declined, lastPath, clicks,
                   events, disk, tasks, workerVars, update, commVars, lineVars, devVars,
                   mishaps, waitVars>>

StatusTimer ==
    /\ ~Frozen
    /\ conn
    /\ Len(tasks) < MaxTasks
    /\ tasks' = Append(tasks, "check")
    /\ UNCHANGED <<conn, uiVars, events, disk, workerVars, update, commVars, lineVars,
                   devVars, mishaps, waitVars>>

\* Too many status checks in a row have failed.
StatusGivesUp ==
    /\ ~Frozen
    /\ ~connectEnabled \/ updateEnabled
    /\ mishaps < MaxMishaps
    /\ mishaps' = mishaps + 1
    /\ OnDisconnect
    /\ AbortExchange
    /\ DropConnection
    /\ UNCHANGED <<modals, declined, lastPath, clicks, events, disk, tasks, workerVars,
                   update, handling, lineVars, devVars>>

User == DeviceConnect \/ DeviceConnectFails \/ PressUpdate

CloseWindow ==
    \/ LeaveDialog
    \/ BeginUpdate
    \/ UpdateReturns
    \/ CloseErrorBox
    \/ CloseNoFirmwareBox
    \/ CloseRequiredBox

-------------------------------------------------------------------------------
\* The worker, the update threads and the communication thread.

StartTask ==
    /\ task = "none"
    /\ tasks # <<>>
    /\ task' = Head(tasks)
    /\ step' = 1
    /\ tasks' = Tail(tasks)
    /\ UNCHANGED <<conn, uiVars, events, disk, bootloaderState, update, commVars,
                   lineVars, devVars, mishaps, waitVars>>

\* FirmwareUpdate_runUi calls progressDlg.Update with state.mtx locked, and the
\* handlers that run in there may open further windows: only while update u's
\* own window is the innermost can its thread get the mutex.
StateMutexFree(u) == modals # <<>> /\ Top = "update" /\ Innermost = u

OnProgress(u) ==
    /\ u \in reporting
    /\ StateMutexFree(u)
    /\ reporting' = reporting \ {u}
    /\ UNCHANGED <<conn, uiVars, events, disk, tasks, workerVars, update, stranded,
                   commVars, lineVars, devVars, mishaps>>

\* program() opens the hex file again.
OpenHexFile(u) ==
    /\ AtProgram(u)
    /\ u \notin reporting
    /\ update[u].source = NoImage
    /\ IF disk = NoImage THEN update' = [update EXCEPT ![u].phase = "hung"]
                         ELSE update' = [update EXCEPT ![u].source = disk]
    /\ UNCHANGED <<conn, uiVars, events, disk, tasks, workerVars, commVars, lineVars,
                   devVars, mishaps, waitVars>>

\* attemptTx: what has arrived of earlier frames is flushed.  A command may be
\* lost, on a full line it is.
Transmit(cmd) ==
    /\ LateReplies \/ toDev = <<>>
    /\ \E n \in IF LateReplies THEN 0 .. Len(toHost) ELSE {Len(toHost)} :
        /\ toHost' = SubSeq(toHost, n + 1, Len(toHost))
        /\ \/ UNCHANGED toDev
           \/ /\ Len(toDev) + Len(toHost) - n < Capacity
              /\ toDev' = Append(toDev, cmd)

\* handleQEntry's first attempt at a command.
HandleQEntry(r) ==
    /\ Sending(r)
    /\ conn
    /\ handling = Nobody
    /\ handling' = r
    /\ attempt' = 1
    /\ Transmit(CommandOf(r))
    /\ UNCHANGED <<conn, uiVars, events, disk, tasks, workerVars, update, devVars,
                   mishaps, waitVars>>

\* Mutant: the attempts are not counted.
Retry_NotCounted ==
    /\ handling # Nobody
    /\ conn
    /\ attempt < MaxAttempts
    /\ Transmit(CommandOf(handling))
    /\ UNCHANGED <<conn, uiVars, events, disk, tasks, workerVars, update, commVars,
                   devVars, mishaps, waitVars>>

\* handleQEntry's next iteration, after a timeout.
Retry ==
    /\ handling # Nobody
    /\ conn
    /\ attempt < MaxAttempts
    /\ attempt' = attempt + 1
    /\ Transmit(CommandOf(handling))
    /\ UNCHANGED <<conn, uiVars, events, disk, tasks, workerVars, update, handling,
                   devVars, mishaps, waitVars>>

\* What parse_int_le makes of a response where Bootloader_State is expected.
Parsed(f) == IF f.kind = "state" THEN {f.val} ELSE States

Expected(op) == IF op \in DataOps THEN "Data" ELSE "ACK"

\* Mutant: the checksum is not compared.
Satisfied_AnyChecksum(u, f) ==
    LET op == UpdateOps[update[u].step]
    IN  /\ f.type = Expected(op)
        /\ op = "State" => \E s \in Parsed(f) : s # "app"
        /\ op = "CRC" => f.kind = "crc"

\* Mutant: a refused command counts as carried out.
Satisfied_Nack(u, f) ==
    LET op == UpdateOps[update[u].step]
    IN  /\ f.type \in {Expected(op), "NACK"}
        /\ op = "State" => \E s \in Parsed(f) : s # "app"
        /\ op = "CRC" => f.kind = "crc" /\ f.val = update[u].loaded

\* What the update thread needs to go on.  Only a checksum has the value that
\* verify() expects.
Satisfied(u, f) ==
    LET op == UpdateOps[update[u].step]
    IN  /\ f.type = Expected(op)
        /\ op = "State" => \E s \in Parsed(f) : s # "app"
        /\ op = "CRC" => f.kind = "crc" /\ f.val = update[u].loaded

\* A response other than the one to Bootloader_State may be taken for either.
Unsatisfied(u, f) ==
    \/ ~Satisfied(u, f)
    \/ UpdateOps[update[u].step] = "State" /\ \E s \in Parsed(f) : s = "app"

\* Mutant: the last step is not recognised as the last.
UpdateGets_PastTheEnd(u, f) ==
    /\ \/ /\ Satisfied(u, f)
          /\ update' = [update EXCEPT ![u].step = @ + 1]
       \/ /\ Unsatisfied(u, f)
          /\ update' = [update EXCEPT ![u].phase = "over"]
    /\ UNCHANGED <<workerVars, events, waitVars>>

\* The update goes on, or ends: with the last response, or with an exception.
\* What it reports then is only seen when its window is the innermost.
UpdateGets(u, f) ==
    /\ \/ /\ Satisfied(u, f)
          /\ update[u].step < Len(UpdateOps)
          /\ update' = [update EXCEPT ![u].step = @ + 1]
          /\ \E calls \in ProgressBefore(update[u].step + 1) :
                 reporting' = IF calls THEN reporting \cup {u} ELSE reporting
       \/ /\ Satisfied(u, f)
          /\ update[u].step = Len(UpdateOps)
          /\ update' = [update EXCEPT ![u].phase = "over", ![u].success = TRUE]
          /\ UNCHANGED reporting
       \/ /\ Unsatisfied(u, f)
          /\ update' = [update EXCEPT ![u].phase = "over"]
          /\ UNCHANGED reporting
    /\ UNCHANGED <<workerVars, events, stranded>>

Goes(s) == step' = s /\ UNCHANGED <<task, events>>

\* The task ends and posts its handler.
Posts(e) == events' = Append(events, e) /\ task' = "none" /\ step' = 0

EndsQuietly == task' = "none" /\ step' = 0 /\ UNCHANGED events

\* Task_Connect::task: 1 State, 2 Version, 3 Reset, 4 State, 5 Version.
ConnectGets(f) ==
    CASE step \in {1, 4} /\ f.type = "Data" ->
            \E s \in Parsed(f) :
                /\ bootloaderState' = s
                /\ IF step = 4 /\ s = "boot" THEN Posts("failed") ELSE Goes(step + 1)
      [] step = 2 /\ f.kind = "version" /\ bootloaderState = "boot" ->
            Goes(3) /\ UNCHANGED bootloaderState
      [] step = 3 ->
            Goes(4) /\ UNCHANGED bootloaderState
      [] step \in {2, 5} /\ f.kind = "version" /\ ~(step = 2 /\ bootloaderState = "boot") ->
            Posts(task) /\ UNCHANGED bootloaderState
      [] OTHER ->
            Posts("failed") /\ UNCHANGED bootloaderState

\* Task_StatusCheck::task, the mode being asked for if the firmware knows it.
CheckGets(f) ==
    IF step = 1 /\ f.type = "Data"
    THEN \E s \in Parsed(f) :
            /\ bootloaderState' = s
            /\ (s = "app" /\ Goes(2)) \/ EndsQuietly
    ELSE EndsQuietly /\ UNCHANGED bootloaderState

LoadGets(f) ==
    /\ IF f.type = "Data" THEN Posts("load") ELSE Posts("failed")
    /\ UNCHANGED bootloaderState

WorkerGets(f) ==
    /\ CASE task = "check" -> CheckGets(f)
         [] task = "load"  -> LoadGets(f)
         [] OTHER          -> ConnectGets(f)
    /\ UNCHANGED <<update, waitVars>>

Gets(r, f) == IF r = Worker THEN WorkerGets(f) ELSE UpdateGets(r, f)

\* attemptRx finds a frame, whoever it is for; what has arrived behind it is
\* dropped.
RxAccept ==
    /\ handling # Nobody
    /\ conn
    /\ attempt <= MaxAttempts
    /\ toHost # <<>>
    /\ \E n \in 1 .. Len(toHost) : toHost' = SubSeq(toHost, n + 1, Len(toHost))
    /\ Gets(handling, Head(toHost))
    /\ handling' = Nobody
    /\ attempt' = 0
    /\ UNCHANGED <<conn, uiVars, disk, tasks, toDev, devVars, mishaps>>

\* The last attempt has timed out, those left could not be written, or the
\* connection is closed under it.
GiveUp ==
    /\ handling # Nobody
    /\ Gets(handling, NoReply)
    /\ handling' = Nobody
    /\ attempt' = 0
    /\ UNCHANGED <<conn, uiVars, disk, tasks, lineVars, devVars, mishaps>>

\* DeviceCommTask::send without a connection, or with every write failing.
SendFails(r) ==
    /\ Sending(r)
    /\ ~conn \/ handling = Nobody
    /\ Gets(r, NoReply)
    /\ UNCHANGED <<conn, uiVars, disk, tasks, commVars, lineVars, devVars, mishaps>>

CommThread == Retry \/ RxAccept \/ GiveUp

Send(r) == HandleQEntry(r) \/ SendFails(r)

-------------------------------------------------------------------------------
\* The device, the line and the file system.

BootMode(addr) == IF addr = NoImage THEN "boot" ELSE "app"

Reported ==
    IF mode = "app" THEN "app" ELSE IF resetAddr = NoImage THEN "empty" ELSE "boot"

\* The checksum of the flash: an image's only if every record is that image's.
Checksum == IF \A i \in Records : flash[i] = flash[1] THEN flash[1] ELSE "mixed"

\* Programming only clears bits: over other contents it leaves neither.
Programmed(old, new) == IF old \in {NoImage, new} THEN new ELSE "mixed"

Answer(f) ==
    /\ toDev' = Tail(toDev)
    /\ toHost' = Append(toHost, f)

DeviceExecutes ==
    LET cmd == Head(toDev)
        op  == cmd.op
        inBoot == mode = "boot"
    IN  /\ toDev # <<>>
        /\ \/ /\ op = "Enter"
              /\ mode' = "boot" /\ UNCHANGED <<flash, resetAddr>>
              /\ Answer(Ack)
           \/ /\ op = "Reset"
              /\ mode' = BootMode(resetAddr) /\ UNCHANGED <<flash, resetAddr>>
              /\ Answer(Ack)
           \/ /\ op = "EraseAll" /\ inBoot
              /\ flash' = [i \in Records |-> NoImage]
              /\ resetAddr' = NoImage
              /\ UNCHANGED mode
              /\ Answer(Ack)
           \/ /\ op = "ProgramHexRec" /\ inBoot
              /\ flash' = [flash EXCEPT ![cmd.rec] = Programmed(@, cmd.img)]
              /\ UNCHANGED <<mode, resetAddr>>
              /\ Answer(Ack)
           \/ /\ op = "ProgramResetAddr" /\ inBoot
              /\ resetAddr' = Programmed(resetAddr, cmd.img)
              /\ UNCHANGED <<mode, flash>>
              /\ Answer(Ack)
           \/ /\ op = "CRC" /\ inBoot
              /\ Answer(Data("crc", Checksum)) /\ UNCHANGED devVars
           \/ /\ op = "State"
              /\ Answer(Data("state", Reported)) /\ UNCHANGED devVars
           \/ /\ op = "Version"
              /\ Answer(Data("version", NoImage)) /\ UNCHANGED devVars
           \/ /\ op \in {"Mode", "Read"} /\ ~inBoot
              /\ Answer(Data("other", NoImage)) /\ UNCHANGED devVars
           \/ /\ op \notin {"State", "Version"}
              /\ Answer(Nack) /\ UNCHANGED devVars
        /\ UNCHANGED <<conn, uiVars, events, disk, tasks, workerVars, update, commVars,
                       mishaps, waitVars>>

LinkLoses ==
    /\ \/ toDev # <<>> /\ toDev' = Tail(toDev) /\ UNCHANGED toHost
       \/ toHost # <<>> /\ toHost' = Tail(toHost) /\ UNCHANGED toDev
    /\ UNCHANGED <<conn, uiVars, events, disk, tasks, workerVars, update, commVars,
                   devVars, mishaps, waitVars>>

\* The cable is pulled, which is also a loss of power, and plugged in again.
Unplug ==
    /\ mishaps < MaxMishaps
    /\ mishaps' = mishaps + 1
    /\ conn' = FALSE
    /\ mode' = BootMode(resetAddr)
    /\ toDev' = <<>>
    /\ toHost' = <<>>
    /\ AbortExchange
    /\ UNCHANGED <<uiVars, events, disk, tasks, workerVars, update, handling, flash,
                   resetAddr, waitVars>>

DiskChanges ==
    /\ mishaps < MaxMishaps
    /\ mishaps' = mishaps + 1
    /\ disk' \in (Images \cup {NoImage}) \ {disk}
    /\ UNCHANGED <<conn, uiVars, events, tasks, workerVars, update, commVars, lineVars,
                   devVars, waitVars>>

Next ==
    \/ User
    \/ CloseWindow
    \/ HandleEvent
    \/ StatusTimer
    \/ StatusGivesUp
    \/ StartTask
    \/ \E u \in Updaters : OnProgress(u) \/ OpenHexFile(u)
    \/ \E r \in 0 .. Depth : Send(r)
    \/ CommThread
    \/ DeviceExecutes
    \/ LinkLoses
    \/ Unplug
    \/ DiskChanges

Spec == Init /\ [][Next]_vars

\* The threads run, posted handlers are handled, and the user closes a window
\* at last; a stranded thread does not run any more.  The queue of the connection
\* is first in first out (Connection), so a sender is not overtaken for ever:
\* strong fairness of each.  Nothing is owed by the device, the line, or the
\* user's other actions.
FairSpec ==
    /\ Spec
    /\ WF_vars(CloseWindow)
    /\ WF_vars(HandleEvent)
    /\ WF_vars(StartTask)
    /\ WF_vars(CommThread)
    /\ \A u \in Updaters : WF_vars(OnProgress(u)) /\ WF_vars(OpenHexFile(u))
    /\ \A r \in 0 .. Depth : SF_vars(Send(r))

-------------------------------------------------------------------------------
UpdateStates ==
    [phase : {"idle", "choosing", "frozen", "running", "hung", "over"},
     step : 0 .. Len(UpdateOps), loaded : Images \cup {NoImage},
     source : Images \cup {NoImage}, success : BOOLEAN]

TypeOK ==
    /\ conn \in BOOLEAN /\ connectEnabled \in BOOLEAN /\ updateEnabled \in BOOLEAN
    /\ declined \in BOOLEAN /\ lastPath \in BOOLEAN
    /\ bootloaderState \in States
    /\ modals \in Seq({"error", "noFirmware", "required", "update"})
    /\ Len(modals) <= MaxModals
    /\ events \in Seq({"connect", "reconnect", "load", "failed"})
    /\ disk \in Images \cup {NoImage}
    /\ tasks \in Seq({"connect", "reconnect", "load", "check"})
    /\ task \in {"none", "connect", "reconnect", "load", "check"}
    /\ step \in 0 .. 5
    /\ update \in [Updaters -> UpdateStates]
    /\ reporting \subseteq Updaters /\ stranded \subseteq 0 .. Depth
    /\ handling \in 0 .. Nobody
    /\ attempt \in 0 .. MaxAttempts + 1
    /\ Len(toDev) + Len(toHost) <= Capacity
    /\ mode \in {"app", "boot"}
    /\ flash \in [Records -> Images \cup {NoImage, "mixed"}]
    /\ resetAddr \in Images \cup {NoImage, "mixed"}

\* The WSPRlite never starts firmware that is not one whole image: not after a
\* failed or interrupted update, not after the cable has been pulled at any
\* point, and not when a connecting task resets it while an update runs
\* (Task_FirmwareUpdate.cpp:54-88, Task_Connect.cpp:30-41).
BootsWholeImage ==
    mode = "app" =>
        resetAddr \in Images /\ \A i \in Records : flash[i] = resetAddr

\* From the response to EraseAll until the checksum has been accepted, the
\* device stays in its bootloader whatever happens to it, and says so: the
\* next connection finds "no firmware" and offers the update again.
ErasedStaysInBootloader ==
    \A u \in Updaters :
        update[u].phase = "running" /\ update[u].step \in 4 .. 4 + NumRecords =>
            mode = "boot" /\ resetAddr = NoImage

\* An update that reports success has written the image the user chose, all of
\* it, and made it bootable, even if the file changed under it or frames of
\* other senders came in between.
SuccessMeansNew ==
    \A u \in Updaters :
        update[u].phase = "over" /\ update[u].success =>
            /\ resetAddr = update[u].loaded
            /\ \A i \in Records : flash[i] = update[u].loaded

\* An update ends, in success or not, and its window closes, unless the hex
\* file is gone when it is opened once more (HexFileReader, HexFile.cpp:43-51), or
\* an update's message was in the queue of a connection that was dropped, which
\* leaves its window open for good (Device.cpp:325-348).
UpdateEnds ==
    \A u \in Updaters :
        update[u].phase = "running" ~>
            \/ update[u].phase = "idle"
            \/ Hung
            \/ stranded \cap Updaters # {}

\* Connect comes back, with three exceptions: the user leaves the dialog that a
\* device without firmware leads to, when doFirmwareUpdate just returns with
\* every button disabled (wsprlite-config.cpp:445-464); the hex file is gone; or
\* the worker or an update was sending when a connection was dropped, and waits
\* for ever, with every task behind it (Device.cpp:325-348).
ConnectReturnsUnlessDeclined ==
    ~connectEnabled ~> connectEnabled \/ declined \/ Hung \/ stranded # {}

===============================================================================
