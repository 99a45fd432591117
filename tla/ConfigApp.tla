------------------------------- MODULE ConfigApp -------------------------------
(***************************************************************************)
(* The configuration program around its device tasks: the main frame's     *)
(* buttons and event handlers on the UI thread, the task runner's worker   *)
(* thread, DeviceModel, which both share, and the EEPROM of the WSPRlites. *)
(* A save writes the variables one by one; whether the write that failed   *)
(* has taken effect is not known to it (module RemoteCall).                *)
(*                                                                         *)
(* What a DXplorer link proves to the server is the pair of callsign and   *)
(* ChangeCounter, so these two are what the module is about.  The other    *)
(* variables are represented by the number of the save that wrote them.    *)
(*                                                                         *)
(* The status checks only matter by giving up the connection, which may    *)
(* happen at any time here; message boxes are modal: the buttons are dead  *)
(* while one is open, but posted events are still handled.                 *)
(***************************************************************************)
EXTENDS Naturals, Sequences, FiniteSets

CONSTANTS
    Devices,       \* the WSPRlites that can be plugged in
    NoDevice,      \* deviceModel->conn and info.auth.id when there is none
    Callsigns,     \* what the user may type and an EEPROM may hold, "" included
    Upper,         \* StrUtil::toUpper, a function on Callsigns
    Canonical,     \* WsprCallsign::canonicalFormat, which trims as well
    Vars,          \* bound: the EEPROM variables an instance keeps track of
    MaxCounter,    \* bound: the largest ChangeCounter found in a device
    MaxSaves,      \* bound: how often Save is pressed
    MaxConnects,   \* bound: how often Connect is pressed
    MaxFailures    \* bound: failing sends, given up connections and kills

SaveOrder == <<"WSPR_callsign", "WSPR_locator", "WSPR_outputPower", "WSPR_paBias",
               "WSPR_reportPower", "WSPR_maxTxDuration", "WSPR_txPct",
               "WSPR_txFreq", "ChangeCounter", "CwId_Freq", "CwId_Callsign",
               "PaBiasSource", "WSPR_optionFlags">>

LoadOrder == <<"Version", "xoFreq", "DeviceId", "DeviceSecret", "ChangeCounter",
               "WSPR_callsign", "WSPR_locator", "WSPR_reportPower",
               "WSPR_outputPower", "WSPR_paBias", "WSPR_maxTxDuration",
               "WSPR_txPct", "WSPR_txFreq", "CwId_Freq", "CwId_Callsign",
               "PaBiasSource", "WSPR_optionFlags">>

ConnectOrder == <<"Bootloader_State", "Version">>

ASSUME ConfigAppAssumption ==
    /\ NoDevice \notin Devices
    /\ Upper \in [Callsigns -> Callsigns]
    /\ Canonical \in [Callsigns -> Callsigns]
    /\ \A c \in Callsigns : Upper[Canonical[c]] = Canonical[c]
    /\ \A c \in Callsigns : Canonical[Upper[c]] = Canonical[c]
    /\ "" \in Callsigns
    /\ {"WSPR_callsign", "ChangeCounter"} \subseteq Vars
    /\ Vars \subseteq {SaveOrder[i] : i \in 1 .. Len(SaveOrder)}
    /\ MaxCounter \in Nat /\ MaxSaves \in Nat /\ MaxConnects \in Nat /\ MaxFailures \in Nat

VARIABLES
    conn,            \* deviceModel->conn: the device it leads to
    config,          \* deviceModel->config
    authId,          \* deviceModel->info.auth.id
    connectEnabled,  \* btn_connect
    saveEnabled,     \* btn_save
    boxes,           \* open error boxes, each followed by onDisconnect
    events,          \* handlers posted to the UI thread by CallAfter
    tasks,           \* AsyncTaskRunner::q
    task,            \* the task the worker runs, or NoTask
    step,            \* the message it sends next
    stranded,        \* it waits for a response that nobody will give
    eeprom,          \* the variables stored in each device
    keys,            \* history: the identities DXplorer links were shown for
    torn,            \* history: a save stopped after it had changed a device
    raced,           \* history: the UI thread read a configuration while the
                     \* worker was assigning it, a data race
    crowded,         \* history: a save was pressed while two were under way
    saves, connects, failures

uiVars     == <<conn, connectEnabled, saveEnabled, boxes, keys, saves, connects>>
modelVars  == <<config, authId>>
workerVars == <<task, step, stranded>>
history    == <<torn, raced, crowded>>
vars       == <<uiVars, modelVars, workerVars, events, tasks, eeprom, history, failures>>

-------------------------------------------------------------------------------
Settings == Vars \ {"WSPR_callsign", "ChangeCounter"}

\* The DeviceConfig whose settings were made by the n-th save.
Config(callsign, counter, n) ==
    [v \in Vars |-> CASE v = "WSPR_callsign" -> callsign
                      [] v = "ChangeCounter" -> counter
                      [] OTHER -> n]

\* A new DeviceModel: nothing is loaded, so nothing of it is ever used.
BlankConfig == Config("", 0, 0)

\* The messages of an order that are about what an instance keeps track of.
Tracked(order) ==
    LET kept   == {i \in DOMAIN order : order[i] \in Vars \cup {"DeviceId"}}
        nth(k) == CHOOSE i \in kept : Cardinality({j \in kept : j <= i}) = k
    IN  [k \in 1 .. Cardinality(kept) |-> order[nth(k)]]

LoadMessages == Tracked(LoadOrder)
SaveMessages == Tracked(SaveOrder)

Messages(kind) ==
    CASE kind = "Connect" -> ConnectOrder
      [] kind = "Load"    -> LoadMessages
      [] kind = "Save"    -> SaveMessages

Task(kind, cfg) == [kind |-> kind, cfg |-> cfg, id |-> NoDevice]

NoTask == Task("none", BlankConfig)

\* A device is new, with counter 0 or 1, or has been configured before and then
\* has a callsign.
Stored ==
    {Config(c, n, 0) : c \in Callsigns, n \in 0 .. 1} \cup
    {Config(c, n, 0) : c \in Callsigns \ {""}, n \in 0 .. MaxCounter}

Init ==
    /\ conn = NoDevice
    /\ config = BlankConfig
    /\ authId = NoDevice
    /\ connectEnabled = TRUE
    /\ saveEnabled = FALSE
    /\ boxes = 0
    /\ events = <<>>
    /\ tasks = <<>>
    /\ task = NoTask
    /\ step = 0
    /\ stranded = FALSE
    /\ eeprom \in [Devices -> Stored]
    /\ keys = {}
    /\ torn = FALSE
    /\ raced = FALSE
    /\ crowded = FALSE
    /\ saves = 0
    /\ connects = 0
    /\ failures = 0

-------------------------------------------------------------------------------
Enqueue(t) == tasks' = Append(tasks, t)

Message == Messages(task.kind)[step]

Sending == ~stranded /\ task # NoTask /\ step <= Len(Messages(task.kind))

\* The last pointer to the connection is dropped: the entry of the worker that
\* is in its queue then, or is pushed by a worker that has read the pointer
\* before, may never be taken up (Stranded in Connection).
DropConnection ==
    /\ \/ UNCHANGED stranded
       \/ Sending /\ stranded' = TRUE
    /\ UNCHANGED <<task, step>>

\* Mutant: the Connect button is left as it was.
OnDisconnect_ConnectStaysOff ==
    /\ conn' = NoDevice
    /\ saveEnabled' = FALSE
    /\ UNCHANGED connectEnabled

\* onDisconnect: the buttons' state is part of it, the queued tasks are not.
OnDisconnect ==
    /\ conn' = NoDevice
    /\ connectEnabled' = TRUE
    /\ saveEnabled' = FALSE

\* deviceConnect; the task is the one of connectStartComm.
DeviceConnect(d) ==
    /\ connectEnabled
    /\ boxes = 0
    /\ connects < MaxConnects
    /\ connects' = connects + 1
    /\ conn' = d
    /\ connectEnabled' = FALSE
    /\ Enqueue(Task("Connect", BlankConfig))
    /\ DropConnection
    /\ UNCHANGED <<saveEnabled, boxes, keys, saves, modelVars, events, eeprom, history,
                   failures>>

\* deviceConnect when the port cannot be opened: the old connection is closed
\* already, and is dropped when the user has read the message.
DeviceConnectFails ==
    /\ connectEnabled
    /\ boxes = 0
    /\ connects < MaxConnects
    /\ connects' = connects + 1
    /\ conn' = NoDevice
    /\ connectEnabled' = FALSE
    /\ boxes' = boxes + 1
    /\ UNCHANGED <<saveEnabled, keys, saves, modelVars, workerVars, events, tasks,
                   eeprom, history, failures>>

\* The order in which a DeviceConfig is assigned, member by member, at the end of
\* Task_WSPRLoad and Task_WSPRSave, and how far the worker is with it.
Members == SaveMessages

Assigned == IF task.kind \in {"Load", "Save"} THEN step - Len(Messages(task.kind)) ELSE 0

\* The UI thread reads deviceModel->config, which no mutex protects.
ReadConfig ==
    /\ raced' = (raced \/ Assigned \in 2 .. Len(Members))
    /\ UNCHANGED torn

\* Mutant: every device is taken for a new one.
GetFields_AlwaysNew(cfg, typed, n) == Config(Canonical[typed], 2, n)

\* Box_WSPRSettings::getFields on a copy of the configuration: a new callsign is
\* counted, and the first configuration of a device makes the counter 2.
GetFields(cfg, typed, n) ==
    LET callsign == Canonical[typed]
        counted  == IF cfg["WSPR_callsign"] # callsign
                      THEN cfg["ChangeCounter"] + 1 ELSE cfg["ChangeCounter"]
    IN  Config(callsign, IF counted <= 1 THEN 2 ELSE counted, n)

\* The saves that are not done yet: of the running task, which has position 0, and
\* of the task runner's queue.
Unfinished(i) == IF i = 0 THEN task ELSE tasks[i]

SavesUnderWay == {i \in 0 .. Len(tasks) : Unfinished(i).kind = "Save"}

\* deviceSave, with a callsign that is valid, once the user has confirmed it.
DeviceSave(typed) ==
    /\ saveEnabled
    /\ boxes = 0
    /\ saves < MaxSaves
    /\ conn # NoDevice
    /\ Canonical[typed] # ""
    /\ saves' = saves + 1
    /\ saveEnabled' = FALSE
    /\ Enqueue(Task("Save", GetFields(config, typed, saves + 1)))
    /\ ReadConfig
    /\ crowded' = (crowded \/ \E i, j \in SavesUnderWay : i # j)
    /\ UNCHANGED <<conn, connectEnabled, boxes, keys, connects, modelVars, workerVars,
                   events, eeprom, failures>>

\* Four failed status checks in a row.
StatusGivesUp ==
    /\ conn # NoDevice
    /\ failures < MaxFailures
    /\ failures' = failures + 1
    /\ OnDisconnect
    /\ DropConnection
    /\ UNCHANGED <<boxes, keys, saves, connects, modelVars, events, tasks, eeprom,
                   history>>

-------------------------------------------------------------------------------
\* The next posted handler is a task's onSuccess or onError.
Handle(kind, success) ==
    /\ events # <<>>
    /\ Head(events) = [kind |-> kind, success |-> success]
    /\ events' = Tail(events)

\* connectStartComm's onSuccess calls deviceLoad.
OnConnectSuccess ==
    /\ Handle("Connect", TRUE)
    /\ Enqueue(Task("Load", BlankConfig))
    /\ UNCHANGED <<uiVars, modelVars, workerVars, eeprom, history, failures>>

\* updateStatsLink makes a link for whatever the DeviceModel holds.
ShowStatsLink ==
    /\ keys' = IF authId = NoDevice \/ config["WSPR_callsign"] = "" THEN keys
               ELSE keys \cup {[id |-> authId, counter |-> config["ChangeCounter"],
                                callsign |-> Upper[config["WSPR_callsign"]]]}
    /\ ReadConfig
    /\ UNCHANGED crowded

OnLoadSuccess ==
    /\ Handle("Load", TRUE)
    /\ connectEnabled' = TRUE
    /\ saveEnabled' = TRUE
    /\ ShowStatsLink
    /\ UNCHANGED <<conn, boxes, saves, connects, modelVars, workerVars, tasks, eeprom,
                   failures>>

OnSaveSuccess ==
    /\ Handle("Save", TRUE)
    /\ saveEnabled' = TRUE
    /\ ShowStatsLink
    /\ UNCHANGED <<conn, connectEnabled, boxes, saves, connects, modelVars, workerVars,
                   tasks, eeprom, failures>>

\* All three error handlers show the message first and disconnect afterwards.
OnError ==
    /\ \E kind \in {"Connect", "Load", "Save"} : Handle(kind, FALSE)
    /\ boxes' = boxes + 1
    /\ UNCHANGED <<conn, connectEnabled, saveEnabled, keys, saves, connects, modelVars,
                   workerVars, tasks, eeprom, history, failures>>

\* Mutant: after an error the program stays connected and offers to save again.
CloseBox_StaysConnected ==
    /\ boxes > 0
    /\ boxes' = boxes - 1
    /\ connectEnabled' = TRUE
    /\ saveEnabled' = TRUE
    /\ UNCHANGED <<conn, keys, saves, connects, modelVars, workerVars, events, tasks,
                   eeprom, history, failures>>

CloseBox ==
    /\ boxes > 0
    /\ boxes' = boxes - 1
    /\ OnDisconnect
    /\ DropConnection
    /\ UNCHANGED <<keys, saves, connects, modelVars, events, tasks, eeprom, history,
                   failures>>

HandleEvent ==
    \/ OnConnectSuccess
    \/ OnLoadSuccess
    \/ OnSaveSuccess
    \/ OnError
    \/ CloseBox

-------------------------------------------------------------------------------
\* AsyncTaskRunner::doWork; Task_WSPRLoad starts from a copy of the old values.
StartTask ==
    /\ task = NoTask
    /\ tasks # <<>>
    /\ task' = IF Head(tasks).kind = "Load" THEN Task("Load", config) ELSE Head(tasks)
    /\ tasks' = Tail(tasks)
    /\ step' = 1
    /\ UNCHANGED <<uiVars, modelVars, stranded, events, eeprom, history, failures>>

\* Mutants: the callsign is counted once more although getFields has counted it,
\* or the counter is written as getFields left it.
Outgoing_CountsAgain ==
    IF task.kind = "Save" /\ Message = "ChangeCounter"
       /\ Upper[task.cfg["WSPR_callsign"]] # Upper[config["WSPR_callsign"]]
    THEN [task.cfg EXCEPT !["ChangeCounter"] = @ + 1]
    ELSE task.cfg

Outgoing_AsGiven == task.cfg

\* Task_WSPRSave looks at the counter once more before it writes it.
Outgoing ==
    IF task.kind = "Save" /\ Message = "ChangeCounter"
       /\ Upper[task.cfg["WSPR_callsign"]] # Upper[config["WSPR_callsign"]]
       /\ task.cfg["ChangeCounter"] <= config["ChangeCounter"]
    THEN [task.cfg EXCEPT !["ChangeCounter"] = config["ChangeCounter"] + 1]
    ELSE task.cfg

\* The device carries out a write; every other message leaves it alone.
Effect ==
    eeprom' = IF task.kind = "Save"
                THEN [eeprom EXCEPT ![conn][Message] = Outgoing[Message]]
                ELSE eeprom

\* A send that is answered.  It goes wherever deviceModel->conn leads now.
SendAccepted ==
    /\ Sending
    /\ conn # NoDevice
    /\ Effect
    /\ step' = step + 1
    /\ \/ task.kind = "Save" /\ task' = [task EXCEPT !.cfg = Outgoing]
       \/ /\ task.kind = "Load" /\ Message = "DeviceId"
          /\ task' = [task EXCEPT !.id = conn]
       \/ /\ task.kind = "Load" /\ Message # "DeviceId"
          /\ task' = [task EXCEPT !.cfg[Message] = eeprom[conn][Message]]
       \/ task.kind = "Connect" /\ UNCHANGED task
    /\ UNCHANGED <<uiVars, modelVars, stranded, events, tasks, history, failures>>

\* AsyncTask::runSync posts the handler of the outcome.
Finish(success) ==
    /\ task' = NoTask
    /\ step' = 0
    /\ events' = Append(events, [kind |-> task.kind, success |-> success])

\* A send that is not: there is no connection, or the link failed or the device
\* refused, and then the write may have taken effect all the same.  That it may do
\* so later changes nothing: no later message overtakes it.
SendFails ==
    /\ Sending
    /\ \/ /\ conn = NoDevice
          /\ UNCHANGED <<eeprom, failures>>
       \/ /\ conn # NoDevice
          /\ failures < MaxFailures
          /\ failures' = failures + 1
          /\ Effect \/ UNCHANGED eeprom
    /\ torn' = (torn \/ (task.kind = "Save" /\ (step > 1 \/ eeprom' # eeprom)))
    /\ Finish(FALSE)
    /\ UNCHANGED <<uiVars, modelVars, stranded, tasks, raced, crowded>>

\* The last statements of Task_WSPRLoad and of Task_WSPRSave.
AssignMember ==
    /\ Assigned \in 1 .. Len(Members)
    /\ config' = [config EXCEPT ![Members[Assigned]] = task.cfg[Members[Assigned]]]
    /\ step' = step + 1
    /\ UNCHANGED <<uiVars, authId, task, stranded, events, tasks, eeprom, history,
                   failures>>

\* Task_WSPRLoad assigns the DeviceInfo too; then onSuccess posts the handler.
TaskSucceeds ==
    /\ \/ task.kind = "Connect" /\ step > Len(ConnectOrder)
       \/ Assigned > Len(Members)
    /\ authId' = IF task.kind = "Load" THEN task.id ELSE authId
    /\ Finish(TRUE)
    /\ UNCHANGED <<uiVars, config, stranded, tasks, eeprom, history, failures>>

Worker == StartTask \/ SendAccepted \/ SendFails \/ AssignMember \/ TaskSucceeds

\* The process is killed, or the computer loses its power, and is started again.
Killed ==
    /\ failures < MaxFailures
    /\ failures' = failures + 1
    /\ torn' = (torn \/ (task.kind = "Save" /\ step > 1))
    /\ OnDisconnect
    /\ config' = BlankConfig
    /\ authId' = NoDevice
    /\ boxes' = 0
    /\ events' = <<>>
    /\ tasks' = <<>>
    /\ task' = NoTask
    /\ step' = 0
    /\ stranded' = FALSE
    /\ UNCHANGED <<eeprom, keys, saves, connects, raced, crowded>>

-------------------------------------------------------------------------------
Next ==
    \/ \E d \in Devices : DeviceConnect(d)
    \/ DeviceConnectFails
    \/ \E c \in Callsigns : DeviceSave(c)
    \/ StatusGivesUp
    \/ HandleEvent
    \/ Worker
    \/ Killed

Spec == Init /\ [][Next]_vars

\* The worker's sends return, unless it is stranded (module Connection), the UI
\* thread handles what is posted to it, and the user closes a message box in the
\* end.
FairSpec == Spec /\ WF_vars(HandleEvent) /\ WF_vars(Worker)

-------------------------------------------------------------------------------
Values(v) ==
    CASE v = "WSPR_callsign" -> Callsigns
      [] v = "ChangeCounter" -> 0 .. MaxCounter + MaxSaves + 1
      [] OTHER -> 0 .. MaxSaves

IsConfig(c) == DOMAIN c = Vars /\ \A v \in Vars : c[v] \in Values(v)

IsTask(t) ==
    /\ DOMAIN t = {"kind", "cfg", "id"}
    /\ t.kind \in {"Connect", "Load", "Save"}
    /\ IsConfig(t.cfg)
    /\ t.id \in Devices \cup {NoDevice}

TypeOK ==
    /\ conn \in Devices \cup {NoDevice}
    /\ IsConfig(config)
    /\ authId \in Devices \cup {NoDevice}
    /\ connectEnabled \in BOOLEAN
    /\ saveEnabled \in BOOLEAN
    /\ boxes \in Nat
    /\ events \in Seq([kind : {"Connect", "Load", "Save"}, success : BOOLEAN])
    /\ \A i \in 1 .. Len(tasks) : IsTask(tasks[i])
    /\ task = NoTask \/ IsTask(task)
    /\ step \in Nat /\ stranded \in BOOLEAN
    /\ \A d \in Devices : IsConfig(eeprom[d])
    /\ torn \in BOOLEAN /\ raced \in BOOLEAN /\ crowded \in BOOLEAN

\* DXplorer honours only the first link it sees for a value of the counter
\* (dxplorer.cpp:50): no two links of a device share the counter and differ in
\* the callsign.
KeyUnique ==
    \A k1, k2 \in keys : k1.id = k2.id /\ k1.counter = k2.counter => k1 = k2

\* Links clash only after a save that was cut short, through the data race, or
\* after a third save was pressed while two were under way: whatever else the user,
\* the link and the process do, every new callsign gets a value of the counter that
\* no earlier link had.
KeyClashOnlyIfTorn == torn \/ raced \/ crowded \/ KeyUnique

Lowered(d) == eeprom'[d]["ChangeCounter"] < eeprom[d]["ChangeCounter"]

\* ChangeCounter counts how often the callsign was changed (cfgvars.md:7).  With
\* one device, a save takes the counter back only if a save before it was cut
\* short, the data race struck, or three saves were under way at once: two saves
\* in a row, a reconnection between them and a load that was queued before either
\* leave it alone.  Of three, the last may find the callsign that its own counter
\* belonged to two saves ago, and Task_WSPRSave only corrects a counter when the
\* callsign is another one.
LoweredOnlyIfTorn == [][(\E d \in Devices : Lowered(d)) => torn \/ raced \/ crowded]_vars

Quiet == task = NoTask /\ tasks = <<>> /\ events = <<>> /\ boxes = 0

\* When everything has settled and Save can be pressed, the program knows what
\* the device holds, whatever failed on the way: the next save starts from there.
SettledInSync ==
    Quiet /\ saveEnabled /\ conn # NoDevice =>
        config = eeprom[conn] /\ authId = conn

\* After Connect is pressed it can be pressed again some time, whatever link and
\* device do.  The one exception: the worker was sending when a connection was
\* dropped, and waits for ever with the task of connectStartComm behind it
\* (Device.cpp:325-348).
ConnectReturns == ~connectEnabled ~> connectEnabled \/ stranded
===============================================================================
