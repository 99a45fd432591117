---------------------------- MODULE ConfigApp_proofs ----------------------------
(***************************************************************************)
(* Proofs about module ConfigApp: when the program has settled, it knows   *)
(* what the connected device holds, and the counter stays in its range,    *)
(* for any devices, callsigns, variables, saves, connections and failures; *)
(* with one device, the links never clash and the counter is never taken   *)
(* back, unless one of the three things happened that the history          *)
(* variables remember.                                                     *)
(***************************************************************************)
EXTENDS ConfigApp, SequenceTheorems, FiniteSetTheorems, TLAPS

Kinds == {"Connect", "Load", "Save"}

ConfigSet == {c \in [Vars -> Callsigns \cup Nat] : c["ChangeCounter"] \in Nat}

TaskSet == [kind : Kinds, cfg : ConfigSet, id : Devices \cup {NoDevice}]

EventSet == [kind : Kinds, success : BOOLEAN]

-------------------------------------------------------------------------------
(* The parts of the inductive invariant.                                     *)

Types ==
    /\ conn \in Devices \cup {NoDevice}
    /\ config \in ConfigSet
    /\ eeprom \in [Devices -> ConfigSet]
    /\ boxes \in Nat
    /\ saves \in Nat
    /\ events \in Seq(EventSet)
    /\ tasks \in Seq(TaskSet)
    /\ task = NoTask \/ task \in TaskSet
    /\ step \in Nat
    /\ task # NoTask => step >= 1

EventCures ==
    \E i \in 1 .. Len(events) : events[i].kind = "Connect" \/ ~events[i].success

TaskCures == \E i \in 1 .. Len(tasks) : tasks[i].kind \in {"Connect", "Load"}

\* Something is under way that will load the device anew, or drop it.
Cure == boxes > 0 \/ EventCures \/ TaskCures \/ task.kind = "Connect"

\* What the running task has sent or read is what the device holds.
SentAgrees(dev, order) ==
    \A i \in 1 .. Len(order) :
        i < step /\ order[i] \in Vars => eeprom[dev][order[i]] = task.cfg[order[i]]

\* What it has assigned is in the DeviceModel.
AssignedAgrees(order) ==
    \A j \in 1 .. Len(Members) :
        j < step - Len(order) /\ Members[j] \in Vars =>
            config[Members[j]] = task.cfg[Members[j]]

IdRead(dev) ==
    \A i \in 1 .. Len(LoadMessages) :
        i < step /\ LoadMessages[i] = "DeviceId" => task.id = dev

\* The program knows what the connected device holds, or will when the task ends.
InStep ==
    /\ task = NoTask => config = eeprom[conn] /\ authId = conn
    /\ task.kind = "Load" =>
           IdRead(conn) /\ SentAgrees(conn, LoadMessages) /\ AssignedAgrees(LoadMessages)
    /\ task.kind = "Save" =>
           authId = conn /\ SentAgrees(conn, SaveMessages) /\ AssignedAgrees(SaveMessages)

SettledInv == Types /\ (conn # NoDevice => Cure \/ InStep)

-------------------------------------------------------------------------------
(* The messages of a task.                                                   *)

\* Every message of an order that an instance keeps track of is among its messages.
LEMMA TrackedFacts ==
    ASSUME NEW order, NEW n \in Nat, DOMAIN order = 1 .. n
    PROVE  /\ Len(Tracked(order)) \in Nat
           /\ \A m \in 1 .. n : order[m] \in Vars \cup {"DeviceId"} =>
                  \E k \in 1 .. Len(Tracked(order)) : Tracked(order)[k] = order[m]
<1> DEFINE kept == {i \in DOMAIN order : order[i] \in Vars \cup {"DeviceId"}}
           upTo(m) == {j \in kept : j <= m}
           nth(k) == CHOOSE i \in kept : Cardinality(upTo(i)) = k
<1>1. IsFiniteSet(kept) /\ kept \subseteq 1 .. n
    <2>1. IsFiniteSet(1 .. n)
        BY FS_Interval
    <2>2. kept \in SUBSET (1 .. n)
        OBVIOUS
    <2> QED
        BY ONLY <2>1, <2>2, FS_Subset
<1>2. Cardinality(kept) \in Nat
    BY ONLY <1>1, FS_CardinalityType
<1>3. Tracked(order) = [k \in 1 .. Cardinality(kept) |-> order[nth(k)]]
    BY DEF Tracked
<1>4. Len(Tracked(order)) = Cardinality(kept)
    <2> HIDE DEF kept, nth
    <2> QED
        BY <1>2, <1>3
<1>5. ASSUME NEW m \in kept
      PROVE  /\ IsFiniteSet(upTo(m))
             /\ Cardinality(upTo(m)) \in 1 .. Cardinality(kept)
    <2>1. upTo(m) \in SUBSET kept /\ m \in upTo(m)
        BY <1>1
    <2> HIDE DEF kept, upTo
    <2>2. IsFiniteSet(upTo(m)) /\ Cardinality(upTo(m)) <= Cardinality(kept)
        BY ONLY <1>1, <2>1, FS_Subset
    <2>3. Cardinality(upTo(m)) \in Nat
        BY ONLY <2>2, FS_CardinalityType
    <2>4. Cardinality(upTo(m)) # 0
        BY ONLY <2>1, <2>2, FS_EmptySet
    <2> QED
        BY <1>2, <2>2, <2>3, <2>4
<1>6. ASSUME NEW a \in kept, NEW b \in kept, a < b
      PROVE  Cardinality(upTo(a)) # Cardinality(upTo(b))
    <2>1. upTo(a) \in SUBSET upTo(b)
        BY <1>1, <1>6
    <2>2. upTo(a) # upTo(b)
        <3>1. b \in upTo(b) /\ b \notin upTo(a)
            BY <1>1, <1>6
        <3> HIDE DEF upTo
        <3> QED
            BY ONLY <3>1
    <2>3. IsFiniteSet(upTo(b))
        BY <1>5
    <2> HIDE DEF kept, upTo
    <2> QED
        BY ONLY <2>1, <2>2, <2>3, FS_Subset
<1>7. ASSUME NEW m \in kept
      PROVE  nth(Cardinality(upTo(m))) = m
    <2> DEFINE i == nth(Cardinality(upTo(m)))
    <2>1. i \in kept /\ Cardinality(upTo(i)) = Cardinality(upTo(m))
        <3> HIDE DEF kept, upTo
        <3> QED
            OBVIOUS
    <2>2. i \in Nat /\ m \in Nat
        BY <1>1, <2>1
    <2> HIDE DEF kept, upTo, nth, i
    <2>3. ~(i < m) /\ ~(m < i)
        BY ONLY <1>6, <2>1, m \in kept
    <2>4. i = m
        BY ONLY <2>2, <2>3
    <2> QED
        BY <2>4 DEF i
<1>8. ASSUME NEW m \in 1 .. n, order[m] \in Vars \cup {"DeviceId"}
      PROVE  \E k \in 1 .. Len(Tracked(order)) : Tracked(order)[k] = order[m]
    <2>1. m \in kept
        BY <1>8
    <2> DEFINE k == Cardinality(upTo(m))
    <2>2. k \in 1 .. Cardinality(kept) /\ nth(k) = m
        BY <1>5, <1>7, <2>1
    <2> HIDE DEF kept, upTo, nth, k
    <2>3. Tracked(order)[k] = order[m]
        BY ONLY <1>3, <2>2
    <2> QED
        BY ONLY <1>4, <2>2, <2>3
<1> QED
    BY <1>2, <1>4, <1>8

\* Both tasks send a message about every variable, and a load asks who the device is.
LEMMA MessagesFacts ==
    /\ Len(LoadMessages) \in Nat
    /\ Len(SaveMessages) \in Nat
    /\ \A v \in Vars : \E k \in 1 .. Len(LoadMessages) : LoadMessages[k] = v
    /\ \A v \in Vars : \E k \in 1 .. Len(SaveMessages) : SaveMessages[k] = v
    /\ \E k \in 1 .. Len(LoadMessages) : LoadMessages[k] = "DeviceId"
    /\ "DeviceId" \notin Vars
<1>1. DOMAIN SaveOrder = 1 .. 13 /\ Len(SaveOrder) = 13
    BY DEF SaveOrder
<1>2. DOMAIN LoadOrder = 1 .. 17 /\ Len(LoadOrder) = 17
    BY DEF LoadOrder
<1>3. \A v \in Vars : \E i \in 1 .. 13 : SaveOrder[i] = v
    <2>1. Vars \subseteq {SaveOrder[i] : i \in 1 .. Len(SaveOrder)}
        BY ConfigAppAssumption
    <2> QED
        BY ONLY <1>1, <2>1
<1>4. ASSUME NEW i \in 1 .. 13
      PROVE  \E k \in 1 .. 17 : LoadOrder[k] = SaveOrder[i]
    <2>1. \A k \in {5, 6, 7, 8, 9, 10, 11, 12, 13, 14, 15, 16, 17} : k \in 1 .. 17
        OBVIOUS
    <2>2. \/ i = 1 \/ i = 2 \/ i = 3 \/ i = 4 \/ i = 5 \/ i = 6 \/ i = 7
          \/ i = 8 \/ i = 9 \/ i = 10 \/ i = 11 \/ i = 12 \/ i = 13
        OBVIOUS
    <2>3. /\ SaveOrder[1] = LoadOrder[6] /\ SaveOrder[2] = LoadOrder[7]
          /\ SaveOrder[3] = LoadOrder[9] /\ SaveOrder[4] = LoadOrder[10]
          /\ SaveOrder[5] = LoadOrder[8] /\ SaveOrder[6] = LoadOrder[11]
          /\ SaveOrder[7] = LoadOrder[12] /\ SaveOrder[8] = LoadOrder[13]
          /\ SaveOrder[9] = LoadOrder[5] /\ SaveOrder[10] = LoadOrder[14]
          /\ SaveOrder[11] = LoadOrder[15] /\ SaveOrder[12] = LoadOrder[16]
          /\ SaveOrder[13] = LoadOrder[17]
        BY DEF SaveOrder, LoadOrder
    <2> QED
        BY ONLY <2>1, <2>2, <2>3
<1>5. \A v \in Vars : \E k \in 1 .. 17 : LoadOrder[k] = v
    BY ONLY <1>3, <1>4
<1>6. LoadOrder[3] = "DeviceId"
    BY DEF LoadOrder
<1>7. "DeviceId" \notin Vars
    <2>1. \A i \in 1 .. 13 : SaveOrder[i] # "DeviceId"
        BY DEF SaveOrder
    <2> QED
        BY ONLY <1>3, <2>1
<1>8. /\ Len(SaveMessages) \in Nat
      /\ \A m \in 1 .. 13 : SaveOrder[m] \in Vars \cup {"DeviceId"} =>
             \E k \in 1 .. Len(SaveMessages) : SaveMessages[k] = SaveOrder[m]
    BY ONLY <1>1, TrackedFacts, 13 \in Nat DEF SaveMessages
<1>9. /\ Len(LoadMessages) \in Nat
      /\ \A m \in 1 .. 17 : LoadOrder[m] \in Vars \cup {"DeviceId"} =>
             \E k \in 1 .. Len(LoadMessages) : LoadMessages[k] = LoadOrder[m]
    BY ONLY <1>2, TrackedFacts, 17 \in Nat DEF LoadMessages
<1>10. ASSUME NEW v \in Vars
       PROVE  \E k \in 1 .. Len(SaveMessages) : SaveMessages[k] = v
    <2>1. PICK m \in 1 .. 13 : SaveOrder[m] = v
        BY ONLY <1>3, v \in Vars
    <2> QED
        BY ONLY <1>8, <2>1, v \in Vars
<1>11. ASSUME NEW v \in Vars
       PROVE  \E k \in 1 .. Len(LoadMessages) : LoadMessages[k] = v
    <2>1. PICK m \in 1 .. 17 : LoadOrder[m] = v
        BY ONLY <1>5, v \in Vars
    <2> QED
        BY ONLY <1>9, <2>1, v \in Vars
<1>12. \E k \in 1 .. Len(LoadMessages) : LoadMessages[k] = "DeviceId"
    <2>1. 3 \in 1 .. 17 /\ LoadOrder[3] \in Vars \cup {"DeviceId"}
        BY ONLY <1>6
    <2> QED
        BY ONLY <1>6, <1>9, <2>1
<1> QED
    BY ONLY <1>7, <1>8, <1>9, <1>10, <1>11, <1>12
-------------------------------------------------------------------------------
(* Configurations and sequences.                                             *)

LEMMA ConfigIsTyped ==
    ASSUME NEW callsign \in Callsigns, NEW counter \in Nat, NEW n \in Nat
    PROVE  Config(callsign, counter, n) \in ConfigSet
<1> DEFINE c == Config(callsign, counter, n)
<1>1. "WSPR_callsign" \in Vars /\ "ChangeCounter" \in Vars
    BY ConfigAppAssumption
<1>2. c \in [Vars -> Callsigns \cup Nat]
    BY DEF Config
<1>3. c["ChangeCounter"] = counter
    BY <1>1 DEF Config
<1> QED
    BY <1>2, <1>3 DEF ConfigSet

LEMMA BlankIsTyped == BlankConfig \in ConfigSet
<1>1. "" \in Callsigns /\ 0 \in Nat
    BY ConfigAppAssumption
<1> QED
    BY <1>1, ConfigIsTyped DEF BlankConfig

\* One variable is taken over from another configuration; a message that is about
\* no variable of the instance changes nothing.
LEMMA TakenOver ==
    ASSUME NEW c \in ConfigSet, NEW d \in ConfigSet, NEW m
    PROVE  LET e == [c EXCEPT ![m] = d[m]]
           IN  /\ e \in ConfigSet
               /\ m \in Vars => e[m] = d[m]
               /\ \A v \in Vars : v # m => e[v] = c[v]
<1> DEFINE e == [c EXCEPT ![m] = d[m]]
<1>1. /\ c \in [Vars -> Callsigns \cup Nat] /\ c["ChangeCounter"] \in Nat
      /\ d \in [Vars -> Callsigns \cup Nat] /\ d["ChangeCounter"] \in Nat
      /\ "ChangeCounter" \in Vars
    BY ConfigAppAssumption DEF ConfigSet
<1>2. e \in [Vars -> Callsigns \cup Nat]
    BY <1>1
<1>3. \A v \in Vars : e[v] = IF v = m THEN d[m] ELSE c[v]
    BY <1>1
<1>4. e["ChangeCounter"] \in Nat
    BY <1>1, <1>3
<1> QED
    BY <1>2, <1>3, <1>4 DEF ConfigSet

LEMMA AppendFacts ==
    ASSUME NEW S, NEW s \in Seq(S), NEW e \in S, NEW t, t = Append(s, e)
    PROVE  /\ t \in Seq(S)
           /\ \A i \in 1 .. Len(s) : i \in 1 .. Len(t) /\ t[i] = s[i]
           /\ Len(t) \in 1 .. Len(t) /\ t[Len(t)] = e
<1>1. Len(s) \in Nat
    BY LenProperties
<1> QED
    BY <1>1, AppendProperties

LEMMA TailFacts ==
    ASSUME NEW S, NEW s \in Seq(S), s # <<>>
    PROVE  /\ Tail(s) \in Seq(S)
           /\ Head(s) \in S /\ Head(s) = s[1] /\ 1 \in 1 .. Len(s)
           /\ \A i \in 1 .. Len(s) :
                  i # 1 => i - 1 \in 1 .. Len(Tail(s)) /\ Tail(s)[i - 1] = s[i]
<1>1. Len(s) \in Nat \ {0}
    BY EmptySeq
<1>2. /\ Tail(s) \in Seq(S) /\ Head(s) \in S /\ Len(Tail(s)) = Len(s) - 1
      /\ \A i \in 1 .. Len(Tail(s)) : Tail(s)[i] = s[i + 1]
    BY HeadTailProperties
<1>3. Head(s) = s[1]
    OBVIOUS
<1>4. ASSUME NEW i \in 1 .. Len(s), i # 1
      PROVE  i - 1 \in 1 .. Len(Tail(s)) /\ Tail(s)[i - 1] = s[i]
    <2>1. i - 1 \in 1 .. Len(Tail(s)) /\ i = (i - 1) + 1
        BY <1>1, <1>2, <1>4
    <2> QED
        BY <1>2, <2>1
<1> QED
    BY <1>1, <1>2, <1>3, <1>4

LEMMA TaskIsTyped ==
    ASSUME NEW kind \in Kinds, NEW cfg \in ConfigSet
    PROVE  /\ Task(kind, cfg) \in TaskSet
           /\ Task(kind, cfg).kind = kind
           /\ Task(kind, cfg).cfg = cfg
           /\ Task(kind, cfg) # NoTask
BY DEF Task, TaskSet, NoTask, Kinds

LEMMA NoTaskFacts ==
    ASSUME Types
    PROVE  /\ task = NoTask <=> task.kind \notin Kinds
           /\ task # NoTask => task \in TaskSet /\ task.kind \in Kinds
                             /\ task.cfg \in ConfigSet /\ step >= 1
BY DEF Types, NoTask, Task, TaskSet, Kinds

-------------------------------------------------------------------------------
(* The pieces of a step.                                                     *)

\* Whatever does not touch the device, the DeviceModel and the worker.
LEMMA InStepKept ==
    ASSUME InStep, UNCHANGED <<conn, config, authId, task, step, eeprom>>
    PROVE  InStep'
BY DEF InStep, SentAgrees, AssignedAgrees, IdRead

LEMMA EnqueueCures ==
    ASSUME Types, NEW t \in TaskSet, Enqueue(t)
    PROVE  /\ tasks' \in Seq(TaskSet)
           /\ TaskCures => TaskCures'
           /\ t.kind \in {"Connect", "Load"} => TaskCures'
<1>1. tasks \in Seq(TaskSet) /\ tasks' = Append(tasks, t)
    BY DEF Types, Enqueue
<1>2. /\ tasks' \in Seq(TaskSet)
      /\ \A i \in 1 .. Len(tasks) : i \in 1 .. Len(tasks') /\ tasks'[i] = tasks[i]
      /\ Len(tasks') \in 1 .. Len(tasks') /\ tasks'[Len(tasks')] = t
    BY ONLY <1>1, t \in TaskSet, AppendFacts
<1> QED
    BY <1>2 DEF TaskCures

LEMMA HandleCures ==
    ASSUME Types, NEW kind \in Kinds, NEW success \in BOOLEAN, Handle(kind, success)
    PROVE  /\ events' \in Seq(EventSet)
           /\ kind # "Connect" /\ success /\ EventCures => EventCures'
<1>1. /\ events \in Seq(EventSet) /\ events # <<>> /\ events' = Tail(events)
      /\ Head(events).kind = kind /\ Head(events).success = success
    BY DEF Types, Handle
<1>2. /\ events' \in Seq(EventSet) /\ Head(events) = events[1]
      /\ \A i \in 1 .. Len(events) :
             i # 1 => i - 1 \in 1 .. Len(events') /\ events'[i - 1] = events[i]
    BY ONLY <1>1, TailFacts
<1>3. ASSUME kind # "Connect", success, EventCures
      PROVE  EventCures'
    <2>1. PICK i \in 1 .. Len(events) :
              events[i].kind = "Connect" \/ ~events[i].success
        BY <1>3 DEF EventCures
    <2>2. i # 1
        BY <1>1, <1>2, <1>3, <2>1
    <2>3. i - 1 \in 1 .. Len(events') /\ events'[i - 1] = events[i]
        BY <1>2, <2>2
    <2> QED
        BY <2>1, <2>3 DEF EventCures
<1> QED
    BY <1>2, <1>3

\* A task that has ended: the next one may start, and its outcome is posted.
LEMMA FinishCures ==
    ASSUME Types, task # NoTask, NEW success \in BOOLEAN, Finish(success)
    PROVE  /\ events' \in Seq(EventSet) /\ task' = NoTask /\ step' = 0
           /\ EventCures => EventCures'
           /\ task.kind = "Connect" \/ ~success => EventCures'
<1> DEFINE e == [kind |-> task.kind, success |-> success]
<1>1. events \in Seq(EventSet) /\ events' = Append(events, e)
      /\ task' = NoTask /\ step' = 0
    BY DEF Types, Finish
<1>2. e \in EventSet /\ e.kind = task.kind /\ e.success = success
    BY NoTaskFacts DEF EventSet
<1> HIDE DEF e
<1>3. /\ events' \in Seq(EventSet)
      /\ \A i \in 1 .. Len(events) : i \in 1 .. Len(events') /\ events'[i] = events[i]
      /\ Len(events') \in 1 .. Len(events') /\ events'[Len(events')] = e
    BY ONLY <1>1, <1>2, AppendFacts
<1> QED
    BY <1>1, <1>2, <1>3 DEF EventCures
-------------------------------------------------------------------------------
(* The steps of the UI thread.                                               *)

LEMMA DeviceConnectStep ==
    ASSUME SettledInv, NEW d \in Devices, DeviceConnect(d)
    PROVE  SettledInv'
<1> DEFINE t == Task("Connect", BlankConfig)
<1>1. t \in TaskSet /\ t.kind = "Connect"
    BY BlankIsTyped, TaskIsTyped DEF Kinds
<1>2. Types /\ Enqueue(t)
    BY DEF SettledInv, DeviceConnect
<1> HIDE DEF t
<1>3. tasks' \in Seq(TaskSet) /\ TaskCures'
    BY <1>1, <1>2, EnqueueCures
<1>4. Types'
    BY <1>2, <1>3 DEF Types, DeviceConnect, DropConnection, modelVars
<1> QED
    BY <1>3, <1>4 DEF SettledInv, Cure

LEMMA DeviceConnectFailsStep ==
    ASSUME SettledInv, DeviceConnectFails
    PROVE  SettledInv'
BY DEF SettledInv, Types, DeviceConnectFails, modelVars, workerVars

LEMMA DeviceSaveStep ==
    ASSUME SettledInv, NEW typed \in Callsigns, DeviceSave(typed)
    PROVE  SettledInv'
<1> DEFINE callsign == Canonical[typed]
           counted == IF config["WSPR_callsign"] # callsign
                        THEN config["ChangeCounter"] + 1 ELSE config["ChangeCounter"]
           n == saves + 1
           t == Task("Save", GetFields(config, typed, saves + 1))
<1>1. Types /\ Enqueue(t)
    BY DEF SettledInv, DeviceSave
<1>2. /\ callsign \in Callsigns
      /\ (IF counted <= 1 THEN 2 ELSE counted) \in Nat
      /\ n \in Nat
    <2>1. callsign \in Callsigns
        BY ConfigAppAssumption
    <2>2. config["ChangeCounter"] \in Nat /\ saves \in Nat
        BY <1>1 DEF Types, ConfigSet
    <2>3. counted \in Nat /\ n \in Nat
        BY ONLY <2>2
    <2> HIDE DEF callsign, counted, n
    <2> QED
        BY ONLY <2>1, <2>3
<1>3. GetFields(config, typed, saves + 1)
        = Config(callsign, IF counted <= 1 THEN 2 ELSE counted, n)
    BY DEF GetFields
<1> HIDE DEF callsign, counted, n
<1>4. GetFields(config, typed, saves + 1) \in ConfigSet
    BY <1>2, <1>3, ConfigIsTyped
<1>5. t \in TaskSet
    BY <1>4, TaskIsTyped DEF Kinds
<1> HIDE DEF t
<1>6. tasks' \in Seq(TaskSet) /\ (TaskCures => TaskCures')
    BY <1>1, <1>5, EnqueueCures
<1>7. Types'
    <2>1. saves' \in Nat
        <3>1. saves' = saves + 1
            BY DEF DeviceSave
        <3>2. saves \in Nat
            BY <1>1 DEF Types
        <3> QED
            BY ONLY <3>1, <3>2
    <2>2. UNCHANGED <<conn, config, eeprom, boxes, events, task, step>>
        BY DEF DeviceSave, modelVars, workerVars
    <2> QED
        BY ONLY <1>1, <1>6, <2>1, <2>2 DEF Types
<1>8. Cure => Cure'
    BY <1>6 DEF Cure, EventCures, DeviceSave, workerVars
<1>9. InStep => InStep'
    BY InStepKept DEF DeviceSave, modelVars, workerVars
<1> QED
    BY <1>7, <1>8, <1>9 DEF SettledInv, DeviceSave

LEMMA StatusGivesUpStep ==
    ASSUME SettledInv, StatusGivesUp
    PROVE  SettledInv'
BY DEF SettledInv, Types, StatusGivesUp, OnDisconnect, DropConnection, modelVars

LEMMA OnConnectSuccessStep ==
    ASSUME SettledInv, OnConnectSuccess
    PROVE  SettledInv'
<1> DEFINE t == Task("Load", BlankConfig)
<1>1. t \in TaskSet /\ t.kind = "Load"
    BY BlankIsTyped, TaskIsTyped DEF Kinds
<1>2. Types /\ Enqueue(t) /\ Handle("Connect", TRUE)
    BY DEF SettledInv, OnConnectSuccess
<1> HIDE DEF t
<1>3. tasks' \in Seq(TaskSet) /\ TaskCures'
    BY <1>1, <1>2, EnqueueCures
<1>4. events' \in Seq(EventSet)
    BY <1>2, HandleCures DEF Kinds
<1>5. Types'
    BY <1>2, <1>3, <1>4 DEF Types, OnConnectSuccess, uiVars, modelVars, workerVars
<1> QED
    BY <1>3, <1>5 DEF SettledInv, Cure

LEMMA OnSuccessStep ==
    ASSUME SettledInv, OnLoadSuccess \/ OnSaveSuccess
    PROVE  SettledInv'
<1>1. PICK kind \in {"Load", "Save"} : Handle(kind, TRUE)
    BY DEF OnLoadSuccess, OnSaveSuccess
<1>2. Types /\ UNCHANGED <<conn, boxes, saves, modelVars, workerVars, tasks, eeprom>>
    BY DEF SettledInv, OnLoadSuccess, OnSaveSuccess
<1>3. events' \in Seq(EventSet) /\ (EventCures => EventCures')
    BY <1>1, <1>2, HandleCures DEF Kinds
<1>4. Types'
    BY <1>2, <1>3 DEF Types, modelVars, workerVars
<1>5. Cure => Cure'
    BY <1>2, <1>3 DEF Cure, TaskCures, workerVars
<1>6. InStep => InStep'
    BY <1>2, InStepKept DEF modelVars, workerVars
<1> QED
    BY <1>2, <1>4, <1>5, <1>6 DEF SettledInv

LEMMA OnErrorStep ==
    ASSUME SettledInv, OnError
    PROVE  SettledInv'
<1>1. PICK kind \in Kinds : Handle(kind, FALSE)
    BY DEF OnError, Kinds
<1>2. Types
    BY DEF SettledInv
<1>3. events' \in Seq(EventSet)
    BY <1>1, <1>2, HandleCures
<1>4. Types' /\ boxes' > 0
    BY <1>2, <1>3 DEF Types, OnError, modelVars, workerVars
<1> QED
    BY <1>4 DEF SettledInv, Cure

LEMMA CloseBoxStep ==
    ASSUME SettledInv, CloseBox
    PROVE  SettledInv'
BY DEF SettledInv, Types, CloseBox, OnDisconnect, DropConnection, modelVars

LEMMA KilledStep ==
    ASSUME SettledInv, Killed
    PROVE  SettledInv'
<1>1. BlankConfig \in ConfigSet
    BY BlankIsTyped
<1>2. <<>> \in Seq(EventSet) /\ <<>> \in Seq(TaskSet)
    OBVIOUS
<1> QED
    BY <1>1, <1>2 DEF SettledInv, Types, Killed, OnDisconnect
-------------------------------------------------------------------------------
(* The steps of the worker.                                                  *)

LEMMA StartTaskStep ==
    ASSUME SettledInv, StartTask
    PROVE  SettledInv'
<1>1. /\ Types /\ task = NoTask /\ tasks # <<>> /\ tasks' = Tail(tasks) /\ step' = 1
      /\ task' = IF Head(tasks).kind = "Load" THEN Task("Load", config) ELSE Head(tasks)
      /\ UNCHANGED <<conn, boxes, saves, config, authId, events, eeprom>>
    BY DEF SettledInv, StartTask, uiVars, modelVars
<1>2. /\ tasks' \in Seq(TaskSet)
      /\ Head(tasks) \in TaskSet /\ Head(tasks) = tasks[1]
      /\ \A i \in 1 .. Len(tasks) :
             i # 1 => i - 1 \in 1 .. Len(tasks') /\ tasks'[i - 1] = tasks[i]
    BY <1>1, TailFacts DEF Types
<1>3. task' \in TaskSet /\ task'.kind = Head(tasks).kind
    <2>1. CASE Head(tasks).kind = "Load"
        BY <1>1, <2>1, TaskIsTyped DEF Types, Kinds
    <2>2. CASE Head(tasks).kind # "Load"
        BY <1>1, <1>2, <2>2
    <2> QED
        BY <2>1, <2>2
<1>4. Types'
    BY ONLY <1>1, <1>2, <1>3 DEF Types
<1>5. task' # NoTask /\ task.kind \notin Kinds
    BY <1>1, <1>3, NoTaskFacts DEF TaskSet, NoTask, Task, Kinds
<1>6. CASE task'.kind = "Connect"
    BY <1>4, <1>6 DEF SettledInv, Cure
<1>7. CASE task'.kind = "Load"
    <2>1. InStep'
        BY <1>1, <1>5, <1>7, MessagesFacts
           DEF InStep, IdRead, SentAgrees, AssignedAgrees, Members
    <2> QED
        BY <1>4, <2>1 DEF SettledInv
<1>8. CASE task'.kind = "Save"
    <2>1. InStep => InStep'
        BY <1>1, <1>5, <1>8, MessagesFacts
           DEF InStep, IdRead, SentAgrees, AssignedAgrees, Members
    <2>2. TaskCures => TaskCures'
        <3>1. ASSUME TaskCures
              PROVE  TaskCures'
            <4>1. PICK i \in 1 .. Len(tasks) : tasks[i].kind \in {"Connect", "Load"}
                BY <3>1 DEF TaskCures
            <4>2. i # 1
                BY <1>2, <1>3, <1>8, <4>1
            <4>3. i - 1 \in 1 .. Len(tasks') /\ tasks'[i - 1] = tasks[i]
                BY <1>2, <4>2
            <4> QED
                BY <4>1, <4>3 DEF TaskCures
        <3> QED
            BY <3>1
    <2>3. Cure => Cure'
        BY <1>1, <1>5, <2>2 DEF Cure, EventCures, Kinds
    <2> QED
        BY <1>1, <1>4, <2>1, <2>3 DEF SettledInv
<1>9. task'.kind \in Kinds
    BY <1>3 DEF TaskSet
<1> QED
    BY <1>6, <1>7, <1>8, <1>9 DEF Kinds

LEMMA OutgoingFacts ==
    ASSUME Types, task # NoTask
    PROVE  /\ Outgoing \in ConfigSet
           /\ \A v \in Vars : v # Message => Outgoing[v] = task.cfg[v]
<1>1. task.cfg \in ConfigSet /\ config \in ConfigSet /\ "ChangeCounter" \in Vars
    BY NoTaskFacts, ConfigAppAssumption DEF Types
<1>2. CASE Outgoing = task.cfg
    BY <1>1, <1>2
<1>3. CASE /\ Message = "ChangeCounter"
           /\ Outgoing = [task.cfg EXCEPT !["ChangeCounter"] = config["ChangeCounter"] + 1]
    <2> DEFINE c == task.cfg
               n == config["ChangeCounter"] + 1
               e == Outgoing
    <2>1. /\ c \in [Vars -> Callsigns \cup Nat] /\ n \in Nat
        BY <1>1 DEF ConfigSet
    <2>2. e = [c EXCEPT !["ChangeCounter"] = n]
        BY <1>3
    <2> HIDE DEF c, n, e
    <2>3. /\ e \in [Vars -> Callsigns \cup Nat] /\ e["ChangeCounter"] \in Nat
          /\ \A v \in Vars : v # "ChangeCounter" => e[v] = c[v]
        BY ONLY <1>1, <2>1, <2>2
    <2> QED
        BY <1>3, <2>3 DEF ConfigSet, c, e
<1>4. \/ Outgoing = task.cfg
      \/ /\ Message = "ChangeCounter"
         /\ Outgoing = [task.cfg EXCEPT !["ChangeCounter"] = config["ChangeCounter"] + 1]
    BY DEF Outgoing
<1> QED
    BY <1>2, <1>3, <1>4

LEMMA EffectFacts ==
    ASSUME Types, task # NoTask, conn \in Devices, Effect
    PROVE  /\ eeprom' \in [Devices -> ConfigSet]
           /\ task.kind # "Save" => eeprom' = eeprom
           /\ task.kind = "Save" =>
                  /\ Message \in Vars => eeprom'[conn][Message] = Outgoing[Message]
                  /\ \A v \in Vars : v # Message => eeprom'[conn][v] = eeprom[conn][v]
<1>1. CASE task.kind # "Save"
    BY <1>1 DEF Effect, Types
<1>2. CASE task.kind = "Save"
    <2> DEFINE c == eeprom[conn]
               d == Outgoing
               m == Message
               e == [c EXCEPT ![m] = d[m]]
    <2>1. c \in ConfigSet /\ d \in ConfigSet
        BY OutgoingFacts DEF Types
    <2>2. eeprom' = [eeprom EXCEPT ![conn] = e]
        BY <1>2 DEF Effect
    <2> HIDE DEF c, d, m
    <2>3. /\ e \in ConfigSet
          /\ m \in Vars => e[m] = d[m]
          /\ \A v \in Vars : v # m => e[v] = c[v]
        BY ONLY <2>1, TakenOver
    <2> HIDE DEF e
    <2>4. eeprom' \in [Devices -> ConfigSet] /\ eeprom'[conn] = e
        BY <2>2, <2>3 DEF Types
    <2> QED
        BY <1>2, <2>3, <2>4 DEF c, d, m
<1> QED
    BY <1>1, <1>2
\* What a successful send makes of the task.
LEMMA TaskAfterSend ==
    ASSUME Types, task # NoTask, conn \in Devices, SendAccepted
    PROVE  /\ task' \in TaskSet /\ task'.kind = task.kind
           /\ task.kind = "Save" => task'.cfg = Outgoing
           /\ task.kind = "Load" =>
                  /\ Message = "DeviceId" => task'.id = conn
                  /\ Message # "DeviceId" => task'.id = task.id
                  /\ Message \in Vars => task'.cfg[Message] = eeprom[conn][Message]
                  /\ \A v \in Vars : v # Message => task'.cfg[v] = task.cfg[v]
<1>1. /\ task \in TaskSet /\ task.cfg \in ConfigSet /\ Outgoing \in ConfigSet
      /\ eeprom[conn] \in ConfigSet /\ "DeviceId" \notin Vars
    BY NoTaskFacts, OutgoingFacts, MessagesFacts DEF Types
<1>2. CASE task.kind = "Save" /\ task' = [task EXCEPT !.cfg = Outgoing]
    BY ONLY <1>1, <1>2 DEF TaskSet
<1>3. CASE task.kind = "Load" /\ Message = "DeviceId" /\ task' = [task EXCEPT !.id = conn]
    <2> DEFINE m == Message
    <2>1. m = "DeviceId" /\ conn \in Devices
        BY <1>3
    <2> HIDE DEF m
    <2>2. /\ task' \in TaskSet /\ task'.kind = task.kind /\ task'.id = conn
          /\ task'.cfg = task.cfg
        BY ONLY <1>1, <1>3, <2>1 DEF TaskSet
    <2>3. m \notin Vars
        BY <1>1, <2>1
    <2> QED
        BY <1>3, <2>1, <2>2, <2>3 DEF m
<1>4. CASE /\ task.kind = "Load" /\ Message # "DeviceId"
           /\ task' = [task EXCEPT !.cfg[Message] = eeprom[conn][Message]]
    <2> DEFINE c == task.cfg
               d == eeprom[conn]
               m == Message
               e == [c EXCEPT ![m] = d[m]]
    <2>1. task' = [task EXCEPT !.cfg = e]
        BY <1>4
    <2>2. c \in ConfigSet /\ d \in ConfigSet
        BY <1>1
    <2> HIDE DEF c, d, m
    <2>3. /\ e \in ConfigSet
          /\ m \in Vars => e[m] = d[m]
          /\ \A v \in Vars : v # m => e[v] = c[v]
        BY ONLY <2>2, TakenOver
    <2> HIDE DEF e
    <2>4. /\ task' \in TaskSet /\ task'.kind = task.kind /\ task'.id = task.id
          /\ task'.cfg = e
        BY ONLY <1>1, <2>1, <2>3 DEF TaskSet
    <2> QED
        BY <1>4, <2>3, <2>4 DEF c, d, m
<1>5. CASE task.kind = "Connect" /\ task' = task
    BY ONLY <1>1, <1>5
<1> QED
    BY <1>2, <1>3, <1>4, <1>5 DEF SendAccepted

\* The message about a variable makes the task and the device agree on it.
LEMMA LoadSendAgrees ==
    ASSUME Types, task # NoTask, conn \in Devices, SendAccepted, task.kind = "Load",
           IdRead(conn), SentAgrees(conn, LoadMessages)
    PROVE  /\ IdRead(conn)' /\ SentAgrees(conn, LoadMessages)'
           /\ AssignedAgrees(LoadMessages)' /\ eeprom' = eeprom
<1> DEFINE order == LoadMessages
           m == order[step]
<1>1. /\ Message = m /\ step <= Len(order) /\ Len(order) \in Nat
      /\ step \in Nat /\ step' = step + 1 /\ conn' = conn
    BY MessagesFacts DEF Message, Messages, SendAccepted, Sending, Types, uiVars
<1>2. /\ m = "DeviceId" => task'.id = conn
      /\ m # "DeviceId" => task'.id = task.id
      /\ m \in Vars => task'.cfg[m] = eeprom[conn][m]
      /\ \A v \in Vars : v # m => task'.cfg[v] = task.cfg[v]
    BY <1>1, TaskAfterSend
<1>3. eeprom' = eeprom
    BY EffectFacts DEF SendAccepted
<1> HIDE DEF m
<1>4. \A i \in 1 .. Len(order) : i < step' => i < step \/ order[i] = m
    BY <1>1 DEF m
<1>5. IdRead(conn)'
    BY ONLY <1>1, <1>2, <1>4, IdRead(conn) DEF IdRead
<1>6. SentAgrees(conn, order)'
    <2> SUFFICES ASSUME NEW i \in 1 .. Len(order), i < step', order[i] \in Vars
                 PROVE  eeprom[conn][order[i]] = task'.cfg[order[i]]
        BY <1>1, <1>3 DEF SentAgrees
    <2>1. CASE order[i] = m
        BY <1>2, <2>1
    <2>2. CASE order[i] # m
        BY <1>2, <1>4, <2>2 DEF SentAgrees
    <2> QED
        BY <2>1, <2>2
<1>7. AssignedAgrees(order)'
    BY <1>1, MessagesFacts DEF AssignedAgrees, Members
<1> QED
    BY <1>3, <1>5, <1>6, <1>7

LEMMA SaveSendAgrees ==
    ASSUME Types, task # NoTask, conn \in Devices, SendAccepted, task.kind = "Save",
           SentAgrees(conn, SaveMessages)
    PROVE  SentAgrees(conn, SaveMessages)' /\ AssignedAgrees(SaveMessages)'
<1> DEFINE order == SaveMessages
           m == order[step]
           out == Outgoing
<1>1. /\ Message = m /\ step <= Len(order) /\ Len(order) \in Nat
      /\ step \in Nat /\ step' = step + 1 /\ conn' = conn /\ Effect
    BY MessagesFacts DEF Message, Messages, SendAccepted, Sending, Types, uiVars
<1>2. task'.cfg = out /\ \A v \in Vars : v # m => out[v] = task.cfg[v]
    BY <1>1, TaskAfterSend, OutgoingFacts
<1>3. /\ m \in Vars => eeprom'[conn][m] = out[m]
      /\ \A v \in Vars : v # m => eeprom'[conn][v] = eeprom[conn][v]
    BY <1>1, EffectFacts
<1> HIDE DEF m, out
<1>4. \A i \in 1 .. Len(order) : i < step' => i < step \/ order[i] = m
    BY <1>1 DEF m
<1>5. SentAgrees(conn, order)'
    <2> SUFFICES ASSUME NEW i \in 1 .. Len(order), i < step', order[i] \in Vars
                 PROVE  eeprom'[conn][order[i]] = task'.cfg[order[i]]
        BY <1>1 DEF SentAgrees
    <2>1. CASE order[i] = m
        BY <1>2, <1>3, <2>1
    <2>2. CASE order[i] # m
        BY <1>2, <1>3, <1>4, <2>2 DEF SentAgrees
    <2> QED
        BY <2>1, <2>2
<1>6. AssignedAgrees(order)'
    BY <1>1, MessagesFacts DEF AssignedAgrees, Members
<1> QED
    BY <1>5, <1>6

LEMMA SendAcceptedStep ==
    ASSUME SettledInv, SendAccepted
    PROVE  SettledInv'
<1>1. /\ Types /\ task # NoTask /\ step <= Len(Messages(task.kind))
      /\ conn \in Devices /\ Effect /\ step' = step + 1
      /\ UNCHANGED <<conn, boxes, saves, config, authId, events, tasks>>
    BY DEF SettledInv, SendAccepted, Sending, Types, uiVars, modelVars
<1>2. step \in Nat /\ step >= 1 /\ task.kind \in Kinds /\ task.kind # "none"
    BY <1>1, NoTaskFacts DEF Types, Kinds
<1>3. /\ task' \in TaskSet /\ task'.kind = task.kind
      /\ eeprom' \in [Devices -> ConfigSet]
    BY <1>1, TaskAfterSend, EffectFacts
<1>4. task' # NoTask
    BY <1>2, <1>3 DEF NoTask, Task
<1>5. Types'
    BY ONLY <1>1, <1>2, <1>3, <1>4 DEF Types
<1>6. ASSUME Cure
      PROVE  Cure'
    BY <1>1, <1>3, <1>6 DEF Cure, EventCures, TaskCures
<1>7. ASSUME InStep, task.kind = "Load"
      PROVE  InStep'
    <2>1. /\ IdRead(conn)' /\ SentAgrees(conn, LoadMessages)'
          /\ AssignedAgrees(LoadMessages)'
        BY <1>1, <1>7, LoadSendAgrees DEF InStep
    <2> QED
        BY <1>3, <1>4, <1>7, <2>1 DEF InStep
<1>8. ASSUME InStep, task.kind = "Save"
      PROVE  InStep'
    <2>1. SentAgrees(conn, SaveMessages)' /\ AssignedAgrees(SaveMessages)'
        BY <1>1, <1>8, SaveSendAgrees DEF InStep
    <2> QED
        BY <1>1, <1>3, <1>4, <1>8, <2>1 DEF InStep
<1>9. task.kind = "Connect" => Cure
    BY DEF Cure
<1> QED
    BY <1>1, <1>2, <1>5, <1>6, <1>7, <1>8, <1>9 DEF SettledInv, Kinds

LEMMA SendFailsStep ==
    ASSUME SettledInv, SendFails
    PROVE  SettledInv'
<1>1. /\ Types /\ task # NoTask /\ Finish(FALSE)
      /\ UNCHANGED <<conn, boxes, saves, config, authId, tasks>>
    BY DEF SettledInv, SendFails, Sending, uiVars, modelVars
<1>2. events' \in Seq(EventSet) /\ task' = NoTask /\ step' = 0 /\ EventCures'
    BY <1>1, FinishCures
<1>3. eeprom' \in [Devices -> ConfigSet]
    <2>1. eeprom' = eeprom \/ (conn \in Devices /\ Effect)
        BY <1>1 DEF SendFails, Types
    <2> QED
        BY <1>1, <2>1, EffectFacts DEF Types
<1>4. Types'
    BY ONLY <1>1, <1>2, <1>3, 0 \in Nat DEF Types
<1> QED
    BY <1>2, <1>4 DEF SettledInv, Cure

\* How far a load or a save is with its assignments.
LEMMA AssignedFacts ==
    ASSUME Types, Assigned >= 1
    PROVE  /\ task # NoTask /\ task.kind \in {"Load", "Save"}
           /\ task.cfg \in ConfigSet
           /\ task.kind = "Load" => Assigned = step - Len(LoadMessages)
           /\ task.kind = "Save" => Assigned = step - Len(SaveMessages)
           /\ Len(LoadMessages) \in Nat /\ Len(SaveMessages) \in Nat
           /\ Len(Members) \in Nat /\ step \in Nat
<1>1. task.kind \in {"Load", "Save"}
    BY DEF Assigned
<1>2. /\ task.kind = "Load" => Assigned = step - Len(LoadMessages)
      /\ task.kind = "Save" => Assigned = step - Len(SaveMessages)
    BY DEF Assigned, Messages
<1> QED
    BY <1>1, <1>2, NoTaskFacts, MessagesFacts DEF Members, Kinds, Types

\* What an assignment changes, and that it keeps the agreement.
LEMMA AssignAgrees ==
    ASSUME Types, AssignMember, NEW dev
    PROVE  /\ config' \in ConfigSet /\ Assigned >= 1
           /\ \A v \in Vars : config'[v] \in {config[v], task.cfg[v]}
           /\ \A order : /\ Len(order) \in Nat /\ Assigned = step - Len(order)
                        /\ SentAgrees(dev, order)
                        => SentAgrees(dev, order)'
           /\ \A order : /\ Len(order) \in Nat /\ Assigned = step - Len(order)
                        /\ AssignedAgrees(order)
                        => AssignedAgrees(order)'
<1> DEFINE a == Assigned
           m == Members[a]
<1>1. /\ a \in 1 .. Len(Members) /\ step' = step + 1
      /\ config' = [config EXCEPT ![m] = task.cfg[m]]
      /\ UNCHANGED <<task, eeprom>>
    BY DEF AssignMember
<1>2. Len(Members) \in Nat
    BY MessagesFacts DEF Members
<1>3. a >= 1
    BY ONLY <1>1, <1>2
<1>4. task.cfg \in ConfigSet /\ step \in Nat
    BY <1>1, <1>3, AssignedFacts
<1> HIDE DEF a, m
<1>5. /\ config' \in ConfigSet
      /\ m \in Vars => config'[m] = task.cfg[m]
      /\ \A v \in Vars : v # m => config'[v] = config[v]
    <2> DEFINE c == config
               d == task.cfg
               e == [c EXCEPT ![m] = d[m]]
    <2>1. c \in ConfigSet /\ d \in ConfigSet
        BY <1>1, <1>4 DEF Types
    <2>2. config' = e
        BY <1>1
    <2> HIDE DEF c, d
    <2>3. /\ e \in ConfigSet
          /\ m \in Vars => e[m] = d[m]
          /\ \A v \in Vars : v # m => e[v] = c[v]
        BY ONLY <2>1, TakenOver
    <2> HIDE DEF e
    <2> QED
        BY <2>2, <2>3 DEF c, d
<1>6. ASSUME NEW order, Len(order) \in Nat, a = step - Len(order), SentAgrees(dev, order)
      PROVE  SentAgrees(dev, order)'
    <2>1. \A i \in 1 .. Len(order) : i < step
        BY <1>3, <1>4, <1>6
    <2> QED
        BY <1>1, <1>6, <2>1 DEF SentAgrees
<1>7. ASSUME NEW order, Len(order) \in Nat, a = step - Len(order), AssignedAgrees(order)
      PROVE  AssignedAgrees(order)'
    <2>1. \A j \in 1 .. Len(Members) : j < step' - Len(order) => j < a \/ j = a
        BY <1>1, <1>2, <1>4, <1>7
    <2> SUFFICES ASSUME NEW j \in 1 .. Len(Members), j < step' - Len(order),
                        Members[j] \in Vars
                 PROVE  config'[Members[j]] = task.cfg[Members[j]]
        BY <1>1 DEF AssignedAgrees, Members
    <2>2. CASE Members[j] = m
        BY <1>5, <2>2
    <2>3. CASE Members[j] # m
        <3>1. j < step - Len(order)
            BY <1>7, <2>1, <2>3 DEF m
        <3> QED
            BY <1>5, <1>7, <2>3, <3>1 DEF AssignedAgrees
    <2> QED
        BY <2>2, <2>3
<1>8. \A v \in Vars : config'[v] \in {config[v], task.cfg[v]}
    BY ONLY <1>5
<1> QED
    BY <1>3, <1>5, <1>6, <1>7, <1>8 DEF a

LEMMA AssignMemberStep ==
    ASSUME SettledInv, AssignMember
    PROVE  SettledInv'
<1> DEFINE a == Assigned
<1>1. /\ Types /\ step' = step + 1
      /\ UNCHANGED <<conn, boxes, saves, authId, task, events, tasks, eeprom>>
    BY DEF SettledInv, AssignMember, uiVars
<1>2. /\ config' \in ConfigSet /\ a >= 1
      /\ \A order : Len(order) \in Nat /\ a = step - Len(order) /\ SentAgrees(conn, order)
                        => SentAgrees(conn, order)'
      /\ \A order : Len(order) \in Nat /\ a = step - Len(order) /\ AssignedAgrees(order)
                        => AssignedAgrees(order)'
    <2>1. PICK dev : dev = conn
        OBVIOUS
    <2>2. /\ config' \in ConfigSet /\ a >= 1
          /\ \A order : Len(order) \in Nat /\ a = step - Len(order) /\ SentAgrees(dev, order)
                            => SentAgrees(dev, order)'
          /\ \A order : Len(order) \in Nat /\ a = step - Len(order) /\ AssignedAgrees(order)
                            => AssignedAgrees(order)'
        BY <1>1, AssignAgrees
    <2>3. conn' = dev
        BY <1>1, <2>1
    <2>4. \A order : SentAgrees(conn, order)' = SentAgrees(dev, order)'
        BY <2>3 DEF SentAgrees
    <2> QED
        BY <2>1, <2>2, <2>4
<1>3. /\ task # NoTask /\ task.kind \in {"Load", "Save"}
      /\ task.kind = "Load" => a = step - Len(LoadMessages)
      /\ task.kind = "Save" => a = step - Len(SaveMessages)
      /\ Len(LoadMessages) \in Nat /\ Len(SaveMessages) \in Nat /\ step \in Nat
    BY <1>1, <1>2, AssignedFacts
<1> HIDE DEF a
<1>4. Types'
    BY ONLY <1>1, <1>2, <1>3 DEF Types
<1>5. Cure => Cure'
    BY <1>1 DEF Cure, EventCures, TaskCures
<1>6. ASSUME InStep
      PROVE  InStep'
    <2>1. CASE task.kind = "Load"
        <3>1. IdRead(conn)'
            BY <1>1, <1>2, <1>3, <1>6, <2>1 DEF InStep, IdRead
        <3> QED
            BY <1>1, <1>2, <1>3, <1>6, <2>1, <3>1 DEF InStep
    <2>2. CASE task.kind = "Save"
        BY <1>1, <1>2, <1>3, <1>6, <2>2 DEF InStep
    <2> QED
        BY <1>3, <2>1, <2>2
<1> QED
    BY <1>1, <1>4, <1>5, <1>6 DEF SettledInv

\* All variables have been sent or read, and assigned: the DeviceModel is the device.
LEMMA AllAgree ==
    ASSUME NEW dev \in Devices, NEW order, Types, task.cfg \in ConfigSet,
           \A v \in Vars : \E k \in 1 .. Len(order) : order[k] = v,
           Len(order) \in Nat, step - Len(order) > Len(Members),
           SentAgrees(dev, order), AssignedAgrees(order)
    PROVE  config = eeprom[dev]
<1>1. step \in Nat /\ Len(Members) \in Nat
    BY MessagesFacts DEF Types, Members
<1>2. /\ \A i \in 1 .. Len(order) : i < step
      /\ \A j \in 1 .. Len(Members) : j < step - Len(order)
    BY <1>1
<1>3. ASSUME NEW v \in Vars
      PROVE  config[v] = eeprom[dev][v]
    <2>1. PICK i \in 1 .. Len(order) : order[i] = v
        BY <1>3
    <2>2. eeprom[dev][v] = task.cfg[v]
        BY <1>2, <2>1 DEF SentAgrees
    <2>3. PICK j \in 1 .. Len(Members) : Members[j] = v
        BY MessagesFacts DEF Members
    <2>4. config[v] = task.cfg[v]
        BY <1>2, <2>3 DEF AssignedAgrees
    <2> QED
        BY <2>2, <2>4
<1>4. /\ config \in [Vars -> Callsigns \cup Nat]
      /\ eeprom[dev] \in [Vars -> Callsigns \cup Nat]
    BY DEF Types, ConfigSet
<1> QED
    BY ONLY <1>3, <1>4

LEMMA SucceedsFacts ==
    ASSUME Types, TaskSucceeds
    PROVE  task # NoTask /\ Finish(TRUE)
<1>1. Finish(TRUE) /\ (task.kind = "Connect" \/ Assigned > Len(Members))
    BY DEF TaskSucceeds
<1>2. Len(Members) \in Nat
    BY MessagesFacts DEF Members
<1>3. task.kind # "Connect" => Assigned >= 1
    <2>1. Assigned \in Int
        BY MessagesFacts DEF Assigned, Messages, Types
    <2> QED
        BY ONLY <1>1, <1>2, <2>1
<1>4. task # NoTask
    <2>1. CASE task.kind = "Connect"
        BY <2>1 DEF NoTask, Task
    <2> QED
        BY <1>3, <2>1, AssignedFacts
<1> QED
    BY <1>1, <1>4

LEMMA TaskSucceedsStep ==
    ASSUME SettledInv, TaskSucceeds
    PROVE  SettledInv'
<1>1. /\ Types /\ Finish(TRUE)
      /\ task.kind = "Connect" \/ Assigned > Len(Members)
      /\ authId' = IF task.kind = "Load" THEN task.id ELSE authId
      /\ UNCHANGED <<conn, boxes, saves, config, tasks, eeprom>>
    BY DEF SettledInv, TaskSucceeds, uiVars
<1>2. Len(Members) \in Nat
    BY MessagesFacts DEF Members
<1>3. task.kind # "Connect" => Assigned >= 1
    <2>1. Assigned \in Int
        BY <1>1, MessagesFacts DEF Assigned, Messages, Types
    <2> QED
        BY ONLY <1>1, <1>2, <2>1
<1>4. task # NoTask
    BY <1>1, SucceedsFacts DEF SettledInv
<1>5. /\ events' \in Seq(EventSet) /\ task' = NoTask /\ step' = 0
      /\ EventCures => EventCures'
      /\ task.kind = "Connect" => EventCures'
    BY <1>1, <1>4, FinishCures
<1>6. Types'
    BY ONLY <1>1, <1>5, 0 \in Nat DEF Types
<1>7. Cure => Cure'
    BY <1>1, <1>5 DEF Cure, TaskCures
<1>8. ASSUME conn # NoDevice, InStep, task.kind # "Connect"
      PROVE  InStep'
    <2>1. conn \in Devices
        BY <1>1, <1>8 DEF Types
    <2>2. /\ task.kind \in {"Load", "Save"} /\ task.cfg \in ConfigSet
          /\ task.kind = "Load" => Assigned = step - Len(LoadMessages)
          /\ task.kind = "Save" => Assigned = step - Len(SaveMessages)
          /\ step \in Nat
        BY <1>1, <1>3, <1>8, AssignedFacts
    <2>3. config = eeprom[conn]
        <3>1. CASE task.kind = "Load"
            BY <1>1, <1>8, <2>1, <2>2, <3>1, AllAgree, MessagesFacts DEF InStep
        <3>2. CASE task.kind = "Save"
            BY <1>1, <1>8, <2>1, <2>2, <3>2, AllAgree, MessagesFacts DEF InStep
        <3> QED
            BY <2>2, <3>1, <3>2
    <2>4. authId' = conn
        <3>1. CASE task.kind = "Load"
            <4>1. PICK k \in 1 .. Len(LoadMessages) : LoadMessages[k] = "DeviceId"
                BY MessagesFacts
            <4>2. step - Len(LoadMessages) > Len(Members) /\ Len(LoadMessages) \in Nat
                BY <1>1, <2>2, <3>1, MessagesFacts
            <4>3. k < step
                BY ONLY <1>2, <2>2, <4>1, <4>2
            <4>4. IdRead(conn)
                BY <1>8, <3>1 DEF InStep
            <4> QED
                BY <1>1, <3>1, <4>1, <4>3, <4>4 DEF IdRead
        <3>2. CASE task.kind = "Save"
            BY <1>1, <1>8, <3>2 DEF InStep
        <3> QED
            BY <2>2, <3>1, <3>2
    <2>5. NoTask.kind = "none"
        BY DEF NoTask, Task
    <2> QED
        BY <1>1, <1>5, <2>3, <2>4, <2>5 DEF InStep
<1> QED
    BY <1>1, <1>5, <1>6, <1>7, <1>8 DEF SettledInv, Cure
-------------------------------------------------------------------------------
(* The invariant, and what it is for.                                        *)

LEMMA InitSettled ==
    ASSUME Init
    PROVE  SettledInv
<1>1. BlankConfig \in ConfigSet
    BY BlankIsTyped
<1>2. Stored \subseteq ConfigSet
    <2> DEFINE some == Callsigns \ {""}
               few == 0 .. 1
               many == 0 .. MaxCounter
    <2>1. Stored = {Config(c, n, 0) : c \in Callsigns, n \in few} \cup
                   {Config(c, n, 0) : c \in some, n \in many}
        BY DEF Stored
    <2>2. some \subseteq Callsigns /\ few \subseteq Nat /\ many \subseteq Nat
        <3>1. some \subseteq Callsigns
            OBVIOUS
        <3>2. MaxCounter \in Nat
            BY ConfigAppAssumption
        <3>3. few \subseteq Nat /\ many \subseteq Nat
            BY ONLY <3>2
        <3> QED
            BY ONLY <3>1, <3>3
    <2> HIDE DEF some, few, many
    <2>3. \A c \in Callsigns, n \in Nat : Config(c, n, 0) \in ConfigSet
        BY ConfigIsTyped, 0 \in Nat
    <2>4. {Config(c, n, 0) : c \in Callsigns, n \in few} \subseteq ConfigSet
        BY ONLY <2>2, <2>3
    <2>5. {Config(c, n, 0) : c \in some, n \in many} \subseteq ConfigSet
        BY ONLY <2>2, <2>3
    <2> QED
        BY ONLY <2>1, <2>4, <2>5
<1>3. eeprom \in [Devices -> ConfigSet]
    BY <1>2 DEF Init
<1>4. /\ conn = NoDevice /\ config = BlankConfig /\ boxes = 0 /\ events = <<>>
      /\ tasks = <<>> /\ task = NoTask /\ step = 0 /\ saves = 0
    BY DEF Init
<1> QED
    BY ONLY <1>1, <1>3, <1>4 DEF SettledInv, Types

LEMMA NextSettled ==
    ASSUME SettledInv, [Next]_vars
    PROVE  SettledInv'
<1>1. ASSUME NEW d \in Devices, DeviceConnect(d)
      PROVE  SettledInv'
    BY <1>1, DeviceConnectStep
<1>2. CASE DeviceConnectFails
    BY <1>2, DeviceConnectFailsStep
<1>3. ASSUME NEW c \in Callsigns, DeviceSave(c)
      PROVE  SettledInv'
    BY <1>3, DeviceSaveStep
<1>4. CASE StatusGivesUp
    BY <1>4, StatusGivesUpStep
<1>5. CASE HandleEvent
    BY <1>5, OnConnectSuccessStep, OnSuccessStep, OnErrorStep, CloseBoxStep DEF HandleEvent
<1>6. CASE Worker
    BY <1>6, StartTaskStep, SendAcceptedStep, SendFailsStep, AssignMemberStep,
       TaskSucceedsStep DEF Worker
<1>7. CASE Killed
    BY <1>7, KilledStep
<1>8. CASE UNCHANGED vars
    <2>1. UNCHANGED <<conn, config, authId, boxes, saves, events, tasks, task, step, eeprom>>
        BY <1>8 DEF vars, uiVars, modelVars, workerVars
    <2>2. Types'
        BY <2>1 DEF SettledInv, Types
    <2>3. Cure => Cure'
        BY <2>1 DEF Cure, EventCures, TaskCures
    <2>4. InStep => InStep'
        BY <2>1, InStepKept
    <2> QED
        BY <2>1, <2>2, <2>3, <2>4 DEF SettledInv
<1> QED
    BY <1>1, <1>2, <1>3, <1>4, <1>5, <1>6, <1>7, <1>8 DEF Next

\* When everything has settled and Save can be pressed, the DeviceModel holds the
\* configuration and the identity of the device that is connected, however often
\* devices were swapped, saves failed half way, connections were given up or the
\* program was killed (deviceSave and the tasks' handlers in wsprlite-config.cpp).
THEOREM KnowsTheDevice == Spec => []SettledInSync
<1>1. Init => SettledInv
    BY InitSettled
<1>2. SettledInv /\ [Next]_vars => SettledInv'
    BY NextSettled
<1>3. SettledInv => SettledInSync
    <2> SUFFICES ASSUME SettledInv, Quiet, conn # NoDevice
                 PROVE  config = eeprom[conn] /\ authId = conn
        BY DEF SettledInSync
    <2>1. ~Cure
        BY DEF Cure, EventCures, TaskCures, Quiet, NoTask, Task
    <2> QED
        BY <2>1 DEF SettledInv, InStep, Quiet
<1> QED
    BY <1>1, <1>2, <1>3, PTL DEF Spec
-------------------------------------------------------------------------------
(* One device: its change counter, and the links.                            *)

OneDevice == \E d \in Devices : Devices = {d}

TheDevice == CHOOSE d \in Devices : TRUE

Held == eeprom[TheDevice]

\* No save was cut short, no configuration was read while it was assigned, and no
\* third save was pressed while two were under way.
Calm == ~torn /\ ~raced /\ ~crowded

Counter(c) == c["ChangeCounter"]
Name(c) == Upper[c["WSPR_callsign"]]

AtLeastTwo(n) == IF n <= 1 THEN 2 ELSE n

\* What a save of c makes of the counter when s is what the device holds.
Counted(c, s) ==
    IF c["WSPR_callsign"] = s["WSPR_callsign"] THEN Counter(s) ELSE Counter(s) + 1

\* getFields made c when s was the configuration.
Fresh(c, s) == Name(c) = c["WSPR_callsign"] /\ Counter(c) = AtLeastTwo(Counted(c, s))

\* getFields made c when s was the configuration, or the one before the last save.
Acceptable(c, s) ==
    /\ Name(c) = c["WSPR_callsign"]
    /\ Counter(c) <= AtLeastTwo(Counted(c, s))
    /\ Name(c) = Name(s) => Counter(c) >= Counted(c, s)

\* Task_WSPRSave has corrected the counter of c.
Corrected(c, s) == Name(c) # Name(s) => Counter(c) > Counter(s)

Writing == task.kind = "Save" /\ step <= Len(SaveMessages)
Written == task.kind = "Save" /\ step = Len(SaveMessages) + 1
Copying == task.kind = "Save" /\ step > Len(SaveMessages)

CounterSent ==
    \E i \in 1 .. Len(SaveMessages) : i < step /\ SaveMessages[i] = "ChangeCounter"

\* What the next save has to go on from.
Known == IF Copying THEN Held ELSE config

LoadedEvent == \E i \in 1 .. Len(events) : events[i].kind # "Connect" /\ events[i].success

\* Nothing is saved and no link is shown before the device was loaded.
LoadedInv == saveEnabled \/ LoadedEvent \/ SavesUnderWay # {} => authId = TheDevice

LoadAgrees ==
    /\ IdRead(TheDevice)
    /\ SentAgrees(TheDevice, LoadMessages)
    /\ AssignedAgrees(LoadMessages)

SaveAgrees ==
    /\ SentAgrees(TheDevice, SaveMessages)
    /\ AssignedAgrees(SaveMessages)
    /\ \A v \in Vars :
           (\A i \in 1 .. Len(SaveMessages) : i < step => SaveMessages[i] # v)
               => Held[v] = config[v]
    /\ Writing /\ CounterSent => Corrected(task.cfg, config)
    /\ Written => Acceptable(Held, config) /\ Corrected(Held, config)

\* Whether a device is connected or not, the DeviceModel holds what the device
\* holds once it was loaded, except that a save changes the device first.
AgreeInv ==
    /\ task.kind = "Load" => LoadAgrees
    /\ task.kind = "Save" => SaveAgrees
    /\ task.kind # "Save" /\ authId = TheDevice => config = Held

\* The link k does not stand in the way of a link for the configuration c.
Before(k, c) ==
    /\ k = [id |-> TheDevice, counter |-> k.counter, callsign |-> k.callsign]
    /\ k.counter \in Nat
    /\ k.counter <= Counter(c)
    /\ k.counter = Counter(c) => k.callsign = Name(c)

KeysInv ==
    /\ KeyUnique
    /\ ~Writing => \A k \in keys : Before(k, Held)
    /\ Writing \/ Written => \A k \in keys : Before(k, config)

\* At most two saves are under way; the first was made for the configuration or the
\* one before, the second for the configuration.
QueueInv ==
    /\ \A i, j, k \in SavesUnderWay : ~(i < j /\ j < k)
    /\ \A i \in SavesUnderWay :
           (Copying => i # 0) => Acceptable(Unfinished(i).cfg, Known)
    /\ ~Copying => \A i, j \in SavesUnderWay : i < j => Fresh(Unfinished(j).cfg, config)

CalmInv == LoadedInv /\ AgreeInv /\ KeysInv /\ QueueInv

CounterInv == Calm => CalmInv

-------------------------------------------------------------------------------
(* Counters.                                                                 *)

LEMMA ConfigFacts ==
    ASSUME NEW c \in ConfigSet
    PROVE  /\ Counter(c) \in Nat /\ c \in [Vars -> Callsigns \cup Nat]
           /\ "ChangeCounter" \in Vars /\ "WSPR_callsign" \in Vars
BY ConfigAppAssumption DEF ConfigSet, Counter

LEMMA FreshIsAcceptable ==
    ASSUME NEW c \in ConfigSet, NEW s \in ConfigSet, Fresh(c, s)
    PROVE  Acceptable(c, s)
<1>1. Counter(s) \in Nat /\ Counter(c) \in Nat
    BY ConfigFacts
<1> QED
    BY ONLY <1>1, Fresh(c, s) DEF Fresh, Acceptable, Counted, AtLeastTwo

\* After a save of t the next save is acceptable if it was made before t.
LEMMA StaysAcceptable ==
    ASSUME NEW c \in ConfigSet, NEW s \in ConfigSet, NEW t \in ConfigSet,
           Fresh(c, s), Acceptable(t, s), Corrected(t, s)
    PROVE  Acceptable(c, t)
<1>1. Counter(s) \in Nat /\ Counter(c) \in Nat /\ Counter(t) \in Nat
    BY ConfigFacts
<1>2. Name(c) = c["WSPR_callsign"] /\ Name(t) = t["WSPR_callsign"]
    BY DEF Fresh, Acceptable
<1>3. Name(t) # Name(s) => t["WSPR_callsign"] # s["WSPR_callsign"]
    BY DEF Name
<1>4. CASE c["WSPR_callsign"] = t["WSPR_callsign"]
    BY ONLY <1>1, <1>2, <1>3, <1>4, Fresh(c, s), Acceptable(t, s), Corrected(t, s)
       DEF Fresh, Acceptable, Counted, AtLeastTwo, Corrected
<1>5. CASE c["WSPR_callsign"] # t["WSPR_callsign"]
    BY ONLY <1>1, <1>2, <1>3, <1>5, Fresh(c, s), Acceptable(t, s), Corrected(t, s)
       DEF Fresh, Acceptable, Counted, AtLeastTwo, Corrected
<1> QED
    BY <1>4, <1>5

LEMMA NeverBelow ==
    ASSUME NEW s \in ConfigSet, NEW t \in ConfigSet, Acceptable(t, s), Corrected(t, s)
    PROVE  /\ Counter(s) <= Counter(t)
           /\ Counter(s) = Counter(t) => Name(s) = Name(t)
<1>1. Counter(s) \in Nat /\ Counter(t) \in Nat
    BY ConfigFacts
<1> QED
    BY ONLY <1>1, Acceptable(t, s), Corrected(t, s) DEF Acceptable, Corrected, Counted

LEMMA BeforeMoves ==
    ASSUME NEW k, NEW s \in ConfigSet, NEW t \in ConfigSet,
           Acceptable(t, s), Corrected(t, s), Before(k, s)
    PROVE  Before(k, t)
<1>1. Counter(s) \in Nat /\ Counter(t) \in Nat
    BY ConfigFacts
<1>2. Counter(s) <= Counter(t) /\ (Counter(s) = Counter(t) => Name(s) = Name(t))
    BY NeverBelow
<1> QED
    BY ONLY <1>1, <1>2, Before(k, s) DEF Before

LEMMA GetFieldsFresh ==
    ASSUME NEW s \in ConfigSet, NEW typed \in Callsigns, NEW n \in Nat
    PROVE  GetFields(s, typed, n) \in ConfigSet /\ Fresh(GetFields(s, typed, n), s)
<1> DEFINE callsign == Canonical[typed]
           counted == IF s["WSPR_callsign"] # callsign
                        THEN s["ChangeCounter"] + 1 ELSE s["ChangeCounter"]
           m == IF counted <= 1 THEN 2 ELSE counted
           c == Config(callsign, m, n)
<1>1. callsign \in Callsigns /\ Upper[callsign] = callsign
    BY ConfigAppAssumption
<1>2. s["ChangeCounter"] \in Nat
    BY DEF ConfigSet
<1>3. m \in Nat
    BY ONLY <1>2
<1>4. GetFields(s, typed, n) = c
    BY DEF GetFields
<1>5. m = AtLeastTwo(IF callsign = s["WSPR_callsign"] THEN Counter(s) ELSE Counter(s) + 1)
    BY DEF AtLeastTwo, Counter
<1> HIDE DEF callsign, m
<1>6. c \in ConfigSet
    BY <1>1, <1>3, ConfigIsTyped
<1>7. c["WSPR_callsign"] = callsign /\ c["ChangeCounter"] = m
    BY ConfigAppAssumption DEF Config
<1> HIDE DEF c
<1> QED
    BY <1>1, <1>4, <1>5, <1>6, <1>7 DEF Fresh, Name, Counter, Counted

\* What Task_WSPRSave writes is acceptable, and corrected when it is the counter.
LEMMA OutgoingAcceptable ==
    ASSUME Types, task # NoTask, task.kind = "Save", Acceptable(task.cfg, config)
    PROVE  /\ Outgoing \in ConfigSet
           /\ Acceptable(Outgoing, config)
           /\ Message = "ChangeCounter" => Corrected(Outgoing, config)
           /\ Corrected(task.cfg, config) \/ Message # "ChangeCounter"
                  => Outgoing = task.cfg
<1> DEFINE c == task.cfg
           s == config
           o == Outgoing
<1>1. c \in ConfigSet /\ s \in ConfigSet /\ o \in ConfigSet
    BY NoTaskFacts, OutgoingFacts DEF Types
<1>2. /\ Counter(c) \in Nat /\ Counter(s) \in Nat /\ Counter(o) \in Nat
      /\ c \in [Vars -> Callsigns \cup Nat]
      /\ "ChangeCounter" \in Vars /\ "WSPR_callsign" \in Vars
    BY <1>1, ConfigFacts
<1>3. \/ /\ o = c
         /\ Message = "ChangeCounter" => Name(c) = Name(s) \/ Counter(c) > Counter(s)
      \/ /\ Message = "ChangeCounter" /\ Name(c) # Name(s) /\ Counter(c) <= Counter(s)
         /\ o = [c EXCEPT !["ChangeCounter"] = Counter(s) + 1]
    <2>1. CASE Message = "ChangeCounter" /\ Name(c) # Name(s) /\ Counter(c) <= Counter(s)
        BY <2>1 DEF Outgoing, Name, Counter
    <2>2. CASE ~(Message = "ChangeCounter" /\ Name(c) # Name(s) /\ Counter(c) <= Counter(s))
        <3>1. o = c
            BY <2>2 DEF Outgoing, Name, Counter
        <3>2. Message = "ChangeCounter" => Name(c) = Name(s) \/ Counter(c) > Counter(s)
            BY <1>2, <2>2
        <3> QED
            BY <3>1, <3>2
    <2> QED
        BY <2>1, <2>2
<1> HIDE DEF c, s, o
<1>4. CASE /\ o = c
           /\ Message = "ChangeCounter" => Name(c) = Name(s) \/ Counter(c) > Counter(s)
    <2>1. Acceptable(o, s)
        BY <1>4 DEF c, s
    <2> QED
        BY <1>1, <1>4, <2>1 DEF Corrected, c, s, o
<1>5. CASE /\ Message = "ChangeCounter" /\ Name(c) # Name(s) /\ Counter(c) <= Counter(s)
           /\ o = [c EXCEPT !["ChangeCounter"] = Counter(s) + 1]
    <2>1. /\ o["WSPR_callsign"] = c["WSPR_callsign"]
          /\ o["ChangeCounter"] = Counter(s) + 1
        BY ONLY <1>2, <1>5
    <2>2. Name(o) = Name(c) /\ Counter(o) = Counter(s) + 1 /\ Name(c) = c["WSPR_callsign"]
        BY <2>1 DEF Name, Counter, Acceptable, c, s
    <2>3. c["WSPR_callsign"] # s["WSPR_callsign"]
        BY <1>5 DEF Name
    <2>4. Acceptable(o, s)
        BY ONLY <1>2, <1>5, <2>1, <2>2, <2>3 DEF Acceptable, Counted, AtLeastTwo
    <2>5. Corrected(o, s) /\ ~Corrected(c, s)
        BY ONLY <1>2, <1>5, <2>2 DEF Corrected
    <2> QED
        BY <1>1, <1>5, <2>4, <2>5 DEF c, s, o
<1> QED
    BY <1>3, <1>4, <1>5
-------------------------------------------------------------------------------
(* The saves under way.                                                      *)

LEMMA SavesFacts ==
    ASSUME Types
    PROVE  /\ Len(tasks) \in Nat
           /\ \A i \in SavesUnderWay : i \in Nat /\ i <= Len(tasks)
           /\ 0 \in SavesUnderWay <=> task.kind = "Save"
<1>1. Len(tasks) \in Nat
    BY LenProperties DEF Types
<1>2. 0 \in 0 .. Len(tasks) /\ \A i \in 0 .. Len(tasks) : i \in Nat /\ i <= Len(tasks)
    BY ONLY <1>1
<1> QED
    BY <1>1, <1>2 DEF SavesUnderWay, Unfinished

\* Every save under way is of a configuration.
LEMMA SavesAreTyped ==
    ASSUME Types, NEW i \in SavesUnderWay
    PROVE  Unfinished(i).cfg \in ConfigSet /\ Unfinished(i).kind = "Save"
<1>1. Unfinished(i).kind = "Save" /\ i \in 0 .. Len(tasks) /\ Len(tasks) \in Nat
    BY SavesFacts DEF SavesUnderWay
<1>2. CASE i = 0
    BY <1>1, <1>2, NoTaskFacts DEF Unfinished, Kinds
<1>3. CASE i # 0
    <2>1. i \in 1 .. Len(tasks)
        BY ONLY <1>1, <1>3
    <2>2. tasks[i] \in TaskSet
        BY <2>1, ElementOfSeq DEF Types
    <2> QED
        BY <1>1, <1>3, <2>2 DEF Unfinished, TaskSet
<1> QED
    BY <1>2, <1>3

LEMMA AppendSaves ==
    ASSUME NEW t \in TaskSet, NEW n, Types, n = Len(tasks) + 1, Enqueue(t), task' = task
    PROVE  /\ SavesUnderWay' \subseteq SavesUnderWay \cup {n}
           /\ \A i \in SavesUnderWay : Unfinished(i)' = Unfinished(i)
           /\ n \in SavesUnderWay' => t.kind = "Save"
           /\ Unfinished(n)' = t
<1>1. n = Len(tasks) + 1
    OBVIOUS
<1>2. tasks \in Seq(TaskSet) /\ tasks' = Append(tasks, t) /\ Len(tasks) \in Nat
    BY SavesFacts DEF Types, Enqueue
<1>3. /\ Len(tasks') = n /\ tasks'[n] = t
      /\ \A i \in 1 .. Len(tasks) : tasks'[i] = tasks[i]
    BY ONLY <1>1, <1>2, t \in TaskSet, AppendProperties
<1>4. ASSUME NEW i \in 0 .. Len(tasks)
      PROVE  Unfinished(i)' = Unfinished(i)
    <2>1. CASE i = 0
        BY <2>1 DEF Unfinished
    <2>2. CASE i # 0
        <3>1. i \in 1 .. Len(tasks)
            BY ONLY <1>2, <2>2
        <3> QED
            BY <1>3, <2>2, <3>1 DEF Unfinished
    <2> QED
        BY <2>1, <2>2
<1>5. n # 0 /\ 0 .. n = (0 .. Len(tasks)) \cup {n}
    BY ONLY <1>1, <1>2
<1>6. Unfinished(n)' = t
    BY <1>3, <1>5 DEF Unfinished
<1>7. \A i \in SavesUnderWay : Unfinished(i)' = Unfinished(i)
    BY <1>4 DEF SavesUnderWay
<1>8. SavesUnderWay' = {i \in (0 .. Len(tasks)) \cup {n} : Unfinished(i)'.kind = "Save"}
    BY <1>3, <1>5 DEF SavesUnderWay
<1>9. SavesUnderWay' \subseteq SavesUnderWay \cup {n}
    BY <1>4, <1>8 DEF SavesUnderWay
<1>10. n \in SavesUnderWay' => t.kind = "Save"
    BY <1>6, <1>8
<1> QED
    BY <1>6, <1>7, <1>9, <1>10

LEMMA TailSaves ==
    ASSUME Types, StartTask
    PROVE  \A i \in SavesUnderWay' :
               /\ i \in Nat /\ i + 1 \in SavesUnderWay
               /\ Unfinished(i)' = Unfinished(i + 1)
<1>1. /\ tasks \in Seq(TaskSet) /\ tasks # <<>> /\ tasks' = Tail(tasks)
      /\ task' = IF Head(tasks).kind = "Load" THEN Task("Load", config) ELSE Head(tasks)
      /\ config \in ConfigSet
    BY DEF Types, StartTask
<1>2. Len(tasks) \in Nat \ {0}
    BY <1>1, EmptySeq, LenProperties
<1>3. /\ Len(tasks') = Len(tasks) - 1 /\ Head(tasks) = tasks[1]
      /\ \A i \in 1 .. Len(tasks') : tasks'[i] = tasks[i + 1]
    BY <1>1, HeadTailProperties
<1> SUFFICES ASSUME NEW i \in SavesUnderWay'
             PROVE  /\ i \in Nat /\ i + 1 \in SavesUnderWay
                    /\ Unfinished(i)' = Unfinished(i + 1)
    OBVIOUS
<1>4. i \in 0 .. Len(tasks') /\ Unfinished(i)'.kind = "Save"
    BY DEF SavesUnderWay
<1>5. i \in Nat /\ i + 1 \in 0 .. Len(tasks) /\ i + 1 # 0 /\ (i # 0 => i \in 1 .. Len(tasks'))
    BY ONLY <1>2, <1>3, <1>4
<1>6. Unfinished(i)' = Unfinished(i + 1)
    <2>1. CASE i = 0
        <3>1. Task("Load", config).kind = "Load"
            BY <1>1, TaskIsTyped DEF Kinds
        <3>2. task'.kind = "Save"
            BY <1>4, <2>1 DEF Unfinished
        <3>3. task' = Head(tasks)
            BY <1>1, <3>1, <3>2
        <3>4. Unfinished(i)' = task' /\ Unfinished(i + 1) = tasks[1]
            BY <2>1 DEF Unfinished
        <3> QED
            BY <1>3, <3>3, <3>4
    <2>2. CASE i # 0
        BY <1>3, <1>5, <2>2 DEF Unfinished
    <2> QED
        BY <2>1, <2>2
<1> QED
    BY <1>4, <1>5, <1>6 DEF SavesUnderWay

\* Whatever leaves the saves and their order alone while no save is being copied.
LEMMA QueueKept ==
    ASSUME NEW n \in Nat, QueueInv, ~Copying, ~Copying', config' = config,
           \A i \in SavesUnderWay' : /\ i \in Nat /\ i + n \in SavesUnderWay
                                     /\ Unfinished(i)'.cfg = Unfinished(i + n).cfg
    PROVE  QueueInv'
<1>1. Known = config /\ Known' = config
    BY DEF Known
<1>2. ASSUME NEW i \in SavesUnderWay', NEW j \in SavesUnderWay', i < j
      PROVE  i + n < j + n
    <2>1. i \in Nat /\ j \in Nat
        OBVIOUS
    <2> QED
        BY ONLY <1>2, <2>1, n \in Nat
<1>3. ASSUME NEW i \in SavesUnderWay', NEW j \in SavesUnderWay', NEW k \in SavesUnderWay',
             i < j, j < k
      PROVE  FALSE
    <2>1. \A a, b, c \in SavesUnderWay : ~(a < b /\ b < c)
        BY DEF QueueInv
    <2>2. i + n < j + n /\ j + n < k + n
        BY <1>2, <1>3
    <2>3. i + n \in SavesUnderWay /\ j + n \in SavesUnderWay /\ k + n \in SavesUnderWay
        OBVIOUS
    <2> QED
        BY ONLY <2>1, <2>2, <2>3
<1>4. ASSUME NEW i \in SavesUnderWay'
      PROVE  Acceptable(Unfinished(i)'.cfg, config)
    BY <1>1 DEF QueueInv
<1>5. ASSUME NEW i \in SavesUnderWay', NEW j \in SavesUnderWay', i < j
      PROVE  Fresh(Unfinished(j)'.cfg, config)
    BY <1>2, <1>5 DEF QueueInv
<1>6. (\A i \in SavesUnderWay : (Copying => i # 0) => Acceptable(Unfinished(i).cfg, Known))'
    <2> SUFFICES ASSUME NEW i \in SavesUnderWay'
                 PROVE  Acceptable(Unfinished(i).cfg, Known)'
        OBVIOUS
    <2>1. Acceptable(Unfinished(i)'.cfg, config)
        BY <1>4
    <2> QED
        BY ONLY <1>1, <2>1 DEF Acceptable, Counted, Counter, Name
<1>7. (~Copying => \A i, j \in SavesUnderWay : i < j => Fresh(Unfinished(j).cfg, config))'
    BY <1>5, config' = config DEF Fresh, Counted, Counter, Name
<1>8. (\A i, j, k \in SavesUnderWay : ~(i < j /\ j < k))'
    BY <1>3
<1> QED
    BY ONLY <1>6, <1>7, <1>8 DEF QueueInv

\* Whatever leaves the worker alone and starts no new save.
LEMMA QueueUntouched ==
    ASSUME QueueInv, UNCHANGED <<config, task, step, eeprom>>,
           SavesUnderWay' \subseteq SavesUnderWay,
           \A i \in SavesUnderWay : Unfinished(i)' = Unfinished(i)
    PROVE  QueueInv'
<1>1. Known' = Known /\ Copying' = Copying
    BY DEF Known, Copying, Held
<1>2. (\A i \in SavesUnderWay : (Copying => i # 0) => Acceptable(Unfinished(i).cfg, Known))'
    BY <1>1 DEF QueueInv, Acceptable, Counted, Counter, Name
<1>3. (~Copying => \A i, j \in SavesUnderWay : i < j => Fresh(Unfinished(j).cfg, config))'
    BY <1>1 DEF QueueInv, Fresh, Counted, Counter, Name
<1>4. (\A i, j, k \in SavesUnderWay : ~(i < j /\ j < k))'
    BY DEF QueueInv
<1> QED
    BY ONLY <1>2, <1>3, <1>4 DEF QueueInv

LEMMA AgreeUntouched ==
    ASSUME AgreeInv, UNCHANGED <<config, authId, task, step, eeprom>>
    PROVE  AgreeInv'
BY DEF AgreeInv, LoadAgrees, SaveAgrees, IdRead, SentAgrees, AssignedAgrees, Held,
       Writing, Written, CounterSent, Corrected, Acceptable, Counted, Counter, Name

LEMMA KeysUntouched ==
    ASSUME KeysInv, UNCHANGED <<config, task, step, eeprom, keys>>
    PROVE  KeysInv'
BY DEF KeysInv, KeyUnique, Before, Held, Writing, Written, Counter, Name
-------------------------------------------------------------------------------
(* The steps of the UI thread, with one device.                              *)

LEMMA AppendOther ==
    ASSUME NEW t \in TaskSet, Types, t.kind # "Save", Enqueue(t), task' = task
    PROVE  /\ SavesUnderWay' \subseteq SavesUnderWay
           /\ \A i \in SavesUnderWay : Unfinished(i)' = Unfinished(i)
<1>1. PICK n : n = Len(tasks) + 1
    OBVIOUS
<1> QED
    BY <1>1, AppendSaves

LEMMA SameSaves ==
    ASSUME UNCHANGED <<task, tasks>>
    PROVE  /\ SavesUnderWay' = SavesUnderWay
           /\ \A i : Unfinished(i)' = Unfinished(i)
BY DEF SavesUnderWay, Unfinished

LEMMA HandleLoaded ==
    ASSUME NEW kind \in Kinds, NEW success \in BOOLEAN, Types, Handle(kind, success)
    PROVE  /\ LoadedEvent' => LoadedEvent
           /\ kind # "Connect" /\ success => LoadedEvent
<1>1. /\ events \in Seq(EventSet) /\ events # <<>> /\ events' = Tail(events)
      /\ Head(events).kind = kind /\ Head(events).success = success
    BY DEF Types, Handle
<1>2. Len(events) \in Nat \ {0}
    BY <1>1, EmptySeq, LenProperties
<1>3. /\ Len(events') = Len(events) - 1 /\ Head(events) = events[1]
      /\ \A i \in 1 .. Len(events') : events'[i] = events[i + 1]
    BY <1>1, HeadTailProperties
<1>4. /\ 1 \in 1 .. Len(events)
      /\ \A i \in 1 .. Len(events') : i + 1 \in 1 .. Len(events)
    BY ONLY <1>2, <1>3
<1>5. LoadedEvent' => LoadedEvent
    BY <1>3, <1>4 DEF LoadedEvent
<1>6. kind # "Connect" /\ success => LoadedEvent
    BY <1>1, <1>3, <1>4 DEF LoadedEvent
<1> QED
    BY <1>5, <1>6

\* Whatever leaves the worker, the device and the links alone.
LEMMA UntouchedStep ==
    ASSUME CalmInv, UNCHANGED <<config, authId, task, step, eeprom, keys>>,
           SavesUnderWay' \subseteq SavesUnderWay,
           \A i \in SavesUnderWay : Unfinished(i)' = Unfinished(i),
           saveEnabled' => saveEnabled, LoadedEvent' => LoadedEvent
    PROVE  CalmInv'
<1>1. QueueInv'
    BY QueueUntouched DEF CalmInv
<1>2. AgreeInv' /\ KeysInv'
    BY AgreeUntouched, KeysUntouched DEF CalmInv
<1>3. LoadedInv'
    BY DEF CalmInv, LoadedInv
<1> QED
    BY <1>1, <1>2, <1>3 DEF CalmInv

LEMMA DeviceConnectCalm ==
    ASSUME NEW d \in Devices, Types, CalmInv, DeviceConnect(d)
    PROVE  CalmInv'
<1> DEFINE t == Task("Connect", BlankConfig)
<1>1. t \in TaskSet /\ t.kind = "Connect"
    BY BlankIsTyped, TaskIsTyped DEF Kinds
<1>2. /\ Enqueue(t)
      /\ UNCHANGED <<config, authId, task, step, eeprom, keys, saveEnabled, events>>
    BY DEF DeviceConnect, DropConnection, modelVars
<1> HIDE DEF t
<1>3. /\ SavesUnderWay' \subseteq SavesUnderWay
      /\ \A i \in SavesUnderWay : Unfinished(i)' = Unfinished(i)
    BY <1>1, <1>2, AppendOther
<1>4. LoadedEvent' => LoadedEvent
    BY <1>2 DEF LoadedEvent
<1> QED
    BY <1>2, <1>3, <1>4, UntouchedStep

LEMMA OnConnectSuccessCalm ==
    ASSUME Types, CalmInv, OnConnectSuccess
    PROVE  CalmInv'
<1> DEFINE t == Task("Load", BlankConfig)
<1>1. t \in TaskSet /\ t.kind = "Load"
    BY BlankIsTyped, TaskIsTyped DEF Kinds
<1>2. /\ Enqueue(t) /\ Handle("Connect", TRUE)
      /\ UNCHANGED <<config, authId, task, step, eeprom, keys, saveEnabled>>
    BY DEF OnConnectSuccess, uiVars, modelVars, workerVars
<1> HIDE DEF t
<1>3. /\ SavesUnderWay' \subseteq SavesUnderWay
      /\ \A i \in SavesUnderWay : Unfinished(i)' = Unfinished(i)
    BY <1>1, <1>2, AppendOther
<1>4. LoadedEvent' => LoadedEvent
    BY <1>2, HandleLoaded DEF Kinds
<1> QED
    BY <1>2, <1>3, <1>4, UntouchedStep

LEMMA OtherStepsCalm ==
    ASSUME Types, CalmInv,
           DeviceConnectFails \/ StatusGivesUp \/ OnError \/ CloseBox \/ UNCHANGED vars
    PROVE  CalmInv'
<1>1. UNCHANGED <<config, authId, task, tasks, step, eeprom, keys>>
    BY DEF DeviceConnectFails, StatusGivesUp, OnError, CloseBox, DropConnection, vars, uiVars,
           modelVars, workerVars
<1>2. saveEnabled' => saveEnabled
    BY Zenon DEF DeviceConnectFails, StatusGivesUp, OnError, CloseBox, OnDisconnect, vars,
                 uiVars
<1>3. events' = events \/ \E kind \in Kinds : Handle(kind, FALSE)
    BY DEF DeviceConnectFails, StatusGivesUp, OnError, CloseBox, vars, Kinds
<1>4. LoadedEvent' => LoadedEvent
    <2>1. CASE events' = events
        BY <2>1 DEF LoadedEvent
    <2>2. CASE \E kind \in Kinds : Handle(kind, FALSE)
        BY <2>2, HandleLoaded
    <2> QED
        BY <1>3, <2>1, <2>2
<1>5. SavesUnderWay' = SavesUnderWay /\ \A i : Unfinished(i)' = Unfinished(i)
    BY <1>1, SameSaves
<1> QED
    BY <1>1, <1>2, <1>4, <1>5, UntouchedStep

\* When the configuration is read and the worker is not assigning it, it is what the
\* device holds, or a save is writing or has just written the next one.
LEMMA ReadFacts ==
    ASSUME Types, CalmInv, authId = TheDevice, TheDevice \in Devices,
           Assigned \notin 2 .. Len(Members)
    PROVE  /\ ~Writing /\ ~Written => config = Held
           /\ Written => /\ Acceptable(Held, config) /\ Corrected(Held, config)
                         /\ Held \in ConfigSet
           /\ config \in ConfigSet
<1>1. config \in ConfigSet /\ Held \in ConfigSet /\ step \in Nat
    BY DEF Types, Held
<1>2. ASSUME ~Writing, ~Written
      PROVE  config = Held
    <2>1. CASE task.kind # "Save"
        BY <2>1 DEF CalmInv, AgreeInv
    <2>2. CASE task.kind = "Save"
        <3>1. Assigned = step - Len(SaveMessages) /\ Len(SaveMessages) \in Nat
            BY <2>2, MessagesFacts DEF Assigned, Messages
        <3>2. step > Len(SaveMessages) + 1
            BY <1>1, <1>2, <2>2, <3>1 DEF Writing, Written
        <3>3. Len(Members) = Len(SaveMessages)
            BY DEF Members
        <3>4. step - Len(SaveMessages) > Len(Members)
            BY ONLY <1>1, <3>1, <3>2, <3>3, Assigned \notin 2 .. Len(Members)
        <3>5. task.cfg \in ConfigSet
            BY <2>2, NoTaskFacts DEF Kinds
        <3>6. SentAgrees(TheDevice, SaveMessages) /\ AssignedAgrees(SaveMessages)
            BY <2>2 DEF CalmInv, AgreeInv, SaveAgrees
        <3> QED
            BY <3>1, <3>4, <3>5, <3>6, AllAgree, MessagesFacts DEF Held
    <2> QED
        BY <2>1, <2>2
<1>3. ASSUME Written
      PROVE  Acceptable(Held, config) /\ Corrected(Held, config)
    BY <1>3 DEF Written, CalmInv, AgreeInv, SaveAgrees
<1> QED
    BY <1>1, <1>2, <1>3

LEMMA DeviceSaveCalm ==
    ASSUME NEW typed \in Callsigns, Types, CalmInv, TheDevice \in Devices,
           DeviceSave(typed), Calm'
    PROVE  CalmInv'
<1> DEFINE c == GetFields(config, typed, saves + 1)
           t == Task("Save", c)
<1>1. config \in ConfigSet /\ saves + 1 \in Nat
    BY DEF Types
<1>2. c \in ConfigSet /\ Fresh(c, config)
    BY <1>1, GetFieldsFresh
<1> HIDE DEF c
<1>3. t \in TaskSet /\ t.cfg = c
    BY <1>2, TaskIsTyped DEF Kinds
<1>4. /\ Enqueue(t) /\ saveEnabled /\ Assigned \notin 2 .. Len(Members)
      /\ \A i, j \in SavesUnderWay : i = j
      /\ ~saveEnabled'
      /\ UNCHANGED <<config, authId, task, step, eeprom, keys, events>>
    BY DEF DeviceSave, ReadConfig, Calm, modelVars, workerVars, c
<1> HIDE DEF t
<1>5. authId = TheDevice
    BY <1>4 DEF CalmInv, LoadedInv
<1>6. PICK n : n = Len(tasks) + 1
    OBVIOUS
<1>7. /\ SavesUnderWay' \subseteq SavesUnderWay \cup {n}
      /\ \A i \in SavesUnderWay : Unfinished(i)' = Unfinished(i)
      /\ Unfinished(n)' = t
    BY <1>3, <1>4, <1>6, AppendSaves
<1>8. n \in Nat /\ \A i \in SavesUnderWay : i \in Nat /\ i < n /\ i # n
    BY <1>6, SavesFacts
<1>9. Acceptable(c, Known)
    <2>1. Writing \/ Written \/ (~Writing /\ ~Written)
        OBVIOUS
    <2>2. step \in Nat /\ Len(SaveMessages) \in Nat
        BY MessagesFacts DEF Types
    <2>3. CASE ~Copying
        BY <1>1, <1>2, <2>3, FreshIsAcceptable DEF Known
    <2>4. CASE Copying /\ Written
        BY <1>1, <1>2, <1>4, <1>5, <2>4, ReadFacts, StaysAcceptable DEF Known
    <2>5. CASE Copying /\ ~Written
        <3>1. ~Writing
            BY <2>2, <2>5 DEF Writing, Copying
        <3>2. config = Held
            BY <1>4, <1>5, <2>5, <3>1, ReadFacts
        <3> QED
            BY <1>1, <1>2, <2>5, <3>2, FreshIsAcceptable DEF Known
    <2> QED
        BY <2>3, <2>4, <2>5
<1>10. Known' = Known /\ Copying' = Copying /\ config' = config
    BY <1>4 DEF Known, Copying, Held
<1>11. QueueInv'
    <2>1. (\A i, j, k \in SavesUnderWay : ~(i < j /\ j < k))'
        <3> SUFFICES ASSUME NEW i \in SavesUnderWay', NEW j \in SavesUnderWay',
                            NEW k \in SavesUnderWay', i < j, j < k
                     PROVE  FALSE
            OBVIOUS
        <3>1. i \in Nat /\ j \in Nat /\ k \in Nat /\ k <= n
            BY <1>7, <1>8
        <3>2. i # n /\ j # n /\ i # j
            BY ONLY <1>8, <3>1, i < j, j < k
        <3> QED
            BY <1>4, <1>7, <3>2
    <2>2. (\A i \in SavesUnderWay : (Copying => i # 0) => Acceptable(Unfinished(i).cfg, Known))'
        <3> SUFFICES ASSUME NEW i \in SavesUnderWay', Copying => i # 0
                     PROVE  Acceptable(Unfinished(i)'.cfg, Known)
            BY <1>10 DEF Acceptable, Counted, Counter, Name
        <3>1. CASE i = n
            BY <1>3, <1>7, <1>9, <3>1
        <3>2. CASE i # n
            BY <1>7, <3>2 DEF CalmInv, QueueInv
        <3> QED
            BY <3>1, <3>2
    <2>3. (~Copying => \A i, j \in SavesUnderWay : i < j => Fresh(Unfinished(j).cfg, config))'
        <3> SUFFICES ASSUME NEW i \in SavesUnderWay', NEW j \in SavesUnderWay', i < j, ~Copying
                     PROVE  Fresh(Unfinished(j)'.cfg, config)
            BY <1>10 DEF Fresh, Counted, Counter, Name
        <3>1. CASE j = n
            BY <1>2, <1>3, <1>7, <3>1
        <3>2. CASE j # n
            <4>1. j \in SavesUnderWay
                BY <1>7, <3>2
            <4>2. i # n
                BY ONLY <1>8, <4>1, i < j
            <4>3. i \in SavesUnderWay
                BY <1>7, <4>2
            <4> QED
                BY <1>7, <4>1, <4>3 DEF CalmInv, QueueInv
        <3> QED
            BY <3>1, <3>2
    <2> QED
        BY ONLY <2>1, <2>2, <2>3 DEF QueueInv
<1>12. AgreeInv' /\ KeysInv'
    BY <1>4, AgreeUntouched, KeysUntouched DEF CalmInv
<1>13. LoadedInv'
    BY <1>4, <1>5 DEF LoadedInv
<1> QED
    BY <1>11, <1>12, <1>13 DEF CalmInv

\* A save that has not sent anything has changed nothing.
LEMMA NothingWritten ==
    ASSUME Types, CalmInv, TheDevice \in Devices, task.kind = "Save", ~(step > 1)
    PROVE  config = Held /\ (Len(SaveMessages) >= 1 => Writing)
<1>1. step = 1
    BY NoTaskFacts DEF Types, Kinds
<1>2. \A i \in 1 .. Len(SaveMessages) : ~(i < step)
    BY <1>1, MessagesFacts
<1>3. \A v \in Vars : Held[v] = config[v]
    BY <1>2 DEF CalmInv, AgreeInv, SaveAgrees
<1>4. /\ config \in [Vars -> Callsigns \cup Nat] /\ Held \in [Vars -> Callsigns \cup Nat]
    BY DEF Types, ConfigSet, Held
<1>5. config = Held
    BY ONLY <1>3, <1>4
<1> QED
    BY <1>1, <1>5 DEF Writing

\* The link that is shown is in no earlier link's way, nor in the way of a later one.
LEMMA OnSuccessCalm ==
    ASSUME Types, CalmInv, TheDevice \in Devices, OnLoadSuccess \/ OnSaveSuccess, Calm'
    PROVE  CalmInv'
<1> DEFINE k0 == [id |-> authId, counter |-> config["ChangeCounter"],
                  callsign |-> Upper[config["WSPR_callsign"]]]
<1>1. PICK kind \in {"Load", "Save"} : Handle(kind, TRUE)
    BY DEF OnLoadSuccess, OnSaveSuccess
<1>2. /\ UNCHANGED <<config, authId, task, tasks, step, eeprom>>
      /\ Assigned \notin 2 .. Len(Members)
      /\ keys' = keys \/ keys' = keys \cup {k0}
    BY DEF OnLoadSuccess, OnSaveSuccess, ShowStatsLink, ReadConfig, Calm, modelVars, workerVars
<1>3. LoadedEvent /\ (LoadedEvent' => LoadedEvent)
    BY <1>1, HandleLoaded DEF Kinds
<1>4. authId = TheDevice
    BY <1>3 DEF CalmInv, LoadedInv
<1>5. /\ ~Writing /\ ~Written => config = Held
      /\ Written => /\ Acceptable(Held, config) /\ Corrected(Held, config)
                    /\ Held \in ConfigSet
      /\ config \in ConfigSet
    BY <1>2, <1>4, ReadFacts
<1>6. /\ Writing' = Writing /\ Written' = Written /\ Held' = Held /\ config' = config
    BY <1>2 DEF Writing, Written, Held
<1>7. \A k \in keys : Before(k, config)
    <2>1. CASE Writing \/ Written
        BY <2>1 DEF CalmInv, KeysInv
    <2>2. CASE ~Writing /\ ~Written
        BY <1>5, <2>2 DEF CalmInv, KeysInv
    <2> QED
        BY <2>1, <2>2
<1>8. Counter(config) \in Nat
    BY <1>5, ConfigFacts
<1>9. /\ k0.id = TheDevice /\ k0.counter = Counter(config) /\ k0.callsign = Name(config)
      /\ k0 = [id |-> TheDevice, counter |-> k0.counter, callsign |-> k0.callsign]
    BY <1>4 DEF Counter, Name
<1> HIDE DEF k0
<1>10. Before(k0, config)
    BY ONLY <1>8, <1>9 DEF Before
<1>11. \A k \in keys' : Before(k, config)
    BY ONLY <1>2, <1>7, <1>10
<1>12. KeyUnique'
    <2> SUFFICES ASSUME NEW k1 \in keys', NEW k2 \in keys',
                        k1.id = k2.id, k1.counter = k2.counter
                 PROVE  k1 = k2
        BY DEF KeyUnique
    <2>1. CASE k1 \in keys /\ k2 \in keys
        BY <2>1 DEF CalmInv, KeysInv, KeyUnique
    <2>2. CASE k1 = k0
        <3>1. Before(k2, config) /\ k2.counter = Counter(config)
            BY <1>9, <1>11, <2>2
        <3> QED
            BY ONLY <1>9, <2>2, <3>1 DEF Before
    <2>3. CASE k2 = k0
        <3>1. Before(k1, config) /\ k1.counter = Counter(config)
            BY <1>9, <1>11, <2>3
        <3> QED
            BY ONLY <1>9, <2>3, <3>1 DEF Before
    <2> QED
        BY <1>2, <2>1, <2>2, <2>3
<1>13. (~Writing => \A k \in keys : Before(k, Held))'
    <2> SUFFICES ASSUME ~Writing, NEW k \in keys'
                 PROVE  Before(k, Held)
        BY <1>6 DEF Before, Counter, Name
    <2>1. Before(k, config)
        BY <1>11
    <2>2. CASE Written
        BY <1>5, <2>1, <2>2, BeforeMoves
    <2>3. CASE ~Written
        BY <1>5, <2>1, <2>3
    <2> QED
        BY <2>2, <2>3
<1>14. (Writing \/ Written => \A k \in keys : Before(k, config))'
    BY <1>6, <1>11 DEF Before, Counter, Name
<1>15. KeysInv'
    BY ONLY <1>12, <1>13, <1>14 DEF KeysInv
<1>16. SavesUnderWay' = SavesUnderWay /\ \A i : Unfinished(i)' = Unfinished(i)
    BY <1>2, SameSaves
<1>17. QueueInv' /\ AgreeInv'
    BY <1>2, <1>16, QueueUntouched, AgreeUntouched DEF CalmInv
<1>18. LoadedInv'
    BY <1>2, <1>4 DEF LoadedInv
<1> QED
    BY <1>15, <1>17, <1>18 DEF CalmInv

LEMMA KilledCalm ==
    ASSUME Types, CalmInv, TheDevice \in Devices, Killed, Calm'
    PROVE  CalmInv'
<1>1. /\ authId' = NoDevice /\ ~saveEnabled' /\ events' = <<>> /\ tasks' = <<>>
      /\ task' = NoTask /\ UNCHANGED <<eeprom, keys>>
      /\ task.kind = "Save" => ~(step > 1)
    BY DEF Killed, OnDisconnect, Calm
<1>2. NoTask.kind = "none"
    BY DEF NoTask, Task
<1>3. ~Writing' /\ ~Written' /\ ~Copying' /\ Held' = Held
    BY <1>1, <1>2 DEF Writing, Written, Copying, Held
<1>4. SavesUnderWay' = {}
    <2>1. Len(tasks') = 0
        BY <1>1
    <2> QED
        BY <1>1, <1>2, <2>1 DEF SavesUnderWay, Unfinished
<1>5. LoadedInv'
    <2>1. ~LoadedEvent'
        BY <1>1 DEF LoadedEvent
    <2> QED
        BY <1>1, <1>4, <2>1 DEF LoadedInv
<1>6. QueueInv'
    BY <1>3, <1>4 DEF QueueInv
<1>7. AgreeInv'
    <2>1. NoDevice # TheDevice /\ TheDevice' = TheDevice
        BY ConfigAppAssumption
    <2> QED
        BY <1>1, <1>2, <2>1 DEF AgreeInv
<1>8. \A k \in keys : Before(k, Held)
    <2>1. CASE ~Writing
        BY <2>1 DEF CalmInv, KeysInv
    <2>2. CASE Writing
        <3>1. config = Held
            BY <1>1, <2>2, NothingWritten DEF Writing
        <3> QED
            BY <2>2, <3>1 DEF CalmInv, KeysInv
    <2> QED
        BY <2>1, <2>2
<1>9. KeysInv'
    <2>1. KeyUnique'
        BY <1>1 DEF CalmInv, KeysInv, KeyUnique
    <2>2. (~Writing => \A k \in keys : Before(k, Held))'
        BY <1>1, <1>3, <1>8 DEF Before, Counter, Name
    <2>3. (Writing \/ Written => \A k \in keys : Before(k, config))'
        BY <1>3
    <2> QED
        BY ONLY <2>1, <2>2, <2>3 DEF KeysInv
<1> QED
    BY <1>5, <1>6, <1>7, <1>9 DEF CalmInv

-------------------------------------------------------------------------------
(* The steps of the worker, with one device.                                 *)

LEMMA SaveSends ==
    /\ Len(SaveMessages) \in Nat \ {0}
    /\ \E i \in 1 .. Len(SaveMessages) : SaveMessages[i] = "ChangeCounter"
<1>1. PICK i \in 1 .. Len(SaveMessages) : SaveMessages[i] = "ChangeCounter"
    BY MessagesFacts, ConfigAppAssumption
<1>2. Len(SaveMessages) \in Nat
    BY MessagesFacts
<1> QED
    BY ONLY <1>1, <1>2

LEMMA StartTaskCalm ==
    ASSUME Types, Types', CalmInv, TheDevice \in Devices, StartTask
    PROVE  CalmInv'
<1>1. /\ task = NoTask /\ step' = 1
      /\ UNCHANGED <<config, authId, events, eeprom, keys, saveEnabled>>
    BY DEF StartTask, uiVars, modelVars
<1>2. task.kind = "none"
    BY <1>1 DEF NoTask, Task
<1>3. /\ ~Writing /\ ~Copying /\ ~Written' /\ ~Copying' /\ Held' = Held
    BY <1>1, <1>2, SaveSends DEF Writing, Written, Copying, Held
<1>4. \A i \in SavesUnderWay' : /\ i \in Nat /\ i + 1 \in SavesUnderWay
                                /\ Unfinished(i)' = Unfinished(i + 1)
    BY TailSaves
<1>5. QueueInv'
    <2>1. \A i \in SavesUnderWay' : /\ i \in Nat /\ i + 1 \in SavesUnderWay
                                    /\ Unfinished(i)'.cfg = Unfinished(i + 1).cfg
        BY <1>4
    <2> QED
        BY <1>1, <1>3, <2>1, QueueKept, 1 \in Nat DEF CalmInv
<1>6. SavesUnderWay' # {} => authId = TheDevice
    BY <1>4 DEF CalmInv, LoadedInv
<1>7. LoadedInv'
    <2>1. LoadedEvent' = LoadedEvent
        BY <1>1 DEF LoadedEvent
    <2> QED
        BY <1>1, <1>6, <2>1 DEF CalmInv, LoadedInv
<1>8. authId = TheDevice => config = Held
    BY <1>2 DEF CalmInv, AgreeInv
<1>9. task'.kind = "Save" => config = Held
    <2>1. Len(tasks') \in Nat
        BY LenProperties DEF Types
    <2>2. 0 \in 0 .. Len(tasks')
        BY ONLY <2>1
    <2>3. task'.kind = "Save" => 0 \in SavesUnderWay'
        BY <2>2 DEF SavesUnderWay, Unfinished
    <2> QED
        BY <1>6, <1>8, <2>3
<1>10. /\ IdRead(TheDevice)' /\ SentAgrees(TheDevice, LoadMessages)'
       /\ SentAgrees(TheDevice, SaveMessages)' /\ ~CounterSent'
       /\ AssignedAgrees(LoadMessages)' /\ AssignedAgrees(SaveMessages)'
    BY <1>1, MessagesFacts
       DEF IdRead, SentAgrees, AssignedAgrees, CounterSent, Members
<1>11. AgreeInv'
    <2>1. LoadAgrees'
        BY <1>10 DEF LoadAgrees
    <2>2. task'.kind = "Save" => SaveAgrees'
        <3>1. task'.kind = "Save" => \A v \in Vars : Held'[v] = config'[v]
            BY <1>1, <1>3, <1>9
        <3> QED
            BY <1>3, <1>10, <3>1 DEF SaveAgrees
    <2>3. authId' = TheDevice => config' = Held'
        BY <1>1, <1>3, <1>8
    <2> QED
        BY <2>1, <2>2, <2>3 DEF AgreeInv
<1>12. KeysInv'
    <2>1. \A k \in keys : Before(k, Held)
        BY <1>3 DEF CalmInv, KeysInv
    <2>2. Writing' => \A k \in keys : Before(k, config)
        BY <1>9, <2>1 DEF Writing
    <2>3. (~Writing => \A k \in keys : Before(k, Held))'
        BY <1>1, <1>3, <2>1 DEF Before, Counter, Name
    <2>4. (Writing \/ Written => \A k \in keys : Before(k, config))'
        BY <1>1, <1>3, <2>2 DEF Before, Counter, Name
    <2>5. KeyUnique'
        BY <1>1 DEF CalmInv, KeysInv, KeyUnique
    <2> QED
        BY ONLY <2>3, <2>4, <2>5 DEF KeysInv
<1> QED
    BY <1>5, <1>7, <1>11, <1>12 DEF CalmInv

\* A task that has ended.
LEMMA FinishFacts ==
    ASSUME NEW success \in BOOLEAN, Types, task # NoTask, Finish(success), tasks' = tasks
    PROVE  /\ \A i \in SavesUnderWay' : /\ i \in Nat /\ i # 0 /\ i + 0 \in SavesUnderWay
                                        /\ Unfinished(i)' = Unfinished(i + 0)
                                        /\ Unfinished(i)' = Unfinished(i)
                                        /\ i \in SavesUnderWay
           /\ LoadedEvent' => LoadedEvent \/ (success /\ task.kind # "Connect")
           /\ task'.kind = "none" /\ ~Writing' /\ ~Written' /\ ~Copying'
<1>1. task' = NoTask /\ task'.kind = "none"
    BY DEF Finish, NoTask, Task
<1>2. ~Writing' /\ ~Written' /\ ~Copying'
    BY <1>1 DEF Writing, Written, Copying
<1>3. Len(tasks) \in Nat
    BY SavesFacts
<1>4. ASSUME NEW i \in SavesUnderWay'
      PROVE  i # 0 /\ i \in Nat /\ Unfinished(i)' = Unfinished(i) /\ i \in SavesUnderWay
    <2>1. i \in 0 .. Len(tasks) /\ Unfinished(i)'.kind = "Save"
        BY DEF SavesUnderWay
    <2>2. i # 0
        BY <1>1, <2>1 DEF Unfinished
    <2>3. Unfinished(i)' = Unfinished(i)
        BY <2>2 DEF Unfinished
    <2>4. i \in SavesUnderWay
        BY <2>1, <2>3 DEF SavesUnderWay
    <2> QED
        BY <1>3, <2>1, <2>2, <2>3, <2>4
<1>5. \A i \in Nat : i + 0 = i
    OBVIOUS
<1>6. LoadedEvent' => LoadedEvent \/ (success /\ task.kind # "Connect")
    <2> DEFINE e == [kind |-> task.kind, success |-> success]
    <2>1. events \in Seq(EventSet) /\ events' = Append(events, e)
        BY DEF Types, Finish
    <2>2. e \in EventSet /\ e.kind = task.kind /\ e.success = success
        BY NoTaskFacts DEF EventSet
    <2> HIDE DEF e
    <2>3. /\ Len(events) \in Nat /\ Len(events') = Len(events) + 1
          /\ events'[Len(events) + 1] = e
          /\ \A i \in 1 .. Len(events) : events'[i] = events[i]
        BY ONLY <2>1, <2>2, AppendProperties, LenProperties
    <2>4. \A i \in 1 .. Len(events') : i \in 1 .. Len(events) \/ i = Len(events) + 1
        BY ONLY <2>3
    <2> QED
        BY <2>2, <2>3, <2>4 DEF LoadedEvent
<1> QED
    BY <1>1, <1>2, <1>4, <1>5, <1>6

LEMMA SendFailsCalm ==
    ASSUME Types, CalmInv, TheDevice \in Devices, SendFails, Calm'
    PROVE  CalmInv'
<1>1. /\ task # NoTask /\ Finish(FALSE) /\ step <= Len(Messages(task.kind))
      /\ UNCHANGED <<config, authId, tasks, keys, saveEnabled>>
      /\ task.kind = "Save" => ~(step > 1) /\ eeprom' = eeprom
    BY DEF SendFails, Sending, Calm, uiVars, modelVars
<1>2. eeprom' = eeprom
    <2>1. eeprom' = eeprom \/ (conn \in Devices /\ Effect)
        BY DEF SendFails, Types
    <2> QED
        BY <1>1, <2>1, EffectFacts
<1>3. ~Copying /\ Held' = Held
    <2>1. task.kind = "Save" => step \in Nat /\ step <= Len(SaveMessages)
        BY <1>1 DEF Messages, Types
    <2> QED
        BY <1>2, <2>1, SaveSends DEF Copying, Held
<1>4. /\ \A i \in SavesUnderWay' : /\ i \in Nat /\ i + 0 \in SavesUnderWay
                                   /\ Unfinished(i)'.cfg = Unfinished(i + 0).cfg
      /\ LoadedEvent' => LoadedEvent
      /\ task'.kind = "none" /\ ~Writing' /\ ~Written' /\ ~Copying'
    BY <1>1, FinishFacts
<1>5. QueueInv'
    BY <1>1, <1>3, <1>4, QueueKept, 0 \in Nat DEF CalmInv
<1>6. LoadedInv'
    BY <1>1, <1>4 DEF CalmInv, LoadedInv
<1>7. task.kind = "Save" => config = Held /\ Writing
    BY <1>1, NothingWritten, SaveSends
<1>8. AgreeInv'
    <2>1. authId = TheDevice => config = Held
        BY <1>7 DEF CalmInv, AgreeInv
    <2> QED
        BY <1>1, <1>3, <1>4, <2>1 DEF AgreeInv
<1>9. KeysInv'
    <2>1. \A k \in keys : Before(k, Held)
        BY <1>7 DEF CalmInv, KeysInv, Writing
    <2>2. (~Writing => \A k \in keys : Before(k, Held))'
        BY <1>1, <1>3, <2>1 DEF Before, Counter, Name
    <2>3. KeyUnique'
        BY <1>1 DEF CalmInv, KeysInv, KeyUnique
    <2> QED
        BY ONLY <1>4, <2>2, <2>3 DEF KeysInv
<1> QED
    BY <1>5, <1>6, <1>8, <1>9 DEF CalmInv

LEMMA AssignMemberCalm ==
    ASSUME Types, CalmInv, TheDevice \in Devices, AssignMember
    PROVE  CalmInv'
<1>1. /\ step' = step + 1
      /\ UNCHANGED <<authId, task, events, tasks, eeprom, keys, saveEnabled>>
    BY DEF AssignMember, uiVars
<1>2. /\ config' \in ConfigSet /\ Assigned >= 1
      /\ \A v \in Vars : config'[v] \in {config[v], task.cfg[v]}
      /\ \A order : /\ Len(order) \in Nat /\ Assigned = step - Len(order)
                    /\ SentAgrees(TheDevice, order)
                    => SentAgrees(TheDevice, order)'
      /\ \A order : /\ Len(order) \in Nat /\ Assigned = step - Len(order)
                    /\ AssignedAgrees(order)
                    => AssignedAgrees(order)'
    BY AssignAgrees
<1>3. /\ task # NoTask /\ task.kind \in {"Load", "Save"} /\ task.cfg \in ConfigSet
      /\ task.kind = "Load" => Assigned = step - Len(LoadMessages)
      /\ task.kind = "Save" => Assigned = step - Len(SaveMessages)
      /\ Len(LoadMessages) \in Nat /\ Len(SaveMessages) \in Nat /\ step \in Nat
    BY <1>2, AssignedFacts
<1>4. SavesUnderWay' = SavesUnderWay /\ \A i : Unfinished(i)' = Unfinished(i)
    BY <1>1, SameSaves
<1>5. Held' = Held
    BY <1>1 DEF Held
<1>6. LoadedInv'
    <2>1. LoadedEvent' = LoadedEvent
        BY <1>1 DEF LoadedEvent
    <2> QED
        BY <1>1, <1>4, <2>1 DEF CalmInv, LoadedInv
<1>7. CASE task.kind = "Load"
    <2>1. /\ ~Writing /\ ~Copying /\ ~Writing' /\ ~Written' /\ ~Copying'
        BY <1>1, <1>7 DEF Writing, Written, Copying
    <2>2. LoadAgrees /\ step - Len(LoadMessages) >= 1
        BY <1>2, <1>3, <1>7 DEF CalmInv, AgreeInv
    <2>3. \A i \in 1 .. Len(LoadMessages) : i < step
        BY ONLY <1>3, <2>2
    <2>4. LoadAgrees'
        <3>1. IdRead(TheDevice)'
            BY <1>1, <2>2, <2>3 DEF LoadAgrees, IdRead
        <3> QED
            BY <1>2, <1>3, <1>7, <2>2, <3>1 DEF LoadAgrees
    <2>5. ASSUME authId = TheDevice
          PROVE  config' = config /\ config = Held
        <3>1. config = Held
            BY <1>7, <2>5 DEF CalmInv, AgreeInv
        <3>2. \A v \in Vars : Held[v] = task.cfg[v]
            BY <2>2, <2>3, MessagesFacts DEF LoadAgrees, SentAgrees, Held
        <3>3. \A v \in Vars : config'[v] = config[v]
            BY <1>2, <3>1, <3>2
        <3>4. config \in [Vars -> Callsigns \cup Nat] /\ config' \in [Vars -> Callsigns \cup Nat]
            BY <1>2 DEF Types, ConfigSet
        <3> QED
            BY ONLY <3>1, <3>3, <3>4
    <2>6. AgreeInv'
        BY <1>1, <1>5, <1>7, <2>4, <2>5 DEF AgreeInv
    <2>7. QueueInv'
        <3>1. CASE SavesUnderWay = {}
            BY <1>4, <3>1 DEF QueueInv
        <3>2. CASE SavesUnderWay # {}
            <4>1. config' = config
                BY <2>5, <3>2 DEF CalmInv, LoadedInv
            <4>2. \A i \in SavesUnderWay' : /\ i \in Nat /\ i + 0 \in SavesUnderWay
                                            /\ Unfinished(i)'.cfg = Unfinished(i + 0).cfg
                <5>1. \A i \in Nat : i + 0 = i
                    OBVIOUS
                <5> QED
                    BY <1>4, <5>1, SavesFacts
            <4> QED
                BY <2>1, <4>1, <4>2, QueueKept, 0 \in Nat DEF CalmInv
        <3> QED
            BY <3>1, <3>2
    <2>8. KeysInv'
        <3>1. (~Writing => \A k \in keys : Before(k, Held))'
            BY <1>1, <1>5, <2>1 DEF CalmInv, KeysInv, Before, Counter, Name
        <3>2. KeyUnique'
            BY <1>1 DEF CalmInv, KeysInv, KeyUnique
        <3> QED
            BY ONLY <2>1, <3>1, <3>2 DEF KeysInv
    <2> QED
        BY <1>6, <2>6, <2>7, <2>8 DEF CalmInv
<1>8. CASE task.kind = "Save"
    <2>1. step - Len(SaveMessages) >= 1
        BY <1>2, <1>3, <1>8
    <2>2. Copying /\ ~Writing /\ Copying' /\ ~Writing' /\ ~Written'
        BY <1>1, <1>3, <1>8, <2>1 DEF Writing, Written, Copying
    <2>3. \A i \in 1 .. Len(SaveMessages) : i < step'
        BY ONLY <1>1, <1>3, <2>1
    <2>4. SaveAgrees
        BY <1>8 DEF CalmInv, AgreeInv
    <2>5. SaveAgrees'
        <3>1. SentAgrees(TheDevice, SaveMessages)' /\ AssignedAgrees(SaveMessages)'
            BY <1>2, <1>3, <1>8, <2>4 DEF SaveAgrees
        <3>2. ASSUME NEW v \in Vars
              PROVE  \E i \in 1 .. Len(SaveMessages) : i < step' /\ SaveMessages[i] = v
            BY <2>3, MessagesFacts
        <3> QED
            BY <2>2, <3>1, <3>2 DEF SaveAgrees
    <2>6. AgreeInv'
        BY <1>1, <1>8, <2>5 DEF AgreeInv
    <2>7. Known = Held /\ Known' = Held
        BY <1>5, <2>2 DEF Known
    <2>8. QueueInv'
        <3>1. \A i \in SavesUnderWay : i # 0 => Acceptable(Unfinished(i).cfg, Held)
            BY <2>7 DEF CalmInv, QueueInv
        <3>2. (\A i \in SavesUnderWay : (Copying => i # 0) => Acceptable(Unfinished(i).cfg, Known))'
            BY <1>4, <2>2, <2>7, <3>1 DEF Acceptable, Counted, Counter, Name
        <3>3. (\A i, j, k \in SavesUnderWay : ~(i < j /\ j < k))'
            BY <1>4 DEF CalmInv, QueueInv
        <3> QED
            BY ONLY <2>2, <3>2, <3>3 DEF QueueInv
    <2>9. KeysInv'
        <3>1. (~Writing => \A k \in keys : Before(k, Held))'
            BY <1>1, <1>5, <2>2 DEF CalmInv, KeysInv, Before, Counter, Name
        <3>2. KeyUnique'
            BY <1>1 DEF CalmInv, KeysInv, KeyUnique
        <3> QED
            BY ONLY <2>2, <3>1, <3>2 DEF KeysInv
    <2> QED
        BY <1>6, <2>6, <2>8, <2>9 DEF CalmInv
<1> QED
    BY <1>3, <1>7, <1>8

LEMMA TaskSucceedsCalm ==
    ASSUME Types, CalmInv, TheDevice \in Devices, TaskSucceeds
    PROVE  CalmInv'
<1>1. /\ Finish(TRUE)
      /\ task.kind = "Connect" \/ Assigned > Len(Members)
      /\ authId' = IF task.kind = "Load" THEN task.id ELSE authId
      /\ UNCHANGED <<config, tasks, eeprom, keys, saveEnabled>>
    BY DEF TaskSucceeds, uiVars
<1>2. Len(Members) \in Nat
    BY MessagesFacts DEF Members
<1>3. task.kind # "Connect" => Assigned >= 1
    <2>1. Assigned \in Int
        BY <1>1, MessagesFacts DEF Assigned, Messages, Types
    <2> QED
        BY ONLY <1>1, <1>2, <2>1
<1>4. task # NoTask
    <2>1. CASE task.kind = "Connect"
        BY <2>1 DEF NoTask, Task
    <2> QED
        BY <1>1, <1>3, <2>1, AssignedFacts
<1>5. /\ \A i \in SavesUnderWay' : /\ i \in Nat /\ i # 0 /\ i + 0 \in SavesUnderWay
                                   /\ Unfinished(i)'.cfg = Unfinished(i + 0).cfg
                                   /\ Unfinished(i)' = Unfinished(i)
                                   /\ i \in SavesUnderWay
      /\ LoadedEvent' => LoadedEvent \/ task.kind # "Connect"
      /\ task'.kind = "none" /\ ~Writing' /\ ~Written' /\ ~Copying'
    BY <1>1, <1>4, FinishFacts
<1>6. Held' = Held
    BY <1>1 DEF Held
<1>7. ASSUME task.kind # "Connect"
      PROVE  config = Held /\ authId' = TheDevice /\ ~Writing
    <2>1. /\ task.kind \in {"Load", "Save"} /\ task.cfg \in ConfigSet
          /\ task.kind = "Load" => Assigned = step - Len(LoadMessages)
          /\ task.kind = "Save" => Assigned = step - Len(SaveMessages)
          /\ Len(LoadMessages) \in Nat /\ Len(SaveMessages) \in Nat /\ step \in Nat
        BY <1>3, <1>7, AssignedFacts
    <2>2. CASE task.kind = "Load"
        <3>1. LoadAgrees /\ step - Len(LoadMessages) > Len(Members)
            BY <1>1, <2>1, <2>2 DEF CalmInv, AgreeInv
        <3>2. config = Held
            BY <2>1, <3>1, AllAgree, MessagesFacts DEF LoadAgrees, Held
        <3>3. PICK k \in 1 .. Len(LoadMessages) : LoadMessages[k] = "DeviceId"
            BY MessagesFacts
        <3>4. k < step
            BY ONLY <1>2, <2>1, <3>1, <3>3
        <3>5. task.id = TheDevice
            BY <3>1, <3>3, <3>4 DEF LoadAgrees, IdRead
        <3> QED
            BY <1>1, <2>2, <3>2, <3>5 DEF Writing
    <2>3. CASE task.kind = "Save"
        <3>1. SaveAgrees /\ step - Len(SaveMessages) > Len(Members)
            BY <1>1, <2>1, <2>3 DEF CalmInv, AgreeInv
        <3>2. config = Held
            BY <2>1, <3>1, AllAgree, MessagesFacts DEF SaveAgrees, Held
        <3>3. 0 \in SavesUnderWay
            BY <2>3, SavesFacts
        <3>4. authId = TheDevice
            BY <3>3 DEF CalmInv, LoadedInv
        <3>5. ~(step <= Len(SaveMessages))
            BY ONLY <1>2, <2>1, <3>1
        <3> QED
            BY <1>1, <2>3, <3>2, <3>4, <3>5 DEF Writing
    <2> QED
        BY <2>1, <2>2, <2>3
<1>8. task.kind = "Connect" => authId' = authId /\ ~Writing /\ ~Copying
    BY <1>1 DEF Writing, Copying
<1>9. LoadedInv'
    <2>1. SavesUnderWay' # {} => SavesUnderWay # {}
        BY <1>5
    <2> QED
        BY <1>1, <1>5, <1>7, <1>8, <2>1 DEF CalmInv, LoadedInv
<1>10. AgreeInv'
    <2>1. authId' = TheDevice => config = Held
        BY <1>7, <1>8 DEF CalmInv, AgreeInv
    <2> QED
        BY <1>1, <1>5, <1>6, <2>1 DEF AgreeInv
<1>11. KeysInv'
    <2>1. ~Writing
        BY <1>7, <1>8
    <2>2. (~Writing => \A k \in keys : Before(k, Held))'
        BY <1>1, <1>6, <2>1 DEF CalmInv, KeysInv, Before, Counter, Name
    <2>3. KeyUnique'
        BY <1>1 DEF CalmInv, KeysInv, KeyUnique
    <2> QED
        BY ONLY <1>5, <2>2, <2>3 DEF KeysInv
<1>12. QueueInv'
    <2>1. CASE ~Copying
        <3>1. \A i \in SavesUnderWay' : /\ i \in Nat /\ i + 0 \in SavesUnderWay
                                        /\ Unfinished(i)'.cfg = Unfinished(i + 0).cfg
            BY <1>5
        <3> QED
            BY <1>1, <1>5, <2>1, <3>1, QueueKept, 0 \in Nat DEF CalmInv
    <2>2. CASE Copying
        <3>1. 0 \in SavesUnderWay /\ config = Held /\ Known = Held /\ Known' = config
            BY <1>1, <1>5, <1>7, <2>2, SavesFacts DEF Copying, Known
        <3>2. (\A i, j, k \in SavesUnderWay : ~(i < j /\ j < k))'
            BY <1>5 DEF CalmInv, QueueInv
        <3>3. (\A i \in SavesUnderWay : (Copying => i # 0) => Acceptable(Unfinished(i).cfg, Known))'
            <4> SUFFICES ASSUME NEW i \in SavesUnderWay'
                         PROVE  Acceptable(Unfinished(i).cfg, Known)'
                OBVIOUS
            <4>1. Acceptable(Unfinished(i).cfg, Known) /\ Unfinished(i)' = Unfinished(i)
                BY <1>5 DEF CalmInv, QueueInv
            <4>2. Known' = Known
                BY <3>1
            <4> QED
                BY ONLY <4>1, <4>2 DEF Acceptable, Counted, Counter, Name
        <3>4. ASSUME NEW i \in SavesUnderWay', NEW j \in SavesUnderWay'
              PROVE  ~(i < j)
            <4>1. 0 < i /\ i \in SavesUnderWay /\ j \in SavesUnderWay
                BY <1>5
            <4> QED
                BY <3>1, <4>1 DEF CalmInv, QueueInv
        <3> QED
            BY <3>2, <3>3, <3>4 DEF QueueInv
    <2> QED
        BY <2>1, <2>2
<1> QED
    BY <1>9, <1>10, <1>11, <1>12 DEF CalmInv

\* A message of a save: the device gets ahead of the DeviceModel, and with the last
\* message what it holds is acceptable and corrected.
LEMMA SaveSendCalm ==
    ASSUME Types, CalmInv, conn = TheDevice, TheDevice \in Devices, SendAccepted,
           task.kind = "Save"
    PROVE  CalmInv'
<1> DEFINE m == SaveMessages[step]
           out == Outgoing
<1>1. /\ task # NoTask /\ Message = m /\ step <= Len(SaveMessages) /\ Effect
      /\ step \in Nat /\ step' = step + 1 /\ conn' = conn /\ conn \in Devices
      /\ UNCHANGED <<config, authId, tasks, events, keys, saveEnabled>>
    BY DEF Message, Messages, SendAccepted, Sending, Types, uiVars, modelVars
<1>2. Writing /\ ~Copying /\ Known = config
    BY <1>1 DEF Writing, Copying, Known
<1>3. 0 \in SavesUnderWay /\ Unfinished(0) = task
    BY SavesFacts DEF Unfinished
<1>4. Acceptable(task.cfg, config)
    BY <1>2, <1>3 DEF CalmInv, QueueInv
<1>5. /\ out \in ConfigSet /\ Acceptable(out, config)
      /\ m = "ChangeCounter" => Corrected(out, config)
      /\ Corrected(task.cfg, config) \/ m # "ChangeCounter" => out = task.cfg
    BY <1>1, <1>4, OutgoingAcceptable
<1>6. task' \in TaskSet /\ task'.kind = "Save" /\ task'.cfg = out
    BY <1>1, TaskAfterSend
<1>7. /\ Held' \in ConfigSet
      /\ m \in Vars => Held'[m] = out[m]
      /\ \A v \in Vars : v # m => Held'[v] = Held[v]
    BY <1>1, EffectFacts DEF Held
<1>8. SaveAgrees
    BY DEF CalmInv, AgreeInv
<1>9. SentAgrees(TheDevice, SaveMessages)' /\ AssignedAgrees(SaveMessages)'
    <2>1. SentAgrees(conn, SaveMessages)' /\ AssignedAgrees(SaveMessages)'
        BY <1>1, <1>8, SaveSendAgrees DEF SaveAgrees
    <2> QED
        BY <1>1, <2>1 DEF SentAgrees
<1>10. m = SaveMessages[step]
    OBVIOUS
<1> HIDE DEF m, out
<1>11. \A i \in 1 .. Len(SaveMessages) :
          /\ i < step' => i < step \/ SaveMessages[i] = m
          /\ i < step => i < step'
    BY <1>1, <1>10, SaveSends
<1>12. /\ step \in 1 .. Len(SaveMessages) /\ step < step'
    BY <1>1, SaveSends, NoTaskFacts
<1>13. CounterSent' => Corrected(out, config)
    <2>1. CASE m = "ChangeCounter"
        BY <1>5, <2>1
    <2>2. CASE m # "ChangeCounter"
        <3>1. CounterSent' => CounterSent
            BY <1>11, <2>2 DEF CounterSent
        <3>2. CounterSent => Corrected(task.cfg, config)
            BY <1>2, <1>8 DEF SaveAgrees
        <3> QED
            BY <1>5, <2>2, <3>1, <3>2
    <2> QED
        BY <2>1, <2>2
<1>14. ASSUME ~Writing'
       PROVE  /\ Written' /\ Held' = out
              /\ Acceptable(Held', config) /\ Corrected(Held', config)
    <2>1. step' = Len(SaveMessages) + 1
        BY <1>1, <1>6, <1>14, SaveSends DEF Writing
    <2>2. \A i \in 1 .. Len(SaveMessages) : i < step'
        BY ONLY <2>1, SaveSends
    <2>3. \A v \in Vars : Held'[v] = out[v]
        BY <1>6, <1>9, <2>2, MessagesFacts DEF SentAgrees, Held
    <2>4. Held' \in [Vars -> Callsigns \cup Nat] /\ out \in [Vars -> Callsigns \cup Nat]
        BY <1>5, <1>7 DEF ConfigSet
    <2>5. Held' = out
        BY ONLY <2>3, <2>4
    <2>6. CounterSent'
        BY <2>2, SaveSends DEF CounterSent
    <2> QED
        BY <1>5, <1>6, <1>13, <2>1, <2>5, <2>6 DEF Written
<1>15. ~Writing' => Copying' /\ Known' = Held'
    BY <1>6, <1>14, SaveSends DEF Written, Copying, Known
<1>16. Writing' => ~Copying' /\ ~Written' /\ Known' = config
    <2>1. step' \in Nat /\ Len(SaveMessages) \in Nat
        BY <1>1, SaveSends
    <2>2. Writing' => ~(step' > Len(SaveMessages)) /\ step' # Len(SaveMessages) + 1
        BY <2>1 DEF Writing
    <2> QED
        BY <1>1, <2>2 DEF Written, Copying, Known
<1>17. AgreeInv'
    <2>1. (\A v \in Vars :
              (\A i \in 1 .. Len(SaveMessages) : i < step => SaveMessages[i] # v)
                  => Held[v] = config[v])'
        <3> SUFFICES ASSUME NEW v \in Vars,
                            \A i \in 1 .. Len(SaveMessages) : i < step' => SaveMessages[i] # v
                     PROVE  Held'[v] = config[v]
            BY <1>1
        <3>1. v # m
            BY <1>10, <1>12
        <3>2. \A i \in 1 .. Len(SaveMessages) : i < step => SaveMessages[i] # v
            BY <1>11
        <3>3. Held[v] = config[v]
            BY <1>8, <3>2 DEF SaveAgrees
        <3> QED
            BY <1>7, <3>1, <3>3
    <2>2. (Writing /\ CounterSent => Corrected(task.cfg, config))'
        BY <1>1, <1>6, <1>13 DEF Corrected, Counter, Name
    <2>3. (Written => Acceptable(Held, config) /\ Corrected(Held, config))'
        <3>1. Written' => ~Writing'
            BY <1>16
        <3> QED
            BY <1>1, <1>14, <3>1 DEF Acceptable, Corrected, Counted, Counter, Name
    <2>4. SaveAgrees'
        BY ONLY <1>9, <2>1, <2>2, <2>3 DEF SaveAgrees
    <2> QED
        BY <1>6, <2>4 DEF AgreeInv
<1>18. SavesUnderWay' = SavesUnderWay
    <2>1. \A i : Unfinished(i)'.kind = Unfinished(i).kind
        BY <1>1, <1>6 DEF Unfinished
    <2> QED
        BY <1>1, <2>1 DEF SavesUnderWay
<1>19. \A i : i # 0 => Unfinished(i)' = Unfinished(i)
    BY <1>1 DEF Unfinished
<1>20. QueueInv'
    <2>1. (\A i, j, k \in SavesUnderWay : ~(i < j /\ j < k))'
        BY <1>18 DEF CalmInv, QueueInv
    <2>2. ASSUME NEW i \in SavesUnderWay, NEW j \in SavesUnderWay, i < j
          PROVE  Fresh(Unfinished(j).cfg, config) /\ Unfinished(j)' = Unfinished(j)
        <3>1. i \in Nat /\ j \in Nat
            BY SavesFacts
        <3>2. j # 0
            BY ONLY <2>2, <3>1
        <3> QED
            BY <1>2, <1>19, <2>2, <3>2 DEF CalmInv, QueueInv
    <2>3. (~Copying => \A i, j \in SavesUnderWay : i < j => Fresh(Unfinished(j).cfg, config))'
        BY <1>1, <1>18, <2>2 DEF Fresh, Counted, Counter, Name
    <2>4. (\A i \in SavesUnderWay : (Copying => i # 0) => Acceptable(Unfinished(i).cfg, Known))'
        <3> SUFFICES ASSUME NEW i \in SavesUnderWay, (Copying => i # 0)'
                     PROVE  Acceptable(Unfinished(i).cfg, Known)'
            BY <1>18
        <3> DEFINE c == Unfinished(i)'.cfg
                   k == Known'
        <3> SUFFICES Acceptable(c, k)
            BY DEF Acceptable, Counted, Counter, Name
        <3>1. CASE Writing' /\ i = 0
            <4>1. c = out
                BY <1>6, <3>1 DEF Unfinished
            <4> QED
                BY <1>5, <1>16, <3>1, <4>1
        <3>2. CASE Writing' /\ i # 0
            BY <1>2, <1>16, <1>19, <3>2 DEF CalmInv, QueueInv
        <3>3. CASE ~Writing'
            <4>1. i # 0
                BY <1>15, <3>3
            <4>2. i \in Nat /\ 0 < i
                BY <4>1, SavesFacts
            <4>3. Fresh(Unfinished(i).cfg, config) /\ c = Unfinished(i).cfg
                BY <1>3, <2>2, <4>2
            <4>4. Unfinished(i).cfg \in ConfigSet /\ config \in ConfigSet
                BY SavesAreTyped DEF Types
            <4>5. k = Held' /\ Acceptable(k, config) /\ Corrected(k, config) /\ k \in ConfigSet
                BY <1>7, <1>14, <1>15, <3>3
            <4> HIDE DEF c, k
            <4> QED
                BY <4>3, <4>4, <4>5, StaysAcceptable
        <3> QED
            BY <3>1, <3>2, <3>3
    <2> QED
        BY ONLY <2>1, <2>3, <2>4 DEF QueueInv
<1>21. KeysInv'
    <2>1. \A k \in keys : Before(k, config)
        BY <1>2 DEF CalmInv, KeysInv
    <2>2. (~Writing => \A k \in keys : Before(k, Held))'
        <3> SUFFICES ASSUME ~Writing', NEW k \in keys
                     PROVE  Before(k, Held)'
            BY <1>1
        <3> DEFINE h == Held'
        <3>1. h \in ConfigSet /\ config \in ConfigSet /\ Acceptable(h, config)
              /\ Corrected(h, config)
            BY <1>7, <1>14 DEF Types
        <3> HIDE DEF h
        <3>2. Before(k, h)
            BY <2>1, <3>1, BeforeMoves
        <3> QED
            BY <3>2 DEF h, Before, Counter, Name
    <2>3. (Writing \/ Written => \A k \in keys : Before(k, config))'
        BY <1>1, <2>1 DEF Before, Counter, Name
    <2>4. KeyUnique'
        BY <1>1 DEF CalmInv, KeysInv, KeyUnique
    <2> QED
        BY ONLY <2>2, <2>3, <2>4 DEF KeysInv
<1>22. LoadedInv'
    <2>1. LoadedEvent' = LoadedEvent
        BY <1>1 DEF LoadedEvent
    <2> QED
        BY <1>1, <1>18, <2>1 DEF CalmInv, LoadedInv
<1> QED
    BY <1>17, <1>20, <1>21, <1>22 DEF CalmInv

\* A message of another task leaves the device alone.
LEMMA OtherSendCalm ==
    ASSUME Types, CalmInv, conn = TheDevice, TheDevice \in Devices, SendAccepted,
           task.kind # "Save"
    PROVE  CalmInv'
<1>1. /\ task # NoTask /\ Effect /\ conn' = conn /\ conn \in Devices
      /\ UNCHANGED <<config, authId, tasks, events, keys, saveEnabled>>
    BY DEF SendAccepted, Sending, uiVars, modelVars
<1>2. task'.kind = task.kind /\ eeprom' = eeprom
    BY <1>1, TaskAfterSend, EffectFacts
<1>3. /\ ~Writing /\ ~Copying /\ ~Writing' /\ ~Written' /\ ~Copying' /\ Held' = Held
    BY <1>2 DEF Writing, Written, Copying, Held
<1>4. AgreeInv'
    <2>1. task.kind = "Load" => LoadAgrees'
        <3> SUFFICES ASSUME task.kind = "Load"
                     PROVE  LoadAgrees'
            OBVIOUS
        <3>1. LoadAgrees
            BY DEF CalmInv, AgreeInv
        <3>2. /\ IdRead(conn)' /\ SentAgrees(conn, LoadMessages)'
              /\ AssignedAgrees(LoadMessages)'
            BY <1>1, <3>1, LoadSendAgrees DEF LoadAgrees
        <3> QED
            BY <1>1, <3>2 DEF LoadAgrees, IdRead, SentAgrees
    <2> QED
        BY <1>1, <1>2, <1>3, <2>1 DEF CalmInv, AgreeInv
<1>5. \A i \in SavesUnderWay' : i # 0 /\ i \in SavesUnderWay /\ Unfinished(i)' = Unfinished(i)
    BY <1>1, <1>2 DEF SavesUnderWay, Unfinished
<1>6. QueueInv'
    <2>1. \A i \in SavesUnderWay' : /\ i \in Nat /\ i + 0 \in SavesUnderWay
                                    /\ Unfinished(i)'.cfg = Unfinished(i + 0).cfg
        <3>1. \A i \in Nat : i + 0 = i
            OBVIOUS
        <3> QED
            BY <1>5, <3>1, SavesFacts
    <2> QED
        BY <1>1, <1>3, <2>1, QueueKept, 0 \in Nat DEF CalmInv
<1>7. KeysInv'
    <2>1. (~Writing => \A k \in keys : Before(k, Held))'
        BY <1>1, <1>3 DEF CalmInv, KeysInv, Before, Counter, Name
    <2>2. KeyUnique'
        BY <1>1 DEF CalmInv, KeysInv, KeyUnique
    <2> QED
        BY ONLY <1>3, <2>1, <2>2 DEF KeysInv
<1>8. LoadedInv'
    <2>1. LoadedEvent' = LoadedEvent
        BY <1>1 DEF LoadedEvent
    <2>2. SavesUnderWay' # {} => SavesUnderWay # {}
        BY <1>5
    <2> QED
        BY <1>1, <2>1, <2>2 DEF CalmInv, LoadedInv
<1> QED
    BY <1>4, <1>6, <1>7, <1>8 DEF CalmInv
-------------------------------------------------------------------------------
(* The invariant with one device, and what it is for.                        *)

LEMMA OneDeviceFacts ==
    ASSUME OneDevice
    PROVE  TheDevice \in Devices /\ Devices = {TheDevice}
BY DEF OneDevice, TheDevice

LEMMA InitCalm ==
    ASSUME OneDevice, Init
    PROVE  CounterInv
<1>1. /\ authId = NoDevice /\ ~saveEnabled /\ events = <<>> /\ tasks = <<>>
      /\ task = NoTask /\ task.kind = "none" /\ keys = {}
    BY DEF Init, NoTask, Task
<1>2. SavesUnderWay = {} /\ ~LoadedEvent
    <2>1. Len(tasks) = 0 /\ Len(events) = 0
        BY <1>1
    <2> QED
        BY <1>1, <2>1 DEF SavesUnderWay, Unfinished, LoadedEvent
<1>3. LoadedInv /\ QueueInv /\ KeysInv
    BY <1>1, <1>2 DEF LoadedInv, QueueInv, KeysInv, KeyUnique
<1>4. AgreeInv
    <2>1. NoDevice # TheDevice
        BY OneDeviceFacts, ConfigAppAssumption
    <2> QED
        BY <1>1, <2>1 DEF AgreeInv
<1> QED
    BY <1>3, <1>4 DEF CounterInv, CalmInv

LEMMA HistoryStays ==
    ASSUME [Next]_vars
    PROVE  Calm' => Calm
<1>1. ASSUME NEW d \in Devices, DeviceConnect(d)
      PROVE  Calm' => Calm
    BY <1>1 DEF DeviceConnect, history, Calm
<1>2. ASSUME NEW c \in Callsigns, DeviceSave(c)
      PROVE  Calm' => Calm
    BY <1>2 DEF DeviceSave, ReadConfig, Calm
<1>3. CASE DeviceConnectFails \/ StatusGivesUp \/ OnConnectSuccess \/ OnError \/ CloseBox
           \/ StartTask \/ SendAccepted \/ AssignMember \/ TaskSucceeds \/ UNCHANGED vars
    <2>1. UNCHANGED history
        BY <1>3 DEF DeviceConnectFails, StatusGivesUp, OnConnectSuccess, OnError, CloseBox,
                    StartTask, SendAccepted, AssignMember, TaskSucceeds, vars
    <2> QED
        BY <2>1 DEF history, Calm
<1>4. CASE OnLoadSuccess \/ OnSaveSuccess
    BY <1>4 DEF OnLoadSuccess, OnSaveSuccess, ShowStatsLink, ReadConfig, Calm
<1>5. CASE SendFails
    BY <1>5 DEF SendFails, Calm
<1>6. CASE Killed
    BY <1>6 DEF Killed, Calm
<1> QED
    BY <1>1, <1>2, <1>3, <1>4, <1>5, <1>6 DEF Next, HandleEvent, Worker

LEMMA NextCalm ==
    ASSUME OneDevice, SettledInv, SettledInv', CounterInv, [Next]_vars
    PROVE  CounterInv'
<1> SUFFICES ASSUME Calm'
             PROVE  CalmInv'
    BY DEF CounterInv
<1>1. Types /\ Types' /\ CalmInv /\ TheDevice \in Devices
    BY HistoryStays, OneDeviceFacts DEF SettledInv, CounterInv
<1>2. ASSUME NEW d \in Devices, DeviceConnect(d)
      PROVE  CalmInv'
    BY <1>1, <1>2, DeviceConnectCalm
<1>3. ASSUME NEW c \in Callsigns, DeviceSave(c)
      PROVE  CalmInv'
    BY <1>1, <1>3, DeviceSaveCalm
<1>4. CASE DeviceConnectFails \/ StatusGivesUp \/ OnError \/ CloseBox \/ UNCHANGED vars
    BY <1>1, <1>4, OtherStepsCalm
<1>5. CASE OnConnectSuccess
    BY <1>1, <1>5, OnConnectSuccessCalm
<1>6. CASE OnLoadSuccess \/ OnSaveSuccess
    BY <1>1, <1>6, OnSuccessCalm
<1>7. CASE StartTask
    BY <1>1, <1>7, StartTaskCalm
<1>8. CASE SendAccepted
    <2>1. conn = TheDevice
        BY <1>1, <1>8, OneDeviceFacts DEF SendAccepted, Types
    <2> QED
        BY <1>1, <1>8, <2>1, SaveSendCalm, OtherSendCalm
<1>9. CASE SendFails
    BY <1>1, <1>9, SendFailsCalm
<1>10. CASE AssignMember
    BY <1>1, <1>10, AssignMemberCalm
<1>11. CASE TaskSucceeds
    BY <1>1, <1>11, TaskSucceedsCalm
<1>12. CASE Killed
    BY <1>1, <1>12, KilledCalm
<1> QED
    BY <1>2, <1>3, <1>4, <1>5, <1>6, <1>7, <1>8, <1>9, <1>10, <1>11, <1>12
       DEF Next, HandleEvent, Worker

\* With one device, no two links share the counter and differ in the callsign, unless
\* a save was cut short, the UI thread read a configuration that was being assigned,
\* or three saves were under way at once (updateStatsLink, getFields, Task_WSPRSave).
THEOREM LinksNeverClash ==
    ASSUME OneDevice
    PROVE  Spec => []KeyClashOnlyIfTorn
<1>1. Init => SettledInv /\ CounterInv
    BY InitSettled, InitCalm
<1>2. SettledInv /\ CounterInv /\ [Next]_vars => SettledInv' /\ CounterInv'
    BY NextSettled, NextCalm
<1>3. CounterInv => KeyClashOnlyIfTorn
    BY DEF CounterInv, CalmInv, KeysInv, Calm, KeyClashOnlyIfTorn
<1> QED
    BY <1>1, <1>2, <1>3, PTL DEF Spec

\* A message that writes the counter does not take it back.
LEMMA EffectRaises ==
    ASSUME Types, CalmInv, task # NoTask, conn = TheDevice, TheDevice \in Devices,
           step <= Len(Messages(task.kind)), Effect
    PROVE  ~(Counter(Held') < Counter(Held))
<1>1. conn \in Devices /\ Held \in ConfigSet /\ Counter(Held) \in Nat
    BY ConfigFacts DEF Types, Held
<1>2. CASE task.kind # "Save"
    <2>1. Held' = Held
        BY <1>1, <1>2, EffectFacts DEF Held
    <2> QED
        BY <1>1, <2>1
<1>3. CASE task.kind = "Save"
    <2> DEFINE m == Message
               out == Outgoing
    <2>1. Writing /\ Known = config /\ SaveAgrees /\ ~Copying
        <3>1. step <= Len(SaveMessages) /\ step \in Nat /\ Len(SaveMessages) \in Nat
            BY <1>3, SaveSends DEF Messages, Types
        <3> QED
            BY <1>3, <3>1 DEF Writing, Copying, Known, CalmInv, AgreeInv
    <2>2. Acceptable(task.cfg, config)
        <3>1. 0 \in SavesUnderWay /\ Unfinished(0) = task
            BY <1>3, SavesFacts DEF Unfinished
        <3> QED
            BY <2>1, <3>1 DEF CalmInv, QueueInv
    <2>3. /\ out \in ConfigSet /\ Acceptable(out, config)
          /\ m = "ChangeCounter" => Corrected(out, config)
          /\ Corrected(task.cfg, config) => out = task.cfg
        BY <1>3, <2>2, OutgoingAcceptable
    <2>4. /\ m \in Vars => Held'[m] = out[m]
          /\ \A v \in Vars : v # m => Held'[v] = Held[v]
        BY <1>1, <1>3, EffectFacts DEF Held
    <2>5. "ChangeCounter" \in Vars
        BY ConfigAppAssumption
    <2> HIDE DEF m, out
    <2>6. CASE m # "ChangeCounter"
        BY <1>1, <2>4, <2>5, <2>6 DEF Counter
    <2>7. CASE m = "ChangeCounter" /\ CounterSent
        <3>1. out = task.cfg
            BY <2>1, <2>3, <2>7 DEF SaveAgrees
        <3>2. Held["ChangeCounter"] = task.cfg["ChangeCounter"]
            BY <2>1, <2>5, <2>7 DEF SaveAgrees, SentAgrees, CounterSent, Held
        <3>3. Counter(Held') = Counter(Held)
            BY <2>4, <2>5, <2>7, <3>1, <3>2 DEF Counter
        <3> QED
            BY ONLY <1>1, <3>3
    <2>8. CASE m = "ChangeCounter" /\ ~CounterSent
        <3>1. Held["ChangeCounter"] = config["ChangeCounter"]
            BY <2>1, <2>5, <2>8 DEF SaveAgrees, CounterSent
        <3>2. Counter(Held) = Counter(config) /\ Counter(Held') = Counter(out)
            BY <2>4, <2>5, <2>8, <3>1 DEF Counter
        <3>3. config \in ConfigSet
            BY DEF Types
        <3>4. Counter(config) <= Counter(out) /\ Counter(out) \in Nat /\ Counter(config) \in Nat
            BY <2>3, <2>8, <3>3, NeverBelow, ConfigFacts
        <3> QED
            BY ONLY <3>2, <3>4
    <2> QED
        BY <2>6, <2>7, <2>8
<1> QED
    BY <1>2, <1>3

\* Only the messages of a task change a device.
LEMMA DeviceSteps ==
    ASSUME [Next]_vars
    PROVE  \/ eeprom' = eeprom
           \/ /\ task # NoTask /\ step <= Len(Messages(task.kind))
              /\ conn # NoDevice /\ Effect
<1>1. CASE Worker
    BY <1>1 DEF Worker, StartTask, SendAccepted, SendFails, AssignMember, TaskSucceeds, Sending
<1>2. CASE HandleEvent
    BY <1>2 DEF HandleEvent, OnConnectSuccess, OnLoadSuccess, OnSaveSuccess, OnError, CloseBox
<1>3. ASSUME NEW d \in Devices, DeviceConnect(d)
      PROVE  eeprom' = eeprom
    BY <1>3 DEF DeviceConnect
<1>4. ASSUME NEW c \in Callsigns, DeviceSave(c)
      PROVE  eeprom' = eeprom
    BY <1>4 DEF DeviceSave
<1>5. CASE DeviceConnectFails \/ StatusGivesUp \/ Killed \/ UNCHANGED vars
    BY <1>5 DEF DeviceConnectFails, StatusGivesUp, Killed, vars
<1> QED
    BY <1>1, <1>2, <1>3, <1>4, <1>5 DEF Next

\* With one device, no step takes the change counter back, unless a save was cut
\* short, the UI thread read a configuration that was being assigned, or three saves
\* were under way at once (getFields and Task_WSPRSave).
THEOREM CounterNeverFalls ==
    ASSUME OneDevice
    PROVE  Spec => LoweredOnlyIfTorn
<1> DEFINE A == (\E d \in Devices : Lowered(d)) => torn \/ raced \/ crowded
<1>1. Init => SettledInv /\ CounterInv
    BY InitSettled, InitCalm
<1>2. SettledInv /\ CounterInv /\ [Next]_vars => SettledInv' /\ CounterInv'
    BY NextSettled, NextCalm
<1>3. SettledInv /\ CounterInv /\ [Next]_vars => [A]_vars
    <2> SUFFICES ASSUME Types, CalmInv, [Next]_vars, NEW d \in Devices, Lowered(d)
                 PROVE  FALSE
        BY DEF SettledInv, CounterInv, Calm
    <2>1. d = TheDevice /\ TheDevice \in Devices
        BY OneDeviceFacts
    <2>2. Counter(Held') < Counter(Held)
        BY <2>1 DEF Lowered, Counter, Held
    <2>3. Counter(Held) \in Nat
        BY <2>1, ConfigFacts DEF Types, Held
    <2>4. eeprom' # eeprom
        BY <2>2, <2>3 DEF Held
    <2>5. /\ task # NoTask /\ step <= Len(Messages(task.kind))
          /\ conn # NoDevice /\ Effect
        BY <2>4, DeviceSteps
    <2>6. conn = TheDevice
        BY <2>5, OneDeviceFacts DEF Types
    <2> QED
        BY <2>1, <2>2, <2>5, <2>6, EffectRaises
<1> QED
    BY <1>1, <1>2, <1>3, PTL DEF Spec, LoweredOnlyIfTorn
-------------------------------------------------------------------------------
(* How far the counter can get.  A save raises it by one at most, and only a *)
(* save that has begun has done so: the bound of a configuration is that of  *)
(* the devices at the start plus the saves the worker has taken up so far.   *)

Base == IF MaxCounter <= 1 THEN 1 ELSE MaxCounter

SavesQueued == {i \in 1 .. Len(tasks) : tasks[i].kind = "Save"}

Begun == saves - Cardinality(SavesQueued)

Within(c, n) ==
    /\ c["WSPR_callsign"] \in Callsigns
    /\ Counter(c) <= n
    /\ \A v \in Settings : c[v] \in 0 .. MaxSaves

\* A save whose messages are not all sent has left the configuration behind.
LimitInv ==
    /\ saves <= MaxSaves
    /\ Begun >= 0
    /\ Within(config, IF Writing THEN Base + Begun - 1 ELSE Base + Begun)
    /\ \A d \in Devices : Within(eeprom[d], Base + Begun)
    /\ Within(task.cfg, Base + Begun)
    /\ \A i \in 1 .. Len(tasks) :
           /\ tasks[i].kind = "Save" => Within(tasks[i].cfg, Base + Begun + 1)
           /\ tasks[i].kind # "Save" => tasks[i].cfg = BlankConfig

Flags ==
    /\ connectEnabled \in BOOLEAN /\ saveEnabled \in BOOLEAN
    /\ torn \in BOOLEAN /\ raced \in BOOLEAN /\ crowded \in BOOLEAN
    /\ authId \in Devices \cup {NoDevice}

LEMMA BaseFacts == Base \in Nat /\ Base >= 1 /\ MaxCounter <= Base /\ Base <= MaxCounter + 1
<1>1. MaxCounter \in Nat
    BY ConfigAppAssumption
<1> QED
    BY ONLY <1>1 DEF Base

LEMMA ConfigWithin ==
    ASSUME NEW callsign \in Callsigns, NEW counter \in Nat, NEW n \in 0 .. MaxSaves,
           NEW m \in Nat, counter <= m
    PROVE  Within(Config(callsign, counter, n), m)
<1>1. "WSPR_callsign" \in Vars /\ "ChangeCounter" \in Vars
    BY ConfigAppAssumption
<1> DEFINE c == Config(callsign, counter, n)
<1>2. c["WSPR_callsign"] = callsign /\ Counter(c) = counter
    BY <1>1 DEF Config, Counter
<1>3. \A v \in Settings : c[v] = n
    BY DEF Config, Settings
<1> SUFFICES Within(c, m)
    OBVIOUS
<1> HIDE DEF c
<1> QED
    BY ONLY <1>2, <1>3, callsign \in Callsigns, n \in 0 .. MaxSaves, counter <= m DEF Within

LEMMA BlankWithin ==
    ASSUME NEW m \in Nat
    PROVE  Within(BlankConfig, m)
<1>1. "" \in Callsigns
    BY ConfigAppAssumption
<1>2. MaxSaves \in Nat
    BY ConfigAppAssumption
<1>3. 0 \in Nat /\ 0 \in 0 .. MaxSaves /\ 0 <= m
    BY ONLY <1>2, m \in Nat
<1> QED
    BY <1>1, <1>3, ConfigWithin DEF BlankConfig

LEMMA WithinMore ==
    ASSUME NEW c \in ConfigSet, NEW m \in Int, NEW n \in Int, m <= n, Within(c, m)
    PROVE  Within(c, n)
<1>1. Counter(c) \in Nat
    BY ConfigFacts
<1> QED
    BY <1>1 DEF Within

\* A configuration put together from two is within their common bound.
LEMMA MixedWithin ==
    ASSUME NEW c, NEW d, NEW e, NEW n, Within(c, n), Within(d, n),
           \A v \in Vars : e[v] \in {c[v], d[v]}
    PROVE  Within(e, n)
<1>1. /\ "WSPR_callsign" \in Vars /\ "ChangeCounter" \in Vars
      /\ Settings \subseteq Vars
    BY ConfigAppAssumption DEF Settings
<1>2. e["WSPR_callsign"] \in Callsigns
    BY <1>1 DEF Within
<1>3. Counter(e) <= n
    BY <1>1 DEF Within, Counter
<1>4. \A v \in Settings : e[v] \in 0 .. MaxSaves
    BY <1>1 DEF Within
<1> QED
    BY <1>2, <1>3, <1>4 DEF Within

LEMMA QueuedFacts ==
    ASSUME Types
    PROVE  /\ IsFiniteSet(SavesQueued) /\ Cardinality(SavesQueued) \in Nat
           /\ Len(tasks) \in Nat /\ tasks \in Seq(TaskSet)
           /\ saves \in Nat /\ Begun \in Int /\ Begun <= saves
           /\ (\E i \in 1 .. Len(tasks) : tasks[i].kind = "Save") => Begun < saves
<1>1. tasks \in Seq(TaskSet) /\ Len(tasks) \in Nat /\ saves \in Nat
    BY LenProperties DEF Types
<1>2. IsFiniteSet(1 .. Len(tasks)) /\ SavesQueued \subseteq 1 .. Len(tasks)
    BY <1>1, FS_Interval DEF SavesQueued
<1>3. IsFiniteSet(SavesQueued)
    BY <1>2, FS_Subset
<1>4. Cardinality(SavesQueued) \in Nat
    BY <1>3, FS_CardinalityType
<1>5. SavesQueued # {} => Cardinality(SavesQueued) # 0
    BY <1>3, FS_EmptySet
<1>6. (\E i \in 1 .. Len(tasks) : tasks[i].kind = "Save") => SavesQueued # {}
    BY DEF SavesQueued
<1>7. Begun = saves - Cardinality(SavesQueued)
    BY DEF Begun
<1> QED
    BY ONLY <1>1, <1>3, <1>4, <1>5, <1>6, <1>7

LEMMA QueueLonger ==
    ASSUME Types, NEW t \in TaskSet, Enqueue(t)
    PROVE  /\ \A i \in 1 .. Len(tasks') :
                 (i \in 1 .. Len(tasks) /\ tasks'[i] = tasks[i]) \/ tasks'[i] = t
           /\ Cardinality(SavesQueued') =
                 Cardinality(SavesQueued) + (IF t.kind = "Save" THEN 1 ELSE 0)
<1> DEFINE n == Len(tasks) + 1
<1>1. tasks \in Seq(TaskSet) /\ tasks' = Append(tasks, t) /\ Len(tasks) \in Nat
    BY QueuedFacts DEF Enqueue
<1>2. /\ Len(tasks') = n /\ tasks'[n] = t
      /\ \A i \in 1 .. Len(tasks) : tasks'[i] = tasks[i]
    BY ONLY <1>1, t \in TaskSet, AppendProperties
<1>3. n \notin 1 .. Len(tasks) /\ 1 .. n = (1 .. Len(tasks)) \cup {n}
    BY ONLY <1>1
<1> HIDE DEF n
<1>4. SavesQueued' = IF t.kind = "Save" THEN SavesQueued \cup {n} ELSE SavesQueued
    BY <1>2, <1>3 DEF SavesQueued
<1>5. n \notin SavesQueued
    BY <1>3 DEF SavesQueued
<1>6. IsFiniteSet(SavesQueued) /\ Cardinality(SavesQueued) \in Nat
    BY QueuedFacts
<1>7. Cardinality(SavesQueued \cup {n}) = Cardinality(SavesQueued) + 1
    BY <1>5, <1>6, FS_AddElement
<1> QED
    BY <1>2, <1>3, <1>4, <1>6, <1>7

LEMMA QueueShorter ==
    ASSUME Types, StartTask
    PROVE  /\ \A i \in 1 .. Len(tasks') : /\ i + 1 \in 1 .. Len(tasks)
                                          /\ tasks'[i] = tasks[i + 1]
           /\ Head(tasks) = tasks[1] /\ 1 \in 1 .. Len(tasks)
           /\ Cardinality(SavesQueued') =
                 Cardinality(SavesQueued) - (IF Head(tasks).kind = "Save" THEN 1 ELSE 0)
<1>1. tasks \in Seq(TaskSet) /\ tasks # <<>> /\ tasks' = Tail(tasks)
    BY DEF Types, StartTask
<1>2. Len(tasks) \in Nat \ {0}
    BY <1>1, EmptySeq, LenProperties
<1>3. /\ Len(tasks') = Len(tasks) - 1 /\ Head(tasks) = tasks[1]
      /\ \A i \in 1 .. Len(tasks') : tasks'[i] = tasks[i + 1]
    BY <1>1, HeadTailProperties
<1>4. /\ \A i \in 1 .. Len(tasks') : i + 1 \in 1 .. Len(tasks) /\ i + 1 # 1
      /\ \A i \in 1 .. Len(tasks) : i # 1 => i - 1 \in 1 .. Len(tasks') /\ (i - 1) + 1 = i
      /\ 1 \in 1 .. Len(tasks)
    BY ONLY <1>2, <1>3
<1> DEFINE S == SavesQueued \ {1}
           T == SavesQueued'
           f == [j \in S |-> j - 1]
<1>5. \A j \in S : j \in Nat /\ f[j] = j - 1 /\ j - 1 \in T
    <2> SUFFICES ASSUME NEW j \in S
                 PROVE  j \in Nat /\ j - 1 \in T
        OBVIOUS
    <2>1. j \in 1 .. Len(tasks) /\ j # 1 /\ tasks[j].kind = "Save"
        BY DEF SavesQueued
    <2>2. j \in Nat /\ j - 1 \in 1 .. Len(tasks') /\ (j - 1) + 1 = j
        BY <1>4, <2>1
    <2>3. tasks'[j - 1] = tasks[j]
        BY <1>3, <2>2
    <2> QED
        BY <2>1, <2>2, <2>3 DEF SavesQueued
<1>6. \A i \in T : i + 1 \in S /\ (i + 1) - 1 = i
    <2> SUFFICES ASSUME NEW i \in T
                 PROVE  i + 1 \in S /\ (i + 1) - 1 = i
        OBVIOUS
    <2>1. i \in 1 .. Len(tasks') /\ tasks'[i].kind = "Save"
        BY DEF SavesQueued
    <2> QED
        BY <1>3, <1>4, <2>1 DEF SavesQueued
<1>7. IsFiniteSet(SavesQueued) /\ Cardinality(SavesQueued) \in Nat
    BY QueuedFacts
<1>8. IsFiniteSet(S) /\ Cardinality(S) = Cardinality(SavesQueued)
                                         - (IF Head(tasks).kind = "Save" THEN 1 ELSE 0)
    <2>1. 1 \in SavesQueued <=> Head(tasks).kind = "Save"
        BY <1>3, <1>4 DEF SavesQueued
    <2> QED
        BY <1>7, <2>1, FS_RemoveElement
<1>9. f \in Bijection(S, T)
    <2>1. f \in [S -> T]
        BY <1>5
    <2> HIDE DEF f, S, T
    <2>2. \A i, j \in S : f[i] = f[j] => i = j
        BY <1>5
    <2>3. \A i \in T : \E j \in S : f[j] = i
        BY <1>5, <1>6
    <2> QED
        BY <2>1, <2>2, <2>3 DEF Bijection, Injection, Surjection, IsInjective
<1>10. Cardinality(T) = Cardinality(S)
    <2> HIDE DEF f, S, T
    <2> QED
        BY <1>8, <1>9, FS_Bijection DEF ExistsBijection
<1> QED
    BY <1>3, <1>4, <1>8, <1>10

LEMMA LimitsFacts ==
    ASSUME Types, LimitInv
    PROVE  /\ Begun \in Nat /\ Base + Begun \in Nat /\ Base + Begun - 1 \in Int
           /\ Within(config, Base + Begun)
<1>1. Base \in Nat /\ Begun \in Int /\ Begun >= 0
    BY BaseFacts, QueuedFacts DEF LimitInv
<1>2. Base + Begun \in Int /\ Base + Begun - 1 \in Int /\ Base + Begun - 1 <= Base + Begun
      /\ Begun \in Nat /\ Base + Begun \in Nat
    BY ONLY <1>1
<1>3. config \in ConfigSet
    BY DEF Types
<1>4. Within(config, Base + Begun - 1) => Within(config, Base + Begun)
    BY <1>2, <1>3, WithinMore
<1> QED
    BY <1>2, <1>4 DEF LimitInv

LEMMA LimitsUntouched ==
    ASSUME LimitInv, UNCHANGED <<config, eeprom, task, step, tasks, saves>>
    PROVE  LimitInv'
<1>1. Begun' = Begun /\ Writing' = Writing
    BY DEF Begun, SavesQueued, Writing
<1> QED
    BY <1>1 DEF LimitInv

LEMMA EnqueueLimits ==
    ASSUME Types, LimitInv, NEW t \in TaskSet, Enqueue(t), t.kind # "Save",
           t.cfg = BlankConfig, UNCHANGED <<config, eeprom, task, step, saves>>
    PROVE  LimitInv'
<1>1. Cardinality(SavesQueued') = Cardinality(SavesQueued)
      /\ \A i \in 1 .. Len(tasks') :
            (i \in 1 .. Len(tasks) /\ tasks'[i] = tasks[i]) \/ tasks'[i] = t
    <2>1. Cardinality(SavesQueued) \in Nat
        BY QueuedFacts
    <2> QED
        BY <2>1, QueueLonger
<1>2. Begun' = Begun /\ Writing' = Writing
    BY <1>1 DEF Begun, Writing
<1> QED
    BY <1>1, <1>2 DEF LimitInv

LEMMA DeviceSaveLimits ==
    ASSUME Types, LimitInv, NEW typed \in Callsigns, DeviceSave(typed)
    PROVE  LimitInv'
<1> DEFINE callsign == Canonical[typed]
           counted == IF config["WSPR_callsign"] # callsign
                        THEN config["ChangeCounter"] + 1 ELSE config["ChangeCounter"]
           counter == IF counted <= 1 THEN 2 ELSE counted
           cfg == GetFields(config, typed, saves + 1)
           t == Task("Save", cfg)
<1>1. /\ Enqueue(t) /\ saves' = saves + 1 /\ saves < MaxSaves
      /\ UNCHANGED <<config, eeprom, task, step>>
    BY DEF DeviceSave, modelVars, workerVars
<1>2. Begun \in Nat /\ Base + Begun \in Nat /\ Within(config, Base + Begun)
    BY LimitsFacts
<1>3. saves \in Nat /\ Cardinality(SavesQueued) \in Nat
    BY QueuedFacts
<1>4. MaxSaves \in Nat
    BY ConfigAppAssumption
<1>5. saves + 1 \in 0 .. MaxSaves /\ saves + 1 \in Nat
    BY ONLY <1>1, <1>3, <1>4
<1>6. callsign \in Callsigns
    BY ConfigAppAssumption
<1>7. counter \in Nat /\ counter <= Base + Begun + 1
    <2>1. config["ChangeCounter"] \in Nat /\ config["ChangeCounter"] <= Base + Begun
        BY <1>2, ConfigFacts DEF Types, Within, Counter
    <2>2. counted \in Nat /\ counted <= Base + Begun + 1
        <3>1. counted \in {config["ChangeCounter"], config["ChangeCounter"] + 1}
            OBVIOUS
        <3> HIDE DEF counted
        <3> QED
            BY ONLY <1>2, <2>1, <3>1
    <2>3. Base \in Nat /\ Base >= 1
        BY BaseFacts
    <2> HIDE DEF counted
    <2> QED
        BY ONLY <1>2, <2>2, <2>3
<1>8. cfg = Config(callsign, counter, saves + 1)
    BY DEF GetFields
<1>9. cfg \in ConfigSet /\ Within(cfg, Base + Begun + 1)
    <2> HIDE DEF callsign, counter, cfg
    <2>1. Base + Begun + 1 \in Nat
        BY ONLY <1>2
    <2> QED
        BY <1>5, <1>6, <1>7, <1>8, <2>1, ConfigIsTyped, ConfigWithin
<1> HIDE DEF cfg
<1>10. t \in TaskSet /\ t.kind = "Save" /\ t.cfg = cfg
    BY <1>9, TaskIsTyped DEF Kinds
<1> HIDE DEF t
<1>11. /\ Cardinality(SavesQueued') = Cardinality(SavesQueued) + 1
       /\ \A i \in 1 .. Len(tasks') :
             (i \in 1 .. Len(tasks) /\ tasks'[i] = tasks[i]) \/ tasks'[i] = t
    BY <1>1, <1>10, QueueLonger
<1>12. Begun' = Begun /\ Writing' = Writing
    <2>1. saves' = saves + 1 /\ Cardinality(SavesQueued') = Cardinality(SavesQueued) + 1
        BY <1>1, <1>11
    <2>2. Begun' = Begun
        BY ONLY <1>3, <2>1 DEF Begun
    <2> QED
        BY <1>1, <2>2 DEF Writing
<1>13. saves' <= MaxSaves
    BY ONLY <1>1, <1>3, <1>4
<1> QED
    BY <1>1, <1>9, <1>10, <1>11, <1>12, <1>13 DEF LimitInv

LEMMA StartTaskLimits ==
    ASSUME Types, LimitInv, StartTask
    PROVE  LimitInv'
<1> DEFINE h == Head(tasks)
<1>1. /\ task = NoTask /\ step' = 1 /\ UNCHANGED <<saves, config, eeprom>>
      /\ task' = IF h.kind = "Load" THEN Task("Load", config) ELSE h
    BY DEF StartTask, uiVars, modelVars
<1>2. /\ \A i \in 1 .. Len(tasks') : /\ i + 1 \in 1 .. Len(tasks)
                                     /\ tasks'[i] = tasks[i + 1]
      /\ h = tasks[1] /\ 1 \in 1 .. Len(tasks)
      /\ Cardinality(SavesQueued') =
            Cardinality(SavesQueued) - (IF h.kind = "Save" THEN 1 ELSE 0)
    BY QueueShorter
<1>3. Begun \in Nat /\ Base + Begun \in Nat /\ Within(config, Base + Begun)
    BY LimitsFacts
<1>4. saves \in Nat /\ Cardinality(SavesQueued) \in Nat /\ saves <= MaxSaves
    BY QueuedFacts DEF LimitInv
<1>5. h \in TaskSet /\ config \in ConfigSet /\ \A d \in Devices : eeprom[d] \in ConfigSet
    <2>1. h \in TaskSet
        BY <1>2, ElementOfSeq, QueuedFacts
    <2> QED
        BY <2>1 DEF Types
<1>6. /\ h.kind = "Save" => Within(h.cfg, Base + Begun + 1)
      /\ h.kind # "Save" => h.cfg = BlankConfig
    BY <1>2 DEF LimitInv
<1>7. CASE h.kind = "Save"
    <2>1. Begun' = Begun + 1
        <3>1. saves - (Cardinality(SavesQueued) - 1) = saves - Cardinality(SavesQueued) + 1
            BY ONLY <1>4
        <3> QED
            BY <1>1, <1>2, <1>7, <3>1 DEF Begun
    <2> DEFINE b == Base + Begun
    <2>2. Base + (Begun + 1) = b + 1 /\ (b + 1) - 1 = b /\ b \in Nat /\ b + 1 \in Nat
          /\ b <= b + 1 /\ b + 1 <= b + 1 + 1 /\ b + 1 + 1 \in Nat
        <3>1. Base \in Nat
            BY BaseFacts
        <3> QED
            BY ONLY <1>3, <3>1
    <2>3. task' = h /\ Within(h.cfg, b + 1)
        BY <1>1, <1>6, <1>7
    <2>4. \A d \in Devices : Within(eeprom[d], b)
        BY DEF LimitInv
    <2>5. \A i \in 1 .. Len(tasks) : tasks[i].kind = "Save" =>
              tasks[i].cfg \in ConfigSet /\ Within(tasks[i].cfg, b + 1)
        <3>1. \A i \in 1 .. Len(tasks) : tasks[i] \in TaskSet
            BY ElementOfSeq, QueuedFacts
        <3> QED
            BY <3>1 DEF LimitInv, TaskSet
    <2> HIDE DEF b
    <2>6. Within(config, b)
        BY <1>3 DEF b
    <2>7. Within(config, b + 1) /\ \A d \in Devices : Within(eeprom[d], b + 1)
        BY <1>5, <2>2, <2>4, <2>6, WithinMore
    <2>8. \A i \in 1 .. Len(tasks) : tasks[i].kind = "Save" => Within(tasks[i].cfg, b + 1 + 1)
        BY <2>2, <2>5, WithinMore
    <2>9. Base + Begun' = b + 1 /\ Base + Begun' - 1 = b /\ Begun' >= 0
        <3>1. Base \in Nat
            BY BaseFacts
        <3> QED
            BY ONLY <1>3, <2>1, <3>1 DEF b
    <2> QED
        BY <1>1, <1>2, <1>4, <2>3, <2>6, <2>7, <2>8, <2>9 DEF LimitInv
<1>8. CASE h.kind # "Save"
    <2>1. Begun' = Begun
        BY <1>1, <1>2, <1>4, <1>8 DEF Begun
    <2>2. task'.kind # "Save" /\ task'.cfg \in {config, BlankConfig}
        BY <1>1, <1>6, <1>8 DEF Task
    <2>3. Within(task'.cfg, Base + Begun)
        BY <1>3, <2>2, BlankWithin
    <2>4. ~Writing'
        BY <2>2 DEF Writing
    <2> QED
        BY <1>1, <1>2, <1>3, <2>1, <2>3, <2>4 DEF LimitInv
<1> QED
    BY <1>7, <1>8

\* The save that is under way may raise the counter to one more than the program
\* knows of.
LEMMA OutgoingWithin ==
    ASSUME Types, LimitInv, Writing
    PROVE  Outgoing \in ConfigSet /\ Within(Outgoing, Base + Begun)
<1>1. task # NoTask /\ task.cfg \in ConfigSet /\ config \in ConfigSet
    BY NoTaskFacts DEF Writing, Types, Kinds
<1>2. Outgoing \in ConfigSet /\ \A v \in Vars : v # Message => Outgoing[v] = task.cfg[v]
    BY <1>1, OutgoingFacts
<1>3. Base + Begun \in Nat /\ Within(task.cfg, Base + Begun)
      /\ Within(config, Base + Begun - 1)
    BY LimitsFacts DEF LimitInv
<1>4. CASE Outgoing = task.cfg
    BY <1>2, <1>3, <1>4
<1>5. CASE /\ Message = "ChangeCounter"
           /\ Outgoing = [task.cfg EXCEPT !["ChangeCounter"] = config["ChangeCounter"] + 1]
    <2>1. Counter(Outgoing) = Counter(config) + 1
        <3>1. "ChangeCounter" \in DOMAIN task.cfg
            BY <1>1, ConfigFacts
        <3> QED
            BY <1>5, <3>1 DEF Counter
    <2>2. Counter(Outgoing) <= Base + Begun
        <3>1. Counter(config) \in Nat /\ Counter(config) <= Base + Begun - 1
            BY <1>1, <1>3, ConfigFacts DEF Within
        <3>2. Base \in Nat /\ Begun \in Nat
            BY BaseFacts, LimitsFacts
        <3> QED
            BY ONLY <2>1, <3>1, <3>2
    <2>3. /\ "WSPR_callsign" \in Vars /\ "WSPR_callsign" # "ChangeCounter"
          /\ \A v \in Settings : v \in Vars /\ v # "ChangeCounter"
        BY ConfigAppAssumption DEF Settings
    <2>4. /\ Outgoing["WSPR_callsign"] = task.cfg["WSPR_callsign"]
          /\ \A v \in Settings : Outgoing[v] = task.cfg[v]
        BY <1>2, <1>5, <2>3
    <2> QED
        BY <1>2, <1>3, <2>2, <2>4 DEF Within
<1>6. \/ Outgoing = task.cfg
      \/ /\ Message = "ChangeCounter"
         /\ Outgoing = [task.cfg EXCEPT !["ChangeCounter"] = config["ChangeCounter"] + 1]
    BY DEF Outgoing
<1> QED
    BY <1>4, <1>5, <1>6

LEMMA EffectWithin ==
    ASSUME Types, LimitInv, Sending, conn # NoDevice, Effect
    PROVE  \A d \in Devices : Within(eeprom'[d], Base + Begun)
<1> SUFFICES ASSUME NEW d \in Devices
             PROVE  Within(eeprom'[d], Base + Begun)
    OBVIOUS
<1>1. task # NoTask /\ conn \in Devices /\ eeprom \in [Devices -> ConfigSet]
    BY DEF Sending, Types
<1>2. \A x \in Devices : Within(eeprom[x], Base + Begun)
    BY DEF LimitInv
<1>3. CASE task.kind # "Save"
    BY <1>2, <1>3 DEF Effect
<1>4. CASE task.kind = "Save" /\ d # conn
    <2>1. eeprom'[d] = eeprom[d]
        BY <1>1, <1>4 DEF Effect
    <2> QED
        BY <1>2, <2>1
<1>5. CASE task.kind = "Save" /\ d = conn
    <2>1. Writing
        BY <1>5 DEF Writing, Sending, Messages
    <2>2. Within(Outgoing, Base + Begun)
        BY <2>1, OutgoingWithin
    <2>3. \A v \in Vars : eeprom'[d][v] \in {eeprom[d][v], Outgoing[v]}
        BY <1>1, <1>5, EffectFacts
    <2> QED
        BY <1>2, <2>2, <2>3, MixedWithin
<1> QED
    BY <1>3, <1>4, <1>5

LEMMA SendAcceptedLimits ==
    ASSUME Types, LimitInv, SendAccepted
    PROVE  LimitInv'
<1>1. /\ Sending /\ conn # NoDevice /\ Effect /\ step' = step + 1 /\ task # NoTask
      /\ conn \in Devices /\ UNCHANGED <<config, tasks, saves>>
    BY DEF SendAccepted, Sending, uiVars, modelVars, Types
<1>2. Begun' = Begun
    BY <1>1 DEF Begun, SavesQueued
<1>3. /\ Within(config, Base + Begun) /\ Within(task.cfg, Base + Begun)
      /\ \A d \in Devices : Within(eeprom[d], Base + Begun)
    BY LimitsFacts DEF LimitInv
<1>4. \A d \in Devices : Within(eeprom'[d], Base + Begun)
    BY <1>1, EffectWithin
<1>5. task'.kind = task.kind
    BY <1>1, TaskAfterSend
<1>6. Within(task'.cfg, Base + Begun)
    <2>1. CASE task.kind = "Save"
        <3>1. Writing
            BY <1>1, <2>1 DEF Writing, Sending, Messages
        <3> QED
            BY <1>1, <2>1, <3>1, OutgoingWithin, TaskAfterSend
    <2>2. CASE task.kind = "Load"
        <3>1. \A v \in Vars : task'.cfg[v] \in {task.cfg[v], eeprom[conn][v]}
            BY <1>1, <2>2, TaskAfterSend
        <3> QED
            BY <1>1, <1>3, <3>1, MixedWithin
    <2>3. CASE task.kind \notin {"Load", "Save"}
        BY <1>3, <2>3 DEF SendAccepted
    <2> QED
        BY <2>1, <2>2, <2>3
<1>7. Writing' => Writing
    <2>1. step \in Nat /\ Len(SaveMessages) \in Nat
        BY SaveSends DEF Types
    <2>2. step + 1 <= Len(SaveMessages) => step <= Len(SaveMessages)
        BY ONLY <2>1
    <2> QED
        BY <1>1, <1>5, <2>2 DEF Writing
<1> QED
    BY <1>1, <1>2, <1>3, <1>4, <1>6, <1>7 DEF LimitInv

\* The task is done, and the configuration is no longer behind.
LEMMA FinishLimits ==
    ASSUME Types, LimitInv, task' = NoTask, UNCHANGED <<config, tasks, saves>>,
           \A d \in Devices : Within(eeprom'[d], Base + Begun)
    PROVE  LimitInv'
<1>1. Begun' = Begun
    BY DEF Begun, SavesQueued
<1>2. Base + Begun \in Nat /\ Within(config, Base + Begun)
    BY LimitsFacts
<1>3. ~Writing'
    BY DEF Writing, NoTask, Task
<1>4. Within(task'.cfg, Base + Begun)
    BY <1>2, BlankWithin DEF NoTask, Task
<1> QED
    BY <1>1, <1>2, <1>3, <1>4 DEF LimitInv

LEMMA AssignMemberLimits ==
    ASSUME Types, LimitInv, AssignMember
    PROVE  LimitInv'
<1>1. /\ step' = step + 1 /\ UNCHANGED <<task, tasks, eeprom, saves>>
      /\ Assigned >= 1 /\ \A v \in Vars : config'[v] \in {config[v], task.cfg[v]}
    BY AssignAgrees DEF AssignMember, uiVars
<1>2. Begun' = Begun
    BY <1>1 DEF Begun, SavesQueued
<1>3. Within(config, Base + Begun) /\ Within(task.cfg, Base + Begun)
    BY LimitsFacts DEF LimitInv
<1>4. Within(config', Base + Begun)
    BY <1>1, <1>3, MixedWithin
<1>5. ~Writing'
    <2>1. /\ task.kind = "Save" => Assigned = step - Len(SaveMessages)
          /\ Assigned >= 1 /\ step \in Nat /\ Len(SaveMessages) \in Nat
        BY <1>1, AssignedFacts
    <2>2. task.kind = "Save" => ~(step + 1 <= Len(SaveMessages))
        BY ONLY <2>1
    <2> QED
        BY <1>1, <2>2 DEF Writing
<1> QED
    BY <1>1, <1>2, <1>3, <1>4, <1>5 DEF LimitInv

LEMMA KilledLimits ==
    ASSUME Types, LimitInv, Killed
    PROVE  LimitInv'
<1>1. /\ config' = BlankConfig /\ tasks' = <<>> /\ task' = NoTask
      /\ UNCHANGED <<eeprom, saves>>
    BY DEF Killed, OnDisconnect
<1>2. Base \in Nat /\ Begun \in Nat /\ saves \in Nat /\ Begun <= saves
    BY BaseFacts, LimitsFacts, QueuedFacts
<1>3. Len(tasks') = 0
    BY <1>1
<1>4. Begun' = saves
    <2>1. SavesQueued' = {}
        BY <1>3 DEF SavesQueued
    <2>2. Cardinality(SavesQueued') = 0
        BY <2>1, FS_EmptySet
    <2> QED
        BY <1>1, <1>2, <2>2 DEF Begun
<1>5. Base + saves \in Nat /\ Base + Begun \in Nat /\ Base + Begun <= Base + saves
      /\ saves >= 0
    BY ONLY <1>2
<1>6. \A d \in Devices : Within(eeprom[d], Base + saves)
    <2>1. \A d \in Devices : eeprom[d] \in ConfigSet /\ Within(eeprom[d], Base + Begun)
        BY DEF LimitInv, Types
    <2> QED
        BY <1>5, <2>1, WithinMore
<1>7. Within(BlankConfig, Base + saves) /\ task'.cfg = BlankConfig
    BY <1>1, <1>5, BlankWithin DEF NoTask, Task
<1>8. ~Writing'
    BY <1>1 DEF Writing, NoTask, Task
<1>9. saves <= MaxSaves
    BY DEF LimitInv
<1> QED
    BY <1>1, <1>3, <1>4, <1>5, <1>6, <1>7, <1>8, <1>9 DEF LimitInv

LEMMA InitLimits ==
    ASSUME Init
    PROVE  LimitInv
<1>1. /\ config = BlankConfig /\ tasks = <<>> /\ task = NoTask /\ saves = 0
      /\ eeprom \in [Devices -> Stored]
    BY DEF Init
<1>2. Len(tasks) = 0
    BY <1>1
<1>3. Base \in Nat /\ Base >= 1 /\ MaxCounter <= Base
    BY BaseFacts
<1>4. MaxCounter \in Nat /\ MaxSaves \in Nat
    BY ConfigAppAssumption
<1>5. Begun = 0
    <2>1. SavesQueued = {}
        BY <1>2 DEF SavesQueued
    <2>2. Cardinality(SavesQueued) = 0
        BY <2>1, FS_EmptySet
    <2> QED
        BY <1>1, <2>2 DEF Begun
<1>6. Base + 0 = Base /\ 0 >= 0 /\ 0 <= MaxSaves /\ 0 \in 0 .. MaxSaves
    BY ONLY <1>3, <1>4
<1>7. \A d \in Devices : Within(eeprom[d], Base)
    <2> SUFFICES ASSUME NEW d \in Devices
                 PROVE  Within(eeprom[d], Base)
        OBVIOUS
    <2> DEFINE some == Callsigns \ {""}
               few == 0 .. 1
               many == 0 .. MaxCounter
               A == {Config(c, n, 0) : c \in Callsigns, n \in few}
               B == {Config(c, n, 0) : c \in some, n \in many}
    <2>1. \E c \in Callsigns, n \in few \cup many : eeprom[d] = Config(c, n, 0)
        <3>1. eeprom[d] \in A \cup B
            <4>1. Stored = A \cup B
                BY DEF Stored
            <4>2. eeprom[d] \in Stored
                BY <1>1
            <4> HIDE DEF A, B
            <4> QED
                BY <4>1, <4>2
        <3>2. some \subseteq Callsigns
            OBVIOUS
        <3> HIDE DEF some, few, many
        <3>3. \A x \in A : \E c \in Callsigns, n \in few : x = Config(c, n, 0)
            OBVIOUS
        <3>4. \A x \in B : \E c \in some, n \in many : x = Config(c, n, 0)
            OBVIOUS
        <3> HIDE DEF A, B
        <3>5. CASE eeprom[d] \in A
            BY <3>3, <3>5
        <3>6. CASE eeprom[d] \in B
            BY <3>2, <3>4, <3>6
        <3> QED
            BY <3>1, <3>5, <3>6
    <2>2. PICK c \in Callsigns, n \in 0 .. 1 \cup 0 .. MaxCounter : eeprom[d] = Config(c, n, 0)
        BY <2>1
    <2>3. n \in Nat /\ n <= Base
        BY ONLY <1>3, <1>4, n \in 0 .. 1 \cup 0 .. MaxCounter
    <2> QED
        BY <1>3, <1>6, <2>2, <2>3, ConfigWithin
<1>8. Within(BlankConfig, Base) /\ task.cfg = BlankConfig /\ ~Writing
    BY <1>1, <1>3, BlankWithin DEF NoTask, Task, Writing
<1> QED
    BY <1>1, <1>2, <1>5, <1>6, <1>7, <1>8 DEF LimitInv

LEMMA NextLimits ==
    ASSUME Types, LimitInv, [Next]_vars
    PROVE  LimitInv'
<1> DEFINE t == Task("Connect", BlankConfig)
           u == Task("Load", BlankConfig)
<1>1. /\ t \in TaskSet /\ t.kind # "Save" /\ t.cfg = BlankConfig
      /\ u \in TaskSet /\ u.kind # "Save" /\ u.cfg = BlankConfig
    BY BlankIsTyped, TaskIsTyped DEF Kinds
<1>2. ASSUME NEW d \in Devices, DeviceConnect(d)
      PROVE  LimitInv'
    <2>1. Enqueue(t) /\ UNCHANGED <<config, eeprom, task, step, saves>>
        BY <1>2 DEF DeviceConnect, DropConnection, modelVars
    <2> HIDE DEF t
    <2> QED
        BY <1>1, <2>1, EnqueueLimits
<1>3. ASSUME NEW c \in Callsigns, DeviceSave(c)
      PROVE  LimitInv'
    BY <1>3, DeviceSaveLimits
<1>4. CASE DeviceConnectFails \/ StatusGivesUp \/ OnLoadSuccess \/ OnSaveSuccess
           \/ OnError \/ CloseBox \/ UNCHANGED vars
    <2>1. UNCHANGED <<config, eeprom, task, step, tasks, saves>>
        BY <1>4 DEF DeviceConnectFails, StatusGivesUp, OnLoadSuccess, OnSaveSuccess,
                    OnError, CloseBox, DropConnection, vars, uiVars, modelVars, workerVars
    <2> QED
        BY <2>1, LimitsUntouched
<1>5. CASE OnConnectSuccess
    <2>1. Enqueue(u) /\ UNCHANGED <<config, eeprom, task, step, saves>>
        BY <1>5 DEF OnConnectSuccess, uiVars, modelVars, workerVars
    <2> HIDE DEF u
    <2> QED
        BY <1>1, <2>1, EnqueueLimits
<1>6. CASE StartTask
    BY <1>6, StartTaskLimits
<1>7. CASE SendAccepted
    BY <1>7, SendAcceptedLimits
<1>8. CASE SendFails
    <2>1. task' = NoTask /\ UNCHANGED <<config, tasks, saves>> /\ Sending
        BY <1>8 DEF SendFails, Finish, uiVars, modelVars
    <2>2. eeprom' = eeprom \/ (conn # NoDevice /\ Effect)
        BY <1>8 DEF SendFails
    <2>3. \A d \in Devices : Within(eeprom'[d], Base + Begun)
        BY <2>1, <2>2, EffectWithin DEF LimitInv
    <2> QED
        BY <2>1, <2>3, FinishLimits
<1>9. CASE AssignMember
    BY <1>9, AssignMemberLimits
<1>10. CASE TaskSucceeds
    <2>1. task' = NoTask /\ UNCHANGED <<config, tasks, saves, eeprom>>
        BY <1>10 DEF TaskSucceeds, Finish, uiVars
    <2>2. \A d \in Devices : Within(eeprom'[d], Base + Begun)
        BY <2>1 DEF LimitInv
    <2> QED
        BY <2>1, <2>2, FinishLimits
<1>11. CASE Killed
    BY <1>11, KilledLimits
<1> QED
    BY <1>2, <1>3, <1>4, <1>5, <1>6, <1>7, <1>8, <1>9, <1>10, <1>11
       DEF Next, HandleEvent, Worker

LEMMA NextFlags ==
    ASSUME Flags, Types, [Next]_vars
    PROVE  Flags'
<1>1. ASSUME NEW d \in Devices, DeviceConnect(d)
      PROVE  Flags'
    BY <1>1, Zenon DEF DeviceConnect, Flags, modelVars, history
<1>2. ASSUME NEW c \in Callsigns, DeviceSave(c)
      PROVE  Flags'
    BY <1>2, Zenon DEF DeviceSave, ReadConfig, Flags, modelVars
<1>3. CASE DeviceConnectFails \/ StatusGivesUp \/ CloseBox \/ UNCHANGED vars
    BY <1>3, Zenon DEF DeviceConnectFails, StatusGivesUp, CloseBox, OnDisconnect, Flags,
                       modelVars, history, vars, uiVars
<1>4. CASE OnLoadSuccess \/ OnSaveSuccess
    BY <1>4, Zenon DEF OnLoadSuccess, OnSaveSuccess, ShowStatsLink, ReadConfig, Flags,
                       modelVars
<1>5. CASE OnConnectSuccess \/ OnError \/ StartTask \/ SendAccepted \/ AssignMember
    BY <1>5, Zenon DEF OnConnectSuccess, OnError, StartTask, SendAccepted, AssignMember,
                       Flags, uiVars, modelVars, history
<1>6. CASE SendFails
    BY <1>6, Zenon DEF SendFails, Flags, uiVars, modelVars
<1>7. CASE TaskSucceeds
    <2>1. authId' \in Devices \cup {NoDevice}
        <3>1. CASE task.kind = "Load"
            <4>1. task.id \in Devices \cup {NoDevice}
                BY <3>1, NoTaskFacts DEF Kinds, TaskSet
            <4> QED
                BY <1>7, <3>1, <4>1 DEF TaskSucceeds
        <3>2. CASE task.kind # "Load"
            BY <1>7, <3>2 DEF TaskSucceeds, Flags
        <3> QED
            BY <3>1, <3>2
    <2>2. UNCHANGED <<connectEnabled, saveEnabled, torn, raced, crowded>>
        BY <1>7 DEF TaskSucceeds, uiVars, history
    <2> QED
        BY <2>1, <2>2 DEF Flags
<1>8. CASE Killed
    BY <1>8, Zenon DEF Killed, OnDisconnect, Flags
<1> QED
    BY <1>1, <1>2, <1>3, <1>4, <1>5, <1>6, <1>7, <1>8 DEF Next, HandleEvent, Worker

\* The actions that may drop a connection.
Dropping == (\E d \in Devices : DeviceConnect(d)) \/ StatusGivesUp \/ CloseBox

LEMMA StrandedKept ==
    ASSUME stranded \in BOOLEAN, [Next]_vars
    PROVE  stranded' \in BOOLEAN
<1>1. DropConnection => stranded' \in BOOLEAN
    BY Zenon DEF DropConnection
<1>2. CASE Dropping
    BY <1>1, <1>2, Zenon DEF Dropping, DeviceConnect, StatusGivesUp, CloseBox
<1>3. CASE UNCHANGED workerVars
    BY <1>3, Zenon DEF workerVars
<1>4. CASE Worker
    BY <1>4, Zenon DEF Worker, StartTask, SendAccepted, SendFails, AssignMember, TaskSucceeds
<1>5. CASE Killed
    BY <1>5, Zenon DEF Killed
<1> QED
    BY <1>2, <1>3, <1>4, <1>5, Zenon
       DEF Next, Dropping, DeviceConnectFails, DeviceSave, HandleEvent, OnConnectSuccess,
           OnLoadSuccess, OnSaveSuccess, OnError, vars

LEMMA WithinIsConfig ==
    ASSUME NEW c \in ConfigSet, NEW n \in Int, n <= MaxCounter + MaxSaves + 1, Within(c, n)
    PROVE  IsConfig(c)
<1>1. DOMAIN c = Vars /\ Counter(c) \in Nat
    BY ConfigFacts
<1>2. MaxCounter \in Nat /\ MaxSaves \in Nat
    BY ConfigAppAssumption
<1>3. Counter(c) \in 0 .. MaxCounter + MaxSaves + 1
    <2>1. Counter(c) <= n
        BY DEF Within
    <2> QED
        BY ONLY <1>1, <1>2, <2>1, n \in Int, n <= MaxCounter + MaxSaves + 1
<1>4. ASSUME NEW v \in Vars
      PROVE  c[v] \in Values(v)
    <2>1. CASE v = "WSPR_callsign"
        BY <2>1 DEF Values, Within
    <2>2. CASE v = "ChangeCounter"
        BY <1>3, <2>2 DEF Values, Counter
    <2>3. CASE v \notin {"WSPR_callsign", "ChangeCounter"}
        BY <2>3 DEF Values, Within, Settings
    <2> QED
        BY <2>1, <2>2, <2>3
<1> QED
    BY <1>1, <1>4 DEF IsConfig

LEMMA LimitsAreTypes ==
    ASSUME Types, LimitInv, Flags, stranded \in BOOLEAN
    PROVE  TypeOK
<1> DEFINE b == Base + Begun
<1>1. Base \in Nat /\ Base <= MaxCounter + 1 /\ Begun \in Nat /\ Begun <= saves
      /\ saves \in Nat /\ saves <= MaxSaves
    BY BaseFacts, LimitsFacts, QueuedFacts DEF LimitInv
<1>2. MaxCounter \in Nat /\ MaxSaves \in Nat
    BY ConfigAppAssumption
<1>3. /\ b \in Nat /\ b + 1 \in Nat /\ b <= MaxCounter + MaxSaves + 1
      /\ Begun < saves => b + 1 <= MaxCounter + MaxSaves + 1
      /\ 0 \in Nat /\ 0 <= MaxCounter + MaxSaves + 1
    BY ONLY <1>1, <1>2
<1>4. Within(config, b) /\ Within(task.cfg, b) /\ \A d \in Devices : Within(eeprom[d], b)
    BY LimitsFacts DEF LimitInv
<1>5. \A i \in 1 .. Len(tasks) :
          /\ tasks[i].kind = "Save" => Within(tasks[i].cfg, b + 1)
          /\ tasks[i].kind # "Save" => tasks[i].cfg = BlankConfig
    BY DEF LimitInv
<1>6. IsConfig(BlankConfig)
    BY <1>3, BlankIsTyped, BlankWithin, WithinIsConfig
<1> HIDE DEF b
<1>7. IsConfig(config) /\ \A d \in Devices : IsConfig(eeprom[d])
    BY <1>3, <1>4, WithinIsConfig DEF Types
<1>8. \A t \in TaskSet : IsConfig(t.cfg) => IsTask(t)
    BY DEF IsTask, TaskSet, Kinds
<1>9. task = NoTask \/ IsTask(task)
    <2>1. task # NoTask => task \in TaskSet /\ task.cfg \in ConfigSet
        BY NoTaskFacts
    <2> QED
        BY <1>3, <1>4, <1>8, <2>1, WithinIsConfig
<1>10. ASSUME NEW i \in 1 .. Len(tasks)
       PROVE  IsTask(tasks[i])
    <2>1. tasks[i] \in TaskSet
        BY ElementOfSeq, QueuedFacts
    <2>2. tasks[i].cfg \in ConfigSet
        BY <2>1 DEF TaskSet
    <2>3. CASE tasks[i].kind = "Save"
        <3>1. Begun < saves
            BY <2>3, QueuedFacts
        <3>2. IsConfig(tasks[i].cfg)
            BY <1>3, <1>5, <2>2, <2>3, <3>1, WithinIsConfig
        <3> QED
            BY <1>8, <2>1, <3>2
    <2>4. CASE tasks[i].kind # "Save"
        BY <1>5, <1>6, <1>8, <2>1, <2>4
    <2> QED
        BY <2>3, <2>4
<1>11. events \in Seq([kind : {"Connect", "Load", "Save"}, success : BOOLEAN])
    BY DEF Types, EventSet, Kinds
<1> QED
    BY <1>7, <1>9, <1>10, <1>11, Zenon DEF TypeOK, Types, Flags

\* Every value stays in its range whatever happens in which order: no more saves are
\* counted than were pressed, also where Task_WSPRSave corrects the counter that
\* getFields has raised already, so the counter stays below one limit in the
\* DeviceModel, in the queued tasks and in every device (getFields, Task_WSPRSave).
THEOREM CounterStaysInRange == Spec => []TypeOK
<1>1. Init => SettledInv /\ LimitInv /\ Flags /\ stranded \in BOOLEAN
    <2>1. Init => Flags /\ stranded \in BOOLEAN
        BY Zenon DEF Init, Flags
    <2> QED
        BY <2>1, InitSettled, InitLimits
<1>2. SettledInv /\ LimitInv /\ Flags /\ stranded \in BOOLEAN /\ [Next]_vars =>
          SettledInv' /\ LimitInv' /\ Flags' /\ (stranded \in BOOLEAN)'
    BY NextSettled, NextLimits, NextFlags, StrandedKept DEF SettledInv
<1>3. SettledInv /\ LimitInv /\ Flags /\ stranded \in BOOLEAN => TypeOK
    BY LimitsAreTypes DEF SettledInv
<1> QED
    BY <1>1, <1>2, <1>3, PTL DEF Spec

-------------------------------------------------------------------------------
(* The Connect button.                                                       *)

OwedEvents == \E i \in 1 .. Len(events) : events[i].kind # "Save" \/ ~events[i].success

\* A handler is posted, or will be, that enables Connect or opens a box, and closing a box
\* enables it.
Owed == boxes > 0 \/ OwedEvents \/ TaskCures \/ task.kind \in {"Connect", "Load"}

\* Connect is dead only while something is under way that brings it back.
ConnectOwed == connectEnabled \/ Owed

LEMMA HandleOwes ==
    ASSUME Types, Handle("Save", TRUE), OwedEvents
    PROVE  OwedEvents'
<1>1. /\ events \in Seq(EventSet) /\ events # <<>> /\ events' = Tail(events)
      /\ Head(events).kind = "Save" /\ Head(events).success
    BY DEF Types, Handle
<1>2. /\ Head(events) = events[1]
      /\ \A i \in 1 .. Len(events) :
             i # 1 => i - 1 \in 1 .. Len(events') /\ events'[i - 1] = events[i]
    BY ONLY <1>1, TailFacts
<1>3. PICK i \in 1 .. Len(events) : events[i].kind # "Save" \/ ~events[i].success
    BY DEF OwedEvents
<1>4. i # 1
    BY <1>1, <1>2, <1>3
<1>5. i - 1 \in 1 .. Len(events') /\ events'[i - 1] = events[i]
    BY <1>2, <1>4
<1> QED
    BY <1>3, <1>5 DEF OwedEvents

\* The outcome of a connecting or loading task, and of any that failed, is owed.
LEMMA FinishOwes ==
    ASSUME Types, task # NoTask, NEW success \in BOOLEAN, Finish(success)
    PROVE  /\ OwedEvents => OwedEvents'
           /\ task.kind \in {"Connect", "Load"} \/ ~success => OwedEvents'
<1> DEFINE e == [kind |-> task.kind, success |-> success]
<1>1. events \in Seq(EventSet) /\ events' = Append(events, e)
    BY DEF Types, Finish
<1>2. e \in EventSet /\ e.kind = task.kind /\ e.success = success
    BY NoTaskFacts DEF EventSet
<1> HIDE DEF e
<1>3. /\ \A i \in 1 .. Len(events) : i \in 1 .. Len(events') /\ events'[i] = events[i]
      /\ Len(events') \in 1 .. Len(events') /\ events'[Len(events')] = e
    BY ONLY <1>1, <1>2, AppendFacts
<1> QED
    BY <1>2, <1>3 DEF OwedEvents

LEMMA OwedUntouched ==
    ASSUME Types, ConnectOwed, UNCHANGED <<events, tasks, task>>,
           connectEnabled => connectEnabled', boxes' = boxes
    PROVE  ConnectOwed'
BY DEF ConnectOwed, Owed, OwedEvents, TaskCures

LEMMA StartTaskOwes ==
    ASSUME Types, ConnectOwed, StartTask
    PROVE  ConnectOwed'
<1>1. /\ task.kind \notin Kinds /\ tasks \in Seq(TaskSet) /\ tasks # <<>>
      /\ tasks' = Tail(tasks) /\ UNCHANGED <<connectEnabled, boxes, events>>
    BY NoTaskFacts DEF StartTask, Types, uiVars
<1>2. /\ Head(tasks) = tasks[1]
      /\ \A i \in 1 .. Len(tasks) :
             i # 1 => i - 1 \in 1 .. Len(tasks') /\ tasks'[i - 1] = tasks[i]
    BY ONLY <1>1, TailFacts
<1>3. task'.kind = Head(tasks).kind
    BY DEF StartTask, Task
<1>4. ASSUME TaskCures
      PROVE  TaskCures' \/ task'.kind \in {"Connect", "Load"}
    <2>1. PICK i \in 1 .. Len(tasks) : tasks[i].kind \in {"Connect", "Load"}
        BY <1>4 DEF TaskCures
    <2>2. CASE i = 1
        BY <1>2, <1>3, <2>1, <2>2
    <2>3. CASE i # 1
        BY <1>2, <2>1, <2>3 DEF TaskCures
    <2> QED
        BY <2>2, <2>3
<1>5. OwedEvents => OwedEvents'
    BY <1>1 DEF OwedEvents
<1>6. task.kind \notin {"Connect", "Load"}
    BY <1>1 DEF Kinds
<1> QED
    BY <1>1, <1>4, <1>5, <1>6 DEF ConnectOwed, Owed

LEMMA NextOwes ==
    ASSUME Types, ConnectOwed, [Next]_vars
    PROVE  ConnectOwed'
<1>1. ASSUME NEW d \in Devices, DeviceConnect(d)
      PROVE  ConnectOwed'
    <2>1. Task("Connect", BlankConfig) \in TaskSet
          /\ Task("Connect", BlankConfig).kind = "Connect"
        BY TaskIsTyped, BlankIsTyped DEF Kinds
    <2>2. TaskCures'
        BY <1>1, <2>1, EnqueueCures DEF DeviceConnect
    <2> QED
        BY <2>2 DEF ConnectOwed, Owed
<1>2. CASE DeviceConnectFails \/ OnError
    <2>1. boxes' = boxes + 1 /\ boxes \in Nat
        BY <1>2, Zenon DEF DeviceConnectFails, OnError, Types
    <2> QED
        BY <2>1 DEF ConnectOwed, Owed
<1>3. ASSUME NEW c \in Callsigns, DeviceSave(c)
      PROVE  ConnectOwed'
    <2> DEFINE g == GetFields(config, c, saves + 1)
    <2>1. config \in ConfigSet /\ saves + 1 \in Nat
        BY DEF Types
    <2>a. g \in ConfigSet /\ Enqueue(Task("Save", g))
        BY <1>3, <2>1, GetFieldsFresh DEF DeviceSave
    <2> HIDE DEF g
    <2>b. Task("Save", g) \in TaskSet
        BY <2>a, TaskIsTyped DEF Kinds
    <2>2. PICK t \in TaskSet : Enqueue(t)
        BY <2>a, <2>b
    <2>3. TaskCures => TaskCures'
        BY <2>2, EnqueueCures
    <2>4. UNCHANGED <<connectEnabled, boxes, events, task>>
        BY <1>3 DEF DeviceSave, workerVars
    <2> QED
        BY <2>3, <2>4 DEF ConnectOwed, Owed, OwedEvents
<1>4. CASE StatusGivesUp \/ CloseBox \/ Killed \/ OnLoadSuccess
    BY <1>4 DEF StatusGivesUp, CloseBox, Killed, OnDisconnect, OnLoadSuccess, ConnectOwed
<1>5. CASE OnConnectSuccess
    <2>1. Task("Load", BlankConfig) \in TaskSet /\ Task("Load", BlankConfig).kind = "Load"
        BY TaskIsTyped, BlankIsTyped DEF Kinds
    <2>2. TaskCures'
        BY <1>5, <2>1, EnqueueCures DEF OnConnectSuccess
    <2> QED
        BY <2>2 DEF ConnectOwed, Owed
<1>6. CASE OnSaveSuccess
    <2>1. OwedEvents => OwedEvents'
        BY <1>6, HandleOwes DEF OnSaveSuccess, Kinds
    <2>2. UNCHANGED <<connectEnabled, boxes, tasks, task>>
        BY <1>6 DEF OnSaveSuccess, workerVars
    <2> QED
        BY <2>1, <2>2 DEF ConnectOwed, Owed, TaskCures
<1>7. CASE StartTask
    BY <1>7, StartTaskOwes
<1>8. CASE SendAccepted
    <2>1. task'.kind = task.kind
        <3>1. task \in TaskSet
            BY <1>8, NoTaskFacts DEF SendAccepted, Sending
        <3> QED
            BY <1>8, <3>1 DEF SendAccepted, TaskSet
    <2>2. UNCHANGED <<connectEnabled, boxes, tasks, events>>
        BY <1>8 DEF SendAccepted, uiVars
    <2> QED
        BY <2>1, <2>2 DEF ConnectOwed, Owed, OwedEvents, TaskCures
<1>9. CASE SendFails
    <2>1. task # NoTask /\ Finish(FALSE)
        BY <1>9 DEF SendFails, Sending
    <2>2. OwedEvents'
        BY <2>1, FinishOwes
    <2> QED
        BY <2>2 DEF ConnectOwed, Owed
<1>10. CASE TaskSucceeds
    <2>a. task # NoTask /\ Finish(TRUE)
        BY <1>10, SucceedsFacts
    <2>1. task # NoTask /\ Finish(TRUE) /\ UNCHANGED <<connectEnabled, boxes, tasks>>
        BY <1>10, <2>a DEF TaskSucceeds, uiVars
    <2>2. (OwedEvents => OwedEvents') /\ (task.kind \in {"Connect", "Load"} => OwedEvents')
        BY <2>1, FinishOwes
    <2> QED
        BY <2>1, <2>2 DEF ConnectOwed, Owed, TaskCures
<1>11. CASE AssignMember \/ UNCHANGED vars
    <2>1. UNCHANGED <<connectEnabled, boxes, events, tasks, task>>
        BY <1>11 DEF AssignMember, vars, uiVars, workerVars
    <2> QED
        BY <2>1, OwedUntouched
<1> QED
    BY <1>1, <1>2, <1>3, <1>4, <1>5, <1>6, <1>7, <1>8, <1>9, <1>10, <1>11
       DEF Next, HandleEvent, Worker

\* Whatever fails, whoever gives up the connection and however many tasks are queued, no
\* path through the handlers forgets the button: Connect is dead only while a task, a posted
\* handler or an open box is there that leads to enabling it (deviceConnect,
\* connectStartComm, deviceLoad and onDisconnect in wsprlite-config.cpp).  Whether the
\* worker gets to that task is ConnectReturns: not if a dropped connection has stranded it.
THEOREM ConnectIsNeverForgotten == Spec => []ConnectOwed
<1>1. Init => SettledInv /\ ConnectOwed
    <2>1. Init => ConnectOwed
        BY DEF Init, ConnectOwed
    <2> QED
        BY <2>1, InitSettled
<1>2. SettledInv /\ ConnectOwed /\ [Next]_vars => (SettledInv /\ ConnectOwed)'
    BY NextSettled, NextOwes DEF SettledInv
<1> QED
    BY <1>1, <1>2, PTL DEF Spec
===============================================================================
