------------------------- MODULE FirmwareUpdate_proofs -------------------------
(***************************************************************************)
(* Proofs about module FirmwareUpdate, for any images and any number of    *)
(* records, attempts, tasks, windows, presses and mishaps.  With one       *)
(* firmware dialog at a time and a prompt link the device never starts a   *)
(* partial image, and stays in its bootloader from the erasing to the      *)
(* verification.  Types and bounds hold for nested dialogs and a late link.*)
(***************************************************************************)
EXTENDS FirmwareUpdate, SequenceTheorems, FiniteSetTheorems, TLAPS

Tasks == {"connect", "reconnect", "load", "check"}
WriteOps == {"EraseAll", "ProgramHexRec", "ProgramResetAddr"}

\* The windows that are no firmware dialogs.
Boxes == {"error", "noFirmware", "required"}

\* The one update.
U == update[1]

\* A task of the worker at step s.
Working(t, s) ==
    \/ t = "none"
    \/ t \in {"connect", "reconnect"} /\ s \in 1 .. 5
    \/ t = "load" /\ s = 1
    \/ t = "check" /\ s \in 1 .. 2

\* The device holds image, and nothing else.
Whole(image) == \A i \in Records : flash[i] = image

\* Nothing but the update itself may write to the device.
Critical == (U.phase = "running" /\ U.step >= 4) \/ (U.phase = "over" /\ U.success)

-------------------------------------------------------------------------------
(* The parts of the inductive invariant.                                     *)

\* There is at most one dialog, and an update has one.
Windows ==
    /\ modals \in Seq({"error", "noFirmware", "required", "update"})
    /\ \A i, j \in DOMAIN modals : modals[i] = "update" /\ modals[j] = "update" => i = j
    /\ U.phase # "idle" => \E i \in DOMAIN modals : modals[i] = "update"

Threads ==
    /\ disk \in Images \cup {NoImage}
    /\ update \in [Updaters -> UpdateStates]
    /\ U.phase = "running" => U.step >= 1 /\ U.loaded \in Images /\ ~U.success
    /\ tasks \in Seq(Tasks)
    /\ Working(task, step)
    /\ handling \in {Worker, 1, Nobody}
    /\ handling = Worker => task # "none"
    /\ handling = 1 => U.phase = "running" /\ (AtProgram(1) => U.source # NoImage)

\* A prompt link holds at most one frame.
OneFrame ==
    /\ toDev = <<>> \/ toDev = <<toDev[1]>>
    /\ toHost = <<>> \/ toHost = <<toHost[1]>>
    /\ toDev = <<>> \/ toHost = <<>>

\* A command under way is that of the sender that waits; whoever has given up,
\* what it writes is still harmless.
Commands ==
    toDev # <<>> =>
        /\ handling # Nobody => toDev[1] = CommandOf(handling)
        /\ toDev[1].op \in WriteOps /\ Critical => handling = 1
        /\ toDev[1].op = "ProgramHexRec" => resetAddr = NoImage
        /\ toDev[1].op = "ProgramResetAddr" =>
               /\ toDev[1].img \in Images /\ Whole(toDev[1].img)
               /\ resetAddr \in {NoImage, toDev[1].img}

\* A response under way tells the update what the device holds now.
Answers ==
    handling = 1 /\ toHost # <<>> =>
        LET op == UpdateOps[U.step]
        IN  /\ op = "EraseAll" /\ toHost[1].type = "ACK" => resetAddr = NoImage
            /\ op = "CRC" /\ toHost[1].kind = "crc" => toHost[1].val = Checksum
            /\ op = "ProgramResetAddr" /\ toHost[1].type = "ACK" => resetAddr = U.loaded

\* Only what is whole has a reset address, and only that is started.
Device ==
    /\ DOMAIN flash = Records
    /\ mode \in {"app", "boot"}
    /\ resetAddr # NoImage => resetAddr \in Images /\ Whole(resetAddr)
    /\ mode = "app" => resetAddr # NoImage

\* How far the update is with the device.
Progress ==
    /\ U.phase = "running" /\ U.step \in 4 .. 4 + NumRecords => resetAddr = NoImage
    /\ U.phase = "running" /\ U.step = 5 + NumRecords =>
           Whole(U.loaded) /\ resetAddr \in {NoImage, U.loaded}
    /\ \/ U.phase = "running" /\ U.step = 6 + NumRecords
       \/ U.phase = "over" /\ U.success
       => Whole(U.loaded) /\ resetAddr = U.loaded

FirmwareInv ==
    Windows /\ Threads /\ OneFrame /\ Commands /\ Answers /\ Device /\ Progress

-------------------------------------------------------------------------------
(* The program of an update.                                                 *)

LEMMA UpdateOpsFacts ==
    /\ NumRecords \in Nat /\ NumRecords >= 1
    /\ Len(UpdateOps) = 6 + NumRecords
    /\ UpdateOps[1] = "Enter" /\ UpdateOps[2] = "State" /\ UpdateOps[3] = "EraseAll"
    /\ \A i \in 4 .. 3 + NumRecords : UpdateOps[i] = "ProgramHexRec"
    /\ UpdateOps[4 + NumRecords] = "CRC"
    /\ UpdateOps[5 + NumRecords] = "ProgramResetAddr"
    /\ UpdateOps[6 + NumRecords] = "Reset"
<1> DEFINE names == {"Enter", "State", "EraseAll", "ProgramHexRec", "CRC",
                     "ProgramResetAddr", "Reset"}
           a == <<"Enter", "State", "EraseAll">>
           c == <<"CRC", "ProgramResetAddr", "Reset">>
           ab == a \o ReadRecords
<1>1. NumRecords \in Nat /\ NumRecords >= 1
    BY FirmwareUpdateAssumption
<1>2. /\ a \in Seq(names) /\ Len(a) = 3
      /\ a[1] = "Enter" /\ a[2] = "State" /\ a[3] = "EraseAll"
    OBVIOUS
<1>3. /\ c \in Seq(names) /\ Len(c) = 3
      /\ c[1] = "CRC" /\ c[2] = "ProgramResetAddr" /\ c[3] = "Reset"
    OBVIOUS
<1>4. /\ ReadRecords \in Seq(names) /\ Len(ReadRecords) = NumRecords
      /\ \A i \in 1 .. NumRecords : ReadRecords[i] = "ProgramHexRec"
    <2>1. ReadRecords = [i \in 1 .. NumRecords |-> "ProgramHexRec"]
        BY DEF ReadRecords, Records
    <2>2. "ProgramHexRec" \in names
        OBVIOUS
    <2> HIDE DEF names
    <2>3. ReadRecords \in [1 .. NumRecords -> names]
        BY <2>1, <2>2
    <2>4. QED
        BY <1>1, <2>1, <2>3
<1>5. UpdateOps = ab \o c
    BY DEF UpdateOps
<1> HIDE DEF a, c, names
<1>6. /\ ab \in Seq(names) /\ Len(ab) = 3 + NumRecords
      /\ \A i \in 1 .. 3 + NumRecords : ab[i] = IF i <= 3 THEN a[i] ELSE ReadRecords[i - 3]
    <2>1. /\ ab \in Seq(names) /\ Len(ab) = Len(a) + Len(ReadRecords)
          /\ \A i \in 1 .. Len(a) + Len(ReadRecords) :
                 ab[i] = IF i <= Len(a) THEN a[i] ELSE ReadRecords[i - Len(a)]
        BY <1>2, <1>4, ConcatProperties
    <2> HIDE DEF ab
    <2>2. QED
        BY <1>2, <1>4, <2>1
<1> HIDE DEF ab
<1>7. /\ Len(UpdateOps) = 3 + NumRecords + 3
      /\ \A i \in 1 .. 3 + NumRecords + 3 :
             UpdateOps[i] = IF i <= 3 + NumRecords THEN ab[i] ELSE c[i - (3 + NumRecords)]
    <2>1. /\ Len(UpdateOps) = Len(ab) + Len(c)
          /\ \A i \in 1 .. Len(ab) + Len(c) :
                 UpdateOps[i] = IF i <= Len(ab) THEN ab[i] ELSE c[i - Len(ab)]
        BY <1>3, <1>5, <1>6, ConcatProperties
    <2>2. QED
        BY <1>3, <1>6, <2>1
<1>8. \A i \in 4 .. 3 + NumRecords : UpdateOps[i] = "ProgramHexRec"
    BY <1>1, <1>4, <1>6, <1>7
<1>9. UpdateOps[1] = "Enter" /\ UpdateOps[2] = "State" /\ UpdateOps[3] = "EraseAll"
    BY <1>1, <1>2, <1>6, <1>7
<1>10. /\ UpdateOps[4 + NumRecords] = "CRC" /\ UpdateOps[5 + NumRecords] = "ProgramResetAddr"
       /\ UpdateOps[6 + NumRecords] = "Reset"
    <2>1. ASSUME NEW k \in {1, 2, 3} PROVE UpdateOps[3 + NumRecords + k] = c[k]
        <3> DEFINE m == 3 + NumRecords
                   n == m + k
        <3>1. n \in 1 .. m + 3 /\ ~(n <= m) /\ n - m = k
            BY <1>1
        <3>2. \A i \in 1 .. m + 3 : UpdateOps[i] = IF i <= m THEN ab[i] ELSE c[i - m]
            BY <1>7
        <3> HIDE DEF m, n
        <3>3. UpdateOps[n] = c[n - m]
            BY <3>1, <3>2
        <3>4. UpdateOps[n] = c[k]
            BY <3>1, <3>3
        <3>5. QED
            BY <3>4 DEF m, n
    <2>2. /\ 3 + NumRecords + 1 = 4 + NumRecords /\ 3 + NumRecords + 2 = 5 + NumRecords
          /\ 3 + NumRecords + 3 = 6 + NumRecords
        BY <1>1
    <2>3. QED
        BY <1>3, <2>1, <2>2
<1>11. Len(UpdateOps) = 6 + NumRecords
    BY <1>1, <1>7
<1>12. QED
    BY <1>1, <1>8, <1>9, <1>10, <1>11

\* At which step each operation is.
LEMMA StepOf ==
    ASSUME NEW s \in 1 .. 6 + NumRecords
    PROVE  /\ UpdateOps[s] = "EraseAll" => s = 3
           /\ UpdateOps[s] = "ProgramHexRec" => s \in 4 .. 3 + NumRecords
           /\ UpdateOps[s] = "CRC" => s = 4 + NumRecords
           /\ UpdateOps[s] = "ProgramResetAddr" => s = 5 + NumRecords
<1>1. \/ s \in {1, 2, 3} \/ s \in 4 .. 3 + NumRecords
      \/ s = 4 + NumRecords \/ s = 5 + NumRecords \/ s = 6 + NumRecords
    BY UpdateOpsFacts
<1>2. QED
    BY <1>1, UpdateOpsFacts

\* What the update and the worker send.
LEMMA UpdateSends ==
    /\ UpdateCommand(1).op = UpdateOps[U.step]
    /\ UpdateOps[U.step] = "ProgramResetAddr" => UpdateCommand(1).img = U.loaded
BY DEF UpdateCommand, Cmd, U

LEMMA WorkerSends ==
    ASSUME Working(task, step), task # "none"
    PROVE  CommandOf(Worker).op \in {"State", "Version", "Reset", "Read", "Mode"}
<1>1. CommandOf(Worker).op = TaskOps(task)[step]
    BY DEF CommandOf, Cmd
<1>2. CASE task \in {"connect", "reconnect"} /\ step \in 1 .. 5
    <2>1. TaskOps(task) = <<"State", "Version", "Reset", "State", "Version">>
        BY <1>2 DEF TaskOps
    <2>2. step \in {1, 2, 3, 4, 5}
        BY <1>2
    <2>3. QED
        BY <1>1, <2>1, <2>2
<1>3. CASE task = "load" /\ step = 1
    BY <1>1, <1>3 DEF TaskOps
<1>4. CASE task = "check" /\ step \in 1 .. 2
    <2>1. TaskOps(task) = <<"State", "Mode">> /\ step \in {1, 2}
        BY <1>4 DEF TaskOps
    <2>2. QED
        BY <1>1, <2>1
<1>5. QED
    BY <1>2, <1>3, <1>4 DEF Working

\* The step of a running update is one of its program's.
LEMMA StepInRange ==
    ASSUME Depth = 1, Threads
    PROVE  /\ Updaters = {1} /\ Nobody = 2
           /\ U \in UpdateStates
           /\ U.step \in 0 .. 6 + NumRecords
           /\ U.phase = "running" => U.step \in 1 .. 6 + NumRecords
<1>1. Updaters = {1} /\ Nobody = 2
    BY DEF Updaters, Nobody
<1>2. U \in UpdateStates
    BY <1>1 DEF Threads, U
<1>3. U.step \in 0 .. 6 + NumRecords
    BY <1>2, UpdateOpsFacts DEF UpdateStates
<1>4. QED
    BY <1>1, <1>2, <1>3, UpdateOpsFacts DEF Threads

-------------------------------------------------------------------------------
(* Steps and the line: no case analysis on actions yet.                      *)

LineInv == OneFrame /\ Commands /\ Answers /\ Device /\ Progress

\* An update that has not asked for anything to be written, and did not succeed.
Harmless(u) == (u.phase = "running" => u.step = 1) /\ (u.phase = "over" => ~u.success)

\* Nothing is sent, received or carried out: at most the sender gives up, or
\* an update that does not wait for a response changes.
LEMMA QuietStep ==
    ASSUME Depth = 1, Threads, LineInv,
           UNCHANGED <<toDev, devVars>>, toHost' \in {toHost, <<>>},
           handling' \in {handling, Nobody},
           handling' = Worker => UNCHANGED <<task, step>>,
           \/ U' = U /\ (handling = 1 => handling' = 1)
           \/ /\ handling # 1
              /\ U'.phase = U.phase /\ U'.step = U.step
              /\ U'.loaded = U.loaded /\ U'.success = U.success
           \/ Harmless(U') /\ handling' # 1
    PROVE  LineInv'
<1>1. handling \in {0, 1, 2} /\ handling' \in {0, 1, 2} /\ Nobody = 2
      /\ NumRecords \in Nat
    BY UpdateOpsFacts DEF Threads, Worker, Nobody
<1>2. toDev' = toDev /\ mode' = mode /\ flash' = flash /\ resetAddr' = resetAddr
    BY DEF devVars
<1>3. \A image : Whole(image) <=> Whole(image)'
    BY <1>2 DEF Whole
<1>4. Critical' => Critical /\ (handling = 1 => handling' = 1)
    BY DEF Critical, Harmless
<1>5. handling' # Nobody => CommandOf(handling)' = CommandOf(handling)
    <2> SUFFICES ASSUME handling' # Nobody PROVE CommandOf(handling)' = CommandOf(handling)
        OBVIOUS
    <2>1. handling' = handling
        OBVIOUS
    <2>2. CASE handling = Worker
        BY <2>1, <2>2 DEF CommandOf
    <2>3. CASE handling = 1
        <3>1. update'[1] = update[1]
            BY <2>1, <2>3 DEF U
        <3>2. QED
            BY <2>1, <2>3, <3>1 DEF CommandOf, UpdateCommand, Worker
    <2>4. QED
        BY <1>1, <2>1, <2>2, <2>3 DEF Worker
<1>6. OneFrame'
    BY <1>2 DEF OneFrame, LineInv
<1>7. Commands'
    BY <1>1, <1>2, <1>3, <1>4, <1>5 DEF Commands, LineInv
<1>8. Answers'
    <2> SUFFICES ASSUME handling' = 1, toHost' # <<>>
                 PROVE  toHost' = toHost /\ handling = 1 /\ U' = U
        BY <1>2 DEF Answers, LineInv, Checksum
    <2>1. QED
        BY <1>1
<1>9. Device'
    BY <1>2, <1>3 DEF Device, LineInv
<1>10. Progress'
    <2>1. CASE U'.phase = U.phase /\ U'.step = U.step
               /\ U'.loaded = U.loaded /\ U'.success = U.success
        BY <1>2, <1>3, <2>1 DEF Progress, LineInv
    <2>2. CASE Harmless(U')
        BY <1>1, <2>2 DEF Progress, Harmless
    <2>3. QED
        BY <2>1, <2>2
<1>11. QED
    BY <1>6, <1>7, <1>8, <1>9, <1>10 DEF LineInv

\* A command is put on the line, or lost at once.
LEMMA TransmitStep ==
    ASSUME Depth = 1, ~LateReplies, Threads, LineInv,
           NEW r \in {Worker, 1}, handling' = r, Transmit(CommandOf(r)),
           UNCHANGED <<devVars, task, step, update>>,
           r = Worker => task # "none",
           r = 1 => U.phase = "running"
    PROVE  LineInv'
<1>1. toDev = <<>> /\ toHost' = <<>> /\ (toDev' = <<>> \/ toDev' = <<CommandOf(r)>>)
    <2>1. toDev = <<>> /\ toHost' = SubSeq(toHost, Len(toHost) + 1, Len(toHost))
          /\ (toDev' = toDev \/ toDev' = Append(toDev, CommandOf(r)))
        BY DEF Transmit
    <2>2. Append(<<>>, CommandOf(r)) = <<CommandOf(r)>>
        OBVIOUS
    <2>3. Len(toHost) \in Nat
        <3>1. toHost = <<>> \/ toHost = <<toHost[1]>>
            BY DEF LineInv, OneFrame
        <3>2. Len(<<>>) = 0 /\ Len(<<toHost[1]>>) = 1
            OBVIOUS
        <3>3. QED
            BY <3>1, <3>2
    <2>4. SubSeq(toHost, Len(toHost) + 1, Len(toHost)) = <<>>
        BY <2>3, SubSeqEmpty
    <2>5. QED
        BY <2>1, <2>2, <2>4
<1>2. mode' = mode /\ flash' = flash /\ resetAddr' = resetAddr /\ U' = U
    BY DEF devVars, U
<1>3. \A image : Whole(image) <=> Whole(image)'
    BY <1>2 DEF Whole
<1>4. Worker = 0 /\ Nobody = 2
    BY DEF Worker, Nobody
<1>5. CommandOf(handling)' = CommandOf(r)
    BY <1>4 DEF CommandOf, UpdateCommand
<1>6. CommandOf(r).op \in WriteOps => r = 1
    BY WorkerSends, <1>4 DEF Threads, WriteOps
<1>7. r = 1 => CommandOf(r) = UpdateCommand(1) /\ U.step \in 1 .. 6 + NumRecords
    BY <1>4, StepInRange DEF CommandOf
<1>8. CommandOf(r).op = "ProgramHexRec" => resetAddr = NoImage
    <2> SUFFICES ASSUME CommandOf(r).op = "ProgramHexRec" PROVE resetAddr = NoImage
        OBVIOUS
    <2>1. r = 1 /\ UpdateOps[U.step] = "ProgramHexRec"
        BY <1>6, <1>7, UpdateSends DEF WriteOps
    <2>2. U.step \in 4 .. 3 + NumRecords
        BY <1>7, <2>1, StepOf
    <2>3. U.step \in 4 .. 4 + NumRecords
        BY <2>2, UpdateOpsFacts
    <2>4. QED
        BY <2>1, <2>3 DEF LineInv, Progress
<1>9. CommandOf(r).op = "ProgramResetAddr" =>
          /\ CommandOf(r).img \in Images /\ Whole(CommandOf(r).img)
          /\ resetAddr \in {NoImage, CommandOf(r).img}
    <2> SUFFICES ASSUME CommandOf(r).op = "ProgramResetAddr"
                 PROVE  /\ CommandOf(r).img \in Images /\ Whole(CommandOf(r).img)
                        /\ resetAddr \in {NoImage, CommandOf(r).img}
        OBVIOUS
    <2>1. r = 1 /\ UpdateOps[U.step] = "ProgramResetAddr" /\ CommandOf(r).img = U.loaded
        BY <1>6, <1>7, UpdateSends DEF WriteOps
    <2>2. U.step = 5 + NumRecords
        BY <1>7, <2>1, StepOf
    <2>3. QED
        BY <2>1, <2>2 DEF LineInv, Progress, Threads
<1>10. OneFrame'
    <2>1. \A c : <<c>>[1] = c
        OBVIOUS
    <2>2. QED
        BY <1>1, <2>1 DEF OneFrame
<1>11. Commands'
    <2>1. toDev' # <<>> => toDev'[1] = CommandOf(r)
        BY <1>1
    <2>2. QED
        BY <1>2, <1>3, <1>5, <1>6, <1>8, <1>9, <2>1 DEF Commands
<1>12. Answers'
    BY <1>1 DEF Answers
<1>13. Device' /\ Progress'
    BY <1>2, <1>3 DEF Device, Progress, LineInv
<1>14. QED
    BY <1>10, <1>11, <1>12, <1>13 DEF LineInv

\* Frames are lost, or the cable is pulled.
LEMMA LossStep ==
    ASSUME Threads, LineInv,
           toDev' \in {toDev, <<>>}, toHost' \in {toHost, <<>>},
           UNCHANGED <<flash, resetAddr, handling, task, step, update>>,
           mode' \in {mode, BootMode(resetAddr)}
    PROVE  LineInv'
<1>1. flash' = flash /\ resetAddr' = resetAddr /\ U' = U
    BY DEF U
<1>2. \A image : Whole(image) <=> Whole(image)'
    BY <1>1 DEF Whole
<1>3. toDev' # <<>> => toDev' = toDev /\ CommandOf(handling)' = CommandOf(handling)
    BY DEF CommandOf, UpdateCommand
<1>4. OneFrame'
    BY DEF OneFrame, LineInv
<1>5. Commands'
    BY <1>1, <1>2, <1>3 DEF Commands, LineInv, Critical
<1>6. Answers'
    BY <1>1 DEF Answers, LineInv, Checksum
<1>7. Device'
    BY <1>1, <1>2 DEF Device, LineInv, BootMode
<1>8. Progress'
    BY <1>1, <1>2 DEF Progress, LineInv
<1>9. QED
    BY <1>4, <1>5, <1>6, <1>7, <1>8 DEF LineInv

\* What the device does with a command, and what it says of it.
Effect(cmd, reply) ==
    \/ /\ UNCHANGED <<flash, resetAddr>>
       /\ mode' \in {mode, "boot", BootMode(resetAddr)}
       /\ cmd.op = "EraseAll" \/ cmd.op = "ProgramResetAddr" => reply.type # "ACK"
       /\ cmd.op = "CRC" /\ reply.kind = "crc" => reply.val = Checksum
    \/ /\ cmd.op = "EraseAll" /\ mode' = "boot"
       /\ flash' = [i \in Records |-> NoImage] /\ resetAddr' = NoImage
    \/ /\ cmd.op = "ProgramHexRec" /\ mode' = "boot"
       /\ flash' = [flash EXCEPT ![cmd.rec] = Programmed(@, cmd.img)] /\ resetAddr' = resetAddr
    \/ /\ cmd.op = "ProgramResetAddr" /\ mode' = "boot"
       /\ flash' = flash /\ resetAddr' = Programmed(resetAddr, cmd.img)

LEMMA DeviceEffect ==
    ASSUME LineInv, DeviceExecutes
    PROVE  /\ toDev # <<>> /\ toDev' = <<>>
           /\ \E reply : toHost' = <<reply>> /\ Effect(toDev[1], reply)
           /\ UNCHANGED <<handling, task, step, update>>
<1>1. toDev = <<toDev[1]>> /\ toHost = <<>> /\ toDev # <<>>
    BY DEF DeviceExecutes, LineInv, OneFrame
<1>2. Head(toDev) = toDev[1] /\ Tail(toDev) = <<>>
    <2>1. \A c : Head(<<c>>) = c /\ Tail(<<c>>) = <<>>
        OBVIOUS
    <2>2. QED
        BY <1>1, <2>1, Zenon
<1>3. \A f : Append(toHost, f) = <<f>>
    BY <1>1
<1> DEFINE cmd == toDev[1]
<1>4. /\ UNCHANGED <<handling, task, step, update>>
      /\ \E reply : Answer(reply) /\ Effect(cmd, reply)
    <2>1. UNCHANGED <<handling, task, step, update>>
        BY DEF DeviceExecutes, workerVars, commVars
    <2>2. \/ cmd.op = "Enter" /\ mode' = "boot" /\ UNCHANGED <<flash, resetAddr>> /\ Answer(Ack)
          \/ cmd.op = "Reset" /\ mode' = BootMode(resetAddr)
             /\ UNCHANGED <<flash, resetAddr>> /\ Answer(Ack)
          \/ /\ cmd.op = "EraseAll" /\ mode = "boot"
             /\ flash' = [i \in Records |-> NoImage] /\ resetAddr' = NoImage
             /\ mode' = mode /\ Answer(Ack)
          \/ /\ cmd.op = "ProgramHexRec" /\ mode = "boot"
             /\ flash' = [flash EXCEPT ![cmd.rec] = Programmed(@, cmd.img)]
             /\ mode' = mode /\ resetAddr' = resetAddr /\ Answer(Ack)
          \/ /\ cmd.op = "ProgramResetAddr" /\ mode = "boot"
             /\ resetAddr' = Programmed(resetAddr, cmd.img)
             /\ mode' = mode /\ flash' = flash /\ Answer(Ack)
          \/ cmd.op = "CRC" /\ Answer(Data("crc", Checksum)) /\ UNCHANGED devVars
          \/ cmd.op = "State" /\ Answer(Data("state", Reported)) /\ UNCHANGED devVars
          \/ cmd.op = "Version" /\ Answer(Data("version", NoImage)) /\ UNCHANGED devVars
          \/ cmd.op \in {"Mode", "Read"} /\ Answer(Data("other", NoImage)) /\ UNCHANGED devVars
          \/ Answer(Nack) /\ UNCHANGED devVars
        BY <1>2 DEF DeviceExecutes
    <2>3. QED
        BY <2>1, <2>2 DEF Effect, devVars, Data, Ack, Nack
<1>5. QED
    BY <1>1, <1>2, <1>3, <1>4 DEF Answer

LEMMA DeviceStep ==
    ASSUME Depth = 1, Threads, LineInv, DeviceExecutes
    PROVE  LineInv'
<1> DEFINE cmd == toDev[1]
<1>1. /\ toDev # <<>> /\ toDev' = <<>> /\ UNCHANGED <<handling, task, step, update>>
      /\ \E r : toHost' = <<r>> /\ Effect(cmd, r)
    BY DeviceEffect
<1>2. PICK reply : toHost' = <<reply>> /\ Effect(cmd, reply)
    BY <1>1
<1>3. U' = U /\ Worker = 0 /\ Nobody = 2 /\ handling' = handling
      /\ U.step \in 0 .. 6 + NumRecords
      /\ (U.phase = "running" => U.step \in 1 .. 6 + NumRecords)
    BY <1>1, StepInRange DEF U, Worker, Nobody
<1>4. /\ cmd.op = "ProgramHexRec" => resetAddr = NoImage
      /\ cmd.op = "ProgramResetAddr" =>
            cmd.img \in Images /\ Whole(cmd.img) /\ resetAddr \in {NoImage, cmd.img}
    BY <1>1 DEF LineInv, Commands
\* If the command writes and something depends on it, it is the update's.
<1>5. handling = 1 \/ (cmd.op \in WriteOps /\ Critical) =>
          /\ handling = 1 /\ U.phase = "running"
          /\ cmd.op = UpdateOps[U.step]
          /\ cmd.op = "ProgramResetAddr" => cmd.img = U.loaded
    <2>1. handling = 1 => cmd = UpdateCommand(1) /\ U.phase = "running"
        BY <1>1, <1>3 DEF LineInv, Commands, CommandOf, Threads
    <2>2. cmd.op \in WriteOps /\ Critical => handling = 1
        BY <1>1 DEF LineInv, Commands
    <2>3. QED
        BY <2>1, <2>2, UpdateSends
<1>6. CASE /\ UNCHANGED <<flash, resetAddr>> /\ mode' \in {mode, "boot", BootMode(resetAddr)}
           /\ cmd.op = "EraseAll" \/ cmd.op = "ProgramResetAddr" => reply.type # "ACK"
           /\ cmd.op = "CRC" /\ reply.kind = "crc" => reply.val = Checksum
    <2>1. \A image : Whole(image) <=> Whole(image)'
        BY <1>6 DEF Whole
    <2>2. Answers'
        BY <1>2, <1>3, <1>5, <1>6 DEF Answers, Checksum
    <2>3. Device'
        BY <1>6, <2>1 DEF LineInv, Device, BootMode
    <2>4. Progress'
        BY <1>3, <1>6, <2>1 DEF LineInv, Progress
    <2>5. QED
        BY <1>1, <1>2, <2>2, <2>3, <2>4 DEF LineInv, OneFrame, Commands
<1>7. CASE /\ cmd.op = "EraseAll" /\ mode' = "boot"
           /\ flash' = [i \in Records |-> NoImage] /\ resetAddr' = NoImage
    <2>1. Critical => U.phase = "running" /\ U.step = 3
        BY <1>3, <1>5, <1>7, StepOf DEF WriteOps
    <2>2. ~Critical
        BY <1>3, <2>1, UpdateOpsFacts DEF Critical
    <2>3. Answers'
        <3>1. handling = 1 => UpdateOps[U.step] = "EraseAll"
            BY <1>5, <1>7
        <3>2. QED
            BY <1>3, <1>7, <3>1 DEF Answers
    <2>4. Device'
        BY <1>7 DEF Device
    <2>5. Progress'
        BY <1>3, <2>2, UpdateOpsFacts DEF Progress, Critical
    <2>6. QED
        BY <1>1, <1>2, <2>3, <2>4, <2>5 DEF LineInv, OneFrame, Commands
<1>8. CASE /\ cmd.op = "ProgramHexRec" /\ mode' = "boot" /\ resetAddr' = resetAddr
           /\ flash' = [flash EXCEPT ![cmd.rec] = Programmed(@, cmd.img)]
    <2>1. Critical => U.phase = "running" /\ U.step \in 4 .. 3 + NumRecords
        BY <1>3, <1>5, <1>8, StepOf DEF WriteOps
    <2>2. Answers'
        <3>1. handling = 1 => UpdateOps[U.step] = "ProgramHexRec"
            BY <1>5, <1>8
        <3>2. QED
            BY <1>3, <3>1 DEF Answers
    <2>3. Device'
        <3>1. DOMAIN flash' = Records
            BY <1>8 DEF LineInv, Device
        <3>2. QED
            BY <1>4, <1>8, <3>1 DEF Device
    <2>4. Progress'
        <3>1. resetAddr' = NoImage
            BY <1>4, <1>8
        <3>2. ~(U.phase = "over" /\ U.success)
              /\ (U.phase = "running" => U.step < 5 + NumRecords)
            BY <1>3, <2>1, UpdateOpsFacts DEF Critical
        <3>3. QED
            BY <1>3, <3>1, <3>2, UpdateOpsFacts DEF Progress
    <2>5. QED
        BY <1>1, <1>2, <2>2, <2>3, <2>4 DEF LineInv, OneFrame, Commands
<1>9. CASE /\ cmd.op = "ProgramResetAddr" /\ mode' = "boot" /\ flash' = flash
           /\ resetAddr' = Programmed(resetAddr, cmd.img)
    <2>1. resetAddr' = cmd.img /\ cmd.img \in Images /\ Whole(cmd.img)
        BY <1>4, <1>9 DEF Programmed
    <2>2. \A image : Whole(image) <=> Whole(image)'
        BY <1>9 DEF Whole
    <2>3. Critical => /\ U.phase = "running" /\ U.step = 5 + NumRecords
                      /\ cmd.img = U.loaded
        BY <1>3, <1>5, <1>9, StepOf DEF WriteOps
    <2>4. Answers'
        <3>1. handling = 1 => UpdateOps[U.step] = "ProgramResetAddr" /\ cmd.img = U.loaded
            BY <1>5, <1>9
        <3>2. QED
            BY <1>3, <2>1, <3>1 DEF Answers
    <2>5. Device'
        BY <1>9, <2>1, <2>2 DEF LineInv, Device
    <2>6. Progress'
        <3>1. CASE Critical
            BY <1>3, <2>1, <2>2, <2>3, <3>1, UpdateOpsFacts DEF Progress
        <3>2. CASE ~Critical
            BY <1>3, <3>2, UpdateOpsFacts DEF Progress, Critical
        <3>3. QED
            BY <3>1, <3>2
    <2>7. QED
        BY <1>1, <1>2, <2>4, <2>5, <2>6 DEF LineInv, OneFrame, Commands
<1>10. QED
    BY <1>2, <1>6, <1>7, <1>8, <1>9 DEF Effect

\* The records of an update after a response.
LEMMA UpdateRecords ==
    ASSUME NEW u \in UpdateStates, NEW v
    PROVE  /\ v = [u EXCEPT !.phase = "over"] =>
                  /\ v \in UpdateStates /\ v.phase = "over" /\ v.step = u.step
                  /\ v.loaded = u.loaded /\ v.success = u.success
           /\ v = [u EXCEPT !.phase = "over", !.success = TRUE] =>
                  /\ v \in UpdateStates /\ v.phase = "over" /\ v.step = u.step
                  /\ v.loaded = u.loaded /\ v.success = TRUE
           /\ v = [u EXCEPT !.step = @ + 1] /\ u.step < 6 + NumRecords =>
                  /\ v \in UpdateStates /\ v.phase = u.phase /\ v.step = u.step + 1
                  /\ v.loaded = u.loaded /\ v.success = u.success
<1>1. u.step \in 0 .. 6 + NumRecords /\ NumRecords \in Nat
    BY UpdateOpsFacts DEF UpdateStates
<1>2. u.step < 6 + NumRecords => u.step + 1 \in 0 .. Len(UpdateOps)
    BY <1>1, UpdateOpsFacts
<1>3. QED
    BY <1>2 DEF UpdateStates

\* The update gets a response: that it is what the update needs to go on says
\* that the device has done, or holds, what the update asked for.
LEMMA ReceiveStep ==
    ASSUME Depth = 1, Threads, LineInv, handling = 1, handling' = Nobody,
           toHost' \in {toHost, <<>>}, UNCHANGED <<toDev, devVars, disk, tasks, task, step>>,
           NEW f, f = NoReply \/ (toHost # <<>> /\ toHost' = <<>> /\ f = toHost[1]),
           UpdateGets(1, f)
    PROVE  LineInv' /\ Threads' /\ U'.phase # "idle"
<1> DEFINE op == UpdateOps[U.step]
<1>1. /\ Updaters = {1} /\ Nobody = 2 /\ U \in UpdateStates /\ U.phase = "running"
      /\ U.step \in 1 .. 6 + NumRecords /\ U.loaded \in Images /\ ~U.success
      /\ update \in [Updaters -> UpdateStates]
      /\ NumRecords \in Nat
    BY StepInRange, UpdateOpsFacts DEF Threads
<1>2. toDev' = toDev /\ mode' = mode /\ flash' = flash /\ resetAddr' = resetAddr
    BY DEF devVars
<1>3. \A image : Whole(image) <=> Whole(image)'
    BY <1>2 DEF Whole
<1>4. \/ Satisfied(1, f) /\ U.step < 6 + NumRecords /\ U' = [U EXCEPT !.step = @ + 1]
      \/ /\ Satisfied(1, f) /\ U.step = 6 + NumRecords
         /\ U' = [U EXCEPT !.phase = "over", !.success = TRUE]
      \/ U' = [U EXCEPT !.phase = "over"]
    <2>1. \A v : [update EXCEPT ![1] = v][1] = v
        BY <1>1
    <2>2. \/ /\ Satisfied(1, f) /\ U.step < 6 + NumRecords
             /\ update' = [update EXCEPT ![1] = [U EXCEPT !.step = @ + 1]]
          \/ /\ Satisfied(1, f) /\ U.step = 6 + NumRecords
             /\ update' = [update EXCEPT ![1] = [U EXCEPT !.phase = "over", !.success = TRUE]]
          \/ update' = [update EXCEPT ![1] = [U EXCEPT !.phase = "over"]]
        BY <1>1, UpdateOpsFacts DEF UpdateGets, U
    <2>3. QED
        BY <2>1, <2>2 DEF U
\* One of three: the next step, the end, or an exception.
<1>5. \/ /\ Satisfied(1, f) /\ U'.phase = "running" /\ U'.step = U.step + 1
         /\ U'.loaded = U.loaded /\ ~U'.success
      \/ /\ Satisfied(1, f) /\ U.step = 6 + NumRecords /\ U'.phase = "over"
         /\ U'.loaded = U.loaded
      \/ U'.phase = "over" /\ ~U'.success
    <2>1. CASE Satisfied(1, f) /\ U.step < 6 + NumRecords /\ U' = [U EXCEPT !.step = @ + 1]
        <3>1. U'.phase = U.phase /\ U'.step = U.step + 1 /\ U'.loaded = U.loaded
              /\ U'.success = U.success
            BY <1>1, <2>1, UpdateRecords
        <3>2. QED
            BY <1>1, <2>1, <3>1, Zenon
    <2>2. CASE /\ Satisfied(1, f) /\ U.step = 6 + NumRecords
               /\ U' = [U EXCEPT !.phase = "over", !.success = TRUE]
        BY <1>1, <2>2, UpdateRecords
    <2>3. CASE U' = [U EXCEPT !.phase = "over"]
        <3>1. U'.phase = "over" /\ U'.success = U.success
            BY <1>1, <2>3, UpdateRecords
        <3>2. QED
            BY <1>1, <3>1, Zenon
    <2>4. QED
        BY <1>4, <2>1, <2>2, <2>3
<1>6. U' \in UpdateStates
    BY <1>1, <1>4, UpdateRecords
<1>7. Threads'
    <2>1. update' \in [Updaters -> UpdateStates]
        BY <1>1, <1>6 DEF UpdateGets, U
    <2>2. U'.phase = "running" => U'.step >= 1 /\ U'.loaded \in Images /\ ~U'.success
        BY <1>1, <1>5
    <2>3. Working(task, step)'
        BY DEF Threads, Working
    <2>4. handling' = 2 /\ Worker = 0
        BY <1>1 DEF Worker
    <2>5. QED
        BY <1>1, <2>1, <2>2, <2>3, <2>4 DEF Threads
<1>8. CASE U'.phase = "over" /\ ~U'.success
    <2>1. Harmless(U') /\ handling' # 1 /\ handling' # Worker
        BY <1>1, <1>8 DEF Harmless, Worker
    <2>2. LineInv'
        BY <2>1, QuietStep
    <2>3. QED
        BY <1>7, <1>8, <2>2
<1>9. CASE Satisfied(1, f)
           /\ \/ U'.phase = "running" /\ U'.step = U.step + 1 /\ U'.loaded = U.loaded
              \/ U.step = 6 + NumRecords /\ U'.phase = "over" /\ U'.loaded = U.loaded
    <2>1. /\ f.type = Expected(op)
          /\ op = "CRC" => f.kind = "crc" /\ f.val = U.loaded
        BY <1>9 DEF Satisfied, U
    <2>2. f # NoReply
        BY <2>1 DEF NoReply, Expected
    <2>3. toHost # <<>> /\ toHost' = <<>> /\ f = toHost[1] /\ toDev = <<>>
        BY <2>2 DEF LineInv, OneFrame
    <2>4. /\ op = "EraseAll" => resetAddr = NoImage
          /\ op = "CRC" => Checksum = U.loaded
          /\ op = "ProgramResetAddr" => resetAddr = U.loaded
        BY <2>1, <2>3 DEF LineInv, Answers, Expected, DataOps
    <2>5. U.step = 3 => resetAddr = NoImage
        BY <2>4, UpdateOpsFacts
    <2>6. U.step \in 4 .. 4 + NumRecords => resetAddr = NoImage
        BY <1>1 DEF LineInv, Progress
    <2>7. U.step = 4 + NumRecords => Whole(U.loaded) /\ resetAddr = NoImage
        <3> SUFFICES ASSUME U.step = 4 + NumRecords PROVE Whole(U.loaded) /\ resetAddr = NoImage
            OBVIOUS
        <3>1. Checksum = U.loaded
            BY <2>4, UpdateOpsFacts
        <3>2. U.loaded # "mixed"
            BY <1>1, FirmwareUpdateAssumption
        <3>3. \A i \in Records : flash[i] = U.loaded
            BY <3>1, <3>2 DEF Checksum
        <3>4. QED
            BY <1>1, <2>6, <3>3 DEF Whole
    <2>8. U.step = 5 + NumRecords => Whole(U.loaded) /\ resetAddr = U.loaded
        BY <1>1, <2>4, UpdateOpsFacts DEF LineInv, Progress
    <2>9. U.step = 6 + NumRecords => Whole(U.loaded) /\ resetAddr = U.loaded
        BY <1>1 DEF LineInv, Progress
    <2>10. Progress'
        <3>1. CASE U'.phase = "running" /\ U'.step = U.step + 1 /\ U'.loaded = U.loaded
            <4>1. U'.step \in 4 .. 4 + NumRecords => U.step = 3 \/ U.step \in 4 .. 4 + NumRecords
                BY <1>1, <3>1
            <4>2. U'.step = 5 + NumRecords => U.step = 4 + NumRecords
                BY <1>1, <3>1
            <4>3. U'.step = 6 + NumRecords => U.step = 5 + NumRecords
                BY <1>1, <3>1
            <4>4. QED
                BY <1>2, <1>3, <2>5, <2>6, <2>7, <2>8, <3>1, <4>1, <4>2, <4>3 DEF Progress
        <3>2. CASE U.step = 6 + NumRecords /\ U'.phase = "over" /\ U'.loaded = U.loaded
            BY <1>2, <1>3, <2>9, <3>2 DEF Progress
        <3>3. QED
            BY <1>9, <3>1, <3>2
    <2>11. OneFrame' /\ Commands' /\ Answers' /\ Device'
        BY <1>2, <1>3, <2>3 DEF LineInv, OneFrame, Commands, Answers, Device
    <2>12. QED
        BY <1>7, <1>9, <2>10, <2>11 DEF LineInv
<1>10. QED
    BY <1>5, <1>8, <1>9

\* An update that gets no answer is over.
LEMMA NoAnswerStep ==
    ASSUME Depth = 1, Threads, LineInv, U.phase = "running",
           handling' \in {handling, Nobody}, handling' # 1,
           toHost' \in {toHost, <<>>},
           UNCHANGED <<toDev, devVars, disk, tasks, task, step>>, UpdateGets(1, NoReply)
    PROVE  LineInv' /\ Threads' /\ U'.phase # "idle"
<1>1. /\ Updaters = {1} /\ U \in UpdateStates /\ ~U.success
      /\ update \in [Updaters -> UpdateStates]
    BY StepInRange DEF Threads
<1>2. ~Satisfied(1, NoReply)
    BY DEF Satisfied, Expected, NoReply
<1>3. update' = [update EXCEPT ![1] = [U EXCEPT !.phase = "over"]]
    BY <1>2 DEF UpdateGets, U
<1>4. U' = [U EXCEPT !.phase = "over"]
    BY <1>1, <1>3 DEF U
<1>5. U' \in UpdateStates /\ U'.phase = "over" /\ U'.success = U.success
    BY <1>1, <1>4, UpdateRecords
<1>6. Threads'
    <2>1. update' \in [Updaters -> UpdateStates]
        BY <1>1, <1>3, <1>4, <1>5
    <2>2. Working(task, step)'
        BY DEF Threads, Working
    <2>3. handling' = Worker => task' # "none"
        BY DEF Threads, Worker, Nobody
    <2>4. QED
        BY <1>5, <2>1, <2>2, <2>3 DEF Threads, Nobody
<1>7. Harmless(U')
    BY <1>1, <1>5, Zenon DEF Harmless
<1>8. handling' = Worker => UNCHANGED <<task, step>>
    OBVIOUS
<1>9. LineInv'
    BY <1>7, <1>8, QuietStep
<1>10. QED
    BY <1>5, <1>6, <1>9

\* The worker's tasks stay within their programs.
LEMMA WorkerGoes ==
    ASSUME Working(task, step), task # "none", NEW f, WorkerGets(f)
    PROVE  Working(task', step') /\ update' = update
<1>1. CASE task = "check"
    BY <1>1 DEF WorkerGets, CheckGets, Goes, EndsQuietly, Working
<1>2. CASE task = "load"
    BY <1>2 DEF WorkerGets, LoadGets, Posts, Working
<1>3. CASE task \in {"connect", "reconnect"}
    <2>1. ConnectGets(f) /\ update' = update /\ step \in {1, 2, 3, 4, 5}
        BY <1>3 DEF WorkerGets, Working
    <2>2. \/ task' = "none"
          \/ task' = task /\ step \in {1, 2, 3, 4} /\ step' = step + 1
        <3>1. CASE step \in {1, 4} /\ f.type = "Data"
            BY <2>1, <3>1 DEF ConnectGets, Goes, Posts
        <3>2. CASE step = 2 /\ ~(step \in {1, 4} /\ f.type = "Data")
            BY <2>1, <3>2 DEF ConnectGets, Goes, Posts
        <3>3. CASE step = 3
            BY <2>1, <3>3 DEF ConnectGets, Goes, Posts
        <3>4. CASE step = 5 \/ (step \in {1, 4} /\ f.type # "Data")
            BY <2>1, <3>4 DEF ConnectGets, Goes, Posts
        <3>5. QED
            BY <2>1, <3>1, <3>2, <3>3, <3>4
    <2>3. QED
        BY <1>3, <2>1, <2>2 DEF Working
<1>4. QED
    BY <1>1, <1>2, <1>3 DEF Working

LEMMA WorkerStep ==
    ASSUME Depth = 1, Threads, LineInv, task # "none", NEW f, WorkerGets(f),
           handling' \in {handling, Nobody}, handling' # Worker,
           handling = 1 => handling' = 1,
           toHost' \in {toHost, <<>>}, UNCHANGED <<toDev, devVars, disk, tasks>>
    PROVE  LineInv' /\ Threads' /\ U' = U
<1>1. Working(task', step') /\ update' = update
    BY WorkerGoes DEF Threads
<1>2. U' = U
    BY <1>1 DEF U
<1>3. LineInv'
    BY <1>2, QuietStep
<1>4. Threads'
    <2>1. Working(task, step)' /\ AtProgram(1)' = AtProgram(1)
        BY <1>1 DEF Working, AtProgram
    <2>2. handling' = 1 => handling = 1
        BY DEF Nobody
    <2>3. QED
        BY <1>1, <1>2, <2>1, <2>2 DEF Threads
<1>5. QED
    BY <1>2, <1>3, <1>4

-------------------------------------------------------------------------------
(* Windows.                                                                  *)

LEMMA SubSeqOfBoxes ==
    ASSUME NEW S, NEW s \in Seq(S), Len(s) >= 1
    PROVE  /\ SubSeq(s, 1, Len(s) - 1) \in Seq(S)
           /\ DOMAIN SubSeq(s, 1, Len(s) - 1) = 1 .. Len(s) - 1
           /\ \A i \in 1 .. Len(s) - 1 : SubSeq(s, 1, Len(s) - 1)[i] = s[i]
OBVIOUS

LEMMA SameWindows ==
    ASSUME Windows, modals' = modals, U'.phase # "idle" => U.phase # "idle"
    PROVE  Windows'
BY DEF Windows

\* Another box on top, or the top one closed: the dialog below stays.
LEMMA BoxWindows ==
    ASSUME Windows, U' = U,
           \/ \E w \in Boxes : modals' = Append(modals, w)
           \/ modals # <<>> /\ Top # "update" /\ modals' = Below
    PROVE  Windows'
<1>1. modals \in Seq({"error", "noFirmware", "required", "update"}) /\ Len(modals) \in Nat
      /\ DOMAIN modals = 1 .. Len(modals)
    BY DEF Windows
<1>2. CASE \E w \in Boxes : modals' = Append(modals, w)
    <2>1. PICK w \in Boxes : modals' = Append(modals, w)
        BY <1>2
    <2>2. /\ modals' \in Seq({"error", "noFirmware", "required", "update"})
          /\ DOMAIN modals' = 1 .. Len(modals) + 1
          /\ \A i \in 1 .. Len(modals) : modals'[i] = modals[i]
          /\ modals'[Len(modals) + 1] = w
        BY <1>1, <2>1 DEF Boxes
    <2>3. \A i \in DOMAIN modals' : modals'[i] = "update" =>
              i \in DOMAIN modals /\ modals[i] = "update"
        BY <1>1, <2>1, <2>2 DEF Boxes
    <2>4. \A i \in DOMAIN modals : i \in DOMAIN modals' /\ modals'[i] = modals[i]
        BY <1>1, <2>2
    <2>5. QED
        BY <2>2, <2>3, <2>4 DEF Windows
<1>3. CASE modals # <<>> /\ Top # "update" /\ modals' = Below
    <2>1. Len(modals) >= 1 /\ modals # <<>> /\ modals' = SubSeq(modals, 1, Len(modals) - 1)
        <3>1. Len(modals) \in Nat \ {0}
            BY <1>1, <1>3, EmptySeq
        <3>2. QED
            BY <1>3, <3>1 DEF Below
    <2>2. /\ modals' \in Seq({"error", "noFirmware", "required", "update"})
          /\ DOMAIN modals' = 1 .. Len(modals) - 1
          /\ \A i \in 1 .. Len(modals) - 1 : modals'[i] = modals[i]
        BY <1>1, <2>1, SubSeqOfBoxes
    <2>3. \A i \in DOMAIN modals : modals[i] = "update" => i \in 1 .. Len(modals) - 1
        <3>1. modals[Len(modals)] # "update"
            BY <1>3 DEF Top
        <3>2. \A n \in Nat : \A i \in 1 .. n : i # n => i \in 1 .. n - 1
            OBVIOUS
        <3>3. QED
            BY <1>1, <3>1, <3>2
    <2>4. \A i \in 1 .. Len(modals) - 1 : i \in DOMAIN modals
        BY <1>1
    <2>5. QED
        BY <2>2, <2>3, <2>4 DEF Windows
<1>4. QED
    BY <1>2, <1>3

\* The dialog on top is the only one; closing it leaves none.
LEMMA TopDialog ==
    ASSUME Windows, modals # <<>>, Top = "update"
    PROVE  /\ Innermost = 1
           /\ modals' = Below /\ U'.phase = "idle" => Windows'
<1>1. modals \in Seq({"error", "noFirmware", "required", "update"}) /\ Len(modals) \in Nat
      /\ DOMAIN modals = 1 .. Len(modals) /\ Len(modals) >= 1
    BY DEF Windows
<1>2. modals[Len(modals)] = "update" /\ Len(modals) \in DOMAIN modals
    BY <1>1 DEF Top
<1>3. OpenDialogs = {Len(modals)}
    BY <1>2 DEF OpenDialogs, Windows
<1>4. Innermost = 1
    BY <1>3, FS_Singleton DEF Innermost
<1>5. ASSUME modals' = Below, U'.phase = "idle" PROVE Windows'
    <2>1. /\ modals' \in Seq({"error", "noFirmware", "required", "update"})
          /\ DOMAIN modals' = 1 .. Len(modals) - 1
          /\ \A i \in 1 .. Len(modals) - 1 : modals'[i] = modals[i]
        BY <1>1, <1>5 DEF Below
    <2>2. \A i \in DOMAIN modals' : i \in DOMAIN modals /\ modals'[i] = modals[i]
        BY <1>1, <2>1
    <2>3. QED
        BY <1>5, <2>1, <2>2 DEF Windows
<1>6. QED
    BY <1>4, <1>5

\* A dialog is opened only when there is none.
LEMMA DialogOpens ==
    ASSUME Depth = 1, Windows, Threads,
           NEW windows, windows \in {<<>>, Below}, OpenDialog(windows),
           windows = <<>> \/ modals # <<>>
    PROVE  /\ Windows' /\ U.phase = "idle"
           /\ update' \in [Updaters -> UpdateStates]
           /\ U'.phase \in {"frozen", "choosing"}
<1>1. modals \in Seq({"error", "noFirmware", "required", "update"}) /\ Len(modals) \in Nat
      /\ DOMAIN modals = 1 .. Len(modals) /\ Updaters = {1}
    BY StepInRange DEF Windows
<1>2. OpenDialogs = {} /\ Innermost = 0
    <2>1. IsFiniteSet(OpenDialogs)
        <3>1. IsFiniteSet(1 .. Len(modals))
            BY <1>1, FS_Interval
        <3>2. QED
            BY <1>1, <3>1, FS_Subset DEF OpenDialogs
    <2>2. Innermost \in Nat /\ Innermost + 1 = 1
        BY <1>1, <2>1, FS_CardinalityType DEF Innermost, OpenDialog
    <2>3. Innermost = 0
        BY <2>2
    <2>4. QED
        BY <2>1, <2>3, FS_EmptySet DEF Innermost
<1>3. \A i \in DOMAIN modals : modals[i] # "update"
    BY <1>2 DEF OpenDialogs
<1>4. U.phase = "idle"
    BY <1>3 DEF Windows
<1>5. /\ modals' = Append(windows, "update")
      /\ update' = [update EXCEPT ![1] = [NoUpdate EXCEPT !.phase =
                      IF lastPath /\ disk = NoImage THEN "frozen" ELSE "choosing"]]
    BY <1>2 DEF OpenDialog
<1>6. /\ windows \in Seq({"error", "noFirmware", "required", "update"}) /\ Len(windows) \in Nat
      /\ \A i \in 1 .. Len(windows) : windows[i] # "update"
    <2>1. CASE windows = <<>>
        BY <2>1
    <2>2. CASE windows = SubSeq(modals, 1, Len(modals) - 1) /\ modals # <<>>
        <3>1. /\ windows \in Seq({"error", "noFirmware", "required", "update"})
              /\ Len(windows) = Len(modals) - 1
              /\ \A i \in 1 .. Len(modals) - 1 : windows[i] = modals[i]
            BY <1>1, <2>2
        <3>2. QED
            BY <1>1, <1>3, <2>2, <3>1
    <2>3. QED
        BY <2>1, <2>2 DEF Below
<1>7. /\ modals' \in Seq({"error", "noFirmware", "required", "update"})
      /\ DOMAIN modals' = 1 .. Len(windows) + 1
      /\ \A i \in 1 .. Len(windows) : modals'[i] = windows[i]
      /\ modals'[Len(windows) + 1] = "update"
    BY <1>5, <1>6
<1>8. Windows'
    <2>1. \A i \in DOMAIN modals' : modals'[i] = "update" => i = Len(windows) + 1
        BY <1>6, <1>7
    <2>2. Len(windows) + 1 \in DOMAIN modals'
        BY <1>6, <1>7
    <2>3. QED
        BY <1>7, <2>1, <2>2 DEF Windows
<1>9. /\ update' \in [Updaters -> UpdateStates]
      /\ U'.phase \in {"frozen", "choosing"}
    <2> DEFINE p == IF lastPath /\ disk = NoImage THEN "frozen" ELSE "choosing"
               new == [NoUpdate EXCEPT !.phase = p]
    <2>0. p \in {"frozen", "choosing"}
        OBVIOUS
    <2> HIDE DEF p
    <2>1. new \in UpdateStates /\ new.phase \in {"frozen", "choosing"}
        <3>1. 0 \in 0 .. Len(UpdateOps)
            BY UpdateOpsFacts
        <3>2. QED
            BY <2>0, <3>1 DEF NoUpdate, UpdateStates
    <2> HIDE DEF new
    <2>2. update \in [Updaters -> UpdateStates] /\ update' = [update EXCEPT ![1] = new]
        BY <1>5 DEF Threads, new, p
    <2>3. QED
        BY <1>1, <2>1, <2>2 DEF U
<1>10. QED
    BY <1>4, <1>8, <1>9

-------------------------------------------------------------------------------
(* The actions.                                                              *)

FirmwareLine == <<toDev, toHost, devVars, handling, task, step>>

\* Threads is kept when the worker and the update are left alone.
LEMMA SameThreads ==
    ASSUME Threads, UNCHANGED <<update, handling, task, step>>,
           disk' \in Images \cup {NoImage},
           tasks' = tasks \/ \E t \in Tasks : tasks' = Append(tasks, t)
    PROVE  Threads'
<1>1. tasks' \in Seq(Tasks)
    BY DEF Threads
<1>2. Working(task, step)' /\ AtProgram(1)' = AtProgram(1) /\ U' = U
    BY DEF Threads, Working, AtProgram, U
<1>3. QED
    BY <1>1, <1>2 DEF Threads

\* Buttons, boxes, timers and the file system: the update is not concerned.
LEMMA DeskStep ==
    ASSUME Depth = 1, FirmwareInv, UNCHANGED <<update, FirmwareLine>>,
           disk' \in Images \cup {NoImage},
           tasks' = tasks \/ \E t \in Tasks : tasks' = Append(tasks, t),
           \/ modals' = modals
           \/ \E w \in Boxes : modals' = Append(modals, w)
           \/ modals # <<>> /\ Top # "update" /\ modals' = Below
    PROVE  FirmwareInv'
<1>1. U' = U
    BY DEF U
<1>2. Windows'
    BY <1>1, SameWindows, BoxWindows DEF FirmwareInv
<1>3. UNCHANGED <<toDev, toHost, devVars, handling, task, step>>
    BY DEF FirmwareLine
<1>4. Threads'
    BY <1>3, SameThreads DEF FirmwareInv
<1>5. Threads /\ LineInv
    BY DEF FirmwareInv, LineInv
<1>6. LineInv'
    BY <1>1, <1>3, <1>5, QuietStep
<1>7. QED
    BY <1>2, <1>4, <1>6 DEF FirmwareInv, LineInv

\* The dialog goes from phase to phase, while its update does not run.
LEMMA DialogStep ==
    ASSUME Depth = 1, FirmwareInv, UNCHANGED <<FirmwareLine, disk>>, Windows',
           U.phase # "running", update' \in [Updaters -> UpdateStates], Harmless(U'),
           U'.phase = "running" => U'.loaded \in Images /\ ~U'.success,
           tasks' = tasks \/ \E t \in Tasks : tasks' = Append(tasks, t)
    PROVE  FirmwareInv'
<1>1. UNCHANGED <<toDev, toHost, devVars, handling, task, step>>
    BY DEF FirmwareLine
<1>2. Threads /\ LineInv /\ handling # 1
    BY DEF FirmwareInv, LineInv, Threads
<1>3. LineInv'
    BY <1>1, <1>2, QuietStep
<1>4. Threads'
    <2>1. tasks' \in Seq(Tasks)
        BY <1>2 DEF Threads
    <2>2. Working(task, step)'
        BY <1>1, <1>2 DEF Threads, Working
    <2>3. U'.phase = "running" => U'.step >= 1
        BY DEF Harmless
    <2>4. QED
        BY <1>1, <1>2, <2>1, <2>2, <2>3 DEF Threads
<1>5. QED
    BY <1>3, <1>4 DEF FirmwareInv, LineInv

LEMMA UserStep == ASSUME Depth = 1, FirmwareInv, User PROVE FirmwareInv'
<1>1. disk \in Images \cup {NoImage}
    BY DEF FirmwareInv, Threads
<1>2. CASE DeviceConnect
    <2>1. UNCHANGED <<update, FirmwareLine>> /\ disk' = disk /\ modals' = modals
          /\ tasks' = Append(tasks, "connect")
        BY <1>2 DEF DeviceConnect, FirmwareLine, workerVars, lineVars
    <2>2. "connect" \in Tasks
        BY DEF Tasks
    <2>3. QED
        BY <1>1, <2>1, <2>2, DeskStep
<1>3. CASE DeviceConnectFails
    <2>1. UNCHANGED <<update, FirmwareLine>> /\ disk' = disk /\ tasks' = tasks
          /\ modals = <<>> /\ modals' = <<"error">>
        BY <1>3 DEF DeviceConnectFails, FirmwareLine, workerVars, lineVars
    <2>2. modals' = Append(modals, "error") /\ "error" \in Boxes
        BY <2>1 DEF Boxes
    <2>3. QED
        BY <1>1, <2>1, <2>2, DeskStep
<1>4. CASE PressUpdate
    <2>1. OpenDialog(<<>>) /\ UNCHANGED <<FirmwareLine, disk>> /\ tasks' = tasks
        BY <1>4 DEF PressUpdate, FirmwareLine, workerVars, lineVars, commVars
    <2>2. /\ Windows' /\ U.phase = "idle" /\ update' \in [Updaters -> UpdateStates]
          /\ U'.phase \in {"frozen", "choosing"}
        BY <2>1, DialogOpens DEF FirmwareInv
    <2>3. Harmless(U')
        BY <2>2 DEF Harmless
    <2>4. QED
        BY <2>1, <2>2, <2>3, DialogStep
<1>5. QED
    BY <1>2, <1>3, <1>4 DEF User

LEMMA DialogRecord ==
    ASSUME Depth = 1, Threads
    PROVE  /\ NoUpdate \in UpdateStates /\ NoUpdate.phase = "idle"
           /\ \A v \in UpdateStates : update' = [update EXCEPT ![1] = v] =>
                  update' \in [Updaters -> UpdateStates] /\ U' = v
<1>1. 0 \in 0 .. Len(UpdateOps)
    BY UpdateOpsFacts
<1>2. NoUpdate \in UpdateStates /\ NoUpdate.phase = "idle"
    BY <1>1 DEF NoUpdate, UpdateStates
<1>3. Updaters = {1} /\ update \in [Updaters -> UpdateStates]
    BY StepInRange DEF Threads
<1>4. \A v \in UpdateStates : update' = [update EXCEPT ![1] = v] =>
          update' \in [Updaters -> UpdateStates] /\ U' = v
    BY <1>3 DEF U
<1>5. QED
    BY <1>2, <1>4

LEMMA CloseStep == ASSUME Depth = 1, FirmwareInv, CloseWindow PROVE FirmwareInv'
<1>1. Windows /\ Threads /\ disk \in Images \cup {NoImage}
    BY DEF FirmwareInv, Threads
\* The update of a dialog that is closed.
<1>2. ASSUME modals # <<>>, Top = "update", update[Innermost].phase \in {"choosing", "over"},
             update' = [update EXCEPT ![Innermost] = NoUpdate], modals' = Below,
             UNCHANGED <<FirmwareLine, disk>>,
             tasks' = tasks \/ \E t \in Tasks : tasks' = Append(tasks, t)
      PROVE  FirmwareInv'
    <2>1. Innermost = 1 /\ U.phase # "running"
        BY <1>1, <1>2, TopDialog DEF U
    <2>2. update' \in [Updaters -> UpdateStates] /\ U'.phase = "idle"
        BY <1>1, <1>2, <2>1, DialogRecord
    <2>3. Windows' /\ Harmless(U')
        BY <1>1, <1>2, <2>2, TopDialog DEF Harmless
    <2>4. QED
        BY <1>2, <2>1, <2>2, <2>3, DialogStep
<1>3. CASE LeaveDialog
    <2>1. UNCHANGED <<FirmwareLine, disk>> /\ tasks' = tasks
        BY <1>3 DEF LeaveDialog, FirmwareLine, workerVars, lineVars, commVars
    <2>2. QED
        BY <1>2, <1>3, <2>1 DEF LeaveDialog
<1>4. CASE UpdateReturns
    <2>1. UNCHANGED <<FirmwareLine, disk>> /\ tasks' = Append(tasks, "reconnect")
          /\ "reconnect" \in Tasks
        BY <1>4 DEF UpdateReturns, FirmwareLine, workerVars, lineVars, commVars, Tasks
    <2>2. QED
        BY <1>2, <1>4, <2>1 DEF UpdateReturns
<1>5. CASE BeginUpdate
    <2>1. UNCHANGED <<FirmwareLine, disk>> /\ tasks' = tasks /\ modals' = modals
        BY <1>5 DEF BeginUpdate, FirmwareLine, workerVars, lineVars, commVars
    <2>2. Innermost = 1 /\ U.phase = "choosing"
        BY <1>1, <1>5, TopDialog DEF BeginUpdate, U
    <2> DEFINE new == [NoUpdate EXCEPT !.phase = "running", !.step = 1, !.loaded = disk]
    <2>3. update' = [update EXCEPT ![1] = new]
        BY <1>5, <2>2 DEF BeginUpdate
    <2>4. /\ new \in UpdateStates /\ new.phase = "running" /\ new.step = 1
          /\ new.loaded \in Images /\ ~new.success
        <3>1. 1 \in 0 .. Len(UpdateOps) /\ disk \in Images
            BY <1>1, <1>5, UpdateOpsFacts DEF BeginUpdate
        <3>2. QED
            BY <3>1 DEF NoUpdate, UpdateStates
    <2> HIDE DEF new
    <2>5. update' \in [Updaters -> UpdateStates] /\ U' = new
        BY <1>1, <2>3, <2>4, DialogRecord
    <2>6. Windows' /\ Harmless(U')
        BY <1>1, <2>1, <2>2, <2>4, <2>5, SameWindows DEF Harmless
    <2>7. QED
        BY <2>1, <2>2, <2>4, <2>5, <2>6, DialogStep
<1>6. CASE CloseErrorBox
    <2>1. UNCHANGED <<update, FirmwareLine>> /\ disk' = disk /\ tasks' = tasks
          /\ modals # <<>> /\ Top # "update" /\ modals' = Below
        BY <1>6 DEF CloseErrorBox, FirmwareLine, workerVars, lineVars
    <2>2. QED
        BY <1>1, <2>1, DeskStep
<1>7. CASE CloseNoFirmwareBox
    <2>1. OpenDialog(Below) /\ UNCHANGED <<FirmwareLine, disk>> /\ tasks' = tasks
          /\ modals # <<>>
        BY <1>7 DEF CloseNoFirmwareBox, FirmwareLine, workerVars, lineVars, commVars
    <2>2. /\ Windows' /\ U.phase = "idle" /\ update' \in [Updaters -> UpdateStates]
          /\ U'.phase \in {"frozen", "choosing"}
        BY <1>1, <2>1, DialogOpens
    <2>3. Harmless(U')
        BY <2>2 DEF Harmless
    <2>4. QED
        BY <2>1, <2>2, <2>3, DialogStep
<1>8. CASE CloseRequiredBox
    <2>1. UNCHANGED <<update, FirmwareLine>> /\ disk' = disk /\ tasks' = tasks
          /\ modals # <<>> /\ Top # "update" /\ modals' = Below
        BY <1>8 DEF CloseRequiredBox, FirmwareLine, workerVars, lineVars, commVars
    <2>2. QED
        BY <1>1, <2>1, DeskStep
<1>9. QED
    BY <1>3, <1>4, <1>5, <1>6, <1>7, <1>8 DEF CloseWindow

\* Handlers, the timer, the giving up of a connection, and the file.
LEMMA EventStep ==
    ASSUME Depth = 1, FirmwareInv,
           HandleEvent \/ StatusTimer \/ StatusGivesUp \/ DiskChanges
    PROVE  FirmwareInv'
<1>1. disk \in Images \cup {NoImage} /\ "load" \in Tasks /\ "check" \in Tasks
    BY DEF FirmwareInv, Threads, Tasks
<1>2. CASE HandleEvent
    <2>1. UNCHANGED <<update, FirmwareLine>> /\ disk' = disk
        BY <1>2 DEF HandleEvent, FirmwareLine, workerVars, lineVars, commVars
    <2>2. OnConnected \/ OnLoaded \/ ShowBox("error")
        BY <1>2 DEF HandleEvent
    <2>3. CASE OnConnected
        <3>1. CASE bootloaderState = "app"
            <4>1. tasks' = Append(tasks, "load") /\ modals' = modals
                BY <2>3, <3>1 DEF OnConnected
            <4>2. QED
                BY <1>1, <2>1, <4>1, DeskStep
        <3>2. CASE bootloaderState # "app"
            <4>1. tasks' = tasks /\ \E w \in Boxes : modals' = Append(modals, w)
                BY <2>3, <3>2 DEF OnConnected, ShowBox, Boxes
            <4>2. QED
                BY <1>1, <2>1, <4>1, DeskStep
        <3>3. QED
            BY <3>1, <3>2
    <2>4. CASE OnLoaded
        <3>1. CASE tasks' = tasks /\ modals' = Append(modals, "required")
            <4>1. "required" \in Boxes
                BY DEF Boxes
            <4>2. QED
                BY <1>1, <2>1, <3>1, <4>1, DeskStep
        <3>2. CASE modals' = modals /\ tasks' \in {tasks, Append(tasks, "check")}
            BY <1>1, <2>1, <3>2, DeskStep
        <3>3. QED
            BY <2>4, <3>1, <3>2 DEF OnLoaded
    <2>5. CASE ShowBox("error")
        <3>1. tasks' = tasks /\ modals' = Append(modals, "error") /\ "error" \in Boxes
            BY <2>5 DEF ShowBox, Boxes
        <3>2. QED
            BY <1>1, <2>1, <3>1, DeskStep
    <2>6. QED
        BY <2>2, <2>3, <2>4, <2>5
<1>3. CASE StatusTimer
    <2>1. UNCHANGED <<update, FirmwareLine>> /\ disk' = disk /\ modals' = modals
          /\ tasks' = Append(tasks, "check")
        BY <1>3 DEF StatusTimer, FirmwareLine, workerVars, lineVars, commVars, uiVars
    <2>2. QED
        BY <1>1, <2>1, DeskStep
<1>4. CASE StatusGivesUp
    <2>1. UNCHANGED <<update, FirmwareLine>> /\ disk' = disk /\ modals' = modals
          /\ tasks' = tasks
        BY <1>4 DEF StatusGivesUp, FirmwareLine, workerVars, lineVars
    <2>2. QED
        BY <1>1, <2>1, DeskStep
<1>5. CASE DiskChanges
    <2>1. UNCHANGED <<update, FirmwareLine>> /\ modals' = modals /\ tasks' = tasks
          /\ disk' \in Images \cup {NoImage}
        BY <1>5 DEF DiskChanges, FirmwareLine, workerVars, lineVars, commVars, uiVars
    <2>2. QED
        BY <2>1, DeskStep
<1>6. QED
    BY <1>2, <1>3, <1>4, <1>5

\* That an update waits to report changes nothing of what it may do then.
LEMMA ReportStep ==
    ASSUME Depth = 1, FirmwareInv, NEW u \in Updaters, OnProgress(u)
    PROVE  FirmwareInv'
<1>1. UNCHANGED <<update, FirmwareLine>> /\ disk' = disk /\ modals' = modals
      /\ tasks' = tasks
    BY DEF OnProgress, FirmwareLine, uiVars, workerVars, lineVars, commVars
<1>2. disk' \in Images \cup {NoImage}
    BY <1>1 DEF FirmwareInv, Threads
<1>3. QED
    BY <1>1, <1>2, DeskStep

LEMMA StartTaskStep == ASSUME Depth = 1, FirmwareInv, StartTask PROVE FirmwareInv'
<1>1. /\ task = "none" /\ task' = Head(tasks) /\ step' = 1 /\ tasks' = Tail(tasks)
      /\ tasks # <<>>
      /\ UNCHANGED <<update, disk, modals, handling, toDev, toHost, devVars>>
    BY DEF StartTask, uiVars, commVars, lineVars
<1>2. Windows /\ Threads /\ LineInv /\ U' = U /\ tasks \in Seq(Tasks) /\ handling # Worker
    BY <1>1 DEF FirmwareInv, LineInv, Threads, U
<1>3. tasks' \in Seq(Tasks) /\ task' \in Tasks
    BY <1>1, <1>2
<1>4. Threads'
    <2>1. Working(task, step)'
        BY <1>1, <1>3 DEF Working, Tasks
    <2>2. AtProgram(1)' = AtProgram(1)
        BY <1>1 DEF AtProgram
    <2>3. QED
        BY <1>1, <1>2, <1>3, <2>1, <2>2 DEF Threads
<1>5. LineInv'
    BY <1>1, <1>2, QuietStep
<1>6. Windows'
    BY <1>1, <1>2, SameWindows
<1>7. QED
    BY <1>4, <1>5, <1>6 DEF FirmwareInv, LineInv

\* The records of an update that opens its hex file.
LEMMA FileRecords ==
    ASSUME NEW u \in UpdateStates, NEW image \in Images \cup {NoImage}, NEW v
    PROVE  /\ v = [u EXCEPT !.phase = "hung"] => v \in UpdateStates /\ v.phase = "hung"
           /\ v = [u EXCEPT !.source = image] =>
                  /\ v \in UpdateStates /\ v.phase = u.phase /\ v.step = u.step
                  /\ v.loaded = u.loaded /\ v.success = u.success /\ v.source = image
BY DEF UpdateStates

LEMMA OpenFileStep == ASSUME Depth = 1, FirmwareInv, OpenHexFile(1) PROVE FirmwareInv'
<1>1. /\ AtProgram(1) /\ U.source = NoImage /\ U.phase = "running"
      /\ UNCHANGED <<disk, tasks, modals, handling, task, step, toDev, toHost, devVars>>
    BY DEF OpenHexFile, AtProgram, U, uiVars, workerVars, commVars, lineVars
<1>2. /\ Windows /\ Threads /\ LineInv /\ handling # 1 /\ disk \in Images \cup {NoImage}
      /\ U.loaded \in Images /\ ~U.success /\ U.step >= 1
    BY <1>1 DEF FirmwareInv, LineInv, Threads
<1>3. U \in UpdateStates
    BY <1>2, StepInRange
<1>4. PICK v \in UpdateStates :
          /\ update' = [update EXCEPT ![1] = v]
          /\ \/ v.phase = "hung"
             \/ /\ v.phase = U.phase /\ v.step = U.step /\ v.loaded = U.loaded
                /\ v.success = U.success
    <2>1. \/ update' = [update EXCEPT ![1] = [U EXCEPT !.phase = "hung"]]
          \/ update' = [update EXCEPT ![1] = [U EXCEPT !.source = disk]]
        BY DEF OpenHexFile, U
    <2>2. QED
        BY <1>2, <1>3, <2>1, FileRecords
<1>5. update' \in [Updaters -> UpdateStates] /\ U' = v
    BY <1>2, <1>4, DialogRecord
<1>6. LineInv'
    <2>1. CASE v.phase = "hung"
        <3>1. Harmless(U') /\ handling' # 1
            BY <1>1, <1>2, <1>5, <2>1 DEF Harmless
        <3>2. QED
            BY <1>1, <1>2, <3>1, QuietStep
    <2>2. CASE /\ v.phase = U.phase /\ v.step = U.step /\ v.loaded = U.loaded
               /\ v.success = U.success
        BY <1>1, <1>2, <1>5, <2>2, QuietStep
    <2>3. QED
        BY <1>4, <2>1, <2>2
<1>7. Threads'
    <2>1. Working(task, step)'
        BY <1>1, <1>2 DEF Threads, Working
    <2>2. U'.phase = "running" => U'.step >= 1 /\ U'.loaded \in Images /\ ~U'.success
        <3>1. CASE v.phase = "hung"
            BY <1>5, <3>1
        <3>2. CASE /\ v.phase = U.phase /\ v.step = U.step /\ v.loaded = U.loaded
                   /\ v.success = U.success
            BY <1>2, <1>5, <3>2
        <3>3. QED
            BY <1>4, <3>1, <3>2
    <2>3. QED
        BY <1>1, <1>2, <1>5, <2>1, <2>2 DEF Threads
<1>8. Windows'
    BY <1>1, <1>2, SameWindows
<1>9. QED
    BY <1>6, <1>7, <1>8 DEF FirmwareInv, LineInv

-------------------------------------------------------------------------------
(* Sending and receiving.                                                    *)

LEMMA Requesters ==
    ASSUME Depth = 1, FirmwareInv
    PROVE  /\ Windows /\ Threads /\ LineInv
           /\ Worker = 0 /\ Nobody = 2 /\ handling \in {0, 1, 2}
           /\ \A r \in 0 .. Depth : r \in {Worker, 1}
BY DEF FirmwareInv, LineInv, Threads, Worker, Nobody

\* A command is put on the line for r, the first time or again.
LEMMA CommandStep ==
    ASSUME Depth = 1, ~LateReplies, FirmwareInv, NEW r \in {Worker, 1},
           handling' = r, Transmit(CommandOf(r)),
           UNCHANGED <<devVars, task, step, update, modals, disk, tasks>>,
           r = Worker => task # "none",
           r = 1 => U.phase = "running" /\ (AtProgram(1) => U.source # NoImage)
    PROVE  FirmwareInv'
<1>1. Windows /\ Threads /\ LineInv
    BY Requesters
<1>2. U' = U /\ AtProgram(1)' = AtProgram(1)
    BY DEF U, AtProgram
<1>3. LineInv'
    BY <1>1, TransmitStep
<1>4. Working(task, step)'
    BY <1>1 DEF Threads, Working
<1>5. Threads'
    BY <1>1, <1>2, <1>4 DEF Threads, Worker
<1>6. Windows'
    BY <1>1, <1>2, SameWindows
<1>7. QED
    BY <1>3, <1>5, <1>6 DEF FirmwareInv, LineInv

LEMMA SendStep ==
    ASSUME Depth = 1, ~LateReplies, FirmwareInv, NEW r \in 0 .. Depth, Send(r)
    PROVE  FirmwareInv'
<1>1. Windows /\ Threads /\ LineInv /\ Worker = 0 /\ r \in {Worker, 1}
    BY Requesters
<1>2. /\ handling # r
      /\ r = Worker => task # "none"
      /\ r = 1 => U.phase = "running" /\ (AtProgram(1) => U.source # NoImage)
    BY <1>1 DEF Send, HandleQEntry, SendFails, Sending, U
<1>3. CASE HandleQEntry(r)
    <2>1. /\ handling' = r /\ Transmit(CommandOf(r))
          /\ UNCHANGED <<devVars, task, step, update, modals, disk, tasks>>
        BY <1>3 DEF HandleQEntry, uiVars, workerVars
    <2>2. QED
        BY <1>1, <1>2, <2>1, CommandStep
<1>4. CASE SendFails(r)
    <2>1. /\ Gets(r, NoReply)
          /\ UNCHANGED <<handling, toDev, toHost, devVars, disk, tasks, modals>>
        BY <1>4 DEF SendFails, uiVars, commVars, lineVars
    <2>2. CASE r = 1
        <3>1. UpdateGets(1, NoReply) /\ UNCHANGED <<task, step>>
            BY <1>1, <2>1, <2>2 DEF Gets, UpdateGets, workerVars
        <3>2. LineInv' /\ Threads' /\ U'.phase # "idle"
            BY <1>1, <1>2, <2>1, <2>2, <3>1, NoAnswerStep
        <3>3. Windows'
            BY <1>1, <1>2, <2>1, <2>2, SameWindows
        <3>4. QED
            BY <3>2, <3>3 DEF FirmwareInv, LineInv
    <2>3. CASE r = Worker
        <3>1. WorkerGets(NoReply)
            BY <2>1, <2>3 DEF Gets
        <3>2. LineInv' /\ Threads' /\ U' = U
            BY <1>1, <1>2, <2>1, <2>3, <3>1, WorkerStep
        <3>3. Windows'
            BY <1>1, <2>1, <3>2, SameWindows
        <3>4. QED
            BY <3>2, <3>3 DEF FirmwareInv, LineInv
    <2>4. QED
        BY <1>1, <2>2, <2>3
<1>5. QED
    BY <1>3, <1>4 DEF Send

LEMMA CommStep ==
    ASSUME Depth = 1, ~LateReplies, FirmwareInv, CommThread
    PROVE  FirmwareInv'
<1>1. /\ Windows /\ Threads /\ LineInv /\ Worker = 0 /\ Nobody = 2
      /\ handling \in {Worker, 1}
    BY Requesters DEF CommThread, Retry, RxAccept, GiveUp
<1>2. /\ handling = Worker => task # "none"
      /\ handling = 1 => U.phase = "running" /\ (AtProgram(1) => U.source # NoImage)
    BY <1>1 DEF Threads
<1>3. CASE Retry
    <2>1. /\ handling' = handling /\ Transmit(CommandOf(handling))
          /\ UNCHANGED <<devVars, task, step, update, modals, disk, tasks>>
        BY <1>3 DEF Retry, uiVars, workerVars
    <2>2. QED
        BY <1>1, <1>2, <2>1, CommandStep
\* The sender gets the response on the line, or none.
<1>4. ASSUME handling' = Nobody, NEW f, Gets(handling, f),
             f = NoReply \/ (toHost # <<>> /\ toHost' = <<>> /\ f = toHost[1]),
             toHost' \in {toHost, <<>>}, UNCHANGED <<toDev, devVars, disk, tasks, modals>>
      PROVE  FirmwareInv'
    <2>1. CASE handling = 1
        <3>1. UpdateGets(1, f) /\ UNCHANGED <<task, step>>
            BY <1>1, <1>4, <2>1 DEF Gets, UpdateGets, workerVars
        <3>2. LineInv' /\ Threads' /\ U'.phase # "idle"
            BY <1>1, <1>4, <2>1, <3>1, ReceiveStep
        <3>3. Windows'
            BY <1>1, <1>2, <1>4, <2>1, SameWindows
        <3>4. QED
            BY <3>2, <3>3 DEF FirmwareInv, LineInv
    <2>2. CASE handling = Worker
        <3>1. WorkerGets(f)
            BY <1>4, <2>2 DEF Gets
        <3>2. handling # 1 /\ handling' # Worker
            BY <1>1, <1>4, <2>2
        <3>3. LineInv' /\ Threads' /\ U' = U
            BY <1>1, <1>2, <1>4, <2>2, <3>1, <3>2, WorkerStep
        <3>4. Windows'
            BY <1>1, <1>4, <3>3, SameWindows
        <3>5. QED
            BY <3>3, <3>4 DEF FirmwareInv, LineInv
    <2>3. QED
        BY <1>1, <2>1, <2>2
<1>5. CASE RxAccept
    <2>1. toHost # <<>> /\ toHost = <<toHost[1]>>
        BY <1>1, <1>5 DEF RxAccept, LineInv, OneFrame
    <2>2. \A x : /\ Head(<<x>>) = x
                 /\ \A n \in 1 .. Len(<<x>>) : SubSeq(<<x>>, n + 1, Len(<<x>>)) = <<>>
        OBVIOUS
    <2>3. Head(toHost) = toHost[1] /\ toHost' = <<>>
        <3>1. PICK n \in 1 .. Len(toHost) : toHost' = SubSeq(toHost, n + 1, Len(toHost))
            BY <1>5 DEF RxAccept
        <3>2. QED
            BY <2>1, <2>2, <3>1, Zenon
    <2>4. /\ handling' = Nobody /\ Gets(handling, toHost[1])
          /\ UNCHANGED <<toDev, devVars, disk, tasks, modals>>
        BY <1>5, <2>3 DEF RxAccept, uiVars
    <2>5. QED
        BY <1>4, <2>1, <2>3, <2>4
<1>6. CASE GiveUp
    <2>1. /\ handling' = Nobody /\ Gets(handling, NoReply) /\ toHost' = toHost
          /\ UNCHANGED <<toDev, devVars, disk, tasks, modals>>
        BY <1>6 DEF GiveUp, uiVars, lineVars
    <2>2. QED
        BY <1>4, <2>1
<1>7. QED
    BY <1>3, <1>5, <1>6 DEF CommThread

\* The device, the line and the cable.
LEMMA OutsideStep ==
    ASSUME Depth = 1, FirmwareInv, DeviceExecutes \/ LinkLoses \/ Unplug
    PROVE  FirmwareInv'
<1>1. Windows /\ Threads /\ LineInv
    BY Requesters
<1>2. UNCHANGED <<update, handling, task, step, modals, disk, tasks>>
    <2>1. CASE DeviceExecutes
        BY <2>1 DEF DeviceExecutes, uiVars, workerVars, commVars
    <2>2. CASE LinkLoses
        BY <2>2 DEF LinkLoses, uiVars, workerVars, commVars
    <2>3. CASE Unplug
        BY <2>3 DEF Unplug, uiVars, workerVars, commVars
    <2>4. QED
        BY <2>1, <2>2, <2>3
<1>3. Threads'
    <2>1. disk' \in Images \cup {NoImage}
        BY <1>1, <1>2 DEF Threads
    <2>2. QED
        BY <1>1, <1>2, <2>1, SameThreads
<1>4. Windows'
    <2>1. U' = U
        BY <1>2 DEF U
    <2>2. QED
        BY <1>1, <1>2, <2>1, SameWindows
<1>5. CASE DeviceExecutes
    BY <1>1, <1>3, <1>4, <1>5, DeviceStep DEF FirmwareInv, LineInv
<1>6. CASE LinkLoses
    <2>1. /\ toDev' \in {toDev, <<>>} /\ toHost' \in {toHost, <<>>}
          /\ mode' = mode /\ UNCHANGED <<flash, resetAddr>>
        <3>1. \A x : Tail(<<x>>) = <<>>
            OBVIOUS
        <3>2. toDev # <<>> => Tail(toDev) = <<>>
            BY <1>1, <3>1, Zenon DEF LineInv, OneFrame
        <3>3. toHost # <<>> => Tail(toHost) = <<>>
            BY <1>1, <3>1, Zenon DEF LineInv, OneFrame
        <3>4. QED
            BY <1>6, <3>2, <3>3 DEF LinkLoses, devVars
    <2>2. LineInv'
        BY <1>1, <1>2, <2>1, LossStep
    <2>3. QED
        BY <1>3, <1>4, <2>2 DEF FirmwareInv, LineInv
<1>7. CASE Unplug
    <2>1. /\ toDev' = <<>> /\ toHost' = <<>>
          /\ mode' = BootMode(resetAddr) /\ UNCHANGED <<flash, resetAddr>>
        BY <1>7 DEF Unplug
    <2>2. LineInv'
        BY <1>1, <1>2, <2>1, LossStep
    <2>3. QED
        BY <1>3, <1>4, <2>2 DEF FirmwareInv, LineInv
<1>8. QED
    BY <1>5, <1>6, <1>7

-------------------------------------------------------------------------------
(* The theorems.                                                             *)

LEMMA FirmwareInit == ASSUME Depth = 1, Init PROVE FirmwareInv
<1>1. Updaters = {1} /\ Nobody = 2 /\ Worker = 0
    BY DEF Updaters, Nobody, Worker
<1>2. NoUpdate \in UpdateStates /\ NoUpdate.phase = "idle"
    <2>1. 0 \in 0 .. Len(UpdateOps)
        BY UpdateOpsFacts
    <2>2. QED
        BY <2>1 DEF NoUpdate, UpdateStates
<1>3. update \in [Updaters -> UpdateStates] /\ U = NoUpdate
    BY <1>1, <1>2 DEF Init, U
<1>4. Windows
    BY <1>2, <1>3 DEF Init, Windows
<1>5. Threads
    BY <1>1, <1>2, <1>3 DEF Init, Threads, Working
<1>6. OneFrame /\ Commands /\ Answers
    BY DEF Init, OneFrame, Commands, Answers
<1>7. Device
    <2>1. /\ flash = [i \in Records |-> resetAddr] /\ resetAddr \in Images \cup {NoImage}
          /\ mode = IF resetAddr = NoImage THEN "boot" ELSE "app"
        BY DEF Init
    <2>2. QED
        BY <2>1 DEF Device, Whole
<1>8. Progress
    BY <1>2, <1>3 DEF Progress
<1>9. QED
    BY <1>4, <1>5, <1>6, <1>7, <1>8 DEF FirmwareInv

LEMMA FirmwareStep ==
    ASSUME Depth = 1, ~LateReplies, FirmwareInv, [Next]_vars
    PROVE  FirmwareInv'
<1>1. ASSUME UNCHANGED vars PROVE FirmwareInv'
    <2>1. UNCHANGED <<update, FirmwareLine>> /\ disk' = disk /\ modals' = modals
          /\ tasks' = tasks
        BY <1>1 DEF vars, FirmwareLine, uiVars, workerVars, commVars, lineVars
    <2>2. disk' \in Images \cup {NoImage}
        BY <2>1 DEF FirmwareInv, Threads
    <2>3. QED
        BY <2>1, <2>2, DeskStep
<1>2. ASSUME NEW u \in Updaters, OpenHexFile(u) PROVE FirmwareInv'
    <2>1. u = 1
        BY <1>2 DEF Updaters
    <2>2. QED
        BY <1>2, <2>1, OpenFileStep
<1>3. CASE Next
    BY <1>2, <1>3, UserStep, CloseStep, EventStep, StartTaskStep, ReportStep, SendStep,
       CommStep, OutsideStep DEF Next
<1>4. QED
    BY <1>1, <1>3

\* With one dialog and a prompt link, for any images and sizes.
THEOREM FirmwareInvariant ==
    ASSUME Depth = 1, ~LateReplies PROVE Spec => []FirmwareInv
<1>1. Init => FirmwareInv
    BY FirmwareInit
<1>2. FirmwareInv /\ [Next]_vars => FirmwareInv'
    BY FirmwareStep
<1>3. QED
    BY <1>1, <1>2, PTL DEF Spec

\* The device never starts firmware that is not one whole image, whatever is
\* lost or unplugged when (Task_FirmwareUpdate.cpp:54-88).
THEOREM BootsOnlyWholeImages ==
    ASSUME Depth = 1, ~LateReplies PROVE Spec => []BootsWholeImage
<1>1. FirmwareInv => BootsWholeImage
    BY DEF FirmwareInv, Device, Whole, BootsWholeImage
<1>2. QED
    BY <1>1, FirmwareInvariant, PTL

\* Once erased, the device is in its bootloader until the update has verified
\* what it wrote.
THEOREM ErasedIsRecognised ==
    ASSUME Depth = 1, ~LateReplies PROVE Spec => []ErasedStaysInBootloader
<1>1. FirmwareInv => ErasedStaysInBootloader
    <2> SUFFICES ASSUME FirmwareInv PROVE ErasedStaysInBootloader
        OBVIOUS
    <2>1. Updaters = {1}
        BY DEF Updaters
    <2>2. QED
        BY <2>1 DEF FirmwareInv, Device, Progress, ErasedStaysInBootloader, U
<1>2. QED
    BY <1>1, FirmwareInvariant, PTL

\* An update that reports success has written the whole image that its dialog
\* loaded, and made it bootable.
THEOREM SuccessIsReal ==
    ASSUME Depth = 1, ~LateReplies PROVE Spec => []SuccessMeansNew
<1>1. FirmwareInv => SuccessMeansNew
    <2> SUFFICES ASSUME FirmwareInv PROVE SuccessMeansNew
        OBVIOUS
    <2>1. Updaters = {1}
        BY DEF Updaters
    <2>2. QED
        BY <2>1 DEF FirmwareInv, Progress, SuccessMeansNew, Whole, U
<1>2. QED
    BY <1>1, FirmwareInvariant, PTL

-------------------------------------------------------------------------------
(* Types: any number of nested dialogs, and frames that arrive late.  The    *)
(* bounds in TypeOK are part of it: the line does not overflow, the attempts *)
(* and the steps of the two programs are not overrun, the windows are not    *)
(* nested too deep.                                                          *)

\* What a frame to the device may hold.  The program of the update or of the
\* task says which operations there are.
Contents == Images \cup {NoImage, "mixed"}
OpNames ==
    {UpdateOps[s] : s \in 0 .. Len(UpdateOps)} \cup {TaskOps(t)[s] : t \in Tasks, s \in 0 .. 5}
Orders == [op : OpNames, rec : Int, img : Images \cup {NoImage}]

\* What a frame from the device may hold.
Responses ==
    {Ack, Nack, NoReply} \cup {Data("state", s) : s \in States}
        \cup {Data("crc", c) : c \in Contents}
        \cup {Data("version", NoImage), Data("other", NoImage)}

DeskTypes ==
    /\ conn \in BOOLEAN /\ connectEnabled \in BOOLEAN /\ updateEnabled \in BOOLEAN
    /\ declined \in BOOLEAN /\ lastPath \in BOOLEAN
    /\ disk \in Images \cup {NoImage}

BoxTypes ==
    /\ modals \in Seq({"error", "noFirmware", "required", "update"})
    /\ Len(modals) <= MaxModals

QueueTypes ==
    /\ events \in Seq({"connect", "reconnect", "load", "failed"})
    /\ tasks \in Seq(Tasks)

\* Whom the communication thread serves is there.
ThreadTypes ==
    /\ bootloaderState \in States
    /\ task \in Tasks \cup {"none"}
    /\ step \in 0 .. 5
    /\ handling \in 0 .. Nobody
    /\ attempt \in 0 .. MaxAttempts + 1
    /\ handling = Worker => task # "none"

LineTypes ==
    /\ toDev \in Seq(Orders)
    /\ toHost \in Seq(Responses)
    /\ Len(toDev) + Len(toHost) <= Capacity

DeviceTypes ==
    /\ mode \in {"app", "boot"}
    /\ flash \in [Records -> Contents]
    /\ resetAddr \in Contents

TypeInv ==
    /\ DeskTypes /\ BoxTypes /\ QueueTypes /\ ThreadTypes
    /\ update \in [Updaters -> UpdateStates]
    /\ LineTypes /\ DeviceTypes

\* The sizes, and the two numbers that stand for no updater.
LEMMA Sizes ==
    /\ Depth \in Nat /\ Depth >= 1 /\ MaxAttempts \in Nat /\ MaxAttempts >= 1
    /\ Capacity \in Nat /\ Capacity >= 1 /\ MaxModals \in Nat /\ MaxModals >= 1
    /\ Nobody = Depth + 1 /\ Worker = 0 /\ Nobody # Worker
BY FirmwareUpdateAssumption DEF Nobody, Worker

\* A requester that is not the worker is an updater.
LEMMA UpdatersAre ==
    ASSUME NEW r \in 0 .. Nobody, r # Worker, r # Nobody
    PROVE  r \in Updaters
BY Sizes DEF Updaters

LEMMA NoUpdateTyped == NoUpdate \in UpdateStates
<1>1. 0 \in 0 .. Len(UpdateOps)
    BY UpdateOpsFacts
<1>2. QED
    BY <1>1 DEF NoUpdate, UpdateStates

\* What is sent next is typed, whoever sends it.
LEMMA OrderTyped ==
    ASSUME TypeInv, NEW r \in 0 .. Nobody, r # Nobody, r = Worker => task # "none"
    PROVE  CommandOf(r) \in Orders
<1>1. CASE r = Worker
    <2>1. TaskOps(task)[step] \in OpNames
        BY <1>1 DEF TypeInv, ThreadTypes, OpNames
    <2>2. CommandOf(r) = [op |-> TaskOps(task)[step], rec |-> 0, img |-> NoImage]
        BY <1>1 DEF CommandOf, Cmd
    <2>3. QED
        BY <2>1, <2>2 DEF Orders
<1>2. CASE r # Worker
    <2> DEFINE op == UpdateOps[update[r].step]
    <2>1. update[r] \in UpdateStates
        BY <1>2, UpdatersAre DEF TypeInv
    <2>2. op \in OpNames /\ update[r].step - 3 \in Int
        BY <2>1, UpdateOpsFacts DEF UpdateStates, OpNames
    <2>3. update[r].source \in Images \cup {NoImage} /\ update[r].loaded \in Images \cup {NoImage}
        BY <2>1 DEF UpdateStates
    <2>4. CommandOf(r) = UpdateCommand(r)
        BY <1>2 DEF CommandOf
    <2>5. \/ UpdateCommand(r) =
                 [op |-> op, rec |-> update[r].step - 3, img |-> update[r].source]
          \/ UpdateCommand(r) = [Cmd(op) EXCEPT !.img = update[r].loaded]
          \/ UpdateCommand(r) = Cmd(op)
        BY DEF UpdateCommand
    <2> HIDE DEF op
    <2>6. CASE UpdateCommand(r) =
                   [op |-> op, rec |-> update[r].step - 3, img |-> update[r].source]
        BY <2>2, <2>3, <2>4, <2>6 DEF Orders
    <2>7. CASE \/ UpdateCommand(r) = [Cmd(op) EXCEPT !.img = update[r].loaded]
               \/ UpdateCommand(r) = Cmd(op)
        BY <2>2, <2>3, <2>4, <2>7 DEF Orders, Cmd
    <2>8. QED
        BY <2>5, <2>6, <2>7
<1>3. QED
    BY <1>1, <1>2

LEMMA TransmitTyped ==
    ASSUME LineTypes, NEW cmd \in Orders, Transmit(cmd)
    PROVE  LineTypes'
<1>1. /\ toDev \in Seq(Orders) /\ toHost \in Seq(Responses)
      /\ Len(toDev) \in Nat /\ Len(toHost) \in Nat /\ Len(toDev) + Len(toHost) <= Capacity
    BY DEF LineTypes
<1>2. PICK n \in 0 .. Len(toHost) :
          /\ toHost' = SubSeq(toHost, n + 1, Len(toHost))
          /\ \/ toDev' = toDev
             \/ Len(toDev) + Len(toHost) - n < Capacity /\ toDev' = Append(toDev, cmd)
    BY <1>1 DEF Transmit
<1>3. toHost' \in Seq(Responses) /\ Len(toHost') = Len(toHost) - n
    BY <1>1, <1>2
<1>4. CASE toDev' = toDev
    BY <1>1, <1>3, <1>4, Sizes DEF LineTypes
<1>5. CASE Len(toDev) + Len(toHost) - n < Capacity /\ toDev' = Append(toDev, cmd)
    <2>1. toDev' \in Seq(Orders) /\ Len(toDev') = Len(toDev) + 1
        BY <1>1, <1>5
    <2>2. Len(toDev') + Len(toHost') <= Capacity
        BY <1>1, <1>3, <1>5, <2>1, Sizes
    <2>3. QED
        BY <1>3, <2>1, <2>2 DEF LineTypes
<1>6. QED
    BY <1>2, <1>4, <1>5

\* Less traffic on the line is as well typed.
LEMMA RestTyped ==
    ASSUME NEW S, NEW s \in Seq(S), s # <<>>, NEW n \in 1 .. Len(s)
    PROVE  /\ SubSeq(s, n + 1, Len(s)) \in Seq(S)
           /\ Len(SubSeq(s, n + 1, Len(s))) = Len(s) - n
           /\ Tail(s) \in Seq(S) /\ Len(Tail(s)) = Len(s) - 1
           /\ Head(s) \in S /\ Len(s) \in Nat /\ Len(s) >= 1
OBVIOUS

\* What a response may be taken for.
LEMMA ParsedTyped == \A f \in Responses : Parsed(f) \subseteq States /\ Parsed(f) # {}
<1>1. TAKE f \in Responses
<1>2. CASE f \in {Ack, Nack, NoReply}
    BY <1>2 DEF Ack, Nack, NoReply, Parsed, States
<1>3. CASE \E s \in States : f = Data("state", s)
    BY <1>3 DEF Data, Parsed, States
<1>4. CASE \E c \in Contents : f = Data("crc", c)
    BY <1>4 DEF Data, Parsed, States
<1>5. CASE f \in {Data("version", NoImage), Data("other", NoImage)}
    BY <1>5 DEF Data, Parsed, States
<1>6. QED
    BY <1>2, <1>3, <1>4, <1>5 DEF Responses

\* One record of an update changes.
LEMMA UpdatedTyped ==
    ASSUME NEW f \in [Updaters -> UpdateStates], NEW k, NEW v \in UpdateStates
    PROVE  [f EXCEPT ![k] = v] \in [Updaters -> UpdateStates]
OBVIOUS

\* What an update makes of a response.
LEMMA UpdateGetsTyped ==
    ASSUME update \in [Updaters -> UpdateStates], NEW u \in Updaters, NEW f, UpdateGets(u, f)
    PROVE  update' \in [Updaters -> UpdateStates] /\ UNCHANGED <<task, step, bootloaderState, events>>
<1> DEFINE r == update[u]
<1>1. r \in UpdateStates
    OBVIOUS
<1>2. UNCHANGED <<task, step, bootloaderState, events>>
    BY DEF UpdateGets, workerVars
<1>3. \/ r.step < 6 + NumRecords /\ update' = [update EXCEPT ![u] = [r EXCEPT !.step = @ + 1]]
      \/ update' = [update EXCEPT ![u] = [r EXCEPT !.phase = "over", !.success = TRUE]]
      \/ update' = [update EXCEPT ![u] = [r EXCEPT !.phase = "over"]]
    BY UpdateOpsFacts DEF UpdateGets
<1> HIDE DEF r
<1>4. \E v \in UpdateStates : update' = [update EXCEPT ![u] = v]
    <2>1. CASE /\ r.step < 6 + NumRecords
               /\ update' = [update EXCEPT ![u] = [r EXCEPT !.step = @ + 1]]
        <3> DEFINE v == [r EXCEPT !.step = @ + 1]
        <3>1. v = [r EXCEPT !.step = @ + 1]
            OBVIOUS
        <3>2. update' = [update EXCEPT ![u] = v]
            BY <2>1
        <3> HIDE DEF v
        <3>3. v \in UpdateStates
            BY <1>1, <2>1, <3>1, UpdateRecords, Zenon
        <3>4. QED
            BY <3>2, <3>3
    <2>2. CASE update' = [update EXCEPT ![u] = [r EXCEPT !.phase = "over", !.success = TRUE]]
        <3> DEFINE v == [r EXCEPT !.phase = "over", !.success = TRUE]
        <3>1. v = [r EXCEPT !.phase = "over", !.success = TRUE]
            OBVIOUS
        <3>2. update' = [update EXCEPT ![u] = v]
            BY <2>2
        <3> HIDE DEF v
        <3>3. v \in UpdateStates
            BY <1>1, <3>1, UpdateRecords, Zenon
        <3>4. QED
            BY <3>2, <3>3
    <2>3. CASE update' = [update EXCEPT ![u] = [r EXCEPT !.phase = "over"]]
        <3> DEFINE v == [r EXCEPT !.phase = "over"]
        <3>1. v = [r EXCEPT !.phase = "over"]
            OBVIOUS
        <3>2. update' = [update EXCEPT ![u] = v]
            BY <2>3
        <3> HIDE DEF v
        <3>3. v \in UpdateStates
            BY <1>1, <3>1, UpdateRecords, Zenon
        <3>4. QED
            BY <3>2, <3>3
    <2>4. QED
        BY <1>3, <2>1, <2>2, <2>3
<1>5. QED
    BY <1>2, <1>4, UpdatedTyped

\* What the worker's task makes of a response.
LEMMA WorkerGetsTyped ==
    ASSUME QueueTypes, ThreadTypes, task # "none", NEW f \in Responses, WorkerGets(f)
    PROVE  /\ bootloaderState' \in States /\ task' \in Tasks \cup {"none"} /\ step' \in 0 .. 5
           /\ events' \in Seq({"connect", "reconnect", "load", "failed"})
           /\ update' = update
<1>1. /\ bootloaderState \in States /\ task \in Tasks /\ step \in 0 .. 5
      /\ Parsed(f) \subseteq States
    BY ParsedTyped DEF ThreadTypes
<1>2. \A e \in {"connect", "reconnect", "load", "failed"} :
          Posts(e) => /\ task' = "none" /\ step' = 0
                      /\ events' \in Seq({"connect", "reconnect", "load", "failed"})
    BY DEF Posts, QueueTypes
<1>3. EndsQuietly => /\ task' = "none" /\ step' = 0
                     /\ events' \in Seq({"connect", "reconnect", "load", "failed"})
    BY DEF EndsQuietly, QueueTypes
<1>4. \A s \in 0 .. 5 :
          Goes(s) => /\ task' = task /\ step' \in 0 .. 5
                     /\ events' \in Seq({"connect", "reconnect", "load", "failed"})
    BY DEF Goes, QueueTypes
<1>5. update' = update
    BY DEF WorkerGets
\* Each ends one way or the other.
<1>6. /\ bootloaderState' \in States
      /\ \/ \E e \in {"connect", "reconnect", "load", "failed"} : Posts(e)
         \/ EndsQuietly
         \/ \E s \in 0 .. 5 : Goes(s)
    <2>1. CASE task = "check"
        <3>1. CheckGets(f)
            BY <2>1 DEF WorkerGets
        <3>2. 2 \in 0 .. 5
            OBVIOUS
        <3>3. QED
            BY <1>1, <3>1, <3>2, Zenon DEF CheckGets
    <2>2. CASE task = "load"
        <3>1. LoadGets(f)
            BY <2>2 DEF WorkerGets
        <3>2. QED
            BY <1>1, <3>1, Zenon DEF LoadGets
    <2>3. CASE task \in {"connect", "reconnect"}
        <3>1. ConnectGets(f)
            BY <2>3 DEF WorkerGets
        <3>2. step \in {1, 4} => step + 1 \in 0 .. 5
            OBVIOUS
        <3>3. 3 \in 0 .. 5 /\ 4 \in 0 .. 5
            OBVIOUS
        <3>4. CASE step \in {1, 4} /\ f.type = "Data"
            <4>1. \E s \in Parsed(f) :
                      /\ bootloaderState' = s
                      /\ IF step = 4 /\ s = "boot" THEN Posts("failed") ELSE Goes(step + 1)
                BY <3>1, <3>4 DEF ConnectGets
            <4>2. QED
                BY <1>1, <3>2, <3>4, <4>1, Zenon
        <3>5. CASE ~(step \in {1, 4} /\ f.type = "Data")
            <4>1. /\ bootloaderState' = bootloaderState
                  /\ Goes(3) \/ Goes(4) \/ Posts(task) \/ Posts("failed")
                BY <3>1, <3>5 DEF ConnectGets
            <4>2. QED
                BY <1>1, <2>3, <3>3, <4>1, Zenon
        <3>6. QED
            BY <3>4, <3>5
    <2>4. QED
        BY <1>1, <2>1, <2>2, <2>3 DEF Tasks
<1>7. QED
    BY <1>1, <1>2, <1>3, <1>4, <1>5, <1>6

\* A requester gets a response, or none: what it and the communication thread
\* hold is typed, if the requester is no longer served.
LEMMA GetsTyped ==
    ASSUME TypeInv, NEW r \in 0 .. Nobody, r # Nobody, r = Worker => task # "none",
           NEW f \in Responses, Gets(r, f), UNCHANGED tasks,
           handling' \in 0 .. Nobody, attempt' \in 0 .. MaxAttempts + 1,
           handling' # r, handling' \in {handling, Nobody}
    PROVE  QueueTypes' /\ ThreadTypes' /\ (update \in [Updaters -> UpdateStates])'
<1>0. Nobody # Worker
    BY Sizes
<1>1. CASE r = Worker
    <2>1. /\ bootloaderState' \in States /\ task' \in Tasks \cup {"none"} /\ step' \in 0 .. 5
          /\ events' \in Seq({"connect", "reconnect", "load", "failed"})
          /\ update' = update
        BY <1>1, WorkerGetsTyped DEF Gets, TypeInv
    <2>2. handling' # Worker
        BY <1>1
    <2>3. QED
        BY <2>1, <2>2 DEF TypeInv, QueueTypes, ThreadTypes
<1>2. CASE r # Worker
    <2>1. r \in Updaters
        BY <1>2, UpdatersAre
    <2>2. UpdateGets(r, f)
        BY <1>2 DEF Gets
    <2>3. /\ update' \in [Updaters -> UpdateStates]
          /\ UNCHANGED <<task, step, bootloaderState, events>>
        BY <2>1, <2>2, UpdateGetsTyped DEF TypeInv
    <2>4. handling' = Worker => task # "none"
        BY <1>0 DEF TypeInv, ThreadTypes
    <2>5. QED
        BY <2>3, <2>4 DEF TypeInv, QueueTypes, ThreadTypes
<1>3. QED
    BY <1>1, <1>2

\* A call that is under way is given up, at most.
LEMMA AbortTyped ==
    ASSUME ThreadTypes, AbortExchange, UNCHANGED <<workerVars, handling>>
    PROVE  ThreadTypes'
<1>1. attempt' \in 0 .. MaxAttempts + 1
    BY Sizes DEF AbortExchange, ThreadTypes
<1>2. QED
    BY <1>1 DEF ThreadTypes, workerVars

\* A window opens where one was closed, or none was open.
LEMMA DialogTyped ==
    ASSUME TypeInv, NEW windows, windows = <<>> \/ (windows = Below /\ modals # <<>>),
           OpenDialog(windows)
    PROVE  BoxTypes' /\ (update \in [Updaters -> UpdateStates])'
<1> DEFINE boxes == {"error", "noFirmware", "required", "update"}
           p == IF lastPath /\ disk = NoImage THEN "frozen" ELSE "choosing"
<1>1. modals \in Seq(boxes) /\ Len(modals) <= MaxModals /\ Len(modals) \in Nat
    BY DEF TypeInv, BoxTypes
<1>2. windows \in Seq(boxes) /\ Len(windows) + 1 <= MaxModals /\ Len(windows) \in Nat
    <2>1. CASE windows = <<>>
        BY <2>1, Sizes
    <2>2. CASE windows = SubSeq(modals, 1, Len(modals) - 1) /\ modals # <<>>
        BY <1>1, <2>2, Sizes
    <2>3. QED
        BY <2>1, <2>2 DEF Below
<1>3. modals' = Append(windows, "update")
    BY DEF OpenDialog
<1>4. modals' \in Seq(boxes) /\ Len(modals') <= MaxModals
    BY <1>2, <1>3
<1>5. update' = [update EXCEPT ![Innermost + 1] = [NoUpdate EXCEPT !.phase = p]]
    BY DEF OpenDialog
<1>6. p \in {"frozen", "choosing"}
    OBVIOUS
<1> HIDE DEF p
<1>7. [NoUpdate EXCEPT !.phase = p] \in UpdateStates
    BY <1>6, NoUpdateTyped DEF UpdateStates
<1>8. update' \in [Updaters -> UpdateStates]
    BY <1>5, <1>7, UpdatedTyped DEF TypeInv
<1>9. QED
    BY <1>4, <1>8 DEF BoxTypes

\* What is left alone stays as it is.
LEMMA StillTyped ==
    ASSUME TypeInv
    PROVE  /\ UNCHANGED <<conn, connectEnabled, updateEnabled, declined, lastPath, disk>>
                  => DeskTypes'
           /\ UNCHANGED modals => BoxTypes'
           /\ UNCHANGED <<events, tasks>> => QueueTypes'
           /\ UNCHANGED <<workerVars, commVars>> => ThreadTypes'
           /\ UNCHANGED update => (update \in [Updaters -> UpdateStates])'
           /\ UNCHANGED lineVars => LineTypes'
           /\ UNCHANGED devVars => DeviceTypes'
<1>1. UNCHANGED <<conn, connectEnabled, updateEnabled, declined, lastPath, disk>> => DeskTypes'
    BY DEF TypeInv, DeskTypes
<1>2. UNCHANGED modals => BoxTypes'
    BY DEF TypeInv, BoxTypes
<1>3. UNCHANGED <<events, tasks>> => QueueTypes'
    BY DEF TypeInv, QueueTypes
<1>4. UNCHANGED <<workerVars, commVars>> => ThreadTypes'
    BY DEF TypeInv, ThreadTypes, workerVars, commVars
<1>5. UNCHANGED update => (update \in [Updaters -> UpdateStates])'
    BY DEF TypeInv
<1>6. UNCHANGED lineVars => LineTypes'
    BY DEF TypeInv, LineTypes, lineVars
<1>7. UNCHANGED devVars => DeviceTypes'
    BY DEF TypeInv, DeviceTypes, devVars
<1>8. QED
    BY <1>1, <1>2, <1>3, <1>4, <1>5, <1>6, <1>7

LEMMA WithoutTop ==
    ASSUME NEW S, NEW s \in Seq(S), Len(s) >= 1
    PROVE  Len(SubSeq(s, 1, Len(s) - 1)) = Len(s) - 1 /\ SubSeq(s, 1, Len(s) - 1) \in Seq(S)
<1> DEFINE n == Len(s) - 1
<1>1. n \in Nat /\ \A i \in 1 .. n : s[i] \in S
    OBVIOUS
<1> HIDE DEF n
<1>2. SubSeq(s, 1, n) \in Seq(S) /\ Len(SubSeq(s, 1, n)) = IF 1 <= n THEN n - 1 + 1 ELSE 0
    BY <1>1, SubSeqProperties
<1>3. (IF 1 <= n THEN n - 1 + 1 ELSE 0) = n
    BY <1>1
<1>4. QED
    BY <1>2, <1>3 DEF n

\* Closing the window on top.
LEMMA BelowTyped ==
    ASSUME BoxTypes, modals # <<>>, modals' = Below PROVE BoxTypes'
<1> DEFINE boxes == {"error", "noFirmware", "required", "update"}
<1>1. modals \in Seq(boxes) /\ Len(modals) <= MaxModals
    BY DEF BoxTypes
<1> HIDE DEF boxes
<1>2. modals' \in Seq(boxes) /\ Len(modals') = Len(modals) - 1 /\ Len(modals) \in Nat
    <2>1. Len(modals) \in Nat /\ Len(modals) >= 1
        BY <1>1
    <2>2. modals' = SubSeq(modals, 1, Len(modals) - 1)
        BY DEF Below
    <2>3. Len(SubSeq(modals, 1, Len(modals) - 1)) = Len(modals) - 1
          /\ SubSeq(modals, 1, Len(modals) - 1) \in Seq(boxes)
        BY <1>1, <2>1, WithoutTop
    <2>4. QED
        BY <2>1, <2>2, <2>3
<1>3. Len(modals') <= MaxModals
    BY <1>1, <1>2, Sizes
<1>4. QED
    BY <1>2, <1>3 DEF BoxTypes, boxes

\* A record put in place of an update's.
LEMMA ReplacedTyped ==
    ASSUME TypeInv, NEW k, NEW v \in UpdateStates, update' = [update EXCEPT ![k] = v]
    PROVE  (update \in [Updaters -> UpdateStates])'
BY UpdatedTyped DEF TypeInv

LEMMA UserTyped == ASSUME TypeInv, User PROVE TypeInv'
<1>1. CASE DeviceConnect
    <2>1. UNCHANGED <<declined, lastPath, disk, modals, update, workerVars, handling, lineVars,
                      devVars, events>>
        BY <1>1 DEF DeviceConnect
    <2>2. DeskTypes'
        BY <1>1, <2>1 DEF TypeInv, DeskTypes, DeviceConnect
    <2>3. QueueTypes'
        BY <1>1, <2>1 DEF TypeInv, QueueTypes, DeviceConnect, Tasks
    <2>4. ThreadTypes'
        BY <1>1, <2>1, AbortTyped DEF TypeInv, DeviceConnect
    <2>5. QED
        BY <2>1, <2>2, <2>3, <2>4, StillTyped DEF TypeInv
<1>2. CASE DeviceConnectFails
    <2>1. UNCHANGED <<updateEnabled, declined, lastPath, disk, update, workerVars, handling,
                      lineVars, devVars, events, tasks>>
        BY <1>2 DEF DeviceConnectFails
    <2>2. DeskTypes'
        BY <1>2, <2>1 DEF TypeInv, DeskTypes, DeviceConnectFails
    <2>3. BoxTypes'
        <3>1. modals' = <<"error">>
            BY <1>2 DEF DeviceConnectFails
        <3>2. QED
            BY <3>1, Sizes DEF BoxTypes
    <2>4. ThreadTypes'
        BY <1>2, <2>1, AbortTyped DEF TypeInv, DeviceConnectFails
    <2>5. QED
        BY <2>1, <2>2, <2>3, <2>4, StillTyped DEF TypeInv
<1>3. CASE PressUpdate
    <2>1. UNCHANGED <<conn, connectEnabled, updateEnabled, declined, lastPath, disk, workerVars,
                      commVars, lineVars, devVars, events, tasks>>
        BY <1>3 DEF PressUpdate
    <2>2. BoxTypes' /\ (update \in [Updaters -> UpdateStates])'
        BY <1>3, DialogTyped DEF PressUpdate
    <2>3. QED
        BY <2>1, <2>2, StillTyped DEF TypeInv
<1>4. QED
    BY <1>1, <1>2, <1>3 DEF User

LEMMA CloseTyped == ASSUME TypeInv, CloseWindow PROVE TypeInv'
<1>1. CASE LeaveDialog
    <2>1. UNCHANGED <<conn, connectEnabled, updateEnabled, disk, workerVars,
                      commVars, lineVars, devVars, events, tasks>>
        BY <1>1 DEF LeaveDialog
    <2>2. DeskTypes'
        BY <1>1, <2>1 DEF TypeInv, DeskTypes, LeaveDialog
    <2>3. BoxTypes' /\ (update \in [Updaters -> UpdateStates])'
        <3>1. modals # <<>> /\ modals' = Below /\ update' = [update EXCEPT ![Innermost] = NoUpdate]
            BY <1>1 DEF LeaveDialog
        <3>2. QED
            BY <3>1, BelowTyped, ReplacedTyped, NoUpdateTyped DEF TypeInv
    <2>4. QED
        BY <2>1, <2>2, <2>3, StillTyped DEF TypeInv
<1>2. CASE BeginUpdate
    <2>1. UNCHANGED <<conn, connectEnabled, updateEnabled, declined, disk, modals, workerVars,
                      commVars, lineVars, devVars, events, tasks>>
        BY <1>2 DEF BeginUpdate
    <2>2. DeskTypes'
        BY <1>2, <2>1 DEF TypeInv, DeskTypes, BeginUpdate
    <2>3. (update \in [Updaters -> UpdateStates])'
        <3> DEFINE v == [NoUpdate EXCEPT !.phase = "running", !.step = 1, !.loaded = disk]
        <3>1. update' = [update EXCEPT ![Innermost] = v]
            BY <1>2 DEF BeginUpdate
        <3>2. 1 \in 0 .. Len(UpdateOps) /\ disk \in Images \cup {NoImage}
            BY UpdateOpsFacts DEF TypeInv, DeskTypes
        <3>3. v \in UpdateStates
            BY <3>2 DEF NoUpdate, UpdateStates
        <3> HIDE DEF v
        <3>4. QED
            BY <3>1, <3>3, ReplacedTyped
    <2>4. QED
        BY <2>1, <2>2, <2>3, StillTyped DEF TypeInv
<1>3. CASE UpdateReturns
    <2>1. UNCHANGED <<conn, connectEnabled, updateEnabled, declined, lastPath, disk, workerVars,
                      commVars, lineVars, devVars, events>>
        BY <1>3 DEF UpdateReturns
    <2>2. QueueTypes'
        BY <1>3, <2>1 DEF TypeInv, QueueTypes, UpdateReturns, Tasks
    <2>3. BoxTypes' /\ (update \in [Updaters -> UpdateStates])'
        <3>1. modals # <<>> /\ modals' = Below /\ update' = [update EXCEPT ![Innermost] = NoUpdate]
            BY <1>3 DEF UpdateReturns
        <3>2. QED
            BY <3>1, BelowTyped, ReplacedTyped, NoUpdateTyped DEF TypeInv
    <2>4. QED
        BY <2>1, <2>2, <2>3, StillTyped DEF TypeInv
<1>4. CASE CloseErrorBox
    <2>1. UNCHANGED <<declined, lastPath, disk, update, workerVars, handling, lineVars, devVars,
                      events, tasks>>
        BY <1>4 DEF CloseErrorBox
    <2>2. DeskTypes'
        BY <1>4, <2>1 DEF TypeInv, DeskTypes, CloseErrorBox, OnDisconnect
    <2>3. BoxTypes'
        BY <1>4, BelowTyped DEF TypeInv, CloseErrorBox
    <2>4. ThreadTypes'
        BY <1>4, <2>1, AbortTyped DEF TypeInv, CloseErrorBox
    <2>5. QED
        BY <2>1, <2>2, <2>3, <2>4, StillTyped DEF TypeInv
<1>5. CASE CloseNoFirmwareBox
    <2>1. UNCHANGED <<conn, connectEnabled, updateEnabled, declined, lastPath, disk, workerVars,
                      commVars, lineVars, devVars, events, tasks>>
        BY <1>5 DEF CloseNoFirmwareBox
    <2>2. BoxTypes' /\ (update \in [Updaters -> UpdateStates])'
        BY <1>5, DialogTyped DEF CloseNoFirmwareBox
    <2>3. QED
        BY <2>1, <2>2, StillTyped DEF TypeInv
<1>6. CASE CloseRequiredBox
    <2>1. UNCHANGED <<conn, connectEnabled, updateEnabled, declined, lastPath, disk, workerVars,
                      update, commVars, lineVars, devVars, events, tasks>>
        BY <1>6 DEF CloseRequiredBox
    <2>2. BoxTypes'
        BY <1>6, BelowTyped DEF TypeInv, CloseRequiredBox
    <2>3. QED
        BY <2>1, <2>2, StillTyped DEF TypeInv
<1>7. QED
    BY <1>1, <1>2, <1>3, <1>4, <1>5, <1>6 DEF CloseWindow

\* A handler on the UI thread, the status timer, a file that changes.
LEMMA EventTyped ==
    ASSUME TypeInv, HandleEvent \/ StatusTimer \/ StatusGivesUp \/ DiskChanges
    PROVE  TypeInv'
<1>1. CASE HandleEvent
    <2>1. UNCHANGED <<conn, declined, lastPath, disk, workerVars, update, commVars, lineVars,
                      devVars>>
        BY <1>1 DEF HandleEvent
    <2>2. events' \in Seq({"connect", "reconnect", "load", "failed"})
        BY <1>1 DEF HandleEvent, TypeInv, QueueTypes
    <2>3. ASSUME NEW w \in Boxes, Len(modals) < MaxModals, modals' = Append(modals, w)
          PROVE  BoxTypes'
        <3>1. modals \in Seq({"error", "noFirmware", "required", "update"}) /\ Len(modals) \in Nat
            BY DEF TypeInv, BoxTypes
        <3>2. modals' \in Seq({"error", "noFirmware", "required", "update"})
              /\ Len(modals') = Len(modals) + 1
            BY <2>3, <3>1 DEF Boxes
        <3>3. Len(modals') <= MaxModals
            BY <2>3, <3>1, <3>2, Sizes
        <3>4. QED
            BY <3>2, <3>3 DEF BoxTypes
    <2>4. \/ \E w \in {"error", "noFirmware"} : ShowBox(w)
          \/ tasks' = Append(tasks, "load") /\ UNCHANGED <<modals, connectEnabled, updateEnabled>>
          \/ OnLoaded
        BY <1>1 DEF HandleEvent, OnConnected
    <2>5. CASE \E w \in {"error", "noFirmware"} : ShowBox(w)
        <3>1. BoxTypes' /\ UNCHANGED <<tasks, connectEnabled, updateEnabled>>
            BY <2>3, <2>5 DEF ShowBox, Boxes
        <3>2. QueueTypes'
            BY <2>2, <3>1 DEF TypeInv, QueueTypes
        <3>3. QED
            BY <2>1, <3>1, <3>2, StillTyped DEF TypeInv
    <2>6. CASE /\ tasks' = Append(tasks, "load")
               /\ UNCHANGED <<modals, connectEnabled, updateEnabled>>
        <3>1. QueueTypes'
            BY <2>2, <2>6 DEF TypeInv, QueueTypes, Tasks
        <3>2. QED
            BY <2>1, <2>6, <3>1, StillTyped DEF TypeInv
    <2>7. CASE OnLoaded
        <3>1. BoxTypes'
            <4>1. CASE Len(modals) < MaxModals /\ modals' = Append(modals, "required")
                BY <2>3, <4>1 DEF Boxes
            <4>2. CASE UNCHANGED modals
                BY <4>2, StillTyped
            <4>3. QED
                BY <2>7, <4>1, <4>2 DEF OnLoaded
        <3>2. QueueTypes'
            BY <2>2, <2>7 DEF TypeInv, QueueTypes, OnLoaded, Tasks
        <3>3. DeskTypes'
            BY <2>1, <2>7 DEF OnLoaded, TypeInv, DeskTypes
        <3>4. QED
            BY <2>1, <3>1, <3>2, <3>3, StillTyped DEF TypeInv
    <2>8. QED
        BY <2>4, <2>5, <2>6, <2>7
<1>2. CASE StatusTimer
    <2>1. UNCHANGED <<conn, uiVars, events, disk, workerVars, update, commVars, lineVars, devVars>>
        BY <1>2 DEF StatusTimer
    <2>2. QueueTypes'
        BY <1>2, <2>1 DEF TypeInv, QueueTypes, StatusTimer, Tasks
    <2>3. QED
        BY <2>1, <2>2, StillTyped DEF TypeInv, uiVars
<1>3. CASE StatusGivesUp
    <2>1. UNCHANGED <<modals, declined, lastPath, events, disk, tasks, workerVars, update,
                      handling, lineVars, devVars>>
        BY <1>3 DEF StatusGivesUp
    <2>2. DeskTypes'
        BY <1>3, <2>1 DEF TypeInv, DeskTypes, StatusGivesUp, OnDisconnect
    <2>3. ThreadTypes'
        BY <1>3, <2>1, AbortTyped DEF TypeInv, StatusGivesUp
    <2>4. QED
        BY <2>1, <2>2, <2>3, StillTyped DEF TypeInv
<1>4. CASE DiskChanges
    <2>1. UNCHANGED <<conn, uiVars, events, tasks, workerVars, update, commVars, lineVars, devVars>>
        BY <1>4 DEF DiskChanges
    <2>2. DeskTypes'
        BY <1>4, <2>1 DEF TypeInv, DeskTypes, DiskChanges, uiVars
    <2>3. QED
        BY <2>1, <2>2, StillTyped DEF TypeInv, uiVars
<1>5. QED
    BY <1>1, <1>2, <1>3, <1>4

\* The worker takes a task; an update reports, or opens the file.
LEMMA BeginsTyped ==
    ASSUME TypeInv, StartTask \/ \E u \in Updaters : OnProgress(u) \/ OpenHexFile(u)
    PROVE  TypeInv'
<1>1. CASE StartTask
    <2>1. UNCHANGED <<conn, uiVars, events, disk, bootloaderState, update, commVars, lineVars,
                      devVars>>
        BY <1>1 DEF StartTask
    <2>2. tasks \in Seq(Tasks) /\ tasks # <<>> /\ task' = Head(tasks) /\ tasks' = Tail(tasks)
          /\ step' = 1
        BY <1>1 DEF StartTask, TypeInv, QueueTypes
    <2>3. task' \in Tasks /\ tasks' \in Seq(Tasks)
        BY <2>2, RestTyped
    <2>4. "none" \notin Tasks
        BY DEF Tasks
    <2>5. QueueTypes'
        BY <2>1, <2>3 DEF TypeInv, QueueTypes
    <2>6. ThreadTypes'
        BY <2>1, <2>2, <2>3, <2>4 DEF TypeInv, ThreadTypes, commVars
    <2>7. QED
        BY <2>1, <2>5, <2>6, StillTyped DEF TypeInv, uiVars
<1>2. ASSUME NEW u \in Updaters, OpenHexFile(u) PROVE TypeInv'
    <2>1. UNCHANGED <<conn, uiVars, events, disk, tasks, workerVars, commVars, lineVars, devVars>>
        BY <1>2 DEF OpenHexFile
    <2>2. update[u] \in UpdateStates /\ disk \in Images \cup {NoImage}
        BY DEF TypeInv, DeskTypes
    <2>3. \/ update' = [update EXCEPT ![u] = [update[u] EXCEPT !.phase = "hung"]]
          \/ update' = [update EXCEPT ![u] = [update[u] EXCEPT !.source = disk]]
        BY <1>2 DEF OpenHexFile
    <2>4. \E v \in UpdateStates : update' = [update EXCEPT ![u] = v]
        <3>1. [update[u] EXCEPT !.phase = "hung"] \in UpdateStates
            BY <2>2, FileRecords, Zenon
        <3>2. [update[u] EXCEPT !.source = disk] \in UpdateStates
            BY <2>2, FileRecords, Zenon
        <3>3. QED
            BY <2>3, <3>1, <3>2, Zenon
    <2>5. (update \in [Updaters -> UpdateStates])'
        BY <2>4, ReplacedTyped
    <2>6. QED
        BY <2>1, <2>5, StillTyped DEF TypeInv, uiVars
<1>3. ASSUME NEW u \in Updaters, OnProgress(u) PROVE TypeInv'
    <2>1. UNCHANGED <<conn, uiVars, events, disk, tasks, workerVars, update, commVars, lineVars,
                      devVars>>
        BY <1>3 DEF OnProgress
    <2>2. QED
        BY <2>1, StillTyped DEF TypeInv, uiVars
<1>4. QED
    BY <1>1, <1>2, <1>3

\* A response on its way, or none.
LEMMA NoReplyTyped == NoReply \in Responses
BY DEF Responses

\* The requester of what is under way.
LEMMA ServedTyped ==
    ASSUME TypeInv, handling # Nobody
    PROVE  handling \in 0 .. Nobody /\ (handling = Worker => task # "none")
BY DEF TypeInv, ThreadTypes

LEMMA SenderTyped ==
    ASSUME NEW r \in 0 .. Depth
    PROVE  r \in 0 .. Nobody /\ r # Nobody
BY Sizes

LEMMA SendTyped ==
    ASSUME TypeInv, NEW r \in 0 .. Depth, Send(r)
    PROVE  TypeInv'
<1>1. r \in 0 .. Nobody /\ r # Nobody
    BY SenderTyped
<1>2. handling # r /\ (r = Worker => task # "none")
    BY DEF Send, HandleQEntry, SendFails, Sending
<1>3. CASE HandleQEntry(r)
    <2>1. UNCHANGED <<conn, uiVars, events, disk, tasks, workerVars, update, devVars>>
          /\ handling' = r /\ attempt' = 1 /\ Transmit(CommandOf(r))
        BY <1>3 DEF HandleQEntry
    <2>2. LineTypes'
        BY <1>1, <1>2, <2>1, OrderTyped, TransmitTyped DEF TypeInv
    <2>3. 1 \in 0 .. MaxAttempts + 1
        BY Sizes
    <2>4. ThreadTypes'
        BY <1>1, <1>2, <2>1, <2>3 DEF TypeInv, ThreadTypes, workerVars
    <2>5. QED
        BY <2>1, <2>2, <2>4, StillTyped DEF TypeInv, uiVars
<1>4. CASE SendFails(r)
    <2>1. UNCHANGED <<conn, uiVars, disk, tasks, commVars, lineVars, devVars>> /\ Gets(r, NoReply)
        BY <1>4 DEF SendFails
    <2>2. handling' = handling /\ attempt' = attempt
        BY <2>1 DEF commVars
    <2>3. handling' \in 0 .. Nobody /\ attempt' \in 0 .. MaxAttempts + 1 /\ handling' # r
        BY <1>2, <2>2 DEF TypeInv, ThreadTypes
    <2>4. QueueTypes' /\ ThreadTypes' /\ (update \in [Updaters -> UpdateStates])'
        BY <1>1, <1>2, <2>1, <2>2, <2>3, NoReplyTyped, GetsTyped
    <2>5. QED
        BY <2>1, <2>4, StillTyped DEF TypeInv, uiVars
<1>5. QED
    BY <1>3, <1>4 DEF Send

LEMMA CommTyped == ASSUME TypeInv, CommThread PROVE TypeInv'
<1>1. handling # Nobody /\ handling \in 0 .. Nobody /\ (handling = Worker => task # "none")
    BY ServedTyped DEF CommThread, Retry, RxAccept, GiveUp
<1>2. Nobody \in 0 .. Nobody /\ 0 \in 0 .. MaxAttempts + 1
    BY Sizes
<1>3. CASE Retry
    <2>1. UNCHANGED <<conn, uiVars, events, disk, tasks, workerVars, update, handling, devVars>>
          /\ attempt < MaxAttempts /\ attempt' = attempt + 1 /\ Transmit(CommandOf(handling))
        BY <1>3 DEF Retry
    <2>2. CommandOf(handling) \in Orders
        BY <1>1, OrderTyped
    <2>3. LineTypes'
        BY <2>1, <2>2, TransmitTyped DEF TypeInv
    <2>4. attempt' \in 0 .. MaxAttempts + 1
        BY <2>1, Sizes DEF TypeInv, ThreadTypes
    <2>5. ThreadTypes'
        BY <2>1, <2>4 DEF TypeInv, ThreadTypes, workerVars
    <2>6. QED
        BY <2>1, <2>3, <2>5, StillTyped DEF TypeInv, uiVars
<1>4. CASE RxAccept
    <2>1. UNCHANGED <<conn, uiVars, disk, tasks, toDev, devVars>>
          /\ toHost # <<>> /\ Gets(handling, Head(toHost)) /\ handling' = Nobody /\ attempt' = 0
        BY <1>4 DEF RxAccept
    <2>2. toHost \in Seq(Responses) /\ toDev \in Seq(Orders) /\ Len(toDev) \in Nat
          /\ Len(toDev) + Len(toHost) <= Capacity
        BY DEF TypeInv, LineTypes
    <2>3. PICK n \in 1 .. Len(toHost) : toHost' = SubSeq(toHost, n + 1, Len(toHost))
        BY <1>4 DEF RxAccept
    <2>4. /\ toHost' \in Seq(Responses) /\ Len(toHost') = Len(toHost) - n
          /\ Head(toHost) \in Responses /\ Len(toHost) \in Nat
        BY <2>1, <2>2, <2>3, RestTyped
    <2>5. Len(toDev) + Len(toHost') <= Capacity
        BY <2>2, <2>4, Sizes
    <2>6. LineTypes'
        BY <2>1, <2>2, <2>4, <2>5 DEF LineTypes
    <2>7. QueueTypes' /\ ThreadTypes' /\ (update \in [Updaters -> UpdateStates])'
        BY <1>1, <1>2, <2>1, <2>4, GetsTyped
    <2>8. QED
        BY <2>1, <2>6, <2>7, StillTyped DEF TypeInv, uiVars
<1>5. CASE GiveUp
    <2>1. UNCHANGED <<conn, uiVars, disk, tasks, lineVars, devVars>>
          /\ Gets(handling, NoReply) /\ handling' = Nobody /\ attempt' = 0
        BY <1>5 DEF GiveUp
    <2>2. QueueTypes' /\ ThreadTypes' /\ (update \in [Updaters -> UpdateStates])'
        BY <1>1, <1>2, <2>1, NoReplyTyped, GetsTyped
    <2>3. QED
        BY <2>1, <2>2, StillTyped DEF TypeInv, uiVars
<1>6. QED
    BY <1>3, <1>4, <1>5 DEF CommThread

\* What the device holds after a command is some image, nothing or a mixture.
LEMMA ProgrammedTyped ==
    ASSUME NEW old, NEW new \in Images \cup {NoImage}
    PROVE  Programmed(old, new) \in Contents
BY DEF Programmed, Contents

LEMMA DeviceTyped == ASSUME TypeInv, DeviceExecutes PROVE TypeInv'
<1> DEFINE cmd == Head(toDev)
<1>1. UNCHANGED <<conn, uiVars, events, disk, tasks, workerVars, update, commVars>>
      /\ toDev # <<>>
    BY DEF DeviceExecutes
<1>2. /\ mode \in {"app", "boot"} /\ flash \in [Records -> Contents] /\ resetAddr \in Contents
      /\ toDev \in Seq(Orders) /\ toHost \in Seq(Responses)
      /\ Len(toDev) + Len(toHost) <= Capacity
    BY DEF TypeInv, DeviceTypes, LineTypes
<1>3. /\ cmd \in Orders /\ Tail(toDev) \in Seq(Orders) /\ Len(Tail(toDev)) = Len(toDev) - 1
      /\ Len(toDev) \in Nat
    BY <1>1, <1>2, RestTyped
<1>4. cmd.img \in Images \cup {NoImage}
    BY <1>3 DEF Orders
<1>5. \A f \in Responses : Answer(f) => LineTypes'
    <2>1. SUFFICES ASSUME NEW f \in Responses, Answer(f) PROVE LineTypes'
        OBVIOUS
    <2>2. toDev' = Tail(toDev) /\ toHost' = Append(toHost, f)
        BY <2>1 DEF Answer
    <2>3. toHost' \in Seq(Responses) /\ Len(toHost') = Len(toHost) + 1 /\ Len(toHost) \in Nat
        BY <1>2, <2>1, <2>2
    <2>4. Len(toDev') + Len(toHost') <= Capacity
        BY <1>2, <1>3, <2>2, <2>3, Sizes
    <2>5. QED
        BY <1>3, <2>2, <2>3, <2>4 DEF LineTypes
<1>6. Checksum \in Contents
    <2>1. 1 \in Records
        BY UpdateOpsFacts DEF Records
    <2>2. QED
        BY <1>2, <2>1 DEF Checksum, Contents
<1>7. Reported \in States
    BY DEF Reported, States
<1>8. /\ {Ack, Nack, Data("crc", Checksum), Data("state", Reported),
          Data("version", NoImage), Data("other", NoImage)} \subseteq Responses
    BY <1>6, <1>7 DEF Responses
<1>9. LineTypes'
    <2>1. \E f \in {Ack, Nack, Data("crc", Checksum), Data("state", Reported),
                    Data("version", NoImage), Data("other", NoImage)} : Answer(f)
        BY DEF DeviceExecutes
    <2>2. QED
        BY <1>5, <1>8, <2>1
<1>10. \/ mode' = "boot" /\ UNCHANGED <<flash, resetAddr>>
       \/ mode' = BootMode(resetAddr) /\ UNCHANGED <<flash, resetAddr>>
       \/ flash' = [i \in Records |-> NoImage] /\ resetAddr' = NoImage /\ UNCHANGED mode
       \/ /\ flash' = [flash EXCEPT ![cmd.rec] = Programmed(@, cmd.img)]
          /\ UNCHANGED <<mode, resetAddr>>
       \/ resetAddr' = Programmed(resetAddr, cmd.img) /\ UNCHANGED <<mode, flash>>
       \/ UNCHANGED devVars
    BY DEF DeviceExecutes
<1> HIDE DEF cmd
<1>11. DeviceTypes'
    <2>1. CASE mode' = "boot" /\ UNCHANGED <<flash, resetAddr>>
        BY <1>2, <2>1 DEF DeviceTypes
    <2>2. CASE mode' = BootMode(resetAddr) /\ UNCHANGED <<flash, resetAddr>>
        BY <1>2, <2>2 DEF DeviceTypes, BootMode
    <2>3. CASE flash' = [i \in Records |-> NoImage] /\ resetAddr' = NoImage /\ UNCHANGED mode
        BY <1>2, <2>3 DEF DeviceTypes, Contents
    <2>4. CASE /\ flash' = [flash EXCEPT ![cmd.rec] = Programmed(@, cmd.img)]
               /\ UNCHANGED <<mode, resetAddr>>
        <3>1. Programmed(flash[cmd.rec], cmd.img) \in Contents
            BY <1>4, ProgrammedTyped
        <3>2. flash' \in [Records -> Contents]
            BY <1>2, <2>4, <3>1
        <3>3. QED
            BY <1>2, <2>4, <3>2 DEF DeviceTypes
    <2>5. CASE resetAddr' = Programmed(resetAddr, cmd.img) /\ UNCHANGED <<mode, flash>>
        BY <1>2, <1>4, <2>5, ProgrammedTyped DEF DeviceTypes
    <2>6. CASE UNCHANGED devVars
        BY <1>2, <2>6 DEF DeviceTypes, devVars
    <2>7. QED
        BY <1>10, <2>1, <2>2, <2>3, <2>4, <2>5, <2>6
<1>12. QED
    BY <1>1, <1>9, <1>11, StillTyped DEF TypeInv, uiVars

LEMMA LinkTyped == ASSUME TypeInv, LinkLoses \/ Unplug PROVE TypeInv'
<1>1. /\ toDev \in Seq(Orders) /\ toHost \in Seq(Responses)
      /\ Len(toDev) + Len(toHost) <= Capacity /\ Len(toDev) \in Nat /\ Len(toHost) \in Nat
    BY DEF TypeInv, LineTypes
<1>2. CASE LinkLoses
    <2>1. UNCHANGED <<conn, uiVars, events, disk, tasks, workerVars, update, commVars, devVars>>
        BY <1>2 DEF LinkLoses
    <2>2. CASE toDev # <<>> /\ toDev' = Tail(toDev) /\ UNCHANGED toHost
        <3>1. toDev' \in Seq(Orders) /\ Len(toDev') = Len(toDev) - 1
            BY <1>1, <2>2, RestTyped
        <3>2. Len(toDev') + Len(toHost') <= Capacity
            BY <1>1, <2>2, <3>1, Sizes
        <3>3. LineTypes'
            BY <1>1, <2>2, <3>1, <3>2 DEF LineTypes
        <3>4. QED
            BY <2>1, <3>3, StillTyped DEF TypeInv, uiVars
    <2>3. CASE toHost # <<>> /\ toHost' = Tail(toHost) /\ UNCHANGED toDev
        <3>1. toHost' \in Seq(Responses) /\ Len(toHost') = Len(toHost) - 1
            BY <1>1, <2>3, RestTyped
        <3>2. Len(toDev') + Len(toHost') <= Capacity
            BY <1>1, <2>3, <3>1, Sizes
        <3>3. LineTypes'
            BY <1>1, <2>3, <3>1, <3>2 DEF LineTypes
        <3>4. QED
            BY <2>1, <3>3, StillTyped DEF TypeInv, uiVars
    <2>4. QED
        BY <1>2, <2>2, <2>3 DEF LinkLoses
<1>3. CASE Unplug
    <2>1. UNCHANGED <<uiVars, events, disk, tasks, workerVars, update, handling, flash, resetAddr>>
          /\ conn' = FALSE /\ mode' = BootMode(resetAddr) /\ toDev' = <<>> /\ toHost' = <<>>
        BY <1>3 DEF Unplug
    <2>2. DeskTypes'
        BY <2>1 DEF TypeInv, DeskTypes, uiVars
    <2>3. ThreadTypes'
        BY <1>3, <2>1, AbortTyped DEF TypeInv, Unplug
    <2>4. LineTypes'
        <3>1. \A S : <<>> \in Seq(S)
            OBVIOUS
        <3>2. Len(<<>>) + Len(<<>>) <= Capacity
            BY Sizes
        <3>3. QED
            BY <2>1, <3>1, <3>2 DEF LineTypes
    <2>5. DeviceTypes'
        BY <2>1 DEF TypeInv, DeviceTypes, BootMode
    <2>6. QED
        BY <2>1, <2>2, <2>3, <2>4, <2>5, StillTyped DEF TypeInv, uiVars
<1>4. QED
    BY <1>2, <1>3

LEMMA TypeInit == ASSUME Init PROVE TypeInv
<1>1. DeskTypes
    BY DEF Init, DeskTypes
<1>2. BoxTypes
    BY Sizes DEF Init, BoxTypes
<1>3. QueueTypes
    BY DEF Init, QueueTypes
<1>4. ThreadTypes
    BY Sizes DEF Init, ThreadTypes, States
<1>5. update \in [Updaters -> UpdateStates]
    BY NoUpdateTyped DEF Init
<1>6. LineTypes
    BY Sizes DEF Init, LineTypes
<1>7. DeviceTypes
    BY DEF Init, DeviceTypes, Contents
<1>8. QED
    BY <1>1, <1>2, <1>3, <1>4, <1>5, <1>6, <1>7 DEF TypeInv

LEMMA TypeStep == ASSUME TypeInv, [Next]_vars PROVE TypeInv'
<1>1. ASSUME UNCHANGED vars PROVE TypeInv'
    <2>1. /\ UNCHANGED <<conn, connectEnabled, updateEnabled, declined, lastPath, disk>>
          /\ UNCHANGED modals /\ UNCHANGED <<events, tasks>> /\ UNCHANGED <<workerVars, commVars>>
          /\ UNCHANGED update /\ UNCHANGED lineVars /\ UNCHANGED devVars
        BY <1>1 DEF vars, uiVars
    <2>2. QED
        BY <2>1, StillTyped DEF TypeInv
<1>2. CASE Next
    BY <1>2, UserTyped, CloseTyped, EventTyped, BeginsTyped, SendTyped, CommTyped, DeviceTyped,
       LinkTyped DEF Next
<1>3. QED
    BY <1>1, <1>2

-------------------------------------------------------------------------------
(* Who waits for the mutex, or for ever: a dialog of an update that may begin *)
(* is one of those there is room for.                                        *)

WaitTypes ==
    /\ reporting \subseteq Updaters /\ stranded \subseteq 0 .. Depth
    /\ Innermost <= Depth

\* What becomes of the windows.
WindowsMove ==
    \/ modals' = modals
    \/ \E w \in Boxes : modals' = Append(modals, w)
    \/ modals # <<>> /\ modals' = Below
    \/ OpenDialog(<<>>)
    \/ modals # <<>> /\ OpenDialog(Below)

LEMMA WindowsSteps == ASSUME [Next]_vars PROVE WindowsMove
<1>1. CASE DeviceConnectFails
    <2>1. modals' = Append(modals, "error") /\ "error" \in Boxes
        BY <1>1 DEF DeviceConnectFails, Boxes
    <2>2. QED
        BY <2>1 DEF WindowsMove
<1>2. CASE DeviceConnect \/ PressUpdate
    BY <1>2 DEF DeviceConnect, PressUpdate, WindowsMove
<1>3. CASE CloseWindow
    BY <1>3 DEF CloseWindow, LeaveDialog, BeginUpdate, UpdateReturns, CloseErrorBox,
       CloseNoFirmwareBox, CloseRequiredBox, WindowsMove
<1>4. CASE HandleEvent
    BY <1>4 DEF HandleEvent, OnConnected, OnLoaded, ShowBox, Boxes, WindowsMove
<1>5. CASE StatusTimer \/ StatusGivesUp \/ StartTask \/ UNCHANGED vars
    BY <1>5 DEF StatusTimer, StatusGivesUp, StartTask, vars, uiVars, WindowsMove
<1>6. ASSUME NEW u \in Updaters, OnProgress(u) \/ OpenHexFile(u) PROVE WindowsMove
    BY <1>6 DEF OnProgress, OpenHexFile, uiVars, WindowsMove
<1>7. ASSUME NEW n \in 0 .. Depth, Send(n) PROVE WindowsMove
    BY <1>7 DEF Send, HandleQEntry, SendFails, uiVars, WindowsMove
<1>8. CASE CommThread
    BY <1>8 DEF CommThread, Retry, RxAccept, GiveUp, uiVars, WindowsMove
<1>9. CASE DeviceExecutes \/ LinkLoses \/ Unplug \/ DiskChanges
    BY <1>9 DEF DeviceExecutes, LinkLoses, Unplug, DiskChanges, uiVars, WindowsMove
<1>10. QED
    BY <1>1, <1>2, <1>3, <1>4, <1>5, <1>6, <1>7, <1>8, <1>9 DEF Next, User

\* How many dialogs there are.
LEMMA DialogsCounted ==
    ASSUME BoxTypes
    PROVE  /\ IsFiniteSet(OpenDialogs) /\ Innermost \in Nat
           /\ modals # <<>> /\ Top = "update" => Innermost >= 1
<1>1. modals \in Seq({"error", "noFirmware", "required", "update"}) /\ Len(modals) \in Nat
      /\ DOMAIN modals = 1 .. Len(modals)
    BY DEF BoxTypes
<1>2. IsFiniteSet(1 .. Len(modals))
    BY <1>1, FS_Interval
<1>3. IsFiniteSet(OpenDialogs)
    BY <1>1, <1>2, FS_Subset DEF OpenDialogs
<1>4. Innermost \in Nat
    BY <1>3, FS_CardinalityType DEF Innermost
<1>5. ASSUME modals # <<>>, Top = "update" PROVE Innermost >= 1
    <2>1. Len(modals) \in OpenDialogs
        BY <1>1, <1>5 DEF OpenDialogs, Top
    <2>2. Innermost # 0
        BY <1>3, <2>1, FS_EmptySet DEF Innermost
    <2>3. QED
        BY <1>4, <2>2
<1>6. QED
    BY <1>3, <1>4, <1>5

\* A dialog opens only where there is room for it.
LEMMA NestingStep ==
    ASSUME BoxTypes, BoxTypes', Innermost <= Depth, WindowsMove
    PROVE  Innermost' <= Depth
<1>1. modals \in Seq({"error", "noFirmware", "required", "update"}) /\ Len(modals) \in Nat
      /\ DOMAIN modals = 1 .. Len(modals)
    BY DEF BoxTypes
<1>2. IsFiniteSet(OpenDialogs) /\ Innermost \in Nat /\ Depth \in Nat
    BY DialogsCounted, Sizes
<1>3. ASSUME OpenDialogs' \subseteq OpenDialogs PROVE Innermost' <= Depth
    <2>1. /\ Cardinality(OpenDialogs') <= Cardinality(OpenDialogs)
          /\ Cardinality(OpenDialogs') \in Nat
        BY <1>2, <1>3, FS_Subset, FS_CardinalityType
    <2>2. QED
        BY <1>2, <2>1 DEF Innermost
<1>4. CASE modals' = modals
    <2>1. OpenDialogs' = OpenDialogs
        BY <1>4 DEF OpenDialogs
    <2>2. QED
        BY <1>3, <2>1
<1>5. ASSUME NEW w \in Boxes, modals' = Append(modals, w) PROVE Innermost' <= Depth
    <2>1. /\ DOMAIN modals' = 1 .. Len(modals) + 1 /\ modals'[Len(modals) + 1] = w
          /\ \A i \in 1 .. Len(modals) : modals'[i] = modals[i]
        BY <1>1, <1>5
    <2>2. OpenDialogs' \subseteq OpenDialogs
        BY <1>1, <2>1 DEF OpenDialogs, Boxes
    <2>3. QED
        BY <1>3, <2>2
<1>6. ASSUME modals # <<>>
      PROVE  /\ DOMAIN Below = 1 .. Len(modals) - 1 /\ Len(Below) = Len(modals) - 1
             /\ \A i \in 1 .. Len(modals) - 1 : Below[i] = modals[i]
             /\ Below \in Seq({"error", "noFirmware", "required", "update"})
    BY <1>1, <1>6 DEF Below
<1>7. CASE modals # <<>> /\ modals' = Below
    <2>1. OpenDialogs' \subseteq OpenDialogs
        BY <1>1, <1>6, <1>7 DEF OpenDialogs
    <2>2. QED
        BY <1>3, <2>1
<1>8. ASSUME NEW windows \in Seq({"error", "noFirmware", "required", "update"}),
             Len(windows) <= Len(modals),
             \A i \in 1 .. Len(windows) : windows[i] = modals[i], OpenDialog(windows)
      PROVE  Innermost' <= Depth
    <2>1. modals' = Append(windows, "update") /\ Innermost + 1 \in Updaters
        BY <1>8 DEF OpenDialog
    <2>2. /\ DOMAIN modals' = 1 .. Len(windows) + 1
          /\ \A i \in 1 .. Len(windows) : modals'[i] = windows[i]
        BY <1>8, <2>1
    <2>3. OpenDialogs' \subseteq OpenDialogs \cup {Len(windows) + 1}
        BY <1>1, <1>8, <2>2 DEF OpenDialogs
    <2>4. /\ IsFiniteSet(OpenDialogs \cup {Len(windows) + 1})
          /\ Cardinality(OpenDialogs \cup {Len(windows) + 1}) \in {Innermost, Innermost + 1}
        BY <1>2, FS_AddElement DEF Innermost
    <2>5. Innermost' <= Cardinality(OpenDialogs \cup {Len(windows) + 1})
        BY <2>3, <2>4, FS_Subset DEF Innermost
    <2>6. Innermost' \in Nat
        BY <2>3, <2>4, FS_Subset, FS_CardinalityType DEF Innermost
    <2>7. QED
        BY <1>2, <2>1, <2>4, <2>5, <2>6, Sizes DEF Updaters
<1>9. OpenDialog(<<>>) => Innermost' <= Depth
    <2> DEFINE none == <<>>
    <2>1. /\ none \in Seq({"error", "noFirmware", "required", "update"})
          /\ Len(none) = 0 /\ \A i \in 1 .. Len(none) : none[i] = modals[i]
        OBVIOUS
    <2>2. Len(none) <= Len(modals)
        BY <1>1, <2>1
    <2> HIDE DEF none
    <2>3. OpenDialog(none) => Innermost' <= Depth
        BY <1>8, <2>1, <2>2
    <2>4. QED
        BY <2>3 DEF none
<1>10. modals # <<>> /\ OpenDialog(Below) => Innermost' <= Depth
    BY <1>1, <1>6, <1>8
<1>11. QED
    BY <1>4, <1>5, <1>7, <1>9, <1>10 DEF WindowsMove

LEMMA WaitStep ==
    ASSUME TypeInv, TypeInv', WaitTypes, [Next]_vars PROVE WaitTypes'
<1>1. Innermost' <= Depth
    BY WindowsSteps, NestingStep DEF TypeInv, WaitTypes
<1>2. CASE UNCHANGED waitVars
    BY <1>1, <1>2 DEF WaitTypes, waitVars
<1>3. CASE DropConnection
    BY <1>1, <1>3 DEF WaitTypes, DropConnection
<1>4. CASE BeginUpdate
    <2>1. Innermost \in Updaters
        BY <1>4, DialogsCounted, Sizes DEF BeginUpdate, TypeInv, WaitTypes, Updaters
    <2>2. QED
        BY <1>1, <1>4, <2>1 DEF BeginUpdate, WaitTypes
<1>5. ASSUME NEW u, OnProgress(u) PROVE WaitTypes'
    BY <1>1, <1>5 DEF OnProgress, WaitTypes
<1>6. ASSUME NEW n \in 0 .. Nobody, n # Nobody, NEW f, Gets(n, f) PROVE WaitTypes'
    <2>1. CASE n = Worker
        BY <1>2, <1>6, <2>1 DEF Gets, WorkerGets, waitVars
    <2>2. CASE n # Worker
        <3>1. n \in Updaters /\ UpdateGets(n, f)
            BY <1>6, <2>2, UpdatersAre DEF Gets
        <3>2. reporting' \subseteq reporting \cup {n} /\ stranded' = stranded
            BY <3>1 DEF UpdateGets
        <3>3. QED
            BY <1>1, <3>1, <3>2 DEF WaitTypes
    <2>3. QED
        BY <2>1, <2>2
<1>7. CASE Next
    <2>1. CASE User
        BY <1>2, <1>3, <2>1 DEF User, DeviceConnect, DeviceConnectFails, PressUpdate, waitVars
    <2>2. CASE CloseWindow
        BY <1>2, <1>3, <1>4, <2>2 DEF CloseWindow, LeaveDialog, UpdateReturns, CloseErrorBox,
           CloseNoFirmwareBox, CloseRequiredBox, waitVars
    <2>3. CASE HandleEvent \/ StatusTimer \/ StatusGivesUp \/ StartTask
        BY <1>2, <1>3, <2>3 DEF HandleEvent, StatusTimer, StatusGivesUp, StartTask, waitVars
    <2>4. ASSUME NEW u \in Updaters, OnProgress(u) \/ OpenHexFile(u) PROVE WaitTypes'
        BY <1>2, <1>5, <2>4 DEF OpenHexFile, waitVars
    <2>5. ASSUME NEW n \in 0 .. Depth, Send(n) PROVE WaitTypes'
        <3>1. n \in 0 .. Nobody /\ n # Nobody
            BY SenderTyped
        <3>2. QED
            BY <1>2, <1>6, <2>5, <3>1 DEF Send, HandleQEntry, SendFails, waitVars
    <2>6. CASE CommThread
        <3>1. handling \in 0 .. Nobody
            BY DEF TypeInv, ThreadTypes
        <3>2. QED
            BY <1>2, <1>6, <2>6, <3>1 DEF CommThread, Retry, RxAccept, GiveUp, waitVars
    <2>7. CASE DeviceExecutes \/ LinkLoses \/ Unplug \/ DiskChanges
        BY <1>2, <2>7 DEF DeviceExecutes, LinkLoses, Unplug, DiskChanges, waitVars
    <2>8. QED
        BY <1>7, <2>1, <2>2, <2>3, <2>4, <2>5, <2>6, <2>7 DEF Next
<1>8. QED
    BY <1>2, <1>7 DEF vars

LEMMA WaitInit == ASSUME Init PROVE WaitTypes
<1>1. OpenDialogs = {}
    BY DEF Init, OpenDialogs
<1>2. Innermost = 0
    BY <1>1, FS_EmptySet DEF Innermost
<1>3. QED
    BY <1>2, Sizes DEF Init, WaitTypes

\* However many dialogs are nested and however late a response comes: the two
\* programs are not overrun by one response more, or by one attempt more, what
\* is taken for a bootloader state is one, and no more windows are open, or
\* frames under way, than there is room for (Task_FirmwareUpdate.cpp:40-90,
\* Task_Connect.cpp:3-42, Device.cpp:21-45).
THEOREM FirmwareTypeCorrect == Spec => []TypeOK
<1>1. Init => TypeInv /\ WaitTypes
    BY TypeInit, WaitInit
<1>2. TypeInv /\ WaitTypes /\ [Next]_vars => (TypeInv /\ WaitTypes)'
    BY TypeStep, WaitStep
<1>3. TypeInv /\ WaitTypes => TypeOK
    <2>1. ASSUME TypeInv, WaitTypes PROVE TypeOK
        BY <2>1 DEF TypeInv, DeskTypes, BoxTypes, QueueTypes, ThreadTypes, LineTypes,
           DeviceTypes, WaitTypes, Tasks, Contents, TypeOK
    <2>2. QED
        BY <2>1
<1>4. QED
    BY <1>1, <1>2, <1>3, PTL DEF Spec

===============================================================================
