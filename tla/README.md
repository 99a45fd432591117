# WSPRliteConfig: formal specification

WSPRliteConfig is the desktop program that configures a WSPRlite, a small radio
beacon on a USB serial port.  This directory holds TLA+ modules of the program,
the TLC configurations that model-check them, and proofs for TLAPS.  Paths are
relative to the repository; line numbers refer to its sources.

## 1. Inventory

The program has four kinds of thread: the UI thread of wxWidgets, one worker
thread of the `AsyncTaskRunner` in the `DeviceModel`, one communication thread
per `DeviceComm::Connection`, and the device at the other end of the line,
which is an actor as well.

| Component | State | Operations | Talks to |
|---|---|---|---|
| Serial framing, `attemptTx`, `attemptRx` of `common/Device.cpp` | the receive automaton | escape, checksum, parse | bytes of libserialport |
| Exchange, `handleQEntry` | loop counter, the entry, the port's input buffer | up to three times: flush, send, wait | device |
| Connection, `Device.cpp` | `txq`, `connValid`, `commThreadShouldStop`, the thread | `connect`, `disconnect`, `enqueue`, `send`, `commLoop`, destructor | callers (promise and future), UI thread |
| Queue entry | promise, callbacks, `isDone` | `handleResponse`, `addCallback`, `getResponse` | comm thread and caller |
| Task runner, `AsyncTaskRunner.cpp` | `q`, stop flag, thread | `enqueue`, `doWork`, `threadStop` | tasks |
| Device tasks, `Task_*.cpp` | a working copy of configuration or info | `task()`: a list of sends, then an assignment to `DeviceModel` | `DeviceCommTask::send`, handlers posted to the UI |
| `DeviceModel` | `conn`, `config`, `info`, `bootloaderState`, modes | none: members are read and written by both threads without a mutex | everybody |
| Main frame, `wsprlite-config.cpp` | enabled buttons, failure count | `deviceConnect`, `deviceLoad`, `deviceSave`, `onDisconnect`, `startStatusUpdate`, `doFirmwareUpdate` | task runner, settings box |
| Settings box, `ui/Box_WSPRSettings.cpp`, `ui/Ctl_*.cpp` | the controls' values, the derived levels and messages | one handler per control, `getFields`, `setFields`, `updateStatsLink` | `DeviceModel`, bands, PA bias, versions, DXplorer keys |
| Firmware update | the hex image, bootloader state | erase, program, verify, write reset address, reset | device |
| Hex file and flash image, `HexFile.cpp`, `VirtualFlash32` | memory, bounds, base address | parse a record, round the bounds, `getChecksum` (which also writes) | firmware update |
| Bands and frequencies, `WsprBand.cpp`, `RandomFreqGenerator.cpp` | tables | lookups, random frequencies | settings box |
| PA bias, `PaBias*` | nested tables of measurements | interpolation, reachable powers | settings box |
| Versions, callsigns, locators | none | comparison, feature gating, validation | settings box, tasks |
| DXplorer keys, `common/dxplorer.cpp` | none | pack and hash id, counter, callsign | settings box |
| `tools/timeslotgen.c` | none | choose the time slots of a transmission ratio | stand-alone |

What is hard in it:

* **Responses are anonymous.**  A frame does not say which command it answers
  (`techdoc/serial.md:59`); the host retries after a timeout; so late responses
  can be taken for the answer to a later command.
* **A failed call may have taken effect.**  The loss of a response is not
  distinguishable from the loss of the command.
* **A connection dies under its users.**  The UI thread closes, replaces and
  clears `deviceModel->conn` while the worker is inside a send.
* **A save is thirteen separate writes.**  It may fail or be killed between any
  two, and the device it writes to may change between any two.
* **The worker and the UI share `DeviceModel` without a mutex.**
* **The settings box is a web of handlers.**  Controls determine the contents of
  other controls; setting one from the program need not run the handler that a
  click would; reading a frequency may replace it.
* **Boundaries of numbers**: rounding of image bounds, shifts in packed lengths,
  the margins of random frequencies, interpolation outside a table, the digits of
  a run time that becomes a text and a number again.

What makes each component correct, in one line each: a caller gets the response
to its own command, and only commands that took effect are reported as such;
no queued entry is lost, doubled or overtaken, and every caller that waits is
answered; the destructor ends; the change counter of a device never goes back
and never names two callsigns; when Save can be pressed the program knows what
the device holds; Connect always becomes available again; a device whose
firmware update was interrupted stays in its bootloader; what the settings box
saves is allowed for the device and is what the box shows; nothing is received
that was not sent; what is verified is what was programmed; each calculation
agrees with its definition at the boundaries too.

## 2. Modules

| Module | Models | State and actions |
|---|---|---|
| `RemoteCall` | the promise of `Connection::send` on a prompt link | calls issued, returned, accepted, executed: `Call`, `Execute`, `ReturnAccepted`, `ReturnFailed` |
| `Exchange` | `handleQEntry`, `attemptTx`, `attemptRx`, `disconnect`, and the link and the device as their environment | `pc` and `attempt` are the loop's position; `rxBuf` is the port's input buffer; one action per outcome of `attemptTx` and `attemptRx` |
| `Exchange_proofs` | theorems about `Exchange`: the prompt link, any link, and the refinement of `RemoteCall` | |
| `Connection` | `DeviceCommTask::send`, `enqueue`, `commLoop`, `commThreadStop`, the destructor | one action per critical section or unprotected access of a caller, of the comm thread (`comm`) and of the owner (`owner`) |
| `Connection_proofs` | theorems about `Connection` | |
| `ConfigApp` | main frame, task runner's worker, connect, load and save tasks, `getFields`, `updateStatsLink`, the EEPROMs | buttons and boxes, posted handlers (`events`), `tasks` and the running `task` with its `step`, `stranded` once nobody will answer its send; one action per button, handler and message |
| `ConfigApp_proofs` | theorems about `ConfigApp` | |
| `MCConfigApp` | callsigns for instances of `ConfigApp` | |
| `FirmwareUpdate` | `Task_FirmwareUpdate`, `Task_Connect`, `Task_StatusCheck`, `FirmwareUpdate_runUi`, `doFirmwareUpdate`, the dialog, the bootloader | `modals` is the stack of message boxes and firmware dialogs, `update[u]` the update of the `u`-th nested dialog, `reporting` the update threads at an `onProgress`, `task` and `step` the worker's task; both send through one connection (`handling`, `attempt`), and `stranded` are those a dropped connection leaves waiting |
| `MCFirmwareUpdate` | symmetry of the images for instances of `FirmwareUpdate` | |
| `FirmwareUpdate_proofs` | theorems about `FirmwareUpdate` | |
| `SettingsBox` | `Box_WSPRSettings`, `Ctl_BandSelect`, `Ctl_OutputPowerSelect`, `Ctl_ReportPowerSelect`, `Ctl_BiasSelect`, `deviceSave` | `box` is a record of the controls' values, the texts of run time and repeat rate among them; one action per handler, which makes every change the handler makes in the order of the code; `Load` is `setFields` after a load task, `DeviceSave` is `getFields`, the 60 m question and the save |
| `MCSettingsBox` | two devices and excerpts of the tables for instances of `SettingsBox` | |
| `SettingsBox_proofs` | theorems about `SettingsBox` | |
| `Framing` | `attemptTx` and `attemptRx` over bytes | `line` is the stream of symbols, `rx` the local variables of `attemptRx`; `Receive` is one turn of its loop |
| `MCFraming` | messages whose bytes need escaping | |
| `HexImage` | `HexFile::parse`, `VirtualFlash32::set` and `roundBounds`, `getChecksum` | `flash`, `begin`, `end` are the image; one action per kind of record, one for the return of `parse`, one for `getChecksum` |
| `HexImage_proofs` | theorems about `HexImage` | |
| `Timeslots` | `tslots_randomAlloc_gen` and `main` of `tools/timeslotgen.c` | `slot` is the slot printed next, `txSlots` the bits of the batch; one action per turn of the loop |
| `WsprBand`, `Version`, `PaBias`, `KeyPacking` | the pure calculations of `WsprBand.cpp` and `RandomFreqGenerator.cpp`, `Version.cpp`, `PaBias*` and `MathUtil.cpp`, `dxplorer.cpp` | operators; the first three are used by `SettingsBox` |
| `MCCalculations` | the inputs of the calculations, and `Timeslots` step by step | `input` is what a calculation is asked |
| `PaBias_proofs` | theorems about `PaBias`, which the two modules of proofs that use it extend | |
| `Calculations_proofs` | theorems about `Timeslots`, `WsprBand`, `Version`, the runs of `MCCalculations`, `KeyPacking` and `Framing` | |

They are layers.  `Connection` treats an exchange as one step that
succeeds or fails; `Exchange` opens that step up.  `Exchange` on a prompt link
implements `RemoteCall` (property `ImplementsRemoteCall`), and `ConfigApp` is
built on exactly `RemoteCall`'s outcomes: a send either is answered and has
taken effect, or fails and may or may not have.  `FirmwareUpdate` keeps the
frames instead, because two threads share the connection and responses are told
apart only by their type: it has `Exchange`'s retry loop with one more sender.
Below `Exchange` is `Framing`, which shows what `Exchange` takes for granted of a
frame: it arrives as it was sent, or not at all.  Beside `ConfigApp` is
`SettingsBox`, which opens the one step in which `ConfigApp` reads the controls,
and takes loads and saves as single steps that succeed.  Beside `FirmwareUpdate`
is `HexImage`, which shows that the image whose words `FirmwareUpdate` treats
as one value is verified and written whole.

### Abstractions

* **Frames are atoms.**  A frame with a wrong checksum, a truncated or a half
  read frame is dropped silently by both ends and is a lost frame here.  A
  partial write is `TxFails`.
* **The field `from` of a frame** is the model's knowledge, not the program's:
  no guard of the host reads it.
* **Prompt link** (`LateReplies = FALSE`): by the time the host sends, the
  traffic of earlier attempts has been lost or has reached the host's input
  buffer, and the flush takes it from there.  `LateReplies = TRUE` drops this.
* **The flush** takes the `FlushFrames` oldest frames of the buffer, at least
  one.  A frame it cuts in two is a lost frame, so however long the frames are
  the 128 bytes destroy at least the oldest.
* **A use of a destroyed `Connection`** is undefined behaviour: the caller
  crashes, or goes on without any effect.
* **Configurations** are the callsign, the change counter and the number of the
  save that wrote each other variable; `Vars` selects the variables an instance
  tracks.  `SaveOrder` and `LoadOrder` keep the order of the code.
* **The data race** on `deviceModel->config` is modelled by assigning member by
  member; a UI read in between is remembered in `raced`.  The model reads a
  mixture of old and new members; a torn `std::string` has no TLA+ outcome, so
  properties that a race could break say so.
* **Modal boxes** disable the buttons while they are open, but posted handlers
  still run, which is what wxWidgets does.  The box about a required firmware
  update (`wsprlite-config.cpp:217`), which any load may show, is one of them.
* **`state.mtx` of `FirmwareUpdate_runUi`** is held across `progressDlg.Update`
  (`ui/FirmwareUpdate.cpp:53-58`), and so while a handler inside it keeps a window
  open.  An update thread is in `reporting` when it is about to call
  `onProgress`, and gets on only while its own window is the innermost
  (`StateMutexFree`).  Within `program` it calls at every tenth line
  (`ProgressBefore`): any record may be such a line.
* **Status checks** appear in `ConfigApp` as `StatusGivesUp`, which may happen at
  any time.  In `FirmwareUpdate` they are tasks as well, because their messages
  come between those of an update.
* **The bootloader** is not in this repository.  What is said of it is what the
  program relies on: it reports whether a reset address is programmed, starts
  the firmware only then, erasing clears the address and programming a record
  never writes it (`HexFile.cpp:123-127`, `techdoc/serial.md:158-169`).
* **Checksums** are equal only for equal contents, and no other response has the
  value of the checksum that `verify` expects.
* **A send on a connection that is closed** fails in `ConfigApp` and
  `FirmwareUpdate`.  When the last pointer to a connection is dropped, by a new
  connection or by `onDisconnect`, a sender whose command has not been taken up
  may instead be stranded for good (`DropConnection`), the case of which
  `AnsweredUnlessStranded` of `Connection` makes an exception: the single worker
  then waits for ever, with every task behind it.
* **Posted handlers run inside modal windows**, the progress dialog's
  `Update` included: wxWidgets dispatches pending events there.
* **The symbols of `Framing`** are bytes, except that a checksum, four bytes on
  the line, is one symbol and equals only the checksum of the same bytes; the
  lookup of its bytes in a CRC table is left out.  This is an assumption: a CRC does
  not detect every change, and then the program accepts what was not sent.
* **The address space of `HexImage`** is scaled down: 32 addresses, a reset
  address and a boot sector among them.  A record carries its base; decoding the
  hexadecimal digits is left out.
* **Texts in `SettingsBox`** are what the program tells apart: the kind of a
  callsign, the length of a locator, and whether normalising changes them.  The text
  of the longest run time is the number it stands for, in millionths of a day:
  `ShownDays` keeps the six significant digits of `doubleToString`
  (`StrUtil.cpp:61-66`), `ReadDays` the whole seconds of `getFields`
  (`Box_WSPRSettings.cpp:281`).  Where the doubles fall just below the exact value
  is given by two constants, `FallsShort` ("1.2" gives 103679 seconds) and
  `TiesDown`; the proofs hold for any.
* **An exception that nothing catches** ends the program: `alive` is FALSE and
  no action follows.
* **History variables of `SettingsBox`**: `touched` and `authored` say when a
  save must equal the load before it; `stale` and `typedBand` mark the two
  places where the program is known to fall behind (see Known divergences).
* **Tables of measurements** are constants: proofs hold for any, runs use excerpts
  in fixed point, so a bias may differ by one in its last digit from the floating
  point of the program.
* **Random numbers** are any number that the generator can return.

## 3. Runs

| Run | Question | Result |
|---|---|---|
| `exchange_prompt` | Does the retry loop implement `RemoteCall` and end, whatever is lost, refused or closed? | holds |
| `exchange_late` | What survives when traffic of old attempts may come late? | order of responses and of effects; only a timeout makes a stale response |
| `connection` | Is the queue faithful, does the destructor end, is everybody answered who can be? | holds |
| `config` | Do the counter and the links survive failures, kills and reconnections? | holds, up to torn saves, the race and a third save on top of two |
| `config_two` | Does the program know what the device holds, also when devices are swapped; does Connect come back? | holds; Connect unless a dropped connection strands the worker |
| `firmware` | Does the device ever start a partial image; does success mean that the chosen image is in it? | holds, with one update at a time |
| `firmware_live` | Do updates end, does Connect come back? | holds, unless the file is gone, the dialog is declined or a dropped connection strands a sender |
| `firmware_nested` | Is the reset address only written after the verification? | violated by a second update that erases and fails while the first waits |
| `settings` | Is what is saved allowed and reachable, does the box show what it saves, do saved settings survive? | holds, up to three known divergences |
| `framing` | Is nothing received that was not sent, and is the next frame found after noise? | holds, unless an ESC stands just before its START |
| `hex_image` | Are the bounds right, is every byte verified, does the checksum leave the image alone? | holds, unless the image is all above the reset address |
| `calculations` | Are batches fair, keys decodable, random frequencies in their band, biases within the measurements? | holds |

Bounds.  `exchange_*` use three commands: one that leaves a late response, one
that takes it, and one that shows the shift persists.  Two attempts are enough
for a retry.  A flush of one frame is the least the code does, so it allows the
most stale frames.  `connection`
uses two callers, which is what the order of a queue needs (the program has one
worker thread; two are stricter), and two sends each, so that a caller meets
the connection before and after it died.  `config` has one device, three saves,
three connections and two failures or kills, since the shortest way in which a
third save goes wrong needs three of each of the first two; it tracks only the
callsign and the counter, which is all its properties are about.  `config_two` has
two devices, two saves, two connections and one failure, and tracks a third
variable, so that a load or save is seen half done before and after the callsign.
Counters start at 0, 1 (a new device) or above; two callsigns, in `config` also in
spellings that differ by case and by a trailing blank, and none.

`firmware` has two records, the least that can be written in part, two images,
which are interchangeable (`ImageSymmetry`), and two attempts; three presses of
Connect or Update are what it takes to start an update while a connecting task
runs (connect, connect again, update), and one mishap (the cable pulled, the
connection given up, the file replaced or removed) may hit anywhere.  On a
prompt link one frame at a time is under way, so `Capacity` is 1 without loss of
generality.  `Depth` is 1 there: with two nested dialogs `BootsWholeImage` is
false, which is what `firmware_nested` shows; with `LateReplies` a stale ACK of
an earlier exchange can stand for the one of EraseAll and
`ErasedStaysInBootloader` is false too, which is the first of the known
divergences below.
`firmware_live` needs only one image.  `firmware_nested` has the three presses
its trace takes (connect, connect again, update) and one attempt per command,
which is enough for the second update to fail.

`settings` has a Classic with firmware too old for 630 m and for extended WSPR,
and a Flexi with new firmware, which take turns, so that each is shown with what
the other left in the controls; three configurations that a device may hold (new,
set up, and on 60 m with an unusual report); one band of each kind that is
treated differently (offered only by one device, 60 m, known only to newer
firmware); and three edits or loads before, between and after which a save may
come: the longest known way into trouble is load, type, load, save.  The run times
held and typed are none, whole days and such as lose a second in one round trip
and another in the next (86886, 86885, 86884 seconds).  One value is
drawn at random for a band, its centre: `BandsKept` and `GeneratedStaysInBand` show
that the others lie in the band too.  `framing` sends two messages and
disturbs the bytes twice, since a disturbance that matters is one in a frame and
one between it and the next; a payload has bytes that must be escaped and one
that looks escaped.  `hex_image` has up to three records of up to one word,
aligned and not, below, across and above the reset address, and across the boot
sector; the second `getChecksum` sees what the first left.  `calculations` prints two
batches for each of the 101 rates; keys are made of all pairs of integers of up
to eight digits as a `uint64_t` has, of two values each instead of 256.

Deadlock checking is off in all runs: the bounds make every instance stop, and
the real program is idle whenever the user does nothing.

Fairness.  `Exchange`: weak fairness of the communication thread, justified by
the timeouts of `sp_blocking_write` and of `attemptRx`'s loop; no fairness for the
device or the link.  `Connection`: weak fairness of each caller inside a send,
of the comm thread and of the destructor, which are running threads; nobody has
to send, close or release, and no spurious wakeup is owed.  `ConfigApp`: weak
fairness of the worker (its sends end, see `Exchange`, unless it is stranded: no
action of it is enabled then, and nothing is owed) and of the handlers on
the UI thread, a modal box being closed at last.  `FirmwareUpdate`: the same, and
strong fairness of each sender, since the queue of the connection is first in
first out (`NothingDropped` of `Connection`) and so no sender is overtaken for
ever by the other; an update thread gets `state.mtx` once its window is the
innermost, since the UI thread sleeps between two turns without it; nothing is
owed by the device or the line.

### Finding

A firmware update started while a connecting task runs lets that task's handler
start a second update inside the progress window of the first
(`wsprlite-config.cpp:329`, against `HexFile.cpp:124-125`).  Run `firmware_nested`
shows it, with `Depth` 2: Connect is pressed again, and Update, which stays
enabled, while the connecting task waits.  The update erases; the task then finds
a bootloader without firmware.  The update programs and reports that it verifies,
and the handler opens its box and the second dialog inside `progressDlg.Update`.
The thread of the first update gets its checksum, finds it right, and waits for
`state.mtx` at its next `onProgress` (`Task_FirmwareUpdate.cpp:80`).  The second
update erases the device and fails (its response is lost), its window closes,
and the first goes on and writes the reset address: the device starts firmware
that has been erased.

### Known divergences

The properties of the passing runs make these exceptions, and no others; each
exception is where the program can leave the documented behaviour.

* A late response answers the retry and shifts all later responses by one
  (`Device.cpp:32`, against `techdoc/serial.md:59`): `StaleNeedsTimeout` says that it
  takes a timeout.
* A send never returns if the connection is destroyed while its entry is queued
  (`Device.cpp:325-348`): `AnsweredUnlessStranded`.  If it is the worker's, no task
  runs any more and Connect may stay off until the program ends; if it is an
  update's, its window stays: `stranded` in `ConnectReturns`, `UpdateEnds` and
  `ConnectReturnsUnlessDeclined`.
* A device without firmware whose dialog is cancelled leaves Connect off
  (`wsprlite-config.cpp:447-459`): `declined` in `ConnectReturnsUnlessDeclined`.  A hex
  file that is gone hangs its reader (`HexFile.cpp:47`): `Hung` in both properties.
* A save that fails between the callsign and the counter makes two callsigns
  share a counter (`Task_WSPRSave.cpp:8-19`): `torn` in `KeyClashOnlyIfTorn` and
  `LoweredOnlyIfTorn`.
* Three saves under way at once take the counter back, although the device is one
  and nothing fails to be written whole: `getFields` counts from the configuration
  the `DeviceModel` holds, which is that before all three, and `Task_WSPRSave`
  corrects the counter only when the callsign differs from the one before.  If the
  third save has the callsign of the second, with the counter made for the state
  before the first, nothing corrects it (`Task_WSPRSave.cpp:16-19`, against
  `techdoc/cfgvars.md:7`, where the counter counts the changes of the callsign).
  Three saves get under way when loads queued earlier re-enable Save twice
  (`wsprlite-config.cpp:214`).  TLC found it, in 62 steps, after a proof for any
  number of saves had failed; `crowded` in the same two properties.
* Save followed by Connect writes one device's settings to another and may lower
  its counter (`wsprlite-config.cpp:298`): the run of `LoweredOnlyIfTorn` has one
  device; the run with two checks `SettledInSync`, which holds all the same.
* `setFields` selects the loaded power among the levels that were offered for the
  settings before (`Box_WSPRSettings.cpp:314`, rebuilt at 334): `stale` in
  `SavedSettingsSurvive`.
* The longest run time does not survive its text (`Box_WSPRSettings.cpp:281, 319`,
  `StrUtil.cpp:61-66`): "1.157" is saved as 99964 seconds and shown as 1.15699, and
  the next save, with nothing touched, writes 99963.  Run times of a day and more
  lose seconds at each of several round trips until the text and its seconds agree;
  a control that is entered and left rounds its text to three decimals besides.
  `SavedSettingsSurvive` bounds the change by one second and half of the last
  digit (`RoundTrips`).
* A typed frequency in another band leaves the offered powers and the message
  about filter data as they were (`Box_WSPRSettings.cpp:472`): `typedBand` in
  `PowerWithinReach` and `DerivedUpToDate`.
* An ESC just before a START hides a frame (`Device.cpp:139-144`): the condition of
  `Resynchronises`.
* The bounds of an image that lies all above the reset address are read before
  the erasing moves its beginning (`HexFile.cpp:128-133`): the condition of
  `EveryByteVerified`.

## 4. Proofs

All proofs are checked by TLAPS with no assumption beyond the named assumptions
on the constants and those a theorem states.  A theorem that `PROJECT.json` lists with
a property states one that a run checks, for every value of the constants; the others
(lemmas on pure functions, and what `Connection_proofs` and `ConfigApp_proofs` say
of waiting callers and of the Connect button) have no run of their own.  Of the
assumptions on the constants, those of `SettingsBox` say that a device has
firmware that `supports_device` allows on it and holds some configuration, and that
the tables of `biasData` let every device send on every band at some level
(`LevelsAssumption`); that of `PaBias` (`TableAssumption`) that the tables of
`biasData/inc` are finite and the two without filter are not empty.

`Exchange_proofs`: `TypeCorrect`; `CallersGetTheirOwnResponse`, that on a prompt
link (`~LateReplies`) every response reaches the caller of its command; and
`AcceptedCommandsWereExecuted`.  `RightResponse` alone is not inductive.  The
strengthening `PromptInv` has four parts: `TypeInv` (`TypeOK`, and that a command is
sent at most once per attempt, and never before its turn), `OneFrame` (at most
one frame is under way), `CurrentFrame` (while the host waits it is the current
command's) and `TruthfulFrames` (a response that is no NACK tells of an execution
and has the type its caller expects).  `OneFrame` is where the prompt link and
the flush of at least one frame are used.

The same module proves, for any link, `AnswersStayInOrder` and `DeviceNeverGoesBack`.
The invariant `OrderInv` says that the responses handed out, the receive buffer, the
two directions of the line and the current command form one queue in the order
of the commands, from which a loss, the flush and the dropped rest of a read only
take.  The order of the device's executions follows from the order of the queue
and not the other way round.

`StaleResponsesNeedATimeout`, for any link, counts frames.  `StaleInv` says that calls
return in order (`ReturnsInOrder`) and, of each command (`FramesCounted`), that there
is nothing of it on the line before it was sent, one frame at most if it was sent
once, and after it returned anything only if some command up to it was sent twice
or failed.  So the first response that is taken by the wrong caller was left over
by a timeout.

`ExchangeImplementsRemoteCall`, for a prompt link.  `CallInv`
adds to `PromptInv` that calls return in order, and that a command under way has
not been accepted yet: this makes a second execution, after a lost response, one
of `RemoteCall`'s.  The refinement mapping is that of `RC` in `Exchange`.

`Connection_proofs`: `TypeCorrect` and `QueueIsFaithful`, that what was pushed is
what was answered, then the entry in hand, then the queue.  The inductive
invariant is `ConnInv == TypeOK /\ InHand /\ NothingDropped`, where `InHand` says
that the comm thread has an entry in hand exactly while it makes the exchange
and hands out the response.

`WakeupsAreNotLost`, `WaitersAreServed` and `OneResponseEach` are the safety half of
the two liveness properties of the run, for any set of callers.  While the comm
thread sleeps in `txqCV.wait`, a caller that has pushed an entry, or a destructor that
has set the flag, has still to notify it (`NoLostWakeup`; the flag is set and the queue
is pushed to under the mutex of the wait).  A caller that waits without a response has
its entry in the queue or in hand unless the destructor is through (`WaitersPending`),
so the destructor is the only way to strand one.  A response that was given is not
replaced while its caller is inside `send` (`ResponsesStay`).  `WaitInv` adds to
`ConnInv` how flag, destructor and thread belong together (`OwnerInv`) and that
entries in the queue and in hand are one each, of callers inside `send` without a
response (`EntriesInv`).  That whoever is owed a wakeup or a response gets it takes
fairness, and is what TLC checks.

`FirmwareUpdate_proofs`: `BootsOnlyWholeImages`, `ErasedIsRecognised` and
`SuccessIsReal`, for one dialog (`Depth = 1`) and a prompt link, any images,
records, attempts, tasks and mishaps.  Both conditions are needed (see Bounds).
`FirmwareInv` says that there is at most one dialog (`Windows`); that the line
holds one frame (`OneFrame`); that a command under way is its sender's, that
one which writes is the update's if anything depends on it, and that a reset
address under way is that of an image which is whole in the device (`Commands`);
that a response under way tells the update what the device holds now (`Answers`);
that a device with a reset address holds the whole image and one without is in its
bootloader (`Device`); and how far the update is (`Progress`).  A retry may
execute a command twice, and a sender that has given up may leave its command on
the line; `Commands` is what makes both harmless.

`FirmwareTypeCorrect` needs neither condition: with any number of nested dialogs and
a link of any lateness the steps of the two programs and the attempts are not
overrun, windows and frames stay within their bounds, and `bootloaderState` is a
state.  `TypeInv` adds to `TypeOK` what frames on the line hold, since `parse_int_le`
takes a state from them and the device an image, and that the worker has a task
while the communication thread serves it, since the task's name is what it posts.

`ConfigApp_proofs`: `KnowsTheDevice`, for any devices, callsigns, variables, saves,
connections and failures.  `SettledInv` says that whenever there is a connection, a
cure is under way (`Cure`: an open error box or an error about to be shown, which
will drop the connection, or a connect or load that is queued, running or about to
be, which will read the device again) or the program is `InStep`: without a task the
`DeviceModel` is the device; during a load, what has been read is what the device
holds; during a save, what has been sent is; and what has been assigned is what was
read or sent.  A lemma about the two orders of messages shows that a finished load
or save has covered every variable, and a load the `DeviceId`.

`LinksNeverClash` and `CounterNeverFalls`, for one device (`OneDevice`; with two, a save
followed by Connect takes the counter of the second back, see above), any callsigns,
saves, connections, failures and kills.  `CounterInv` follows every copy of the counter,
as long as nothing in the history excuses a clash (`Calm`).  A configuration that a save
carries was made by `getFields` from the configuration before it (`Fresh`), or from the
one before that (`Acceptable`): the first of two saves may run while the second is
queued, and the second was made from a configuration that is no longer the one.
`Corrected` says what `Task_WSPRSave` has made of a counter by the time it is sent, and
`QueueInv` that there are never more than two such saves.  `AgreeInv` says how the
`DeviceModel` and the device differ while a task runs; `KeysInv` that every link shown is
no later than what the device holds and, while it is being written, what it held.  Here
`crowded` is needed: with a third save, `Acceptable` is false of the one queued last.

`ConnectIsNeverForgotten`, for any devices, tasks, failures and kills, is the safety
half of `ConnectReturns`: the Connect button is off only while something is owed that
would enable it (`Owed`): an open box, a posted handler other than that of a successful save,
a connecting or loading task, or a queued task of these kinds.  The invariant is inductive
beside `Types`; the step that matters is that each of these hands on to another or to
the handler that enables the button.  A task behind a stranded send is owed and
never gets its turn; that is the exception `ConnectReturns` makes.

`CounterStaysInRange`, that `TypeOK` holds, for any number of devices and with
no such excuse: how far can the counter get?  `LimitInv` bounds it by the largest
initial counter and the saves that the worker has taken up (`Begun`, the saves pressed
less those queued), and a save in the middle of its messages has not reached the
`DeviceModel` yet.

`SettingsBox_proofs` has three invariants, one on top of the other.  `FreqInv`
(`EverySavedFrequencyAllowed`, `EverySixtyMetresConfirmed`) says
that the controls of band and frequency are consistent whenever a
device has been loaded (the frequency lies in the selected band, which the device
offers) and that `deviceModel->config` has the frequency the device holds.  That
bands do not overlap is a lemma about the table.  `BoxesInv` (`TypeCorrect`,
`DerivedStaysUpToDate`, `EverySavedPowerWithinReach`, `EverySavedBandSupported`) adds that
every control shows something it offers, that the offered levels and the messages are
those of the shown source and frequency unless a frequency was typed in another band,
and that the band is one the firmware knows or the configuration was in; each handler
is shown to leave the box so in whatever order it calls the others.  `SurviveInv`
(`SavedSettingsAreKept`) adds that a configuration the program has written is a fixed
point of normalising (`Authored`), and that a box which nobody has used since the load
would write exactly what the device holds, but for a run time within `RoundTrips` and,
where `stale` or the reach of the controls excuses it, the powers and the bias.  That one round
trip through the text stays within it is `RunTimeReturns`, by division with remainder
in each of the four ranges of `LastDigit`.  All are for any tables, devices,
firmware, held configurations and inputs.

`PaBias_proofs`: `InterpolationBetween`, that an interpolated value
lies between its neighbours; and `EveryBiasWithinTable`, that whatever the nested tables
are asked, a bias lies between the smallest and the largest that was measured, and
more power never takes less of it.  The argument goes up through the levels: between
two powers, at one frequency, between two frequencies, and the choice of the table.
The second half has a hypothesis, `TablesRise`: at each measured frequency, at the
drive strength that is used, more power took at least as much bias.  All rows of
`biasData/inc` meet it; across drive strengths they do not.  Frequencies in kHz
keep the rows of each frequency together, as Hz do.

`HexImage_proofs`: `BoundsAreRight`, `VerifySeesEveryByte` and `ChecksumKeepsImage`, for
any address space, records and word size.  `ImageInv` says that the bounds
enclose the image, are inside the address space, and are aligned at the beginning
once the file is loaded.

`Calculations_proofs`: `EveryBatchFair`, for any number of slots (`SlotsInv`: slots are
printed in whole batches, and bits taken plus bits still to take are the batch's
share); `GeneratedStaysInBand`; `EveryBiasBounded`, which is `EveryBiasWithinTable` for
the run's property; `VersionsOrdered`, that the comparison of versions is
a strict total order in which `==`, `>`, `<=` and `>=` are what they say, which has no
run: TLAPS does it for all numbers.

The same module proves, of `Framing`, the three properties of its run, for any
messages of a type that `device/MsgType.hpp` may have, any payloads, noise, number of
messages and number of disturbances.

* `FramesResynchronise`.  `FramesTypes` says what `attemptRx`'s variables may be.  From
  any such state but the one behind an ESC, the START of a frame sets them to what a
  new call has, and from there the loop goes through the frame: after `i` of the summed
  bytes it has stored exactly those (`Part`), however many of them were escaped, and
  the checksum comes last.  `Escaped` is decided byte by byte, so where each byte lies
  in the line depends on all before it; `FrameLaidOut` keeps account of that.
* `FramesRoundTrip`.  While nothing has been disturbed the line is the unread rest of
  one frame followed by whole frames (`Undisturbed`, `Delivery`), `rx` is the part of
  the first that was read, and the messages accepted are the first ones sent.
* `FramesNotInvented`.  With disturbances little can be said of the bytes, but a checksum
  on the line is always one that was sent, and a loss, a change or an insertion takes
  checksums away and never turns two of them round.  `Sourced` says so: the checksums
  that lie ahead (first the one that `rx` holds, then those of the line) belong to messages
  sent later than any that was accepted, in rising order (`SumsFrom`, `AcceptedFrom`).
  An accepted message has the one that `rx` holds as its own (`SummedInjective`: equal
  sums are sums of equal messages), and the next START forgets it.

Of `KeyPacking` it proves `EveryKeyDecodes`, for any radix and up to eight bytes, and
with it `KeysAlwaysDecode`, the property of the run: the bytes of a number, weighted
with powers of the radix, give the number back (`NumberOfStored`), there are no more of
them than three bits can count (`StoredBytes`), and the two parts of a key are cut out
where they were put together (`PrefixParts`).

Both are about loops, which are recursive functions here.  That such a function
exists, follows its recursion and is the only one that does is proved by looking at
the least number at which it might not (`WFMin` of the library on the natural numbers);
so is what holds after each turn.  The prover cannot use the library's theorems of
induction, which have an operator as a parameter, so each of these arguments is made
for the set of numbers it is about.

Only model-checked: all liveness and everything with ENABLED, which are out of
the prover's reach (of `AnsweredUnlessStranded`, `DestructorEnds` and `ConnectReturns` the
safety half is proved, see above); and `FirmwareUpdate` with nested dialogs, whose safety is false
(see Finding).  Every invariant of the other passing runs is a theorem.

## 5. Not modelled

* The callbacks of a queue entry: nothing in the program calls `addCallback`; the
  promise is in `Connection`.
* SHA-256 and base64 behind the DXplorer keys, the CRC's table, and the decoding
  of the digits of a hex file with their line checksums.  The shift of extended
  segment records (`HexFile.cpp:85`) is part of the base in the model.
* `supports_msg` of `Version.cpp`, and reading versions from bytes; of
  `supports_device`, that it is asked before an update (it is an assumption on the
  instances).
* How likely each random frequency is (`FreqUsageData`).
* The construction and destruction of the window, the end of the program with the
  worker thread holding the last reference to the `DeviceModel`
  (`AsyncTaskRunner.cpp:25`), and the count of failed status checks
  (`wsprlite-config.cpp:389`): in the models a connection may be given up at any time.
* Arguments of `timeslotgen`, validators' expressions and limits, other formatting,
  layout.
* Wrappers of libserialport and wxWidgets; the RF test, whose button is commented
  out, and the factory reset task, which no window creates.

`PROJECT.json` lists each component with its reason.

## 6. Plan

What is left, the most valuable first:

1. `AppSession`: the status checks with their failure count across connections,
   error handlers that outlive their connection, and the end of the program.
2. `FirmwareUpdate`: the weakest condition on the line under which
   `BootsWholeImage` still holds with late replies; and the safety half of
   `ConnectReturnsUnlessDeclined` as a theorem.
3. `RemoteCall`'s own promises (accepted implies executed, calls return in order)
   as theorems, carried over to `Exchange` by the refinement.
