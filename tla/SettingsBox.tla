---------------------------- MODULE SettingsBox -----------------------------
(***************************************************************************)
(* The box of WSPR settings: its controls, the settings derived from them, *)
(* and the round trip of a configuration through load, edit and save       *)
(* (ui/Box_WSPRSettings.cpp, ui/Ctl_*.cpp, WSPRConfigFrame::deviceSave).   *)
(*                                                                         *)
(* Loads and saves are single steps that succeed; ConfigApp opens them up. *)
(* Texts are records that tell what the program tells apart: the kind of a *)
(* callsign, the length of a locator, and whether normalising would change *)
(* them (raw).                                                             *)
(***************************************************************************)
EXTENDS WsprBand, Version, PaBias

CONSTANTS
    Devices,       \* the WSPRlites that can be plugged in
    ProductId,     \* [Devices -> {1, 2}]: Classic or Flexi
    Firmware,      \* [Devices -> FirmwareVersions]
    Held,          \* the configurations a device may hold at first
    PickedBands,   \* bands the user chooses
    TypedFreqs,    \* what the user types as frequency: an integer, or NoText
    Reports,       \* reported powers the user chooses
    Calls,         \* callsigns the user types
    Locators,      \* locators the user types
    TypedDays,     \* what the user types as longest run time: a text, or NoText
    TypedRates,    \* what the user types as repeat rate: percent, or NoText
    FallsShort,    \* texts of run times: see ReadDays
    TiesDown,      \* run times: see ShownDays
    Offsets,       \* distances from the band's centre that may be generated
    MaxEdits,      \* bound on user actions and loads
    NoDevice

AllLevels == {7, 10, 13, 17, 20, 23}
NoPower == 0                 \* wxNOT_FOUND of the output power control
NoSource == "none"           \* wxNOT_FOUND of the bias control
SameAsOutput == -1           \* "no external amplifier"
NoText == -1
ReportLevels == {10 * ten + one : ten \in 0..5, one \in {0, 3, 7}}

Callsign == [kind : {"basic", "compound", "invalid"}, raw : BOOLEAN]
Locator == [len : {0, 4, 5, 6}, raw : BOOLEAN]
Config == [call : Callsign, loc : Locator, freq : Nat, out : Int, rep : Int,
           source : Sources \cup {"other"}, bias : Int, counter : Nat,
           maxRuntime : Nat, transmitPercent : 0..255,
           cwFreq : Nat, cwCall : BOOLEAN, force : BOOLEAN]

\* Run times, in seconds, whose text has at most six decimals: none, or a tenth of
\* a day to 1000 days.  The validator admits up to 45 days.
PlainRunTime(s) == s = 0 \/ (8640 <= s /\ s < 86400000)

ASSUME SettingsAssumption ==
    /\ ProductId \in [Devices -> {1, 2}]
    /\ Firmware \in [Devices -> FirmwareVersions]
    /\ \A d \in Devices : SupportsDevice(Firmware[d], ProductId[d])
    /\ Held \subseteq Config /\ Held # {}
    /\ PickedBands \subseteq WsprBands
    /\ TypedFreqs \subseteq Nat \cup {NoText}
    /\ Reports \subseteq ReportLevels \cup {SameAsOutput}
    /\ Calls \subseteq Callsign /\ Locators \subseteq Locator
    /\ \A cfg \in Held : PlainRunTime(cfg.maxRuntime)
    /\ \A t \in TypedDays \ {NoText} : t \in Nat /\ PlainRunTime((54 * t) \div 625)
    /\ TypedRates \subseteq {NoText} \cup 1..50
    /\ FallsShort \subseteq Nat \ {0} /\ TiesDown \subseteq Nat \ {0}
    /\ Offsets \subseteq Int /\ 0 \in Offsets
    /\ MaxEdits \in Nat
    /\ NoDevice \notin Devices

VARIABLES
    alive,      \* FALSE: an exception has ended the program
    device,     \* the device whose info is in the DeviceModel
    enabled,    \* WSPRCtlsEnabled
    stored,     \* what each device holds
    model,      \* deviceModel->config
    box,        \* the values of the controls
    last,       \* history: the last save
    notes,      \* history: see Notes
    edits

vars == <<alive, device, enabled, stored, model, box, last, notes, edits>>

MsgTexts == {"unsupported", "None", "Type1", "Type1, locator too short", "Type1_3",
             "Type2_3"}

\* box.sel and box.source are what is selected, freq is Ctl_BandSelect::freq,
\* freqText the text of the frequency control; maxDuration is the text of the run
\* time, as millionths of a day; noData and msgTypes are messages.
Box == [freq : Nat, sel : WsprBands \cup {NoBand}, freqText : Nat \cup {NoText},
        levels : SUBSET AllLevels, power : AllLevels \cup {NoPower},
        report : ReportLevels \cup {SameAsOutput}, source : Sources \cup {NoSource},
        call : Callsign, loc : Locator, cw : BOOLEAN, cwCall : BOOLEAN,
        force : BOOLEAN, maxDuration : Nat \cup {NoText}, txRate : Nat \cup {NoText},
        noData : BOOLEAN, msgTypes : MsgTexts]

\* touched: the user has used a control since the load; stale: the loaded power
\* was not among the levels that the control offered before the load;
\* typedBand: a typed frequency has changed the band and no other control has
\* refreshed the levels since; authored: devices whose settings were saved here.
Notes == [touched : BOOLEAN, stale : BOOLEAN, typedBand : BOOLEAN,
          authored : SUBSET Devices]
NoSave == [device |-> NoDevice]

-----------------------------------------------------------------------------
(* Callsigns and versions.                                                 *)

CanonicalFormat(c) == [c EXCEPT !.raw = FALSE]

ValidCallsign(d, c) ==
    \/ c.kind = "basic"
    \/ c.kind = "compound" /\ SupportsExtendedWspr(Firmware[d])

IsLongLocator(b) == b.loc.len >= 6
Classic(d) == Has20mFilter(ProductId[d])
Calibrated(d) == HasCalibratedOscillator(ProductId[d])

(* Bands.                                                                  *)

Offered(d) ==
    IF Classic(d)
    THEN WsprBands \ {"Band_6m", "Band_10m", "Band_12m", "Band_15m", "Band_17m"}
    ELSE WsprBands
FirstOffered(d) == IF Classic(d) THEN "Band_20m" ELSE "Band_6m"

SelectedBand(d, b) == IF b.sel = NoBand THEN FirstOffered(d) ELSE b.sel

SetFreq(d, b, f) == [b EXCEPT !.freq = f, !.sel = BandAmong(Offered(d), f)]

GenFreq(d, b) ==
    {f \in Generate(Calibrated(d), SelectedBand(d, b)) :
        f - CentreFreq[SelectedBand(d, b)] \in Offsets}

\* Mutant: the stored frequency is returned whatever band is selected.
GetFreq_Unchecked(d, b) == {b.freq}

\* getFreq replaces a frequency outside the selected band by a random one.
GetFreq(d, b) ==
    IF ContainsFreq(SelectedBand(d, b), b.freq) THEN {b.freq} ELSE GenFreq(d, b)

(* Bias.                                                                   *)

BiasChoices(d) ==
    CASE Classic(d) -> {"Default"}
      [] ~Classic(d) /\ SupportsVarId(Firmware[d], "PaBiasSource") -> {"Direct", "SbLpfKit"}
      [] OTHER -> {"SbLpfKit"}
FirstBias(d) ==
    CASE Classic(d) -> "Default"
      [] ~Classic(d) /\ SupportsVarId(Firmware[d], "PaBiasSource") -> "Direct"
      [] OTHER -> "SbLpfKit"

BiasSet(d, s) ==
    LET choice == IF Classic(d) THEN "Default"
                  ELSE IF s = "Default" THEN "SbLpfKit" ELSE s
    IN  IF choice \in BiasChoices(d) THEN choice ELSE NoSource

BiasGet(d, b) == IF b.source = NoSource THEN FirstBias(d) ELSE b.source

Query(d, s, f, p) ==
    [type |-> "PaBias", classic |-> Classic(d), source |-> s,
     freq |-> f \div 1000, power |-> 100 * p]

(* Powers.                                                                 *)

Available(d, s, f) ==
    LET min == GetMinPower(Query(d, s, f, 0))
        max == GetMaxPower(Query(d, s, f, 0))
    IN  {p \in AllLevels : min <= p /\ p <= max}

\* The tables of biasData let every device send on every band at some level.
ASSUME LevelsAssumption ==
    \A d \in Devices, s \in Sources, b \in WsprBands : Available(d, s, CentreFreq[b]) # {}

PowerSet(levels, p) == IF p \in levels THEN p ELSE NoPower

PowerGet(b) ==
    IF b.power # NoPower THEN b.power
    ELSE IF b.levels # {} THEN Max(b.levels) ELSE 23

\* Mutant: rebuilding the choices selects the highest level.
PowerChoices_Highest(b, levels) ==
    [b EXCEPT !.levels = levels,
              !.power = IF levels # {} THEN Max(levels) ELSE NoPower]

\* initChoices keeps the power if it is offered, else takes the highest level.
PowerChoices(b, levels) ==
    [b EXCEPT !.levels = levels,
              !.power = IF PowerGet(b) \in levels THEN PowerGet(b)
                        ELSE IF levels # {} THEN Max(levels) ELSE NoPower]

\* Mutant: a power that is not on the list is taken over.
ReportSet_AnyPower(p) == p
ReportSet(p) == IF p \in ReportLevels \cup {SameAsOutput} THEN p ELSE SameAsOutput

(* The longest run time: seconds in a configuration, days in the control.  *)

\* The last of the six significant digits of a number of days, in millionths.
LastDigit(s) ==
    CASE s < 86400 -> 1
      [] 86400 <= s /\ s < 864000 -> 10
      [] 864000 <= s /\ s < 8640000 -> 100
      [] 8640000 <= s -> 1000

\* The text of s / 86400.  Half a digit is rounded up, but down for TiesDown,
\* where the quotient of doubles lies below the middle.
ShownDays(s) ==
    LET middle == 27 * LastDigit(s) - (IF s \in TiesDown THEN 1 ELSE 0)
    IN  LastDigit(s) * ((625 * s + middle) \div (54 * LastDigit(s)))

\* The text times 86400, cut off to an int.  FallsShort are texts of whole seconds
\* for which the product of doubles lies below them ("1.2" gives 103679).
ReadDays(text) ==
    (54 * text - (IF text \in FallsShort THEN 1 ELSE 0)) \div 625

-----------------------------------------------------------------------------
(* What is derived from the controls.                                      *)

UpdateTxFreqText(b, f) == [b EXCEPT !.freq = f, !.freqText = f]

UpdateAvailableOutputPowers(d, b) ==
    PowerChoices(b, Available(d, BiasGet(d, b), b.freq))

UpdateBiasSelectText(d, b) ==
    [b EXCEPT !.noData = ~HasData(Query(d, BiasGet(d, b), b.freq, 0))]

MsgTypes(d, b) ==
    LET c == CanonicalFormat(b.call) IN
    CASE ~SupportsExtendedWspr(Firmware[d]) -> "unsupported"
      [] ~ValidCallsign(d, c) -> "None"
      [] c.kind = "compound" -> "Type2_3"
      [] c.kind = "basic" /\ b.force /\ ~IsLongLocator(b) -> "Type1, locator too short"
      [] c.kind = "basic" /\ b.force /\ IsLongLocator(b) -> "Type1_3"
      [] OTHER -> "Type1"

UpdateWsprMsgTypesText(d, b) == [b EXCEPT !.msgTypes = MsgTypes(d, b)]

\* The checkbox of the extended locator can be seen.
ForceShown(d, b) ==
    /\ SupportsExtendedWspr(Firmware[d])
    /\ IsLongLocator(b)
    /\ CanonicalFormat(b.call).kind # "compound"

-----------------------------------------------------------------------------
(* Loading.                                                                *)

\* Task_WSPRLoad: variables that the firmware does not have get a default.
Loaded(d) ==
    [stored[d] EXCEPT
        !.cwFreq = IF SupportsCwId(Firmware[d]) THEN @ ELSE 0,
        !.cwCall = SupportsCwId(Firmware[d]) /\ @,
        !.source = IF SupportsVarId(Firmware[d], "PaBiasSource") THEN @ ELSE "Default",
        !.force = SupportsVarId(Firmware[d], "WSPR_optionFlags") /\ @]

\* The values that setFields puts in the controls.  The power is selected among
\* the levels that the control still has from before.
SetControls(d, b, cfg) ==
    SetFreq(d,
        [b EXCEPT !.call = cfg.call, !.loc = cfg.loc,
                  !.source = BiasSet(d, cfg.source),
                  !.power = PowerSet(b.levels, cfg.out),
                  !.report = IF cfg.out = cfg.rep THEN SameAsOutput ELSE ReportSet(cfg.rep),
                  !.cwCall = cfg.cwCall,
                  !.cw = SupportsCwId(Firmware[d]) /\ cfg.cwFreq # 0 /\ cfg.cwCall,
                  !.force = cfg.force, !.maxDuration = ShownDays(cfg.maxRuntime),
                  !.txRate = cfg.transmitPercent],
        cfg.freq)

\* Then setFields refreshes everything derived from them.
Refresh(d, b, f) ==
    UpdateWsprMsgTypesText(d, UpdateBiasSelectText(d,
        UpdateAvailableOutputPowers(d, UpdateTxFreqText(b, f))))

Load(d) ==
    LET cfg == Loaded(d)
        b == SetControls(d, box, cfg)
    IN  /\ alive /\ edits < MaxEdits
        /\ edits' = edits + 1
        /\ device' = d /\ enabled' = TRUE
        /\ model' = cfg
        /\ \E f \in IF cfg.counter <= 1 THEN GenFreq(d, b) ELSE GetFreq(d, b) :
               box' = Refresh(d, b, f)
        /\ notes' = [notes EXCEPT !.touched = FALSE, !.typedBand = FALSE,
                                  !.stale = cfg.out \notin box.levels]
        /\ UNCHANGED <<alive, stored, last>>

Disconnect ==
    /\ alive /\ enabled
    /\ enabled' = FALSE
    /\ UNCHANGED <<alive, device, stored, model, box, last, notes, edits>>

-----------------------------------------------------------------------------
(* Editing.                                                                *)

Edit(b) ==
    /\ alive /\ enabled /\ edits < MaxEdits
    /\ edits' = edits + 1
    /\ box' = b
    /\ UNCHANGED <<alive, device, enabled, stored, model, last>>

Touched == notes' = [notes EXCEPT !.touched = TRUE]
TouchedAndRefreshed ==
    notes' = [notes EXCEPT !.touched = TRUE, !.typedBand = FALSE]

\* Mutant: any band is accepted, whatever the firmware supports.
OnBandChanged_AnyFirmware(band) ==
    /\ band \in Offered(device)
    /\ \E f \in GetFreq(device, [box EXCEPT !.sel = band]) :
           Edit(UpdateBiasSelectText(device,
                    UpdateAvailableOutputPowers(device,
                        UpdateTxFreqText([box EXCEPT !.sel = band], f))))
    /\ TouchedAndRefreshed

\* Mutant: the levels of the previous band stay on offer.
OnBandChanged_SameLevels(band) ==
    /\ band \in Offered(device)
    /\ \E f \in GetFreq(device, [box EXCEPT !.sel = band]) :
           Edit(UpdateBiasSelectText(device, UpdateTxFreqText([box EXCEPT !.sel = band], f)))
    /\ TouchedAndRefreshed

\* 630 m needs newer firmware: else back to the frequency of the device.
OnBandChanged(band) ==
    LET picked == [box EXCEPT !.sel = band]
        b == IF band = "Band_630m" /\ ~SupportsBand(Firmware[device], band, CentreFreq[band])
             THEN SetFreq(device, picked, model.freq) ELSE picked
    IN  /\ band \in Offered(device)
        /\ \E f \in GetFreq(device, b) :
               Edit(UpdateBiasSelectText(device,
                        UpdateAvailableOutputPowers(device, UpdateTxFreqText(b, f))))
        /\ TouchedAndRefreshed

\* Mutant: the message about filter data is not brought up to date.
OnBiasSelectChanged_SameText(s) ==
    /\ s \in BiasChoices(device)
    /\ Edit(UpdateAvailableOutputPowers(device, [box EXCEPT !.source = s]))
    /\ TouchedAndRefreshed

OnBiasSelectChanged(s) ==
    /\ s \in BiasChoices(device)
    /\ Edit(UpdateBiasSelectText(device,
                UpdateAvailableOutputPowers(device, [box EXCEPT !.source = s])))
    /\ TouchedAndRefreshed

PickPower(p) == p \in box.levels /\ Edit([box EXCEPT !.power = p]) /\ Touched
PickReport(r) == Edit([box EXCEPT !.report = r]) /\ Touched

\* The frequency control is only shown for calibrated oscillators.
TypeFreq(t) ==
    Calibrated(device) /\ Edit([box EXCEPT !.freqText = t]) /\ Touched

OnCallsignChanged(c) ==
    /\ Edit(UpdateWsprMsgTypesText(device, [box EXCEPT !.call = c]))
    /\ Touched
OnLocatorChanged(l) ==
    /\ Edit(UpdateWsprMsgTypesText(device, [box EXCEPT !.loc = l]))
    /\ Touched
OnForceExtendedWsprChange ==
    /\ ForceShown(device, box)
    /\ Edit(UpdateWsprMsgTypesText(device, [box EXCEPT !.force = ~@]))
    /\ Touched
OnCWIDEnableChange ==
    /\ SupportsCwId(Firmware[device])
    /\ Edit([box EXCEPT !.cw = ~@])
    /\ Touched
TypeCwCallsign ==
    /\ SupportsCwId(Firmware[device]) /\ box.cw
    /\ Edit([box EXCEPT !.cwCall = ~@])
    /\ Touched

\* A text of up to three decimals or none: the validator of the control rounds
\* what is in it to that, also when the control is only entered and left.
TypeMaxDuration(text) == Edit([box EXCEPT !.maxDuration = text]) /\ Touched
TypeTxRate(text) == Edit([box EXCEPT !.txRate = text]) /\ Touched

\* A typed frequency of any offered band is taken, any other is taken back; the
\* output powers and the filter message are left as they are.
Overridden(d, b) ==
    IF b.freqText # b.freq /\ BandAmong(Offered(d), b.freqText) # NoBand
    THEN SetFreq(d, b, b.freqText)
    ELSE b
CheckFreqOverride(d, b) == UpdateTxFreqText(Overridden(d, b), Overridden(d, b).freq)

TypesBand(b) == SelectedBand(device, Overridden(device, b)) # SelectedBand(device, b)

\* stringToUint throws on an empty text, here with nobody to catch it.
OnFreqUnfocus ==
    /\ Calibrated(device) /\ alive /\ enabled /\ box.freqText # box.freq
    /\ IF box.freqText = NoText
       THEN /\ alive' = FALSE
            /\ UNCHANGED <<box, notes>>
       ELSE /\ box' = CheckFreqOverride(device, box)
            /\ notes' = [notes EXCEPT !.typedBand = @ \/ TypesBand(box)]
            /\ UNCHANGED alive
    /\ UNCHANGED <<device, enabled, stored, model, last, edits>>

-----------------------------------------------------------------------------
(* Saving.                                                                 *)

\* getFields, on a box whose typed frequency has been checked.
GetFields(d, b) ==
    LET call == CanonicalFormat(b.call)
        counter == model.counter + (IF call # model.call THEN 1 ELSE 0)
        report == b.report
        cwOn == b.cwCall /\ b.cw
    IN  [call |-> call, loc |-> [b.loc EXCEPT !.raw = FALSE], freq |-> b.freq,
         out |-> PowerGet(b),
         rep |-> IF report = SameAsOutput THEN PowerGet(b) ELSE report,
         source |-> BiasGet(d, b),
         bias |-> GetBias(Query(d, BiasGet(d, b), b.freq, PowerGet(b))),
         counter |-> IF counter <= 1 THEN 2 ELSE counter,
         maxRuntime |-> ReadDays(b.maxDuration),
         transmitPercent |-> b.txRate % 256,
         cwFreq |-> IF cwOn THEN CentreFreq[SelectedBand(d, b)] - 150 ELSE 0,
         cwCall |-> b.cwCall, force |-> b.force]

\* Task_WSPRSave: variables that the firmware does not have are not written.
Written(d, cfg) ==
    [cfg EXCEPT
        !.cwFreq = IF SupportsCwId(Firmware[d]) THEN @ ELSE stored[d].cwFreq,
        !.cwCall = IF SupportsCwId(Firmware[d]) THEN @ ELSE stored[d].cwCall,
        !.source = IF SupportsVarId(Firmware[d], "PaBiasSource") THEN @ ELSE stored[d].source,
        !.force = IF SupportsVarId(Firmware[d], "WSPR_optionFlags") THEN @ ELSE stored[d].force]

\* Mutant: bands are compared by their integer, the same for both 60 m bands.
NeedsConfirm60m_ByCode(old, new) ==
    /\ new.freq \div 1000000 # old.freq \div 1000000
    /\ FindByFreq(new.freq) \in SixtyMetres

NeedsConfirm60m(old, new) ==
    /\ FindByFreq(new.freq) # FindByFreq(old.freq)
    /\ FindByFreq(new.freq) \in SixtyMetres

\* deviceSave: the validator's verdict on the locator is shown and ignored; an
\* empty frequency text, run time or repeat rate is reported, the last two
\* when other controls have changed already; then callsign and 60 m are checked.
DeviceSave(ok) ==
    LET b == [CheckFreqOverride(device, box) EXCEPT !.call = CanonicalFormat(@)]
        cfg == GetFields(device, b)
    IN  /\ alive /\ enabled
        /\ IF box.freqText = NoText THEN UNCHANGED <<box, stored, model, last, notes>>
           ELSE /\ box' = b
                /\ IF NoText \notin {b.maxDuration, b.txRate}
                      /\ ValidCallsign(device, cfg.call)
                      /\ (NeedsConfirm60m(model, cfg) => ok)
                   THEN /\ stored' = [stored EXCEPT ![device] = Written(device, cfg)]
                        /\ model' = cfg
                        /\ last' = [device |-> device, cfg |-> cfg, confirmed |-> ok,
                                    before |-> stored[device],
                                    typedBand |-> notes.typedBand \/ TypesBand(box)]
                        /\ notes' = [notes EXCEPT !.typedBand = @ \/ TypesBand(box),
                                                  !.authored = @ \cup {device},
                                                  !.touched = FALSE, !.stale = FALSE]
                   ELSE /\ notes' = [notes EXCEPT !.typedBand = @ \/ TypesBand(box)]
                        /\ UNCHANGED <<stored, model, last>>
        /\ UNCHANGED <<alive, device, enabled, edits>>

-----------------------------------------------------------------------------

Init ==
    /\ alive = TRUE /\ device = NoDevice /\ enabled = FALSE
    /\ stored \in [Devices -> Held]
    /\ model = CHOOSE cfg \in Held : TRUE      \* not initialised: a load comes first
    /\ box = [freq |-> CentreFreq["Band_20m"], sel |-> NoBand, freqText |-> NoText,
              levels |-> AllLevels, power |-> 23, report |-> SameAsOutput,
              source |-> NoSource, call |-> [kind |-> "invalid", raw |-> FALSE],
              loc |-> [len |-> 0, raw |-> FALSE], cw |-> FALSE, cwCall |-> FALSE,
              force |-> FALSE, maxDuration |-> NoText, txRate |-> NoText,
              noData |-> FALSE, msgTypes |-> "None"]
    /\ last = NoSave
    /\ notes = [touched |-> FALSE, stale |-> FALSE, typedBand |-> FALSE, authored |-> {}]
    /\ edits = 0

UserEdits ==
    \/ \E band \in PickedBands : OnBandChanged(band)
    \/ \E s \in Sources : OnBiasSelectChanged(s)
    \/ \E p \in AllLevels : PickPower(p)
    \/ \E r \in Reports : PickReport(r)
    \/ \E t \in TypedFreqs : TypeFreq(t)
    \/ \E c \in Calls : OnCallsignChanged(c)
    \/ \E l \in Locators : OnLocatorChanged(l)
    \/ OnForceExtendedWsprChange
    \/ OnCWIDEnableChange
    \/ TypeCwCallsign
    \/ \E text \in TypedDays : TypeMaxDuration(text)
    \/ \E text \in TypedRates : TypeTxRate(text)

Next ==
    \/ \E d \in Devices : Load(d)
    \/ Disconnect
    \/ enabled /\ UserEdits
    \/ enabled /\ OnFreqUnfocus
    \/ \E ok \in BOOLEAN : enabled /\ DeviceSave(ok)

Spec == Init /\ [][Next]_vars

-----------------------------------------------------------------------------
(* Properties.                                                             *)

\* The types of the variables: among others, a power control always has one of
\* the levels of Ctl_OutputPowerSelect or nothing selected.
TypeOK ==
    /\ alive \in BOOLEAN /\ enabled \in BOOLEAN
    /\ device \in Devices \cup {NoDevice}
    /\ enabled => device \in Devices
    /\ stored \in [Devices -> Config]
    /\ model \in Config
    /\ box \in Box
    /\ notes \in Notes
    /\ edits \in 0..MaxEdits
    /\ \/ last = NoSave
       \/ last \in [device : Devices, cfg : Config, before : Config,
                    confirmed : BOOLEAN, typedBand : BOOLEAN]

Saved == last # NoSave

\* Whatever a device held, whatever is typed, picked or drawn at random: each
\* frequency the program writes lies in a WSPR band that it offers for that
\* device (Ctl_BandSelect.cpp:76-86, Box_WSPRSettings.cpp:467-485).
SavedFrequencyAllowed ==
    Saved => \E b \in Offered(last.device) : ContainsFreq(b, last.cfg.freq)

\* A device gets a 60 m frequency only if it was in the same of the two 60 m
\* bands before or the user has confirmed it (wsprlite-config.cpp:265-271).
SixtyMetresConfirmed ==
    Saved => \A b \in SixtyMetres :
        ContainsFreq(b, last.cfg.freq) =>
            last.confirmed \/ ContainsFreq(b, last.before.freq)

\* No device gets into a band that its firmware does not know, unless it was
\* there before (Box_WSPRSettings.cpp:168-178).
SavedBandSupported ==
    Saved => \A b \in WsprBands :
        ContainsFreq(b, last.cfg.freq) =>
            \/ SupportsBand(Firmware[last.device], b, CentreFreq[b])
            \/ ContainsFreq(b, last.before.freq)

\* The power that is written can be reached with the bias source and at the
\* frequency written with it, unless a typed frequency has changed the band
\* behind the power control's back (Box_WSPRSettings.cpp:425-432, 467-485).
PowerWithinReach ==
    Saved /\ ~last.typedBand =>
        last.cfg.out \in Available(last.device, last.cfg.source, last.cfg.freq)

\* What is shown as derived from the controls never lags behind them: offered
\* powers, the message about filter data, the message types; the only exception
\* is a typed frequency that has changed the band (Box_WSPRSettings.cpp:168-197).
DerivedUpToDate ==
    device \in Devices =>
        /\ ContainsFreq(SelectedBand(device, box), box.freq)
        /\ box.msgTypes = MsgTypes(device, box)
        /\ ~notes.typedBand =>
            /\ box.levels = Available(device, BiasGet(device, box), box.freq)
            /\ box.noData = ~HasData(Query(device, BiasGet(device, box), box.freq, 0))

Reachable(d, cfg) == cfg.out \in Available(d, BiasSet(d, cfg.source), cfg.freq)

\* Of a run time, the text keeps six significant digits and the way back whole
\* seconds: a round trip is up to a second and half of the last digit short, or up
\* to half of the last digit long.
RoundTrips(s, t) ==
    LET half == (27 * LastDigit(s)) \div 625
    IN  t \in (s - half - 1)..(s + half)

SameButPower(old, new) ==
    new = [old EXCEPT !.out = new.out, !.rep = new.rep, !.bias = new.bias,
                      !.maxRuntime = new.maxRuntime]
SamePower(old, new) ==
    new.out = old.out /\ new.rep = old.rep /\ new.bias = old.bias

\* Settings that this program has written survive a load and a save without an
\* edit, with three exceptions: the run time goes through its text; and the power,
\* with the powers and the bias that follow from it, is lost if the control did
\* not offer it before the load or cannot offer it for the band
\* (Box_WSPRSettings.cpp:308-340 against 244-306).
SavedSettingsSurvive ==
    [][\A d \in Devices :
        stored'[d] # stored[d] /\ d \in notes.authored /\ ~notes.touched =>
            /\ SameButPower(stored[d], stored'[d])
            /\ RoundTrips(stored[d].maxRuntime, stored'[d].maxRuntime)
            /\ \/ SamePower(stored[d], stored'[d])
               \/ notes.stale \/ ~Reachable(d, Loaded(d))]_vars

=============================================================================
