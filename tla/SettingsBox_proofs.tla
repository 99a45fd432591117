-------------------------- MODULE SettingsBox_proofs ---------------------------
(***************************************************************************)
(* Proofs about module SettingsBox, for every set of devices, of held      *)
(* configurations, of typed frequencies and of random choices: the types,  *)
(* what a save writes as frequency and as power, that what is shown is up  *)
(* to date, and what survives a load and a save.                           *)
(*                                                                         *)
(* Three inductive invariants, each on top of the one before: FreqInv, of  *)
(* the frequency and its band; BoxesInv, of all the controls; SurviveInv,  *)
(* of what a save would write.                                             *)
(***************************************************************************)
EXTENDS SettingsBox, PaBias_proofs, TLAPS

\* The controls of the band and of the frequency.
FreqControls == {"freq", "sel", "freqText"}

\* They are consistent for device d: an offered band, and a frequency in it.
Consistent(d, b) ==
    /\ FreqControls \subseteq DOMAIN b
    /\ b.freqText \in Int
    /\ b.freq \in Int
    /\ b.sel \in Offered(d) \cup {NoBand}
    /\ ContainsFreq(SelectedBand(d, b), b.freq)

BoxInv ==
    /\ device \in Devices \cup {NoDevice}
    /\ enabled => device \in Devices
    /\ FreqControls \subseteq DOMAIN box
    /\ device \in Devices => Consistent(device, box)

\* The DeviceModel has the frequency that its device holds.
StoredInv ==
    /\ DOMAIN stored = Devices
    /\ \A d \in Devices : "freq" \in DOMAIN stored[d] /\ stored[d].freq \in Int
    /\ device \in Devices => model.freq = stored[device].freq

FreqInv == BoxInv /\ StoredInv /\ SavedFrequencyAllowed /\ SixtyMetresConfirmed

\* The levels and the message about filter data are those of source and frequency.
UpToDate(d, b) ==
    /\ b.levels = Available(d, BiasGet(d, b), b.freq)
    /\ b.noData = ~HasData(Query(d, BiasGet(d, b), b.freq, 0))

\* A box of device d: its bias control has one of the device's choices or none,
\* its power control a level; only where the control of the frequency is shown
\* has it another text than the frequency.
Orderly(d, b) ==
    /\ b \in Box
    /\ b.source \in BiasChoices(d) \cup {NoSource}
    /\ b.power \in b.levels
    /\ b.msgTypes = MsgTypes(d, b)
    /\ Calibrated(d) \/ b.freqText = b.freq

\* The firmware of d knows the band of f, unless m is a frequency of the same band.
Known(d, f, m) ==
    \A s \in WsprBands : ContainsFreq(s, f) =>
        SupportsBand(Firmware[d], s, CentreFreq[s]) \/ ContainsFreq(s, m)

ShownInv ==
    device \in Devices =>
        /\ Orderly(device, box)
        /\ notes.typedBand \/ UpToDate(device, box)
        /\ Known(device, box.freq, model.freq)

BoxesInv ==
    FreqInv /\ TypeOK /\ ShownInv /\ PowerWithinReach /\ SavedBandSupported

\* What a configuration is that getFields has made for device d.
LoadedSource(d, c) ==
    BiasSet(d, IF SupportsVarId(Firmware[d], "PaBiasSource") THEN c.source ELSE "Default")

Authored(d, c) ==
    /\ ~c.call.raw /\ ValidCallsign(d, c.call) /\ ~c.loc.raw
    /\ c.counter >= 2
    /\ c.out \in AllLevels
    /\ c.rep = c.out \/ c.rep \in ReportLevels
    /\ LoadedSource(d, c) # NoSource
    /\ SupportsVarId(Firmware[d], "PaBiasSource") => c.source = LoadedSource(d, c)
    /\ c.bias = GetBias(Query(d, LoadedSource(d, c), c.freq, c.out))
    /\ \E s \in Offered(d) :
          /\ ContainsFreq(s, c.freq)
          /\ SupportsCwId(Firmware[d]) =>
                \/ c.cwFreq = 0
                \/ c.cwFreq = CentreFreq[s] - 150 /\ c.cwCall

\* What a save would write for box b to device d, which holds c, when the device
\* model is m: getFields, and then the variables that the firmware has.
RepOf(b) == IF b.report = SameAsOutput THEN PowerGet(b) ELSE b.report
CwFreqOf(d, b) ==
    IF b.cwCall /\ b.cw THEN CentreFreq[SelectedBand(d, b)] - 150 ELSE 0
CounterOf(b, m) ==
    LET counter == m.counter + (IF CanonicalFormat(b.call) # m.call THEN 1 ELSE 0)
    IN  IF counter <= 1 THEN 2 ELSE counter

Resaved(d, b, m, c) ==
    [call |-> CanonicalFormat(b.call), loc |-> [b.loc EXCEPT !.raw = FALSE],
     freq |-> b.freq, out |-> PowerGet(b), rep |-> RepOf(b),
     source |-> IF SupportsVarId(Firmware[d], "PaBiasSource")
                THEN BiasGet(d, b) ELSE c.source,
     bias |-> GetBias(Query(d, BiasGet(d, b), b.freq, PowerGet(b))),
     counter |-> CounterOf(b, m),
     maxRuntime |-> ReadDays(b.maxDuration), transmitPercent |-> b.txRate % 256,
     cwFreq |-> IF SupportsCwId(Firmware[d]) THEN CwFreqOf(d, b) ELSE c.cwFreq,
     cwCall |-> IF SupportsCwId(Firmware[d]) THEN b.cwCall ELSE c.cwCall,
     force |-> IF SupportsVarId(Firmware[d], "WSPR_optionFlags")
               THEN b.force ELSE c.force]

\* Whether c can be reached by the power control, once it is loaded to d.
LoadedReachable(d, c) == c.out \in Available(d, LoadedSource(d, c), c.freq)

\* What a device may hold when r is written over c from an untouched box.
Survives(d, c, r, stale) ==
    /\ SameButPower(c, r)
    /\ RoundTrips(c.maxRuntime, r.maxRuntime)
    /\ SamePower(c, r) \/ stale \/ ~LoadedReachable(d, c)

\* As long as no control is used, a save would write what the device holds, but for
\* the exceptions.
SurviveInv ==
    /\ \A d \in notes.authored : Authored(d, stored[d])
    /\ device \in Devices /\ ~notes.touched =>
          /\ box.freqText = box.freq
          /\ device \in notes.authored =>
                Survives(device, stored[device],
                         Resaved(device, box, model, stored[device]), notes.stale)

-------------------------------------------------------------------------------
(* The bands.                                                                *)

LEMMA CentreFacts ==
    /\ NoBand \notin WsprBands /\ SixtyMetres \subseteq WsprBands
    /\ \A b \in WsprBands : CentreFreq[b] \in Nat
BY DEF WsprBands, CentreFreq, NoBand, SixtyMetres

\* No frequency is in two bands: a frequency's band is found by any search.
LEMMA BandsDisjoint ==
    ASSUME NEW f \in Int, NEW a \in WsprBands, NEW b \in WsprBands,
           ContainsFreq(a, f), ContainsFreq(b, f)
    PROVE  a = b
BY DEF WsprBands, CentreFreq, ContainsFreq

\* uniformGen and usageBasedGen stay inside the band they are asked for.
LEMMA GenerateInBand ==
    ASSUME NEW b \in WsprBands, NEW calibrated, NEW f \in Generate(calibrated, b)
    PROVE  f \in Int /\ ContainsFreq(b, f)
<1> DEFINE half == Bandwidth(calibrated, b) \div 2
<1>1. CentreFreq[b] \in Nat
    BY CentreFacts
<1>2. half \in Int /\ half <= 85
    <2>1. Bandwidth(calibrated, b) \in Int /\ Bandwidth(calibrated, b) <= 170
        BY <1>1 DEF Bandwidth
    <2>2. QED
        BY <2>1
<1>3. f \in CentreFreq[b] - half .. CentreFreq[b] + half
    BY DEF Generate
<1>4. QED
    BY <1>1, <1>2, <1>3 DEF ContainsFreq

\* A search among some of the bands finds one of them, or nothing.
LEMMA BandAmongFacts ==
    ASSUME NEW bands \in SUBSET WsprBands, NEW f
    PROVE  /\ BandAmong(bands, f) \in bands \cup {NoBand}
           /\ BandAmong(bands, f) # NoBand =>
                /\ BandAmong(bands, f) \in bands
                /\ ContainsFreq(BandAmong(bands, f), f)
           /\ \A b \in bands : ContainsFreq(b, f) => BandAmong(bands, f) # NoBand
BY CentreFacts DEF BandAmong

\* The band of a frequency is the one that contains it.
LEMMA FoundByFreq ==
    ASSUME NEW f \in Int, NEW b \in WsprBands
    PROVE  ContainsFreq(b, f) <=> FindByFreq(f) = b
<1>1. FindByFreq(f) # NoBand => FindByFreq(f) \in WsprBands /\ ContainsFreq(FindByFreq(f), f)
    BY BandAmongFacts DEF FindByFreq
<1>2. ContainsFreq(b, f) => FindByFreq(f) # NoBand
    BY BandAmongFacts DEF FindByFreq
<1>3. QED
    BY <1>1, <1>2, BandsDisjoint, CentreFacts

LEMMA OfferedFacts ==
    ASSUME NEW d
    PROVE  Offered(d) \subseteq WsprBands /\ FirstOffered(d) \in Offered(d)
BY DEF Offered, FirstOffered, WsprBands, CentreFreq

\* Ctl_BandSelect::get returns an offered band, also when nothing is selected.
LEMMA SelectedOffered ==
    ASSUME NEW d, NEW b, b.sel \in Offered(d) \cup {NoBand}
    PROVE  SelectedBand(d, b) \in Offered(d) /\ SelectedBand(d, b) \in WsprBands
BY OfferedFacts DEF SelectedBand

\* Whatever getFreq returns or generates lies in the selected band.
LEMMA GetFreqInBand ==
    ASSUME NEW d, NEW b, b.sel \in Offered(d) \cup {NoBand}, b.freq \in Int,
           NEW f \in GetFreq(d, b) \cup GenFreq(d, b)
    PROVE  f \in Int /\ ContainsFreq(SelectedBand(d, b), f)
<1>1. SelectedBand(d, b) \in WsprBands
    BY SelectedOffered
<1>2. CASE f \in GenFreq(d, b)
    BY <1>1, <1>2, GenerateInBand DEF GenFreq
<1>3. QED
    BY <1>2 DEF GetFreq

-------------------------------------------------------------------------------
(* The controls.                                                             *)

\* b is a box whose three controls read f, l and t.
Reads(b, f, l, t) == FreqControls \subseteq DOMAIN b /\ b.freq = f /\ b.sel = l /\ b.freqText = t

\* No update of what is derived from the controls changes one of the three.
LEMMA UpdatesKeep ==
    ASSUME NEW d, NEW b, NEW f, NEW l, NEW t, Reads(b, f, l, t)
    PROVE  /\ \A levels : Reads(PowerChoices(b, levels), f, l, t)
           /\ Reads(UpdateAvailableOutputPowers(d, b), f, l, t)
           /\ Reads(UpdateBiasSelectText(d, b), f, l, t)
           /\ Reads(UpdateWsprMsgTypesText(d, b), f, l, t)
           /\ \A g : Reads(UpdateTxFreqText(b, g), g, l, g)
           /\ \A g : Reads(SetFreq(d, b, g), g, BandAmong(Offered(d), g), t)
<1> USE DEF Reads, FreqControls
<1>1. \A levels : Reads(PowerChoices(b, levels), f, l, t)
    BY DEF PowerChoices
<1>2. Reads(UpdateAvailableOutputPowers(d, b), f, l, t)
    BY <1>1 DEF UpdateAvailableOutputPowers
<1>3. Reads(UpdateBiasSelectText(d, b), f, l, t)
    BY DEF UpdateBiasSelectText
<1>4. Reads(UpdateWsprMsgTypesText(d, b), f, l, t)
    BY DEF UpdateWsprMsgTypesText
<1>5. \A g : Reads(UpdateTxFreqText(b, g), g, l, g)
    BY DEF UpdateTxFreqText
<1>6. \A g : Reads(SetFreq(d, b, g), g, BandAmong(Offered(d), g), t)
    BY DEF SetFreq
<1>7. QED
    BY <1>1, <1>2, <1>3, <1>4, <1>5, <1>6

\* A refreshed box reads the frequency it was refreshed with.
LEMMA RefreshReads ==
    ASSUME NEW d, NEW b, NEW f, NEW l, NEW t, NEW g, Reads(b, f, l, t)
    PROVE  /\ Reads(Refresh(d, b, g), g, l, g)
           /\ Reads(UpdateBiasSelectText(d,
                      UpdateAvailableOutputPowers(d, UpdateTxFreqText(b, g))), g, l, g)
<1>1. Reads(UpdateTxFreqText(b, g), g, l, g)
    BY UpdatesKeep
<1>2. Reads(UpdateAvailableOutputPowers(d, UpdateTxFreqText(b, g)), g, l, g)
    BY <1>1, UpdatesKeep
<1>3. Reads(UpdateBiasSelectText(d,
                UpdateAvailableOutputPowers(d, UpdateTxFreqText(b, g))), g, l, g)
    BY <1>2, UpdatesKeep
<1>4. Reads(Refresh(d, b, g), g, l, g)
    BY <1>3, UpdatesKeep DEF Refresh
<1>5. QED
    BY <1>3, <1>4

\* Reading a frequency of the selected band is being consistent.
LEMMA ReadsConsistent ==
    ASSUME NEW d, NEW a, NEW b, NEW f \in Int, NEW t \in Int,
           Reads(b, f, a.sel, t), a.sel \in Offered(d) \cup {NoBand},
           ContainsFreq(SelectedBand(d, a), f)
    PROVE  Consistent(d, b)
<1>1. SelectedBand(d, b) = SelectedBand(d, a)
    BY DEF Reads, SelectedBand
<1>2. QED
    BY <1>1 DEF Reads, Consistent

\* checkFreqOverride takes a typed frequency only of an offered band, and with
\* it selects that band.
LEMMA OverrideConsistent ==
    ASSUME NEW d, NEW b, Consistent(d, b)
    PROVE  Consistent(d, CheckFreqOverride(d, b))
<1> DEFINE o == Overridden(d, b)
<1>0. Reads(b, b.freq, b.sel, b.freqText) /\ Offered(d) \in SUBSET WsprBands
    BY OfferedFacts DEF Reads, Consistent
<1>1. CASE b.freqText # b.freq /\ BandAmong(Offered(d), b.freqText) # NoBand
    <2> DEFINE t == b.freqText
    <2>1. /\ BandAmong(Offered(d), t) \in Offered(d)
          /\ ContainsFreq(BandAmong(Offered(d), t), t)
        BY <1>0, <1>1, BandAmongFacts
    <2>2. o = SetFreq(d, b, t) /\ Reads(o, t, BandAmong(Offered(d), t), t)
        BY <1>0, <1>1, UpdatesKeep DEF Overridden
    <2>3. o.freq = t /\ o.sel = BandAmong(Offered(d), t) /\ t \in Int
        BY <2>2 DEF Reads, Consistent
    <2>4. Reads(CheckFreqOverride(d, b), t, o.sel, t)
        BY <2>2, <2>3, UpdatesKeep DEF CheckFreqOverride
    <2>5. SelectedBand(d, o) = BandAmong(Offered(d), t)
        BY <1>1, <2>3 DEF SelectedBand
    <2>6. QED
        BY <2>1, <2>3, <2>4, <2>5, ReadsConsistent
<1>2. CASE ~(b.freqText # b.freq /\ BandAmong(Offered(d), b.freqText) # NoBand)
    <2>1. o = b
        BY <1>2 DEF Overridden
    <2>2. Reads(CheckFreqOverride(d, b), b.freq, b.sel, b.freq)
        BY <1>0, <2>1, UpdatesKeep DEF CheckFreqOverride
    <2>3. QED
        BY <2>2, ReadsConsistent DEF Consistent
<1>3. QED
    BY <1>1, <1>2

-------------------------------------------------------------------------------
(* The steps.                                                                *)

\* An edit that leaves the three controls consistent.
LEMMA EditKeeps ==
    ASSUME FreqInv, enabled, NEW b, Edit(b), Consistent(device, b)
    PROVE  FreqInv'
<1>1. /\ box' = b /\ device \in Devices
      /\ UNCHANGED <<device, enabled, stored, model, last>>
    BY DEF Edit, FreqInv, BoxInv
<1>2. BoxInv'
    BY <1>1 DEF FreqInv, BoxInv, Consistent, SelectedBand
<1>3. StoredInv' /\ SavedFrequencyAllowed' /\ SixtyMetresConfirmed'
    BY <1>1 DEF FreqInv, StoredInv, SavedFrequencyAllowed, SixtyMetresConfirmed, Saved
<1>4. QED
    BY <1>2, <1>3 DEF FreqInv

\* Nor does an edit of another control change them.
LEMMA OtherControls ==
    ASSUME NEW d, NEW b, NEW c, Consistent(d, b),
           Reads(c, b.freq, b.sel, b.freqText)
    PROVE  Consistent(d, c)
BY ReadsConsistent DEF Consistent

LEMMA LoadStep == ASSUME FreqInv, NEW d \in Devices, Load(d) PROVE FreqInv'
<1> DEFINE cfg == Loaded(d)
           b == SetControls(d, box, cfg)
<1>1. cfg.freq = stored[d].freq /\ cfg.freq \in Int
    BY DEF FreqInv, StoredInv, Loaded
<1>2. Reads(b, cfg.freq, BandAmong(Offered(d), cfg.freq), box.freqText)
    <2> DEFINE r == [box EXCEPT !.call = cfg.call, !.loc = cfg.loc,
                         !.source = BiasSet(d, cfg.source),
                         !.power = PowerSet(box.levels, cfg.out),
                         !.report = IF cfg.out = cfg.rep THEN SameAsOutput
                                    ELSE ReportSet(cfg.rep),
                         !.cwCall = cfg.cwCall,
                         !.cw = SupportsCwId(Firmware[d]) /\ cfg.cwFreq # 0 /\ cfg.cwCall,
                         !.force = cfg.force, !.maxDuration = ShownDays(cfg.maxRuntime),
                         !.txRate = cfg.transmitPercent]
    <2>1. Reads(r, box.freq, box.sel, box.freqText)
        BY DEF FreqInv, BoxInv, Reads, FreqControls
    <2>2. b = SetFreq(d, r, cfg.freq)
        BY DEF SetControls
    <2> HIDE DEF r, b, cfg
    <2>3. QED
        BY <2>1, <2>2, UpdatesKeep
<1>3. PICK f \in GetFreq(d, b) \cup GenFreq(d, b) : box' = Refresh(d, b, f)
    BY DEF Load
<1>4. b.sel \in Offered(d) \cup {NoBand} /\ b.freq \in Int
    BY <1>1, <1>2, OfferedFacts, BandAmongFacts DEF Reads
<1>5. f \in Int /\ ContainsFreq(SelectedBand(d, b), f)
    BY <1>3, <1>4, GetFreqInBand
<1>6. Reads(box', f, b.sel, f)
    BY <1>2, <1>3, RefreshReads DEF Reads
<1>7. Consistent(d, box')
    BY <1>4, <1>5, <1>6, ReadsConsistent
<1>8. /\ device' = d /\ enabled' = TRUE /\ model' = cfg
      /\ UNCHANGED <<stored, last>>
    BY DEF Load
<1>9. BoxInv'
    BY <1>7, <1>8 DEF BoxInv, Consistent, SelectedBand
<1>10. StoredInv' /\ SavedFrequencyAllowed' /\ SixtyMetresConfirmed'
    BY <1>1, <1>8 DEF FreqInv, StoredInv, SavedFrequencyAllowed, SixtyMetresConfirmed, Saved
<1>11. QED
    BY <1>9, <1>10 DEF FreqInv

LEMMA BandStep ==
    ASSUME FreqInv, enabled, NEW band, OnBandChanged(band)
    PROVE  FreqInv'
<1> DEFINE picked == [box EXCEPT !.sel = band]
           b == IF band = "Band_630m"
                   /\ ~SupportsBand(Firmware[device], band, CentreFreq[band])
                THEN SetFreq(device, picked, model.freq) ELSE picked
<1>1. /\ device \in Devices /\ Consistent(device, box) /\ band \in Offered(device)
      /\ model.freq \in Int
    BY DEF FreqInv, BoxInv, StoredInv, OnBandChanged
<1>2. Reads(picked, box.freq, band, box.freqText)
    BY <1>1 DEF Consistent, Reads, FreqControls
<1>3. /\ \E l : Reads(b, b.freq, l, box.freqText)
      /\ b.sel \in Offered(device) \cup {NoBand} /\ b.freq \in Int
    <2>1. CASE b = picked
        BY <1>1, <1>2, <2>1 DEF Reads, Consistent
    <2>2. CASE b = SetFreq(device, picked, model.freq)
        <3> HIDE DEF b, picked
        <3>1. Reads(b, model.freq, BandAmong(Offered(device), model.freq), box.freqText)
            BY <1>2, <2>2, UpdatesKeep
        <3>2. QED
            BY <1>1, <3>1, OfferedFacts, BandAmongFacts DEF Reads
    <2>3. QED
        BY <2>1, <2>2
<1>4. PICK f \in GetFreq(device, b) :
          Edit(UpdateBiasSelectText(device,
                   UpdateAvailableOutputPowers(device, UpdateTxFreqText(b, f))))
    BY DEF OnBandChanged
<1> DEFINE c == UpdateBiasSelectText(device,
                    UpdateAvailableOutputPowers(device, UpdateTxFreqText(b, f)))
<1>5. f \in Int /\ ContainsFreq(SelectedBand(device, b), f)
    BY <1>3, <1>4, GetFreqInBand
<1>6. Reads(c, f, b.sel, f)
    <2> HIDE DEF b
    <2>1. Reads(b, b.freq, b.sel, box.freqText)
        BY <1>3 DEF Reads
    <2>2. QED
        BY <2>1, RefreshReads
<1>7. Consistent(device, c)
    BY <1>3, <1>5, <1>6, ReadsConsistent
<1>8. QED
    BY <1>4, <1>7, EditKeeps

LEMMA UnfocusStep == ASSUME FreqInv, enabled, OnFreqUnfocus PROVE FreqInv'
<1>1. /\ device \in Devices /\ Consistent(device, box)
      /\ UNCHANGED <<device, enabled, stored, model, last>>
      /\ box' = box \/ box' = CheckFreqOverride(device, box)
    BY DEF OnFreqUnfocus, FreqInv, BoxInv
<1>2. Consistent(device, box')
    BY <1>1, OverrideConsistent
<1>3. BoxInv'
    BY <1>1, <1>2 DEF BoxInv, Consistent, SelectedBand
<1>4. StoredInv' /\ SavedFrequencyAllowed' /\ SixtyMetresConfirmed'
    BY <1>1 DEF FreqInv, StoredInv, SavedFrequencyAllowed, SixtyMetresConfirmed, Saved
<1>5. QED
    BY <1>3, <1>4 DEF FreqInv

\* A save writes the frequency of the consistent controls; a 60 m band that the
\* device was not in before has been confirmed.
LEMMA SaveStep ==
    ASSUME FreqInv, enabled, NEW ok \in BOOLEAN, DeviceSave(ok)
    PROVE  FreqInv'
<1> DEFINE b == [CheckFreqOverride(device, box) EXCEPT !.call = CanonicalFormat(@)]
           cfg == GetFields(device, b)
<1>1. device \in Devices /\ Consistent(device, box)
    BY DEF FreqInv, BoxInv
<1>2. Consistent(device, b)
    <2> DEFINE c == CheckFreqOverride(device, box)
    <2>1. Consistent(device, c)
        BY <1>1, OverrideConsistent
    <2>2. \A r, x : FreqControls \subseteq DOMAIN r =>
              Reads([r EXCEPT !.call = x], r.freq, r.sel, r.freqText)
        BY DEF Reads, FreqControls
    <2>3. Reads(b, c.freq, c.sel, c.freqText)
        BY <2>1, <2>2 DEF Consistent
    <2>4. QED
        BY <2>1, <2>3, OtherControls
<1>3. cfg.freq = b.freq /\ "freq" \in DOMAIN cfg /\ Written(device, cfg).freq = b.freq
      /\ "freq" \in DOMAIN Written(device, cfg)
    <2>1. cfg.freq = b.freq /\ "freq" \in DOMAIN cfg
        <3> HIDE DEF b
        <3>1. QED
            BY DEF GetFields
    <2> HIDE DEF cfg, b
    <2>2. QED
        BY <2>1 DEF Written
<1>4. UNCHANGED <<device, enabled>> /\ (box' = box \/ box' = b)
    BY DEF DeviceSave
<1>5. BoxInv'
    <2> HIDE DEF b
    <2>1. QED
        BY <1>1, <1>2, <1>4 DEF BoxInv, Consistent, SelectedBand
<1>6. CASE UNCHANGED <<stored, model, last>>
    BY <1>4, <1>5, <1>6
    DEF FreqInv, StoredInv, SavedFrequencyAllowed, SixtyMetresConfirmed, Saved
<1>7. CASE ~UNCHANGED <<stored, model, last>>
    <2>1. /\ stored' = [stored EXCEPT ![device] = Written(device, cfg)]
          /\ model' = cfg
          /\ last' = [device |-> device, cfg |-> cfg, confirmed |-> ok,
                      before |-> stored[device],
                      typedBand |-> notes.typedBand \/ TypesBand(box)]
          /\ NeedsConfirm60m(model, cfg) => ok
        BY <1>7 DEF DeviceSave
    <2> HIDE DEF b, cfg
    <2>2. b.freq \in Int
        BY <1>2 DEF Consistent
    <2>3. StoredInv'
        BY <1>1, <1>3, <1>4, <2>1, <2>2 DEF FreqInv, StoredInv
    <2>4. SavedFrequencyAllowed'
        <3>1. last'.device = device /\ last'.cfg.freq = b.freq
            BY <1>3, <2>1
        <3>2. SelectedBand(device, b) \in Offered(device)
            BY <1>2, SelectedOffered DEF Consistent
        <3>3. QED
            BY <1>2, <3>1, <3>2 DEF SavedFrequencyAllowed, Consistent
    <2>5. SixtyMetresConfirmed'
        <3>1. /\ last'.cfg.freq = cfg.freq /\ last'.confirmed = ok
              /\ last'.before.freq = model.freq
            BY <1>1, <2>1 DEF FreqInv, StoredInv
        <3>2. model.freq \in Int /\ cfg.freq \in Int
            BY <1>1, <1>3, <2>2 DEF FreqInv, StoredInv
        <3> SUFFICES ASSUME NEW s \in SixtyMetres, ContainsFreq(s, cfg.freq), ~ok
                     PROVE  ContainsFreq(s, model.freq)
            BY <3>1 DEF SixtyMetresConfirmed
        <3>3. FindByFreq(cfg.freq) = s
            BY <3>2, FoundByFreq, CentreFacts
        <3>4. FindByFreq(model.freq) = s
            BY <2>1, <3>3 DEF NeedsConfirm60m
        <3>5. QED
            BY <3>2, <3>4, FoundByFreq, CentreFacts
    <2>6. QED
        BY <1>5, <2>3, <2>4, <2>5 DEF FreqInv
<1>8. QED
    BY <1>6, <1>7

\* The other controls of the box.
LEMMA EditsStep == ASSUME FreqInv, enabled, UserEdits PROVE FreqInv'
<1>0. device \in Devices /\ Consistent(device, box)
    BY DEF FreqInv, BoxInv
<1>a. ASSUME NEW c, Edit(c), Reads(c, box.freq, box.sel, box.freqText)
      PROVE  FreqInv'
    BY <1>0, <1>a, OtherControls, EditKeeps
<1>b. ASSUME NEW c, Reads(c, box.freq, box.sel, box.freqText),
             Edit(UpdateWsprMsgTypesText(device, c))
      PROVE  FreqInv'
    BY <1>a, <1>b, UpdatesKeep
<1>c. FreqControls \subseteq DOMAIN box
    BY <1>0 DEF Consistent
<1> USE <1>c DEF Reads, FreqControls
<1>1. ASSUME NEW band \in PickedBands, OnBandChanged(band) PROVE FreqInv'
    BY <1>1, BandStep
<1>2. ASSUME NEW s \in Sources, OnBiasSelectChanged(s) PROVE FreqInv'
    <2> DEFINE b == [box EXCEPT !.source = s]
    <2>1. Reads(b, box.freq, box.sel, box.freqText)
        OBVIOUS
    <2>2. Edit(UpdateBiasSelectText(device, UpdateAvailableOutputPowers(device, b)))
        BY <1>2 DEF OnBiasSelectChanged
    <2> HIDE DEF b, Reads
    <2>3. Reads(UpdateBiasSelectText(device, UpdateAvailableOutputPowers(device, b)),
                box.freq, box.sel, box.freqText)
        BY <2>1, UpdatesKeep
    <2>4. QED
        BY <1>a, <2>2, <2>3
<1>3. ASSUME NEW p \in AllLevels, PickPower(p) PROVE FreqInv'
    BY <1>a, <1>3 DEF PickPower
<1>4. ASSUME NEW r \in Reports, PickReport(r) PROVE FreqInv'
    BY <1>a, <1>4 DEF PickReport
<1>5. ASSUME NEW t \in TypedFreqs, TypeFreq(t) PROVE FreqInv'
    <2>1. t \in Int
        BY SettingsAssumption DEF NoText
    <2>2. Consistent(device, [box EXCEPT !.freqText = t])
        BY <1>0, <2>1 DEF Consistent, SelectedBand
    <2>3. QED
        BY <1>5, <2>2, EditKeeps DEF TypeFreq
<1>6. ASSUME NEW c \in Calls, OnCallsignChanged(c) PROVE FreqInv'
    BY <1>b, <1>6 DEF OnCallsignChanged
<1>7. ASSUME NEW l \in Locators, OnLocatorChanged(l) PROVE FreqInv'
    BY <1>b, <1>7 DEF OnLocatorChanged
<1>8. CASE OnForceExtendedWsprChange
    BY <1>b, <1>8 DEF OnForceExtendedWsprChange
<1>9. CASE OnCWIDEnableChange
    BY <1>a, <1>9 DEF OnCWIDEnableChange
<1>10. CASE TypeCwCallsign
    BY <1>a, <1>10 DEF TypeCwCallsign
<1>11. ASSUME NEW text \in TypedDays, TypeMaxDuration(text) PROVE FreqInv'
    BY <1>a, <1>11 DEF TypeMaxDuration
<1>12. ASSUME NEW text \in TypedRates, TypeTxRate(text) PROVE FreqInv'
    BY <1>a, <1>12 DEF TypeTxRate
<1>13. QED
    BY <1>1, <1>2, <1>3, <1>4, <1>5, <1>6, <1>7, <1>8, <1>9, <1>10, <1>11, <1>12
        DEF UserEdits

LEMMA FreqInit == Init => FreqInv
<1> SUFFICES ASSUME Init PROVE FreqInv
    OBVIOUS
<1>1. device = NoDevice /\ device \notin Devices /\ ~enabled /\ last = NoSave
    BY SettingsAssumption DEF Init
<1>2. BoxInv
    BY <1>1 DEF Init, BoxInv, FreqControls
<1>3. StoredInv
    <2>1. stored \in [Devices -> Config]
        BY SettingsAssumption DEF Init
    <2>2. \A c \in Config : "freq" \in DOMAIN c /\ c.freq \in Int
        BY DEF Config
    <2>3. QED
        BY <1>1, <2>1, <2>2 DEF StoredInv
<1>4. QED
    BY <1>1, <1>2, <1>3
    DEF FreqInv, SavedFrequencyAllowed, SixtyMetresConfirmed, Saved

LEMMA FreqStep == FreqInv /\ [Next]_vars => FreqInv'
<1> SUFFICES ASSUME FreqInv, [Next]_vars
             PROVE  FreqInv'
    OBVIOUS
<1>1. ASSUME NEW d \in Devices, Load(d) PROVE FreqInv'
    BY <1>1, LoadStep
<1>2. CASE Disconnect
    BY <1>2 DEF Disconnect, FreqInv, BoxInv, StoredInv, Consistent, SelectedBand,
        SavedFrequencyAllowed, SixtyMetresConfirmed, Saved
<1>3. CASE enabled /\ UserEdits
    BY <1>3, EditsStep
<1>4. CASE enabled /\ OnFreqUnfocus
    BY <1>4, UnfocusStep
<1>5. ASSUME NEW ok \in BOOLEAN, enabled /\ DeviceSave(ok) PROVE FreqInv'
    BY <1>5, SaveStep
<1>6. CASE UNCHANGED vars
    BY <1>6 DEF vars, FreqInv, BoxInv, StoredInv, Consistent, SelectedBand,
        SavedFrequencyAllowed, SixtyMetresConfirmed, Saved
<1>7. QED
    BY <1>1, <1>2, <1>3, <1>4, <1>5, <1>6 DEF Next

-------------------------------------------------------------------------------
\* Whatever the devices held, and whatever is typed, picked or drawn at random,
\* every saved frequency lies in a band that the program offers for the device
\* (Ctl_BandSelect.cpp:76-86, Box_WSPRSettings.cpp:467-485).
THEOREM EverySavedFrequencyAllowed == Spec => []SavedFrequencyAllowed
<1>1. FreqInv => SavedFrequencyAllowed
    BY DEF FreqInv
<1>2. QED
    BY FreqInit, FreqStep, <1>1, PTL DEF Spec

\* No device gets into one of the 60 m bands by a save unless it was in that band
\* or the user confirmed it (wsprlite-config.cpp:265-271): on the way the device
\* model and the device never hold different frequencies.
THEOREM EverySixtyMetresConfirmed == Spec => []SixtyMetresConfirmed
<1>1. FreqInv => SixtyMetresConfirmed
    BY DEF FreqInv
<1>2. QED
    BY FreqInit, FreqStep, <1>1, PTL DEF Spec

-------------------------------------------------------------------------------
(* The tables, as far as they matter to the controls.                        *)

LEMMA LargestLevel ==
    ASSUME NEW S \in SUBSET AllLevels, S # {}
    PROVE  Max(S) \in S
<1>1. S \in SUBSET Int /\ IsFiniteSet(AllLevels)
    <2>1. AllLevels \in SUBSET Nat /\ \A l \in AllLevels : l <= 23
        BY DEF AllLevels
    <2>2. IsFiniteSet(AllLevels)
        BY <2>1, FS_BoundedSetOfNaturals
    <2>3. QED
        BY <2>1, <2>2
<1>2. IsFiniteSet(S)
    BY <1>1, FS_Subset
<1>3. QED
    BY <1>1, <1>2, MaxFacts

\* The frequencies of a band share their kHz, in which the tables are kept.
LEMMA BandKHz ==
    ASSUME NEW b \in WsprBands, NEW f \in Int, ContainsFreq(b, f)
    PROVE  f \div 1000 = CentreFreq[b] \div 1000
BY DEF WsprBands, CentreFreq, ContainsFreq

\* So everything that is looked up is the same all over a band.
LEMMA SameBandSameData ==
    ASSUME NEW b \in WsprBands, NEW f \in Int, ContainsFreq(b, f), NEW d, NEW s
    PROVE  /\ \A p : Query(d, s, f, p) = Query(d, s, CentreFreq[b], p)
           /\ Available(d, s, f) = Available(d, s, CentreFreq[b])
<1>1. \A p : Query(d, s, f, p) = Query(d, s, CentreFreq[b], p)
    BY BandKHz DEF Query
<1>2. QED
    BY <1>1 DEF Available

\* On each frequency of a band some level is available.
LEMMA SomeLevel ==
    ASSUME NEW b \in WsprBands, NEW f \in Int, ContainsFreq(b, f),
           NEW d \in Devices, NEW s \in Sources
    PROVE  /\ Available(d, s, f) \in SUBSET AllLevels
           /\ Available(d, s, f) # {}
<1>1. Available(d, s, f) = Available(d, s, CentreFreq[b])
    BY SameBandSameData
<1>2. Available(d, s, CentreFreq[b]) # {}
    BY LevelsAssumption
<1>3. QED
    BY <1>1, <1>2 DEF Available

LEMMA BiasFits ==
    ASSUME NEW d, NEW s \in Sources, NEW f \in Int, NEW p \in Int
    PROVE  GetBias(Query(d, s, f, p)) \in Int
<1>1. Query(d, s, f, p) \in Asked
    <2>1. f \div 1000 \in Int /\ 100 * p \in Int /\ Classic(d) \in BOOLEAN
        BY DEF Classic, Has20mFilter
    <2>2. QED
        BY <2>1 DEF Query, Asked
<1>2. QED
    BY <1>1, BiasFacts

-------------------------------------------------------------------------------
(* The bias control.                                                         *)

LEMMA BiasChoiceFacts ==
    ASSUME NEW d \in Devices
    PROVE  /\ BiasChoices(d) \subseteq Sources /\ FirstBias(d) \in BiasChoices(d)
           /\ NoSource \notin Sources
           /\ \A s : BiasSet(d, s) \in BiasChoices(d) \cup {NoSource}
           /\ \A s \in BiasChoices(d) : BiasSet(d, s) = s
           /\ ~SupportsVarId(Firmware[d], "PaBiasSource") =>
                 /\ BiasChoices(d) = {FirstBias(d)}
                 /\ BiasSet(d, "Default") = FirstBias(d)
BY DEF BiasChoices, FirstBias, BiasSet, NoSource, Sources, SupportsVarId, Classic, Has20mFilter

LEMMA BiasGetFacts ==
    ASSUME NEW d \in Devices, NEW b, b.source \in BiasChoices(d) \cup {NoSource}
    PROVE  BiasGet(d, b) \in BiasChoices(d) /\ BiasGet(d, b) \in Sources
BY BiasChoiceFacts DEF BiasGet

-------------------------------------------------------------------------------
(* The firmware.                                                             *)

\* Firmware that knows the EEPROM of the Flexi knows every band, and whatever
\* older firmware knows.
LEMMA NewFirmware ==
    ASSUME NEW fw \in FirmwareVersions, AtLeast(fw, <<1, 1, 0, 20170605>>)
    PROVE  AtLeast(fw, <<1, 0, 6, 20170130>>)
<1> DEFINE new == <<1, 1, 0, 20170605>>
           old == <<1, 0, 6, 20170130>>
<1>1. SUFFICES ASSUME Older(fw, old) PROVE FALSE
    BY DEF AtLeast
<1>2. PICK i \in 1 .. 4 : fw[i] < old[i] /\ \A j \in 1 .. (i - 1) : fw[j] = old[j]
    BY <1>1 DEF Older
<1>3. /\ new[1] = 1 /\ new[2] = 1 /\ old[1] = 1 /\ old[2] = 0
      /\ fw[1] \in Int /\ fw[2] \in Nat
    BY DEF FirmwareVersions
<1>4. CASE i = 1
    <2>1. fw[1] < new[1] /\ \A j \in 1 .. (1 - 1) : fw[j] = new[j]
        BY <1>2, <1>3, <1>4
    <2> HIDE DEF new
    <2>2. Older(fw, new)
        BY <2>1 DEF Older
    <2>3. QED
        BY <2>2 DEF AtLeast, new
<1>5. CASE i = 2
    BY <1>2, <1>3, <1>5
<1>6. CASE i > 2
    <2>1. fw[1] = 1 /\ fw[2] = 0
        BY <1>2, <1>3, <1>6
    <2>2. fw[2] < new[2] /\ \A j \in 1 .. (2 - 1) : fw[j] = new[j]
        <3>1. 1 .. (2 - 1) = {1}
            OBVIOUS
        <3>2. QED
            BY <2>1, <1>3, <3>1
    <2> HIDE DEF new
    <2>3. Older(fw, new)
        BY <2>2 DEF Older
    <2>4. QED
        BY <2>3 DEF AtLeast, new
<1>7. QED
    BY <1>4, <1>5, <1>6

\* A band that is offered is known, but for 630 m on an old Classic.
LEMMA OfferedSupported ==
    ASSUME NEW d \in Devices, NEW s \in Offered(d), s # "Band_630m" \/ Calibrated(d)
    PROVE  SupportsBand(Firmware[d], s, CentreFreq[s])
<1>0. Firmware[d] \in FirmwareVersions /\ ProductId[d] \in {1, 2}
      /\ SupportsDevice(Firmware[d], ProductId[d])
    BY SettingsAssumption
<1>1. CASE ProductId[d] = 2
    <2>1. AtLeast(Firmware[d], <<1, 1, 0, 20170605>>)
        BY <1>0, <1>1 DEF SupportsDevice
    <2>2. QED
        BY <1>0, <2>1, NewFirmware DEF SupportsBand
<1>2. CASE ProductId[d] = 1
    <2>1. Classic(d) /\ ~Calibrated(d)
        BY <1>2 DEF Classic, Has20mFilter, Calibrated, HasCalibratedOscillator
    <2>2. ~(CentreFreq[s] > 15000000)
        BY <2>1 DEF Offered, WsprBands, CentreFreq
    <2>3. QED
        BY <2>1, <2>2 DEF SupportsBand
<1>3. QED
    BY <1>0, <1>1, <1>2

\* A band that getFreq stays in is known if it was picked so.
LEMMA SupportedKnown ==
    ASSUME NEW d \in Devices, NEW s \in WsprBands, NEW f \in Int, NEW m,
           ContainsFreq(s, f),
           SupportsBand(Firmware[d], s, CentreFreq[s]) \/ ContainsFreq(s, m)
    PROVE  Known(d, f, m)
<1> SUFFICES ASSUME NEW t \in WsprBands, ContainsFreq(t, f)
             PROVE  SupportsBand(Firmware[d], t, CentreFreq[t]) \/ ContainsFreq(t, m)
    BY DEF Known
<1>1. t = s
    BY BandsDisjoint
<1>2. QED
    BY <1>1

LEMMA CalibratedKnown ==
    ASSUME NEW d \in Devices, NEW f, NEW m, Calibrated(d)
    PROVE  Known(d, f, m)
<1>1. ~Classic(d)
    BY DEF Calibrated, HasCalibratedOscillator, Classic, Has20mFilter
<1>2. Offered(d) = WsprBands
    BY <1>1 DEF Offered
<1>3. QED
    BY <1>2, OfferedSupported DEF Known

\* The random or stored frequency of the band that was found for m is in a band
\* that the firmware knows or m is in.
LEMMA TunedKnown ==
    ASSUME NEW d \in Devices, NEW b, NEW m \in Int,
           b.freq = m, b.sel = BandAmong(Offered(d), m),
           NEW f \in GetFreq(d, b) \cup GenFreq(d, b)
    PROVE  Known(d, f, m)
<1>0. Offered(d) \in SUBSET WsprBands
    BY OfferedFacts
<1>1. b.sel \in Offered(d) \cup {NoBand}
    BY <1>0, BandAmongFacts
<1>2. /\ SelectedBand(d, b) \in Offered(d) /\ SelectedBand(d, b) \in WsprBands
      /\ f \in Int /\ ContainsFreq(SelectedBand(d, b), f)
    BY <1>1, SelectedOffered, GetFreqInBand
<1>3. CASE b.sel = NoBand
    <2>1. SelectedBand(d, b) = FirstOffered(d) /\ FirstOffered(d) # "Band_630m"
        BY <1>3 DEF SelectedBand, FirstOffered
    <2>2. QED
        BY <1>2, <2>1, OfferedSupported, SupportedKnown
<1>4. CASE b.sel # NoBand
    <2>1. SelectedBand(d, b) = b.sel /\ ContainsFreq(b.sel, m)
        BY <1>0, <1>4, BandAmongFacts DEF SelectedBand
    <2>2. QED
        BY <1>2, <2>1, SupportedKnown
<1>5. QED
    BY <1>3, <1>4

-------------------------------------------------------------------------------
(* The box.                                                                  *)

\* The controls that no band, bias or power changes.
OtherFields == {"call", "loc", "report", "cw", "cwCall", "force", "maxDuration",
                "txRate"}
SameOthers(a, b) == \A x \in OtherFields : a[x] = b[x]

\* What a change of band or of bias refreshes.
Retuned(d, b) == UpdateBiasSelectText(d, UpdateAvailableOutputPowers(d, b))

LEMMA MsgTypesFit ==
    ASSUME NEW d, NEW b
    PROVE  MsgTypes(d, b) \in MsgTexts
BY DEF MsgTypes, MsgTexts

LEMMA MsgTypesOfOthers ==
    ASSUME NEW d, NEW a, NEW b, SameOthers(a, b)
    PROVE  MsgTypes(d, a) = MsgTypes(d, b)
<1>1. a.call = b.call /\ a.loc = b.loc /\ a.force = b.force
    BY DEF SameOthers, OtherFields
<1>2. QED
    BY <1>1 DEF MsgTypes, IsLongLocator

\* The frequency controls.
LEMMA TextFields ==
    ASSUME NEW d \in Devices, NEW b \in Box, NEW f \in Nat
    PROVE  /\ UpdateTxFreqText(b, f) \in Box /\ SetFreq(d, b, f) \in Box
           /\ UpdateTxFreqText(b, f).freq = f /\ UpdateTxFreqText(b, f).freqText = f
           /\ UpdateTxFreqText(b, f).sel = b.sel
           /\ SetFreq(d, b, f).freq = f /\ SetFreq(d, b, f).freqText = b.freqText
           /\ SetFreq(d, b, f).sel = BandAmong(Offered(d), f)
           /\ \A r \in {UpdateTxFreqText(b, f), SetFreq(d, b, f)} :
                 /\ r.source = b.source /\ r.levels = b.levels /\ r.power = b.power
                 /\ r.noData = b.noData /\ r.msgTypes = b.msgTypes /\ SameOthers(r, b)
<1>1. BandAmong(Offered(d), f) \in WsprBands \cup {NoBand}
    BY OfferedFacts, BandAmongFacts
<1>2. UpdateTxFreqText(b, f) \in Box /\ SetFreq(d, b, f) \in Box
    <2>1. UpdateTxFreqText(b, f) \in Box
        BY ZenonT(60) DEF UpdateTxFreqText, Box
    <2>2. SetFreq(d, b, f) \in Box
        BY <1>1, ZenonT(60) DEF SetFreq, Box
    <2> QED
        BY <2>1, <2>2
<1> DEFINE t == UpdateTxFreqText(b, f)
           u == SetFreq(d, b, f)
<1>3. /\ t.freq = f /\ t.freqText = f /\ t.sel = b.sel /\ t.source = b.source
      /\ t.levels = b.levels /\ t.power = b.power /\ t.noData = b.noData
      /\ t.msgTypes = b.msgTypes
    BY DEF UpdateTxFreqText, Box
<1>4. SameOthers(t, b)
    BY DEF UpdateTxFreqText, Box, SameOthers, OtherFields
<1>5. /\ u.freq = f /\ u.freqText = b.freqText /\ u.sel = BandAmong(Offered(d), f)
      /\ u.source = b.source /\ u.levels = b.levels /\ u.power = b.power
      /\ u.noData = b.noData /\ u.msgTypes = b.msgTypes
    BY DEF SetFreq, Box
<1>6. SameOthers(u, b)
    BY DEF SetFreq, Box, SameOthers, OtherFields
<1> HIDE DEF t, u
<1>7. \A r \in {t, u} :
          /\ r.source = b.source /\ r.levels = b.levels /\ r.power = b.power
          /\ r.noData = b.noData /\ r.msgTypes = b.msgTypes /\ SameOthers(r, b)
    BY <1>3, <1>4, <1>5, <1>6
<1>8. QED
    BY <1>2, <1>3, <1>5, <1>7 DEF t, u

LEMMA SetFreqFields ==
    ASSUME NEW d \in Devices, NEW b \in Box, NEW f \in Nat
    PROVE  LET r == SetFreq(d, b, f) IN
           /\ r \in Box /\ r.freq = f /\ r.sel = BandAmong(Offered(d), f)
           /\ r.source = b.source /\ r.power = b.power /\ r.levels = b.levels
           /\ SameOthers(r, b)
<1> DEFINE r == SetFreq(d, b, f)
<1>1. /\ r \in Box /\ r.freq = f /\ r.sel = BandAmong(Offered(d), f)
      /\ r \in {UpdateTxFreqText(b, f), r}
    BY TextFields
<1>2. /\ r.source = b.source /\ r.power = b.power /\ r.levels = b.levels
      /\ SameOthers(r, b)
    BY <1>1, TextFields
<1> QED
    BY <1>1, <1>2

\* Ctl_OutputPowerSelect::initChoices.
LEMMA ChoicesFields ==
    ASSUME NEW b \in Box, NEW levels \in SUBSET AllLevels, levels # {}
    PROVE  LET r == PowerChoices(b, levels) IN
           /\ r \in Box /\ r.levels = levels /\ r.power \in levels
           /\ PowerGet(b) \in levels => r.power = PowerGet(b)
           /\ r.freq = b.freq /\ r.freqText = b.freqText /\ r.sel = b.sel
           /\ r.source = b.source /\ r.noData = b.noData /\ r.msgTypes = b.msgTypes
           /\ SameOthers(r, b)
<1> DEFINE power == IF PowerGet(b) \in levels THEN PowerGet(b)
                    ELSE IF levels # {} THEN Max(levels) ELSE NoPower
           r == PowerChoices(b, levels)
<1>1. power \in levels /\ (PowerGet(b) \in levels => power = PowerGet(b))
    BY LargestLevel
<1>2. r = [b EXCEPT !.levels = levels, !.power = power]
    BY DEF PowerChoices
<1> HIDE DEF power, r
<1>3. r \in Box /\ r.levels = levels /\ r.power = power
    BY <1>1, <1>2 DEF Box
<1>4. /\ r.freq = b.freq /\ r.freqText = b.freqText /\ r.sel = b.sel
      /\ r.source = b.source /\ r.noData = b.noData /\ r.msgTypes = b.msgTypes
      /\ SameOthers(r, b)
    BY <1>2 DEF Box, SameOthers, OtherFields
<1>5. QED
    BY <1>1, <1>3, <1>4 DEF r

\* A retuned box is up to date, and keeps its power if the new levels have it.
LEMMA RetunedFields ==
    ASSUME NEW d \in Devices, NEW b \in Box, NEW s \in WsprBands,
           b.source \in BiasChoices(d) \cup {NoSource}, ContainsFreq(s, b.freq)
    PROVE  LET r == Retuned(d, b) IN
           /\ r \in Box /\ UpToDate(d, r) /\ r.power \in r.levels
           /\ PowerGet(b) \in r.levels => r.power = PowerGet(b)
           /\ r.freq = b.freq /\ r.freqText = b.freqText /\ r.sel = b.sel
           /\ r.source = b.source /\ r.msgTypes = b.msgTypes /\ SameOthers(r, b)
<1> DEFINE levels == Available(d, BiasGet(d, b), b.freq)
           c == PowerChoices(b, levels)
           noData == ~HasData(Query(d, BiasGet(d, c), c.freq, 0))
           r == Retuned(d, b)
<1>1. b.freq \in Int /\ BiasGet(d, b) \in Sources
    BY BiasGetFacts DEF Box
<1>2. levels \in SUBSET AllLevels /\ levels # {}
    BY <1>1, SomeLevel
<1>3. r = [c EXCEPT !.noData = noData] /\ noData \in BOOLEAN
    BY DEF Retuned, UpdateBiasSelectText, UpdateAvailableOutputPowers
<1> HIDE DEF r
<1>4. /\ c \in Box /\ c.levels = levels /\ c.power \in levels
      /\ PowerGet(b) \in levels => c.power = PowerGet(b)
      /\ c.freq = b.freq /\ c.freqText = b.freqText /\ c.sel = b.sel
      /\ c.source = b.source /\ c.msgTypes = b.msgTypes /\ SameOthers(c, b)
    BY <1>2, ChoicesFields
<1> HIDE DEF c, noData
<1>5. /\ r \in Box /\ r.noData = noData /\ r.levels = c.levels /\ r.power = c.power
      /\ r.freq = c.freq /\ r.freqText = c.freqText /\ r.sel = c.sel
      /\ r.source = c.source /\ r.msgTypes = c.msgTypes
    BY <1>3, <1>4 DEF Box
<1>6. SameOthers(r, b)
    <2>1. SameOthers(r, c)
        BY <1>3, <1>4 DEF Box, SameOthers, OtherFields
    <2>2. QED
        BY <1>4, <2>1 DEF SameOthers
<1>7. BiasGet(d, r) = BiasGet(d, b) /\ BiasGet(d, c) = BiasGet(d, b)
    BY <1>4, <1>5 DEF BiasGet
<1>8. UpToDate(d, r)
    <2>1. r.levels = Available(d, BiasGet(d, r), r.freq)
        BY <1>4, <1>5, <1>7
    <2>2. r.noData = ~HasData(Query(d, BiasGet(d, r), r.freq, 0))
        BY <1>4, <1>5, <1>7 DEF noData
    <2>3. QED
        BY <2>1, <2>2 DEF UpToDate
<1> HIDE DEF levels
<1>9. QED
    BY <1>4, <1>5, <1>6, <1>8 DEF r

\* Refreshing with a frequency of the band: what a load and a picked band do.
LEMMA TunedFields ==
    ASSUME NEW d \in Devices, NEW b \in Box, NEW s \in WsprBands, NEW f \in Nat,
           b.source \in BiasChoices(d) \cup {NoSource}, ContainsFreq(s, f)
    PROVE  LET r == Retuned(d, UpdateTxFreqText(b, f)) IN
           /\ r \in Box /\ UpToDate(d, r) /\ r.power \in r.levels
           /\ PowerGet(b) \in r.levels => r.power = PowerGet(b)
           /\ r.freq = f /\ r.freqText = f /\ r.sel = b.sel
           /\ r.source = b.source /\ r.msgTypes = b.msgTypes /\ SameOthers(r, b)
<1> DEFINE t == UpdateTxFreqText(b, f)
           r == Retuned(d, t)
<1>1. /\ t \in Box /\ t.freq = f /\ t.freqText = f /\ t.sel = b.sel
      /\ t.source = b.source /\ t.levels = b.levels /\ t.power = b.power
      /\ t.msgTypes = b.msgTypes /\ SameOthers(t, b)
    BY TextFields
<1>2. PowerGet(t) = PowerGet(b)
    BY <1>1 DEF PowerGet
<1> HIDE DEF t
<1>3. /\ r \in Box /\ UpToDate(d, r) /\ r.power \in r.levels
      /\ PowerGet(t) \in r.levels => r.power = PowerGet(t)
      /\ r.freq = t.freq /\ r.freqText = t.freqText /\ r.sel = t.sel
      /\ r.source = t.source /\ r.msgTypes = t.msgTypes /\ SameOthers(r, t)
    BY <1>1, RetunedFields
<1> HIDE DEF r
<1>4. SameOthers(r, b)
    BY <1>1, <1>3 DEF SameOthers
<1>5. QED
    BY <1>1, <1>2, <1>3, <1>4 DEF r, t

-------------------------------------------------------------------------------
(* The steps, seen from the whole box.                                       *)

LEMMA LastKeeps ==
    ASSUME BoxesInv, FreqInv', TypeOK', ShownInv', UNCHANGED last
    PROVE  BoxesInv'
<1>1. PowerWithinReach' /\ SavedBandSupported'
    BY DEF BoxesInv, PowerWithinReach, SavedBandSupported, Saved
<1>2. QED
    BY <1>1 DEF BoxesInv

\* What a device has of its own.
LEMMA DeviceFacts ==
    ASSUME BoxesInv, device \in Devices
    PROVE  /\ Orderly(device, box) /\ Consistent(device, box)
           /\ box \in Box /\ box.freq \in Nat
           /\ SelectedBand(device, box) \in WsprBands
           /\ ContainsFreq(SelectedBand(device, box), box.freq)
           /\ model.freq \in Int /\ model.freq = stored[device].freq
           /\ notes \in Notes
<1>1. Orderly(device, box) /\ Consistent(device, box) /\ notes \in Notes
    BY DEF BoxesInv, FreqInv, BoxInv, ShownInv, TypeOK
<1>2. box \in Box /\ box.freq \in Nat
    BY <1>1 DEF Orderly, Box
<1>3. model.freq \in Int /\ model.freq = stored[device].freq
    BY DEF BoxesInv, FreqInv, StoredInv
<1>4. QED
    BY <1>1, <1>2, <1>3, SelectedOffered DEF Consistent

\* An edit that leaves the box orderly, and up to date if it was.
LEMMA EditBoxes ==
    ASSUME NEW b, BoxesInv, FreqInv', enabled, Edit(b), Touched \/ TouchedAndRefreshed,
           Orderly(device, b), notes'.typedBand \/ UpToDate(device, b),
           Known(device, b.freq, model.freq)
    PROVE  BoxesInv'
<1>1. /\ box' = b /\ edits' = edits + 1 /\ edits < MaxEdits
      /\ UNCHANGED <<alive, device, enabled, stored, model, last>>
    BY DEF Edit
<1>2. notes \in Notes /\ edits \in 0 .. MaxEdits /\ MaxEdits \in Nat
    BY SettingsAssumption DEF BoxesInv, TypeOK
<1>3. notes' \in Notes
    BY <1>2 DEF Touched, TouchedAndRefreshed, Notes
<1>4. edits' \in 0 .. MaxEdits
    BY <1>1, <1>2
<1>5. box' \in Box
    BY <1>1 DEF Orderly
<1>6. TypeOK'
    BY <1>1, <1>3, <1>4, <1>5 DEF BoxesInv, TypeOK
<1>7. ShownInv'
    BY <1>1 DEF ShownInv, Orderly, UpToDate, Known
<1>8. QED
    BY <1>1, <1>6, <1>7, LastKeeps

\* A control that nothing but the message types is derived from.
LEMMA OtherEditBoxes ==
    ASSUME NEW b \in Box, BoxesInv, FreqInv', enabled, Edit(b), Touched,
           b.freq = box.freq, b.source = box.source, b.levels = box.levels,
           b.noData = box.noData, b.power \in b.levels,
           Calibrated(device) \/ b.freqText = box.freqText,
           b.msgTypes = MsgTypes(device, b)
    PROVE  BoxesInv'
<1>1. device \in Devices
    BY DEF BoxesInv, TypeOK
<1>2. /\ Orderly(device, box) /\ notes \in Notes
      /\ Known(device, box.freq, model.freq)
      /\ notes.typedBand \/ UpToDate(device, box)
    BY <1>1, DeviceFacts DEF BoxesInv, ShownInv
<1>3. BiasGet(device, b) = BiasGet(device, box)
    BY DEF BiasGet
<1>4. UpToDate(device, box) => UpToDate(device, b)
    BY <1>3 DEF UpToDate
<1>5. notes'.typedBand = notes.typedBand
    BY <1>2 DEF Touched, Notes
<1>6. Orderly(device, b)
    BY <1>2 DEF Orderly
<1>7. QED
    BY <1>2, <1>4, <1>5, <1>6, EditBoxes

\* The callsign, the locator or the extended locator: the message types follow.
LEMMA MessageEditBoxes ==
    ASSUME NEW c \in Box, BoxesInv, FreqInv', enabled,
           Edit(UpdateWsprMsgTypesText(device, c)), Touched,
           c.freq = box.freq, c.source = box.source, c.levels = box.levels,
           c.noData = box.noData, c.power = box.power, c.freqText = box.freqText
    PROVE  BoxesInv'
<1> DEFINE text == MsgTypes(device, c)
           b == [c EXCEPT !.msgTypes = text]
<1>1. b = UpdateWsprMsgTypesText(device, c)
    BY DEF UpdateWsprMsgTypesText
<1>2. text \in MsgTexts
    BY MsgTypesFit
<1> HIDE DEF text
<1>3. /\ b \in Box /\ b.msgTypes = text
      /\ b.freq = box.freq /\ b.source = box.source /\ b.levels = box.levels
      /\ b.noData = box.noData /\ b.power = box.power /\ b.freqText = box.freqText
      /\ SameOthers(b, c)
    BY <1>2 DEF Box, SameOthers, OtherFields
<1> HIDE DEF b
<1>4. b.msgTypes = MsgTypes(device, b)
    BY <1>3, MsgTypesOfOthers DEF text
<1>5. device \in Devices
    BY DEF BoxesInv, TypeOK
<1>6. b.power \in b.levels
    BY <1>3, <1>5, DeviceFacts DEF Orderly
<1>7. QED
    BY <1>1, <1>3, <1>4, <1>6, OtherEditBoxes

LEMMA BandBoxes ==
    ASSUME NEW band, BoxesInv, FreqInv', enabled, OnBandChanged(band)
    PROVE  BoxesInv'
<1> DEFINE picked == [box EXCEPT !.sel = band]
           back == SetFreq(device, picked, model.freq)
           old == band = "Band_630m"
                      /\ ~SupportsBand(Firmware[device], band, CentreFreq[band])
           b == IF old THEN back ELSE picked
<1>0. device \in Devices /\ band \in Offered(device)
    BY DEF BoxesInv, TypeOK, OnBandChanged
<1>1. /\ Orderly(device, box) /\ box \in Box /\ notes \in Notes
      /\ model.freq \in Nat /\ band \in WsprBands
    <2>1. model.freq \in Nat
        BY DEF BoxesInv, TypeOK, Config
    <2>2. QED
        BY <1>0, <2>1, DeviceFacts, OfferedFacts
<1>2. PICK f \in GetFreq(device, b) : Edit(Retuned(device, UpdateTxFreqText(b, f)))
    BY DEF OnBandChanged, Retuned
<1>3. /\ picked \in Box /\ picked.sel = band /\ picked.source = box.source
      /\ picked.msgTypes = box.msgTypes /\ SameOthers(picked, box)
    BY <1>1 DEF Box, SameOthers, OtherFields
<1> HIDE DEF picked
<1>4. /\ back \in Box /\ back.freq = model.freq
      /\ back.sel = BandAmong(Offered(device), model.freq)
      /\ back.source = box.source /\ back.msgTypes = box.msgTypes
      /\ SameOthers(back, box)
    <2>1. back.source = picked.source /\ back.msgTypes = picked.msgTypes
          /\ SameOthers(back, picked)
        BY <1>0, <1>1, <1>3, TextFields
    <2>2. QED
        BY <1>0, <1>1, <1>3, <2>1, TextFields, ZenonT(60) DEF SameOthers
<1> HIDE DEF back
<1>5. /\ b \in Box /\ b.source = box.source /\ b.msgTypes = box.msgTypes
      /\ SameOthers(b, box)
    BY <1>3, <1>4
<1>6. b.sel \in Offered(device) \cup {NoBand}
    BY <1>0, <1>3, <1>4, OfferedFacts, BandAmongFacts
<1>7. /\ f \in Int /\ ContainsFreq(SelectedBand(device, b), f)
      /\ SelectedBand(device, b) \in WsprBands
    BY <1>2, <1>5, <1>6, GetFreqInBand, SelectedOffered DEF Box
<1>8. Known(device, f, model.freq)
    <2>1. CASE old
        BY <1>0, <1>1, <1>2, <1>4, <2>1, TunedKnown
    <2>2. CASE ~old
        <3>1. SelectedBand(device, b) = band
            BY <1>1, <1>3, <2>2, CentreFacts DEF SelectedBand
        <3>2. SupportsBand(Firmware[device], band, CentreFreq[band])
            BY <1>0, <2>2, OfferedSupported
        <3>3. QED
            BY <1>0, <1>7, <3>1, <3>2, SupportedKnown
    <2>3. QED
        BY <2>1, <2>2
<1> HIDE DEF b
<1> DEFINE r == Retuned(device, UpdateTxFreqText(b, f))
<1>9. f \in Nat
    BY <1>7 DEF WsprBands, CentreFreq, ContainsFreq
<1>10. /\ r \in Box /\ UpToDate(device, r) /\ r.power \in r.levels
       /\ r.freq = f /\ r.freqText = f
       /\ r.source = b.source /\ r.msgTypes = b.msgTypes /\ SameOthers(r, b)
    BY <1>0, <1>1, <1>5, <1>7, <1>9, TunedFields DEF Orderly
<1> HIDE DEF r
<1>11. MsgTypes(device, r) = MsgTypes(device, box)
    BY <1>5, <1>10, MsgTypesOfOthers
<1>12. Orderly(device, r)
    BY <1>1, <1>5, <1>10, <1>11 DEF Orderly
<1>13. Edit(r) /\ TouchedAndRefreshed
    BY <1>2 DEF r, OnBandChanged
<1>14. QED
    BY <1>8, <1>10, <1>12, <1>13, EditBoxes

LEMMA BiasBoxes ==
    ASSUME NEW s, BoxesInv, FreqInv', enabled, OnBiasSelectChanged(s)
    PROVE  BoxesInv'
<1> DEFINE b == [box EXCEPT !.source = s]
           r == Retuned(device, b)
<1>0. device \in Devices /\ s \in BiasChoices(device) /\ s \in Sources
    BY BiasChoiceFacts DEF BoxesInv, TypeOK, OnBiasSelectChanged
<1>1. /\ Orderly(device, box) /\ box \in Box
      /\ SelectedBand(device, box) \in WsprBands
      /\ ContainsFreq(SelectedBand(device, box), box.freq)
    BY <1>0, DeviceFacts
<1>2. Edit(r) /\ TouchedAndRefreshed
    BY DEF OnBiasSelectChanged, Retuned
<1>3. /\ b \in Box /\ b.source = s /\ b.freq = box.freq /\ b.freqText = box.freqText
      /\ b.msgTypes = box.msgTypes /\ SameOthers(b, box)
    BY <1>0, <1>1 DEF Box, SameOthers, OtherFields
<1> HIDE DEF b
<1>4. /\ r \in Box /\ UpToDate(device, r) /\ r.power \in r.levels
      /\ r.freq = b.freq /\ r.freqText = b.freqText
      /\ r.source = b.source /\ r.msgTypes = b.msgTypes /\ SameOthers(r, b)
    BY <1>0, <1>1, <1>3, RetunedFields
<1> HIDE DEF r
<1>5. MsgTypes(device, r) = MsgTypes(device, box)
    BY <1>3, <1>4, MsgTypesOfOthers
<1>6. Orderly(device, r)
    BY <1>0, <1>1, <1>3, <1>4, <1>5 DEF Orderly
<1>7. Known(device, r.freq, model.freq)
    BY <1>0, <1>3, <1>4 DEF BoxesInv, ShownInv
<1>8. QED
    BY <1>2, <1>4, <1>6, <1>7, EditBoxes

LEMMA EditsBoxes ==
    ASSUME BoxesInv, FreqInv', enabled, UserEdits
    PROVE  BoxesInv'
<1>0. /\ device \in Devices
      /\ Orderly(device, box) /\ box \in Box /\ box.power \in box.levels
      /\ box.msgTypes = MsgTypes(device, box)
    <2>1. device \in Devices
        BY DEF BoxesInv, TypeOK
    <2>2. QED
        BY <2>1, DeviceFacts DEF Orderly
<1>a. ASSUME NEW b \in Box, SameOthers(b, box), b.msgTypes = box.msgTypes
      PROVE  b.msgTypes = MsgTypes(device, b)
    BY <1>0, <1>a, MsgTypesOfOthers
<1>1. ASSUME NEW band \in PickedBands, OnBandChanged(band) PROVE BoxesInv'
    BY <1>1, BandBoxes
<1>2. ASSUME NEW s \in Sources, OnBiasSelectChanged(s) PROVE BoxesInv'
    BY <1>2, BiasBoxes
<1>3. ASSUME NEW p \in AllLevels, PickPower(p) PROVE BoxesInv'
    <2> DEFINE b == [box EXCEPT !.power = p]
    <2>1. Edit(b) /\ Touched /\ p \in box.levels
        BY <1>3 DEF PickPower
    <2>2. /\ b \in Box /\ b.freq = box.freq /\ b.source = box.source
          /\ b.levels = box.levels /\ b.noData = box.noData /\ b.power = p
          /\ b.freqText = box.freqText /\ b.msgTypes = box.msgTypes /\ SameOthers(b, box)
        BY <1>0 DEF Box, SameOthers, OtherFields
    <2> HIDE DEF b
    <2>3. QED
        BY <1>a, <2>1, <2>2, OtherEditBoxes
<1>4. ASSUME NEW r \in Reports, PickReport(r) PROVE BoxesInv'
    <2> DEFINE b == [box EXCEPT !.report = r]
    <2>1. Edit(b) /\ Touched /\ r \in ReportLevels \cup {SameAsOutput}
        BY <1>4, SettingsAssumption DEF PickReport
    <2>2. /\ b \in Box /\ b.freq = box.freq /\ b.source = box.source
          /\ b.levels = box.levels /\ b.noData = box.noData /\ b.power = box.power
          /\ b.freqText = box.freqText /\ b.msgTypes = box.msgTypes
          /\ b.call = box.call /\ b.loc = box.loc /\ b.force = box.force
        BY <1>0, <2>1 DEF Box
    <2> HIDE DEF b
    <2>3. b.msgTypes = MsgTypes(device, b)
        BY <1>0, <2>2 DEF MsgTypes, IsLongLocator
    <2>4. QED
        BY <1>0, <2>1, <2>2, <2>3, OtherEditBoxes
<1>5. ASSUME NEW t \in TypedFreqs, TypeFreq(t) PROVE BoxesInv'
    <2> DEFINE b == [box EXCEPT !.freqText = t]
    <2>1. Edit(b) /\ Touched /\ t \in Nat \cup {NoText} /\ Calibrated(device)
        BY <1>5, SettingsAssumption DEF TypeFreq
    <2>2. /\ b \in Box /\ b.freq = box.freq /\ b.source = box.source
          /\ b.levels = box.levels /\ b.noData = box.noData /\ b.power = box.power
          /\ b.msgTypes = box.msgTypes /\ SameOthers(b, box)
        BY <1>0, <2>1 DEF Box, SameOthers, OtherFields
    <2> HIDE DEF b
    <2>3. QED
        BY <1>0, <1>a, <2>1, <2>2, OtherEditBoxes
<1>6. ASSUME NEW c \in Calls, OnCallsignChanged(c) PROVE BoxesInv'
    <2> DEFINE b == [box EXCEPT !.call = c]
    <2>1. Edit(UpdateWsprMsgTypesText(device, b)) /\ Touched /\ c \in Callsign
        BY <1>6, SettingsAssumption DEF OnCallsignChanged
    <2>2. /\ b \in Box /\ b.freq = box.freq /\ b.source = box.source
          /\ b.levels = box.levels /\ b.noData = box.noData /\ b.power = box.power
          /\ b.freqText = box.freqText
        BY <1>0, <2>1 DEF Box
    <2> HIDE DEF b
    <2>3. QED
        BY <2>1, <2>2, MessageEditBoxes
<1>7. ASSUME NEW l \in Locators, OnLocatorChanged(l) PROVE BoxesInv'
    <2> DEFINE b == [box EXCEPT !.loc = l]
    <2>1. Edit(UpdateWsprMsgTypesText(device, b)) /\ Touched /\ l \in Locator
        BY <1>7, SettingsAssumption DEF OnLocatorChanged
    <2>2. /\ b \in Box /\ b.freq = box.freq /\ b.source = box.source
          /\ b.levels = box.levels /\ b.noData = box.noData /\ b.power = box.power
          /\ b.freqText = box.freqText
        BY <1>0, <2>1 DEF Box
    <2> HIDE DEF b
    <2>3. QED
        BY <2>1, <2>2, MessageEditBoxes
<1>8. CASE OnForceExtendedWsprChange
    <2>f. PICK flag \in BOOLEAN : flag = ~box.force
        OBVIOUS
    <2> DEFINE b == [box EXCEPT !.force = flag]
    <2>1. Edit(UpdateWsprMsgTypesText(device, b)) /\ Touched
        BY <1>8, <2>f DEF OnForceExtendedWsprChange
    <2>t. b \in Box
        BY <1>0 DEF Box
    <2>2. /\ b.freq = box.freq /\ b.source = box.source
          /\ b.levels = box.levels /\ b.noData = box.noData /\ b.power = box.power
          /\ b.freqText = box.freqText
        BY <1>0 DEF Box
    <2> HIDE DEF b
    <2>3. QED
        BY <2>1, <2>2, <2>t, MessageEditBoxes
<1>b. ASSUME NEW b \in Box, Edit(b), Touched, b.freq = box.freq, b.source = box.source,
             b.levels = box.levels, b.noData = box.noData, b.power = box.power,
             b.freqText = box.freqText, b.msgTypes = box.msgTypes,
             b.call = box.call, b.loc = box.loc, b.force = box.force
      PROVE  BoxesInv'
    <2>1. b.msgTypes = MsgTypes(device, b)
        BY <1>0, <1>b DEF MsgTypes, IsLongLocator
    <2>2. QED
        BY <1>0, <1>b, <2>1, OtherEditBoxes
<1>9. CASE OnCWIDEnableChange
    <2>f. PICK flag \in BOOLEAN : flag = ~box.cw
        OBVIOUS
    <2> DEFINE b == [box EXCEPT !.cw = flag]
    <2>1. Edit(b) /\ Touched
        BY <1>9, <2>f DEF OnCWIDEnableChange
    <2>t. b \in Box
        BY <1>0 DEF Box
    <2>2. /\ b.freq = box.freq /\ b.source = box.source
          /\ b.levels = box.levels /\ b.noData = box.noData /\ b.power = box.power
          /\ b.freqText = box.freqText /\ b.msgTypes = box.msgTypes
          /\ b.call = box.call /\ b.loc = box.loc /\ b.force = box.force
        BY <1>0 DEF Box
    <2> HIDE DEF b
    <2>3. QED
        BY <1>b, <2>1, <2>2, <2>t
<1>10. CASE TypeCwCallsign
    <2>f. PICK flag \in BOOLEAN : flag = ~box.cwCall
        OBVIOUS
    <2> DEFINE b == [box EXCEPT !.cwCall = flag]
    <2>1. Edit(b) /\ Touched
        BY <1>10, <2>f DEF TypeCwCallsign
    <2>t. b \in Box
        BY <1>0 DEF Box
    <2>2. /\ b.freq = box.freq /\ b.source = box.source
          /\ b.levels = box.levels /\ b.noData = box.noData /\ b.power = box.power
          /\ b.freqText = box.freqText /\ b.msgTypes = box.msgTypes
          /\ b.call = box.call /\ b.loc = box.loc /\ b.force = box.force
        BY <1>0 DEF Box
    <2> HIDE DEF b
    <2>3. QED
        BY <1>b, <2>1, <2>2, <2>t
<1>11. ASSUME NEW text \in TypedDays, TypeMaxDuration(text) PROVE BoxesInv'
    <2> DEFINE b == [box EXCEPT !.maxDuration = text]
    <2>1. Edit(b) /\ Touched
        BY <1>11 DEF TypeMaxDuration
    <2>2. /\ b \in Box /\ b.freq = box.freq /\ b.source = box.source
          /\ b.levels = box.levels /\ b.noData = box.noData /\ b.power = box.power
          /\ b.freqText = box.freqText /\ b.msgTypes = box.msgTypes
          /\ b.call = box.call /\ b.loc = box.loc /\ b.force = box.force
        BY <1>0, SettingsAssumption DEF Box
    <2> HIDE DEF b
    <2>3. QED
        BY <1>b, <2>1, <2>2
<1>12. ASSUME NEW text \in TypedRates, TypeTxRate(text) PROVE BoxesInv'
    <2> DEFINE b == [box EXCEPT !.txRate = text]
    <2>1. Edit(b) /\ Touched
        BY <1>12 DEF TypeTxRate
    <2>2. /\ b \in Box /\ b.freq = box.freq /\ b.source = box.source
          /\ b.levels = box.levels /\ b.noData = box.noData /\ b.power = box.power
          /\ b.freqText = box.freqText /\ b.msgTypes = box.msgTypes
          /\ b.call = box.call /\ b.loc = box.loc /\ b.force = box.force
        BY <1>0, SettingsAssumption DEF Box
    <2> HIDE DEF b
    <2>3. QED
        BY <1>b, <2>1, <2>2
<1>13. QED
    BY <1>1, <1>2, <1>3, <1>4, <1>5, <1>6, <1>7, <1>8, <1>9, <1>10, <1>11, <1>12
        DEF UserEdits

-------------------------------------------------------------------------------
(* The longest run time and its text.                                        *)

LEMMA ReadTyped ==
    ASSUME NEW t \in Nat
    PROVE  ReadDays(t) \in Nat
<1>1. CASE t \in FallsShort
    <2>1. t >= 1
        BY <1>1, SettingsAssumption
    <2>2. 54 * t - 1 \in Nat
        BY <2>1
    <2>3. QED
        BY <1>1, <2>2 DEF ReadDays
<1>2. CASE t \notin FallsShort
    BY <1>2 DEF ReadDays
<1>3. QED
    BY <1>1, <1>2

\* The number of last digits and the way back, for one size of the last digit.
LEMMA DigitReturns ==
    ASSUME NEW s \in Nat, NEW u \in {1, 10, 100, 1000}, NEW e \in {0, 1},
           NEW x \in {0, 1}, s = 0 => e = 0,
           NEW q, q = (625 * s + (27 * u - e)) \div (54 * u),
           NEW t, t = (54 * (u * q) - x) \div 625
    PROVE  /\ q \in Nat
           /\ t \in (s - (27 * u) \div 625 - 1)..(s + (27 * u) \div 625)
<1>1. CASE u = 1
    BY <1>1
<1>2. CASE u = 10
    BY <1>2
<1>3. CASE u = 100
    BY <1>3
<1>4. CASE u = 1000
    BY <1>4
<1>5. QED
    BY <1>1, <1>2, <1>3, <1>4

LEMMA DigitSizes ==
    ASSUME NEW s \in Nat
    PROVE  LastDigit(s) \in {1, 10, 100, 1000}
BY DEF LastDigit

\* A run time that is shown and read again keeps its six digits.
LEMMA RunTimeReturns ==
    ASSUME NEW s \in Nat
    PROVE  /\ ShownDays(s) \in Nat
           /\ RoundTrips(s, ReadDays(ShownDays(s)))
<1> DEFINE u == LastDigit(s)
           e == IF s \in TiesDown THEN 1 ELSE 0
           q == (625 * s + (27 * u - e)) \div (54 * u)
           x == IF u * q \in FallsShort THEN 1 ELSE 0
           t == (54 * (u * q) - x) \div 625
<1>1. u \in {1, 10, 100, 1000} /\ e \in {0, 1} /\ x \in {0, 1}
    BY DigitSizes
<1>2. s = 0 => e = 0
    BY SettingsAssumption
<1>3. ShownDays(s) = u * q
    BY DEF ShownDays
<1>4. ReadDays(u * q) = t
    BY DEF ReadDays
<1> HIDE DEF u, e, x
<1>5. q \in Nat /\ t \in (s - (27 * u) \div 625 - 1)..(s + (27 * u) \div 625)
    BY <1>1, <1>2, DigitReturns
<1> HIDE DEF q, t
<1>6. u * q \in Nat
    BY <1>1, <1>5
<1>7. QED
    BY <1>3, <1>4, <1>5, <1>6 DEF RoundTrips, u

LEMMA RoundTripsItself ==
    ASSUME NEW s \in Nat
    PROVE  RoundTrips(s, s)
<1>1. (27 * LastDigit(s)) \div 625 \in Nat
    BY DigitSizes
<1>2. QED
    BY <1>1 DEF RoundTrips

\* The configuration that a load reads, and the box that it sets.
LEMMA LoadedTyped ==
    ASSUME TypeOK, NEW d \in Devices
    PROVE  /\ Loaded(d) \in Config
           /\ Loaded(d).freq = stored[d].freq /\ Loaded(d).out = stored[d].out
           /\ Loaded(d).rep = stored[d].rep /\ Loaded(d).bias = stored[d].bias
           /\ Loaded(d).call = stored[d].call /\ Loaded(d).loc = stored[d].loc
           /\ Loaded(d).counter = stored[d].counter
           /\ Loaded(d).maxRuntime = stored[d].maxRuntime
           /\ Loaded(d).transmitPercent = stored[d].transmitPercent
           /\ Loaded(d).cwFreq =
                 IF SupportsCwId(Firmware[d]) THEN stored[d].cwFreq ELSE 0
           /\ Loaded(d).cwCall = (SupportsCwId(Firmware[d]) /\ stored[d].cwCall)
           /\ Loaded(d).source =
                 IF SupportsVarId(Firmware[d], "PaBiasSource")
                 THEN stored[d].source ELSE "Default"
           /\ Loaded(d).force =
                 (SupportsVarId(Firmware[d], "WSPR_optionFlags") /\ stored[d].force)
<1> DEFINE cwFreq == IF SupportsCwId(Firmware[d]) THEN stored[d].cwFreq ELSE 0
           cwCall == SupportsCwId(Firmware[d]) /\ stored[d].cwCall
           source == IF SupportsVarId(Firmware[d], "PaBiasSource")
                     THEN stored[d].source ELSE "Default"
           force == SupportsVarId(Firmware[d], "WSPR_optionFlags") /\ stored[d].force
<1>1. stored[d] \in Config
    BY DEF TypeOK
<1>2. cwFreq \in Nat /\ source \in Sources \cup {"other"}
    BY <1>1 DEF Config, Sources
<1>3. cwCall \in BOOLEAN /\ force \in BOOLEAN
    OBVIOUS
<1>4. Loaded(d) = [stored[d] EXCEPT !.cwFreq = cwFreq, !.cwCall = cwCall,
                                    !.source = source, !.force = force]
    BY <1>1 DEF Loaded, Config
<1> HIDE DEF cwFreq, cwCall, source, force
<1>t. Loaded(d) \in Config
    BY <1>1, <1>2, <1>3, <1>4, ZenonT(60) DEF Config
<1>5. /\ Loaded(d).freq = stored[d].freq /\ Loaded(d).out = stored[d].out
      /\ Loaded(d).rep = stored[d].rep /\ Loaded(d).bias = stored[d].bias
      /\ Loaded(d).call = stored[d].call /\ Loaded(d).loc = stored[d].loc
      /\ Loaded(d).counter = stored[d].counter
      /\ Loaded(d).maxRuntime = stored[d].maxRuntime
      /\ Loaded(d).transmitPercent = stored[d].transmitPercent
      /\ Loaded(d).cwFreq = cwFreq /\ Loaded(d).cwCall = cwCall
      /\ Loaded(d).source = source /\ Loaded(d).force = force
    BY <1>1, <1>4 DEF Config
<1>6. QED
    BY <1>5, <1>t DEF cwFreq, cwCall, source, force

LEMMA BoxChoices ==
    ASSUME NEW b \in Box, NEW call \in Callsign, NEW loc \in Locator,
           NEW source \in Sources \cup {NoSource}, NEW power \in AllLevels \cup {NoPower},
           NEW report \in ReportLevels \cup {SameAsOutput}
    PROVE  [b EXCEPT !.call = call, !.loc = loc, !.source = source, !.power = power,
                     !.report = report] \in Box
BY ZenonT(60) DEF Box

LEMMA BoxFlags ==
    ASSUME NEW b \in Box, NEW cwCall \in BOOLEAN, NEW cw \in BOOLEAN, NEW force \in BOOLEAN,
           NEW days \in Nat, NEW rate \in Nat
    PROVE  [b EXCEPT !.cwCall = cwCall, !.cw = cw, !.force = force,
                     !.maxDuration = days, !.txRate = rate] \in Box
BY ZenonT(60) DEF Box

\* What the controls of the bias, the power and the reported power may have.
SourceValues == Sources \cup {NoSource}
LevelValues == AllLevels \cup {NoPower}
ReportValues == ReportLevels \cup {SameAsOutput}

\* A box with the values in its controls that a load of cfg sets.
Valued(b, cfg, source, power, report, cw) ==
    [b EXCEPT !.call = cfg.call, !.loc = cfg.loc, !.source = source, !.power = power,
              !.report = report, !.cwCall = cfg.cwCall, !.cw = cw, !.force = cfg.force,
              !.maxDuration = ShownDays(cfg.maxRuntime), !.txRate = cfg.transmitPercent]

LEMMA ValuedTyped ==
    ASSUME NEW b \in Box, NEW cfg \in Config, NEW source \in SourceValues,
           NEW power \in LevelValues, NEW report \in ReportValues, NEW cw \in BOOLEAN
    PROVE  Valued(b, cfg, source, power, report, cw) \in Box
<1> DEFINE half == [b EXCEPT !.call = cfg.call, !.loc = cfg.loc, !.source = source,
                             !.power = power, !.report = report]
           c == Valued(b, cfg, source, power, report, cw)
<1>1. /\ cfg.call \in Callsign /\ cfg.loc \in Locator /\ cfg.cwCall \in BOOLEAN
      /\ cfg.force \in BOOLEAN /\ ShownDays(cfg.maxRuntime) \in Nat
      /\ cfg.transmitPercent \in Nat
    BY RunTimeReturns DEF Config
<1>2. half \in Box
    BY <1>1, BoxChoices DEF SourceValues, LevelValues, ReportValues
<1>3. c = [half EXCEPT !.cwCall = cfg.cwCall, !.cw = cw, !.force = cfg.force,
                       !.maxDuration = ShownDays(cfg.maxRuntime),
                       !.txRate = cfg.transmitPercent]
    BY DEF Valued
<1> HIDE DEF half, c
<1>4. c \in Box
    BY <1>1, <1>2, <1>3, BoxFlags, ZenonT(60)
<1>5. QED
    BY <1>4 DEF c

LEMMA SetControlsFields ==
    ASSUME NEW d \in Devices, NEW b \in Box, NEW cfg \in Config
    PROVE  LET r == SetControls(d, b, cfg) IN
           /\ r \in Box /\ r.freq = cfg.freq /\ r.sel = BandAmong(Offered(d), cfg.freq)
           /\ r.source = BiasSet(d, cfg.source)
           /\ r.power = PowerSet(b.levels, cfg.out) /\ r.levels = b.levels
           /\ r.report = (IF cfg.out = cfg.rep THEN SameAsOutput ELSE ReportSet(cfg.rep))
           /\ r.call = cfg.call /\ r.loc = cfg.loc /\ r.cwCall = cfg.cwCall
           /\ r.cw = (SupportsCwId(Firmware[d]) /\ cfg.cwFreq # 0 /\ cfg.cwCall)
           /\ r.force = cfg.force /\ r.maxDuration = ShownDays(cfg.maxRuntime)
           /\ r.txRate = cfg.transmitPercent
<1> DEFINE source == BiasSet(d, cfg.source)
           power == PowerSet(b.levels, cfg.out)
           report == IF cfg.out = cfg.rep THEN SameAsOutput ELSE ReportSet(cfg.rep)
           cw == SupportsCwId(Firmware[d]) /\ cfg.cwFreq # 0 /\ cfg.cwCall
           r == SetControls(d, b, cfg)
<1>1. source \in SourceValues
    BY BiasChoiceFacts DEF SourceValues
<1>2. power \in LevelValues /\ report \in ReportValues
    BY DEF PowerSet, Box, ReportSet, LevelValues, ReportValues
<1>3. PICK on \in BOOLEAN : on = cw
    OBVIOUS
<1> DEFINE c == Valued(b, cfg, source, power, report, on)
<1>4. r = SetFreq(d, c, cfg.freq) /\ cfg.freq \in Nat
    BY <1>3 DEF SetControls, Config, Valued
<1> HIDE DEF source, power, report, cw
<1>6. /\ c \in Box /\ c.source = source /\ c.power = power /\ c.levels = b.levels
      /\ c.report = report /\ c.call = cfg.call /\ c.loc = cfg.loc
      /\ c.cwCall = cfg.cwCall /\ c.cw = on /\ c.force = cfg.force
      /\ c.maxDuration = ShownDays(cfg.maxRuntime) /\ c.txRate = cfg.transmitPercent
    <2>1. c \in Box
        BY <1>1, <1>2, ValuedTyped
    <2>2. c.source = source /\ c.power = power /\ c.levels = b.levels
        BY DEF Valued, Box
    <2>3. c.report = report /\ c.call = cfg.call /\ c.loc = cfg.loc
        BY DEF Valued, Box
    <2>4. c.cwCall = cfg.cwCall /\ c.cw = on /\ c.force = cfg.force
        BY DEF Valued, Box
    <2>5. c.maxDuration = ShownDays(cfg.maxRuntime) /\ c.txRate = cfg.transmitPercent
        BY DEF Valued, Box
    <2>6. QED
        BY <2>1, <2>2, <2>3, <2>4, <2>5
<1> HIDE DEF c, r
<1>7. r.source = c.source /\ r.power = c.power /\ r.levels = c.levels /\ SameOthers(r, c)
    BY <1>4, <1>6, SetFreqFields
<1>8. r \in Box /\ r.freq = cfg.freq /\ r.sel = BandAmong(Offered(d), cfg.freq)
    BY <1>4, <1>6, SetFreqFields
<1>9. QED
    BY <1>3, <1>6, <1>7, <1>8 DEF SameOthers, OtherFields, r, source, power, report, cw

\* A load ends with an orderly box that is up to date, in the stored band if it is
\* offered, and with the stored power if it was and is offered.
LEMMA LoadFields ==
    ASSUME BoxesInv, NEW d \in Devices, Load(d)
    PROVE  LET cfg == Loaded(d)
               b == SetControls(d, box, cfg)
           IN  /\ Orderly(d, box') /\ UpToDate(d, box') /\ Known(d, box'.freq, cfg.freq)
               /\ box'.freq \in GetFreq(d, b) \cup GenFreq(d, b)
               /\ cfg.counter > 1 => box'.freq \in GetFreq(d, b)
               /\ PowerGet(b) \in box'.levels => box'.power = PowerGet(b)
               /\ box'.freqText = box'.freq /\ box'.sel = b.sel
               /\ box'.source = b.source /\ SameOthers(box', b)
<1> DEFINE cfg == Loaded(d)
           b == SetControls(d, box, cfg)
<1>1. cfg \in Config /\ box \in Box
    BY LoadedTyped DEF BoxesInv, TypeOK
<1>2. PICK f \in IF cfg.counter <= 1 THEN GenFreq(d, b) ELSE GetFreq(d, b) :
          box' = Refresh(d, b, f)
    BY DEF Load
<1>3. /\ f \in GetFreq(d, b) \cup GenFreq(d, b)
      /\ cfg.counter > 1 => f \in GetFreq(d, b)
    BY <1>1, <1>2 DEF Config
<1> HIDE DEF cfg
<1>4. /\ b \in Box /\ b.freq = cfg.freq /\ b.sel = BandAmong(Offered(d), cfg.freq)
      /\ b.source = BiasSet(d, cfg.source)
    BY <1>1, SetControlsFields
<1>5. cfg.freq \in Nat /\ b.source \in BiasChoices(d) \cup {NoSource}
    BY <1>1, <1>4, BiasChoiceFacts DEF Config
<1> HIDE DEF b
<1>6. b.sel \in Offered(d) \cup {NoBand}
    BY <1>4, OfferedFacts, BandAmongFacts
<1>7. /\ f \in Int /\ ContainsFreq(SelectedBand(d, b), f)
      /\ SelectedBand(d, b) \in WsprBands
    BY <1>3, <1>4, <1>5, <1>6, GetFreqInBand, SelectedOffered
<1>8. f \in Nat
    BY <1>7 DEF WsprBands, CentreFreq, ContainsFreq
<1>9. Known(d, f, cfg.freq)
    BY <1>3, <1>4, <1>5, TunedKnown
<1> DEFINE r == Retuned(d, UpdateTxFreqText(b, f))
           text == MsgTypes(d, r)
<1>10. /\ r \in Box /\ UpToDate(d, r) /\ r.power \in r.levels
       /\ PowerGet(b) \in r.levels => r.power = PowerGet(b)
       /\ r.freq = f /\ r.freqText = f /\ r.sel = b.sel
       /\ r.source = b.source /\ SameOthers(r, b)
    BY <1>4, <1>5, <1>7, <1>8, TunedFields
<1>11. box' = [r EXCEPT !.msgTypes = text]
    BY <1>2 DEF Refresh, Retuned, UpdateWsprMsgTypesText
<1>12. text \in MsgTexts
    BY MsgTypesFit
<1> HIDE DEF r
<1>13. /\ box' \in Box /\ box'.msgTypes = text
       /\ box'.freq = r.freq /\ box'.freqText = r.freqText /\ box'.sel = r.sel
       /\ box'.source = r.source /\ box'.levels = r.levels /\ box'.power = r.power
       /\ box'.noData = r.noData /\ SameOthers(box', r)
    <2> HIDE DEF text
    <2>1. QED
        BY <1>10, <1>11, <1>12 DEF Box, SameOthers, OtherFields
<1>14. UpToDate(d, box')
    <2>1. BiasGet(d, box') = BiasGet(d, r)
        BY <1>13 DEF BiasGet
    <2>2. QED
        BY <1>10, <1>13, <2>1 DEF UpToDate
<1>15. MsgTypes(d, box') = text
    BY <1>13, MsgTypesOfOthers
<1>16. Orderly(d, box')
    BY <1>5, <1>10, <1>13, <1>15 DEF Orderly
<1>17. SameOthers(box', b)
    BY <1>10, <1>13 DEF SameOthers
<1> HIDE DEF text
<1>18. QED
    BY <1>3, <1>9, <1>10, <1>13, <1>14, <1>16, <1>17 DEF b, cfg

LEMMA LoadBoxes ==
    ASSUME NEW d \in Devices, BoxesInv, FreqInv', Load(d)
    PROVE  BoxesInv'
<1>1. /\ alive /\ edits < MaxEdits /\ edits' = edits + 1
      /\ device' = d /\ enabled' = TRUE /\ model' = Loaded(d)
      /\ notes' = [notes EXCEPT !.touched = FALSE, !.typedBand = FALSE,
                                !.stale = Loaded(d).out \notin box.levels]
      /\ UNCHANGED <<alive, stored, last>>
    BY DEF Load
<1>2. Loaded(d) \in Config
    BY LoadedTyped DEF BoxesInv
<1>3. Orderly(d, box') /\ UpToDate(d, box') /\ Known(d, box'.freq, Loaded(d).freq)
    BY LoadFields
<1>4. notes \in Notes /\ edits \in 0 .. MaxEdits /\ MaxEdits \in Nat
    BY SettingsAssumption DEF BoxesInv, TypeOK
<1>5. notes' \in Notes
    <2> DEFINE stale == Loaded(d).out \notin box.levels
    <2>1. stale \in BOOLEAN /\ notes' = [notes EXCEPT !.touched = FALSE,
                                             !.typedBand = FALSE, !.stale = stale]
        BY <1>1
    <2> HIDE DEF stale
    <2>2. QED
        BY <1>4, <2>1 DEF Notes
<1>6. edits' \in 0 .. MaxEdits
    BY <1>1, <1>4
<1>7. TypeOK'
    BY <1>1, <1>2, <1>3, <1>5, <1>6 DEF BoxesInv, TypeOK, Orderly
<1>8. ShownInv'
    BY <1>1, <1>3 DEF ShownInv, Orderly, UpToDate, Known
<1>9. QED
    BY <1>1, <1>7, <1>8, LastKeeps

\* checkFreqOverride changes the frequency and its band, and only where the
\* control is shown; the two controls of the frequency then agree.
LEMMA OverrideFields ==
    ASSUME NEW d \in Devices, NEW b, Orderly(d, b), b.freqText # NoText
    PROVE  LET o == CheckFreqOverride(d, b) IN
           /\ o \in Box /\ o.freqText = o.freq /\ o.sel = Overridden(d, b).sel
           /\ o.source = b.source /\ o.levels = b.levels /\ o.power = b.power
           /\ o.noData = b.noData /\ o.msgTypes = b.msgTypes /\ SameOthers(o, b)
           /\ ~Calibrated(d) \/ b.freqText = b.freq => o.freq = b.freq /\ o.sel = b.sel
<1> DEFINE r == Overridden(d, b)
           o == CheckFreqOverride(d, b)
<1>1. b \in Box /\ b.freqText \in Nat /\ b.freq \in Nat
    BY DEF Orderly, Box
<1>2. /\ r \in Box /\ r.source = b.source /\ r.levels = b.levels /\ r.power = b.power
      /\ r.noData = b.noData /\ r.msgTypes = b.msgTypes /\ SameOthers(r, b)
      /\ b.freqText = b.freq => r = b
    <2> HIDE DEF r
    <2>1. CASE r = SetFreq(d, b, b.freqText) /\ b.freqText # b.freq
        <3>1. r \in Box
            BY <1>1, <2>1, SetFreqFields
        <3>2. /\ r.source = b.source /\ r.levels = b.levels /\ r.power = b.power
              /\ r.noData = b.noData /\ r.msgTypes = b.msgTypes /\ SameOthers(r, b)
            BY <1>1, <2>1, TextFields
        <3>3. QED
            BY <2>1, <3>1, <3>2
    <2>2. CASE r = b
        BY <1>1, <2>2 DEF SameOthers
    <2>3. QED
        BY <2>1, <2>2 DEF Overridden, r
<1>3. o = UpdateTxFreqText(r, r.freq)
    BY DEF CheckFreqOverride
<1> HIDE DEF r, o
<1>4. r.freq \in Nat
    BY <1>2 DEF Box
<1>5. o \in Box /\ o.freqText = r.freq /\ o.freq = r.freq /\ o.sel = r.sel
    BY <1>2, <1>3, <1>4, TextFields
<1>6. /\ o.source = r.source /\ o.levels = r.levels /\ o.power = r.power
      /\ o.noData = r.noData /\ o.msgTypes = r.msgTypes /\ SameOthers(o, r)
    BY <1>2, <1>3, <1>4, TextFields
<1>7. SameOthers(o, b)
    BY <1>2, <1>6 DEF SameOthers
<1>8. ~Calibrated(d) \/ b.freqText = b.freq => r = b
    BY <1>2 DEF Orderly
<1>9. QED
    BY <1>2, <1>5, <1>6, <1>7, <1>8 DEF r, o

\* What is shown stays right unless the band has changed.
LEMMA OverrideBoxes ==
    ASSUME BoxesInv, device \in Devices, box.freqText # NoText
    PROVE  LET o == CheckFreqOverride(device, box) IN
           /\ Orderly(device, o) /\ Known(device, o.freq, model.freq)
           /\ notes.typedBand \/ TypesBand(box) \/ UpToDate(device, o)
<1> DEFINE o == CheckFreqOverride(device, box)
<1>0. /\ Orderly(device, box) /\ Consistent(device, box)
      /\ SelectedBand(device, box) \in WsprBands
      /\ ContainsFreq(SelectedBand(device, box), box.freq)
    BY DeviceFacts
<1>1. /\ o \in Box /\ o.freqText = o.freq /\ o.sel = Overridden(device, box).sel
      /\ o.source = box.source /\ o.levels = box.levels /\ o.power = box.power
      /\ o.noData = box.noData /\ o.msgTypes = box.msgTypes /\ SameOthers(o, box)
      /\ ~Calibrated(device) => o.freq = box.freq
    BY <1>0, OverrideFields
<1>2. Consistent(device, o)
    BY <1>0, OverrideConsistent
<1> HIDE DEF o
<1>3. Orderly(device, o)
    <2>1. MsgTypes(device, o) = MsgTypes(device, box)
        BY <1>1, MsgTypesOfOthers
    <2>2. QED
        BY <1>0, <1>1, <2>1 DEF Orderly
<1>4. Known(device, o.freq, model.freq)
    <2>1. CASE Calibrated(device)
        BY <2>1, CalibratedKnown
    <2>2. CASE ~Calibrated(device)
        BY <1>1, <2>2 DEF BoxesInv, ShownInv
    <2>3. QED
        BY <2>1, <2>2
<1>5. ASSUME ~TypesBand(box), UpToDate(device, box) PROVE UpToDate(device, o)
    <2> DEFINE s == SelectedBand(device, box)
    <2>1. SelectedBand(device, o) = s
        BY <1>1, <1>5 DEF TypesBand, SelectedBand
    <2>2. s \in WsprBands /\ ContainsFreq(s, o.freq) /\ ContainsFreq(s, box.freq)
        BY <1>0, <1>2, <2>1 DEF Consistent
    <2>3. o.freq \in Int /\ box.freq \in Int
        BY <1>0, <1>1 DEF Box, Orderly
    <2> HIDE DEF s
    <2>4. o.freq \div 1000 = box.freq \div 1000
        BY <2>2, <2>3, BandKHz
    <2>5. BiasGet(device, o) = BiasGet(device, box)
        BY <1>1 DEF BiasGet
    <2>6. \A p : Query(device, BiasGet(device, o), o.freq, p)
                     = Query(device, BiasGet(device, box), box.freq, p)
        BY <2>4, <2>5 DEF Query
    <2>7. Available(device, BiasGet(device, o), o.freq)
              = Available(device, BiasGet(device, box), box.freq)
        BY <2>6 DEF Available
    <2>8. QED
        BY <1>1, <1>5, <2>6, <2>7 DEF UpToDate
<1>6. notes.typedBand \/ UpToDate(device, box)
    BY DEF BoxesInv, ShownInv
<1>7. QED
    BY <1>3, <1>4, <1>5, <1>6 DEF o

LEMMA UnfocusBoxes ==
    ASSUME BoxesInv, FreqInv', enabled, OnFreqUnfocus
    PROVE  BoxesInv'
<1>0. device \in Devices /\ notes \in Notes
    BY DEF BoxesInv, TypeOK
<1>1. UNCHANGED <<device, enabled, stored, model, last, edits>>
    BY DEF OnFreqUnfocus
<1>2. CASE box.freqText = NoText
    <2>1. alive' = FALSE /\ UNCHANGED <<box, notes>>
        BY <1>2 DEF OnFreqUnfocus
    <2>2. TypeOK' /\ ShownInv'
        BY <1>1, <2>1 DEF BoxesInv, TypeOK, ShownInv, Orderly, UpToDate, Known
    <2>3. QED
        BY <1>1, <2>2, LastKeeps
<1>3. CASE box.freqText # NoText
    <2> DEFINE typed == notes.typedBand \/ TypesBand(box)
    <2>1. /\ box' = CheckFreqOverride(device, box) /\ UNCHANGED alive
          /\ notes' = [notes EXCEPT !.typedBand = typed]
        BY <1>0, <1>3 DEF OnFreqUnfocus, Notes
    <2>2. typed \in BOOLEAN
        OBVIOUS
    <2>3. /\ Orderly(device, box') /\ Known(device, box'.freq, model.freq)
          /\ typed \/ UpToDate(device, box')
        BY <1>0, <1>3, <2>1, OverrideBoxes
    <2> HIDE DEF typed
    <2>4. notes' \in Notes /\ notes'.typedBand = typed
        BY <1>0, <2>1, <2>2 DEF Notes
    <2>5. TypeOK'
        BY <1>1, <2>1, <2>3, <2>4 DEF BoxesInv, TypeOK, Orderly
    <2>6. ShownInv'
        BY <1>1, <2>3, <2>4 DEF ShownInv, Orderly, UpToDate, Known
    <2>7. QED
        BY <1>1, <2>5, <2>6, LastKeeps
<1>4. QED
    BY <1>2, <1>3

\* What getFields reads from an orderly box.
LEMMA GetFieldsTyped ==
    ASSUME NEW d \in Devices, NEW b \in Box, model \in Config,
           b.source \in BiasChoices(d) \cup {NoSource}, b.power \in b.levels,
           b.sel \in Offered(d) \cup {NoBand}, b.maxDuration # NoText
    PROVE  /\ GetFields(d, b) \in Config
           /\ GetFields(d, b).freq = b.freq /\ GetFields(d, b).out = b.power
           /\ GetFields(d, b).source = BiasGet(d, b)
<1> DEFINE call == CanonicalFormat(b.call)
           loc == [b.loc EXCEPT !.raw = FALSE]
           counted == model.counter + (IF call # model.call THEN 1 ELSE 0)
           counter == IF counted <= 1 THEN 2 ELSE counted
           rep == IF b.report = SameAsOutput THEN PowerGet(b) ELSE b.report
           bias == GetBias(Query(d, BiasGet(d, b), b.freq, PowerGet(b)))
           cwFreq == IF b.cwCall /\ b.cw THEN CentreFreq[SelectedBand(d, b)] - 150 ELSE 0
           runtime == ReadDays(b.maxDuration)
           percent == b.txRate % 256
           cfg == GetFields(d, b)
<1>1. call \in Callsign /\ loc \in Locator
    BY DEF Box, Callsign, Locator, CanonicalFormat
<1>2. counter \in Nat
    BY DEF Config
<1>3. b.power \in AllLevels /\ PowerGet(b) = b.power
    BY DEF Box, PowerGet, AllLevels, NoPower
<1>4. PowerGet(b) \in Int /\ rep \in Int
    <2>1. ReportLevels \subseteq Int /\ SameAsOutput \in Int
        BY DEF ReportLevels, SameAsOutput
    <2>2. b.power \in Int
        BY <1>3 DEF AllLevels
    <2>3. QED
        BY <1>3, <2>1, <2>2 DEF Box
<1>5. BiasGet(d, b) \in Sources
    BY BiasGetFacts
<1>6. bias \in Int
    <2>1. b.freq \in Int
        BY DEF Box
    <2>2. QED
        BY <1>4, <1>5, <2>1, BiasFits
<1>7. cwFreq \in Nat
    <2>1. SelectedBand(d, b) \in WsprBands
        BY SelectedOffered
    <2>2. CentreFreq[SelectedBand(d, b)] - 150 \in Nat
        BY <2>1 DEF WsprBands, CentreFreq
    <2>3. QED
        BY <2>2
<1>8. b.freq \in Nat /\ b.cwCall \in BOOLEAN /\ b.force \in BOOLEAN
    BY DEF Box
<1>9. cfg = [call |-> call, loc |-> loc, freq |-> b.freq, out |-> PowerGet(b),
             rep |-> rep, source |-> BiasGet(d, b), bias |-> bias, counter |-> counter,
             maxRuntime |-> runtime, transmitPercent |-> percent,
             cwFreq |-> cwFreq, cwCall |-> b.cwCall, force |-> b.force]
    BY DEF GetFields
<1>r. runtime \in Nat
    BY ReadTyped DEF Box
<1>p. percent \in 0..255
    BY DEF Box, NoText
<1> HIDE DEF call, loc, counter, rep, bias, cwFreq, runtime, percent, cfg
<1>10. cfg \in Config
    BY <1>1, <1>2, <1>4, <1>5, <1>6, <1>7, <1>8, <1>9, <1>r, <1>p DEF Config
<1>11. cfg.freq = b.freq /\ cfg.out = PowerGet(b) /\ cfg.source = BiasGet(d, b)
    BY <1>9
<1>12. QED
    BY <1>3, <1>10, <1>11 DEF cfg

LEMMA WrittenTyped ==
    ASSUME TypeOK, NEW d \in Devices, NEW cfg \in Config
    PROVE  /\ Written(d, cfg) \in Config
           /\ Written(d, cfg).freq = cfg.freq /\ Written(d, cfg).out = cfg.out
           /\ Written(d, cfg).rep = cfg.rep /\ Written(d, cfg).bias = cfg.bias
           /\ Written(d, cfg).call = cfg.call /\ Written(d, cfg).loc = cfg.loc
           /\ Written(d, cfg).counter = cfg.counter
           /\ Written(d, cfg).cwFreq =
                 IF SupportsCwId(Firmware[d]) THEN cfg.cwFreq ELSE stored[d].cwFreq
           /\ Written(d, cfg).cwCall =
                 IF SupportsCwId(Firmware[d]) THEN cfg.cwCall ELSE stored[d].cwCall
           /\ Written(d, cfg).source =
                 IF SupportsVarId(Firmware[d], "PaBiasSource")
                 THEN cfg.source ELSE stored[d].source
           /\ Written(d, cfg).force =
                 IF SupportsVarId(Firmware[d], "WSPR_optionFlags")
                 THEN cfg.force ELSE stored[d].force
<1> DEFINE cwFreq == IF SupportsCwId(Firmware[d]) THEN cfg.cwFreq ELSE stored[d].cwFreq
           cwCall == IF SupportsCwId(Firmware[d]) THEN cfg.cwCall ELSE stored[d].cwCall
           source == IF SupportsVarId(Firmware[d], "PaBiasSource")
                     THEN cfg.source ELSE stored[d].source
           force == IF SupportsVarId(Firmware[d], "WSPR_optionFlags")
                    THEN cfg.force ELSE stored[d].force
           w == Written(d, cfg)
<1>1. stored[d] \in Config
    BY DEF TypeOK
<1>2. cwFreq \in Nat /\ source \in Sources \cup {"other"}
    BY <1>1 DEF Config
<1>3. cwCall \in BOOLEAN /\ force \in BOOLEAN
    BY <1>1 DEF Config
<1>4. w = [cfg EXCEPT !.cwFreq = cwFreq, !.cwCall = cwCall, !.source = source,
                      !.force = force]
    BY DEF Written, Config
<1> HIDE DEF cwFreq, cwCall, source, force, w
<1>5. /\ w \in Config
      /\ w.freq = cfg.freq /\ w.out = cfg.out /\ w.rep = cfg.rep /\ w.bias = cfg.bias
      /\ w.call = cfg.call /\ w.loc = cfg.loc /\ w.counter = cfg.counter
      /\ w.cwFreq = cwFreq /\ w.cwCall = cwCall /\ w.source = source /\ w.force = force
    BY <1>2, <1>3, <1>4, ZenonT(60) DEF Config
<1>6. QED
    BY <1>5 DEF cwFreq, cwCall, source, force, w

\* A save writes what the box shows: a level within reach unless a typed frequency
\* has changed the band, in a band that the firmware knows unless the device was
\* in it before.
LEMMA SaveBoxes ==
    ASSUME NEW ok \in BOOLEAN, BoxesInv, FreqInv', enabled, DeviceSave(ok)
    PROVE  BoxesInv'
<1> DEFINE o == CheckFreqOverride(device, box)
           call == CanonicalFormat(o.call)
           b == [o EXCEPT !.call = call]
           cfg == GetFields(device, b)
           typed == notes.typedBand \/ TypesBand(box)
<1>0. device \in Devices /\ notes \in Notes /\ model \in Config /\ typed \in BOOLEAN
    BY DEF BoxesInv, TypeOK
<1>1. UNCHANGED <<alive, device, enabled, edits>>
    BY DEF DeviceSave
<1>2. CASE box.freqText = NoText
    <2>1. UNCHANGED <<box, stored, model, last, notes>>
        BY <1>2 DEF DeviceSave
    <2>2. TypeOK' /\ ShownInv'
        BY <1>1, <2>1 DEF BoxesInv, TypeOK, ShownInv, Orderly, UpToDate, Known
    <2>3. QED
        BY <2>1, <2>2, LastKeeps
<1>3. CASE box.freqText # NoText
    <2>1. /\ Orderly(device, o) /\ Known(device, o.freq, model.freq)
          /\ typed \/ UpToDate(device, o)
        BY <1>0, <1>3, OverrideBoxes
    <2>2. Consistent(device, o)
        BY <1>0, DeviceFacts, OverrideConsistent
    <2> HIDE DEF o, typed
    <2>3. o \in Box /\ o.call \in Callsign
        BY <2>1 DEF Orderly, Box
    <2>4. call \in Callsign /\ CanonicalFormat(call) = call
        BY <2>3 DEF CanonicalFormat, Callsign
    <2>5. b = [CheckFreqOverride(device, box) EXCEPT !.call = CanonicalFormat(@)]
        BY DEF o
    <2>6. /\ b \in Box /\ b.freq = o.freq /\ b.freqText = o.freqText /\ b.sel = o.sel
          /\ b.source = o.source /\ b.levels = o.levels /\ b.power = o.power
          /\ b.noData = o.noData /\ b.msgTypes = o.msgTypes /\ b.call = call
          /\ b.loc = o.loc /\ b.force = o.force
        <3> HIDE DEF call
        <3>1. QED
            BY <2>3, <2>4 DEF Box
    <2> HIDE DEF b
    <2>7. /\ Orderly(device, b) /\ Known(device, b.freq, model.freq)
          /\ (typed \/ UpToDate(device, b))
          /\ b.sel \in Offered(device) \cup {NoBand}
        <3>1. MsgTypes(device, b) = MsgTypes(device, o)
            BY <2>4, <2>6 DEF MsgTypes, IsLongLocator, call
        <3>2. BiasGet(device, b) = BiasGet(device, o)
            BY <2>6 DEF BiasGet
        <3>3. UpToDate(device, o) => UpToDate(device, b)
            BY <2>6, <3>2 DEF UpToDate
        <3>4. b.sel \in Offered(device) \cup {NoBand}
            BY <2>2, <2>6 DEF Consistent
        <3>5. QED
            BY <2>1, <2>6, <3>1, <3>3, <3>4 DEF Orderly
    <2>8. ASSUME b.maxDuration # NoText
          PROVE  /\ cfg \in Config /\ cfg.freq = b.freq /\ cfg.out = b.power
                 /\ cfg.source = BiasGet(device, b)
        BY <1>0, <2>6, <2>7, <2>8, GetFieldsTyped DEF Orderly
    <2> HIDE DEF cfg
    <2>9. box' = b
        BY <1>3, <2>5 DEF DeviceSave
    <2>10. CASE UNCHANGED <<stored, model, last>>
                /\ notes' = [notes EXCEPT !.typedBand = typed]
        <3>1. notes' \in Notes /\ notes'.typedBand = typed
            BY <1>0, <2>10 DEF Notes
        <3>2. TypeOK'
            BY <1>1, <2>6, <2>9, <2>10, <3>1 DEF BoxesInv, TypeOK
        <3>3. ShownInv'
            BY <1>1, <2>7, <2>9, <2>10, <3>1 DEF ShownInv, Orderly, UpToDate, Known
        <3>4. QED
            BY <2>10, <3>2, <3>3, LastKeeps
    <2>11. CASE /\ stored' = [stored EXCEPT ![device] = Written(device, cfg)]
                /\ model' = cfg
                /\ last' = [device |-> device, cfg |-> cfg, confirmed |-> ok,
                            before |-> stored[device], typedBand |-> typed]
                /\ notes' = [notes EXCEPT !.typedBand = typed,
                                          !.authored = notes.authored \cup {device},
                                          !.touched = FALSE, !.stale = FALSE]
                /\ b.maxDuration # NoText
        <3>c. /\ cfg \in Config /\ cfg.freq = b.freq /\ cfg.out = b.power
              /\ cfg.source = BiasGet(device, b)
            BY <2>8, <2>11
        <3>1. notes' \in Notes /\ notes'.typedBand = typed
            BY <1>0, <2>11 DEF Notes
        <3>2. Written(device, cfg) \in Config /\ stored[device] \in Config
            BY <1>0, <3>c, WrittenTyped DEF BoxesInv, TypeOK
        <3>3. stored' \in [Devices -> Config] /\ model' \in Config
            BY <1>0, <3>c, <2>11, <3>2 DEF BoxesInv, TypeOK
        <3>4. last' \in [device : Devices, cfg : Config, before : Config,
                         confirmed : BOOLEAN, typedBand : BOOLEAN]
            BY <1>0, <3>c, <2>11, <3>2
        <3>5. TypeOK'
            BY <1>1, <2>6, <2>9, <3>1, <3>3, <3>4 DEF BoxesInv, TypeOK
        <3>6. Known(device, b.freq, cfg.freq)
            BY <3>c DEF Known
        <3>7. ShownInv'
            BY <1>1, <2>7, <2>9, <2>11, <3>1, <3>6 DEF ShownInv, Orderly, UpToDate, Known
        <3>8. /\ last'.device = device /\ last'.cfg = cfg
              /\ last'.before = stored[device] /\ last'.typedBand = typed
            BY <2>11
        <3>9. PowerWithinReach'
            <4> SUFFICES ASSUME ~typed
                         PROVE  cfg.out \in Available(device, cfg.source, cfg.freq)
                BY <3>8 DEF PowerWithinReach
            <4>1. b.power \in b.levels
                BY <2>7 DEF Orderly
            <4>2. b.levels = Available(device, BiasGet(device, b), b.freq)
                BY <2>7 DEF UpToDate
            <4>3. QED
                BY <3>c, <4>1, <4>2
        <3>10. SavedBandSupported'
            <4>1. model.freq = stored[device].freq
                BY <1>0, DeviceFacts
            <4>2. Known(device, cfg.freq, stored[device].freq)
                BY <2>7, <3>c, <4>1
            <4>3. QED
                BY <3>8, <4>2 DEF SavedBandSupported, Known
        <3>11. QED
            BY <3>5, <3>7, <3>9, <3>10 DEF BoxesInv
    <2>12. QED
        <3>1. \/ UNCHANGED <<stored, model, last>>
                 /\ notes' = [notes EXCEPT !.typedBand = typed]
              \/ /\ stored' = [stored EXCEPT ![device] = Written(device, cfg)]
                 /\ model' = cfg
                 /\ last' = [device |-> device, cfg |-> cfg, confirmed |-> ok,
                             before |-> stored[device], typedBand |-> typed]
                 /\ notes' = [notes EXCEPT !.typedBand = typed,
                                           !.authored = notes.authored \cup {device},
                                           !.touched = FALSE, !.stale = FALSE]
                 /\ b.maxDuration # NoText
            BY <1>0, <1>3, <2>5 DEF DeviceSave, cfg, typed, Notes
        <3>2. QED
            BY <2>10, <2>11, <3>1
<1>4. QED
    BY <1>2, <1>3

LEMMA BoxesInit == Init => BoxesInv
<1> SUFFICES ASSUME Init PROVE BoxesInv
    OBVIOUS
<1>1. FreqInv
    BY FreqInit
<1>2. device \notin Devices /\ last = NoSave
    BY SettingsAssumption DEF Init
<1>3. stored \in [Devices -> Config] /\ model \in Config
    BY SettingsAssumption DEF Init
<1>4. notes \in Notes
    BY DEF Init, Notes
<1>5. box \in Box
    <2>1. /\ CentreFreq["Band_20m"] \in Nat /\ AllLevels \in SUBSET AllLevels
          /\ 23 \in AllLevels /\ "None" \in MsgTexts
          /\ [kind |-> "invalid", raw |-> FALSE] \in Callsign
          /\ [len |-> 0, raw |-> FALSE] \in Locator
        BY DEF CentreFreq, AllLevels, MsgTexts, Callsign, Locator
    <2>2. QED
        BY <2>1 DEF Init, Box
<1>6. TypeOK
    <2>1. alive = TRUE /\ enabled = FALSE /\ device = NoDevice
        BY DEF Init
    <2>2. edits = 0 /\ 0 \in 0 .. MaxEdits
        BY SettingsAssumption DEF Init
    <2>3. QED
        BY <1>2, <1>3, <1>4, <1>5, <2>1, <2>2 DEF TypeOK
<1>7. QED
    BY <1>1, <1>2, <1>6
    DEF BoxesInv, ShownInv, PowerWithinReach, SavedBandSupported, Saved

LEMMA BoxesStep == BoxesInv /\ [Next]_vars => BoxesInv'
<1> SUFFICES ASSUME BoxesInv, [Next]_vars
             PROVE  BoxesInv'
    OBVIOUS
<1>0. FreqInv'
    BY FreqStep DEF BoxesInv
<1>1. ASSUME NEW d \in Devices, Load(d) PROVE BoxesInv'
    BY <1>0, <1>1, LoadBoxes
<1>2. CASE Disconnect
    <2>1. enabled' = FALSE /\ UNCHANGED <<alive, device, stored, model, box, last, notes, edits>>
        BY <1>2 DEF Disconnect
    <2>2. TypeOK' /\ ShownInv'
        BY <2>1 DEF BoxesInv, TypeOK, ShownInv, Orderly, UpToDate, Known
    <2>3. QED
        BY <1>0, <2>1, <2>2, LastKeeps
<1>3. CASE enabled /\ UserEdits
    BY <1>0, <1>3, EditsBoxes
<1>4. CASE enabled /\ OnFreqUnfocus
    BY <1>0, <1>4, UnfocusBoxes
<1>5. ASSUME NEW ok \in BOOLEAN, enabled /\ DeviceSave(ok) PROVE BoxesInv'
    BY <1>0, <1>5, SaveBoxes
<1>6. CASE UNCHANGED vars
    <2>1. TypeOK' /\ ShownInv'
        BY <1>6 DEF vars, BoxesInv, TypeOK, ShownInv, Orderly, UpToDate, Known
    <2>2. QED
        BY <1>0, <1>6, <2>1, LastKeeps DEF vars
<1>7. QED
    BY <1>1, <1>2, <1>3, <1>4, <1>5, <1>6 DEF Next

-------------------------------------------------------------------------------
(* What survives a load and a save.                                          *)

\* Records of a configuration, and what replacing four of their fields gives.
ConfigOf(call, loc, freq, out, rep, source, bias, counter, maxRuntime, percent,
         cwFreq, cwCall, force) ==
    [call |-> call, loc |-> loc, freq |-> freq, out |-> out, rep |-> rep,
     source |-> source, bias |-> bias, counter |-> counter, maxRuntime |-> maxRuntime,
     transmitPercent |-> percent, cwFreq |-> cwFreq, cwCall |-> cwCall,
     force |-> force]
WithOptional(c, cwFreq, cwCall, source, force) ==
    [c EXCEPT !.cwFreq = cwFreq, !.cwCall = cwCall, !.source = source, !.force = force]
WithPower(c, out, rep, bias, maxRuntime) ==
    [c EXCEPT !.out = out, !.rep = rep, !.bias = bias, !.maxRuntime = maxRuntime]

LEMMA OptionalReplaced ==
    ASSUME NEW call, NEW loc, NEW freq, NEW out, NEW rep, NEW source, NEW bias,
           NEW counter, NEW maxRuntime, NEW percent, NEW cwFreq, NEW cwCall, NEW force,
           NEW w, NEW x, NEW y, NEW z, NEW c,
           c = ConfigOf(call, loc, freq, out, rep, source, bias, counter, maxRuntime,
                        percent, cwFreq, cwCall, force)
    PROVE  WithOptional(c, w, x, y, z) =
           ConfigOf(call, loc, freq, out, rep, y, bias, counter, maxRuntime,
                    percent, w, x, z)
<1> DEFINE c1 == [c EXCEPT !.cwFreq = w]
           c2 == [c1 EXCEPT !.cwCall = x]
           c3 == [c2 EXCEPT !.source = y]
           c4 == [c3 EXCEPT !.force = z]
<1>1. c1 = ConfigOf(call, loc, freq, out, rep, source, bias, counter, maxRuntime,
                   percent, w, cwCall, force)
    BY DEF ConfigOf
<1> HIDE DEF c1
<1>2. c2 = ConfigOf(call, loc, freq, out, rep, source, bias, counter, maxRuntime,
                   percent, w, x, force)
    BY <1>1 DEF ConfigOf
<1> HIDE DEF c2
<1>3. c3 = ConfigOf(call, loc, freq, out, rep, y, bias, counter, maxRuntime,
                   percent, w, x, force)
    BY <1>2 DEF ConfigOf
<1> HIDE DEF c3
<1>4. c4 = ConfigOf(call, loc, freq, out, rep, y, bias, counter, maxRuntime,
                   percent, w, x, z)
    BY <1>3 DEF ConfigOf
<1> HIDE DEF c4
<1>5. c4 = WithOptional(c, w, x, y, z)
    BY DEF c1, c2, c3, c4, WithOptional
<1>6. QED
    BY <1>4, <1>5

LEMMA PowerReplaced ==
    ASSUME NEW call, NEW loc, NEW freq, NEW out, NEW rep, NEW source, NEW bias,
           NEW counter, NEW maxRuntime, NEW percent, NEW cwFreq, NEW cwCall, NEW force,
           NEW w, NEW x, NEW y, NEW z, NEW c,
           c = ConfigOf(call, loc, freq, out, rep, source, bias, counter, maxRuntime,
                        percent, cwFreq, cwCall, force)
    PROVE  WithPower(c, w, x, y, z) =
           ConfigOf(call, loc, freq, w, x, source, y, counter, z,
                    percent, cwFreq, cwCall, force)
<1> DEFINE c1 == [c EXCEPT !.out = w]
           c2 == [c1 EXCEPT !.rep = x]
           c3 == [c2 EXCEPT !.bias = y]
           c4 == [c3 EXCEPT !.maxRuntime = z]
<1>1. c1 = ConfigOf(call, loc, freq, w, rep, source, bias, counter, maxRuntime,
                   percent, cwFreq, cwCall, force)
    BY DEF ConfigOf
<1> HIDE DEF c1
<1>2. c2 = ConfigOf(call, loc, freq, w, x, source, bias, counter, maxRuntime,
                   percent, cwFreq, cwCall, force)
    BY <1>1 DEF ConfigOf
<1> HIDE DEF c2
<1>3. c3 = ConfigOf(call, loc, freq, w, x, source, y, counter, maxRuntime,
                   percent, cwFreq, cwCall, force)
    BY <1>2 DEF ConfigOf
<1> HIDE DEF c3
<1>4. c4 = ConfigOf(call, loc, freq, w, x, source, y, counter, z,
                   percent, cwFreq, cwCall, force)
    BY <1>3 DEF ConfigOf
<1> HIDE DEF c4
<1>5. c4 = WithPower(c, w, x, y, z)
    BY DEF c1, c2, c3, c4, WithPower
<1>6. QED
    BY <1>4, <1>5

LEMMA ResavedIsWritten ==
    ASSUME NEW d \in Devices, NEW b \in Box
    PROVE  Written(d, GetFields(d, b)) = Resaved(d, b, model, stored[d])
<1> DEFINE call == CanonicalFormat(b.call)
           loc == [b.loc EXCEPT !.raw = FALSE]
           bias == GetBias(Query(d, BiasGet(d, b), b.freq, PowerGet(b)))
           runtime == ReadDays(b.maxDuration)
           percent == b.txRate % 256
           cfg == GetFields(d, b)
<1>1. cfg = ConfigOf(call, loc, b.freq, PowerGet(b), RepOf(b), BiasGet(d, b), bias,
                     CounterOf(b, model), runtime, percent, CwFreqOf(d, b), b.cwCall,
                     b.force)
    BY DEF GetFields, RepOf, CwFreqOf, CounterOf, ConfigOf
<1> HIDE DEF call, loc, bias, runtime, percent, cfg
<1> DEFINE source == IF SupportsVarId(Firmware[d], "PaBiasSource")
                     THEN BiasGet(d, b) ELSE stored[d].source
           cwFreq == IF SupportsCwId(Firmware[d]) THEN CwFreqOf(d, b) ELSE stored[d].cwFreq
           cwCall == IF SupportsCwId(Firmware[d]) THEN b.cwCall ELSE stored[d].cwCall
           force == IF SupportsVarId(Firmware[d], "WSPR_optionFlags")
                    THEN b.force ELSE stored[d].force
<1>2. Written(d, cfg) = WithOptional(cfg, cwFreq, cwCall, source, force)
    BY <1>1 DEF Written, ConfigOf, WithOptional
<1>3. Resaved(d, b, model, stored[d]) =
        ConfigOf(call, loc, b.freq, PowerGet(b), RepOf(b), source, bias,
                 CounterOf(b, model), runtime, percent, cwFreq, cwCall, force)
    BY DEF Resaved, ConfigOf, call, loc, bias, runtime, percent
<1> HIDE DEF source, cwFreq, cwCall, force
<1>4. Written(d, cfg) = Resaved(d, b, model, stored[d])
    BY <1>1, <1>2, <1>3, OptionalReplaced
<1>5. QED
    BY <1>4 DEF cfg

LEMMA LoadedReachableFacts ==
    ASSUME TypeOK, NEW d \in Devices
    PROVE  LoadedReachable(d, stored[d]) <=> Reachable(d, Loaded(d))
BY LoadedTyped DEF LoadedReachable, LoadedSource, Reachable

LEMMA ConfigRecord ==
    ASSUME NEW c \in Config
    PROVE  c = ConfigOf(c.call, c.loc, c.freq, c.out, c.rep, c.source, c.bias,
                        c.counter, c.maxRuntime, c.transmitPercent, c.cwFreq, c.cwCall,
                        c.force)
BY DEF Config, ConfigOf

LEMMA ConfigButPower ==
    ASSUME NEW c \in Config, NEW out, NEW rep, NEW bias, NEW maxRuntime
    PROVE  WithPower(c, out, rep, bias, maxRuntime)
             = ConfigOf(c.call, c.loc, c.freq, out, rep, c.source, bias, c.counter,
                        maxRuntime, c.transmitPercent, c.cwFreq, c.cwCall, c.force)
BY ConfigRecord, PowerReplaced

LEMMA SameAsItself ==
    ASSUME NEW c \in Config
    PROVE  SameButPower(c, c) /\ SamePower(c, c) /\ RoundTrips(c.maxRuntime, c.maxRuntime)
<1>1. SameButPower(c, c)
    <2>1. WithPower(c, c.out, c.rep, c.bias, c.maxRuntime) = c
        BY ConfigButPower, ConfigRecord
    <2>2. QED
        BY <2>1 DEF SameButPower, WithPower
<1>2. c.maxRuntime \in Nat
    BY DEF Config
<1>3. QED
    BY <1>1, <1>2, RoundTripsItself DEF SamePower

\* A box whose fields read what c has would be saved as c, but for the powers, the
\* bias and the run time.
LEMMA ResavedSame ==
    ASSUME NEW d, NEW b, NEW m, NEW c \in Config,
           CanonicalFormat(b.call) = c.call, [b.loc EXCEPT !.raw = FALSE] = c.loc,
           b.freq = c.freq, b.txRate % 256 = c.transmitPercent,
           SupportsVarId(Firmware[d], "PaBiasSource") => BiasGet(d, b) = c.source,
           CounterOf(b, m) = c.counter,
           SupportsCwId(Firmware[d]) => CwFreqOf(d, b) = c.cwFreq /\ b.cwCall = c.cwCall,
           SupportsVarId(Firmware[d], "WSPR_optionFlags") => b.force = c.force
    PROVE  SameButPower(c, Resaved(d, b, m, c))
<1> DEFINE bias == GetBias(Query(d, BiasGet(d, b), b.freq, PowerGet(b)))
           runtime == ReadDays(b.maxDuration)
           r == Resaved(d, b, m, c)
<1>1. r = ConfigOf(c.call, c.loc, c.freq, PowerGet(b), RepOf(b), c.source, bias,
                   c.counter, runtime, c.transmitPercent, c.cwFreq, c.cwCall, c.force)
    BY DEF Resaved, ConfigOf
<1> HIDE DEF bias, runtime, r
<1>2. r.out = PowerGet(b) /\ r.rep = RepOf(b) /\ r.bias = bias /\ r.maxRuntime = runtime
    BY <1>1 DEF ConfigOf
<1>3. SameButPower(c, r)
    <2>1. r = WithPower(c, r.out, r.rep, r.bias, r.maxRuntime)
        BY <1>1, <1>2, ConfigButPower
    <2>2. QED
        BY <2>1 DEF SameButPower, WithPower
<1>4. QED
    BY <1>3 DEF r

\* What is saved once, is saved again: the counter has been counted up.
LEMMA ResavedAgain ==
    ASSUME NEW d \in Devices, NEW b \in Box, NEW m \in Config, NEW c \in Config,
           NEW n, n.call = CanonicalFormat(b.call), n.counter = CounterOf(b, m)
    PROVE  Resaved(d, b, n, Resaved(d, b, m, c)) = Resaved(d, b, m, c)
<1>1. CounterOf(b, m) \in Nat /\ CounterOf(b, m) >= 2
    BY DEF CounterOf, Config
<1>2. CounterOf(b, n) = CounterOf(b, m)
    BY <1>1 DEF CounterOf
<1>3. QED
    BY <1>2 DEF Resaved

\* Only these fields of a box matter to a save.
LEMMA ResavedFields ==
    ASSUME NEW d, NEW a \in Box, NEW b \in Box, NEW m, NEW c,
           CanonicalFormat(a.call) = CanonicalFormat(b.call), a.loc = b.loc,
           a.freq = b.freq, a.sel = b.sel, a.power = b.power, a.levels = b.levels,
           a.report = b.report, a.source = b.source, a.cw = b.cw,
           a.cwCall = b.cwCall, a.force = b.force,
           a.maxDuration = b.maxDuration, a.txRate = b.txRate
    PROVE  Resaved(d, a, m, c) = Resaved(d, b, m, c)
<1>1. PowerGet(a) = PowerGet(b) /\ BiasGet(d, a) = BiasGet(d, b)
      /\ SelectedBand(d, a) = SelectedBand(d, b)
    BY DEF PowerGet, BiasGet, SelectedBand
<1>2. RepOf(a) = RepOf(b) /\ CwFreqOf(d, a) = CwFreqOf(d, b)
      /\ CounterOf(a, m) = CounterOf(b, m)
    BY <1>1 DEF RepOf, CwFreqOf, CounterOf
<1>3. QED
    BY <1>1, <1>2 DEF Resaved

\* What getFields makes is authored.
LEMMA SavedAuthored ==
    ASSUME NEW d \in Devices, NEW b \in Box, NEW m \in Config, NEW c \in Config,
           b.source \in BiasChoices(d) \cup {NoSource}, b.power \in b.levels,
           b.sel \in Offered(d) \cup {NoBand}, ContainsFreq(SelectedBand(d, b), b.freq),
           ValidCallsign(d, CanonicalFormat(b.call))
    PROVE  Authored(d, Resaved(d, b, m, c))
<1> DEFINE r == Resaved(d, b, m, c)
           source == IF SupportsVarId(Firmware[d], "PaBiasSource")
                     THEN BiasGet(d, b) ELSE c.source
           cwFreq == IF SupportsCwId(Firmware[d]) THEN CwFreqOf(d, b) ELSE c.cwFreq
           cwCall == IF SupportsCwId(Firmware[d]) THEN b.cwCall ELSE c.cwCall
           force == IF SupportsVarId(Firmware[d], "WSPR_optionFlags")
                    THEN b.force ELSE c.force
           loc == [b.loc EXCEPT !.raw = FALSE]
           call == CanonicalFormat(b.call)
           bias == GetBias(Query(d, BiasGet(d, b), b.freq, PowerGet(b)))
           runtime == ReadDays(b.maxDuration)
           percent == b.txRate % 256
<1>1. r = [call |-> call, loc |-> loc, freq |-> b.freq,
           out |-> PowerGet(b), rep |-> RepOf(b), source |-> source,
           bias |-> bias, counter |-> CounterOf(b, m),
           maxRuntime |-> runtime, transmitPercent |-> percent,
           cwFreq |-> cwFreq, cwCall |-> cwCall, force |-> force]
    BY DEF Resaved
<1>2. call.raw = FALSE /\ loc.raw = FALSE
    BY DEF CanonicalFormat, Box, Callsign, Locator
<1> HIDE DEF r, source, cwFreq, cwCall, force, loc, call, bias, runtime, percent
<1>3. /\ r.call = call /\ r.loc = loc /\ r.freq = b.freq /\ r.out = PowerGet(b)
      /\ r.rep = RepOf(b) /\ r.source = source /\ r.bias = bias
      /\ r.counter = CounterOf(b, m) /\ r.cwFreq = cwFreq /\ r.cwCall = cwCall
    BY <1>1
<1>4. CounterOf(b, m) >= 2
    BY DEF CounterOf, Config
<1>5. PowerGet(b) \in AllLevels
    BY DEF Box, PowerGet, AllLevels, NoPower
<1>6. RepOf(b) = PowerGet(b) \/ RepOf(b) \in ReportLevels
    BY DEF RepOf, Box
<1>7. BiasGet(d, b) \in BiasChoices(d)
    BY BiasGetFacts
<1>8. LoadedSource(d, r) = BiasGet(d, b)
    <2>1. CASE SupportsVarId(Firmware[d], "PaBiasSource")
        BY <1>3, <1>7, <2>1, BiasChoiceFacts DEF LoadedSource, source
    <2>2. CASE ~SupportsVarId(Firmware[d], "PaBiasSource")
        BY <1>7, <2>2, BiasChoiceFacts DEF LoadedSource
    <2>3. QED
        BY <2>1, <2>2
<1>9. LoadedSource(d, r) # NoSource
    BY <1>7, <1>8, BiasChoiceFacts
<1>10. SupportsVarId(Firmware[d], "PaBiasSource") => r.source = LoadedSource(d, r)
    BY <1>3, <1>8 DEF source
<1>11. r.bias = GetBias(Query(d, LoadedSource(d, r), r.freq, r.out))
    BY <1>3, <1>8 DEF bias
<1>12. \E s \in Offered(d) :
           /\ ContainsFreq(s, r.freq)
           /\ SupportsCwId(Firmware[d]) =>
                  \/ r.cwFreq = 0
                  \/ r.cwFreq = CentreFreq[s] - 150 /\ r.cwCall
    <2> DEFINE s == SelectedBand(d, b)
    <2>1. s \in Offered(d) /\ ContainsFreq(s, r.freq)
        BY <1>3, SelectedOffered
    <2>2. SupportsCwId(Firmware[d]) =>
              \/ r.cwFreq = 0
              \/ r.cwFreq = CentreFreq[s] - 150 /\ r.cwCall
        BY <1>3 DEF cwFreq, cwCall, CwFreqOf
    <2>3. QED
        BY <2>1, <2>2
<1>13. ~r.call.raw /\ ValidCallsign(d, r.call) /\ ~r.loc.raw
    BY <1>2, <1>3 DEF call
<1>14. /\ r.counter >= 2 /\ r.out \in AllLevels
       /\ r.rep = r.out \/ r.rep \in ReportLevels
    BY <1>3, <1>4, <1>5, <1>6
<1>15. Authored(d, r)
    BY <1>9, <1>10, <1>11, <1>12, <1>13, <1>14 DEF Authored
<1>16. QED
    BY <1>15 DEF r

\* A configuration that was authored here is loaded as it is, with its power if that
\* was and is on offer.
LEMMA LoadSurvives ==
    ASSUME BoxesInv, NEW d \in Devices, Load(d), Authored(d, stored[d])
    PROVE  Survives(d, stored[d], Resaved(d, box', Loaded(d), stored[d]),
                    Loaded(d).out \notin box.levels)
<1> DEFINE c == stored[d]
           cfg == Loaded(d)
           b == SetControls(d, box, cfg)
<1>0. TypeOK /\ c \in Config /\ box \in Box
    BY DEF BoxesInv, TypeOK
<1>1. /\ cfg \in Config /\ cfg.freq = c.freq /\ cfg.out = c.out
      /\ cfg.rep = c.rep /\ cfg.call = c.call /\ cfg.loc = c.loc
      /\ cfg.counter = c.counter /\ cfg.maxRuntime = c.maxRuntime
      /\ cfg.transmitPercent = c.transmitPercent
    BY <1>0, LoadedTyped
<1>2. /\ SupportsCwId(Firmware[d]) => cfg.cwFreq = c.cwFreq /\ cfg.cwCall = c.cwCall
      /\ SupportsVarId(Firmware[d], "WSPR_optionFlags") => cfg.force = c.force
    <2>1. c.cwCall \in BOOLEAN /\ c.force \in BOOLEAN
        BY <1>0 DEF Config
    <2>2. QED
        BY <1>0, <2>1, LoadedTyped
<1>3. BiasSet(d, cfg.source) = LoadedSource(d, c)
    BY <1>0, LoadedTyped DEF LoadedSource
<1> HIDE DEF cfg
<1>4. /\ b \in Box /\ b.freq = cfg.freq /\ b.sel = BandAmong(Offered(d), cfg.freq)
      /\ b.source = BiasSet(d, cfg.source) /\ b.power = PowerSet(box.levels, cfg.out)
      /\ b.report = (IF cfg.out = cfg.rep THEN SameAsOutput ELSE ReportSet(cfg.rep))
      /\ b.call = cfg.call /\ b.loc = cfg.loc /\ b.cwCall = cfg.cwCall
      /\ b.cw = (SupportsCwId(Firmware[d]) /\ cfg.cwFreq # 0 /\ cfg.cwCall)
      /\ b.force = cfg.force /\ b.maxDuration = ShownDays(cfg.maxRuntime)
      /\ b.txRate = cfg.transmitPercent
    <2>1. box \in Box /\ cfg \in Config
        BY <1>0, <1>1
    <2>2. b \in Box /\ b.freq = cfg.freq /\ b.sel = BandAmong(Offered(d), cfg.freq)
        BY <2>1, SetControlsFields
    <2>3. b.source = BiasSet(d, cfg.source) /\ b.power = PowerSet(box.levels, cfg.out)
        BY <2>1, SetControlsFields
    <2>4. b.report = (IF cfg.out = cfg.rep THEN SameAsOutput ELSE ReportSet(cfg.rep))
        BY <2>1, SetControlsFields
    <2>5. /\ b.call = cfg.call /\ b.loc = cfg.loc /\ b.cwCall = cfg.cwCall
          /\ b.force = cfg.force
        BY <2>1, SetControlsFields
    <2>6. b.cw = (SupportsCwId(Firmware[d]) /\ cfg.cwFreq # 0 /\ cfg.cwCall)
        BY <2>1, SetControlsFields
    <2>7. b.maxDuration = ShownDays(cfg.maxRuntime) /\ b.txRate = cfg.transmitPercent
        BY <2>1, SetControlsFields
    <2>8. QED
        BY <2>2, <2>3, <2>4, <2>5, <2>6, <2>7
<1>5. /\ Orderly(d, box') /\ UpToDate(d, box')
      /\ box'.freq \in GetFreq(d, b) \cup GenFreq(d, b)
      /\ cfg.counter > 1 => box'.freq \in GetFreq(d, b)
      /\ PowerGet(b) \in box'.levels => box'.power = PowerGet(b)
      /\ box'.sel = b.sel /\ box'.source = b.source /\ SameOthers(box', b)
    BY LoadFields DEF cfg
<1> HIDE DEF b
<1>6. PICK s \in Offered(d) :
          /\ ContainsFreq(s, c.freq)
          /\ SupportsCwId(Firmware[d]) =>
                 \/ c.cwFreq = 0
                 \/ c.cwFreq = CentreFreq[s] - 150 /\ c.cwCall
    BY DEF Authored
<1>7. b.sel = s /\ s # NoBand
    <2>1. Offered(d) \in SUBSET WsprBands /\ c.freq \in Int
        BY <1>0, OfferedFacts DEF Config
    <2>2. /\ BandAmong(Offered(d), c.freq) \in Offered(d)
          /\ ContainsFreq(BandAmong(Offered(d), c.freq), c.freq)
        BY <1>6, <2>1, BandAmongFacts
    <2>3. BandAmong(Offered(d), c.freq) = s
        BY <1>6, <2>1, <2>2, BandsDisjoint
    <2>4. s # NoBand
        BY <2>1, CentreFacts
    <2>5. QED
        BY <1>1, <1>4, <2>3, <2>4
<1>8. box'.freq = c.freq
    <2>1. cfg.counter > 1
        BY <1>0, <1>1 DEF Authored, Config
    <2>2. SelectedBand(d, b) = s
        BY <1>7 DEF SelectedBand
    <2>3. QED
        BY <1>1, <1>4, <1>5, <1>6, <2>1, <2>2 DEF GetFreq
<1>9. SelectedBand(d, box') = s
    BY <1>5, <1>7 DEF SelectedBand
<1>10. BiasGet(d, box') = LoadedSource(d, c)
    BY <1>3, <1>4, <1>5 DEF BiasGet, Authored
<1>11. ASSUME cfg.out \in box.levels, LoadedReachable(d, c)
       PROVE  PowerGet(box') = c.out
    <2>1. c.out \in AllLevels /\ c.out # NoPower
        BY DEF Authored, AllLevels, NoPower
    <2>2. b.power = c.out
        BY <1>1, <1>4, <1>11 DEF PowerSet
    <2>3. PowerGet(b) = c.out
        BY <2>1, <2>2 DEF PowerGet
    <2>4. c.out \in box'.levels
        BY <1>5, <1>8, <1>10, <1>11 DEF UpToDate, LoadedReachable
    <2>5. box'.power = c.out
        BY <1>5, <2>3, <2>4
    <2>6. QED
        BY <2>1, <2>5 DEF PowerGet
<1>12. /\ box'.call = cfg.call /\ box'.loc = cfg.loc /\ box'.report = b.report
       /\ box'.cw = b.cw /\ box'.cwCall = cfg.cwCall /\ box'.force = cfg.force
       /\ box'.maxDuration = ShownDays(c.maxRuntime) /\ box'.txRate = c.transmitPercent
    BY <1>1, <1>4, <1>5 DEF SameOthers, OtherFields
<1>13. CanonicalFormat(box'.call) = c.call /\ [box'.loc EXCEPT !.raw = FALSE] = c.loc
    <2>1. c.call.raw = FALSE /\ c.loc.raw = FALSE
        BY <1>0 DEF Authored, Config, Callsign, Locator
    <2>2. c.call \in Callsign /\ c.loc \in Locator
        BY <1>0 DEF Config
    <2>3. [c.call EXCEPT !.raw = FALSE] = c.call /\ [c.loc EXCEPT !.raw = FALSE] = c.loc
        BY <2>1, <2>2 DEF Callsign, Locator
    <2>4. QED
        BY <1>1, <1>12, <2>3 DEF CanonicalFormat
<1>14. ASSUME PowerGet(box') = c.out PROVE RepOf(box') = c.rep
    <2>1. CASE c.out = c.rep
        BY <1>1, <1>4, <1>12, <1>14, <2>1 DEF RepOf
    <2>2. CASE c.out # c.rep
        <3>1. c.rep \in ReportLevels /\ c.rep # SameAsOutput
            BY <2>2 DEF Authored, ReportLevels, SameAsOutput
        <3>2. box'.report = c.rep
            BY <1>1, <1>4, <1>12, <2>2, <3>1 DEF ReportSet
        <3>3. QED
            BY <3>1, <3>2 DEF RepOf
    <2>3. QED
        BY <2>1, <2>2
<1>15. CounterOf(box', cfg) = c.counter
    <2>1. CanonicalFormat(box'.call) = cfg.call /\ cfg.counter = c.counter
        BY <1>1, <1>13
    <2>2. c.counter \in Nat /\ c.counter >= 2
        BY <1>0 DEF Authored, Config
    <2>3. QED
        BY <2>1, <2>2 DEF CounterOf
<1>16. SupportsCwId(Firmware[d]) => CwFreqOf(d, box') = c.cwFreq /\ box'.cwCall = c.cwCall
    <2> SUFFICES ASSUME SupportsCwId(Firmware[d])
                 PROVE  CwFreqOf(d, box') = c.cwFreq /\ box'.cwCall = c.cwCall
        OBVIOUS
    <2>1. box'.cwCall = c.cwCall /\ box'.cw = (c.cwFreq # 0 /\ c.cwCall)
        BY <1>2, <1>4, <1>12
    <2>2. CASE c.cwFreq = 0
        BY <2>1, <2>2 DEF CwFreqOf
    <2>3. CASE c.cwFreq # 0
        BY <1>6, <1>9, <2>1, <2>3 DEF CwFreqOf
    <2>4. QED
        BY <2>1, <2>2, <2>3
<1>17. SupportsVarId(Firmware[d], "WSPR_optionFlags") => box'.force = c.force
    BY <1>2, <1>12
<1>18. SupportsVarId(Firmware[d], "PaBiasSource") => BiasGet(d, box') = c.source
    BY <1>10 DEF Authored
<1>19. ASSUME PowerGet(box') = c.out
       PROVE  c.bias = GetBias(Query(d, BiasGet(d, box'), box'.freq, PowerGet(box')))
    BY <1>8, <1>10, <1>19 DEF Authored
<1>20. box'.txRate % 256 = c.transmitPercent
    <2>1. c.transmitPercent \in 0..255
        BY <1>0 DEF Config
    <2>2. QED
        BY <1>12, <2>1
<1> DEFINE r == Resaved(d, box', cfg, c)
<1> HIDE DEF c
<1>21. SameButPower(c, r)
    BY <1>0, <1>8, <1>13, <1>15, <1>16, <1>17, <1>18, <1>20, ResavedSame
<1>22. /\ r.out = PowerGet(box') /\ r.rep = RepOf(box')
       /\ r.bias = GetBias(Query(d, BiasGet(d, box'), box'.freq, PowerGet(box')))
       /\ r.maxRuntime = ReadDays(box'.maxDuration)
    BY DEF Resaved
<1> HIDE DEF r
<1>23. RoundTrips(c.maxRuntime, r.maxRuntime)
    <2>1. c.maxRuntime \in Nat
        BY <1>0 DEF Config
    <2>2. QED
        BY <1>12, <1>22, <2>1, RunTimeReturns
<1>24. cfg.out \in box.levels /\ LoadedReachable(d, c) => SamePower(c, r)
    BY <1>11, <1>14, <1>19, <1>22 DEF SamePower
<1>25. Survives(d, c, r, cfg.out \notin box.levels)
    BY <1>21, <1>23, <1>24 DEF Survives
<1>26. QED
    BY <1>25 DEF c, cfg, r

\* A save takes back the text of the frequency, puts the callsign in its canonical
\* form, and writes what it then reads from the box, or nothing.
LEMMA SaveFacts ==
    ASSUME NEW ok \in BOOLEAN, BoxesInv, device \in Devices, DeviceSave(ok),
           box.freqText # NoText
    PROVE  /\ box' \in Box /\ box'.freqText = box'.freq
           /\ box.freqText = box.freq =>
                 \A m, c : Resaved(device, box', m, c) = Resaved(device, box, m, c)
           /\ \/ /\ UNCHANGED <<stored, model>>
                 /\ notes'.touched = notes.touched /\ notes'.stale = notes.stale
                 /\ notes'.authored = notes.authored
              \/ /\ stored' = [stored EXCEPT ![device] =
                                 Resaved(device, box', model, stored[device])]
                 /\ model'.call = CanonicalFormat(box'.call)
                 /\ model'.counter = CounterOf(box', model)
                 /\ ValidCallsign(device, CanonicalFormat(box'.call))
                 /\ notes'.authored = notes.authored \cup {device}
                 /\ box'.maxDuration # NoText
<1> DEFINE o == CheckFreqOverride(device, box)
           call == CanonicalFormat(o.call)
           b == [o EXCEPT !.call = call]
           cfg == GetFields(device, b)
           typed == notes.typedBand \/ TypesBand(box)
<1>1. Orderly(device, box) /\ box \in Box /\ notes \in Notes
    BY DeviceFacts
<1>2. /\ o \in Box /\ o.freqText = o.freq
      /\ o.source = box.source /\ o.levels = box.levels /\ o.power = box.power
      /\ SameOthers(o, box)
      /\ box.freqText = box.freq => o.freq = box.freq /\ o.sel = box.sel
    BY <1>1, OverrideFields
<1>3. b = [CheckFreqOverride(device, box) EXCEPT !.call = CanonicalFormat(@)]
    OBVIOUS
<1> HIDE DEF o, typed
<1>4. o.call \in Callsign /\ call \in Callsign /\ CanonicalFormat(call) = call
    BY <1>2 DEF Box, CanonicalFormat, Callsign
<1>5. /\ b \in Box /\ b.freq = o.freq /\ b.freqText = o.freqText /\ b.sel = o.sel
      /\ b.source = o.source /\ b.levels = o.levels /\ b.power = o.power
      /\ b.call = call /\ b.loc = o.loc /\ b.report = o.report
      /\ b.cw = o.cw /\ b.cwCall = o.cwCall /\ b.force = o.force
      /\ b.maxDuration = o.maxDuration /\ b.txRate = o.txRate
    <2> HIDE DEF call
    <2>1. QED
        BY <1>2, <1>4 DEF Box
<1> HIDE DEF b
<1>6. box' = b
    BY <1>3 DEF DeviceSave
<1>7. ASSUME box.freqText = box.freq, NEW m, NEW c
      PROVE  Resaved(device, b, m, c) = Resaved(device, box, m, c)
    <2>1. CanonicalFormat(b.call) = CanonicalFormat(box.call)
        BY <1>2, <1>4, <1>5 DEF SameOthers, OtherFields, call
    <2>2. /\ b.loc = box.loc /\ b.report = box.report /\ b.cw = box.cw
          /\ b.cwCall = box.cwCall /\ b.force = box.force
          /\ b.maxDuration = box.maxDuration /\ b.txRate = box.txRate
        BY <1>2, <1>5 DEF SameOthers, OtherFields
    <2>3. /\ b.freq = box.freq /\ b.sel = box.sel /\ b.power = box.power
          /\ b.levels = box.levels /\ b.source = box.source
        BY <1>2, <1>5, <1>7
    <2>4. QED
        BY <1>1, <1>5, <2>1, <2>2, <2>3, ResavedFields
<1>8. Written(device, cfg) = Resaved(device, b, model, stored[device])
    BY <1>5, ResavedIsWritten
<1>9. cfg.call = CanonicalFormat(b.call) /\ cfg.counter = CounterOf(b, model)
    BY DEF GetFields, CounterOf
<1>10. \/ UNCHANGED <<stored, model>> /\ notes' = [notes EXCEPT !.typedBand = typed]
       \/ /\ stored' = [stored EXCEPT ![device] = Written(device, cfg)]
          /\ model' = cfg /\ ValidCallsign(device, cfg.call) /\ b.maxDuration # NoText
          /\ notes' = [notes EXCEPT !.typedBand = typed,
                                    !.authored = notes.authored \cup {device},
                                    !.touched = FALSE, !.stale = FALSE]
    BY <1>1, <1>3 DEF DeviceSave, cfg, typed, Notes
<1> HIDE DEF cfg
<1>11. CASE UNCHANGED <<stored, model>> /\ notes' = [notes EXCEPT !.typedBand = typed]
    <2>1. notes'.touched = notes.touched /\ notes'.stale = notes.stale
          /\ notes'.authored = notes.authored
        BY <1>1, <1>11 DEF Notes
    <2>2. QED
        BY <1>2, <1>5, <1>6, <1>7, <1>11, <2>1
<1>12. CASE /\ stored' = [stored EXCEPT ![device] = Written(device, cfg)]
            /\ model' = cfg /\ ValidCallsign(device, cfg.call) /\ b.maxDuration # NoText
            /\ notes' = [notes EXCEPT !.typedBand = typed,
                                      !.authored = notes.authored \cup {device},
                                      !.touched = FALSE, !.stale = FALSE]
    <2>1. notes'.authored = notes.authored \cup {device}
        BY <1>1, <1>12 DEF Notes
    <2>2. QED
        BY <1>2, <1>5, <1>6, <1>7, <1>8, <1>9, <1>12, <2>1
<1>13. QED
    BY <1>10, <1>11, <1>12

LEMMA SaveSurvives ==
    ASSUME NEW ok \in BOOLEAN, BoxesInv, BoxesInv', SurviveInv, enabled, DeviceSave(ok)
    PROVE  SurviveInv'
<1>0. /\ device \in Devices /\ UNCHANGED device /\ stored \in [Devices -> Config]
      /\ model \in Config
    BY DEF BoxesInv, TypeOK, DeviceSave
<1>1. CASE box.freqText = NoText
    <2>1. UNCHANGED <<box, stored, model, notes>>
        BY <1>1 DEF DeviceSave
    <2>2. QED
        BY <1>0, <2>1 DEF SurviveInv
<1>2. CASE box.freqText # NoText
    <2> DEFINE r == Resaved(device, box', model, stored[device])
    <2>1. /\ box' \in Box /\ box'.freqText = box'.freq
          /\ box.freqText = box.freq =>
                \A m, c : Resaved(device, box', m, c) = Resaved(device, box, m, c)
        BY <1>0, <1>2, SaveFacts
    <2>2. CASE /\ UNCHANGED <<stored, model>>
               /\ notes'.touched = notes.touched /\ notes'.stale = notes.stale
               /\ notes'.authored = notes.authored
        BY <1>0, <2>1, <2>2 DEF SurviveInv
    <2>3. CASE /\ stored' = [stored EXCEPT ![device] = r]
               /\ model'.call = CanonicalFormat(box'.call)
               /\ model'.counter = CounterOf(box', model)
               /\ ValidCallsign(device, CanonicalFormat(box'.call))
               /\ notes'.authored = notes.authored \cup {device}
               /\ box'.maxDuration # NoText
        <3>1. Orderly(device, box') /\ Consistent(device, box')
            BY <1>0 DEF BoxesInv, ShownInv, FreqInv, BoxInv
        <3>2. stored[device] \in Config
            BY <1>0
        <3>3. Authored(device, r)
            BY <1>0, <2>1, <2>3, <3>1, <3>2, SavedAuthored DEF Orderly, Consistent
        <3>4. Resaved(device, box', model', r) = r
            BY <1>0, <2>1, <2>3, <3>2, ResavedAgain
        <3> HIDE DEF r
        <3>5. stored'[device] = r
            BY <1>0, <2>3
        <3>6. \A d \in Devices : d # device => stored'[d] = stored[d]
            BY <1>0, <2>3
        <3>7. notes.authored \subseteq Devices
            BY DEF BoxesInv, TypeOK, Notes
        <3>8. \A d \in notes'.authored : Authored(d, stored'[d])
            BY <2>3, <3>3, <3>5, <3>6, <3>7 DEF SurviveInv
        <3>r. r \in Config
            BY <1>0, <3>5 DEF BoxesInv, TypeOK
        <3>9. Survives(device', stored'[device'],
                       Resaved(device', box', model', stored'[device']), notes'.stale)
            BY <1>0, <3>4, <3>5, <3>r, SameAsItself DEF Survives
        <3>10. QED
            BY <1>0, <2>1, <3>8, <3>9 DEF SurviveInv
    <2>4. QED
        BY <1>0, <1>2, <2>2, <2>3, SaveFacts
<1>3. QED
    BY <1>1, <1>2

LEMMA SurviveStep == BoxesInv /\ BoxesInv' /\ SurviveInv /\ [Next]_vars => SurviveInv'
<1> SUFFICES ASSUME BoxesInv, BoxesInv', SurviveInv, [Next]_vars
             PROVE  SurviveInv'
    OBVIOUS
<1>0. notes \in Notes
    BY DEF BoxesInv, TypeOK
<1>1. ASSUME NEW d \in Devices, Load(d) PROVE SurviveInv'
    <2>1. /\ device' = d /\ model' = Loaded(d) /\ UNCHANGED stored
          /\ notes' = [notes EXCEPT !.touched = FALSE, !.typedBand = FALSE,
                                    !.stale = Loaded(d).out \notin box.levels]
        BY <1>1 DEF Load
    <2>2. /\ notes'.authored = notes.authored
          /\ notes'.stale = (Loaded(d).out \notin box.levels)
        BY <1>0, <2>1 DEF Notes
    <2>3. box'.freqText = box'.freq
        BY <1>1, LoadFields
    <2>4. ASSUME d \in notes.authored
          PROVE  Survives(d, stored[d], Resaved(d, box', Loaded(d), stored[d]), notes'.stale)
        BY <1>1, <2>2, <2>4, LoadSurvives DEF SurviveInv
    <2>5. QED
        BY <2>1, <2>2, <2>3, <2>4 DEF SurviveInv
<1>2. CASE Disconnect
    BY <1>2 DEF Disconnect, SurviveInv
<1>3. CASE enabled /\ UserEdits
    <2>1. Touched \/ TouchedAndRefreshed
        BY <1>3 DEF UserEdits, OnBandChanged, OnBiasSelectChanged, PickPower, PickReport,
            TypeFreq, OnCallsignChanged, OnLocatorChanged, OnForceExtendedWsprChange,
            OnCWIDEnableChange, TypeCwCallsign, TypeMaxDuration, TypeTxRate
    <2>2. UNCHANGED <<stored, device>>
        BY <1>3 DEF UserEdits, OnBandChanged, OnBiasSelectChanged, PickPower, PickReport,
            TypeFreq, OnCallsignChanged, OnLocatorChanged, OnForceExtendedWsprChange,
            OnCWIDEnableChange, TypeCwCallsign, TypeMaxDuration, TypeTxRate, Edit
    <2>3. notes'.touched = TRUE /\ notes'.authored = notes.authored
        BY <1>0, <2>1 DEF Touched, TouchedAndRefreshed, Notes
    <2>4. QED
        BY <2>2, <2>3 DEF SurviveInv
<1>4. CASE enabled /\ OnFreqUnfocus
    <2>1. device \in Devices
        BY <1>4 DEF BoxesInv, TypeOK
    <2>2. notes.touched /\ UNCHANGED <<device, stored>>
        BY <1>4, <2>1 DEF OnFreqUnfocus, SurviveInv
    <2>3. notes'.touched = notes.touched /\ notes'.authored = notes.authored
        <3>1. \/ UNCHANGED notes
              \/ notes' = [notes EXCEPT !.typedBand = notes.typedBand \/ TypesBand(box)]
            BY <1>0, <1>4 DEF OnFreqUnfocus, Notes
        <3>2. QED
            BY <1>0, <3>1 DEF Notes
    <2>4. QED
        BY <2>2, <2>3 DEF SurviveInv
<1>5. ASSUME NEW ok \in BOOLEAN, enabled /\ DeviceSave(ok) PROVE SurviveInv'
    BY <1>5, SaveSurvives
<1>6. CASE UNCHANGED vars
    BY <1>6 DEF vars, SurviveInv
<1>7. QED
    BY <1>1, <1>2, <1>3, <1>4, <1>5, <1>6 DEF Next

\* Only a save changes what a device holds, and an untouched box changes nothing
\* but for the exceptions.
LEMMA UntouchedWritesSame ==
    ASSUME BoxesInv, SurviveInv, [Next]_vars, NEW d \in Devices,
           stored'[d] # stored[d], d \in notes.authored, ~notes.touched
    PROVE  /\ SameButPower(stored[d], stored'[d])
           /\ RoundTrips(stored[d].maxRuntime, stored'[d].maxRuntime)
           /\ \/ SamePower(stored[d], stored'[d])
              \/ notes.stale \/ ~Reachable(d, Loaded(d))
<1>0. PICK ok \in BOOLEAN : enabled /\ DeviceSave(ok)
    <2>1. \A e \in Devices : ~Load(e)
        BY DEF Load
    <2>2. ~Disconnect /\ ~OnFreqUnfocus /\ ~(UNCHANGED vars)
        BY DEF Disconnect, OnFreqUnfocus, vars
    <2>3. ~UserEdits
        BY DEF UserEdits, OnBandChanged, OnBiasSelectChanged, PickPower, PickReport,
            TypeFreq, OnCallsignChanged, OnLocatorChanged, OnForceExtendedWsprChange,
            OnCWIDEnableChange, TypeCwCallsign, TypeMaxDuration, TypeTxRate, Edit
    <2>4. QED
        BY <2>1, <2>2, <2>3 DEF Next
<1>1. device \in Devices /\ TypeOK /\ stored \in [Devices -> Config]
    BY <1>0 DEF BoxesInv, TypeOK
<1>2. box.freqText # NoText
    BY <1>0 DEF DeviceSave
<1>3. box.freqText = box.freq
    BY <1>1 DEF SurviveInv
<1>4. stored' = [stored EXCEPT ![device] = Resaved(device, box, model, stored[device])]
    <2>1. \A m, c : Resaved(device, box', m, c) = Resaved(device, box, m, c)
        BY <1>0, <1>1, <1>2, <1>3, SaveFacts
    <2>2. stored' # stored
        OBVIOUS
    <2>3. stored' = [stored EXCEPT ![device] = Resaved(device, box', model, stored[device])]
        BY <1>0, <1>1, <1>2, <2>2, SaveFacts
    <2>4. QED
        BY <2>1, <2>3
<1>5. d = device
    BY <1>1, <1>4
<1>6. stored'[d] = Resaved(device, box, model, stored[device])
    BY <1>1, <1>4, <1>5
<1>7. Survives(d, stored[d], stored'[d], notes.stale)
    BY <1>1, <1>5, <1>6 DEF SurviveInv
<1>8. QED
    BY <1>1, <1>7, LoadedReachableFacts DEF Survives

-------------------------------------------------------------------------------
LEMMA BoxesAlways == Spec => []BoxesInv
BY BoxesInit, BoxesStep, PTL DEF Spec

\* Whatever is loaded, typed, picked and drawn, every control has a value that the
\* control can have, and what is loaded or saved is a configuration
\* (Box_WSPRSettings.cpp:244-340).
THEOREM TypeCorrect == Spec => []TypeOK
<1>1. BoxesInv => TypeOK
    BY DEF BoxesInv
<1>2. QED
    BY BoxesAlways, <1>1, PTL

\* What the box shows as derived from the controls is derived from their present
\* values, unless a typed frequency has changed the band; the frequency is always
\* one of the selected band (Box_WSPRSettings.cpp:168-197).
THEOREM DerivedStaysUpToDate == Spec => []DerivedUpToDate
<1>1. BoxesInv => DerivedUpToDate
    <2> SUFFICES ASSUME BoxesInv, device \in Devices
                 PROVE  /\ ContainsFreq(SelectedBand(device, box), box.freq)
                        /\ box.msgTypes = MsgTypes(device, box)
                        /\ notes.typedBand \/ UpToDate(device, box)
        BY DEF DerivedUpToDate, UpToDate
    <2>1. QED
        BY DeviceFacts DEF BoxesInv, ShownInv, Orderly
<1>2. QED
    BY BoxesAlways, <1>1, PTL

\* A saved power can be reached with the saved bias source at the saved frequency,
\* unless a typed frequency has changed the band: for all tables of measurements
\* with which each device can send on each band (Box_WSPRSettings.cpp:425-432).
THEOREM EverySavedPowerWithinReach == Spec => []PowerWithinReach
<1>1. BoxesInv => PowerWithinReach
    BY DEF BoxesInv
<1>2. QED
    BY BoxesAlways, <1>1, PTL

\* No save puts a device in a band that its firmware does not know, whatever was
\* picked or typed, if the device was not in it before: the only such band is that
\* of 630 m on a Classic (Box_WSPRSettings.cpp:168-178, Version.cpp:66-80).
THEOREM EverySavedBandSupported == Spec => []SavedBandSupported
<1>1. BoxesInv => SavedBandSupported
    BY DEF BoxesInv
<1>2. QED
    BY BoxesAlways, <1>1, PTL

\* What this program has saved is what a load and a save without an edit write
\* again, field by field, however many devices take turns in between, with these
\* exceptions: the run time comes back to within a second and half of the last of
\* the six digits shown, whatever FallsShort and TiesDown are; and the powers and
\* the bias change if the power control did not or cannot offer the power
\* (Box_WSPRSettings.cpp:244-340, StrUtil.cpp:56-66).
THEOREM SavedSettingsAreKept == Spec => SavedSettingsSurvive
<1>1. Init => SurviveInv
    BY SettingsAssumption DEF Init, SurviveInv
<1>2. BoxesInv /\ BoxesInv' /\ SurviveInv /\ [Next]_vars => SurviveInv'
    BY SurviveStep
<1>3. BoxesInv /\ SurviveInv /\ [Next]_vars =>
        [\A d \in Devices :
            stored'[d] # stored[d] /\ d \in notes.authored /\ ~notes.touched =>
                /\ SameButPower(stored[d], stored'[d])
                /\ RoundTrips(stored[d].maxRuntime, stored'[d].maxRuntime)
                /\ \/ SamePower(stored[d], stored'[d])
                   \/ notes.stale \/ ~Reachable(d, Loaded(d))]_vars
    BY UntouchedWritesSame
<1>4. QED
    BY BoxesAlways, <1>1, <1>2, <1>3, PTL DEF Spec, SavedSettingsSurvive

===============================================================================
