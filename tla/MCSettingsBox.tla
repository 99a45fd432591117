--------------------------- MODULE MCSettingsBox ----------------------------
(***************************************************************************)
(* Values for instances of SettingsBox: two devices, some of the           *)
(* configurations they may hold, and rows of the tables of measurements    *)
(* (lowest, highest and a middle one of the frequencies in use).           *)
(***************************************************************************)
EXTENDS SettingsBox

Row(freq, power, bias) ==
    [freq |-> freq, power |-> power, bias |-> 10 * bias, driveStrength |-> 3]

MCClassicData == {
    Row(475, 700, 63), Row(475, 2300, 900), Row(5288, 700, 20), Row(5288, 2300, 274),
    Row(14097, 700, 19), Row(14097, 1700, 153), Row(14097, 2300, 420)}
MCDirectData == {
    Row(475, 136, 0), Row(475, 2428, 900), Row(5288, 662, 0), Row(5288, 2689, 950),
    Row(14097, 531, 0), Row(14097, 2692, 850),
    Row(50294, -269, 0), Row(50294, 1109, 250), Row(50294, 2162, 650)}
MCLpfKitData == {Row(14097, 497, 0), Row(14097, 1681, 150), Row(14097, 2638, 750)}

MCProductId == [d \in Devices |-> IF d = "classic" THEN 1 ELSE 2]
MCFirmware == [d \in Devices |->
    IF d = "classic" THEN <<1, 0, 5, 20170117>> ELSE <<1, 1, 5, 20180702>>]

Call(k, r) == [kind |-> k, raw |-> r]
Loc(n) == [len |-> n, raw |-> FALSE]

\* A new device; one of each kind that has been set up; one with a 60 m
\* frequency of another country's allocation.
Setup == [call |-> Call("basic", FALSE), loc |-> Loc(4), freq |-> 14097120,
          out |-> 23, rep |-> 23, source |-> "SbLpfKit", bias |-> 337, counter |-> 3,
          maxRuntime |-> 2592000, transmitPercent |-> 20,
          cwFreq |-> 0, cwCall |-> FALSE, force |-> FALSE]
MCHeld == {
    [Setup EXCEPT !.freq = 0, !.counter = 0, !.call = Call("invalid", FALSE),
                  !.maxRuntime = 0],
    Setup,
    [Setup EXCEPT !.freq = 5287200, !.rep = 35, !.source = "Default", !.maxRuntime = 86886]}

MCCalls == {Call("basic", FALSE), Call("basic", TRUE), Call("compound", FALSE)}
MCTypedFreqs == {50294500, 5366200, 14000000, NoText}
MCLocators == {Loc(4), Loc(6)}

\* "1.157" loses a second when it is shown and saved again; "1.2" is one of the
\* texts whose product falls short; 86886 s are shown as "1.00562".
MCTypedDays == {1157000, 1200000, NoText}
MCTypedRates == {33, NoText}
MCFallsShort == {1200000}
MCTiesDown == {86886}

=============================================================================
