--------------------------- MODULE MCCalculations ---------------------------
(***************************************************************************)
(* The calculations of the program over bounded inputs: the batches of     *)
(* Timeslots, step by step, or one input of a pure function.               *)
(***************************************************************************)
EXTENDS Timeslots, KeyPacking, WsprBand, PaBias

VARIABLE input

\* Four rows each at two frequencies, in kHz, hundredths of a dBm and tenths.
Row(freq, power, bias) ==
    [freq |-> freq, power |-> power, bias |-> 10 * bias, driveStrength |-> 3]
MCClassicData == {
    Row(475, 700, 63), Row(475, 1300, 208), Row(475, 1700, 396), Row(475, 2300, 900),
    Row(14097, 700, 19), Row(14097, 1300, 86), Row(14097, 1700, 153), Row(14097, 2300, 420)}
MCDirectData == {
    Row(5288, 662, 0), Row(5288, 1815, 150), Row(5288, 2689, 950),
    Row(50294, -269, 0), Row(50294, 1109, 250), Row(50294, 2162, 650)}
MCLpfKitData == {Row(14097, 497, 0), Row(14097, 1681, 150), Row(14097, 2638, 750)}

\* Characters of a decimal number; Radix is 2, so ids have up to three digits.
MCDecimal(n) == <<n \div 100, (n \div 10) % 10, n % 10>>

Queries ==
    [type : {"PaBias"}, classic : BOOLEAN, source : Sources,
     freq : {100, 475, 2000, 5288, 14097, 14098, 30000, 50294, 60000},
     power : {-400, 0, 700, 1100, 1699, 1700, 2300, 2700}]

Inputs ==
    [kind : {"key"}, id : Uint, counter : Uint] \cup
    [kind : {"band"}, calibrated : BOOLEAN, band : WsprBands] \cup
    [kind : {"bias"}, query : Queries, more : {1, 300, 1000}]

vars == <<slotVars, input>>

Init ==
    /\ SlotsInit
    /\ \/ input = [kind |-> "slots"]
       \/ rate = 0 /\ input \in Inputs

Next == input.kind = "slots" /\ SlotsNext /\ UNCHANGED input

Spec == Init /\ [][Next]_vars

-----------------------------------------------------------------------------
\* KeyDecodes of KeyPacking for every input.
KeysDecode == input.kind = "key" => KeyDecodes(input.id, input.counter, <<"M", 0>>, <<"s">>)

\* GeneratedInBand of WsprBand for every band and oscillator.
BandsKept == input.kind = "band" => GeneratedInBand(input.calibrated, input.band)

\* BiasWithinTable of PaBias for frequencies and powers in, between and outside
\* the measurements.
BiasesBounded == input.kind = "bias" => BiasWithinTable(input.query, input.more)

=============================================================================
