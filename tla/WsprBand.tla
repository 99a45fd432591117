------------------------------ MODULE WsprBand ------------------------------
(***************************************************************************)
(* The table of WSPR bands and the lookups of common/WsprBand.cpp, and the *)
(* range of the random transmit frequencies of RandomFreqGenerator.cpp.    *)
(* Frequencies are in Hz.                                                  *)
(***************************************************************************)
EXTENDS Integers

CentreFreq == [
    Band_6m |-> 50294500, Band_10m |-> 28126100, Band_12m |-> 24926100,
    Band_15m |-> 21096100, Band_17m |-> 18106100, Band_20m |-> 14097100,
    Band_30m |-> 10140200, Band_40m |-> 7040100, Band_60m_52887 |-> 5288700,
    Band_60m_53662 |-> 5366200, Band_80m |-> 3570100, Band_160m |-> 1838100,
    Band_630m |-> 475700]

WsprBands == DOMAIN CentreFreq
SixtyMetres == {"Band_60m_52887", "Band_60m_53662"}
NoBand == "none"

\* WSPR bands are 200 Hz wide.
ContainsFreq(b, f) == CentreFreq[b] - 100 <= f /\ f <= CentreFreq[b] + 100

\* The band of a set of bands that a frequency lies in: NoBand, or the only one.
BandAmong(bands, f) ==
    IF \E b \in bands : ContainsFreq(b, f)
    THEN CHOOSE b \in bands : ContainsFreq(b, f)
    ELSE NoBand

FindByFreq(f) == BandAmong(WsprBands, f)

\* Mutant: the band less 15 Hz, whatever the oscillator's error.
Bandwidth_NoMargin(calibrated, b) == IF calibrated THEN 200 - 15 ELSE 100

\* How far apart the generated frequencies of a band may be: on a calibrated
\* oscillator the whole band less 15 Hz and 1 ppm on each side.
Bandwidth(calibrated, b) ==
    IF calibrated /\ CentreFreq[b] < 30000000
    THEN (170000000 - 2 * CentreFreq[b]) \div 1000000
    ELSE 100

\* Every value that uniformGen, or usageBasedGen with its rejection sampling,
\* can return.
Generate(calibrated, b) ==
    LET half == Bandwidth(calibrated, b) \div 2
    IN  CentreFreq[b] - half .. CentreFreq[b] + half

\* Whatever is drawn, an oscillator that is 1 ppm off keeps a frequency that the
\* program generates inside the band, if it is calibrated and the band is below
\* 30 MHz; in any case the generated number itself is a frequency of the band
\* (RandomFreqGenerator.cpp:107-134).
GeneratedInBand(calibrated, b) ==
    LET margin == IF calibrated /\ CentreFreq[b] < 30000000
                  THEN CentreFreq[b] \div 1000000 ELSE 0
    IN  \A f \in Generate(calibrated, b) :
            ContainsFreq(b, f - margin) /\ ContainsFreq(b, f + margin)

=============================================================================
