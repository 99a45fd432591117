------------------------------ MODULE Version -------------------------------
(***************************************************************************)
(* Versions of firmware and device, and what each firmware supports        *)
(* (common/Version.cpp).  A firmware version is <<major, minor, patch,     *)
(* release date>>.                                                         *)
(***************************************************************************)
EXTENDS Integers

FirmwareVersions == Nat \X Nat \X Nat \X Nat

\* The first component in which two versions differ decides.
Older(a, b) == \E i \in 1..4 : a[i] < b[i] /\ \A j \in 1..(i - 1) : a[j] = b[j]
\* operator==, which is written apart from operator<.
Same(a, b) == \A i \in 1..4 : a[i] = b[i]

\* What RelOps.hpp makes of operator<: >=, <= and >.
AtLeast(a, b) == ~Older(a, b)
AtMost(a, b) == ~Older(b, a)
Newer(a, b) == Older(b, a)

\* WSPRlite Classic has a filter for 20 m, Flexi has a calibrated oscillator.
Has20mFilter(productId) == productId = 1
HasCalibratedOscillator(productId) == productId = 2

\* What may be installed on a device: the EEPROM of a Flexi, and of a later
\* revision of the Classic, which is left out, is unknown to older firmware.
SupportsDevice(fw, productId) ==
    productId = 2 => AtLeast(fw, <<1, 1, 0, 20170605>>)

SupportsBand(fw, b, centre) ==
    IF b = "Band_630m" THEN AtLeast(fw, <<1, 0, 6, 20170130>>)
    ELSE centre > 15000000 => AtLeast(fw, <<1, 1, 0, 20170605>>)

SupportsCwId(fw) == AtLeast(fw, <<1, 0, 6, 20170130>>)
SupportsExtendedWspr(fw) == AtLeast(fw, <<1, 1, 5, 20180702>>)

SupportsVarId(fw, v) ==
    CASE v \in {"CwId_Freq", "CwId_Callsign"} -> AtLeast(fw, <<1, 0, 6, 20170130>>)
      [] v = "PaBiasSource" -> AtLeast(fw, <<1, 1, 3, 20171012>>)
      [] v = "WSPR_optionFlags" -> AtLeast(fw, <<1, 1, 5, 20180702>>)
      [] OTHER -> TRUE

\* Versions are in one order: of two different ones exactly one is older, and
\* what is older than an older one is older; and the operators that come from
\* operator< agree with it and with operator== (Version.cpp:98-126,
\* RelOps.hpp:10-29).
Ordered(a, b, c) ==
    /\ ~Older(a, a)
    /\ Older(a, b) => ~Older(b, a)
    /\ Older(a, b) /\ Older(b, c) => Older(a, c)
    /\ Same(a, b) <=> a = b
    /\ Same(a, b) <=> AtLeast(a, b) /\ AtMost(a, b)
    /\ AtLeast(a, b) <=> Newer(a, b) \/ Same(a, b)
    /\ AtMost(a, b) <=> Older(a, b) \/ Same(a, b)

=============================================================================
