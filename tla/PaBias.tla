------------------------------- MODULE PaBias -------------------------------
(***************************************************************************)
(* The bias of the power amplifier for a frequency and a power, and the    *)
(* powers that can be reached, interpolated in tables of measurements      *)
(* (common/PaBias.cpp, PaBias_impl, MathUtil.cpp).                         *)
(*                                                                         *)
(* Arithmetic is in fixed point: frequencies in kHz, powers in hundredths  *)
(* of a dBm, biases in tenths; a division rounds down.                     *)
(***************************************************************************)
EXTENDS Integers, FiniteSets, FiniteSetsExt

CONSTANTS ClassicData, DirectData, LpfKitData   \* biasData/inc/*.inc

Measurement == [freq : Nat, power : Int, bias : Int, driveStrength : Nat]

\* Finitely many measurements; those of ByDriveStrength without a filter are some.
ASSUME TableAssumption ==
    /\ \A table \in {ClassicData, DirectData, LpfKitData} :
           IsFiniteSet(table) /\ table \subseteq Measurement
    /\ ClassicData # {}
    /\ \E p \in DirectData : p.driveStrength = 3

Sources == {"Default", "Direct", "SbLpfKit"}

\* Mutant: the distance from the wrong end.
LinInterpolate_FromHigh(ax, ay, bx, by, cx) ==
    IF ax = bx THEN (ay + by) \div 2 ELSE ay + ((by - ay) * (bx - cx)) \div (bx - ax)

\* Between the ends the line through a and b, outside the nearer end's value.
LinInterpolate(ax, ay, bx, by, cx) ==
    LET lowX == IF ax > bx THEN bx ELSE ax
        lowY == IF ax > bx THEN by ELSE ay
        highX == IF ax > bx THEN ax ELSE bx
        highY == IF ax > bx THEN ay ELSE by
    IN  IF ax = bx THEN (ay + by) \div 2
        ELSE IF cx < lowX THEN lowY
        ELSE IF cx > highX THEN highY
        ELSE lowY + ((highY - lowY) * (cx - lowX)) \div (highX - lowX)

\* InterpolatingDataIndex: between the nearest keys on both sides.
Interpolated(value, k) ==
    LET below == {x \in DOMAIN value : x <= k}
        above == {x \in DOMAIN value : x >= k}
        low == IF below = {} THEN Min(above) ELSE Max(below)
        high == IF above = {} THEN Max(below) ELSE Min(above)
    IN  LinInterpolate(low, value[low], high, value[high], k)

Powers(points) == {p.power : p \in points}

ByPower(points, q) ==
    CASE q.type = "MinPower" -> Min(Powers(points))
      [] q.type = "MaxPower" -> Max(Powers(points))
      [] q.type = "PaBias" ->
            Interpolated([x \in Powers(points) |-> (CHOOSE p \in points : p.power = x).bias],
                         q.power)

ByFrequency(points, q) ==
    Interpolated([f \in {p.freq : p \in points} |->
                    ByPower({p \in points : p.freq = f}, q)], q.freq)

\* No firmware lets the drive strength be chosen: it is always 3.
ByDriveStrength(points) == {p \in points : p.driveStrength = 3}

\* The kit's data is found by the MHz of the frequency.
ByBand(points, q) == {p \in points : p.freq \div 1000 = q.freq \div 1000}

KitPoints(q) == ByDriveStrength(ByBand(LpfKitData, q))
UsesKit(q) == ~q.classic /\ q.source \in {"Default", "SbLpfKit"}

\* Without data for the kit the query falls back to no filter.
DataFor(q) ==
    IF q.classic THEN ClassicData
    ELSE IF UsesKit(q) /\ KitPoints(q) # {} THEN KitPoints(q)
    ELSE ByDriveStrength(DirectData)

HasData(q) == UsesKit(q) => KitPoints(q) # {}

\* std::round, halves away from zero.
Round(x, unit) ==
    IF x >= 0 THEN (2 * x + unit) \div (2 * unit)
    ELSE -((unit - 2 * x) \div (2 * unit))

GetBias(q) == Round(ByFrequency(DataFor(q), [q EXCEPT !.type = "PaBias"]), 10)
GetMinPower(q) == Round(ByFrequency(DataFor(q), [q EXCEPT !.type = "MinPower"]), 100)
GetMaxPower(q) == Round(ByFrequency(DataFor(q), [q EXCEPT !.type = "MaxPower"]), 100)

\* At each frequency that was measured, more power took at least as much bias.
MoreTakesMore(points) ==
    \A a, b \in points : a.freq = b.freq /\ a.power <= b.power => a.bias <= b.bias

\* It did, at the drive strength that is used; not so across drive strengths.
TablesRise ==
    /\ MoreTakesMore(ClassicData)
    /\ MoreTakesMore(ByDriveStrength(DirectData))
    /\ MoreTakesMore(ByDriveStrength(LpfKitData))

\* Wherever a frequency and a power lie between or outside the measurements, no
\* bias is larger or smaller than all that were measured, and more power never
\* takes less bias if that is so at each frequency that was measured
\* (PaBias_impl.hpp:51-200, MathUtil.cpp:5-30).
BiasWithinTable(q, more) ==
    LET biases == {p.bias : p \in DataFor(q)}
    IN  /\ 10 * GetBias(q) \in Min(biases) - 5 .. Max(biases) + 5
        /\ GetBias(q) <= GetBias([q EXCEPT !.power = @ + more])

=============================================================================
