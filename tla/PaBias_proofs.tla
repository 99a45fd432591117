----------------------------- MODULE PaBias_proofs -----------------------------
(***************************************************************************)
(* Proofs about the operators of PaBias, for all tables of measurements:   *)
(* the largest and the smallest element of a finite set, interpolation     *)
(* between neighbours and in a table, the powers and biases it yields.     *)
(***************************************************************************)
EXTENDS PaBias, FiniteSetTheorems, TLAPS

-------------------------------------------------------------------------------
(* Largest and smallest elements.                                            *)

\* The subset of the fewest larger elements is the largest element's.
LEMMA MaxFacts ==
    ASSUME NEW S \in SUBSET Int, S # {}, IsFiniteSet(S)
    PROVE  Max(S) \in S /\ \A y \in S : Max(S) >= y
<1> DEFINE above(x) == {y \in S : y > x}
           T == {above(x) : x \in S}
           R == StrictSubsetOrdering(S)
<1>1. IsWellFoundedOn(R, FiniteSubsetsOf(S))
    BY FS_StrictSubsetOrderingWellFounded
<1>2. T \subseteq FiniteSubsetsOf(S) /\ T # {}
    <2>1. T \subseteq SUBSET S /\ T # {}
        OBVIOUS
    <2>2. FiniteSubsetsOf(S) = SUBSET S
        BY FS_FiniteSubsetsOfFinite
    <2>3. QED
        BY <2>1, <2>2
<1>3. \E t \in T : \A u \in T : <<u, t>> \notin R
    <2> HIDE DEF T, R
    <2>1. QED
        BY <1>1, <1>2, WFMin
<1>4. PICK x \in S : \A y \in S : <<above(y), above(x)>> \notin R
    BY <1>3
<1>5. \A y \in S : x >= y
    <2> SUFFICES ASSUME NEW y \in S, y > x PROVE FALSE
        OBVIOUS
    <2>1. above(y) \subseteq above(x) /\ above(y) # above(x)
        <3>1. \A z \in S : z > y => z > x
            OBVIOUS
        <3>2. y \in above(x) /\ y \notin above(y)
            OBVIOUS
        <3>3. QED
            BY <3>1, <3>2
    <2>2. <<above(y), above(x)>> \in R
        BY <2>1 DEF StrictSubsetOrdering
    <2>3. QED
        BY <1>4, <2>2
<1>6. QED
    BY <1>5 DEF Max

LEMMA MinFacts ==
    ASSUME NEW S \in SUBSET Int, S # {}, IsFiniteSet(S)
    PROVE  Min(S) \in S /\ \A y \in S : Min(S) <= y
<1> DEFINE below(x) == {y \in S : y < x}
           T == {below(x) : x \in S}
           R == StrictSubsetOrdering(S)
<1>1. IsWellFoundedOn(R, FiniteSubsetsOf(S))
    BY FS_StrictSubsetOrderingWellFounded
<1>2. T \subseteq FiniteSubsetsOf(S) /\ T # {}
    <2>1. T \subseteq SUBSET S /\ T # {}
        OBVIOUS
    <2>2. FiniteSubsetsOf(S) = SUBSET S
        BY FS_FiniteSubsetsOfFinite
    <2>3. QED
        BY <2>1, <2>2
<1>3. \E t \in T : \A u \in T : <<u, t>> \notin R
    <2> HIDE DEF T, R
    <2>1. QED
        BY <1>1, <1>2, WFMin
<1>4. PICK x \in S : \A y \in S : <<below(y), below(x)>> \notin R
    BY <1>3
<1>5. \A y \in S : x <= y
    <2> SUFFICES ASSUME NEW y \in S, y < x PROVE FALSE
        OBVIOUS
    <2>1. below(y) \subseteq below(x) /\ below(y) # below(x)
        <3>1. \A z \in S : z < y => z < x
            OBVIOUS
        <3>2. y \in below(x) /\ y \notin below(y)
            OBVIOUS
        <3>3. QED
            BY <3>1, <3>2
    <2>2. <<below(y), below(x)>> \in R
        BY <2>1 DEF StrictSubsetOrdering
    <2>3. QED
        BY <1>4, <2>2
<1>6. QED
    BY <1>5 DEF Min

-------------------------------------------------------------------------------
(* Interpolation between two points.                                         *)

\* A product of factors that are bounded is bounded, and so is its share.
LEMMA ShareOfDifference ==
    ASSUME NEW d \in Int, NEW t \in Nat, NEW n \in Nat, n > 0, t <= n
    PROVE  /\ (d * t) \div n \in Int
           /\ d >= 0 => 0 <= (d * t) \div n /\ (d * t) \div n <= d
           /\ d <= 0 => d <= (d * t) \div n /\ (d * t) \div n <= 0
<1> DEFINE q == (d * t) \div n
<1>1. d * t \in Int
    OBVIOUS
<1>2. q \in Int /\ n * q <= d * t /\ d * t < n * q + n
    BY <1>1
<1>3. d >= 0 => 0 <= d * t /\ d * t <= n * d
    OBVIOUS
<1>4. d <= 0 => d * t <= 0 /\ n * d <= d * t
    OBVIOUS
<1> HIDE DEF q
<1>5. d >= 0 => 0 <= q /\ q <= d
    <2> SUFFICES ASSUME d >= 0 PROVE 0 <= q /\ q <= d
        OBVIOUS
    <2>1. n * q <= n * d /\ 0 < n * (q + 1)
        BY <1>1, <1>2, <1>3
    <2>2. QED
        BY <1>2, <2>1
<1>6. d <= 0 => d <= q /\ q <= 0
    <2> SUFFICES ASSUME d <= 0 PROVE d <= q /\ q <= 0
        OBVIOUS
    <2>1. n * q <= 0 /\ n * d < n * (q + 1)
        BY <1>1, <1>2, <1>4
    <2>2. QED
        BY <1>2, <2>1
<1>7. QED
    BY <1>2, <1>5, <1>6 DEF q

\* Interpolation never leaves the values of its ends, also outside of them and
\* in either order (MathUtil.cpp:5-30).
THEOREM InterpolationBetween ==
    ASSUME NEW ax \in Int, NEW ay \in Int, NEW bx \in Int, NEW by \in Int, NEW cx \in Int,
           NEW low \in Int, NEW high \in Int,
           low <= ay, ay <= high, low <= by, by <= high
    PROVE  LinInterpolate(ax, ay, bx, by, cx) \in low .. high
<1> DEFINE lowX == IF ax > bx THEN bx ELSE ax
           lowY == IF ax > bx THEN by ELSE ay
           highX == IF ax > bx THEN ax ELSE bx
           highY == IF ax > bx THEN ay ELSE by
           r == LinInterpolate(ax, ay, bx, by, cx)
<1> SUFFICES low <= r /\ r <= high /\ r \in Int
    OBVIOUS
<1>1. r = IF ax = bx THEN (ay + by) \div 2
          ELSE IF cx < lowX THEN lowY
          ELSE IF cx > highX THEN highY
          ELSE lowY + ((highY - lowY) * (cx - lowX)) \div (highX - lowX)
    BY DEF LinInterpolate
<1>2. /\ lowX \in Int /\ lowY \in Int /\ highX \in Int /\ highY \in Int
      /\ low <= lowY /\ lowY <= high /\ low <= highY /\ highY <= high
      /\ ax # bx => lowX < highX
    OBVIOUS
<1> HIDE DEF lowX, lowY, highX, highY, r
<1>3. CASE ax = bx
    BY <1>1, <1>3
<1>4. CASE ax # bx /\ lowX <= cx /\ cx <= highX
    <2> DEFINE d == highY - lowY
               n == highX - lowX
               t == cx - lowX
               q == (d * t) \div n
    <2>1. d \in Int /\ n \in Nat /\ n > 0 /\ t \in Nat /\ t <= n
        BY <1>2, <1>4
    <2>2. r = lowY + q
        BY <1>1, <1>2, <1>4
    <2>3. d = highY - lowY
        OBVIOUS
    <2> HIDE DEF d, n, t
    <2>4. q \in Int /\ (d >= 0 => 0 <= q /\ q <= d) /\ (d <= 0 => d <= q /\ q <= 0)
        BY <2>1, ShareOfDifference
    <2> HIDE DEF q
    <2>5. QED
        BY <1>2, <2>1, <2>2, <2>3, <2>4
<1>5. CASE ax # bx /\ ~(lowX <= cx /\ cx <= highX)
    BY <1>1, <1>2, <1>5
<1>6. QED
    BY <1>3, <1>4, <1>5

\* Products with a factor that is not negative keep the order.
LEMMA ProductOrder ==
    ASSUME NEW a \in Int, NEW b \in Int, NEW m \in Nat, a <= b
    PROVE  a * m \in Int /\ b * m \in Int /\ a * m <= b * m
OBVIOUS

\* Quotients by the same divisor keep the order.
LEMMA QuotientOrder ==
    ASSUME NEW a \in Int, NEW b \in Int, NEW n \in Nat, n > 0, a <= b
    PROVE  a \div n \in Int /\ b \div n \in Int /\ a \div n <= b \div n
<1> DEFINE q == a \div n
           r == b \div n
<1>1. q \in Int /\ n * q <= a /\ a < n * q + n
    OBVIOUS
<1>2. r \in Int /\ n * r <= b /\ b < n * r + n
    OBVIOUS
<1> HIDE DEF q, r
<1>3. n * q < n * (r + 1)
    BY <1>1, <1>2
<1>4. q <= r
    <2> SUFFICES ASSUME r + 1 <= q PROVE FALSE
        BY <1>1, <1>2
    <2>1. (r + 1) * n <= q * n
        BY <1>1, <1>2, ProductOrder
    <2>2. QED
        BY <1>1, <1>2, <1>3, <2>1
<1>5. QED
    BY <1>1, <1>2, <1>4 DEF q, r

\* Inside its interval the line is a weighted mean of its ends, rounded down.
LEMMA WeightedMean ==
    ASSUME NEW a \in Int, NEW b \in Int, NEW n \in Nat, NEW t \in Nat, n > 0
    PROVE  a + ((b - a) * t) \div n = (a * (n - t) + b * t) \div n
<1> DEFINE x == (b - a) * t
           q == x \div n
           y == a * (n - t) + b * t
<1>1. x \in Int /\ y \in Int /\ y = a * n + x
    OBVIOUS
<1> HIDE DEF x, y
<1>2. q \in Int /\ n * q <= x /\ x < n * q + n
    BY <1>1
<1>3. y \div n \in Int /\ n * (y \div n) <= y /\ y < n * (y \div n) + n
    BY <1>1
<1> DEFINE r == y \div n
<1> HIDE DEF q, r
<1>4. r \in Int /\ n * r <= y /\ y < n * r + n
    BY <1>3 DEF r
<1>5. n * (a + q) <= y /\ y < n * (a + q) + n
    BY <1>1, <1>2
<1>6. a + q = r
    <2>1. n * (a + q) < n * (r + 1) /\ n * r < n * (a + q + 1)
        BY <1>2, <1>4, <1>5, <1>1
    <2>2. ~(r + 1 <= a + q)
        <3> SUFFICES ASSUME r + 1 <= a + q PROVE FALSE
            OBVIOUS
        <3>1. (r + 1) * n <= (a + q) * n
            BY <1>2, <1>4, ProductOrder
        <3>2. QED
            BY <1>2, <1>4, <2>1, <3>1
    <2>3. ~(a + q + 1 <= r)
        <3> SUFFICES ASSUME a + q + 1 <= r PROVE FALSE
            OBVIOUS
        <3>1. (a + q + 1) * n <= r * n
            BY <1>2, <1>4, ProductOrder
        <3>2. QED
            BY <1>2, <1>4, <2>1, <3>1
    <2>4. QED
        BY <1>2, <1>4, <2>2, <2>3
<1>7. QED
    BY <1>6 DEF q, r, x, y

\* LinInterpolate with its ends in order.
Line(ax, y, bx, z, x) ==
    IF ax = bx THEN (y + z) \div 2
    ELSE IF x < ax THEN y ELSE IF x > bx THEN z
    ELSE y + ((z - y) * (x - ax)) \div (bx - ax)

LEMMA LineFrom ==
    ASSUME NEW ax \in Int, NEW bx \in Int, NEW y \in Int, NEW z \in Int,
           NEW x \in Int, ax <= bx
    PROVE  LinInterpolate(ax, y, bx, z, x) = Line(ax, y, bx, z, x)
<1> DEFINE lowX == IF ax > bx THEN bx ELSE ax
           lowY == IF ax > bx THEN z ELSE y
           highX == IF ax > bx THEN ax ELSE bx
           highY == IF ax > bx THEN y ELSE z
<1>1. LinInterpolate(ax, y, bx, z, x) =
          IF ax = bx THEN (y + z) \div 2
          ELSE IF x < lowX THEN lowY ELSE IF x > highX THEN highY
          ELSE lowY + ((highY - lowY) * (x - lowX)) \div (highX - lowX)
    BY DEF LinInterpolate
<1>2. lowX = ax /\ lowY = y /\ highX = bx /\ highY = z
    OBVIOUS
<1> HIDE DEF lowX, lowY, highX, highY
<1>3. QED
    BY <1>1, <1>2 DEF Line

\* Where both lie, larger values at the ends give a larger value between them.
LEMMA InterpolationKeepsOrder ==
    ASSUME NEW ax \in Int, NEW bx \in Int, NEW c \in Int,
           NEW ay \in Int, NEW by \in Int, NEW ayy \in Int, NEW byy \in Int,
           ax <= bx, ay <= ayy, by <= byy
    PROVE  LinInterpolate(ax, ay, bx, by, c) <= LinInterpolate(ax, ayy, bx, byy, c)
<1> DEFINE v(y, z) == Line(ax, y, bx, z, c)
<1>1. LinInterpolate(ax, ay, bx, by, c) = v(ay, by)
      /\ LinInterpolate(ax, ayy, bx, byy, c) = v(ayy, byy)
    BY LineFrom
<1> SUFFICES v(ay, by) <= v(ayy, byy)
    BY <1>1
<1> USE DEF Line
<1>2. CASE ax = bx
    <2>1. (ay + by) \div 2 <= (ayy + byy) \div 2
        BY QuotientOrder
    <2>2. QED
        BY <1>2, <2>1
<1>3. CASE ax # bx /\ ax <= c /\ c <= bx
    <2> DEFINE n == bx - ax
               t == c - ax
    <2>1. n \in Nat /\ n > 0 /\ t \in Nat /\ n - t \in Nat
        BY <1>3
    <2>2. /\ v(ay, by) = ay + ((by - ay) * t) \div n
          /\ v(ayy, byy) = ayy + ((byy - ayy) * t) \div n
        BY <1>3
    <2> HIDE DEF n, t
    <2>3. /\ v(ay, by) = (ay * (n - t) + by * t) \div n
          /\ v(ayy, byy) = (ayy * (n - t) + byy * t) \div n
        BY <2>1, <2>2, WeightedMean
    <2>4. /\ ay * (n - t) + by * t \in Int /\ ayy * (n - t) + byy * t \in Int
          /\ ay * (n - t) + by * t <= ayy * (n - t) + byy * t
        BY <2>1, ProductOrder
    <2>5. QED
        BY <2>1, <2>3, <2>4, QuotientOrder
<1>4. CASE ax # bx /\ ~(ax <= c /\ c <= bx)
    BY <1>4
<1>5. QED
    BY <1>2, <1>3, <1>4

\* Along a rising line the values rise.
LEMMA InterpolationRises ==
    ASSUME NEW ax \in Int, NEW bx \in Int, NEW ay \in Int, NEW by \in Int,
           NEW c \in Int, NEW cc \in Int, ax <= bx, ay <= by, c <= cc
    PROVE  LinInterpolate(ax, ay, bx, by, c) <= LinInterpolate(ax, ay, bx, by, cc)
<1> DEFINE v(x) == Line(ax, ay, bx, by, x)
<1>1. \A x \in Int : LinInterpolate(ax, ay, bx, by, x) = v(x)
    BY LineFrom
<1> SUFFICES v(c) <= v(cc)
    BY <1>1
<1>2. \A x \in Int : v(x) \in ay .. by
    <2> SUFFICES ASSUME NEW x \in Int PROVE v(x) \in ay .. by
        OBVIOUS
    <2>1. ay <= ay /\ by <= by
        OBVIOUS
    <2>2. QED
        BY <1>1, <2>1, InterpolationBetween
<1> USE DEF Line
<1>3. CASE ax = bx
    <2>1. (ay + by) \div 2 \in Int
        OBVIOUS
    <2>2. QED
        BY <1>3, <2>1
<1>4. CASE ax # bx /\ ~(ax <= c /\ c <= bx /\ ax <= cc /\ cc <= bx)
    BY <1>2, <1>4
<1>5. CASE ax # bx /\ ax <= c /\ c <= bx /\ ax <= cc /\ cc <= bx
    <2> DEFINE n == bx - ax
               d == by - ay
    <2>1. n \in Nat /\ n > 0 /\ d \in Nat /\ c - ax \in Int /\ cc - ax \in Int
          /\ c - ax <= cc - ax
        BY <1>5
    <2>2. /\ v(c) = ay + (d * (c - ax)) \div n
          /\ v(cc) = ay + (d * (cc - ax)) \div n
        BY <1>5
    <2> HIDE DEF n, d
    <2>3. (c - ax) * d <= (cc - ax) * d
        BY <2>1, ProductOrder
    <2>4. d * (c - ax) \in Int /\ d * (cc - ax) \in Int /\ d * (c - ax) <= d * (cc - ax)
        BY <2>1, <2>3
    <2>5. QED
        BY <2>1, <2>2, <2>4, QuotientOrder
<1>6. QED
    BY <1>3, <1>4, <1>5

-------------------------------------------------------------------------------
(* Interpolation in a table.                                                 *)

\* The keys between which InterpolatingDataIndex interpolates.
LowKey(S, k) ==
    LET below == {x \in S : x <= k}
        above == {x \in S : x >= k}
    IN  IF below = {} THEN Min(above) ELSE Max(below)
HighKey(S, k) ==
    LET below == {x \in S : x <= k}
        above == {x \in S : x >= k}
    IN  IF above = {} THEN Max(below) ELSE Min(above)

Keys(S) == S \in SUBSET Int /\ S # {} /\ IsFiniteSet(S)

LEMMA InterpolatedByKeys ==
    ASSUME NEW S, NEW v \in [S -> Int], NEW k
    PROVE  Interpolated(v, k) =
               LinInterpolate(LowKey(S, k), v[LowKey(S, k)],
                              HighKey(S, k), v[HighKey(S, k)], k)
<1>1. DOMAIN v = S
    OBVIOUS
<1>2. QED
    BY <1>1 DEF Interpolated, LowKey, HighKey

\* They are the nearest on both sides, or the nearest of all.
LEMMA KeyFacts ==
    ASSUME NEW S, NEW k \in Int, Keys(S)
    PROVE  /\ LowKey(S, k) \in S /\ HighKey(S, k) \in S
           /\ LowKey(S, k) \in Int /\ HighKey(S, k) \in Int
           /\ LowKey(S, k) <= HighKey(S, k)
           /\ \A x \in S : x <= k => x <= LowKey(S, k)
           /\ \A x \in S : x >= k => HighKey(S, k) <= x
           /\ \/ LowKey(S, k) <= k
              \/ LowKey(S, k) = HighKey(S, k) /\ \A x \in S : LowKey(S, k) <= x
           /\ \/ k <= HighKey(S, k)
              \/ LowKey(S, k) = HighKey(S, k) /\ \A x \in S : x <= HighKey(S, k)
<1> DEFINE below == {x \in S : x <= k}
           above == {x \in S : x >= k}
           low == LowKey(S, k)
           high == HighKey(S, k)
<1>1. /\ low = IF below = {} THEN Min(above) ELSE Max(below)
      /\ high = IF above = {} THEN Max(below) ELSE Min(above)
    BY DEF LowKey, HighKey
<1>2. /\ S \subseteq Int /\ S # {} /\ below \in SUBSET S /\ above \in SUBSET S
      /\ below \in SUBSET Int /\ above \in SUBSET Int
    BY DEF Keys
<1>3. IsFiniteSet(below) /\ IsFiniteSet(above)
    BY <1>2, FS_Subset DEF Keys
<1>4. \A x \in S : x \in Int /\ (x \in below <=> x <= k) /\ (x \in above <=> x >= k)
    BY <1>2
<1> HIDE DEF below, above, low, high
<1>5. below # {} => Max(below) \in below /\ \A x \in below : Max(below) >= x
    BY <1>2, <1>3, MaxFacts
<1>6. above # {} => Min(above) \in above /\ \A x \in above : Min(above) <= x
    BY <1>2, <1>3, MinFacts
<1>7. \A x \in S : x \in below \/ x \in above
    BY <1>4
<1>8. \A x \in below : x \in S
    BY <1>2
<1>9. \A x \in above : x \in S
    BY <1>2
<1>10. CASE below = {}
    <2>1. above # {} /\ low = Min(above) /\ high = Min(above)
        BY <1>1, <1>2, <1>7, <1>10
    <2>2. QED
        BY <2>1, <1>4, <1>6, <1>7, <1>9, <1>10 DEF low, high
<1>11. CASE above = {}
    <2>1. below # {} /\ low = Max(below) /\ high = Max(below)
        BY <1>1, <1>2, <1>7, <1>11
    <2>2. QED
        BY <2>1, <1>4, <1>5, <1>7, <1>8, <1>11 DEF low, high
<1>12. CASE below # {} /\ above # {}
    <2>1. low \in below /\ high \in above /\ low \in S /\ high \in S
          /\ (\A x \in below : low >= x) /\ (\A x \in above : high <= x)
        BY <1>1, <1>5, <1>6, <1>8, <1>9, <1>12
    <2>2. QED
        BY <2>1, <1>4 DEF low, high
<1>13. QED
    BY <1>10, <1>11, <1>12

\* An interpolated value lies within the values of the table, also where the key
\* does not lie between any two of its.
LEMMA InterpolatedBetween ==
    ASSUME NEW S, NEW v \in [S -> Int], NEW k \in Int, NEW low \in Int, NEW high \in Int,
           Keys(S), \A x \in S : low <= v[x] /\ v[x] <= high
    PROVE  Interpolated(v, k) \in low .. high
<1> DEFINE l == LowKey(S, k)
           h == HighKey(S, k)
<1>1. l \in S /\ h \in S /\ l \in Int /\ h \in Int
    BY KeyFacts
<1>2. Interpolated(v, k) = LinInterpolate(l, v[l], h, v[h], k)
    BY InterpolatedByKeys
<1> HIDE DEF l, h
<1>3. /\ v[l] \in Int /\ v[h] \in Int
      /\ low <= v[l] /\ v[l] <= high /\ low <= v[h] /\ v[h] <= high
    BY <1>1
<1>4. LinInterpolate(l, v[l], h, v[h], k) \in low .. high
    BY <1>1, <1>3, InterpolationBetween
<1>5. QED
    BY <1>2, <1>4

\* Larger values in the whole table give a larger interpolated value.
LEMMA InterpolatedKeepsOrder ==
    ASSUME NEW S, NEW v \in [S -> Int], NEW w \in [S -> Int], NEW k \in Int,
           Keys(S), \A x \in S : v[x] <= w[x]
    PROVE  Interpolated(v, k) <= Interpolated(w, k)
<1> DEFINE l == LowKey(S, k)
           h == HighKey(S, k)
<1>1. l \in S /\ h \in S /\ l \in Int /\ h \in Int /\ l <= h
    BY KeyFacts
<1>2. /\ Interpolated(v, k) = LinInterpolate(l, v[l], h, v[h], k)
      /\ Interpolated(w, k) = LinInterpolate(l, w[l], h, w[h], k)
    BY InterpolatedByKeys
<1> HIDE DEF l, h
<1>3. /\ v[l] \in Int /\ v[h] \in Int /\ w[l] \in Int /\ w[h] \in Int
      /\ v[l] <= w[l] /\ v[h] <= w[h]
    BY <1>1
<1>4. LinInterpolate(l, v[l], h, v[h], k) <= LinInterpolate(l, w[l], h, w[h], k)
    BY <1>1, <1>3, InterpolationKeepsOrder
<1>5. QED
    BY <1>2, <1>4

\* In a table whose values rise with its keys, so do the interpolated ones.
LEMMA InterpolatedRises ==
    ASSUME NEW S, NEW v \in [S -> Int], NEW k \in Int, NEW kk \in Int,
           Keys(S), \A x, y \in S : x <= y => v[x] <= v[y], k <= kk
    PROVE  Interpolated(v, k) <= Interpolated(v, kk)
<1> DEFINE l == LowKey(S, k)
           h == HighKey(S, k)
           ll == LowKey(S, kk)
           hh == HighKey(S, kk)
<1>1. /\ l \in S /\ h \in S /\ l \in Int /\ h \in Int /\ l <= h
      /\ (\A x \in S : x <= k => x <= l) /\ (\A x \in S : x >= k => h <= x)
      /\ l <= k \/ (l = h /\ \A x \in S : l <= x)
      /\ k <= h \/ (l = h /\ \A x \in S : x <= h)
    BY KeyFacts
<1>2. /\ ll \in S /\ hh \in S /\ ll \in Int /\ hh \in Int /\ ll <= hh
      /\ (\A x \in S : x <= kk => x <= ll) /\ (\A x \in S : x >= kk => hh <= x)
      /\ ll <= kk \/ (ll = hh /\ \A x \in S : ll <= x)
      /\ kk <= hh \/ (ll = hh /\ \A x \in S : x <= hh)
    BY KeyFacts
<1>3. /\ Interpolated(v, k) = LinInterpolate(l, v[l], h, v[h], k)
      /\ Interpolated(v, kk) = LinInterpolate(ll, v[ll], hh, v[hh], kk)
    BY InterpolatedByKeys
<1> HIDE DEF l, h, ll, hh
<1>4. /\ v[l] \in Int /\ v[h] \in Int /\ v[ll] \in Int /\ v[hh] \in Int
      /\ v[l] <= v[h] /\ v[ll] <= v[hh]
    BY <1>1, <1>2
<1>5. /\ LinInterpolate(l, v[l], h, v[h], k) \in v[l] .. v[h]
      /\ LinInterpolate(ll, v[ll], hh, v[hh], kk) \in v[ll] .. v[hh]
    <2>1. \A x \in Int : x <= x
        OBVIOUS
    <2>2. QED
        BY <1>1, <1>2, <1>4, <2>1, InterpolationBetween
<1>6. CASE h <= ll
    <2>1. v[h] <= v[ll]
        BY <1>1, <1>2, <1>6
    <2>2. QED
        BY <1>3, <1>4, <1>5, <2>1
<1>7. CASE ~(h <= ll)
    <2>1. l <= k /\ k <= h
        BY <1>1, <1>2, <1>7
    <2>2. l = ll
        <3>1. ll < k
            BY <1>1, <1>2, <1>7
        <3>2. QED
            BY <1>1, <1>2, <2>1, <3>1
    <2>3. h = hh
        <3>1. kk <= hh /\ kk <= h
            BY <1>1, <1>2, <1>7
        <3>2. QED
            BY <1>1, <1>2, <3>1
    <2>4. LinInterpolate(l, v[l], h, v[h], k) <= LinInterpolate(l, v[l], h, v[h], kk)
        BY <1>1, <1>4, InterpolationRises
    <2>5. QED
        BY <1>3, <2>2, <2>3, <2>4
<1>8. QED
    BY <1>6, <1>7

-------------------------------------------------------------------------------
(* Queries.                                                                  *)

Asked == [type : {"PaBias", "MinPower", "MaxPower"}, classic : BOOLEAN,
          source : Sources, freq : Int, power : Int]

\* What a table of measurements has to be for a query to make sense.
Table(points) == points \subseteq Measurement /\ points # {} /\ IsFiniteSet(points)

\* Measurements have finitely many powers, and finitely many frequencies.
LEMMA ColumnKeys ==
    ASSUME NEW points, Table(points)
    PROVE  /\ Keys(Powers(points))
           /\ Keys({p.freq : p \in points})
           /\ Keys({p.bias : p \in points})
<1>1. \A p \in points : p.power \in Int /\ p.freq \in Int /\ p.bias \in Int
    BY DEF Table, Measurement
<1>2. ASSUME NEW f \in [points -> Int]
      PROVE  Keys({f[p] : p \in points})
    <2> DEFINE T == {f[p] : p \in points}
    <2>1. T \in SUBSET Int /\ T # {}
        BY DEF Table
    <2>2. f \in Surjection(points, T)
        BY DEF Surjection
    <2>3. IsFiniteSet(points)
        BY DEF Table
    <2> HIDE DEF T
    <2>4. IsFiniteSet(T)
        BY <2>2, <2>3, FS_Surjection
    <2>5. Keys(T)
        BY <2>1, <2>4 DEF Keys
    <2>6. QED
        BY <2>5 DEF T
<1>3. Keys({[p \in points |-> p.power][x] : x \in points})
    BY <1>1, <1>2
<1>4. Keys({[p \in points |-> p.freq][x] : x \in points})
    BY <1>1, <1>2
<1>5. Keys({[p \in points |-> p.bias][x] : x \in points})
    BY <1>1, <1>2
<1>6. /\ {[p \in points |-> p.power][x] : x \in points} = Powers(points)
      /\ {[p \in points |-> p.freq][x] : x \in points} = {p.freq : p \in points}
      /\ {[p \in points |-> p.bias][x] : x \in points} = {p.bias : p \in points}
    BY DEF Powers
<1>7. QED
    BY <1>3, <1>4, <1>5, <1>6

\* Every query finds a table: the last resort has measurements.
LEMMA DataFacts == ASSUME NEW q \in Asked PROVE Table(DataFor(q))
<1>1. /\ IsFiniteSet(ClassicData) /\ ClassicData \subseteq Measurement /\ ClassicData # {}
      /\ IsFiniteSet(DirectData) /\ DirectData \subseteq Measurement
      /\ IsFiniteSet(LpfKitData) /\ LpfKitData \subseteq Measurement
    BY TableAssumption
<1>2. Table(ClassicData)
    BY <1>1 DEF Table
<1>3. Table(ByDriveStrength(DirectData))
    <2>1. ByDriveStrength(DirectData) \in SUBSET DirectData
        BY DEF ByDriveStrength
    <2>2. ByDriveStrength(DirectData) # {}
        BY TableAssumption DEF ByDriveStrength
    <2>3. QED
        BY <1>1, <2>1, <2>2, FS_Subset DEF Table
<1>4. KitPoints(q) # {} => Table(KitPoints(q))
    <2>1. KitPoints(q) \in SUBSET LpfKitData
        BY DEF KitPoints, ByDriveStrength, ByBand
    <2>2. QED
        BY <1>1, <2>1, FS_Subset DEF Table
<1>5. QED
    BY <1>2, <1>3, <1>4 DEF DataFor

\* The bias that a power takes at one frequency.
BiasAt(points) == [x \in Powers(points) |-> (CHOOSE p \in points : p.power = x).bias]

LEMMA BiasAtFacts ==
    ASSUME NEW points, Table(points)
    PROVE  /\ BiasAt(points) \in [Powers(points) -> Int]
           /\ \A x \in Powers(points) :
                 \E p \in points : p.power = x /\ BiasAt(points)[x] = p.bias
<1>1. \A x \in Powers(points) :
          \E p \in points : p.power = x /\ BiasAt(points)[x] = p.bias
    <2> SUFFICES ASSUME NEW x \in Powers(points)
                 PROVE  \E p \in points : p.power = x /\ BiasAt(points)[x] = p.bias
        OBVIOUS
    <2> DEFINE c == CHOOSE p \in points : p.power = x
    <2>1. \E p \in points : p.power = x
        BY DEF Powers
    <2>2. c \in points /\ c.power = x
        BY <2>1
    <2>3. BiasAt(points)[x] = c.bias
        BY DEF BiasAt
    <2> HIDE DEF c
    <2>4. QED
        BY <2>2, <2>3
<1>2. \A p \in points : p.bias \in Int
    BY DEF Table, Measurement
<1>3. DOMAIN BiasAt(points) = Powers(points)
      /\ BiasAt(points) = [x \in Powers(points) |-> BiasAt(points)[x]]
    BY DEF BiasAt
<1>4. QED
    BY <1>1, <1>2, <1>3

\* Between bounds on all biases of a frequency lies that of every power there.
LEMMA BiasByPower ==
    ASSUME NEW points, NEW q \in Asked, NEW low \in Int, NEW high \in Int,
           Table(points), q.type = "PaBias",
           \A p \in points : low <= p.bias /\ p.bias <= high
    PROVE  ByPower(points, q) \in low .. high
<1>1. ByPower(points, q) = Interpolated(BiasAt(points), q.power)
    BY DEF ByPower, BiasAt
<1>2. Keys(Powers(points)) /\ q.power \in Int
    BY ColumnKeys DEF Asked
<1>3. \A x \in Powers(points) : low <= BiasAt(points)[x] /\ BiasAt(points)[x] <= high
    BY BiasAtFacts
<1>4. BiasAt(points) \in [Powers(points) -> Int]
    BY BiasAtFacts
<1>5. Interpolated(BiasAt(points), q.power) \in low .. high
    BY <1>2, <1>3, <1>4, InterpolatedBetween
<1>6. QED
    BY <1>1, <1>5

LEMMA BiasByPowerRises ==
    ASSUME NEW points, NEW q \in Asked, NEW r \in Asked, Table(points),
           q.type = "PaBias", r.type = "PaBias", q.power <= r.power,
           \A a, b \in points : a.power <= b.power => a.bias <= b.bias
    PROVE  ByPower(points, q) <= ByPower(points, r)
<1>1. /\ ByPower(points, q) = Interpolated(BiasAt(points), q.power)
      /\ ByPower(points, r) = Interpolated(BiasAt(points), r.power)
    BY DEF ByPower, BiasAt
<1>2. Keys(Powers(points)) /\ q.power \in Int /\ r.power \in Int
    BY ColumnKeys DEF Asked
<1>3. \A x, y \in Powers(points) : x <= y => BiasAt(points)[x] <= BiasAt(points)[y]
    <2> SUFFICES ASSUME NEW x \in Powers(points), NEW y \in Powers(points), x <= y
                 PROVE  BiasAt(points)[x] <= BiasAt(points)[y]
        OBVIOUS
    <2>1. PICK a \in points : a.power = x /\ BiasAt(points)[x] = a.bias
        BY BiasAtFacts
    <2>2. PICK b \in points : b.power = y /\ BiasAt(points)[y] = b.bias
        BY BiasAtFacts
    <2>3. QED
        BY <2>1, <2>2
<1>4. QED
    BY <1>1, <1>2, <1>3, BiasAtFacts, InterpolatedRises

\* What a query for a bias finds at the frequency f.
At(points, f) == {p \in points : p.freq = f}
BiasPerFreq(points, q) == [f \in {p.freq : p \in points} |-> ByPower(At(points, f), q)]

LEMMA AtFacts ==
    ASSUME NEW points, Table(points)
    PROVE  \A f \in {p.freq : p \in points} : Table(At(points, f))
<1> SUFFICES ASSUME NEW f \in {p.freq : p \in points} PROVE Table(At(points, f))
    OBVIOUS
<1>1. At(points, f) \in SUBSET points /\ At(points, f) # {}
    BY DEF At
<1>2. QED
    BY <1>1, FS_Subset DEF Table

\* Between bounds on all biases of a table lies every bias that is found in it.
LEMMA BiasByFrequency ==
    ASSUME NEW points, NEW q \in Asked, NEW low \in Int, NEW high \in Int,
           Table(points), q.type = "PaBias",
           \A p \in points : low <= p.bias /\ p.bias <= high
    PROVE  /\ ByFrequency(points, q) \in low .. high
           /\ BiasPerFreq(points, q) \in [{p.freq : p \in points} -> Int]
<1> DEFINE S == {p.freq : p \in points}
           v == BiasPerFreq(points, q)
<1>1. ByFrequency(points, q) = Interpolated(v, q.freq) /\ q.freq \in Int
    BY DEF ByFrequency, BiasPerFreq, At, Asked
<1>2. \A f \in S : ByPower(At(points, f), q) \in low .. high
    <2> SUFFICES ASSUME NEW f \in S PROVE ByPower(At(points, f), q) \in low .. high
        OBVIOUS
    <2>1. Table(At(points, f))
        BY AtFacts
    <2>2. \A p \in At(points, f) : low <= p.bias /\ p.bias <= high
        BY DEF At
    <2>3. QED
        BY <2>1, <2>2, BiasByPower
<1>3. v \in [S -> Int] /\ \A f \in S : low <= v[f] /\ v[f] <= high
    <2> HIDE DEF S
    <2>1. v = [f \in S |-> ByPower(At(points, f), q)]
        BY DEF BiasPerFreq, S
    <2> HIDE DEF v
    <2>2. QED
        BY <1>2, <2>1
<1>4. Keys(S)
    BY ColumnKeys
<1> HIDE DEF S, v
<1>5. Interpolated(v, q.freq) \in low .. high
    BY <1>1, <1>3, <1>4, InterpolatedBetween
<1>6. QED
    BY <1>1, <1>3, <1>5 DEF S, v

LEMMA BiasByFrequencyRises ==
    ASSUME NEW points, NEW q \in Asked, NEW r \in Asked, NEW low \in Int, NEW high \in Int,
           Table(points), MoreTakesMore(points),
           \A p \in points : low <= p.bias /\ p.bias <= high,
           q.type = "PaBias", r.type = "PaBias", q.power <= r.power, q.freq = r.freq
    PROVE  ByFrequency(points, q) <= ByFrequency(points, r)
<1> DEFINE S == {p.freq : p \in points}
           v == BiasPerFreq(points, q)
           w == BiasPerFreq(points, r)
<1>1. /\ ByFrequency(points, q) = Interpolated(v, q.freq)
      /\ ByFrequency(points, r) = Interpolated(w, q.freq) /\ q.freq \in Int
    BY DEF ByFrequency, BiasPerFreq, At, Asked
<1>2. v \in [S -> Int] /\ w \in [S -> Int] /\ Keys(S)
    BY BiasByFrequency, ColumnKeys
<1>3. \A f \in S : v[f] <= w[f]
    <2> SUFFICES ASSUME NEW f \in S PROVE v[f] <= w[f]
        OBVIOUS
    <2>1. Table(At(points, f))
        BY AtFacts
    <2>2. \A a, b \in At(points, f) : a.power <= b.power => a.bias <= b.bias
        BY DEF At, MoreTakesMore
    <2>3. ByPower(At(points, f), q) <= ByPower(At(points, f), r)
        BY <2>1, <2>2, BiasByPowerRises
    <2>4. v[f] = ByPower(At(points, f), q) /\ w[f] = ByPower(At(points, f), r)
        BY DEF BiasPerFreq
    <2>5. QED
        BY <2>3, <2>4
<1> HIDE DEF S, v, w
<1>4. Interpolated(v, q.freq) <= Interpolated(w, q.freq)
    BY <1>1, <1>2, <1>3, InterpolatedKeepsOrder
<1>5. QED
    BY <1>1, <1>4

\* A bias is rounded by at most half a unit, and rounding keeps the order.
LEMMA RoundFacts ==
    ASSUME NEW x \in Int, NEW y \in Int
    PROVE  /\ Round(x, 10) \in Int
           /\ x - 5 <= 10 * Round(x, 10) /\ 10 * Round(x, 10) <= x + 5
           /\ x <= y => Round(x, 10) <= Round(y, 10)
BY DEF Round

\* Bounds on the biases of the table bound every bias.
LEMMA BiasFacts ==
    ASSUME NEW q \in Asked
    PROVE  /\ GetBias(q) \in Int
           /\ 10 * GetBias(q) \in Min({p.bias : p \in DataFor(q)}) - 5
                                   .. Max({p.bias : p \in DataFor(q)}) + 5
<1> DEFINE r == [q EXCEPT !.type = "PaBias"]
           biases == {p.bias : p \in DataFor(q)}
           x == ByFrequency(DataFor(q), r)
<1>1. r \in Asked /\ r.type = "PaBias"
    BY DEF Asked
<1>2. Table(DataFor(q)) /\ Keys(biases)
    BY DataFacts, ColumnKeys
<1>3. GetBias(q) = Round(x, 10)
    BY DEF GetBias
<1>4. \A p \in DataFor(q) : p.bias \in biases
    OBVIOUS
<1> HIDE DEF r, biases
<1>5. /\ Min(biases) \in biases /\ \A b \in biases : Min(biases) <= b
      /\ Max(biases) \in biases /\ \A b \in biases : Max(biases) >= b
      /\ Min(biases) \in Int /\ Max(biases) \in Int /\ biases \subseteq Int
    BY <1>2, MinFacts, MaxFacts DEF Keys
<1>6. \A p \in DataFor(q) : Min(biases) <= p.bias /\ p.bias <= Max(biases)
    BY <1>4, <1>5
<1>7. x \in Min(biases) .. Max(biases)
    BY <1>1, <1>2, <1>5, <1>6, BiasByFrequency
<1> HIDE DEF x
<1>8. x \in Int /\ Min(biases) <= x /\ x <= Max(biases)
    BY <1>5, <1>7
<1>9. Round(x, 10) \in Int /\ x - 5 <= 10 * Round(x, 10) /\ 10 * Round(x, 10) <= x + 5
    BY <1>8, RoundFacts
<1>10. QED
    BY <1>3, <1>5, <1>8, <1>9 DEF biases

\* Biases stay within the table, and more power never takes less bias, whatever
\* is asked of whatever tables, if that is so at each frequency of the tables, at
\* the drive strength that is used (PaBias_impl.hpp:51-200, MathUtil.cpp:5-30).
THEOREM EveryBiasWithinTable ==
    ASSUME TablesRise, NEW q \in Asked, NEW more \in Nat
    PROVE  BiasWithinTable(q, more)
<1> DEFINE points == DataFor(q)
           a == [q EXCEPT !.type = "PaBias"]
           m == [q EXCEPT !.power = q.power + more]
           b == [m EXCEPT !.type = "PaBias"]
<1>1. /\ a \in Asked /\ b \in Asked /\ m \in Asked /\ a.type = "PaBias" /\ b.type = "PaBias"
      /\ a.power <= b.power /\ a.freq = b.freq
    <2>1. q.power \in Int /\ q.power + more \in Int /\ q.power <= q.power + more
        BY DEF Asked
    <2>2. m \in Asked /\ m.freq = q.freq /\ m.power = q.power + more
        BY <2>1 DEF Asked
    <2>3. a \in Asked /\ a.type = "PaBias" /\ a.freq = q.freq /\ a.power = q.power
        BY DEF Asked
    <2> HIDE DEF a, m
    <2>4. b \in Asked /\ b.type = "PaBias" /\ b.freq = m.freq /\ b.power = m.power
        BY <2>2 DEF Asked
    <2> HIDE DEF b
    <2>5. QED
        BY <2>1, <2>2, <2>3, <2>4
<1>2. DataFor(m) = points
    <2>1. m.classic = q.classic /\ m.source = q.source /\ m.freq = q.freq
        BY DEF Asked
    <2> HIDE DEF m
    <2>2. QED
        BY <2>1 DEF DataFor, UsesKit, KitPoints, ByBand
<1>3. MoreTakesMore(points)
    <2>1. \A s, t : MoreTakesMore(s) /\ t \subseteq s => MoreTakesMore(t)
        BY DEF MoreTakesMore
    <2>2. KitPoints(q) \subseteq ByDriveStrength(LpfKitData)
        BY DEF ByDriveStrength, KitPoints, ByBand
    <2>3. QED
        BY <2>1, <2>2 DEF DataFor, TablesRise
<1>4. Table(points) /\ Keys({p.bias : p \in points})
    BY DataFacts, ColumnKeys
<1> DEFINE low == Min({p.bias : p \in points})
           high == Max({p.bias : p \in points})
<1>5. low \in Int /\ high \in Int /\ \A p \in points : low <= p.bias /\ p.bias <= high
    <2> DEFINE biases == {p.bias : p \in points}
    <2>1. \A p \in points : p.bias \in biases
        OBVIOUS
    <2> HIDE DEF biases
    <2>2. biases \subseteq Int
        BY <1>4 DEF Keys, biases
    <2>3. QED
        BY <1>4, <2>1, <2>2, MinFacts, MaxFacts DEF Keys, biases
<1>6. GetBias(q) = Round(ByFrequency(points, a), 10) /\ GetBias(m) = Round(ByFrequency(points, b), 10)
    BY <1>2 DEF GetBias
<1> HIDE DEF points, a, b, m, low, high
<1>7. ByFrequency(points, a) \in Int /\ ByFrequency(points, b) \in Int
    <2>1. ByFrequency(points, a) \in low .. high /\ ByFrequency(points, b) \in low .. high
        BY <1>1, <1>4, <1>5, BiasByFrequency
    <2>2. QED
        BY <1>5, <2>1
<1>8. ByFrequency(points, a) <= ByFrequency(points, b)
    BY <1>1, <1>3, <1>4, <1>5, BiasByFrequencyRises
<1>9. GetBias(q) <= GetBias(m)
    BY <1>6, <1>7, <1>8, RoundFacts
<1>10. QED
    BY <1>9, BiasFacts DEF BiasWithinTable, m

===============================================================================
