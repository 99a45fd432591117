-------------------------- MODULE Calculations_proofs --------------------------
(***************************************************************************)
(* Proofs about the calculations: the batches of Timeslots for any number  *)
(* of slots and any random numbers, the frequencies of WsprBand, the       *)
(* biases of PaBias for all tables of measurements, the order of Version   *)
(* for all versions, the messages that Framing delivers from any line that *)
(* damages one byte in a session, and the keys of KeyPacking for all       *)
(* integers.                                                               *)
(***************************************************************************)
EXTENDS MCCalculations, Framing, Version, PaBias_proofs, WellFoundedInduction,
        SequenceTheorems, TLAPS

Bits == 0 .. 4

\* So many transmissions in a batch are the rate's share, rounded up or down.
Share(n) == 100 * n < 5 * rate + 100 /\ 100 * n > 5 * rate - 100

\* A new batch begins at slot b.
BatchBegin(b) == \E k \in Nat : b = 1 + 5 * k

FairBefore(b, slots) ==
    \A k \in Nat : 1 + 5 * k + 5 <= b => Share(Cardinality(slots \cap Batch(k)))

SlotsInv ==
    /\ rate \in 0 .. 100
    /\ slot = 0 \/ BatchBegin(slot)
    /\ \A s \in printed : s \in Nat /\ s < slot
    /\ txSlots \subseteq Bits
    /\ count \in Nat
    /\ freeSpaces \in Nat /\ freeSpaces + Cardinality(txSlots) = BatchSize
    /\ allocating \in BOOLEAN
    /\ allocating => BatchBegin(slot) /\ Share(count + Cardinality(txSlots))
    /\ FairBefore(slot, printed)

-------------------------------------------------------------------------------
(* Free spaces.                                                              *)

LEMMA AllBits == IsFiniteSet(Bits) /\ Cardinality(Bits) = 5
<1>1. 0 \in Int /\ 4 \in Int
    OBVIOUS
<1>2. IsFiniteSet(0 .. 4) /\ Cardinality(0 .. 4) = IF 0 > 4 THEN 0 ELSE 4 - 0 + 1
    BY <1>1, FS_Interval, Zenon
<1>3. (IF 0 > 4 THEN 0 ELSE 4 - 0 + 1) = 5
    OBVIOUS
<1>4. QED
    BY <1>2, <1>3 DEF Bits

LEMMA BitsFinite ==
    ASSUME NEW S \in SUBSET Bits
    PROVE  IsFiniteSet(S) /\ Cardinality(S) \in Nat /\ Cardinality(S) <= 5
<1>1. IsFiniteSet(Bits) /\ Cardinality(Bits) = 5
    BY AllBits
<1>2. IsFiniteSet(S) /\ Cardinality(S) <= 5
    BY <1>1, FS_Subset
<1>3. QED
    BY <1>2, FS_CardinalityType

\* The free spaces below a bit are counted bit by bit.
LEMMA FreeBelow ==
    ASSUME NEW S \in SUBSET Bits, NEW b \in Bits
    PROVE  /\ Cardinality((0 .. b - 1) \ S) \in Nat
           /\ Cardinality((0 .. (b + 1) - 1) \ S) =
                  Cardinality((0 .. b - 1) \ S) + (IF b \in S THEN 0 ELSE 1)
<1> DEFINE T == (0 .. b - 1) \ S
           U == (0 .. (b + 1) - 1) \ S
<1>1. T \in SUBSET Bits /\ b \notin T
    BY DEF Bits
<1>2. U = IF b \in S THEN T ELSE T \cup {b}
    BY DEF Bits
<1> HIDE DEF T, U
<1>3. IsFiniteSet(T) /\ Cardinality(T) \in Nat
    BY <1>1, BitsFinite
<1>4. Cardinality(T \cup {b}) = Cardinality(T) + 1
    BY <1>1, <1>3, FS_AddElement
<1>5. Cardinality(U) = Cardinality(T) + (IF b \in S THEN 0 ELSE 1)
    BY <1>2, <1>3, <1>4
<1>6. QED
    BY <1>3, <1>5 DEF T, U

\* Selected(n) is one bit that was free, as long as there are more than n.
LEMMA SelectedOne ==
    ASSUME txSlots \subseteq Bits, NEW n \in Nat, n < 5 - Cardinality(txSlots)
    PROVE  \E bit \in Bits \ txSlots : Selected(n) = {bit}
<1> DEFINE below(b) == Cardinality((0 .. b - 1) \ txSlots)
           free(b) == IF b \in txSlots THEN 0 ELSE 1
<1>1. /\ \A b \in Bits : below(b) \in Nat
      /\ below(1) = below(0) + free(0) /\ below(2) = below(1) + free(1)
      /\ below(3) = below(2) + free(2) /\ below(4) = below(3) + free(3)
      /\ below(5) = below(4) + free(4)
    <2>1. \A b \in Bits : below(b) \in Nat /\ below(b + 1) = below(b) + free(b)
        BY FreeBelow
    <2> HIDE DEF below, free
    <2>2. 0 \in Bits /\ 1 \in Bits /\ 2 \in Bits /\ 3 \in Bits /\ 4 \in Bits
        BY DEF Bits
    <2>3. below(0 + 1) = below(0) + free(0) /\ below(1 + 1) = below(1) + free(1)
          /\ below(2 + 1) = below(2) + free(2) /\ below(3 + 1) = below(3) + free(3)
          /\ below(4 + 1) = below(4) + free(4)
        BY <2>1, <2>2, Zenon
    <2>4. 0 + 1 = 1 /\ 1 + 1 = 2 /\ 2 + 1 = 3 /\ 3 + 1 = 4 /\ 4 + 1 = 5
        OBVIOUS
    <2>5. QED
        BY <2>1, <2>3, <2>4, Zenon
<1>2. below(0) = 0
    <2>1. (0 .. 0 - 1) \ txSlots = {}
        OBVIOUS
    <2>2. QED
        BY <2>1, FS_EmptySet
<1>3. below(5) = 5 - Cardinality(txSlots)
    <2> DEFINE rest == (0 .. 5 - 1) \ txSlots
    <2>0. 5 - 1 = 4
        OBVIOUS
    <2>1. rest \in SUBSET Bits /\ rest \cup txSlots = Bits /\ rest \cap txSlots = {}
        BY <2>0, Zenon DEF Bits
    <2>2. Cardinality(Bits) = 5
        BY AllBits
    <2> HIDE DEF rest
    <2>3. IsFiniteSet(rest) /\ IsFiniteSet(txSlots)
          /\ Cardinality(rest) \in Nat /\ Cardinality(txSlots) \in Nat
        BY <2>1, BitsFinite
    <2>4. Cardinality(Bits) = Cardinality(rest) + Cardinality(txSlots) - 0
        <3>1. Cardinality(rest \cap txSlots) = 0
            BY <2>1, FS_EmptySet
        <3>2. Cardinality(rest \cup txSlots) =
                  Cardinality(rest) + Cardinality(txSlots) - Cardinality(rest \cap txSlots)
            BY <2>3, FS_Union, Zenon
        <3>3. QED
            BY <2>1, <3>1, <3>2, Zenon
    <2>5. Cardinality(rest) = 5 - Cardinality(txSlots)
        BY <2>2, <2>3, <2>4
    <2>6. QED
        BY <2>5 DEF rest
<1>4. Selected(n) = {b \in Bits : b \notin txSlots /\ below(b) = n}
    BY DEF Selected, Bits, BatchSize
<1>5. \A b \in Bits : b \in {0, 1, 2, 3, 4}
    BY DEF Bits
<1>6. \A b \in {0, 1, 2, 3, 4} : b \in Bits /\ free(b) = IF b \in txSlots THEN 0 ELSE 1
    BY DEF Bits
<1>7. below(0) \in Nat /\ below(1) \in Nat /\ below(2) \in Nat /\ below(3) \in Nat
      /\ below(4) \in Nat
    BY <1>1, <1>6
<1> HIDE DEF below, free
<1>8. \E b \in {0, 1, 2, 3, 4} :
          /\ b \notin txSlots /\ below(b) = n
          /\ \A c \in {0, 1, 2, 3, 4} : c \notin txSlots /\ below(c) = n => c = b
    BY <1>1, <1>2, <1>3, <1>6, <1>7
<1>9. QED
    BY <1>4, <1>5, <1>6, <1>8

-------------------------------------------------------------------------------
(* Batches of time slots.                                                    *)

\* rng_chance decides between the two whole numbers next to the share.
LEMMA BatchShare ==
    ASSUME rate \in 0 .. 100, NEW yes \in BOOLEAN, Chance((BatchSize * rate) % 100, yes),
           NEW whole, whole = (BatchSize * rate) \div 100 + (IF yes THEN 1 ELSE 0)
    PROVE  whole \in 0 .. BatchSize /\ Share(whole)
<1> DEFINE q == (BatchSize * rate) \div 100
           r == (BatchSize * rate) % 100
<1>1. q \in Nat /\ r \in 0 .. 99 /\ 5 * rate = 100 * q + r
    BY DEF BatchSize
<1>2. yes => r > 0
    BY DEF Chance
<1>3. whole = q + (IF yes THEN 1 ELSE 0)
    OBVIOUS
<1> HIDE DEF q, r
<1>4. rate \in Nat /\ rate <= 100
    OBVIOUS
<1>5. QED
    BY <1>1, <1>2, <1>3, <1>4 DEF Share, BatchSize

LEMMA BeginStep ==
    ASSUME SlotsInv, NEW yes \in BOOLEAN, BeginBatch(yes)
    PROVE  SlotsInv'
<1>1. /\ UNCHANGED <<rate, slot, printed>> /\ txSlots' = {} /\ freeSpaces' = 5
      /\ allocating' = TRUE /\ BatchBegin(slot)
    BY DEF BeginBatch, SlotsInv, BatchSize
<1>2. count' \in Nat /\ Share(count')
    <2> DEFINE whole == (BatchSize * rate) \div 100 + (IF yes THEN 1 ELSE 0)
    <2>1. Chance((BatchSize * rate) % 100, yes)
          /\ count' = IF whole > BatchSize THEN BatchSize ELSE whole
        BY DEF BeginBatch
    <2>2. whole \in 0 .. BatchSize /\ Share(whole)
        BY <2>1, BatchShare DEF SlotsInv
    <2> HIDE DEF whole
    <2>3. count' = whole
        BY <2>1, <2>2 DEF BatchSize
    <2>4. QED
        BY <2>2, <2>3 DEF BatchSize
<1>3. Cardinality(txSlots') = 0 /\ txSlots' \subseteq Bits
    BY <1>1, FS_EmptySet
<1>4. Share(count' + Cardinality(txSlots'))
    BY <1>2, <1>3
<1>5. Share(count + Cardinality(txSlots))' /\ BatchBegin(slot)' /\ FairBefore(slot, printed)'
    BY <1>1, <1>4 DEF SlotsInv, Share, BatchBegin, FairBefore, Batch
<1>6. QED
    BY <1>1, <1>2, <1>3, <1>5 DEF SlotsInv, BatchSize

LEMMA SelectStep ==
    ASSUME SlotsInv, NEW n \in 0 .. BatchSize - 1, Select(n)
    PROVE  SlotsInv'
<1>1. /\ UNCHANGED <<rate, slot, printed, allocating>> /\ allocating
      /\ txSlots' = txSlots \cup Selected(n) /\ n < freeSpaces
      /\ count' = count - 1 /\ count > 0 /\ freeSpaces' = freeSpaces - 1
    BY DEF Select
<1>2. /\ txSlots \subseteq Bits /\ count \in Nat /\ n \in Nat
      /\ freeSpaces + Cardinality(txSlots) = 5 /\ freeSpaces \in Nat
    BY DEF SlotsInv, BatchSize
<1>3. IsFiniteSet(txSlots) /\ Cardinality(txSlots) \in Nat
    BY <1>2, BitsFinite
<1>4. PICK bit \in Bits \ txSlots : Selected(n) = {bit}
    <2>1. n < 5 - Cardinality(txSlots)
        BY <1>1, <1>2, <1>3
    <2>2. QED
        BY <1>2, <2>1, SelectedOne
<1>5. Cardinality(txSlots') = Cardinality(txSlots) + 1 /\ txSlots' \subseteq Bits
    BY <1>1, <1>2, <1>3, <1>4, FS_AddElement
<1>6. /\ count' \in Nat /\ freeSpaces' \in Nat /\ freeSpaces' + Cardinality(txSlots') = 5
      /\ count' + Cardinality(txSlots') = count + Cardinality(txSlots)
    BY <1>1, <1>2, <1>3, <1>5
<1>7. Share(count + Cardinality(txSlots))' /\ BatchBegin(slot)' /\ FairBefore(slot, printed)'
    BY <1>1, <1>6 DEF SlotsInv, Share, BatchBegin, FairBefore, Batch
<1>8. QED
    BY <1>1, <1>5, <1>6, <1>7 DEF SlotsInv, BatchSize

\* Printing a batch prints one slot per bit.
LEMMA PrintedCount ==
    ASSUME NEW S \in SUBSET Bits, NEW b \in Nat
    PROVE  Cardinality({b + bit : bit \in S}) = Cardinality(S)
<1> DEFINE T == {b + bit : bit \in S}
           f == [bit \in S |-> b + bit]
<1>1. \A x \in S : x \in Int
    BY DEF Bits
<1>2. f \in Bijection(S, T)
    <2>1. f \in [S -> T]
        OBVIOUS
    <2>2. \A x, y \in S : f[x] = f[y] => x = y
        <3>1. \A x \in S : f[x] = b + x
            OBVIOUS
        <3> HIDE DEF f
        <3> SUFFICES ASSUME NEW x \in S, NEW y \in S, f[x] = f[y] PROVE x = y
            OBVIOUS
        <3>2. x \in Int /\ y \in Int /\ b + x = b + y
            BY <1>1, <3>1
        <3>3. QED
            BY <3>2
    <2>3. \A t \in T : \E x \in S : f[x] = t
        OBVIOUS
    <2> HIDE DEF f, T
    <2>4. QED
        BY <2>1, <2>2, <2>3 DEF Bijection, Injection, Surjection, IsInjective
<1> HIDE DEF f, T
<1>3. ExistsBijection(S, T)
    BY <1>2 DEF ExistsBijection
<1>4. IsFiniteSet(S)
    BY BitsFinite
<1>5. Cardinality(T) = Cardinality(S)
    BY <1>3, <1>4, FS_Bijection
<1>6. QED
    BY <1>5 DEF T

LEMMA PrintStep == ASSUME SlotsInv, PrintBatch PROVE SlotsInv'
<1> DEFINE new == {slot + bit : bit \in txSlots}
<1>1. /\ UNCHANGED <<rate, txSlots, count, freeSpaces>> /\ allocating' = FALSE
      /\ slot' = slot + 5 /\ printed' = printed \cup new /\ count = 0
      /\ Share(count + Cardinality(txSlots))
    BY DEF PrintBatch, SlotsInv, BatchSize
<1>2. PICK j \in Nat : slot = 1 + 5 * j
    BY DEF PrintBatch, SlotsInv, BatchBegin
<1>3. slot \in Nat /\ slot' = 1 + 5 * (j + 1) /\ j + 1 \in Nat
    BY <1>1, <1>2
<1>4. \A s \in new : s \in Nat /\ slot <= s /\ s < slot + 5
    BY <1>3 DEF SlotsInv, Bits
<1>5. \A s \in printed : s \in Nat /\ s < slot
    BY DEF SlotsInv
<1>6. \A s \in printed' : s \in Nat /\ s < slot'
    BY <1>1, <1>3, <1>4, <1>5
<1>7. FairBefore(slot, printed)'
    <2> SUFFICES ASSUME NEW k \in Nat, 1 + 5 * k + 5 <= slot'
                 PROVE  Share(Cardinality(printed' \cap Batch(k)))
        BY <1>1 DEF FairBefore, Share, Batch, BatchSize
    <2>1. Batch(k) = 1 + 5 * k .. 5 + 5 * k
        BY DEF Batch, BatchSize
    <2>2. CASE k = j
        <3>1. printed' \cap Batch(k) = new
            <4>1. \A s \in new : s \in Batch(k)
                BY <1>2, <1>4, <2>1, <2>2
            <4>2. \A s \in printed : s \notin Batch(k)
                BY <1>2, <1>5, <2>1, <2>2
            <4> HIDE DEF new
            <4>3. QED
                BY <1>1, <4>1, <4>2
        <3>2. Cardinality(new) = Cardinality(txSlots)
            BY <1>3, PrintedCount DEF SlotsInv
        <3>3. Cardinality(txSlots) \in Nat
            BY BitsFinite DEF SlotsInv
        <3> HIDE DEF new
        <3>4. count + Cardinality(txSlots) = Cardinality(printed' \cap Batch(k))
            BY <1>1, <3>1, <3>2, <3>3
        <3>5. QED
            BY <1>1, <3>4 DEF Share
    <2>3. CASE k # j
        <3>1. k < j /\ 1 + 5 * k + 5 <= slot
            BY <1>2, <1>3, <2>3
        <3>2. printed' \cap Batch(k) = printed \cap Batch(k)
            <4>1. \A s \in new : s \notin Batch(k)
                BY <1>2, <1>4, <2>1, <3>1
            <4> HIDE DEF new
            <4>2. QED
                BY <1>1, <4>1
        <3>3. Share(Cardinality(printed \cap Batch(k)))
            BY <3>1 DEF SlotsInv, FairBefore
        <3>4. QED
            BY <1>1, <3>2, <3>3 DEF Share
    <2>4. QED
        BY <2>2, <2>3
<1>8. BatchBegin(slot)'
    BY <1>3 DEF BatchBegin
<1>9. QED
    BY <1>1, <1>6, <1>7, <1>8 DEF SlotsInv

LEMMA FirstStep == ASSUME SlotsInv, PrintFirst PROVE SlotsInv'
<1>1. /\ slot' = 1 /\ printed' = {0} /\ slot = 0
      /\ UNCHANGED <<rate, txSlots, count, freeSpaces, allocating>>
    BY DEF PrintFirst
<1>2. BatchBegin(slot)'
    <2>1. 0 \in Nat /\ slot' = 1 + 5 * 0
        BY <1>1
    <2>2. QED
        BY <2>1 DEF BatchBegin
<1>3. FairBefore(slot, printed)'
    BY <1>1 DEF FairBefore
<1>4. Share(count + Cardinality(txSlots)) <=> Share(count + Cardinality(txSlots))'
    BY <1>1 DEF Share
<1>5. QED
    BY <1>1, <1>2, <1>3, <1>4 DEF SlotsInv

LEMMA SlotsInvariant == Spec => []SlotsInv
<1>1. Init => SlotsInv
    <2> SUFFICES ASSUME Init PROVE SlotsInv
        OBVIOUS
    <2>1. /\ rate \in 0 .. 100 /\ slot = 0 /\ printed = {} /\ txSlots = {} /\ count = 0
          /\ freeSpaces = BatchSize /\ allocating = FALSE
        BY DEF Init, SlotsInit
    <2>2. Cardinality(txSlots) = 0
        BY <2>1, FS_EmptySet
    <2>3. FairBefore(slot, printed)
        BY <2>1 DEF FairBefore
    <2>4. freeSpaces \in Nat /\ freeSpaces + Cardinality(txSlots) = BatchSize
        BY <2>1, <2>2 DEF BatchSize
    <2>5. allocating \in BOOLEAN /\ ~allocating /\ count \in Nat
        BY <2>1
    <2>6. (\A s \in printed : s \in Nat /\ s < slot) /\ txSlots \subseteq Bits
        BY <2>1
    <2>7. QED
        BY <2>1, <2>3, <2>4, <2>5, <2>6, Zenon DEF SlotsInv
<1>2. ASSUME SlotsInv, [Next]_vars PROVE SlotsInv'
    <2>1. CASE PrintFirst
        BY <1>2, <2>1, FirstStep
    <2>2. CASE \E yes \in BOOLEAN : BeginBatch(yes)
        BY <1>2, <2>2, BeginStep
    <2>3. CASE \E n \in 0 .. BatchSize - 1 : Select(n)
        BY <1>2, <2>3, SelectStep
    <2>4. CASE PrintBatch
        BY <1>2, <2>4, PrintStep
    <2>5. CASE UNCHANGED vars
        BY <1>2, <2>5 DEF vars, slotVars, SlotsInv, Share, BatchBegin, FairBefore, Batch
    <2>6. QED
        BY <1>2, <2>1, <2>2, <2>3, <2>4, <2>5 DEF Next, SlotsNext
<1>3. QED
    BY <1>1, <1>2, PTL DEF Spec

\* Every batch has the share of transmissions that the rate asks for, however
\* many slots there are and whatever the random numbers (timeslotgen.c:119-160).
THEOREM EveryBatchFair == Spec => []BatchesFair
<1>1. ASSUME SlotsInv PROVE BatchesFair
    <2> SUFFICES ASSUME NEW k \in 0 .. MaxSlots \div BatchSize,
                        Batch(k) \subseteq 1 .. slot - 1
                 PROVE  Share(Cardinality(printed \cap Batch(k)))
        BY <1>1 DEF BatchesFair, SlotsInv, Share, BatchSize
    <2>1. k \in Nat
        <3>1. MaxSlots \div BatchSize \in Int
            BY SlotsAssumption DEF BatchSize
        <3>2. QED
            BY <3>1
    <2>2. Batch(k) = 1 + 5 * k .. 5 + 5 * k /\ 5 + 5 * k \in Batch(k)
        BY <2>1 DEF Batch, BatchSize
    <2>3. slot \in Nat
        BY <1>1 DEF SlotsInv, BatchBegin
    <2>4. 1 + 5 * k + 5 <= slot
        BY <2>1, <2>2, <2>3
    <2>5. QED
        BY <1>1, <2>1, <2>4 DEF SlotsInv, FairBefore
<1>2. QED
    BY <1>1, SlotsInvariant, PTL

-------------------------------------------------------------------------------
(* Pure functions.                                                           *)

\* Half the width of the generated range, and the oscillator's error, fit into
\* half a band, for every centre below 30 MHz.
LEMMA MarginFits ==
    ASSUME NEW c \in Nat, c < 30000000
    PROVE  /\ (170000000 - 2 * c) \div 1000000 \in Int /\ c \div 1000000 \in Nat
           /\ ((170000000 - 2 * c) \div 1000000) \div 2 + c \div 1000000 <= 100
<1> DEFINE w == (170000000 - 2 * c) \div 1000000
           m == c \div 1000000
<1>1. m \in Nat /\ 1000000 * m <= c
    OBVIOUS
<1>2. w \in Int /\ 1000000 * w <= 170000000 - 2 * c
    OBVIOUS
<1> HIDE DEF w, m
<1>3. w + 2 * m <= 170
    BY <1>1, <1>2
<1>4. w \div 2 \in Int /\ 2 * (w \div 2) <= w
    BY <1>2
<1>5. w \div 2 + m <= 100
    BY <1>1, <1>2, <1>3, <1>4
<1>6. QED
    BY <1>1, <1>2, <1>5 DEF w, m

\* Every frequency that the program generates is in its band, 1 ppm off included
\* on a calibrated oscillator (RandomFreqGenerator.cpp:107-134).
THEOREM GeneratedStaysInBand == Spec => []BandsKept
<1>1. \A calibrated \in BOOLEAN, b \in WsprBands : GeneratedInBand(calibrated, b)
    <2> SUFFICES ASSUME NEW calibrated \in BOOLEAN, NEW b \in WsprBands
                 PROVE  GeneratedInBand(calibrated, b)
        OBVIOUS
    <2> DEFINE c == CentreFreq[b]
    <2>1. c \in Nat
        BY DEF WsprBands, CentreFreq
    <2> DEFINE half == Bandwidth(calibrated, b) \div 2
               margin == IF calibrated /\ c < 30000000 THEN c \div 1000000 ELSE 0
    <2> HIDE DEF c
    <2>2. half \in Int /\ margin \in Nat /\ half + margin <= 100
        <3>1. CASE calibrated /\ c < 30000000
            <4>1. half = ((170000000 - 2 * c) \div 1000000) \div 2
                BY <3>1 DEF Bandwidth, c
            <4>2. margin = c \div 1000000
                BY <3>1
            <4>3. ((170000000 - 2 * c) \div 1000000) \div 2 \in Int
                BY <2>1, <3>1, MarginFits
            <4> HIDE DEF half, margin
            <4>4. QED
                BY <2>1, <3>1, <4>1, <4>2, <4>3, MarginFits
        <3>2. CASE ~(calibrated /\ c < 30000000)
            <4>1. half = 100 \div 2 /\ margin = 0
                BY <3>2 DEF Bandwidth, c
            <4>2. 100 \div 2 = 50
                OBVIOUS
            <4> HIDE DEF half, margin
            <4>3. QED
                BY <4>1, <4>2
        <3>3. QED
            BY <3>1, <3>2
    <2>3. Generate(calibrated, b) = c - half .. c + half
        BY DEF Generate, c
    <2> HIDE DEF half, margin
    <2>4. \A f \in c - half .. c + half :
              /\ c - 100 <= f - margin /\ f - margin <= c + 100
              /\ c - 100 <= f + margin /\ f + margin <= c + 100
        BY <2>1, <2>2
    <2>5. QED
        BY <2>3, <2>4 DEF GeneratedInBand, ContainsFreq, c, margin
<1> DEFINE InputInv == input.kind = "band" =>
                           input.calibrated \in BOOLEAN /\ input.band \in WsprBands
<1>2. Init => InputInv
    BY DEF Init, Inputs
<1>3. InputInv /\ [Next]_vars => InputInv'
    BY DEF Next, vars
<1>4. InputInv => BandsKept
    BY <1>1 DEF BandsKept
<1>5. QED
    BY <1>2, <1>3, <1>4, PTL DEF Spec

\* The difference decides: for versions, Older spelled out.
LEMMA OlderComponents ==
    ASSUME NEW a \in FirmwareVersions, NEW b \in FirmwareVersions
    PROVE  Older(a, b) <=>
              \/ a[1] < b[1]
              \/ a[1] = b[1] /\ a[2] < b[2]
              \/ a[1] = b[1] /\ a[2] = b[2] /\ a[3] < b[3]
              \/ a[1] = b[1] /\ a[2] = b[2] /\ a[3] = b[3] /\ a[4] < b[4]
<1>1. \A i \in 1 .. 4 : i \in {1, 2, 3, 4}
    OBVIOUS
<1>2. 1 .. (1 - 1) = {} /\ 1 .. (2 - 1) = {1} /\ 1 .. (3 - 1) = {1, 2}
      /\ 1 .. (4 - 1) = {1, 2, 3}
    OBVIOUS
<1>3. 1 \in 1 .. 4 /\ 2 \in 1 .. 4 /\ 3 \in 1 .. 4 /\ 4 \in 1 .. 4
    OBVIOUS
<1>4. QED
    BY <1>1, <1>2, <1>3 DEF Older

\* Firmware versions are totally ordered, and the comparisons by operator== and
\* those derived from operator< agree with that order, so that "at least" and
\* "older" split them at every feature (Version.cpp:98-126, RelOps.hpp:10-29).
THEOREM VersionsOrdered ==
    \A a, b, c \in FirmwareVersions : Ordered(a, b, c)
<1> SUFFICES ASSUME NEW a \in FirmwareVersions, NEW b \in FirmwareVersions,
                    NEW c \in FirmwareVersions
             PROVE  Ordered(a, b, c)
    OBVIOUS
<1>1. \A v \in FirmwareVersions : v[1] \in Nat /\ v[2] \in Nat /\ v[3] \in Nat /\ v[4] \in Nat
    BY DEF FirmwareVersions
<1>2. ~Older(a, a)
    BY <1>1, OlderComponents
<1>3. Older(a, b) => ~Older(b, a)
    BY <1>1, OlderComponents
<1>4. a = b \/ a[1] # b[1] \/ a[2] # b[2] \/ a[3] # b[3] \/ a[4] # b[4]
    BY DEF FirmwareVersions
<1>5. Older(a, b) \/ Older(b, a) \/ a = b
    BY <1>1, <1>4, OlderComponents
<1>6. Older(a, b) /\ Older(b, c) => Older(a, c)
    BY <1>1, OlderComponents
<1>7. Same(a, b) <=> a = b
    <2>1. 1..4 = {1, 2, 3, 4}
        OBVIOUS
    <2>2. QED
        BY <1>4, <2>1 DEF Same
<1>8. /\ Same(a, b) <=> AtLeast(a, b) /\ AtMost(a, b)
      /\ AtLeast(a, b) <=> Newer(a, b) \/ Same(a, b)
      /\ AtMost(a, b) <=> Older(a, b) \/ Same(a, b)
    BY <1>2, <1>3, <1>5, <1>7 DEF AtLeast, AtMost, Newer
<1>9. QED
    BY <1>2, <1>3, <1>6, <1>7, <1>8 DEF Ordered

\* Every bias that is computed is within its table, and more power never takes
\* less bias: the second if it is so at each frequency of the tables, which holds
\* of the measurements in biasData/inc at the one drive strength that is used
\* (PaBias_impl.hpp:51-200, MathUtil.cpp:5-30).
THEOREM EveryBiasBounded == ASSUME TablesRise PROVE Spec => []BiasesBounded
<1> DEFINE InputInv == input.kind = "bias" => input.query \in Asked /\ input.more \in Nat
<1>1. Init => InputInv
    BY DEF Init, Inputs, Queries, Asked
<1>2. InputInv /\ [Next]_vars => InputInv'
    BY DEF Next, vars
<1>3. InputInv => BiasesBounded
    BY EveryBiasWithinTable DEF BiasesBounded
<1>4. QED
    BY <1>1, <1>2, <1>3, PTL DEF Spec

-------------------------------------------------------------------------------
(* Induction and recursion over the naturals, stated about sets.             *)

LEMMA LeastNumber ==
    ASSUME NEW T \in SUBSET Nat, T # {}
    PROVE  \E n \in T : \A m \in T : ~ (m < n)
<1> DEFINE less == OpToRel(<, Nat)
<1>1. IsWellFoundedOn(less, Nat)
    BY NatLessThanWellFounded
<1>2. \A x, y \in Nat : <<x, y>> \in less <=> x < y
    BY DEF OpToRel
<1> HIDE DEF less
<1>3. \E n \in T : \A m \in T : ~ (<<m, n>> \in less)
    BY <1>1, WFMin
<1>4. QED
    BY <1>2, <1>3

\* What holds at a and is passed on from one number to the next holds up to b.
LEMMA IntervalInduction ==
    ASSUME NEW a \in Nat, NEW b \in Nat, NEW P \in SUBSET (a .. b),
           a <= b => a \in P, \A i \in P : i < b => i + 1 \in P
    PROVE  P = a .. b
<1> SUFFICES ASSUME (a .. b) \ P # {} PROVE FALSE
    OBVIOUS
<1>1. PICK n \in (a .. b) \ P : \A m \in (a .. b) \ P : ~ (m < n)
    <2>1. (a .. b) \ P \in SUBSET Nat
        OBVIOUS
    <2>2. QED
        BY <2>1, LeastNumber
<1>2. n # a /\ n - 1 \in a .. b
    BY <1>1
<1>3. n - 1 \in P /\ n - 1 < b
    BY <1>1, <1>2
<1>4. (n - 1) + 1 \in P
    BY <1>3
<1>5. QED
    BY <1>1, <1>4

\* f takes base through n steps in S.
Runs(S, base, n, next, f) ==
    /\ f \in [0 .. n -> S]
    /\ f[0] = base
    /\ \A i \in 1 .. n : f[i] = next[i][f[i - 1]]

LEMMA Recursion ==
    ASSUME NEW S, NEW base \in S, NEW n \in Nat, NEW next \in [1 .. n -> [S -> S]]
    PROVE  \E f : Runs(S, base, n, next, f)
<1> DEFINE Good(k, f) == f[0] = base /\ \A i \in 1 .. k : f[i] = next[i][f[i - 1]]
           P == {k \in 0 .. n : \E f \in [0 .. k -> S] : Good(k, f)}
<1>1. 0 \in P
    <2>1. [i \in 0 .. 0 |-> base] \in [0 .. 0 -> S] /\ Good(0, [i \in 0 .. 0 |-> base])
        OBVIOUS
    <2>2. 0 \in 0 .. n
        OBVIOUS
    <2> HIDE DEF Good
    <2>3. QED
        BY <2>1, <2>2
<1>2. ASSUME NEW k \in Nat, NEW f \in [0 .. k -> S], Good(k, f), k + 1 <= n
      PROVE  \E g \in [0 .. k + 1 -> S] : Good(k + 1, g)
    <2> DEFINE g == [i \in 0 .. k + 1 |-> IF i <= k THEN f[i] ELSE next[k + 1][f[k]]]
    <2>1. f[k] \in S /\ next[k + 1] \in [S -> S]
        BY <1>2
    <2>2. next[k + 1][f[k]] \in S
        BY <2>1
    <2>3. g \in [0 .. k + 1 -> S]
        BY <2>2
    <2>4. (\A i \in 0 .. k : g[i] = f[i]) /\ g[k + 1] = next[k + 1][f[k]]
        OBVIOUS
    <2>5. ASSUME NEW i \in 1 .. k + 1
          PROVE  g[i] = next[i][g[i - 1]]
        <3>1. CASE i = k + 1
            BY <2>4, <3>1
        <3>2. CASE i \in 1 .. k
            BY <1>2, <2>4, <3>2
        <3>3. QED
            BY <3>1, <3>2
    <2>6. Good(k + 1, g)
        BY <1>2, <2>4, <2>5
    <2> HIDE DEF g, Good
    <2>7. QED
        BY <2>3, <2>6
<1> HIDE DEF Good
<1>3. \A k \in P : k < n => k + 1 \in P
    <2> SUFFICES ASSUME NEW k \in P, k < n
                 PROVE  k + 1 \in P
        OBVIOUS
    <2>1. k \in Nat /\ k + 1 \in 0 .. n
        OBVIOUS
    <2>2. PICK f \in [0 .. k -> S] : Good(k, f)
        OBVIOUS
    <2>3. \E g \in [0 .. k + 1 -> S] : Good(k + 1, g)
        BY <1>2, <2>1, <2>2
    <2>4. QED
        BY <2>1, <2>3
<1>4. P = 0 .. n
    <2>1. P \in SUBSET (0 .. n)
        OBVIOUS
    <2> HIDE DEF P
    <2>2. QED
        BY <1>1, <1>3, <2>1, IntervalInduction
<1>5. PICK f \in [0 .. n -> S] : Good(n, f)
    BY <1>4
<1>6. QED
    BY <1>5 DEF Good, Runs

\* The elements of a concatenation.
LEMMA ConcatIndex ==
    ASSUME NEW S, NEW s \in Seq(S), NEW t \in Seq(S)
    PROVE  /\ s \o t \in Seq(S) /\ Len(s) \in Nat /\ Len(t) \in Nat
           /\ Len(s \o t) = Len(s) + Len(t)
           /\ \A q \in 1 .. Len(s) : q \in 1 .. Len(s \o t) /\ (s \o t)[q] = s[q]
           /\ \A q \in 1 .. Len(t) : (s \o t)[Len(s) + q] = t[q]
OBVIOUS

-------------------------------------------------------------------------------
(* The bits of a type.                                                       *)

LEMMA BitOrType == \A a, b \in Nat : BitOr(a, b) \in Nat
BY DEF BitOr

\* The first byte is stored as it is, and a second byte of zero changes nothing.
LEMMA BitOrZero == \A a \in Byte : BitOr(0, a) = a /\ BitOr(a, 0) = a
<1> SUFFICES ASSUME NEW a \in Byte PROVE BitOr(0, a) = a /\ BitOr(a, 0) = a
    OBVIOUS
<1>1. a \in 0 .. 255
    BY DEF Byte
<1> QED
    BY <1>1, SMTT(60) DEF BitOr

-------------------------------------------------------------------------------
(* The symbols of a frame.                                                   *)

\* flat is made up of seqs step by step, and each step is its beginning.
Flattens(S, seqs, f, flat) ==
    /\ f \in [1 .. Len(seqs) -> Seq(S)]
    /\ f[1] = seqs[1]
    /\ \A i \in 2 .. Len(seqs) : f[i] = f[i - 1] \o seqs[i]
    /\ flat = f[Len(seqs)]
    /\ \A i \in 1 .. Len(seqs) : \A q \in 1 .. Len(f[i]) :
           q \in 1 .. Len(flat) /\ flat[q] = f[i][q]

LEMMA FlattenFacts ==
    ASSUME NEW S, NEW seqs \in Seq(Seq(S)), seqs # <<>>
    PROVE  \E f : Flattens(S, seqs, f, FlattenSeq(seqs))
<1> DEFINE n == Len(seqs)
           made(f) == [i \in 1 .. n |-> IF i = 1 THEN seqs[i] ELSE f[i - 1] \o seqs[i]]
           next == [i \in 1 .. n |-> [s \in Seq(S) |-> IF i = 1 THEN seqs[i] ELSE s \o seqs[i]]]
           flat == CHOOSE f : f = made(f)
<1>1. n \in Nat /\ n >= 1 /\ \A i \in 1 .. n : seqs[i] \in Seq(S)
    BY LenProperties, EmptySeq, ElementOfSeq
<1> HIDE DEF n
<1>2. \E f : f = made(f)
    <2>1. <<>> \in Seq(S)
        OBVIOUS
    <2>2. \A i \in 1 .. n : \A s \in Seq(S) : s \o seqs[i] \in Seq(S)
        BY <1>1, ConcatProperties
    <2>3. next \in [1 .. n -> [Seq(S) -> Seq(S)]]
        BY <1>1, <2>2
    <2>4. PICK g \in [0 .. n -> Seq(S)] :
              g[0] = <<>> /\ \A i \in 1 .. n : g[i] = next[i][g[i - 1]]
        <3> DEFINE T == Seq(S)
                   empty == <<>>
        <3>1. n \in Nat /\ empty \in T /\ next \in [1 .. n -> [T -> T]]
            BY <1>1, <2>1, <2>3
        <3> HIDE DEF next, T, empty
        <3>2. \E g : Runs(T, empty, n, next, g)
            BY <3>1, Recursion
        <3>3. QED
            BY <3>2 DEF T, empty, Runs
    <2> DEFINE f == [i \in 1 .. n |-> g[i]]
    <2>5. \A i \in 1 .. n : i - 1 \in 0 .. n /\ g[i - 1] \in Seq(S)
        BY <1>1
    <2>6. \A i \in 1 .. n : f[i] = IF i = 1 THEN seqs[i] ELSE f[i - 1] \o seqs[i]
        <3>1. SUFFICES ASSUME NEW i \in 1 .. n
                       PROVE  f[i] = IF i = 1 THEN seqs[i] ELSE f[i - 1] \o seqs[i]
            OBVIOUS
        <3>2. g[i] = IF i = 1 THEN seqs[i] ELSE g[i - 1] \o seqs[i]
            BY <2>4, <2>5
        <3>3. i # 1 => i - 1 \in 1 .. n
            BY <1>1
        <3>4. QED
            BY <3>2, <3>3
    <2>7. f = made(f)
        BY <2>6
    <2>8. QED
        BY <2>7
<1>3. flat = made(flat)
    <2> HIDE DEF made
    <2>1. QED
        BY <1>2
<1> HIDE DEF flat
<1>4. /\ flat[1] = seqs[1]
      /\ \A i \in 2 .. n : flat[i] = flat[i - 1] \o seqs[i]
    <2>1. \A i \in 1 .. n : flat[i] = IF i = 1 THEN seqs[i] ELSE flat[i - 1] \o seqs[i]
        BY <1>3
    <2>2. 1 \in 1 .. n /\ \A i \in 2 .. n : i \in 1 .. n /\ i # 1
        BY <1>1
    <2> HIDE DEF made
    <2>3. QED
        BY <2>1, <2>2
<1>5. \A i \in 1 .. n : flat[i] \in Seq(S)
    <2> DEFINE P == {i \in 1 .. n : flat[i] \in Seq(S)}
    <2>1. 1 \in P
        BY <1>1, <1>4
    <2>2. \A i \in P : i < n => i + 1 \in P
        <3> SUFFICES ASSUME NEW i \in P, i < n
                     PROVE  i + 1 \in P
            OBVIOUS
        <3>1. flat[i] \in Seq(S) /\ i + 1 \in 2 .. n /\ (i + 1) - 1 = i
            BY <1>1
        <3>2. flat[i + 1] = flat[i] \o seqs[i + 1]
            BY <1>4, <3>1
        <3>3. flat[i + 1] \in Seq(S)
            BY <1>1, <3>1, <3>2, ConcatProperties
        <3>4. QED
            BY <1>1, <3>1, <3>3
    <2>3. P = 1 .. n
        <3>1. P \in SUBSET (1 .. n)
            OBVIOUS
        <3> HIDE DEF P
        <3>2. QED
            BY <1>1, <2>1, <2>2, <3>1, IntervalInduction
    <2>4. QED
        BY <2>3
<1>6. flat \in [1 .. n -> Seq(S)]
    BY <1>3, <1>5
<1>7. FlattenSeq(seqs) = flat[n]
    BY <1>1 DEF FlattenSeq, flat, n
<1>8. \A i \in 1 .. n : \A q \in 1 .. Len(flat[i]) :
          q \in 1 .. Len(flat[n]) /\ flat[n][q] = flat[i][q]
    <2> SUFFICES ASSUME NEW i \in 1 .. n, NEW q \in 1 .. Len(flat[i])
                 PROVE  q \in 1 .. Len(flat[n]) /\ flat[n][q] = flat[i][q]
        OBVIOUS
    <2> DEFINE P == {j \in i .. n : q \in 1 .. Len(flat[j]) /\ flat[j][q] = flat[i][q]}
    <2>1. i \in P
        BY <1>1
    <2>2. \A j \in P : j < n => j + 1 \in P
        <3> SUFFICES ASSUME NEW j \in P, j < n
                     PROVE  j + 1 \in P
            OBVIOUS
        <3>1. /\ j \in 1 .. n /\ j + 1 \in 2 .. n /\ (j + 1) - 1 = j /\ j + 1 \in i .. n
              /\ q \in 1 .. Len(flat[j]) /\ flat[j][q] = flat[i][q]
            BY <1>1
        <3>2. flat[j + 1] = flat[j] \o seqs[j + 1]
            BY <1>4, <3>1
        <3>3. flat[j] \in Seq(S) /\ seqs[j + 1] \in Seq(S)
            BY <1>1, <1>5, <3>1
        <3> DEFINE s == flat[j]
                   t == seqs[j + 1]
        <3>4. s \in Seq(S) /\ t \in Seq(S) /\ flat[j + 1] = s \o t /\ q \in 1 .. Len(s)
            BY <3>1, <3>2, <3>3
        <3> HIDE DEF s, t
        <3>5. q \in 1 .. Len(s \o t) /\ (s \o t)[q] = s[q]
            BY <3>4, ConcatIndex
        <3>6. QED
            BY <3>1, <3>4, <3>5 DEF s
    <2>3. P = i .. n
        <3>1. P \in SUBSET (i .. n) /\ i \in Nat
            BY <1>1
        <3> HIDE DEF P
        <3>2. QED
            BY <1>1, <2>1, <2>2, <3>1, IntervalInduction
    <2>4. n \in P
        <3>1. n \in i .. n
            BY <1>1
        <3> HIDE DEF P
        <3>2. QED
            BY <2>3, <3>1
    <2>5. QED
        BY <2>4
<1>9. Flattens(S, seqs, flat, FlattenSeq(seqs))
    <2> HIDE DEF made
    <2>1. QED
        BY <1>4, <1>6, <1>7, <1>8 DEF n, Flattens
<1>10. QED
    BY <1>9

Message == [type : 0 .. 20, data : Seq(Byte)]
Single == {<<c>> : c \in Byte}
SumOf(m) == Summed(m.type, m.data)
Body(b) == FlattenSeq([i \in DOMAIN b |-> Escaped(b[i])])

\* After the first i bytes of b the body has L[i] symbols.
BodyLaidOut(b, L) ==
    /\ L \in [0 .. Len(b) -> Nat] /\ L[0] = 0
    /\ L[Len(b)] = Len(Body(b))
    /\ \A i \in 1 .. Len(b) : L[i] = L[i - 1] + Len(Escaped(b[i]))
    /\ \A i \in 1 .. Len(b) : \A q \in 1 .. Len(Escaped(b[i])) :
           /\ L[i - 1] + q \in 1 .. Len(Body(b))
           /\ Body(b)[L[i - 1] + q] = Escaped(b[i])[q]

LEMMA SummedFacts ==
    ASSUME NEW m \in Message
    PROVE  /\ SumOf(m) \in Seq(Byte) /\ Len(SumOf(m)) = 2 + Len(m.data)
           /\ Len(m.data) \in Nat
           /\ SumOf(m)[1] = m.type /\ SumOf(m)[2] = 0
           /\ \A q \in 1 .. Len(m.data) : SumOf(m)[2 + q] = m.data[q]
<1>1. m.type \in 0 .. 20 /\ m.data \in Seq(Byte)
    BY DEF Message
<1>2. m.type % 256 = m.type /\ m.type \div 256 = 0
    BY <1>1
<1> DEFINE head == <<m.type % 256, m.type \div 256>>
<1>3. head \in Seq(Byte) /\ Len(head) = 2 /\ head[1] = m.type /\ head[2] = 0
    <2>1. m.type \in Byte /\ 0 \in Byte
        BY <1>1 DEF Byte
    <2>2. head = <<m.type, 0>>
        BY <1>2
    <2> HIDE DEF head
    <2>3. QED
        BY <2>1, <2>2
<1>4. SumOf(m) = head \o m.data
    BY DEF SumOf, Summed
<1> HIDE DEF head
<1> DEFINE data == m.data
           sum == SumOf(m)
<1>5. data \in Seq(Byte) /\ sum = head \o data
    BY <1>1, <1>4
<1> HIDE DEF data, sum
<1>6. /\ sum \in Seq(Byte) /\ Len(sum) = 2 + Len(data) /\ Len(data) \in Nat
      /\ sum[1] = head[1] /\ sum[2] = head[2]
      /\ \A q \in 1 .. Len(data) : sum[2 + q] = data[q]
    <2>1. /\ head \o data \in Seq(Byte) /\ Len(data) \in Nat
          /\ Len(head \o data) = Len(head) + Len(data)
          /\ \A q \in 1 .. Len(head) : (head \o data)[q] = head[q]
          /\ \A q \in 1 .. Len(data) : (head \o data)[Len(head) + q] = data[q]
        <3>1. head \in Seq(Byte) /\ data \in Seq(Byte)
            BY <1>3, <1>5
        <3>2. QED
            BY ONLY <3>1, ConcatIndex
    <2>2. 1 \in 1 .. Len(head) /\ 2 \in 1 .. Len(head)
        BY <1>3
    <2>3. QED
        BY <1>3, <1>5, <2>1, <2>2
<1>7. QED
    BY <1>3, <1>6 DEF data, sum

LEMMA EscapedFacts ==
    ASSUME NEW c \in Byte
    PROVE  /\ Escaped(c) \in Seq(Single)
           /\ c \in {START, END, ESC} =>
                  /\ Len(Escaped(c)) = 2 /\ Escaped(c)[1] = <<ESC>>
                  /\ Escaped(c)[2] = <<c + 128>>
           /\ c \notin {START, END, ESC} => Len(Escaped(c)) = 1 /\ Escaped(c)[1] = <<c>>
           /\ Len(Escaped(c)) \in {1, 2}
<1>1. c \in {START, END, ESC} => c + 128 \in Byte
    BY DEF Byte, START, END, ESC
<1>2. ESC \in Byte
    BY DEF Byte, ESC
<1>3. <<c>> \in Single /\ <<ESC>> \in Single
      /\ (c \in {START, END, ESC} => <<c + 128>> \in Single)
    BY <1>1, <1>2 DEF Single
<1>4. QED
    BY <1>3 DEF Escaped

LEMMA BodyLayout ==
    ASSUME NEW b \in Seq(Byte), b # <<>>
    PROVE  Body(b) \in Seq(Single) /\ \E L : BodyLaidOut(b, L)
<1> DEFINE n == Len(b)
           seqs == [i \in DOMAIN b |-> Escaped(b[i])]
           body == Body(b)
<1>1. n \in Nat /\ n >= 1 /\ DOMAIN b = 1 .. n /\ \A i \in 1 .. n : b[i] \in Byte
    BY LenProperties, EmptySeq, ElementOfSeq
<1>2. \A i \in 1 .. n : Escaped(b[i]) \in Seq(Single) /\ Len(Escaped(b[i])) \in {1, 2}
    BY <1>1, EscapedFacts
<1>3. /\ seqs \in Seq(Seq(Single)) /\ seqs # <<>> /\ Len(seqs) = n
      /\ \A i \in 1 .. n : seqs[i] = Escaped(b[i])
    BY <1>1, <1>2
<1>4. body = FlattenSeq(seqs)
    BY DEF Body
<1> HIDE DEF n, seqs, body
<1>5. PICK f \in [1 .. n -> Seq(Single)] :
          /\ f[1] = seqs[1]
          /\ \A i \in 2 .. n : f[i] = f[i - 1] \o seqs[i]
          /\ body = f[n]
          /\ \A i \in 1 .. n : \A q \in 1 .. Len(f[i]) :
                 q \in 1 .. Len(body) /\ body[q] = f[i][q]
    <2>1. PICK f : Flattens(Single, seqs, f, body)
        BY <1>3, <1>4, FlattenFacts
    <2>2. QED
        BY <1>3, <2>1 DEF Flattens
<1> DEFINE L == [i \in 0 .. n |-> IF i = 0 THEN 0 ELSE Len(f[i])]
<1>6. \A i \in 1 .. n : f[i] \in Seq(Single) /\ Len(f[i]) \in Nat
    BY LenProperties
<1>7. L \in [0 .. n -> Nat] /\ L[0] = 0 /\ \A i \in 1 .. n : L[i] = Len(f[i])
    BY <1>1, <1>6
<1> HIDE DEF L
<1>8. ASSUME NEW i \in 1 .. n
      PROVE  /\ L[i] = L[i - 1] + Len(seqs[i])
             /\ \A q \in 1 .. Len(seqs[i]) : L[i - 1] + q \in 1 .. Len(f[i])
                                             /\ f[i][L[i - 1] + q] = seqs[i][q]
    <2>1. Len(seqs[i]) \in Nat
        BY <1>2, <1>3
    <2>2. CASE i = 1
        BY <1>1, <1>5, <1>7, <2>1, <2>2
    <2>3. CASE i # 1
        <3> DEFINE s == f[i - 1]
                   t == seqs[i]
        <3>1. i \in 2 .. n /\ i - 1 \in 1 .. n
            BY <1>1, <2>3
        <3>2. /\ s \in Seq(Single) /\ t \in Seq(Single) /\ f[i] = s \o t
              /\ L[i - 1] = Len(s) /\ L[i] = Len(f[i])
            BY <1>2, <1>3, <1>5, <1>6, <1>7, <3>1
        <3> HIDE DEF s, t
        <3>a. s \in Seq(Single) /\ t \in Seq(Single)
            BY ONLY <3>2
        <3>3. Len(s) \in Nat /\ Len(t) \in Nat /\ Len(s \o t) = Len(s) + Len(t)
              /\ \A q \in 1 .. Len(t) : (s \o t)[Len(s) + q] = t[q]
            BY ONLY <3>a, ConcatIndex
        <3>4. QED
            BY <3>2, <3>3 DEF t
    <2>4. QED
        BY <2>2, <2>3
<1>9. \A i \in 1 .. n : \A q \in 1 .. Len(seqs[i]) :
          L[i - 1] + q \in 1 .. Len(body) /\ body[L[i - 1] + q] = seqs[i][q]
    BY <1>5, <1>8
<1>10. body \in Seq(Single) /\ L[n] = Len(body)
    BY <1>1, <1>5, <1>6, <1>7
<1>11. BodyLaidOut(b, L)
    BY <1>3, <1>7, <1>8, <1>9, <1>10 DEF BodyLaidOut, n, body
<1>12. QED
    BY <1>10, <1>11 DEF body

LEMMA Wrapped ==
    ASSUME NEW S, NEW x \in S, NEW y \in S, NEW z \in S, NEW B \in Seq(S)
    PROVE  LET F == <<x>> \o B \o <<y>> \o <<z>> IN
           /\ F \in Seq(S) /\ Len(F) = Len(B) + 3 /\ Len(B) \in Nat
           /\ F[1] = x /\ F[Len(B) + 2] = y /\ F[Len(B) + 3] = z
           /\ \A k \in 1 .. Len(B) : F[1 + k] = B[k]
<1> DEFINE one == <<x>> \o B
           two == one \o <<y>>
<1>1. /\ one \in Seq(S) /\ Len(one) = Len(B) + 1 /\ Len(B) \in Nat /\ one[1] = x
      /\ \A k \in 1 .. Len(B) : one[1 + k] = B[k]
    OBVIOUS
<1> HIDE DEF one
<1>2. /\ two \in Seq(S) /\ Len(two) = Len(one) + 1 /\ two[Len(one) + 1] = y
      /\ \A k \in 1 .. Len(one) : two[k] = one[k]
    BY <1>1
<1> HIDE DEF two
<1> DEFINE F == two \o <<z>>
<1>3. /\ F \in Seq(S) /\ Len(F) = Len(two) + 1 /\ F[Len(two) + 1] = z
      /\ \A k \in 1 .. Len(two) : F[k] = two[k]
    BY <1>1, <1>2
<1> HIDE DEF F
<1>4. /\ F \in Seq(S) /\ Len(F) = Len(B) + 3 /\ Len(B) \in Nat
      /\ F[1] = x /\ F[Len(B) + 2] = y /\ F[Len(B) + 3] = z
      /\ \A k \in 1 .. Len(B) : F[1 + k] = B[k]
    <2>1. Len(F) = Len(B) + 3 /\ Len(two) = Len(B) + 2 /\ Len(one) = Len(B) + 1
        BY <1>1, <1>2, <1>3
    <2>2. F[1] = x /\ F[Len(B) + 2] = y /\ F[Len(B) + 3] = z
        BY <1>1, <1>2, <1>3, <2>1
    <2>3. ASSUME NEW k \in 1 .. Len(B)
          PROVE  F[1 + k] = B[k]
        <3>1. 1 + k \in 1 .. Len(one) /\ 1 + k \in 1 .. Len(two)
            BY <1>1, <2>1
        <3>2. QED
            BY <1>1, <1>2, <1>3, <3>1
    <2>4. QED
        BY <1>1, <1>3, <2>1, <2>2, <2>3
<1>5. QED
    BY <1>4 DEF F, two, one

\* Where the bytes of a message stand in its frame.
FrameLaidOut(m, b, L, F) ==
    /\ b = SumOf(m) /\ F = Frame(m)
    /\ L \in [0 .. Len(b) -> Nat] /\ L[0] = 0
    /\ \A i \in 1 .. Len(b) : L[i] = L[i - 1] + Len(Escaped(b[i]))
    /\ F \in Seq(Seq(Byte)) /\ Len(F) = L[Len(b)] + 3
    /\ F[1] = <<START>> /\ F[L[Len(b)] + 2] = b /\ F[L[Len(b)] + 3] = <<END>>
    /\ \A i \in 1 .. Len(b) : \A q \in 1 .. Len(Escaped(b[i])) :
           F[1 + L[i - 1] + q] = Escaped(b[i])[q]
    /\ \A k \in 1 .. Len(F) : k # Len(F) - 1 => F[k] \in Single

LEMMA FrameLayout ==
    ASSUME NEW m \in Message
    PROVE  \E L : FrameLaidOut(m, SumOf(m), L, Frame(m))
<1> DEFINE b == SumOf(m)
           B == Body(b)
           F == Frame(m)
<1>1. b \in Seq(Byte) /\ b # <<>> /\ Len(b) \in Nat
    BY SummedFacts, EmptySeq
<1>2. B \in Seq(Single)
    BY <1>1, BodyLayout
<1>3. PICK L : BodyLaidOut(b, L)
    BY <1>1, BodyLayout
<1>4. F = <<<<START>>>> \o B \o <<b>> \o <<<<END>>>>
    BY DEF Frame, Body, SumOf
<1>5. /\ <<START>> \in Seq(Byte) /\ <<END>> \in Seq(Byte)
      /\ <<START>> \in Single /\ <<END>> \in Single
    BY DEF Single, START, END, Byte
<1>6. Single \subseteq Seq(Byte)
    <2>1. \A c \in Byte : <<c>> \in Seq(Byte)
        OBVIOUS
    <2>2. QED
        BY <2>1 DEF Single
<1>7. B \in Seq(Seq(Byte))
    BY <1>2, <1>6, SeqMonotonic
<1> HIDE DEF b, B, F
<1>8. /\ F \in Seq(Seq(Byte)) /\ Len(F) = Len(B) + 3 /\ Len(B) \in Nat
      /\ F[1] = <<START>> /\ F[Len(B) + 2] = b /\ F[Len(B) + 3] = <<END>>
      /\ \A k \in 1 .. Len(B) : F[1 + k] = B[k]
    <2> DEFINE S == Seq(Byte)
               x == <<START>>
               z == <<END>>
    <2>1. x \in S /\ b \in S /\ z \in S /\ B \in Seq(S) /\ F = <<x>> \o B \o <<b>> \o <<z>>
        BY <1>1, <1>4, <1>5, <1>7
    <2> HIDE DEF S, x, z
    <2>2. /\ F \in Seq(S) /\ Len(F) = Len(B) + 3 /\ Len(B) \in Nat
          /\ F[1] = x /\ F[Len(B) + 2] = b /\ F[Len(B) + 3] = z
          /\ \A k \in 1 .. Len(B) : F[1 + k] = B[k]
        BY <2>1, Wrapped
    <2>3. QED
        BY <2>2 DEF S, x, z
<1>9. /\ L \in [0 .. Len(b) -> Nat] /\ L[0] = 0 /\ L[Len(b)] = Len(B)
      /\ \A i \in 1 .. Len(b) : L[i] = L[i - 1] + Len(Escaped(b[i]))
      /\ \A i \in 1 .. Len(b) : \A q \in 1 .. Len(Escaped(b[i])) :
             L[i - 1] + q \in 1 .. Len(B) /\ B[L[i - 1] + q] = Escaped(b[i])[q]
    BY <1>3 DEF BodyLaidOut, B
<1>10. ASSUME NEW i \in 1 .. Len(b), NEW q \in 1 .. Len(Escaped(b[i]))
       PROVE  F[1 + L[i - 1] + q] = Escaped(b[i])[q]
    <2>1. L[i - 1] + q \in 1 .. Len(B) /\ B[L[i - 1] + q] = Escaped(b[i])[q]
        BY <1>9
    <2>2. F[1 + (L[i - 1] + q)] = B[L[i - 1] + q]
        BY <1>8, <2>1
    <2>3. L[i - 1] \in Nat /\ q \in Int
        <3>1. i - 1 \in 0 .. Len(b)
            BY <1>1
        <3>2. L[i - 1] \in Nat
            BY <1>9, <3>1
        <3>3. Len(Escaped(b[i])) \in Nat
            <4>1. b[i] \in Byte
                BY <1>1, ElementOfSeq
            <4>2. Len(Escaped(b[i])) \in {1, 2}
                BY <4>1, EscapedFacts
            <4>3. QED
                BY <4>2
        <3>4. QED
            BY <3>2, <3>3
    <2>4. 1 + (L[i - 1] + q) = 1 + L[i - 1] + q
        BY <2>3
    <2>5. QED
        BY <2>1, <2>2, <2>4
<1>11. ASSUME NEW k \in 1 .. Len(F), k # Len(F) - 1
       PROVE  F[k] \in Single
    <2>1. CASE k = 1
        BY <1>5, <1>8, <2>1
    <2>2. CASE k = Len(F)
        BY <1>5, <1>8, <2>2
    <2>3. CASE k \in 2 .. Len(B) + 1
        <3>1. k - 1 \in 1 .. Len(B) /\ 1 + (k - 1) = k
            BY <1>8, <2>3
        <3>2. F[k] = B[k - 1]
            BY <1>8, <3>1
        <3>3. QED
            BY <1>2, <3>1, <3>2, ElementOfSeq
    <2>4. k = 1 \/ k = Len(F) \/ k \in 2 .. Len(B) + 1
        <3>1. Len(F) = Len(B) + 3 /\ Len(B) \in Nat /\ k \in 1 .. Len(F) /\ k # Len(F) - 1
            BY <1>8, <1>11
        <3>2. QED
            BY ONLY <3>1
    <2>5. QED
        BY <2>1, <2>2, <2>3, <2>4
<1>12. FrameLaidOut(m, b, L, F)
    BY <1>8, <1>9, <1>10, <1>11 DEF FrameLaidOut, b, F
<1>13. QED
    BY <1>12 DEF b, F

LEMMA LayoutGrows ==
    ASSUME NEW m \in Message, NEW b, NEW L, NEW F, FrameLaidOut(m, b, L, F), NEW i \in 0 .. Len(b)
    PROVE  L[i] <= L[Len(b)] /\ L[i] \in Nat /\ (i < Len(b) => L[i] < L[Len(b)])
<1>1. /\ Len(b) \in Nat /\ L \in [0 .. Len(b) -> Nat]
      /\ \A j \in 1 .. Len(b) : L[j] = L[j - 1] + Len(Escaped(b[j]))
                                /\ Len(Escaped(b[j])) \in {1, 2}
    <2>1. b \in Seq(Byte) /\ Len(b) \in Nat
        BY SummedFacts DEF FrameLaidOut
    <2>2. \A j \in 1 .. Len(b) : Len(Escaped(b[j])) \in {1, 2}
        BY <2>1, ElementOfSeq, EscapedFacts
    <2>3. QED
        BY <2>1, <2>2 DEF FrameLaidOut
<1> DEFINE n == Len(b)
           P == {j \in i .. n : L[i] <= L[j] /\ (i < j => L[i] < L[j])}
<1> HIDE DEF n
<1>2. i \in P
    BY <1>1 DEF n
<1>3. \A j \in P : j < n => j + 1 \in P
    <2> SUFFICES ASSUME NEW j \in P, j < n
                 PROVE  j + 1 \in P
        OBVIOUS
    <2>1. j \in 0 .. n /\ j + 1 \in 1 .. n /\ (j + 1) - 1 = j /\ j + 1 \in i .. n
        BY <1>1 DEF n
    <2>2. L[i] \in Nat /\ L[j] \in Nat /\ L[j + 1] > L[j] /\ L[j + 1] \in Nat
        <3>1. i \in 0 .. n /\ j + 1 \in 0 .. n
            BY <2>1 DEF n
        <3>2. L[i] \in Nat /\ L[j] \in Nat /\ L[j + 1] \in Nat
            BY <1>1, <2>1, <3>1 DEF n
        <3>3. L[j + 1] = L[(j + 1) - 1] + Len(Escaped(b[j + 1]))
            BY <1>1, <2>1 DEF n
        <3>4. Len(Escaped(b[j + 1])) \in {1, 2}
            BY <1>1, <2>1 DEF n
        <3> DEFINE e == Len(Escaped(b[j + 1]))
        <3>5. L[j + 1] = L[j] + e /\ e \in {1, 2}
            BY <2>1, <3>3, <3>4
        <3> HIDE DEF e
        <3>6. L[j + 1] > L[j]
            BY <3>2, <3>5
        <3>7. QED
            BY <3>2, <3>6
    <2>3. QED
        BY <2>1, <2>2
<1>4. P = i .. n
    <2>1. P \in SUBSET (i .. n) /\ i \in Nat /\ n \in Nat
        BY <1>1 DEF n
    <2> HIDE DEF P
    <2>2. QED
        BY <1>2, <1>3, <2>1, IntervalInduction
<1>5. n \in i .. n
    BY <1>1 DEF n
<1>6. n \in P
    <2> HIDE DEF P
    <2>1. QED
        BY <1>4, <1>5
<1>7. QED
    BY <1>1, <1>6 DEF n

-------------------------------------------------------------------------------
(* What attemptRx has got from the beginning of a frame.                     *)

Rx == [state : {"WaitForStart", "RxMsg", "RxMsgEscaped"}, i : Nat, type : Nat,
       data : Seq(Byte), sum : Seq(Byte)]

LEMMA ByteFacts ==
    \A c \in Byte : c \in Nat /\ c \in Int /\ (c >= 128 => c - 128 \in Byte)
BY DEF Byte

LEMMA FirstByte ==
    ASSUME NEW s \in Seq(Byte), s # <<>>
    PROVE  s[1] \in Byte /\ s[1] \in Nat
<1>1. 1 \in 1 .. Len(s)
    BY EmptySeq
<1>2. s[1] \in Byte
    BY <1>1, ElementOfSeq
<1>3. QED
    BY <1>2, ByteFacts

LEMMA StoreFields ==
    ASSUME NEW r \in Rx, NEW s
    PROVE  /\ r.i < 2 =>
                  Store(r, s) = [state |-> r.state, i |-> r.i + 1,
                                 type |-> BitOr(r.type, IF r.i = 0 THEN s[1] ELSE 2 * s[1]),
                                 data |-> r.data, sum |-> r.sum]
           /\ ~ (r.i < 2) =>
                  Store(r, s) = [state |-> r.state, i |-> r.i + 1, type |-> r.type,
                                 data |-> r.data \o r.sum, sum |-> s]
BY DEF Rx, Store

LEMMA RxFields ==
    ASSUME NEW r \in Rx
    PROVE  /\ r.state \in {"WaitForStart", "RxMsg", "RxMsgEscaped"} /\ r.i \in Nat
           /\ r.type \in Nat /\ r.data \in Seq(Byte) /\ r.sum \in Seq(Byte)
BY DEF Rx

LEMMA RxRecord ==
    ASSUME NEW state \in {"WaitForStart", "RxMsg", "RxMsgEscaped"}, NEW i \in Nat,
           NEW type \in Nat, NEW data \in Seq(Byte), NEW sum \in Seq(Byte)
    PROVE  [state |-> state, i |-> i, type |-> type, data |-> data, sum |-> sum] \in Rx
BY DEF Rx

LEMMA StoreType ==
    ASSUME NEW r \in Rx, NEW s \in Seq(Byte), s # <<>>
    PROVE  Store(r, s) \in Rx
<1>1. /\ r.state \in {"WaitForStart", "RxMsg", "RxMsgEscaped"} /\ r.i + 1 \in Nat
      /\ r.type \in Nat /\ r.data \in Seq(Byte) /\ r.sum \in Seq(Byte)
    BY RxFields
<1>2. BitOr(r.type, IF r.i = 0 THEN s[1] ELSE 2 * s[1]) \in Nat
    <2>1. (IF r.i = 0 THEN s[1] ELSE 2 * s[1]) \in Nat
        BY FirstByte
    <2>2. QED
        BY <1>1, <2>1, BitOrType
<1>3. r.data \o r.sum \in Seq(Byte)
    BY <1>1, ConcatProperties
<1>4. CASE r.i < 2
    <2> DEFINE type == BitOr(r.type, IF r.i = 0 THEN s[1] ELSE 2 * s[1])
               i == r.i + 1
    <2>1. Store(r, s) = [state |-> r.state, i |-> i, type |-> type, data |-> r.data,
                         sum |-> r.sum]
        BY <1>4, StoreFields
    <2>2. type \in Nat /\ i \in Nat
        BY <1>1, <1>2
    <2> HIDE DEF type, i
    <2>3. QED
        BY <1>1, <2>1, <2>2, RxRecord
<1>5. CASE ~ (r.i < 2)
    <2> DEFINE data == r.data \o r.sum
               i == r.i + 1
    <2>1. Store(r, s) = [state |-> r.state, i |-> i, type |-> r.type, data |-> data,
                         sum |-> s]
        BY <1>5, StoreFields
    <2>2. data \in Seq(Byte) /\ i \in Nat
        BY <1>1, <1>3
    <2> HIDE DEF data, i
    <2>3. QED
        BY <1>1, <2>1, <2>2, RxRecord
<1>6. QED
    BY <1>4, <1>5

LEMMA StartedFields ==
    /\ Started = [state |-> "RxMsg", i |-> 0, type |-> 0, data |-> <<>>, sum |-> <<>>]
    /\ Started \in Rx /\ Waiting \in Rx
<1>1. <<>> \in Seq(Byte)
    OBVIOUS
<1>2. Started = [state |-> "RxMsg", i |-> 0, type |-> 0, data |-> <<>>, sum |-> <<>>]
    BY DEF Started, Waiting
<1>3. QED
    BY <1>1, <1>2, RxRecord DEF Waiting

LEMMA RxSymbolType ==
    ASSUME NEW r \in Rx, NEW s \in Seq(Byte), s # <<>>
    PROVE  RxSymbol(r, s) \in Rx
<1>1. [r EXCEPT !.state = "RxMsg"] \in Rx /\ [r EXCEPT !.state = "RxMsgEscaped"] \in Rx
      /\ [r EXCEPT !.state = "WaitForStart"] \in Rx
    BY DEF Rx
<1>2. Started \in Rx
    BY StartedFields
<1>3. Len(s) = 1 /\ s[1] >= 128 => <<s[1] - 128>> \in Seq(Byte) /\ <<s[1] - 128>> # <<>>
    <2>1. s[1] >= 128 => s[1] - 128 \in Byte
        BY FirstByte, ByteFacts
    <2>2. QED
        BY <2>1
<1>4. Unescaped(r, s) \in Rx
    BY <1>1, <1>3, StoreType DEF Unescaped
<1>5. Store(r, s) \in Rx
    BY StoreType
<1>6. QED
    BY <1>1, <1>2, <1>4, <1>5 DEF RxSymbol

\* The first i bytes of b have been stored.
Part(b, i, st) ==
    [state |-> st, i |-> i, type |-> IF i = 0 THEN 0 ELSE b[1],
     data |-> SubSeq(b, 3, i - 1), sum |-> IF i <= 2 THEN <<>> ELSE <<b[i]>>]

\* All bytes of b and their checksum have been stored.
Whole(b) ==
    [state |-> "RxMsg", i |-> Len(b) + 1, type |-> b[1], data |-> SubSeq(b, 3, Len(b)),
     sum |-> b]

LEMMA PartFields ==
    ASSUME NEW m \in Message, NEW b, b = SumOf(m), NEW i \in 0 .. Len(b),
           NEW st \in {"WaitForStart", "RxMsg", "RxMsgEscaped"}
    PROVE  Part(b, i, st) \in Rx
<1>1. /\ b \in Seq(Byte) /\ Len(b) \in Nat /\ Len(b) >= 2
      /\ \A j \in 1 .. Len(b) : b[j] \in Byte
    BY SummedFacts, ElementOfSeq
<1>2. (IF i = 0 THEN 0 ELSE b[1]) \in Nat
    <2>1. 1 \in 1 .. Len(b)
        BY <1>1
    <2>2. b[1] \in Byte
        BY <1>1, <2>1
    <2>3. QED
        BY <2>2, ByteFacts
<1>3. SubSeq(b, 3, i - 1) \in Seq(Byte)
    <2>1. \A j \in 3 .. i - 1 : b[j] \in Byte
        BY <1>1
    <2>2. QED
        BY <2>1, SubSeqProperties
<1>4. (IF i <= 2 THEN <<>> ELSE <<b[i]>>) \in Seq(Byte)
    <2>1. i > 2 => b[i] \in Byte
        BY <1>1
    <2>2. QED
        BY <2>1
<1> DEFINE type == IF i = 0 THEN 0 ELSE b[1]
           data == SubSeq(b, 3, i - 1)
           sum == IF i <= 2 THEN <<>> ELSE <<b[i]>>
<1>5. /\ Part(b, i, st) = [state |-> st, i |-> i, type |-> type, data |-> data, sum |-> sum]
      /\ type \in Nat /\ data \in Seq(Byte) /\ sum \in Seq(Byte) /\ i \in Nat
    BY <1>2, <1>3, <1>4 DEF Part
<1> HIDE DEF type, data, sum
<1>6. QED
    BY <1>5, RxRecord

LEMMA StorePart ==
    ASSUME NEW m \in Message, NEW b, b = SumOf(m), NEW i \in 0 .. Len(b) - 1
    PROVE  Store(Part(b, i, "RxMsg"), <<b[i + 1]>>) = Part(b, i + 1, "RxMsg")
<1> DEFINE r == Part(b, i, "RxMsg")
           s == <<b[i + 1]>>
<1>1. /\ b \in Seq(Byte) /\ Len(b) \in Nat /\ Len(b) >= 2 /\ b[2] = 0
      /\ \A j \in 1 .. Len(b) : b[j] \in Byte
    BY SummedFacts, ElementOfSeq
<1>2. r \in Rx
    <2>1. i \in 0 .. Len(b)
        BY <1>1
    <2>2. QED
        BY <2>1, PartFields
<1>3. /\ r.state = "RxMsg" /\ r.i = i /\ r.type = (IF i = 0 THEN 0 ELSE b[1])
      /\ r.data = SubSeq(b, 3, i - 1) /\ r.sum = (IF i <= 2 THEN <<>> ELSE <<b[i]>>)
      /\ s[1] = b[i + 1]
    BY DEF Part
<1>4. Part(b, i + 1, "RxMsg") =
          [state |-> "RxMsg", i |-> i + 1, type |-> b[1], data |-> SubSeq(b, 3, i),
           sum |-> IF i < 2 THEN <<>> ELSE s]
    <2>1. i + 1 # 0 /\ (i + 1) - 1 = i /\ (i + 1 <= 2 <=> i < 2)
        BY <1>1
    <2>2. QED
        BY <2>1 DEF Part
<1> HIDE DEF r, s
<1>5. CASE i < 2
    <2>1. BitOr(r.type, IF r.i = 0 THEN s[1] ELSE 2 * s[1]) = b[1]
        <3>1. 1 \in 1 .. Len(b)
            BY <1>1
        <3>2. BitOr(0, b[1]) = b[1] /\ BitOr(b[1], 0) = b[1]
            BY <1>1, <3>1, BitOrZero
        <3>3. CASE i = 0
            BY <1>3, <3>2, <3>3
        <3>4. CASE i = 1
            BY <1>1, <1>3, <3>2, <3>4
        <3>5. QED
            BY <1>5, <3>3, <3>4
    <2>2. r.data = SubSeq(b, 3, i) /\ r.sum = <<>>
        <3>1. SubSeq(b, 3, i - 1) = <<>> /\ SubSeq(b, 3, i) = <<>>
            BY <1>5, SubSeqEmpty
        <3>2. QED
            BY <1>3, <1>5, <3>1
    <2>3. Store(r, s) = [state |-> r.state, i |-> r.i + 1,
                         type |-> BitOr(r.type, IF r.i = 0 THEN s[1] ELSE 2 * s[1]),
                         data |-> r.data, sum |-> r.sum]
        BY <1>2, <1>3, <1>5, StoreFields
    <2>4. QED
        BY <1>3, <1>4, <1>5, <2>1, <2>2, <2>3 DEF r, s
<1>6. CASE i >= 2
    <2>1. r.data \o r.sum = SubSeq(b, 3, i)
        <3>1. CASE i = 2
            <4>1. SubSeq(b, 3, i - 1) = <<>> /\ SubSeq(b, 3, i) = <<>>
                BY <3>1, SubSeqEmpty
            <4>2. QED
                BY <1>3, <3>1, <4>1
        <3>2. CASE i > 2
            <4>1. 3 \in 1 .. Len(b) /\ i \in 3 .. Len(b)
                BY <1>1, <3>2
            <4>2. SubSeq(b, 3, i) = SubSeq(b, 3, i - 1) \o <<b[i]>>
                BY <1>1, <4>1, SubSeqRecursiveSecond
            <4>3. QED
                BY <1>3, <3>2, <4>2
        <3>3. i \in Int
            OBVIOUS
        <3>4. i = 2 \/ i > 2
            BY <1>6, <3>3
        <3>5. QED
            BY <3>1, <3>2, <3>4
    <2>2. i \in Int /\ ~ (i < 2)
        BY <1>6
    <2>3. Store(r, s) = [state |-> r.state, i |-> r.i + 1, type |-> r.type,
                         data |-> r.data \o r.sum, sum |-> s]
        BY <1>2, <1>3, <2>2, StoreFields
    <2>4. Store(r, s) = [state |-> "RxMsg", i |-> i + 1, type |-> b[1],
                         data |-> SubSeq(b, 3, i), sum |-> s]
        <3>1. r.type = b[1] /\ r.state = "RxMsg" /\ r.i = i
            BY <1>3, <2>2
        <3>2. QED
            BY <2>1, <2>3, <3>1
    <2>5. Store(r, s) = Part(b, i + 1, "RxMsg")
        BY <1>4, <2>2, <2>4
    <2>6. QED
        BY <2>5 DEF r, s
<1>7. i < 2 \/ i >= 2
    <2>1. i \in Int
        OBVIOUS
    <2>2. QED
        BY <2>1
<1>8. QED
    BY <1>5, <1>6, <1>7

LEMMA StoreSum ==
    ASSUME NEW m \in Message, NEW b, b = SumOf(m)
    PROVE  /\ Store(Part(b, Len(b), "RxMsg"), b) = Whole(b)
           /\ Whole(b).type = m.type /\ Whole(b).data = m.data /\ Complete(Whole(b))
           /\ Whole(b).state = "RxMsg"
<1> DEFINE n == Len(b)
           r == Part(b, n, "RxMsg")
           data == m.data
<1>1. /\ b \in Seq(Byte) /\ n \in Nat /\ n >= 2 /\ b[1] = m.type /\ n = 2 + Len(data)
      /\ \A j \in 1 .. n : b[j] \in Byte
      /\ \A q \in 1 .. Len(data) : b[2 + q] = data[q]
    BY SummedFacts, ElementOfSeq
<1>2. data \in Seq(Byte) /\ Len(data) \in Nat
    BY SummedFacts DEF Message
<1>3. r \in Rx
    <2>1. n \in 0 .. Len(b)
        BY <1>1
    <2>2. QED
        BY <2>1, PartFields
<1>4. /\ r.state = "RxMsg" /\ r.i = n /\ r.type = b[1]
      /\ r.data = SubSeq(b, 3, n - 1) /\ r.sum = (IF n <= 2 THEN <<>> ELSE <<b[n]>>)
    <2>1. n # 0
        BY <1>1
    <2>2. QED
        BY <2>1 DEF Part
<1>5. Whole(b) = [state |-> "RxMsg", i |-> n + 1, type |-> b[1], data |-> SubSeq(b, 3, n),
                  sum |-> b]
    BY DEF Whole
<1>6. SubSeq(b, 3, n) = data
    <2> DEFINE t == SubSeq(b, 3, n)
    <2>1. CASE n = 2
        <3>1. t = <<>>
            BY <2>1, SubSeqEmpty
        <3>2. data = <<>>
            <4> HIDE DEF data, n
            <4>1. Len(data) = 0
                BY <1>1, <1>2, <2>1
            <4>2. QED
                BY <1>2, <4>1, EmptySeq
        <3>3. QED
            BY <3>1, <3>2
    <2>2. CASE n >= 3
        <3>1. /\ t \in Seq(Byte) /\ Len(t) = n - 2
              /\ \A q \in 1 .. n - 2 : t[q] = b[3 + q - 1]
            <4>1. \A j \in 3 .. n : b[j] \in Byte
                BY <1>1
            <4>2. QED
                BY <1>1, <2>2, <4>1, SubSeqProperties
        <3> HIDE DEF t
        <3>2. ASSUME NEW q \in 1 .. Len(data)
              PROVE  t[q] = data[q]
            <4>1. q \in 1 .. n - 2 /\ 3 + q - 1 = 2 + q
                BY <1>1, <1>2
            <4>2. QED
                BY <1>1, <3>1, <4>1
        <3>3. Len(t) = Len(data)
            BY <1>1, <1>2, <3>1
        <3> HIDE DEF data
        <3>4. t = data
            BY <1>2, <3>1, <3>2, <3>3, SeqEqual
        <3>5. QED
            BY <3>4 DEF t, data
    <2> HIDE DEF t
    <2>3. n = 2 \/ n >= 3
        BY <1>1
    <2>4. QED
        BY <2>1, <2>2, <2>3 DEF t
<1> HIDE DEF r
<1>7. r.data \o r.sum = SubSeq(b, 3, n)
    <2>1. CASE n = 2
        <3>1. SubSeq(b, 3, n - 1) = <<>> /\ SubSeq(b, 3, n) = <<>>
            BY <2>1, SubSeqEmpty
        <3>2. QED
            BY <1>4, <2>1, <3>1
    <2>2. CASE n > 2
        <3>1. 3 \in 1 .. Len(b) /\ n \in 3 .. Len(b)
            BY <1>1, <2>2
        <3>2. SubSeq(b, 3, n) = SubSeq(b, 3, n - 1) \o <<b[n]>>
            BY <1>1, <3>1, SubSeqRecursiveSecond
        <3>3. ~ (n <= 2)
            BY <1>1, <2>2
        <3>4. QED
            BY <1>4, <3>2, <3>3
    <2>3. n = 2 \/ n > 2
        BY <1>1
    <2>4. QED
        BY <2>1, <2>2, <2>3
<1>8. Store(r, b) = [state |-> r.state, i |-> r.i + 1, type |-> r.type,
                     data |-> r.data \o r.sum, sum |-> b]
    <2>1. ~ (r.i < 2)
        BY <1>1, <1>4
    <2>2. QED
        BY <1>3, <2>1, StoreFields
<1>9. Store(r, b) = Whole(b)
    BY <1>4, <1>5, <1>7, <1>8
<1>10. Complete(Whole(b))
    <2>1. Whole(b).i >= 2 /\ Whole(b).sum = b /\ Whole(b).type = m.type /\ Whole(b).data = m.data
        BY <1>1, <1>5, <1>6
    <2>2. QED
        BY <2>1 DEF Complete, SumOf
<1>11. QED
    BY <1>1, <1>5, <1>6, <1>9, <1>10 DEF r

-------------------------------------------------------------------------------
(* How attemptRx reads a frame.                                              *)

Special == {START, END, ESC}

\* attemptRx is at r when it has seen the first k symbols of the frame laid out by L.
Got(b, L, r, k) ==
    \/ k = 0 /\ r \in Rx /\ r.state # "RxMsgEscaped"
    \/ \E i \in 0 .. Len(b) : k = 1 + L[i] /\ r = Part(b, i, "RxMsg")
    \/ \E i \in 0 .. Len(b) - 1 :
           b[i + 1] \in Special /\ k = 2 + L[i] /\ r = Part(b, i, "RxMsgEscaped")
    \/ k = 2 + L[Len(b)] /\ r = Whole(b)

\* One symbol further.
Goes(b, L, r, k, s) ==
    ~ Accepts(r, s) /\ RxSymbol(r, s) \in Rx /\ Got(b, L, RxSymbol(r, s), k + 1)

LEMMA PartState ==
    ASSUME NEW b, NEW i, NEW st, NEW to
    PROVE  [Part(b, i, st) EXCEPT !.state = to] = Part(b, i, to)
<1> DEFINE type == IF i = 0 THEN 0 ELSE b[1]
           data == SubSeq(b, 3, i - 1)
           sum == IF i <= 2 THEN <<>> ELSE <<b[i]>>
<1>1. \A x : Part(b, i, x) = [state |-> x, i |-> i, type |-> type, data |-> data, sum |-> sum]
    BY DEF Part
<1> HIDE DEF type, data, sum
<1>2. QED
    BY <1>1

LEMMA LongSymbol ==
    ASSUME NEW s, Len(s) >= 2
    PROVE  \A c : s # <<c>>
<1> SUFFICES ASSUME NEW c, s = <<c>> PROVE FALSE
    OBVIOUS
<1>1. Len(s) = 1
    OBVIOUS
<1>2. QED
    BY <1>1

LEMMA GoesStart ==
    ASSUME NEW m \in Message, NEW b, NEW L, NEW F, FrameLaidOut(m, b, L, F),
           NEW r \in Rx, r.state # "RxMsgEscaped"
    PROVE  Goes(b, L, r, 0, F[1])
<1>1. F[1] = <<START>> /\ L[0] = 0 /\ b = SumOf(m) /\ Len(b) \in Nat
    BY SummedFacts DEF FrameLaidOut
<1>2. /\ <<START>> # <<END>> /\ <<START>> # <<ESC>>
    BY DEF START, END, ESC
<1>3. ~ Accepts(r, F[1])
    BY <1>1, <1>2 DEF Accepts
<1>4. RxSymbol(r, F[1]) = Started
    <2>1. r.state \in {"WaitForStart", "RxMsg"}
        BY RxFields
    <2>2. QED
        BY <1>1, <1>2, <2>1 DEF RxSymbol
<1>5. Started = Part(b, 0, "RxMsg")
    <2>1. SubSeq(b, 3, 0 - 1) = <<>>
        BY SubSeqEmpty
    <2>2. QED
        BY <2>1, StartedFields DEF Part
<1>6. 0 \in 0 .. Len(b) /\ 0 + 1 = 1 + L[0]
    BY <1>1
<1>7. Got(b, L, Started, 0 + 1)
    BY <1>5, <1>6 DEF Got
<1>8. QED
    BY <1>3, <1>4, <1>7, StartedFields DEF Goes

LEMMA GoesByte ==
    ASSUME NEW m \in Message, NEW b, NEW L, NEW F, FrameLaidOut(m, b, L, F),
           NEW i \in 0 .. Len(b) - 1
    PROVE  Goes(b, L, Part(b, i, "RxMsg"), 1 + L[i], F[2 + L[i]])
<1> DEFINE r == Part(b, i, "RxMsg")
           c == b[i + 1]
           s == F[2 + L[i]]
<1>1. /\ b = SumOf(m) /\ Len(b) \in Nat /\ b \in Seq(Byte)
      /\ i \in 0 .. Len(b) /\ i + 1 \in 1 .. Len(b) /\ (i + 1) - 1 = i
    BY SummedFacts DEF FrameLaidOut
<1>2. c \in Byte
    BY <1>1, ElementOfSeq
<1>3. /\ L[i + 1] = L[i] + Len(Escaped(c)) /\ L[i] \in Nat
      /\ \A q \in 1 .. Len(Escaped(c)) : F[1 + L[i] + q] = Escaped(c)[q]
    BY <1>1 DEF FrameLaidOut
<1>4. s = Escaped(c)[1]
    <2>1. 1 \in 1 .. Len(Escaped(c))
        BY <1>2, EscapedFacts
    <2>2. F[1 + L[i] + 1] = Escaped(c)[1]
        BY <1>3, <2>1
    <2>3. 1 + L[i] + 1 = 2 + L[i]
        BY <1>3
    <2>4. QED
        BY <2>2, <2>3
<1>5. r \in Rx /\ r.state = "RxMsg"
    BY <1>1, PartFields DEF Part
<1>6. CASE c \in Special
    <2>1. s = <<ESC>>
        BY <1>2, <1>4, <1>6, EscapedFacts DEF Special
    <2>2. <<ESC>> # <<END>> /\ <<ESC>> # <<START>>
        BY DEF START, ESC, END
    <2>3. RxSymbol(r, s) = Part(b, i, "RxMsgEscaped")
        <3>1. [r EXCEPT !.state = "RxMsgEscaped"] = Part(b, i, "RxMsgEscaped")
            BY PartState
        <3> HIDE DEF r, s
        <3>2. RxSymbol(r, s) = [r EXCEPT !.state = "RxMsgEscaped"]
            BY <1>5, <2>1, <2>2 DEF RxSymbol
        <3>3. QED
            BY <3>1, <3>2
    <2>4. ~ Accepts(r, s)
        BY <2>1, <2>2 DEF Accepts
    <2>5. (1 + L[i]) + 1 = 2 + L[i]
        BY <1>3
    <2> HIDE DEF r, s
    <2>6. Got(b, L, Part(b, i, "RxMsgEscaped"), (1 + L[i]) + 1)
        BY <1>6, <2>5 DEF Got
    <2>7. Part(b, i, "RxMsgEscaped") \in Rx
        BY <1>1, PartFields
    <2>8. QED
        BY <2>3, <2>4, <2>6, <2>7 DEF Goes, r, s
<1>7. CASE c \notin Special
    <2>1. s = <<c>> /\ Len(Escaped(c)) = 1
        BY <1>2, <1>4, <1>7, EscapedFacts DEF Special
    <2>2. s # <<START>> /\ s # <<END>> /\ s # <<ESC>>
        BY <1>7, <2>1 DEF Special
    <2>3. RxSymbol(r, s) = Store(r, <<c>>)
        BY <1>5, <2>1, <2>2 DEF RxSymbol
    <2>4. RxSymbol(r, s) = Part(b, i + 1, "RxMsg")
        BY <1>1, <2>3, StorePart
    <2>5. ~ Accepts(r, s)
        BY <2>2 DEF Accepts
    <2>6. (1 + L[i]) + 1 = 1 + L[i + 1] /\ i + 1 \in 0 .. Len(b)
        BY <1>1, <1>3, <2>1
    <2> HIDE DEF r, s
    <2>7. Got(b, L, Part(b, i + 1, "RxMsg"), (1 + L[i]) + 1)
        BY <2>6 DEF Got
    <2>8. Part(b, i + 1, "RxMsg") \in Rx
        BY <1>1, <2>6, PartFields
    <2>9. QED
        BY <2>4, <2>5, <2>7, <2>8 DEF Goes, r, s
<1>8. QED
    BY <1>6, <1>7

LEMMA GoesEscaped ==
    ASSUME NEW m \in Message, NEW b, NEW L, NEW F, FrameLaidOut(m, b, L, F),
           NEW i \in 0 .. Len(b) - 1, b[i + 1] \in Special
    PROVE  Goes(b, L, Part(b, i, "RxMsgEscaped"), 2 + L[i], F[3 + L[i]])
<1> DEFINE r == Part(b, i, "RxMsgEscaped")
           c == b[i + 1]
           s == F[3 + L[i]]
<1>1. /\ b = SumOf(m) /\ Len(b) \in Nat /\ b \in Seq(Byte)
      /\ i \in 0 .. Len(b) /\ i + 1 \in 1 .. Len(b) /\ (i + 1) - 1 = i
    BY SummedFacts DEF FrameLaidOut
<1>2. c \in Byte
    BY <1>1, ElementOfSeq
<1>3. /\ L[i + 1] = L[i] + Len(Escaped(c)) /\ L[i] \in Nat
      /\ \A q \in 1 .. Len(Escaped(c)) : F[1 + L[i] + q] = Escaped(c)[q]
    BY <1>1 DEF FrameLaidOut
<1>4. Len(Escaped(c)) = 2 /\ Escaped(c)[2] = <<c + 128>>
    BY <1>2, EscapedFacts DEF Special
<1>5. s = <<c + 128>>
    <2>1. 2 \in 1 .. Len(Escaped(c))
        BY <1>4
    <2>2. F[1 + L[i] + 2] = Escaped(c)[2]
        BY <1>3, <2>1
    <2>3. 1 + L[i] + 2 = 3 + L[i]
        BY <1>3
    <2>4. QED
        BY <1>4, <2>2, <2>3
<1>6. r.state = "RxMsgEscaped" /\ [r EXCEPT !.state = "RxMsg"] = Part(b, i, "RxMsg")
    <2>1. r.state = "RxMsgEscaped"
        BY DEF Part
    <2>2. QED
        BY <2>1, PartState
<1>7. ~ Accepts(r, s)
    BY <1>6 DEF Accepts
<1>8. RxSymbol(r, s) = Unescaped(r, s)
    BY <1>6 DEF RxSymbol
<1>9. Unescaped(r, s) = Store(Part(b, i, "RxMsg"), <<c>>)
    <2>1. c + 128 >= 128 /\ (c + 128) - 128 = c
        BY <1>2, ByteFacts
    <2>2. Len(s) = 1 /\ s[1] = c + 128
        BY <1>5
    <2> HIDE DEF r, s, c
    <2>3. QED
        BY <1>6, <2>1, <2>2 DEF Unescaped
<1>10. RxSymbol(r, s) = Part(b, i + 1, "RxMsg")
    BY <1>1, <1>8, <1>9, StorePart
<1>11. (2 + L[i]) + 1 = 1 + L[i + 1] /\ i + 1 \in 0 .. Len(b)
    BY <1>1, <1>3, <1>4
<1> HIDE DEF r, s
<1>12. Got(b, L, Part(b, i + 1, "RxMsg"), (2 + L[i]) + 1)
    BY <1>11 DEF Got
<1>13. Part(b, i + 1, "RxMsg") \in Rx
    BY <1>1, <1>11, PartFields
<1>14. QED
    BY <1>7, <1>10, <1>12, <1>13 DEF Goes, r, s

LEMMA GoesSum ==
    ASSUME NEW m \in Message, NEW b, NEW L, NEW F, FrameLaidOut(m, b, L, F)
    PROVE  Goes(b, L, Part(b, Len(b), "RxMsg"), 1 + L[Len(b)], F[2 + L[Len(b)]])
<1> DEFINE r == Part(b, Len(b), "RxMsg")
           s == F[2 + L[Len(b)]]
<1>1. /\ b = SumOf(m) /\ Len(b) \in Nat /\ b \in Seq(Byte) /\ Len(b) >= 2
      /\ Len(b) \in 0 .. Len(b)
    BY SummedFacts DEF FrameLaidOut
<1>2. L[Len(b)] \in Nat /\ s = b
    <2>1. L[Len(b)] \in Nat /\ F[L[Len(b)] + 2] = b
        BY <1>1 DEF FrameLaidOut
    <2>2. L[Len(b)] + 2 = 2 + L[Len(b)]
        BY <2>1
    <2>3. QED
        BY <2>1, <2>2
<1>3. s # <<START>> /\ s # <<END>> /\ s # <<ESC>>
    <2>1. s = b /\ Len(b) >= 2
        BY <1>1, <1>2
    <2> HIDE DEF s
    <2>2. Len(s) >= 2
        BY ONLY <2>1
    <2>3. QED
        BY <2>2, LongSymbol
<1>4. r.state = "RxMsg"
    BY DEF Part
<1>5. RxSymbol(r, s) = Store(r, s) /\ ~ Accepts(r, s)
    BY <1>3, <1>4 DEF RxSymbol, Accepts
<1>6. RxSymbol(r, s) = Whole(b)
    BY <1>1, <1>2, <1>5, StoreSum
<1>7. Whole(b) \in Rx
    <2>1. r \in Rx /\ b # <<>>
        BY <1>1, PartFields
    <2>2. Store(r, b) \in Rx
        BY <1>1, <2>1, StoreType
    <2>3. QED
        BY <1>1, <2>2, StoreSum
<1>8. (1 + L[Len(b)]) + 1 = 2 + L[Len(b)]
    BY <1>2
<1> HIDE DEF r, s
<1>9. Got(b, L, Whole(b), (1 + L[Len(b)]) + 1)
    BY <1>8 DEF Got
<1>10. QED
    BY <1>5, <1>6, <1>7, <1>9 DEF Goes, r, s

\* attemptRx is at r when it has seen the first k symbols of m's frame.
Reading(r, m, k) ==
    \E L : FrameLaidOut(m, SumOf(m), L, Frame(m)) /\ Got(SumOf(m), L, r, k)

LEMMA FrameType ==
    ASSUME NEW m \in Message
    PROVE  /\ Frame(m) \in Seq(Seq(Byte)) /\ Len(Frame(m)) \in Nat /\ Len(Frame(m)) >= 3
           /\ Frame(m)[Len(Frame(m))] = <<END>>
           /\ Frame(m)[Len(Frame(m)) - 1] = SumOf(m)
           /\ \A k \in 1 .. Len(Frame(m)) : k # Len(Frame(m)) - 1 => Frame(m)[k] \in Single
<1> DEFINE b == SumOf(m)
           F == Frame(m)
<1>1. PICK L : FrameLaidOut(m, b, L, F)
    BY FrameLayout
<1>2. Len(b) \in Nat
    BY SummedFacts
<1>3. L[Len(b)] \in Nat
    BY <1>1, <1>2 DEF FrameLaidOut
<1> DEFINE e == L[Len(b)]
<1>4. /\ F \in Seq(Seq(Byte)) /\ Len(F) = e + 3 /\ F[e + 2] = b /\ F[e + 3] = <<END>>
      /\ \A k \in 1 .. Len(F) : k # Len(F) - 1 => F[k] \in Single
    BY <1>1 DEF FrameLaidOut
<1> HIDE DEF b, F, e
<1>5. e \in Nat
    BY <1>3 DEF e
<1>6. Len(F) - 1 = e + 2 /\ Len(F) >= 3 /\ Len(F) \in Nat
    BY <1>4, <1>5
<1>7. QED
    BY <1>4, <1>6 DEF b, F

LEMMA ReadingStart ==
    ASSUME NEW m \in Message, NEW r \in Rx, r.state # "RxMsgEscaped"
    PROVE  Reading(r, m, 0)
BY FrameLayout DEF Reading, Got

LEMMA ReadingStep ==
    ASSUME NEW m \in Message, NEW r, NEW k \in Nat, Reading(r, m, k),
           k + 1 < Len(Frame(m))
    PROVE  LET s == Frame(m)[k + 1] IN
           ~ Accepts(r, s) /\ RxSymbol(r, s) \in Rx /\ Reading(RxSymbol(r, s), m, k + 1)
<1> DEFINE b == SumOf(m)
           F == Frame(m)
           s == F[k + 1]
<1>1. PICK L : FrameLaidOut(m, b, L, F) /\ Got(b, L, r, k)
    BY DEF Reading
<1>2. /\ Len(b) \in Nat /\ L \in [0 .. Len(b) -> Nat] /\ Len(F) = L[Len(b)] + 3
    BY <1>1, SummedFacts DEF FrameLaidOut
<1> HIDE DEF b, F
<1>3. Goes(b, L, r, k, s)
    <2>1. CASE k = 0 /\ r \in Rx /\ r.state # "RxMsgEscaped"
        <3>1. k + 1 = 1
            BY <2>1
        <3>2. QED
            BY <1>1, <2>1, <3>1, GoesStart
    <2>2. ASSUME NEW i \in 0 .. Len(b), k = 1 + L[i], r = Part(b, i, "RxMsg")
          PROVE  Goes(b, L, r, k, s)
        <3>1. L[i] \in Nat
            BY <1>2
        <3>2. k + 1 = 2 + L[i]
            BY <2>2, <3>1
        <3>3. CASE i = Len(b)
            BY <1>1, <2>2, <3>2, <3>3, GoesSum
        <3>4. CASE i # Len(b)
            <4>1. i \in 0 .. Len(b) - 1
                BY <1>2, <3>4
            <4>2. QED
                BY <1>1, <2>2, <3>2, <4>1, GoesByte
        <3>5. QED
            BY <3>3, <3>4
    <2>3. ASSUME NEW i \in 0 .. Len(b) - 1, b[i + 1] \in Special, k = 2 + L[i],
                 r = Part(b, i, "RxMsgEscaped")
          PROVE  Goes(b, L, r, k, s)
        <3>1. i \in 0 .. Len(b)
            BY <1>2
        <3>2. L[i] \in Nat
            BY <1>2, <3>1
        <3>3. k + 1 = 3 + L[i]
            BY <2>3, <3>2
        <3>4. QED
            BY <1>1, <2>3, <3>3, GoesEscaped
    <2>4. k # 2 + L[Len(b)]
        <3>1. Len(b) \in 0 .. Len(b)
            BY <1>2
        <3>2. L[Len(b)] \in Nat
            BY <1>2, <3>1
        <3>3. QED
            BY <1>2, <3>2 DEF F
    <2>5. QED
        BY <1>1, <2>1, <2>2, <2>3, <2>4 DEF Got
<1>4. QED
    BY <1>1, <1>3 DEF Goes, Reading, b, F

LEMMA ReadingEnd ==
    ASSUME NEW m \in Message, NEW r, Reading(r, m, Len(Frame(m)) - 1)
    PROVE  Accepts(r, <<END>>) /\ r.type = m.type /\ r.data = m.data
<1> DEFINE b == SumOf(m)
           F == Frame(m)
           k == Len(F) - 1
<1>1. PICK L : FrameLaidOut(m, b, L, F) /\ Got(b, L, r, k)
    BY DEF Reading
<1> DEFINE e == L[Len(b)]
<1>2. Len(b) \in Nat /\ Len(b) \in 0 .. Len(b)
    BY SummedFacts
<1> HIDE DEF b
<1>3. e \in Nat /\ Len(F) = e + 3
    BY <1>1, <1>2 DEF FrameLaidOut
<1> HIDE DEF e, F
<1>4. k = e + 2
    BY <1>3
<1> HIDE DEF k
<1>5. k # 0
    BY <1>3, <1>4
<1>6. ASSUME NEW i \in 0 .. Len(b)
      PROVE  k # 1 + L[i]
    <2>1. L[i] <= e /\ L[i] \in Nat
        BY <1>1, LayoutGrows DEF e
    <2>2. QED
        BY <1>3, <1>4, <2>1
<1>7. ASSUME NEW i \in 0 .. Len(b) - 1
      PROVE  k # 2 + L[i]
    <2>1. i \in 0 .. Len(b) /\ i < Len(b)
        BY <1>2
    <2>2. L[i] < e /\ L[i] \in Nat
        BY <1>1, <2>1, LayoutGrows DEF e
    <2>3. QED
        BY <1>3, <1>4, <2>2
<1>8. r = Whole(b)
    BY <1>1, <1>5, <1>6, <1>7 DEF Got
<1>9. QED
    BY <1>8, StoreSum DEF Accepts, b

Symbol == Seq(Byte) \ {<<>>}

LEMMA FrameSymbols ==
    ASSUME NEW m \in Message
    PROVE  Frame(m) \in Seq(Symbol)
<1> DEFINE F == Frame(m)
<1>1. F \in Seq(Seq(Byte)) /\ Len(F) \in Nat
    BY FrameType
<1>2. ASSUME NEW k \in 1 .. Len(F)
      PROVE  F[k] \in Symbol
    <2>1. CASE k = Len(F) - 1
        <3>1. F[k] = SumOf(m)
            BY <2>1, FrameType
        <3>2. SumOf(m) \in Symbol
            BY SummedFacts, EmptySeq DEF Symbol
        <3>3. QED
            BY <3>1, <3>2
    <2>2. CASE k # Len(F) - 1
        <3>1. F[k] \in Single
            BY <2>2, FrameType
        <3>2. \A c \in Byte : <<c>> \in Symbol
            BY DEF Symbol
        <3>3. QED
            BY <3>1, <3>2 DEF Single
    <2>3. QED
        BY <2>1, <2>2
<1> HIDE DEF F
<1>3. F \in Seq(Symbol)
    BY <1>1, <1>2
<1>4. QED
    BY <1>3 DEF F

\* The states of attemptRx along s.
Along(r, s, f) ==
    /\ f \in [0 .. Len(s) -> Rx] /\ f[0] = r
    /\ \A i \in 1 .. Len(s) : f[i] = RxSymbol(f[i - 1], s[i])
    /\ After(r, s) = f[Len(s)]

LEMMA AfterFacts ==
    ASSUME NEW r \in Rx, NEW s \in Seq(Symbol)
    PROVE  \E f : Along(r, s, f)
<1> DEFINE n == Len(s)
           made(f) == [k \in 0 .. n |-> IF k = 0 THEN r ELSE RxSymbol(f[k - 1], s[k])]
           next == [k \in 1 .. n |-> [q \in Rx |-> RxSymbol(q, s[k])]]
           after == CHOOSE f : f = made(f)
<1>1. n \in Nat /\ \A k \in 1 .. n : s[k] \in Symbol
    BY LenProperties, ElementOfSeq
<1> HIDE DEF n
<1>2. \A k \in 1 .. n : \A q \in Rx : RxSymbol(q, s[k]) \in Rx
    BY <1>1, RxSymbolType DEF Symbol
<1>3. next \in [1 .. n -> [Rx -> Rx]]
    BY <1>2
<1>4. PICK g : Runs(Rx, r, n, next, g)
    <2> HIDE DEF next
    <2>1. QED
        BY <1>1, <1>3, Recursion
<1>5. g \in [0 .. n -> Rx] /\ g[0] = r /\ \A k \in 1 .. n : g[k] = RxSymbol(g[k - 1], s[k])
    <2>1. g \in [0 .. n -> Rx] /\ g[0] = r /\ \A k \in 1 .. n : g[k] = next[k][g[k - 1]]
        BY <1>4 DEF Runs
    <2>2. \A k \in 1 .. n : g[k - 1] \in Rx
        <3>1. \A k \in 1 .. n : k - 1 \in 0 .. n
            BY <1>1
        <3>2. QED
            BY <2>1, <3>1
    <2>3. QED
        BY <2>1, <2>2
<1>6. g = made(g)
    <2>1. \A k \in 0 .. n : g[k] = IF k = 0 THEN r ELSE RxSymbol(g[k - 1], s[k])
        <3>1. \A k \in 0 .. n : k # 0 => k \in 1 .. n
            BY <1>1
        <3>2. QED
            BY <1>5, <3>1
    <2>2. QED
        BY <1>5, <2>1
<1>7. after = made(after)
    <2>1. \E f : f = made(f)
        BY <1>6
    <2> HIDE DEF made
    <2>2. QED
        BY <2>1
<1>8. After(r, s) = after[n]
    BY DEF After, n
<1> HIDE DEF after
<1>9. /\ after[0] = r
      /\ \A k \in 1 .. n : after[k] = RxSymbol(after[k - 1], s[k])
    <2>1. \A k \in 0 .. n : after[k] = IF k = 0 THEN r ELSE RxSymbol(after[k - 1], s[k])
        BY <1>7
    <2>2. 0 \in 0 .. n /\ \A k \in 1 .. n : k \in 0 .. n /\ k # 0
        BY <1>1
    <2> HIDE DEF made
    <2>3. QED
        BY <2>1, <2>2
<1>10. \A k \in 0 .. n : after[k] \in Rx
    <2> DEFINE P == {k \in 0 .. n : after[k] \in Rx}
    <2>1. 0 \in P
        BY <1>1, <1>9
    <2>2. \A k \in P : k < n => k + 1 \in P
        <3> SUFFICES ASSUME NEW k \in P, k < n
                     PROVE  k + 1 \in P
            OBVIOUS
        <3>1. after[k] \in Rx /\ k + 1 \in 1 .. n /\ (k + 1) - 1 = k /\ k + 1 \in 0 .. n
            BY <1>1
        <3>2. after[k + 1] = RxSymbol(after[k], s[k + 1])
            BY <1>9, <3>1
        <3>3. QED
            BY <1>2, <3>1, <3>2
    <2>3. P = 0 .. n
        <3>1. P \in SUBSET (0 .. n)
            OBVIOUS
        <3> HIDE DEF P
        <3>2. QED
            BY <1>1, <2>1, <2>2, <3>1, IntervalInduction
    <2>4. QED
        BY <2>3
<1>11. after \in [0 .. n -> Rx]
    <2>1. after = [k \in 0 .. n |-> after[k]]
        BY <1>7
    <2>2. QED
        BY <1>10, <2>1
<1>12. Along(r, s, after)
    <2> HIDE DEF made
    <2>1. QED
        BY <1>8, <1>9, <1>11 DEF Along, n
<1>13. QED
    BY <1>12

\* All of a frame but its END.
LEMMA AfterFrame ==
    ASSUME NEW m \in Message, NEW r \in Rx, r.state # "RxMsgEscaped"
    PROVE  Reading(After(r, Front(Frame(m))), m, Len(Frame(m)) - 1)
<1> DEFINE F == Frame(m)
           s == Front(F)
           n == Len(F) - 1
<1>1. F \in Seq(Symbol) /\ n \in Nat /\ n < Len(F) /\ Len(F) \in Nat
    BY FrameSymbols, FrameType
<1>2. \A k \in 1 .. n : F[k] \in Symbol
    BY <1>1
<1>3. s = SubSeq(F, 1, n)
    BY DEF Front
<1> HIDE DEF F, n, s
<1>4. s \in Seq(Symbol) /\ Len(s) = n /\ \A k \in 1 .. n : s[k] = F[k]
    <2>1. /\ s \in Seq(Symbol) /\ Len(s) = (IF 1 <= n THEN n - 1 + 1 ELSE 0)
          /\ \A k \in 1 .. n - 1 + 1 : s[k] = F[1 + k - 1]
        <3>1. 1 \in Int /\ n \in Int
            BY <1>1
        <3>2. QED
            BY <1>2, <1>3, <3>1, SubSeqProperties
    <2>2. n - 1 + 1 = n /\ \A k \in 1 .. n : 1 + k - 1 = k
        BY <1>1
    <2>3. QED
        BY <1>1, <2>1, <2>2
<1>5. PICK f : Along(r, s, f)
    BY <1>4, AfterFacts
<1>6. /\ f \in [0 .. n -> Rx] /\ f[0] = r
      /\ \A k \in 1 .. n : f[k] = RxSymbol(f[k - 1], F[k])
      /\ After(r, s) = f[n]
    BY <1>4, <1>5 DEF Along
<1> DEFINE P == {k \in 0 .. n : Reading(f[k], m, k)}
<1>7. 0 \in P
    BY <1>1, <1>6, ReadingStart
<1>8. \A k \in P : k < n => k + 1 \in P
    <2> SUFFICES ASSUME NEW k \in P, k < n
                 PROVE  k + 1 \in P
        OBVIOUS
    <2>1. /\ k \in Nat /\ k + 1 \in 1 .. n /\ (k + 1) - 1 = k /\ k + 1 \in 0 .. n
          /\ Reading(f[k], m, k)
        BY <1>1
    <2>2. k + 1 < Len(Frame(m))
        BY <1>1, <2>1 DEF F
    <2>3. f[k + 1] = RxSymbol(f[k], Frame(m)[k + 1])
        BY <1>6, <2>1 DEF F
    <2>4. Reading(RxSymbol(f[k], Frame(m)[k + 1]), m, k + 1)
        BY <2>1, <2>2, ReadingStep
    <2>5. QED
        BY <2>1, <2>3, <2>4
<1>9. P = 0 .. n
    <2>1. P \in SUBSET (0 .. n)
        OBVIOUS
    <2> HIDE DEF P
    <2>2. QED
        BY <1>1, <1>7, <1>8, <2>1, IntervalInduction
<1>10. n \in P
    <2>1. n \in 0 .. n
        BY <1>1
    <2> HIDE DEF P
    <2>2. QED
        BY <1>9, <2>1
<1>11. QED
    BY <1>6, <1>10 DEF s, F, n

-------------------------------------------------------------------------------
(* Parts of the line.                                                        *)

LEMMA SliceFacts ==
    ASSUME NEW S, NEW s \in Seq(S), NEW a \in 1 .. Len(s) + 1, NEW z \in 0 .. Len(s),
           a <= z + 1
    PROVE  LET t == SubSeq(s, a, z) IN
           /\ t \in Seq(S) /\ Len(t) = z + 1 - a
           /\ \A q \in 1 .. z + 1 - a : t[q] = s[a + q - 1]
<1> DEFINE t == SubSeq(s, a, z)
<1>1. Len(s) \in Nat /\ \A i \in 1 .. Len(s) : s[i] \in S
    BY LenProperties, ElementOfSeq
<1>2. \A i \in a .. z : s[i] \in S
    BY <1>1
<1>3. a \in Int /\ z \in Int
    BY <1>1
<1>4. t \in Seq(S) /\ Len(t) = (IF a <= z THEN z - a + 1 ELSE 0)
      /\ \A q \in 1 .. z - a + 1 : t[q] = s[a + q - 1]
    BY <1>2, <1>3, SubSeqProperties
<1>5. z - a + 1 = z + 1 - a /\ (a <= z \/ z + 1 - a = 0)
    BY <1>1, <1>3
<1> HIDE DEF t
<1>6. t \in Seq(S) /\ Len(t) = z + 1 - a /\ \A q \in 1 .. z + 1 - a : t[q] = s[a + q - 1]
    BY <1>4, <1>5
<1>7. QED
    BY <1>6 DEF t

LEMMA RemoveFacts ==
    ASSUME NEW S, NEW s \in Seq(S), NEW i \in 1 .. Len(s)
    PROVE  LET t == RemoveAt(s, i) IN
           /\ t \in Seq(S) /\ Len(t) = Len(s) - 1
           /\ \A q \in 1 .. Len(s) - 1 : t[q] = IF q < i THEN s[q] ELSE s[q + 1]
<1> DEFINE n == Len(s)
           u == SubSeq(s, 1, i - 1)
           v == SubSeq(s, i + 1, n)
<1>1. n \in Nat /\ i \in 1 .. n
    BY LenProperties
<1>2. u \in Seq(S) /\ Len(u) = i - 1 /\ \A q \in 1 .. i - 1 : u[q] = s[q]
    <2>1. 1 \in 1 .. Len(s) + 1 /\ i - 1 \in 0 .. Len(s) /\ 1 <= (i - 1) + 1
          /\ (i - 1) + 1 - 1 = i - 1 /\ \A q \in 1 .. i - 1 : 1 + q - 1 = q
        BY <1>1
    <2>2. u \in Seq(S) /\ Len(u) = (i - 1) + 1 - 1
          /\ \A q \in 1 .. (i - 1) + 1 - 1 : u[q] = s[1 + q - 1]
        BY <2>1, SliceFacts
    <2> HIDE DEF u
    <2>3. QED
        BY <2>1, <2>2
<1>3. v \in Seq(S) /\ Len(v) = n - i /\ \A q \in 1 .. n - i : v[q] = s[i + q]
    <2>1. i + 1 \in 1 .. Len(s) + 1 /\ n \in 0 .. Len(s) /\ i + 1 <= n + 1
          /\ n + 1 - (i + 1) = n - i /\ \A q \in 1 .. n - i : (i + 1) + q - 1 = i + q
        BY <1>1
    <2>2. v \in Seq(S) /\ Len(v) = n + 1 - (i + 1)
          /\ \A q \in 1 .. n + 1 - (i + 1) : v[q] = s[(i + 1) + q - 1]
        BY <2>1, SliceFacts
    <2> HIDE DEF v
    <2>3. QED
        BY <2>1, <2>2
<1>4. RemoveAt(s, i) = u \o v
    BY DEF RemoveAt
<1> HIDE DEF u, v, n
<1> DEFINE t == u \o v
<1>5. /\ t \in Seq(S) /\ Len(t) = Len(u) + Len(v)
      /\ \A q \in 1 .. Len(u) : t[q] = u[q]
      /\ \A q \in 1 .. Len(v) : t[Len(u) + q] = v[q]
    <2>1. u \in Seq(S) /\ v \in Seq(S)
        BY <1>2, <1>3
    <2>2. QED
        BY ONLY <2>1, ConcatIndex
<1> HIDE DEF t
<1>6. Len(t) = n - 1
    BY <1>1, <1>2, <1>3, <1>5
<1>7. ASSUME NEW q \in 1 .. n - 1
      PROVE  t[q] = IF q < i THEN s[q] ELSE s[q + 1]
    <2>1. CASE q < i
        <3>1. q \in 1 .. i - 1 /\ q \in 1 .. Len(u)
            BY <1>1, <1>2, <2>1
        <3>2. QED
            BY <1>2, <1>5, <2>1, <3>1
    <2>2. CASE ~ (q < i)
        <3>1. q - (i - 1) \in 1 .. n - i /\ q - (i - 1) \in 1 .. Len(v)
              /\ Len(u) + (q - (i - 1)) = q /\ i + (q - (i - 1)) = q + 1
            BY <1>1, <1>2, <1>3, <2>2
        <3>2. t[Len(u) + (q - (i - 1))] = s[i + (q - (i - 1))]
            BY <1>3, <1>5, <3>1
        <3>3. QED
            BY <2>2, <3>1, <3>2
    <2>3. QED
        BY <2>1, <2>2
<1>8. QED
    BY <1>4, <1>5, <1>6, <1>7 DEF t, n

\* t is s with e before its i-th element.
Inserted(s, i, e, t) ==
    /\ Len(t) = Len(s) + 1
    /\ \A q \in 1 .. Len(s) + 1 :
           t[q] = IF q < i THEN s[q] ELSE IF q = i THEN e ELSE s[q - 1]

LEMMA InsertFacts ==
    ASSUME NEW S, NEW s \in Seq(S), NEW i \in 1 .. Len(s), NEW e \in S
    PROVE  InsertAt(s, i, e) \in Seq(S) /\ Inserted(s, i, e, InsertAt(s, i, e))
<1> DEFINE n == Len(s)
           u == SubSeq(s, 1, i - 1)
           v == SubSeq(s, i, n)
           w == u \o <<e>>
<1>1. n \in Nat /\ i \in 1 .. n
    BY LenProperties
<1>2. u \in Seq(S) /\ Len(u) = i - 1 /\ \A q \in 1 .. i - 1 : u[q] = s[q]
    <2>1. 1 \in 1 .. Len(s) + 1 /\ i - 1 \in 0 .. Len(s) /\ 1 <= (i - 1) + 1
          /\ (i - 1) + 1 - 1 = i - 1 /\ \A q \in 1 .. i - 1 : 1 + q - 1 = q
        BY <1>1
    <2>2. u \in Seq(S) /\ Len(u) = (i - 1) + 1 - 1
          /\ \A q \in 1 .. (i - 1) + 1 - 1 : u[q] = s[1 + q - 1]
        BY <2>1, SliceFacts
    <2> HIDE DEF u
    <2>3. QED
        BY <2>1, <2>2
<1>3. v \in Seq(S) /\ Len(v) = n + 1 - i /\ \A q \in 1 .. n + 1 - i : v[q] = s[i + q - 1]
    <2>1. i \in 1 .. Len(s) + 1 /\ n \in 0 .. Len(s) /\ i <= n + 1
        BY <1>1
    <2>2. QED
        BY <2>1, SliceFacts
<1>4. InsertAt(s, i, e) = w \o v
    BY DEF InsertAt
<1> HIDE DEF u, v, n
<1>5. w \in Seq(S) /\ Len(w) = i /\ w[i] = e /\ \A q \in 1 .. i - 1 : w[q] = s[q]
    <2>1. <<e>> \in Seq(S) /\ Len(<<e>>) = 1 /\ <<e>>[1] = e
        OBVIOUS
    <2>2. /\ w \in Seq(S) /\ Len(w) = Len(u) + Len(<<e>>)
          /\ \A q \in 1 .. Len(u) : w[q] = u[q]
          /\ \A q \in 1 .. Len(<<e>>) : w[Len(u) + q] = <<e>>[q]
        <3>1. u \in Seq(S) /\ <<e>> \in Seq(S)
            BY <1>2, <2>1
        <3>2. QED
            BY ONLY <3>1, ConcatIndex
    <2> DEFINE x == <<e>>
    <2> HIDE DEF w, x
    <2>3. /\ Len(x) = 1 /\ x[1] = e /\ w \in Seq(S) /\ Len(w) = Len(u) + Len(x)
          /\ \A q \in 1 .. Len(u) : w[q] = u[q]
          /\ \A q \in 1 .. Len(x) : w[Len(u) + q] = x[q]
        BY <2>1, <2>2 DEF x
    <2>4. Len(w) = i /\ w[i] = e
        <3>1. 1 \in 1 .. Len(x) /\ Len(u) + 1 = i /\ Len(u) + Len(x) = i
            BY <1>1, <1>2, <2>3
        <3>2. QED
            BY <2>3, <3>1
    <2>5. QED
        BY <1>2, <2>3, <2>4
<1> HIDE DEF w
<1> DEFINE t == w \o v
<1>6. /\ t \in Seq(S) /\ Len(t) = Len(w) + Len(v)
      /\ \A q \in 1 .. Len(w) : t[q] = w[q]
      /\ \A q \in 1 .. Len(v) : t[Len(w) + q] = v[q]
    <2>1. w \in Seq(S) /\ v \in Seq(S)
        BY <1>3, <1>5
    <2>2. QED
        BY ONLY <2>1, ConcatIndex
<1> HIDE DEF t
<1>7. Len(t) = n + 1
    BY <1>1, <1>3, <1>5, <1>6
<1>8. ASSUME NEW q \in 1 .. n + 1
      PROVE  t[q] = IF q < i THEN s[q] ELSE IF q = i THEN e ELSE s[q - 1]
    <2>1. CASE q < i
        <3>1. q \in 1 .. i - 1 /\ q \in 1 .. Len(w)
            BY <1>1, <1>5, <2>1
        <3>2. QED
            BY <1>5, <1>6, <2>1, <3>1
    <2>2. CASE q = i
        <3>1. q \in 1 .. Len(w) /\ ~ (q < i)
            BY <1>1, <1>5, <2>2
        <3>2. QED
            BY <1>5, <1>6, <2>2, <3>1
    <2>3. CASE i < q
        <3>1. q - i \in 1 .. n + 1 - i /\ q - i \in 1 .. Len(v)
              /\ Len(w) + (q - i) = q /\ i + (q - i) - 1 = q - 1
            BY <1>1, <1>3, <1>5, <2>3
        <3>2. t[Len(w) + (q - i)] = s[i + (q - i) - 1]
            BY <1>3, <1>6, <3>1
        <3>3. ~ (q < i) /\ q # i
            BY <1>1, <2>3
        <3>4. QED
            BY <3>1, <3>2, <3>3
    <2>4. q < i \/ q = i \/ i < q
        BY <1>1
    <2>5. QED
        BY <2>1, <2>2, <2>3, <2>4
<1>9. Inserted(s, i, e, t)
    BY <1>7, <1>8 DEF n, Inserted
<1>10. QED
    BY <1>4, <1>6, <1>9 DEF t

-------------------------------------------------------------------------------
(* The types of the variables.                                               *)

FramesTypes ==
    /\ line \in Seq(Symbol) /\ rx \in Rx /\ sent \in Seq(Messages)
    /\ accepted \in Seq([type : Nat, data : Seq(Byte)]) /\ faults \in Nat

LEMMA MessagesTyped == Messages \subseteq Message
BY FramingAssumption DEF Message

LEMMA ReceivedTail ==
    ASSUME FramesTypes, NEW dropped \in 0 .. Len(line), Receive(dropped)
    PROVE  /\ Len(line) \in Nat /\ dropped < Len(line) /\ line[1] \in Symbol
           /\ Head(line) = line[1]
           /\ line' \in Seq(Symbol) /\ Len(line') = Len(line) - 1 - dropped
           /\ \A q \in 1 .. Len(line') : line'[q] = line[dropped + 1 + q]
<1>1. line \in Seq(Symbol) /\ line # <<>>
    BY DEF FramesTypes, Receive
<1>2. Len(line) \in Nat /\ Len(line) >= 1 /\ line[1] \in Symbol /\ Head(line) = line[1]
    BY <1>1, EmptySeq, ElementOfSeq
<1>3. dropped < Len(line)
    BY <1>2 DEF Receive
<1>4. line' = SubSeq(line, dropped + 2, Len(line))
    BY DEF Receive
<1>5. dropped + 2 \in 1 .. Len(line) + 1 /\ Len(line) \in 0 .. Len(line)
      /\ dropped + 2 <= Len(line) + 1 /\ Len(line) + 1 - (dropped + 2) = Len(line) - 1 - dropped
    BY <1>2, <1>3
<1>6. line' \in Seq(Symbol) /\ Len(line') = Len(line) - 1 - dropped
      /\ \A q \in 1 .. Len(line) - 1 - dropped : line'[q] = line[(dropped + 2) + q - 1]
    <2> DEFINE t == SubSeq(line, dropped + 2, Len(line))
    <2>1. t \in Seq(Symbol) /\ Len(t) = Len(line) + 1 - (dropped + 2)
          /\ \A q \in 1 .. Len(line) + 1 - (dropped + 2) : t[q] = line[(dropped + 2) + q - 1]
        BY <1>1, <1>5, SliceFacts
    <2> HIDE DEF t
    <2>2. line' = t
        BY <1>4 DEF t
    <2>3. QED
        BY <1>5, <2>1, <2>2
<1>7. \A q \in 1 .. Len(line') : (dropped + 2) + q - 1 = dropped + 1 + q
    BY <1>2
<1>8. QED
    BY <1>2, <1>3, <1>6, <1>7

LEMMA SentTail ==
    ASSUME FramesTypes, NEW m \in Messages, Send(m)
    PROVE  /\ Frame(m) \in Seq(Symbol) /\ Len(Frame(m)) \in Nat /\ Len(line) \in Nat
           /\ line' \in Seq(Symbol) /\ Len(line') = Len(line) + Len(Frame(m))
           /\ \A q \in 1 .. Len(line) : line'[q] = line[q]
           /\ \A q \in 1 .. Len(Frame(m)) : line'[Len(line) + q] = Frame(m)[q]
           /\ sent' \in Seq(Messages) /\ Len(sent') = Len(sent) + 1 /\ Len(sent) \in Nat
           /\ sent'[Len(sent) + 1] = m /\ \A q \in 1 .. Len(sent) : sent'[q] = sent[q]
<1>1. line \in Seq(Symbol) /\ sent \in Seq(Messages)
    BY DEF FramesTypes
<1>2. Frame(m) \in Seq(Symbol)
    BY MessagesTyped, FrameSymbols
<1> DEFINE F == Frame(m)
           t == line \o F
           u == Append(sent, m)
<1>3. line' = t /\ sent' = u
    BY DEF Send
<1>4. /\ t \in Seq(Symbol) /\ Len(line) \in Nat /\ Len(F) \in Nat
      /\ Len(t) = Len(line) + Len(F)
      /\ \A q \in 1 .. Len(line) : t[q] = line[q]
      /\ \A q \in 1 .. Len(F) : t[Len(line) + q] = F[q]
    BY ONLY <1>1, <1>2, ConcatIndex
<1>5. /\ u \in Seq(Messages) /\ Len(u) = Len(sent) + 1 /\ Len(sent) \in Nat
      /\ u[Len(sent) + 1] = m /\ \A q \in 1 .. Len(sent) : u[q] = sent[q]
    BY <1>1
<1> HIDE DEF F, t, u
<1>6. QED
    BY <1>2, <1>3, <1>4, <1>5 DEF F

LEMMA LostSymbol ==
    ASSUME FramesTypes, NEW i \in DOMAIN line, Lose(i)
    PROVE  /\ Len(line) \in Nat /\ i \in 1 .. Len(line)
           /\ line' \in Seq(Symbol) /\ Len(line') = Len(line) - 1
           /\ \A q \in 1 .. Len(line') : line'[q] = IF q < i THEN line[q] ELSE line[q + 1]
<1>1. line \in Seq(Symbol) /\ Len(line) \in Nat /\ i \in 1 .. Len(line)
    BY DEF FramesTypes
<1> DEFINE t == RemoveAt(line, i)
<1>2. t \in Seq(Symbol) /\ Len(t) = Len(line) - 1
      /\ \A q \in 1 .. Len(line) - 1 : t[q] = IF q < i THEN line[q] ELSE line[q + 1]
    BY <1>1, RemoveFacts
<1>3. line' = t
    BY DEF Lose, Disturb
<1> HIDE DEF t
<1>4. QED
    BY <1>1, <1>2, <1>3

LEMMA NoiseSymbols == \A c \in Noise : <<c>> \in Symbol /\ <<c>> \in Single
BY FramingAssumption DEF Symbol, Single

LEMMA ChangedSymbol ==
    ASSUME FramesTypes, NEW i \in DOMAIN line, NEW c \in Noise, Change(i, c)
    PROVE  /\ Len(line) \in Nat /\ i \in 1 .. Len(line)
           /\ line' \in Seq(Symbol) /\ Len(line') = Len(line)
           /\ \A q \in 1 .. Len(line') : line'[q] = IF q = i THEN <<c>> ELSE line[q]
<1>1. line \in Seq(Symbol) /\ Len(line) \in Nat /\ i \in 1 .. Len(line) /\ <<c>> \in Symbol
    BY NoiseSymbols DEF FramesTypes
<1> DEFINE x == <<c>>
           t == [line EXCEPT ![i] = x]
<1>2. x \in Symbol /\ line' = t
    BY <1>1 DEF Change, Disturb
<1> HIDE DEF x
<1>3. t \in Seq(Symbol) /\ Len(t) = Len(line)
      /\ \A q \in 1 .. Len(line) : t[q] = IF q = i THEN x ELSE line[q]
    BY <1>1, <1>2
<1> HIDE DEF t
<1>4. QED
    BY <1>1, <1>2, <1>3 DEF x

LEMMA InsertedSymbol ==
    ASSUME FramesTypes, NEW i \in DOMAIN line, NEW c \in Noise, Insert(i, c)
    PROVE  /\ Len(line) \in Nat /\ i \in 1 .. Len(line)
           /\ line' \in Seq(Symbol) /\ Len(line') = Len(line) + 1
           /\ \A q \in 1 .. Len(line') :
                  line'[q] = IF q < i THEN line[q] ELSE IF q = i THEN <<c>> ELSE line[q - 1]
<1>1. line \in Seq(Symbol) /\ Len(line) \in Nat /\ i \in 1 .. Len(line) /\ <<c>> \in Symbol
    BY NoiseSymbols DEF FramesTypes
<1> DEFINE x == <<c>>
           t == InsertAt(line, i, x)
<1>2. x \in Symbol /\ line' = t
    BY <1>1 DEF Insert, Disturb
<1> HIDE DEF x
<1>3. t \in Seq(Symbol) /\ Inserted(line, i, x, t)
    <2>1. line \in Seq(Symbol) /\ i \in 1 .. Len(line) /\ x \in Symbol
        BY <1>1, <1>2
    <2>2. QED
        BY ONLY <2>1, InsertFacts
<1> HIDE DEF t
<1>4. QED
    BY <1>1, <1>2, <1>3 DEF x, Inserted

LEMMA FramesTypesStep ==
    ASSUME FramesTypes, [FramesNext]_frameVars
    PROVE  FramesTypes'
<1>1. CASE UNCHANGED frameVars
    BY <1>1 DEF FramesTypes, frameVars
<1>2. ASSUME NEW m \in Messages, Send(m)
      PROVE  FramesTypes'
    BY <1>2, SentTail DEF FramesTypes, Send
<1>3. ASSUME NEW dropped \in 0 .. Len(line), Receive(dropped)
      PROVE  FramesTypes'
    <2>1. line' \in Seq(Symbol) /\ Head(line) \in Symbol
        BY <1>3, ReceivedTail
    <2>2. sent' \in Seq(Messages)
        BY <1>3 DEF Receive, FramesTypes
    <2>3. CASE Accepts(rx, Head(line))
        <3> DEFINE got == [type |-> rx.type, data |-> rx.data]
                   T == [type : Nat, data : Seq(Byte)]
        <3>1. rx.type \in Nat /\ rx.data \in Seq(Byte)
            BY RxFields DEF FramesTypes
        <3>2. got \in T
            BY <3>1
        <3>3. /\ rx' = Waiting /\ accepted' = Append(accepted, got)
              /\ faults' = faults + (IF dropped = 0 THEN 0 ELSE 1)
            BY <1>3, <2>3 DEF Receive
        <3>4. accepted \in Seq(T) /\ faults \in Nat
            BY DEF FramesTypes
        <3> HIDE DEF got, T
        <3>5. accepted' \in Seq(T)
            BY <3>2, <3>3, <3>4
        <3>a. faults' \in Nat
            BY <3>3, <3>4
        <3>6. QED
            BY <2>1, <2>2, <3>3, <3>5, <3>a, StartedFields DEF FramesTypes, T
    <2>4. CASE ~ Accepts(rx, Head(line))
        <3>1. rx' = RxSymbol(rx, Head(line)) /\ accepted' = accepted /\ faults' = faults
            BY <1>3, <2>4 DEF Receive
        <3>2. rx' \in Rx
            BY <2>1, <3>1, RxSymbolType DEF FramesTypes, Symbol
        <3>3. QED
            BY <2>1, <2>2, <3>1, <3>2 DEF FramesTypes
    <2>5. QED
        BY <2>3, <2>4
<1>4. ASSUME NEW i \in DOMAIN line, Lose(i)
      PROVE  FramesTypes'
    BY <1>4, LostSymbol DEF FramesTypes, Lose, Disturb
<1>5. ASSUME NEW i \in DOMAIN line, NEW c \in Noise, Change(i, c)
      PROVE  FramesTypes'
    <2>1. line' \in Seq(Symbol)
        BY <1>5, ChangedSymbol
    <2>2. faults' = faults + 1 /\ rx' = rx /\ sent' = sent /\ accepted' = accepted
        BY <1>5 DEF Change, Disturb
    <2>3. QED
        BY <2>1, <2>2 DEF FramesTypes
<1>6. ASSUME NEW i \in DOMAIN line, NEW c \in Noise, Insert(i, c)
      PROVE  FramesTypes'
    <2>1. line' \in Seq(Symbol)
        BY <1>6, InsertedSymbol
    <2>2. faults' = faults + 1 /\ rx' = rx /\ sent' = sent /\ accepted' = accepted
        BY <1>6 DEF Insert, Disturb
    <2>3. QED
        BY <2>1, <2>2 DEF FramesTypes
<1>7. CASE TimeOut
    BY <1>7, StartedFields DEF FramesTypes, TimeOut
<1>8. QED
    BY <1>1, <1>2, <1>3, <1>4, <1>5, <1>6, <1>7 DEF FramesNext

\* attemptRx's variables and the line keep their types.
THEOREM FramesTyped == FramesSpec => []FramesTypes
<1>1. FramesInit => FramesTypes
    <2>1. <<>> \in Seq(Symbol) /\ <<>> \in Seq(Messages)
          /\ <<>> \in Seq([type : Nat, data : Seq(Byte)])
        OBVIOUS
    <2>2. QED
        BY <2>1, StartedFields DEF FramesInit, FramesTypes
<1>2. FramesTypes /\ [FramesNext]_frameVars => FramesTypes'
    BY FramesTypesStep
<1>3. QED
    BY <1>1, <1>2, PTL DEF FramesSpec

\* Unless an ESC comes just before it, the next frame that comes whole is accepted with
\* its type and its payload, whatever state noise has left attemptRx in, for every
\* message of a type that device/MsgType.hpp may have and every payload.
THEOREM FramesResynchronise == FramesSpec => []Resynchronises
<1>1. FramesTypes => Resynchronises
    <2> SUFFICES ASSUME FramesTypes, rx.state # "RxMsgEscaped", NEW m \in Messages
                 PROVE  LET r == After(rx, Front(Frame(m)))
                        IN  Accepts(r, <<END>>) /\ r.type = m.type /\ r.data = m.data
        BY DEF Resynchronises
    <2>1. rx \in Rx /\ m \in Message
        BY MessagesTyped DEF FramesTypes
    <2>2. Reading(After(rx, Front(Frame(m))), m, Len(Frame(m)) - 1)
        BY <2>1, AfterFrame
    <2>3. QED
        BY <2>1, <2>2, ReadingEnd
<1>2. QED
    BY <1>1, FramesTyped, PTL

-------------------------------------------------------------------------------
(* Without a disturbance the line holds the frames of the messages that have *)
(* not been accepted, the first of them without what attemptRx has seen.     *)

\* The frame of s[j] ends at cut[j] of l; those up to n are gone.
Cuts(n, cut, s, l) ==
    /\ cut \in [n .. Len(s) -> Int]
    /\ cut[Len(s)] = Len(l) /\ \A j \in n .. Len(s) : cut[j] <= Len(l)
    /\ \A j \in n + 1 .. Len(s) : cut[j] = cut[j - 1] + Len(Frame(s[j]))
    /\ \A j \in n + 1 .. Len(s) : \A q \in 1 .. Len(Frame(s[j])) :
           cut[j - 1] + q >= 1 => l[cut[j - 1] + q] = Frame(s[j])[q]

LEMMA CutsDrop ==
    ASSUME NEW n \in Nat, NEW cut, NEW s \in Seq(Messages), NEW l, Cuts(n, cut, s, l),
           n < Len(s)
    PROVE  Cuts(n + 1, [j \in n + 1 .. Len(s) |-> cut[j]], s, l)
<1> DEFINE c == [j \in n + 1 .. Len(s) |-> cut[j]]
<1>1. /\ Len(s) \in Nat /\ n + 1 .. Len(s) \subseteq n .. Len(s) /\ Len(s) \in n + 1 .. Len(s)
      /\ \A j \in (n + 1) + 1 .. Len(s) : j \in n + 1 .. Len(s) /\ j - 1 \in n + 1 .. Len(s)
    BY LenProperties
<1>2. c \in [n + 1 .. Len(s) -> Int] /\ \A j \in n + 1 .. Len(s) : c[j] = cut[j]
    BY <1>1 DEF Cuts
<1> HIDE DEF c
<1>3. QED
    BY <1>1, <1>2 DEF Cuts, c

LEMMA CutsTail ==
    ASSUME NEW n \in Nat, NEW cut, NEW s \in Seq(Messages), NEW l, NEW t,
           n <= Len(s), Cuts(n, cut, s, l), Len(l) \in Nat, Len(t) = Len(l) - 1,
           \A q \in 1 .. Len(t) : t[q] = l[1 + q]
    PROVE  Cuts(n, [j \in n .. Len(s) |-> cut[j] - 1], s, t)
<1> DEFINE c == [j \in n .. Len(s) |-> cut[j] - 1]
<1>1. /\ Len(s) \in Nat /\ Len(s) \in n .. Len(s)
      /\ \A j \in n + 1 .. Len(s) : j \in n .. Len(s) /\ j - 1 \in n .. Len(s) /\ j \in 1 .. Len(s)
    BY LenProperties
<1>2. /\ c \in [n .. Len(s) -> Int]
      /\ \A j \in n .. Len(s) : c[j] = cut[j] - 1 /\ cut[j] \in Int /\ cut[j] <= Len(l)
    <2>1. \A j \in n .. Len(s) : cut[j] \in Int /\ cut[j] <= Len(l)
        BY DEF Cuts
    <2>2. \A j \in n .. Len(s) : cut[j] - 1 \in Int
        BY <2>1
    <2>3. QED
        BY <2>1, <2>2
<1>3. \A j \in n + 1 .. Len(s) : Len(Frame(s[j])) \in Nat
    BY <1>1, ElementOfSeq, MessagesTyped, FrameType
<1> HIDE DEF c
<1>4. c[Len(s)] = Len(t) /\ \A j \in n .. Len(s) : c[j] <= Len(t)
    BY <1>1, <1>2 DEF Cuts
<1>5. ASSUME NEW j \in n + 1 .. Len(s)
      PROVE  c[j] = c[j - 1] + Len(Frame(s[j]))
    <2>1. cut[j] = cut[j - 1] + Len(Frame(s[j]))
        BY DEF Cuts
    <2>2. QED
        BY <1>1, <1>2, <1>3, <2>1
<1>6. ASSUME NEW j \in n + 1 .. Len(s), NEW q \in 1 .. Len(Frame(s[j])), c[j - 1] + q >= 1
      PROVE  t[c[j - 1] + q] = Frame(s[j])[q]
    <2>1. cut[j - 1] \in Int /\ cut[j] \in Int /\ c[j - 1] = cut[j - 1] - 1 /\ cut[j] <= Len(l)
        BY <1>1, <1>2
    <2>2. cut[j] = cut[j - 1] + Len(Frame(s[j]))
        BY DEF Cuts
    <2>3. c[j - 1] + q \in 1 .. Len(t) /\ 1 + (c[j - 1] + q) = cut[j - 1] + q
          /\ cut[j - 1] + q >= 1
        <3> DEFINE x == cut[j - 1]
                   z == Len(Frame(s[j]))
        <3>1. /\ x \in Int /\ z \in Nat /\ q \in 1 .. z /\ c[j - 1] = x - 1 /\ x + z <= Len(l)
              /\ (x - 1) + q >= 1
            BY <1>3, <1>6, <2>1, <2>2
        <3> HIDE DEF x, z
        <3>a. Len(l) \in Nat /\ Len(t) = Len(l) - 1
            OBVIOUS
        <3>2. (x - 1) + q \in 1 .. Len(t) /\ 1 + ((x - 1) + q) = x + q /\ x + q >= 1
            BY ONLY <3>1, <3>a
        <3>3. QED
            BY <3>1, <3>2 DEF x
    <2>4. l[cut[j - 1] + q] = Frame(s[j])[q]
        BY <2>3 DEF Cuts
    <2>5. QED
        BY <2>3, <2>4
<1>7. QED
    BY <1>2, <1>4, <1>5, <1>6 DEF Cuts, c

LEMMA CutsSend ==
    ASSUME NEW n \in Nat, NEW cut, NEW s \in Seq(Messages), NEW l, NEW u \in Seq(Messages),
           NEW t, NEW m \in Messages, n <= Len(s), Cuts(n, cut, s, l), Len(l) \in Nat,
           Len(u) = Len(s) + 1, u[Len(s) + 1] = m, \A q \in 1 .. Len(s) : u[q] = s[q],
           Len(t) = Len(l) + Len(Frame(m)), \A q \in 1 .. Len(l) : t[q] = l[q],
           \A q \in 1 .. Len(Frame(m)) : t[Len(l) + q] = Frame(m)[q]
    PROVE  Cuts(n, [j \in n .. Len(u) |-> IF j <= Len(s) THEN cut[j] ELSE Len(t)], u, t)
<1> DEFINE c == [j \in n .. Len(u) |-> IF j <= Len(s) THEN cut[j] ELSE Len(t)]
           e == Len(s)
<1>1. /\ e \in Nat /\ Len(u) = e + 1 /\ Len(u) \in n .. Len(u) /\ e \in n .. e
      /\ n .. e \subseteq n .. Len(u)
    BY LenProperties
<1>2. Len(Frame(m)) \in Nat /\ Len(t) \in Nat /\ Len(l) <= Len(t)
    BY MessagesTyped, FrameType
<1>3. \A j \in n .. e : cut[j] \in Int /\ cut[j] <= Len(l)
    BY DEF Cuts
<1> HIDE DEF e
<1>4. /\ c \in [n .. Len(u) -> Int] /\ c[Len(u)] = Len(t)
      /\ \A j \in n .. e : c[j] = cut[j]
    <2>1. /\ \A j \in n .. Len(u) : ~ (j <= e) => j = Len(u)
          /\ \A j \in n .. Len(u) : j <= e => j \in n .. e
          /\ \A j \in n .. e : j <= e
          /\ ~ (Len(u) <= e)
        BY <1>1
    <2>2. c = [j \in n .. Len(u) |-> IF j <= e THEN cut[j] ELSE Len(t)]
        BY DEF e
    <2> HIDE DEF c
    <2>3. DOMAIN c = n .. Len(u) /\ \A j \in n .. Len(u) :
              c[j] = IF j <= e THEN cut[j] ELSE Len(t)
        BY <2>2
    <2>4. \A j \in n .. e : c[j] = cut[j]
        BY <1>1, <2>1, <2>3
    <2>5. c[Len(u)] = Len(t)
        BY <1>1, <2>1, <2>3
    <2>6. \A j \in n .. Len(u) : c[j] \in Int
        <3>1. \A j \in n .. e : c[j] \in Int
            BY <1>3, <2>4
        <3>2. c[Len(u)] \in Int
            BY <1>2, <2>5
        <3>3. QED
            BY <2>1, <3>1, <3>2
    <2>7. c \in [n .. Len(u) -> Int]
        BY <2>2, <2>3, <2>6
    <2>8. QED
        BY <2>4, <2>5, <2>7
<1> HIDE DEF c
<1>5. \A j \in n .. Len(u) : c[j] <= Len(t)
    <2>1. \A j \in n .. Len(u) : j = Len(u) \/ j \in n .. e
        BY <1>1
    <2>2. \A j \in n .. e : c[j] <= Len(t)
        BY <1>2, <1>3, <1>4
    <2>3. c[Len(u)] <= Len(t)
        BY <1>2, <1>4
    <2>4. QED
        BY <2>1, <2>2, <2>3
<1>6. ASSUME NEW j \in n + 1 .. Len(u)
      PROVE  /\ c[j] = c[j - 1] + Len(Frame(u[j]))
             /\ \A q \in 1 .. Len(Frame(u[j])) :
                    c[j - 1] + q >= 1 => t[c[j - 1] + q] = Frame(u[j])[q]
    <2>1. CASE j = e + 1
        <3>1. j - 1 = e /\ j = Len(u) /\ u[j] = m
            BY <1>1, <2>1 DEF e
        <3>2. c[j] = Len(t) /\ c[j - 1] = Len(l)
            <4>1. cut[e] = Len(l)
                BY DEF Cuts, e
            <4>2. QED
                BY <1>1, <1>4, <3>1, <4>1
        <3>3. QED
            BY <3>1, <3>2
    <2>2. CASE j \in n + 1 .. e
        <3>1. j \in n .. e /\ j - 1 \in n .. e /\ j \in 1 .. e
            BY <1>1, <2>2
        <3>2. u[j] = s[j] /\ c[j] = cut[j] /\ c[j - 1] = cut[j - 1]
            BY <1>4, <3>1 DEF e
        <3>3. cut[j] = cut[j - 1] + Len(Frame(s[j]))
            BY <2>2 DEF Cuts, e
        <3>4. Len(Frame(s[j])) \in Nat
            BY <3>1, ElementOfSeq, MessagesTyped, FrameType DEF e
        <3>5. ASSUME NEW q \in 1 .. Len(Frame(s[j])), cut[j - 1] + q >= 1
              PROVE  t[cut[j - 1] + q] = Frame(s[j])[q]
            <4>1. l[cut[j - 1] + q] = Frame(s[j])[q]
                BY <2>2, <3>5 DEF Cuts, e
            <4>2. cut[j] <= Len(l) /\ cut[j - 1] \in Int /\ cut[j] \in Int
                BY <1>3, <3>1
            <4>3. cut[j - 1] + q \in 1 .. Len(l)
                BY <3>3, <3>4, <3>5, <4>2
            <4>4. QED
                BY <4>1, <4>3
        <3>6. QED
            BY <3>2, <3>3, <3>5
    <2>3. QED
        BY <1>1, <2>1, <2>2
<1>7. QED
    BY <1>4, <1>5, <1>6 DEF Cuts, c, e

\* acc are the first n messages of s, l is what is left of the frames of the others, and
\* attemptRx is at r and has seen k symbols of the next one.
Delivery(n, k, cut, s, acc, l, r) ==
    /\ n \in 0 .. Len(s) /\ k \in Nat /\ n = Len(acc) /\ \A j \in 1 .. n : acc[j] = s[j]
    /\ Cuts(n, cut, s, l) /\ cut[n] = 0 - k
    /\ n < Len(s) => k < Len(Frame(s[n + 1])) /\ Reading(r, s[n + 1], k)
    /\ n = Len(s) => k = 0
    /\ k = 0 => r = Waiting

Undisturbed ==
    faults = 0 => \E n, k, cut : Delivery(n, k, cut, sent, accepted, line, rx)

LEMMA WaitingReads ==
    ASSUME NEW m \in Message
    PROVE  0 < Len(Frame(m)) /\ Reading(Waiting, m, 0)
<1>1. Waiting \in Rx /\ Waiting.state # "RxMsgEscaped"
    BY StartedFields DEF Waiting
<1>2. QED
    BY <1>1, FrameType, ReadingStart

LEMMA DeliverySend ==
    ASSUME FramesTypes, NEW m \in Messages, Send(m), NEW n, NEW k, NEW cut,
           Delivery(n, k, cut, sent, accepted, line, rx)
    PROVE  \E c : Delivery(n, k, c, sent', accepted', line', rx')
<1>1. /\ n \in 0 .. Len(sent) /\ k \in Nat /\ n = Len(accepted)
      /\ \A j \in 1 .. n : accepted[j] = sent[j]
      /\ Cuts(n, cut, sent, line) /\ cut[n] = 0 - k
      /\ n < Len(sent) => k < Len(Frame(sent[n + 1])) /\ Reading(rx, sent[n + 1], k)
      /\ n = Len(sent) => k = 0
      /\ k = 0 => rx = Waiting
    BY DEF Delivery
<1>2. /\ Len(line) \in Nat /\ Len(line') = Len(line) + Len(Frame(m))
      /\ \A q \in 1 .. Len(line) : line'[q] = line[q]
      /\ \A q \in 1 .. Len(Frame(m)) : line'[Len(line) + q] = Frame(m)[q]
      /\ sent' \in Seq(Messages) /\ Len(sent') = Len(sent) + 1 /\ Len(sent) \in Nat
      /\ sent'[Len(sent) + 1] = m /\ \A q \in 1 .. Len(sent) : sent'[q] = sent[q]
    BY SentTail
<1>3. sent \in Seq(Messages)
    BY DEF FramesTypes
<1>4. n \in Nat /\ n <= Len(sent) /\ n \in 0 .. Len(sent') /\ n < Len(sent')
    BY <1>1, <1>2
<1> DEFINE c == [j \in n .. Len(sent') |-> IF j <= Len(sent) THEN cut[j] ELSE Len(line')]
<1>5. Cuts(n, c, sent', line')
    <2> DEFINE s == sent
               u == sent'
               l == line
               t == line'
    <2>1. /\ s \in Seq(Messages) /\ u \in Seq(Messages) /\ n <= Len(s) /\ Cuts(n, cut, s, l)
          /\ Len(l) \in Nat /\ Len(u) = Len(s) + 1 /\ u[Len(s) + 1] = m
          /\ \A q \in 1 .. Len(s) : u[q] = s[q]
          /\ Len(t) = Len(l) + Len(Frame(m)) /\ \A q \in 1 .. Len(l) : t[q] = l[q]
          /\ \A q \in 1 .. Len(Frame(m)) : t[Len(l) + q] = Frame(m)[q]
        BY <1>1, <1>2, <1>3, <1>4
    <2>2. c = [j \in n .. Len(u) |-> IF j <= Len(s) THEN cut[j] ELSE Len(t)]
        OBVIOUS
    <2> HIDE DEF c, s, u, l, t
    <2>3. Cuts(n, [j \in n .. Len(u) |-> IF j <= Len(s) THEN cut[j] ELSE Len(t)], u, t)
        BY <1>4, <2>1, CutsSend
    <2>4. QED
        BY <2>2, <2>3 DEF u, t
<1>6. c[n] = 0 - k
    BY <1>1, <1>4
<1> HIDE DEF c
<1>7. rx' = rx /\ accepted' = accepted
    BY DEF Send
<1>8. k < Len(Frame(sent'[n + 1])) /\ Reading(rx, sent'[n + 1], k)
    <2>1. CASE n < Len(sent)
        <3>1. sent'[n + 1] = sent[n + 1]
            BY <1>2, <1>4, <2>1
        <3>2. QED
            BY <1>1, <2>1, <3>1
    <2>2. CASE n = Len(sent)
        <3>1. sent'[n + 1] = m /\ k = 0 /\ rx = Waiting
            BY <1>1, <1>2, <2>2
        <3>2. QED
            BY <3>1, WaitingReads, MessagesTyped
    <2>3. QED
        BY <1>2, <1>4, <2>1, <2>2
<1>9. \A j \in 1 .. n : accepted'[j] = sent'[j]
    BY <1>1, <1>2, <1>4, <1>7
<1>10. Delivery(n, k, c, sent', accepted', line', rx')
    BY <1>1, <1>4, <1>5, <1>6, <1>7, <1>8, <1>9 DEF Delivery
<1>11. QED
    BY <1>10

LEMMA DeliveryReceive ==
    ASSUME FramesTypes, NEW dropped \in 0 .. Len(line), Receive(dropped), faults' = 0,
           NEW n, NEW k, NEW cut, Delivery(n, k, cut, sent, accepted, line, rx)
    PROVE  \E i, j, c : Delivery(i, j, c, sent', accepted', line', rx')
<1>1. /\ n \in 0 .. Len(sent) /\ k \in Nat /\ n = Len(accepted)
      /\ \A j \in 1 .. n : accepted[j] = sent[j]
      /\ Cuts(n, cut, sent, line) /\ cut[n] = 0 - k
      /\ n < Len(sent) => k < Len(Frame(sent[n + 1])) /\ Reading(rx, sent[n + 1], k)
      /\ n = Len(sent) => k = 0
    BY DEF Delivery
<1>2. sent \in Seq(Messages) /\ Len(sent) \in Nat /\ faults \in Nat
    BY DEF FramesTypes
<1>3. dropped = 0
    BY <1>2 DEF Receive
<1>4. /\ Len(line) \in Nat /\ Len(line) >= 1 /\ Head(line) = line[1]
      /\ Len(line') = Len(line) - 1 /\ \A q \in 1 .. Len(line') : line'[q] = line[1 + q]
    BY <1>3, ReceivedTail
<1>5. n < Len(sent)
    <2>1. cut[Len(sent)] = Len(line)
        BY <1>1 DEF Cuts
    <2>2. n # Len(sent)
        BY <1>1, <1>4, <2>1
    <2>3. QED
        BY <1>1, <1>2, <2>2
<1> DEFINE m == sent[n + 1]
           F == Frame(m)
           d == [j \in n .. Len(sent) |-> cut[j] - 1]
<1>6. m \in Messages /\ m \in Message /\ n + 1 \in 1 .. Len(sent) /\ n + 1 \in n + 1 .. Len(sent)
      /\ (n + 1) - 1 = n /\ n \in Nat
    <2>1. n + 1 \in 1 .. Len(sent) /\ n + 1 \in n + 1 .. Len(sent) /\ (n + 1) - 1 = n /\ n \in Nat
        BY <1>1, <1>2, <1>5
    <2>2. QED
        BY <1>2, <2>1, ElementOfSeq, MessagesTyped
<1>7. Len(F) \in Nat /\ k < Len(F) /\ Reading(rx, m, k)
    BY <1>1, <1>5, <1>6, FrameType
<1>8. Head(line) = F[k + 1]
    <2>1. k + 1 \in 1 .. Len(F) /\ cut[n] + (k + 1) = 1
        BY <1>1, <1>7
    <2> HIDE DEF F
    <2>a. \A q \in 1 .. Len(F) : cut[(n + 1) - 1] + q >= 1 => line[cut[(n + 1) - 1] + q] = F[q]
        BY <1>1, <1>6 DEF Cuts, F
    <2>2. line[cut[(n + 1) - 1] + (k + 1)] = F[k + 1]
        BY <1>6, <2>a, <2>1
    <2>3. QED
        BY <1>4, <1>6, <2>1, <2>2
<1>9. Cuts(n, d, sent, line')
    <2> DEFINE s == sent
               l == line
               t == line'
    <2>1. /\ s \in Seq(Messages) /\ n \in Nat /\ n <= Len(s) /\ Cuts(n, cut, s, l)
          /\ Len(l) \in Nat /\ Len(t) = Len(l) - 1
          /\ \A q \in 1 .. Len(t) : t[q] = l[1 + q]
        BY <1>1, <1>2, <1>4, <1>6
    <2>2. d = [j \in n .. Len(s) |-> cut[j] - 1]
        OBVIOUS
    <2> HIDE DEF d, s, l, t
    <2>3. Cuts(n, [j \in n .. Len(s) |-> cut[j] - 1], s, t)
        BY <2>1, CutsTail
    <2>4. QED
        BY <2>2, <2>3 DEF s, t
<1>10. d[n] = 0 - (k + 1) /\ n \in n .. Len(sent)
    BY <1>1, <1>2, <1>5
<1>11. sent' = sent
    BY DEF Receive
<1> HIDE DEF d, F
<1>12. CASE k + 1 < Len(F)
    <2>1. /\ ~ Accepts(rx, F[k + 1])
          /\ Reading(RxSymbol(rx, F[k + 1]), m, k + 1)
        BY <1>1, <1>6, <1>7, <1>12, ReadingStep DEF F
    <2>2. rx' = RxSymbol(rx, F[k + 1]) /\ accepted' = accepted
        BY <1>8, <2>1 DEF Receive
    <2>3. k + 1 \in Nat /\ k + 1 # 0
        BY <1>1
    <2>4. Delivery(n, k + 1, d, sent', accepted', line', rx')
        BY <1>1, <1>5, <1>9, <1>10, <1>11, <1>12, <2>1, <2>2, <2>3 DEF Delivery, F
    <2>5. QED
        BY <2>4
<1>13. CASE k + 1 = Len(F)
    <2>1. k = Len(Frame(m)) - 1
        BY <1>1, <1>7, <1>13 DEF F
    <2>2. Accepts(rx, <<END>>) /\ rx.type = m.type /\ rx.data = m.data
        BY <1>6, <1>7, <2>1, ReadingEnd
    <2>3. F[k + 1] = <<END>>
        BY <1>6, <1>13, FrameType DEF F
    <2>4. rx' = Waiting /\ accepted' = Append(accepted, [type |-> rx.type, data |-> rx.data])
        BY <1>8, <2>2, <2>3 DEF Receive
    <2>5. [type |-> rx.type, data |-> rx.data] = m
        BY <1>6, <2>2 DEF Message
    <2>6. /\ Len(accepted') = n + 1 /\ accepted'[n + 1] = m
          /\ \A j \in 1 .. n : accepted'[j] = accepted[j]
        <3> DEFINE T == [type : Nat, data : Seq(Byte)]
        <3>1. accepted \in Seq(T)
            BY DEF FramesTypes
        <3>2. accepted' = Append(accepted, m)
            BY <2>4, <2>5
        <3> HIDE DEF T, m
        <3>3. QED
            BY <1>1, <3>1, <3>2
    <2>7. \A j \in 1 .. n + 1 : accepted'[j] = sent'[j]
        <3>1. \A j \in 1 .. n + 1 : j = n + 1 \/ j \in 1 .. n
            BY <1>6
        <3>2. QED
            BY <1>1, <1>11, <2>6, <3>1
    <2> DEFINE c == [j \in n + 1 .. Len(sent) |-> d[j]]
    <2>8. Cuts(n + 1, c, sent, line')
        <3> DEFINE s == sent
        <3>1. s \in Seq(Messages) /\ n \in Nat /\ n < Len(s) /\ Cuts(n, d, s, line')
            BY <1>2, <1>5, <1>6, <1>9
        <3>2. c = [j \in n + 1 .. Len(s) |-> d[j]]
            OBVIOUS
        <3> HIDE DEF c, s
        <3>3. Cuts(n + 1, [j \in n + 1 .. Len(s) |-> d[j]], s, line')
            BY <3>1, CutsDrop
        <3>4. QED
            BY <3>2, <3>3 DEF s
    <2>9. c[n + 1] = 0
        <3>1. d[n + 1] = d[(n + 1) - 1] + Len(F)
            BY <1>6, <1>9 DEF Cuts, F
        <3>2. d[n + 1] = 0
            BY <1>1, <1>6, <1>10, <1>13, <3>1
        <3>3. QED
            BY <1>6, <3>2
    <2> HIDE DEF c
    <2>10. n + 1 < Len(sent) => /\ 0 < Len(Frame(sent[(n + 1) + 1]))
                                /\ Reading(Waiting, sent[(n + 1) + 1], 0)
        <3>1. n + 1 < Len(sent) => (n + 1) + 1 \in 1 .. Len(sent)
            BY <1>2, <1>6
        <3>2. n + 1 < Len(sent) => sent[(n + 1) + 1] \in Message
            BY <1>2, <3>1, ElementOfSeq, MessagesTyped
        <3>3. QED
            BY <3>2, WaitingReads
    <2>11. n + 1 \in 0 .. Len(sent)
        BY <1>2, <1>6
    <2>12. Delivery(n + 1, 0, c, sent', accepted', line', rx')
        BY <1>11, <2>4, <2>6, <2>7, <2>8, <2>9, <2>10, <2>11 DEF Delivery
    <2>13. QED
        BY <2>12
<1>14. QED
    BY <1>1, <1>7, <1>12, <1>13

LEMMA UndisturbedStep ==
    ASSUME FramesTypes, Undisturbed, [FramesNext]_frameVars
    PROVE  Undisturbed'
<1> SUFFICES ASSUME faults' = 0
             PROVE  \E n, k, cut : Delivery(n, k, cut, sent', accepted', line', rx')
    BY DEF Undisturbed
<1>1. faults \in Nat
    BY DEF FramesTypes
<1>2. CASE UNCHANGED frameVars
    BY <1>2 DEF Undisturbed, frameVars
<1>3. ASSUME NEW m \in Messages, Send(m)
      PROVE  \E n, k, cut : Delivery(n, k, cut, sent', accepted', line', rx')
    <2>1. faults = 0
        BY <1>3 DEF Send
    <2>2. PICK n, k, cut : Delivery(n, k, cut, sent, accepted, line, rx)
        BY <2>1 DEF Undisturbed
    <2>3. QED
        BY <1>3, <2>2, DeliverySend
<1>4. ASSUME NEW dropped \in 0 .. Len(line), Receive(dropped)
      PROVE  \E n, k, cut : Delivery(n, k, cut, sent', accepted', line', rx')
    <2>1. faults = 0
        BY <1>1, <1>4 DEF Receive
    <2>2. PICK n, k, cut : Delivery(n, k, cut, sent, accepted, line, rx)
        BY <2>1 DEF Undisturbed
    <2>3. QED
        BY <1>4, <2>2, DeliveryReceive
<1>5. ~ (\E i \in DOMAIN line : Lose(i)) /\ ~ TimeOut
      /\ ~ (\E i \in DOMAIN line, c \in Noise : Change(i, c))
      /\ ~ (\E i \in DOMAIN line, c \in Noise : Insert(i, c))
    <2>1. faults + 1 # 0
        BY <1>1
    <2>2. ~ TimeOut /\ \A l : ~ Disturb(l)
        BY <2>1 DEF TimeOut, Disturb
    <2>3. QED
        BY <2>2 DEF Lose, Change, Insert
<1>6. QED
    BY <1>2, <1>3, <1>4, <1>5 DEF FramesNext

LEMMA UndisturbedInit == FramesInit => Undisturbed
<1> SUFFICES ASSUME FramesInit PROVE Undisturbed
    OBVIOUS
<1> DEFINE cut == [j \in 0 .. 0 |-> 0]
<1>1. /\ sent = <<>> /\ line = <<>> /\ accepted = <<>> /\ rx = Waiting
    BY DEF FramesInit
<1>2. Len(<<>>) = 0
    OBVIOUS
<1>3. cut \in [0 .. 0 -> Int] /\ cut[0] = 0
    OBVIOUS
<1> HIDE DEF cut
<1>4. Cuts(0, cut, <<>>, <<>>)
    BY <1>2, <1>3 DEF Cuts
<1>5. Delivery(0, 0, cut, <<>>, <<>>, <<>>, Waiting)
    BY <1>2, <1>3, <1>4 DEF Delivery
<1>6. QED
    BY <1>1, <1>5 DEF Undisturbed

LEMMA UndisturbedRoundTrip == FramesTypes /\ Undisturbed => RoundTrip
<1> SUFFICES ASSUME FramesTypes, Undisturbed, faults = 0, line = <<>>
             PROVE  accepted = sent
    BY DEF RoundTrip
<1>1. PICK n, k, cut : Delivery(n, k, cut, sent, accepted, line, rx)
    BY DEF Undisturbed
<1>2. sent \in Seq(Messages) /\ Len(sent) \in Nat /\ Len(line) = 0
      /\ accepted \in Seq([type : Nat, data : Seq(Byte)])
    BY DEF FramesTypes
<1>3. n = Len(sent)
    <2> SUFFICES ASSUME n < Len(sent) PROVE FALSE
        BY <1>1, <1>2 DEF Delivery
    <2>1. n \in Nat /\ n + 1 \in n + 1 .. Len(sent) /\ n + 1 \in n .. Len(sent) /\ (n + 1) - 1 = n
        BY <1>1, <1>2 DEF Delivery
    <2>2. cut[n + 1] <= 0 /\ cut[n + 1] = cut[(n + 1) - 1] + Len(Frame(sent[n + 1]))
        BY <1>1, <1>2, <2>1 DEF Delivery, Cuts
    <2>3. cut[n] = 0 - k /\ k \in Nat /\ k < Len(Frame(sent[n + 1]))
        BY <1>1 DEF Delivery
    <2>4. Len(Frame(sent[n + 1])) \in Nat
        <3>1. n + 1 \in 1 .. Len(sent)
            BY <2>1
        <3>2. QED
            BY <1>2, <3>1, ElementOfSeq, MessagesTyped, FrameType
    <2>5. QED
        BY <2>1, <2>2, <2>3, <2>4
<1>4. Len(accepted) = Len(sent) /\ \A j \in 1 .. Len(accepted) : accepted[j] = sent[j]
    BY <1>1, <1>3 DEF Delivery
<1> DEFINE T == [type : Nat, data : Seq(Byte)]
<1>5. Messages \subseteq T
    BY FramingAssumption
<1> HIDE DEF T
<1>6. sent \in Seq(T) /\ accepted \in Seq(T)
    BY <1>2, <1>5, SeqMonotonic DEF T
<1>7. QED
    BY <1>4, <1>6, SeqEqual

\* As long as nothing disturbs the line, the messages accepted are the first ones sent, and
\* all of them once the line is empty: escaping, the checksum and the cutting up of the
\* stream lose nothing, whatever bytes the messages hold.
THEOREM FramesRoundTrip == FramesSpec => []RoundTrip
<1>1. FramesInit => Undisturbed
    BY UndisturbedInit
<1>2. FramesTypes /\ Undisturbed /\ [FramesNext]_frameVars => Undisturbed'
    BY UndisturbedStep
<1>3. FramesTypes /\ Undisturbed => RoundTrip
    BY UndisturbedRoundTrip
<1>4. QED
    BY <1>1, <1>2, <1>3, FramesTyped, PTL DEF FramesSpec

-------------------------------------------------------------------------------
(* Where the checksums come from.                                            *)

IsSum(s) == Len(s) >= 2

\* l gives the message of s that a checksum of ln belongs to: they follow one another, and
\* those up to p are gone.
SumsFrom(l, ln, s, p) ==
    /\ \A j \in 1 .. Len(ln) :
           IsSum(ln[j]) => l[j] \in 1 .. Len(s) /\ l[j] > p /\ ln[j] = SumOf(s[l[j]])
    /\ \A i, j \in 1 .. Len(ln) : i < j /\ IsSum(ln[i]) /\ IsSum(ln[j]) => l[i] < l[j]

\* a gives the message of s that an accepted one is.  The checksum that attemptRx holds,
\* if it holds one, is that of message p, which has not been accepted.
AcceptedFrom(a, acc, s, p, r) ==
    /\ a \in [1 .. Len(acc) -> 1 .. Len(s)]
    /\ \A i, j \in 1 .. Len(acc) : i < j => a[i] < a[j]
    /\ \A i \in 1 .. Len(acc) : acc[i] = s[a[i]] /\ a[i] <= p
    /\ p \in 0 .. Len(s)
    /\ IsSum(r.sum) =>
           p # 0 /\ r.sum = SumOf(s[p]) /\ \A i \in 1 .. Len(acc) : a[i] < p

Sourced ==
    \E a, p, l : SumsFrom(l, line, sent, p) /\ AcceptedFrom(a, accepted, sent, p, rx)

\* What is left of a line comes from where the line came from.
LEMMA SumsRemain ==
    ASSUME NEW ln, NEW t, NEW l, NEW s, NEW p \in Nat, NEW o \in Nat, SumsFrom(l, ln, s, p),
           NEW h, Len(t) \in Nat, p <= o,
           \A q \in 1 .. Len(t) : IsSum(t[q]) => h[q] \in 1 .. Len(ln) /\ t[q] = ln[h[q]],
           \A q \in 1 .. Len(t) : IsSum(t[q]) => l[h[q]] > o,
           \A i, j \in 1 .. Len(t) : i < j /\ IsSum(t[i]) /\ IsSum(t[j]) => h[i] < h[j]
    PROVE  \E k : SumsFrom(k, t, s, o)
<1> DEFINE k == [q \in 1 .. Len(t) |-> l[h[q]]]
<1>1. ASSUME NEW j \in 1 .. Len(t), IsSum(t[j])
      PROVE  k[j] \in 1 .. Len(s) /\ k[j] > o /\ t[j] = SumOf(s[k[j]])
    <2>1. h[j] \in 1 .. Len(ln) /\ t[j] = ln[h[j]] /\ k[j] = l[h[j]] /\ k[j] > o
        BY <1>1
    <2>2. IsSum(ln[h[j]])
        BY <1>1, <2>1
    <2>3. l[h[j]] \in 1 .. Len(s) /\ ln[h[j]] = SumOf(s[l[h[j]]])
        BY <2>1, <2>2 DEF SumsFrom
    <2>4. QED
        BY <2>1, <2>3
<1>2. ASSUME NEW i \in 1 .. Len(t), NEW j \in 1 .. Len(t), i < j, IsSum(t[i]), IsSum(t[j])
      PROVE  k[i] < k[j]
    <2>1. /\ h[i] \in 1 .. Len(ln) /\ t[i] = ln[h[i]] /\ k[i] = l[h[i]]
          /\ h[j] \in 1 .. Len(ln) /\ t[j] = ln[h[j]] /\ k[j] = l[h[j]]
          /\ h[i] < h[j]
        BY <1>2
    <2>2. IsSum(ln[h[i]]) /\ IsSum(ln[h[j]])
        BY <1>2, <2>1
    <2>3. l[h[i]] < l[h[j]]
        BY <2>1, <2>2 DEF SumsFrom
    <2>4. QED
        BY <2>1, <2>3
<1> HIDE DEF k
<1>3. SumsFrom(k, t, s, o)
    BY <1>1, <1>2 DEF SumsFrom
<1>4. QED
    BY <1>3

LEMMA SingleNoSum == \A s \in Single : ~ IsSum(s)
<1> SUFFICES ASSUME NEW c \in Byte PROVE ~ IsSum(<<c>>)
    BY DEF Single
<1> QED
    BY DEF IsSum

LEMMA SumsAdded ==
    ASSUME NEW ln, NEW t, NEW l, NEW s, NEW u, NEW p \in Nat, SumsFrom(l, ln, s, p),
           NEW m \in Message, Len(ln) \in Nat, Len(s) \in Nat, p <= Len(s),
           Len(t) = Len(ln) + Len(Frame(m)), \A q \in 1 .. Len(ln) : t[q] = ln[q],
           \A q \in 1 .. Len(Frame(m)) : t[Len(ln) + q] = Frame(m)[q],
           Len(u) = Len(s) + 1, u[Len(s) + 1] = m, \A q \in 1 .. Len(s) : u[q] = s[q]
    PROVE  \E k : SumsFrom(k, t, u, p)
<1> DEFINE F == Frame(m)
           n == Len(ln)
           e == Len(s)
           k == [q \in 1 .. Len(t) |-> IF q <= n THEN l[q] ELSE e + 1]
<1>1. /\ Len(F) \in Nat /\ Len(F) >= 3 /\ F[Len(F) - 1] = SumOf(m)
      /\ \A q \in 1 .. Len(F) : q # Len(F) - 1 => F[q] \in Single
    BY FrameType
<1>2. n \in Nat /\ e \in Nat /\ Len(t) = n + Len(F)
    OBVIOUS
<1> HIDE DEF F, n, e
<1>3. \A q \in 1 .. Len(t) : k[q] = IF q <= n THEN l[q] ELSE e + 1
    OBVIOUS
<1> HIDE DEF k
\* A checksum of t is one of ln or the new one.
<1>4. ASSUME NEW j \in 1 .. Len(t), IsSum(t[j])
      PROVE  \/ /\ j \in 1 .. n /\ t[j] = ln[j] /\ k[j] = l[j] /\ l[j] \in 1 .. e /\ l[j] > p
                /\ t[j] = SumOf(u[k[j]])
             \/ j = n + (Len(F) - 1) /\ k[j] = e + 1 /\ t[j] = SumOf(u[k[j]])
    <2>1. CASE j <= n
        <3>1. j \in 1 .. n
            BY <1>2, <2>1
        <3>2. t[j] = ln[j] /\ k[j] = l[j]
            BY <1>3, <2>1, <3>1 DEF n
        <3>3. l[j] \in 1 .. e /\ l[j] > p /\ ln[j] = SumOf(s[l[j]])
            BY <1>4, <3>1, <3>2 DEF SumsFrom, n, e
        <3>4. u[l[j]] = s[l[j]]
            BY <3>3 DEF e
        <3>5. QED
            BY <3>1, <3>2, <3>3, <3>4
    <2>2. CASE ~ (j <= n)
        <3>1. j - n \in 1 .. Len(F) /\ n + (j - n) = j
            BY <1>1, <1>2, <2>2
        <3>2. t[j] = F[j - n]
            BY <3>1 DEF n, F
        <3>3. j - n = Len(F) - 1
            BY <1>1, <1>4, <3>1, <3>2, SingleNoSum
        <3>4. j = n + (Len(F) - 1)
            BY <1>1, <1>2, <3>3
        <3>5. k[j] = e + 1 /\ u[e + 1] = m
            BY <1>3, <2>2 DEF e
        <3>6. t[j] = SumOf(u[k[j]])
            BY <1>1, <3>2, <3>3, <3>5
        <3>7. QED
            BY <3>4, <3>5, <3>6
    <2>3. QED
        BY <2>1, <2>2
<1>5. ASSUME NEW j \in 1 .. Len(t), IsSum(t[j])
      PROVE  k[j] \in 1 .. Len(u) /\ k[j] > p /\ t[j] = SumOf(u[k[j]])
    <2>1. p <= e /\ Len(u) = e + 1
        BY DEF e
    <2>2. QED
        BY <1>2, <1>4, <1>5, <2>1
<1>6. ASSUME NEW i \in 1 .. Len(t), NEW j \in 1 .. Len(t), i < j, IsSum(t[i]), IsSum(t[j])
      PROVE  k[i] < k[j]
    <2>1. /\ \/ i \in 1 .. n /\ t[i] = ln[i] /\ k[i] = l[i] /\ l[i] \in 1 .. e
             \/ i = n + (Len(F) - 1) /\ k[i] = e + 1
          /\ \/ j \in 1 .. n /\ t[j] = ln[j] /\ k[j] = l[j] /\ l[j] \in 1 .. e
             \/ j = n + (Len(F) - 1) /\ k[j] = e + 1
        BY <1>4, <1>6
    <2>2. i \in 1 .. n
        BY <1>1, <1>2, <1>6, <2>1
    <2>3. k[i] = l[i] /\ t[i] = ln[i] /\ l[i] \in 1 .. e
        BY <1>1, <1>2, <2>1, <2>2
    <2>4. CASE j \in 1 .. n
        <3>1. k[j] = l[j] /\ t[j] = ln[j]
            BY <1>1, <1>2, <2>1, <2>4
        <3>2. l[i] < l[j]
            BY <1>6, <2>2, <2>3, <2>4, <3>1 DEF SumsFrom, n
        <3>3. QED
            BY <2>3, <3>1, <3>2
    <2>5. CASE j \notin 1 .. n
        BY <1>2, <2>1, <2>3, <2>5
    <2>6. QED
        BY <2>4, <2>5
<1>7. SumsFrom(k, t, u, p)
    BY <1>5, <1>6 DEF SumsFrom
<1>8. QED
    BY <1>7

\* The checksum that attemptRx holds is the one it held or the symbol it has just seen.
LEMMA RxSymbolSum ==
    ASSUME NEW r \in Rx, NEW s \in Symbol, IsSum(RxSymbol(r, s).sum)
    PROVE  RxSymbol(r, s).sum = r.sum \/ RxSymbol(r, s).sum = s
<1>1. Started.sum = <<>> /\ ~ IsSum(<<>>)
    BY StartedFields DEF IsSum
<1>2. /\ [r EXCEPT !.state = "RxMsgEscaped"].sum = r.sum
      /\ [r EXCEPT !.state = "WaitForStart"].sum = r.sum
    BY DEF Rx
<1>3. ASSUME NEW q \in Rx, NEW x
      PROVE  Store(q, x).sum = q.sum \/ Store(q, x).sum = x
    <2>1. CASE q.i < 2
        <3>1. Store(q, x) = [state |-> q.state, i |-> q.i + 1,
                             type |-> BitOr(q.type, IF q.i = 0 THEN x[1] ELSE 2 * x[1]),
                             data |-> q.data, sum |-> q.sum]
            BY <2>1, StoreFields
        <3>2. QED
            BY <3>1
    <2>2. CASE ~ (q.i < 2)
        <3>1. Store(q, x) = [state |-> q.state, i |-> q.i + 1, type |-> q.type,
                             data |-> q.data \o q.sum, sum |-> x]
            BY <2>2, StoreFields
        <3>2. QED
            BY <3>1
    <2>3. QED
        BY <2>1, <2>2
<1>4. Unescaped(r, s).sum = r.sum \/ ~ IsSum(Unescaped(r, s).sum)
    <2> DEFINE plain == [r EXCEPT !.state = "RxMsg"]
               x == <<s[1] - 128>>
    <2>1. plain \in Rx /\ plain.sum = r.sum
        BY DEF Rx
    <2>2. ~ IsSum(x)
        BY DEF IsSum
    <2>3. Unescaped(r, s) = plain \/ Unescaped(r, s) = Store(plain, x)
        BY DEF Unescaped
    <2> HIDE DEF plain, x
    <2>4. QED
        BY <1>3, <2>1, <2>2, <2>3
<1>5. RxSymbol(r, s) \in {Started, r, Unescaped(r, s), Store(r, s),
                          [r EXCEPT !.state = "RxMsgEscaped"],
                          [r EXCEPT !.state = "WaitForStart"]}
    BY DEF RxSymbol
<1> DEFINE z == RxSymbol(r, s)
           esc == [r EXCEPT !.state = "RxMsgEscaped"]
           wait == [r EXCEPT !.state = "WaitForStart"]
<1>6. /\ z \in {Started, r, Unescaped(r, s), Store(r, s), esc, wait}
      /\ esc.sum = r.sum /\ wait.sum = r.sum /\ IsSum(z.sum)
      /\ Store(r, s).sum = r.sum \/ Store(r, s).sum = s
    BY <1>2, <1>3, <1>5
<1> HIDE DEF z, esc, wait
<1>7. z.sum = r.sum \/ z.sum = s
    BY <1>1, <1>4, <1>6
<1>8. QED
    BY <1>7 DEF z

\* Messages with the same checksum are the same.
LEMMA SummedInjective ==
    ASSUME NEW t \in Nat, NEW d \in Seq(Byte), NEW m \in Message, Summed(t, d) = SumOf(m)
    PROVE  t = m.type /\ d = m.data
<1> DEFINE u == m.type
           e == m.data
           x == <<t % 256, t \div 256>> \o d
           y == <<u % 256, u \div 256>> \o e
<1>a. m.type \in 0 .. 20 /\ m.data \in Seq(Byte)
    BY DEF Message
<1>b. u \in Nat
    BY ONLY <1>a
<1>c. x = y
    BY Zenon DEF Summed, SumOf
<1>1. u \in Nat /\ e \in Seq(Byte) /\ x = y
    BY <1>a, <1>b, <1>c, Zenon
<1> HIDE DEF u, e
<1>2. ASSUME NEW v \in Nat, NEW z \in Seq(Byte)
      PROVE  LET w == <<v % 256, v \div 256>> \o z IN
             /\ w[1] = v % 256 /\ w[2] = v \div 256 /\ Len(w) = 2 + Len(z) /\ Len(z) \in Nat
             /\ \A q \in 1 .. Len(z) : w[2 + q] = z[q]
    <2>1. v % 256 \in Nat /\ v \div 256 \in Nat
        OBVIOUS
    <2> DEFINE g == v % 256
               k == v \div 256
               w == <<g, k>> \o z
    <2>2. g \in Nat /\ k \in Nat
        BY <2>1
    <2> HIDE DEF g, k
    <2>3. z \in Seq(Nat)
        BY ByteFacts, SeqMonotonic
    <2>4. <<g, k>> \in Seq(Nat) /\ Len(<<g, k>>) = 2 /\ <<g, k>>[1] = g /\ <<g, k>>[2] = k
        BY <2>2
    <2>5. /\ Len(w) = 2 + Len(z) /\ w[1] = g /\ w[2] = k /\ Len(z) \in Nat
          /\ \A q \in 1 .. Len(z) : w[2 + q] = z[q]
        BY <2>2, <2>3, <2>4
    <2>6. QED
        BY <2>5 DEF g, k
<1>3. /\ x[1] = t % 256 /\ x[2] = t \div 256 /\ Len(x) = 2 + Len(d) /\ Len(d) \in Nat
      /\ \A q \in 1 .. Len(d) : x[2 + q] = d[q]
    BY <1>2
<1>4. /\ y[1] = u % 256 /\ y[2] = u \div 256 /\ Len(y) = 2 + Len(e) /\ Len(e) \in Nat
      /\ \A q \in 1 .. Len(e) : y[2 + q] = e[q]
    BY <1>1, <1>2
<1> HIDE DEF x, y
<1>5. t % 256 = u % 256 /\ t \div 256 = u \div 256
    BY <1>1, <1>3, <1>4
<1>6. t = u
    BY <1>1, <1>5
<1>7. Len(d) = Len(e)
    BY <1>1, <1>3, <1>4
<1>8. \A q \in 1 .. Len(d) : d[q] = e[q]
    BY <1>1, <1>3, <1>4, <1>7
<1>9. d = e
    BY <1>1, <1>7, <1>8, SeqEqual
<1>10. QED
    BY <1>6, <1>9 DEF u, e

LEMMA SourcedSend ==
    ASSUME FramesTypes, Sourced, NEW m \in Messages, Send(m)
    PROVE  Sourced'
<1>1. PICK a, p, l : SumsFrom(l, line, sent, p) /\ AcceptedFrom(a, accepted, sent, p, rx)
    BY DEF Sourced
<1>2. /\ Len(line) \in Nat /\ Len(line') = Len(line) + Len(Frame(m))
      /\ \A q \in 1 .. Len(line) : line'[q] = line[q]
      /\ \A q \in 1 .. Len(Frame(m)) : line'[Len(line) + q] = Frame(m)[q]
      /\ Len(sent') = Len(sent) + 1 /\ Len(sent) \in Nat
      /\ sent'[Len(sent) + 1] = m /\ \A q \in 1 .. Len(sent) : sent'[q] = sent[q]
    BY SentTail
<1>3. p \in 0 .. Len(sent) /\ p \in Nat /\ p <= Len(sent) /\ m \in Message
    BY <1>1, <1>2, MessagesTyped DEF AcceptedFrom
<1>4. \E k : SumsFrom(k, line', sent', p)
    <2> DEFINE s == sent
               u == sent'
               ln == line
               t == line'
    <2>1. /\ SumsFrom(l, ln, s, p) /\ Len(ln) \in Nat /\ Len(s) \in Nat /\ p <= Len(s)
          /\ Len(t) = Len(ln) + Len(Frame(m)) /\ \A q \in 1 .. Len(ln) : t[q] = ln[q]
          /\ \A q \in 1 .. Len(Frame(m)) : t[Len(ln) + q] = Frame(m)[q]
          /\ Len(u) = Len(s) + 1 /\ u[Len(s) + 1] = m /\ \A q \in 1 .. Len(s) : u[q] = s[q]
        BY <1>1, <1>2, <1>3
    <2> HIDE DEF s, u, ln, t
    <2>2. \E k : SumsFrom(k, t, u, p)
        BY <1>3, <2>1, SumsAdded
    <2>3. QED
        BY <2>2 DEF t, u
<1>5. rx' = rx /\ accepted' = accepted
    BY DEF Send
<1>6. AcceptedFrom(a, accepted, sent', p, rx)
    <2>1. /\ a \in [1 .. Len(accepted) -> 1 .. Len(sent)]
          /\ \A i \in 1 .. Len(accepted) : a[i] \in 1 .. Len(sent)
        BY <1>1 DEF AcceptedFrom
    <2>2. 1 .. Len(sent) \subseteq 1 .. Len(sent')
        BY <1>2
    <2>3. a \in [1 .. Len(accepted) -> 1 .. Len(sent')]
        BY <2>1, <2>2
    <2>4. \A i \in 1 .. Len(accepted) : accepted[i] = sent'[a[i]] /\ a[i] <= p
        BY <1>1, <1>2, <2>1 DEF AcceptedFrom
    <2>5. p \in 0 .. Len(sent')
        BY <1>2, <1>3
    <2>6. p # 0 => sent'[p] = sent[p]
        BY <1>2, <1>3
    <2>7. QED
        BY <1>1, <2>3, <2>4, <2>5, <2>6 DEF AcceptedFrom
<1>7. QED
    BY <1>4, <1>5, <1>6 DEF Sourced

\* The line's checksums when it is cut or changed, and what was accepted stays.
LEMMA SourcedDisturbed ==
    ASSUME FramesTypes, Sourced, UNCHANGED <<sent, accepted>>, rx' = rx \/ rx' = Waiting,
           Len(line') \in Nat, NEW h,
           \A q \in 1 .. Len(line') :
               IsSum(line'[q]) => h[q] \in 1 .. Len(line) /\ line'[q] = line[h[q]],
           \A i, j \in 1 .. Len(line') :
               i < j /\ IsSum(line'[i]) /\ IsSum(line'[j]) => h[i] < h[j]
    PROVE  Sourced'
<1>1. PICK a, p, l : SumsFrom(l, line, sent, p) /\ AcceptedFrom(a, accepted, sent, p, rx)
    BY DEF Sourced
<1>2. p \in Nat /\ Len(sent) \in Nat
    BY <1>1 DEF AcceptedFrom, FramesTypes
<1>3. \E k : SumsFrom(k, line', sent, p)
    <2> DEFINE ln == line
               t == line'
               s == sent
    <2>1. /\ SumsFrom(l, ln, s, p) /\ Len(t) \in Nat
          /\ \A q \in 1 .. Len(t) : IsSum(t[q]) => h[q] \in 1 .. Len(ln) /\ t[q] = ln[h[q]]
          /\ \A i, j \in 1 .. Len(t) : i < j /\ IsSum(t[i]) /\ IsSum(t[j]) => h[i] < h[j]
        BY <1>1
    <2> HIDE DEF ln, t, s
    <2>2. \A q \in 1 .. Len(t) : IsSum(t[q]) => l[h[q]] > p
        BY <2>1 DEF SumsFrom
    <2>3. PICK o \in Nat : o = p
        BY <1>2
    <2>4. /\ p \in Nat /\ o \in Nat /\ p <= o
          /\ \A q \in 1 .. Len(t) : IsSum(t[q]) => l[h[q]] > o
        BY <1>2, <2>2, <2>3
    <2>5. \E k : SumsFrom(k, t, s, o)
        BY ONLY <2>1, <2>4, SumsRemain
    <2>6. QED
        BY <2>3, <2>5 DEF t, s
<1>4. AcceptedFrom(a, accepted, sent, p, rx')
    <2>1. ~ IsSum(Waiting.sum)
        BY DEF Waiting, IsSum
    <2>2. QED
        BY <1>1, <2>1 DEF AcceptedFrom
<1>5. sent' = sent /\ accepted' = accepted
    OBVIOUS
<1>6. QED
    BY <1>3, <1>4, <1>5 DEF Sourced

LEMMA SourcedReceive ==
    ASSUME FramesTypes, Sourced, NEW dropped \in 0 .. Len(line), Receive(dropped)
    PROVE  Sourced'
<1>1. PICK a, p, l : SumsFrom(l, line, sent, p) /\ AcceptedFrom(a, accepted, sent, p, rx)
    BY DEF Sourced
<1>2. p \in Nat /\ p \in 0 .. Len(sent) /\ Len(sent) \in Nat /\ dropped \in Nat
    BY <1>1 DEF AcceptedFrom, FramesTypes
<1>3. /\ Len(line) \in Nat /\ dropped < Len(line) /\ line[1] \in Symbol
      /\ Head(line) = line[1] /\ Len(line') = Len(line) - 1 - dropped /\ Len(line') \in Nat
      /\ \A q \in 1 .. Len(line') : line'[q] = line[dropped + 1 + q]
    <2>1. /\ Len(line) \in Nat /\ dropped < Len(line) /\ line[1] \in Symbol
          /\ Head(line) = line[1] /\ Len(line') = Len(line) - 1 - dropped
          /\ \A q \in 1 .. Len(line') : line'[q] = line[dropped + 1 + q]
        BY ReceivedTail
    <2>2. QED
        BY <1>2, <2>1
<1>4. sent' = sent
    BY DEF Receive
<1> DEFINE h == [q \in 1 .. Len(line') |-> dropped + 1 + q]
<1>5. /\ \A q \in 1 .. Len(line') :
             h[q] \in 2 .. Len(line) /\ h[q] \in 1 .. Len(line) /\ line'[q] = line[h[q]]
      /\ \A i, j \in 1 .. Len(line') : i < j => h[i] < h[j]
    <2>1. \A q \in 1 .. Len(line') : dropped + 1 + q \in 2 .. Len(line)
                                     /\ dropped + 1 + q \in 1 .. Len(line)
        BY <1>2, <1>3
    <2>2. \A i, j \in 1 .. Len(line') : i < j => dropped + 1 + i < dropped + 1 + j
        BY <1>2, <1>3
    <2>3. QED
        BY <1>3, <2>1, <2>2
<1> HIDE DEF h
\* The line from any number that its checksums are above.
<1>6. ASSUME NEW o \in Nat, p <= o,
             \A q \in 1 .. Len(line') : IsSum(line'[q]) => l[h[q]] > o
      PROVE  \E k : SumsFrom(k, line', sent, o)
    <2> DEFINE ln == line
               t == line'
               s == sent
    <2>1. /\ SumsFrom(l, ln, s, p) /\ Len(t) \in Nat
          /\ \A q \in 1 .. Len(t) : IsSum(t[q]) => h[q] \in 1 .. Len(ln) /\ t[q] = ln[h[q]]
          /\ \A q \in 1 .. Len(t) : IsSum(t[q]) => l[h[q]] > o
          /\ \A i, j \in 1 .. Len(t) : i < j /\ IsSum(t[i]) /\ IsSum(t[j]) => h[i] < h[j]
        BY <1>1, <1>3, <1>5, <1>6
    <2> HIDE DEF ln, t, s
    <2>2. \E k : SumsFrom(k, t, s, o)
        BY <1>2, <1>6, <2>1, SumsRemain
    <2>3. QED
        BY <2>2 DEF t, s
<1>7. \A q \in 1 .. Len(line') : IsSum(line'[q]) => l[h[q]] > p
    BY <1>1, <1>5 DEF SumsFrom
<1>8. \E k : SumsFrom(k, line', sent, p)
    <2>1. p <= p
        BY <1>2
    <2>2. QED
        BY <1>2, <1>6, <1>7, <2>1
<1>9. rx \in Rx
    BY DEF FramesTypes
<1>10. CASE Accepts(rx, Head(line))
    <2> DEFINE got == [type |-> rx.type, data |-> rx.data]
               n == Len(accepted)
               c == [i \in 1 .. n + 1 |-> IF i <= n THEN a[i] ELSE p]
    <2>1. rx' = Waiting /\ accepted' = Append(accepted, got)
        BY <1>10 DEF Receive
    <2>2. rx.type \in Nat /\ rx.data \in Seq(Byte) /\ rx.sum = Summed(rx.type, rx.data)
        BY <1>9, <1>10, RxFields DEF Accepts, Complete
    <2>3. IsSum(rx.sum)
        <3>1. Len(<<rx.type % 256, rx.type \div 256>> \o rx.data) = 2 + Len(rx.data)
              /\ Len(rx.data) \in Nat
            <4> DEFINE x == rx.type % 256
                       y == rx.type \div 256
                       d == rx.data
            <4>a. \A v \in Nat : v % 256 \in Nat /\ v \div 256 \in Nat
                OBVIOUS
            <4>b. Byte \subseteq Nat
                BY ByteFacts
            <4>c. d \in Seq(Nat)
                BY <2>2, <4>b, SeqMonotonic
            <4>1. x \in Nat /\ y \in Nat /\ d \in Seq(Nat)
                BY <2>2, <4>a, <4>c
            <4> HIDE DEF x, y, d
            <4>2. Len(<<x, y>> \o d) = 2 + Len(d) /\ Len(d) \in Nat
                BY <4>1
            <4>3. QED
                BY <4>2 DEF x, y, d
        <3>2. QED
            BY <2>2, <3>1 DEF IsSum, Summed
    <2>4. p \in 1 .. Len(sent) /\ rx.sum = SumOf(sent[p]) /\ \A i \in 1 .. n : a[i] < p
        BY <1>1, <1>2, <2>3 DEF AcceptedFrom
    <2>5. sent[p] \in Messages /\ sent[p] \in Message
        BY <2>4, ElementOfSeq, MessagesTyped DEF FramesTypes
    <2>6. rx.type = sent[p].type /\ rx.data = sent[p].data
        <3> DEFINE u == rx.type
                   d == rx.data
                   m == sent[p]
        <3>1. u \in Nat /\ d \in Seq(Byte) /\ m \in Message /\ Summed(u, d) = SumOf(m)
            BY <2>2, <2>4, <2>5
        <3> HIDE DEF u, d, m
        <3>2. u = m.type /\ d = m.data
            BY <3>1, SummedInjective
        <3>3. QED
            BY <3>2 DEF u, d, m
    <2>7. got = sent[p]
        BY <2>5, <2>6 DEF Message
    <2>8. /\ n \in Nat /\ Len(accepted') = n + 1 /\ accepted'[n + 1] = sent[p]
          /\ \A j \in 1 .. n : accepted'[j] = accepted[j]
        <3> DEFINE T == [type : Nat, data : Seq(Byte)]
                   x == sent[p]
        <3>1. accepted \in Seq(T) /\ accepted' = Append(accepted, x)
            BY <2>1, <2>7 DEF FramesTypes
        <3> HIDE DEF T, x, got
        <3>2. /\ n \in Nat /\ Len(accepted') = n + 1 /\ accepted'[n + 1] = x
              /\ \A j \in 1 .. n : accepted'[j] = accepted[j]
            BY <3>1
        <3>3. QED
            BY <3>2 DEF x
    <2> HIDE DEF got, n
    <2>9. /\ \A i \in 1 .. n : a[i] \in 1 .. Len(sent) /\ a[i] < p /\ a[i] <= p
                               /\ accepted[i] = sent[a[i]]
          /\ \A i, j \in 1 .. n : i < j => a[i] < a[j]
        BY <1>1, <2>4 DEF AcceptedFrom, n
    <2>10. /\ \A i \in 1 .. n : c[i] = a[i]
           /\ c[n + 1] = p
           /\ \A i \in 1 .. n + 1 : i \in 1 .. n \/ i = n + 1
           /\ DOMAIN c = 1 .. n + 1
        BY <2>8
    <2>11. c \in [1 .. n + 1 -> 1 .. Len(sent)]
        <3>1. \A i \in 1 .. n + 1 : c[i] \in 1 .. Len(sent)
            BY <2>4, <2>9, <2>10
        <3>2. QED
            BY <3>1
    <2> HIDE DEF c
    <2>12. \A i, j \in 1 .. n + 1 : i < j => c[i] < c[j]
        <3> SUFFICES ASSUME NEW i \in 1 .. n + 1, NEW j \in 1 .. n + 1, i < j
                     PROVE  c[i] < c[j]
            OBVIOUS
        <3>1. i \in 1 .. n
            BY <2>8
        <3>2. CASE j \in 1 .. n
            BY <2>9, <2>10, <3>1, <3>2
        <3>3. CASE j = n + 1
            BY <2>9, <2>10, <3>1, <3>3
        <3>4. QED
            BY <2>10, <3>2, <3>3
    <2>13. \A i \in 1 .. n + 1 : accepted'[i] = sent[c[i]] /\ c[i] <= p
        <3>1. accepted'[n + 1] = sent[c[n + 1]] /\ c[n + 1] <= p
            BY <1>2, <2>8, <2>10
        <3>2. \A i \in 1 .. n : accepted'[i] = sent[c[i]] /\ c[i] <= p
            BY <2>8, <2>9, <2>10
        <3>3. QED
            BY <2>10, <3>1, <3>2
    <2>14. ~ IsSum(Waiting.sum)
        BY DEF Waiting, IsSum
    <2>15. AcceptedFrom(c, accepted', sent, p, Waiting)
        BY <1>2, <2>8, <2>11, <2>12, <2>13, <2>14 DEF AcceptedFrom
    <2>16. QED
        BY <1>4, <1>8, <2>1, <2>15 DEF Sourced
<1>11. CASE ~ Accepts(rx, Head(line))
    <2> DEFINE s == line[1]
               r == RxSymbol(rx, s)
    <2>1. rx' = r /\ accepted' = accepted
        BY <1>3, <1>11 DEF Receive
    <2>2. IsSum(r.sum) => r.sum = rx.sum \/ r.sum = s
        BY <1>3, <1>9, RxSymbolSum
    <2> HIDE DEF r, s
    <2>3. CASE IsSum(r.sum) /\ r.sum = s
        <3>1. 1 \in 1 .. Len(line)
            BY <1>2, <1>3
        <3>2. IsSum(line[1])
            BY <2>3 DEF s
        <3>3. l[1] \in 1 .. Len(sent) /\ l[1] > p /\ line[1] = SumOf(sent[l[1]])
            BY <1>1, <3>1, <3>2 DEF SumsFrom
        <3>4. \A q \in 1 .. Len(line') : IsSum(line'[q]) => l[h[q]] > l[1]
            <4> SUFFICES ASSUME NEW q \in 1 .. Len(line'), IsSum(line'[q])
                         PROVE  l[h[q]] > l[1]
                OBVIOUS
            <4>1. h[q] \in 1 .. Len(line) /\ 1 < h[q] /\ IsSum(line[h[q]])
                BY <1>5
            <4>2. l[1] < l[h[q]] /\ l[h[q]] \in 1 .. Len(sent)
                BY <1>1, <3>1, <3>2, <4>1 DEF SumsFrom
            <4>3. QED
                BY <3>3, <4>2
        <3>5. l[1] \in Nat /\ p <= l[1] /\ l[1] \in 0 .. Len(sent) /\ l[1] # 0
            BY <1>2, <3>3
        <3>6. \E k : SumsFrom(k, line', sent, l[1])
            BY <1>6, <3>4, <3>5
        <3>7. AcceptedFrom(a, accepted, sent, l[1], r)
            <4>1. \A i \in 1 .. Len(accepted) : a[i] \in 1 .. Len(sent) /\ a[i] <= p
                BY <1>1 DEF AcceptedFrom
            <4>2. \A i \in 1 .. Len(accepted) : a[i] < l[1] /\ a[i] <= l[1]
                BY <1>2, <3>3, <4>1
            <4>3. r.sum = SumOf(sent[l[1]])
                BY <2>3, <3>3 DEF s
            <4>4. QED
                BY <1>1, <3>5, <4>2, <4>3 DEF AcceptedFrom
        <3>8. QED
            BY <1>4, <2>1, <3>6, <3>7 DEF Sourced
    <2>4. CASE ~ IsSum(r.sum) \/ r.sum = rx.sum
        <3>1. AcceptedFrom(a, accepted, sent, p, r)
            BY <1>1, <2>4 DEF AcceptedFrom
        <3>2. QED
            BY <1>4, <1>8, <2>1, <3>1 DEF Sourced
    <2>5. QED
        BY <2>2, <2>3, <2>4
<1>12. QED
    BY <1>10, <1>11

LEMMA SourcedStep ==
    ASSUME FramesTypes, Sourced, [FramesNext]_frameVars
    PROVE  Sourced'
<1>1. CASE UNCHANGED frameVars
    BY <1>1 DEF Sourced, frameVars
<1>2. ASSUME NEW i \in DOMAIN line, Lose(i)
      PROVE  Sourced'
    <2>1. /\ Len(line) \in Nat /\ i \in 1 .. Len(line) /\ Len(line') = Len(line) - 1
          /\ \A q \in 1 .. Len(line') : line'[q] = IF q < i THEN line[q] ELSE line[q + 1]
        BY <1>2, LostSymbol
    <2> DEFINE h == [q \in 1 .. Len(line') |-> IF q < i THEN q ELSE q + 1]
    <2>2. \A q \in 1 .. Len(line') : h[q] = IF q < i THEN q ELSE q + 1
        OBVIOUS
    <2> HIDE DEF h
    <2>3. /\ \A q \in 1 .. Len(line') : h[q] \in 1 .. Len(line) /\ line'[q] = line[h[q]]
          /\ \A j, k \in 1 .. Len(line') : j < k => h[j] < h[k]
          /\ Len(line') \in Nat
        BY <2>1, <2>2
    <2>4. UNCHANGED <<rx, sent, accepted>>
        BY <1>2 DEF Lose, Disturb
    <2>5. QED
        BY <2>3, <2>4, SourcedDisturbed
<1>3. ASSUME NEW i \in DOMAIN line, NEW c \in Noise, Change(i, c)
      PROVE  Sourced'
    <2>1. /\ Len(line) \in Nat /\ i \in 1 .. Len(line) /\ Len(line') = Len(line)
          /\ \A q \in 1 .. Len(line') : line'[q] = IF q = i THEN <<c>> ELSE line[q]
        BY <1>3, ChangedSymbol
    <2>2. ~ IsSum(<<c>>)
        BY NoiseSymbols, SingleNoSum
    <2> DEFINE h == [q \in 1 .. Len(line') |-> q]
    <2>3. \A q \in 1 .. Len(line') : h[q] = q
        OBVIOUS
    <2> HIDE DEF h
    <2>4. /\ \A q \in 1 .. Len(line') :
                 IsSum(line'[q]) => h[q] \in 1 .. Len(line) /\ line'[q] = line[h[q]]
          /\ \A j, k \in 1 .. Len(line') : j < k => h[j] < h[k]
          /\ Len(line') \in Nat
        BY <2>1, <2>2, <2>3
    <2>5. UNCHANGED <<rx, sent, accepted>>
        BY <1>3 DEF Change, Disturb
    <2>6. QED
        BY <2>4, <2>5, SourcedDisturbed
<1>4. ASSUME NEW i \in DOMAIN line, NEW c \in Noise, Insert(i, c)
      PROVE  Sourced'
    <2>1. /\ Len(line) \in Nat /\ i \in 1 .. Len(line) /\ Len(line') = Len(line) + 1
          /\ \A q \in 1 .. Len(line') :
                 line'[q] = IF q < i THEN line[q] ELSE IF q = i THEN <<c>> ELSE line[q - 1]
        BY <1>4, InsertedSymbol
    <2>2. ~ IsSum(<<c>>)
        BY NoiseSymbols, SingleNoSum
    <2> DEFINE h == [q \in 1 .. Len(line') |-> IF q < i THEN q ELSE q - 1]
    <2>3. \A q \in 1 .. Len(line') : h[q] = IF q < i THEN q ELSE q - 1
        OBVIOUS
    <2> HIDE DEF h
    <2>4. \A q \in 1 .. Len(line') : IsSum(line'[q]) => q # i
        <3>1. ~ (i < i)
            BY <2>1
        <3>2. QED
            BY <2>1, <2>2, <3>1
    <2>5. /\ \A q \in 1 .. Len(line') :
                 IsSum(line'[q]) => h[q] \in 1 .. Len(line) /\ line'[q] = line[h[q]]
          /\ \A j, k \in 1 .. Len(line') : j < k /\ j # i /\ k # i => h[j] < h[k]
          /\ Len(line') \in Nat
        BY <2>1, <2>3, <2>4
    <2>6. UNCHANGED <<rx, sent, accepted>>
        BY <1>4 DEF Insert, Disturb
    <2>7. QED
        BY <2>4, <2>5, <2>6, SourcedDisturbed
<1>5. CASE TimeOut
    <2> DEFINE h == [q \in 1 .. Len(line') |-> q]
    <2>1. line' = line /\ Len(line) \in Nat /\ UNCHANGED <<sent, accepted>> /\ rx' = Waiting
        BY <1>5 DEF TimeOut, FramesTypes
    <2>2. \A q \in 1 .. Len(line') : h[q] = q
        OBVIOUS
    <2> HIDE DEF h
    <2>3. QED
        BY <2>1, <2>2, SourcedDisturbed
<1>6. QED
    BY <1>1, <1>2, <1>3, <1>4, <1>5, SourcedSend, SourcedReceive DEF FramesNext

\* Whatever bytes are lost, changed or added, and wherever attemptRx is cut off, it returns
\* nothing but messages that were sent, each at most once and in their order.
THEOREM FramesNotInvented == FramesSpec => []NothingInvented
<1>1. FramesInit => Sourced
    <2> SUFFICES ASSUME FramesInit PROVE Sourced
        OBVIOUS
    <2>1. Len(<<>>) = 0 /\ 1 .. 0 = {} /\ 0 \in 0 .. 0
        OBVIOUS
    <2>2. ~ IsSum(Waiting.sum)
        BY DEF Waiting, IsSum
    <2> DEFINE none == [i \in 1 .. 0 |-> 0]
    <2>3. none \in [1 .. 0 -> 1 .. 0]
        OBVIOUS
    <2> HIDE DEF none
    <2>4. SumsFrom(none, <<>>, <<>>, 0) /\ AcceptedFrom(none, <<>>, <<>>, 0, Waiting)
        BY <2>1, <2>2, <2>3 DEF SumsFrom, AcceptedFrom
    <2>5. QED
        BY <2>4 DEF FramesInit, Sourced
<1>2. FramesTypes /\ Sourced /\ [FramesNext]_frameVars => Sourced'
    BY SourcedStep
<1>3. FramesTypes /\ Sourced => NothingInvented
    <2> SUFFICES ASSUME FramesTypes, Sourced PROVE IsSubSeq(accepted, sent)
        BY DEF NothingInvented
    <2>1. PICK a, p : AcceptedFrom(a, accepted, sent, p, rx)
        BY DEF Sourced
    <2>2. DOMAIN accepted = 1 .. Len(accepted) /\ DOMAIN sent = 1 .. Len(sent)
        BY DEF FramesTypes
    <2>3. /\ a \in [DOMAIN accepted -> DOMAIN sent]
          /\ \A i, j \in DOMAIN accepted : i < j => a[i] < a[j]
          /\ \A i \in DOMAIN accepted : accepted[i] = sent[a[i]]
        BY <2>1, <2>2 DEF AcceptedFrom
    <2>4. QED
        BY <2>3 DEF IsSubSeq
<1>4. QED
    BY <1>1, <1>2, <1>3, FramesTyped, PTL DEF FramesSpec
-------------------------------------------------------------------------------
(* The keys of DXplorer.                                                     *)

LEMMA DivRadix ==
    ASSUME NEW n \in Nat
    PROVE  /\ n \div Radix \in Nat /\ n % Radix \in Nat
           /\ n = Radix * (n \div Radix) + (n % Radix)
<1>1. Radix \in Nat /\ Radix > 0
    BY KeyAssumption
<1> QED
    BY <1>1

LEMMA DivBelow ==
    ASSUME NEW n \in Nat, NEW p \in Nat, n < Radix * p
    PROVE  n \div Radix < p
<1>1. Radix \in Nat /\ Radix > 0
    BY KeyAssumption
<1> DEFINE q == n \div Radix
           r == n % Radix
<1>2. q \in Nat /\ r \in Nat /\ n = Radix * q + r
    BY DivRadix
<1> HIDE DEF q, r
<1>3. ASSUME q >= p PROVE FALSE
    <2>1. PICK d \in Nat : q = p + d
        BY <1>2, <1>3
    <2>2. Radix * q = Radix * p + Radix * d
        BY <1>1, <2>1
    <2>3. Radix * d \in Nat /\ Radix * p \in Nat
        BY <1>1
    <2>4. QED
        BY <1>1, <1>2, <2>2, <2>3
<1>4. q < p
    BY <1>2, <1>3
<1>5. QED
    BY <1>4 DEF q

\* There is only one function that follows next from base on.
LEMMA RunsUnique ==
    ASSUME NEW S, NEW base \in S, NEW n \in Nat, NEW next \in [1 .. n -> [S -> S]],
           NEW g, Runs(S, base, n, next, g), NEW h, DOMAIN h = 0 .. n, h = [k \in DOMAIN h |-> h[k]],
           h[0] = base, \A k \in 1 .. n : h[k - 1] \in S => h[k] = next[k][h[k - 1]]
    PROVE  Runs(S, base, n, next, h)
<1> DEFINE P == {k \in 0 .. n : h[k] \in S}
<1>1. 0 \in P
    OBVIOUS
<1>2. \A k \in P : k < n => k + 1 \in P
    <2> SUFFICES ASSUME NEW k \in P, k < n
                 PROVE  k + 1 \in P
        OBVIOUS
    <2>1. k + 1 \in 1 .. n /\ (k + 1) - 1 = k /\ k + 1 \in 0 .. n /\ h[k] \in S
        OBVIOUS
    <2>2. h[k + 1] = next[k + 1][h[k]] /\ next[k + 1] \in [S -> S]
        BY <2>1
    <2>3. QED
        BY <2>1, <2>2
<1>3. P = 0 .. n
    <2>1. P \in SUBSET (0 .. n)
        OBVIOUS
    <2> HIDE DEF P
    <2>2. QED
        BY <1>1, <1>2, <2>1, IntervalInduction
<1>4. \A k \in 0 .. n : h[k] \in S
    BY <1>3
<1>5. \A k \in 1 .. n : h[k] = next[k][h[k - 1]]
    <2>1. \A k \in 1 .. n : k - 1 \in 0 .. n
        OBVIOUS
    <2>2. QED
        BY <1>4, <2>1
<1>6. h \in [0 .. n -> S]
    BY <1>4
<1>7. QED
    BY <1>5, <1>6 DEF Runs

LEMMA PowerFacts ==
    /\ Power \in [0 .. MaxBytes -> Nat] /\ Power[0] = 1
    /\ \A k \in 1 .. MaxBytes : Power[k] = Radix * Power[k - 1]
<1> DEFINE M == MaxBytes
           made(f) == [k \in 0 .. M |-> IF k = 0 THEN 1 ELSE Radix * f[k - 1]]
           next == [k \in 1 .. M |-> [q \in Nat |-> Radix * q]]
<1>1. M \in Nat /\ Radix \in Nat /\ 1 \in Nat
    BY KeyAssumption
<1> HIDE DEF M
<1>2. \A q \in Nat : Radix * q \in Nat
    BY <1>1
<1>3. next \in [1 .. M -> [Nat -> Nat]]
    BY <1>2
<1>4. PICK g : Runs(Nat, 1, M, next, g)
    <2> HIDE DEF next
    <2>1. QED
        BY <1>1, <1>3, Recursion
<1>5. g \in [0 .. M -> Nat] /\ g[0] = 1 /\ \A k \in 1 .. M : g[k] = next[k][g[k - 1]]
    BY <1>4 DEF Runs
<1>6. g = made(g)
    <2>1. \A k \in 0 .. M : g[k] = IF k = 0 THEN 1 ELSE Radix * g[k - 1]
        <3>1. \A k \in 0 .. M : k # 0 => k \in 1 .. M /\ k - 1 \in 0 .. M
            BY <1>1
        <3>2. QED
            BY <1>5, <3>1
    <2>2. QED
        BY <1>5, <2>1
<1>7. Power = made(Power)
    <2>1. Power = CHOOSE f : f = made(f)
        BY DEF Power, M
    <2>2. \E f : f = made(f)
        BY <1>6
    <2> HIDE DEF made
    <2>3. QED
        BY <2>1, <2>2
<1> DEFINE h == Power
<1> HIDE DEF h
<1>8. /\ DOMAIN h = 0 .. M /\ h = [k \in DOMAIN h |-> h[k]]
      /\ \A k \in 0 .. M : h[k] = IF k = 0 THEN 1 ELSE Radix * h[k - 1]
    BY <1>7 DEF h
<1>9. h[0] = 1 /\ \A k \in 1 .. M : h[k - 1] \in Nat => h[k] = next[k][h[k - 1]]
    <2>1. 0 \in 0 .. M /\ \A k \in 1 .. M : k \in 0 .. M /\ k # 0
        BY <1>1
    <2>2. QED
        BY <1>8, <2>1
<1> HIDE DEF next
<1>10. Runs(Nat, 1, M, next, h)
    BY <1>1, <1>3, <1>4, <1>8, <1>9, RunsUnique
<1>11. h \in [0 .. M -> Nat] /\ \A k \in 1 .. M : h[k] = Radix * h[k - 1]
    <2>1. h \in [0 .. M -> Nat] /\ \A k \in 1 .. M : h[k] = next[k][h[k - 1]]
        BY <1>10 DEF Runs
    <2>2. \A k \in 1 .. M : h[k - 1] \in Nat
        <3>1. \A k \in 1 .. M : k - 1 \in 0 .. M
            BY <1>1
        <3>2. QED
            BY <2>1, <3>1
    <2>3. QED
        BY <2>1, <2>2 DEF next
<1>12. QED
    BY <1>9, <1>11 DEF h, M

LEMMA ShiftedFacts ==
    ASSUME NEW n \in Nat
    PROVE  /\ Shifted(n) \in [0 .. MaxBytes -> Nat] /\ Shifted(n)[0] = n
           /\ \A k \in 1 .. MaxBytes : Shifted(n)[k] = Shifted(n)[k - 1] \div Radix
<1> DEFINE M == MaxBytes
           made(f) == [k \in 0 .. M |-> IF k = 0 THEN n ELSE f[k - 1] \div Radix]
           next == [k \in 1 .. M |-> [q \in Nat |-> q \div Radix]]
<1>1. M \in Nat
    BY KeyAssumption
<1> HIDE DEF M
<1>2. \A q \in Nat : q \div Radix \in Nat
    BY DivRadix
<1>3. next \in [1 .. M -> [Nat -> Nat]]
    BY <1>2
<1>4. PICK g : Runs(Nat, n, M, next, g)
    <2> HIDE DEF next
    <2>1. QED
        BY <1>1, <1>3, Recursion
<1>5. g \in [0 .. M -> Nat] /\ g[0] = n /\ \A k \in 1 .. M : g[k] = next[k][g[k - 1]]
    BY <1>4 DEF Runs
<1>6. g = made(g)
    <2>1. \A k \in 0 .. M : g[k] = IF k = 0 THEN n ELSE g[k - 1] \div Radix
        <3>1. \A k \in 0 .. M : k # 0 => k \in 1 .. M /\ k - 1 \in 0 .. M
            BY <1>1
        <3>2. QED
            BY <1>5, <3>1
    <2>2. QED
        BY <1>5, <2>1
<1>7. Shifted(n) = made(Shifted(n))
    <2>1. Shifted(n) = CHOOSE f : f = made(f)
        BY DEF Shifted, M
    <2>2. \E f : f = made(f)
        BY <1>6
    <2> HIDE DEF made
    <2>3. QED
        BY <2>1, <2>2
<1> DEFINE h == Shifted(n)
<1> HIDE DEF h
<1>8. /\ DOMAIN h = 0 .. M /\ h = [k \in DOMAIN h |-> h[k]]
      /\ \A k \in 0 .. M : h[k] = IF k = 0 THEN n ELSE h[k - 1] \div Radix
    BY <1>7 DEF h
<1>9. h[0] = n /\ \A k \in 1 .. M : h[k - 1] \in Nat => h[k] = next[k][h[k - 1]]
    <2>1. 0 \in 0 .. M /\ \A k \in 1 .. M : k \in 0 .. M /\ k # 0
        BY <1>1
    <2>2. QED
        BY <1>8, <2>1
<1> HIDE DEF next
<1>10. Runs(Nat, n, M, next, h)
    BY <1>1, <1>3, <1>4, <1>8, <1>9, RunsUnique
<1>11. h \in [0 .. M -> Nat] /\ \A k \in 1 .. M : h[k] = h[k - 1] \div Radix
    <2>1. h \in [0 .. M -> Nat] /\ \A k \in 1 .. M : h[k] = next[k][h[k - 1]]
        BY <1>10 DEF Runs
    <2>2. \A k \in 1 .. M : h[k - 1] \in Nat
        <3>1. \A k \in 1 .. M : k - 1 \in 0 .. M
            BY <1>1
        <3>2. QED
            BY <2>1, <3>1
    <2>3. QED
        BY <2>1, <2>2 DEF next
<1>12. QED
    BY <1>9, <1>11 DEF h, M

\* The bytes are enough: after MaxBytes turns nothing of the integer is left.
LEMMA ShiftedOut ==
    ASSUME NEW n \in Uint
    PROVE  n \in Nat /\ Shifted(n)[MaxBytes] = 0
<1> DEFINE M == MaxBytes
           s == Shifted(n)
           w == Power
<1>1. M \in Nat /\ M >= 1
    BY KeyAssumption
<1>2. w \in [0 .. M -> Nat] /\ w[0] = 1 /\ \A k \in 1 .. M : w[k] = Radix * w[k - 1]
    BY PowerFacts
<1>3. n \in Nat /\ n < w[M]
    <2>1. w[M] \in Nat
        BY <1>1, <1>2
    <2>2. n \in 0 .. w[M] - 1
        BY DEF Uint
    <2> HIDE DEF w, M
    <2>3. QED
        BY <2>1, <2>2
<1>4. s \in [0 .. M -> Nat] /\ s[0] = n /\ \A k \in 1 .. M : s[k] = s[k - 1] \div Radix
    BY <1>3, ShiftedFacts
<1> HIDE DEF M, s, w
<1> DEFINE P == {k \in 0 .. M : s[k] < w[M - k]}
<1>5. 0 \in P
    <2>1. M - 0 = M
        BY <1>1
    <2>2. QED
        BY <1>1, <1>3, <1>4, <2>1
<1>6. \A k \in P : k < M => k + 1 \in P
    <2> SUFFICES ASSUME NEW k \in P, k < M
                 PROVE  k + 1 \in P
        OBVIOUS
    <2>1. /\ k \in 0 .. M /\ k + 1 \in 1 .. M /\ (k + 1) - 1 = k /\ s[k] < w[M - k]
          /\ M - k \in 1 .. M /\ (M - k) - 1 = M - (k + 1) /\ M - (k + 1) \in 0 .. M
          /\ k + 1 \in 0 .. M
        BY <1>1
    <2>2. s[k + 1] = s[k] \div Radix /\ w[M - k] = Radix * w[M - (k + 1)]
        BY <1>2, <1>4, <2>1
    <2>3. s[k] \in Nat /\ w[M - (k + 1)] \in Nat
        BY <1>2, <1>4, <2>1
    <2>4. s[k] \div Radix < w[M - (k + 1)]
        BY <2>1, <2>2, <2>3, DivBelow
    <2>5. QED
        BY <2>1, <2>2, <2>4
<1>7. P = 0 .. M
    <2>1. P \in SUBSET (0 .. M)
        OBVIOUS
    <2> HIDE DEF P
    <2>2. QED
        BY <1>1, <1>5, <1>6, <2>1, IntervalInduction
<1>8. s[M] < w[M - M] /\ s[M] \in Nat /\ M - M = 0
    <2>1. M \in P
        <3>1. M \in 0 .. M
            BY <1>1
        <3> HIDE DEF P
        <3>2. QED
            BY <1>7, <3>1
    <2>2. QED
        BY <1>1, <1>4, <2>1
<1>9. s[M] = 0
    BY <1>2, <1>8
<1>10. QED
    BY <1>3, <1>9 DEF s, M

LEMMA ByteCountFacts ==
    ASSUME NEW n \in Uint
    PROVE  ByteCount(n) \in 1 .. MaxBytes /\ Shifted(n)[ByteCount(n)] = 0
<1> DEFINE M == MaxBytes
           s == Shifted(n)
           T == {k \in 1 .. M : s[k] = 0}
<1>1. M \in Nat /\ M >= 1 /\ s[M] = 0
    BY KeyAssumption, ShiftedOut
<1> HIDE DEF M, s
<1>2. T \in SUBSET Nat /\ T # {}
    BY <1>1
<1>3. PICK k \in T : \A j \in T : ~ (j < k)
    <2> HIDE DEF T
    <2>1. QED
        BY <1>2, LeastNumber
<1>4. k \in 1 .. M /\ s[k] = 0 /\ \A j \in 1 .. k - 1 : s[j] # 0
    <2>1. \A j \in 1 .. k - 1 : j \in 1 .. M /\ j < k
        BY <1>1, <1>3
    <2>2. QED
        BY <1>3, <2>1
<1>5. ByteCount(n) = CHOOSE i \in 1 .. M : s[i] = 0 /\ \A j \in 1 .. i - 1 : s[j] # 0
    BY DEF ByteCount, M, s
<1>6. ByteCount(n) \in 1 .. M /\ s[ByteCount(n)] = 0
    BY <1>4, <1>5
<1>7. QED
    BY <1>6 DEF M, s

LEMMA StoredBytes ==
    ASSUME NEW n \in Uint
    PROVE  /\ StoreInt(n) \in Seq(Nat) /\ Len(StoreInt(n)) = ByteCount(n)
           /\ Len(StoreInt(n)) \in 1 .. 8
           /\ \A i \in 1 .. ByteCount(n) : StoreInt(n)[i] = Shifted(n)[i - 1] % Radix
<1> DEFINE c == ByteCount(n)
           s == Shifted(n)
<1>1. c \in 1 .. MaxBytes /\ MaxBytes \in 1 .. 8
    BY ByteCountFacts, KeyAssumption
<1>2. s \in [0 .. MaxBytes -> Nat]
    BY ShiftedOut, ShiftedFacts
<1>3. \A i \in 1 .. c : s[i - 1] % Radix \in Nat
    <2>1. \A i \in 1 .. c : i - 1 \in 0 .. MaxBytes
        BY <1>1
    <2>2. QED
        BY <1>2, <2>1, DivRadix
<1> DEFINE b == [i \in 1 .. c |-> s[i - 1] % Radix]
<1>4. StoreInt(n) = b
    BY DEF StoreInt
<1> HIDE DEF c, s
<1>5. c \in Nat /\ c \in 1 .. 8
    BY <1>1
<1>6. b \in Seq(Nat) /\ Len(b) = c /\ \A i \in 1 .. c : b[i] = s[i - 1] % Radix
    BY <1>3, <1>5
<1> HIDE DEF b
<1>7. QED
    BY <1>4, <1>5, <1>6 DEF c, s

LEMMA NumberOfStored == ASSUME NEW n \in Uint PROVE Number(StoreInt(n)) = n
<1> DEFINE b == StoreInt(n)
           c == ByteCount(n)
           s == Shifted(n)
           made(f) == [k \in 0 .. Len(b) |->
                          IF k = 0 THEN 0 ELSE b[Len(b) + 1 - k] + Radix * f[k - 1]]
           g == [k \in 0 .. c |-> s[c - k]]
<1>1. /\ c \in 1 .. MaxBytes /\ MaxBytes \in Nat /\ c \in Nat /\ s[c] = 0 /\ Len(b) = c
      /\ \A i \in 1 .. c : b[i] = s[i - 1] % Radix
    BY ByteCountFacts, StoredBytes, KeyAssumption
<1>2. /\ s \in [0 .. MaxBytes -> Nat] /\ s[0] = n
      /\ \A k \in 1 .. MaxBytes : s[k] = s[k - 1] \div Radix
    BY ShiftedOut, ShiftedFacts
<1> HIDE DEF b, c, s
<1>3. ASSUME NEW i \in 1 .. c
      PROVE  s[i - 1] = b[i] + Radix * s[i]
    <2>1. i \in 1 .. MaxBytes /\ i - 1 \in 0 .. MaxBytes
        BY <1>1
    <2>2. s[i - 1] \in Nat /\ s[i] = s[i - 1] \div Radix /\ b[i] = s[i - 1] % Radix
        BY <1>1, <1>2, <2>1
    <2> DEFINE x == s[i - 1]
    <2> HIDE DEF x
    <2>3. x \in Nat /\ s[i] = x \div Radix /\ b[i] = x % Radix
        BY <2>2 DEF x
    <2>4. x = Radix * (x \div Radix) + (x % Radix) /\ x \div Radix \in Nat /\ x % Radix \in Nat
        BY <2>3, DivRadix
    <2>5. Radix * (x \div Radix) \in Nat
        BY <2>4, KeyAssumption
    <2>6. x = (x % Radix) + Radix * (x \div Radix)
        BY <2>4, <2>5
    <2>7. QED
        BY <2>3, <2>6 DEF x
<1>4. g = made(g)
    <2>1. ASSUME NEW k \in 1 .. c
          PROVE  g[k] = b[c + 1 - k] + Radix * g[k - 1]
        <3>1. c + 1 - k \in 1 .. c /\ (c + 1 - k) - 1 = c - k /\ c - (k - 1) = c + 1 - k
              /\ k \in 0 .. c /\ k - 1 \in 0 .. c
            BY <1>1
        <3>2. s[c - k] = b[c + 1 - k] + Radix * s[c + 1 - k]
            BY <1>3, <3>1
        <3>3. QED
            BY <3>1, <3>2
    <2>2. g[0] = 0
        <3>1. c - 0 = c /\ 0 \in 0 .. c
            BY <1>1
        <3>2. QED
            BY <1>1, <3>1
    <2>3. \A k \in 0 .. c : k = 0 \/ k \in 1 .. c
        BY <1>1
    <2>4. g = [k \in 0 .. c |-> g[k]]
        OBVIOUS
    <2> HIDE DEF g
    <2>5. \A k \in 0 .. c : g[k] = IF k = 0 THEN 0 ELSE b[c + 1 - k] + Radix * g[k - 1]
        BY <2>1, <2>2, <2>3
    <2>6. g = [k \in 0 .. c |-> IF k = 0 THEN 0 ELSE b[c + 1 - k] + Radix * g[k - 1]]
        BY <2>4, <2>5
    <2>7. QED
        BY <1>1, <2>6
<1> DEFINE h == CHOOSE f : f = made(f)
<1>5. h = made(h)
    <2>1. \E f : f = made(f)
        BY <1>4
    <2> HIDE DEF made
    <2>2. QED
        BY <2>1
<1>6. Number(b) = h[c]
    BY <1>1 DEF Number
<1> HIDE DEF h
<1>7. /\ h[0] = 0
      /\ \A k \in 1 .. c : h[k] = b[c + 1 - k] + Radix * h[k - 1]
    <2>1. \A k \in 0 .. c : h[k] = IF k = 0 THEN 0 ELSE b[c + 1 - k] + Radix * h[k - 1]
        BY <1>1, <1>5
    <2>2. 0 \in 0 .. c /\ \A k \in 1 .. c : k \in 0 .. c /\ k # 0
        BY <1>1
    <2> HIDE DEF made
    <2>3. QED
        BY <2>1, <2>2
<1> DEFINE P == {k \in 0 .. c : h[k] = s[c - k]}
<1>8. 0 \in P
    <2>1. c - 0 = c /\ 0 \in 0 .. c
        BY <1>1
    <2>2. QED
        BY <1>1, <1>7, <2>1
<1>9. \A k \in P : k < c => k + 1 \in P
    <2> SUFFICES ASSUME NEW k \in P, k < c
                 PROVE  k + 1 \in P
        OBVIOUS
    <2>1. /\ k + 1 \in 1 .. c /\ (k + 1) - 1 = k /\ k + 1 \in 0 .. c /\ h[k] = s[c - k]
          /\ c + 1 - (k + 1) = c - k /\ c - k \in 1 .. c /\ (c - k) - 1 = c - (k + 1)
        BY <1>1
    <2>2. h[k + 1] = b[c - k] + Radix * h[k]
        BY <1>7, <2>1
    <2>3. s[c - (k + 1)] = b[c - k] + Radix * s[c - k]
        BY <1>3, <2>1
    <2>4. QED
        BY <2>1, <2>2, <2>3
<1>10. P = 0 .. c
    <2>1. P \in SUBSET (0 .. c)
        OBVIOUS
    <2> HIDE DEF P
    <2>2. QED
        BY <1>1, <1>8, <1>9, <2>1, IntervalInduction
<1>11. c \in P
    <2>1. c \in 0 .. c
        BY <1>1
    <2> HIDE DEF P
    <2>2. QED
        BY <1>10, <2>1
<1>12. h[c] = n
    <2>1. c - c = 0
        BY <1>1
    <2>2. QED
        BY <1>2, <1>11, <2>1
<1>13. QED
    BY <1>6, <1>12 DEF b

\* Where the first part of a prefix ends and the second begins.
LEMMA PrefixParts ==
    ASSUME NEW p \in Nat, NEW x \in Seq(Nat), NEW y \in Seq(Nat), Len(x) >= 1, Len(y) >= 1
    PROVE  LET f == <<p>> \o x \o y IN
           /\ f[1] = p /\ Len(f) = 1 + Len(x) + Len(y)
           /\ SubSeq(f, 2, 1 + Len(x)) = x /\ SubSeq(f, 2 + Len(x), Len(f)) = y
<1> DEFINE one == <<p>>
           u == one \o x
           f == u \o y
<1>1. one \in Seq(Nat) /\ Len(one) = 1 /\ one[1] = p
    OBVIOUS
<1> HIDE DEF one
<1>2. /\ u \in Seq(Nat) /\ Len(x) \in Nat /\ Len(u) = Len(one) + Len(x)
      /\ \A q \in 1 .. Len(one) : u[q] = one[q]
      /\ \A q \in 1 .. Len(x) : u[Len(one) + q] = x[q]
    <2>1. one \in Seq(Nat) /\ x \in Seq(Nat)
        BY <1>1
    <2>2. QED
        BY ONLY <2>1, ConcatIndex
<1> HIDE DEF u
<1>3. /\ f \in Seq(Nat) /\ Len(y) \in Nat /\ Len(f) = Len(u) + Len(y)
      /\ \A q \in 1 .. Len(u) : f[q] = u[q]
      /\ \A q \in 1 .. Len(y) : f[Len(u) + q] = y[q]
    <2>1. u \in Seq(Nat) /\ y \in Seq(Nat)
        BY <1>2
    <2>2. QED
        BY ONLY <2>1, ConcatIndex
<1> HIDE DEF f
<1>4. Len(u) = 1 + Len(x) /\ Len(f) = 1 + Len(x) + Len(y) /\ f[1] = p
    <2>1. 1 \in 1 .. Len(one) /\ 1 \in 1 .. Len(u)
        BY <1>1, <1>2
    <2>2. QED
        BY <1>1, <1>2, <1>3, <2>1
<1>5. SubSeq(f, 2, 1 + Len(x)) = x
    <2> DEFINE t == SubSeq(f, 2, 1 + Len(x))
               z == 1 + Len(x)
    <2>a. Len(x) \in Nat /\ Len(y) \in Nat /\ Len(x) >= 1 /\ Len(f) = 1 + Len(x) + Len(y)
        BY <1>2, <1>3, <1>4
    <2>1. /\ 2 \in 1 .. Len(f) + 1 /\ z \in 0 .. Len(f) /\ 2 <= z + 1 /\ z + 1 - 2 = Len(x)
          /\ f \in Seq(Nat)
        BY <1>3, <2>a
    <2>2. /\ t \in Seq(Nat) /\ Len(t) = z + 1 - 2
          /\ \A q \in 1 .. z + 1 - 2 : t[q] = f[2 + q - 1]
        BY ONLY <2>1, SliceFacts
    <2> HIDE DEF t
    <2>3. ASSUME NEW q \in 1 .. Len(x)
          PROVE  t[q] = x[q]
        <3>1. 2 + q - 1 = 1 + q /\ 1 + q \in 1 .. Len(u)
            BY <1>2, <1>4
        <3>2. f[1 + q] = u[1 + q] /\ u[1 + q] = x[q]
            BY <1>1, <1>2, <1>3, <3>1
        <3>3. q \in 1 .. z + 1 - 2
            BY <2>1
        <3>4. QED
            BY <2>2, <3>1, <3>2, <3>3
    <2>4. Len(t) = Len(x)
        BY <2>1, <2>2
    <2>5. t = x
        BY <2>2, <2>3, <2>4, SeqEqual
    <2>6. QED
        BY <2>5 DEF t
<1>6. SubSeq(f, 2 + Len(x), Len(f)) = y
    <2> DEFINE a == 2 + Len(x)
               z == Len(f)
               t == SubSeq(f, a, z)
    <2>a. /\ Len(x) \in Nat /\ Len(y) \in Nat /\ Len(y) >= 1 /\ z = 1 + Len(x) + Len(y)
          /\ Len(u) = 1 + Len(x)
        BY <1>2, <1>3, <1>4
    <2>1. /\ a \in 1 .. Len(f) + 1 /\ z \in 0 .. Len(f) /\ a <= z + 1 /\ z + 1 - a = Len(y)
          /\ a = Len(u) + 1 /\ f \in Seq(Nat) /\ z \in Nat
        BY <1>3, <2>a
    <2> HIDE DEF a, z
    <2>b. /\ a \in 1 .. Len(f) + 1 /\ z \in 0 .. Len(f) /\ a <= z + 1 /\ f \in Seq(Nat)
        BY ONLY <2>1
    <2>2. /\ t \in Seq(Nat) /\ Len(t) = z + 1 - a
          /\ \A q \in 1 .. z + 1 - a : t[q] = f[a + q - 1]
        BY ONLY <2>b, SliceFacts
    <2> HIDE DEF t
    <2>3. ASSUME NEW q \in 1 .. Len(y)
          PROVE  t[q] = y[q]
        <3>a. q \in 1 .. z + 1 - a
            BY <2>1
        <3>b. Len(u) \in Nat
            BY <2>a
        <3>1. a + q - 1 = Len(u) + q /\ q \in 1 .. z + 1 - a
            BY <2>1, <3>a, <3>b
        <3>2. QED
            BY <1>3, <2>2, <3>1
    <2>4. Len(t) = Len(y)
        BY <2>1, <2>2
    <2>5. t = y
        BY <2>2, <2>3, <2>4, SeqEqual
    <2>6. QED
        BY <2>5 DEF t, a, z
<1>7. QED
    BY <1>4, <1>5, <1>6 DEF f, u, one

LEMMA CountsUnpack ==
    \A f, s \in 1 .. 8 : /\ PackedCounts(f, s) \in Nat
                         /\ (PackedCounts(f, s) % 8) + 1 = f
                         /\ (PackedCounts(f, s) \div 8) + 1 = s
BY DEF PackedCounts

\* The prefix of a key gives back the device id and the change counter it was made of,
\* for all integers of so many bytes: neither can be taken for a part of the other.
THEOREM EveryKeyDecodes ==
    ASSUME NEW id \in Uint, NEW counter \in Uint, NEW callsign, NEW secret
    PROVE  KeyDecodes(id, counter, callsign, secret)
<1> DEFINE x == StoreInt(id)
           y == StoreInt(counter)
           p == PackedCounts(Len(x), Len(y))
           f == <<p>> \o x \o y
<1>1. x \in Seq(Nat) /\ Len(x) \in 1 .. 8 /\ y \in Seq(Nat) /\ Len(y) \in 1 .. 8
    BY StoredBytes
<1>2. Number(x) = id /\ Number(y) = counter
    BY NumberOfStored
<1>3. GenerateKey(id, counter, callsign, secret).prefix = f
    BY DEF GenerateKey
<1> HIDE DEF x, y
<1>4. p \in Nat /\ (p % 8) + 1 = Len(x) /\ (p \div 8) + 1 = Len(y)
    BY <1>1, CountsUnpack
<1> HIDE DEF p
<1>5. /\ f[1] = p /\ Len(f) = 1 + Len(x) + Len(y)
      /\ SubSeq(f, 2, 1 + Len(x)) = x /\ SubSeq(f, 2 + Len(x), Len(f)) = y
    <2>1. /\ x \in Seq(Nat) /\ y \in Seq(Nat) /\ p \in Nat
          /\ Len(x) >= 1 /\ Len(y) >= 1
        BY <1>1, <1>4
    <2>2. QED
        BY ONLY <2>1, PrefixParts
<1> HIDE DEF f
<1>6. QED
    BY <1>2, <1>3, <1>4, <1>5 DEF KeyDecodes

\* The same for the keys of the run, whatever the radix and the number of bytes.
THEOREM KeysAlwaysDecode == Spec => []KeysDecode
<1> DEFINE InputInv == input.kind = "key" => input.id \in Uint /\ input.counter \in Uint
<1>1. Init => InputInv
    <2> SUFFICES ASSUME Init, input.kind = "key"
                 PROVE  input.id \in Uint /\ input.counter \in Uint
        OBVIOUS
    <2>1. input \in Inputs
        BY DEF Init
    <2>2. input \in [kind : {"key"}, id : Uint, counter : Uint]
        BY <2>1 DEF Inputs
    <2>3. QED
        BY <2>2
<1>2. InputInv /\ [Next]_vars => InputInv'
    BY DEF Next, vars
<1>3. InputInv => KeysDecode
    BY EveryKeyDecodes DEF KeysDecode
<1>4. QED
    BY <1>1, <1>2, <1>3, PTL DEF Spec
================================================================================
