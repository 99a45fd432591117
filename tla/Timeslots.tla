------------------------------ MODULE Timeslots ------------------------------
(***************************************************************************)
(* The choice of transmit time slots for a repeat rate, in batches of      *)
(* five, as tools/timeslotgen.c shows it and the WSPRlite does it.  The    *)
(* random numbers are any that the modulus allows.                         *)
(***************************************************************************)
EXTENDS Naturals, FiniteSets

CONSTANTS
    MaxSlots         \* bound: how many slots are printed

BatchSize == 5

ASSUME SlotsAssumption == MaxSlots \in Nat

VARIABLES
    rate,            \* repeatRate, a percentage
    slot,            \* main's i: the slot printed next
    printed,         \* the slots with a transmission
    txSlots,         \* the bits of the current batch, as a set
    count,           \* txSlotCount
    freeSpaces,
    allocating       \* inside tslots_randomAlloc_gen

slotVars == <<rate, slot, printed, txSlots, count, freeSpaces, allocating>>

SlotsInit ==
    /\ rate \in 0 .. 100
    /\ slot = 0 /\ printed = {} /\ txSlots = {} /\ count = 0
    /\ freeSpaces = BatchSize /\ allocating = FALSE

BatchIndex == (slot - 1) % BatchSize

\* The first slot always has a transmission.
PrintFirst ==
    /\ slot = 0
    /\ slot' = 1 /\ printed' = {0}
    /\ UNCHANGED <<rate, txSlots, count, freeSpaces, allocating>>

\* rng_chance(n, 100), when the chance goes one way or the other.
Chance(n, yes) == IF yes THEN n > 0 ELSE n < 100

\* tslots_randomAlloc_gen up to its loop.
BeginBatch(yes) ==
    LET whole == (BatchSize * rate) \div 100 + (IF yes THEN 1 ELSE 0)
    IN  /\ slot \in 1 .. MaxSlots - 1 /\ BatchIndex = 0
        /\ ~allocating
        /\ Chance((BatchSize * rate) % 100, yes)
        /\ count' = IF whole > BatchSize THEN BatchSize ELSE whole
        /\ txSlots' = {} /\ freeSpaces' = BatchSize /\ allocating' = TRUE
        /\ UNCHANGED <<rate, slot, printed>>

\* The bit of the n-th free space, if there is one.
Selected(n) ==
    {bit \in 0 .. BatchSize - 1 :
        bit \notin txSlots /\ Cardinality((0 .. bit - 1) \ txSlots) = n}

\* Mutant: the spaces that are taken are not discounted.
Select_AllSpaces(n) ==
    /\ allocating /\ count > 0 /\ n < freeSpaces
    /\ txSlots' = txSlots \cup Selected(n)
    /\ count' = count - 1
    /\ UNCHANGED <<rate, slot, printed, freeSpaces, allocating>>

\* One turn of the loop.
Select(n) ==
    /\ allocating /\ count > 0 /\ n < freeSpaces
    /\ txSlots' = txSlots \cup Selected(n)
    /\ count' = count - 1
    /\ freeSpaces' = freeSpaces - 1
    /\ UNCHANGED <<rate, slot, printed, allocating>>

\* The rest of the batch is printed; a new one follows on the last of its slots.
PrintBatch ==
    /\ allocating /\ count = 0
    /\ slot' = slot + BatchSize
    /\ printed' = printed \cup {slot + bit : bit \in txSlots}
    /\ allocating' = FALSE
    /\ UNCHANGED <<rate, txSlots, count, freeSpaces>>

SlotsNext ==
    \/ PrintFirst
    \/ \E yes \in BOOLEAN : BeginBatch(yes)
    \/ \E n \in 0 .. BatchSize - 1 : Select(n)
    \/ PrintBatch

-----------------------------------------------------------------------------
Batch(k) == 1 + BatchSize * k .. BatchSize * (k + 1)

\* Every batch has the share of transmissions that the rate asks for, rounded up
\* or down, and a space was left for each: which older firmware did not achieve
\* (timeslotgen.c:8-13, 119-160).
BatchesFair ==
    /\ \A k \in 0 .. MaxSlots \div BatchSize :
           Batch(k) \subseteq 1 .. slot - 1 =>
               LET n == Cardinality(printed \cap Batch(k))
               IN  100 * n < BatchSize * rate + 100 /\ 100 * n > BatchSize * rate - 100
    /\ freeSpaces + Cardinality(txSlots) = BatchSize

=============================================================================
