------------------------------ MODULE KeyPacking -----------------------------
(***************************************************************************)
(* The key of a DXplorer link: device id and change counter as a string of *)
(* bytes with their lengths before it, and the input of the hash behind it *)
(* (DXplorer::generateKey, common/dxplorer.cpp).  The hash is ideal and is *)
(* represented by its input.                                               *)
(***************************************************************************)
EXTENDS Integers, Sequences

CONSTANTS
    Radix,        \* 256, the values of a byte
    MaxBytes,     \* 8, the bytes of a uint64_t
    Decimal(_)    \* std::to_string, a sequence of characters

\* Three bits of packedCounts hold the length of an integer less one.
ASSUME KeyAssumption == Radix \in Nat \ {0, 1} /\ MaxBytes \in 1 .. 8

Power[k \in 0 .. MaxBytes] == IF k = 0 THEN 1 ELSE Radix * Power[k - 1]

Uint == 0 .. Power[MaxBytes] - 1

\* data after so many turns of storeInt's loop.
Shifted(n) ==
    LET shifted[k \in 0 .. MaxBytes] == IF k = 0 THEN n ELSE shifted[k - 1] \div Radix
    IN  shifted

\* byteCount when the loop ends: data was not 0 at the end of any earlier turn.
ByteCount(n) ==
    CHOOSE k \in 1 .. MaxBytes :
        Shifted(n)[k] = 0 /\ \A j \in 1 .. k - 1 : Shifted(n)[j] # 0

\* The bytes, at least one, least significant first.
StoreInt(n) == [i \in 1 .. ByteCount(n) |-> Shifted(n)[i - 1] % Radix]

\* Mutant: two bits for the first length.
PackedCounts_TwoBits(first, second) == (first - 1) + (second - 1) * 4

\* What storeInt returns is a length less one, three bits of a 64 bit integer's.
PackedCounts(first, second) == (first - 1) + (second - 1) * 8

HashInput(id, counter, callsign, secret) ==
    Decimal(id) \o Decimal(counter) \o callsign \o secret

GenerateKey(id, counter, callsign, secret) ==
    LET idBytes == StoreInt(id)
        counterBytes == StoreInt(counter)
    IN  [prefix |-> <<PackedCounts(Len(idBytes), Len(counterBytes))>>
                        \o idBytes \o counterBytes,
         hash |-> HashInput(id, counter, callsign, secret)]

-----------------------------------------------------------------------------
\* The number whose bytes these are, from the most significant on.
Number(bytes) ==
    LET n == Len(bytes)
        value[k \in 0 .. n] == IF k = 0 THEN 0 ELSE bytes[n + 1 - k] + Radix * value[k - 1]
    IN  value[n]

\* The lengths, three bits each where the comment has four, tell where the id
\* ends and the counter begins, whatever they are (dxplorer.cpp:10-20, 40-43).
KeyDecodes(id, counter, callsign, secret) ==
    LET prefix == GenerateKey(id, counter, callsign, secret).prefix
        first == (prefix[1] % 8) + 1
        second == (prefix[1] \div 8) + 1
    IN  /\ 1 + first + second = Len(prefix)
        /\ Number(SubSeq(prefix, 2, 1 + first)) = id
        /\ Number(SubSeq(prefix, 2 + first, Len(prefix))) = counter

=============================================================================
