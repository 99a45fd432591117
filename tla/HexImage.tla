------------------------------- MODULE HexImage ------------------------------
(***************************************************************************)
(* The flash image of a firmware file: HexFile::parse record by record     *)
(* into a VirtualFlash32, its bounds, and what Task_FirmwareUpdate reads   *)
(* from it, getChecksum, which also writes, included (common/HexFile.cpp,  *)
(* common/VirtualFlash32.hpp).                                             *)
(*                                                                         *)
(* The address space is scaled down.  Checksums are ideal: a checksum is   *)
(* represented by the contents it sums.                                    *)
(***************************************************************************)
EXTENDS Integers, Sequences, FiniteSetsExt

CONSTANTS
    PhysicalSpace,   \* 0x20000000: addr_PA takes addresses modulo this
    BootSector,      \* addr_PA(0x9FC00000): from here on nothing is stored
    ResetAddress,    \* addr_PA(APP_RESET_ADDRESS)
    Word,            \* bytes of a uint32_t, 4
    Bases,           \* what extended address records may set
    Offsets,         \* the addresses of data records
    Lengths,         \* and how many bytes they hold
    MaxRecords,      \* bound: records of a file
    MaxChecksums     \* bound: calls of getChecksum

Erased == 255

ASSUME HexAssumption ==
    /\ PhysicalSpace \in Nat /\ ResetAddress \in Nat
    /\ Word \in Nat \ {0} /\ MaxRecords \in Nat /\ MaxChecksums \in Nat
    /\ BootSector \in 1 .. PhysicalSpace
    /\ ResetAddress + Word <= BootSector
    /\ ResetAddress % Word = 0
    /\ Bases \cup Offsets \cup Lengths \subseteq Nat

VARIABLES
    flash,           \* VirtualFlash32::d
    begin, end,      \* beginAddress and endAddress
    base,            \* linAddress + segAddress, one of which is always 0
    records,         \* how many records have been parsed
    loaded,          \* parse has returned
    csum,            \* what the last getChecksum returned
    sums             \* how often it was called

vars == <<flash, begin, end, base, records, loaded, csum, sums>>

None == [length |-> -1]
ResetBytes == ResetAddress .. ResetAddress + Word - 1

-----------------------------------------------------------------------------
addr_PA(addr) == addr % PhysicalSpace

Get(f, addr) == IF addr_PA(addr) \in DOMAIN f THEN f[addr_PA(addr)] ELSE Erased

Image == [d |-> flash, begin |-> begin, end |-> end]

\* Several calls of set: value is a function on the addresses that are written.
SetAll(image, value) ==
    LET written == {a \in DOMAIN value : a < BootSector}
    IN  IF written = {} THEN image
        ELSE [d |-> [a \in DOMAIN image.d \cup written |->
                        IF a \in written THEN value[a] ELSE image.d[a]],
              begin |-> Min(written \cup {image.begin}),
              end |-> Max({a + 1 : a \in written} \cup {image.end})]

Becomes(image) == flash' = image.d /\ begin' = image.begin /\ end' = image.end

\* Mutant: the end is rounded down, as the beginning is.
RoundBounds_Down(image) ==
    [image EXCEPT !.begin = @ - (@ % Word), !.end = @ - (@ % Word)]

\* Expands the bounds, the upper one not always to a multiple of the word.
RoundBounds(image) ==
    [image EXCEPT !.begin = @ - (@ % Word), !.end = @ + (@ % Word)]

Init ==
    /\ flash = <<>> /\ begin = 8 * PhysicalSpace - 1 /\ end = 0
    /\ base = 0 /\ records = 0 /\ loaded = FALSE /\ csum = None /\ sums = 0

Parse == ~loaded /\ records < MaxRecords /\ records' = records + 1

DataRecord(offset, length, byte) ==
    /\ Parse
    /\ Becomes(SetAll(Image, [a \in {addr_PA(base + offset + i) : i \in 0 .. length - 1} |-> byte]))
    /\ UNCHANGED <<base, loaded, csum, sums>>

\* Extended segment and extended linear address records.
AddressRecord(b) ==
    /\ Parse
    /\ base' = b
    /\ UNCHANGED <<flash, begin, end, loaded, csum, sums>>

\* An end of file record does not end the parsing; other types are no different.
EndRecord == AddressRecord(0)

ParseReturns ==
    /\ ~loaded
    /\ loaded' = TRUE
    /\ Becomes(RoundBounds(Image))
    /\ UNCHANGED <<base, records, csum, sums>>

ResetErased(image) == SetAll(image, [a \in ResetBytes |-> Erased])
ResetRestored(image) == SetAll(image, [a \in ResetBytes |-> Get(flash, a)])

\* Mutant: what was stored at the reset address is not put back.
AfterChecksum_Erased(image) == ResetErased(image)

AfterChecksum(image) == ResetRestored(ResetErased(image))

\* Mutant: the bytes are summed up to the last but one.
Summed_ShortByOne(image, from, length) ==
    [a \in from .. from + length - 2 |-> Get(image.d, a)]

Summed(image, from, length) == [a \in from .. from + length - 1 |-> Get(image.d, a)]

\* The bounds are read before the reset address is erased, the beginning of the
\* bytes that are summed after it.
GetChecksum ==
    /\ loaded /\ sums < MaxChecksums
    /\ sums' = sums + 1
    /\ IF begin >= end
       THEN /\ csum' = [start |-> begin, length |-> 0, bytes |-> <<>>]
            /\ UNCHANGED <<flash, begin, end>>
       ELSE /\ csum' = [start |-> begin, length |-> end - begin,
                        bytes |-> Summed(ResetErased(Image), ResetErased(Image).begin,
                                         end - begin)]
            /\ Becomes(AfterChecksum(Image))
    /\ UNCHANGED <<base, records, loaded>>

Next ==
    \/ \E offset \in Offsets, length \in Lengths, byte \in {0, 1} :
           DataRecord(offset, length, byte)
    \/ \E b \in Bases : AddressRecord(b)
    \/ EndRecord
    \/ ParseReturns
    \/ GetChecksum

Spec == Init /\ [][Next]_vars

-----------------------------------------------------------------------------
(* Properties.                                                             *)

\* The bounds enclose every byte of the image, from an aligned address on once
\* it is loaded, and nothing of the boot sector is in it (VirtualFlash32.cpp:4-9).
BoundsEnclose ==
    /\ \A a \in DOMAIN flash : begin <= a /\ a < end /\ a < BootSector
    /\ loaded => begin % Word = 0

\* verify() compares the bytes that it tells the device to sum, and leaves out
\* none that program() writes but those of the reset address, which is programmed
\* later.  The exception is an image all above the reset address: the erasing in
\* getChecksum then moves the beginning (HexFile.cpp:101-134).
EveryByteVerified ==
    csum # None /\ csum.length > 0 /\ csum.start <= ResetAddress =>
        LET told == csum.start .. csum.start + csum.length - 1
        IN  /\ DOMAIN csum.bytes = told
            /\ \A a \in DOMAIN flash \ ResetBytes :
                   a \in told /\ csum.bytes[a] = flash[a]
            /\ \A a \in ResetBytes \cap told : csum.bytes[a] = Erased

\* Taking the checksum leaves the image as it was, so that writeResetAddress,
\* which comes after verify, writes what the file has (HexFile.cpp:136, 157).
ImageSurvivesChecksum ==
    [][loaded => \A a \in 0 .. BootSector - 1 : Get(flash', a) = Get(flash, a)]_vars

=============================================================================
