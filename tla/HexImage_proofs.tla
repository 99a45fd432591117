---------------------------- MODULE HexImage_proofs ----------------------------
(***************************************************************************)
(* Proofs about module HexImage, for every address space, word size, reset *)
(* address, and every file of data and address records: what bounds, sums  *)
(* and image have to do with each other.                                   *)
(***************************************************************************)
EXTENDS HexImage, WellFoundedInduction, TLAPS

\* Bounds enclose what an image holds, and that is below the boot sector.
Sound(image) ==
    /\ image.begin \in Nat /\ image.end \in Nat
    /\ DOMAIN image.d \subseteq 0 .. BootSector - 1
    /\ \A a \in DOMAIN image.d : image.begin <= a /\ a < image.end

ImageInv ==
    /\ Sound(Image)
    /\ base \in Nat
    /\ loaded \in BOOLEAN
    /\ loaded => begin % Word = 0
    /\ csum # None => loaded
    /\ EveryByteVerified

-------------------------------------------------------------------------------
(* The least and the greatest of a set.                                      *)

\* A set of naturals has a least element.
LEMMA MinFacts ==
    ASSUME NEW S \in SUBSET Nat, S # {}
    PROVE  Min(S) \in S /\ \A y \in S : Min(S) <= y
<1> DEFINE less == OpToRel(<, Nat)
<1>1. IsWellFoundedOn(less, Nat)
    BY NatLessThanWellFounded
<1>2. \E x \in S : \A y \in S : ~ (<<y, x>> \in less)
    <2> HIDE DEF less
    <2>1. QED
        BY <1>1, WFMin, Zenon
<1>3. \A x, y \in Nat : y < x => <<y, x>> \in less
    BY DEF OpToRel
<1> HIDE DEF less
<1>4. PICK x \in S : \A y \in S : ~ (<<y, x>> \in less)
    BY <1>2
<1>5. \A y \in S : x \in Nat /\ y \in Nat /\ ~(y < x)
    BY <1>3, <1>4
<1>6. \A y \in S : x <= y
    BY <1>5
<1>7. QED
    BY <1>6 DEF Min
\* A bounded one has a greatest: the least distance from the bound.
LEMMA MaxFacts ==
    ASSUME NEW n \in Nat, NEW S \in SUBSET (0 .. n), S # {}
    PROVE  Max(S) \in S /\ \A y \in S : Max(S) >= y
<1> DEFINE T == {n - x : x \in S}
<1>1. T \in SUBSET Nat
    OBVIOUS
<1>2. T # {}
    OBVIOUS
<1>3. Min(T) \in T /\ \A u \in T : Min(T) <= u
    <2> HIDE DEF T
    <2>1. QED
        BY <1>1, <1>2, MinFacts
<1>4. PICK x \in S : Min(T) = n - x
    BY <1>3
<1>5. \A y \in S : n - x <= n - y
    BY <1>3, <1>4
<1>6. \A y \in S : x >= y
    BY <1>5
<1>7. QED
    BY <1>6 DEF Max

-------------------------------------------------------------------------------
(* Addresses and images.                                                     *)

\* Physical addresses are below the size of the address space, and an address
\* below the boot sector is its own.
LEMMA AddrFacts ==
    /\ \A n \in Nat : addr_PA(n) \in Nat
    /\ \A a \in 0 .. BootSector - 1 : addr_PA(a) = a
    /\ BootSector \in Nat
    /\ ResetBytes \subseteq 0 .. BootSector - 1 /\ ResetAddress \in ResetBytes
    /\ \A a \in ResetBytes : ResetAddress <= a
<1>1. PhysicalSpace \in Nat /\ BootSector \in Nat /\ BootSector >= 1
      /\ BootSector <= PhysicalSpace /\ Word \in Nat /\ Word >= 1 /\ ResetAddress \in Nat
      /\ ResetAddress + Word <= BootSector
    BY HexAssumption
<1>2. \A n, m \in Nat : n < m => n % m = n
    OBVIOUS
<1>3. \A n, m \in Nat : m > 0 => n % m \in Nat
    OBVIOUS
<1>4. QED
    BY <1>1, <1>2, <1>3 DEF addr_PA, ResetBytes

\* VirtualFlash32::set, any number of times: what is stored, and the bounds.
LEMMA SetAllFacts ==
    ASSUME NEW image, Sound(image), NEW value, DOMAIN value \subseteq Nat
    PROVE  /\ Sound(SetAll(image, value))
           /\ DOMAIN SetAll(image, value).d =
                  DOMAIN image.d \cup {a \in DOMAIN value : a < BootSector}
           /\ \A a \in DOMAIN SetAll(image, value).d :
                  SetAll(image, value).d[a] =
                      IF a \in DOMAIN value THEN value[a] ELSE image.d[a]
           /\ SetAll(image, value).begin \in
                  {a \in DOMAIN value : a < BootSector} \cup {image.begin}
           /\ SetAll(image, value).begin <= image.begin
           /\ \A a \in {x \in DOMAIN value : x < BootSector} :
                  SetAll(image, value).begin <= a
           /\ image.end <= SetAll(image, value).end
<1> DEFINE written == {a \in DOMAIN value : a < BootSector}
           r == SetAll(image, value)
<1> SUFFICES /\ Sound(r)
             /\ DOMAIN r.d = DOMAIN image.d \cup written
             /\ \A a \in DOMAIN r.d :
                    r.d[a] = IF a \in DOMAIN value THEN value[a] ELSE image.d[a]
             /\ r.begin \in written \cup {image.begin}
             /\ r.begin <= image.begin
             /\ \A a \in written : r.begin <= a
             /\ image.end <= r.end
    OBVIOUS
<1>0. /\ image.begin \in Nat /\ image.end \in Nat
      /\ written \subseteq 0 .. BootSector - 1 /\ BootSector \in Nat
      /\ \A a \in DOMAIN image.d : a \in DOMAIN value => a \in written
    <2>1. BootSector \in Nat /\ image.begin \in Nat /\ image.end \in Nat
        BY AddrFacts DEF Sound
    <2>2. \A a \in DOMAIN image.d : a < BootSector
        BY <2>1 DEF Sound
    <2>3. QED
        BY <2>1, <2>2
<1>1. CASE written = {}
    <2>1. r = image
        BY <1>1 DEF SetAll
    <2>2. \A a \in DOMAIN image.d : a \notin DOMAIN value
        <3> HIDE DEF written
        <3>1. QED
            BY <1>0, <1>1
    <2> HIDE DEF r, written
    <2>3. QED
        BY <1>0, <1>1, <2>1, <2>2
<1>2. CASE written # {}
    <2> DEFINE ends == {a + 1 : a \in written} \cup {image.end}
    <2>1. r = [d |-> [a \in DOMAIN image.d \cup written |->
                        IF a \in written THEN value[a] ELSE image.d[a]],
               begin |-> Min(written \cup {image.begin}),
               end |-> Max(ends)]
        BY <1>2 DEF SetAll
    <2>2. /\ Min(written \cup {image.begin}) \in written \cup {image.begin}
          /\ \A a \in written \cup {image.begin} : Min(written \cup {image.begin}) <= a
        <3>1. written \cup {image.begin} \in SUBSET Nat
            BY <1>0
        <3>2. QED
            BY <3>1, MinFacts
    <2>3. Max(ends) \in ends /\ \A n \in ends : Max(ends) >= n
        <3>1. ends \in SUBSET (0 .. BootSector + image.end) /\ ends # {}
            BY <1>0
        <3>2. BootSector + image.end \in Nat
            BY <1>0
        <3> HIDE DEF ends
        <3>3. QED
            BY <3>1, <3>2, MaxFacts
    <2>4. /\ DOMAIN r.d = DOMAIN image.d \cup written
          /\ r.begin = Min(written \cup {image.begin}) /\ r.end = Max(ends)
          /\ \A a \in DOMAIN r.d : r.d[a] = IF a \in written THEN value[a] ELSE image.d[a]
        BY <2>1
    <2> HIDE DEF r
    <2>5. ends \subseteq Nat
        BY <1>0
    <2>6. \A a \in DOMAIN image.d \cup written : r.begin <= a /\ a < r.end
        <3> SUFFICES ASSUME NEW a \in DOMAIN image.d \cup written
                     PROVE  r.begin <= a /\ a < r.end
            OBVIOUS
        <3>1. CASE a \in written
            <4>1. a + 1 \in ends /\ a \in Nat
                BY <1>0, <3>1
            <4>2. r.begin <= a /\ r.end >= a + 1 /\ r.end \in Nat
                <5> HIDE DEF ends
                <5>1. QED
                    BY <2>2, <2>3, <2>4, <2>5, <3>1, <4>1
            <4>3. QED
                BY <4>1, <4>2
        <3>2. CASE a \in DOMAIN image.d
            <4>1. a \in Nat /\ image.begin <= a /\ a < image.end
                BY <1>0, <3>2 DEF Sound
            <4>2. r.begin \in Nat /\ r.end \in Nat /\ r.begin <= image.begin /\ image.end <= r.end
                BY <1>0, <2>2, <2>3, <2>4, <2>5
            <4>3. QED
                BY <1>0, <4>1, <4>2
        <3>3. QED
            BY <3>1, <3>2
    <2>7. Sound(r)
        BY <1>0, <2>2, <2>3, <2>4, <2>5, <2>6 DEF Sound
    <2>8. r.begin <= image.begin /\ image.end <= r.end
        BY <1>0, <2>2, <2>3, <2>4, <2>5
    <2>9. \A a \in DOMAIN r.d :
              r.d[a] = IF a \in DOMAIN value THEN value[a] ELSE image.d[a]
        BY <1>0, <2>4
    <2>10. QED
        BY <2>2, <2>4, <2>6, <2>7, <2>8, <2>9
<1>3. QED
    BY <1>1, <1>2

\* roundBounds only widens, and makes the beginning a multiple of the word.
LEMMA RoundDown ==
    ASSUME NEW n \in Nat, NEW w \in Nat \ {0}
    PROVE  /\ n % w \in Nat /\ n % w <= n
           /\ (n - (n % w)) % w = 0
<1>1. n % w \in 0 .. w - 1 /\ n \div w \in Nat /\ n = w * (n \div w) + (n % w)
    OBVIOUS
<1>2. n % w <= n
    <2>1. w * (n \div w) \in Nat
        BY <1>1
    <2>2. QED
        BY <1>1, <2>1
<1>3. \A q \in Nat : (w * q) % w = 0
    OBVIOUS
<1>4. n - (n % w) = w * (n \div w)
    BY <1>1
<1>5. (n - (n % w)) % w = 0
    BY <1>1, <1>3, <1>4, Zenon
<1>6. n % w \in Nat
    BY <1>1
<1>7. QED
    BY <1>2, <1>5, <1>6, Zenon

-------------------------------------------------------------------------------
(* The steps.                                                                *)

\* A step of the parser.
LEMMA ParseStep ==
    ASSUME ImageInv, NEW offset \in Nat, NEW length \in Nat, NEW byte,
           DataRecord(offset, length, byte)
    PROVE  ImageInv'
<1> DEFINE value == [a \in {addr_PA(base + offset + i) : i \in 0 .. length - 1} |-> byte]
           r == SetAll(Image, value)
<1>1. /\ ~loaded /\ loaded' = FALSE /\ UNCHANGED <<base, csum>>
      /\ flash' = r.d /\ begin' = r.begin /\ end' = r.end
    BY DEF DataRecord, Parse, Becomes, ImageInv
<1>2. DOMAIN value \subseteq Nat /\ base \in Nat
    BY AddrFacts DEF ImageInv
<1>3. Sound(r)
    <2> HIDE DEF value
    <2>1. QED
        BY <1>2, SetAllFacts DEF ImageInv
<1>4. Sound(Image)'
    <2> HIDE DEF r
    <2>1. QED
        BY <1>1, <1>3 DEF Sound, Image
<1>5. csum = None
    BY <1>1 DEF ImageInv
<1> HIDE DEF r
<1>6. QED
    BY <1>1, <1>2, <1>4, <1>5 DEF ImageInv, EveryByteVerified

LEMMA ReturnStep == ASSUME ImageInv, ParseReturns PROVE ImageInv'
<1>1. /\ ~loaded /\ loaded' = TRUE /\ UNCHANGED <<flash, base, csum>>
      /\ begin' = begin - (begin % Word) /\ end' = end + (end % Word)
    BY DEF ParseReturns, Becomes, RoundBounds, Image
<1>2. /\ begin \in Nat /\ end \in Nat /\ DOMAIN flash \subseteq 0 .. BootSector - 1
      /\ \A a \in DOMAIN flash : begin <= a /\ a < end
    BY DEF ImageInv, Sound, Image
<1>3. /\ begin % Word \in Nat /\ end % Word \in Nat /\ begin % Word <= begin
      /\ (begin - (begin % Word)) % Word = 0
    BY <1>2, HexAssumption, RoundDown
<1>4. Sound(Image)'
    <2> DEFINE m == begin % Word
               n == end % Word
    <2>1. m \in Nat /\ n \in Nat /\ m <= begin /\ begin' = begin - m /\ end' = end + n
        BY <1>1, <1>3
    <2> HIDE DEF m, n
    <2>2. begin' \in Nat /\ end' \in Nat /\ begin' <= begin /\ end <= end'
        BY <1>2, <2>1
    <2>3. \A a \in DOMAIN flash : a \in Nat
        BY <1>2, AddrFacts
    <2>4. \A a \in DOMAIN flash : begin' <= a /\ a < end'
        BY <1>2, <2>2, <2>3
    <2>5. QED
        BY <1>1, <1>2, <2>2, <2>4 DEF Sound, Image
<1>5. csum = None
    BY <1>1 DEF ImageInv
<1>6. begin' % Word = 0
    BY <1>1, <1>3
<1>7. QED
    BY <1>1, <1>4, <1>5, <1>6 DEF ImageInv, EveryByteVerified

\* One of getChecksum's writes of the bytes of the reset address.
LEMMA ResetFacts ==
    ASSUME NEW image, Sound(image), NEW value, DOMAIN value = ResetBytes
    PROVE  /\ Sound(SetAll(image, value))
           /\ DOMAIN SetAll(image, value).d = DOMAIN image.d \cup ResetBytes
           /\ \A a \in DOMAIN image.d \cup ResetBytes :
                  SetAll(image, value).d[a] =
                      IF a \in ResetBytes THEN value[a] ELSE image.d[a]
           /\ SetAll(image, value).begin \in {ResetAddress, image.begin}
           /\ image.begin <= ResetAddress => SetAll(image, value).begin = image.begin
<1> DEFINE r == SetAll(image, value)
<1>1. /\ ResetBytes \subseteq Nat /\ ResetAddress \in ResetBytes /\ ResetAddress \in Nat
      /\ \A a \in ResetBytes : a < BootSector /\ ResetAddress <= a
    BY AddrFacts
<1>2. {a \in DOMAIN value : a < BootSector} = ResetBytes
    BY <1>1
<1>3. /\ Sound(r) /\ DOMAIN r.d = DOMAIN image.d \cup ResetBytes
      /\ \A a \in DOMAIN r.d : r.d[a] = IF a \in DOMAIN value THEN value[a] ELSE image.d[a]
      /\ r.begin \in ResetBytes \cup {image.begin}
      /\ r.begin <= image.begin
      /\ \A a \in ResetBytes : r.begin <= a
    <2>1. DOMAIN value \subseteq Nat
        BY <1>1
    <2>2. QED
        BY <1>2, <2>1, SetAllFacts
<1>4. r.begin \in Nat /\ image.begin \in Nat
    <2> HIDE DEF r
    <2>1. QED
        BY <1>3 DEF Sound
<1> HIDE DEF r
<1>5. r.begin \in {ResetAddress, image.begin}
    <2>1. r.begin \in ResetBytes => r.begin = ResetAddress
        <3>1. r.begin <= ResetAddress
            BY <1>1, <1>3
        <3>2. r.begin \in ResetBytes => ResetAddress <= r.begin
            BY <1>1
        <3>3. QED
            BY <1>1, <1>4, <3>1, <3>2
    <2>2. QED
        BY <1>3, <2>1
<1>6. image.begin <= ResetAddress => r.begin = image.begin
    BY <1>1, <1>3, <1>4, <1>5
<1>7. QED
    BY <1>3, <1>5, <1>6 DEF r

\* getChecksum's two writes to the reset address, and what is between them.
LEMMA ChecksumFacts ==
    ASSUME ImageInv, loaded
    PROVE  /\ Sound(AfterChecksum(Image))
           /\ DOMAIN ResetErased(Image).d = DOMAIN flash \cup ResetBytes
           /\ DOMAIN AfterChecksum(Image).d = DOMAIN flash \cup ResetBytes
           /\ \A a \in DOMAIN flash \cup ResetBytes :
                /\ ResetErased(Image).d[a] = IF a \in ResetBytes THEN Erased ELSE flash[a]
                /\ AfterChecksum(Image).d[a] = Get(flash, a)
           /\ begin <= ResetAddress => ResetErased(Image).begin = begin
           /\ AfterChecksum(Image).begin % Word = 0
<1> DEFINE erased == [a \in ResetBytes |-> Erased]
           kept == [a \in ResetBytes |-> Get(flash, a)]
           e == ResetErased(Image)
           r == AfterChecksum(Image)
<1>1. Sound(Image) /\ Image.d = flash /\ Image.begin = begin
    BY DEF ImageInv, Image
<1>2. e = SetAll(Image, erased) /\ r = SetAll(e, kept)
    BY DEF ResetErased, ResetRestored, AfterChecksum
<1>3. /\ DOMAIN erased = ResetBytes /\ DOMAIN kept = ResetBytes
      /\ \A a \in ResetBytes : erased[a] = Erased /\ kept[a] = Get(flash, a)
    OBVIOUS
<1> HIDE DEF erased, kept, e, r
<1>4. /\ Sound(e) /\ DOMAIN e.d = DOMAIN flash \cup ResetBytes
      /\ \A a \in DOMAIN flash \cup ResetBytes :
             e.d[a] = IF a \in ResetBytes THEN erased[a] ELSE flash[a]
      /\ e.begin \in {ResetAddress, begin}
      /\ begin <= ResetAddress => e.begin = begin
    BY <1>1, <1>2, <1>3, ResetFacts
<1>5. /\ Sound(r) /\ DOMAIN r.d = DOMAIN e.d \cup ResetBytes
      /\ \A a \in DOMAIN e.d \cup ResetBytes :
             r.d[a] = IF a \in ResetBytes THEN kept[a] ELSE e.d[a]
      /\ r.begin \in {ResetAddress, e.begin}
    BY <1>2, <1>3, <1>4, ResetFacts
<1>6. \A a \in DOMAIN flash : Get(flash, a) = flash[a]
    <2>1. DOMAIN flash \subseteq 0 .. BootSector - 1
        BY <1>1 DEF Sound
    <2>2. QED
        BY <2>1, AddrFacts DEF Get
<1>7. r.begin % Word = 0
    <2>1. begin % Word = 0 /\ ResetAddress % Word = 0
        BY HexAssumption DEF ImageInv
    <2>2. QED
        BY <1>4, <1>5, <2>1
<1>8. DOMAIN r.d = DOMAIN flash \cup ResetBytes
    BY <1>4, <1>5
<1>9. \A a \in DOMAIN flash \cup ResetBytes :
        /\ e.d[a] = IF a \in ResetBytes THEN Erased ELSE flash[a]
        /\ r.d[a] = Get(flash, a)
    BY <1>3, <1>4, <1>5, <1>6
<1>10. QED
    BY <1>4, <1>5, <1>7, <1>8, <1>9 DEF e, r

LEMMA ChecksumStep == ASSUME ImageInv, GetChecksum PROVE ImageInv'
<1>1. loaded /\ loaded' = TRUE /\ UNCHANGED <<base, loaded>>
    BY DEF GetChecksum, ImageInv
<1>2. /\ begin \in Nat /\ end \in Nat /\ DOMAIN flash \subseteq 0 .. BootSector - 1
      /\ \A a \in DOMAIN flash : begin <= a /\ a < end
      /\ Sound(Image) /\ begin % Word = 0
    BY <1>1 DEF ImageInv, Sound, Image
<1>3. CASE begin >= end
    <2>1. /\ UNCHANGED <<flash, begin, end>>
          /\ csum' = [start |-> begin, length |-> 0, bytes |-> <<>>]
        BY <1>3 DEF GetChecksum
    <2>2. EveryByteVerified'
        BY <2>1 DEF EveryByteVerified
    <2>3. Sound(Image)'
        BY <1>2, <2>1 DEF Sound, Image
    <2>4. QED
        BY <1>1, <1>2, <2>1, <2>2, <2>3 DEF ImageInv
<1>4. CASE ~(begin >= end)
    <2> DEFINE e == ResetErased(Image)
               r == AfterChecksum(Image)
               told == begin .. begin + (end - begin) - 1
    <2>1. /\ csum' = [start |-> begin, length |-> end - begin,
                      bytes |-> Summed(e, e.begin, end - begin)]
          /\ flash' = r.d /\ begin' = r.begin /\ end' = r.end
        BY <1>4 DEF GetChecksum, Becomes
    <2>2. /\ Sound(r) /\ r.begin % Word = 0
          /\ DOMAIN e.d = DOMAIN flash \cup ResetBytes
          /\ DOMAIN r.d = DOMAIN flash \cup ResetBytes
          /\ \A a \in DOMAIN flash \cup ResetBytes :
                /\ e.d[a] = IF a \in ResetBytes THEN Erased ELSE flash[a]
                /\ r.d[a] = Get(flash, a)
          /\ begin <= ResetAddress => e.begin = begin
        BY <1>1, ChecksumFacts
    <2> HIDE DEF e, r
    <2>3. Sound(Image)'
        BY <2>1, <2>2 DEF Sound, Image
    <2>4. ASSUME begin <= ResetAddress
          PROVE  /\ DOMAIN csum'.bytes = told
                 /\ \A a \in told : csum'.bytes[a] = Get(e.d, a)
        BY <2>1, <2>2, <2>4 DEF Summed
    <2>5. \A a \in 0 .. BootSector - 1 :
              Get(e.d, a) = IF a \in DOMAIN e.d THEN e.d[a] ELSE Erased
        BY AddrFacts DEF Get
    <2>6. \A a \in 0 .. BootSector - 1 : Get(flash, a) =
              IF a \in DOMAIN flash THEN flash[a] ELSE Erased
        BY AddrFacts DEF Get
    <2>7. ResetBytes \subseteq 0 .. BootSector - 1 /\ BootSector \in Nat
        BY AddrFacts
    <2>8. \A a \in DOMAIN flash : a \in told
        BY <1>2, <2>7
    <2>9. ASSUME begin <= ResetAddress
          PROVE  \A a \in DOMAIN flash' \ ResetBytes :
                     a \in told /\ csum'.bytes[a] = flash'[a]
        <3> SUFFICES ASSUME NEW a \in DOMAIN flash' \ ResetBytes
                     PROVE  a \in told /\ csum'.bytes[a] = flash'[a]
            OBVIOUS
        <3>1. a \in DOMAIN flash /\ a \in 0 .. BootSector - 1 /\ a \notin ResetBytes
            BY <1>2, <2>1, <2>2
        <3>2. flash'[a] = flash[a]
            BY <2>1, <2>2, <2>6, <3>1
        <3>3. a \in told /\ csum'.bytes[a] = Get(e.d, a)
            BY <2>4, <2>8, <2>9, <3>1
        <3>4. Get(e.d, a) = flash[a]
            BY <2>2, <2>5, <3>1
        <3>5. QED
            BY <3>2, <3>3, <3>4
    <2>10. ASSUME begin <= ResetAddress
           PROVE  \A a \in ResetBytes \cap told : csum'.bytes[a] = Erased
        <3> SUFFICES ASSUME NEW a \in ResetBytes \cap told
                     PROVE  csum'.bytes[a] = Erased
            OBVIOUS
        <3>1. csum'.bytes[a] = Get(e.d, a) /\ a \in 0 .. BootSector - 1
            BY <2>4, <2>7, <2>10
        <3>2. QED
            BY <2>2, <2>5, <3>1
    <2>11. EveryByteVerified'
        <3>1. csum'.start = begin /\ csum'.length = end - begin
            BY <2>1
        <3> HIDE DEF told
        <3>2. QED
            BY <2>4, <2>9, <2>10, <3>1 DEF EveryByteVerified, told
    <2>12. QED
        BY <1>1, <1>2, <2>1, <2>2, <2>3, <2>11 DEF ImageInv
<1>5. QED
    BY <1>3, <1>4

LEMMA InitStep == Init => ImageInv
<1> SUFFICES ASSUME Init PROVE ImageInv
    OBVIOUS
<1>1. 8 * PhysicalSpace - 1 \in Nat
    BY HexAssumption
<1>2. Sound(Image)
    BY <1>1 DEF Init, Sound, Image
<1>3. QED
    BY <1>2 DEF Init, ImageInv, EveryByteVerified

LEMMA AddressStep ==
    ASSUME ImageInv, NEW b \in Nat, AddressRecord(b) PROVE ImageInv'
<1>1. base' = b /\ UNCHANGED <<flash, begin, end, loaded, csum>>
    BY DEF AddressRecord
<1>2. Sound(Image)' /\ EveryByteVerified'
    BY <1>1 DEF ImageInv, Sound, Image, EveryByteVerified
<1>3. QED
    BY <1>1, <1>2 DEF ImageInv

LEMMA NextStep == ASSUME ImageInv, [Next]_vars PROVE ImageInv'
<1>1. CASE \E offset \in Offsets, length \in Lengths, byte \in {0, 1} :
               DataRecord(offset, length, byte)
    BY <1>1, ParseStep, HexAssumption
<1>2. CASE \E b \in Bases : AddressRecord(b)
    BY <1>2, AddressStep, HexAssumption
<1>3. CASE EndRecord
    BY <1>3, AddressStep DEF EndRecord
<1>4. CASE ParseReturns
    BY <1>4, ReturnStep
<1>5. CASE GetChecksum
    BY <1>5, ChecksumStep
<1>6. CASE UNCHANGED vars
    <2>1. UNCHANGED <<flash, begin, end, base, loaded, csum>>
        BY <1>6 DEF vars
    <2>2. Sound(Image)' /\ EveryByteVerified'
        BY <2>1 DEF ImageInv, Sound, Image, EveryByteVerified
    <2>3. QED
        BY <2>1, <2>2 DEF ImageInv
<1>7. QED
    BY <1>1, <1>2, <1>3, <1>4, <1>5, <1>6 DEF Next

LEMMA InvariantHolds == Spec => []ImageInv
<1>1. QED
    BY InitStep, NextStep, PTL DEF Spec

-------------------------------------------------------------------------------
(* The theorems.                                                             *)

\* The bounds enclose every byte of the image, whatever the records were.
THEOREM BoundsAreRight == Spec => []BoundsEnclose
<1>1. ImageInv => BoundsEnclose
    <2>1. ASSUME ImageInv PROVE \A a \in DOMAIN flash : a < BootSector
        BY <2>1, AddrFacts DEF ImageInv, Sound, Image
    <2>2. QED
        BY <2>1 DEF ImageInv, BoundsEnclose, Sound, Image
<1>2. QED
    BY <1>1, InvariantHolds, PTL

\* What verify() tells the device to sum is what it compares, and no byte that is
\* programmed is left out (HexFile.cpp:101-134).
THEOREM VerifySeesEveryByte == Spec => []EveryByteVerified
<1>1. ImageInv => EveryByteVerified
    BY DEF ImageInv
<1>2. QED
    BY <1>1, InvariantHolds, PTL

\* getChecksum writes to the image it sums, and leaves it as it was.
THEOREM ChecksumKeepsImage == Spec => ImageSurvivesChecksum
<1> DEFINE Kept == loaded => \A a \in 0 .. BootSector - 1 : Get(flash', a) = Get(flash, a)
<1>1. ASSUME ImageInv, [Next]_vars PROVE [Kept]_vars
    <2> SUFFICES ASSUME loaded, NEW a \in 0 .. BootSector - 1
                 PROVE  Get(flash', a) = Get(flash, a)
        OBVIOUS
    <2>1. CASE GetChecksum /\ begin < end
        <3>1. flash' = AfterChecksum(Image).d
            <4>1. begin \in Nat /\ end \in Nat
                BY <1>1 DEF ImageInv, Sound, Image
            <4>2. ~(begin >= end)
                BY <2>1, <4>1
            <4>3. QED
                BY <2>1, <4>2 DEF GetChecksum, Becomes
        <3>2. /\ DOMAIN flash' = DOMAIN flash \cup ResetBytes
              /\ \A x \in DOMAIN flash' : flash'[x] = Get(flash, x)
            BY <1>1, <3>1, ChecksumFacts
        <3>3. a \notin DOMAIN flash' => Get(flash, a) = Erased
            BY <3>2, AddrFacts DEF Get
        <3>4. QED
            BY <3>2, <3>3, AddrFacts DEF Get
    <2>2. CASE ~(GetChecksum /\ begin < end)
        <3>1. flash' = flash
            <4>1. begin \in Nat /\ end \in Nat
                BY <1>1 DEF ImageInv, Sound, Image
            <4>2. GetChecksum => begin >= end
                BY <2>2, <4>1
            <4>3. QED
                BY <1>1, <4>2 DEF Next, vars, DataRecord, AddressRecord, EndRecord,
                                  ParseReturns, Parse, GetChecksum
        <3>2. QED
            BY <3>1
    <2>3. QED
        BY <2>1, <2>2
<1>2. QED
    BY <1>1, InvariantHolds, PTL DEF Spec, ImageSurvivesChecksum

===============================================================================
