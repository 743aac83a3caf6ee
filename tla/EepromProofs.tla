--------------------------- MODULE EepromProofs ---------------------------
(***************************************************************************)
(* The driver accepts the EEPROM image and finds the strings in it, for    *)
(* every set of descriptors whose strings end below the checksum.          *)
(***************************************************************************)
EXTENDS Eeprom, SequenceTheorems, TLAPS
-----------------------------------------------------------------------------
(***************************************************************************)
(* The operators: words and their bytes, exclusive or, the string          *)
(* descriptors.                                                            *)
(***************************************************************************)
LEMMA WordRange ==
    ASSUME NEW w
    PROVE  w \in Word <=> w \in Nat /\ w < 65536
<1>1. WORD_MAX = 65535
  BY DEF WORD_MAX
<1>2. WORD_MAX \in Nat
  BY <1>1
<1>3. w \in Word <=> w \in Nat /\ w <= WORD_MAX
  BY <1>2 DEF Word
<1>4. QED
  BY <1>1, <1>3

LEMMA OctetRange ==
    ASSUME NEW b
    PROVE  b \in Octet <=> b \in Nat /\ b <= 255
BY DEF Octet

LEMMA BytesOfWord ==
    ASSUME NEW w \in Word
    PROVE  Lsb(w) \in Octet /\ Msb(w) \in Octet /\ WordOf(Lsb(w), Msb(w)) = w
<1>1. w \in Nat /\ w < 65536
  BY WordRange
<1>2. /\ Lsb(w) \in Nat /\ Lsb(w) <= 255 /\ Msb(w) \in Nat /\ Msb(w) <= 255
      /\ WordOf(Lsb(w), Msb(w)) = w
  BY <1>1 DEF Lsb, Msb, WordOf
<1>3. QED
  BY <1>2, OctetRange

LEMMA WordOfBytes ==
    ASSUME NEW low \in Octet, NEW high \in Octet
    PROVE  /\ WordOf(low, high) \in Word
           /\ Lsb(WordOf(low, high)) = low /\ Msb(WordOf(low, high)) = high
<1>1. low \in Nat /\ low <= 255 /\ high \in Nat /\ high <= 255
  BY OctetRange
<1>2. /\ WordOf(low, high) \in Nat /\ WordOf(low, high) < 65536
      /\ Lsb(WordOf(low, high)) = low /\ Msb(WordOf(low, high)) = high
  BY <1>1 DEF Lsb, Msb, WordOf
<1>3. QED
  BY <1>2, WordRange

LEMMA PlaceType ==
    ASSUME NEW a \in Word, NEW b \in Word, NEW p \in Nat, p >= 1
    PROVE  Place(a, b, p) \in Nat /\ Place(a, b, p) <= p
<1> DEFINE s == (a \div p) + (b \div p)
<1>1. s \in Nat
  BY WordRange
<1> HIDE DEF s
<1>2. s % 2 \in {0, 1}
  BY <1>1
<1>3. p * (s % 2) \in Nat /\ p * (s % 2) <= p
  <2>1. CASE s % 2 = 0
    BY <2>1
  <2>2. CASE s % 2 = 1
    BY <2>2
  <2>3. QED
    BY <1>2, <2>1, <2>2
<1>4. QED
  BY <1>3 DEF Place, s

LEMMA DigitType ==
    ASSUME NEW a \in Word, NEW b \in Word, NEW p \in Nat, p >= 1
    PROVE  Digit(a, b, p) \in Nat /\ Digit(a, b, p) <= 15 * p
<1>1. /\ 2 * p \in Nat /\ 4 * p \in Nat /\ 8 * p \in Nat
      /\ 2 * p >= 1 /\ 4 * p >= 1 /\ 8 * p >= 1
  OBVIOUS
<1>2. /\ Place(a, b, p) \in Nat /\ Place(a, b, p) <= p
      /\ Place(a, b, 2 * p) \in Nat /\ Place(a, b, 2 * p) <= 2 * p
      /\ Place(a, b, 4 * p) \in Nat /\ Place(a, b, 4 * p) <= 4 * p
      /\ Place(a, b, 8 * p) \in Nat /\ Place(a, b, 8 * p) <= 8 * p
  BY <1>1, PlaceType
<1>3. QED
  BY <1>2 DEF Digit

LEMMA XorType ==
    ASSUME NEW a \in Word, NEW b \in Word
    PROVE  Xor(a, b) \in Word
<1>1. /\ Digit(a, b, 1) \in Nat /\ Digit(a, b, 1) <= 15
      /\ Digit(a, b, 16) \in Nat /\ Digit(a, b, 16) <= 240
      /\ Digit(a, b, 256) \in Nat /\ Digit(a, b, 256) <= 3840
      /\ Digit(a, b, 4096) \in Nat /\ Digit(a, b, 4096) <= 61440
  BY DigitType
<1>2. Xor(a, b) \in Nat /\ Xor(a, b) < 65536
  BY <1>1 DEF Xor
<1>3. QED
  BY <1>2, WordRange

\* The driver's rotation is the firmware's: doubling modulo 2^16 - 1.
LEMMA RotatedDoubled ==
    ASSUME NEW c \in Word
    PROVE  Rotated(c) = Doubled(c) /\ Doubled(c) \in Word
BY WordRange DEF Rotated, Doubled

LEMMA Halves ==
    ASSUME NEW n \in Nat, NEW k \in 1..(2 * n), k % 2 = 1
    PROVE  (k + 1) \div 2 \in 1..n
OBVIOUS

LEMMA Pair ==
    ASSUME NEW S, NEW a \in S, NEW b \in S
    PROVE  <<a, b>> \in [1..2 -> S] /\ <<a, b>>[1] = a /\ <<a, b>>[2] = b
OBVIOUS

LEMMA Appended ==
    ASSUME NEW S, NEW seq \in Seq(S), NEW e \in S
    PROVE  /\ Append(seq, e) \in Seq(S) /\ Len(Append(seq, e)) = Len(seq) + 1
           /\ \A k \in 1..Len(seq) : Append(seq, e)[k] = seq[k]
           /\ Append(seq, e)[Len(seq) + 1] = e
OBVIOUS

LEMMA SeqOfFunction ==
    ASSUME NEW S, NEW m \in Nat, NEW f \in [1..m -> S]
    PROVE  f \in Seq(S) /\ Len(f) = m
<1>1. f \in Seq(S)
  BY SeqDef
<1>2. 1..Len(f) = 1..m /\ Len(f) \in Nat
  BY <1>1, LenProperties
<1>3. QED
  BY <1>1, <1>2

\* Its first byte is its length, and all fit a byte if that one does.
LEMMA DescriptorShape ==
    ASSUME NEW text \in Seq(Octet), NEW S, Octet \subseteq S,
           2 + 2 * Len(text) \in S
    PROVE  /\ Descriptor(text) \in Seq(S)
           /\ Len(Descriptor(text)) = 2 + 2 * Len(text)
           /\ Descriptor(text)[1] = 2 + 2 * Len(text)
<1> DEFINE n == Len(text)
           chars == [k \in 1..(2 * n) |-> IF k % 2 = 1 THEN text[(k + 1) \div 2] ELSE 0]
<1>1. n \in Nat
  BY LenProperties
<1>2. ASSUME NEW k \in 1..(2 * n) PROVE chars[k] \in Octet
  <2>1. CASE k % 2 = 1
    <3>1. (k + 1) \div 2 \in 1..n
      BY <1>1, <2>1, Halves
    <3>2. text[(k + 1) \div 2] \in Octet
      BY <3>1, ElementOfSeq
    <3>3. QED
      BY <2>1, <3>2
  <2>2. CASE k % 2 # 1
    <3>1. chars[k] = 0
      BY <2>2
    <3>2. QED
      BY <3>1, OctetRange
  <2>3. QED
    BY <2>1, <2>2
<1>3. chars \in Seq(S) /\ Len(chars) = 2 * n
  <2>1. chars = [k \in 1..(2 * n) |-> chars[k]]
    OBVIOUS
  <2> HIDE DEF chars, n
  <2>2. ASSUME NEW k \in 1..(2 * n) PROVE chars[k] \in S
    <3>1. chars[k] \in Octet
      BY <1>2
    <3>2. QED
      BY <3>1
  <2>3. chars \in [1..(2 * n) -> S]
    BY <2>1, <2>2, Zenon
  <2>4. 2 * n \in Nat
    BY <1>1
  <2>5. QED
    BY <2>3, <2>4, SeqOfFunction, Zenon
<1>4. <<2 + 2 * n, 3>> \in Seq(S) /\ Len(<<2 + 2 * n, 3>>) = 2
      /\ <<2 + 2 * n, 3>>[1] = 2 + 2 * n
  <2>1. 2 + 2 * n \in S /\ 3 \in S
    BY OctetRange
  <2> HIDE DEF n
  <2>2. QED
    BY <2>1
<1>5. Descriptor(text) = <<2 + 2 * n, 3>> \o chars
  BY DEF Descriptor
<1> DEFINE head == <<2 + 2 * n, 3>>
<1> HIDE DEF chars, n, head
<1>6. /\ head \o chars \in Seq(S) /\ Len(head \o chars) = 2 + 2 * n
      /\ (head \o chars)[1] = 2 + 2 * n
  <2>1. head \in Seq(S) /\ Len(head) = 2 /\ head[1] = 2 + 2 * n
    BY <1>4 DEF head
  <2>2. chars \in Seq(S)
    BY <1>3
  <2>3. /\ head \o chars \in Seq(S)
        /\ Len(head \o chars) = Len(head) + Len(chars)
        /\ \A k \in 1..(Len(head) + Len(chars)) :
              (head \o chars)[k] = IF k <= Len(head) THEN head[k]
                                                     ELSE chars[k - Len(head)]
    BY <2>1, <2>2, ConcatProperties, Zenon
  <2>4. 1 \in 1..(Len(head) + Len(chars)) /\ 1 <= Len(head)
    BY <1>1, <1>3, <2>1
  <2>5. (head \o chars)[1] = head[1]
    BY <2>3, <2>4
  <2>6. QED
    BY <1>3, <2>1, <2>3, <2>5
<1>7. QED
  BY <1>5, <1>6 DEF n, head
-----------------------------------------------------------------------------
(***************************************************************************)
(* The layout: the strings follow the header and each other, and end       *)
(* below the checksum.                                                     *)
(***************************************************************************)
LEMMA Sizes ==
    ASSUME NEW n \in 1..3
    PROVE  /\ USB_SD[n] \in Seq(Nat) /\ Len(USB_SD[n]) = Size(n)
           /\ Size(n) = 2 + 2 * Len(strings[n]) /\ Len(strings[n]) \in Nat
           /\ Size(n) \in Octet => USB_SD[n] \in Seq(Octet)
<1>1. strings[n] \in Seq(Octet) /\ Len(strings[n]) \in Nat
  BY DescriptorsFit DEF DescriptorsFit
<1>2. USB_SD[n] = Descriptor(strings[n])
  BY DEF USB_SD
<1>3. 2 + 2 * Len(strings[n]) \in Nat
  BY <1>1
<1>4. Octet \subseteq Nat
  BY OctetRange
<1>5. /\ USB_SD[n] \in Seq(Nat) /\ Len(USB_SD[n]) = 2 + 2 * Len(strings[n])
      /\ USB_SD[n][1] = 2 + 2 * Len(strings[n])
  BY <1>1, <1>2, <1>3, <1>4, DescriptorShape, Zenon
<1>6. ASSUME Size(n) \in Octet PROVE USB_SD[n] \in Seq(Octet)
  <2>1. 2 + 2 * Len(strings[n]) \in Octet
    BY <1>5, <1>6 DEF Size
  <2>2. QED
    BY <1>1, <1>2, <2>1, DescriptorShape, Zenon
<1>7. QED
  BY <1>1, <1>5, <1>6 DEF Size

LEMMA Layout ==
    /\ Size(1) \in Nat /\ Size(2) \in Nat /\ Size(3) \in Nat
    /\ SD001_POS = 20 /\ SD002_POS = SD001_POS + Size(1)
    /\ SD003_POS = SD002_POS + Size(2) /\ SD004_POS = SD003_POS + Size(3)
    /\ SD001_POS \in Nat /\ SD002_POS \in Nat /\ SD003_POS \in Nat /\ SD004_POS \in Nat
    /\ SD004_POS <= 126
<1>1. ASSUME NEW n \in 1..3 PROVE Size(n) \in Nat
  <2>1. Size(n) = 2 + 2 * Len(strings[n]) /\ Len(strings[n]) \in Nat
    BY Sizes
  <2>2. QED
    BY <2>1
<1>2. Size(1) \in Nat /\ Size(2) \in Nat /\ Size(3) \in Nat
  BY <1>1
<1>3. /\ SD001_POS = 20 /\ SD002_POS = SD001_POS + Size(1)
      /\ SD003_POS = SD002_POS + Size(2) /\ SD004_POS = SD003_POS + Size(3)
  BY DEF SD001_POS, SD002_POS, SD003_POS, SD004_POS
<1>4. SD004_POS <= 126
  BY DescriptorsFit DEF DescriptorsFit
<1>5. SD001_POS \in Nat /\ SD002_POS \in Nat /\ SD003_POS \in Nat /\ SD004_POS \in Nat
  BY <1>2, <1>3
<1>6. QED
  BY <1>2, <1>3, <1>4, <1>5, Zenon

\* Every string descriptor is as long as its first byte says.
LEMMA StringShape ==
    ASSUME NEW n \in 1..3
    PROVE  /\ Size(n) \in Nat /\ Size(n) \in Octet
           /\ USB_SD[n] \in Seq(Octet) /\ Len(USB_SD[n]) = Size(n)
           /\ USB_SD[n] \in [1..Size(n) -> Octet]
<1>1. Size(n) \in Nat /\ Size(n) <= 255
  <2>1. /\ Size(1) \in Nat /\ Size(2) \in Nat /\ Size(3) \in Nat
        /\ Size(1) <= 106 /\ Size(2) <= 106 /\ Size(3) <= 106
    BY Layout
  <2>2. n = 1 \/ n = 2 \/ n = 3
    OBVIOUS
  <2>3. QED
    BY <2>1, <2>2
<1>2. Size(n) \in Octet
  BY <1>1, OctetRange
<1>3. USB_SD[n] \in Seq(Octet) /\ Len(USB_SD[n]) = Size(n)
  BY <1>2, Sizes, Zenon
<1>4. USB_SD[n] \in [1..Size(n) -> Octet]
  BY <1>3, LenProperties, Zenon
<1>5. QED
  BY <1>1, <1>2, <1>3, <1>4, Zenon

\* What the switch on the address finds is a word.
LEMMA HeaderWordType ==
    ASSUME NEW addr \in Nat, NEW c \in Word
    PROVE  HeaderWord(addr, c) \in Word
<1>1. 0 \in Word /\ 28 \in Word
  BY WordRange
<1>2. /\ device_dsc.idVendor \in Word /\ device_dsc.idProduct \in Word
      /\ device_dsc.bcdDevice \in Word /\ device_dsc.bcdUSB \in Word
  BY DescriptorsFit DEF DescriptorsFit
<1>3. WordOf(attributes, power) \in Word
  BY WordOfBytes, DescriptorsFit, Zenon DEF DescriptorsFit
<1>4. /\ WordOf(Pointer(SD001_POS), Size(1)) \in Word
      /\ WordOf(Pointer(SD002_POS), Size(2)) \in Word
      /\ WordOf(Pointer(SD003_POS), Size(3)) \in Word
  <2>1. ASSUME NEW n \in 1..3, NEW position \in Nat
        PROVE  WordOf(Pointer(position), Size(n)) \in Word
    <3>1. Pointer(position) \in Nat /\ Pointer(position) <= 255
      BY DEF Pointer
    <3>2. Pointer(position) \in Octet
      BY <3>1, OctetRange
    <3>3. QED
      BY <3>2, StringShape, WordOfBytes, Zenon
  <2>2. SD001_POS \in Nat /\ SD002_POS \in Nat /\ SD003_POS \in Nat
    BY Layout
  <2>3. QED
    BY <2>1, <2>2
<1>5. QED
  BY <1>1, <1>2, <1>3, <1>4, Zenon DEF HeaderWord

\* Where the string n begins.
Pos(n) == CASE n = 1 -> SD001_POS [] n = 2 -> SD002_POS [] n = 3 -> SD003_POS

LEMMA Positions ==
    /\ Pos(1) = SD001_POS /\ Pos(2) = SD002_POS /\ Pos(3) = SD003_POS
    /\ \A n \in 1..3 : /\ Pos(n) \in Nat /\ Pos(n) >= 20
                       /\ Pos(n) + Size(n) <= 126
<1>1. Pos(1) = SD001_POS /\ Pos(2) = SD002_POS /\ Pos(3) = SD003_POS
  BY DEF Pos
<1>2. Size(1) \in Nat /\ Size(2) \in Nat /\ Size(3) \in Nat
  BY Layout
<1>3. /\ SD001_POS = 20 /\ SD002_POS = 20 + Size(1)
      /\ SD003_POS = SD002_POS + Size(2) /\ SD004_POS = SD003_POS + Size(3)
      /\ SD004_POS <= 126
  BY Layout
<1>4. ASSUME NEW n \in {1, 2, 3}
      PROVE  Pos(n) \in Nat /\ Pos(n) >= 20 /\ Pos(n) + Size(n) <= 126
  BY <1>1, <1>2, <1>3
<1>5. \A n \in 1..3 : n \in {1, 2, 3}
  OBVIOUS
<1>6. QED
  BY <1>1, <1>4, <1>5, Zenon

LEMMA ReadsString ==
    ASSUME NEW n \in 1..3, NEW k \in 1..Size(n), NEW c
    PROVE  EEPROM_Read(Pos(n) + k - 1, c) = USB_SD[n][k]
<1> DEFINE a == Pos(n) + k - 1
<1>1. /\ Size(1) \in Nat /\ Size(2) \in Nat /\ Size(3) \in Nat
      /\ SD001_POS \in Nat /\ SD002_POS \in Nat /\ SD003_POS \in Nat
      /\ SD002_POS = SD001_POS + Size(1)
      /\ SD003_POS = SD002_POS + Size(2) /\ SD004_POS = SD003_POS + Size(3)
  BY Layout
<1>2. CASE n = 1
  <2>1. Pos(1) = SD001_POS /\ k \in 1..Size(1)
    BY <1>2, Positions
  <2>2. /\ SD001_POS <= a /\ a < SD002_POS /\ a - SD001_POS + 1 = k
        /\ ~(SD002_POS <= a) /\ ~(SD003_POS <= a)
    BY <1>1, <1>2, <2>1
  <2> HIDE DEF a
  <2>3. QED
    BY <1>2, <2>2 DEF EEPROM_Read, a
<1>3. CASE n = 2
  <2>1. Pos(2) = SD002_POS /\ k \in 1..Size(2)
    BY <1>3, Positions
  <2>2. /\ SD002_POS <= a /\ a < SD003_POS /\ a - SD002_POS + 1 = k
        /\ ~(a < SD002_POS) /\ ~(SD003_POS <= a)
    BY <1>1, <1>3, <2>1
  <2> HIDE DEF a
  <2>3. QED
    BY <1>3, <2>2 DEF EEPROM_Read, a
<1>4. CASE n = 3
  <2>1. Pos(3) = SD003_POS /\ k \in 1..Size(3)
    BY <1>4, Positions
  <2>2. /\ SD003_POS <= a /\ a < SD004_POS /\ a - SD003_POS + 1 = k
        /\ ~(a < SD002_POS) /\ ~(a < SD003_POS)
    BY <1>1, <1>4, <2>1
  <2> HIDE DEF a
  <2>3. QED
    BY <1>4, <2>2 DEF EEPROM_Read, a
<1>5. QED
  BY <1>2, <1>3, <1>4

LEMMA ReadsHeader ==
    ASSUME NEW addr \in Nat, addr < 20 \/ addr >= SD004_POS, NEW c
    PROVE  EEPROM_Read(addr, c) = Header(addr, c)
<1>1. /\ Size(1) \in Nat /\ Size(2) \in Nat /\ Size(3) \in Nat
      /\ SD001_POS = 20 /\ SD002_POS = SD001_POS + Size(1)
      /\ SD003_POS = SD002_POS + Size(2) /\ SD004_POS = SD003_POS + Size(3)
  BY Layout
<1>2. /\ ~(SD001_POS <= addr /\ addr < SD002_POS)
      /\ ~(SD002_POS <= addr /\ addr < SD003_POS)
      /\ ~(SD003_POS <= addr /\ addr < SD004_POS)
  BY <1>1
<1>3. QED
  BY <1>2, Zenon DEF EEPROM_Read

\* An address is one of the two.
LEMMA Addresses ==
    ASSUME NEW addr \in Nat, ~(addr < 20 \/ addr >= SD004_POS)
    PROVE  \E n \in 1..3 : \E k \in 1..Size(n) : addr = Pos(n) + k - 1
<1>1. /\ Size(1) \in Nat /\ Size(2) \in Nat /\ Size(3) \in Nat
      /\ SD001_POS = 20 /\ SD002_POS = SD001_POS + Size(1)
      /\ SD003_POS = SD002_POS + Size(2) /\ SD004_POS = SD003_POS + Size(3)
  BY Layout
<1>2. Pos(1) = SD001_POS /\ Pos(2) = SD002_POS /\ Pos(3) = SD003_POS
  BY Positions
<1>3. CASE addr < SD002_POS
  <2>1. addr - Pos(1) + 1 \in 1..Size(1) /\ addr = Pos(1) + (addr - Pos(1) + 1) - 1
    BY <1>1, <1>2, <1>3
  <2>2. QED
    BY <2>1
<1>4. CASE addr >= SD002_POS /\ addr < SD003_POS
  <2>1. addr - Pos(2) + 1 \in 1..Size(2) /\ addr = Pos(2) + (addr - Pos(2) + 1) - 1
    BY <1>1, <1>2, <1>4
  <2>2. QED
    BY <2>1
<1>5. CASE addr >= SD003_POS
  <2>1. addr - Pos(3) + 1 \in 1..Size(3) /\ addr = Pos(3) + (addr - Pos(3) + 1) - 1
    BY <1>1, <1>2, <1>5
  <2>2. QED
    BY <2>1
<1>6. QED
  BY <1>1, <1>3, <1>4, <1>5

LEMMA ReadType ==
    ASSUME NEW addr \in Nat, NEW c \in Word
    PROVE  EEPROM_Read(addr, c) \in Octet
<1>1. CASE addr < 20 \/ addr >= SD004_POS
  <2>1. Header(addr, c) \in Octet
    BY HeaderWordType, BytesOfWord DEF Header
  <2>2. QED
    BY <1>1, <2>1, ReadsHeader
<1>2. CASE ~(addr < 20 \/ addr >= SD004_POS)
  <2>1. PICK n \in 1..3 : \E k \in 1..Size(n) : addr = Pos(n) + k - 1
    BY <1>2, Addresses
  <2>2. PICK k \in 1..Size(n) : addr = Pos(n) + k - 1
    BY <2>1
  <2>3. USB_SD[n][k] \in Octet
    BY StringShape, Zenon
  <2>4. QED
    BY <2>2, <2>3, ReadsString
<1>3. QED
  BY <1>1, <1>2

\* Only the last word depends on the checksum, and it is the checksum.
LEMMA ReadsData ==
    ASSUME NEW addr \in 0..125, NEW c
    PROVE  EEPROM_Read(addr, c) = EEPROM_Read(addr, 0)
<1>1. CASE addr < 20 \/ addr >= SD004_POS
  <2>1. HeaderWord(addr, c) = HeaderWord(addr, 0)
    <3>1. addr \notin {126, 127}
      OBVIOUS
    <3>2. QED
      BY <3>1 DEF HeaderWord
  <2>2. Header(addr, c) = Header(addr, 0)
    BY <2>1 DEF Header
  <2>3. QED
    BY <1>1, <2>2, ReadsHeader
<1>2. CASE ~(addr < 20 \/ addr >= SD004_POS)
  <2>1. PICK n \in 1..3 : \E k \in 1..Size(n) : addr = Pos(n) + k - 1
    BY <1>2, Addresses
  <2>2. PICK k \in 1..Size(n) : addr = Pos(n) + k - 1
    BY <2>1
  <2>3. QED
    BY <2>2, ReadsString
<1>3. QED
  BY <1>1, <1>2

LEMMA ReadsChecksum ==
    ASSUME NEW c \in Word
    PROVE  EEPROM_Read(126, c) = Lsb(c) /\ EEPROM_Read(127, c) = Msb(c)
<1>1. SD004_POS \in Nat /\ SD004_POS <= 126
  BY Layout
<1>2. EEPROM_Read(126, c) = Header(126, c) /\ EEPROM_Read(127, c) = Header(127, c)
  BY <1>1, ReadsHeader
<1>3. HeaderWord(126, c) = c /\ HeaderWord(127, c) = c
  BY DEF HeaderWord
<1>4. QED
  BY <1>2, <1>3 DEF Header

-----------------------------------------------------------------------------
(***************************************************************************)
(* The words of the image.                                                 *)
(***************************************************************************)
\* The word k that the host reads when the checksum is c.
ImageWord(k, c) == WordOf(EEPROM_Read(2 * k, c), EEPROM_Read(2 * k + 1, c))
DataWord(k) == ImageWord(k, 0)

LEMMA ImageWordType ==
    ASSUME NEW k \in 0..63, NEW c \in Word
    PROVE  /\ EEPROM_Read(2 * k, c) \in Octet /\ EEPROM_Read(2 * k + 1, c) \in Octet
           /\ ImageWord(k, c) \in Word
           /\ Lsb(ImageWord(k, c)) = EEPROM_Read(2 * k, c)
           /\ Msb(ImageWord(k, c)) = EEPROM_Read(2 * k + 1, c)
<1>1. 2 * k \in Nat /\ 2 * k + 1 \in Nat
  OBVIOUS
<1>2. EEPROM_Read(2 * k, c) \in Octet /\ EEPROM_Read(2 * k + 1, c) \in Octet
  BY <1>1, ReadType, Zenon
<1>3. QED
  BY <1>2, WordOfBytes, Zenon DEF ImageWord

LEMMA DataWords ==
    ASSUME NEW k \in 0..62, NEW c \in Word
    PROVE  ImageWord(k, c) = DataWord(k) /\ DataWord(k) \in Word
<1>1. 2 * k \in 0..125 /\ 2 * k + 1 \in 0..125 /\ k \in 0..63
  OBVIOUS
<1>2. ImageWord(k, c) = DataWord(k)
  <2>1. /\ EEPROM_Read(2 * k, c) = EEPROM_Read(2 * k, 0)
        /\ EEPROM_Read(2 * k + 1, c) = EEPROM_Read(2 * k + 1, 0)
    BY <1>1, ReadsData, Zenon
  <2>2. QED
    BY <2>1 DEF ImageWord, DataWord
<1>3. ImageWord(k, c) \in Word
  BY <1>1, ImageWordType
<1>4. QED
  BY <1>2, <1>3

LEMMA LastWord ==
    ASSUME NEW c \in Word
    PROVE  ImageWord(63, c) = c
<1>1. ImageWord(63, c) = WordOf(EEPROM_Read(126, c), EEPROM_Read(127, c))
  BY DEF ImageWord
<1>2. EEPROM_Read(126, c) = Lsb(c) /\ EEPROM_Read(127, c) = Msb(c)
  BY ReadsChecksum
<1>3. QED
  BY <1>1, <1>2, BytesOfWord

\* The address of the next word and its mirror image.
LEMMA NextAddress ==
    ASSUME NEW n \in 0..63, NEW wIndex \in {n, n + 64}
    PROVE  Address(wIndex) = 2 * n
<1>1. CASE wIndex = n
  BY <1>1 DEF Address
<1>2. CASE wIndex = n + 64
  BY <1>2 DEF Address
<1>3. QED
  BY <1>1, <1>2
-----------------------------------------------------------------------------
(***************************************************************************)
(* The invariant.  What the host has read are the words of the image, and  *)
(* it reads only when the checksum is complete.                            *)
(***************************************************************************)
LoopInv ==
    /\ \E n \in 0..63 : i = 2 * n
    /\ image # <<>> => i = 126

ImageInv == \A k \in 1..Len(image) : image[k] = ImageWord(k - 1, eeprom_checksum)

RomInv == RomType /\ LoopInv /\ ImageInv

LEMMA RomInvInit == RomInit => RomInv
<1> SUFFICES ASSUME RomInit PROVE RomInv
  OBVIOUS
<1>1. i = 0 /\ eeprom_checksum = 43690 /\ CtrlTrfData = <<0, 0>> /\ image = <<>>
  BY DEF RomInit
<1>2. eeprom_checksum \in Word
  BY <1>1, WordRange
<1>3. image \in Seq(Word) /\ Len(image) = 0
  BY <1>1
<1>4. CtrlTrfData \in [1..2 -> Octet]
  BY <1>1, OctetRange, Pair
<1>5. RomType
  BY <1>1, <1>2, <1>3, <1>4 DEF RomType
<1>6. QED
  BY <1>1, <1>3, <1>5 DEF RomInv, LoopInv, ImageInv

\* One turn of the loop takes in the next word.
LEMMA OneTurn ==
    ASSUME RomInv, EEPROM_Checksum
    PROVE  \E n \in 0..62 :
              /\ i = 2 * n /\ i' = 2 * (n + 1)
              /\ eeprom_checksum' = Doubled(Xor(eeprom_checksum, DataWord(n)))
              /\ eeprom_checksum' \in Word
<1>1. PICK n \in 0..63 : i = 2 * n
  BY DEF RomInv, LoopInv
<1>2. n \in 0..62 /\ i' = 2 * (n + 1)
  BY <1>1 DEF EEPROM_Checksum
<1>3. eeprom_checksum \in Word
  BY DEF RomInv, RomType
<1>4. eeprom_checksum' = Rotated(Xor(eeprom_checksum, ImageWord(n, eeprom_checksum)))
  BY <1>1, Zenon DEF EEPROM_Checksum, ImageWord
<1>5. ImageWord(n, eeprom_checksum) = DataWord(n) /\ DataWord(n) \in Word
  BY <1>2, <1>3, DataWords
<1>6. Xor(eeprom_checksum, DataWord(n)) \in Word
  BY <1>3, <1>5, XorType
<1>7. /\ eeprom_checksum' = Doubled(Xor(eeprom_checksum, DataWord(n)))
      /\ eeprom_checksum' \in Word
  BY <1>4, <1>5, <1>6, RotatedDoubled
<1>8. QED
  BY <1>1, <1>2, <1>7

LEMMA RomInvChecksum ==
    ASSUME RomInv, EEPROM_Checksum
    PROVE  RomInv'
<1>1. PICK n \in 0..62 : /\ i = 2 * n /\ i' = 2 * (n + 1)
                         /\ eeprom_checksum' \in Word
  BY OneTurn
<1>2. image' = image /\ CtrlTrfData' = CtrlTrfData /\ i < 126
  BY DEF EEPROM_Checksum
<1>3. image = <<>>
  BY <1>1, <1>2 DEF RomInv, LoopInv
<1>4. RomType'
  BY <1>1, <1>2 DEF RomInv, RomType
<1>5. \E m \in 0..63 : i' = 2 * m
  BY <1>1
<1>6. Len(image') = 0
  BY <1>2, <1>3
<1>7. QED
  BY <1>2, <1>3, <1>4, <1>5, <1>6 DEF RomInv, LoopInv, ImageInv

LEMMA ReadWord ==
    ASSUME RomInv, NEW k \in 1..Len(image)
    PROVE  image[k] = ImageWord(k - 1, eeprom_checksum) /\ eeprom_checksum \in Word
BY DEF RomInv, RomType, ImageInv

LEMMA ReadSoFar ==
    ASSUME RomInv, Len(image) < 64
    PROVE  eeprom_checksum \in Word /\ Len(image) \in 0..63
<1>1. eeprom_checksum \in Word /\ image \in Seq(Word)
  BY DEF RomInv, RomType
<1>2. Len(image) \in Nat
  BY <1>1, LenProperties
<1>3. \A n \in Nat : n < 64 => n \in 0..63
  OBVIOUS
<1>4. QED
  BY <1>1, <1>2, <1>3, Zenon

\* The answer to a read is the next word.
LEMMA NextWordRead ==
    ASSUME RomInv, Len(image) < 64, ReadEeprom
    PROVE  /\ CtrlTrfData' \in [1..2 -> Octet]
           /\ image' = Append(image, ImageWord(Len(image), eeprom_checksum))
<1>1. eeprom_checksum \in Word /\ Len(image) \in 0..63
  BY ReadSoFar
<1> DEFINE n == Len(image)
           low == EEPROM_Read(2 * n, eeprom_checksum)
           high == EEPROM_Read(2 * n + 1, eeprom_checksum)
<1>2. PICK wIndex \in {n, n + 64} :
         CtrlTrfData' = <<EEPROM_Read(Address(wIndex), eeprom_checksum),
                          EEPROM_Read(Address(wIndex) + 1, eeprom_checksum)>>
  BY Zenon DEF ReadEeprom
<1>3. Address(wIndex) = 2 * n
  BY <1>1, NextAddress
<1>4. CtrlTrfData' = <<low, high>>
  BY <1>2, <1>3, Zenon
<1>5. low \in Octet /\ high \in Octet
  BY <1>1, ImageWordType, Zenon
<1>6. image' = Append(image, WordOf(CtrlTrfData'[1], CtrlTrfData'[2]))
  BY Zenon DEF ReadEeprom
<1>7. ImageWord(n, eeprom_checksum) = WordOf(low, high)
  BY DEF ImageWord
<1> HIDE DEF low, high, n
<1>8. CtrlTrfData' \in [1..2 -> Octet]
  BY <1>4, <1>5, Pair
<1>9. CtrlTrfData'[1] = low /\ CtrlTrfData'[2] = high
  BY <1>4, <1>5, Pair
<1>10. image' = Append(image, ImageWord(n, eeprom_checksum))
  BY <1>6, <1>7, <1>9
<1>11. QED
  BY <1>8, <1>10 DEF n

LEMMA RomInvRead ==
    ASSUME RomInv, i = 126, Len(image) < 64, ReadEeprom
    PROVE  RomInv'
<1> DEFINE w == ImageWord(Len(image), eeprom_checksum)
<1>1. i' = i /\ eeprom_checksum' = eeprom_checksum
  BY DEF ReadEeprom
<1>2. CtrlTrfData' \in [1..2 -> Octet] /\ image' = Append(image, w)
  BY NextWordRead
<1>3. /\ image \in Seq(Word) /\ Len(image) \in 0..63
      /\ eeprom_checksum \in Word /\ i \in 0..126
  BY ReadSoFar DEF RomInv, RomType
<1>4. w \in Word
  BY <1>3, ImageWordType
<1> HIDE DEF w
<1>5. /\ image' \in Seq(Word) /\ Len(image') = Len(image) + 1
      /\ \A k \in 1..Len(image) : image'[k] = image[k]
      /\ image'[Len(image) + 1] = w
  <2>1. image \in Seq(Word)
    BY <1>3
  <2>2. /\ Append(image, w) \in Seq(Word) /\ Len(Append(image, w)) = Len(image) + 1
        /\ \A k \in 1..Len(image) : Append(image, w)[k] = image[k]
        /\ Append(image, w)[Len(image) + 1] = w
    BY <1>4, <2>1, Appended
  <2> DEFINE longer == Append(image, w)
  <2>3. image' = longer
    BY <1>2
  <2> HIDE DEF longer
  <2>4. QED
    BY <2>2, <2>3 DEF longer
<1>6. RomType'
  BY <1>1, <1>2, <1>3, <1>5 DEF RomType
<1>7. ASSUME NEW k \in 1..Len(image')
      PROVE  image'[k] = ImageWord(k - 1, eeprom_checksum)
  <2>1. CASE k <= Len(image)
    <3>1. k \in 1..Len(image)
      BY <1>3, <1>5, <2>1
    <3>2. image'[k] = image[k]
      BY <1>5, <3>1
    <3>3. QED
      BY <3>1, <3>2, ReadWord
  <2>2. CASE ~(k <= Len(image))
    <3>1. k = Len(image) + 1 /\ k - 1 = Len(image)
      BY <1>3, <1>5, <2>2
    <3>2. image'[k] = w
      BY <1>5, <3>1
    <3>3. QED
      BY <3>1, <3>2 DEF w
  <2>3. QED
    BY <2>1, <2>2
<1>8. LoopInv'
  BY <1>1 DEF RomInv, LoopInv
<1>9. QED
  BY <1>1, <1>6, <1>7, <1>8 DEF RomInv, ImageInv

LEMMA RomInvNext == RomInv /\ [RomNext]_romVars => RomInv'
<1> SUFFICES ASSUME RomInv, [RomNext]_romVars PROVE RomInv'
  OBVIOUS
<1>1. CASE EEPROM_Checksum
  BY <1>1, RomInvChecksum
<1>2. CASE USB_FT245_Emulation /\ ReadEeprom
  <2>1. i = 126 /\ Len(image) < 64
    BY <1>2 DEF USB_FT245_Emulation
  <2>2. QED
    BY <1>2, <2>1, RomInvRead
<1>3. CASE USB_FT245_Emulation /\ OtherIn
  <2>1. /\ i' = i /\ eeprom_checksum' = eeprom_checksum /\ image' = image
        /\ CtrlTrfData' = <<54, 131>>
    BY <1>3 DEF OtherIn
  <2>2. CtrlTrfData' \in [1..2 -> Octet]
    BY <2>1, OctetRange, Pair
  <2>3. QED
    BY <2>1, <2>2 DEF RomInv, RomType, LoopInv, ImageInv
<1>4. CASE UNCHANGED romVars
  BY <1>4 DEF romVars, RomInv, RomType, LoopInv, ImageInv
<1>5. QED
  BY <1>1, <1>2, <1>3, <1>4 DEF RomNext, USB_FT245_Emulation

THEOREM RomAlwaysInv == RomSpec => []RomInv
BY RomInvInit, RomInvNext, PTL DEF RomSpec
-----------------------------------------------------------------------------
(***************************************************************************)
(* The strings.                                                            *)
(***************************************************************************)
LEMMA ByteRead ==
    ASSUME RomInv, ImageRead, NEW a \in Nat, a <= 127
    PROVE  Byte(a) = EEPROM_Read(a, eeprom_checksum)
<1> DEFINE k == a \div 2
<1>1. k \in 0..63 /\ k + 1 \in 1..64 /\ (k + 1) - 1 = k
  OBVIOUS
<1>2. eeprom_checksum \in Word /\ image[k + 1] = ImageWord(k, eeprom_checksum)
  <2>1. k + 1 \in 1..Len(image)
    BY <1>1 DEF ImageRead
  <2>2. image[k + 1] = ImageWord((k + 1) - 1, eeprom_checksum)
        /\ eeprom_checksum \in Word
    BY <2>1, ReadWord, Zenon
  <2>3. QED
    BY <1>1, <2>2
<1>3. CASE a % 2 = 0
  <2>1. 2 * k = a
    BY <1>3
  <2>2. Byte(a) = Lsb(ImageWord(k, eeprom_checksum))
    BY <1>2, <1>3 DEF Byte
  <2>3. Lsb(ImageWord(k, eeprom_checksum)) = EEPROM_Read(2 * k, eeprom_checksum)
    BY <1>1, <1>2, ImageWordType, Zenon
  <2>4. QED
    BY <2>1, <2>2, <2>3
<1>4. CASE a % 2 # 0
  <2>1. 2 * k + 1 = a
    BY <1>4
  <2>2. Byte(a) = Msb(ImageWord(k, eeprom_checksum))
    BY <1>2, <1>4 DEF Byte
  <2>3. Msb(ImageWord(k, eeprom_checksum)) = EEPROM_Read(2 * k + 1, eeprom_checksum)
    BY <1>1, <1>2, ImageWordType, Zenon
  <2>4. QED
    BY <2>1, <2>2, <2>3
<1>5. QED
  BY <1>3, <1>4

\* Where the header says that the string n is, and how long.
LEMMA HeaderOfString ==
    ASSUME RomInv, ImageRead, NEW n \in 1..3
    PROVE  Byte(12 + 2 * n) % 128 = Pos(n) /\ Byte(13 + 2 * n) = Size(n)
<1>1. 12 + 2 * n \in Nat /\ 13 + 2 * n \in Nat
      /\ 12 + 2 * n <= 127 /\ 13 + 2 * n <= 127
      /\ 12 + 2 * n < 20 /\ 13 + 2 * n < 20
      /\ (12 + 2 * n) % 2 = 0 /\ (13 + 2 * n) % 2 # 0
  OBVIOUS
<1> DEFINE w == WordOf(Pointer(Pos(n)), Size(n))
           c == eeprom_checksum
<1>2. HeaderWord(12 + 2 * n, c) = w /\ HeaderWord(13 + 2 * n, c) = w
  <2>1. n \in {1, 2, 3}
    OBVIOUS
  <2>2. CASE n = 1
    <3>1. 12 + 2 * n = 14 /\ 13 + 2 * n = 15 /\ Pos(n) = SD001_POS /\ Size(n) = Size(1)
      BY <2>2, Positions
    <3>2. QED
      BY <3>1 DEF HeaderWord
  <2>3. CASE n = 2
    <3>1. 12 + 2 * n = 16 /\ 13 + 2 * n = 17 /\ Pos(n) = SD002_POS /\ Size(n) = Size(2)
      BY <2>3, Positions
    <3>2. QED
      BY <3>1 DEF HeaderWord
  <2>4. CASE n = 3
    <3>1. 12 + 2 * n = 18 /\ 13 + 2 * n = 19 /\ Pos(n) = SD003_POS /\ Size(n) = Size(3)
      BY <2>4, Positions
    <3>2. QED
      BY <3>1 DEF HeaderWord
  <2>5. QED
    BY <2>1, <2>2, <2>3, <2>4
<1>3. EEPROM_Read(12 + 2 * n, c) = Lsb(w) /\ EEPROM_Read(13 + 2 * n, c) = Msb(w)
  <2>1. /\ EEPROM_Read(12 + 2 * n, c) = Header(12 + 2 * n, c)
        /\ EEPROM_Read(13 + 2 * n, c) = Header(13 + 2 * n, c)
    <3>1. 12 + 2 * n \in Nat /\ 13 + 2 * n \in Nat
      BY <1>1
    <3>2. QED
      BY <1>1, <3>1, ReadsHeader
  <2>2. /\ Header(12 + 2 * n, c) = Lsb(HeaderWord(12 + 2 * n, c))
        /\ Header(13 + 2 * n, c) = Msb(HeaderWord(13 + 2 * n, c))
    BY <1>1, Zenon DEF Header
  <2>3. QED
    BY <1>2, <2>1, <2>2, Zenon
<1>4. Pos(n) \in Nat /\ Pos(n) <= 126
  <2>1. Size(n) \in Nat
    BY StringShape
  <2>2. Pos(n) \in Nat /\ Pos(n) + Size(n) <= 126
    BY Positions
  <2>3. QED
    BY <2>1, <2>2
<1>5. /\ Pointer(Pos(n)) = 128 + Pos(n) /\ Pointer(Pos(n)) % 128 = Pos(n)
      /\ Pointer(Pos(n)) \in Nat /\ Pointer(Pos(n)) <= 255
  BY <1>4 DEF Pointer
<1>6. Lsb(w) = Pointer(Pos(n)) /\ Msb(w) = Size(n)
  <2>1. Pointer(Pos(n)) \in Octet /\ Size(n) \in Octet
    BY <1>5, OctetRange, StringShape
  <2>2. QED
    BY <2>1, WordOfBytes, Zenon
<1>7. Byte(12 + 2 * n) = Lsb(w) /\ Byte(13 + 2 * n) = Msb(w)
  BY <1>1, <1>3, ByteRead, Zenon
<1>8. QED
  BY <1>5, <1>6, <1>7

LEMMA StringsInImage == RomInv => StringsFound
<1> SUFFICES ASSUME RomInv, ImageRead, NEW n \in 1..3
             PROVE  LET position == Byte(12 + 2 * n) % 128
                        size == Byte(13 + 2 * n)
                    IN  /\ position >= 20 /\ position + size <= 126
                        /\ [k \in 1..size |-> Byte(position + k - 1)] = USB_SD[n]
  BY Zenon DEF StringsFound
<1>1. Byte(12 + 2 * n) % 128 = Pos(n) /\ Byte(13 + 2 * n) = Size(n)
  BY HeaderOfString
<1>2. Pos(n) \in Nat /\ Pos(n) >= 20 /\ Pos(n) + Size(n) <= 126
  BY Positions
<1>3. Size(n) \in Nat /\ USB_SD[n] \in [1..Size(n) -> Octet]
  BY StringShape
<1>4. ASSUME NEW k \in 1..Size(n)
      PROVE  Byte(Pos(n) + k - 1) = USB_SD[n][k]
  <2>1. Pos(n) + k - 1 \in Nat /\ Pos(n) + k - 1 <= 127
    BY <1>2, <1>3
  <2>2. QED
    BY <2>1, <1>3, ByteRead, ReadsString
<1>5. [k \in 1..Size(n) |-> Byte(Pos(n) + k - 1)] = USB_SD[n]
  <2> DEFINE text == USB_SD[n]
  <2> HIDE DEF text
  <2>1. text \in [1..Size(n) -> Octet]
        /\ \A k \in 1..Size(n) : Byte(Pos(n) + k - 1) = text[k]
    BY <1>3, <1>4 DEF text
  <2>2. [k \in 1..Size(n) |-> Byte(Pos(n) + k - 1)] = text
    BY <2>1
  <2>3. QED
    BY <2>2 DEF text
<1>6. QED
  BY <1>1, <1>2, <1>5, Zenon

(***************************************************************************)
(* In every image that the host reads it finds the three strings that      *)
(* GET_DESCRIPTOR returns at the addresses that the header gives for them. *)
(***************************************************************************)
THEOREM StringsAlwaysFound == RomSpec => []StringsFound
BY RomAlwaysInv, StringsInImage, PTL
-----------------------------------------------------------------------------
(***************************************************************************)
(* The checksum.  f holds the sums of the first n words.  That a sequence  *)
(* of sums exists, and that any ends in eeprom_checksum, is preserved by a *)
(* turn of the loop, so no induction over the words is needed; the driver, *)
(* which adds up what it has read, finds one of them.                      *)
(***************************************************************************)
Chain(f, n) ==
    /\ f[0] = 43690
    /\ \A k \in 1..n : f[k] = Doubled(Xor(f[k - 1], DataWord(k - 1)))

SumIs(n, c) ==
    /\ \E f \in [0..63 -> Word] : Chain(f, n)
    /\ \A f : Chain(f, n) => f[n] = c

SumInv == \E n \in 0..63 : i = 2 * n /\ SumIs(n, eeprom_checksum)

\* A sequence of n + 1 sums is one of n sums with another sum at its end.
LEMMA ChainSplit ==
    ASSUME NEW n \in 0..62, NEW f
    PROVE  Chain(f, n + 1) <=> /\ Chain(f, n)
                               /\ f[n + 1] = Doubled(Xor(f[n], DataWord(n)))
<1> DEFINE Sum(k) == f[k] = Doubled(Xor(f[k - 1], DataWord(k - 1)))
<1>1. Sum(n + 1) <=> f[n + 1] = Doubled(Xor(f[n], DataWord(n)))
  <2>1. (n + 1) - 1 = n
    OBVIOUS
  <2>2. QED
    BY <2>1, Zenon
<1>2. /\ Chain(f, n + 1) <=> f[0] = 43690 /\ \A k \in 1..(n + 1) : Sum(k)
      /\ Chain(f, n) <=> f[0] = 43690 /\ \A k \in 1..n : Sum(k)
  BY DEF Chain
<1> HIDE DEF Sum
<1>3. (\A k \in 1..(n + 1) : Sum(k)) <=> (\A k \in 1..n : Sum(k)) /\ Sum(n + 1)
  <2>1. \A k : k \in 1..(n + 1) <=> k \in 1..n \/ k = n + 1
    OBVIOUS
  <2>2. QED
    BY <2>1, Zenon
<1>4. QED
  BY <1>1, <1>2, <1>3

LEMMA ChainExtended ==
    ASSUME NEW n \in 0..62, NEW f \in [0..63 -> Word], Chain(f, n), NEW w \in Word,
           w = Doubled(Xor(f[n], DataWord(n)))
    PROVE  \E g \in [0..63 -> Word] : Chain(g, n + 1)
<1> DEFINE g == [f EXCEPT ![n + 1] = w]
<1>1. g \in [0..63 -> Word] /\ g[n + 1] = w /\ \A k \in 0..n : g[k] = f[k]
  BY DEF g
<1> HIDE DEF g
<1>2. Chain(g, n)
  <2>1. f[0] = 43690
        /\ \A k \in 1..n : f[k] = Doubled(Xor(f[k - 1], DataWord(k - 1)))
    BY DEF Chain
  <2>2. g[0] = 43690
    BY <1>1, <2>1
  <2>3. ASSUME NEW k \in 1..n PROVE g[k] = Doubled(Xor(g[k - 1], DataWord(k - 1)))
    <3>1. k \in 0..n /\ k - 1 \in 0..n
      OBVIOUS
    <3>2. g[k] = f[k] /\ g[k - 1] = f[k - 1]
      BY <1>1, <3>1
    <3>3. f[k] = Doubled(Xor(f[k - 1], DataWord(k - 1)))
      BY <2>1
    <3>4. QED
      BY <3>2, <3>3
  <2>4. QED
    BY <2>2, <2>3 DEF Chain
<1>3. g[n] = f[n]
  BY <1>1
<1>4. Chain(g, n + 1)
  BY <1>1, <1>2, <1>3, ChainSplit
<1>5. QED
  BY <1>1, <1>4

LEMMA SumInvInit == RomInit => SumInv
<1> SUFFICES ASSUME RomInit PROVE SumInv
  OBVIOUS
<1>1. i = 2 * 0 /\ eeprom_checksum = 43690
  BY DEF RomInit
<1>2. 43690 \in Word
  BY WordRange
<1> DEFINE f == [k \in 0..63 |-> 43690]
<1>3. f \in [0..63 -> Word] /\ f[0] = 43690
  BY <1>2
<1>4. \A g : Chain(g, 0) <=> g[0] = 43690
  BY DEF Chain
<1> HIDE DEF f
<1>5. SumIs(0, eeprom_checksum)
  <2>1. \E g \in [0..63 -> Word] : Chain(g, 0)
    BY <1>3, <1>4
  <2>2. \A g : Chain(g, 0) => g[0] = eeprom_checksum
    BY <1>1, <1>4
  <2>3. QED
    BY <2>1, <2>2, Zenon DEF SumIs
<1>6. 0 \in 0..63
  OBVIOUS
<1>7. QED
  BY <1>1, <1>5, <1>6 DEF SumInv

LEMMA SumInvTurn ==
    ASSUME RomInv, SumInv, EEPROM_Checksum
    PROVE  SumInv'
<1>1. PICK n \in 0..62 :
         /\ i = 2 * n /\ i' = 2 * (n + 1)
         /\ eeprom_checksum' = Doubled(Xor(eeprom_checksum, DataWord(n)))
         /\ eeprom_checksum' \in Word
  BY OneTurn
<1>2. SumIs(n, eeprom_checksum)
  <2>1. PICK m \in 0..63 : i = 2 * m /\ SumIs(m, eeprom_checksum)
    BY DEF SumInv
  <2>2. m = n
    BY <1>1, <2>1
  <2>3. QED
    BY <2>1, <2>2
<1>3. PICK f \in [0..63 -> Word] : Chain(f, n)
  BY <1>2, Zenon DEF SumIs
<1>4. f[n] = eeprom_checksum
  BY <1>2, <1>3, Zenon DEF SumIs
<1>5. \E g \in [0..63 -> Word] : Chain(g, n + 1)
  BY <1>1, <1>3, <1>4, ChainExtended
<1>6. ASSUME NEW g, Chain(g, n + 1) PROVE g[n + 1] = eeprom_checksum'
  <2>1. Chain(g, n) /\ g[n + 1] = Doubled(Xor(g[n], DataWord(n)))
    BY <1>6, ChainSplit
  <2>2. g[n] = eeprom_checksum
    BY <1>2, <2>1, Zenon DEF SumIs
  <2>3. QED
    BY <1>1, <2>1, <2>2, Zenon
<1>7. SumIs(n + 1, eeprom_checksum')
  BY <1>5, <1>6, Zenon DEF SumIs
<1>8. n + 1 \in 0..63
  OBVIOUS
<1>9. QED
  BY <1>1, <1>7, <1>8 DEF SumInv

LEMMA SumInvNext == RomInv /\ SumInv /\ [RomNext]_romVars => SumInv'
<1> SUFFICES ASSUME RomInv, SumInv, [RomNext]_romVars PROVE SumInv'
  OBVIOUS
<1>1. CASE EEPROM_Checksum
  BY <1>1, SumInvTurn
<1>2. CASE i' = i /\ eeprom_checksum' = eeprom_checksum
  BY <1>2 DEF SumInv
<1>3. QED
  BY <1>1, <1>2
     DEF RomNext, romVars, USB_FT245_Emulation, ReadEeprom, OtherIn

THEOREM RomAlwaysSum == RomSpec => [](RomInv /\ SumInv)
<1>1. RomInit => RomInv /\ SumInv
  BY RomInvInit, SumInvInit
<1>2. RomInv /\ SumInv /\ [RomNext]_romVars => RomInv' /\ SumInv'
  BY RomInvNext, SumInvNext
<1>3. QED
  BY <1>1, <1>2, PTL DEF RomSpec

\* The equation that defines Expected.
Sums(f) == f = [n \in 0..63 |->
                  IF n = 0 THEN 43690 ELSE Doubled(Xor(f[n - 1], image[n]))]

LEMMA ChainIsSums ==
    ASSUME RomInv, ImageRead, NEW f, DOMAIN f = 0..63, f = [n \in 0..63 |-> f[n]]
    PROVE  Chain(f, 63) <=> Sums(f)
<1>1. ASSUME NEW k \in 1..63 PROVE image[k] = DataWord(k - 1)
  <2>1. k \in 1..Len(image) /\ k - 1 \in 0..62
    BY DEF ImageRead
  <2>2. image[k] = ImageWord(k - 1, eeprom_checksum) /\ eeprom_checksum \in Word
    BY <2>1, ReadWord
  <2>3. QED
    BY <2>1, <2>2, DataWords
<1> DEFINE Sum(k) == IF k = 0 THEN 43690 ELSE Doubled(Xor(f[k - 1], image[k]))
<1>2. Sums(f) <=> \A k \in 0..63 : f[k] = Sum(k)
  <2>1. Sums(f) <=> f = [k \in 0..63 |-> Sum(k)]
    BY DEF Sums
  <2> HIDE DEF Sum
  <2>2. f = [k \in 0..63 |-> Sum(k)] <=> \A k \in 0..63 : f[k] = Sum(k)
    OBVIOUS
  <2>3. QED
    BY <2>1, <2>2
<1>3. Sum(0) = 43690 /\ 0 \in 0..63
  OBVIOUS
<1>4. ASSUME NEW k \in 1..63
      PROVE  Sum(k) = Doubled(Xor(f[k - 1], DataWord(k - 1))) /\ k \in 0..63
  BY <1>1
<1>5. \A k \in 0..63 : k = 0 \/ k \in 1..63
  OBVIOUS
<1>6. Chain(f, 63) <=>
          f[0] = 43690 /\ \A k \in 1..63 : f[k] = Doubled(Xor(f[k - 1], DataWord(k - 1)))
  BY DEF Chain
<1> HIDE DEF Sum
<1>7. Chain(f, 63) <=> f[0] = Sum(0) /\ \A k \in 1..63 : f[k] = Sum(k)
  BY <1>3, <1>4, <1>6
<1>8. QED
  BY <1>2, <1>3, <1>4, <1>5, <1>7

LEMMA ExpectedIsChecksum ==
    ASSUME RomInv, SumInv, ImageRead
    PROVE  Expected[63] = eeprom_checksum
<1>1. i = 126
  <2>1. image # <<>>
    BY DEF ImageRead
  <2>2. QED
    BY <2>1 DEF RomInv, LoopInv
<1>2. SumIs(63, eeprom_checksum)
  <2>1. PICK n \in 0..63 : i = 2 * n /\ SumIs(n, eeprom_checksum)
    BY DEF SumInv
  <2>2. n = 63
    BY <1>1, <2>1
  <2>3. QED
    BY <2>1, <2>2
<1>3. PICK f \in [0..63 -> Word] : Chain(f, 63)
  BY <1>2, Zenon DEF SumIs
<1>4. Sums(f)
  BY <1>3, ChainIsSums
<1>5. Expected = CHOOSE g : Sums(g)
  BY DEF Expected, Sums
<1>6. Sums(Expected)
  BY <1>4, <1>5, Zenon
<1>7. DOMAIN Expected = 0..63 /\ Expected = [n \in 0..63 |-> Expected[n]]
  BY <1>6 DEF Sums
<1>8. Chain(Expected, 63)
  BY <1>6, <1>7, ChainIsSums
<1>9. QED
  BY <1>2, <1>8, Zenon DEF SumIs

LEMMA SumAccepted == RomInv /\ SumInv => ChecksumAccepted
<1> SUFFICES ASSUME RomInv, SumInv, ImageRead PROVE Expected[63] = image[64]
  BY Zenon DEF ChecksumAccepted
<1>1. Expected[63] = eeprom_checksum
  BY ExpectedIsChecksum
<1>2. 64 \in 1..Len(image) /\ 64 - 1 = 63
  BY DEF ImageRead
<1>3. image[64] = ImageWord(63, eeprom_checksum) /\ eeprom_checksum \in Word
  <2>1. image[64] = ImageWord(64 - 1, eeprom_checksum) /\ eeprom_checksum \in Word
    BY <1>2, ReadWord
  <2>2. QED
    BY <1>2, <2>1
<1>4. QED
  BY <1>1, <1>3, LastWord

(***************************************************************************)
(* The driver finds the checksum of every image that it reads right: the   *)
(* last word is the one it computes from the others, although the firmware *)
(* computes it before the first request and from the descriptors.          *)
(***************************************************************************)
THEOREM ChecksumAlwaysAccepted == RomSpec => []ChecksumAccepted
BY RomAlwaysSum, SumAccepted, PTL
=============================================================================
