------------------------------- MODULE Eeprom -------------------------------
(***************************************************************************)
(* The EEPROM that the FT245 of a USB-Blaster has and this firmware makes  *)
(* up: EEPROM_Read computes each of its 128 bytes from the descriptors,    *)
(* Blaster_Init computes the checksum word, USB_FT245_Emulation answers    *)
(* the host's vendor requests.  How the answers travel is ControlEp's      *)
(* subject.  MCPeripherals extends this module together with TxFifo and    *)
(* JtagSpi.                                                                *)
(***************************************************************************)
EXTENDS Integers, Sequences

CONSTANTS device_dsc,   \* the fields idVendor, idProduct, bcdDevice, bcdUSB
          attributes,   \* bytes 7 and 8 of configDescriptor1
          power,
          strings       \* the texts of sd001, sd002 and sd003

VARIABLES i,                \* loop index of EEPROM_Checksum; 126: it is done
          eeprom_checksum,
          CtrlTrfData,      \* the two bytes of the last answer
          image             \* the words that the host has read

romVars == <<i, eeprom_checksum, CtrlTrfData, image>>
-----------------------------------------------------------------------------
\* A string descriptor: length, type 3, two bytes for each character.
Descriptor(text) ==
    <<2 + 2 * Len(text), 3>> \o
        [k \in 1..(2 * Len(text)) |-> IF k % 2 = 1 THEN text[(k + 1) \div 2] ELSE 0]
USB_SD == [n \in 1..3 |-> Descriptor(strings[n])]
Size(n) == USB_SD[n][1]

Octet == 0..255
WORD_MAX == 65535
Word == 0..WORD_MAX

WordOf(low, high) == low + 256 * high
Lsb(word) == word % 256
Msb(word) == word \div 256

\* Fault: the first descriptor is taken for one byte shorter.
SD002_POS_Short == 20 + Size(1) - 1
SD001_POS == 20
SD002_POS == SD001_POS + Size(1)
SD003_POS == SD002_POS + Size(2)
SD004_POS == SD003_POS + Size(3)

\* The strings are 8-bit texts and end below the checksum.
ASSUME DescriptorsFit ==
    /\ device_dsc \in [idVendor : Word, idProduct : Word,
                       bcdDevice : Word, bcdUSB : Word]
    /\ attributes \in Octet /\ power \in Octet
    /\ strings \in [1..3 -> Seq(Octet)]
    /\ SD004_POS <= 126

\* A position as the header gives it.
Pointer(position) == (128 + position) % 256

\* The switch on the address.
HeaderWord(addr, checksum) ==
    CASE addr \in {2, 3}     -> device_dsc.idVendor
      [] addr \in {4, 5}     -> device_dsc.idProduct
      [] addr \in {6, 7}     -> device_dsc.bcdDevice
      [] addr \in {8, 9}     -> WordOf(attributes, power)
      [] addr \in {10, 11}   -> 28
      [] addr \in {12, 13}   -> device_dsc.bcdUSB
      [] addr \in {14, 15}   -> WordOf(Pointer(SD001_POS), Size(1))
      [] addr \in {16, 17}   -> WordOf(Pointer(SD002_POS), Size(2))
      [] addr \in {18, 19}   -> WordOf(Pointer(SD003_POS), Size(3))
      [] addr \in {126, 127} -> checksum
      [] OTHER               -> 0
Header(addr, checksum) ==
    IF addr % 2 = 0 THEN Lsb(HeaderWord(addr, checksum))
                    ELSE Msb(HeaderWord(addr, checksum))

\* Where the strings are, they take the place of what the switch has found.
EEPROM_Read(addr, checksum) ==
    CASE SD001_POS <= addr /\ addr < SD002_POS -> USB_SD[1][addr - SD001_POS + 1]
      [] SD002_POS <= addr /\ addr < SD003_POS -> USB_SD[2][addr - SD002_POS + 1]
      [] SD003_POS <= addr /\ addr < SD004_POS -> USB_SD[3][addr - SD003_POS + 1]
      [] OTHER -> Header(addr, checksum)

\* Fault: the bit that is shifted out is lost.
Rotated_NoCarry(c) == (2 * c) % 65536
Rotated(c) == IF c >= 32768 THEN ((2 * c) % 65536) + 1 ELSE 2 * c

\* Exclusive or of two 16-bit words: the sum of the places in which they differ.
\* The comparison comes first so that TLC evaluates the words before the sum.
Place(a, b, p) == p * (((a \div p) + (b \div p)) % 2)
Digit(a, b, p) == Place(a, b, p) + Place(a, b, 2 * p)
                  + Place(a, b, 4 * p) + Place(a, b, 8 * p)
Xor(a, b) == IF a = b THEN 0
             ELSE Digit(a, b, 1) + Digit(a, b, 16)
                  + Digit(a, b, 256) + Digit(a, b, 4096)
-----------------------------------------------------------------------------
RomInit ==
    /\ i = 0 /\ eeprom_checksum = 43690   \* 0xaaaa
    /\ CtrlTrfData = <<0, 0>> /\ image = <<>>

\* One turn of the loop.  It ends before the USB module is attached.
EEPROM_Checksum ==
    /\ i < 126
    /\ LET eeprom_data == WordOf(EEPROM_Read(i, eeprom_checksum),
                                 EEPROM_Read(i + 1, eeprom_checksum))
       IN  eeprom_checksum' = Rotated(Xor(eeprom_checksum, eeprom_data))
    /\ i' = i + 2
    /\ UNCHANGED <<CtrlTrfData, image>>

\* (wIndex << 1) & 0x7e
Address(wIndex) == (2 * wIndex) % 128

\* Request 0x90.  The host reads the words in order; it may use the mirror
\* image of the EEPROM above word 63.
ReadEeprom ==
    /\ \E wIndex \in {Len(image), Len(image) + 64} :
          LET addr == Address(wIndex)
          IN  CtrlTrfData' = <<EEPROM_Read(addr, eeprom_checksum),
                               EEPROM_Read(addr + 1, eeprom_checksum)>>
    /\ image' = Append(image, WordOf(CtrlTrfData'[1], CtrlTrfData'[2]))
    /\ UNCHANGED <<i, eeprom_checksum>>

\* Any other IN request is answered with 0x36, 0x83.
OtherIn ==
    /\ CtrlTrfData' = <<54, 131>>
    /\ UNCHANGED <<i, eeprom_checksum, image>>

\* The host sends requests until it has read the whole image.
USB_FT245_Emulation ==
    /\ i = 126 /\ Len(image) < 64
    /\ ReadEeprom \/ OtherIn

RomNext == EEPROM_Checksum \/ USB_FT245_Emulation

RomSpec == RomInit /\ [][RomNext]_romVars
-----------------------------------------------------------------------------
RomType ==
    /\ i \in 0..126 /\ eeprom_checksum \in Word
    /\ CtrlTrfData \in [1..2 -> Octet]
    /\ image \in Seq(Word) /\ Len(image) <= 64

ImageRead == Len(image) = 64
Byte(a) == IF a % 2 = 0 THEN Lsb(image[a \div 2 + 1]) ELSE Msb(image[a \div 2 + 1])

(***************************************************************************)
(* The driver's own check of the image it has read succeeds: xor and       *)
(* rotation, that is doubling modulo 2^16 - 1, over the first 63 words     *)
(* give the last one (blaster.c:275, 299-316).                             *)
(***************************************************************************)
Doubled(c) == IF c = 65535 THEN c ELSE (2 * c) % 65535
Expected[n \in 0..63] ==
    IF n = 0 THEN 43690 ELSE Doubled(Xor(Expected[n - 1], image[n]))
ChecksumAccepted == ImageRead => Expected[63] = image[64]

(***************************************************************************)
(* The image holds, where its header says, the three strings that          *)
(* GET_DESCRIPTOR returns, each complete, none over the header, another    *)
(* string or the checksum (blaster.c:23-29, 269-291).                      *)
(***************************************************************************)
StringsFound ==
    ImageRead =>
        \A n \in 1..3 :
            LET position == Byte(12 + 2 * n) % 128
                size == Byte(13 + 2 * n)
            IN  /\ position >= 20 /\ position + size <= 126
                /\ [k \in 1..size |-> Byte(position + k - 1)] = USB_SD[n]
=============================================================================
