--------------------------- MODULE JtagSpiProofs ---------------------------
(***************************************************************************)
(* The SPI module with the reversed byte does what main.c:48-60 describes  *)
(* of byte shift mode, for any set of bytes and any length of the chain.   *)
(***************************************************************************)
EXTENDS JtagSpi, SequenceTheorems, TLAPS
-----------------------------------------------------------------------------
(***************************************************************************)
(* What the proof needs of the table: each fact is one comparison for each *)
(* of its entries.                                                         *)
(***************************************************************************)
LEMMA TableBytes ==
    \A b \in 0..255 : bitrev(b) \in 0..255 /\ bitrev(b) % 2 = b \div 128
BY SMTT(60) DEF bitrev, REV

\* Reversing twice gives the byte back: what JTAG_SPI_Put reverses and what
\* JTAG_SPI_Get reverses is one register.
LEMMA TableTwice == \A b \in 0..255 : bitrev(bitrev(b)) = b
BY SMTT(60) DEF bitrev, REV

\* A shift to the left is in the mirror a shift to the right, the bit that
\* enters below enters above; what was the highest bit is lost.
LEMMA TableLow ==
    \A b \in 0..127 : \A c \in {0, 1} :
        bitrev(2 * b + c) = bitrev(b) \div 2 + 128 * c
BY SMTT(60) DEF bitrev, REV

LEMMA TableHigh ==
    \A b \in 0..127 : \A c \in {0, 1} :
        bitrev(2 * b + c) = bitrev(b + 128) \div 2 + 128 * c
BY SMTT(60) DEF bitrev, REV

LEMMA TableShift ==
    ASSUME NEW b \in 0..255, NEW c \in {0, 1}
    PROVE  /\ (2 * b + c) % 256 \in 0..255
           /\ bitrev((2 * b + c) % 256) = bitrev(b) \div 2 + 128 * c
<1>1. CASE b < 128
  <2>1. b \in 0..127 /\ (2 * b + c) % 256 = 2 * b + c
    BY <1>1
  <2>2. QED
    BY <2>1, TableLow
<1>2. CASE b >= 128
  <2> DEFINE a == b - 128
  <2>1. a \in 0..127 /\ b = a + 128 /\ (2 * b + c) % 256 = 2 * a + c
    BY <1>2
  <2> HIDE DEF a
  <2>2. bitrev(2 * a + c) = bitrev(b) \div 2 + 128 * c
    BY <2>1, TableHigh
  <2>3. 2 * a + c \in 0..255
    BY <2>1
  <2>4. QED
    BY <2>1, <2>2, <2>3
<1>3. QED
  BY <1>1, <1>2

\* The chain keeps its length, and its bits are bits.
LEMMA ChainShift ==
    ASSUME NEW s \in [1..Chain -> {0, 1}], NEW x \in {0, 1}
    PROVE  <<x>> \o SubSeq(s, 1, Chain - 1) \in [1..Chain -> {0, 1}]
<1> DEFINE r == SubSeq(s, 1, Chain - 1)
<1>1. Chain \in Nat /\ Chain >= 1
  BY SpiAssumption
<1>2. s \in Seq({0, 1}) /\ Len(s) = Chain
  BY <1>1
<1>3. r \in Seq({0, 1}) /\ Len(r) = Chain - 1
  BY <1>1, <1>2
<1> HIDE DEF r
<1>4. <<x>> \o r \in Seq({0, 1}) /\ Len(<<x>> \o r) = Chain
  BY <1>1, <1>3
<1>5. <<x>> \o r \in [1..Chain -> {0, 1}]
  BY <1>4, LenProperties
<1>6. QED
  BY <1>5 DEF r
-----------------------------------------------------------------------------
\* While the module rests, SSPBUF holds what its register holds.
SpiInv == SpiType /\ (count = 8 => SSPBUF = SSPSR)

LEMMA InitSpiInv == SpiInit => SpiInv
<1> SUFFICES ASSUME SpiInit PROVE SpiInv
  OBVIOUS
<1>1. /\ pc = "put" /\ SSPSR = 0 /\ count = 8 /\ SSPBUF = 0 /\ BF = FALSE
      /\ chain \in [1..Chain -> {0, 1}] /\ reply = 0
  BY DEF SpiInit
<1>2. 0 \in 0..255 /\ 8 \in 0..8
  OBVIOUS
<1>3. BF \in BOOLEAN /\ pc \in {"put", "wait", "get"}
  BY <1>1, Zenon
<1>4. SSPSR \in 0..255 /\ SSPBUF \in 0..255 /\ reply \in 0..255 /\ count \in 0..8
  BY <1>1, <1>2, Zenon
<1>5. QED
  BY <1>1, <1>3, <1>4, Zenon DEF SpiInv, SpiType

LEMMA ClockSpiInv == SpiInv /\ Clock => SpiInv'
<1> SUFFICES ASSUME SpiInv, Clock PROVE SpiInv'
  OBVIOUS
<1>1. Chain \in Nat \ {0} /\ Chain \in 1..Chain
  BY SpiAssumption
<1>2. chain[Chain] \in {0, 1} /\ SSPSR \div 128 \in {0, 1}
  BY <1>1 DEF SpiInv, SpiType
<1>3. SSPSR' \in 0..255
  <2>1. SSPSR' = (2 * SSPSR + chain[Chain]) % 256 /\ SSPSR \in 0..255
    BY DEF SpiInv, SpiType, Clock
  <2>2. QED
    BY <1>2, <2>1
<1>4. chain' \in [1..Chain -> {0, 1}]
  BY <1>2, ChainShift DEF SpiInv, SpiType, Clock
<1>5. count' \in 0..8
  BY DEF SpiInv, SpiType, Clock
<1>6. SSPBUF' \in 0..255 /\ BF' \in BOOLEAN /\ (count' = 8 => SSPBUF' = SSPSR')
  <2>1. CASE count' = 8
    BY <1>3, <2>1 DEF Clock
  <2>2. CASE count' # 8
    BY <2>2 DEF SpiInv, SpiType, Clock
  <2>3. QED
    BY <2>1, <2>2
<1>7. pc' \in {"put", "wait", "get"} /\ reply' \in 0..255
  BY DEF SpiInv, SpiType, Clock
<1>8. QED
  BY <1>3, <1>4, <1>5, <1>6, <1>7 DEF SpiInv, SpiType

LEMMA NextSpiInv == SpiInv /\ [SpiNext]_spiVars => SpiInv'
<1> SUFFICES ASSUME SpiInv, [SpiNext]_spiVars PROVE SpiInv'
  OBVIOUS
<1>1. ASSUME NEW b \in Bytes, JTAG_SPI_Put(b) PROVE SpiInv'
  <2>1. SpiByte(b) \in 0..255
    BY SpiAssumption, TableBytes, Zenon DEF SpiByte
  <2>2. count' = 0 /\ 0 \in 0..8 /\ count' # 8
    BY <1>1 DEF JTAG_SPI_Put
  <2>3. QED
    BY <1>1, <2>1, <2>2, Zenon DEF JTAG_SPI_Put, SpiInv, SpiType
<1>2. CASE JTAG_SPI_Wait
  BY <1>2 DEF JTAG_SPI_Wait, SpiInv, SpiType
<1>3. CASE JTAG_SPI_Get
  BY <1>3, TableBytes, Zenon DEF JTAG_SPI_Get, SpiInv, SpiType
<1>4. CASE NotAsked
  BY <1>4 DEF NotAsked, SpiInv, SpiType
<1>5. CASE Clock
  BY <1>5, ClockSpiInv
<1>6. CASE UNCHANGED spiVars
  BY <1>6 DEF spiVars, SpiInv, SpiType
<1>7. QED
  BY <1>1, <1>2, <1>3, <1>4, <1>5, <1>6 DEF SpiNext
-----------------------------------------------------------------------------
\* Nothing has been shifted: both registers are 0.
LEMMA InitShifts == SpiInit => Shifter!Init
<1>1. bitrev(0) = 0
  BY DEF bitrev, REV
<1>2. QED
  BY <1>1 DEF SpiInit, Shifter!Init

\* Reversed for the module and looked at in the mirror, the register holds
\* the host's byte.
LEMMA PutLoads ==
    ASSUME SpiInv, NEW b \in Bytes, JTAG_SPI_Put(b)
    PROVE  Shifter!Load(b)
<1>1. bitrev(SSPSR') = b
  BY SpiAssumption, TableTwice DEF JTAG_SPI_Put, SpiByte
<1>2. 8 - count = 0 /\ (8 - count)' = 8
  BY DEF JTAG_SPI_Put, Elapsed
<1>3. QED
  BY <1>1, <1>2 DEF Shifter!Load, JTAG_SPI_Put

\* The byte in SSPBUF is the register, even where BF is from an earlier byte.
LEMMA GetGives == SpiInv /\ JTAG_SPI_Get => Shifter!Give
<1> SUFFICES ASSUME SpiInv, JTAG_SPI_Get PROVE Shifter!Give
  OBVIOUS
<1>1. 8 - count = 0 /\ reply' = bitrev(SSPSR)
  BY DEF SpiInv, JTAG_SPI_Get, Elapsed
<1>2. QED
  BY <1>1 DEF Shifter!Give, JTAG_SPI_Get

LEMMA ClockRotates == SpiInv /\ Clock => Shifter!Bit
<1> SUFFICES ASSUME SpiInv, Clock PROVE Shifter!Bit
  OBVIOUS
<1>1. chain[Chain] \in {0, 1} /\ SSPSR \in 0..255 /\ count \in 0..8
  BY SpiAssumption DEF SpiInv, SpiType
<1>2. 8 - count > 0 /\ (8 - count)' = (8 - count) - 1
  BY <1>1 DEF Clock
<1>3. bitrev(SSPSR') = bitrev(SSPSR) \div 2 + 128 * chain[Chain]
  <2> DEFINE c == chain[Chain]
             a == (2 * SSPSR + c) % 256
  <2>1. SSPSR' = a
    BY DEF Clock
  <2> HIDE DEF c
  <2>2. bitrev(a) = bitrev(SSPSR) \div 2 + 128 * c
    BY <1>1, TableShift, SMTT(30) DEF c
  <2> HIDE DEF a
  <2>3. QED
    BY <2>1, <2>2 DEF c
<1>4. chain' = <<bitrev(SSPSR) % 2>> \o SubSeq(chain, 1, Chain - 1)
  BY <1>1, TableBytes, Zenon DEF Clock
<1>5. QED
  BY <1>2, <1>3, <1>4 DEF Shifter!Bit, Clock

LEMMA StepShifts == SpiInv /\ [SpiNext]_spiVars => [Shifter!Next]_(Shifter!vars)
<1> SUFFICES ASSUME SpiInv, [SpiNext]_spiVars PROVE [Shifter!Next]_(Shifter!vars)
  OBVIOUS
<1>1. ASSUME NEW b \in Bytes, JTAG_SPI_Put(b) PROVE Shifter!Next
  BY <1>1, PutLoads DEF Shifter!Next
<1>2. CASE JTAG_SPI_Wait
  BY <1>2 DEF JTAG_SPI_Wait, Shifter!vars
<1>3. CASE JTAG_SPI_Get
  BY <1>3, GetGives DEF Shifter!Next
<1>4. CASE NotAsked
  <2>1. Shifter!Drop
    BY <1>4 DEF NotAsked, Shifter!Drop
  <2>2. QED
    BY <2>1 DEF Shifter!Next
<1>5. CASE Clock
  BY <1>5, ClockRotates DEF Shifter!Next
<1>6. CASE UNCHANGED spiVars
  BY <1>6 DEF spiVars, Shifter!vars
<1>7. QED
  BY <1>1, <1>2, <1>3, <1>4, <1>5, <1>6 DEF SpiNext

(***************************************************************************)
(* ShiftSpec: put, wait and get with the SPI module implement byte shift   *)
(* mode as main.c:48-60 describes it, bit by bit.                          *)
(***************************************************************************)
THEOREM ShiftsAsDescribed == SpiSpec => ShiftSpec
<1>1. SpiInit => SpiInv
  BY InitSpiInv
<1>2. SpiInv /\ [SpiNext]_spiVars => SpiInv'
  BY NextSpiInv
<1>3. SpiInit => Shifter!Init
  BY InitShifts
<1>4. SpiInv /\ [SpiNext]_spiVars => [Shifter!Next]_(Shifter!vars)
  BY StepShifts
<1>5. QED
  BY <1>1, <1>2, <1>3, <1>4, PTL DEF SpiSpec, ShiftSpec, Shifter!Spec
=============================================================================
