------------------------------- MODULE JtagSpi -------------------------------
(***************************************************************************)
(* One byte of byte shift mode as the firmware does it: JTAG_SPI_Put,      *)
(* JTAG_SPI_Wait and JTAG_SPI_Get of jtag.c, with the SPI module, which    *)
(* sends and receives the most significant bit first.  It implements       *)
(* ByteShift.                                                              *)
(***************************************************************************)
EXTENDS Integers, Sequences

CONSTANTS Bytes,   \* the bytes that the host shifts
          Chain    \* number of register bits of the JTAG chain

\* uint8_t; TDI and TDO are the ends of one chain.
ASSUME SpiAssumption == Bytes \subseteq 0..255 /\ Chain \in Nat \ {0}

VARIABLES pc,      \* what the shift loop of the main task does next
          SSPSR,   \* shift register of the SPI module
          count,   \* bits shifted; 8: the module rests
          SSPBUF,  \* the byte received last
          BF,      \* SSPBUF is full
          chain,   \* the registers of the chain, the one next to TDI first
          reply    \* the byte that JTAG_SPI_Get returned last

spiVars == <<pc, SSPSR, count, SSPBUF, BF, chain, reply>>
-----------------------------------------------------------------------------
REV == <<
    0, 128,  64, 192,  32, 160,  96, 224,  16, 144,  80, 208,  48, 176, 112, 240,
    8, 136,  72, 200,  40, 168, 104, 232,  24, 152,  88, 216,  56, 184, 120, 248,
    4, 132,  68, 196,  36, 164, 100, 228,  20, 148,  84, 212,  52, 180, 116, 244,
   12, 140,  76, 204,  44, 172, 108, 236,  28, 156,  92, 220,  60, 188, 124, 252,
    2, 130,  66, 194,  34, 162,  98, 226,  18, 146,  82, 210,  50, 178, 114, 242,
   10, 138,  74, 202,  42, 170, 106, 234,  26, 154,  90, 218,  58, 186, 122, 250,
    6, 134,  70, 198,  38, 166, 102, 230,  22, 150,  86, 214,  54, 182, 118, 246,
   14, 142,  78, 206,  46, 174, 110, 238,  30, 158,  94, 222,  62, 190, 126, 254,
    1, 129,  65, 193,  33, 161,  97, 225,  17, 145,  81, 209,  49, 177, 113, 241,
    9, 137,  73, 201,  41, 169, 105, 233,  25, 153,  89, 217,  57, 185, 121, 249,
    5, 133,  69, 197,  37, 165, 101, 229,  21, 149,  85, 213,  53, 181, 117, 245,
   13, 141,  77, 205,  45, 173, 109, 237,  29, 157,  93, 221,  61, 189, 125, 253,
    3, 131,  67, 195,  35, 163,  99, 227,  19, 147,  83, 211,  51, 179, 115, 243,
   11, 139,  75, 203,  43, 171, 107, 235,  27, 155,  91, 219,  59, 187, 123, 251,
    7, 135,  71, 199,  39, 167, 103, 231,  23, 151,  87, 215,  55, 183, 119, 247,
   15, 143,  79, 207,  47, 175, 111, 239,  31, 159,  95, 223,  63, 191, 127, 255>>

bitrev(b) == REV[b + 1]

\* Fault: the byte is sent as it is.
SpiByte_AsIs(b) == b
SpiByte(b) == bitrev(b)

SpiInit ==
    /\ pc = "put" /\ SSPSR = 0 /\ count = 8 /\ SSPBUF = 0 /\ BF = FALSE
    /\ chain \in [1..Chain -> {0, 1}]
    /\ reply = 0

\* Fault: the byte is read as soon as BF is set.
Elapsed_Not == TRUE
\* The instructions between two uses of SSPBUF take longer than the 8 cycles
\* that the module needs for a byte: it shifts one bit per cycle.
Elapsed == count = 8

\* A byte that was not asked for has not been read: BF may still be set.
JTAG_SPI_Put(b) ==
    /\ pc = "put" /\ Elapsed
    /\ SSPSR' = SpiByte(b)
    /\ count' = 0
    /\ pc' = "wait"
    /\ UNCHANGED <<SSPBUF, BF, chain, reply>>

\* With BF still set from an earlier byte this does not wait at all.
JTAG_SPI_Wait ==
    /\ pc = "wait" /\ BF
    /\ pc' = "get"
    /\ UNCHANGED <<SSPSR, count, SSPBUF, BF, chain, reply>>

\* Read is set: the byte goes to the host.  Reading SSPBUF clears BF.
JTAG_SPI_Get ==
    /\ pc = "get" /\ Elapsed
    /\ reply' = bitrev(SSPBUF)
    /\ BF' = FALSE
    /\ pc' = "put"
    /\ UNCHANGED <<SSPSR, count, SSPBUF, chain>>

\* Read is not set, or nCS is 0.
NotAsked ==
    /\ pc = "get"
    /\ pc' = "put"
    /\ UNCHANGED <<SSPSR, count, SSPBUF, BF, chain, reply>>

\* SMP = 0, CKE = 1: TDO is sampled when TCK rises, and so is TDI.
Clock ==
    /\ count < 8
    /\ chain' = <<SSPSR \div 128>> \o SubSeq(chain, 1, Chain - 1)
    /\ SSPSR' = (2 * SSPSR + chain[Chain]) % 256
    /\ count' = count + 1
    /\ IF count' = 8 THEN SSPBUF' = SSPSR' /\ BF' = TRUE
                     ELSE UNCHANGED <<SSPBUF, BF>>
    /\ UNCHANGED <<pc, reply>>

SpiNext ==
    \/ \E b \in Bytes : JTAG_SPI_Put(b)
    \/ JTAG_SPI_Wait
    \/ JTAG_SPI_Get
    \/ NotAsked
    \/ Clock

SpiSpec == SpiInit /\ [][SpiNext]_spiVars
-----------------------------------------------------------------------------
SpiType ==
    /\ pc \in {"put", "wait", "get"}
    /\ SSPSR \in 0..255 /\ SSPBUF \in 0..255 /\ reply \in 0..255
    /\ count \in 0..8 /\ BF \in BOOLEAN
    /\ chain \in [1..Chain -> {0, 1}]

(***************************************************************************)
(* The SPI module with the reversed byte does what main.c:48-60 says of    *)
(* byte shift mode, bit by bit: the least significant bit goes to TDI      *)
(* first, and the byte read is the register that TDO has been rotated      *)
(* into, even where BF is left from an earlier byte.  In between, the      *)
(* module's register is the mirror image of that register.                 *)
(***************************************************************************)
Shifter == INSTANCE ByteShift
              WITH register <- bitrev(SSPSR),
                   left <- 8 - count,
                   waiting <- pc # "put",
                   given <- reply
ShiftSpec == Shifter!Spec
=============================================================================
