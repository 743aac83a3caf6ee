---------------------------- MODULE MCPeripherals ----------------------------
(***************************************************************************)
(* The parts that stand alone, one after another: the transmit FIFO with a *)
(* ring of four bytes, the EEPROM emulation with the descriptors of        *)
(* usb_descriptors.c, and the SPI module shifting some bytes through a     *)
(* chain of three registers.  The three share nothing.                     *)
(***************************************************************************)
EXTENDS TxFifo, JtagSpi, Eeprom

the_device_dsc == [idVendor |-> 2555, idProduct |-> 24577,  \* 0x09fb, 0x6001
                   bcdDevice |-> 1024, bcdUSB |-> 272]      \* 0x0400, 0x0110
the_strings == <<<<65, 108, 116, 101, 114, 97>>,                   \* Altera
                 <<85, 83, 66, 45, 66, 108, 97, 115, 116, 101, 114>>,
                 [n \in 1..8 |-> 48]>>       \* USB-Blaster and 00000000

\* The table of jtag.c against bit reversal.
BitOf(b, k) == (b \div 2^k) % 2
ASSUME TableReverses ==
    \A b \in 0..255 : \A k \in 0..7 : BitOf(bitrev(b), k) = BitOf(b, 7 - k)

PeripheralsInit == Init /\ RomInit /\ SpiInit

\* The ring is used before the image is computed, and the image from where the
\* ring is as it was in the beginning; the main task shifts once the image has
\* been read.  This, and one chain for the ring, keeps the three state spaces
\* apart.
PeripheralsNext ==
    \/ i = 0 /\ chain = [k \in 1..Chain |-> 0] /\ Next /\ UNCHANGED <<romVars, spiVars>>
    \/ Init /\ RomNext /\ UNCHANGED <<vars, spiVars>>
    \/ ImageRead /\ SpiNext /\ UNCHANGED <<vars, romVars>>

PeripheralsSpec ==
    PeripheralsInit /\ [][PeripheralsNext]_<<vars, romVars, spiVars>>
=============================================================================
