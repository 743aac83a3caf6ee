------------------------------ MODULE ByteShift ------------------------------
(***************************************************************************)
(* Byte shift mode as main.c:48-60 describes it: a shift register that is  *)
(* loaded with a byte from the host, rotated eight times through the carry *)
(* bit, which comes from TDO and goes to TDI, and then given to the host.  *)
(***************************************************************************)
EXTENDS Integers, Sequences

CONSTANTS Bytes, Chain

VARIABLES register,  \* the shift register
          left,      \* bits still to be shifted
          waiting,   \* the byte is neither given to the host nor dropped
          given,     \* the byte given last
          chain      \* the registers of the JTAG chain, TDI's neighbour first

vars == <<register, left, waiting, given, chain>>

Load(b) ==
    /\ left = 0 /\ ~waiting
    /\ register' = b /\ left' = 8 /\ waiting' = TRUE
    /\ UNCHANGED <<given, chain>>

\* Carry from TDO, rotation, TDI from carry, TCK up and down.
Bit ==
    /\ left > 0
    /\ left' = left - 1
    /\ register' = register \div 2 + 128 * chain[Chain]
    /\ chain' = <<register % 2>> \o SubSeq(chain, 1, Chain - 1)
    /\ UNCHANGED <<waiting, given>>

\* The Read bit was set: the complete register goes to the host.
Give ==
    /\ waiting /\ left = 0
    /\ given' = register
    /\ waiting' = FALSE
    /\ UNCHANGED <<register, left, chain>>

Drop ==
    /\ waiting
    /\ waiting' = FALSE
    /\ UNCHANGED <<register, left, given, chain>>

Init ==
    /\ register = 0 /\ left = 0 /\ waiting = FALSE /\ given = 0
    /\ chain \in [1..Chain -> {0, 1}]

Next == (\E b \in Bytes : Load(b)) \/ Bit \/ Give \/ Drop

Spec == Init /\ [][Next]_vars
=============================================================================
