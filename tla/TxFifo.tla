------------------------------- MODULE TxFifo -------------------------------
(***************************************************************************)
(* The transmit FIFO of firmware/src/blaster.c and the two places of       *)
(* Main_Task_Blaster that use it.                                          *)
(*                                                                         *)
(* The FIFO is a ring of TXFIFO_SIZE bytes with 8-bit read and write       *)
(* indexes that are never compared or reduced: the ring works because they *)
(* wrap at 2^8 = TXFIFO_SIZE ("dont' change this value").  A separate      *)
(* 16-bit counter holds the occupancy.                                     *)
(*                                                                         *)
(* TXFIFO_Write and TXFIFO_Read check nothing.  The callers do: the JTAG   *)
(* part starts a batch of RxSize command bytes only when there is room for *)
(* a reply to each of them, and the TX part takes what one packet holds.   *)
(***************************************************************************)
EXTENDS Naturals, Sequences

CONSTANTS UINT8,        \* number of values of a uint8_t   (256 in the code)
          UINT16,       \* number of values of a uint16_t  (65536 in the code)
          TXFIFO_SIZE,  \* size of the ring                (256 in the code)
          TX_MAX,       \* replies of one IN packet        (62 in the code)
          OUT_MAX,      \* bytes of one OUT packet         (64 in the code)
          Reply         \* the values a reply byte may have

ASSUME FifoAssumption ==
    /\ UINT8 \in Nat \ {0} /\ UINT16 \in Nat
    /\ TXFIFO_SIZE = UINT8
    /\ TXFIFO_SIZE < UINT16
    /\ TX_MAX \in Nat \ {0}
    /\ OUT_MAX \in Nat \ {0}
    /\ Reply # {}

VARIABLES TXFIFO,       \* the ring
          TXFIFO_rp,    \* index of the next byte to read
          TXFIFO_wp,    \* index of the next byte to write
          TXFIFO_ocpy,  \* number of bytes held
          batch,        \* command bytes of the running batch not processed yet
          packet        \* the replies copied into USB_InPacket last

fifoVars == <<TXFIFO, TXFIFO_rp, TXFIFO_wp, TXFIFO_ocpy>>
vars == <<fifoVars, batch, packet>>

Slots == 0..(TXFIFO_SIZE - 1)
-----------------------------------------------------------------------------
(***************************************************************************)
(* The functions of blaster.c, as operators on a FIFO's fields.            *)
(***************************************************************************)
Fill(ocpy) == ocpy

\* uint16_t: an occupancy above the size would wrap to a huge room.
Room(ocpy) == (TXFIFO_SIZE + UINT16 - ocpy) % UINT16

\* The bytes the next packet takes.  The fill count is assigned to a uint8_t
\* before it is compared.
TxSize(ocpy) ==
    LET txfifo_size == Fill(ocpy) % UINT8
    IN  IF txfifo_size < TX_MAX THEN txfifo_size ELSE TX_MAX

\* The n bytes from index r on, in ring order.
Copied(ring, r, n) == [i \in 1..n |-> ring[(r + i - 1) % UINT8]]
-----------------------------------------------------------------------------
\* Fault: the replies are not forgotten.
TXFIFO_Init_KeepsReplies == UNCHANGED fifoVars

TXFIFO_Init ==
    /\ TXFIFO_rp' = 0
    /\ TXFIFO_wp' = 0
    /\ TXFIFO_ocpy' = 0
    /\ UNCHANGED TXFIFO

\* Fault: the index is incremented before it is used.
TXFIFO_Write_PreIncrement(d) ==
    /\ TXFIFO' = [TXFIFO EXCEPT ![(TXFIFO_wp + 1) % UINT8] = d]
    /\ TXFIFO_wp' = (TXFIFO_wp + 1) % UINT8
    /\ TXFIFO_ocpy' = (TXFIFO_ocpy + 1) % UINT16
    /\ UNCHANGED TXFIFO_rp

\* Fault: an index wider than the ring.
TXFIFO_Write_WideIndex(d) ==
    /\ TXFIFO' = [TXFIFO EXCEPT ![TXFIFO_wp] = d]
    /\ TXFIFO_wp' = (TXFIFO_wp + 1) % UINT16
    /\ TXFIFO_ocpy' = (TXFIFO_ocpy + 1) % UINT16
    /\ UNCHANGED TXFIFO_rp

TXFIFO_Write(d) ==
    /\ TXFIFO' = [TXFIFO EXCEPT ![TXFIFO_wp] = d]
    /\ TXFIFO_wp' = (TXFIFO_wp + 1) % UINT8
    /\ TXFIFO_ocpy' = (TXFIFO_ocpy + 1) % UINT16
    /\ UNCHANGED TXFIFO_rp

\* Fault: the occupancy is adjusted by what was asked, the index by one less.
TXFIFO_Read_ShortCopy(size) ==
    /\ TXFIFO_ocpy' = (TXFIFO_ocpy + UINT16 - size) % UINT16
    /\ packet' = Copied(TXFIFO, TXFIFO_rp, size)
    /\ TXFIFO_rp' = (TXFIFO_rp + size - 1) % UINT8
    /\ UNCHANGED <<TXFIFO, TXFIFO_wp>>

TXFIFO_Read(size) ==
    /\ TXFIFO_ocpy' = (TXFIFO_ocpy + UINT16 - size) % UINT16
    /\ packet' = Copied(TXFIFO, TXFIFO_rp, size)
    /\ TXFIFO_rp' = (TXFIFO_rp + size) % UINT8
    /\ UNCHANGED <<TXFIFO, TXFIFO_wp>>
-----------------------------------------------------------------------------
\* The ring is a global array: zero until written.
Init ==
    /\ \E z \in Reply : TXFIFO = [i \in Slots |-> z]
    /\ TXFIFO_rp = 0 /\ TXFIFO_wp = 0 /\ TXFIFO_ocpy = 0
    /\ batch = 0
    /\ packet = <<>>

\* Fault: the room is not compared.
StartBatch_NoRoomCheck ==
    \E RxSize \in 1..OUT_MAX :
        /\ batch = 0
        /\ batch' = RxSize
        /\ UNCHANGED <<fifoVars, packet>>

\* The JTAG part enters its loop: RxSize command bytes are waiting and the
\* room was compared with their number.
StartBatch ==
    \E RxSize \in 1..OUT_MAX :
        /\ batch = 0
        /\ Room(TXFIFO_ocpy) >= RxSize
        /\ batch' = RxSize
        /\ UNCHANGED <<fifoVars, packet>>

\* After a turn the loop goes on, or is left: by the break of a byte shift
\* command, or because ByteSize reached 0.  Commands that remain start a new
\* batch later, for which the room is compared again.
NextTurn ==
    /\ batch > 0
    /\ batch' \in {batch - 1, 0}

\* One turn of the loop that records a reply.
CommandWithReply ==
    /\ NextTurn
    /\ \E d \in Reply : TXFIFO_Write(d)
    /\ UNCHANGED packet

\* One turn of the loop that records nothing.
CommandWithoutReply ==
    /\ NextTurn
    /\ UNCHANGED <<fifoVars, packet>>

\* The TX part fills a packet.  It never runs in the middle of a batch.
FillPacket ==
    /\ batch = 0
    /\ TxSize(TXFIFO_ocpy) > 0
    /\ TXFIFO_Read(TxSize(TXFIFO_ocpy))
    /\ UNCHANGED batch

\* SET_CONFIGURATION while the main loop is not inside Main_Task_Blaster.
Reconfigure ==
    /\ batch = 0
    /\ TXFIFO_Init
    /\ UNCHANGED <<batch, packet>>

Next ==
    \/ StartBatch
    \/ CommandWithReply
    \/ CommandWithoutReply
    \/ FillPacket
    \/ Reconfigure

Spec == Init /\ [][Next]_vars
-----------------------------------------------------------------------------
TypeOK ==
    /\ TXFIFO \in [Slots -> Reply]
    /\ TXFIFO_rp \in 0..(UINT8 - 1)
    /\ TXFIFO_wp \in 0..(UINT8 - 1)
    /\ TXFIFO_ocpy \in 0..(UINT16 - 1)
    /\ batch \in 0..OUT_MAX
    /\ packet \in Seq(Reply)

\* The ring never holds more than its size, and while a batch runs there is
\* still room for a reply to each of its remaining commands (blaster.c:526 and
\* 587): no unsent reply is overwritten although TXFIFO_Write checks nothing.
NoOverflow == TXFIFO_ocpy + batch <= TXFIFO_SIZE

\* The two 8-bit indexes and the 16-bit counter, updated by different
\* statements, describe the same interval of the ring: write is read plus
\* occupancy, modulo the width of the indexes (blaster.c:331-348).
IndexesAgree == TXFIFO_wp = (TXFIFO_rp + TXFIFO_ocpy) % UINT8

\* The ring is the queue of TxQueue.
Queue == INSTANCE TxQueue
            WITH queue <- Copied(TXFIFO, TXFIFO_rp, TXFIFO_ocpy),
                 Capacity <- TXFIFO_SIZE
QueueSpec == Queue!Spec
=============================================================================
