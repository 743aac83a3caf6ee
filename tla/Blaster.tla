------------------------------- MODULE Blaster -------------------------------
(***************************************************************************)
(* The main loop of main.c and Main_Task_Blaster of blaster.c, with the    *)
(* actors that run while it does: the SIE and the host, which complete     *)
(* transactions on the endpoints' descriptors, the 10 ms timer, and the    *)
(* USB interrupt as far as it changes what the main loop uses (bus reset,  *)
(* SET_CONFIGURATION, suspend and resume).                                 *)
(*                                                                         *)
(* One pass of the main loop is: check the device state ("loop"), receive  *)
(* ("rx"), start a batch of commands ("jtag"), one step per command byte   *)
(* ("bang" or "shift"), transmit ("tx").  The other actors may move        *)
(* between any two of these steps.                                         *)
(*                                                                         *)
(* A command byte is a number 0..255.  A reply byte is abstracted as in    *)
(* Cpld: the serial number of the command whose sample it is, or Ones.     *)
(***************************************************************************)
EXTENDS Integers, Sequences

CONSTANTS UINT8, UINT16, TXFIFO_SIZE, TX_MAX, OUT_MAX,  \* as in TxFifo
          Commands,   \* the command bytes that the host uses
          MaxBytes,   \* bound: command bytes that the host sends in all
          Window,     \* the host waits for replies when this many are
                      \* under way (MaxBytes: it never waits)
          MaxResets,  \* bound: how often the bus is reset
          MaySuspend  \* whether the bus is ever suspended

ASSUME BlasterAssumption ==
    /\ UINT8 \in Nat \ {0} /\ TXFIFO_SIZE = UINT8
    /\ UINT16 \in Nat \ {0} /\ TXFIFO_SIZE < UINT16
    /\ TX_MAX \in Nat \ {0} /\ TX_MAX < UINT16 /\ OUT_MAX \in Nat \ {0}
    /\ Commands \subseteq 0..255
    /\ MaxBytes \in Nat /\ Window \in Nat /\ MaxResets \in Nat
    /\ MaySuspend \in BOOLEAN

INSTANCE UsbBdt

INIT == 2  \* RX_INIT; the states RX_PPB_0 and RX_PPB_1 are 0 and 1

VARIABLES
    pc,                    \* where the main loop is
    usb,                   \* USBDeviceState: "default" or "configured"
    suspended,             \* the SUSPND bit
    Rx_State,              \* "INIT", or the buffer (0, 1) to be received into
    RxSize, ValidPPB, RxPtr,
    JTAG_State, Read, ByteSize, nCS,
    TXFIFO, TXFIFO_rp, TXFIFO_wp, TXFIFO_ocpy,
    USB_OutPacket,         \* the two receive buffers
    USB_OutHandle,         \* USB_OutHandle0 and USB_OutHandle1
    USB_InPacket,          \* the replies in the transmit buffer
    USB_InHandle0,
    pins,                  \* the port latches TCK, TMS, TDI and LED
    SSPEN,                 \* the SPI module drives TCK and TDI
    TMRIF,                 \* the 10 ms timer has expired
    ep1In, ep2Out,         \* the endpoints' descriptors
    sent,                  \* command bytes that the host has sent
    done,                  \* command bytes that have been processed
    host,                  \* the replies in the last packet the host received
    resets                 \* bus resets so far

rxVars   == <<Rx_State, RxSize, ValidPPB, RxPtr, USB_OutHandle>>
jtagVars == <<JTAG_State, Read, ByteSize, nCS, pins, SSPEN, done>>
fifoVars == <<TXFIFO, TXFIFO_rp, TXFIFO_wp, TXFIFO_ocpy>>
txVars   == <<USB_InPacket, USB_InHandle0, TMRIF>>
usbVars  == <<usb, suspended, resets>>
vars == <<pc, rxVars, jtagVars, fifoVars, txVars, usbVars, ep1In, ep2Out,
          USB_OutPacket, sent, host>>
-----------------------------------------------------------------------------
Bit(b, mask) == (b \div mask) % 2
Ones == 0
Reply == 0..MaxBytes

Fifo == INSTANCE TxFifo
           WITH batch <- IF pc \in {"bang", "shift"} THEN RxSize ELSE 0,
                packet <- USB_InPacket

Armed(ep) == \E i \in {0, 1} : ep.bd[i].uown

\* Where replies wait: in the packet that EP1 has armed, and in the ring.
InFlight ==
    IF Armed(ep1In) THEN SubSeq(USB_InPacket, 1, ep1In.bd[ep1In.sie].cnt - 2)
                    ELSE <<>>
Queued == Fifo!Copied(TXFIFO, TXFIFO_rp, TXFIFO_ocpy)

\* Where commands wait: in the current packet, and in the packet that was
\* received and is not yet fetched.
Current ==
    IF Rx_State = INIT THEN <<>>
    ELSE SubSeq(USB_OutPacket[ValidPPB], RxPtr + 1, RxPtr + RxSize)
Waiting ==
    IF Rx_State = INIT THEN <<>>
    ELSE LET handle == USB_OutHandle[Rx_State]
         IN  IF handle = NULL \/ USBHandleBusy(ep2Out, handle) THEN <<>>
             ELSE SubSeq(USB_OutPacket[Rx_State], 1,
                         USBHandleGetLength(ep2Out, handle))

\* Replies that the host has asked for and not received, when it counts the
\* Read bits of what it sent.
Asking(bytes) == Len(SelectSeq(bytes, LAMBDA b : Bit(b, 64) = 1))
UnderWay == Asking(Current \o Waiting) + Len(InFlight) + TXFIFO_ocpy
-----------------------------------------------------------------------------
\* The variables of blaster.c are zero, the port is as JTAG_Init leaves it.
Init ==
    /\ pc = "loop" /\ usb = "default" /\ suspended = FALSE
    /\ Rx_State = INIT /\ RxSize = 0 /\ ValidPPB = 0 /\ RxPtr = 0
    /\ JTAG_State = "BIT_BANG" /\ Read = 0 /\ ByteSize = 0 /\ nCS = 0
    /\ TXFIFO = [i \in 0..(TXFIFO_SIZE - 1) |-> 0]
    /\ TXFIFO_rp = 0 /\ TXFIFO_wp = 0 /\ TXFIFO_ocpy = 0
    /\ USB_OutPacket = [p \in {0, 1} |-> [i \in 1..OUT_MAX |-> 0]]
    /\ USB_InPacket = <<>>
    /\ USB_OutHandle = [p \in {0, 1} |-> NULL] /\ USB_InHandle0 = NULL
    /\ pins = [TCK |-> 0, TMS |-> 1, TDI |-> 0, LED |-> 0] /\ SSPEN = FALSE
    /\ TMRIF = FALSE
    /\ ep1In = USBDeviceInit /\ ep2Out = USBDeviceInit
    /\ sent = 0 /\ done = 0 /\ host = <<>> /\ resets = 0
-----------------------------------------------------------------------------
(***************************************************************************)
(* The main loop, and RX handling.                                         *)
(***************************************************************************)
MainLoop ==
    /\ pc = "loop"
    /\ usb = "configured" /\ ~suspended
    /\ pc' = "rx"
    /\ UNCHANGED <<rxVars, jtagVars, fifoVars, txVars, usbVars, ep1In, ep2Out,
                   USB_OutPacket, sent, host>>

\* USBGenRead into buffer p.
ArmOut(p) ==
    /\ USB_OutHandle' = [USB_OutHandle EXCEPT ![p] = TransferHandle(ep2Out)]
    /\ ep2Out' = USBTransferOnePacket(ep2Out, p, OUT_MAX)

RxInit ==
    /\ Rx_State = INIT
    /\ ArmOut(0)
    /\ RxSize' = 0
    /\ Rx_State' = 0
    /\ UNCHANGED <<ValidPPB, RxPtr>>

\* Fault: the current packet is given up for the next one.
RxReady_NoRxSizeCheck(p) == ~USBHandleBusy(ep2Out, USB_OutHandle[p])
\* The current packet is used up and the next one has arrived.
RxReady(p) == RxSize = 0 /\ ~USBHandleBusy(ep2Out, USB_OutHandle[p])

\* Fault: the buffer just received is armed again.
OtherBuffer_Same(p) == p
OtherBuffer(p) == 1 - p

\* The packet in buffer p becomes the current one; the other buffer is armed.
RxPacket(p) ==
    /\ Rx_State = p
    /\ RxReady(p)
    /\ RxSize' = USBHandleGetLength(ep2Out, USB_OutHandle[p])
    /\ ValidPPB' = p
    /\ RxPtr' = 0
    /\ Rx_State' = 1 - p
    /\ ArmOut(OtherBuffer(p))

RxNothing ==
    /\ Rx_State # INIT
    /\ ~RxReady(Rx_State)
    /\ UNCHANGED <<rxVars, ep2Out>>

RxHandling ==
    /\ pc = "rx"
    /\ RxInit \/ RxPacket(0) \/ RxPacket(1) \/ RxNothing
    /\ pc' = "jtag"
    /\ UNCHANGED <<jtagVars, fifoVars, txVars, usbVars, ep1In, USB_OutPacket,
                   sent, host>>
-----------------------------------------------------------------------------
(***************************************************************************)
(* JTAG handling.                                                          *)
(***************************************************************************)
\* Fault: there is room, but not for the whole packet.
BatchAllowed_RoomForOne == RxSize > 0 /\ Fifo!Room(TXFIFO_ocpy) > 0
BatchAllowed == RxSize > 0 /\ Fifo!Room(TXFIFO_ocpy) >= RxSize

\* Fault: the shift loop looks at the packet only.
ShiftMore_IgnoresByteSize(size, bytes) == size > 0
ShiftMore(size, bytes) == size > 0 /\ bytes > 0

\* Fault: byte shift mode is never left.
StateAfter_Stays(bytes) == "BYTE_SHIFT"
StateAfter(bytes) == IF bytes = 0 THEN "BIT_BANG" ELSE "BYTE_SHIFT"

StartBitBang ==
    /\ JTAG_State = "BIT_BANG"
    /\ BatchAllowed
    /\ SSPEN' = FALSE
    /\ pc' = "bang"
    /\ UNCHANGED JTAG_State

\* The loop of byte shift mode has no turn when ByteSize is 0.
StartByteShift ==
    /\ JTAG_State = "BYTE_SHIFT"
    /\ BatchAllowed
    /\ SSPEN' = TRUE
    /\ IF ShiftMore(RxSize, ByteSize)
       THEN pc' = "shift" /\ UNCHANGED JTAG_State
       ELSE pc' = "tx" /\ JTAG_State' = StateAfter(ByteSize)

NoBatch ==
    /\ ~BatchAllowed
    /\ pc' = "tx"
    /\ JTAG_State' = IF JTAG_State = "BYTE_SHIFT" THEN StateAfter(ByteSize)
                     ELSE JTAG_State
    /\ UNCHANGED SSPEN

JtagHandling ==
    /\ pc = "jtag"
    /\ StartBitBang \/ StartByteShift \/ NoBatch
    /\ UNCHANGED <<rxVars, Read, ByteSize, nCS, pins, done, fifoVars, txVars,
                   usbVars, ep1In, ep2Out, USB_OutPacket, sent, host>>

\* TXFIFO_Write, or nothing.
Record(read, reply) ==
    IF read = 1 THEN Fifo!TXFIFO_Write(reply) ELSE UNCHANGED fifoVars

\* The next byte of the current packet.
NextByte == USB_OutPacket[ValidPPB][RxPtr + 1]
TakeByte ==
    /\ RxPtr' = RxPtr + 1
    /\ RxSize' = RxSize - 1
    /\ done' = done + 1
    /\ UNCHANGED <<Rx_State, ValidPPB, USB_OutHandle>>

\* Fault: TCK keeps its level when the SPI module is to take over.
ShiftPins_KeepTCK == pins
ShiftPins == [pins EXCEPT !.TCK = 0]

\* Bit 7 set: byte shift mode for the coming bytes; the loop is left.
GoToByteShift ==
    /\ pc = "bang"
    /\ Bit(NextByte, 128) = 1
    /\ TakeByte
    /\ Read' = Bit(NextByte, 64)
    /\ pins' = ShiftPins
    /\ ByteSize' = NextByte % 64
    /\ JTAG_State' = "BYTE_SHIFT"
    /\ pc' = "tx"
    /\ UNCHANGED <<nCS, SSPEN, fifoVars, txVars, usbVars, ep1In, ep2Out,
                   USB_OutPacket, sent, host>>

\* Bit 7 clear: the pins follow the byte, then TDO is sampled.
BitBang ==
    /\ pc = "bang"
    /\ Bit(NextByte, 128) = 0
    /\ TakeByte
    /\ Read' = Bit(NextByte, 64)
    /\ pins' = [TCK |-> Bit(NextByte, 1), TMS |-> Bit(NextByte, 2),
                TDI |-> Bit(NextByte, 16), LED |-> Bit(NextByte, 32)]
    /\ nCS' = Bit(NextByte, 8)
    /\ Record(Read', done')
    /\ pc' = IF RxSize' > 0 THEN "bang" ELSE "tx"
    /\ UNCHANGED <<JTAG_State, ByteSize, SSPEN, txVars, usbVars, ep1In, ep2Out,
                   USB_OutPacket, sent, host>>

\* One byte through the SPI module.
ByteShift ==
    /\ pc = "shift"
    /\ TakeByte
    /\ Record(Read, IF nCS = 1 THEN done' ELSE Ones)
    /\ ByteSize' = ByteSize - 1
    /\ IF ShiftMore(RxSize', ByteSize')
       THEN pc' = "shift" /\ UNCHANGED JTAG_State
       ELSE pc' = "tx" /\ JTAG_State' = StateAfter(ByteSize')
    /\ UNCHANGED <<Read, nCS, pins, SSPEN, txVars, usbVars, ep1In, ep2Out,
                   USB_OutPacket, sent, host>>
-----------------------------------------------------------------------------
(***************************************************************************)
(* TX handling.                                                            *)
(***************************************************************************)
\* Fault: the transmit buffer is filled although the SIE owns it.
InFree_Unchecked == TRUE
InFree == ~USBHandleBusy(ep1In, USB_InHandle0)

ReplySize == Fifo!TxSize(TXFIFO_ocpy)

\* Fault: nothing is sent without replies.
DummyDue_Never == FALSE
DummyDue == TMRIF

\* USBGenWrite of the two status bytes and n replies; the timer restarts.
SendPacket(n) ==
    /\ USB_InHandle0' = TransferHandle(ep1In)
    /\ ep1In' = USBTransferOnePacket(ep1In, 0, n + 2)
    /\ TMRIF' = FALSE

TxReplies ==
    /\ InFree
    /\ ReplySize > 0
    /\ Fifo!TXFIFO_Read(ReplySize)
    /\ SendPacket(ReplySize)

TxDummy ==
    /\ InFree
    /\ ReplySize = 0 /\ DummyDue
    /\ SendPacket(0)
    /\ UNCHANGED <<fifoVars, USB_InPacket>>

TxNothing ==
    /\ ~InFree \/ (ReplySize = 0 /\ ~DummyDue)
    /\ UNCHANGED <<fifoVars, txVars, ep1In>>

TxHandling ==
    /\ pc = "tx"
    /\ TxReplies \/ TxDummy \/ TxNothing
    /\ pc' = "loop"
    /\ UNCHANGED <<rxVars, jtagVars, usbVars, ep2Out, USB_OutPacket, sent, host>>

Main_Task_Blaster ==
    \/ RxHandling
    \/ JtagHandling
    \/ GoToByteShift
    \/ BitBang
    \/ ByteShift
    \/ TxHandling
-----------------------------------------------------------------------------
(***************************************************************************)
(* The timer, the SIE and the host.                                        *)
(***************************************************************************)
TimerExpires ==
    /\ ~TMRIF
    /\ TMRIF' = TRUE
    /\ UNCHANGED <<pc, rxVars, jtagVars, fifoVars, USB_InPacket, USB_InHandle0,
                   usbVars, ep1In, ep2Out, USB_OutPacket, sent, host>>

BusActive == usb = "configured" /\ ~suspended

\* The host sends a packet of commands to EP2, possibly an empty one; without
\* an armed descriptor the SIE answers NAK and nothing happens.
HostSends ==
    /\ BusActive
    /\ SieReady(ep2Out)
    /\ \E n \in 0..OUT_MAX :
          /\ sent + n <= MaxBytes
          /\ \E bytes \in [1..n -> Commands] :
                /\ UnderWay + Asking(bytes) <= Window
                /\ USB_OutPacket' =
                    [USB_OutPacket EXCEPT ![ep2Out.bd[ep2Out.sie].buf] =
                        [i \in 1..OUT_MAX |-> IF i <= n THEN bytes[i] ELSE @[i]]]
          /\ ep2Out' = SieComplete(ep2Out, n)
          /\ sent' = sent + n
    /\ UNCHANGED <<pc, rxVars, jtagVars, fifoVars, txVars, usbVars, ep1In, host>>

\* The host polls EP1 and receives the armed packet.
HostReceives ==
    /\ BusActive
    /\ SieReady(ep1In)
    /\ host' = SubSeq(USB_InPacket, 1, ep1In.bd[ep1In.sie].cnt - 2)
    /\ ep1In' = SieComplete(ep1In, ep1In.bd[ep1In.sie].cnt)
    /\ UNCHANGED <<pc, rxVars, jtagVars, fifoVars, txVars, usbVars, ep2Out,
                   USB_OutPacket, sent>>
-----------------------------------------------------------------------------
(***************************************************************************)
(* The USB interrupt.                                                      *)
(***************************************************************************)
\* RxSize, RxPtr, ValidPPB and Read keep their values, and so do the pins.
USB_Ept_Init ==
    /\ USB_OutHandle' = [p \in {0, 1} |-> NULL]
    /\ USB_InHandle0' = NULL
    /\ Fifo!TXFIFO_Init
    /\ Rx_State' = INIT
    /\ JTAG_State' = "BIT_BANG" /\ SSPEN' = FALSE
    /\ ByteSize' = 0
    /\ nCS' = 1
    /\ ep1In' = USBEnableEndpoint
    /\ ep2Out' = USBEnableEndpoint
    /\ UNCHANGED <<RxSize, ValidPPB, RxPtr, Read>>

\* SET_CONFIGURATION after a reset.  Between the two lie the reset recovery
\* time, SET_ADDRESS and the reading of the descriptors: the pass of the main
\* loop that was running at the reset has ended.
SetConfiguration ==
    /\ usb = "default"
    /\ pc = "loop"
    /\ usb' = "configured"
    /\ USB_Ept_Init
    /\ UNCHANGED <<pc, suspended, resets, pins, done, USB_OutPacket,
                   USB_InPacket, TMRIF, sent, host>>

BusReset ==
    /\ usb = "configured"
    /\ resets < MaxResets
    /\ resets' = resets + 1
    /\ usb' = "default" /\ suspended' = FALSE
    /\ ep1In' = USBDeviceInit /\ ep2Out' = USBDeviceInit
    /\ UNCHANGED <<pc, rxVars, jtagVars, fifoVars, txVars, USB_OutPacket, sent,
                   host>>

SuspendOrResume ==
    /\ MaySuspend
    /\ usb = "configured"
    /\ suspended' = ~suspended
    /\ UNCHANGED <<pc, rxVars, jtagVars, fifoVars, txVars, usb, resets, ep1In,
                   ep2Out, USB_OutPacket, sent, host>>

Next ==
    \/ MainLoop
    \/ Main_Task_Blaster
    \/ TimerExpires
    \/ HostSends
    \/ HostReceives
    \/ SetConfiguration
    \/ BusReset
    \/ SuspendOrResume

Spec == Init /\ [][Next]_vars

(***************************************************************************)
(* The main loop never stops (while(1)), the timer runs all the time, and  *)
(* the host polls EP1 as long as the bus is active.  Nothing forces the    *)
(* host to send commands.                                                  *)
(***************************************************************************)
Fairness ==
    /\ WF_vars(MainLoop)
    /\ WF_vars(Main_Task_Blaster)
    /\ WF_vars(TimerExpires)
    /\ WF_vars(HostReceives)

FairSpec == Spec /\ Fairness
-----------------------------------------------------------------------------
TypeOK ==
    /\ pc \in {"loop", "rx", "jtag", "bang", "shift", "tx"}
    /\ usb \in {"default", "configured"} /\ suspended \in BOOLEAN
    /\ Rx_State \in {INIT, 0, 1}
    /\ RxSize \in 0..OUT_MAX /\ ValidPPB \in {0, 1} /\ RxPtr \in 0..OUT_MAX
    /\ JTAG_State \in {"BIT_BANG", "BYTE_SHIFT"}
    /\ Read \in {0, 1} /\ ByteSize \in 0..63 /\ nCS \in {0, 1}
    /\ Fifo!TypeOK
    /\ USB_OutPacket \in [{0, 1} -> [1..OUT_MAX -> Commands \cup {0}]]
    /\ USB_OutHandle \in [{0, 1} -> {0, 1, NULL}]
    /\ USB_InHandle0 \in {0, 1, NULL}
    /\ pins \in [TCK : {0, 1}, TMS : {0, 1}, TDI : {0, 1}, LED : {0, 1}]
    /\ SSPEN \in BOOLEAN
    /\ TMRIF \in BOOLEAN
    /\ ep1In \in Endpoints(TX_MAX + 2, {0})
    /\ ep2Out \in Endpoints(OUT_MAX, {0, 1})
    /\ sent \in 0..MaxBytes /\ done \in 0..sent
    /\ host \in Seq(Reply) /\ resets \in 0..MaxResets

(***************************************************************************)
(* The software's pointer to the next descriptor and the ping-pong state   *)
(* of the SIE advance in different places (usb_device.c:1034-1045, the     *)
(* SIE's own logic).  They must stay in step, or an armed packet is never  *)
(* looked at again: at most one descriptor is armed, it is the one the SIE *)
(* uses next, and the pointer is one ahead of it.                          *)
(***************************************************************************)
InStep(ep) ==
    /\ ~(ep.bd[0].uown /\ ep.bd[1].uown)
    /\ ep.next = IF Armed(ep) THEN 1 - ep.sie ELSE ep.sie
    /\ Armed(ep) => ep.bd[ep.sie].uown
PingPongInStep == usb = "configured" => InStep(ep1In) /\ InStep(ep2Out)

(***************************************************************************)
(* The SIE never fills the buffer whose commands are being processed, and  *)
(* the handle that RX handling waits on is that of the armed descriptor    *)
(* (blaster.c:456-500).                                                    *)
(***************************************************************************)
ReceiveBuffersExclusive ==
    usb = "configured" /\ Armed(ep2Out) =>
        LET b == ep2Out.bd[ep2Out.sie].buf
        IN  /\ RxSize > 0 => b # ValidPPB
            /\ Rx_State = b /\ USB_OutHandle[b] = ep2Out.sie

\* The transmit buffer does not change while the SIE owns it (blaster.c:642).
TransmitBufferStable ==
    [][usb = "configured" /\ Armed(ep1In) => UNCHANGED USB_InPacket]_vars

(***************************************************************************)
(* TCK as the JTAG chain sees it: the SPI module's clock idles low.  Only a*)
(* command makes an edge: switching the pins between port and SPI module   *)
(* does not clock the chain (blaster.c:528, 540, 589, jtag.c:63-86).       *)
(***************************************************************************)
ClockPin == IF SSPEN THEN 0 ELSE pins.TCK
ClockedByCommandsOnly == [][ClockPin' # ClockPin => done' = done + 1]_vars

\* The ring is used as TxFifo's callers use it: TxFifo's theorems hold here.
FifoSpec == Fifo!Spec

(***************************************************************************)
(* The firmware implements the machine that main.c:12-60 describes: every  *)
(* command byte that the SIE acknowledged is processed once and in order,  *)
(* across packets, buffers and mode switches; every reply reaches the host *)
(* once and in order, wherever it waits.                                   *)
(***************************************************************************)
Machine == INSTANCE Cpld
              WITH inp <- Current \o Waiting,
                   out <- InFlight \o Queued,
                   up <- usb = "configured",
                   count <- ByteSize,
                   readBit <- Read
CpldSpec == Machine!Spec

\* Every command is processed in the end and every reply reaches the host,
\* provided the bus stays active (main.c:41-60).
WorkFinishes ==
    <>[]BusActive => <>[](Current \o Waiting \o InFlight \o Queued = <<>>)

\* "Every 10ms there is some packet" (main.c:71-75): EP1 is armed and polled
\* again and again, with or without replies.
PacketsKeepComing ==
    <>[]BusActive => []<>Armed(ep1In) /\ []<>~Armed(ep1In)
=============================================================================
