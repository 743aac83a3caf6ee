---------------------------- MODULE BlasterProofs ----------------------------
(***************************************************************************)
(* The main task and the SIE agree on the descriptors and buffers of both  *)
(* endpoints, the main task uses the ring as TxFifo says, and the firmware *)
(* implements the machine of Cpld, for every size of ring and packets and  *)
(* any number of bytes and resets.                                         *)
(***************************************************************************)
EXTENDS Blaster, SequenceTheorems, TLAPS
-----------------------------------------------------------------------------
(***************************************************************************)
(* The two states of an endpoint in step with the SIE.                     *)
(***************************************************************************)
Quiet(e) == ~e.bd[0].uown /\ ~e.bd[1].uown
OneArmed(e) == e.bd[e.sie].uown /\ ~e.bd[1 - e.sie].uown

Free(e) == Quiet(e) /\ e.next = e.sie
Busy(e) == OneArmed(e) /\ e.next = 1 - e.sie

LEMMA Shapes ==
    ASSUME NEW size \in Nat, NEW bufs, NEW e \in Endpoints(size, bufs)
    PROVE  /\ ~(Free(e) /\ Busy(e))
           /\ Free(e) => ~Armed(e)
           /\ Busy(e) => Armed(e)
           /\ Free(e) \/ Busy(e) => InStep(e)
BY DEF Free, Busy, Quiet, OneArmed, Armed, InStep, Endpoints, Descriptors, NULL

LEMMA EnabledShape ==
    ASSUME NEW size \in Nat, NEW bufs, 0 \in bufs
    PROVE  /\ USBEnableEndpoint \in Endpoints(size, bufs)
           /\ Free(USBEnableEndpoint)
           /\ USBDeviceInit \in Endpoints(size, bufs)
           /\ Quiet(USBDeviceInit) /\ USBDeviceInit.next = NULL
           /\ USBDeviceInit.bd[0].cnt = 0 /\ USBDeviceInit.bd[1].cnt = 0
           /\ USBDeviceInit.sie = 0
<1>1. 0 \in 0..size
  OBVIOUS
<1>2. QED
  BY <1>1 DEF USBEnableEndpoint, USBDeviceInit, Idle, Endpoints, Descriptors,
              Free, Quiet, NULL

\* Arming the next descriptor.
LEMMA TransferShape ==
    ASSUME NEW size \in Nat, NEW bufs, NEW e \in Endpoints(size, bufs), Free(e),
           NEW b \in bufs, NEW n \in 0..size
    PROVE  LET f == USBTransferOnePacket(e, b, n)
           IN  /\ f \in Endpoints(size, bufs) /\ Busy(f)
               /\ f.sie = TransferHandle(e) /\ f.sie \in {0, 1}
               /\ f.bd[f.sie].buf = b /\ f.bd[f.sie].cnt = n
<1> DEFINE p == e.sie
           f == USBTransferOnePacket(e, b, n)
           armed == [e.bd[p] EXCEPT !.buf = b, !.cnt = n, !.stall = FALSE,
                                    !.uown = TRUE]
<1>1. p \in {0, 1} /\ 1 - p \in {0, 1} /\ p # 1 - p
  BY DEF Endpoints
<1>2. e.bd \in [{0, 1} -> Descriptors(size, bufs)]
  BY DEF Endpoints
<1>3. armed \in Descriptors(size, bufs) /\ armed.uown /\ armed.buf = b /\ armed.cnt = n
  <2>1. e.bd[p] \in Descriptors(size, bufs)
    BY <1>1, <1>2
  <2>2. QED
    BY <2>1 DEF Descriptors
<1>4. e.next = p /\ e.next # NULL /\ ~e.bd[1 - p].uown
  BY <1>1 DEF Free, Quiet, NULL
<1>5. f = [e EXCEPT !.bd = [@ EXCEPT ![p] = armed], !.next = 1 - p]
  BY <1>1, <1>2, <1>4 DEF USBTransferOnePacket, Endpoints
<1> HIDE DEF f, armed
<1>6. /\ f.next = 1 - p /\ f.sie = p
      /\ f.bd[p] = armed /\ f.bd[1 - p] = e.bd[1 - p]
  BY <1>1, <1>2, <1>5 DEF Endpoints
<1>7. f \in Endpoints(size, bufs)
  BY <1>1, <1>2, <1>3, <1>5 DEF Endpoints
<1>8. Busy(f)
  BY <1>1, <1>3, <1>4, <1>6 DEF Busy, OneArmed
<1>9. QED
  BY <1>1, <1>3, <1>4, <1>6, <1>7, <1>8 DEF TransferHandle, f

\* Without a pointer nothing is armed.
LEMMA TransferNothing ==
    ASSUME NEW b, NEW n
    PROVE  /\ USBTransferOnePacket(USBDeviceInit, b, n) = USBDeviceInit
           /\ TransferHandle(USBDeviceInit) = NULL
BY DEF USBTransferOnePacket, TransferHandle, USBDeviceInit

\* The SIE completes the armed descriptor.
LEMMA SieShape ==
    ASSUME NEW size \in Nat, NEW bufs, NEW e \in Endpoints(size, bufs),
           Free(e) \/ Busy(e), SieReady(e), NEW n \in 0..size
    PROVE  LET f == SieComplete(e, n)
           IN  /\ f \in Endpoints(size, bufs) /\ Free(f) /\ Busy(e)
               /\ e.sie \in {0, 1} /\ ~f.bd[e.sie].uown /\ f.bd[e.sie].cnt = n
<1> DEFINE p == e.sie
           f == SieComplete(e, n)
           complete == [e.bd[p] EXCEPT !.uown = FALSE, !.cnt = n]
<1>1. p \in {0, 1} /\ 1 - p \in {0, 1} /\ p # 1 - p
  BY DEF Endpoints
<1>2. e.bd \in [{0, 1} -> Descriptors(size, bufs)]
  BY DEF Endpoints
<1>3. Busy(e)
  BY <1>1 DEF Free, Quiet, SieReady
<1>4. complete \in Descriptors(size, bufs) /\ ~complete.uown /\ complete.cnt = n
  <2>1. e.bd[p] \in Descriptors(size, bufs)
    BY <1>1, <1>2
  <2>2. QED
    BY <2>1 DEF Descriptors
<1>5. f = [e EXCEPT !.bd = [@ EXCEPT ![p] = complete], !.sie = 1 - p]
  BY <1>1, <1>2 DEF SieComplete, Endpoints
<1> HIDE DEF f, complete
<1>6. /\ f.next = e.next /\ f.sie = 1 - p
      /\ f.bd[p] = complete /\ f.bd[1 - p] = e.bd[1 - p]
  BY <1>1, <1>2, <1>5 DEF Endpoints
<1>7. f \in Endpoints(size, bufs)
  BY <1>1, <1>2, <1>4, <1>5 DEF Endpoints
<1>8. Free(f)
  BY <1>1, <1>3, <1>4, <1>6 DEF Free, Busy, Quiet, OneArmed
<1>9. QED
  BY <1>1, <1>3, <1>4, <1>6, <1>7, <1>8 DEF f
-----------------------------------------------------------------------------
(***************************************************************************)
(* The inductive invariant.                                                *)
(***************************************************************************)
\* The transmit side: free, or armed with the packet in the buffer.
InPart ==
    /\ ep1In \in Endpoints(TX_MAX + 2, {0})
    /\ USB_InHandle0 \in {0, 1, NULL}
    /\ usb = "default" => ep1In = USBDeviceInit
    /\ usb = "configured" =>
          \/ Free(ep1In)
          \/ /\ Busy(ep1In)
             /\ USB_InHandle0 = ep1In.sie
             /\ ep1In.bd[ep1In.sie].cnt \in 2..(Len(USB_InPacket) + 2)

\* The armed receive buffer is the one RX handling waits for.
Handed ==
    /\ Rx_State \in {0, 1}
    /\ USB_OutHandle[Rx_State] = ep2Out.sie
    /\ ep2Out.bd[ep2Out.sie].buf = Rx_State
    /\ RxSize > 0 => Rx_State # ValidPPB

\* The receive side.  A handle is null only after a reset, when RX handling
\* has had its last turn.
OutPart ==
    /\ ep2Out \in Endpoints(OUT_MAX, {0, 1})
    /\ USB_OutHandle \in [{0, 1} -> {0, 1, NULL}]
    /\ Rx_State \in {INIT, 0, 1}
    /\ usb = "default" => ep2Out = USBDeviceInit
    /\ usb = "configured" => Free(ep2Out) \/ (Busy(ep2Out) /\ Handed)
    /\ (usb = "configured" \/ pc = "rx") /\ Rx_State # INIT =>
          USB_OutHandle[Rx_State] # NULL

\* The command machine: where the loops may be, and TCK low wherever the SPI
\* module drives the chain or is about to.
CmdPart ==
    /\ pc \in {"loop", "rx", "jtag", "bang", "shift", "tx"}
    /\ usb \in {"default", "configured"} /\ suspended \in BOOLEAN
    /\ RxSize \in 0..OUT_MAX /\ ValidPPB \in {0, 1} /\ RxPtr \in 0..OUT_MAX
    /\ RxPtr + RxSize <= OUT_MAX
    /\ JTAG_State \in {"BIT_BANG", "BYTE_SHIFT"}
    /\ Read \in {0, 1} /\ ByteSize \in 0..63 /\ nCS \in {0, 1}
    /\ pins \in [TCK : {0, 1}, TMS : {0, 1}, TDI : {0, 1}, LED : {0, 1}]
    /\ SSPEN \in BOOLEAN /\ TMRIF \in BOOLEAN
    /\ USB_OutPacket \in [{0, 1} -> [1..OUT_MAX -> Commands \cup {0}]]
    /\ pc \in {"bang", "shift"} => RxSize > 0
    /\ pc = "bang" => JTAG_State = "BIT_BANG" /\ ~SSPEN
    /\ pc = "shift" => JTAG_State = "BYTE_SHIFT" /\ ByteSize > 0
    /\ SSPEN \/ JTAG_State = "BYTE_SHIFT" => pins.TCK = 0

\* The bytes of a packet that the SIE has completed and RX handling has not
\* fetched.
Unfetched ==
    LET handle == USB_OutHandle[Rx_State]
    IN  IF Rx_State # INIT /\ handle # NULL /\ ~USBHandleBusy(ep2Out, handle)
        THEN USBHandleGetLength(ep2Out, handle)
        ELSE 0

\* No byte is processed that was not sent.
CountPart ==
    /\ sent \in 0..MaxBytes /\ resets \in 0..MaxResets
    /\ done \in Nat
    /\ done + RxSize + Unfetched <= sent

FifoPart ==
    /\ TXFIFO \in [0..(TXFIFO_SIZE - 1) -> Reply]
    /\ TXFIFO_rp \in 0..(UINT8 - 1) /\ TXFIFO_wp \in 0..(UINT8 - 1)
    /\ TXFIFO_ocpy \in 0..(UINT16 - 1)
    /\ USB_InPacket \in Seq(Reply) /\ host \in Seq(Reply)

BlasterInv == InPart /\ OutPart /\ CmdPart /\ CountPart /\ FifoPart
-----------------------------------------------------------------------------
\* A packet takes at most TX_MAX replies, and none only of an empty ring or a
\* full one.
LEMMA ReplySizeBounds ==
    ASSUME FifoPart
    PROVE  ReplySize \in 0..TX_MAX
<1>1. TXFIFO_ocpy \in Nat /\ TX_MAX \in Nat /\ UINT8 \in Nat /\ UINT8 > 0
  BY BlasterAssumption DEF FifoPart
<1>2. TXFIFO_ocpy % UINT8 \in Nat
  BY <1>1
<1>3. QED
  BY <1>1, <1>2 DEF ReplySize, Fifo!TxSize, Fifo!Fill

LEMMA InitBlasterInv == Init => BlasterInv
<1> SUFFICES ASSUME Init PROVE BlasterInv
  OBVIOUS
<1>1. /\ TX_MAX + 2 \in Nat /\ OUT_MAX \in Nat /\ UINT8 \in Nat /\ UINT8 > 0
      /\ UINT16 \in Nat /\ UINT16 > 0 /\ TXFIFO_SIZE = UINT8
      /\ MaxBytes \in Nat /\ MaxResets \in Nat
  BY BlasterAssumption
<1>2. InPart
  BY <1>1, EnabledShape DEF Init, InPart, NULL
<1>3. OutPart
  BY <1>1, EnabledShape DEF Init, OutPart, NULL, INIT
<1>4. CmdPart
  <2>1. pins \in [TCK : {0, 1}, TMS : {0, 1}, TDI : {0, 1}, LED : {0, 1}]
    BY DEF Init
  <2>2. USB_OutPacket \in [{0, 1} -> [1..OUT_MAX -> Commands \cup {0}]]
    BY DEF Init
  <2>3. 0 \in 0..OUT_MAX /\ 0 + 0 <= OUT_MAX /\ 0 \in 0..63
    BY <1>1
  <2>4. QED
    BY <2>1, <2>2, <2>3 DEF Init, CmdPart
<1>5. CountPart
  BY <1>1 DEF Init, CountPart, Unfetched, INIT
<1>6. FifoPart
  <2>1. <<>> \in Seq(Reply)
    OBVIOUS
  <2>2. 0 \in Reply
    BY <1>1 DEF Reply
  <2>3. QED
    BY <1>1, <2>1, <2>2 DEF Init, FifoPart
<1>7. QED
  BY <1>2, <1>3, <1>4, <1>5, <1>6 DEF BlasterInv
-----------------------------------------------------------------------------
(***************************************************************************)
(* The transmit side.                                                      *)
(***************************************************************************)
\* EP1 is armed with n replies that are in the buffer, or not at all.
LEMMA SendInPart ==
    ASSUME BlasterInv, NEW n \in 0..TX_MAX, InFree, SendPacket(n),
           n <= Len(USB_InPacket'), Len(USB_InPacket') \in Nat,
           UNCHANGED usb
    PROVE  InPart'
<1> DEFINE f == USBTransferOnePacket(ep1In, 0, n + 2)
<1>1. /\ TX_MAX \in Nat /\ TX_MAX + 2 \in Nat /\ n + 2 \in 0..(TX_MAX + 2)
      /\ n + 2 \in 2..(Len(USB_InPacket') + 2)
  BY BlasterAssumption
<1>2. ep1In' = f /\ USB_InHandle0' = TransferHandle(ep1In)
  BY DEF SendPacket
<1> HIDE DEF f
<1>3. CASE usb = "default"
  <2>1. ep1In = USBDeviceInit
    BY <1>3 DEF BlasterInv, InPart
  <2>2. f = USBDeviceInit /\ TransferHandle(ep1In) = NULL
    BY <2>1, TransferNothing DEF f
  <2>3. USBDeviceInit \in Endpoints(TX_MAX + 2, {0})
    BY <2>1 DEF BlasterInv, InPart
  <2>4. QED
    BY <1>2, <1>3, <2>2, <2>3 DEF InPart
<1>4. CASE usb = "configured"
  <2>1. Free(ep1In)
    <3>1. CASE Free(ep1In)
      BY <3>1
    <3>2. CASE Busy(ep1In) /\ USB_InHandle0 = ep1In.sie
      <4>1. ep1In.bd[ep1In.sie].uown /\ ep1In.sie \in {0, 1}
        BY <3>2 DEF Busy, OneArmed, BlasterInv, InPart, Endpoints
      <4>2. USBHandleBusy(ep1In, USB_InHandle0)
        BY <3>2, <4>1 DEF USBHandleBusy, NULL
      <4>3. QED
        BY <4>2 DEF InFree
    <3>3. QED
      BY <1>4, <3>1, <3>2 DEF BlasterInv, InPart
  <2>2. ep1In \in Endpoints(TX_MAX + 2, {0})
    BY DEF BlasterInv, InPart
  <2>3. /\ f \in Endpoints(TX_MAX + 2, {0}) /\ Busy(f)
        /\ f.sie = TransferHandle(ep1In) /\ f.sie \in {0, 1}
        /\ f.bd[f.sie].cnt = n + 2
    BY <1>1, <2>1, <2>2, TransferShape, SMTT(40) DEF f
  <2>4. QED
    BY <1>1, <1>2, <1>4, <2>3 DEF InPart
<1>5. QED
  BY <1>3, <1>4 DEF BlasterInv, CmdPart

LEMMA TxInPart == BlasterInv /\ TxHandling => InPart'
<1> SUFFICES ASSUME BlasterInv, TxHandling PROVE InPart'
  OBVIOUS
<1>1. usb' = usb /\ TX_MAX \in Nat /\ ReplySize \in 0..TX_MAX
  BY ReplySizeBounds, BlasterAssumption DEF TxHandling, usbVars, BlasterInv
<1>2. CASE TxReplies
  <2>1. USB_InPacket' = Fifo!Copied(TXFIFO, TXFIFO_rp, ReplySize)
    BY <1>2 DEF TxReplies, Fifo!TXFIFO_Read
  <2>2. Len(USB_InPacket') = ReplySize
    BY <1>1, <2>1 DEF Fifo!Copied
  <2>3. QED
    BY <1>1, <1>2, <2>2, SendInPart DEF TxReplies
<1>3. CASE TxDummy
  <2>1. Len(USB_InPacket') \in Nat /\ 0 \in 0..TX_MAX
    BY <1>1, <1>3 DEF TxDummy, BlasterInv, FifoPart
  <2>2. InFree /\ SendPacket(0)
    BY <1>3 DEF TxDummy
  <2>3. QED
    BY <1>1, <2>1, <2>2, SendInPart
<1>4. CASE TxNothing
  BY <1>1, <1>4 DEF TxNothing, txVars, BlasterInv, InPart
<1>5. QED
  BY <1>2, <1>3, <1>4 DEF TxHandling

LEMMA NextInPart == BlasterInv /\ [Next]_vars => InPart'
<1> SUFFICES ASSUME BlasterInv, [Next]_vars PROVE InPart'
  OBVIOUS
<1>1. TX_MAX + 2 \in Nat
  BY BlasterAssumption
<1>2. CASE UNCHANGED <<ep1In, USB_InHandle0, USB_InPacket, usb>>
  BY <1>2 DEF BlasterInv, InPart
<1>3. CASE MainLoop \/ RxHandling \/ JtagHandling \/ TimerExpires
              \/ SuspendOrResume \/ HostSends
  BY <1>2, <1>3 DEF MainLoop, RxHandling, JtagHandling, TimerExpires,
     SuspendOrResume, HostSends, txVars, usbVars
<1>4. CASE GoToByteShift \/ BitBang \/ ByteShift
  BY <1>2, <1>4 DEF GoToByteShift, BitBang, ByteShift, txVars, usbVars
<1>5. CASE TxHandling
  BY <1>5, TxInPart
<1>6. CASE HostReceives
  <2> DEFINE n == ep1In.bd[ep1In.sie].cnt
             f == SieComplete(ep1In, n)
  <2>1. /\ usb = "configured" /\ SieReady(ep1In) /\ ep1In' = f
        /\ USB_InHandle0' = USB_InHandle0 /\ usb' = usb
    BY <1>6 DEF HostReceives, BusActive, txVars, usbVars
  <2>2. /\ ep1In \in Endpoints(TX_MAX + 2, {0}) /\ (Free(ep1In) \/ Busy(ep1In))
        /\ USB_InHandle0 \in {0, 1, NULL}
    BY <2>1 DEF BlasterInv, InPart
  <2>3. n \in 0..(TX_MAX + 2)
    BY <2>2 DEF Endpoints, Descriptors
  <2> HIDE DEF n, f
  <2>4. f \in Endpoints(TX_MAX + 2, {0}) /\ Free(f)
    BY <1>1, <2>1, <2>2, <2>3, SieShape DEF f
  <2>5. QED
    BY <2>1, <2>2, <2>4 DEF InPart
<1>7. CASE SetConfiguration
  <2>1. ep1In' = USBEnableEndpoint /\ USB_InHandle0' = NULL /\ usb' = "configured"
    BY <1>7 DEF SetConfiguration, USB_Ept_Init
  <2>2. USBEnableEndpoint \in Endpoints(TX_MAX + 2, {0}) /\ Free(USBEnableEndpoint)
    BY <1>1, EnabledShape
  <2>3. QED
    BY <2>1, <2>2 DEF InPart
<1>8. CASE BusReset
  <2>1. ep1In' = USBDeviceInit /\ USB_InHandle0' = USB_InHandle0 /\ usb' = "default"
    BY <1>8 DEF BusReset, txVars
  <2>2. USBDeviceInit \in Endpoints(TX_MAX + 2, {0}) 
    BY <1>1, EnabledShape
  <2>3. QED
    BY <2>1, <2>2 DEF InPart, BlasterInv
<1>9. CASE UNCHANGED vars
  BY <1>2, <1>9 DEF vars, txVars, usbVars
<1>10. QED
  BY <1>3, <1>4, <1>5, <1>6, <1>7, <1>8, <1>9 DEF Next, Main_Task_Blaster
-----------------------------------------------------------------------------
(***************************************************************************)
(* The receive side.                                                       *)
(***************************************************************************)
\* Arming the next descriptor, for RX handling that will wait for it.
LEMMA ArmOutPart ==
    ASSUME BlasterInv, NEW b \in {0, 1}, ArmOut(b), Rx_State' = b,
           usb' = usb, pc' # "rx", RxSize' > 0 => b # ValidPPB',
           usb = "configured" => Free(ep2Out)
    PROVE  OutPart' /\ Unfetched' = 0
<1> DEFINE f == USBTransferOnePacket(ep2Out, b, OUT_MAX)
<1>1. OUT_MAX \in Nat /\ OUT_MAX \in 0..OUT_MAX
  BY BlasterAssumption
<1>2. /\ ep2Out' = f
      /\ USB_OutHandle' = [USB_OutHandle EXCEPT ![b] = TransferHandle(ep2Out)]
  BY DEF ArmOut
<1> HIDE DEF f
<1>3. /\ ep2Out \in Endpoints(OUT_MAX, {0, 1})
      /\ USB_OutHandle \in [{0, 1} -> {0, 1, NULL}]
  BY DEF BlasterInv, OutPart
<1>4. USB_OutHandle'[b] = TransferHandle(ep2Out)
  BY <1>2, <1>3
<1>5. b # INIT
  BY DEF INIT
<1>6. CASE usb = "default"
  <2>1. ep2Out = USBDeviceInit
    BY <1>6 DEF BlasterInv, OutPart
  <2>2. f = USBDeviceInit /\ TransferHandle(ep2Out) = NULL
    BY <2>1, TransferNothing DEF f
  <2>3. USB_OutHandle' \in [{0, 1} -> {0, 1, NULL}]
    BY <1>2, <1>3, <2>2
  <2>4. Unfetched' = 0
    BY <1>4, <2>2 DEF Unfetched
  <2>5. QED
    BY <1>2, <1>3, <1>6, <2>1, <2>2, <2>3, <2>4 DEF OutPart
<1>7. CASE usb = "configured"
  <2>1. /\ f \in Endpoints(OUT_MAX, {0, 1}) /\ Busy(f)
        /\ f.sie = TransferHandle(ep2Out) /\ f.sie \in {0, 1}
        /\ f.bd[f.sie].buf = b
    BY <1>1, <1>3, <1>7, TransferShape DEF f
  <2>2. USB_OutHandle' \in [{0, 1} -> {0, 1, NULL}]
    BY <1>2, <1>3, <2>1
  <2>3. USB_OutHandle'[b] # NULL
    BY <1>4, <2>1 DEF NULL
  <2>4. Handed'
    BY <1>2, <1>4, <2>1 DEF Handed
  <2>5. Unfetched' = 0
    BY <1>2, <1>4, <2>1, <2>3 DEF Unfetched, USBHandleBusy, Busy, OneArmed
  <2>6. QED
    BY <1>2, <1>7, <2>1, <2>2, <2>3, <2>4, <2>5 DEF OutPart
<1>8. QED
  BY <1>6, <1>7 DEF BlasterInv, CmdPart

\* A packet that RX handling fetches is complete: nothing is armed.
LEMMA ReadyFree ==
    ASSUME BlasterInv, pc = "rx", Rx_State \in {0, 1}, RxReady(Rx_State)
    PROVE  /\ usb = "configured" => Free(ep2Out)
           /\ USB_OutHandle[Rx_State] \in {0, 1}
           /\ RxSize = 0
           /\ Unfetched = ep2Out.bd[USB_OutHandle[Rx_State]].cnt
           /\ Unfetched \in 0..OUT_MAX
<1> DEFINE h == USB_OutHandle[Rx_State]
<1>1. RxSize = 0 /\ ~USBHandleBusy(ep2Out, h)
  BY DEF RxReady
<1>2. h \in {0, 1}
  BY DEF BlasterInv, OutPart, INIT
<1>3. ~ep2Out.bd[h].uown
  BY <1>1, <1>2 DEF USBHandleBusy, NULL
<1>4. ASSUME usb = "configured" PROVE Free(ep2Out)
  <2>1. ~(Busy(ep2Out) /\ Handed)
    BY <1>3 DEF Busy, OneArmed, Handed
  <2>2. QED
    BY <1>4, <2>1 DEF BlasterInv, OutPart
<1>5. ep2Out.bd[h].cnt \in 0..OUT_MAX
  BY <1>2 DEF BlasterInv, OutPart, Endpoints, Descriptors
<1>6. Unfetched = ep2Out.bd[h].cnt
  BY <1>1, <1>2 DEF Unfetched, USBHandleGetLength, NULL, INIT
<1>7. QED
  BY <1>1, <1>2, <1>4, <1>5, <1>6

LEMMA RxOutPart ==
    ASSUME BlasterInv, RxHandling
    PROVE  /\ OutPart'
           /\ RxSize' \in 0..OUT_MAX /\ ValidPPB' \in {0, 1}
           /\ RxPtr' \in 0..OUT_MAX /\ RxPtr' + RxSize' <= OUT_MAX
           /\ RxSize' + Unfetched' <= RxSize + Unfetched
<1>1. /\ OUT_MAX \in Nat /\ usb' = usb /\ pc = "rx" /\ pc' = "jtag"
      /\ RxSize \in 0..OUT_MAX
  BY BlasterAssumption DEF RxHandling, usbVars, BlasterInv, CmdPart
<1>2. CASE RxInit
  <2>1. /\ Rx_State = INIT /\ ArmOut(0) /\ RxSize' = 0 /\ Rx_State' = 0
        /\ ValidPPB' = ValidPPB /\ RxPtr' = RxPtr
    BY <1>2 DEF RxInit
  <2>2. usb = "configured" => Free(ep2Out)
    BY <2>1 DEF BlasterInv, OutPart, Handed, INIT
  <2>3. OutPart' /\ Unfetched' = 0
    BY <1>1, <2>1, <2>2, ArmOutPart
  <2>4. Unfetched = 0
    BY <2>1 DEF Unfetched
  <2>5. ValidPPB \in {0, 1} /\ RxPtr \in 0..OUT_MAX
    BY DEF BlasterInv, CmdPart
  <2>6. QED
    BY <1>1, <2>1, <2>3, <2>4, <2>5
<1>3. ASSUME NEW p \in {0, 1}, RxPacket(p)
      PROVE  /\ OutPart'
             /\ RxSize' \in 0..OUT_MAX /\ ValidPPB' \in {0, 1} /\ RxPtr' = 0
             /\ RxSize' + Unfetched' <= RxSize + Unfetched
  <2>1. /\ Rx_State = p /\ RxReady(p) /\ ArmOut(1 - p) /\ Rx_State' = 1 - p
        /\ RxSize' = ep2Out.bd[USB_OutHandle[p]].cnt
        /\ ValidPPB' = p /\ RxPtr' = 0 /\ 1 - p \in {0, 1} /\ 1 - p # p
    BY <1>3 DEF RxPacket, OtherBuffer, USBHandleGetLength
  <2>2. /\ usb = "configured" => Free(ep2Out)
        /\ RxSize = 0 /\ RxSize' = Unfetched /\ Unfetched \in 0..OUT_MAX
    BY <1>1, <2>1, ReadyFree
  <2>3. OutPart' /\ Unfetched' = 0
    BY <1>1, <2>1, <2>2, ArmOutPart
  <2>4. QED
    BY <2>1, <2>2, <2>3
<1>4. CASE RxNothing
  <2>1. /\ UNCHANGED <<Rx_State, RxSize, ValidPPB, RxPtr, USB_OutHandle, ep2Out>>
    BY <1>4 DEF RxNothing, rxVars
  <2>2. OutPart' /\ Unfetched' = Unfetched
    BY <1>1, <2>1 DEF BlasterInv, OutPart, Handed, Unfetched
  <2>3. Unfetched \in Int
    BY DEF BlasterInv, OutPart, Unfetched, USBHandleGetLength, Endpoints, Descriptors,
           NULL, INIT
  <2>4. QED
    BY <1>1, <2>1, <2>2, <2>3 DEF BlasterInv, CmdPart
<1>5. QED
  BY <1>1, <1>2, <1>3, <1>4 DEF RxHandling

\* What does not touch the endpoint, its handles or Rx_State, and takes
\* bytes of the current packet at most.
LEMMA SameOutPart ==
    ASSUME BlasterInv, UNCHANGED <<ep2Out, USB_OutHandle, Rx_State, ValidPPB, usb>>,
           pc' = "rx" => pc = "rx" \/ usb = "configured",
           RxSize' > 0 => RxSize > 0
    PROVE  OutPart' /\ Unfetched' = Unfetched
BY DEF BlasterInv, OutPart, Handed, Unfetched

\* A byte of the current packet is there to be taken.
LEMMA TakeByteFacts ==
    ASSUME BlasterInv, TakeByte, pc \in {"bang", "shift"}
    PROVE  /\ UNCHANGED <<Rx_State, ValidPPB, USB_OutHandle>>
           /\ RxSize > 0
           /\ RxSize' = RxSize - 1 /\ done' = done + 1
           /\ RxSize' \in 0..OUT_MAX /\ RxPtr' \in 0..OUT_MAX
           /\ RxPtr' + RxSize' <= OUT_MAX
           /\ NextByte \in 0..255
<1>1. /\ RxSize' = RxSize - 1 /\ RxPtr' = RxPtr + 1 /\ done' = done + 1
      /\ UNCHANGED <<Rx_State, ValidPPB, USB_OutHandle>>
  BY DEF TakeByte
<1>2. /\ RxSize \in 0..OUT_MAX /\ RxPtr \in 0..OUT_MAX /\ OUT_MAX \in Nat
      /\ RxPtr + RxSize <= OUT_MAX /\ RxSize > 0
  BY BlasterAssumption DEF BlasterInv, CmdPart
<1>3. RxPtr + 1 \in 1..OUT_MAX
  BY <1>2
<1>4. NextByte \in Commands \cup {0}
  BY <1>3 DEF NextByte, BlasterInv, CmdPart
<1>5. NextByte \in 0..255
  BY <1>4, BlasterAssumption
<1>6. QED
  BY <1>1, <1>2, <1>5

LEMMA NextOutPart == BlasterInv /\ [Next]_vars => OutPart'
<1> SUFFICES ASSUME BlasterInv, [Next]_vars PROVE OutPart'
  OBVIOUS
<1>1. OUT_MAX \in Nat
  BY BlasterAssumption
<1>2. CASE MainLoop \/ JtagHandling \/ TxHandling \/ TimerExpires \/ HostReceives
  BY <1>2, SameOutPart DEF MainLoop, JtagHandling, TxHandling, TimerExpires,
     HostReceives, StartBitBang, StartByteShift, NoBatch, rxVars, usbVars
<1>3. CASE GoToByteShift \/ BitBang \/ ByteShift
  <2>1. /\ TakeByte /\ pc \in {"bang", "shift"} /\ ep2Out' = ep2Out /\ usb' = usb
        /\ pc' # "rx"
    BY <1>3 DEF GoToByteShift, BitBang, ByteShift, usbVars
  <2>2. QED
    BY <2>1, TakeByteFacts, SameOutPart
<1>4. CASE RxHandling
  BY <1>4, RxOutPart
<1>5. CASE HostSends
  <2>1. PICK n \in 0..OUT_MAX : ep2Out' = SieComplete(ep2Out, n)
    BY <1>5 DEF HostSends
  <2>2. /\ usb = "configured" /\ SieReady(ep2Out) /\ usb' = usb /\ pc' = pc
        /\ USB_OutHandle' = USB_OutHandle /\ Rx_State' = Rx_State
    BY <1>5 DEF HostSends, BusActive, rxVars, usbVars
  <2>3. /\ ep2Out \in Endpoints(OUT_MAX, {0, 1})
        /\ Free(ep2Out) \/ Busy(ep2Out)
    BY <2>2 DEF BlasterInv, OutPart
  <2>4. ep2Out' \in Endpoints(OUT_MAX, {0, 1}) /\ Free(ep2Out')
    BY <1>1, <2>1, <2>2, <2>3, SieShape
  <2>5. QED
    BY <2>2, <2>4 DEF BlasterInv, OutPart
<1>6. CASE SetConfiguration
  <2>1. /\ ep2Out' = USBEnableEndpoint /\ Rx_State' = INIT
        /\ USB_OutHandle' = [p \in {0, 1} |-> NULL] /\ usb' = "configured"
    BY <1>6 DEF SetConfiguration, USB_Ept_Init
  <2>2. USBEnableEndpoint \in Endpoints(OUT_MAX, {0, 1}) /\ Free(USBEnableEndpoint)
    BY <1>1, EnabledShape
  <2>3. QED
    BY <2>1, <2>2 DEF OutPart
<1>7. CASE BusReset
  <2>1. /\ ep2Out' = USBDeviceInit /\ usb = "configured" /\ usb' = "default"
        /\ USB_OutHandle' = USB_OutHandle /\ Rx_State' = Rx_State /\ pc' = pc
    BY <1>7 DEF BusReset, rxVars
  <2>2. USBDeviceInit \in Endpoints(OUT_MAX, {0, 1})
    BY <1>1, EnabledShape
  <2>3. QED
    BY <2>1, <2>2 DEF BlasterInv, OutPart
<1>8. CASE SuspendOrResume \/ UNCHANGED vars
  BY <1>8, SameOutPart DEF SuspendOrResume, vars, rxVars, usbVars
<1>9. QED
  BY <1>2, <1>3, <1>4, <1>5, <1>6, <1>7, <1>8 DEF Next, Main_Task_Blaster
-----------------------------------------------------------------------------
(***************************************************************************)
(* The command machine.                                                    *)
(***************************************************************************)
LEMMA BitValue ==
    ASSUME NEW b \in 0..255
    PROVE  /\ Bit(b, 1) \in {0, 1} /\ Bit(b, 2) \in {0, 1} /\ Bit(b, 8) \in {0, 1}
           /\ Bit(b, 16) \in {0, 1} /\ Bit(b, 32) \in {0, 1} /\ Bit(b, 64) \in {0, 1}
           /\ b % 64 \in 0..63
BY DEF Bit

\* TCK without the other pins.
LEMMA ShiftPinsType ==
    ASSUME BlasterInv
    PROVE  /\ ShiftPins \in [TCK : {0, 1}, TMS : {0, 1}, TDI : {0, 1}, LED : {0, 1}]
           /\ ShiftPins.TCK = 0
BY DEF ShiftPins, BlasterInv, CmdPart

LEMMA NextCmdPart == BlasterInv /\ [Next]_vars => CmdPart'
<1> SUFFICES ASSUME BlasterInv, [Next]_vars PROVE CmdPart'
  OBVIOUS
<1> USE DEF BlasterInv
<1>1. OUT_MAX \in Nat /\ CmdPart
  BY BlasterAssumption
<1>2. CASE MainLoop \/ TxHandling \/ TimerExpires \/ HostReceives \/ BusReset
              \/ SuspendOrResume
  <2>1. /\ UNCHANGED <<rxVars, jtagVars, USB_OutPacket>> /\ suspended' \in BOOLEAN
        /\ usb' \in {"default", "configured"} /\ TMRIF' \in BOOLEAN
        /\ pc' = pc \/ pc' \in {"rx", "loop"}
    BY <1>1, <1>2 DEF MainLoop, TxHandling, TimerExpires, HostReceives, BusReset,
       SuspendOrResume, TxReplies, TxDummy, TxNothing, SendPacket, usbVars, txVars,
       CmdPart
  <2>2. QED
    BY <1>1, <2>1 DEF CmdPart, rxVars, jtagVars
<1>3. CASE RxHandling
  <2>1. /\ UNCHANGED <<jtagVars, txVars, usbVars, USB_OutPacket>> /\ pc' = "jtag"
    BY <1>3 DEF RxHandling
  <2>2. /\ RxSize' \in 0..OUT_MAX /\ ValidPPB' \in {0, 1}
        /\ RxPtr' \in 0..OUT_MAX /\ RxPtr' + RxSize' <= OUT_MAX
    BY <1>3, RxOutPart
  <2>3. QED
    BY <1>1, <2>1, <2>2 DEF CmdPart, jtagVars, txVars, usbVars
<1>4. CASE JtagHandling
  <2>1. /\ UNCHANGED <<rxVars, Read, ByteSize, nCS, pins, txVars, usbVars, USB_OutPacket>>
    BY <1>4 DEF JtagHandling
  <2>2. CASE StartBitBang
    BY <1>1, <2>1, <2>2 DEF StartBitBang, BatchAllowed, CmdPart, rxVars, txVars, usbVars
  <2>3. CASE StartByteShift
    BY <1>1, <2>1, <2>3 DEF StartByteShift, BatchAllowed, ShiftMore, StateAfter, CmdPart,
       rxVars, txVars, usbVars
  <2>4. CASE NoBatch
    BY <1>1, <2>1, <2>4 DEF NoBatch, StateAfter, CmdPart, rxVars, txVars, usbVars
  <2>5. QED
    BY <1>4, <2>2, <2>3, <2>4 DEF JtagHandling
<1>5. CASE GoToByteShift
  <2>1. /\ UNCHANGED <<nCS, SSPEN, txVars, usbVars, USB_OutPacket>>
        /\ pins' = ShiftPins /\ ByteSize' = NextByte % 64 /\ pc = "bang" /\ pc' = "tx"
        /\ JTAG_State' = "BYTE_SHIFT" /\ Read' = Bit(NextByte, 64) /\ TakeByte
    BY <1>5 DEF GoToByteShift
  <2>2. /\ RxSize' \in 0..OUT_MAX /\ RxPtr' \in 0..OUT_MAX
        /\ RxPtr' + RxSize' <= OUT_MAX /\ NextByte \in 0..255 /\ ValidPPB' = ValidPPB
    BY <2>1, TakeByteFacts
  <2>3. Read' \in {0, 1} /\ ByteSize' \in 0..63
    BY <2>1, <2>2, BitValue
  <2>4. pins' \in [TCK : {0, 1}, TMS : {0, 1}, TDI : {0, 1}, LED : {0, 1}] /\ pins'.TCK = 0
    BY <2>1, ShiftPinsType
  <2>5. QED
    BY <1>1, <2>1, <2>2, <2>3, <2>4 DEF CmdPart, txVars, usbVars
<1>6. CASE BitBang
  <2> DEFINE b == NextByte
  <2>1. /\ UNCHANGED <<JTAG_State, ByteSize, SSPEN, txVars, usbVars, USB_OutPacket>>
        /\ pins' = [TCK |-> Bit(b, 1), TMS |-> Bit(b, 2), TDI |-> Bit(b, 16),
                    LED |-> Bit(b, 32)]
        /\ pc = "bang" /\ Read' = Bit(b, 64) /\ nCS' = Bit(b, 8) /\ TakeByte
        /\ pc' = IF RxSize' > 0 THEN "bang" ELSE "tx"
    BY <1>6 DEF BitBang
  <2>2. /\ RxSize' \in 0..OUT_MAX /\ RxPtr' \in 0..OUT_MAX
        /\ RxPtr' + RxSize' <= OUT_MAX /\ b \in 0..255 /\ ValidPPB' = ValidPPB
    BY <2>1, TakeByteFacts
  <2> HIDE DEF b
  <2>3. /\ Read' \in {0, 1} /\ nCS' \in {0, 1}
        /\ pins' \in [TCK : {0, 1}, TMS : {0, 1}, TDI : {0, 1}, LED : {0, 1}]
    BY <2>1, <2>2, BitValue
  <2>4. JTAG_State = "BIT_BANG" /\ ~SSPEN
    BY <1>1, <2>1 DEF CmdPart
  <2>5. QED
    BY <1>1, <2>1, <2>2, <2>3, <2>4 DEF CmdPart, txVars, usbVars
<1>7. CASE ByteShift
  <2>1. /\ UNCHANGED <<Read, nCS, pins, SSPEN, txVars, usbVars, USB_OutPacket>>
        /\ pc = "shift" /\ TakeByte /\ ByteSize' = ByteSize - 1
    BY <1>7 DEF ByteShift
  <2>2. \/ pc' = "shift" /\ JTAG_State' = JTAG_State /\ RxSize' > 0 /\ ByteSize' > 0
        \/ pc' = "tx" /\ JTAG_State' \in {"BIT_BANG", "BYTE_SHIFT"}
    BY <1>7 DEF ByteShift, ShiftMore, StateAfter
  <2>3. /\ RxSize' \in 0..OUT_MAX /\ RxPtr' \in 0..OUT_MAX
        /\ RxPtr' + RxSize' <= OUT_MAX /\ ValidPPB' = ValidPPB
    BY <2>1, TakeByteFacts
  <2>4. JTAG_State = "BYTE_SHIFT" /\ pins.TCK = 0 /\ ByteSize \in 1..63
    BY <1>1, <2>1 DEF CmdPart
  <2>5. ByteSize' \in 0..63
    BY <2>1, <2>4
  <2>6. CASE pc' = "tx"
    BY <1>1, <2>1, <2>2, <2>3, <2>4, <2>5, <2>6, ZenonT(60) DEF CmdPart, txVars, usbVars
  <2>7. CASE pc' = "shift"
    BY <1>1, <2>1, <2>2, <2>3, <2>4, <2>5, <2>7, ZenonT(60) DEF CmdPart, txVars, usbVars
  <2>8. QED
    BY <2>2, <2>6, <2>7
<1>8. CASE HostSends
  <2>1. UNCHANGED <<pc, rxVars, jtagVars, txVars, usbVars>>
    BY <1>8 DEF HostSends
  <2>2. USB_OutPacket' \in [{0, 1} -> [1..OUT_MAX -> Commands \cup {0}]]
    <3>0. PICK n \in 0..OUT_MAX : \E bytes \in [1..n -> Commands] :
             USB_OutPacket' =
                    [USB_OutPacket EXCEPT ![ep2Out.bd[ep2Out.sie].buf] =
                        [i \in 1..OUT_MAX |-> IF i <= n THEN bytes[i] ELSE @[i]]]
      BY <1>8 DEF HostSends
    <3>1. PICK bytes \in [1..n -> Commands] :
             USB_OutPacket' =
                    [USB_OutPacket EXCEPT ![ep2Out.bd[ep2Out.sie].buf] =
                        [i \in 1..OUT_MAX |-> IF i <= n THEN bytes[i] ELSE @[i]]]
      BY <3>0
    <3> DEFINE c == ep2Out.bd[ep2Out.sie].buf
               new == [i \in 1..OUT_MAX |-> IF i <= n THEN bytes[i]
                                            ELSE USB_OutPacket[c][i]]
    <3>2. c \in {0, 1}
      BY DEF OutPart, Endpoints, Descriptors
    <3>3. USB_OutPacket' = [USB_OutPacket EXCEPT ![c] = new]
      BY <1>1, <3>1, <3>2 DEF CmdPart
    <3>4. new \in [1..OUT_MAX -> Commands \cup {0}]
      BY <1>1, <3>2 DEF CmdPart
    <3> HIDE DEF c, new
    <3>5. QED
      BY <1>1, <3>2, <3>3, <3>4 DEF CmdPart
  <2>3. QED
    BY <1>1, <2>1, <2>2 DEF CmdPart, rxVars, jtagVars, txVars, usbVars
<1>9. CASE SetConfiguration
  <2>1. /\ UNCHANGED <<pc, suspended, pins, USB_OutPacket, TMRIF, RxSize, ValidPPB, RxPtr,
                       Read>>
        /\ usb' = "configured" /\ JTAG_State' = "BIT_BANG" /\ SSPEN' = FALSE
        /\ ByteSize' = 0 /\ nCS' = 1 /\ pc = "loop"
    BY <1>9 DEF SetConfiguration, USB_Ept_Init
  <2>2. ByteSize' \in 0..63 /\ nCS' \in {0, 1}
    BY <2>1
  <2>3. SSPEN' \in BOOLEAN /\ ~SSPEN'
    BY <2>1
  <2>4. QED
    BY <1>1, <2>1, <2>2, <2>3 DEF CmdPart
<1>10. CASE UNCHANGED vars
  BY <1>1, <1>10 DEF CmdPart, vars, rxVars, jtagVars, txVars, usbVars
<1>11. QED
  BY <1>2, <1>3, <1>4, <1>5, <1>6, <1>7, <1>8, <1>9, <1>10 DEF Next, Main_Task_Blaster
-----------------------------------------------------------------------------
(***************************************************************************)
(* The counts, the ring and the packets.                                   *)
(***************************************************************************)
LEMMA UnfetchedNat ==
    ASSUME BlasterInv
    PROVE  Unfetched \in Nat /\ done \in 0..sent /\ RxSize \in Nat
<1>1. Unfetched \in Nat
  BY DEF BlasterInv, OutPart, Unfetched, USBHandleGetLength, Endpoints, Descriptors,
         NULL, INIT
<1>2. QED
  BY <1>1, BlasterAssumption DEF BlasterInv, CountPart, CmdPart

\* The reply to the byte that is taken is a reply.
LEMMA TakenIsReply ==
    ASSUME BlasterInv, TakeByte, pc \in {"bang", "shift"}
    PROVE  done' \in Reply /\ Ones \in Reply
<1>1. /\ sent \in 0..MaxBytes /\ done \in Nat /\ done + RxSize + Unfetched <= sent
      /\ MaxBytes \in Nat
  BY BlasterAssumption DEF BlasterInv, CountPart
<1>2. RxSize \in Nat /\ RxSize > 0 /\ Unfetched \in Nat /\ done' = done + 1
  BY UnfetchedNat, TakeByteFacts
<1>3. QED
  BY <1>1, <1>2 DEF Reply, Ones

LEMMA NextCountPart == BlasterInv /\ [Next]_vars => CountPart'
<1> SUFFICES ASSUME BlasterInv, [Next]_vars PROVE CountPart'
  OBVIOUS
<1>1. /\ CountPart /\ MaxBytes \in Nat /\ MaxResets \in Nat /\ OUT_MAX \in Nat
      /\ Unfetched \in Nat /\ RxSize \in Nat
  BY BlasterAssumption, UnfetchedNat DEF BlasterInv
<1>2. CASE MainLoop \/ JtagHandling \/ TxHandling \/ TimerExpires \/ HostReceives
              \/ SuspendOrResume \/ UNCHANGED vars
  <2>1. UNCHANGED <<rxVars, done, ep2Out, sent, resets>>
    BY <1>2 DEF MainLoop, JtagHandling, TxHandling, TimerExpires, HostReceives,
       SuspendOrResume, vars, usbVars, jtagVars
  <2>2. QED
    BY <1>1, <2>1 DEF CountPart, Unfetched, rxVars
<1>3. CASE RxHandling
  <2>1. UNCHANGED <<done, sent, resets>>
    BY <1>3 DEF RxHandling, jtagVars, usbVars
  <2>2. RxSize' \in 0..OUT_MAX /\ RxSize' + Unfetched' <= RxSize + Unfetched
    BY <1>3, RxOutPart
  <2>3. Unfetched' \in Int
    <3>1. OutPart'
      BY <1>3, RxOutPart
    <3>2. QED
      BY <3>1 DEF OutPart, Unfetched, USBHandleGetLength, Endpoints, Descriptors, NULL,
             INIT
  <2>4. done \in Nat /\ sent \in 0..MaxBytes /\ done + RxSize + Unfetched <= sent
    BY <1>1 DEF CountPart
  <2>5. done + RxSize' + Unfetched' <= sent
    <3>1. PICK u \in Int : u = Unfetched'
      BY <2>3
    <3>2. PICK r \in Int : r = RxSize'
      BY <1>1, <2>2
    <3>3. r + u <= RxSize + Unfetched
      BY <2>2, <3>1, <3>2
    <3>4. done + r + u <= sent
      BY <1>1, <2>4, <3>3
    <3>5. QED
      BY <3>1, <3>2, <3>4
  <2>6. QED
    BY <1>1, <2>1, <2>5 DEF CountPart
<1>4. CASE GoToByteShift \/ BitBang \/ ByteShift
  <2>1. /\ UNCHANGED <<sent, resets, ep2Out, usb>>
        /\ TakeByte /\ pc \in {"bang", "shift"} /\ pc' # "rx"
    BY <1>4 DEF GoToByteShift, BitBang, ByteShift, usbVars
  <2>2. /\ done' = done + 1 /\ RxSize' = RxSize - 1 /\ RxSize > 0
        /\ UNCHANGED <<Rx_State, ValidPPB, USB_OutHandle>>
    BY <2>1, TakeByteFacts
  <2>3. Unfetched' = Unfetched
    BY <1>1, <2>1, <2>2, SameOutPart
  <2>4. QED
    BY <1>1, <2>1, <2>2, <2>3 DEF CountPart
<1>5. CASE HostSends
  <2>1. PICK n \in 0..OUT_MAX : /\ ep2Out' = SieComplete(ep2Out, n)
                                /\ sent' = sent + n /\ sent + n <= MaxBytes
    BY <1>5 DEF HostSends
  <2>2. /\ usb = "configured" /\ SieReady(ep2Out)
        /\ UNCHANGED <<USB_OutHandle, Rx_State, RxSize, done, resets>>
    BY <1>5 DEF HostSends, BusActive, rxVars, usbVars, jtagVars
  <2>3. /\ ep2Out \in Endpoints(OUT_MAX, {0, 1})
        /\ Free(ep2Out) \/ (Busy(ep2Out) /\ Handed)
    BY <2>2 DEF BlasterInv, OutPart
  <2>4. /\ Free(ep2Out') /\ Busy(ep2Out) /\ ep2Out.sie \in {0, 1}
        /\ ~ep2Out'.bd[ep2Out.sie].uown /\ ep2Out'.bd[ep2Out.sie].cnt = n
    BY <1>1, <2>1, <2>2, <2>3, SieShape
  <2>5. Rx_State \in {0, 1} /\ USB_OutHandle[Rx_State] = ep2Out.sie
    BY <1>1, <2>3, <2>4, Shapes DEF Handed
  <2>6. Unfetched = 0
    BY <2>4, <2>5 DEF Unfetched, USBHandleBusy, Busy, OneArmed, NULL
  <2>7. Unfetched' = n
    BY <2>2, <2>4, <2>5 DEF Unfetched, USBHandleBusy, USBHandleGetLength, NULL, INIT
  <2>8. QED
    BY <1>1, <2>1, <2>2, <2>6, <2>7 DEF CountPart
<1>6. CASE SetConfiguration
  <2>1. UNCHANGED <<RxSize, done, sent, resets>> /\ Rx_State' = INIT
    BY <1>6 DEF SetConfiguration, USB_Ept_Init
  <2>2. Unfetched' = 0
    BY <2>1 DEF Unfetched
  <2>3. QED
    BY <1>1, <2>1, <2>2 DEF CountPart
<1>7. CASE BusReset
  <2>1. /\ UNCHANGED <<RxSize, done, sent, USB_OutHandle, Rx_State>>
        /\ ep2Out' = USBDeviceInit /\ resets' = resets + 1 /\ resets < MaxResets
    BY <1>7 DEF BusReset, rxVars, jtagVars
  <2>2. USB_OutHandle \in [{0, 1} -> {0, 1, NULL}] /\ Rx_State \in {INIT, 0, 1}
    BY DEF BlasterInv, OutPart
  <2>3. USBDeviceInit.bd[0].cnt = 0 /\ USBDeviceInit.bd[1].cnt = 0
    BY DEF USBDeviceInit, Idle
  <2>4. Unfetched' = 0
    BY <2>1, <2>2, <2>3 DEF Unfetched, USBHandleGetLength, INIT, NULL
  <2>5. QED
    BY <1>1, <2>1, <2>4 DEF CountPart
<1>8. QED
  BY <1>2, <1>3, <1>4, <1>5, <1>6, <1>7 DEF Next, Main_Task_Blaster

\* Writing a reply into the ring.
LEMMA WriteFifoPart ==
    ASSUME FifoPart, NEW d \in Reply, Fifo!TXFIFO_Write(d),
           UNCHANGED <<USB_InPacket, host>>
    PROVE  FifoPart'
<1>1. UINT8 \in Nat /\ UINT8 > 0 /\ UINT16 \in Nat /\ UINT16 > 0 /\ TXFIFO_SIZE = UINT8
  BY BlasterAssumption
<1>2. /\ TXFIFO' = [TXFIFO EXCEPT ![TXFIFO_wp] = d]
      /\ TXFIFO_wp' = (TXFIFO_wp + 1) % UINT8
      /\ TXFIFO_ocpy' = (TXFIFO_ocpy + 1) % UINT16
      /\ TXFIFO_rp' = TXFIFO_rp
  BY DEF Fifo!TXFIFO_Write
<1>3. TXFIFO' \in [0..(TXFIFO_SIZE - 1) -> Reply]
  BY <1>1, <1>2 DEF FifoPart
<1>4. TXFIFO_wp + 1 \in Nat /\ TXFIFO_ocpy + 1 \in Nat
  BY <1>1 DEF FifoPart
<1>5. TXFIFO_wp' \in 0..(UINT8 - 1) /\ TXFIFO_ocpy' \in 0..(UINT16 - 1)
  BY <1>1, <1>2, <1>4
<1>6. QED
  BY <1>2, <1>3, <1>5 DEF FifoPart

\* What is copied out of the ring are replies.
LEMMA CopiedReplies ==
    ASSUME FifoPart, NEW n \in Nat
    PROVE  Fifo!Copied(TXFIFO, TXFIFO_rp, n) \in Seq(Reply)
<1>1. UINT8 \in Nat /\ UINT8 > 0 /\ TXFIFO_SIZE = UINT8
  BY BlasterAssumption
<1>2. ASSUME NEW i \in 1..n PROVE TXFIFO[(TXFIFO_rp + i - 1) % UINT8] \in Reply
  <2>1. TXFIFO_rp + i - 1 \in Nat
    BY <1>1 DEF FifoPart
  <2>2. (TXFIFO_rp + i - 1) % UINT8 \in 0..(UINT8 - 1)
    BY <1>1, <2>1
  <2>3. QED
    BY <1>1, <2>2 DEF FifoPart
<1>3. QED
  BY <1>2 DEF Fifo!Copied

LEMMA NextFifoPart == BlasterInv /\ [Next]_vars => FifoPart'
<1> SUFFICES ASSUME BlasterInv, [Next]_vars PROVE FifoPart'
  OBVIOUS
<1>1. /\ UINT8 \in Nat /\ UINT8 > 0 /\ UINT16 \in Nat /\ UINT16 > 0
      /\ TXFIFO_SIZE = UINT8 /\ TX_MAX \in Nat /\ TX_MAX < UINT16
      /\ FifoPart
  BY BlasterAssumption DEF BlasterInv
<1>2. CASE UNCHANGED <<fifoVars, USB_InPacket, host>>
  BY <1>1, <1>2 DEF FifoPart, fifoVars
<1>3. CASE MainLoop \/ RxHandling \/ JtagHandling \/ TimerExpires \/ BusReset
              \/ SuspendOrResume \/ HostSends
  BY <1>2, <1>3 DEF MainLoop, RxHandling, JtagHandling, TimerExpires, BusReset,
     SuspendOrResume, HostSends, txVars
<1>4. CASE GoToByteShift
  BY <1>2, <1>4 DEF GoToByteShift, txVars
<1>5. CASE BitBang
  <2>1. /\ UNCHANGED <<USB_InPacket, host>> /\ Record(Read', done')
        /\ TakeByte /\ pc = "bang"
    BY <1>5 DEF BitBang, txVars
  <2>2. done' \in Reply
    BY <2>1, TakenIsReply
  <2>3. QED
    BY <1>1, <1>2, <2>1, <2>2, WriteFifoPart DEF Record
<1>6. CASE ByteShift
  <2> DEFINE d == IF nCS = 1 THEN done' ELSE Ones
  <2>1. /\ UNCHANGED <<USB_InPacket, host>> /\ Record(Read, d)
        /\ TakeByte /\ pc = "shift"
    BY <1>6 DEF ByteShift, txVars
  <2>2. d \in Reply
    BY <2>1, TakenIsReply
  <2> HIDE DEF d
  <2>3. QED
    BY <1>1, <1>2, <2>1, <2>2, WriteFifoPart DEF Record
<1>7. CASE TxHandling
  <2>1. host' = host
    BY <1>7 DEF TxHandling
  <2>2. CASE TxReplies
    <3> DEFINE n == ReplySize
    <3>1. n \in 0..TX_MAX
      BY <1>1, ReplySizeBounds
    <3>2. /\ TXFIFO_ocpy' = (TXFIFO_ocpy + UINT16 - n) % UINT16
          /\ USB_InPacket' = Fifo!Copied(TXFIFO, TXFIFO_rp, n)
          /\ TXFIFO_rp' = (TXFIFO_rp + n) % UINT8
          /\ UNCHANGED <<TXFIFO, TXFIFO_wp>>
      BY <2>2 DEF TxReplies, Fifo!TXFIFO_Read
    <3> HIDE DEF n
    <3>3. USB_InPacket' \in Seq(Reply)
      BY <1>1, <3>1, <3>2, CopiedReplies
    <3>4. TXFIFO_ocpy + UINT16 - n \in Nat /\ TXFIFO_rp + n \in Nat
      BY <1>1, <3>1 DEF FifoPart
    <3>5. TXFIFO_ocpy' \in 0..(UINT16 - 1) /\ TXFIFO_rp' \in 0..(UINT8 - 1)
      BY <1>1, <3>2, <3>4
    <3>6. QED
      BY <1>1, <2>1, <3>2, <3>3, <3>5 DEF FifoPart
  <2>3. CASE TxDummy \/ TxNothing
    BY <1>2, <2>1, <2>3 DEF TxDummy, TxNothing, txVars
  <2>4. QED
    BY <1>7, <2>2, <2>3 DEF TxHandling
<1>8. CASE HostReceives
  <2> DEFINE n == ep1In.bd[ep1In.sie].cnt
  <2>1. /\ UNCHANGED <<fifoVars, USB_InPacket>> /\ usb = "configured" /\ SieReady(ep1In)
        /\ host' = SubSeq(USB_InPacket, 1, n - 2)
    BY <1>8 DEF HostReceives, BusActive, txVars
  <2>2. ~Free(ep1In)
    BY <2>1 DEF Free, Quiet, SieReady, BlasterInv, InPart, Endpoints
  <2>3. n \in 2..(Len(USB_InPacket) + 2)
    BY <2>1, <2>2 DEF BlasterInv, InPart
  <2> HIDE DEF n
  <2>4. USB_InPacket \in Seq(Reply) /\ Len(USB_InPacket) \in Nat
    BY <1>1 DEF FifoPart
  <2>5. n - 2 \in 0..Len(USB_InPacket)
    BY <2>3, <2>4
  <2>6. 1 \in 1..(Len(USB_InPacket) + 1) /\ n - 2 \in (1 - 1)..Len(USB_InPacket)
    BY <2>4, <2>5
  <2>7. SubSeq(USB_InPacket, 1, n - 2) \in Seq(Reply)
    BY <2>4, <2>6, SubSeqProperties
  <2>8. QED
    BY <1>1, <2>1, <2>7 DEF FifoPart, fifoVars
<1>9. CASE SetConfiguration
  <2>1. /\ UNCHANGED <<TXFIFO, USB_InPacket, host>>
        /\ TXFIFO_rp' = 0 /\ TXFIFO_wp' = 0 /\ TXFIFO_ocpy' = 0
    BY <1>9 DEF SetConfiguration, USB_Ept_Init, Fifo!TXFIFO_Init
  <2>2. 0 \in 0..(UINT8 - 1) /\ 0 \in 0..(UINT16 - 1)
    BY <1>1
  <2>3. QED
    BY <1>1, <2>1, <2>2 DEF FifoPart
<1>10. CASE UNCHANGED vars
  BY <1>2, <1>10 DEF vars, txVars
<1>11. QED
  BY <1>3, <1>4, <1>5, <1>6, <1>7, <1>8, <1>9, <1>10 DEF Next, Main_Task_Blaster
-----------------------------------------------------------------------------
LEMMA NextBlasterInv == BlasterInv /\ [Next]_vars => BlasterInv'
BY NextInPart, NextOutPart, NextCmdPart, NextCountPart, NextFifoPart DEF BlasterInv

\* The inductive invariant holds in every reachable state.
THEOREM BlasterInvariant == Spec => []BlasterInv
BY InitBlasterInv, NextBlasterInv, PTL DEF Spec

\* Everything keeps its type; in particular no more commands are processed
\* than were sent, and no packet is longer than its buffer.
THEOREM TypeCorrect == Spec => []TypeOK
<1>1. BlasterInv => TypeOK
  <2> SUFFICES ASSUME BlasterInv PROVE TypeOK
    OBVIOUS
  <2>1. Fifo!TypeOK
    <3> DEFINE b == IF pc \in {"bang", "shift"} THEN RxSize ELSE 0
    <3>1. b \in 0..OUT_MAX
      BY BlasterAssumption DEF BlasterInv, CmdPart
    <3>2. QED
      BY <3>1 DEF Fifo!TypeOK, Fifo!Slots, BlasterInv, FifoPart
  <2>2. done \in 0..sent
    BY UnfetchedNat
  <2>3. QED
    BY <2>1, <2>2 DEF TypeOK, BlasterInv, InPart, OutPart, CmdPart, CountPart, FifoPart
<1>2. QED
  BY <1>1, BlasterInvariant, PTL

\* The software's pointers and the ping-pong states of the SIE never drift
\* apart (usb_device.c:1034-1045).
THEOREM AlwaysInStep == Spec => []PingPongInStep
<1>1. BlasterInv => PingPongInStep
  <2> SUFFICES ASSUME BlasterInv, usb = "configured"
               PROVE  InStep(ep1In) /\ InStep(ep2Out)
    BY DEF PingPongInStep
  <2>1. TX_MAX + 2 \in Nat /\ OUT_MAX \in Nat
    BY BlasterAssumption
  <2>2. InStep(ep1In)
    BY <2>1, Shapes DEF BlasterInv, InPart
  <2>3. InStep(ep2Out)
    BY <2>1, Shapes DEF BlasterInv, OutPart
  <2>4. QED
    BY <2>2, <2>3
<1>2. QED
  BY <1>1, BlasterInvariant, PTL

\* The SIE never fills the buffer whose commands are being processed
\* (blaster.c:456-500).
THEOREM BuffersAlwaysExclusive == Spec => []ReceiveBuffersExclusive
<1>1. BlasterInv => ReceiveBuffersExclusive
  <2> SUFFICES ASSUME BlasterInv, usb = "configured", Armed(ep2Out)
               PROVE  LET b == ep2Out.bd[ep2Out.sie].buf
                      IN  /\ RxSize > 0 => b # ValidPPB
                          /\ Rx_State = b /\ USB_OutHandle[b] = ep2Out.sie
    BY DEF ReceiveBuffersExclusive
  <2>1. OUT_MAX \in Nat
    BY BlasterAssumption
  <2>2. Busy(ep2Out) /\ Handed
    BY <2>1, Shapes DEF BlasterInv, OutPart
  <2>3. QED
    BY <2>2 DEF Handed
<1>2. QED
  BY <1>1, BlasterInvariant, PTL

\* The transmit buffer is not touched while the SIE owns it (blaster.c:642).
THEOREM BufferStable == Spec => TransmitBufferStable
<1>1. BlasterInv /\ [Next]_vars =>
        [usb = "configured" /\ Armed(ep1In) => UNCHANGED USB_InPacket]_vars
  <2> SUFFICES ASSUME BlasterInv, Next, usb = "configured", Armed(ep1In)
               PROVE  UNCHANGED USB_InPacket
    OBVIOUS
  <2>1. TX_MAX + 2 \in Nat
    BY BlasterAssumption
  <2>2. Busy(ep1In) /\ USB_InHandle0 = ep1In.sie
    BY <2>1, Shapes DEF BlasterInv, InPart
  <2>3. ~InFree
    BY <2>2 DEF InFree, USBHandleBusy, Busy, OneArmed, NULL, BlasterInv, InPart, Endpoints
  <2>4. QED
    BY <2>3 DEF Next, Main_Task_Blaster, MainLoop, RxHandling, JtagHandling,
       GoToByteShift, BitBang, ByteShift, TxHandling, TxReplies, TxDummy, TxNothing,
       TimerExpires, HostSends, HostReceives, SetConfiguration, BusReset,
       SuspendOrResume, txVars
<1>2. QED
  BY <1>1, BlasterInvariant, PTL DEF Spec, TransmitBufferStable

\* Only a command makes an edge of TCK: switching between the port and the SPI
\* module does not clock the chain (blaster.c:528, 540, 589, jtag.c:63-86).
THEOREM OnlyCommandsClock == Spec => ClockedByCommandsOnly
<1>1. BlasterInv /\ [Next]_vars => [ClockPin' # ClockPin => done' = done + 1]_vars
  <2> SUFFICES ASSUME BlasterInv, Next PROVE ClockPin' = ClockPin \/ done' = done + 1
    OBVIOUS
  <2>1. SSPEN \/ JTAG_State = "BYTE_SHIFT" => pins.TCK = 0
    BY DEF BlasterInv, CmdPart
  <2>2. CASE GoToByteShift \/ BitBang \/ ByteShift
    BY <2>2 DEF GoToByteShift, BitBang, ByteShift, TakeByte
  <2>3. CASE JtagHandling
    BY <2>1, <2>3 DEF JtagHandling, StartBitBang, StartByteShift, NoBatch, ClockPin
  <2>4. CASE SetConfiguration
    BY <2>1, <2>4 DEF SetConfiguration, USB_Ept_Init, ClockPin
  <2>5. CASE UNCHANGED <<pins, SSPEN>>
    BY <2>5 DEF ClockPin
  <2>6. QED
    BY <2>2, <2>3, <2>4, <2>5 DEF Next, Main_Task_Blaster, MainLoop, RxHandling,
       TxHandling, TimerExpires, HostSends, HostReceives, BusReset, SuspendOrResume,
       jtagVars
<1>2. QED
  BY <1>1, BlasterInvariant, PTL DEF Spec, ClockedByCommandsOnly
-----------------------------------------------------------------------------
(***************************************************************************)
(* The main task uses the ring as TxFifo says.                             *)
(***************************************************************************)
\* The running batch, as TxFifo sees it.
Batch == IF pc \in {"bang", "shift"} THEN RxSize ELSE 0

LEMMA StepFifo ==
    ASSUME BlasterInv, [Next]_vars
    PROVE  [Fifo!Next]_<<fifoVars, Batch, USB_InPacket>>
<1> DEFINE unchanged == UNCHANGED <<fifoVars, Batch, USB_InPacket>>
<1>1. /\ OUT_MAX \in Nat /\ RxSize \in 0..OUT_MAX /\ CmdPart
  BY BlasterAssumption DEF BlasterInv, CmdPart
<1>2. CASE MainLoop \/ RxHandling \/ TimerExpires \/ HostSends \/ HostReceives
              \/ BusReset \/ SuspendOrResume \/ UNCHANGED vars
  <2>1. /\ UNCHANGED <<fifoVars, USB_InPacket>>
        /\ \/ UNCHANGED <<pc, RxSize>>
           \/ pc \in {"loop", "rx"} /\ pc' \in {"rx", "jtag"}
    BY <1>2 DEF MainLoop, RxHandling, TimerExpires, HostSends, HostReceives, BusReset,
       SuspendOrResume, vars, txVars, rxVars
  <2>2. Batch' = Batch
    BY <2>1 DEF Batch
  <2>3. QED
    BY <2>1, <2>2
<1>3. CASE JtagHandling
  <2>1. UNCHANGED <<fifoVars, RxSize, USB_InPacket>> /\ pc = "jtag"
    BY <1>3 DEF JtagHandling, rxVars, txVars
  <2>2. Batch = 0
    BY <2>1 DEF Batch
  <2>3. CASE pc' = "tx"
    BY <2>1, <2>2, <2>3 DEF Batch
  <2>4. CASE pc' \in {"bang", "shift"}
    <3>1. RxSize \in 1..OUT_MAX /\ Fifo!Room(TXFIFO_ocpy) >= RxSize
      BY <1>1, <1>3, <2>4 DEF JtagHandling, StartBitBang, StartByteShift, NoBatch,
         BatchAllowed
    <3>2. Batch' = RxSize
      BY <2>1, <2>4 DEF Batch
    <3>3. Fifo!StartBatch
      BY <2>1, <2>2, <3>1, <3>2 DEF Fifo!StartBatch, Fifo!fifoVars, Batch, fifoVars
    <3>4. QED
      BY <3>3 DEF Fifo!Next
  <2>5. QED
    BY <1>3, <2>3, <2>4 DEF JtagHandling, StartBitBang, StartByteShift, NoBatch
<1>4. CASE GoToByteShift \/ BitBang \/ ByteShift
  <2>1. /\ TakeByte /\ pc \in {"bang", "shift"} /\ UNCHANGED USB_InPacket
        /\ pc' \in {"bang", "shift", "tx"}
    BY <1>4 DEF GoToByteShift, BitBang, ByteShift, txVars
  <2>2. RxSize' = RxSize - 1 /\ RxSize > 0
    BY <2>1, TakeByteFacts
  <2>3. Fifo!NextTurn
    BY <1>1, <2>1, <2>2 DEF Fifo!NextTurn, Batch
  <2>4. UNCHANGED fifoVars \/ \E d \in Reply : Fifo!TXFIFO_Write(d)
    <3>1. done' \in Reply /\ Ones \in Reply
      BY <2>1, TakenIsReply
    <3>2. QED
      BY <1>4, <3>1 DEF GoToByteShift, BitBang, ByteShift, Record
  <2>5. CASE UNCHANGED fifoVars
    BY <2>1, <2>3, <2>5 DEF Fifo!Next, Fifo!CommandWithoutReply, Fifo!fifoVars, fifoVars
  <2>6. CASE \E d \in Reply : Fifo!TXFIFO_Write(d)
    BY <2>1, <2>3, <2>6 DEF Fifo!Next, Fifo!CommandWithReply
  <2>7. QED
    BY <2>4, <2>5, <2>6
<1>5. CASE TxHandling
  <2>1. pc = "tx" /\ pc' = "loop"
    BY <1>5 DEF TxHandling
  <2>2. Batch = 0 /\ Batch' = 0
    BY <2>1 DEF Batch
  <2>3. CASE TxReplies
    <3>1. Fifo!FillPacket
      BY <2>2, <2>3 DEF TxReplies, ReplySize, Fifo!FillPacket, Batch
    <3>2. QED
      BY <3>1 DEF Fifo!Next
  <2>4. CASE TxDummy \/ TxNothing
    BY <2>2, <2>4 DEF TxDummy, TxNothing, txVars
  <2>5. QED
    BY <1>5, <2>3, <2>4 DEF TxHandling
<1>6. CASE SetConfiguration
  <2>1. pc = "loop" /\ pc' = pc /\ Fifo!TXFIFO_Init /\ UNCHANGED USB_InPacket
    BY <1>6 DEF SetConfiguration, USB_Ept_Init
  <2>2. Batch = 0 /\ Batch' = 0
    BY <2>1 DEF Batch
  <2>3. Fifo!Reconfigure
    BY <2>1, <2>2 DEF Fifo!Reconfigure, Batch
  <2>4. QED
    BY <2>3 DEF Fifo!Next
<1>7. QED
  BY <1>2, <1>3, <1>4, <1>5, <1>6 DEF Next, Main_Task_Blaster

\* What is proved of TxFifo (no reply overwritten, indexes and counter in
\* agreement, packets that fit) holds of the ring in the main task.
THEOREM UsesFifo == Spec => FifoSpec
<1>1. Init => Fifo!Init
  <2> SUFFICES ASSUME Init PROVE Fifo!Init
    OBVIOUS
  <2>1. 0 \in Reply
    BY BlasterAssumption DEF Reply
  <2>2. QED
    BY <2>1 DEF Init, Fifo!Init, Fifo!Slots
<1>2. BlasterInv /\ [Next]_vars => [Fifo!Next]_(Fifo!vars)
  BY StepFifo DEF Fifo!vars, Fifo!fifoVars, fifoVars, Batch
<1>3. QED
  BY <1>1, <1>2, BlasterInvariant, PTL DEF Spec, FifoSpec, Fifo!Spec
-----------------------------------------------------------------------------
(***************************************************************************)
(* The firmware implements the machine of Cpld: the bytes of the packets   *)
(* received are the commands of one machine, and the replies in the ring   *)
(* and in the armed packet are its one queue.                              *)
(***************************************************************************)
\* What is proved of the ring, for the ring of the main task.
Ring == INSTANCE TxFifoProofs WITH batch <- Batch, packet <- USB_InPacket
-----------------------------------------------------------------------------
(***************************************************************************)
(* Its inductive invariant: BlasterInv, the invariant of the ring, and     *)
(* where in a pass, and in which mode, commands may be processed.          *)
(***************************************************************************)
\* RX handling has left the initial state before a command is looked at: what
\* a packet of an earlier configuration left in RxSize is never processed.
\* In bit bang mode no byte of a shift is outstanding.
ModePart ==
    /\ pc \in {"jtag", "bang", "shift", "tx"} => Rx_State # INIT
    /\ JTAG_State = "BIT_BANG" => ByteSize = 0

CpldInv == BlasterInv /\ Ring!FifoInv /\ ModePart

LEMMA RingAssumption == Ring!FifoAssumption
<1>1. 0 \in Reply
  BY BlasterAssumption DEF Reply
<1>2. QED
  BY <1>1, BlasterAssumption

LEMMA InitCpldInv == Init => CpldInv
<1> SUFFICES ASSUME Init PROVE CpldInv
  OBVIOUS
<1>1. BlasterInv
  BY InitBlasterInv
<1>2. Ring!FifoInv
  <2>1. 0 \in Reply
    BY BlasterAssumption DEF Reply
  <2>2. Ring!Init
    BY <2>1 DEF Init, Ring!Init, Ring!Slots, Batch
  <2>3. QED
    BY <2>2, RingAssumption, Ring!InitFifoInv
<1>3. ModePart
  BY DEF Init, ModePart
<1>4. QED
  BY <1>1, <1>2, <1>3 DEF CpldInv

LEMMA NextModePart == BlasterInv /\ ModePart /\ [Next]_vars => ModePart'
<1> SUFFICES ASSUME BlasterInv, ModePart, [Next]_vars PROVE ModePart'
  OBVIOUS
<1>1. /\ pc \in {"loop", "rx", "jtag", "bang", "shift", "tx"}
      /\ pc = "bang" => JTAG_State = "BIT_BANG"
      /\ Rx_State \in {INIT, 0, 1}
  BY DEF BlasterInv, CmdPart, OutPart
<1>2. CASE MainLoop \/ TimerExpires \/ HostSends \/ HostReceives \/ BusReset
              \/ SuspendOrResume \/ TxHandling \/ UNCHANGED vars
  <2>1. /\ UNCHANGED <<Rx_State, JTAG_State, ByteSize>>
        /\ pc' = pc \/ pc' \in {"rx", "loop"}
    BY <1>2 DEF MainLoop, TimerExpires, HostSends, HostReceives, BusReset,
       SuspendOrResume, TxHandling, vars, rxVars, jtagVars
  <2>2. QED
    BY <2>1 DEF ModePart
<1>3. CASE RxHandling
  <2>1. UNCHANGED <<JTAG_State, ByteSize>>
    BY <1>3 DEF RxHandling, jtagVars
  <2>2. Rx_State' # INIT
    BY <1>3 DEF RxHandling, RxInit, RxPacket, RxNothing, rxVars, INIT
  <2>3. QED
    BY <2>1, <2>2 DEF ModePart
<1>4. CASE JtagHandling
  BY <1>4 DEF JtagHandling, StartBitBang, StartByteShift, NoBatch, StateAfter,
     ModePart, rxVars
<1>5. CASE GoToByteShift \/ BitBang \/ ByteShift
  BY <1>5 DEF GoToByteShift, BitBang, ByteShift, TakeByte, ShiftMore, StateAfter,
     ModePart
<1>6. CASE SetConfiguration
  BY <1>6 DEF SetConfiguration, USB_Ept_Init, ModePart
<1>7. QED
  BY <1>2, <1>3, <1>4, <1>5, <1>6 DEF Next, Main_Task_Blaster

LEMMA NextCpldInv == CpldInv /\ [Next]_vars => CpldInv'
<1> SUFFICES ASSUME CpldInv, [Next]_vars PROVE CpldInv'
  OBVIOUS
<1>1. BlasterInv'
  BY NextBlasterInv DEF CpldInv
<1>2. [Fifo!Next]_<<fifoVars, Batch, USB_InPacket>>
  BY StepFifo DEF CpldInv
<1>3. [Ring!Next]_(Ring!vars)
  BY <1>2 DEF Fifo!Next, Fifo!StartBatch, Fifo!CommandWithReply, Fifo!CommandWithoutReply,
     Fifo!NextTurn, Fifo!FillPacket, Fifo!Reconfigure, Fifo!fifoVars, Fifo!Room, Fifo!TxSize,
     Fifo!Fill, Fifo!Copied, Fifo!TXFIFO_Init, Fifo!TXFIFO_Write, Fifo!TXFIFO_Read,
     Ring!Next, Ring!StartBatch, Ring!CommandWithReply, Ring!CommandWithoutReply,
     Ring!NextTurn, Ring!FillPacket, Ring!Reconfigure, Ring!fifoVars, Ring!Room, Ring!TxSize,
     Ring!Fill, Ring!Copied, Ring!TXFIFO_Init, Ring!TXFIFO_Write, Ring!TXFIFO_Read,
     Ring!vars, fifoVars, Batch
<1>4. Ring!FifoInv'
  BY <1>3, RingAssumption, Ring!NextFifoInv DEF CpldInv
<1>5. ModePart'
  BY NextModePart DEF CpldInv
<1>6. QED
  BY <1>1, <1>4, <1>5 DEF CpldInv
-----------------------------------------------------------------------------
(***************************************************************************)
(* Two sequences, one after the other.                                     *)
(***************************************************************************)
LEMMA TakeFirst ==
    ASSUME NEW S, NEW s \in Seq(S), NEW t \in Seq(S), s # <<>>
    PROVE  /\ s \o t # <<>>
           /\ Head(s \o t) = Head(s)
           /\ Tail(s \o t) = Tail(s) \o t
<1>1. s \o t \in Seq(S) /\ s \o t # <<>>
  BY ConcatProperties, ConcatEqualIffEmpty
<1>2. Len(s) \in Nat \ {0} /\ Len(t) \in Nat
  BY EmptySeq, LenProperties
<1>3. Head(s \o t) = Head(s)
  BY <1>2, ConcatProperties
<1>4. /\ Tail(s) \in Seq(S) /\ Len(Tail(s)) = Len(s) - 1
      /\ \A i \in 1..Len(Tail(s)) : Tail(s)[i] = s[i + 1]
  BY HeadTailProperties
<1>5. /\ Tail(s \o t) \in Seq(S) /\ Len(Tail(s \o t)) = Len(s) + Len(t) - 1
      /\ \A i \in 1..Len(Tail(s \o t)) : Tail(s \o t)[i] = (s \o t)[i + 1]
  BY <1>1, HeadTailProperties, ConcatProperties
<1>6. /\ Tail(s) \o t \in Seq(S) /\ Len(Tail(s) \o t) = Len(s) - 1 + Len(t)
      /\ \A i \in 1..Len(s) - 1 + Len(t) :
            (Tail(s) \o t)[i] = IF i <= Len(s) - 1 THEN Tail(s)[i]
                                ELSE t[i - (Len(s) - 1)]
  BY <1>4, ConcatProperties
<1>7. ASSUME NEW i \in 1..Len(Tail(s \o t))
      PROVE  Tail(s \o t)[i] = (Tail(s) \o t)[i]
  <2>1. i + 1 \in 1..Len(s) + Len(t) /\ i \in 1..Len(s) - 1 + Len(t)
    BY <1>2, <1>5
  <2>2. Tail(s \o t)[i] = IF i + 1 <= Len(s) THEN s[i + 1] ELSE t[i + 1 - Len(s)]
    BY <1>5, <2>1, ConcatProperties
  <2>3. i + 1 - Len(s) = i - (Len(s) - 1)
    BY <1>2
  <2>4. CASE i + 1 <= Len(s)
    BY <1>2, <1>4, <1>6, <2>1, <2>2, <2>4
  <2>5. CASE ~(i + 1 <= Len(s))
    BY <1>2, <1>6, <2>1, <2>2, <2>3, <2>5
  <2>6. QED
    BY <2>4, <2>5
<1>8. Tail(s \o t) = Tail(s) \o t
  <2>1. Len(Tail(s \o t)) = Len(Tail(s) \o t)
    BY <1>2, <1>5, <1>6
  <2>2. QED
    BY <1>5, <1>6, <1>7, <2>1, SeqEqual
<1>9. QED
  BY <1>1, <1>3, <1>8

LEMMA SplitConcat ==
    ASSUME NEW S, NEW s \in Seq(S), NEW t \in Seq(S)
    PROVE  /\ SubSeq(s \o t, 1, Len(s)) = s
           /\ SubSeq(s \o t, Len(s) + 1, Len(s \o t)) = t
           /\ Len(s) \in 0..Len(s \o t)
<1>1. /\ Len(s) \in Nat /\ Len(t) \in Nat /\ s \o t \in Seq(S)
      /\ Len(s \o t) = Len(s) + Len(t)
      /\ \A i \in 1..Len(s) + Len(t) :
            (s \o t)[i] = IF i <= Len(s) THEN s[i] ELSE t[i - Len(s)]
      /\ \A i \in 1..Len(s) + Len(t) : (s \o t)[i] \in S
  BY ConcatProperties, LenProperties, ElementOfSeq
<1>2. /\ SubSeq(s \o t, 1, Len(s)) \in Seq(S)
      /\ Len(SubSeq(s \o t, 1, Len(s))) = Len(s)
      /\ \A i \in 1..Len(s) : SubSeq(s \o t, 1, Len(s))[i] = (s \o t)[i]
  BY <1>1, SubSeqProperties
<1>3. SubSeq(s \o t, 1, Len(s)) = s
  BY <1>1, <1>2, SeqEqual
<1> DEFINE u == SubSeq(s \o t, Len(s) + 1, Len(s) + Len(t))
<1>4. /\ u \in Seq(S) /\ Len(u) = Len(t)
      /\ \A i \in 1..Len(t) : u[i] = (s \o t)[Len(s) + i]
  <2>1. /\ Len(s) + 1 \in Int /\ Len(s) + Len(t) \in Int
        /\ \A i \in Len(s) + 1 .. Len(s) + Len(t) : (s \o t)[i] \in S
    BY <1>1
  <2>2. /\ u \in Seq(S)
        /\ Len(u) = IF Len(s) + 1 <= Len(s) + Len(t)
                    THEN Len(s) + Len(t) - (Len(s) + 1) + 1 ELSE 0
        /\ \A i \in 1 .. Len(s) + Len(t) - (Len(s) + 1) + 1 :
              u[i] = (s \o t)[Len(s) + 1 + i - 1]
    BY <2>1, SubSeqProperties
  <2>3. Len(s) + Len(t) - (Len(s) + 1) + 1 = Len(t)
    BY <1>1
  <2> HIDE DEF u
  <2>4. Len(u) = Len(t)
    BY <1>1, <2>2
  <2>5. ASSUME NEW i \in 1..Len(t) PROVE u[i] = (s \o t)[Len(s) + i]
    <3>1. Len(s) + 1 + i - 1 = Len(s) + i
      BY <1>1
    <3>2. QED
      BY <2>2, <2>3, <3>1
  <2>6. QED
    BY <2>2, <2>4, <2>5
<1> HIDE DEF u
<1>5. \A i \in 1..Len(t) : u[i] = t[i]
  <2>1. \A i \in 1..Len(t) : Len(s) + i \in 1..Len(s) + Len(t)
                             /\ ~(Len(s) + i <= Len(s)) /\ Len(s) + i - Len(s) = i
    BY <1>1
  <2>2. QED
    BY <1>1, <1>4, <2>1
<1>6. u = t
  BY <1>4, <1>5, SeqEqual
<1>7. QED
  BY <1>1, <1>3, <1>6 DEF u

LEMMA AppendRight ==
    ASSUME NEW S, NEW s \in Seq(S), NEW t \in Seq(S), NEW d \in S
    PROVE  Append(s \o t, d) = s \o Append(t, d)
<1>1. s \o t \in Seq(S) /\ <<d>> \in Seq(S)
  BY ConcatProperties
<1>2. Append(s \o t, d) = (s \o t) \o <<d>> /\ Append(t, d) = t \o <<d>>
  BY <1>1, AppendIsConcat
<1>3. QED
  BY <1>1, <1>2, ConcatAssociative
-----------------------------------------------------------------------------
(***************************************************************************)
(* Where commands and replies wait.                                        *)
(***************************************************************************)
Bytes == Commands \cup {0}

\* The machine's input and output.
Input == Current \o Waiting
Output == InFlight \o Queued

LEMMA Buffer ==
    ASSUME BlasterInv, NEW p \in {0, 1}
    PROVE  /\ USB_OutPacket[p] \in Seq(Bytes) /\ Len(USB_OutPacket[p]) = OUT_MAX
           /\ OUT_MAX \in Nat
<1>1. OUT_MAX \in Nat /\ USB_OutPacket[p] \in [1..OUT_MAX -> Bytes]
  BY BlasterAssumption DEF BlasterInv, CmdPart, Bytes
<1>2. QED
  BY <1>1

\* The front of a buffer is a sequence of bytes.
LEMMA Front ==
    ASSUME BlasterInv, NEW p \in {0, 1}, NEW n \in 0..OUT_MAX
    PROVE  /\ SubSeq(USB_OutPacket[p], 1, n) \in Seq(Bytes)
           /\ Len(SubSeq(USB_OutPacket[p], 1, n)) = n
<1>1. /\ USB_OutPacket[p] \in Seq(Bytes) /\ Len(USB_OutPacket[p]) = OUT_MAX
      /\ OUT_MAX \in Nat
  BY Buffer
<1>2. \A i \in 1..n : USB_OutPacket[p][i] \in Bytes
  BY <1>1, ElementOfSeq
<1>3. QED
  BY <1>1, <1>2, SubSeqProperties

LEMMA CurrentType ==
    ASSUME BlasterInv
    PROVE  /\ Current \in Seq(Bytes)
           /\ Rx_State = INIT \/ RxSize = 0 => Current = <<>>
           /\ Rx_State # INIT => Len(Current) = RxSize
<1>1. CASE Rx_State = INIT
  BY <1>1 DEF Current
<1>2. CASE Rx_State # INIT
  <2>1. /\ RxPtr \in Nat /\ RxSize \in Nat /\ OUT_MAX \in Nat
        /\ RxPtr + RxSize <= OUT_MAX /\ ValidPPB \in {0, 1}
    BY BlasterAssumption DEF BlasterInv, CmdPart
  <2>2. Current = SubSeq(USB_OutPacket[ValidPPB], RxPtr + 1, RxPtr + RxSize)
    BY <1>2 DEF Current
  <2>3. \A i \in RxPtr + 1 .. RxPtr + RxSize : USB_OutPacket[ValidPPB][i] \in Bytes
    <3>1. \A i \in RxPtr + 1 .. RxPtr + RxSize : i \in 1..OUT_MAX
      BY <2>1
    <3>2. QED
      BY <2>1, <3>1, Buffer, ElementOfSeq
  <2>4. /\ Current \in Seq(Bytes)
        /\ Len(Current) = IF RxPtr + 1 <= RxPtr + RxSize
                          THEN RxPtr + RxSize - (RxPtr + 1) + 1 ELSE 0
    BY <2>1, <2>2, <2>3, SubSeqProperties
  <2>5. Len(Current) = RxSize
    BY <2>1, <2>4
  <2>6. RxSize = 0 => Current = <<>>
    BY <2>4, <2>5, EmptySeq
  <2>7. QED
    BY <1>2, <2>4, <2>5, <2>6
<1>3. QED
  BY <1>1, <1>2

LEMMA WaitingType ==
    ASSUME BlasterInv
    PROVE  /\ Waiting \in Seq(Bytes) /\ Len(Waiting) = Unfetched
           /\ Unfetched = 0 => Waiting = <<>>
<1> DEFINE h == USB_OutHandle[Rx_State]
<1>1. CASE Rx_State = INIT \/ h = NULL \/ USBHandleBusy(ep2Out, h)
  <2>1. Waiting = <<>> /\ Unfetched = 0
    BY <1>1 DEF Waiting, Unfetched
  <2>2. QED
    BY <2>1
<1>2. CASE ~(Rx_State = INIT \/ h = NULL \/ USBHandleBusy(ep2Out, h))
  <2>1. Rx_State \in {0, 1} /\ h \in {0, 1}
    BY <1>2 DEF BlasterInv, OutPart
  <2>2. ep2Out.bd[h].cnt \in 0..OUT_MAX
    BY <2>1 DEF BlasterInv, OutPart, Endpoints, Descriptors
  <2>3. /\ Waiting = SubSeq(USB_OutPacket[Rx_State], 1, ep2Out.bd[h].cnt)
        /\ Unfetched = ep2Out.bd[h].cnt
    BY <1>2 DEF Waiting, Unfetched, USBHandleGetLength
  <2>4. Waiting \in Seq(Bytes) /\ Len(Waiting) = Unfetched
    BY <2>1, <2>2, <2>3, Front
  <2>5. QED
    BY <2>4, EmptySeq
<1>3. QED
  BY <1>1, <1>2

\* Replies are in flight only between the arming of EP1 and the host's poll.
LEMMA InFlightType ==
    ASSUME BlasterInv
    PROVE  /\ InFlight \in Seq(Reply)
           /\ usb = "default" \/ Free(ep1In) => InFlight = <<>>
<1>1. TX_MAX + 2 \in Nat /\ ep1In \in Endpoints(TX_MAX + 2, {0})
  BY BlasterAssumption DEF BlasterInv, InPart
<1>2. CASE usb = "default" \/ Free(ep1In)
  <2>1. ~Armed(ep1In)
    <3>1. CASE Free(ep1In)
      BY <1>1, <3>1, Shapes
    <3>2. CASE usb = "default"
      BY <3>2 DEF BlasterInv, InPart, Armed, USBDeviceInit, Idle
    <3>3. QED
      BY <1>2, <3>1, <3>2
  <2>2. QED
    BY <2>1 DEF InFlight
<1>3. CASE ~(usb = "default" \/ Free(ep1In))
  <2> DEFINE n == ep1In.bd[ep1In.sie].cnt
  <2>1. Busy(ep1In) /\ n \in 2..(Len(USB_InPacket) + 2)
    BY <1>3 DEF BlasterInv, InPart, CmdPart
  <2>2. InFlight = SubSeq(USB_InPacket, 1, n - 2)
    BY <1>1, <2>1, Shapes DEF InFlight
  <2> HIDE DEF n
  <2>3. USB_InPacket \in Seq(Reply) /\ Len(USB_InPacket) \in Nat
    BY LenProperties DEF BlasterInv, FifoPart
  <2>4. n - 2 \in 0..Len(USB_InPacket)
    BY <2>1, <2>3
  <2>5. \A i \in 1..(n - 2) : USB_InPacket[i] \in Reply
    BY <2>3, <2>4, ElementOfSeq
  <2>6. InFlight \in Seq(Reply)
    BY <2>2, <2>4, <2>5, SubSeqProperties
  <2>7. QED
    BY <1>3, <2>6
<1>4. QED
  BY <1>2, <1>3

LEMMA QueuedType ==
    ASSUME CpldInv
    PROVE  Queued = Ring!Held /\ Queued \in Seq(Reply) /\ Len(Queued) = TXFIFO_ocpy
<1>1. Ring!Held \in Seq(Reply) /\ Len(Ring!Held) = TXFIFO_ocpy
  BY RingAssumption, Ring!HeldType DEF CpldInv
<1>2. Queued = Ring!Held
  BY DEF Queued, Fifo!Copied, Ring!Held, Ring!Copied
<1>3. QED
  BY <1>1, <1>2

LEMMA SameCommands ==
    ASSUME UNCHANGED <<rxVars, ep2Out, USB_OutPacket>>
    PROVE  Current' = Current /\ Waiting' = Waiting
BY DEF rxVars, Current, Waiting

LEMMA SameInFlight ==
    ASSUME UNCHANGED <<ep1In, USB_InPacket>>
    PROVE  InFlight' = InFlight
BY DEF InFlight

LEMMA SameQueued ==
    ASSUME UNCHANGED fifoVars
    PROVE  Queued' = Queued
BY DEF fifoVars, Queued, Fifo!Copied

\* The same of the state after a step.
LEMMA NextTypes ==
    /\ BlasterInv' => /\ Rx_State' = INIT \/ RxSize' = 0 => Current' = <<>>
                      /\ Unfetched' = 0 => Waiting' = <<>>
                      /\ usb' = "default" \/ Free(ep1In)' => InFlight' = <<>>
    /\ CpldInv' => Queued' \in Seq(Reply)
<1>1. BlasterInv => (Rx_State = INIT \/ RxSize = 0 => Current = <<>>)
  BY CurrentType
<1>2. BlasterInv => (Unfetched = 0 => Waiting = <<>>)
  BY WaitingType
<1>3. BlasterInv => (usb = "default" \/ Free(ep1In) => InFlight = <<>>)
  BY InFlightType
<1>4. CpldInv => Queued \in Seq(Reply)
  BY QueuedType
<1>5. /\ (BlasterInv => (Rx_State = INIT \/ RxSize = 0 => Current = <<>>))'
      /\ (BlasterInv => (Unfetched = 0 => Waiting = <<>>))'
      /\ (BlasterInv => (usb = "default" \/ Free(ep1In) => InFlight = <<>>))'
      /\ (CpldInv => Queued \in Seq(Reply))'
  BY <1>1, <1>2, <1>3, <1>4, PTL
<1>6. QED
  BY <1>5
-----------------------------------------------------------------------------
(***************************************************************************)
(* The steps of the main loop.                                             *)
(***************************************************************************)
\* The state of the machine beside its input and output.
others == <<host, done, usb, ByteSize, Read, nCS, pins>>

LEMMA Stutter ==
    ASSUME UNCHANGED others, Input' = Input, Output' = Output
    PROVE  UNCHANGED Machine!vars
BY DEF others, Input, Output, Machine!vars

\* The byte that is taken is the machine's next command.
LEMMA TakeConsumes ==
    ASSUME CpldInv, TakeByte, pc \in {"bang", "shift"},
           UNCHANGED <<ep2Out, USB_OutPacket>>
    PROVE  /\ Input # <<>> /\ Head(Input) = NextByte /\ Input' = Tail(Input)
           /\ done' = done + 1
<1>1. BlasterInv
  BY DEF CpldInv
<1>2. /\ UNCHANGED <<Rx_State, ValidPPB, USB_OutHandle>> /\ RxSize > 0
      /\ RxSize' = RxSize - 1 /\ done' = done + 1 /\ RxPtr' = RxPtr + 1
  BY <1>1, TakeByteFacts DEF TakeByte
<1>3. Rx_State # INIT
  BY DEF CpldInv, ModePart
<1>4. /\ RxPtr \in Nat /\ RxSize \in Nat /\ OUT_MAX \in Nat
      /\ RxPtr + RxSize <= OUT_MAX /\ ValidPPB \in {0, 1}
  BY <1>1, BlasterAssumption DEF BlasterInv, CmdPart
<1> DEFINE P == USB_OutPacket[ValidPPB]
<1>5. P \in Seq(Bytes) /\ Len(P) = OUT_MAX
  BY <1>1, <1>4, Buffer
<1>6. Current = SubSeq(P, RxPtr + 1, RxPtr + RxSize)
  BY <1>3 DEF Current
<1>7. Current' = SubSeq(P, RxPtr + 1 + 1, RxPtr + RxSize)
  <2>1. RxPtr' + 1 = RxPtr + 1 + 1 /\ RxPtr' + RxSize' = RxPtr + RxSize
    BY <1>2, <1>4
  <2>2. QED
    BY <1>2, <1>3, <2>1 DEF Current
<1>8. RxPtr + 1 \in 1..Len(P) /\ RxPtr + RxSize \in RxPtr + 1 .. Len(P)
  BY <1>2, <1>4, <1>5
<1>9. NextByte = P[RxPtr + 1]
  BY DEF NextByte
<1> HIDE DEF P
<1>10. Head(Current) = NextByte /\ Tail(Current) = Current'
  BY <1>5, <1>6, <1>7, <1>8, <1>9, HeadTailOfSubSeq
<1>11. Current \in Seq(Bytes) /\ Current # <<>> /\ Waiting \in Seq(Bytes)
  <2>1. Current \in Seq(Bytes) /\ Len(Current) = RxSize /\ Waiting \in Seq(Bytes)
    BY <1>1, <1>3, CurrentType, WaitingType
  <2>2. QED
    BY <1>2, <1>4, <2>1, EmptySeq
<1>12. Waiting' = Waiting
  BY <1>2 DEF Waiting
<1>13. QED
  BY <1>2, <1>10, <1>11, <1>12, TakeFirst DEF Input

\* A recorded reply is the newest of the machine's output.
LEMMA RecordAppends ==
    ASSUME CpldInv, pc \in {"bang", "shift"}, NEW read, NEW d \in Reply,
           Record(read, d), UNCHANGED <<ep1In, USB_InPacket>>
    PROVE  Output' = IF read = 1 THEN Append(Output, d) ELSE Output
<1>1. BlasterInv /\ Ring!FifoInv
  BY DEF CpldInv
<1>2. InFlight' = InFlight /\ InFlight \in Seq(Reply)
  BY <1>1, SameInFlight, InFlightType
<1>3. Queued = Ring!Held /\ Queued \in Seq(Reply) /\ Queued' = Ring!Held'
  BY QueuedType DEF Queued, Fifo!Copied, Ring!Held, Ring!Copied
<1>4. CASE read = 1
  <2>1. Ring!TXFIFO_Write(d)
    BY <1>4 DEF Record, Fifo!TXFIFO_Write, Ring!TXFIFO_Write
  <2>2. TXFIFO_ocpy < UINT8
    <3>1. Batch > 0 /\ Batch \in Nat
      BY <1>1, BlasterAssumption DEF Batch, BlasterInv, CmdPart
    <3>2. TXFIFO_ocpy + Batch <= TXFIFO_SIZE /\ TXFIFO_ocpy \in Nat
      BY <1>1, BlasterAssumption DEF Ring!FifoInv, Ring!NoOverflow, BlasterInv, FifoPart
    <3>3. QED
      BY <3>1, <3>2, BlasterAssumption
  <2>3. Queued' = Append(Queued, d)
    BY <1>1, <1>3, <2>1, <2>2, RingAssumption, Ring!WriteAppends
  <2>4. QED
    BY <1>2, <1>3, <1>4, <2>3, AppendRight DEF Output
<1>5. CASE read # 1
  BY <1>2, <1>5, SameQueued DEF Record, Output
<1>6. QED
  BY <1>4, <1>5

LEMMA BangRefines == CpldInv /\ BitBang => Machine!SetPins
<1> SUFFICES ASSUME CpldInv, BitBang PROVE Machine!SetPins
  OBVIOUS
<1> DEFINE b == NextByte
<1>1. /\ pc = "bang" /\ TakeByte /\ Bit(b, 128) = 0
      /\ Read' = Bit(b, 64) /\ nCS' = Bit(b, 8) /\ Record(Read', done')
      /\ pins' = [TCK |-> Bit(b, 1), TMS |-> Bit(b, 2), TDI |-> Bit(b, 16),
                  LED |-> Bit(b, 32)]
      /\ UNCHANGED <<ByteSize, ep1In, ep2Out, USB_OutPacket, USB_InPacket, host, usb>>
  BY DEF BitBang, txVars, usbVars
<1> HIDE DEF b
<1>2. /\ Input # <<>> /\ Head(Input) = b /\ Input' = Tail(Input)
      /\ done' = done + 1
  BY <1>1, TakeConsumes DEF b
<1>3. done' \in Reply
  BY <1>1, TakenIsReply DEF CpldInv
<1>4. Output' = IF Read' = 1 THEN Append(Output, done') ELSE Output
  BY <1>1, <1>3, RecordAppends
<1>5. ByteSize = 0
  BY <1>1 DEF CpldInv, ModePart, BlasterInv, CmdPart
<1>6. QED
  BY <1>1, <1>2, <1>4, <1>5 DEF Machine!SetPins, Machine!Consume, Machine!Record,
     Machine!Bit, Bit, Input, Output

LEMMA EnterRefines == CpldInv /\ GoToByteShift => Machine!EnterShift
<1> SUFFICES ASSUME CpldInv, GoToByteShift PROVE Machine!EnterShift
  OBVIOUS
<1> DEFINE b == NextByte
<1>1. /\ pc = "bang" /\ TakeByte /\ Bit(b, 128) = 1
      /\ Read' = Bit(b, 64) /\ ByteSize' = b % 64 /\ pins' = [pins EXCEPT !.TCK = 0]
      /\ UNCHANGED <<nCS, ep1In, ep2Out, USB_OutPacket, USB_InPacket, host, usb, fifoVars>>
  BY DEF GoToByteShift, ShiftPins, txVars, usbVars
<1> HIDE DEF b
<1>2. /\ Input # <<>> /\ Head(Input) = b /\ Input' = Tail(Input)
      /\ done' = done + 1
  BY <1>1, TakeConsumes DEF b
<1>3. Output' = Output
  BY <1>1, SameInFlight, SameQueued DEF Output
<1>4. ByteSize = 0
  BY <1>1 DEF CpldInv, ModePart, BlasterInv, CmdPart
<1>5. QED
  BY <1>1, <1>2, <1>3, <1>4 DEF Machine!EnterShift, Machine!Consume, Machine!Bit, Bit,
     Input, Output

LEMMA ShiftRefines == CpldInv /\ ByteShift => Machine!Shift
<1> SUFFICES ASSUME CpldInv, ByteShift PROVE Machine!Shift
  OBVIOUS
<1> DEFINE d == IF nCS = 1 THEN done' ELSE Ones
<1>1. /\ pc = "shift" /\ TakeByte /\ Record(Read, d) /\ ByteSize' = ByteSize - 1
      /\ UNCHANGED <<Read, nCS, pins, ep1In, ep2Out, USB_OutPacket, USB_InPacket, host, usb>>
  BY DEF ByteShift, txVars, usbVars
<1>2. Input # <<>> /\ Input' = Tail(Input) /\ done' = done + 1
  BY <1>1, TakeConsumes
<1>3. d \in Reply
  BY <1>1, TakenIsReply DEF CpldInv
<1>4. Output' = IF Read = 1 THEN Append(Output, d) ELSE Output
  BY <1>1, <1>3, RecordAppends
<1>5. ByteSize > 0
  BY <1>1 DEF CpldInv, BlasterInv, CmdPart
<1>6. QED
  BY <1>1, <1>2, <1>4, <1>5 DEF Machine!Shift, Machine!Consume, Machine!Record,
     Machine!Ones, Ones, Input, Output

\* RX handling makes the packet that waited the current one, if the current
\* one is used up: the machine's input is the same.
LEMMA RxRefines == CpldInv /\ RxHandling => UNCHANGED Machine!vars
<1> SUFFICES ASSUME CpldInv, RxHandling PROVE UNCHANGED Machine!vars
  OBVIOUS
<1>1. BlasterInv /\ BlasterInv'
  BY NextCpldInv DEF CpldInv, Next, Main_Task_Blaster
<1>2. /\ pc = "rx" /\ pc' = "jtag"
      /\ UNCHANGED <<jtagVars, fifoVars, txVars, usbVars, ep1In, USB_OutPacket, host>>
  BY DEF RxHandling
<1>3. Output' = Output /\ UNCHANGED others
  BY <1>2, SameInFlight, SameQueued DEF Output, others, txVars, jtagVars, usbVars
<1>4. CASE RxInit
  <2>1. /\ Rx_State = INIT /\ ArmOut(0) /\ RxSize' = 0 /\ Rx_State' = 0
        /\ usb' = usb /\ pc' # "rx"
    BY <1>2, <1>4 DEF RxInit, usbVars
  <2>2. Current = <<>> /\ Waiting = <<>> /\ Current' = <<>>
    BY <1>1, <2>1, CurrentType, NextTypes DEF Waiting
  <2>3. usb = "configured" => Free(ep2Out)
    BY <1>1, <2>1 DEF BlasterInv, OutPart, Handed, INIT
  <2>4. Unfetched' = 0
    BY <1>1, <2>1, <2>3, ArmOutPart
  <2>5. Waiting' = <<>>
    BY <1>1, <2>4, NextTypes
  <2>6. QED
    BY <1>3, <2>2, <2>5, Stutter DEF Input
<1>5. ASSUME NEW p \in {0, 1}, RxPacket(p) PROVE UNCHANGED Machine!vars
  <2> DEFINE n == ep2Out.bd[USB_OutHandle[p]].cnt
  <2>1. /\ Rx_State = p /\ RxReady(p) /\ ArmOut(1 - p) /\ Rx_State' = 1 - p
        /\ RxSize' = n /\ ValidPPB' = p /\ RxPtr' = 0 /\ 1 - p \in {0, 1} /\ 1 - p # p
        /\ usb' = usb /\ pc' # "rx"
    BY <1>2, <1>5 DEF RxPacket, OtherBuffer, USBHandleGetLength, usbVars
  <2> HIDE DEF n
  <2>2. /\ usb = "configured" => Free(ep2Out)
        /\ USB_OutHandle[p] \in {0, 1} /\ RxSize = 0
        /\ n \in 0..OUT_MAX
    BY <1>1, <1>2, <2>1, ReadyFree DEF n
  <2>3. Unfetched' = 0
    BY <1>1, <2>1, <2>2, ArmOutPart
  <2>4. Waiting' = <<>> /\ Current = <<>>
    BY <1>1, <2>2, <2>3, NextTypes, CurrentType
  <2>5. Waiting = SubSeq(USB_OutPacket[p], 1, n)
    BY <2>1, <2>2 DEF Waiting, RxReady, USBHandleGetLength, NULL, INIT, n
  <2>6. Current' = SubSeq(USB_OutPacket[p], 1, n)
    <3>1. RxPtr' + 1 = 1 /\ RxPtr' + RxSize' = n
      BY <2>1, <2>2
    <3>2. Rx_State' # INIT
      BY <2>1 DEF INIT
    <3>3. USB_OutPacket' = USB_OutPacket
      BY <1>2
    <3>4. QED
      BY <2>1, <3>1, <3>2, <3>3 DEF Current
  <2>7. Waiting \in Seq(Bytes)
    BY <1>1, WaitingType
  <2>8. Input' = Input
    BY <2>4, <2>5, <2>6, <2>7, ConcatEmptySeq DEF Input
  <2>9. QED
    BY <1>3, <2>8, Stutter
<1>6. CASE RxNothing
  <2>1. UNCHANGED <<rxVars, ep2Out, USB_OutPacket>>
    BY <1>2, <1>6 DEF RxNothing
  <2>2. QED
    BY <1>3, <2>1, SameCommands, Stutter DEF Input
<1>7. QED
  BY <1>4, <1>5, <1>6 DEF RxHandling

\* TX handling moves replies from the ring into the armed packet: the machine's
\* output is the same.  While the device is not configured the packet cannot
\* be armed, and its replies are lost.
LEMMA TxRefines == CpldInv /\ TxHandling => [Machine!Next]_(Machine!vars)
<1> SUFFICES ASSUME CpldInv, TxHandling PROVE [Machine!Next]_(Machine!vars)
  OBVIOUS
<1>1. BlasterInv /\ BlasterInv' /\ Ring!FifoInv
  BY NextCpldInv DEF CpldInv, Next, Main_Task_Blaster
<1>2. /\ UNCHANGED <<rxVars, jtagVars, usbVars, ep2Out, USB_OutPacket, host>>
  BY DEF TxHandling
<1>3. UNCHANGED others /\ Input' = Input /\ usb' = usb
  BY <1>2, SameCommands DEF Input, others, jtagVars, usbVars
<1>4. Queued = Ring!Held /\ Queued \in Seq(Reply) /\ Queued' = Ring!Held' /\ Len(Queued) \in Nat
  BY QueuedType, LenProperties DEF Queued, Fifo!Copied, Ring!Held, Ring!Copied
<1>5. InFree /\ usb = "configured" => Free(ep1In)
  <2> SUFFICES ASSUME usb = "configured", Busy(ep1In), USB_InHandle0 = ep1In.sie
               PROVE  ~InFree
    BY <1>1 DEF BlasterInv, InPart
  <2>1. ep1In.sie \in {0, 1}
    BY <1>1 DEF BlasterInv, InPart, Endpoints
  <2>2. QED
    BY <2>1 DEF InFree, USBHandleBusy, NULL, Busy, OneArmed
\* What SendPacket(n) makes of the replies in flight.
<1>6. ASSUME NEW n \in 0..TX_MAX, InFree, SendPacket(n), usb = "configured"
      PROVE  InFlight' = SubSeq(USB_InPacket', 1, n)
  <2> DEFINE f == USBTransferOnePacket(ep1In, 0, n + 2)
  <2>1. /\ TX_MAX + 2 \in Nat /\ n + 2 \in 0..(TX_MAX + 2) /\ n + 2 - 2 = n
    BY BlasterAssumption
  <2>2. ep1In' = f
    BY <1>6 DEF SendPacket
  <2> HIDE DEF f
  <2>3. ep1In \in Endpoints(TX_MAX + 2, {0}) /\ Free(ep1In)
    BY <1>1, <1>5, <1>6 DEF BlasterInv, InPart
  <2>4. /\ f \in Endpoints(TX_MAX + 2, {0}) /\ Busy(f) /\ f.bd[f.sie].cnt = n + 2
    BY <2>1, <2>3, TransferShape DEF f
  <2>5. Armed(f)
    BY <2>1, <2>4, Shapes
  <2>6. QED
    BY <2>1, <2>2, <2>4, <2>5 DEF InFlight
<1>7. CASE TxReplies
  <2> DEFINE n == ReplySize
  <2>1. InFree /\ n > 0 /\ Fifo!TXFIFO_Read(n) /\ SendPacket(n)
    BY <1>7 DEF TxReplies
  <2>2. n \in 0..TX_MAX /\ n <= TXFIFO_ocpy /\ TX_MAX \in Nat /\ TXFIFO_ocpy \in Nat
    <3>1. TXFIFO_ocpy \in 0..TXFIFO_SIZE /\ TXFIFO_SIZE \in Nat /\ TX_MAX \in Nat
      <4>1. Batch \in Nat
        BY <1>1, BlasterAssumption DEF Batch, BlasterInv, CmdPart
      <4>2. QED
        BY <1>1, <4>1, BlasterAssumption DEF Ring!FifoInv, Ring!NoOverflow, BlasterInv, FifoPart
    <3>2. Ring!TxSize(TXFIFO_ocpy) \in 0..TX_MAX /\ Ring!TxSize(TXFIFO_ocpy) <= TXFIFO_ocpy
      BY <3>1, RingAssumption, Ring!TxSizeBounds
    <3>3. n = Ring!TxSize(TXFIFO_ocpy)
      BY DEF ReplySize, Fifo!TxSize, Fifo!Fill, Ring!TxSize, Ring!Fill
    <3>4. QED
      BY <3>1, <3>2, <3>3
  <2> HIDE DEF n
  <2>3. n \in 1..TXFIFO_ocpy
    BY <2>1, <2>2
  <2>4. Ring!TXFIFO_Read(n)
    BY <2>1 DEF Fifo!TXFIFO_Read, Ring!TXFIFO_Read, Fifo!Copied, Ring!Copied
  <2>5. USB_InPacket' = SubSeq(Queued, 1, n) /\ Queued' = SubSeq(Queued, n + 1, Len(Queued))
    BY <1>1, <1>4, <2>3, <2>4, RingAssumption, Ring!ReadTakes
  <2>6. n \in 0..Len(Queued)
    BY <2>2, QueuedType
  <2>7. CASE usb = "configured"
    <3>1. InFlight = <<>>
      BY <1>1, <1>5, <2>1, <2>7, InFlightType
    <3>2. /\ SubSeq(Queued, 1, n) \in Seq(Reply) /\ Len(SubSeq(Queued, 1, n)) = n
      <4>1. \A i \in 1..n : Queued[i] \in Reply
        BY <1>4, <2>6, ElementOfSeq
      <4>2. QED
        BY <2>6, <4>1, SubSeqProperties
    <3>3. InFlight' = SubSeq(Queued, 1, n)
      BY <1>6, <2>1, <2>2, <2>5, <2>7, <3>2, SubSeqFull
    <3>4. SubSeq(Queued, 1, n) \o SubSeq(Queued, n + 1, Len(Queued)) = Queued
      <4>1. SubSeq(Queued, 1, n) \o SubSeq(Queued, n + 1, Len(Queued))
              = SubSeq(Queued, 1, Len(Queued))
        <5>1. /\ 1 \in 1..Len(Queued) + 1 /\ n \in 1 - 1 .. Len(Queued)
              /\ Len(Queued) \in n..Len(Queued)
          BY <1>4, <2>6
        <5>2. QED
          BY <1>4, <5>1, ConcatAdjacentSubSeq
      <4>2. QED
        BY <1>4, <4>1, SubSeqFull
    <3>5. Output' = Output
      BY <1>4, <2>5, <3>1, <3>3, <3>4, ConcatEmptySeq DEF Output
    <3>6. QED
      BY <1>3, <3>5, Stutter
  <2>8. CASE usb # "configured"
    <3>1. usb = "default"
      BY <1>1, <2>8 DEF BlasterInv, CmdPart
    <3>2. InFlight = <<>> /\ InFlight' = <<>>
      BY <1>1, <1>3, <3>1, InFlightType, NextTypes
    <3>3. Queued' \in Seq(Reply)
      BY NextTypes, NextCpldInv DEF Next, Main_Task_Blaster
    <3>4. Output = Queued /\ Output' = Queued'
      BY <1>4, <3>2, <3>3, ConcatEmptySeq DEF Output
    <3>5. \E k \in 0..Len(Input) : Input' = SubSeq(Input, 1, k)
      <4>1. Input \in Seq(Bytes)
        BY <1>1, CurrentType, WaitingType, ConcatProperties DEF Input
      <4>2. Len(Input) \in 0..Len(Input)
        BY <4>1, LenProperties
      <4>3. QED
        BY <1>3, <4>1, <4>2, SubSeqFull
    <3>6. \E k \in 0..Len(Output) : Output' = SubSeq(Output, k + 1, Len(Output))
      BY <2>5, <2>6, <3>4
    <3>7. Machine!Lose
      BY <1>3, <2>8, <3>5, <3>6 DEF Machine!Lose, Input, Output, others
    <3>8. QED
      BY <3>7 DEF Machine!Next
  <2>9. QED
    BY <2>7, <2>8
<1>8. CASE TxDummy
  <2>1. /\ InFree /\ SendPacket(0) /\ UNCHANGED <<fifoVars, USB_InPacket>>
        /\ 0 \in 0..TX_MAX
    BY <1>8, BlasterAssumption DEF TxDummy
  <2>2. InFlight = <<>> /\ InFlight' = <<>>
    <3>1. CASE usb = "configured"
      <4>1. InFlight' = SubSeq(USB_InPacket', 1, 0)
        BY <1>6, <2>1, <3>1
      <4>2. InFlight' = <<>>
        BY <4>1, SubSeqEmpty
      <4>3. QED
        BY <1>1, <1>5, <2>1, <3>1, <4>2, InFlightType
    <3>2. CASE usb # "configured"
      <4>1. usb = "default" /\ usb' = "default"
        BY <1>1, <1>3, <3>2 DEF BlasterInv, CmdPart
      <4>2. QED
        BY <1>1, <4>1, InFlightType, NextTypes
    <3>3. QED
      BY <3>1, <3>2
  <2>3. QED
    BY <1>3, <2>1, <2>2, SameQueued, Stutter DEF Output
<1>9. CASE TxNothing
  BY <1>3, <1>9, SameQueued, SameInFlight, Stutter DEF TxNothing, txVars, Output
<1>10. QED
  BY <1>7, <1>8, <1>9 DEF TxHandling
-----------------------------------------------------------------------------
(***************************************************************************)
(* The steps of the SIE, the host and the USB interrupt.                   *)
(***************************************************************************)
\* The bytes that the SIE has put into the armed buffer follow what the
\* machine has not processed yet; an empty packet adds nothing.
LEMMA SendsRefines == CpldInv /\ HostSends => [Machine!Next]_(Machine!vars)
<1> SUFFICES ASSUME CpldInv, HostSends PROVE [Machine!Next]_(Machine!vars)
  OBVIOUS
<1>1. BlasterInv /\ BlasterInv' /\ OUT_MAX \in Nat
  BY NextCpldInv, BlasterAssumption DEF CpldInv, Next
<1>2. /\ UNCHANGED <<pc, rxVars, jtagVars, fifoVars, txVars, usbVars, ep1In, host>>
      /\ usb = "configured" /\ SieReady(ep2Out)
  BY DEF HostSends, BusActive
<1>3. UNCHANGED others /\ Output' = Output /\ usb' = "configured"
  BY <1>2, SameInFlight, SameQueued DEF Output, others, txVars, jtagVars, usbVars
<1>4. PICK n \in 0..OUT_MAX :
         /\ \E bytes \in [1..n -> Commands] :
               USB_OutPacket' =
                  [USB_OutPacket EXCEPT ![ep2Out.bd[ep2Out.sie].buf] =
                      [i \in 1..OUT_MAX |-> IF i <= n THEN bytes[i] ELSE @[i]]]
         /\ ep2Out' = SieComplete(ep2Out, n)
  BY DEF HostSends
<1>5. /\ ep2Out \in Endpoints(OUT_MAX, {0, 1}) /\ (Free(ep2Out) \/ Busy(ep2Out))
  BY <1>1, <1>2 DEF BlasterInv, OutPart
<1>6. /\ Free(ep2Out') /\ Busy(ep2Out) /\ ep2Out.sie \in {0, 1}
      /\ ~ep2Out'.bd[ep2Out.sie].uown /\ ep2Out'.bd[ep2Out.sie].cnt = n
  BY <1>1, <1>2, <1>4, <1>5, SieShape
<1>7. Handed
  BY <1>1, <1>2, <1>5, <1>6, Shapes DEF BlasterInv, OutPart
<1> DEFINE h == ep2Out.sie
           c == Rx_State
<1>8. /\ c \in {0, 1} /\ c # INIT /\ h # NULL /\ USB_OutHandle[c] = h
      /\ ep2Out.bd[h].buf = c /\ (RxSize > 0 => c # ValidPPB)
      /\ UNCHANGED <<Rx_State, RxSize, ValidPPB, RxPtr, USB_OutHandle>>
  BY <1>2, <1>6, <1>7 DEF Handed, INIT, NULL, rxVars
<1>9. Waiting = <<>>
  BY <1>6, <1>8 DEF Waiting, USBHandleBusy, Busy, OneArmed
<1>10. Waiting' = SubSeq(USB_OutPacket'[c], 1, n)
  BY <1>6, <1>8 DEF Waiting, USBHandleBusy, USBHandleGetLength
<1>11. USB_OutPacket'[c] \in [1..OUT_MAX -> Bytes]
  BY <1>1, <1>8 DEF BlasterInv, CmdPart, Bytes
<1>12. Waiting' \in Seq(Bytes) /\ Len(Waiting') = n
  <2>1. \A i \in 1..n : USB_OutPacket'[c][i] \in Bytes
    BY <1>1, <1>11
  <2>2. QED
    BY <1>10, <2>1, SubSeqProperties
<1>13. Current' = Current
  <2>1. CASE RxSize = 0
    BY <1>1, <1>8, <2>1, CurrentType, NextTypes
  <2>2. CASE RxSize # 0
    <3>1. RxSize > 0
      BY <1>1, <2>2 DEF BlasterInv, CmdPart
    <3>2. c # ValidPPB /\ ValidPPB \in {0, 1}
      BY <1>1, <1>8, <3>1 DEF BlasterInv, CmdPart
    <3>3. USB_OutPacket'[ValidPPB] = USB_OutPacket[ValidPPB]
      BY <1>1, <1>4, <1>8, <3>2 DEF BlasterInv, CmdPart
    <3>4. QED
      BY <1>8, <3>3 DEF Current
  <2>3. QED
    BY <2>1, <2>2
<1> HIDE DEF h, c
<1>14. Current \in Seq(Bytes)
  BY <1>1, CurrentType
<1>15. Input = Current /\ Input' = Current \o Waiting' /\ Input \in Seq(Bytes)
  BY <1>9, <1>13, <1>14, ConcatEmptySeq DEF Input
<1>16. CASE n = 0
  <2>1. Waiting' = <<>>
    BY <1>12, <1>16, EmptySeq
  <2>2. QED
    BY <1>3, <1>14, <1>15, <2>1, ConcatEmptySeq, Stutter
<1>17. CASE n # 0
  <2>1. SubSeq(Input', 1, Len(Input)) = Input
    BY <1>12, <1>14, <1>15, SplitConcat
  <2>2. Len(Input') > Len(Input)
    <3>1. Len(Input') = Len(Input) + n /\ Len(Input) \in Nat
      BY <1>12, <1>14, <1>15, ConcatProperties, LenProperties
    <3>2. QED
      BY <1>17, <3>1
  <2>3. Machine!Receive
    BY <1>2, <1>3, <2>1, <2>2 DEF Machine!Receive, Input, Output, others
  <2>4. QED
    BY <2>3 DEF Machine!Next
<1>18. QED
  BY <1>16, <1>17

LEMMA ReceivesRefines == CpldInv /\ HostReceives => Machine!Deliver
<1> SUFFICES ASSUME CpldInv, HostReceives PROVE Machine!Deliver
  OBVIOUS
<1> DEFINE n == ep1In.bd[ep1In.sie].cnt
<1>1. BlasterInv /\ BlasterInv' /\ CpldInv'
  BY NextCpldInv DEF CpldInv, Next
<1>2. /\ UNCHANGED <<rxVars, jtagVars, fifoVars, usbVars, ep2Out, USB_OutPacket>>
      /\ usb = "configured" /\ SieReady(ep1In)
      /\ host' = SubSeq(USB_InPacket, 1, n - 2)
      /\ ep1In' = SieComplete(ep1In, n)
  BY DEF HostReceives, BusActive
<1>3. Input' = Input /\ Queued' = Queued /\ usb' = usb
  BY <1>2, SameCommands, SameQueued DEF Input, usbVars
<1>4. /\ TX_MAX + 2 \in Nat /\ ep1In \in Endpoints(TX_MAX + 2, {0})
      /\ (Free(ep1In) \/ Busy(ep1In)) /\ n \in 0..(TX_MAX + 2)
  <2>1. TX_MAX + 2 \in Nat
    BY BlasterAssumption, SMTT(40)
  <2>2. ep1In \in Endpoints(TX_MAX + 2, {0}) /\ (Free(ep1In) \/ Busy(ep1In))
    BY <1>1, <1>2, ZenonT(60) DEF BlasterInv, InPart
  <2>3. n \in 0..(TX_MAX + 2)
    BY <2>2 DEF Endpoints, Descriptors
  <2>4. QED
    BY <2>1, <2>2, <2>3
<1> HIDE DEF n
<1>5. Free(ep1In)' /\ Busy(ep1In)
  BY <1>2, <1>4, SieShape
<1>6. InFlight' = <<>>
  BY <1>1, <1>5, NextTypes
<1>7. host' = InFlight
  BY <1>2, <1>4, <1>5, Shapes DEF InFlight, n
<1>8. InFlight \in Seq(Reply) /\ Queued \in Seq(Reply)
  BY <1>1, InFlightType, QueuedType
<1>9. /\ host' = SubSeq(Output, 1, Len(InFlight)) /\ Len(InFlight) \in 0..Len(Output)
      /\ Output' = SubSeq(Output, Len(InFlight) + 1, Len(Output))
  BY <1>3, <1>6, <1>7, <1>8, SplitConcat, ConcatEmptySeq DEF Output
<1>10. UNCHANGED <<done, ByteSize, Read, nCS, pins>>
  BY <1>2 DEF jtagVars
<1>11. QED
  BY <1>2, <1>3, <1>9, <1>10 DEF Machine!Deliver, Input, Output

\* What a bus reset loses: the packet that RX handling has not fetched, and the
\* replies in the armed packet.
LEMMA ResetRefines == CpldInv /\ BusReset => Machine!Lose
<1> SUFFICES ASSUME CpldInv, BusReset PROVE Machine!Lose
  OBVIOUS
<1>1. BlasterInv /\ BlasterInv' /\ CpldInv'
  BY NextCpldInv DEF CpldInv, Next
<1>2. /\ UNCHANGED <<pc, rxVars, jtagVars, fifoVars, txVars, USB_OutPacket, host>>
      /\ usb' = "default" /\ ep2Out' = USBDeviceInit /\ USB_OutHandle' = USB_OutHandle
      /\ Rx_State' = Rx_State
  BY DEF BusReset, rxVars
<1>3. Current' = Current /\ Queued' = Queued
  BY <1>2, SameQueued DEF Current, rxVars
<1>4. InFlight' = <<>>
  BY <1>1, <1>2, NextTypes
<1>5. Waiting' = <<>>
  <2>1. USB_OutHandle \in [{0, 1} -> {0, 1, NULL}] /\ Rx_State \in {INIT, 0, 1}
    BY <1>1 DEF BlasterInv, OutPart
  <2>2. USBDeviceInit.bd[0].cnt = 0 /\ USBDeviceInit.bd[1].cnt = 0
    BY DEF USBDeviceInit, Idle
  <2>3. Unfetched' = 0
    BY <1>2, <2>1, <2>2 DEF Unfetched, USBHandleGetLength, INIT, NULL
  <2>4. QED
    BY <1>1, <2>3, NextTypes
<1>6. /\ Current \in Seq(Bytes) /\ Waiting \in Seq(Bytes)
      /\ InFlight \in Seq(Reply) /\ Queued \in Seq(Reply)
  BY <1>1, CurrentType, WaitingType, InFlightType, QueuedType
<1>7. /\ Input' = SubSeq(Input, 1, Len(Current)) /\ Len(Current) \in 0..Len(Input)
      /\ Output' = SubSeq(Output, Len(InFlight) + 1, Len(Output))
      /\ Len(InFlight) \in 0..Len(Output)
  BY <1>3, <1>4, <1>5, <1>6, SplitConcat, ConcatEmptySeq DEF Input, Output
<1>8. UNCHANGED <<host, done, ByteSize, Read, nCS, pins>>
  BY <1>2 DEF jtagVars
<1>9. QED
  BY <1>2, <1>7, <1>8 DEF Machine!Lose, Input, Output

LEMMA ConfigureRefines == CpldInv /\ SetConfiguration => Machine!Restart
<1> SUFFICES ASSUME CpldInv, SetConfiguration PROVE Machine!Restart
  OBVIOUS
<1>1. BlasterInv' /\ TX_MAX + 2 \in Nat
  BY NextCpldInv, BlasterAssumption DEF CpldInv, Next
<1>2. /\ usb' = "configured" /\ Rx_State' = INIT /\ ep1In' = USBEnableEndpoint
      /\ TXFIFO_ocpy' = 0 /\ ByteSize' = 0 /\ nCS' = 1
      /\ UNCHANGED <<host, done, Read, pins>>
  BY DEF SetConfiguration, USB_Ept_Init, Fifo!TXFIFO_Init
<1>3. Current' = <<>> /\ Waiting' = <<>>
  BY <1>2 DEF Current, Waiting
<1>4. InFlight' = <<>>
  <2>1. Free(ep1In)'
    BY <1>1, <1>2, EnabledShape
  <2>2. QED
    BY <1>1, <2>1, NextTypes
<1>5. Queued' = <<>>
  BY <1>2 DEF Queued, Fifo!Copied
<1>6. Input' = <<>> /\ Output' = <<>>
  BY <1>3, <1>4, <1>5 DEF Input, Output
<1>7. QED
  BY <1>2, <1>6 DEF Machine!Restart, Input, Output
-----------------------------------------------------------------------------
LEMMA InitRefinesCpld == Init => Machine!Init
<1> SUFFICES ASSUME Init PROVE Machine!Init
  OBVIOUS
<1>1. Current = <<>> /\ Waiting = <<>>
  BY DEF Init, Current, Waiting
<1>2. InFlight = <<>>
  BY DEF Init, InFlight, Armed, USBDeviceInit, Idle
<1>3. Queued = <<>>
  BY DEF Init, Queued, Fifo!Copied
<1>4. Input = <<>> /\ Output = <<>>
  BY <1>1, <1>2, <1>3 DEF Input, Output
<1>5. QED
  BY <1>4 DEF Init, Machine!Init, Input, Output

LEMMA NextRefinesCpld == CpldInv /\ [Next]_vars => [Machine!Next]_(Machine!vars)
<1> SUFFICES ASSUME CpldInv, [Next]_vars PROVE [Machine!Next]_(Machine!vars)
  OBVIOUS
<1>1. CASE MainLoop \/ JtagHandling \/ TimerExpires \/ SuspendOrResume \/ UNCHANGED vars
  <2>1. UNCHANGED <<rxVars, ep2Out, USB_OutPacket, ep1In, USB_InPacket, fifoVars, others>>
    BY <1>1 DEF MainLoop, JtagHandling, TimerExpires, SuspendOrResume, vars, jtagVars,
       txVars, usbVars, others
  <2>2. QED
    BY <2>1, SameCommands, SameInFlight, SameQueued, Stutter DEF Input, Output
<1>2. CASE RxHandling
  BY <1>2, RxRefines
<1>3. CASE GoToByteShift \/ BitBang \/ ByteShift
  BY <1>3, EnterRefines, BangRefines, ShiftRefines DEF Machine!Next
<1>4. CASE TxHandling
  BY <1>4, TxRefines
<1>5. CASE HostSends
  BY <1>5, SendsRefines
<1>6. CASE HostReceives \/ BusReset \/ SetConfiguration
  BY <1>6, ReceivesRefines, ResetRefines, ConfigureRefines DEF Machine!Next
<1>7. QED
  BY <1>1, <1>2, <1>3, <1>4, <1>5, <1>6 DEF Next, Main_Task_Blaster

\* The firmware is the machine that main.c:12-60 describes: every command byte
\* that the SIE acknowledged is processed once and in order, whatever packets,
\* buffers and mode switches lie between, and every reply reaches the host once
\* and in order.  Only a reset loses any.
THEOREM FirmwareIsCpld == Spec => CpldSpec
<1>1. Spec => []CpldInv
  BY InitCpldInv, NextCpldInv, PTL DEF Spec
<1>2. Spec => Machine!Init /\ [][Machine!Next]_(Machine!vars)
  BY <1>1, InitRefinesCpld, NextRefinesCpld, PTL DEF Spec
<1>3. QED
  BY <1>2 DEF CpldSpec, Machine!Spec
=============================================================================
