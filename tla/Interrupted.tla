----------------------------- MODULE Interrupted -----------------------------
(***************************************************************************)
(* Main_Task_Blaster statement by statement, where the USB interrupt can   *)
(* preempt it: a bus reset (USBDeviceInit) or a SET_CONFIGURATION          *)
(* (USBStdSetCfgHandler and USB_Ept_Init) between any two statements.      *)
(* Blaster takes the parts of a pass for atomic; here is why it may, and   *)
(* when it may not.                                                        *)
(*                                                                         *)
(* Commands and replies are counted, not represented: a command byte does  *)
(* one of the things that Blaster's commands do; the ring is its fill      *)
(* count.  The interrupt runs to its end before the main task goes on, so  *)
(* it is one step.  A local variable out of its scope has its first value. *)
(***************************************************************************)
EXTENDS Integers

CONSTANTS RING,     \* size of the reply ring, 2^8 in the code, where a
                    \* uint8_t is below RING and a uint16_t below RING^2
          OUT_MAX,  \* bytes of one OUT packet (64 in the code)
          TX_MAX,   \* replies of one IN packet (62 in the code)
          Again     \* bound: how often the host sends SET_CONFIGURATION to a
                    \* configured device while a pass of the main loop runs

ASSUME InterruptedAssumption ==
    /\ RING \in Nat \ {0} /\ OUT_MAX \in 1..(RING - 1)
    /\ TX_MAX \in 1..(RING - 1) /\ Again \in Nat

INSTANCE UsbBdt

INIT == 2    \* RX_INIT
WILD == -2   \* NULL with the ping-pong bit toggled: address 4

VARIABLES
    pc,                         \* the statement that the main task is at
    usb,                        \* "configured", or "default" for any state
                                \* in which main() does not run the task
    Rx_State, RxSize, USB_OutHandle,
    case,                       \* the case of RX handling that was entered
    JTAG_State, ByteSize,
    ocpy,                       \* TXFIFO_ocpy
    txsize,                     \* replies of the packet being built
    USB_InHandle0, TMRIF,
    ep, handle,                 \* locals of USBTransferOnePacket
    SSPEN, BF, shifting,        \* the SPI module
    ep1In, ep2Out, again

rxVars   == <<Rx_State, RxSize, USB_OutHandle, case>>
jtagVars == <<JTAG_State, ByteSize>>
txVars   == <<txsize, USB_InHandle0, TMRIF>>
callVars == <<ep, handle>>
spiVars  == <<SSPEN, BF, shifting>>
usbVars  == <<usb, ep1In, ep2Out, again>>
vars == <<pc, rxVars, jtagVars, ocpy, txVars, callVars, spiVars, usbVars>>
-----------------------------------------------------------------------------
Armed(e) == \E i \in {0, 1} : e.bd[i].uown
UINT16 == RING * RING
Room == (RING + UINT16 - ocpy) % UINT16
Fill == ocpy % RING     \* assigned to a uint8_t

Init ==
    /\ pc = "loop" /\ usb = "default" /\ again = 0
    /\ Rx_State = INIT /\ RxSize = 0 /\ case = INIT
    /\ USB_OutHandle = [p \in {0, 1} |-> NULL] /\ USB_InHandle0 = NULL
    /\ JTAG_State = "BIT_BANG" /\ ByteSize = 0
    /\ ocpy = 0 /\ txsize = 0
    /\ ep = "out" /\ handle = NULL
    /\ SSPEN = FALSE /\ BF = FALSE /\ shifting = FALSE /\ TMRIF = FALSE
    /\ ep1In = USBDeviceInit /\ ep2Out = USBDeviceInit

\* Fault: main() does not look at the device state.
MayRun_Always == TRUE
MayRun == usb = "configured"

MainLoop ==
    /\ pc = "loop" /\ MayRun
    /\ pc' = "rx"
    /\ UNCHANGED <<rxVars, jtagVars, ocpy, txVars, callVars, spiVars, usbVars>>
-----------------------------------------------------------------------------
(***************************************************************************)
(* USBTransferOnePacket, called with pc = "fetch" and ep the endpoint.     *)
(***************************************************************************)
Call(e) == pc' = "fetch" /\ ep' = e /\ UNCHANGED handle
Ep == IF ep = "in" THEN ep1In ELSE ep2Out
SetEp(e) ==
    /\ IF ep = "in" THEN ep1In' = e /\ UNCHANGED ep2Out
                    ELSE ep2Out' = e /\ UNCHANGED ep1In
    /\ UNCHANGED <<usb, again>>

\* The pointer is copied, and the copy compared with NULL.
Fetch ==
    /\ pc = "fetch"
    /\ handle' = Ep.next
    /\ pc' = IF Ep.next = NULL THEN "return" ELSE "fill"
    /\ UNCHANGED <<rxVars, jtagVars, ocpy, txVars, ep, spiVars, usbVars>>

\* ADR and CNT (kept for OUT only), then STAT without UOWN.  What a store
\* through WILD would overwrite is not modelled (see WildNeverUsed).
Fill1 ==
    /\ pc = "fill" /\ handle # WILD
    /\ SetEp([Ep EXCEPT !.bd[handle] =
                 [@ EXCEPT !.stall = FALSE, !.uown = FALSE,
                           !.cnt = IF ep = "in" THEN 0 ELSE OUT_MAX]])
    /\ pc' = "own"
    /\ UNCHANGED <<rxVars, jtagVars, ocpy, txVars, callVars, spiVars>>

Own ==
    /\ pc = "own"
    /\ SetEp([Ep EXCEPT !.bd[handle].uown = TRUE])
    /\ pc' = "advance"
    /\ UNCHANGED <<rxVars, jtagVars, ocpy, txVars, callVars, spiVars>>

Toggled(p) == CASE p = NULL -> WILD [] p = WILD -> NULL [] OTHER -> 1 - p

\* Fault: the pointer is incremented.
USBAdvancePingPongBuffer_NoWrap(p) == IF p < 0 THEN Toggled(p) ELSE p + 1
\* The pointer itself is toggled, not its copy.
USBAdvancePingPongBuffer(p) == Toggled(p)

Advance ==
    /\ pc = "advance"
    /\ SetEp([Ep EXCEPT !.next = USBAdvancePingPongBuffer(@)])
    /\ pc' = "return"
    /\ UNCHANGED <<rxVars, jtagVars, ocpy, txVars, callVars, spiVars>>

\* The caller stores the handle and, in TX handling, restarts the timer.
ReturnIn ==
    /\ pc = "return" /\ ep = "in"
    /\ USB_InHandle0' = handle
    /\ TMRIF' = FALSE
    /\ pc' = "loop"
    /\ ep' = "out" /\ handle' = NULL
    /\ UNCHANGED <<rxVars, jtagVars, ocpy, txsize, spiVars, usbVars>>

ReturnOut ==
    /\ pc = "return" /\ ep = "out"
    /\ LET p == IF case = INIT THEN 0 ELSE 1 - case
       IN  USB_OutHandle' = [USB_OutHandle EXCEPT ![p] = handle]
    /\ pc' = IF case = INIT THEN "initialized" ELSE "jtag"
    /\ case' = INIT /\ handle' = NULL
    /\ UNCHANGED <<Rx_State, RxSize, jtagVars, ocpy, txVars, ep, spiVars, usbVars>>

USBTransferOnePacket_Steps ==
    Fetch \/ Fill1 \/ Own \/ Advance \/ ReturnIn \/ ReturnOut
-----------------------------------------------------------------------------
(***************************************************************************)
(* RX handling.                                                            *)
(***************************************************************************)
RxReady(p) == RxSize = 0 /\ ~USBHandleBusy(ep2Out, USB_OutHandle[p])

Rx ==
    /\ pc = "rx"
    /\ \/ /\ Rx_State = INIT
          /\ Call("out")
          /\ UNCHANGED case
       \/ /\ Rx_State # INIT /\ RxReady(Rx_State)
          /\ case' = Rx_State
          /\ pc' = "length" /\ UNCHANGED callVars
       \/ /\ Rx_State # INIT /\ ~RxReady(Rx_State)
          /\ pc' = "jtag" /\ UNCHANGED <<case, callVars>>
    /\ UNCHANGED <<Rx_State, RxSize, USB_OutHandle, jtagVars, ocpy, txVars,
                   spiVars, usbVars>>

\* The length through a handle that the interrupt has just set to NULL is any
\* byte.
RxLength ==
    /\ pc = "length"
    /\ LET h == USB_OutHandle[case]
       IN  RxSize' \in IF h = NULL THEN 0..(RING - 1)
                       ELSE {USBHandleGetLength(ep2Out, h)}
    /\ pc' = "state"
    /\ UNCHANGED <<Rx_State, USB_OutHandle, case, jtagVars, ocpy, txVars,
                   callVars, spiVars, usbVars>>

RxState ==
    /\ pc = "state"
    /\ Rx_State' = 1 - case
    /\ Call("out")
    /\ UNCHANGED <<RxSize, USB_OutHandle, case, jtagVars, ocpy, txVars,
                   spiVars, usbVars>>

RxInitialized ==
    /\ pc = "initialized"
    /\ RxSize' = 0
    /\ Rx_State' = 0
    /\ pc' = "jtag"
    /\ UNCHANGED <<USB_OutHandle, case, jtagVars, ocpy, txVars, callVars,
                   spiVars, usbVars>>
-----------------------------------------------------------------------------
(***************************************************************************)
(* JTAG handling.                                                          *)
(***************************************************************************)
BatchAllowed == RxSize > 0 /\ Room >= RxSize

\* Fault: the SPI module is not switched on.
JTAG_Mode_SPI_Off == FALSE
JTAG_Mode_SPI == TRUE

\* The switch on JTAG_State, and the mode of the pins.
Jtag ==
    /\ pc = "jtag"
    /\ \/ /\ ~BatchAllowed
          /\ pc' = IF JTAG_State = "BIT_BANG" THEN "tx" ELSE "shifted"
          /\ UNCHANGED SSPEN
       \/ /\ BatchAllowed /\ JTAG_State = "BIT_BANG"
          /\ SSPEN' = FALSE
          /\ pc' = "bang"
       \/ /\ BatchAllowed /\ JTAG_State = "BYTE_SHIFT"
          /\ SSPEN' = JTAG_Mode_SPI
          /\ pc' = "shift"
    /\ UNCHANGED <<rxVars, jtagVars, ocpy, txVars, callVars, BF, shifting,
                   usbVars>>

\* One turn of the bit-bang loop up to TXFIFO_Write: pins only, pins and a
\* reply, or the change to byte shift mode.
Bang ==
    /\ pc = "bang"
    /\ IF RxSize = 0
       THEN pc' = "tx" /\ UNCHANGED RxSize
       ELSE RxSize' = RxSize - 1 /\ pc' \in {"bang", "reply bang", "goto shift"}
    /\ UNCHANGED <<Rx_State, USB_OutHandle, case, jtagVars, ocpy, txVars,
                   callVars, spiVars, usbVars>>

GotoShift ==
    /\ pc = "goto shift"
    /\ ByteSize' \in 0..OUT_MAX
    /\ pc' = "set shift"
    /\ UNCHANGED <<rxVars, JTAG_State, ocpy, txVars, callVars, spiVars, usbVars>>

SetShift ==
    /\ pc = "set shift"
    /\ JTAG_State' = "BYTE_SHIFT"
    /\ pc' = "tx"
    /\ UNCHANGED <<rxVars, ByteSize, ocpy, txVars, callVars, spiVars, usbVars>>

\* TXFIFO_Write.
Reply ==
    /\ pc \in {"reply bang", "reply shift"}
    /\ ocpy' = (ocpy + 1) % UINT16
    /\ pc' = IF pc = "reply bang" THEN "bang" ELSE "next"
    /\ UNCHANGED <<rxVars, jtagVars, txVars, callVars, spiVars, usbVars>>

\* The loop of byte shift mode: JTAG_SPI_Put starts the SPI module.  It needs
\* 8 instruction cycles for a byte, fewer than lie between two uses of SSPBUF.
Shift ==
    /\ pc = "shift"
    /\ IF RxSize > 0 /\ ByteSize > 0
       THEN ~shifting /\ shifting' = SSPEN /\ pc' = "wait"
       ELSE pc' = "shifted" /\ UNCHANGED shifting
    /\ UNCHANGED <<rxVars, jtagVars, ocpy, txVars, callVars, SSPEN, BF, usbVars>>

\* JTAG_SPI_Wait, then JTAG_SPI_Get, which clears BF, if the byte is asked
\* for; otherwise BF stays set and the next wait does not wait.
Wait ==
    /\ pc = "wait" /\ BF
    /\ \/ ~shifting /\ BF' = FALSE /\ pc' = "reply shift"
       \/ UNCHANGED BF /\ pc' \in {"reply shift", "next"}
    /\ UNCHANGED <<rxVars, jtagVars, ocpy, txVars, callVars, SSPEN, shifting,
                   usbVars>>

NextShift ==
    /\ pc = "next"
    /\ RxSize' = RxSize - 1
    /\ pc' = "next size"
    /\ UNCHANGED <<Rx_State, USB_OutHandle, case, jtagVars, ocpy, txVars,
                   callVars, spiVars, usbVars>>

\* uint8_t: decrementing a ByteSize that the interrupt has cleared wraps.
NextSize ==
    /\ pc = "next size"
    /\ ByteSize' = (ByteSize + RING - 1) % RING
    /\ pc' = "shift"
    /\ UNCHANGED <<rxVars, JTAG_State, ocpy, txVars, callVars, spiVars, usbVars>>

Shifted ==
    /\ pc = "shifted"
    /\ JTAG_State' = IF ByteSize = 0 THEN "BIT_BANG" ELSE JTAG_State
    /\ pc' = "tx"
    /\ UNCHANGED <<rxVars, ByteSize, ocpy, txVars, callVars, spiVars, usbVars>>
-----------------------------------------------------------------------------
(***************************************************************************)
(* TX handling.                                                            *)
(***************************************************************************)
InFree == ~USBHandleBusy(ep1In, USB_InHandle0)

Tx ==
    /\ pc = "tx"
    /\ \/ /\ InFree /\ Fill > 0
          /\ txsize' = IF Fill < TX_MAX THEN Fill ELSE TX_MAX
          /\ pc' = "take"
          /\ UNCHANGED <<TMRIF, callVars>>
       \/ /\ InFree /\ Fill = 0 /\ TMRIF
          /\ TMRIF' = FALSE
          /\ Call("in") /\ UNCHANGED txsize
       \/ /\ ~InFree \/ (Fill = 0 /\ ~TMRIF)
          /\ pc' = "loop"
          /\ UNCHANGED <<txsize, TMRIF, callVars>>
    /\ UNCHANGED <<rxVars, jtagVars, ocpy, USB_InHandle0, spiVars, usbVars>>

\* TXFIFO_Read.
Take ==
    /\ pc = "take"
    /\ ocpy' = (ocpy + UINT16 - txsize) % UINT16
    /\ txsize' = 0
    /\ Call("in")
    /\ UNCHANGED <<rxVars, jtagVars, USB_InHandle0, TMRIF, spiVars, usbVars>>

Main_Task_Blaster ==
    \/ Rx \/ RxLength \/ RxState \/ RxInitialized
    \/ Jtag \/ Bang \/ GotoShift \/ SetShift \/ Reply
    \/ Shift \/ Wait \/ NextShift \/ NextSize \/ Shifted
    \/ Tx \/ Take
    \/ USBTransferOnePacket_Steps
-----------------------------------------------------------------------------
(***************************************************************************)
(* The timer, the SPI module, the SIE with the host.                       *)
(***************************************************************************)
TimerExpires ==
    /\ ~TMRIF /\ TMRIF' = TRUE
    /\ UNCHANGED <<pc, rxVars, jtagVars, ocpy, txsize, USB_InHandle0,
                   callVars, spiVars, usbVars>>

ShiftDone ==
    /\ shifting
    /\ shifting' = FALSE /\ BF' = TRUE
    /\ UNCHANGED <<pc, rxVars, jtagVars, ocpy, txVars, callVars, SSPEN, usbVars>>

HostSends ==
    /\ usb = "configured" /\ SieReady(ep2Out)
    /\ \E n \in 0..OUT_MAX : ep2Out' = SieComplete(ep2Out, n)
    /\ UNCHANGED <<pc, rxVars, jtagVars, ocpy, txVars, callVars, spiVars,
                   usb, ep1In, again>>

HostReceives ==
    /\ usb = "configured" /\ SieReady(ep1In)
    /\ ep1In' = SieComplete(ep1In, 0)
    /\ UNCHANGED <<pc, rxVars, jtagVars, ocpy, txVars, callVars, spiVars,
                   usb, ep2Out, again>>
-----------------------------------------------------------------------------
(***************************************************************************)
(* The USB interrupt, at any statement of the main task.                   *)
(***************************************************************************)
BusReset ==
    /\ usb' = "default"
    /\ ep1In' = USBDeviceInit /\ ep2Out' = USBDeviceInit
    /\ UNCHANGED <<pc, rxVars, jtagVars, ocpy, txVars, callVars, spiVars, again>>

\* SET_CONFIGURATION(0): the pointers are not touched.
Deconfigure ==
    /\ usb = "configured"
    /\ usb' = "default"
    /\ ep1In' = [USBDeviceInit EXCEPT !.next = ep1In.next]
    /\ ep2Out' = [USBDeviceInit EXCEPT !.next = ep2Out.next]
    /\ UNCHANGED <<pc, rxVars, jtagVars, ocpy, txVars, callVars, spiVars, again>>

\* Fault: a pointer that is set is kept.
Enabled_KeepsPointer(e) ==
    [USBEnableEndpoint EXCEPT !.next = IF e.next = NULL THEN @ ELSE e.next]
Enabled(e) == USBEnableEndpoint

\* RxSize keeps its value.  Switching the SPI module off ends a transfer; the
\* model leaves open whether BF survives.
USB_Ept_Init ==
    /\ USB_OutHandle' = [p \in {0, 1} |-> NULL] /\ USB_InHandle0' = NULL
    /\ ocpy' = 0
    /\ Rx_State' = INIT
    /\ JTAG_State' = "BIT_BANG" /\ ByteSize' = 0
    /\ SSPEN' = FALSE /\ shifting' = FALSE /\ BF' \in {BF, FALSE}
    /\ ep1In' = Enabled(ep1In) /\ ep2Out' = Enabled(ep2Out)

\* After a reset, or SET_CONFIGURATION(0), the pass that was running has ended
\* before the host configures the device.  A host that configures a device
\* which is configured already may do so in the middle of a pass.
SetConfiguration ==
    /\ \/ pc = "loop" /\ UNCHANGED again
       \/ usb = "configured" /\ pc # "loop" /\ again < Again /\ again' = again + 1
    /\ usb' = "configured"
    /\ USB_Ept_Init
    /\ UNCHANGED <<pc, RxSize, case, txsize, TMRIF, callVars>>

Interrupt == BusReset \/ Deconfigure \/ SetConfiguration
-----------------------------------------------------------------------------
Next ==
    \/ MainLoop
    \/ Main_Task_Blaster
    \/ TimerExpires
    \/ ShiftDone
    \/ HostSends
    \/ HostReceives
    \/ Interrupt

Spec == Init /\ [][Next]_vars

\* The main loop goes on, the SPI module finishes a byte, the timer runs, and
\* the host polls EP1.
FairSpec ==
    /\ Spec
    /\ WF_vars(MainLoop) /\ WF_vars(Main_Task_Blaster)
    /\ WF_vars(TimerExpires) /\ WF_vars(ShiftDone) /\ WF_vars(HostReceives)
-----------------------------------------------------------------------------
Pointers == {0, 1, NULL}
Eps(size) ==
    [bd : [{0, 1} -> Descriptors(size, {0})], next : Pointers \cup {WILD},
     sie : {0, 1}, enabled : BOOLEAN]

TypeOK ==
    /\ pc \in {"loop", "rx", "length", "state", "initialized", "jtag", "bang",
               "reply bang", "goto shift", "set shift", "shift", "wait",
               "reply shift", "next", "next size", "shifted", "tx", "take",
               "fetch", "fill", "own", "advance", "return"}
    /\ usb \in {"default", "configured"} /\ again \in 0..Again
    /\ Rx_State \in {INIT, 0, 1} /\ case \in {INIT, 0, 1}
    /\ RxSize \in 0..(RING - 1) /\ ByteSize \in 0..(RING - 1)
    /\ USB_OutHandle \in [{0, 1} -> Pointers \cup {WILD}]
    /\ USB_InHandle0 \in Pointers \cup {WILD}
    /\ JTAG_State \in {"BIT_BANG", "BYTE_SHIFT"}
    /\ ocpy \in 0..(UINT16 - 1) /\ txsize \in 0..TX_MAX
    /\ ep \in {"in", "out"} /\ handle \in Pointers \cup {WILD}
    /\ SSPEN \in BOOLEAN /\ BF \in BOOLEAN /\ shifting \in BOOLEAN
    /\ TMRIF \in BOOLEAN
    /\ ep1In \in Eps(0) /\ ep2Out \in Eps(OUT_MAX)

(***************************************************************************)
(* A bus reset between the NULL check of USBTransferOnePacket and          *)
(* USBAdvancePingPongBuffer makes the toggle turn the null pointer into    *)
(* address 4.  No transfer ever uses it: the device state stops the main   *)
(* task, and USBEnableEndpoint sets the pointer before it runs again       *)
(* (usb_device.c:1013, 1039, 1044, 1560-1568, main.c:137).                 *)
(***************************************************************************)
WildNeverUsed == handle # WILD

(***************************************************************************)
(* Wherever in a pass the interrupt came, whenever the main task is between*)
(* two passes of a configured device, software and SIE agree: one          *)
(* descriptor at most is armed, the SIE's next; the pointer follows it, and*)
(* the handle that the next pass polls is that descriptor's.               *)
(***************************************************************************)
InStep(e) ==
    /\ ~e.bd[1 - e.sie].uown
    /\ e.next = IF Armed(e) THEN 1 - e.sie ELSE e.sie
AgreeBetweenPasses ==
    pc = "loop" /\ usb = "configured" =>
        /\ InStep(ep1In) /\ InStep(ep2Out)
        /\ Armed(ep1In) => USB_InHandle0 = ep1In.sie
        /\ Armed(ep2Out) => /\ Rx_State # INIT
                            /\ USB_OutHandle[Rx_State] = ep2Out.sie

\* Every pass comes to its end, whatever the interrupt does in it: the main
\* task does not wait for a byte that the SPI module is not shifting
\* (jtag.c:91-94).
PassEnds == []<>(pc = "loop")

\* "Every 10ms there is some packet" (main.c:71-75): once the device stays
\* configured, EP1 is armed and polled again and again.
PacketsKeepComing ==
    <>[](usb = "configured") => []<>Armed(ep1In) /\ []<>~Armed(ep1In)
=============================================================================
