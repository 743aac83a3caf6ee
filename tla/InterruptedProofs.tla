-------------------------- MODULE InterruptedProofs --------------------------
(***************************************************************************)
(* No transfer ever uses the pointer that a bus reset inside               *)
(* USBTransferOnePacket breaks, and software and SIE agree when a pass of  *)
(* the main loop ends, for every size of ring and packets.                 *)
(***************************************************************************)
EXTENDS Interrupted, TLAPS
-----------------------------------------------------------------------------
(***************************************************************************)
(* The inductive invariant behind WildNeverUsed.                           *)
(***************************************************************************)
InCall == {"fetch", "fill", "own", "advance"}

\* A configured endpoint has a pointer to one of its descriptors.
PointersSet ==
    usb = "configured" => ep1In.next \in {0, 1} /\ ep2Out.next \in {0, 1}

\* The pointer of an endpoint whose transfer is still to come in this pass is
\* not broken; it breaks when it is advanced after a reset.
PointersWhole ==
    /\ pc \in {"rx", "length", "state"} \/ (pc \in InCall /\ ep = "out")
          => ep2Out.next # WILD
    /\ pc # "loop" /\ ~(pc = "return" /\ ep = "in") => ep1In.next # WILD

\* Neither are the copies that are kept of it.
HandlesWhole ==
    /\ handle # WILD /\ USB_InHandle0 # WILD
    /\ USB_OutHandle[0] # WILD /\ USB_OutHandle[1] # WILD
    /\ pc \in {"fill", "own", "advance"} => handle \in {0, 1}

\* What the main task has just tested is still true.
TestsHold ==
    /\ pc \in {"length", "state"} => case # INIT
    /\ pc \in {"wait", "reply shift", "next"} => RxSize > 0

WildInv == PointersSet /\ PointersWhole /\ HandlesWhole /\ TestsHold
-----------------------------------------------------------------------------
\* The parts of TypeOK.
PlaceType ==
    /\ pc \in {"loop", "rx", "length", "state", "initialized", "jtag", "bang",
               "reply bang", "goto shift", "set shift", "shift", "wait",
               "reply shift", "next", "next size", "shifted", "tx", "take",
               "fetch", "fill", "own", "advance", "return"}
    /\ usb \in {"default", "configured"} /\ again \in 0..Again
    /\ ep \in {"in", "out"} /\ JTAG_State \in {"BIT_BANG", "BYTE_SHIFT"}
SwitchType ==
    /\ SSPEN \in BOOLEAN /\ BF \in BOOLEAN /\ shifting \in BOOLEAN
    /\ TMRIF \in BOOLEAN
RxType ==
    /\ Rx_State \in {INIT, 0, 1} /\ case \in {INIT, 0, 1}
    /\ RxSize \in 0..(RING - 1) /\ ByteSize \in 0..(RING - 1)
TxType == ocpy \in 0..(UINT16 - 1) /\ txsize \in 0..TX_MAX
HandleType ==
    /\ USB_OutHandle \in [{0, 1} -> Pointers \cup {WILD}]
    /\ USB_InHandle0 \in Pointers \cup {WILD}
    /\ handle \in Pointers \cup {WILD}
BdtType == ep1In \in Eps(0) /\ ep2Out \in Eps(OUT_MAX)
-----------------------------------------------------------------------------
(***************************************************************************)
(* What the functions of usb_device.c make of an endpoint is an endpoint.  *)
(***************************************************************************)
LEMMA InitEp ==
    ASSUME NEW size \in Nat
    PROVE  USBDeviceInit \in Eps(size) /\ USBEnableEndpoint \in Eps(size)
BY DEF USBDeviceInit, USBEnableEndpoint, Idle, Eps, Descriptors, Pointers,
       NULL, WILD

LEMMA NextEp ==
    ASSUME NEW size \in Nat, NEW e \in Eps(size), NEW p \in Pointers \cup {WILD}
    PROVE  [e EXCEPT !.next = p] \in Eps(size)
BY DEF Eps

LEMMA OwnEp ==
    ASSUME NEW size \in Nat, NEW e \in Eps(size), NEW i \in {0, 1}
    PROVE  [e EXCEPT !.bd[i].uown = TRUE] \in Eps(size)
BY ZenonT(60) DEF Eps, Descriptors

LEMMA FillEp ==
    ASSUME NEW size \in Nat, NEW e \in Eps(size), NEW i \in {0, 1},
           NEW n \in 0..size
    PROVE  [e EXCEPT !.bd[i] =
              [@ EXCEPT !.stall = FALSE, !.uown = FALSE, !.cnt = n]]
           \in Eps(size)
BY ZenonT(60) DEF Eps, Descriptors

LEMMA SieEp ==
    ASSUME NEW size \in Nat, NEW e \in Eps(size), NEW n \in 0..size
    PROVE  SieComplete(e, n) \in Eps(size)
<1> DEFINE d == [e.bd[e.sie] EXCEPT !.uown = FALSE, !.cnt = n]
           f == [e EXCEPT !.bd[e.sie] = d]
<1>1. f \in Eps(size) /\ e.sie \in {0, 1}
  <2>1. d \in Descriptors(size, {0})
    BY DEF Eps, Descriptors
  <2>2. QED
    BY <2>1 DEF Eps
<1>2. [f EXCEPT !.sie = 1 - e.sie] \in Eps(size)
  <2> HIDE DEF f
  <2>1. QED
    BY <1>1 DEF Eps
<1>3. QED
  BY <1>2 DEF SieComplete

-----------------------------------------------------------------------------
\* The remainder that the wrapping of uint8_t and uint16_t is.
LEMMA ModRange ==
    ASSUME NEW n \in Int, NEW m \in Nat \ {0}
    PROVE  n % m \in 0..(m - 1)
OBVIOUS

LEMMA Uint16 == UINT16 \in Nat \ {0}
BY InterruptedAssumption DEF UINT16

(***************************************************************************)
(* Type correctness, one part of the state at a time: first the actions    *)
(* that compute something, then those that copy, reset or leave alone.     *)
(***************************************************************************)
LEMMA PlaceStep ==
    ASSUME PlaceType, [Next]_vars
    PROVE  PlaceType'
<1>1. CASE SetConfiguration
  <2>1. again' = again \/ (again < Again /\ again' = again + 1)
    BY <1>1 DEF SetConfiguration
  <2>2. again \in 0..Again
    BY DEF PlaceType
  <2>3. again' \in 0..Again
    BY <2>1, <2>2, InterruptedAssumption
  <2>4. /\ pc' = pc /\ usb' = "configured" /\ ep' = ep
        /\ JTAG_State' = "BIT_BANG"
    BY <1>1 DEF SetConfiguration, USB_Ept_Init, callVars
  <2>5. QED
    BY <2>3, <2>4 DEF PlaceType
<1>2. CASE ~SetConfiguration
  BY <1>2
     DEF Next, Main_Task_Blaster, USBTransferOnePacket_Steps, Interrupt, vars,
         rxVars, jtagVars, txVars, callVars, spiVars, usbVars, Call, SetEp,
         MainLoop, Fetch, Fill1, Own, Advance, ReturnIn, ReturnOut, Rx,
         RxLength, RxState, RxInitialized, Jtag, Bang, GotoShift, SetShift,
         Reply, Shift, Wait, NextShift, NextSize, Shifted, Tx, Take,
         TimerExpires, ShiftDone, HostSends, HostReceives, BusReset,
         Deconfigure, PlaceType
<1>3. QED
  BY <1>1, <1>2

LEMMA SwitchStep ==
    ASSUME SwitchType, [Next]_vars
    PROVE  SwitchType'
BY DEF Next, Main_Task_Blaster, USBTransferOnePacket_Steps, Interrupt, vars,
       rxVars, jtagVars, txVars, callVars, spiVars, usbVars, Call, SetEp,
       MainLoop, Fetch, Fill1, Own, Advance, ReturnIn, ReturnOut, Rx,
       RxLength, RxState, RxInitialized, Jtag, Bang, GotoShift, SetShift,
       Reply, Shift, Wait, NextShift, NextSize, Shifted, Tx, Take,
       TimerExpires, ShiftDone, HostSends, HostReceives, BusReset,
       Deconfigure, SetConfiguration, USB_Ept_Init, JTAG_Mode_SPI, SwitchType

\* TestsHold keeps RxSize from wrapping below zero and case from being INIT.
LEMMA RxStep ==
    ASSUME RxType, BdtType, HandleType, WildInv, [Next]_vars
    PROVE  RxType'
<1>1. CASE RxLength
  <2>1. /\ case \in {0, 1}
        /\ \A i \in {0, 1} : ep2Out.bd[i].cnt \in 0..(RING - 1)
    BY <1>1, InterruptedAssumption
       DEF RxLength, WildInv, TestsHold, RxType, BdtType, Eps, Descriptors
  <2>2. USB_OutHandle[case] \in {0, 1, NULL}
    BY <2>1 DEF WildInv, HandlesWhole, HandleType, Pointers
  <2>3. RxSize' \in 0..(RING - 1)
    BY <1>1, <2>1, <2>2, InterruptedAssumption
       DEF RxLength, USBHandleGetLength
  <2>4. QED
    BY <1>1, <2>3 DEF RxLength, RxType, INIT, jtagVars
<1>2. CASE RxState
  <2>1. case \in {0, 1}
    BY <1>2 DEF RxState, WildInv, TestsHold, RxType, INIT
  <2>2. QED
    BY <1>2, <2>1 DEF RxState, RxType, INIT, jtagVars
<1>3. CASE Bang
  <2>1. RxSize = 0 => RxSize' = RxSize
    BY <1>3 DEF Bang
  <2>2. RxSize # 0 => RxSize' = RxSize - 1
    BY <1>3 DEF Bang
  <2>3. RxSize' \in 0..(RING - 1)
    BY <2>1, <2>2, InterruptedAssumption DEF RxType
  <2>4. QED
    BY <1>3, <2>3 DEF Bang, RxType, jtagVars
<1>4. CASE GotoShift
  <2>1. ByteSize' \in 0..OUT_MAX
    BY <1>4 DEF GotoShift
  <2>2. ByteSize' \in 0..(RING - 1)
    BY <2>1, InterruptedAssumption
  <2>3. QED
    BY <1>4, <2>2 DEF GotoShift, RxType, rxVars
<1>5. CASE NextShift
  <2>1. RxSize > 0 /\ RxSize' = RxSize - 1
    BY <1>5 DEF NextShift, WildInv, TestsHold
  <2>2. RxSize' \in 0..(RING - 1)
    BY <2>1, InterruptedAssumption DEF RxType
  <2>3. QED
    BY <1>5, <2>2 DEF NextShift, RxType, jtagVars
<1>6. CASE NextSize
  <2>1. ByteSize' = (ByteSize + RING - 1) % RING
    BY <1>6 DEF NextSize
  <2>2. ByteSize' \in 0..(RING - 1)
    BY <2>1, InterruptedAssumption, ModRange DEF RxType
  <2>3. QED
    BY <1>6, <2>2 DEF NextSize, RxType, rxVars
<1>7. CASE ~(RxLength \/ RxState \/ Bang \/ GotoShift \/ NextShift \/
             NextSize)
  <2>1. /\ RxSize' \in {RxSize, 0} /\ ByteSize' \in {ByteSize, 0}
        /\ Rx_State' \in {INIT, 0, 1} /\ case' \in {INIT, 0, 1}
    <3> USE DEF Next, Main_Task_Blaster, USBTransferOnePacket_Steps, Interrupt,
                vars, rxVars, jtagVars, txVars, callVars, spiVars, usbVars,
                Call, SetEp, MainLoop, Fetch, Fill1, Own, Advance, ReturnIn,
                ReturnOut, Rx, RxInitialized, Jtag, SetShift, Reply, Shift,
                Wait, Shifted, Tx, Take, TimerExpires, ShiftDone, HostSends,
                HostReceives, BusReset, Deconfigure, SetConfiguration,
                USB_Ept_Init
    <3>1. RxSize' \in {RxSize, 0} /\ ByteSize' \in {ByteSize, 0}
      BY <1>7
    <3>2. Rx_State' \in {INIT, 0, 1} /\ case' \in {INIT, 0, 1}
      BY <1>7 DEF RxType, INIT
    <3>3. QED
      BY <3>1, <3>2
  <2>2. QED
    BY <2>1, InterruptedAssumption DEF RxType
<1>8. QED
  BY <1>1, <1>2, <1>3, <1>4, <1>5, <1>6, <1>7

\* The ring's count wraps within its width, a packet is at most TX_MAX.
LEMMA TxStep ==
    ASSUME TxType, [Next]_vars
    PROVE  TxType'
<1>1. CASE Reply
  <2>1. ocpy' = (ocpy + 1) % UINT16
    BY <1>1 DEF Reply
  <2>2. ocpy' \in 0..(UINT16 - 1)
    BY <2>1, Uint16, ModRange DEF TxType
  <2>3. QED
    BY <1>1, <2>2 DEF Reply, TxType, txVars
<1>2. CASE Take
  <2>1. ocpy' = (ocpy + UINT16 - txsize) % UINT16 /\ txsize' = 0
    BY <1>2 DEF Take
  <2>2. ocpy' \in 0..(UINT16 - 1)
    BY <2>1, Uint16, ModRange, InterruptedAssumption DEF TxType
  <2>3. QED
    BY <2>1, <2>2, InterruptedAssumption DEF TxType
<1>3. CASE Tx
  <2>1. \/ txsize' = txsize \/ txsize' = TX_MAX
        \/ txsize' = Fill /\ Fill < TX_MAX
    BY <1>3 DEF Tx
  <2>2. Fill \in Nat
    BY InterruptedAssumption, ModRange DEF Fill, TxType
  <2>3. txsize' \in 0..TX_MAX
    BY <2>1, <2>2, InterruptedAssumption DEF TxType
  <2>4. QED
    BY <1>3, <2>3 DEF Tx, TxType
<1>4. CASE ~(Reply \/ Take \/ Tx)
  <2>1. ocpy' \in {ocpy, 0} /\ txsize' = txsize
    BY <1>4
       DEF Next, Main_Task_Blaster, USBTransferOnePacket_Steps, Interrupt,
           vars, rxVars, jtagVars, txVars, callVars, spiVars, usbVars, Call,
           SetEp, MainLoop, Fetch, Fill1, Own, Advance, ReturnIn, ReturnOut,
           Rx, RxLength, RxState, RxInitialized, Jtag, Bang, GotoShift,
           SetShift, Shift, Wait, NextShift, NextSize, Shifted, TimerExpires,
           ShiftDone, HostSends, HostReceives, BusReset, Deconfigure,
           SetConfiguration, USB_Ept_Init
  <2>2. QED
    BY <2>1, Uint16 DEF TxType
<1>5. QED
  BY <1>1, <1>2, <1>3, <1>4

LEMMA HandleStep ==
    ASSUME HandleType, PlaceType, RxType, BdtType, [Next]_vars
    PROVE  HandleType'
<1>1. CASE Fetch
  BY <1>1 DEF Fetch, Ep, rxVars, txVars, HandleType, BdtType, Eps
<1>2. CASE ReturnIn
  BY <1>2 DEF ReturnIn, rxVars, HandleType, Pointers
<1>3. CASE ReturnOut
  BY <1>3 DEF ReturnOut, txVars, HandleType, Pointers, RxType, INIT
<1>4. CASE SetConfiguration
  BY <1>4 DEF SetConfiguration, USB_Ept_Init, callVars, HandleType, Pointers
<1>5. CASE ~(Fetch \/ ReturnIn \/ ReturnOut \/ SetConfiguration)
  BY <1>5
     DEF Next, Main_Task_Blaster, USBTransferOnePacket_Steps, Interrupt, vars,
         rxVars, jtagVars, txVars, callVars, spiVars, usbVars, Call, SetEp,
         MainLoop, Fill1, Own, Advance, Rx, RxLength, RxState, RxInitialized,
         Jtag, Bang, GotoShift, SetShift, Reply, Shift, Wait, NextShift,
         NextSize, Shifted, Tx, Take, TimerExpires, ShiftDone, HostSends,
         HostReceives, BusReset, Deconfigure, HandleType
<1>6. QED
  BY <1>1, <1>2, <1>3, <1>4, <1>5

\* Stores through a handle hit a descriptor.
LEMMA BdtStep ==
    ASSUME BdtType, PlaceType, WildInv, [Next]_vars
    PROVE  BdtType'
<1>1. CASE Fill1
  <2>1. /\ handle \in {0, 1} /\ OUT_MAX \in Nat
        /\ 0 \in 0..0 /\ OUT_MAX \in 0..OUT_MAX
    BY <1>1, InterruptedAssumption DEF Fill1, WildInv, HandlesWhole
  <2>2. CASE ep = "in"
    <3>1. /\ ep1In' = [ep1In EXCEPT !.bd[handle] =
               [@ EXCEPT !.stall = FALSE, !.uown = FALSE, !.cnt = 0]]
          /\ ep2Out' = ep2Out
      BY <1>1, <2>2 DEF Fill1, Ep, SetEp
    <3>2. ep1In' \in Eps(0)
      BY <2>1, <3>1, FillEp DEF BdtType
    <3>3. QED
      BY <3>1, <3>2 DEF BdtType
  <2>3. CASE ep = "out"
    <3>1. /\ ep2Out' = [ep2Out EXCEPT !.bd[handle] =
               [@ EXCEPT !.stall = FALSE, !.uown = FALSE, !.cnt = OUT_MAX]]
          /\ ep1In' = ep1In
      BY <1>1, <2>3 DEF Fill1, Ep, SetEp
    <3>2. ep2Out' \in Eps(OUT_MAX)
      BY <2>1, <3>1, FillEp DEF BdtType
    <3>3. QED
      BY <3>1, <3>2 DEF BdtType
  <2>4. QED
    BY <2>2, <2>3 DEF PlaceType
<1>2. CASE Own
  <2>1. handle \in {0, 1} /\ OUT_MAX \in Nat
    BY <1>2, InterruptedAssumption DEF Own, WildInv, HandlesWhole
  <2>2. CASE ep = "in"
    <3>1. /\ ep1In' = [ep1In EXCEPT !.bd[handle].uown = TRUE]
          /\ ep2Out' = ep2Out
      BY <1>2, <2>2 DEF Own, Ep, SetEp
    <3>2. QED
      BY <2>1, <3>1, OwnEp DEF BdtType
  <2>3. CASE ep = "out"
    <3>1. /\ ep2Out' = [ep2Out EXCEPT !.bd[handle].uown = TRUE]
          /\ ep1In' = ep1In
      BY <1>2, <2>3 DEF Own, Ep, SetEp
    <3>2. QED
      BY <2>1, <3>1, OwnEp DEF BdtType
  <2>4. QED
    BY <2>2, <2>3 DEF PlaceType
<1>3. CASE Advance
  <2>1. /\ OUT_MAX \in Nat
        /\ \A p \in Pointers \cup {WILD} : Toggled(p) \in Pointers \cup {WILD}
    BY InterruptedAssumption DEF Toggled, Pointers, NULL, WILD
  <2>2. CASE ep = "in"
    BY <1>3, <2>1, <2>2, NextEp
       DEF Advance, Ep, SetEp, BdtType, Eps, USBAdvancePingPongBuffer
  <2>3. CASE ep = "out"
    BY <1>3, <2>1, <2>3, NextEp
       DEF Advance, Ep, SetEp, BdtType, Eps, USBAdvancePingPongBuffer
  <2>4. QED
    BY <2>2, <2>3 DEF PlaceType
<1>4. CASE HostSends
  BY <1>4, InterruptedAssumption, SieEp DEF HostSends, BdtType
<1>5. CASE HostReceives
  BY <1>5, InterruptedAssumption, SieEp DEF HostReceives, BdtType
<1>6. CASE BusReset
  BY <1>6, InterruptedAssumption, InitEp DEF BusReset, BdtType
<1>7. CASE Deconfigure
  <2>1. /\ USBDeviceInit \in Eps(0) /\ USBDeviceInit \in Eps(OUT_MAX)
        /\ OUT_MAX \in Nat
    BY InterruptedAssumption, InitEp
  <2>2. /\ ep1In.next \in Pointers \cup {WILD}
        /\ ep2Out.next \in Pointers \cup {WILD}
    BY DEF BdtType, Eps
  <2>3. QED
    BY <1>7, <2>1, <2>2, NextEp DEF Deconfigure, BdtType
<1>8. CASE SetConfiguration
  BY <1>8, InterruptedAssumption, InitEp
     DEF SetConfiguration, USB_Ept_Init, Enabled, BdtType
<1>9. CASE ~(Fill1 \/ Own \/ Advance \/ HostSends \/ HostReceives \/ BusReset
             \/ Deconfigure \/ SetConfiguration)
  BY <1>9
     DEF Next, Main_Task_Blaster, USBTransferOnePacket_Steps, Interrupt, vars,
         rxVars, jtagVars, txVars, callVars, spiVars, usbVars, Call, SetEp,
         MainLoop, Fetch, ReturnIn, ReturnOut, Rx, RxLength, RxState,
         RxInitialized, Jtag, Bang, GotoShift, SetShift, Reply, Shift, Wait,
         NextShift, NextSize, Shifted, Tx, Take, TimerExpires, ShiftDone,
         BdtType
<1>10. QED
  BY <1>1, <1>2, <1>3, <1>4, <1>5, <1>6, <1>7, <1>8, <1>9

LEMMA TypeStep ==
    ASSUME TypeOK, WildInv, [Next]_vars
    PROVE  TypeOK'
<1>1. PlaceType /\ SwitchType /\ RxType /\ TxType /\ HandleType /\ BdtType
  BY DEF TypeOK, PlaceType, SwitchType, RxType, TxType, HandleType, BdtType
<1>2. PlaceType' /\ SwitchType'
  BY <1>1, PlaceStep, SwitchStep
<1>3. RxType' /\ TxType'
  BY <1>1, RxStep, TxStep
<1>4. HandleType' /\ BdtType'
  BY <1>1, HandleStep, BdtStep
<1>5. QED
  BY <1>2, <1>3, <1>4
     DEF TypeOK, PlaceType, SwitchType, RxType, TxType, HandleType, BdtType

-----------------------------------------------------------------------------
(***************************************************************************)
(* The inductive invariant.  A pass starts only on a configured device,    *)
(* where USBEnableEndpoint has set the pointers; a reset in the pass makes *)
(* them null, and the call that is under way breaks one of them at most    *)
(* when it advances it, behind the last use in this pass.                  *)
(***************************************************************************)
LEMMA PointersStep ==
    ASSUME PointersSet, PointersWhole, PlaceType, BdtType, [Next]_vars
    PROVE  PointersSet' /\ PointersWhole'
<1>1. CASE Fill1
  <2>1. /\ usb' = usb /\ ep' = ep /\ pc = "fill" /\ pc' = "own"
        /\ ep1In'.next = ep1In.next /\ ep2Out'.next = ep2Out.next
    BY <1>1 DEF Fill1, Ep, SetEp, callVars, BdtType, Eps
  <2>2. QED
    BY <2>1 DEF PointersSet, PointersWhole, InCall
<1>2. CASE Own
  <2>1. /\ usb' = usb /\ ep' = ep /\ pc = "own" /\ pc' = "advance"
        /\ ep1In'.next = ep1In.next /\ ep2Out'.next = ep2Out.next
    BY <1>2 DEF Own, Ep, SetEp, callVars, BdtType, Eps
  <2>2. QED
    BY <2>1 DEF PointersSet, PointersWhole, InCall
<1>3. CASE Advance
  <2>1. usb' = usb /\ ep' = ep /\ pc = "advance" /\ pc' = "return"
    BY <1>3 DEF Advance, SetEp, callVars
  <2>2. CASE ep = "in"
    <3>1. /\ ep1In'.next = Toggled(ep1In.next) /\ ep2Out' = ep2Out
      BY <1>3, <2>2
         DEF Advance, Ep, SetEp, BdtType, Eps, USBAdvancePingPongBuffer
    <3>2. QED
      BY <2>1, <2>2, <3>1
         DEF PointersSet, PointersWhole, InCall, Toggled, NULL, WILD
  <2>3. CASE ep = "out"
    <3>1. /\ ep2Out'.next = Toggled(ep2Out.next) /\ ep1In' = ep1In
      BY <1>3, <2>3
         DEF Advance, Ep, SetEp, BdtType, Eps, USBAdvancePingPongBuffer
    <3>2. QED
      BY <2>1, <2>3, <3>1
         DEF PointersSet, PointersWhole, InCall, Toggled, NULL, WILD
  <2>4. QED
    BY <2>2, <2>3 DEF PlaceType
<1>4. CASE HostSends
  <2>1. /\ usb' = usb /\ ep' = ep /\ pc' = pc
        /\ ep1In'.next = ep1In.next /\ ep2Out'.next = ep2Out.next
    BY <1>4 DEF HostSends, SieComplete, callVars, BdtType, Eps
  <2>2. QED
    BY <2>1 DEF PointersSet, PointersWhole, InCall
<1>5. CASE HostReceives
  <2>1. /\ usb' = usb /\ ep' = ep /\ pc' = pc
        /\ ep1In'.next = ep1In.next /\ ep2Out'.next = ep2Out.next
    BY <1>5 DEF HostReceives, SieComplete, callVars, BdtType, Eps
  <2>2. QED
    BY <2>1 DEF PointersSet, PointersWhole, InCall
<1>6. CASE BusReset
  <2>1. usb' = "default" /\ ep1In'.next = NULL /\ ep2Out'.next = NULL
    BY <1>6 DEF BusReset, USBDeviceInit
  <2>2. QED
    BY <2>1 DEF PointersSet, PointersWhole, NULL, WILD
<1>7. CASE Deconfigure
  <2>1. /\ usb' = "default" /\ ep' = ep /\ pc' = pc
        /\ ep1In'.next = ep1In.next /\ ep2Out'.next = ep2Out.next
    BY <1>7 DEF Deconfigure, USBDeviceInit, callVars
  <2>2. QED
    BY <2>1 DEF PointersSet, PointersWhole, InCall
<1>8. CASE SetConfiguration
  <2>1. ep1In'.next = 0 /\ ep2Out'.next = 0
    BY <1>8 DEF SetConfiguration, USB_Ept_Init, Enabled, USBEnableEndpoint
  <2>2. QED
    BY <2>1 DEF PointersSet, PointersWhole, WILD
<1>9. CASE ~(Fill1 \/ Own \/ Advance \/ HostSends \/ HostReceives \/ BusReset
             \/ Deconfigure \/ SetConfiguration)
  <2>1. /\ ep1In'.next = ep1In.next /\ ep2Out'.next = ep2Out.next
        /\ usb' = usb
        /\ (pc' \in {"rx", "length", "state"} \/ (pc' \in InCall /\ ep' = "out")
             => \/ pc \in {"rx", "length", "state"}
                \/ pc \in InCall /\ ep = "out"
                \/ usb = "configured")
        /\ (pc' # "loop" /\ ~(pc' = "return" /\ ep' = "in")
             => \/ pc # "loop" /\ ~(pc = "return" /\ ep = "in")
                \/ usb = "configured")
    <3> USE DEF Next, Main_Task_Blaster, USBTransferOnePacket_Steps, Interrupt,
                vars, rxVars, jtagVars, txVars, callVars, spiVars, usbVars,
                Call, SetEp, MainLoop, Fetch, ReturnIn, ReturnOut, Rx, RxLength,
                RxState, RxInitialized, Jtag, Bang, GotoShift, SetShift, Reply,
                Shift, Wait, NextShift, NextSize, Shifted, Tx, Take,
                TimerExpires, ShiftDone
    <3>1. ep1In'.next = ep1In.next /\ ep2Out'.next = ep2Out.next
      BY <1>9
    <3>2. usb' = usb
      BY <1>9
    <3>3. pc' \in {"rx", "length", "state"} \/ (pc' \in InCall /\ ep' = "out")
         => \/ pc \in {"rx", "length", "state"}
            \/ pc \in InCall /\ ep = "out"
            \/ usb = "configured"
      BY <1>9 DEF MayRun, InCall
    <3>4. pc' # "loop" /\ ~(pc' = "return" /\ ep' = "in")
         => \/ pc # "loop" /\ ~(pc = "return" /\ ep = "in")
            \/ usb = "configured"
      BY <1>9 DEF MayRun
    <3>5. QED
      BY <3>1, <3>2, <3>3, <3>4
  <2>2. QED
    BY <2>1 DEF PointersSet, PointersWhole, WILD
<1>10. QED
  BY <1>1, <1>2, <1>3, <1>4, <1>5, <1>6, <1>7, <1>8, <1>9

LEMMA HandlesWholeStep ==
    ASSUME HandlesWhole, PointersWhole, HandleType, RxType, PlaceType,
           BdtType, [Next]_vars
    PROVE  HandlesWhole'
<1>1. CASE Fetch
  <2>1. Ep.next \in {0, 1, NULL}
    BY <1>1 DEF Fetch, Ep, PointersWhole, InCall, PlaceType, BdtType, Eps,
                Pointers
  <2>2. handle' = Ep.next /\ pc' = IF Ep.next = NULL THEN "return" ELSE "fill"
    BY <1>1 DEF Fetch
  <2>3. USB_InHandle0' = USB_InHandle0 /\ USB_OutHandle' = USB_OutHandle
    BY <1>1 DEF Fetch, rxVars, txVars
  <2>4. QED
    BY <2>1, <2>2, <2>3 DEF HandlesWhole, NULL, WILD
<1>2. CASE ReturnIn
  BY <1>2 DEF ReturnIn, rxVars, HandlesWhole, NULL, WILD
<1>3. CASE ReturnOut
  <2>1. \A q \in {0, 1} : USB_OutHandle'[q] \in {USB_OutHandle[q], handle}
    BY <1>3 DEF ReturnOut, HandleType, RxType, INIT
  <2>2. handle' = NULL /\ pc' \in {"initialized", "jtag"}
    BY <1>3 DEF ReturnOut
  <2>3. USB_InHandle0' = USB_InHandle0
    BY <1>3 DEF ReturnOut, txVars
  <2>4. QED
    BY <2>1, <2>2, <2>3 DEF HandlesWhole, NULL, WILD
<1>4. CASE SetConfiguration
  <2>1. /\ pc' = pc /\ handle' = handle /\ USB_InHandle0' = NULL
        /\ USB_OutHandle'[0] = NULL /\ USB_OutHandle'[1] = NULL
    BY <1>4 DEF SetConfiguration, USB_Ept_Init, callVars
  <2>2. QED
    BY <2>1 DEF HandlesWhole, NULL, WILD
<1>5. CASE ~(Fetch \/ ReturnIn \/ ReturnOut \/ SetConfiguration)
  BY <1>5
     DEF Next, Main_Task_Blaster, USBTransferOnePacket_Steps, Interrupt, vars,
         rxVars, jtagVars, txVars, callVars, spiVars, usbVars, Call, SetEp,
         MainLoop, Fill1, Own, Advance, Rx, RxLength, RxState, RxInitialized,
         Jtag, Bang, GotoShift, SetShift, Reply, Shift, Wait, NextShift,
         NextSize, Shifted, Tx, Take, TimerExpires, ShiftDone, HostSends,
         HostReceives, BusReset, Deconfigure, HandlesWhole
<1>6. QED
  BY <1>1, <1>2, <1>3, <1>4, <1>5

LEMMA TestsHoldStep ==
    ASSUME TestsHold, RxType, [Next]_vars
    PROVE  TestsHold'
<1>1. CASE SetConfiguration
  <2>1. pc' = pc /\ case' = case /\ RxSize' = RxSize
    BY <1>1 DEF SetConfiguration
  <2>2. QED
    BY <2>1 DEF TestsHold
<1>2. CASE ~SetConfiguration
  BY <1>2
     DEF Next, Main_Task_Blaster, USBTransferOnePacket_Steps, Interrupt, vars,
         rxVars, jtagVars, txVars, callVars, spiVars, usbVars, Call, SetEp,
         MainLoop, Fetch, Fill1, Own, Advance, ReturnIn, ReturnOut, Rx,
         RxLength, RxState, RxInitialized, Jtag, Bang, GotoShift, SetShift,
         Reply, Shift, Wait, NextShift, NextSize, Shifted, Tx, Take,
         TimerExpires, ShiftDone, HostSends, HostReceives, BusReset,
         Deconfigure, RxType, TestsHold, INIT
<1>3. QED
  BY <1>1, <1>2

LEMMA WildStep ==
    ASSUME TypeOK, WildInv, [Next]_vars
    PROVE  WildInv'
<1>1. /\ PlaceType /\ RxType /\ HandleType /\ BdtType
      /\ PointersSet /\ PointersWhole /\ HandlesWhole /\ TestsHold
  BY DEF TypeOK, PlaceType, RxType, HandleType, BdtType, WildInv
<1>2. PointersSet' /\ PointersWhole'
  BY <1>1, PointersStep
<1>3. HandlesWhole' /\ TestsHold'
  BY <1>1, HandlesWholeStep, TestsHoldStep
<1>4. QED
  BY <1>2, <1>3 DEF WildInv

-----------------------------------------------------------------------------
LEMMA Starts == Init => TypeOK /\ WildInv
<1> SUFFICES ASSUME Init PROVE TypeOK /\ WildInv
  OBVIOUS
<1>1. ep1In \in Eps(0) /\ ep2Out \in Eps(OUT_MAX)
  BY InitEp, InterruptedAssumption DEF Init
<1>2. PlaceType /\ RxType
  BY InterruptedAssumption DEF Init, PlaceType, RxType, INIT
<1>3. SwitchType /\ HandleType
  BY DEF Init, SwitchType, HandleType, Pointers
<1>4. TxType
  BY InterruptedAssumption, Uint16 DEF Init, TxType
<1>5. WildInv
  BY DEF Init, WildInv, PointersSet, PointersWhole, HandlesWhole, TestsHold,
         InCall, NULL, WILD
<1>6. QED
  BY <1>1, <1>2, <1>3, <1>4, <1>5
     DEF TypeOK, PlaceType, SwitchType, RxType, TxType, HandleType

LEMMA Invariance == Spec => [](TypeOK /\ WildInv)
<1>1. TypeOK /\ WildInv /\ [Next]_vars => (TypeOK /\ WildInv)'
  BY TypeStep, WildStep
<1>2. QED
  BY Starts, <1>1, PTL DEF Spec

(***************************************************************************)
(* The variables keep their types, whatever the interrupt does in the      *)
(* middle of a pass: RxSize is not decremented below zero, and the ring's  *)
(* count wraps within its 16 bits (blaster.c:318-364, 484-629).            *)
(***************************************************************************)
THEOREM TypeCorrect == Spec => []TypeOK
BY Invariance, PTL

(***************************************************************************)
(* No transfer uses the pointer that a bus reset in the middle of          *)
(* USBTransferOnePacket breaks (usb_device.c:1013-1044), for rings and     *)
(* packets of any size and any number of reconfigurations in mid-pass.     *)
(***************************************************************************)
THEOREM NeverWild == Spec => []WildNeverUsed
<1>1. WildInv => WildNeverUsed
  BY DEF WildInv, HandlesWhole, WildNeverUsed
<1>2. QED
  BY Invariance, <1>1, PTL
-----------------------------------------------------------------------------
(***************************************************************************)
(* Software and SIE agree between two passes of the main loop, wherever in *)
(* the passes before them a bus reset or SET_CONFIGURATION(0) came.  The   *)
(* assumption Again = 0 is needed: a configuration in mid-pass breaks the  *)
(* agreement.                                                              *)
(***************************************************************************)
(***************************************************************************)
(* The states of an endpoint in step with the SIE: none or one descriptor  *)
(* armed; and in USBTransferOnePacket, armed or already served, the        *)
(* pointer not yet advanced.                                               *)
(***************************************************************************)
Quiet(e) == ~e.bd[0].uown /\ ~e.bd[1].uown
OneArmed(e) == e.bd[e.sie].uown /\ ~e.bd[1 - e.sie].uown

Free(e)    == Quiet(e) /\ e.next = e.sie
Busy(e)    == OneArmed(e) /\ e.next = 1 - e.sie
Handed(e)  == OneArmed(e) /\ e.next = e.sie
Served(e)  == Quiet(e) /\ e.next = 1 - e.sie

\* The steps of a transfer on the endpoint d.
Calling(d) == pc \in {"fetch", "fill", "own", "advance", "return"} /\ ep = d

\* Outside RX handling its local variable has its first value.
CaseScope ==
    /\ pc \in {"length", "state"} => case \in {0, 1}
    /\ pc \notin {"length", "state"} /\ ~Calling("out") => case = INIT

\* What an endpoint looks like at each step of a transfer on it.
TransferInStep(e, d) ==
    /\ IF pc = "advance" /\ ep = d THEN Handed(e) \/ Served(e)
                                   ELSE Free(e) \/ Busy(e)
    /\ pc \in {"fetch", "fill", "own"} /\ ep = d => Free(e)
    /\ pc \in {"fill", "own", "advance"} /\ ep = d => handle = e.next

\* The handle that TX handling polls is that of the armed descriptor.
InAgrees ==
    /\ TransferInStep(ep1In, "in")
    /\ pc = "take" => Free(ep1In)
    /\ Busy(ep1In) => IF pc = "return" /\ ep = "in"
                      THEN handle = ep1In.sie ELSE USB_InHandle0 = ep1In.sie

\* So is the one that RX handling polls in its state.
OutAgrees ==
    /\ TransferInStep(ep2Out, "out")
    /\ pc \in {"length", "state"} => Free(ep2Out)
    /\ Calling("out") => \/ case = INIT /\ Rx_State = INIT
                         \/ case \in {0, 1} /\ Rx_State = 1 - case
    /\ Busy(ep2Out) =>
          IF pc = "return" /\ ep = "out" THEN handle = ep2Out.sie
          ELSE IF pc = "initialized" THEN USB_OutHandle[0] = ep2Out.sie
          ELSE Rx_State # INIT /\ USB_OutHandle[Rx_State] = ep2Out.sie

AgreeInv == CaseScope /\ (usb = "configured" => InAgrees /\ OutAgrees)
-----------------------------------------------------------------------------
(***************************************************************************)
(* What the steps of a transfer and of the SIE make of such an endpoint.   *)
(***************************************************************************)
LEMMA EnabledShape == Free(USBEnableEndpoint)
BY DEF Free, Quiet, USBEnableEndpoint, Idle

LEMMA FillShape ==
    ASSUME NEW size \in Nat, NEW e \in Eps(size), Free(e), NEW n \in 0..size
    PROVE  LET f == [e EXCEPT !.bd[e.next] =
                       [@ EXCEPT !.stall = FALSE, !.uown = FALSE, !.cnt = n]]
           IN  Free(f) /\ f.next = e.next
BY DEF Free, Quiet, Eps, Descriptors, Pointers, NULL, WILD

LEMMA OwnShape ==
    ASSUME NEW size \in Nat, NEW e \in Eps(size), Free(e)
    PROVE  LET f == [e EXCEPT !.bd[e.next].uown = TRUE]
           IN  Handed(f) /\ f.next = e.next
BY DEF Free, Handed, Quiet, OneArmed, Eps, Descriptors, Pointers, NULL, WILD

LEMMA AdvanceShape ==
    ASSUME NEW size \in Nat, NEW e \in Eps(size)
    PROVE  LET f == [e EXCEPT !.next = Toggled(@)]
           IN  /\ Handed(e) => Busy(f) /\ f.sie = e.next
               /\ Served(e) => Free(f)
BY DEF Handed, Served, Busy, Free, Quiet, OneArmed, Eps, Descriptors, Pointers,
       Toggled, NULL, WILD

LEMMA SieShape ==
    ASSUME NEW size \in Nat, NEW e \in Eps(size), NEW n \in 0..size, SieReady(e)
    PROVE  LET f == SieComplete(e, n)
           IN  /\ f.next = e.next
               /\ ~Free(e) /\ ~Served(e)
               /\ Busy(e) => Free(f) /\ ~Busy(f)
               /\ Handed(e) => Served(f)
<1> DEFINE f == SieComplete(e, n)
<1>1. e.sie \in {0, 1}
  BY DEF Eps
<1>2. /\ f.next = e.next /\ f.sie = 1 - e.sie
      /\ ~f.bd[e.sie].uown /\ f.bd[1 - e.sie] = e.bd[1 - e.sie]
  BY <1>1 DEF SieComplete, Eps, Descriptors
<1>3. ~Quiet(e)
  BY <1>1 DEF SieReady, Quiet
<1> HIDE DEF f
<1>4. OneArmed(e) => Quiet(f)
  BY <1>1, <1>2 DEF OneArmed, Quiet
<1>5. QED
  BY <1>1, <1>2, <1>3, <1>4 DEF Free, Busy, Handed, Served, OneArmed, Quiet, f

\* The four states exclude each other.
LEMMA Shapes ==
    ASSUME NEW size \in Nat, NEW e \in Eps(size)
    PROVE  /\ ~(Free(e) /\ Busy(e))
           /\ Free(e) => e.next \in {0, 1} /\ ~Armed(e)
           /\ Busy(e) => e.bd[e.sie].uown /\ e.sie \in {0, 1}
           /\ Free(e) \/ Busy(e) => InStep(e)
           /\ InStep(e) /\ Armed(e) => Busy(e)
           /\ Armed(e) /\ (Free(e) \/ Busy(e)) => Busy(e)
BY DEF Free, Busy, Quiet, OneArmed, Armed, InStep, Eps, Descriptors
-----------------------------------------------------------------------------
LEMMA ScopeStep ==
    ASSUME CaseScope, PlaceType, RxType, [Next]_vars
    PROVE  CaseScope'
<1>1. CASE SetConfiguration
  <2>1. pc' = pc /\ ep' = ep /\ case' = case
    BY <1>1 DEF SetConfiguration, callVars
  <2>2. QED
    BY <2>1 DEF CaseScope, Calling
<1>2. CASE ~SetConfiguration
  <2> USE DEF Next, Main_Task_Blaster, USBTransferOnePacket_Steps, Interrupt,
              vars, rxVars, jtagVars, txVars, callVars, spiVars, usbVars,
              Call, SetEp, MainLoop, Fetch, Fill1, Own, Advance, ReturnIn,
              ReturnOut, Rx, RxLength, RxState, RxInitialized, Jtag, Bang,
              GotoShift, SetShift, Reply, Shift, Wait, NextShift, NextSize,
              Shifted, Tx, Take, TimerExpires, ShiftDone, HostSends,
              HostReceives, BusReset, Deconfigure
  <2>1. QED
    BY <1>2, ZenonT(60) DEF CaseScope, Calling, PlaceType, RxType, INIT
<1>3. QED
  BY <1>1, <1>2

\* InAgrees, while the interrupt does nothing.
LEMMA InStepKept ==
    ASSUME PlaceType, RxType, HandleType, BdtType, BdtType', CaseScope,
           InAgrees, [Next]_vars, ~Interrupt
    PROVE  InAgrees'
<1>0. /\ 0 \in Nat /\ OUT_MAX \in Nat /\ 0 \in 0..0 /\ OUT_MAX \in 0..OUT_MAX
      /\ ep1In \in Eps(0) /\ ep2Out \in Eps(OUT_MAX)
      /\ ep1In' \in Eps(0) /\ ep2Out' \in Eps(OUT_MAX)
  BY InterruptedAssumption DEF BdtType
<1>1. CASE Fetch
  <2>1. /\ pc = "fetch" /\ ep' = ep /\ ep1In' = ep1In
        /\ handle' = Ep.next
        /\ pc' = IF Ep.next = NULL THEN "return" ELSE "fill"
    BY <1>1 DEF Fetch, usbVars
  <2>2. USB_InHandle0' = USB_InHandle0
    BY <1>1 DEF Fetch, txVars
  <2>3. CASE ep = "in"
    <3>1. Ep = ep1In /\ Free(ep1In) /\ ep1In.next \in {0, 1}
      BY <2>1, <2>3, <1>0, Shapes DEF Ep, InAgrees, TransferInStep
    <3>2. pc' = "fill" /\ handle' = ep1In.next
      BY <2>1, <3>1 DEF NULL
    <3>3. QED
      BY <2>1, <2>2, <2>3, <3>1, <3>2, <1>0, Shapes
         DEF InAgrees, TransferInStep, Calling
  <2>4. CASE ep = "out"
    BY <2>1, <2>2, <2>4 DEF InAgrees, TransferInStep, Calling
  <2>5. QED
    BY <2>3, <2>4 DEF PlaceType
<1>2. CASE Fill1
  <2>1. /\ pc = "fill" /\ pc' = "own" /\ ep' = ep /\ handle' = handle
        /\ USB_InHandle0' = USB_InHandle0
    BY <1>2 DEF Fill1, callVars, txVars
  <2>2. CASE ep = "in"
    <3>1. ep1In' = [ep1In EXCEPT !.bd[handle] =
               [@ EXCEPT !.stall = FALSE, !.uown = FALSE, !.cnt = 0]]
      BY <1>2, <2>2 DEF Fill1, Ep, SetEp
    <3>2. handle = ep1In.next /\ Free(ep1In)
      BY <2>1, <2>2 DEF InAgrees, TransferInStep
    <3>3. Free(ep1In') /\ ep1In'.next = handle
      BY <1>0, <3>1, <3>2, FillShape, ZenonT(60)
    <3>4. QED
      BY <1>0, <2>1, <2>2, <3>3, Shapes DEF InAgrees, TransferInStep, Calling
  <2>3. CASE ep = "out"
    <3>1. ep1In' = ep1In
      BY <1>2, <2>3 DEF Fill1, SetEp
    <3>2. QED
      BY <2>1, <2>3, <3>1 DEF InAgrees, TransferInStep, Calling
  <2>4. QED
    BY <2>2, <2>3 DEF PlaceType
<1>3. CASE Own
  <2>1. /\ pc = "own" /\ pc' = "advance" /\ ep' = ep /\ handle' = handle
        /\ USB_InHandle0' = USB_InHandle0
    BY <1>3 DEF Own, callVars, txVars
  <2>2. CASE ep = "in"
    <3>1. ep1In' = [ep1In EXCEPT !.bd[handle].uown = TRUE]
      BY <1>3, <2>2 DEF Own, Ep, SetEp
    <3>2. handle = ep1In.next /\ Free(ep1In)
      BY <2>1, <2>2 DEF InAgrees, TransferInStep
    <3>3. Handed(ep1In') /\ ep1In'.next = handle
      BY <1>0, <3>1, <3>2, OwnShape
    <3>4. QED
      BY <1>0, <2>1, <2>2, <3>3, Shapes
         DEF InAgrees, TransferInStep, Calling, Handed, Busy, Eps
  <2>3. CASE ep = "out"
    <3>1. ep1In' = ep1In
      BY <1>3, <2>3 DEF Own, SetEp
    <3>2. QED
      BY <2>1, <2>3, <3>1 DEF InAgrees, TransferInStep, Calling
  <2>4. QED
    BY <2>2, <2>3 DEF PlaceType
<1>4. CASE Advance
  <2>1. /\ pc = "advance" /\ pc' = "return" /\ ep' = ep /\ handle' = handle
        /\ USB_InHandle0' = USB_InHandle0
    BY <1>4 DEF Advance, callVars, txVars
  <2>2. CASE ep = "in"
    <3>1. ep1In' = [ep1In EXCEPT !.next = Toggled(@)]
      BY <1>4, <2>2 DEF Advance, Ep, SetEp, USBAdvancePingPongBuffer
    <3>2. handle = ep1In.next /\ (Handed(ep1In) \/ Served(ep1In))
      BY <2>1, <2>2 DEF InAgrees, TransferInStep
    <3>3. \/ Busy(ep1In') /\ handle = ep1In'.sie
          \/ Free(ep1In')
      BY <1>0, <3>1, <3>2, AdvanceShape
    <3>4. QED
      BY <1>0, <2>1, <2>2, <3>3, Shapes DEF InAgrees, TransferInStep, Calling
  <2>3. CASE ep = "out"
    <3>1. ep1In' = ep1In
      BY <1>4, <2>3 DEF Advance, SetEp
    <3>2. QED
      BY <2>1, <2>3, <3>1 DEF InAgrees, TransferInStep, Calling
  <2>4. QED
    BY <2>2, <2>3 DEF PlaceType
<1>5. CASE ReturnIn
  BY <1>5 DEF ReturnIn, usbVars, InAgrees, TransferInStep
<1>6. CASE Tx
  <2>1. /\ pc = "tx" /\ ep1In' = ep1In /\ USB_InHandle0' = USB_InHandle0
        /\ \/ InFree /\ pc' \in {"take", "fetch"}
           \/ pc' = "loop"
        /\ pc' # "fetch" => ep' = ep
    BY <1>6 DEF Tx, Call, usbVars, callVars
  <2>2. Free(ep1In) \/ Busy(ep1In)
    BY <2>1 DEF InAgrees, TransferInStep
  <2>3. Busy(ep1In) => USB_InHandle0 = ep1In.sie /\ ep1In.bd[ep1In.sie].uown
    BY <1>0, <2>1, Shapes DEF InAgrees
  <2>4. InFree => Free(ep1In)
    BY <1>0, <2>2, <2>3, Shapes DEF InFree, USBHandleBusy, NULL
  <2>5. QED
    BY <2>1, <2>2, <2>3, <2>4 DEF InAgrees, TransferInStep
<1>7. CASE Take
  <2>1. /\ pc = "take" /\ pc' = "fetch" /\ ep1In' = ep1In
        /\ USB_InHandle0' = USB_InHandle0
    BY <1>7 DEF Take, Call, usbVars
  <2>2. Free(ep1In) /\ ~Busy(ep1In)
    BY <1>0, <2>1, Shapes DEF InAgrees
  <2>3. QED
    BY <2>1, <2>2 DEF InAgrees, TransferInStep
<1>8. CASE HostReceives
  <2>1. /\ pc' = pc /\ ep' = ep /\ handle' = handle
        /\ USB_InHandle0' = USB_InHandle0
    BY <1>8 DEF HostReceives, callVars, txVars
  <2>2. SieReady(ep1In) /\ ep1In' = SieComplete(ep1In, 0)
    BY <1>8 DEF HostReceives
  <2>3. /\ ep1In'.next = ep1In.next /\ ~Free(ep1In) /\ ~Served(ep1In)
        /\ Busy(ep1In) => Free(ep1In') /\ ~Busy(ep1In')
        /\ Handed(ep1In) => Served(ep1In')
    BY <1>0, <2>2, SieShape
  <2>4. Served(ep1In') => ~Busy(ep1In')
    BY <1>0 DEF Served, Busy, Quiet, OneArmed, Eps
  <2>5. QED
    BY <2>1, <2>3, <2>4 DEF InAgrees, TransferInStep
<1>9. CASE ~(Fetch \/ Fill1 \/ Own \/ Advance \/ ReturnIn \/ Tx \/ Take
             \/ HostReceives)
  <2> USE DEF Next, Main_Task_Blaster, USBTransferOnePacket_Steps, Interrupt,
              vars, rxVars, jtagVars, txVars, callVars, spiVars, usbVars,
              Call, SetEp, MainLoop, ReturnOut, Rx, RxLength, RxState,
              RxInitialized, Jtag, Bang, GotoShift, SetShift, Reply, Shift,
              Wait, NextShift, NextSize, Shifted, TimerExpires, ShiftDone,
              HostSends
  <2>1. ep1In' = ep1In /\ USB_InHandle0' = USB_InHandle0
    BY <1>9
  <2>2. pc \in {"fetch", "fill", "own", "advance"}
           => pc' = pc /\ ep' = ep /\ handle' = handle
    BY <1>9
  <2>3. pc' \in {"fetch", "fill", "own", "advance"} /\ ep' = "in"
           => pc \in {"fetch", "fill", "own", "advance"}
    BY <1>9
  <2>4. /\ pc' = "take" => pc = "take"
        /\ (pc = "return" /\ ep = "in") <=> (pc' = "return" /\ ep' = "in")
        /\ pc = "return" /\ ep = "in" => handle' = handle
    BY <1>9 DEF PlaceType
  <2>5. QED
    BY <2>1, <2>2, <2>3, <2>4 DEF InAgrees, TransferInStep
<1>10. QED
  BY <1>1, <1>2, <1>3, <1>4, <1>5, <1>6, <1>7, <1>8, <1>9

\* OutAgrees, while the interrupt does nothing.
LEMMA OutStepKept ==
    ASSUME PlaceType, RxType, HandleType, BdtType, BdtType', CaseScope,
           OutAgrees, [Next]_vars, ~Interrupt
    PROVE  OutAgrees'
<1>0. /\ 0 \in Nat /\ OUT_MAX \in Nat /\ 0 \in 0..0 /\ OUT_MAX \in 0..OUT_MAX
      /\ ep1In \in Eps(0) /\ ep2Out \in Eps(OUT_MAX)
      /\ ep1In' \in Eps(0) /\ ep2Out' \in Eps(OUT_MAX)
  BY InterruptedAssumption DEF BdtType
<1>1. CASE Fetch
  <2>1. /\ pc = "fetch" /\ ep' = ep /\ ep2Out' = ep2Out
        /\ handle' = Ep.next
        /\ pc' = IF Ep.next = NULL THEN "return" ELSE "fill"
    BY <1>1 DEF Fetch, usbVars
  <2>2. Rx_State' = Rx_State /\ case' = case /\ USB_OutHandle' = USB_OutHandle
    BY <1>1 DEF Fetch, rxVars
  <2>3. CASE ep = "out"
    <3>1. Ep = ep2Out /\ Free(ep2Out) /\ ep2Out.next \in {0, 1}
      BY <2>1, <2>3, <1>0, Shapes DEF Ep, OutAgrees, TransferInStep
    <3>2. pc' = "fill" /\ handle' = ep2Out.next
      BY <2>1, <3>1 DEF NULL
    <3>3. QED
      BY <2>1, <2>2, <2>3, <3>1, <3>2, <1>0, Shapes
         DEF OutAgrees, TransferInStep, Calling
  <2>4. CASE ep = "in"
    BY <2>1, <2>2, <2>4 DEF OutAgrees, TransferInStep, Calling
  <2>5. QED
    BY <2>3, <2>4 DEF PlaceType
<1>2. CASE Fill1
  <2>1. /\ pc = "fill" /\ pc' = "own" /\ ep' = ep /\ handle' = handle
        /\ Rx_State' = Rx_State
        /\ case' = case
        /\ USB_OutHandle' = USB_OutHandle
    BY <1>2 DEF Fill1, callVars, rxVars
  <2>2. CASE ep = "out"
    <3>1. ep2Out' = [ep2Out EXCEPT !.bd[handle] =
               [@ EXCEPT !.stall = FALSE, !.uown = FALSE, !.cnt = OUT_MAX]]
      BY <1>2, <2>2 DEF Fill1, Ep, SetEp
    <3>2. handle = ep2Out.next /\ Free(ep2Out)
      BY <2>1, <2>2 DEF OutAgrees, TransferInStep
    <3>3. Free(ep2Out') /\ ep2Out'.next = handle
      BY <1>0, <3>1, <3>2, FillShape
    <3>4. QED
      BY <1>0, <2>1, <2>2, <3>3, Shapes DEF OutAgrees, TransferInStep, Calling
  <2>3. CASE ep = "in"
    <3>1. ep2Out' = ep2Out
      BY <1>2, <2>3 DEF Fill1, SetEp
    <3>2. QED
      BY <2>1, <2>3, <3>1 DEF OutAgrees, TransferInStep, Calling
  <2>4. QED
    BY <2>2, <2>3 DEF PlaceType
<1>3. CASE Own
  <2>1. /\ pc = "own" /\ pc' = "advance" /\ ep' = ep /\ handle' = handle
        /\ Rx_State' = Rx_State
        /\ case' = case
        /\ USB_OutHandle' = USB_OutHandle
    BY <1>3 DEF Own, callVars, rxVars
  <2>2. CASE ep = "out"
    <3>1. ep2Out' = [ep2Out EXCEPT !.bd[handle].uown = TRUE]
      BY <1>3, <2>2 DEF Own, Ep, SetEp
    <3>2. handle = ep2Out.next /\ Free(ep2Out)
      BY <2>1, <2>2 DEF OutAgrees, TransferInStep
    <3>3. Handed(ep2Out') /\ ep2Out'.next = handle
      BY <1>0, <3>1, <3>2, OwnShape
    <3>4. QED
      BY <1>0, <2>1, <2>2, <3>3, Shapes
         DEF OutAgrees, TransferInStep, Calling, Handed, Busy, Eps
  <2>3. CASE ep = "in"
    <3>1. ep2Out' = ep2Out
      BY <1>3, <2>3 DEF Own, SetEp
    <3>2. QED
      BY <2>1, <2>3, <3>1 DEF OutAgrees, TransferInStep, Calling
  <2>4. QED
    BY <2>2, <2>3 DEF PlaceType
<1>4. CASE Advance
  <2>1. /\ pc = "advance" /\ pc' = "return" /\ ep' = ep /\ handle' = handle
        /\ Rx_State' = Rx_State
        /\ case' = case
        /\ USB_OutHandle' = USB_OutHandle
    BY <1>4 DEF Advance, callVars, rxVars
  <2>2. CASE ep = "out"
    <3>1. ep2Out' = [ep2Out EXCEPT !.next = Toggled(@)]
      BY <1>4, <2>2 DEF Advance, Ep, SetEp, USBAdvancePingPongBuffer
    <3>2. handle = ep2Out.next /\ (Handed(ep2Out) \/ Served(ep2Out))
      BY <2>1, <2>2 DEF OutAgrees, TransferInStep
    <3>3. \/ Busy(ep2Out') /\ handle = ep2Out'.sie
          \/ Free(ep2Out')
      BY <1>0, <3>1, <3>2, AdvanceShape
    <3>4. QED
      BY <1>0, <2>1, <2>2, <3>3, Shapes DEF OutAgrees, TransferInStep, Calling
  <2>3. CASE ep = "in"
    <3>1. ep2Out' = ep2Out
      BY <1>4, <2>3 DEF Advance, SetEp
    <3>2. QED
      BY <2>1, <2>3, <3>1 DEF OutAgrees, TransferInStep, Calling
  <2>4. QED
    BY <2>2, <2>3 DEF PlaceType
<1>5. CASE ReturnOut
  <2>1. /\ pc = "return" /\ ep = "out" /\ ep2Out' = ep2Out
        /\ Rx_State' = Rx_State /\ case' = INIT
        /\ pc' = IF case = INIT THEN "initialized" ELSE "jtag"
    BY <1>5 DEF ReturnOut, usbVars
  <2>2. /\ case = INIT => USB_OutHandle'[0] = handle
        /\ case \in {0, 1} => USB_OutHandle'[1 - case] = handle
    BY <1>5 DEF ReturnOut, HandleType, INIT
  <2>3. \/ case = INIT /\ Rx_State = INIT
        \/ case \in {0, 1} /\ Rx_State = 1 - case
    BY <2>1 DEF OutAgrees, Calling
  <2>4. /\ Free(ep2Out) \/ Busy(ep2Out)
        /\ Busy(ep2Out) => handle = ep2Out.sie
    BY <2>1 DEF OutAgrees, TransferInStep
  <2>5. TransferInStep(ep2Out, "out")' /\ ~Calling("out")'
    BY <2>1, <2>4 DEF TransferInStep, Calling
  <2>6. CASE case = INIT
    BY <2>1, <2>2, <2>4, <2>5, <2>6 DEF OutAgrees
  <2>7. CASE case \in {0, 1} /\ Rx_State = 1 - case
    BY <2>1, <2>2, <2>4, <2>5, <2>7 DEF OutAgrees, INIT
  <2>8. QED
    BY <2>3, <2>6, <2>7
<1>6. CASE Rx
  <2>1. /\ pc = "rx" /\ ep2Out' = ep2Out /\ Rx_State' = Rx_State
        /\ USB_OutHandle' = USB_OutHandle
        /\ \/ Rx_State = INIT /\ pc' = "fetch" /\ ep' = "out" /\ case' = case
           \/ Rx_State # INIT /\ RxReady(Rx_State) /\ pc' = "length"
           \/ Rx_State # INIT /\ pc' = "jtag"
    BY <1>6 DEF Rx, Call, usbVars
  <2>2. /\ Free(ep2Out) \/ Busy(ep2Out)
        /\ Busy(ep2Out) => /\ Rx_State # INIT
                           /\ USB_OutHandle[Rx_State] = ep2Out.sie
    BY <2>1 DEF OutAgrees, TransferInStep
  <2>3. Rx_State # INIT /\ RxReady(Rx_State) => Free(ep2Out)
    BY <1>0, <2>2, Shapes DEF RxReady, USBHandleBusy, NULL
  <2>4. case = INIT
    BY <2>1 DEF CaseScope, Calling
  <2>5. QED
    BY <2>1, <2>2, <2>3, <2>4 DEF OutAgrees, TransferInStep, Calling
<1>7. CASE RxLength
  <2>1. /\ pc = "length" /\ pc' = "state" /\ ep2Out' = ep2Out
    BY <1>7 DEF RxLength, usbVars
  <2>2. Free(ep2Out) /\ ~Busy(ep2Out)
    BY <1>0, <2>1, Shapes DEF OutAgrees
  <2>3. QED
    BY <2>1, <2>2 DEF OutAgrees, TransferInStep, Calling
<1>8. CASE RxState
  <2>1. /\ pc = "state" /\ pc' = "fetch" /\ ep' = "out" /\ ep2Out' = ep2Out
        /\ Rx_State' = 1 - case /\ case' = case
    BY <1>8 DEF RxState, Call, usbVars
  <2>2. Free(ep2Out) /\ ~Busy(ep2Out) /\ case \in {0, 1}
    BY <1>0, <2>1, Shapes DEF OutAgrees, CaseScope
  <2>3. QED
    BY <2>1, <2>2 DEF OutAgrees, TransferInStep, Calling
<1>9. CASE RxInitialized
  <2>1. /\ pc = "initialized" /\ pc' = "jtag" /\ ep2Out' = ep2Out
        /\ Rx_State' = 0 /\ USB_OutHandle' = USB_OutHandle
    BY <1>9 DEF RxInitialized, usbVars
  <2>2. QED
    BY <2>1 DEF OutAgrees, TransferInStep, Calling, INIT
<1>10. CASE HostSends
  <2>1. /\ pc' = pc /\ ep' = ep /\ handle' = handle /\ case' = case
        /\ Rx_State' = Rx_State /\ USB_OutHandle' = USB_OutHandle
    BY <1>10 DEF HostSends, callVars, rxVars
  <2>2. PICK n \in 0..OUT_MAX : ep2Out' = SieComplete(ep2Out, n)
    BY <1>10 DEF HostSends
  <2>3. SieReady(ep2Out)
    BY <1>10 DEF HostSends
  <2>4. /\ ep2Out'.next = ep2Out.next /\ ~Free(ep2Out) /\ ~Served(ep2Out)
        /\ Busy(ep2Out) => Free(ep2Out') /\ ~Busy(ep2Out')
        /\ Handed(ep2Out) => Served(ep2Out')
    BY <1>0, <2>2, <2>3, SieShape
  <2>5. Served(ep2Out') => ~Busy(ep2Out')
    BY <1>0 DEF Served, Busy, Quiet, OneArmed, Eps
  <2>6. QED
    BY <2>1, <2>4, <2>5 DEF OutAgrees, TransferInStep, Calling
<1>11. CASE ~(Fetch \/ Fill1 \/ Own \/ Advance \/ ReturnOut \/ Rx
              \/ RxLength \/ RxState \/ RxInitialized \/ HostSends)
  <2> USE DEF Next, Main_Task_Blaster, USBTransferOnePacket_Steps, Interrupt,
              vars, rxVars, jtagVars, txVars, callVars, spiVars, usbVars,
              Call, SetEp, MainLoop, ReturnIn, Jtag, Bang, GotoShift,
              SetShift, Reply, Shift, Wait, NextShift, NextSize, Shifted, Tx,
              Take, TimerExpires, ShiftDone, HostReceives
  <2>1. /\ ep2Out' = ep2Out /\ USB_OutHandle' = USB_OutHandle
        /\ Rx_State' = Rx_State /\ case' = case
    BY <1>11
  <2>2. pc \in {"fetch", "fill", "own", "advance"}
           => pc' = pc /\ ep' = ep /\ handle' = handle
    BY <1>11
  <2>3. pc' \in {"fetch", "fill", "own", "advance"} /\ ep' = "out"
           => pc \in {"fetch", "fill", "own", "advance"}
    BY <1>11
  <2>4. /\ pc' \in {"length", "state"} => pc = pc'
        /\ (pc = "return" /\ ep = "out") <=> (pc' = "return" /\ ep' = "out")
        /\ pc = "return" /\ ep = "out" => handle' = handle
        /\ pc = "initialized" <=> pc' = "initialized"
    BY <1>11, ZenonT(60) DEF PlaceType
  <2>5. QED
    BY <2>1, <2>2, <2>3, <2>4 DEF OutAgrees, TransferInStep, Calling
<1>12. QED
  BY <1>1, <1>2, <1>3, <1>4, <1>5, <1>6, <1>7, <1>8, <1>9, <1>10, <1>11

LEMMA AgreeStep ==
    ASSUME TypeOK, TypeOK', AgreeInv, Again = 0, [Next]_vars
    PROVE  AgreeInv'
<1>1. PlaceType /\ RxType /\ HandleType /\ BdtType /\ BdtType'
  BY DEF TypeOK, PlaceType, RxType, HandleType, BdtType
<1>2. CaseScope'
  BY <1>1, ScopeStep DEF AgreeInv
<1>3. CASE BusReset \/ Deconfigure
  <2>1. usb' # "configured"
    BY <1>3 DEF BusReset, Deconfigure
  <2>2. QED
    BY <1>2, <2>1 DEF AgreeInv
<1>4. CASE SetConfiguration
  <2>1. pc = "loop" /\ pc' = "loop"
    <3>1. again \in 0..0
      BY <1>1 DEF PlaceType
    <3>2. ~(again < Again)
      BY <3>1
    <3>3. QED
      BY <1>4, <3>2 DEF SetConfiguration
  <2>2. ep1In' = USBEnableEndpoint /\ ep2Out' = USBEnableEndpoint
    BY <1>4 DEF SetConfiguration, USB_Ept_Init, Enabled
  <2>3. /\ Free(ep1In') /\ ~Busy(ep1In')
        /\ Free(ep2Out') /\ ~Busy(ep2Out')
    <3>1. ~Busy(USBEnableEndpoint)
      BY DEF Busy, OneArmed, USBEnableEndpoint, Idle
    <3>2. QED
      BY <2>2, <3>1, EnabledShape
  <2>4. InAgrees' /\ OutAgrees'
    BY <2>1, <2>3 DEF InAgrees, OutAgrees, TransferInStep, Calling
  <2>5. QED
    BY <1>2, <2>4 DEF AgreeInv
<1>5. CASE ~Interrupt
  <2>1. usb' = usb
    <3> USE DEF Next, Main_Task_Blaster, USBTransferOnePacket_Steps,
                Interrupt, vars, rxVars, jtagVars, txVars, callVars, spiVars,
                usbVars, Call, SetEp, MainLoop, Fetch, Fill1, Own, Advance,
                ReturnIn, ReturnOut, Rx, RxLength, RxState, RxInitialized,
                Jtag, Bang, GotoShift, SetShift, Reply, Shift, Wait,
                NextShift, NextSize, Shifted, Tx, Take, TimerExpires,
                ShiftDone, HostSends, HostReceives
    <3>1. QED
      BY <1>5
  <2>2. QED
    BY <1>1, <1>2, <1>5, <2>1, InStepKept, OutStepKept DEF AgreeInv
<1>6. QED
  BY <1>3, <1>4, <1>5 DEF Interrupt

(***************************************************************************)
(* Whenever the main task is between two passes of a configured device,    *)
(* the software's pointers, the descriptors, the handles that it will poll *)
(* and the SIE's position agree, whatever reset or SET_CONFIGURATION(0)    *)
(* came in the middle of the passes before (blaster.c:435-691,             *)
(* usb_device.c:992-1047), as long as no configuration comes in mid-pass.  *)
(***************************************************************************)
THEOREM AlwaysAgree == ASSUME Again = 0 PROVE Spec => []AgreeBetweenPasses
<1>1. Init => AgreeInv
  BY DEF Init, AgreeInv, CaseScope, Calling
<1>2. TypeOK /\ TypeOK' /\ AgreeInv /\ [Next]_vars => AgreeInv'
  BY AgreeStep
<1>3. TypeOK /\ AgreeInv => AgreeBetweenPasses
  <2> SUFFICES ASSUME TypeOK, AgreeInv, pc = "loop", usb = "configured"
               PROVE  /\ InStep(ep1In) /\ InStep(ep2Out)
                      /\ Armed(ep1In) => USB_InHandle0 = ep1In.sie
                      /\ Armed(ep2Out) =>
                            /\ Rx_State # INIT
                            /\ USB_OutHandle[Rx_State] = ep2Out.sie
    BY DEF AgreeBetweenPasses
  <2>1. /\ ep1In \in Eps(0) /\ ep2Out \in Eps(OUT_MAX)
        /\ 0 \in Nat /\ OUT_MAX \in Nat
    BY InterruptedAssumption DEF TypeOK
  <2>2. InAgrees /\ OutAgrees
    BY DEF AgreeInv
  <2>3. /\ Free(ep1In) \/ Busy(ep1In)
        /\ Free(ep2Out) \/ Busy(ep2Out)
    BY <2>2 DEF InAgrees, OutAgrees, TransferInStep
  <2>4. /\ Busy(ep1In) => USB_InHandle0 = ep1In.sie
        /\ Busy(ep2Out) => /\ Rx_State # INIT
                           /\ USB_OutHandle[Rx_State] = ep2Out.sie
    BY <2>2 DEF InAgrees, OutAgrees
  <2>5. QED
    BY <2>1, <2>3, <2>4, Shapes
<1>4. QED
  BY TypeCorrect, <1>1, <1>2, <1>3, PTL DEF Spec
=============================================================================
