------------------------------ MODULE ControlEp ------------------------------
(***************************************************************************)
(* Endpoint 0 of usb_device.c: the control transfer state machine, its     *)
(* four ping-pong descriptors and the SIE, against a host that may start a *)
(* new transfer at any point of the running one.                           *)
(*                                                                         *)
(* A request handler runs in the interrupt with packet processing disabled *)
(* (PKTDIS), so each call of USBCtrlEPService is one step.  The calls it   *)
(* makes are operators on the device's state, applied in the code's order. *)
(*                                                                         *)
(* Requests are classified by what the handlers do with them:              *)
(*   "read"     the device has avail bytes: GET_DESCRIPTOR, GET_STATUS,    *)
(*              GET_CONFIGURATION, GET_INTERFACE, the FT245's IN requests  *)
(*   "write"    no data stage: SET_INTERFACE, SET_FEATURE, the FT245's,    *)
(*              which leave avail bytes (0 or 2) that are not to be sent     *)
(*   "address", "config"   SET_ADDRESS, SET_CONFIGURATION                  *)
(*   "unknown"  nobody claims it                                           *)
(* No request of this firmware has an OUT data stage (USBEP0Receive is not *)
(* called), and none defers its data or status stage.                      *)
(***************************************************************************)
EXTENDS Integers, Sequences, FiniteSetsExt

CONSTANTS EP0_SIZE,     \* bytes of an EP0 packet (8 in the code)
          TIMEOUT,      \* USB_STATUS_STAGE_TIMEOUT (45 in the code)
          Requests,     \* the requests that the host makes
          DropsAddress, \* whether the host may abandon a SET_ADDRESS for
                        \* another request
          MaxSetups,    \* bound: SETUP packets that the host sends
          MaxLost,      \* bound: handshakes of the host that are lost
          MaxResets     \* bound: bus resets

Kinds == {"read", "write", "address", "config", "unknown"}

ASSUME ControlAssumption ==
    /\ EP0_SIZE \in Nat \ {0} /\ TIMEOUT \in Nat \ {0} /\ Requests # {}
    /\ Requests \subseteq [kind : Kinds, in : BOOLEAN, wLength : Nat,
                           avail : Nat, value : Nat]
    /\ \A r \in Requests :
          /\ r.kind = "read" => r.in
          /\ r.kind \in {"write", "address", "config"} => ~r.in /\ r.wLength = 0
    /\ DropsAddress \in BOOLEAN
    /\ MaxSetups \in Nat /\ MaxLost \in Nat /\ MaxResets \in Nat

VARIABLES
    dev,      \* the device: stack and SIE, see DevType
    phase,    \* the stage the host is at, or "idle"
    req,      \* the host's last request
    got,      \* the positions of the data bytes that it received
    toggle,   \* the data toggle that it expects
    address,  \* the address that it uses
    setups, lost, resets

host == <<phase, req, got, toggle, address>>
bounds == <<setups, lost, resets>>
vars == <<dev, host, bounds>>
-----------------------------------------------------------------------------
NULL == -1
USTAT_DEPTH == 4  \* entries of the hardware's transaction FIFO

Descriptors == [uown : BOOLEAN, stall : BOOLEAN, dts : {0, 1},
                cnt : 0..EP0_SIZE, setup : BOOLEAN]

DevType ==
    [out : [{0, 1} -> Descriptors],      \* BDT[EP0_OUT_EVEN], [EP0_OUT_ODD]
     in : [{0, 1} -> Descriptors],       \* BDT[EP0_IN_EVEN], [EP0_IN_ODD]
     outSie : {0, 1}, inSie : {0, 1},    \* the SIE's ping-pong positions
     PKTDIS : BOOLEAN,
     USTAT : Seq({"out", "in"} \X {0, 1}),
     STALLIF : BOOLEAN,
     current : {0, 1, NULL},             \* pBDTEntryEP0OutCurrent
     next : {0, 1, NULL},                \* pBDTEntryEP0OutNext
     entryIn : {0, 1},                   \* pBDTEntryIn[0]
     controlTransferState : {"WAIT_SETUP", "CTRL_TRF_TX", "CTRL_TRF_RX"},
     shortPacketStatus : {"NOT_USED", "PENDING", "SENT"},
     bothSet : BOOLEAN,                  \* BothEP0OutUOWNsSet
     statusEnabled : BOOLEAN,            \* USBStatusStageEnabledFlag1 and 2
     timeout : 0..TIMEOUT,               \* USBStatusStageTimeoutCounter
     busy : BOOLEAN,                     \* inPipes[0].info.bits.busy
     wCount : Nat, pSrc : Nat,           \* of inPipes[0]
     CtrlTrfData : Nat,                  \* source position of its content
     SetupPkt : Requests,
     USBDeviceState : {"DEFAULT", "ADR_PENDING", "ADDRESS", "CONFIGURED"},
     U1ADDR : Nat, config : Nat]         \* config: USBActiveConfiguration

\* Descriptor values; the toggle of an OUT is not checked on EP0.
Clear == [uown |-> FALSE, stall |-> FALSE, dts |-> 0, cnt |-> 0, setup |-> FALSE]
Armed(dts, cnt) == [Clear EXCEPT !.uown = TRUE, !.dts = dts, !.cnt = cnt]
Stalled == [Clear EXCEPT !.uown = TRUE, !.stall = TRUE]
\* Accepts a SETUP and stalls any other OUT.
ForSetup == [Stalled EXCEPT !.cnt = EP0_SIZE]

\* The task of the reset interrupt, up to the default state.
USBDeviceInit(d) ==
    [d EXCEPT
        !.out = [i \in {0, 1} |-> IF i = 0 THEN ForSetup ELSE Clear],
        !.in = [i \in {0, 1} |-> Clear],
        !.outSie = 0, !.inSie = 0, !.PKTDIS = FALSE, !.USTAT = <<>>,
        !.STALLIF = FALSE, !.entryIn = 0, !.statusEnabled = TRUE,
        !.busy = @ /\ d.USTAT = <<>>,
        !.U1ADDR = 0, !.config = 0, !.USBDeviceState = "DEFAULT"]

PowerUp ==
    [out |-> [i \in {0, 1} |-> Clear], in |-> [i \in {0, 1} |-> Clear],
     outSie |-> 0, inSie |-> 0, PKTDIS |-> FALSE, USTAT |-> <<>>,
     STALLIF |-> FALSE, current |-> NULL, next |-> NULL, entryIn |-> 0,
     controlTransferState |-> "WAIT_SETUP", shortPacketStatus |-> "NOT_USED",
     bothSet |-> FALSE, statusEnabled |-> FALSE, timeout |-> 0, busy |-> FALSE,
     wCount |-> 0, pSrc |-> 0, CtrlTrfData |-> 0,
     SetupPkt |-> CHOOSE r \in Requests : TRUE,
     USBDeviceState |-> "DEFAULT", U1ADDR |-> 0, config |-> 0]
-----------------------------------------------------------------------------
(***************************************************************************)
(* The data and status stages.                                             *)
(***************************************************************************)
ShortAfter == [NOT_USED |-> "PENDING", PENDING |-> "SENT", SENT |-> "SENT"]

\* Fault: all data in one packet.
USBCtrlTrfTxService_NoSplit(d) ==
    [d EXCEPT
        !.shortPacketStatus = IF d.wCount < EP0_SIZE THEN ShortAfter[@] ELSE @,
        !.wCount = 0,
        !.in[d.entryIn].cnt = d.wCount,
        !.CtrlTrfData = d.pSrc, !.pSrc = @ + d.wCount]

\* The next packet of data is copied to CtrlTrfData.
USBCtrlTrfTxService(d) ==
    LET byteToSend == Min({d.wCount, EP0_SIZE})
    IN  [d EXCEPT
            !.shortPacketStatus = IF d.wCount < EP0_SIZE THEN ShortAfter[@] ELSE @,
            !.wCount = @ - byteToSend,
            !.in[d.entryIn].cnt = byteToSend,
            !.CtrlTrfData = d.pSrc, !.pSrc = @ + byteToSend]

\* Fault: the device sends what it has, whatever the host asked for.
USBCtrlEPAllowDataStage_NoLimit(d) ==
    LET e == USBCtrlTrfTxService(d)
    IN  [e EXCEPT !.in[e.entryIn] = Armed(1, @.cnt)]

USBCtrlEPAllowDataStage(d) ==
    LET e == USBCtrlTrfTxService(
                [d EXCEPT !.wCount = Min({@, d.SetupPkt.wLength})])
    IN  [e EXCEPT !.in[e.entryIn] = Armed(1, @.cnt)]

ArmStatusIn(d) == [d EXCEPT !.in[d.entryIn] = Armed(1, 0)]

\* Fault: the descriptor for the next SETUP is left to the status stage.
ArmStatusOut_NextOnly(d) ==
    [d EXCEPT !.bothSet = TRUE, !.out[d.next] = Armed(0, EP0_SIZE)]

\* Both OUT descriptors: the next one receives the status packet, the current
\* one, which follows it, the next SETUP.
ArmStatusOut(d) ==
    [d EXCEPT !.bothSet = TRUE, !.out[d.current] = ForSetup,
              !.out[d.next] = Armed(0, EP0_SIZE)]

\* Fault: the status stage after data is forgotten.
USBCtrlEPAllowStatusStage_WriteOnly(d) ==
    IF d.statusEnabled \/ d.controlTransferState # "CTRL_TRF_RX" THEN d
    ELSE ArmStatusIn([d EXCEPT !.statusEnabled = TRUE])

USBCtrlEPAllowStatusStage(d) ==
    IF d.statusEnabled THEN d
    ELSE LET e == [d EXCEPT !.statusEnabled = TRUE]
         IN  IF d.controlTransferState = "CTRL_TRF_RX" THEN ArmStatusIn(e)
             ELSE IF d.controlTransferState = "CTRL_TRF_TX" THEN ArmStatusOut(e)
             ELSE e
-----------------------------------------------------------------------------
(***************************************************************************)
(* The setup stage.                                                        *)
(***************************************************************************)
\* Fault: the SIE keeps its ping-pong positions.
USBStdSetCfgHandler_KeepsPingPong(d) ==
    [d EXCEPT
        !.busy = TRUE,
        !.out = [i \in {0, 1} |-> Clear], !.in = [i \in {0, 1} |-> Clear],
        !.entryIn = 0, !.current = 0, !.next = 0,
        !.config = d.SetupPkt.value,
        !.USBDeviceState = IF d.SetupPkt.value = 0 THEN "ADDRESS"
                           ELSE "CONFIGURED"]

\* The configuration callback is in Blaster.
USBStdSetCfgHandler(d) ==
    [d EXCEPT
        !.busy = TRUE,
        !.out = [i \in {0, 1} |-> Clear], !.in = [i \in {0, 1} |-> Clear],
        !.outSie = 0, !.inSie = 0,
        !.entryIn = 0, !.current = 0, !.next = 0,
        !.config = d.SetupPkt.value,
        !.USBDeviceState = IF d.SetupPkt.value = 0 THEN "ADDRESS"
                           ELSE "CONFIGURED"]

\* USBCheckStdRequest, and the handler of EVENT_EP0_REQUEST for the FT245's.
CheckRequest(d) ==
    CASE d.SetupPkt.kind \in {"read", "write"} ->
            [d EXCEPT !.busy = TRUE, !.pSrc = 0, !.wCount = d.SetupPkt.avail]
      [] d.SetupPkt.kind = "address" ->
            [d EXCEPT !.busy = TRUE, !.USBDeviceState = "ADR_PENDING"]
      [] d.SetupPkt.kind = "config" -> USBStdSetCfgHandler(d)
      [] OTHER -> d

\* Whatever the previous transfer left armed is taken back.
Abandon(d) ==
    [d EXCEPT
        !.shortPacketStatus = "NOT_USED", !.bothSet = FALSE,
        !.controlTransferState = "WAIT_SETUP",
        !.in = [i \in {0, 1} |-> [@[i] EXCEPT !.uown = FALSE]],
        !.out[d.next].uown = FALSE,
        !.busy = FALSE, !.wCount = 0]

USBCtrlEPServiceComplete(d) ==
    LET e == [d EXCEPT !.PKTDIS = FALSE]
    IN  CASE ~d.busy ->
                [e EXCEPT !.out[d.next] = ForSetup, !.in[d.entryIn] = Stalled]
          [] d.busy /\ d.SetupPkt.in ->
                USBCtrlEPAllowStatusStage([USBCtrlEPAllowDataStage(
                    [e EXCEPT !.controlTransferState = "CTRL_TRF_TX"])
                        EXCEPT !.statusEnabled = FALSE])
          [] d.busy /\ ~d.SetupPkt.in ->
                USBCtrlEPAllowStatusStage(
                    [e EXCEPT !.controlTransferState = "CTRL_TRF_RX",
                              !.out[d.next] = ForSetup,
                              !.statusEnabled = FALSE])

USBCtrlTrfSetupHandler(d) == USBCtrlEPServiceComplete(CheckRequest(Abandon(d)))
-----------------------------------------------------------------------------
(***************************************************************************)
(* OUT and IN transactions.                                                *)
(***************************************************************************)
\* Without OUT data stages wCount of outPipes[0] is 0.
USBCtrlTrfRxService(d) ==
    USBCtrlEPAllowStatusStage([d EXCEPT !.out[d.next] = ForSetup])

USBCtrlTrfOutHandler(d) ==
    IF d.controlTransferState = "CTRL_TRF_RX" THEN USBCtrlTrfRxService(d)
    ELSE [d EXCEPT !.controlTransferState = "WAIT_SETUP",
                   !.bothSet = FALSE,
                   !.out[d.next] = IF d.bothSet THEN @ ELSE ForSetup]

\* A pending address takes effect; addresses are below 128.
CheckAddressPending(d) ==
    IF d.USBDeviceState # "ADR_PENDING" THEN d
    ELSE [d EXCEPT !.U1ADDR = d.SetupPkt.value,
                   !.USBDeviceState = IF d.SetupPkt.value # 0 THEN "ADDRESS"
                                      ELSE "DEFAULT"]

\* The next packet, with the other toggle, or a stall after a short packet.
ArmNextIn(d, lastDTS) ==
    LET e == USBCtrlTrfTxService(d)
    IN  [e EXCEPT !.in[e.entryIn] =
            IF e.shortPacketStatus = "SENT" THEN [Stalled EXCEPT !.cnt = e.in[e.entryIn].cnt]
            ELSE Armed(1 - lastDTS, @.cnt)]

USBCtrlTrfInHandler(d) ==
    LET e == CheckAddressPending([d EXCEPT !.entryIn = 1 - @])
    IN  IF d.controlTransferState = "CTRL_TRF_TX"
        THEN ArmNextIn(e, d.in[d.entryIn].dts)
        ELSE [e EXCEPT !.controlTransferState = "WAIT_SETUP"]

\* Transaction t of the FIFO.
USBCtrlEPService(d, t) ==
    LET e == [d EXCEPT !.timeout = TIMEOUT]
        i == t[2]
    IN  IF t[1] = "in" THEN USBCtrlTrfInHandler(e)
        ELSE LET f == [e EXCEPT !.current = i, !.next = 1 - i]
             IN  IF d.out[i].setup THEN USBCtrlTrfSetupHandler(f)
                 ELSE USBCtrlTrfOutHandler(f)
-----------------------------------------------------------------------------
(***************************************************************************)
(* What the interrupt does.                                                *)
(***************************************************************************)
ServiceTransaction ==
    /\ dev.USTAT # <<>>
    /\ dev' = USBCtrlEPService([dev EXCEPT !.USTAT = Tail(@)], Head(dev.USTAT))
    /\ UNCHANGED <<host, bounds>>

\* USBStallHandler; an armed descriptor that does not stall is one for the
\* status packet.
ServiceStall ==
    /\ dev.STALLIF
    /\ LET d == [dev EXCEPT !.STALLIF = FALSE]
           statusArmed == /\ d.out[d.current].uown /\ ~d.out[d.current].stall
                          /\ d.in[d.entryIn].uown /\ d.in[d.entryIn].stall
       IN  dev' = IF statusArmed THEN [d EXCEPT !.out[d.current] = ForSetup]
                  ELSE d
    /\ UNCHANGED <<host, bounds>>

\* The start of a frame.
ServiceSOF ==
    /\ LET d == [dev EXCEPT !.timeout = Max({@ - 1, 0})]
       IN  dev' = IF d.timeout = 0 THEN USBCtrlEPAllowStatusStage(d) ELSE d
    /\ UNCHANGED <<host, bounds>>
-----------------------------------------------------------------------------
(***************************************************************************)
(* The host and the SIE.                                                   *)
(***************************************************************************)
Transfer == INSTANCE ControlTransfer
               WITH addr <- dev.U1ADDR,
                    due <- {address} \ {dev.U1ADDR},
                    config <- dev.config

Answers == address = dev.U1ADDR /\ ~dev.PKTDIS /\ Len(dev.USTAT) < USTAT_DEPTH

\* The SIE completes a transaction on its descriptor.
CompleteOut(d, setup) ==
    [d EXCEPT !.out[d.outSie].uown = FALSE, !.out[d.outSie].setup = setup,
              !.outSie = 1 - @, !.USTAT = Append(@, <<"out", d.outSie>>)]
CompleteIn(d) ==
    [d EXCEPT !.in[d.inSie].uown = FALSE,
              !.inSie = 1 - @, !.USTAT = Append(@, <<"in", d.inSie>>)]

\* The host configures an addressed device and addresses it before that; it
\* leaves the device the recovery time of 2 ms after SET_ADDRESS.
MayAsk(r) ==
    /\ r.kind = "config" => address # 0
    /\ r.kind = "address" => dev.config = 0
    /\ phase = "idle" /\ req.kind = "address" => dev.USTAT = <<>>
    /\ phase # "idle" /\ req.kind = "address" =>
          r.kind = "address" \/ DropsAddress

\* A SETUP packet: accepted by an armed descriptor whether it stalls or not.
HostSetup ==
    \E r \in Requests :
        /\ Answers /\ MayAsk(r)
        /\ setups < MaxSetups /\ setups' = setups + 1
        /\ dev.out[dev.outSie].uown
        /\ dev' = [CompleteOut(dev, TRUE) EXCEPT !.PKTDIS = TRUE,
                                                 !.SetupPkt = r]
        /\ req' = r /\ phase' = Transfer!FirstStage(r)
        /\ got' = <<>> /\ toggle' = 1
        /\ UNCHANGED <<address, lost, resets>>

\* What the host makes of an IN packet; one with the wrong toggle is taken
\* for a repetition.
Take(packet) ==
    IF packet.dts # toggle THEN UNCHANGED host
    ELSE /\ toggle' = 1 - toggle
         /\ UNCHANGED req
         /\ got' = got \o Transfer!Positions(dev.CtrlTrfData, packet.cnt)
         /\ \/ /\ phase = "dataIn"
               /\ phase' = Transfer!StageAfter(req, packet.cnt, Len(got'))
               /\ UNCHANGED address
            \/ /\ phase = "statusIn"
               /\ phase' = "idle"
               /\ address' = IF req.kind = "address" THEN req.value ELSE address

InToken == Answers /\ phase \in {"dataIn", "statusIn"} /\ dev.in[dev.inSie].uown

HostIn ==
    /\ InToken
    /\ ~dev.in[dev.inSie].stall
    /\ Take(dev.in[dev.inSie])
    /\ dev' = CompleteIn(dev)
    /\ UNCHANGED bounds

\* The device does not get the host's handshake: it keeps the packet.  Only
\* in the data stage: host and device would disagree about a status stage.
HostInLost ==
    /\ InToken
    /\ ~dev.in[dev.inSie].stall
    /\ phase = "dataIn"
    /\ lost < MaxLost /\ lost' = lost + 1
    /\ Take(dev.in[dev.inSie])
    /\ UNCHANGED <<dev, setups, resets>>

OutToken == Answers /\ phase \in {"dataOut", "statusOut"} /\ dev.out[dev.outSie].uown

HostOut ==
    /\ OutToken
    /\ ~dev.out[dev.outSie].stall
    /\ dev' = CompleteOut(dev, FALSE)
    /\ phase' = "idle"
    /\ UNCHANGED <<req, got, toggle, address, bounds>>

HostStalled ==
    /\ \/ InToken /\ dev.in[dev.inSie].stall
       \/ OutToken /\ dev.out[dev.outSie].stall
    /\ dev' = [dev EXCEPT !.STALLIF = TRUE]
    /\ phase' = "idle"
    /\ UNCHANGED <<req, got, toggle, address, bounds>>

HostEndsEarly ==
    /\ phase = "dataIn"
    /\ phase' = "statusOut"
    /\ UNCHANGED <<dev, req, got, toggle, address, bounds>>

BusReset ==
    /\ resets < MaxResets /\ resets' = resets + 1
    /\ dev' = USBDeviceInit(dev)
    /\ phase' = "idle" /\ got' = <<>> /\ toggle' = 0 /\ address' = 0
    /\ UNCHANGED <<req, setups, lost>>
-----------------------------------------------------------------------------
Init ==
    /\ dev = USBDeviceInit(PowerUp)
    /\ phase = "idle" /\ req = PowerUp.SetupPkt /\ got = <<>> /\ toggle = 0
    /\ address = 0
    /\ setups = 0 /\ lost = 0 /\ resets = 0

Next ==
    \/ ServiceTransaction
    \/ ServiceStall
    \/ ServiceSOF
    \/ HostSetup
    \/ HostIn
    \/ HostInLost
    \/ HostOut
    \/ HostStalled
    \/ HostEndsEarly
    \/ BusReset

Spec == Init /\ [][Next]_vars
-----------------------------------------------------------------------------
TypeOK ==
    /\ dev \in DevType
    /\ phase \in {"idle", "dataIn", "dataOut", "statusIn", "statusOut"}
    /\ req \in Requests /\ got \in Seq(Nat) /\ toggle \in {0, 1}
    /\ address \in Nat
    /\ setups \in 0..MaxSetups /\ lost \in 0..MaxLost /\ resets \in 0..MaxResets

(***************************************************************************)
(* A SETUP can be received at any time that packets are processed at all:  *)
(* the descriptor that the SIE uses next is armed, wherever the running    *)
(* transfer is and however it was abandoned (usb_device.c:1444-1455, 1731, *)
(* 1659, 2558).                                                            *)
(***************************************************************************)
SetupAlwaysPossible == ~dev.PKTDIS => dev.out[dev.outSie].uown

(***************************************************************************)
(* Once the transactions are serviced, the software's pointers are at the  *)
(* SIE's ping-pong positions (usb_device.c:2383-2393, 2489, 2602).         *)
(***************************************************************************)
PointersInStep ==
    dev.USTAT = <<>> =>
        /\ dev.entryIn = dev.inSie
        /\ phase # "idle" => dev.next = dev.outSie

(***************************************************************************)
(* Endpoint 0 implements ControlTransfer: the data that the host receives  *)
(* is a prefix of what is available, each byte once, no more than it asked *)
(* for, and a short packet comes exactly at the end; only unknown requests *)
(* stall; the address changes once, after the status stage of SET_ADDRESS, *)
(* and the configuration before that of SET_CONFIGURATION.                 *)
(***************************************************************************)
TransferSpec == Transfer!Spec

(***************************************************************************)
(* Once the transactions are serviced, the descriptor that the host's next *)
(* token needs is armed, with data or with a stall: the device never       *)
(* answers NAK for ever, wherever the host ended or abandoned an earlier   *)
(* transfer, and without the timeout having to expire                      *)
(* (usb_device.c:1690-1709).                                               *)
(***************************************************************************)
AlwaysAnswered ==
    dev.USTAT = <<>> /\ phase # "idle" => InToken \/ OutToken

\* "The device is should not switch addresses until after the STATUS stage is
\* complete" (usb_device.h:97-98; usb_device.c:2586-2589): the device takes
\* only an address whose SET_ADDRESS was completed, and 0 at a reset.
AddressAgreed == [][dev'.U1ADDR # dev.U1ADDR => dev'.U1ADDR = address']_vars
=============================================================================
