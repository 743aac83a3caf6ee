-------------------------- MODULE ControlEpProofs --------------------------
(***************************************************************************)
(* Endpoint 0 serves every control transfer, wherever the host abandons    *)
(* it, and implements ControlTransfer, for every packet size, any requests *)
(* and any number of SETUPs, lost handshakes and resets.                   *)
(***************************************************************************)
EXTENDS ControlEp, SequenceTheorems, TLAPS
-----------------------------------------------------------------------------
(***************************************************************************)
(* The inductive invariant.                                                *)
(*                                                                         *)
(* At most three transactions wait to be serviced, in this order: an IN of *)
(* the running transfer, the OUT of its status stage and the SETUP of the  *)
(* next transfer.                                                          *)
(***************************************************************************)
Entries(a, b, c, in, out, setup) ==
    IF a THEN IF b THEN IF c THEN <<in, out, setup>> ELSE <<in, out>>
                   ELSE IF c THEN <<in, setup>> ELSE <<in>>
         ELSE IF b THEN IF c THEN <<out, setup>> ELSE <<out>>
                   ELSE IF c THEN <<setup>> ELSE <<>>

\* An IN transaction waits; the SETUP of the next transfer does.
InWaits(d) == d.entryIn # d.inSie
SetupWaits(d) == d.PKTDIS

Sending(d) == d.controlTransferState = "CTRL_TRF_TX"
Other(i) == 1 - i

\* The queue, when outWaits tells whether the OUT of a status stage is in it.
QueuePart(d, outWaits) ==
    d.USTAT = Entries(InWaits(d), outWaits, SetupWaits(d),
                      <<"in", Other(d.inSie)>>,
                      <<"out", IF SetupWaits(d) THEN d.outSie ELSE Other(d.outSie)>>,
                      <<"out", Other(d.outSie)>>)

\* The descriptors for OUT: the next one is armed unless a SETUP waits, and
\* if it is for a status packet then the one after it is for a SETUP.
OutPart(d, outWaits) ==
    LET this == d.out[d.outSie]
        that == d.out[Other(d.outSie)]
    IN  /\ d.statusEnabled
        /\ d.bothSet <=> Sending(d)
        /\ outWaits => Sending(d)
        /\ IF SetupWaits(d)
           THEN /\ ~that.uown /\ that.setup
                /\ outWaits => ~this.setup
           ELSE /\ this.uown
                /\ outWaits => ~that.setup /\ this.stall
                /\ ~this.stall => /\ Sending(d) /\ that.uown /\ that.stall
                                  /\ d.current = Other(d.outSie)

\* The descriptors for IN: at most the next one is armed.
InPart(d) ==
    /\ ~d.in[Other(d.inSie)].uown
    /\ InWaits(d) => ~d.in[d.inSie].uown

\* The device knows the request.
Known == req.kind # "unknown"
This == dev.in[dev.inSie]
ForStatus == ~dev.out[dev.outSie].stall

\* The packets of a read: what is sent and what remains add up, and the host
\* has what was sent, or all but the packet that is armed.
ReadPart ==
    /\ dev.pSrc + dev.wCount = Min({req.avail, req.wLength})
    /\ IF InWaits(dev)
       THEN /\ Len(got) = dev.pSrc /\ Len(got) < req.wLength
            /\ toggle = 1 - dev.in[Other(dev.inSie)].dts
            /\ dev.shortPacketStatus = "NOT_USED"
       ELSE /\ This.uown /\ ~This.stall
            /\ dev.CtrlTrfData + This.cnt = dev.pSrc
            /\ \/ This.cnt = EP0_SIZE /\ dev.shortPacketStatus = "NOT_USED"
               \/ This.cnt < EP0_SIZE /\ dev.wCount = 0
            /\ \/ toggle = This.dts /\ Len(got) = dev.CtrlTrfData
               \/ /\ toggle # This.dts /\ Len(got) = dev.pSrc
                  /\ This.cnt = EP0_SIZE /\ Len(got) < req.wLength

\* Where the host is, when the SETUP of its transfer waits.
AskedPart ==
    /\ got = <<>> /\ toggle = 1
    /\ \/ phase = Transfer!FirstStage(req)
       \/ phase = "statusOut" /\ Transfer!FirstStage(req) = "dataIn"

\* Where the host is, and what the device has armed for it.
StagePart ==
    /\ phase # "idle" => dev.next = dev.outSie
    /\ phase = "dataIn" =>
          /\ req.wLength > 0 /\ req.in /\ (Known <=> ForStatus)
          /\ IF Known THEN Sending(dev) /\ ReadPart
             ELSE ~InWaits(dev) /\ This.uown /\ This.stall
    /\ phase = "statusIn" =>
          /\ req.wLength = 0 /\ toggle = 1 /\ got = <<>>
          /\ ~InWaits(dev) /\ This.uown
          /\ IF Known THEN ~This.stall /\ This.dts = 1 /\ This.cnt = 0
             ELSE This.stall
          /\ req.kind = "config" => dev.config = req.value
    /\ phase = "statusOut" =>
          /\ req.wLength > 0 /\ req.in /\ (Known <=> ForStatus)
    /\ phase = "dataOut" =>
          ~Known /\ ~ForStatus

HostPart(outWaits) ==
    /\ req = dev.SetupPkt
    /\ IF SetupWaits(dev) THEN AskedPart
       ELSE StagePart /\ (outWaits => phase = "idle")

\* The host and the device agree on the address, but between the status stage
\* of SET_ADDRESS and its being serviced.
AddressPart ==
    IF dev.USBDeviceState = "ADR_PENDING"
    THEN /\ req.kind = "address"
         /\ \/ phase = "statusIn" /\ ~InWaits(dev) /\ address = dev.U1ADDR
            \/ /\ phase = "idle" /\ InWaits(dev) /\ ~SetupWaits(dev)
               /\ address = req.value
    ELSE /\ address = dev.U1ADDR
         /\ ~(phase = "statusIn" /\ req.kind = "address" /\ ~SetupWaits(dev))

EpInv ==
    /\ TypeOK
    /\ InPart(dev)
    /\ \E outWaits \in BOOLEAN :
          /\ QueuePart(dev, outWaits)
          /\ OutPart(dev, outWaits)
          /\ HostPart(outWaits)
    /\ ~DropsAddress => AddressPart
-----------------------------------------------------------------------------
(***************************************************************************)
(* What the handlers make of the device.                                   *)
(***************************************************************************)
LEMMA MinFacts ==
    ASSUME NEW m \in Nat, NEW n \in Nat
    PROVE  /\ Min({m, n}) = IF m <= n THEN m ELSE n
           /\ Min({m, n}) \in Nat
<1>1. \E x \in {m, n} : \A y \in {m, n} : x <= y
  OBVIOUS
<1>2. Min({m, n}) \in {m, n} /\ Min({m, n}) <= m /\ Min({m, n}) <= n
  BY <1>1, SMTT(40) DEF Min
<1>3. QED
  BY <1>2

LEMMA Values ==
    /\ EP0_SIZE \in Nat /\ EP0_SIZE > 0 /\ TIMEOUT \in Nat
    /\ Clear \in Descriptors /\ Stalled \in Descriptors /\ ForSetup \in Descriptors
    /\ Stalled.uown /\ Stalled.stall
    /\ ForSetup.uown /\ ForSetup.stall /\ ~ForSetup.setup
    /\ \A dts \in {0, 1}, cnt \in 0..EP0_SIZE :
          /\ Armed(dts, cnt) \in Descriptors
          /\ Armed(dts, cnt).uown /\ ~Armed(dts, cnt).stall
          /\ Armed(dts, cnt).dts = dts /\ Armed(dts, cnt).cnt = cnt
          /\ [Stalled EXCEPT !.cnt = cnt] \in Descriptors
          /\ [Stalled EXCEPT !.cnt = cnt].uown /\ [Stalled EXCEPT !.cnt = cnt].stall
<1>1. EP0_SIZE \in Nat /\ EP0_SIZE > 0 /\ TIMEOUT \in Nat
  BY ControlAssumption
<1>2. 0 \in 0..EP0_SIZE /\ EP0_SIZE \in 0..EP0_SIZE
  BY <1>1
<1>3. QED
  BY <1>1, <1>2 DEF Clear, Stalled, ForSetup, Armed, Descriptors

\* The bytes of the next packet, and what becomes of the short packet state.
NextCount(d) == Min({d.wCount, EP0_SIZE})
NextShort(d) ==
    IF d.wCount < EP0_SIZE THEN ShortAfter[d.shortPacketStatus]
    ELSE d.shortPacketStatus

LEMMA TxService ==
    ASSUME NEW d \in DevType
    PROVE  LET n == NextCount(d)
           IN  /\ USBCtrlTrfTxService(d) =
                    [d EXCEPT !.shortPacketStatus = NextShort(d),
                              !.wCount = d.wCount - n,
                              !.in = [d.in EXCEPT ![d.entryIn] =
                                         [d.in[d.entryIn] EXCEPT !.cnt = n]],
                              !.CtrlTrfData = d.pSrc, !.pSrc = d.pSrc + n]
               /\ USBCtrlTrfTxService(d) \in DevType
               /\ n \in 0..EP0_SIZE
               /\ NextShort(d) \in {"NOT_USED", "PENDING", "SENT"}
<1> DEFINE n == NextCount(d)
           s == NextShort(d)
           f == USBCtrlTrfTxService(d)
           new == [d.in EXCEPT ![d.entryIn] = [d.in[d.entryIn] EXCEPT !.cnt = n]]
<1>1. /\ d.wCount \in Nat /\ d.pSrc \in Nat /\ d.entryIn \in {0, 1}
      /\ d.in \in [{0, 1} -> Descriptors] /\ EP0_SIZE \in Nat
      /\ d.shortPacketStatus \in {"NOT_USED", "PENDING", "SENT"}
  BY ControlAssumption DEF DevType
<1>2. n \in 0..EP0_SIZE /\ d.wCount - n \in Nat /\ d.pSrc + n \in Nat
  BY <1>1, MinFacts DEF NextCount
<1>3. s \in {"NOT_USED", "PENDING", "SENT"}
  BY <1>1 DEF NextShort, ShortAfter
<1>4. f = [d EXCEPT !.shortPacketStatus = s, !.wCount = d.wCount - n, !.in = new,
                    !.CtrlTrfData = d.pSrc, !.pSrc = d.pSrc + n]
  BY DEF USBCtrlTrfTxService, NextCount, NextShort, DevType
<1> HIDE DEF n, s, f
<1>5. new \in [{0, 1} -> Descriptors]
  BY <1>1, <1>2 DEF Descriptors
<1> HIDE DEF new
<1>6. f \in DevType
  BY <1>1, <1>2, <1>3, <1>4, <1>5, ZenonT(60) DEF DevType
<1>7. QED
  BY <1>2, <1>3, <1>4, <1>6 DEF n, s, f, new

LEMMA UpdateIn ==
    ASSUME NEW d \in DevType, NEW in \in [{0, 1} -> Descriptors]
    PROVE  [d EXCEPT !.in = in] \in DevType
BY ZenonT(60) DEF DevType

LEMMA UpdateState ==
    ASSUME NEW d \in DevType,
           NEW s \in {"WAIT_SETUP", "CTRL_TRF_TX", "CTRL_TRF_RX"}
    PROVE  [d EXCEPT !.controlTransferState = s] \in DevType
BY ZenonT(60) DEF DevType

LEMMA UpdateAddress ==
    ASSUME NEW d \in DevType, NEW a \in Nat, NEW s \in {"DEFAULT", "ADDRESS"}
    PROVE  [d EXCEPT !.U1ADDR = a, !.USBDeviceState = s] \in DevType
BY ZenonT(60) DEF DevType

\* The IN handler: in the data stage the next packet or a stall is armed.
LEMMA ServiceIn ==
    ASSUME NEW d \in DevType, NEW k
    PROVE  LET e == USBCtrlEPService(d, <<"in", k>>)
               j == 1 - d.entryIn
               n == NextCount(d)
           IN  /\ e \in DevType
               /\ e.entryIn = j
               /\ e.out = d.out /\ e.outSie = d.outSie /\ e.inSie = d.inSie
               /\ e.PKTDIS = d.PKTDIS /\ e.USTAT = d.USTAT /\ e.STALLIF = d.STALLIF
               /\ e.current = d.current /\ e.next = d.next
               /\ e.bothSet = d.bothSet /\ e.statusEnabled = d.statusEnabled
               /\ e.SetupPkt = d.SetupPkt /\ e.config = d.config
               /\ IF d.USBDeviceState = "ADR_PENDING"
                  THEN e.U1ADDR = d.SetupPkt.value /\ e.USBDeviceState # "ADR_PENDING"
                  ELSE e.U1ADDR = d.U1ADDR /\ e.USBDeviceState = d.USBDeviceState
               /\ IF Sending(d)
                  THEN /\ e.controlTransferState = d.controlTransferState
                       /\ e.in = [d.in EXCEPT ![j] =
                                    IF NextShort(d) = "SENT" THEN [Stalled EXCEPT !.cnt = n]
                                    ELSE Armed(1 - d.in[d.entryIn].dts, n)]
                       /\ e.shortPacketStatus = NextShort(d)
                       /\ e.wCount = d.wCount - n /\ e.pSrc = d.pSrc + n
                       /\ e.CtrlTrfData = d.pSrc
                  ELSE e.controlTransferState = "WAIT_SETUP" /\ e.in = d.in
<1> DEFINE j == 1 - d.entryIn
           n == NextCount(d)
           f == [d EXCEPT !.timeout = TIMEOUT]
           g == [f EXCEPT !.entryIn = j]
           h == CheckAddressPending(g)
           e == USBCtrlEPService(d, <<"in", k>>)
<1>1. d.entryIn \in {0, 1} /\ j \in {0, 1} /\ TIMEOUT \in 0..TIMEOUT
      /\ d.SetupPkt.value \in Nat
  BY ControlAssumption DEF DevType
<1>2. e = IF d.controlTransferState = "CTRL_TRF_TX"
          THEN ArmNextIn(h, d.in[d.entryIn].dts)
          ELSE [h EXCEPT !.controlTransferState = "WAIT_SETUP"]
  BY DEF USBCtrlEPService, USBCtrlTrfInHandler, DevType
<1>3. g \in DevType
  BY <1>1, ZenonT(60) DEF DevType
<1>4. /\ h \in DevType
      /\ IF d.USBDeviceState = "ADR_PENDING"
         THEN h.U1ADDR = d.SetupPkt.value /\ h.USBDeviceState # "ADR_PENDING"
         ELSE h.U1ADDR = d.U1ADDR /\ h.USBDeviceState = d.USBDeviceState
      /\ h.entryIn = j /\ h.out = d.out /\ h.outSie = d.outSie /\ h.inSie = d.inSie
      /\ h.PKTDIS = d.PKTDIS /\ h.USTAT = d.USTAT /\ h.STALLIF = d.STALLIF
      /\ h.current = d.current /\ h.next = d.next
      /\ h.bothSet = d.bothSet /\ h.statusEnabled = d.statusEnabled
      /\ h.SetupPkt = d.SetupPkt /\ h.config = d.config /\ h.in = d.in
      /\ h.shortPacketStatus = d.shortPacketStatus /\ h.wCount = d.wCount
      /\ h.pSrc = d.pSrc /\ h.controlTransferState = d.controlTransferState
  <2>1. CASE d.USBDeviceState = "ADR_PENDING"
    <3> DEFINE s == IF d.SetupPkt.value # 0 THEN "ADDRESS" ELSE "DEFAULT"
    <3>1. h = [g EXCEPT !.U1ADDR = d.SetupPkt.value, !.USBDeviceState = s]
      BY <2>1 DEF CheckAddressPending, DevType
    <3>2. s \in {"DEFAULT", "ADDRESS"}
      OBVIOUS
    <3> HIDE DEF h, s
    <3>3. h \in DevType
      BY <1>1, <1>3, <3>1, <3>2, UpdateAddress
    <3>4. h.U1ADDR = d.SetupPkt.value /\ h.USBDeviceState = s
      BY <1>3, <3>1 DEF DevType
    <3> HIDE DEF g
    <3>5. s # "ADR_PENDING"
      BY <3>2
    <3>6. QED
      BY <1>3, <2>1, <3>1, <3>3, <3>4, <3>5 DEF DevType, g
  <2>2. CASE d.USBDeviceState # "ADR_PENDING"
    <3>1. h = g
      BY <2>2 DEF CheckAddressPending, DevType
    <3> HIDE DEF h
    <3>2. QED
      BY <1>1, <1>3, <2>2, <3>1 DEF DevType
  <2>3. QED
    BY <2>1, <2>2
<1> HIDE DEF h, e, n
<1>5. CASE ~Sending(d)
  <2>1. e = [h EXCEPT !.controlTransferState = "WAIT_SETUP"]
    BY <1>2, <1>5 DEF Sending
  <2>2. e \in DevType
    BY <1>4, <2>1, UpdateState
  <2>3. QED
    BY <1>4, <1>5, <2>1, <2>2, SMTT(40) DEF DevType, e
<1>6. CASE Sending(d)
  <2> DEFINE t == USBCtrlTrfTxService(h)
             c == d.in[j]
             old == [d.in EXCEPT ![j] = [c EXCEPT !.cnt = n]]
             new == IF NextShort(d) = "SENT" THEN [Stalled EXCEPT !.cnt = n]
                    ELSE Armed(1 - d.in[d.entryIn].dts, n)
             ins == [d.in EXCEPT ![j] = new]
  <2>1. NextCount(h) = n /\ NextShort(h) = NextShort(d)
    BY <1>4 DEF NextCount, NextShort, n
  <2>2. /\ t = [h EXCEPT !.shortPacketStatus = NextShort(d), !.wCount = d.wCount - n,
                         !.in = old, !.CtrlTrfData = d.pSrc, !.pSrc = d.pSrc + n]
        /\ t \in DevType /\ n \in 0..EP0_SIZE
    BY <1>4, <2>1, TxService
  <2> HIDE DEF t
  <2>3. d.in \in [{0, 1} -> Descriptors] /\ c \in Descriptors
        /\ d.in[d.entryIn].dts \in {0, 1}
    BY <1>1 DEF DevType, Descriptors
  <2>4. old[j].cnt = n
    BY <1>1, <2>3 DEF Descriptors
  <2>5. new \in Descriptors
    BY <2>2, <2>3, Values
  <2>6. [old EXCEPT ![j] = new] = ins
    BY <1>1, <2>3
  <2>7. ins \in [{0, 1} -> Descriptors]
    BY <2>3, <2>5
  <2> HIDE DEF c, old, new
  <2>8. /\ t.in = old /\ t.entryIn = j /\ t.shortPacketStatus = NextShort(d)
        /\ t.wCount = d.wCount - n /\ t.CtrlTrfData = d.pSrc /\ t.pSrc = d.pSrc + n
        /\ t.out = d.out /\ t.outSie = d.outSie /\ t.inSie = d.inSie
        /\ t.PKTDIS = d.PKTDIS /\ t.USTAT = d.USTAT /\ t.STALLIF = d.STALLIF
        /\ t.current = d.current /\ t.next = d.next
        /\ t.bothSet = d.bothSet /\ t.statusEnabled = d.statusEnabled
        /\ t.SetupPkt = d.SetupPkt /\ t.config = d.config
        /\ t.controlTransferState = d.controlTransferState
        /\ t.U1ADDR = h.U1ADDR /\ t.USBDeviceState = h.USBDeviceState
    BY <1>4, <2>2 DEF DevType
  <2>9. e = [t EXCEPT !.in = ins]
    <3>1. e = [t EXCEPT !.in[j] =
                 IF NextShort(d) = "SENT" THEN [Stalled EXCEPT !.cnt = n]
                 ELSE Armed(1 - d.in[d.entryIn].dts, n)]
      BY <1>2, <1>6, <2>8, <2>4 DEF ArmNextIn, Sending, t
    <3>2. QED
      BY <2>2, <2>8, <2>6, <3>1, ZenonT(60) DEF DevType, new
  <2> HIDE DEF ins
  <2>10. e \in DevType
    BY <2>2, <2>9, <2>7, UpdateIn
  <2>11. e.in = ins /\ e.entryIn = t.entryIn /\ e.shortPacketStatus = t.shortPacketStatus
    BY <2>2, <2>9 DEF DevType
  <2>12. e.wCount = t.wCount /\ e.CtrlTrfData = t.CtrlTrfData /\ e.pSrc = t.pSrc
    BY <2>2, <2>9 DEF DevType
  <2>13. /\ e.out = t.out /\ e.outSie = t.outSie /\ e.inSie = t.inSie
        /\ e.PKTDIS = t.PKTDIS /\ e.USTAT = t.USTAT /\ e.STALLIF = t.STALLIF
    BY <2>2, <2>9 DEF DevType
  <2>14. /\ e.current = t.current /\ e.next = t.next
         /\ e.bothSet = t.bothSet /\ e.statusEnabled = t.statusEnabled
         /\ e.SetupPkt = t.SetupPkt /\ e.config = t.config
         /\ e.controlTransferState = t.controlTransferState
         /\ e.U1ADDR = t.U1ADDR /\ e.USBDeviceState = t.USBDeviceState
    BY <2>2, <2>9 DEF DevType
  <2>15. QED
    BY <1>4, <1>6, <2>8, <2>10, <2>11, <2>12, <2>13, <2>14 DEF e, n, new, ins
<1>7. QED
  BY <1>5, <1>6

\* The OUT of a status stage: the descriptors are armed already.
LEMMA ServiceOut ==
    ASSUME NEW d \in DevType, NEW i \in {0, 1},
           ~d.out[i].setup, Sending(d), d.bothSet
    PROVE  LET e == USBCtrlEPService(d, <<"out", i>>)
           IN  /\ e = [d EXCEPT !.timeout = TIMEOUT, !.current = i, !.next = 1 - i,
                                !.controlTransferState = "WAIT_SETUP",
                                !.bothSet = FALSE]
               /\ e \in DevType
<1> DEFINE f == [d EXCEPT !.timeout = TIMEOUT, !.current = i, !.next = 1 - i]
           e == USBCtrlEPService(d, <<"out", i>>)
<1>1. 1 - i \in {0, 1} /\ TIMEOUT \in 0..TIMEOUT
  BY ControlAssumption
<1>2. e = USBCtrlTrfOutHandler(f)
  BY DEF USBCtrlEPService, DevType
<1>3. f \in DevType /\ f.out = d.out /\ f.bothSet /\ f.next = 1 - i
      /\ f.controlTransferState = "CTRL_TRF_TX"
  BY <1>1, ZenonT(60) DEF DevType, Sending
<1>4. e = [f EXCEPT !.controlTransferState = "WAIT_SETUP", !.bothSet = FALSE,
                    !.out = [f.out EXCEPT ![f.next] = f.out[f.next]]]
  BY <1>2, <1>3 DEF USBCtrlTrfOutHandler, DevType
<1>5. [f.out EXCEPT ![f.next] = f.out[f.next]] = d.out
  BY <1>3 DEF DevType
<1>6. e = [d EXCEPT !.timeout = TIMEOUT, !.current = i, !.next = 1 - i,
                    !.controlTransferState = "WAIT_SETUP", !.bothSet = FALSE]
  <2> HIDE DEF e
  <2>1. e = [f EXCEPT !.controlTransferState = "WAIT_SETUP", !.bothSet = FALSE,
                      !.out = d.out]
    BY <1>3, <1>4, <1>5
  <2>2. QED
    BY <1>3, <2>1, ZenonT(60) DEF DevType
<1> HIDE DEF e, f
<1>7. e \in DevType
  BY <1>1, <1>6, ZenonT(60) DEF DevType
<1>8. QED
  BY <1>6, <1>7 DEF e

\* A SETUP first takes back what the previous transfer left armed.
Begun(d, i) == Abandon([d EXCEPT !.timeout = TIMEOUT, !.current = i, !.next = 1 - i])

LEMMA BegunFacts ==
    ASSUME NEW d \in DevType, NEW i \in {0, 1}, d.out[i].setup
    PROVE  LET b == Begun(d, i)
           IN  /\ b \in DevType
               /\ USBCtrlEPService(d, <<"out", i>>) =
                    USBCtrlEPServiceComplete(CheckRequest(b))
               /\ b.current = i /\ b.next = 1 - i
               /\ b.shortPacketStatus = "NOT_USED" /\ ~b.bothSet /\ ~b.busy
               /\ b.wCount = 0 /\ ~b.in[0].uown /\ ~b.in[1].uown /\ ~Sending(b)
               /\ b.outSie = d.outSie /\ b.inSie = d.inSie /\ b.entryIn = d.entryIn
               /\ b.USTAT = d.USTAT /\ b.STALLIF = d.STALLIF
               /\ b.statusEnabled = d.statusEnabled /\ b.SetupPkt = d.SetupPkt
               /\ b.U1ADDR = d.U1ADDR /\ b.USBDeviceState = d.USBDeviceState
               /\ b.config = d.config
<1> DEFINE b == Begun(d, i)
           f == [d EXCEPT !.timeout = TIMEOUT, !.current = i, !.next = 1 - i]
           ins == [k \in {0, 1} |-> [d.in[k] EXCEPT !.uown = FALSE]]
           outs == [d.out EXCEPT ![1 - i] = [d.out[1 - i] EXCEPT !.uown = FALSE]]
<1>1. 1 - i \in {0, 1} /\ TIMEOUT \in 0..TIMEOUT
  BY ControlAssumption
<1>2. d.in \in [{0, 1} -> Descriptors] /\ d.out \in [{0, 1} -> Descriptors]
  BY DEF DevType
<1>3. USBCtrlEPService(d, <<"out", i>>) = USBCtrlTrfSetupHandler(f)
  BY DEF USBCtrlEPService, DevType
<1>4. b = [d EXCEPT !.timeout = TIMEOUT, !.current = i, !.next = 1 - i,
                    !.shortPacketStatus = "NOT_USED", !.bothSet = FALSE,
                    !.controlTransferState = "WAIT_SETUP", !.in = ins, !.out = outs,
                    !.busy = FALSE, !.wCount = 0]
  <2>1. f \in DevType /\ f.in = d.in /\ f.out = d.out /\ f.next = 1 - i
    BY <1>1, ZenonT(60) DEF DevType
  <2>2. b = [f EXCEPT !.shortPacketStatus = "NOT_USED", !.bothSet = FALSE,
                      !.controlTransferState = "WAIT_SETUP", !.in = ins, !.out = outs,
                      !.busy = FALSE, !.wCount = 0]
    BY <2>1 DEF Begun, Abandon, DevType
  <2>3. QED
    BY <2>2 DEF DevType
<1>5. ins \in [{0, 1} -> Descriptors] /\ ~ins[0].uown /\ ~ins[1].uown
  BY <1>2, ZenonT(60) DEF Descriptors
<1>6. outs \in [{0, 1} -> Descriptors]
  BY <1>1, <1>2, ZenonT(60) DEF Descriptors
<1> HIDE DEF b, ins, outs
<1>7. b \in DevType
  BY <1>1, <1>4, <1>5, <1>6, ZenonT(60) DEF DevType
<1>8. /\ b.current = i /\ b.next = 1 - i /\ b.in = ins
      /\ b.shortPacketStatus = "NOT_USED" /\ ~b.bothSet /\ ~b.busy /\ b.wCount = 0
      /\ ~Sending(b) /\ b.outSie = d.outSie /\ b.inSie = d.inSie /\ b.entryIn = d.entryIn
      /\ b.USTAT = d.USTAT /\ b.STALLIF = d.STALLIF
      /\ b.statusEnabled = d.statusEnabled /\ b.SetupPkt = d.SetupPkt
      /\ b.U1ADDR = d.U1ADDR /\ b.USBDeviceState = d.USBDeviceState
      /\ b.config = d.config
  BY <1>4 DEF DevType, Sending
<1>9. USBCtrlTrfSetupHandler(f) = USBCtrlEPServiceComplete(CheckRequest(b))
  BY DEF USBCtrlTrfSetupHandler, b, Begun
<1>10. QED
  BY <1>3, <1>5, <1>7, <1>8, <1>9 DEF b

LEMMA UpdateStatus ==
    ASSUME NEW d \in DevType, NEW out \in [{0, 1} -> Descriptors]
    PROVE  [d EXCEPT !.statusEnabled = TRUE, !.bothSet = TRUE, !.out = out] \in DevType
BY ZenonT(60) DEF DevType

\* A read: the first packet, and the descriptors of the status stage and of
\* the next SETUP.
Available(r) == Min({r.avail, r.wLength})
FirstCount(r) == Min({Available(r), EP0_SIZE})

LEMMA AnswerRead ==
    ASSUME NEW b \in DevType, b.shortPacketStatus = "NOT_USED",
           NEW i \in {0, 1}, b.current = i, b.next = 1 - i, b.SetupPkt.kind = "read",
           ~b.in[0].uown, ~b.in[1].uown
    PROVE  LET e == USBCtrlEPServiceComplete(CheckRequest(b))
               r == b.SetupPkt
               n == FirstCount(r)
           IN  /\ e \in DevType
               /\ e.out[i] = ForSetup /\ e.out[1 - i] = Armed(0, EP0_SIZE)
               /\ e.in[b.entryIn] = Armed(1, n) /\ ~e.in[1 - b.entryIn].uown
               /\ Sending(e) /\ e.bothSet /\ e.statusEnabled /\ ~e.PKTDIS
               /\ n \in 0..EP0_SIZE /\ Available(r) \in Nat
               /\ e.pSrc = n /\ e.CtrlTrfData = 0 /\ e.pSrc + e.wCount = Available(r)
               /\ e.shortPacketStatus = IF n < EP0_SIZE THEN "PENDING" ELSE "NOT_USED"
               /\ n < EP0_SIZE => e.wCount = 0
               /\ e.current = i /\ e.next = 1 - i /\ e.entryIn = b.entryIn
               /\ e.outSie = b.outSie /\ e.inSie = b.inSie
               /\ e.USTAT = b.USTAT /\ e.SetupPkt = b.SetupPkt
               /\ e.U1ADDR = b.U1ADDR /\ e.USBDeviceState = b.USBDeviceState
               /\ e.config = b.config
<1> DEFINE r == b.SetupPkt
           all == Available(r)
           n == FirstCount(r)
           j == b.entryIn
           w == [CheckRequest(b) EXCEPT !.PKTDIS = FALSE,
                                        !.controlTransferState = "CTRL_TRF_TX"]
           x == [w EXCEPT !.wCount = Min({@, w.SetupPkt.wLength})]
           t == USBCtrlTrfTxService(x)
           y == [t EXCEPT !.in[t.entryIn] = Armed(1, @.cnt)]
           e == USBCtrlEPServiceComplete(CheckRequest(b))
           short == IF n < EP0_SIZE THEN "PENDING" ELSE "NOT_USED"
           old == [b.in EXCEPT ![j] = [b.in[j] EXCEPT !.cnt = n]]
           ins == [b.in EXCEPT ![j] = Armed(1, n)]
           outs == [b.out EXCEPT ![i] = ForSetup, ![1 - i] = Armed(0, EP0_SIZE)]
<1>1. /\ r.kind = "read" /\ r.in /\ r.avail \in Nat /\ r.wLength \in Nat
      /\ j \in {0, 1} /\ 1 - i \in {0, 1} /\ EP0_SIZE \in Nat /\ EP0_SIZE \in 0..EP0_SIZE
  BY ControlAssumption, SMTT(40) DEF DevType
<1>2. /\ all \in Nat /\ n \in 0..EP0_SIZE /\ n <= all
      /\ (all < EP0_SIZE <=> n < EP0_SIZE) /\ (n < EP0_SIZE => all - n = 0)
  BY <1>1, MinFacts DEF Available, FirstCount
<1>3. b.in \in [{0, 1} -> Descriptors] /\ b.out \in [{0, 1} -> Descriptors]
  BY DEF DevType
<1>4. /\ x = [b EXCEPT !.busy = TRUE, !.pSrc = 0, !.wCount = all, !.PKTDIS = FALSE,
                       !.controlTransferState = "CTRL_TRF_TX"]
      /\ CheckRequest(b).busy /\ CheckRequest(b).SetupPkt = r
  <2>1. CheckRequest(b) = [b EXCEPT !.busy = TRUE, !.pSrc = 0, !.wCount = r.avail]
    BY <1>1 DEF CheckRequest
  <2>2. CheckRequest(b).busy /\ CheckRequest(b).SetupPkt = r
    BY <2>1 DEF DevType
  <2>3. w = [b EXCEPT !.busy = TRUE, !.pSrc = 0, !.wCount = r.avail, !.PKTDIS = FALSE,
                      !.controlTransferState = "CTRL_TRF_TX"]
    BY <2>1 DEF DevType
  <2>4. w.wCount = r.avail /\ w.SetupPkt = r
    BY <2>3 DEF DevType
  <2> HIDE DEF w
  <2>5. x = [w EXCEPT !.wCount = all]
    BY <2>4 DEF Available
  <2> HIDE DEF x
  <2>6. x = [b EXCEPT !.busy = TRUE, !.pSrc = 0, !.wCount = all, !.PKTDIS = FALSE,
                      !.controlTransferState = "CTRL_TRF_TX"]
    BY <2>3, <2>5 DEF DevType
  <2>7. QED
    BY <2>2, <2>6
<1>5. e = USBCtrlEPAllowStatusStage([y EXCEPT !.statusEnabled = FALSE])
  <2>1. w = [[CheckRequest(b) EXCEPT !.PKTDIS = FALSE]
                EXCEPT !.controlTransferState = "CTRL_TRF_TX"]
    OBVIOUS
  <2>2. QED
    BY <1>1, <1>4, <2>1 DEF USBCtrlEPServiceComplete, USBCtrlEPAllowDataStage
<1> HIDE DEF w, x, e, all, n
<1>6. /\ x \in DevType /\ x.wCount = all /\ x.pSrc = 0 /\ x.entryIn = j /\ x.in = b.in
      /\ x.shortPacketStatus = "NOT_USED"
      /\ x.out = b.out /\ Sending(x) /\ ~x.PKTDIS
      /\ x.current = i /\ x.next = 1 - i
      /\ x.outSie = b.outSie /\ x.inSie = b.inSie
      /\ x.USTAT = b.USTAT /\ x.SetupPkt = b.SetupPkt
      /\ x.U1ADDR = b.U1ADDR /\ x.USBDeviceState = b.USBDeviceState
      /\ x.config = b.config
  BY <1>2, <1>4, ZenonT(60) DEF DevType, Sending
<1>7. /\ t = [x EXCEPT !.shortPacketStatus = short, !.wCount = all - n, !.in = old,
                       !.CtrlTrfData = 0, !.pSrc = n]
      /\ t \in DevType
  <2>1. NextCount(x) = n
    BY <1>6 DEF NextCount, n, FirstCount, all
  <2>2. NextShort(x) = short
    BY <1>2, <1>6 DEF NextShort, ShortAfter
  <2> HIDE DEF short, t
  <2>3. 0 + n = n
    BY <1>2
  <2>4. /\ USBCtrlTrfTxService(x) =
             [x EXCEPT !.shortPacketStatus = NextShort(x), !.wCount = x.wCount - n,
                       !.in = [x.in EXCEPT ![x.entryIn] =
                                  [x.in[x.entryIn] EXCEPT !.cnt = n]],
                       !.CtrlTrfData = x.pSrc, !.pSrc = x.pSrc + n]
        /\ USBCtrlTrfTxService(x) \in DevType
    BY <1>6, <2>1, TxService
  <2>5. t = [x EXCEPT !.shortPacketStatus = short, !.wCount = all - n, !.in = old,
                      !.CtrlTrfData = 0, !.pSrc = n]
    BY <1>6, <2>2, <2>3, <2>4 DEF t
  <2>6. QED
    BY <2>4, <2>5 DEF t
<1> HIDE DEF t, short
<1>8. Armed(1, n) \in Descriptors /\ Armed(0, EP0_SIZE) \in Descriptors
      /\ ForSetup \in Descriptors
  BY <1>1, <1>2, Values
<1>9. /\ ins \in [{0, 1} -> Descriptors] /\ ins[j] = Armed(1, n) /\ ~ins[1 - j].uown
      /\ [old EXCEPT ![j] = Armed(1, n)] = ins /\ old[j].cnt = n
  <2>1. j \in {0, 1} /\ 1 - j \in {0, 1} /\ 1 - j # j
    BY <1>1
  <2>2. old[j].cnt = n
    BY <1>1, <1>3 DEF Descriptors
  <2>3. QED
    BY <1>3, <1>8, <2>1, <2>2
<1>10. /\ outs \in [{0, 1} -> Descriptors]
       /\ outs[i] = ForSetup /\ outs[1 - i] = Armed(0, EP0_SIZE)
  BY <1>1, <1>3, <1>8
<1> HIDE DEF old, ins
<1>11. y = [t EXCEPT !.in = ins]
  <2>1. t.in = old /\ t.entryIn = j
    BY <1>6, <1>7 DEF DevType
  <2>2. y = [t EXCEPT !.in = [old EXCEPT ![j] = Armed(1, n)]]
    BY <1>7, <1>9, <2>1 DEF DevType
  <2> HIDE DEF y
  <2>3. QED
    BY <1>9, <2>2
<1> HIDE DEF y
<1>12. y \in DevType
  BY <1>7, <1>9, <1>11, UpdateIn
<1>13. /\ y.in = ins /\ y.out = b.out /\ Sending(y)
       /\ y.shortPacketStatus = short
       /\ y.pSrc = n /\ y.CtrlTrfData = 0 /\ y.wCount = all - n /\ ~y.PKTDIS
       /\ y.current = i /\ y.next = 1 - i /\ y.entryIn = j
       /\ y.outSie = b.outSie /\ y.inSie = b.inSie
       /\ y.USTAT = b.USTAT /\ y.SetupPkt = b.SetupPkt
       /\ y.U1ADDR = b.U1ADDR /\ y.USBDeviceState = b.USBDeviceState
       /\ y.config = b.config
  <2>1. /\ t.out = b.out /\ Sending(t)
        /\ t.shortPacketStatus = short
        /\ t.pSrc = n /\ t.CtrlTrfData = 0 /\ t.wCount = all - n /\ ~t.PKTDIS
        /\ t.current = i /\ t.next = 1 - i /\ t.entryIn = j
        /\ t.outSie = b.outSie /\ t.inSie = b.inSie
        /\ t.USTAT = b.USTAT /\ t.SetupPkt = b.SetupPkt
        /\ t.U1ADDR = b.U1ADDR /\ t.USBDeviceState = b.USBDeviceState
        /\ t.config = b.config
    BY <1>6, <1>7 DEF DevType, Sending
  <2>2. QED
    BY <1>7, <1>11, <2>1 DEF DevType, Sending
<1>14. e = [y EXCEPT !.statusEnabled = TRUE, !.bothSet = TRUE, !.out = outs]
  BY <1>5, <1>12, <1>13, ZenonT(60)
     DEF USBCtrlEPAllowStatusStage, ArmStatusOut, Sending, DevType
<1> HIDE DEF outs
<1>15. e \in DevType
  BY <1>10, <1>12, <1>14, UpdateStatus
<1>16. /\ e.in = ins /\ e.out = outs /\ Sending(e) /\ e.bothSet /\ e.statusEnabled
       /\ e.shortPacketStatus = short
       /\ e.pSrc = n /\ e.CtrlTrfData = 0 /\ e.wCount = all - n /\ ~e.PKTDIS
       /\ e.current = i /\ e.next = 1 - i /\ e.entryIn = j
       /\ e.outSie = b.outSie /\ e.inSie = b.inSie
       /\ e.USTAT = b.USTAT /\ e.SetupPkt = b.SetupPkt
       /\ e.U1ADDR = b.U1ADDR /\ e.USBDeviceState = b.USBDeviceState
       /\ e.config = b.config
  BY <1>12, <1>13, <1>14 DEF DevType, Sending
<1>17. e.pSrc + e.wCount = all /\ (n < EP0_SIZE => e.wCount = 0)
  BY <1>2, <1>16
<1>18. QED
  BY <1>2, <1>9, <1>10, <1>13, <1>15, <1>16, <1>17 DEF e, all, n, short

\* A request without data: the status packet and the next SETUP.
LEMMA AnswerEmpty ==
    ASSUME NEW c \in DevType, c.busy, ~c.SetupPkt.in, c.next \in {0, 1},
           ~c.in[0].uown, ~c.in[1].uown
    PROVE  LET e == USBCtrlEPServiceComplete(c)
           IN  /\ e \in DevType
               /\ e.out[c.next] = ForSetup
               /\ e.in[c.entryIn] = Armed(1, 0) /\ ~e.in[1 - c.entryIn].uown
               /\ ~Sending(e) /\ e.bothSet = c.bothSet /\ e.statusEnabled /\ ~e.PKTDIS
               /\ e.current = c.current /\ e.next = c.next /\ e.entryIn = c.entryIn
               /\ e.outSie = c.outSie /\ e.inSie = c.inSie
               /\ e.USTAT = c.USTAT /\ e.SetupPkt = c.SetupPkt
               /\ e.U1ADDR = c.U1ADDR /\ e.USBDeviceState = c.USBDeviceState
               /\ e.config = c.config
<1> DEFINE j == c.entryIn
           e == USBCtrlEPServiceComplete(c)
           outs == [c.out EXCEPT ![c.next] = ForSetup]
           ins == [c.in EXCEPT ![j] = Armed(1, 0)]
           x == [[c EXCEPT !.PKTDIS = FALSE]
                    EXCEPT !.controlTransferState = "CTRL_TRF_RX",
                           !.out[c.next] = ForSetup, !.statusEnabled = FALSE]
<1>1. j \in {0, 1} /\ 1 - j \in {0, 1} /\ 1 - j # j /\ 0 \in 0..EP0_SIZE
  BY ControlAssumption DEF DevType
<1>2. c.in \in [{0, 1} -> Descriptors] /\ c.out \in [{0, 1} -> Descriptors]
  BY DEF DevType
<1>3. Armed(1, 0) \in Descriptors /\ ForSetup \in Descriptors
  BY <1>1, Values
<1>4. outs \in [{0, 1} -> Descriptors] /\ outs[c.next] = ForSetup
  BY <1>2, <1>3
<1>5. ins \in [{0, 1} -> Descriptors] /\ ins[j] = Armed(1, 0) /\ ~ins[1 - j].uown
  BY <1>1, <1>2, <1>3
<1>6. e = USBCtrlEPAllowStatusStage(x)
  <2>1. [c EXCEPT !.PKTDIS = FALSE].next = c.next
    BY DEF DevType
  <2>2. QED
    BY <2>1 DEF USBCtrlEPServiceComplete
<1>7. x = [c EXCEPT !.PKTDIS = FALSE, !.controlTransferState = "CTRL_TRF_RX",
                    !.out = outs, !.statusEnabled = FALSE]
  BY DEF DevType
<1> HIDE DEF x, outs, ins, e
<1>8. x.entryIn = j /\ x.in = c.in /\ ~x.statusEnabled
      /\ x.controlTransferState = "CTRL_TRF_RX" /\ x \in DevType
  BY <1>4, <1>7, ZenonT(60) DEF DevType
<1>9. e = [x EXCEPT !.statusEnabled = TRUE, !.in = ins]
  BY <1>6, <1>8 DEF USBCtrlEPAllowStatusStage, ArmStatusIn, ins, DevType
<1>10. e = [c EXCEPT !.PKTDIS = FALSE, !.controlTransferState = "CTRL_TRF_RX",
                     !.out = outs, !.statusEnabled = TRUE, !.in = ins]
  BY <1>7, <1>9 DEF DevType
<1>11. e \in DevType
  BY <1>4, <1>5, <1>10 DEF DevType
<1>12. /\ e.in = ins /\ e.out = outs
       /\ ~Sending(e) /\ e.bothSet = c.bothSet /\ e.statusEnabled /\ ~e.PKTDIS
       /\ e.current = c.current /\ e.next = c.next /\ e.entryIn = c.entryIn
       /\ e.outSie = c.outSie /\ e.inSie = c.inSie
       /\ e.USTAT = c.USTAT /\ e.SetupPkt = c.SetupPkt
       /\ e.U1ADDR = c.U1ADDR /\ e.USBDeviceState = c.USBDeviceState
       /\ e.config = c.config
  BY <1>10 DEF DevType, Sending
<1>13. QED
  BY <1>4, <1>5, <1>11, <1>12 DEF e

\* A request that nobody claims: the next IN is stalled.
LEMMA AnswerUnknown ==
    ASSUME NEW c \in DevType, ~c.busy, c.next \in {0, 1},
           ~c.in[0].uown, ~c.in[1].uown
    PROVE  LET e == USBCtrlEPServiceComplete(c)
           IN  /\ e \in DevType
               /\ e.out[c.next] = ForSetup
               /\ e.in[c.entryIn] = Stalled /\ ~e.in[1 - c.entryIn].uown
               /\ e.controlTransferState = c.controlTransferState
               /\ e.bothSet = c.bothSet /\ e.statusEnabled = c.statusEnabled
               /\ ~e.PKTDIS
               /\ e.current = c.current /\ e.next = c.next /\ e.entryIn = c.entryIn
               /\ e.outSie = c.outSie /\ e.inSie = c.inSie
               /\ e.USTAT = c.USTAT /\ e.SetupPkt = c.SetupPkt
               /\ e.U1ADDR = c.U1ADDR /\ e.USBDeviceState = c.USBDeviceState
               /\ e.config = c.config
<1> DEFINE j == c.entryIn
           e == USBCtrlEPServiceComplete(c)
           outs == [c.out EXCEPT ![c.next] = ForSetup]
           ins == [c.in EXCEPT ![j] = Stalled]
<1>1. j \in {0, 1} /\ 1 - j \in {0, 1} /\ 1 - j # j
  BY DEF DevType
<1>2. c.in \in [{0, 1} -> Descriptors] /\ c.out \in [{0, 1} -> Descriptors]
  BY DEF DevType
<1>3. Stalled \in Descriptors /\ ForSetup \in Descriptors
  BY Values
<1>4. outs \in [{0, 1} -> Descriptors] /\ outs[c.next] = ForSetup
  BY <1>2, <1>3
<1>5. ins \in [{0, 1} -> Descriptors] /\ ins[j] = Stalled /\ ~ins[1 - j].uown
  BY <1>1, <1>2, <1>3
<1>6. e = [c EXCEPT !.PKTDIS = FALSE, !.out = outs, !.in = ins]
  BY DEF USBCtrlEPServiceComplete, DevType
<1> HIDE DEF outs, ins, e
<1>7. e \in DevType
  BY <1>4, <1>5, <1>6, ZenonT(60) DEF DevType
<1>8. /\ e.in = ins /\ e.out = outs
      /\ e.controlTransferState = c.controlTransferState
      /\ e.bothSet = c.bothSet /\ e.statusEnabled = c.statusEnabled /\ ~e.PKTDIS
      /\ e.current = c.current /\ e.next = c.next /\ e.entryIn = c.entryIn
      /\ e.outSie = c.outSie /\ e.inSie = c.inSie
      /\ e.USTAT = c.USTAT /\ e.SetupPkt = c.SetupPkt
      /\ e.U1ADDR = c.U1ADDR /\ e.USBDeviceState = c.USBDeviceState
      /\ e.config = c.config
  BY <1>6 DEF DevType
<1>9. QED
  BY <1>4, <1>5, <1>7, <1>8 DEF e

\* What the SETUP handler makes of device d, by the kind of the request.
Served(d, i, e) ==
    LET r == d.SetupPkt
        j == e.entryIn
        n == FirstCount(r)
    IN  /\ e.SetupPkt = r /\ e.U1ADDR = d.U1ADDR
        /\ ~e.PKTDIS /\ e.statusEnabled
        /\ (e.bothSet <=> r.kind = "read") /\ (Sending(e) <=> r.kind = "read")
        /\ IF r.kind = "config"
           THEN /\ e.entryIn = 0 /\ e.inSie = 0 /\ e.outSie = 0 /\ e.next = 0
                /\ e.config = r.value
           ELSE /\ e.entryIn = d.entryIn /\ e.inSie = d.inSie /\ e.outSie = d.outSie
                /\ e.next = 1 - i /\ e.config = d.config
        /\ r.kind = "address" => e.USBDeviceState = "ADR_PENDING"
        /\ r.kind = "config" => e.USBDeviceState # "ADR_PENDING"
        /\ r.kind \notin {"address", "config"} => e.USBDeviceState = d.USBDeviceState
        /\ ~e.in[1 - j].uown
        /\ r.kind = "read" =>
              /\ e.out[e.next] = Armed(0, EP0_SIZE) /\ e.out[1 - e.next] = ForSetup
              /\ e.current = 1 - e.next
              /\ e.in[j] = Armed(1, n) /\ n \in 0..EP0_SIZE
              /\ e.pSrc = n /\ e.CtrlTrfData = 0
              /\ e.pSrc + e.wCount = Available(r)
              /\ e.shortPacketStatus = IF n < EP0_SIZE THEN "PENDING" ELSE "NOT_USED"
              /\ n < EP0_SIZE => e.wCount = 0
        /\ r.kind # "read" => e.out[e.next] = ForSetup
        /\ r.kind = "unknown" => e.in[j] = Stalled
        /\ r.kind \notin {"read", "unknown"} => e.in[j] = Armed(1, 0)

LEMMA UpdateClaim ==
    ASSUME NEW d \in DevType, NEW m \in Nat, NEW n \in Nat,
           NEW s \in {"DEFAULT", "ADR_PENDING", "ADDRESS", "CONFIGURED"}
    PROVE  [d EXCEPT !.busy = TRUE, !.pSrc = m, !.wCount = n,
                     !.USBDeviceState = s] \in DevType
BY ZenonT(60) DEF DevType

LEMMA UpdateConfig ==
    ASSUME NEW d \in DevType, NEW s \in {"ADDRESS", "CONFIGURED"}, NEW v \in Nat,
           NEW none \in [{0, 1} -> Descriptors]
    PROVE  [d EXCEPT !.busy = TRUE, !.out = none, !.in = none,
                     !.outSie = 0, !.inSie = 0,
                     !.entryIn = 0, !.current = 0, !.next = 0, !.config = v,
                     !.USBDeviceState = s] \in DevType
BY ZenonT(60) DEF DevType

LEMMA ServedBegun ==
    ASSUME NEW b \in DevType, NEW i \in {0, 1}, b.current = i, b.next = 1 - i,
           b.shortPacketStatus = "NOT_USED", ~b.bothSet, ~b.busy, b.wCount = 0,
           ~b.in[0].uown, ~b.in[1].uown, ~Sending(b), b.statusEnabled
    PROVE  LET e == USBCtrlEPServiceComplete(CheckRequest(b))
           IN  e \in DevType /\ Served(b, i, e) /\ e.USTAT = b.USTAT
<1> DEFINE r == b.SetupPkt
           c == CheckRequest(b)
           e == USBCtrlEPServiceComplete(c)
<1>1. /\ r \in Requests /\ r.kind \in Kinds /\ r.avail \in Nat /\ r.value \in Nat
      /\ r.kind \in {"write", "address", "config"} => ~r.in
      /\ 1 - i \in {0, 1} /\ 1 - (1 - i) = i
  BY ControlAssumption DEF DevType
<1>2. b.pSrc \in Nat /\ b.wCount \in Nat
      /\ b.USBDeviceState \in {"DEFAULT", "ADR_PENDING", "ADDRESS", "CONFIGURED"}
  BY DEF DevType
<1> HIDE DEF r, c, e
<1>3. CASE r.kind = "read"
  <2>1. b.SetupPkt.kind = "read"
    BY <1>3 DEF r
  <2> DEFINE n == FirstCount(r)
  <2>2. /\ e \in DevType
        /\ e.out[i] = ForSetup /\ e.out[1 - i] = Armed(0, EP0_SIZE)
        /\ e.in[b.entryIn] = Armed(1, n) /\ ~e.in[1 - b.entryIn].uown
        /\ Sending(e) /\ e.bothSet /\ e.statusEnabled /\ ~e.PKTDIS
        /\ n \in 0..EP0_SIZE /\ Available(r) \in Nat
        /\ e.pSrc = n /\ e.CtrlTrfData = 0 /\ e.pSrc + e.wCount = Available(r)
        /\ e.shortPacketStatus = IF n < EP0_SIZE THEN "PENDING" ELSE "NOT_USED"
        /\ n < EP0_SIZE => e.wCount = 0
        /\ e.current = i /\ e.next = 1 - i /\ e.entryIn = b.entryIn
        /\ e.outSie = b.outSie /\ e.inSie = b.inSie
        /\ e.USTAT = b.USTAT /\ e.SetupPkt = b.SetupPkt
        /\ e.U1ADDR = b.U1ADDR /\ e.USBDeviceState = b.USBDeviceState
        /\ e.config = b.config
    BY <2>1, AnswerRead DEF e, c, r
  <2> HIDE DEF n
  <2>3. QED
    BY <1>1, <1>3, <2>2 DEF Served, e, c, r, n
<1>4. ASSUME c \in DevType, c.busy, c.next \in {0, 1}, ~c.in[0].uown,
             ~c.in[1].uown, c.SetupPkt = r,
             r.kind \in {"write", "address", "config"}, c.bothSet = b.bothSet
      PROVE  /\ e \in DevType
             /\ e.out[c.next] = ForSetup
             /\ e.in[c.entryIn] = Armed(1, 0) /\ ~e.in[1 - c.entryIn].uown
             /\ ~Sending(e) /\ ~e.bothSet /\ e.statusEnabled /\ ~e.PKTDIS
             /\ e.current = c.current /\ e.next = c.next /\ e.entryIn = c.entryIn
             /\ e.outSie = c.outSie /\ e.inSie = c.inSie
             /\ e.USTAT = c.USTAT /\ e.SetupPkt = c.SetupPkt
             /\ e.U1ADDR = c.U1ADDR /\ e.USBDeviceState = c.USBDeviceState
             /\ e.config = c.config
  BY <1>1, <1>4, AnswerEmpty DEF e
<1>5. CASE r.kind \in {"write", "address"}
  <2> DEFINE s == IF r.kind = "address" THEN "ADR_PENDING" ELSE b.USBDeviceState
             m == IF r.kind = "address" THEN b.pSrc ELSE 0
             w == IF r.kind = "address" THEN b.wCount ELSE r.avail
  <2>1. c = [b EXCEPT !.busy = TRUE, !.pSrc = m, !.wCount = w, !.USBDeviceState = s]
    BY <1>5, ZenonT(60) DEF CheckRequest, DevType, c, r
  <2>2. m \in Nat /\ w \in Nat
        /\ s \in {"DEFAULT", "ADR_PENDING", "ADDRESS", "CONFIGURED"}
        /\ (b.USBDeviceState = s \/ s = "ADR_PENDING")
    BY <1>1, <1>2, SMTT(40)
  <2> HIDE DEF m, w, s
  <2>3. c \in DevType
    BY <2>1, <2>2, UpdateClaim
  <2>4. /\ c.busy /\ c.next = b.next /\ c.in = b.in /\ c.bothSet = b.bothSet
        /\ c.outSie = b.outSie /\ c.inSie = b.inSie /\ c.entryIn = b.entryIn
        /\ c.USTAT = b.USTAT /\ c.SetupPkt = b.SetupPkt
        /\ c.U1ADDR = b.U1ADDR /\ c.config = b.config /\ c.USBDeviceState = s
    BY <2>1 DEF DevType
  <2>5. /\ e \in DevType
        /\ e.out[b.next] = ForSetup
        /\ e.in[b.entryIn] = Armed(1, 0) /\ ~e.in[1 - b.entryIn].uown
        /\ ~Sending(e) /\ ~e.bothSet /\ e.statusEnabled /\ ~e.PKTDIS
        /\ e.next = b.next /\ e.entryIn = b.entryIn
        /\ e.outSie = b.outSie /\ e.inSie = b.inSie
        /\ e.USTAT = b.USTAT /\ e.SetupPkt = b.SetupPkt
        /\ e.U1ADDR = b.U1ADDR /\ e.USBDeviceState = s
        /\ e.config = b.config
    <3>1. c.next \in {0, 1} /\ ~c.in[0].uown /\ ~c.in[1].uown /\ c.SetupPkt = r
      BY <1>1, <2>4 DEF r
    <3>2. QED
      BY <1>4, <1>5, <2>3, <2>4, <3>1
  <2>6. r.kind = "address" => s = "ADR_PENDING"
    BY DEF s
  <2>7. r.kind # "address" => s = b.USBDeviceState
    BY DEF s
  <2>8. QED
    BY <1>1, <1>5, <2>5, <2>6, <2>7 DEF Served, r, c, e
<1>6. CASE r.kind = "config"
  <2> DEFINE none == [k \in {0, 1} |-> Clear]
             s == IF r.value = 0 THEN "ADDRESS" ELSE "CONFIGURED"
  <2>1. none \in [{0, 1} -> Descriptors] /\ ~none[0].uown /\ ~none[1].uown
    <3>1. Clear \in Descriptors /\ ~Clear.uown
      BY Values DEF Clear
    <3>2. QED
      BY <3>1
  <2>2. s \in {"ADDRESS", "CONFIGURED"}
    OBVIOUS
  <2>3. c = [b EXCEPT !.busy = TRUE, !.out = none, !.in = none, !.outSie = 0, !.inSie = 0,
                      !.entryIn = 0, !.current = 0, !.next = 0, !.config = r.value,
                      !.USBDeviceState = s]
    BY <1>6 DEF CheckRequest, USBStdSetCfgHandler, c, r
  <2> HIDE DEF none, s
  <2>4. c \in DevType
    BY <1>1, <2>1, <2>2, <2>3, UpdateConfig, ZenonT(60)
  <2>5. /\ c.busy /\ c.next = 0 /\ c.in = none /\ c.bothSet = b.bothSet
        /\ c.outSie = 0 /\ c.inSie = 0 /\ c.entryIn = 0
        /\ c.USTAT = b.USTAT /\ c.SetupPkt = b.SetupPkt
        /\ c.U1ADDR = b.U1ADDR /\ c.config = r.value /\ c.USBDeviceState = s
    BY <2>3 DEF DevType
  <2>6. s # "ADR_PENDING"
    BY <2>2
  <2>7. /\ e \in DevType
        /\ e.out[0] = ForSetup
        /\ e.in[0] = Armed(1, 0) /\ ~e.in[1 - 0].uown
        /\ ~Sending(e) /\ ~e.bothSet /\ e.statusEnabled /\ ~e.PKTDIS
        /\ e.next = 0 /\ e.entryIn = 0 /\ e.outSie = 0 /\ e.inSie = 0
        /\ e.USTAT = b.USTAT /\ e.SetupPkt = b.SetupPkt
        /\ e.U1ADDR = b.U1ADDR /\ e.USBDeviceState = s
        /\ e.config = r.value
    <3>1. c.next \in {0, 1} /\ ~c.in[0].uown /\ ~c.in[1].uown /\ c.SetupPkt = r
      BY <2>1, <2>5 DEF r
    <3>2. QED
      BY <1>4, <1>6, <2>4, <2>5, <3>1
  <2>8. QED
    BY <1>6, <2>6, <2>7 DEF Served, r, c, e
<1>7. CASE r.kind = "unknown"
  <2>1. c = b
    BY <1>7 DEF CheckRequest, c, r
  <2>2. /\ e \in DevType
        /\ e.out[b.next] = ForSetup
        /\ e.in[b.entryIn] = Stalled /\ ~e.in[1 - b.entryIn].uown
        /\ e.controlTransferState = b.controlTransferState
        /\ e.bothSet = b.bothSet /\ e.statusEnabled = b.statusEnabled
        /\ ~e.PKTDIS
        /\ e.current = b.current /\ e.next = b.next /\ e.entryIn = b.entryIn
        /\ e.outSie = b.outSie /\ e.inSie = b.inSie
        /\ e.USTAT = b.USTAT /\ e.SetupPkt = b.SetupPkt
        /\ e.U1ADDR = b.U1ADDR /\ e.USBDeviceState = b.USBDeviceState
        /\ e.config = b.config
    BY <1>1, <2>1, AnswerUnknown DEF e
  <2>3. QED
    BY <1>7, <2>2 DEF Served, Sending, r, e, c
<1>8. QED
  BY <1>1, <1>3, <1>5, <1>6, <1>7 DEF Kinds, e, c

LEMMA ServiceSetup ==
    ASSUME NEW d \in DevType, NEW i \in {0, 1}, d.out[i].setup, d.statusEnabled
    PROVE  LET e == USBCtrlEPService(d, <<"out", i>>)
           IN  e \in DevType /\ Served(d, i, e) /\ e.USTAT = d.USTAT
<1> DEFINE b == Begun(d, i)
           e == USBCtrlEPServiceComplete(CheckRequest(b))
<1>1. /\ b \in DevType /\ USBCtrlEPService(d, <<"out", i>>) = e
      /\ b.current = i /\ b.next = 1 - i
      /\ b.shortPacketStatus = "NOT_USED" /\ ~b.bothSet /\ ~b.busy
      /\ b.wCount = 0 /\ ~b.in[0].uown /\ ~b.in[1].uown /\ ~Sending(b)
  BY BegunFacts
<1>2. /\ b.outSie = d.outSie /\ b.inSie = d.inSie /\ b.entryIn = d.entryIn
      /\ b.USTAT = d.USTAT /\ b.statusEnabled = d.statusEnabled
      /\ b.SetupPkt = d.SetupPkt
      /\ b.U1ADDR = d.U1ADDR /\ b.USBDeviceState = d.USBDeviceState
      /\ b.config = d.config
  BY BegunFacts, ZenonT(60)
<1> HIDE DEF b
<1>3. e \in DevType /\ Served(b, i, e) /\ e.USTAT = b.USTAT
  BY <1>1, <1>2, ServedBegun
<1> HIDE DEF e
<1>4. Served(d, i, e)
  BY <1>2, <1>3 DEF Served
<1>5. QED
  BY <1>1, <1>2, <1>3, <1>4
-----------------------------------------------------------------------------
(***************************************************************************)
(* The queue of transactions.                                              *)
(***************************************************************************)
LEMMA TupleFacts ==
    ASSUME NEW x, NEW y, NEW z
    PROVE  /\ Head(<<x>>) = x /\ Head(<<x, y>>) = x /\ Head(<<x, y, z>>) = x
           /\ Tail(<<x>>) = <<>> /\ Tail(<<x, y>>) = <<y>>
           /\ Tail(<<x, y, z>>) = <<y, z>>
           /\ Append(<<>>, x) = <<x>> /\ Append(<<x>>, y) = <<x, y>>
           /\ <<x>> # <<>> /\ <<x, y>> # <<>> /\ <<x, y, z>> # <<>>
<1>1. Head(<<x>>) = x /\ Head(<<x, y>>) = x /\ Head(<<x, y, z>>) = x
  OBVIOUS
<1>2. Tail(<<x>>) = <<>>
  OBVIOUS
<1>3. Tail(<<x, y>>) = <<y>>
  OBVIOUS
<1>4. Tail(<<x, y, z>>) = <<y, z>>
  OBVIOUS
<1>5. Append(<<>>, x) = <<x>>
  OBVIOUS
<1> DEFINE S == {x, y, z}
<1>6. <<x>> \in Seq(S) /\ <<x, y>> \in Seq(S) /\ <<x, y, z>> \in Seq(S)
      /\ y \in S /\ z \in S
  OBVIOUS
<1>7. Len(<<x>>) = 1 /\ Len(<<x, y>>) = 2 /\ Len(<<x, y, z>>) = 3
  OBVIOUS
<1> HIDE DEF S
<1>8. Append(<<x>>, y) = <<x, y>>
  <2> DEFINE t == Append(<<x>>, y)
  <2>1. t \in Seq(S) /\ Len(t) = 2 /\ t[1] = x /\ t[2] = y
    BY <1>6, <1>7, AppendProperties
  <2> HIDE DEF t
  <2>2. \A i \in 1..Len(t) : t[i] = <<x, y>>[i]
    BY <2>1
  <2>3. t = <<x, y>>
    BY <1>6, <1>7, <2>1, <2>2, SeqEqual
  <2>4. QED
    BY <2>3 DEF t
<1>9. <<x>> # <<>> /\ <<x, y>> # <<>> /\ <<x, y, z>> # <<>>
  OBVIOUS
<1>10. QED
  BY <1>1, <1>2, <1>3, <1>4, <1>5, <1>8, <1>9

LEMMA AppendThird ==
    ASSUME NEW x, NEW y, NEW z
    PROVE  Append(<<x, y>>, z) = <<x, y, z>>
<1> DEFINE S == {x, y, z}
           t == Append(<<x, y>>, z)
<1>1. <<x, y>> \in Seq(S) /\ <<x, y, z>> \in Seq(S) /\ z \in S
      /\ Len(<<x, y>>) = 2 /\ Len(<<x, y, z>>) = 3
  OBVIOUS
<1> HIDE DEF S
<1>2. t \in Seq(S) /\ Len(t) = 3 /\ t[1] = x /\ t[2] = y /\ t[3] = z
  BY <1>1, AppendProperties
<1> HIDE DEF t
<1>3. \A i \in 1..Len(t) : t[i] = <<x, y, z>>[i]
  BY <1>2
<1>4. t = <<x, y, z>>
  BY <1>1, <1>2, <1>3, SeqEqual
<1>5. QED
  BY <1>4 DEF t

LEMMA Bits ==
    \A i \in {0, 1} : Other(i) \in {0, 1} /\ Other(i) # i /\ Other(Other(i)) = i
BY DEF Other

\* The entries that may be in the queue.
InEntry(d) == <<"in", Other(d.inSie)>>
OutEntry(d) == <<"out", IF SetupWaits(d) THEN d.outSie ELSE Other(d.outSie)>>
SetupEntry(d) == <<"out", Other(d.outSie)>>

LEMMA QueueHead ==
    ASSUME NEW d, NEW w \in BOOLEAN, QueuePart(d, w)
    PROVE  /\ d.USTAT = <<>> <=> ~InWaits(d) /\ ~w /\ ~SetupWaits(d)
           /\ InWaits(d) => Head(d.USTAT) = InEntry(d)
           /\ ~InWaits(d) /\ w => Head(d.USTAT) = OutEntry(d)
           /\ ~InWaits(d) /\ ~w /\ SetupWaits(d) => Head(d.USTAT) = SetupEntry(d)
<1>1. d.USTAT = Entries(InWaits(d), w, SetupWaits(d),
                        InEntry(d), OutEntry(d), SetupEntry(d))
  BY DEF QueuePart, InEntry, OutEntry, SetupEntry
<1> HIDE DEF InEntry, OutEntry, SetupEntry
<1>2. QED
  BY <1>1, TupleFacts DEF Entries

LEMMA PopIn ==
    ASSUME NEW d, NEW w \in BOOLEAN, QueuePart(d, w), InWaits(d), NEW e,
           e.USTAT = Tail(d.USTAT), e.outSie = d.outSie, e.PKTDIS = d.PKTDIS,
           ~InWaits(e)
    PROVE  QueuePart(e, w)
<1>1. OutEntry(e) = OutEntry(d) /\ SetupEntry(e) = SetupEntry(d)
  BY DEF OutEntry, SetupEntry, SetupWaits
<1>2. d.USTAT = Entries(InWaits(d), w, SetupWaits(d),
                        InEntry(d), OutEntry(d), SetupEntry(d))
  BY DEF QueuePart, InEntry, OutEntry, SetupEntry
<1> HIDE DEF InEntry, OutEntry, SetupEntry
<1>3. e.USTAT = Entries(InWaits(e), w, SetupWaits(e),
                        InEntry(e), OutEntry(e), SetupEntry(e))
  <2>1. CASE w /\ SetupWaits(d)
    BY <1>1, <1>2, <2>1, TupleFacts DEF Entries, SetupWaits
  <2>2. CASE w /\ ~SetupWaits(d)
    BY <1>1, <1>2, <2>2, TupleFacts DEF Entries, SetupWaits
  <2>3. CASE ~w /\ SetupWaits(d)
    BY <1>1, <1>2, <2>3, TupleFacts DEF Entries, SetupWaits
  <2>4. CASE ~w /\ ~SetupWaits(d)
    BY <1>1, <1>2, <2>4, TupleFacts DEF Entries, SetupWaits
  <2>5. QED
    BY <2>1, <2>2, <2>3, <2>4
<1>4. QED
  BY <1>3 DEF QueuePart, InEntry, OutEntry, SetupEntry

LEMMA PopOut ==
    ASSUME NEW d, QueuePart(d, TRUE), ~InWaits(d), NEW e,
           e.USTAT = Tail(d.USTAT), e.outSie = d.outSie, e.PKTDIS = d.PKTDIS,
           ~InWaits(e)
    PROVE  QueuePart(e, FALSE)
<1>1. SetupEntry(e) = SetupEntry(d)
  BY DEF SetupEntry
<1>2. d.USTAT = IF SetupWaits(d) THEN <<OutEntry(d), SetupEntry(d)>>
               ELSE <<OutEntry(d)>>
  BY DEF QueuePart, Entries, OutEntry, SetupEntry
<1> HIDE DEF OutEntry, SetupEntry
<1>3. e.USTAT = IF SetupWaits(d) THEN <<SetupEntry(d)>> ELSE <<>>
  BY <1>2, TupleFacts
<1>4. QED
  BY <1>1, <1>3 DEF QueuePart, Entries, SetupWaits, SetupEntry

LEMMA PopSetup ==
    ASSUME NEW d, QueuePart(d, FALSE), ~InWaits(d), SetupWaits(d), NEW e,
           e.USTAT = Tail(d.USTAT), ~InWaits(e), ~SetupWaits(e)
    PROVE  QueuePart(e, FALSE)
<1>1. d.USTAT = <<SetupEntry(d)>>
  BY DEF QueuePart, Entries, SetupEntry
<1> HIDE DEF SetupEntry
<1>2. e.USTAT = <<>>
  BY <1>1, TupleFacts
<1>3. QED
  BY <1>2 DEF QueuePart, Entries

LEMMA PushIn ==
    ASSUME NEW d, QueuePart(d, FALSE), ~InWaits(d), ~SetupWaits(d), NEW e,
           e.USTAT = Append(d.USTAT, InEntry(e)), InWaits(e), ~SetupWaits(e)
    PROVE  QueuePart(e, FALSE)
<1>1. d.USTAT = <<>>
  BY DEF QueuePart, Entries
<1>2. e.USTAT = <<InEntry(e)>>
  BY <1>1, TupleFacts
<1>3. QED
  BY <1>2 DEF QueuePart, Entries, InEntry

LEMMA PushOut ==
    ASSUME NEW d, QueuePart(d, FALSE), ~SetupWaits(d), NEW e,
           e.USTAT = Append(d.USTAT, OutEntry(e)), InWaits(e) <=> InWaits(d),
           e.inSie = d.inSie, ~SetupWaits(e)
    PROVE  QueuePart(e, TRUE)
<1>1. d.USTAT = IF InWaits(d) THEN <<InEntry(d)>> ELSE <<>>
  BY DEF QueuePart, Entries, InEntry
<1>2. InEntry(e) = InEntry(d)
  BY DEF InEntry
<1> HIDE DEF OutEntry, InEntry
<1>3. e.USTAT = IF InWaits(d) THEN <<InEntry(d), OutEntry(e)>> ELSE <<OutEntry(e)>>
  BY <1>1, TupleFacts
<1>4. QED
  BY <1>2, <1>3 DEF QueuePart, Entries, InEntry, OutEntry

LEMMA PushSetup ==
    ASSUME NEW d, NEW w \in BOOLEAN, QueuePart(d, w), ~SetupWaits(d), NEW e,
           e.USTAT = Append(d.USTAT, SetupEntry(e)), InWaits(e) <=> InWaits(d),
           e.inSie = d.inSie, SetupWaits(e), e.outSie = Other(d.outSie)
    PROVE  QueuePart(e, w)
<1>1. d.USTAT = Entries(InWaits(d), w, SetupWaits(d),
                        InEntry(d), OutEntry(d), SetupEntry(d))
  BY DEF QueuePart, InEntry, OutEntry, SetupEntry
<1>2. InEntry(e) = InEntry(d) /\ OutEntry(e) = OutEntry(d)
  BY DEF InEntry, OutEntry
<1> DEFINE x == InEntry(d)
           y == OutEntry(d)
           z == SetupEntry(e)
<1> HIDE DEF x, y, z
<1>3. d.USTAT = IF InWaits(d) THEN IF w THEN <<x, y>> ELSE <<x>>
                ELSE IF w THEN <<y>> ELSE <<>>
  BY <1>1 DEF Entries, x, y
<1>4. Append(<<x, y>>, z) = <<x, y, z>>
  BY AppendThird, Zenon
<1>5. Append(<<x>>, z) = <<x, z>> /\ Append(<<y>>, z) = <<y, z>>
      /\ Append(<<>>, z) = <<z>>
  <2>1. Append(<<x>>, z) = <<x, z>>
    BY TupleFacts, ZenonT(60)
  <2>2. Append(<<y>>, z) = <<y, z>>
    BY TupleFacts, ZenonT(60)
  <2>3. Append(<<>>, z) = <<z>>
    BY TupleFacts
  <2>4. QED
    BY <2>1, <2>2, <2>3
<1>6. e.USTAT = Append(d.USTAT, z)
  BY DEF z
<1>7. e.USTAT = IF InWaits(d) THEN IF w THEN <<x, y, z>> ELSE <<x, z>>
                ELSE IF w THEN <<y, z>> ELSE <<z>>
  BY <1>3, <1>4, <1>5, <1>6
<1>8. QED
  BY <1>2, <1>7 DEF QueuePart, Entries, InEntry, OutEntry, SetupEntry, x, y, z
-----------------------------------------------------------------------------
(***************************************************************************)
(* Every step keeps the invariant.                                         *)
(***************************************************************************)
Transactions == {"out", "in"} \X {0, 1}

LEMMA DevFields ==
    ASSUME NEW d \in DevType
    PROVE  /\ d.out \in [{0, 1} -> Descriptors] /\ d.in \in [{0, 1} -> Descriptors]
           /\ d.outSie \in {0, 1} /\ d.inSie \in {0, 1} /\ d.entryIn \in {0, 1}
           /\ d.PKTDIS \in BOOLEAN /\ d.USTAT \in Seq(Transactions)
           /\ d.wCount \in Nat /\ d.pSrc \in Nat /\ d.CtrlTrfData \in Nat
           /\ d.SetupPkt \in Requests /\ d.U1ADDR \in Nat /\ d.config \in Nat
           /\ d.shortPacketStatus \in {"NOT_USED", "PENDING", "SENT"}
BY DEF DevType, Transactions

LEMMA DescriptorFields ==
    ASSUME NEW table \in [{0, 1} -> Descriptors], NEW i \in {0, 1}
    PROVE  /\ table[i].dts \in {0, 1} /\ table[i].cnt \in 0..EP0_SIZE
           /\ table[i].uown \in BOOLEAN /\ table[i].stall \in BOOLEAN
           /\ table[i].setup \in BOOLEAN
<1>1. table[i] \in Descriptors
  OBVIOUS
<1>2. QED
  BY <1>1 DEF Descriptors

\* The queue without its first entry.
Popped(d) == [d EXCEPT !.USTAT = Tail(d.USTAT)]

LEMMA PoppedFacts ==
    ASSUME NEW d \in DevType, d.USTAT # <<>>
    PROVE  LET e == Popped(d)
           IN  /\ e \in DevType /\ e.USTAT = Tail(d.USTAT)
               /\ e.out = d.out /\ e.in = d.in
               /\ e.outSie = d.outSie /\ e.inSie = d.inSie /\ e.entryIn = d.entryIn
               /\ e.PKTDIS = d.PKTDIS /\ e.current = d.current /\ e.next = d.next
               /\ e.controlTransferState = d.controlTransferState
               /\ e.shortPacketStatus = d.shortPacketStatus
               /\ e.bothSet = d.bothSet /\ e.statusEnabled = d.statusEnabled
               /\ e.wCount = d.wCount /\ e.pSrc = d.pSrc
               /\ e.CtrlTrfData = d.CtrlTrfData /\ e.SetupPkt = d.SetupPkt
               /\ e.USBDeviceState = d.USBDeviceState /\ e.U1ADDR = d.U1ADDR
               /\ e.config = d.config
<1> DEFINE rest == Tail(d.USTAT)
<1>1. rest \in Seq({"out", "in"} \X {0, 1})
  BY HeadTailProperties DEF DevType
<1> HIDE DEF rest
<1>2. [d EXCEPT !.USTAT = rest] \in DevType
  BY <1>1, ZenonT(60) DEF DevType
<1>3. QED
  BY <1>2 DEF Popped, DevType, rest

\* The types of the host's variables and of the bounds.
HostVars ==
    /\ phase \in {"idle", "dataIn", "dataOut", "statusIn", "statusOut"}
    /\ req \in Requests /\ got \in Seq(Nat) /\ toggle \in {0, 1}
    /\ address \in Nat

HostType ==
    /\ HostVars
    /\ setups \in 0..MaxSetups /\ lost \in 0..MaxLost /\ resets \in 0..MaxResets

LEMMA TypeParts == TypeOK <=> dev \in DevType /\ HostType
BY DEF TypeOK, HostType, HostVars

\* What servicing does to the address and the configuration: nothing, the
\* pending address is taken, or the configuration is set before the status
\* stage.
Serviced ==
    /\ UNCHANGED host
    /\ \/ dev'.U1ADDR = dev.U1ADDR /\ dev'.config = dev.config
       \/ /\ dev.USBDeviceState = "ADR_PENDING" /\ InWaits(dev)
          /\ dev'.U1ADDR = req.value /\ dev'.config = dev.config
       \/ /\ phase = "statusIn" /\ req.kind = "config"
          /\ dev'.U1ADDR = dev.U1ADDR /\ dev'.config = req.value

LEMMA ServiceInStep ==
    ASSUME EpInv, ServiceTransaction, InWaits(dev)
    PROVE  EpInv' /\ Serviced
<1> USE DEF Sending, InWaits, SetupWaits
<1> DEFINE s == dev.inSie
           c == dev.in[Other(s)]
           n == NextCount(dev)
<1>1. PICK w \in BOOLEAN : QueuePart(dev, w) /\ OutPart(dev, w) /\ HostPart(w)
  BY DEF EpInv
<1>2. dev \in DevType /\ HostType /\ InPart(dev) /\ (~DropsAddress => AddressPart)
  BY TypeParts DEF EpInv
<1>3. /\ s \in {0, 1} /\ Other(s) \in {0, 1} /\ Other(s) # s
      /\ dev.entryIn = Other(s) /\ 1 - dev.entryIn = s
      /\ dev.in \in [{0, 1} -> Descriptors] /\ dev.PKTDIS \in BOOLEAN
  BY <1>2, DevFields, Bits DEF Other
<1>4. /\ dev.USTAT # <<>>
      /\ Head(dev.USTAT) = <<"in", Other(s)>>
  BY <1>1, QueueHead DEF InEntry
<1> DEFINE d == Popped(dev)
           e == USBCtrlEPService(d, <<"in", Other(s)>>)
<1>5. dev' = e /\ UNCHANGED <<host, bounds>>
  BY <1>4 DEF ServiceTransaction, Popped
<1>6. d \in DevType
  BY <1>2, <1>4, PoppedFacts
<1>7. /\ d.USTAT = Tail(dev.USTAT) /\ d.out = dev.out /\ d.in = dev.in
      /\ d.outSie = dev.outSie /\ d.inSie = s /\ d.entryIn = Other(s)
      /\ d.PKTDIS = dev.PKTDIS /\ d.current = dev.current /\ d.next = dev.next
      /\ d.controlTransferState = dev.controlTransferState
      /\ d.shortPacketStatus = dev.shortPacketStatus
      /\ d.bothSet = dev.bothSet /\ d.statusEnabled = dev.statusEnabled
      /\ d.wCount = dev.wCount /\ d.pSrc = dev.pSrc
      /\ d.SetupPkt = dev.SetupPkt /\ d.config = dev.config
      /\ d.USBDeviceState = dev.USBDeviceState /\ d.U1ADDR = dev.U1ADDR
  BY <1>2, <1>3, <1>4, PoppedFacts
<1> HIDE DEF d, e
<1>8. NextCount(d) = n /\ NextShort(d) = NextShort(dev)
  BY <1>7 DEF NextCount, NextShort
<1>9. /\ e \in DevType /\ e.entryIn = s
      /\ e.out = dev.out /\ e.outSie = dev.outSie /\ e.inSie = s
      /\ e.PKTDIS = dev.PKTDIS /\ e.USTAT = Tail(dev.USTAT)
      /\ e.current = dev.current /\ e.next = dev.next
      /\ e.bothSet = dev.bothSet /\ e.statusEnabled = dev.statusEnabled
      /\ e.SetupPkt = dev.SetupPkt /\ e.config = dev.config
      /\ IF dev.USBDeviceState = "ADR_PENDING"
         THEN e.U1ADDR = dev.SetupPkt.value /\ e.USBDeviceState # "ADR_PENDING"
         ELSE e.U1ADDR = dev.U1ADDR /\ e.USBDeviceState = dev.USBDeviceState
      /\ IF Sending(dev)
         THEN /\ e.controlTransferState = dev.controlTransferState
              /\ e.in = [dev.in EXCEPT ![s] =
                           IF NextShort(dev) = "SENT" THEN [Stalled EXCEPT !.cnt = n]
                           ELSE Armed(1 - c.dts, n)]
              /\ e.shortPacketStatus = NextShort(dev)
              /\ e.wCount = dev.wCount - n /\ e.pSrc = dev.pSrc + n
              /\ e.CtrlTrfData = dev.pSrc
         ELSE e.controlTransferState = "WAIT_SETUP" /\ e.in = dev.in
  <2>1. 1 - d.entryIn = s /\ d.in[d.entryIn] = c
    BY <1>3, <1>7
  <2>2. QED
    BY <1>6, <1>7, <1>8, <2>1, ServiceIn DEF e
<1>10. TypeOK'
  BY <1>2, <1>5, <1>9 DEF TypeOK, HostType, HostVars, host, bounds
<1>11. QueuePart(dev', w)
  BY <1>1, <1>5, <1>9, PopIn
<1>12. OutPart(dev', w)
  <2>1. Sending(e) <=> Sending(dev)
    BY <1>9
  <2>2. OutPart(e, w)
    BY <1>1, <1>9, <2>1 DEF OutPart
  <2>3. QED
    BY <1>5, <2>2
<1>13. InPart(dev')
  <2>1. e.in[Other(s)] = dev.in[Other(s)]
    BY <1>3, <1>9
  <2>2. InPart(e)
    BY <1>2, <1>9, <2>1 DEF InPart
  <2>3. QED
    BY <1>5, <2>2
<1>14. HostPart(w)'
  <2>1. CASE dev.PKTDIS
    BY <1>1, <1>5, <1>9, <2>1 DEF HostPart, AskedPart, host
  <2>2. CASE ~dev.PKTDIS
    <3>1. StagePart /\ req = dev.SetupPkt /\ (w => phase = "idle")
      BY <1>1, <2>2 DEF HostPart
    <3>2. phase # "statusIn"
      BY <3>1 DEF StagePart
    <3>3. ForStatus' <=> ForStatus
      BY <1>5, <1>9 DEF ForStatus
    <3>4. ASSUME phase = "dataIn"
          PROVE  Known /\ ForStatus /\ Sending(dev)' /\ ReadPart'
      <4>1. Known /\ ForStatus /\ Sending(dev) /\ ReadPart
        BY <3>1, <3>4 DEF StagePart
      <4>2. /\ dev.pSrc + dev.wCount = Min({req.avail, req.wLength})
            /\ Len(got) = dev.pSrc /\ toggle = 1 - c.dts
            /\ dev.shortPacketStatus = "NOT_USED"
        BY <4>1 DEF ReadPart
      <4>3. /\ dev.wCount \in Nat /\ dev.pSrc \in Nat
            /\ EP0_SIZE \in Nat /\ c.dts \in {0, 1}
        BY <1>2, <1>3, DevFields, DescriptorFields, ControlAssumption
      <4>4. /\ n \in 0..EP0_SIZE /\ n <= dev.wCount
            /\ n = EP0_SIZE \/ (n < EP0_SIZE /\ n = dev.wCount)
            /\ n < EP0_SIZE <=> dev.wCount < EP0_SIZE
        <5>1. n = IF dev.wCount <= EP0_SIZE THEN dev.wCount ELSE EP0_SIZE
          BY <4>3, MinFacts DEF NextCount
        <5> HIDE DEF n
        <5>2. CASE dev.wCount <= EP0_SIZE
          BY <4>3, <5>1, <5>2
        <5>3. CASE ~(dev.wCount <= EP0_SIZE)
          <6>1. n = EP0_SIZE
            BY <5>1, <5>3
          <6>2. dev.wCount > EP0_SIZE
            BY <4>3, <5>3
          <6>3. QED
            BY <4>3, <6>1, <6>2
        <5>4. QED
          BY <5>2, <5>3
      <4>5. NextShort(dev) = IF n < EP0_SIZE THEN "PENDING" ELSE "NOT_USED"
        BY <4>2, <4>4 DEF NextShort, ShortAfter
      <4>6. 1 - c.dts \in {0, 1}
        BY <4>3
      <4> HIDE DEF n, c
      <4>7. e.in[s] = Armed(1 - c.dts, n)
        BY <1>3, <1>9, <4>1, <4>5
      <4>8. /\ e.in[s].uown /\ ~e.in[s].stall
            /\ e.in[s].dts = 1 - c.dts /\ e.in[s].cnt = n
        <5>1. LET a == Armed(1 - c.dts, n)
              IN  a.uown /\ ~a.stall /\ a.dts = 1 - c.dts /\ a.cnt = n
          BY <4>4, <4>6, Values
        <5>2. QED
          BY <4>7, <5>1
      <4>9. /\ e.pSrc + e.wCount = Min({req.avail, req.wLength})
            /\ e.CtrlTrfData + e.in[s].cnt = e.pSrc
            /\ \/ e.in[s].cnt = EP0_SIZE /\ e.shortPacketStatus = "NOT_USED"
               \/ e.in[s].cnt < EP0_SIZE /\ e.wCount = 0
            /\ toggle = e.in[s].dts /\ Len(got) = e.CtrlTrfData
        BY <1>9, <4>1, <4>2, <4>3, <4>4, <4>5, <4>8
      <4>10. QED
        BY <1>5, <1>9, <4>1, <4>8, <4>9 DEF ReadPart, This, host, Known
    <3>5. QED
      BY <1>5, <1>9, <2>2, <3>1, <3>2, <3>3, <3>4 DEF HostPart, StagePart, Known, host
  <2>3. QED
    BY <2>1, <2>2
<1>15. ASSUME ~DropsAddress
       PROVE  AddressPart'
  <2>1. req = dev.SetupPkt
    BY <1>1 DEF HostPart
  <2>2. QED
    BY <1>2, <1>5, <1>9, <1>15, <2>1 DEF AddressPart, host
<1>16. Serviced
  <2>1. req = dev.SetupPkt
    BY <1>1 DEF HostPart
  <2>2. QED
    BY <1>5, <1>9, <2>1 DEF Serviced
<1>17. QED
  BY <1>10, <1>11, <1>12, <1>13, <1>14, <1>15, <1>16 DEF EpInv

LEMMA ServiceOutStep ==
    ASSUME EpInv, ServiceTransaction, ~InWaits(dev), QueuePart(dev, TRUE),
           OutPart(dev, TRUE), HostPart(TRUE)
    PROVE  EpInv' /\ Serviced
<1> USE DEF InWaits, SetupWaits
<1> DEFINE i == IF dev.PKTDIS THEN dev.outSie ELSE Other(dev.outSie)
           d == Popped(dev)
           e == USBCtrlEPService(d, <<"out", i>>)
<1>1. dev \in DevType /\ HostType /\ InPart(dev) /\ (~DropsAddress => AddressPart)
  BY TypeParts DEF EpInv
<1>2. dev.outSie \in {0, 1} /\ Other(dev.outSie) \in {0, 1} /\ i \in {0, 1}
  BY <1>1, DevFields, Bits
<1>3. dev.USTAT # <<>> /\ Head(dev.USTAT) = <<"out", i>>
  BY QueueHead DEF OutEntry
<1>4. dev' = e /\ UNCHANGED <<host, bounds>>
  BY <1>3 DEF ServiceTransaction, Popped
<1>5. ~dev.out[i].setup /\ Sending(dev) /\ dev.bothSet
  BY DEF OutPart
<1>6. d \in DevType
  BY <1>1, <1>3, PoppedFacts
<1>7. /\ d.USTAT = Tail(dev.USTAT) /\ d.out = dev.out /\ d.in = dev.in
      /\ d.outSie = dev.outSie /\ d.inSie = dev.inSie /\ d.entryIn = dev.entryIn
      /\ d.PKTDIS = dev.PKTDIS /\ Sending(d) /\ d.bothSet
      /\ d.statusEnabled = dev.statusEnabled
      /\ d.SetupPkt = dev.SetupPkt /\ d.config = dev.config
      /\ d.USBDeviceState = dev.USBDeviceState /\ d.U1ADDR = dev.U1ADDR
  BY <1>1, <1>3, <1>5, PoppedFacts DEF Sending
<1> HIDE DEF d, e, i
<1>8. /\ e = [d EXCEPT !.timeout = TIMEOUT, !.current = i, !.next = 1 - i,
                       !.controlTransferState = "WAIT_SETUP", !.bothSet = FALSE]
      /\ e \in DevType
  BY <1>2, <1>5, <1>6, <1>7, ServiceOut DEF e
<1>9. /\ e.USTAT = Tail(dev.USTAT) /\ e.out = dev.out /\ e.in = dev.in
      /\ e.outSie = dev.outSie /\ e.inSie = dev.inSie /\ e.entryIn = dev.entryIn
      /\ e.PKTDIS = dev.PKTDIS /\ ~Sending(e) /\ ~e.bothSet
      /\ e.statusEnabled = dev.statusEnabled
      /\ e.SetupPkt = dev.SetupPkt /\ e.config = dev.config
      /\ e.USBDeviceState = dev.USBDeviceState /\ e.U1ADDR = dev.U1ADDR
  BY <1>6, <1>7, <1>8, SMTT(40) DEF Sending, DevType
<1>10. TypeOK'
  BY <1>1, <1>4, <1>8 DEF TypeOK, HostType, HostVars, host, bounds
<1>11. QueuePart(dev', FALSE)
  BY <1>4, <1>9, PopOut
<1>12. OutPart(dev', FALSE)
  <2>1. OutPart(e, FALSE)
    BY <1>9 DEF OutPart
  <2>2. QED
    BY <1>4, <2>1
<1>13. InPart(dev')
  BY <1>1, <1>4, <1>9 DEF InPart
<1>14. HostPart(FALSE)'
  <2>1. CASE dev.PKTDIS
    BY <1>4, <1>9, <2>1 DEF HostPart, AskedPart, host
  <2>2. CASE ~dev.PKTDIS
    BY <1>4, <1>9, <2>2 DEF HostPart, StagePart, host
  <2>3. QED
    BY <2>1, <2>2
<1>15. ASSUME ~DropsAddress
       PROVE  AddressPart'
  BY <1>1, <1>4, <1>9, <1>15 DEF AddressPart, host
<1>16. Serviced
  BY <1>4, <1>9 DEF Serviced
<1>17. QED
  BY <1>10, <1>11, <1>12, <1>13, <1>14, <1>15, <1>16 DEF EpInv

LEMMA ServedSame ==
    ASSUME NEW b, NEW d, NEW i, NEW e, Served(b, i, e),
           b.SetupPkt = d.SetupPkt, b.U1ADDR = d.U1ADDR,
           b.entryIn = d.entryIn, b.inSie = d.inSie, b.outSie = d.outSie,
           b.config = d.config, b.USBDeviceState = d.USBDeviceState
    PROVE  Served(d, i, e)
BY DEF Served

LEMMA ServiceSetupStep ==
    ASSUME EpInv, ServiceTransaction, ~InWaits(dev), QueuePart(dev, FALSE),
           OutPart(dev, FALSE), HostPart(FALSE)
    PROVE  EpInv' /\ Serviced
<1> USE DEF InWaits, SetupWaits
<1> DEFINE i == Other(dev.outSie)
           d == Popped(dev)
           e == USBCtrlEPService(d, <<"out", i>>)
           r == dev.SetupPkt
           n == FirstCount(r)
<1>1. dev \in DevType /\ HostType /\ InPart(dev) /\ (~DropsAddress => AddressPart)
  BY TypeParts DEF EpInv
<1>2. dev.outSie \in {0, 1} /\ i \in {0, 1} /\ 1 - i = dev.outSie
      /\ dev.PKTDIS \in BOOLEAN /\ r \in Requests
  BY <1>1, DevFields, Bits DEF Other
<1>3. dev.USTAT # <<>> /\ dev.PKTDIS /\ Head(dev.USTAT) = <<"out", i>>
  <2>1. dev.USTAT # <<>>
    BY DEF ServiceTransaction
  <2>2. QED
    BY <2>1, QueueHead DEF SetupEntry
<1>4. dev' = e /\ UNCHANGED <<host, bounds>>
  BY <1>3 DEF ServiceTransaction, Popped
<1>5. dev.out[i].setup /\ dev.statusEnabled /\ req = r /\ AskedPart
  BY <1>3 DEF OutPart, HostPart
<1>6. d \in DevType
  BY <1>1, <1>3, PoppedFacts
<1>7. /\ d.USTAT = Tail(dev.USTAT) /\ d.out = dev.out
      /\ d.outSie = dev.outSie /\ d.inSie = dev.inSie /\ d.entryIn = dev.entryIn
      /\ d.statusEnabled = dev.statusEnabled
      /\ d.SetupPkt = dev.SetupPkt /\ d.config = dev.config
      /\ d.USBDeviceState = dev.USBDeviceState /\ d.U1ADDR = dev.U1ADDR
  BY <1>1, <1>3, PoppedFacts
<1> HIDE DEF d, e, i, n
<1>8. e \in DevType /\ Served(d, i, e) /\ e.USTAT = d.USTAT
  BY <1>2, <1>5, <1>6, <1>7, ServiceSetup DEF e
<1>9. Served(dev, i, e) /\ e.USTAT = Tail(dev.USTAT)
  BY <1>7, <1>8, ServedSame
<1>10. /\ e.entryIn = e.inSie /\ e.next = e.outSie /\ e.inSie \in {0, 1}
       /\ e.outSie \in {0, 1} /\ Other(e.inSie) = 1 - e.inSie
       /\ Other(e.outSie) = 1 - e.outSie
  BY <1>2, <1>8, <1>9, DevFields DEF Served, Other
<1>11. TypeOK'
  BY <1>1, <1>4, <1>8 DEF TypeOK, HostType, HostVars, host, bounds
<1>12. QueuePart(dev', FALSE)
  BY <1>3, <1>4, <1>9, <1>10, PopSetup DEF Served
<1>13. /\ r.kind = "read" => e.out[e.next].uown /\ ~e.out[e.next].stall
       /\ r.kind # "read" => e.out[e.next].uown /\ e.out[e.next].stall
       /\ r.kind = "read" => e.out[1 - e.next].uown /\ e.out[1 - e.next].stall
  <2>1. /\ Armed(0, EP0_SIZE).uown /\ ~Armed(0, EP0_SIZE).stall
        /\ ForSetup.uown /\ ForSetup.stall
    <3>1. EP0_SIZE \in 0..EP0_SIZE
      BY ControlAssumption
    <3>2. QED
      BY <3>1, Values
  <2>2. QED
    BY <1>9, <2>1 DEF Served
<1>14. OutPart(dev', FALSE)
  <2>1. OutPart(e, FALSE)
    BY <1>9, <1>10, <1>13 DEF OutPart, Served
  <2>2. QED
    BY <1>4, <2>1
<1>15. InPart(dev')
  <2>1. InPart(e)
    BY <1>9, <1>10 DEF InPart, Served
  <2>2. QED
    BY <1>4, <2>1
<1>16. /\ r.kind \in Kinds /\ r.wLength \in Nat /\ r.avail \in Nat /\ r.in \in BOOLEAN
       /\ r.kind = "read" => r.in
       /\ r.kind \in {"write", "address", "config"} => ~r.in /\ r.wLength = 0
  BY <1>2, ControlAssumption
<1>17. r.kind \in {"write", "address", "config", "read", "unknown"}
  BY <1>16 DEF Kinds
<1>18. n \in 0..EP0_SIZE /\ (r.wLength = 0 => n = 0)
  <2>1. EP0_SIZE \in Nat
    BY ControlAssumption
  <2>2. Available(r) \in Nat /\ (r.wLength = 0 => Available(r) = 0)
    BY <1>16, MinFacts DEF Available
  <2>3. QED
    BY <2>1, <2>2, MinFacts DEF FirstCount, n
<1>19. LET a == e.in[e.entryIn]
       IN  /\ a.uown
           /\ r.kind = "unknown" => a.stall
           /\ r.kind # "unknown" => ~a.stall /\ a.dts = 1
           /\ r.kind = "read" => a.cnt = n
           /\ r.kind \in {"write", "address", "config"} => a.cnt = 0
  <2>1. /\ Armed(1, n).uown /\ ~Armed(1, n).stall /\ Armed(1, n).dts = 1
        /\ Armed(1, n).cnt = n
    BY <1>18, Values
  <2>2. /\ Armed(1, 0).uown /\ ~Armed(1, 0).stall /\ Armed(1, 0).dts = 1
        /\ Armed(1, 0).cnt = 0
    <3>1. 0 \in 0..EP0_SIZE
      BY ControlAssumption
    <3>2. QED
      BY <3>1, Values
  <2>3. Stalled.uown /\ Stalled.stall
    BY Values
  <2>4. CASE r.kind = "read"
    BY <1>9, <2>1, <2>4 DEF Served, n
  <2>5. CASE r.kind = "unknown"
    BY <1>9, <2>3, <2>5 DEF Served
  <2>6. CASE r.kind \notin {"read", "unknown"}
    BY <1>9, <1>17, <2>2, <2>6 DEF Served
  <2>7. QED
    BY <2>4, <2>5, <2>6
<1> HIDE DEF r
<1>20. HostPart(FALSE)'
  <2>1. req' = r /\ e.SetupPkt = r /\ ~e.PKTDIS
    BY <1>4, <1>5, <1>9 DEF Served, host, r
  <2>2. (phase' # "idle" => dev'.next = dev'.outSie) /\ ~InWaits(dev)'
    BY <1>4, <1>10
  <2>3. Known' <=> r.kind # "unknown"
    BY <2>1 DEF Known
  <2>4. ForStatus' <=> r.kind = "read"
    BY <1>4, <1>10, <1>13 DEF ForStatus
  <2>5. This' = e.in[e.entryIn]
    BY <1>4, <1>10 DEF This
  <2>6. /\ got' = <<>> /\ toggle' = 1
        /\ \/ phase' = Transfer!FirstStage(r)
           \/ phase' = "statusOut" /\ Transfer!FirstStage(r) = "dataIn"
    BY <1>4, <1>5 DEF AskedPart, host
  <2>7. ASSUME Transfer!FirstStage(r) = "dataIn"
        PROVE  r.wLength > 0 /\ r.in /\ (Known <=> ForStatus)'
    BY <1>16, <1>17, <2>3, <2>4, <2>7 DEF Transfer!FirstStage
  <2>8. ASSUME phase' = "dataIn"
        PROVE  /\ r.wLength > 0 /\ r.in /\ (Known <=> ForStatus)'
               /\ IF Known' THEN (Sending(dev) /\ ReadPart)'
                  ELSE (~InWaits(dev) /\ This.uown /\ This.stall)'
    <3>1. Transfer!FirstStage(r) = "dataIn"
      BY <2>6, <2>8
    <3>2. CASE Known'
      <4>1. r.kind = "read"
        BY <2>3, <2>4, <2>7, <3>1, <3>2
      <4>2. /\ Sending(e) /\ n \in 0..EP0_SIZE /\ e.pSrc = n /\ e.CtrlTrfData = 0
            /\ e.pSrc + e.wCount = Available(r)
            /\ e.shortPacketStatus = IF n < EP0_SIZE THEN "PENDING" ELSE "NOT_USED"
            /\ n < EP0_SIZE => e.wCount = 0
        BY <1>9, <4>1 DEF Served, r, n
      <4>3. This'.uown /\ ~This'.stall /\ This'.dts = 1 /\ This'.cnt = n
        BY <1>19, <2>5, <4>1
      <4>4. EP0_SIZE \in Nat /\ Len(got') = 0 /\ 0 + n = n
        BY <2>6, <4>2, ControlAssumption
      <4>5. \/ n = EP0_SIZE /\ e.shortPacketStatus = "NOT_USED"
            \/ n < EP0_SIZE /\ e.wCount = 0
        BY <4>2, <4>4
      <4>6. ReadPart'
        BY <1>4, <2>1, <2>2, <2>6, <4>2, <4>3, <4>4, <4>5 DEF ReadPart, Available
      <4>7. QED
        BY <1>4, <2>7, <3>1, <3>2, <4>2, <4>6 DEF Sending
    <3>3. CASE ~Known'
      BY <1>19, <2>2, <2>3, <2>5, <2>7, <3>1, <3>3
    <3>4. QED
      BY <3>2, <3>3
  <2>9. ASSUME phase' = "statusIn"
        PROVE  /\ r.wLength = 0 /\ This'.uown
               /\ IF Known' THEN ~This'.stall /\ This'.dts = 1 /\ This'.cnt = 0
                  ELSE This'.stall
               /\ r.kind = "config" => dev'.config = r.value
    <3>1. Transfer!FirstStage(r) = "statusIn"
      BY <2>6, <2>9
    <3>2. r.wLength = 0
      BY <1>16, <3>1 DEF Transfer!FirstStage
    <3>3. r.kind = "config" => dev'.config = r.value
      BY <1>4, <1>9 DEF Served, r
    <3>4. QED
      BY <1>17, <1>18, <1>19, <2>3, <2>5, <3>2, <3>3
  <2>10. ASSUME phase' = "dataOut"
         PROVE  ~Known' /\ ~ForStatus'
    <3>1. Transfer!FirstStage(r) = "dataOut"
      BY <2>6, <2>10
    <3>2. ~r.in /\ r.wLength # 0
      BY <1>16, <3>1 DEF Transfer!FirstStage
    <3>3. QED
      BY <1>16, <1>17, <2>3, <2>4, <3>2
  <2>11. ASSUME phase' = "statusOut"
         PROVE  r.wLength > 0 /\ r.in /\ (Known <=> ForStatus)'
    <3>1. Transfer!FirstStage(r) = "dataIn"
      BY <2>6, <2>11 DEF Transfer!FirstStage
    <3>2. QED
      BY <2>7, <3>1
  <2>12. StagePart'
    BY <2>1, <2>2, <2>6, <2>8, <2>9, <2>10, <2>11 DEF StagePart
  <2>13. QED
    BY <1>4, <2>1, <2>12 DEF HostPart
<1>21. ASSUME ~DropsAddress
       PROVE  AddressPart'
  <2>1. AddressPart
    BY <1>1, <1>21
  <2>2. /\ e.U1ADDR = dev.U1ADDR /\ ~e.PKTDIS
        /\ r.kind = "address" => e.USBDeviceState = "ADR_PENDING"
        /\ r.kind = "config" => e.USBDeviceState # "ADR_PENDING"
        /\ r.kind \notin {"address", "config"} => e.USBDeviceState = dev.USBDeviceState
    BY <1>9 DEF Served, r
  <2>3. address = dev.U1ADDR
    BY <1>3, <2>1 DEF AddressPart
  <2>4. CASE r.kind = "address"
    <3>1. r.wLength = 0
      BY <1>16, <2>4
    <3>2. phase = "statusIn"
      BY <1>5, <3>1 DEF AskedPart, Transfer!FirstStage
    <3>3. QED
      BY <1>4, <1>5, <1>10, <2>2, <2>3, <2>4, <3>2 DEF AddressPart, host
  <2>5. CASE r.kind # "address"
    <3>1. dev.USBDeviceState # "ADR_PENDING"
      BY <1>5, <2>1, <2>5 DEF AddressPart
    <3>2. e.USBDeviceState # "ADR_PENDING"
      BY <2>2, <2>5, <3>1
    <3>3. QED
      BY <1>4, <1>5, <2>2, <2>3, <2>5, <3>2 DEF AddressPart, host
  <2>6. QED
    BY <2>4, <2>5
<1>22. Serviced
  <2>1. e.U1ADDR = dev.U1ADDR
    BY <1>9 DEF Served
  <2>2. CASE r.kind = "config"
    <3>1. e.config = r.value
      BY <1>9, <2>2 DEF Served, r
    <3>2. phase = "statusIn"
      BY <1>5, <1>16, <2>2 DEF AskedPart, Transfer!FirstStage
    <3>3. QED
      BY <1>4, <1>5, <2>1, <2>2, <3>1, <3>2 DEF Serviced
  <2>3. CASE r.kind # "config"
    <3>1. e.config = dev.config
      BY <1>9, <2>3 DEF Served, r
    <3>2. QED
      BY <1>4, <2>1, <3>1 DEF Serviced
  <2>4. QED
    BY <2>2, <2>3
<1>23. QED
  BY <1>11, <1>12, <1>14, <1>15, <1>20, <1>21, <1>22 DEF EpInv

LEMMA ServiceTransactionStep ==
    ASSUME EpInv, ServiceTransaction
    PROVE  EpInv' /\ Serviced
<1>1. PICK w \in BOOLEAN : QueuePart(dev, w) /\ OutPart(dev, w) /\ HostPart(w)
  BY DEF EpInv
<1>2. CASE InWaits(dev)
  BY <1>2, ServiceInStep
<1>3. CASE ~InWaits(dev) /\ w = TRUE
  BY <1>1, <1>3, ServiceOutStep
<1>4. CASE ~InWaits(dev) /\ w = FALSE
  BY <1>1, <1>4, ServiceSetupStep
<1>5. QED
  BY <1>2, <1>3, <1>4

\* A stall leaves the descriptor for the next token alone unless a SETUP waits.
LEMMA ServiceStallStep ==
    ASSUME EpInv, ServiceStall
    PROVE  EpInv' /\ Serviced
<1> USE DEF InWaits, SetupWaits
<1> DEFINE s == dev.outSie
<1>1. PICK w \in BOOLEAN : QueuePart(dev, w) /\ OutPart(dev, w) /\ HostPart(w)
  BY DEF EpInv
<1>2. dev \in DevType /\ HostType /\ InPart(dev) /\ (~DropsAddress => AddressPart)
  BY TypeParts DEF EpInv
<1>3. /\ s \in {0, 1} /\ Other(s) \in {0, 1} /\ Other(s) # s
      /\ dev.out \in [{0, 1} -> Descriptors]
  BY <1>2, DevFields, Bits
<1>4. ForSetup \in Descriptors /\ ForSetup.uown /\ ForSetup.stall /\ ~ForSetup.setup
  BY Values
<1>5. /\ UNCHANGED <<host, bounds>>
      /\ \/ dev' = [dev EXCEPT !.STALLIF = FALSE, !.out = dev.out]
         \/ /\ dev' = [dev EXCEPT !.STALLIF = FALSE,
                                  !.out = [dev.out EXCEPT ![dev.current] = ForSetup]]
            /\ dev.out[dev.current].uown /\ ~dev.out[dev.current].stall
  <2> DEFINE d == [dev EXCEPT !.STALLIF = FALSE]
  <2>1. d = [dev EXCEPT !.STALLIF = FALSE, !.out = dev.out] /\ d.out = dev.out
        /\ d.current = dev.current
    BY <1>2 DEF DevType
  <2>2. CASE dev' = d
    BY <2>1, <2>2 DEF ServiceStall
  <2>3. CASE dev' # d
    <3>1. /\ dev' = [d EXCEPT !.out[d.current] = ForSetup]
          /\ d.out[d.current].uown /\ ~d.out[d.current].stall
      BY <2>3 DEF ServiceStall
    <3>2. dev' = [dev EXCEPT !.STALLIF = FALSE,
                             !.out = [dev.out EXCEPT ![dev.current] = ForSetup]]
      BY <1>2, <2>1, <3>1 DEF DevType
    <3>3. QED
      BY <2>1, <3>1, <3>2 DEF ServiceStall
  <2>4. QED
    BY <2>2, <2>3
<1>6. PICK out \in [{0, 1} -> Descriptors] :
         /\ dev' = [dev EXCEPT !.STALLIF = FALSE, !.out = out]
         /\ \/ out = dev.out
            \/ /\ out = [dev.out EXCEPT ![dev.current] = ForSetup]
               /\ dev.out[dev.current].uown /\ ~dev.out[dev.current].stall
  <2>1. [dev.out EXCEPT ![dev.current] = ForSetup] \in [{0, 1} -> Descriptors]
    BY <1>3, <1>4
  <2>2. QED
    BY <1>3, <1>5, <2>1
<1>7. /\ dev'.out = out
      /\ dev'.in = dev.in /\ dev'.outSie = s /\ dev'.inSie = dev.inSie
      /\ dev'.entryIn = dev.entryIn /\ dev'.PKTDIS = dev.PKTDIS
      /\ dev'.USTAT = dev.USTAT /\ dev'.current = dev.current /\ dev'.next = dev.next
      /\ dev'.controlTransferState = dev.controlTransferState
      /\ dev'.bothSet = dev.bothSet /\ dev'.statusEnabled = dev.statusEnabled
  BY <1>2, <1>6 DEF DevType
<1>8. /\ dev'.shortPacketStatus = dev.shortPacketStatus
      /\ dev'.wCount = dev.wCount /\ dev'.pSrc = dev.pSrc
      /\ dev'.CtrlTrfData = dev.CtrlTrfData
      /\ dev'.SetupPkt = dev.SetupPkt /\ dev'.config = dev.config
      /\ dev'.USBDeviceState = dev.USBDeviceState /\ dev'.U1ADDR = dev.U1ADDR
  BY <1>2, <1>6 DEF DevType
<1>9. TypeOK'
  <2>1. dev' \in DevType
    BY <1>2, <1>6, ZenonT(60) DEF DevType
  <2>2. QED
    BY <1>2, <1>5, <2>1 DEF TypeOK, HostType, HostVars, host, bounds
<1>10. QueuePart(dev', w)
  BY <1>1, <1>7 DEF QueuePart
<1>11. ~dev.PKTDIS => out[s] = dev.out[s]
  <2>1. CASE dev.current = s /\ ~dev.PKTDIS
    <3>1. dev.out[s].stall
      BY <1>1, <1>3, <2>1 DEF OutPart
    <3>2. QED
      BY <1>6, <2>1, <3>1
  <2>2. CASE dev.current # s
    BY <1>3, <1>6, <2>2
  <2>3. QED
    BY <2>1, <2>2
<1>12. dev.PKTDIS => out[Other(s)] = dev.out[Other(s)]
  <2>1. CASE dev.current = Other(s) /\ dev.PKTDIS
    <3>1. ~dev.out[Other(s)].uown
      BY <1>1, <2>1 DEF OutPart
    <3>2. QED
      BY <1>6, <2>1, <3>1
  <2>2. CASE dev.current # Other(s)
    BY <1>3, <1>6, <2>2
  <2>3. QED
    BY <2>1, <2>2
<1>13. \A i \in {0, 1} : out[i] = dev.out[i] \/ out[i] = ForSetup
  BY <1>3, <1>6
<1>14. OutPart(dev', w)
  <2>1. CASE dev.PKTDIS
    <3>1. out[s].setup => dev.out[s].setup
      BY <1>3, <1>4, <1>13
    <3>2. QED
      BY <1>1, <1>7, <1>12, <2>1, <3>1 DEF OutPart, Sending
  <2>2. CASE ~dev.PKTDIS
    <3>1. out[Other(s)].setup => dev.out[Other(s)].setup
      BY <1>3, <1>4, <1>13
    <3>2. dev.out[Other(s)].uown /\ dev.out[Other(s)].stall =>
             out[Other(s)].uown /\ out[Other(s)].stall
      BY <1>3, <1>4, <1>13
    <3>3. QED
      BY <1>1, <1>7, <1>11, <2>2, <3>1, <3>2 DEF OutPart, Sending
  <2>3. QED
    BY <2>1, <2>2
<1>15. InPart(dev')
  BY <1>2, <1>7 DEF InPart
<1>16. HostPart(w)'
  <2>1. CASE dev.PKTDIS
    BY <1>1, <1>5, <1>7, <1>8, <2>1 DEF HostPart, AskedPart, host
  <2>2. CASE ~dev.PKTDIS
    <3>1. (ForStatus' <=> ForStatus) /\ This' = This
      BY <1>7, <1>11, <2>2 DEF ForStatus, This
    <3>2. ReadPart' <=> ReadPart
      BY <1>5, <1>7, <1>8, <3>1 DEF ReadPart, host
    <3>3. StagePart'
      BY <1>1, <1>5, <1>7, <1>8, <2>2, <3>1, <3>2
         DEF HostPart, StagePart, Known, Sending, host
    <3>4. QED
      BY <1>1, <1>5, <1>7, <1>8, <2>2, <3>3 DEF HostPart, host
  <2>3. QED
    BY <2>1, <2>2
<1>17. ASSUME ~DropsAddress
       PROVE  AddressPart'
  BY <1>2, <1>5, <1>7, <1>8, <1>17 DEF AddressPart, host
<1>18. Serviced
  BY <1>5, <1>8 DEF Serviced
<1>19. QED
  BY <1>9, <1>10, <1>14, <1>15, <1>16, <1>17, <1>18 DEF EpInv

\* The status stage is enabled already: the timeout does nothing.
LEMMA ServiceSOFStep ==
    ASSUME EpInv, ServiceSOF
    PROVE  EpInv' /\ Serviced
<1> USE DEF InWaits, SetupWaits
<1>1. PICK w \in BOOLEAN : QueuePart(dev, w) /\ OutPart(dev, w) /\ HostPart(w)
  BY DEF EpInv
<1>2. dev \in DevType /\ HostType /\ InPart(dev) /\ (~DropsAddress => AddressPart)
  BY TypeParts DEF EpInv
<1> DEFINE t == Max({dev.timeout - 1, 0})
<1>3. t \in 0..TIMEOUT
  <2>1. dev.timeout \in 0..TIMEOUT /\ TIMEOUT \in Nat
    BY <1>2, ControlAssumption DEF DevType
  <2>2. \E x \in {dev.timeout - 1, 0} : \A y \in {dev.timeout - 1, 0} : x >= y
    BY <2>1
  <2>3. t \in {dev.timeout - 1, 0} /\ t >= 0
    BY <2>2 DEF Max
  <2> HIDE DEF t
  <2>4. QED
    BY <2>1, <2>3
<1> HIDE DEF t
<1>4. dev' = [dev EXCEPT !.timeout = t] /\ UNCHANGED <<host, bounds>>
  <2>1. [dev EXCEPT !.timeout = t].statusEnabled
    BY <1>1, <1>2 DEF OutPart, DevType
  <2>2. QED
    BY <2>1 DEF ServiceSOF, USBCtrlEPAllowStatusStage, t
<1>5. /\ dev'.out = dev.out
      /\ dev'.in = dev.in /\ dev'.outSie = dev.outSie /\ dev'.inSie = dev.inSie
      /\ dev'.entryIn = dev.entryIn /\ dev'.PKTDIS = dev.PKTDIS
      /\ dev'.USTAT = dev.USTAT /\ dev'.current = dev.current /\ dev'.next = dev.next
      /\ dev'.controlTransferState = dev.controlTransferState
      /\ dev'.bothSet = dev.bothSet /\ dev'.statusEnabled = dev.statusEnabled
  BY <1>2, <1>4 DEF DevType
<1>6. /\ dev'.shortPacketStatus = dev.shortPacketStatus
      /\ dev'.wCount = dev.wCount /\ dev'.pSrc = dev.pSrc
      /\ dev'.CtrlTrfData = dev.CtrlTrfData
      /\ dev'.SetupPkt = dev.SetupPkt /\ dev'.config = dev.config
      /\ dev'.USBDeviceState = dev.USBDeviceState /\ dev'.U1ADDR = dev.U1ADDR
  BY <1>2, <1>4 DEF DevType
<1>7. TypeOK'
  <2>1. dev' \in DevType
    BY <1>2, <1>3, <1>4, ZenonT(60) DEF DevType
  <2>2. QED
    BY <1>2, <1>4, <2>1 DEF TypeOK, HostType, HostVars, host, bounds
<1>8. QueuePart(dev', w)
  BY <1>1, <1>5 DEF QueuePart
<1>9. OutPart(dev', w)
  BY <1>1, <1>5 DEF OutPart, Sending
<1>10. InPart(dev')
  BY <1>2, <1>5 DEF InPart
<1>11. HostPart(w)'
  <2>1. (ReadPart' <=> ReadPart) /\ (AskedPart' <=> AskedPart)
    BY <1>4, <1>5, <1>6 DEF ReadPart, This, AskedPart, host
  <2>2. StagePart' <=> StagePart
    BY <1>4, <1>5, <1>6, <2>1
       DEF StagePart, Known, This, ForStatus, Sending, host
  <2>3. QED
    BY <1>1, <1>4, <1>5, <1>6, <2>1, <2>2 DEF HostPart, host
<1>12. ASSUME ~DropsAddress
       PROVE  AddressPart'
  BY <1>2, <1>4, <1>5, <1>6, <1>12 DEF AddressPart, host
<1>13. Serviced
  BY <1>4, <1>6 DEF Serviced
<1>14. QED
  BY <1>7, <1>8, <1>9, <1>10, <1>11, <1>12, <1>13 DEF EpInv

LEMMA CompleteOutFacts ==
    ASSUME NEW d \in DevType, NEW setup \in BOOLEAN
    PROVE  LET e == CompleteOut(d, setup)
               s == d.outSie
           IN  /\ e \in DevType
               /\ e.out[Other(s)] = d.out[Other(s)]
               /\ ~e.out[s].uown /\ e.out[s].setup = setup
               /\ e.outSie = Other(s) /\ e.USTAT = Append(d.USTAT, <<"out", s>>)
               /\ e.in = d.in /\ e.inSie = d.inSie /\ e.entryIn = d.entryIn
               /\ e.PKTDIS = d.PKTDIS /\ e.current = d.current /\ e.next = d.next
               /\ e.controlTransferState = d.controlTransferState
               /\ e.bothSet = d.bothSet /\ e.statusEnabled = d.statusEnabled
               /\ e.SetupPkt = d.SetupPkt /\ e.config = d.config
               /\ e.USBDeviceState = d.USBDeviceState /\ e.U1ADDR = d.U1ADDR
<1> DEFINE s == d.outSie
           e == CompleteOut(d, setup)
           new == [d.out[s] EXCEPT !.uown = FALSE, !.setup = setup]
           outs == [d.out EXCEPT ![s] = new]
           queue == Append(d.USTAT, <<"out", s>>)
<1>1. /\ s \in {0, 1} /\ Other(s) \in {0, 1} /\ Other(s) # s
      /\ d.out \in [{0, 1} -> Descriptors] /\ d.USTAT \in Seq(Transactions)
  BY DevFields, Bits
<1>2. new \in Descriptors /\ ~new.uown /\ new.setup = setup
  BY <1>1 DEF Descriptors
<1>3. e = [d EXCEPT !.out = outs, !.outSie = Other(s), !.USTAT = queue]
  <2>1. e = [d EXCEPT !.out = [[d.out EXCEPT ![s] = [d.out[s] EXCEPT !.uown = FALSE]]
                                 EXCEPT ![s] = [@ EXCEPT !.setup = setup]],
                      !.outSie = Other(s), !.USTAT = queue]
    BY DEF CompleteOut, Other, DevType
  <2>2. [[d.out EXCEPT ![s] = [d.out[s] EXCEPT !.uown = FALSE]]
            EXCEPT ![s] = [@ EXCEPT !.setup = setup]] = outs
    BY <1>1 DEF Descriptors
  <2> HIDE DEF e, outs, queue
  <2>3. QED
    BY <2>1, <2>2
<1> HIDE DEF new
<1>4. /\ outs \in [{0, 1} -> Descriptors] /\ outs[s] = new
      /\ outs[Other(s)] = d.out[Other(s)]
  BY <1>1, <1>2
<1>5. queue \in Seq(Transactions)
  BY <1>1 DEF Transactions
<1> HIDE DEF e, outs, queue
<1>6. e \in DevType
  BY <1>1, <1>3, <1>4, <1>5, ZenonT(60) DEF DevType, Transactions
<1>7. /\ e.out = outs /\ e.outSie = Other(s) /\ e.USTAT = queue
      /\ e.in = d.in /\ e.inSie = d.inSie /\ e.entryIn = d.entryIn
      /\ e.PKTDIS = d.PKTDIS /\ e.current = d.current /\ e.next = d.next
      /\ e.controlTransferState = d.controlTransferState
      /\ e.bothSet = d.bothSet /\ e.statusEnabled = d.statusEnabled
      /\ e.SetupPkt = d.SetupPkt /\ e.config = d.config
      /\ e.USBDeviceState = d.USBDeviceState /\ e.U1ADDR = d.U1ADDR
  BY <1>3 DEF DevType
<1>8. QED
  BY <1>2, <1>4, <1>6, <1>7 DEF e, queue

LEMMA CompleteInFacts ==
    ASSUME NEW d \in DevType
    PROVE  LET e == CompleteIn(d)
               s == d.inSie
           IN  /\ e \in DevType
               /\ e.in[Other(s)] = d.in[Other(s)]
               /\ ~e.in[s].uown /\ e.in[s].dts = d.in[s].dts
               /\ e.inSie = Other(s) /\ e.USTAT = Append(d.USTAT, <<"in", s>>)
               /\ e.out = d.out /\ e.outSie = d.outSie /\ e.entryIn = d.entryIn
               /\ e.PKTDIS = d.PKTDIS /\ e.current = d.current /\ e.next = d.next
               /\ e.controlTransferState = d.controlTransferState
               /\ e.bothSet = d.bothSet /\ e.statusEnabled = d.statusEnabled
               /\ e.shortPacketStatus = d.shortPacketStatus
               /\ e.wCount = d.wCount /\ e.pSrc = d.pSrc
               /\ e.SetupPkt = d.SetupPkt /\ e.config = d.config
               /\ e.USBDeviceState = d.USBDeviceState /\ e.U1ADDR = d.U1ADDR
<1> DEFINE s == d.inSie
           e == CompleteIn(d)
           new == [d.in[s] EXCEPT !.uown = FALSE]
           ins == [d.in EXCEPT ![s] = new]
           queue == Append(d.USTAT, <<"in", s>>)
<1>1. /\ s \in {0, 1} /\ Other(s) \in {0, 1} /\ Other(s) # s
      /\ d.in \in [{0, 1} -> Descriptors] /\ d.USTAT \in Seq(Transactions)
  BY DevFields, Bits
<1>2. new \in Descriptors /\ ~new.uown /\ new.dts = d.in[s].dts
  BY <1>1 DEF Descriptors
<1>3. e = [d EXCEPT !.in = ins, !.inSie = Other(s), !.USTAT = queue]
  BY DEF CompleteIn, Other, DevType
<1> HIDE DEF new
<1>4. /\ ins \in [{0, 1} -> Descriptors] /\ ins[s] = new
      /\ ins[Other(s)] = d.in[Other(s)]
  BY <1>1, <1>2
<1>5. queue \in Seq(Transactions)
  BY <1>1 DEF Transactions
<1> HIDE DEF e, ins, queue
<1>6. e \in DevType
  BY <1>1, <1>3, <1>4, <1>5, ZenonT(60) DEF DevType, Transactions
<1>7. /\ e.in = ins /\ e.inSie = Other(s) /\ e.USTAT = queue
      /\ e.out = d.out /\ e.outSie = d.outSie /\ e.entryIn = d.entryIn
      /\ e.PKTDIS = d.PKTDIS /\ e.current = d.current /\ e.next = d.next
      /\ e.controlTransferState = d.controlTransferState
      /\ e.bothSet = d.bothSet /\ e.statusEnabled = d.statusEnabled
      /\ e.shortPacketStatus = d.shortPacketStatus
      /\ e.wCount = d.wCount /\ e.pSrc = d.pSrc
      /\ e.SetupPkt = d.SetupPkt /\ e.config = d.config
      /\ e.USBDeviceState = d.USBDeviceState /\ e.U1ADDR = d.U1ADDR
  BY <1>3 DEF DevType
<1>8. QED
  BY <1>2, <1>4, <1>6, <1>7 DEF e, queue

LEMMA FirstStageType ==
    ASSUME NEW r \in Requests
    PROVE  Transfer!FirstStage(r) \in {"dataIn", "dataOut", "statusIn"}
BY DEF Transfer!FirstStage

LEMMA HostSetupStep ==
    ASSUME EpInv, HostSetup
    PROVE  EpInv'
<1> USE DEF InWaits, SetupWaits
<1> DEFINE s == dev.outSie
           c == CompleteOut(dev, TRUE)
<1>1. PICK w \in BOOLEAN : QueuePart(dev, w) /\ OutPart(dev, w) /\ HostPart(w)
  BY DEF EpInv
<1>2. dev \in DevType /\ HostType /\ InPart(dev) /\ (~DropsAddress => AddressPart)
  BY TypeParts DEF EpInv
<1>3. PICK r \in Requests :
         /\ Answers /\ MayAsk(r)
         /\ setups < MaxSetups /\ setups' = setups + 1
         /\ dev.out[dev.outSie].uown
         /\ dev' = [c EXCEPT !.PKTDIS = TRUE, !.SetupPkt = r]
         /\ req' = r /\ phase' = Transfer!FirstStage(r)
         /\ got' = <<>> /\ toggle' = 1
         /\ UNCHANGED <<address, lost, resets>>
  BY DEF HostSetup
<1>4. s \in {0, 1} /\ Other(s) \in {0, 1} /\ Other(Other(s)) = s
  BY <1>2, DevFields, Bits
<1>5. /\ c \in DevType
      /\ c.out[Other(s)] = dev.out[Other(s)]
      /\ ~c.out[s].uown /\ c.out[s].setup
      /\ c.outSie = Other(s) /\ c.USTAT = Append(dev.USTAT, <<"out", s>>)
      /\ c.in = dev.in /\ c.inSie = dev.inSie /\ c.entryIn = dev.entryIn
      /\ c.current = dev.current /\ c.next = dev.next
      /\ c.controlTransferState = dev.controlTransferState
      /\ c.bothSet = dev.bothSet /\ c.statusEnabled = dev.statusEnabled
      /\ c.USBDeviceState = dev.USBDeviceState /\ c.U1ADDR = dev.U1ADDR
  BY <1>2, CompleteOutFacts
<1> HIDE DEF c
<1>6. dev' \in DevType
  BY <1>3, <1>5, ZenonT(60) DEF DevType
<1>7. /\ dev'.out = c.out
      /\ dev'.outSie = c.outSie /\ dev'.USTAT = c.USTAT
      /\ dev'.in = c.in /\ dev'.inSie = c.inSie /\ dev'.entryIn = c.entryIn
      /\ dev'.PKTDIS /\ dev'.SetupPkt = r
      /\ dev'.current = c.current /\ dev'.next = c.next
      /\ dev'.controlTransferState = c.controlTransferState
      /\ dev'.bothSet = c.bothSet /\ dev'.statusEnabled = c.statusEnabled
      /\ dev'.USBDeviceState = c.USBDeviceState /\ dev'.U1ADDR = c.U1ADDR
  BY <1>3, <1>5 DEF DevType
<1>8. TypeOK'
  <2>1. phase' \in {"idle", "dataIn", "dataOut", "statusIn", "statusOut"}
    BY <1>3, FirstStageType
  <2>2. setups' \in 0..MaxSetups
    <3>1. /\ setups \in 0..MaxSetups /\ setups < MaxSetups /\ MaxSetups \in Nat
          /\ setups' = setups + 1
      BY <1>2, <1>3, ControlAssumption DEF HostType
    <3>2. QED
      BY <3>1
  <2>3. got' \in Seq(Nat) /\ toggle' \in {0, 1}
    BY <1>3
  <2>4. QED
    BY <1>2, <1>3, <1>6, <2>1, <2>2, <2>3 DEF TypeOK, HostType, HostVars
<1>9. ~dev.PKTDIS
  BY <1>3 DEF Answers
<1>10. QueuePart(dev', w)
  <2>1. SetupEntry(dev') = <<"out", s>>
    BY <1>4, <1>5, <1>7 DEF SetupEntry
  <2>2. QED
    BY <1>1, <1>5, <1>7, <1>9, <2>1, PushSetup, ZenonT(60)
<1>11. OutPart(dev', w)
  BY <1>1, <1>4, <1>5, <1>7, <1>9 DEF OutPart, Sending
<1>12. InPart(dev')
  BY <1>2, <1>5, <1>7 DEF InPart
<1>13. HostPart(w)'
  BY <1>3, <1>7 DEF HostPart, AskedPart
<1>14. ASSUME ~DropsAddress
       PROVE  AddressPart'
  <2>1. AddressPart
    BY <1>2, <1>14
  <2>2. CASE dev.USBDeviceState = "ADR_PENDING"
    <3>1. req.kind = "address"
      BY <2>1, <2>2 DEF AddressPart
    <3>2. phase # "idle"
      <4>1. ASSUME phase = "idle"
            PROVE  FALSE
        <5>1. dev.USTAT = <<>>
          BY <1>3, <3>1, <4>1 DEF MayAsk
        <5>2. InWaits(dev)
          BY <2>1, <2>2, <4>1 DEF AddressPart
        <5>3. QED
          BY <1>1, <5>1, <5>2, QueueHead
      <4>2. QED
        BY <4>1
    <3>3. r.kind = "address"
      BY <1>3, <1>14, <3>1, <3>2 DEF MayAsk
    <3>4. phase' = "statusIn"
      <4>1. r.wLength = 0
        BY <3>3, ControlAssumption
      <4>2. QED
        BY <1>3, <4>1 DEF Transfer!FirstStage
    <3>5. ~InWaits(dev) /\ address = dev.U1ADDR
      BY <2>1, <2>2, <3>2 DEF AddressPart
    <3>6. QED
      BY <1>3, <1>5, <1>7, <2>2, <3>3, <3>4, <3>5 DEF AddressPart
  <2>3. CASE dev.USBDeviceState # "ADR_PENDING"
    BY <1>3, <1>5, <1>7, <2>1, <2>3 DEF AddressPart
  <2>4. QED
    BY <2>2, <2>3
<1>15. QED
  BY <1>8, <1>10, <1>11, <1>12, <1>13, <1>14 DEF EpInv

\* Before an IN token is answered, no transaction waits.
LEMMA InTokenFacts ==
    ASSUME EpInv, InToken
    PROVE  /\ ~InWaits(dev) /\ ~SetupWaits(dev)
           /\ QueuePart(dev, FALSE) /\ OutPart(dev, FALSE) /\ HostPart(FALSE)
           /\ This.uown /\ StagePart /\ req = dev.SetupPkt
           /\ phase \in {"dataIn", "statusIn"}
<1>1. PICK w \in BOOLEAN : QueuePart(dev, w) /\ OutPart(dev, w) /\ HostPart(w)
  BY DEF EpInv
<1>2. ~SetupWaits(dev) /\ This.uown /\ phase \in {"dataIn", "statusIn"}
  BY DEF InToken, Answers, SetupWaits, This
<1>3. ~InWaits(dev)
  BY <1>2 DEF EpInv, InPart, This
<1>4. w = FALSE /\ StagePart /\ req = dev.SetupPkt
  BY <1>1, <1>2 DEF HostPart
<1>5. QED
  BY <1>1, <1>2, <1>3, <1>4

\* What the packet makes of the host, and of the packets of a read.
LEMMA PositionsFacts ==
    ASSUME NEW seq \in Seq(Nat), NEW from \in Nat, NEW n \in Nat
    PROVE  /\ seq \o Transfer!Positions(from, n) \in Seq(Nat)
           /\ Len(seq \o Transfer!Positions(from, n)) = Len(seq) + n
<1> DEFINE more == Transfer!Positions(from, n)
<1>1. more \in Seq(Nat) /\ Len(more) = n
  BY DEF Transfer!Positions
<1> HIDE DEF more
<1>2. QED
  BY <1>1, ConcatProperties DEF more

LEMMA ThisFields ==
    ASSUME dev \in DevType
    PROVE  /\ This.cnt \in 0..EP0_SIZE /\ This.dts \in {0, 1}
           /\ EP0_SIZE \in Nat /\ dev.CtrlTrfData \in Nat
           /\ dev.pSrc \in Nat /\ dev.wCount \in Nat
<1>1. dev.in \in [{0, 1} -> Descriptors] /\ dev.inSie \in {0, 1}
      /\ dev.CtrlTrfData \in Nat /\ dev.pSrc \in Nat /\ dev.wCount \in Nat
  BY DevFields
<1>2. This.cnt \in 0..EP0_SIZE /\ This.dts \in {0, 1}
  BY <1>1, DescriptorFields DEF This
<1>3. QED
  BY <1>1, <1>2, ControlAssumption

LEMMA TakeFacts ==
    ASSUME EpInv, InToken, ~This.stall, Take(This)
    PROVE  /\ HostVars' /\ req' = req /\ Known
           /\ phase = "dataIn" =>
                 /\ ForStatus /\ Sending(dev) /\ ReadPart
                 /\ req.wLength > 0 /\ req.in
                 /\ address' = address
                 /\ phase' \in {"dataIn", "statusOut"}
                 /\ Len(got') = dev.pSrc /\ toggle' = 1 - This.dts
                 /\ phase' = "dataIn" =>
                       This.cnt = EP0_SIZE /\ Len(got') < req.wLength
           /\ phase = "statusIn" =>
                 /\ phase' = "idle" /\ got' = <<>>
                 /\ address' = IF req.kind = "address" THEN req.value ELSE address
<1>1. /\ ~InWaits(dev) /\ StagePart /\ req = dev.SetupPkt
      /\ phase \in {"dataIn", "statusIn"}
  BY InTokenFacts
<1>2. dev \in DevType /\ HostVars
  BY TypeParts DEF EpInv, HostType
<1>3. Known
  BY <1>1 DEF StagePart
<1>4. /\ This.cnt \in 0..EP0_SIZE /\ This.dts \in {0, 1} /\ EP0_SIZE \in Nat
      /\ dev.CtrlTrfData \in Nat /\ dev.pSrc \in Nat /\ dev.wCount \in Nat
  BY <1>2, ThisFields
<1>5. /\ got \in Seq(Nat) /\ toggle \in {0, 1} /\ Len(got) \in Nat
      /\ req \in Requests /\ req.avail \in Nat /\ req.wLength \in Nat
      /\ req.value \in Nat
  BY <1>2, ControlAssumption DEF HostVars
<1> DEFINE more == Transfer!Positions(dev.CtrlTrfData, This.cnt)
<1>6. CASE phase = "dataIn"
  <2>1. /\ ForStatus /\ Sending(dev) /\ ReadPart /\ req.wLength > 0 /\ req.in
    BY <1>1, <1>3, <1>6 DEF StagePart
  <2>2. /\ dev.pSrc + dev.wCount = Min({req.avail, req.wLength})
        /\ dev.CtrlTrfData + This.cnt = dev.pSrc
        /\ \/ toggle = This.dts /\ Len(got) = dev.CtrlTrfData
           \/ /\ toggle # This.dts /\ Len(got) = dev.pSrc
              /\ This.cnt = EP0_SIZE /\ Len(got) < req.wLength
    BY <1>1, <2>1 DEF ReadPart
  <2>3. CASE This.dts # toggle
    <3>1. UNCHANGED host
      BY <2>3 DEF Take
    <3>2. toggle = 1 - This.dts
      BY <1>4, <1>5, <2>3
    <3>3. QED
      BY <1>2, <1>3, <1>6, <2>1, <2>2, <2>3, <3>1, <3>2 DEF host, HostVars
  <2>4. CASE This.dts = toggle
    <3>1. /\ toggle' = 1 - toggle /\ req' = req /\ got' = got \o more
          /\ phase' = Transfer!StageAfter(req, This.cnt, Len(got'))
          /\ address' = address
      BY <1>6, <2>4 DEF Take
    <3>2. got' \in Seq(Nat) /\ Len(got') = Len(got) + This.cnt
      <4>1. This.cnt \in Nat
        BY <1>4
      <4>2. QED
        BY <1>4, <1>5, <3>1, <4>1, PositionsFacts
    <3>3. Len(got') = dev.pSrc
      BY <1>4, <2>2, <2>4, <3>2
    <3>4. phase' = IF This.cnt < EP0_SIZE \/ dev.pSrc = req.wLength
                   THEN "statusOut" ELSE "dataIn"
      BY <3>1, <3>3 DEF Transfer!StageAfter
    <3>5. dev.pSrc <= req.wLength
      <4>1. Min({req.avail, req.wLength}) =
               IF req.avail <= req.wLength THEN req.avail ELSE req.wLength
        BY <1>5, MinFacts
      <4>2. PICK m \in Int : m = Min({req.avail, req.wLength})
        BY <1>5, MinFacts
      <4>3. QED
        BY <1>4, <1>5, <2>2, <4>1, <4>2
    <3>6. phase' = "dataIn" => This.cnt = EP0_SIZE /\ dev.pSrc < req.wLength
      BY <1>4, <1>5, <3>4, <3>5
    <3>7. toggle' = 1 - This.dts /\ toggle' \in {0, 1}
      BY <1>5, <2>4, <3>1
    <3>8. phase' \in {"dataIn", "statusOut"}
      BY <3>4
    <3>9. HostVars'
      BY <1>2, <3>1, <3>2, <3>7, <3>8 DEF HostVars
    <3>10. QED
      BY <1>3, <1>6, <2>1, <3>1, <3>3, <3>6, <3>7, <3>8, <3>9
  <2>5. QED
    BY <2>3, <2>4
<1>7. CASE phase = "statusIn"
  <2>1. toggle = 1 /\ got = <<>> /\ This.dts = 1 /\ This.cnt = 0
    BY <1>1, <1>3, <1>7 DEF StagePart
  <2>2. /\ toggle' = 1 - toggle /\ req' = req /\ got' = got \o more
        /\ phase' = "idle"
        /\ address' = IF req.kind = "address" THEN req.value ELSE address
    BY <1>7, <2>1 DEF Take
  <2>3. got' = <<>>
    <3>1. got' \in Seq(Nat) /\ Len(got') = 0
      <4>1. This.cnt \in Nat /\ Len(got) + This.cnt = 0
        BY <2>1
      <4>2. QED
        BY <1>4, <1>5, <2>2, <4>1, PositionsFacts
    <3>2. QED
      BY <3>1, EmptySeq
  <2>4. HostVars'
    <3>1. toggle' = 0
      BY <2>1, <2>2
    <3>2. address' \in Nat
      BY <1>2, <1>5, <2>2 DEF HostVars
    <3>3. <<>> \in Seq(Nat)
      OBVIOUS
    <3>4. QED
      BY <1>5, <2>2, <2>3, <3>1, <3>2, <3>3 DEF HostVars
  <2>5. QED
    BY <1>3, <1>7, <2>2, <2>3, <2>4
<1>8. QED
  BY <1>1, <1>6, <1>7

LEMMA HostInStep ==
    ASSUME EpInv, HostIn
    PROVE  EpInv'
<1> USE DEF InWaits, SetupWaits
<1> DEFINE s == dev.inSie
           c == CompleteIn(dev)
<1>1. /\ ~InWaits(dev) /\ ~SetupWaits(dev)
      /\ QueuePart(dev, FALSE) /\ OutPart(dev, FALSE) /\ HostPart(FALSE)
      /\ StagePart /\ req = dev.SetupPkt /\ phase \in {"dataIn", "statusIn"}
  BY InTokenFacts DEF HostIn
<1>2. /\ dev \in DevType /\ HostType /\ HostVars /\ InPart(dev)
      /\ (~DropsAddress => AddressPart)
  BY TypeParts DEF EpInv, HostType
<1>3. /\ InToken /\ ~This.stall /\ Take(This)
      /\ dev' = c /\ UNCHANGED bounds
  BY DEF HostIn, This
<1>4. /\ HostVars' /\ req' = req /\ Known
      /\ phase = "dataIn" =>
            /\ ForStatus /\ Sending(dev) /\ ReadPart
            /\ req.wLength > 0 /\ req.in
            /\ address' = address
            /\ phase' \in {"dataIn", "statusOut"}
            /\ Len(got') = dev.pSrc /\ toggle' = 1 - This.dts
            /\ phase' = "dataIn" =>
                  This.cnt = EP0_SIZE /\ Len(got') < req.wLength
      /\ phase = "statusIn" =>
            /\ phase' = "idle" /\ got' = <<>>
            /\ address' = IF req.kind = "address" THEN req.value ELSE address
  BY <1>3, TakeFacts
<1>5. /\ s \in {0, 1} /\ Other(s) \in {0, 1} /\ Other(Other(s)) = s /\ Other(s) # s
  BY <1>2, DevFields, Bits
<1>6. /\ c \in DevType
      /\ c.in[Other(s)] = dev.in[Other(s)]
      /\ ~c.in[s].uown /\ c.in[s].dts = This.dts
      /\ c.inSie = Other(s) /\ c.USTAT = Append(dev.USTAT, <<"in", s>>)
      /\ c.out = dev.out /\ c.outSie = dev.outSie /\ c.entryIn = dev.entryIn
      /\ c.PKTDIS = dev.PKTDIS /\ c.current = dev.current /\ c.next = dev.next
      /\ c.controlTransferState = dev.controlTransferState
      /\ c.bothSet = dev.bothSet /\ c.statusEnabled = dev.statusEnabled
      /\ c.shortPacketStatus = dev.shortPacketStatus
      /\ c.wCount = dev.wCount /\ c.pSrc = dev.pSrc
      /\ c.SetupPkt = dev.SetupPkt /\ c.config = dev.config
      /\ c.USBDeviceState = dev.USBDeviceState /\ c.U1ADDR = dev.U1ADDR
  BY <1>2, CompleteInFacts DEF This
<1> HIDE DEF c
<1>7. TypeOK'
  BY <1>2, <1>3, <1>4, <1>6 DEF TypeOK, HostType, HostVars, bounds
<1>8. InWaits(c) /\ ~SetupWaits(c)
  BY <1>1, <1>5, <1>6
<1>9. QueuePart(dev', FALSE)
  <2>1. InEntry(c) = <<"in", s>>
    BY <1>5, <1>6 DEF InEntry
  <2>2. QED
    BY <1>1, <1>3, <1>6, <1>8, <2>1, PushIn
<1>10. OutPart(dev', FALSE)
  <2>1. OutPart(c, FALSE)
    BY <1>1, <1>6 DEF OutPart, Sending
  <2>2. QED
    BY <1>3, <2>1
<1>11. InPart(dev')
  <2>1. InPart(c)
    BY <1>1, <1>2, <1>5, <1>6 DEF InPart
  <2>2. QED
    BY <1>3, <2>1
<1>12. HostPart(FALSE)'
  <2>1. StagePart'
    <3>1. ForStatus' <=> ForStatus
      BY <1>3, <1>6 DEF ForStatus
    <3>2. Known'
      BY <1>4 DEF Known
    <3>3. CASE phase = "dataIn"
      <4>1. ASSUME phase' = "dataIn"
            PROVE  ReadPart'
        <5>1. /\ dev.pSrc + dev.wCount = Min({req.avail, req.wLength})
              /\ \/ This.cnt = EP0_SIZE /\ dev.shortPacketStatus = "NOT_USED"
                 \/ This.cnt < EP0_SIZE /\ dev.wCount = 0
          BY <1>1, <1>4, <3>3 DEF ReadPart
        <5>2. dev.shortPacketStatus = "NOT_USED"
          BY <1>4, <3>3, <4>1, <5>1, ControlAssumption
        <5>3. c.in[Other(c.inSie)].dts = This.dts
          BY <1>5, <1>6
        <5>4. QED
          BY <1>3, <1>4, <1>6, <1>8, <3>3, <4>1, <5>1, <5>2, <5>3 DEF ReadPart
      <4>2. Sending(dev)'
        BY <1>3, <1>4, <1>6, <3>3 DEF Sending
      <4>3. dev'.next = dev'.outSie
        BY <1>1, <1>3, <1>6, <3>3 DEF StagePart
      <4>4. QED
        BY <1>4, <3>1, <3>2, <3>3, <4>1, <4>2, <4>3 DEF StagePart
    <3>4. CASE phase = "statusIn"
      BY <1>4, <3>4 DEF StagePart
    <3>5. QED
      BY <1>1, <3>3, <3>4
  <2>2. req' = dev'.SetupPkt /\ ~SetupWaits(dev)'
    BY <1>1, <1>3, <1>4, <1>6, <1>8
  <2>3. QED
    BY <2>1, <2>2 DEF HostPart
<1>13. ASSUME ~DropsAddress
       PROVE  AddressPart'
  <2>1. AddressPart
    BY <1>2, <1>13
  <2>2. CASE dev.USBDeviceState = "ADR_PENDING"
    <3>1. req.kind = "address" /\ phase = "statusIn"
      BY <1>1, <2>1, <2>2 DEF AddressPart
    <3>2. QED
      BY <1>3, <1>4, <1>6, <1>8, <2>2, <3>1 DEF AddressPart
  <2>3. CASE dev.USBDeviceState # "ADR_PENDING"
    <3>1. address = dev.U1ADDR /\ ~(phase = "statusIn" /\ req.kind = "address")
      BY <1>1, <2>1, <2>3 DEF AddressPart
    <3>2. address' = address /\ phase' # "statusIn"
      BY <1>1, <1>4, <3>1
    <3>3. QED
      BY <1>3, <1>6, <2>3, <3>1, <3>2 DEF AddressPart
  <2>4. QED
    BY <2>2, <2>3
<1>14. QED
  BY <1>7, <1>9, <1>10, <1>11, <1>12, <1>13 DEF EpInv

LEMMA HostInLostStep ==
    ASSUME EpInv, HostInLost
    PROVE  EpInv'
<1>1. /\ ~InWaits(dev) /\ ~SetupWaits(dev)
      /\ QueuePart(dev, FALSE) /\ OutPart(dev, FALSE) /\ HostPart(FALSE)
      /\ StagePart /\ req = dev.SetupPkt
  BY InTokenFacts DEF HostInLost
<1>2. /\ dev \in DevType /\ HostType /\ HostVars /\ InPart(dev)
      /\ (~DropsAddress => AddressPart)
  BY TypeParts DEF EpInv, HostType
<1>3. /\ InToken /\ ~This.stall /\ Take(This) /\ phase = "dataIn"
      /\ lost < MaxLost /\ lost' = lost + 1 /\ UNCHANGED <<dev, setups, resets>>
  BY DEF HostInLost, This
<1>4. /\ HostVars' /\ req' = req /\ Known
      /\ ForStatus /\ Sending(dev) /\ ReadPart
      /\ req.wLength > 0 /\ req.in
      /\ address' = address
      /\ phase' \in {"dataIn", "statusOut"}
      /\ Len(got') = dev.pSrc /\ toggle' = 1 - This.dts
      /\ phase' = "dataIn" => This.cnt = EP0_SIZE /\ Len(got') < req.wLength
  BY <1>3, TakeFacts
<1>5. TypeOK'
  <2>1. lost' \in 0..MaxLost
    <3>1. /\ lost \in 0..MaxLost /\ MaxLost \in Nat /\ lost < MaxLost
          /\ lost' = lost + 1
      BY <1>2, <1>3, ControlAssumption DEF HostType
    <3>2. QED
      BY <3>1
  <2>2. QED
    BY <1>2, <1>3, <1>4, <2>1 DEF TypeOK, HostType, HostVars
<1>6. QueuePart(dev', FALSE) /\ OutPart(dev', FALSE) /\ InPart(dev')
  BY <1>1, <1>2, <1>3
<1>7. HostPart(FALSE)'
  <2>1. /\ dev' = dev /\ Known' /\ ForStatus' /\ Sending(dev)' /\ This' = This
        /\ ~InWaits(dev)' /\ ~SetupWaits(dev)'
    BY <1>1, <1>3, <1>4 DEF Known, ForStatus, This
  <2>2. ASSUME phase' = "dataIn"
        PROVE  ReadPart'
    <3>1. toggle' # This.dts
      <4>1. This.dts \in {0, 1}
        BY <1>2, ThisFields
      <4>2. QED
        BY <1>4, <4>1
    <3>2. QED
      BY <1>1, <1>4, <2>1, <2>2, <3>1 DEF ReadPart
  <2>3. StagePart'
    BY <1>1, <1>3, <1>4, <2>1, <2>2 DEF StagePart
  <2>4. QED
    BY <1>1, <1>4, <2>1, <2>3 DEF HostPart
<1>8. ASSUME ~DropsAddress
      PROVE  AddressPart'
  BY <1>2, <1>3, <1>4, <1>8 DEF AddressPart
<1>9. QED
  BY <1>5, <1>6, <1>7, <1>8 DEF EpInv

\* An OUT token is answered in the status stage of a read, or with a stall.
LEMMA OutTokenFacts ==
    ASSUME EpInv, OutToken
    PROVE  /\ ~SetupWaits(dev)
           /\ QueuePart(dev, FALSE) /\ OutPart(dev, FALSE) /\ HostPart(FALSE)
           /\ StagePart /\ req = dev.SetupPkt
           /\ phase \in {"dataOut", "statusOut"}
<1>1. PICK w \in BOOLEAN : QueuePart(dev, w) /\ OutPart(dev, w) /\ HostPart(w)
  BY DEF EpInv
<1>2. ~SetupWaits(dev) /\ phase \in {"dataOut", "statusOut"}
  BY DEF OutToken, Answers, SetupWaits
<1>3. w = FALSE /\ StagePart /\ req = dev.SetupPkt
  BY <1>1, <1>2 DEF HostPart
<1>4. QED
  BY <1>1, <1>2, <1>3

LEMMA HostOutStep ==
    ASSUME EpInv, HostOut
    PROVE  EpInv'
<1> USE DEF InWaits, SetupWaits
<1> DEFINE s == dev.outSie
           c == CompleteOut(dev, FALSE)
<1>1. /\ ~SetupWaits(dev)
      /\ QueuePart(dev, FALSE) /\ OutPart(dev, FALSE)
      /\ req = dev.SetupPkt /\ phase \in {"dataOut", "statusOut"}
  BY OutTokenFacts DEF HostOut
<1>2. /\ dev \in DevType /\ HostType /\ InPart(dev) /\ (~DropsAddress => AddressPart)
  BY TypeParts DEF EpInv
<1>3. /\ ~dev.out[s].stall /\ dev' = c /\ phase' = "idle"
      /\ UNCHANGED <<req, got, toggle, address, bounds>>
  BY DEF HostOut
<1>4. /\ s \in {0, 1} /\ Other(s) \in {0, 1} /\ Other(Other(s)) = s /\ Other(s) # s
  BY <1>2, DevFields, Bits
<1>5. /\ c \in DevType
      /\ c.out[Other(s)] = dev.out[Other(s)]
      /\ ~c.out[s].uown /\ ~c.out[s].setup
      /\ c.outSie = Other(s) /\ c.USTAT = Append(dev.USTAT, <<"out", s>>)
      /\ c.in = dev.in /\ c.inSie = dev.inSie /\ c.entryIn = dev.entryIn
      /\ c.PKTDIS = dev.PKTDIS
      /\ c.controlTransferState = dev.controlTransferState
      /\ c.bothSet = dev.bothSet /\ c.statusEnabled = dev.statusEnabled
      /\ c.SetupPkt = dev.SetupPkt
      /\ c.USBDeviceState = dev.USBDeviceState /\ c.U1ADDR = dev.U1ADDR
  BY <1>2, CompleteOutFacts
<1> HIDE DEF c
<1>6. TypeOK'
  BY <1>2, <1>3, <1>5 DEF TypeOK, HostType, HostVars, bounds
<1>7. QueuePart(dev', TRUE)
  <2>1. OutEntry(c) = <<"out", s>>
    BY <1>1, <1>4, <1>5 DEF OutEntry
  <2>2. QED
    BY <1>1, <1>3, <1>5, <2>1, PushOut
<1>8. OutPart(dev', TRUE)
  <2>1. /\ Sending(dev) /\ dev.out[Other(s)].uown /\ dev.out[Other(s)].stall
        /\ dev.bothSet /\ dev.statusEnabled
    BY <1>1, <1>3 DEF OutPart
  <2>2. OutPart(c, TRUE)
    BY <1>1, <1>4, <1>5, <2>1 DEF OutPart, Sending
  <2>3. QED
    BY <1>3, <2>2
<1>9. InPart(dev')
  BY <1>2, <1>3, <1>5 DEF InPart
<1>10. HostPart(TRUE)'
  BY <1>1, <1>3, <1>5 DEF HostPart, StagePart
<1>11. ASSUME ~DropsAddress
       PROVE  AddressPart'
  BY <1>1, <1>2, <1>3, <1>5, <1>11 DEF AddressPart
<1>12. QED
  BY <1>6, <1>7, <1>8, <1>9, <1>10, <1>11 DEF EpInv

LEMMA HostStalledStep ==
    ASSUME EpInv, HostStalled
    PROVE  EpInv' /\ ~Known
<1> USE DEF InWaits, SetupWaits
<1>1. /\ ~SetupWaits(dev) /\ QueuePart(dev, FALSE) /\ OutPart(dev, FALSE)
      /\ StagePart /\ req = dev.SetupPkt
  BY InTokenFacts, OutTokenFacts DEF HostStalled
<1>2. \/ phase \in {"dataIn", "statusIn"} /\ This.stall /\ ~InWaits(dev)
      \/ phase \in {"dataOut", "statusOut"} /\ ~ForStatus
  BY InTokenFacts DEF HostStalled, InToken, OutToken, This, ForStatus
<1>3. /\ dev \in DevType /\ HostType /\ InPart(dev) /\ (~DropsAddress => AddressPart)
  BY TypeParts DEF EpInv
<1>4. /\ dev' = [dev EXCEPT !.STALLIF = TRUE] /\ phase' = "idle"
      /\ UNCHANGED <<req, got, toggle, address, bounds>>
  BY DEF HostStalled
<1>5. /\ dev'.out = dev.out
      /\ dev'.in = dev.in /\ dev'.outSie = dev.outSie /\ dev'.inSie = dev.inSie
      /\ dev'.entryIn = dev.entryIn /\ dev'.PKTDIS = dev.PKTDIS
      /\ dev'.USTAT = dev.USTAT /\ dev'.current = dev.current
      /\ dev'.controlTransferState = dev.controlTransferState
      /\ dev'.bothSet = dev.bothSet /\ dev'.statusEnabled = dev.statusEnabled
      /\ dev'.SetupPkt = dev.SetupPkt
      /\ dev'.USBDeviceState = dev.USBDeviceState /\ dev'.U1ADDR = dev.U1ADDR
  BY <1>3, <1>4 DEF DevType
<1>6. ~Known
  <2>1. ASSUME Known
        PROVE  FALSE
    <3>1. phase = "dataIn" /\ ~InWaits(dev) => ~This.stall
      BY <1>1, <2>1 DEF StagePart, ReadPart
    <3>2. QED
      BY <1>1, <1>2, <2>1, <3>1 DEF StagePart
  <2>2. QED
    BY <2>1
<1>7. TypeOK'
  <2>1. dev' \in DevType
    BY <1>3, <1>4, ZenonT(60) DEF DevType
  <2>2. QED
    BY <1>3, <1>4, <2>1 DEF TypeOK, HostType, HostVars, bounds
<1>8. QueuePart(dev', FALSE)
  BY <1>1, <1>5 DEF QueuePart
<1>9. OutPart(dev', FALSE)
  BY <1>1, <1>5 DEF OutPart, Sending
<1>10. InPart(dev')
  BY <1>3, <1>5 DEF InPart
<1>11. HostPart(FALSE)'
  BY <1>1, <1>4, <1>5 DEF HostPart, StagePart
<1>12. ASSUME ~DropsAddress
       PROVE  AddressPart'
  BY <1>1, <1>3, <1>4, <1>5, <1>6, <1>12 DEF AddressPart, Known
<1>13. QED
  BY <1>6, <1>7, <1>8, <1>9, <1>10, <1>11, <1>12 DEF EpInv

LEMMA HostEndsEarlyStep ==
    ASSUME EpInv, HostEndsEarly
    PROVE  EpInv'
<1> USE DEF InWaits, SetupWaits
<1>1. PICK w \in BOOLEAN : QueuePart(dev, w) /\ OutPart(dev, w) /\ HostPart(w)
  BY DEF EpInv
<1>2. dev \in DevType /\ HostType /\ InPart(dev) /\ (~DropsAddress => AddressPart)
  BY TypeParts DEF EpInv
<1>3. /\ phase = "dataIn" /\ phase' = "statusOut"
      /\ UNCHANGED <<dev, req, got, toggle, address, bounds>>
  BY DEF HostEndsEarly
<1>4. TypeOK'
  BY <1>2, <1>3 DEF TypeOK, HostType, HostVars, bounds
<1>5. QueuePart(dev', w) /\ OutPart(dev', w) /\ InPart(dev')
  BY <1>1, <1>2, <1>3
<1>6. HostPart(w)'
  <2>1. CASE dev.PKTDIS
    <3>1. req = dev.SetupPkt /\ AskedPart
      BY <1>1, <2>1 DEF HostPart
    <3>2. AskedPart'
      BY <1>3, <3>1 DEF AskedPart
    <3>3. QED
      BY <1>3, <2>1, <3>1, <3>2 DEF HostPart
  <2>2. CASE ~dev.PKTDIS
    <3>1. w = FALSE /\ StagePart /\ req = dev.SetupPkt
      BY <1>1, <1>3, <2>2 DEF HostPart
    <3>2. (ForStatus' <=> ForStatus) /\ (Known' <=> Known)
      BY <1>3 DEF ForStatus, Known
    <3>3. StagePart'
      BY <1>3, <3>1, <3>2 DEF StagePart
    <3>4. QED
      BY <1>3, <2>2, <3>1, <3>3 DEF HostPart
  <2>3. QED
    BY <2>1, <2>2
<1>7. ASSUME ~DropsAddress
      PROVE  AddressPart'
  BY <1>2, <1>3, <1>7 DEF AddressPart
<1>8. QED
  BY <1>4, <1>5, <1>6, <1>7 DEF EpInv
-----------------------------------------------------------------------------
LEMMA UpdateReset ==
    ASSUME NEW d \in DevType, NEW out \in [{0, 1} -> Descriptors],
           NEW in \in [{0, 1} -> Descriptors], NEW busy \in BOOLEAN
    PROVE  [d EXCEPT !.out = out, !.in = in,
                     !.outSie = 0, !.inSie = 0, !.PKTDIS = FALSE, !.USTAT = <<>>,
                     !.STALLIF = FALSE, !.entryIn = 0, !.statusEnabled = TRUE,
                     !.busy = busy, !.U1ADDR = 0, !.config = 0,
                     !.USBDeviceState = "DEFAULT"] \in DevType
<1> DEFINE e == [d EXCEPT !.out = out, !.in = in, !.outSie = 0, !.inSie = 0,
                          !.entryIn = 0, !.busy = busy]
           f == [e EXCEPT !.PKTDIS = FALSE, !.STALLIF = FALSE,
                          !.statusEnabled = TRUE, !.U1ADDR = 0, !.config = 0,
                          !.USBDeviceState = "DEFAULT"]
           g == [f EXCEPT !.USTAT = <<>>]
<1>1. e \in DevType
  BY ZenonT(60) DEF DevType
<1>2. g = [d EXCEPT !.out = out, !.in = in,
                    !.outSie = 0, !.inSie = 0, !.PKTDIS = FALSE, !.USTAT = <<>>,
                    !.STALLIF = FALSE, !.entryIn = 0, !.statusEnabled = TRUE,
                    !.busy = busy, !.U1ADDR = 0, !.config = 0,
                    !.USBDeviceState = "DEFAULT"]
  BY ZenonT(60) DEF DevType
<1> HIDE DEF e
<1>3. f \in DevType
  BY <1>1, ZenonT(60) DEF DevType
<1> HIDE DEF f
<1>4. <<>> \in Seq({"out", "in"} \X {0, 1})
  OBVIOUS
<1>5. g \in DevType
  BY <1>3, <1>4, ZenonT(60) DEF DevType
<1>6. QED
  BY <1>2, <1>5

LEMMA ResetFacts ==
    ASSUME NEW d \in DevType, d.bothSet <=> Sending(d)
    PROVE  LET e == USBDeviceInit(d)
           IN  /\ e \in DevType
               /\ QueuePart(e, FALSE) /\ OutPart(e, FALSE) /\ InPart(e)
               /\ ~e.PKTDIS /\ e.SetupPkt = d.SetupPkt
               /\ e.U1ADDR = 0 /\ e.config = 0 /\ e.USBDeviceState = "DEFAULT"
<1> DEFINE e == USBDeviceInit(d)
           out == [i \in {0, 1} |-> IF i = 0 THEN ForSetup ELSE Clear]
           in == [i \in {0, 1} |-> Clear]
           busy == d.busy /\ d.USTAT = <<>>
<1>1. out \in [{0, 1} -> Descriptors] /\ in \in [{0, 1} -> Descriptors]
  BY Values
<1>2. busy \in BOOLEAN
  OBVIOUS
<1>3. e = [d EXCEPT !.out = out, !.in = in,
                    !.outSie = 0, !.inSie = 0, !.PKTDIS = FALSE, !.USTAT = <<>>,
                    !.STALLIF = FALSE, !.entryIn = 0, !.statusEnabled = TRUE,
                    !.busy = busy, !.U1ADDR = 0, !.config = 0,
                    !.USBDeviceState = "DEFAULT"]
  BY DEF USBDeviceInit, DevType
<1>4. out[0] = ForSetup /\ in[1] = Clear
  OBVIOUS
<1> HIDE DEF e, out, in, busy
<1>5. e \in DevType
  BY <1>1, <1>2, <1>3, UpdateReset
<1>6. /\ e.out = out /\ e.in = in
      /\ e.outSie = 0 /\ e.inSie = 0 /\ ~e.PKTDIS /\ e.USTAT = <<>>
      /\ e.entryIn = 0 /\ e.statusEnabled
      /\ e.U1ADDR = 0 /\ e.config = 0 /\ e.USBDeviceState = "DEFAULT"
      /\ e.SetupPkt = d.SetupPkt /\ e.bothSet = d.bothSet
      /\ e.controlTransferState = d.controlTransferState
  BY <1>3 DEF DevType
<1>7. QueuePart(e, FALSE)
  BY <1>6 DEF QueuePart, Entries, InWaits, SetupWaits
<1>8. OutPart(e, FALSE)
  BY <1>4, <1>6, Values DEF OutPart, Sending, SetupWaits
<1>9. InPart(e)
  BY <1>4, <1>6 DEF InPart, InWaits, Other, Clear
<1>10. QED
  BY <1>5, <1>6, <1>7, <1>8, <1>9 DEF e

LEMMA BusResetStep ==
    ASSUME EpInv, BusReset
    PROVE  EpInv'
<1>1. PICK w \in BOOLEAN : QueuePart(dev, w) /\ OutPart(dev, w) /\ HostPart(w)
  BY DEF EpInv
<1>2. dev \in DevType /\ HostType
  BY TypeParts DEF EpInv
<1>3. /\ resets < MaxResets /\ resets' = resets + 1
      /\ dev' = USBDeviceInit(dev)
      /\ phase' = "idle" /\ got' = <<>> /\ toggle' = 0 /\ address' = 0
      /\ UNCHANGED <<req, setups, lost>>
  BY DEF BusReset
<1>4. dev.bothSet <=> Sending(dev)
  BY <1>1 DEF OutPart
<1>5. /\ dev' \in DevType
      /\ QueuePart(dev', FALSE) /\ OutPart(dev', FALSE) /\ InPart(dev')
      /\ ~dev'.PKTDIS /\ dev'.SetupPkt = dev.SetupPkt
      /\ dev'.U1ADDR = 0 /\ dev'.USBDeviceState = "DEFAULT"
  BY <1>2, <1>3, <1>4, ResetFacts
<1>6. TypeOK'
  <2>1. resets' \in 0..MaxResets
    <3>1. /\ resets \in 0..MaxResets /\ resets < MaxResets /\ MaxResets \in Nat
          /\ resets' = resets + 1
      BY <1>2, <1>3, ControlAssumption DEF HostType
    <3>2. QED
      BY <3>1
  <2>2. QED
    BY <1>2, <1>3, <1>5, <2>1 DEF TypeOK, HostType, HostVars
<1>7. HostPart(FALSE)'
  BY <1>1, <1>3, <1>5 DEF HostPart, StagePart, SetupWaits
<1>8. AddressPart'
  BY <1>3, <1>5 DEF AddressPart
<1>9. QED
  BY <1>5, <1>6, <1>7, <1>8 DEF EpInv

LEMMA InitEpInv == Init => EpInv
<1> SUFFICES ASSUME Init
             PROVE  EpInv
  OBVIOUS
<1>1. PowerUp.SetupPkt \in Requests /\ PowerUp.SetupPkt = CHOOSE r \in Requests : TRUE
  BY ControlAssumption DEF PowerUp
<1>2. PowerUp \in DevType
  <2>1. (CHOOSE r \in Requests : TRUE) \in Requests
    BY ControlAssumption
  <2>2. 0 \in 0..TIMEOUT
    BY Values
  <2>3. QED
    BY <2>1, <2>2, Values DEF PowerUp, DevType, NULL
<1>3. PowerUp.bothSet <=> Sending(PowerUp)
  BY DEF PowerUp, Sending
<1>4. /\ dev = USBDeviceInit(PowerUp) /\ phase = "idle" /\ req = PowerUp.SetupPkt
      /\ got = <<>> /\ toggle = 0 /\ address = 0
      /\ setups = 0 /\ lost = 0 /\ resets = 0
  BY DEF Init
<1> HIDE DEF Init
<1>5. /\ dev \in DevType
      /\ QueuePart(dev, FALSE) /\ OutPart(dev, FALSE) /\ InPart(dev)
      /\ ~dev.PKTDIS /\ dev.SetupPkt = req
      /\ dev.U1ADDR = 0 /\ dev.USBDeviceState = "DEFAULT"
  BY <1>2, <1>3, <1>4, ResetFacts
<1>6. TypeOK
  BY <1>1, <1>4, <1>5, ControlAssumption DEF TypeOK
<1>7. HostPart(FALSE)
  BY <1>4, <1>5 DEF HostPart, StagePart, SetupWaits
<1>8. AddressPart
  BY <1>4, <1>5 DEF AddressPart
<1>9. QED
  BY <1>5, <1>6, <1>7, <1>8 DEF EpInv

LEMMA NextEpInv == EpInv /\ [Next]_vars => EpInv'
<1> SUFFICES ASSUME EpInv, [Next]_vars
             PROVE  EpInv'
  OBVIOUS
<1>1. CASE ServiceTransaction
  BY <1>1, ServiceTransactionStep
<1>2. CASE ServiceStall
  BY <1>2, ServiceStallStep
<1>3. CASE ServiceSOF
  BY <1>3, ServiceSOFStep
<1>4. CASE HostSetup
  BY <1>4, HostSetupStep
<1>5. CASE HostIn
  BY <1>5, HostInStep
<1>6. CASE HostInLost
  BY <1>6, HostInLostStep
<1>7. CASE HostOut
  BY <1>7, HostOutStep
<1>8. CASE HostStalled
  BY <1>8, HostStalledStep
<1>9. CASE HostEndsEarly
  BY <1>9, HostEndsEarlyStep
<1>10. CASE BusReset
  BY <1>10, BusResetStep
<1>11. CASE UNCHANGED vars
  BY <1>11, SMTT(40) DEF vars, host, bounds, EpInv, TypeOK, InPart, QueuePart, OutPart,
     HostPart, AskedPart, StagePart, ReadPart, AddressPart, Known, ForStatus,
     This, InWaits, SetupWaits, Sending
<1>12. QED
  BY <1>1, <1>2, <1>3, <1>4, <1>5, <1>6, <1>7, <1>8, <1>9, <1>10, <1>11 DEF Next

\* The descriptors, the queue of transactions and the host's stage stay in
\* step through transfers, abandoned transfers, stalls and resets.
THEOREM Invariant == Spec => []EpInv
BY InitEpInv, NextEpInv, PTL DEF Spec

\* Endpoint 0's state has its type: the stack's and the SIE's, descriptor by
\* descriptor (usb_device.c), and the host's.
THEOREM TypeCorrect == Spec => []TypeOK
<1>1. EpInv => TypeOK
  BY DEF EpInv
<1>2. QED
  BY <1>1, Invariant, PTL

\* Whenever packets are processed the descriptor that the SIE uses next is
\* armed, so that a SETUP is never missed (usb_device.c:1444-1455).
THEOREM SetupPossible == Spec => []SetupAlwaysPossible
<1>1. EpInv => SetupAlwaysPossible
  BY DEF EpInv, OutPart, SetupWaits, SetupAlwaysPossible
<1>2. QED
  BY <1>1, Invariant, PTL

\* An empty queue: no transaction waits.
LEMMA NoneWaits ==
    ASSUME EpInv, dev.USTAT = <<>>
    PROVE  /\ ~InWaits(dev) /\ ~SetupWaits(dev)
           /\ StagePart /\ OutPart(dev, FALSE)
<1>1. PICK w \in BOOLEAN : QueuePart(dev, w) /\ OutPart(dev, w) /\ HostPart(w)
  BY DEF EpInv
<1>2. ~InWaits(dev) /\ ~SetupWaits(dev) /\ w = FALSE
  BY <1>1 DEF QueuePart, Entries
<1>3. QED
  BY <1>1, <1>2 DEF HostPart

\* After every transaction has been serviced the software's ping-pong
\* pointers are at the SIE's positions (usb_device.c:2383-2393).
THEOREM Pointers == Spec => []PointersInStep
<1>1. EpInv => PointersInStep
  <2>1. ASSUME EpInv, dev.USTAT = <<>>
        PROVE  /\ dev.entryIn = dev.inSie
               /\ phase # "idle" => dev.next = dev.outSie
    BY <2>1, NoneWaits DEF InWaits, StagePart
  <2>2. QED
    BY <2>1 DEF PointersInStep
<1>2. QED
  BY <1>1, Invariant, PTL

\* If the host does not abandon a SET_ADDRESS, the token it sends next finds
\* an armed descriptor once every transaction has been serviced
\* (usb_device.c:1690-1709).
THEOREM Answered ==
    ASSUME ~DropsAddress
    PROVE  Spec => []AlwaysAnswered
<1>1. EpInv => AlwaysAnswered
  <2> SUFFICES ASSUME EpInv, dev.USTAT = <<>>, phase # "idle"
               PROVE  InToken \/ OutToken
    BY DEF AlwaysAnswered
  <2>1. ~InWaits(dev) /\ ~SetupWaits(dev) /\ StagePart /\ OutPart(dev, FALSE)
    BY NoneWaits
  <2>2. address = dev.U1ADDR
    BY <2>1 DEF EpInv, AddressPart
  <2>3. Answers
    BY <2>1, <2>2 DEF Answers, SetupWaits, USTAT_DEPTH
  <2>4. phase \in {"dataIn", "dataOut", "statusIn", "statusOut"}
    BY DEF EpInv, TypeOK
  <2>5. CASE phase \in {"dataIn", "statusIn"}
    <3>1. This.uown
      BY <2>1, <2>5 DEF StagePart, ReadPart
    <3>2. QED
      BY <2>3, <2>5, <3>1 DEF InToken, This
  <2>6. CASE phase \in {"dataOut", "statusOut"}
    BY <2>1, <2>3, <2>6 DEF OutToken, OutPart
  <2>7. QED
    BY <2>4, <2>5, <2>6
<1>2. QED
  BY <1>1, Invariant, PTL
-----------------------------------------------------------------------------
(***************************************************************************)
(* Refinement: each step of endpoint 0 is one of ControlTransfer, or does  *)
(* not show there.                                                         *)
(***************************************************************************)
Due == {address} \ {dev.U1ADDR}

LEMMA ServicedMaps ==
    ASSUME EpInv, ~DropsAddress, Serviced
    PROVE  [Transfer!Next]_(Transfer!vars)
<1>1. /\ phase' = phase /\ req' = req /\ got' = got /\ address' = address
  BY DEF Serviced, host
<1>2. CASE dev'.U1ADDR = dev.U1ADDR /\ dev'.config = dev.config
  BY <1>1, <1>2 DEF Transfer!vars
<1>3. CASE /\ dev.USBDeviceState = "ADR_PENDING" /\ InWaits(dev)
           /\ dev'.U1ADDR = req.value /\ dev'.config = dev.config
  <2>1. address = req.value
    BY <1>3 DEF EpInv, AddressPart
  <2>2. CASE address = dev.U1ADDR
    BY <1>1, <1>3, <2>1, <2>2 DEF Transfer!vars
  <2>3. CASE address # dev.U1ADDR
    <3>1. Due = {dev'.U1ADDR} /\ Due' = {}
      BY <1>1, <1>3, <2>1, <2>3 DEF Due
    <3>2. Transfer!TakeAddress
      BY <1>1, <1>3, <3>1 DEF Due, Transfer!TakeAddress
    <3>3. QED
      BY <3>2 DEF Transfer!Next
  <2>4. QED
    BY <2>2, <2>3
<1>4. CASE /\ phase = "statusIn" /\ req.kind = "config"
           /\ dev'.U1ADDR = dev.U1ADDR /\ dev'.config = req.value
  <2>1. Transfer!Configure
    BY <1>1, <1>4 DEF Transfer!Configure
  <2>2. QED
    BY <2>1 DEF Transfer!Next
<1>5. QED
  BY <1>2, <1>3, <1>4 DEF Serviced

LEMMA SetupMaps ==
    ASSUME EpInv, HostSetup
    PROVE  /\ [Transfer!Next]_(Transfer!vars)
           /\ dev'.U1ADDR = dev.U1ADDR
<1>1. PICK r \in Requests :
         /\ Answers
         /\ dev' = [CompleteOut(dev, TRUE) EXCEPT !.PKTDIS = TRUE, !.SetupPkt = r]
         /\ req' = r /\ phase' = Transfer!FirstStage(r)
         /\ got' = <<>> /\ address' = address
  BY DEF HostSetup
<1>2. dev \in DevType /\ address = dev.U1ADDR
  BY <1>1 DEF EpInv, TypeOK, Answers
<1>3. dev'.U1ADDR = dev.U1ADDR /\ dev'.config = dev.config
  <2> DEFINE c == CompleteOut(dev, TRUE)
  <2>1. c \in DevType /\ c.U1ADDR = dev.U1ADDR /\ c.config = dev.config
    BY <1>2, CompleteOutFacts
  <2> HIDE DEF c
  <2>2. dev' = [c EXCEPT !.PKTDIS = TRUE, !.SetupPkt = r]
    BY <1>1 DEF c
  <2>3. QED
    BY <2>1, <2>2 DEF DevType
<1>4. Due = {} /\ Due' = {}
  BY <1>1, <1>2, <1>3 DEF Due
<1>5. Transfer!Setup(r)
  BY <1>1, <1>3, <1>4 DEF Due, Transfer!Setup
<1>6. QED
  BY <1>3, <1>5 DEF Transfer!Next

\* The packet that is armed is the next one of the transfer.
LEMMA NextPacket ==
    ASSUME EpInv, ReadPart, ~InWaits(dev), toggle = This.dts
    PROVE  /\ Len(got) = dev.CtrlTrfData
           /\ This.cnt = Transfer!Min({EP0_SIZE, req.avail - Len(got),
                                       req.wLength - Len(got)})
<1> DEFINE left == {EP0_SIZE, req.avail - Len(got), req.wLength - Len(got)}
           total == Min({req.avail, req.wLength})
<1>1. dev \in DevType /\ req \in Requests /\ got \in Seq(Nat)
  BY DEF EpInv, TypeOK
<1>2. /\ This.cnt \in 0..EP0_SIZE /\ EP0_SIZE \in Nat /\ dev.CtrlTrfData \in Nat
      /\ dev.pSrc \in Nat /\ dev.wCount \in Nat
      /\ req.avail \in Nat /\ req.wLength \in Nat
  BY <1>1, ThisFields, ControlAssumption
<1>3. /\ dev.pSrc + dev.wCount = total
      /\ dev.CtrlTrfData + This.cnt = dev.pSrc
      /\ Len(got) = dev.CtrlTrfData
      /\ \/ This.cnt = EP0_SIZE
         \/ This.cnt < EP0_SIZE /\ dev.wCount = 0
  BY DEF ReadPart
<1>4. total \in {req.avail, req.wLength} /\ total <= req.avail /\ total <= req.wLength
  BY <1>2, MinFacts
<1> HIDE DEF total
<1>5. This.cnt \in left /\ \A x \in left : This.cnt <= x
  <2>1. \A x \in left : This.cnt <= x
    BY <1>2, <1>3, <1>4, SMTT(40)
  <2>2. CASE This.cnt = EP0_SIZE
    BY <2>1, <2>2
  <2>3. CASE This.cnt # EP0_SIZE
    <3>1. This.cnt = total - Len(got)
      BY <1>2, <1>3, <2>3
    <3>2. QED
      BY <1>4, <2>1, <3>1
  <2>4. QED
    BY <2>2, <2>3
<1>6. \A x, y \in left : x <= y /\ y <= x => x = y
  BY <1>2, <1>3
<1> HIDE DEF left
<1>7. This.cnt = Transfer!Min(left)
  <2>1. /\ Transfer!Min(left) \in left
        /\ \A x \in left : Transfer!Min(left) <= x
    BY <1>5 DEF Transfer!Min
  <2>2. QED
    BY <1>5, <1>6, <2>1
<1>8. QED
  BY <1>3, <1>7 DEF left

LEMMA TakeMaps ==
    ASSUME EpInv, InToken, ~This.stall, Take(This),
           dev'.U1ADDR = dev.U1ADDR, dev'.config = dev.config
    PROVE  [Transfer!Next]_(Transfer!vars)
<1>1. ~InWaits(dev) /\ StagePart /\ phase \in {"dataIn", "statusIn"}
  BY InTokenFacts
<1>2. req' = req /\ Known
  BY TakeFacts
<1>3. address = dev.U1ADDR
  BY DEF InToken, Answers
<1>4. CASE This.dts # toggle
  <2>1. UNCHANGED host
    BY <1>4 DEF Take
  <2>2. QED
    BY <2>1 DEF host, Transfer!vars
<1>5. CASE This.dts = toggle /\ phase = "dataIn"
  <2>1. ReadPart /\ address' = address
    BY <1>5, TakeFacts
  <2>2. /\ got' = got \o Transfer!Positions(dev.CtrlTrfData, This.cnt)
        /\ phase' = Transfer!StageAfter(req, This.cnt, Len(got'))
    BY <1>5 DEF Take
  <2>3. /\ Len(got) = dev.CtrlTrfData
        /\ This.cnt = Transfer!Min({EP0_SIZE, req.avail - Len(got),
                                    req.wLength - Len(got)})
    BY <1>1, <1>5, <2>1, NextPacket
  <2>4. Due' = Due
    BY <2>1 DEF Due
  <2>5. Transfer!Data
    BY <1>2, <1>5, <2>2, <2>3, <2>4 DEF Due, Known, Transfer!Data
  <2>6. QED
    BY <2>5 DEF Transfer!Next
<1>6. CASE This.dts = toggle /\ phase = "statusIn"
  <2>1. /\ phase' = "idle" /\ got' = <<>>
        /\ address' = IF req.kind = "address" THEN req.value ELSE address
    BY <1>6, TakeFacts
  <2>2. got = <<>> /\ (req.kind = "config" => dev.config = req.value)
    BY <1>1, <1>6 DEF StagePart
  <2>3. Due' = IF req.kind = "address" THEN {req.value} \ {dev.U1ADDR} ELSE {}
    BY <1>3, <2>1 DEF Due
  <2>4. Transfer!Status
    BY <1>2, <1>6, <2>1, <2>2, <2>3 DEF Due, Known, Transfer!Status
  <2>5. QED
    BY <2>4 DEF Transfer!Next
<1>7. QED
  BY <1>1, <1>4, <1>5, <1>6

LEMMA InMaps ==
    ASSUME EpInv, HostIn \/ HostInLost
    PROVE  /\ [Transfer!Next]_(Transfer!vars)
           /\ dev'.U1ADDR = dev.U1ADDR
<1>1. dev \in DevType
  BY DEF EpInv, TypeOK
<1>2. /\ InToken /\ ~This.stall /\ Take(This)
      /\ dev' = dev \/ dev' = CompleteIn(dev)
  BY DEF HostIn, HostInLost, This
<1>3. dev'.U1ADDR = dev.U1ADDR /\ dev'.config = dev.config
  BY <1>1, <1>2, CompleteInFacts
<1>4. QED
  BY <1>2, <1>3, TakeMaps

LEMMA OutMaps ==
    ASSUME EpInv, HostOut
    PROVE  /\ [Transfer!Next]_(Transfer!vars)
           /\ dev'.U1ADDR = dev.U1ADDR
<1>1. dev \in DevType /\ req \in Requests
  BY DEF EpInv, TypeOK
<1>2. /\ OutToken /\ ForStatus
      /\ dev' = CompleteOut(dev, FALSE) /\ phase' = "idle"
      /\ req' = req /\ got' = got /\ address' = address
  BY DEF HostOut, ForStatus
<1>3. dev'.U1ADDR = dev.U1ADDR /\ dev'.config = dev.config
  BY <1>1, <1>2, CompleteOutFacts
<1>4. phase = "statusOut" /\ Known /\ req.in
  BY <1>2, OutTokenFacts DEF StagePart
<1>5. req.kind \notin {"address", "config"}
  BY <1>1, <1>4, ControlAssumption
<1>6. Due' = {}
  BY <1>2, <1>3 DEF Due, OutToken, Answers
<1>7. Transfer!Status
  BY <1>2, <1>3, <1>4, <1>5, <1>6 DEF Due, Known, Transfer!Status
<1>8. QED
  BY <1>3, <1>7 DEF Transfer!Next

LEMMA StalledMaps ==
    ASSUME EpInv, HostStalled
    PROVE  /\ [Transfer!Next]_(Transfer!vars)
           /\ dev'.U1ADDR = dev.U1ADDR
<1>1. dev \in DevType
  BY DEF EpInv, TypeOK
<1>2. /\ phase # "idle"
      /\ dev' = [dev EXCEPT !.STALLIF = TRUE] /\ phase' = "idle"
      /\ req' = req /\ got' = got /\ address' = address
  BY DEF HostStalled, InToken, OutToken
<1>3. dev'.U1ADDR = dev.U1ADDR /\ dev'.config = dev.config
  BY <1>1, <1>2 DEF DevType
<1>4. ~Known
  BY HostStalledStep
<1>5. Transfer!Stall
  BY <1>2, <1>3, <1>4 DEF Known, Transfer!Stall
<1>6. QED
  BY <1>3, <1>5 DEF Transfer!Next

LEMMA EndsEarlyMaps ==
    ASSUME HostEndsEarly
    PROVE  /\ [Transfer!Next]_(Transfer!vars)
           /\ dev'.U1ADDR = dev.U1ADDR
<1>1. Transfer!EndEarly
  BY DEF HostEndsEarly, Transfer!EndEarly
<1>2. QED
  BY <1>1 DEF HostEndsEarly, Transfer!Next

LEMMA ResetMaps ==
    ASSUME EpInv, BusReset
    PROVE  /\ [Transfer!Next]_(Transfer!vars)
           /\ dev'.U1ADDR = address'
<1>1. PICK w \in BOOLEAN : QueuePart(dev, w) /\ OutPart(dev, w) /\ HostPart(w)
  BY DEF EpInv
<1>2. dev \in DevType /\ (dev.bothSet <=> Sending(dev))
  BY <1>1 DEF EpInv, TypeOK, OutPart
<1>3. /\ dev' = USBDeviceInit(dev)
      /\ phase' = "idle" /\ req' = req /\ got' = <<>> /\ address' = 0
  BY DEF BusReset
<1>4. dev'.U1ADDR = 0 /\ dev'.config = 0
  BY <1>2, <1>3, ResetFacts
<1>5. Due' = {}
  BY <1>3, <1>4 DEF Due
<1>6. Transfer!Reset
  BY <1>3, <1>4, <1>5 DEF Due, Transfer!Reset
<1>7. QED
  BY <1>3, <1>4, <1>6 DEF Transfer!Next

LEMMA InitMaps == Init => Transfer!Init
<1> SUFFICES ASSUME Init
             PROVE  Transfer!Init
  OBVIOUS
<1>1. EpInv
  BY InitEpInv
<1>2. dev.U1ADDR = 0 /\ dev.config = 0
  BY DEF Init, USBDeviceInit, PowerUp
<1>3. req \in Requests
  BY <1>1 DEF EpInv, TypeOK
<1>4. QED
  BY <1>2, <1>3 DEF Init, Transfer!Init

LEMMA NextMaps ==
    ASSUME ~DropsAddress, EpInv, [Next]_vars
    PROVE  [Transfer!Next]_(Transfer!vars)
<1>1. CASE ServiceTransaction \/ ServiceStall \/ ServiceSOF
  <2>1. Serviced
    BY <1>1, ServiceTransactionStep, ServiceStallStep, ServiceSOFStep
  <2>2. QED
    BY <2>1, ServicedMaps
<1>2. CASE HostSetup
  BY <1>2, SetupMaps
<1>3. CASE HostIn \/ HostInLost
  BY <1>3, InMaps
<1>4. CASE HostOut
  BY <1>4, OutMaps
<1>5. CASE HostStalled
  BY <1>5, StalledMaps
<1>6. CASE HostEndsEarly
  BY <1>6, EndsEarlyMaps
<1>7. CASE BusReset
  BY <1>7, ResetMaps
<1>8. CASE UNCHANGED vars
  BY <1>8 DEF vars, host, Transfer!vars
<1>9. QED
  BY <1>1, <1>2, <1>3, <1>4, <1>5, <1>6, <1>7, <1>8 DEF Next

\* If the host does not abandon a SET_ADDRESS, endpoint 0 implements the
\* control transfers that ControlTransfer specifies: each byte of a read once
\* and in order, stalls only for unknown requests, the address taken after
\* the status stage and the configuration before it (usb_device.c:1444-2637).
THEOREM EndpointIsTransfer ==
    ASSUME ~DropsAddress
    PROVE  Spec => TransferSpec
<1>1. EpInv /\ [Next]_vars => [Transfer!Next]_(Transfer!vars)
  BY NextMaps
<1>2. QED
  BY <1>1, InitMaps, Invariant, PTL DEF Spec, TransferSpec, Transfer!Spec

\* If the host does not abandon a SET_ADDRESS, the device only ever changes to
\* the address that the host uses (usb_device.c:2586-2614).
THEOREM AddressTaken ==
    ASSUME ~DropsAddress
    PROVE  Spec => AddressAgreed
<1> DEFINE Agreed == dev'.U1ADDR # dev.U1ADDR => dev'.U1ADDR = address'
<1>1. EpInv /\ [Next]_vars => [Agreed]_vars
  <2> SUFFICES ASSUME EpInv, Next
               PROVE  Agreed
    OBVIOUS
  <2>1. CASE ServiceTransaction \/ ServiceStall \/ ServiceSOF
    <3>1. Serviced
      BY <2>1, ServiceTransactionStep, ServiceStallStep, ServiceSOFStep
    <3>2. QED
      BY <3>1 DEF Serviced, host, EpInv, AddressPart
  <2>2. QED
    BY <2>1, SetupMaps, InMaps, OutMaps, StalledMaps, EndsEarlyMaps, ResetMaps
       DEF Next
<1>2. QED
  BY <1>1, Invariant, PTL DEF Spec, AddressAgreed
=============================================================================
