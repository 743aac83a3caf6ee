---------------------------- MODULE EndpointHalt ----------------------------
(***************************************************************************)
(* The bulk endpoints (EP2 OUT, EP1 IN) on a link that loses handshakes,   *)
(* with SET_FEATURE and CLEAR_FEATURE(ENDPOINT_HALT) at any time.          *)
(*                                                                         *)
(* The packets of a direction are numbered.  Of Main_Task_Blaster the      *)
(* module has what it does with the descriptors: one OUT descriptor is     *)
(* armed while the packet of the other is processed, and one IN packet is  *)
(* under way.  USBTransferOnePacket is there statement by statement: the   *)
(* interrupt, which handles the halt requests, and the SIE may come        *)
(* between any two.  Completed transactions and SETUP packets wait in the  *)
(* hardware's FIFO for the interrupt; a SETUP holds up all others          *)
(* (PKTDIS) until it is serviced.  The descriptors are those of UsbBdt.    *)
(***************************************************************************)
EXTENDS UsbBdt, Sequences, FiniteSets

CONSTANTS Directions,  \* the endpoints in use: "out" for EP2, "in" for EP1
          MaxPackets,  \* bound: OUT packets of the host
          MaxReplies,  \* bound: IN packets of the main loop
          MaxLost,     \* bound: handshakes that are lost
          MaxRequests  \* bound: SET_FEATURE and CLEAR_FEATURE requests

ASSUME HaltAssumption ==
    /\ Directions \subseteq {"out", "in"} /\ Directions # {}
    /\ MaxPackets \in Nat /\ MaxReplies \in Nat /\ MaxLost \in Nat /\ MaxRequests \in Nat

VARIABLES
    ep,             \* per direction: descriptors, pointer, SIE (UsbBdt)
    ep_data,        \* ep_data_in[1], ep_data_out[2]
    USTAT, PKTDIS,  \* the SIE's transaction FIFO and its packet disable bit
    handle,         \* the handle that the main loop polls
    Rx_State,       \* the receive buffer of that OUT handle, or INIT
    USB_OutPacket,  \* per buffer: its packet, 0 if nothing new is in it
    working,        \* the main loop processes a packet (RxSize > 0)
    received,       \* the OUT packets that the main loop took, in order
    written,        \* IN packets written; the last is in USB_InPacket
    pc,             \* the main loop's statement
    dir, entry,     \* USBTransferOnePacket: the endpoint; its local handle
    torn,           \* per direction: a request came between its statements
    got,            \* the IN packets that the host received, in order
    toggle,         \* per direction: the host's data toggle
    number,         \* the host's current OUT packet
    tried,          \* it was sent, but its handshake was lost
    abandoned,      \* OUT packets that the host gave up
    halted,         \* per direction: the host saw a STALL
    lost, requests  \* bounds

device == <<ep, ep_data, USTAT, PKTDIS>>
main == <<handle, Rx_State, working, received, written>>
call == <<pc, dir, entry>>
host == <<got, toggle, number, tried, abandoned, halted>>
bounds == <<lost, requests>>
vars == <<device, main, call, torn, USB_OutPacket, host, bounds>>

INIT == 2  \* RX_INIT

USTAT_DEPTH == 4
\* Entries of the FIFO: a transaction of an endpoint, or a SETUP packet.
Transactions == {"DATA"} \X Directions
Requests == {"SET_FEATURE", "CLEAR_FEATURE"} \X Directions
Both(v) == [d \in {"out", "in"} |-> v]
-----------------------------------------------------------------------------
(***************************************************************************)
(* USBStdFeatureReqHandler for ENDPOINT_HALT, on an endpoint e with its    *)
(* status f.  The active descriptor is the one that the SIE uses next,     *)
(* according to the software's copy of the ping-pong state.                *)
(***************************************************************************)
SetHalt(e, f) ==
    LET p == f.ping_pong_state
    IN  [e EXCEPT !.next = p,
                  !.bd[p] = [@ EXCEPT !.stall = TRUE, !.uown = TRUE]]

TerminatedBySet(e, f) ==
    f.transfer_terminated \/ e.bd[f.ping_pong_state].uown

\* Fault: the toggle of the other descriptor is left as it is.
ClearHalt_OneToggle(e, f) ==
    LET p == f.ping_pong_state
    IN  [e EXCEPT !.next = p,
                  !.bd[1 - p] = [@ EXCEPT !.uown = FALSE],
                  !.bd[p] = [@ EXCEPT !.uown = FALSE, !.stall = FALSE, !.dts = 0]]

\* Fault: the software's pointer is left as it is.
ClearHalt_KeepsPointer(e, f) ==
    LET p == f.ping_pong_state
    IN  [e EXCEPT !.bd[1 - p] = [@ EXCEPT !.uown = FALSE, !.dts = 1],
                  !.bd[p] = [@ EXCEPT !.uown = FALSE, !.stall = FALSE, !.dts = 0]]

\* Both descriptors are taken back; the active one expects DATA0.
ClearHalt(e, f) ==
    LET p == f.ping_pong_state
    IN  [e EXCEPT !.next = p,
                  !.bd[1 - p] = [@ EXCEPT !.uown = FALSE, !.dts = 1],
                  !.bd[p] = [@ EXCEPT !.uown = FALSE, !.stall = FALSE, !.dts = 0]]

FeatureRequest(r) ==
    LET d == r[2]
        e == ep[d]
        f == ep_data[d]
    IN  \/ /\ r[1] = "SET_FEATURE"
           /\ ep' = [ep EXCEPT ![d] = SetHalt(e, f)]
           /\ ep_data' = [ep_data EXCEPT ![d].transfer_terminated =
                                                     TerminatedBySet(e, f)]
        \/ /\ r[1] = "CLEAR_FEATURE"
           /\ ep' = [ep EXCEPT ![d] = ClearHalt(e, f)]
           /\ ep_data' = [ep_data EXCEPT ![d].transfer_terminated = FALSE]

\* Fault: the copy of the ping-pong state is not kept.
TransactionComplete_KeepsState(d) == UNCHANGED <<ep, ep_data>>

TransactionComplete(d) ==
    /\ ep_data' = [ep_data EXCEPT ![d].ping_pong_state = 1 - @]
    /\ UNCHANGED ep
-----------------------------------------------------------------------------
(***************************************************************************)
(* The interrupt: the oldest entry of the FIFO.                            *)
(***************************************************************************)
ServiceTransaction ==
    /\ USTAT # <<>> /\ Head(USTAT) \in Transactions
    /\ USTAT' = Tail(USTAT)
    /\ TransactionComplete(Head(USTAT)[2])
    /\ UNCHANGED <<PKTDIS, main, call, torn, USB_OutPacket, host, bounds>>

\* A transfer on d is under way, from the copying of the pointer on.
Calling(d) == pc \in {"fill", "own", "advance", "return"} /\ dir = d

\* Ghost: a request between the setting of UOWN and the advance of the pointer
\* makes a transfer torn; CLEAR_FEATURE outside of a transfer mends it.
Tear(r) ==
    torn' = [torn EXCEPT ![r[2]] =
                IF Calling(r[2]) THEN @ \/ pc = "advance"
                                 ELSE @ /\ r[1] = "SET_FEATURE"]

\* The request and its status stage.  After CLEAR_FEATURE the host starts
\* again with DATA0, and with a new packet if it does not know what became of
\* the last one.
ServiceSetup ==
    /\ USTAT # <<>> /\ Head(USTAT) \in Requests
    /\ USTAT' = Tail(USTAT) /\ PKTDIS' = FALSE
    /\ LET r == Head(USTAT)
       IN  /\ FeatureRequest(r) /\ Tear(r)
           /\ IF r[1] = "SET_FEATURE"
              THEN UNCHANGED <<toggle, halted, number, tried, abandoned>>
              ELSE /\ toggle' = [toggle EXCEPT ![r[2]] = 0]
                   /\ halted' = [halted EXCEPT ![r[2]] = FALSE]
                   /\ IF r[2] = "out" /\ tried
                      THEN /\ number' = number + 1 /\ tried' = FALSE
                           /\ abandoned' = abandoned \cup {number}
                      ELSE UNCHANGED <<number, tried, abandoned>>
    /\ UNCHANGED <<main, call, USB_OutPacket, got, bounds>>

Interrupt == ServiceTransaction \/ ServiceSetup
-----------------------------------------------------------------------------
(***************************************************************************)
(* The main loop.                                                          *)
(***************************************************************************)
Call(d) == pc' = "fetch" /\ dir' = d /\ UNCHANGED entry

\* RX_INIT: the first buffer is armed.
MainInit ==
    /\ "out" \in Directions
    /\ pc = "loop" /\ Rx_State = INIT
    /\ Rx_State' = 0
    /\ Call("out")
    /\ UNCHANGED <<device, handle, working, received, written, torn,
                   USB_OutPacket, host, bounds>>

\* A completed OUT descriptor is taken and the other buffer armed.
MainRx ==
    /\ "out" \in Directions
    /\ pc = "loop" /\ Rx_State # INIT
    /\ ~working /\ ~USBHandleBusy(ep["out"], handle["out"])
    /\ received' = Append(received, USB_OutPacket[Rx_State])
    /\ USB_OutPacket' = [USB_OutPacket EXCEPT ![Rx_State] = 0]
    /\ Rx_State' = 1 - Rx_State
    /\ working' = TRUE
    /\ Call("out")
    /\ UNCHANGED <<device, handle, written, torn, host, bounds>>

MainDone ==
    /\ pc = "loop" /\ working /\ working' = FALSE
    /\ UNCHANGED <<device, handle, Rx_State, received, written, call, torn,
                   USB_OutPacket, host, bounds>>

\* Fault: the packet under way is not waited for.
InFree_Unchecked == TRUE

InFree == ~USBHandleBusy(ep["in"], handle["in"])

MainTx ==
    /\ "in" \in Directions
    /\ pc = "loop" /\ InFree
    /\ written < MaxReplies /\ written' = written + 1
    /\ Call("in")
    /\ UNCHANGED <<device, handle, Rx_State, working, received, torn,
                   USB_OutPacket, host, bounds>>

(***************************************************************************)
(* USBTransferOnePacket.                                                   *)
(***************************************************************************)
\* The pointer is copied.  It is not NULL: the device stays configured.
Fetch ==
    /\ pc = "fetch" /\ pc' = "fill"
    /\ entry' = ep[dir].next
    /\ UNCHANGED <<device, main, dir, torn, USB_OutPacket, host, bounds>>

\* ADR and CNT, then STAT, of which DTS is kept.
Fill ==
    /\ pc = "fill" /\ pc' = "own"
    /\ ep' = [ep EXCEPT ![dir].bd[entry] =
                 [@ EXCEPT !.buf = IF dir = "out" THEN Rx_State ELSE 0,
                           !.cnt = 1, !.stall = FALSE, !.uown = FALSE]]
    /\ UNCHANGED <<ep_data, USTAT, PKTDIS, main, dir, entry, torn,
                   USB_OutPacket, host, bounds>>

Own ==
    /\ pc = "own" /\ pc' = "advance"
    /\ ep' = [ep EXCEPT ![dir].bd[entry].uown = TRUE]
    /\ UNCHANGED <<ep_data, USTAT, PKTDIS, main, dir, entry, torn,
                   USB_OutPacket, host, bounds>>

\* Fault: the pointer is incremented instead of toggled.
Advance_NoWrap ==
    /\ pc = "advance" /\ pc' = "return"
    /\ ep' = [ep EXCEPT ![dir].next = @ + 1]
    /\ UNCHANGED <<ep_data, USTAT, PKTDIS, main, dir, entry, torn,
                   USB_OutPacket, host, bounds>>

\* The pointer itself is toggled, not its copy.
Advance ==
    /\ pc = "advance" /\ pc' = "return"
    /\ ep' = [ep EXCEPT ![dir].next = 1 - @]
    /\ UNCHANGED <<ep_data, USTAT, PKTDIS, main, dir, entry, torn,
                   USB_OutPacket, host, bounds>>

\* The caller stores the handle.
Return ==
    /\ pc = "return" /\ pc' = "loop"
    /\ handle' = [handle EXCEPT ![dir] = entry]
    /\ dir' = "out" /\ entry' = NULL
    /\ UNCHANGED <<device, Rx_State, working, received, written, torn,
                   USB_OutPacket, host, bounds>>

MainLoop ==
    \/ MainInit \/ MainRx \/ MainDone \/ MainTx
    \/ Fetch \/ Fill \/ Own \/ Advance \/ Return
-----------------------------------------------------------------------------
(***************************************************************************)
(* The host and the SIE.                                                   *)
(***************************************************************************)
Answers(d) ==
    /\ d \in Directions
    /\ ~PKTDIS /\ ~halted[d] /\ Len(USTAT) < USTAT_DEPTH
    /\ d = "out" => number <= MaxPackets

Active(d) == ep[d].bd[ep[d].sie]

\* The SIE completes a transaction.
Complete(d) ==
    /\ ep' = [ep EXCEPT ![d] = SieComplete(@, 1)]
    /\ USTAT' = Append(USTAT, <<"DATA", d>>)

\* A packet with the expected toggle is stored, another one is dropped; both
\* are acknowledged.  The acknowledgement may get lost.
HostOut ==
    /\ Answers("out") /\ SieReady(ep["out"])
    /\ IF Active("out").dts = toggle["out"]
       THEN /\ Complete("out")
            /\ USB_OutPacket' = [USB_OutPacket EXCEPT ![Active("out").buf] = number]
       ELSE UNCHANGED <<ep, USTAT, USB_OutPacket>>
    /\ \/ /\ toggle' = [toggle EXCEPT !["out"] = 1 - @]
          /\ number' = number + 1 /\ tried' = FALSE
          /\ UNCHANGED lost
       \/ /\ lost < MaxLost /\ lost' = lost + 1
          /\ tried' = TRUE
          /\ UNCHANGED <<toggle, number>>
    /\ UNCHANGED <<ep_data, PKTDIS, main, call, torn, got, abandoned, halted,
                   requests>>

\* The host takes a packet with the toggle that it expects; another one is a
\* repetition.  Without its acknowledgement the SIE keeps the packet.
HostIn ==
    /\ Answers("in") /\ SieReady(ep["in"])
    /\ IF Active("in").dts = toggle["in"]
       THEN /\ got' = Append(got, written)
            /\ toggle' = [toggle EXCEPT !["in"] = 1 - @]
       ELSE UNCHANGED <<got, toggle>>
    /\ \/ /\ Complete("in")
          /\ UNCHANGED lost
       \/ /\ lost < MaxLost /\ lost' = lost + 1
          /\ UNCHANGED <<ep, USTAT>>
    /\ UNCHANGED <<ep_data, PKTDIS, main, call, torn, USB_OutPacket, number,
                   tried, abandoned, halted, requests>>

\* A STALL ends the host's transfer.
HostStalled(d) ==
    /\ Answers(d) /\ Active(d).uown /\ Active(d).stall
    /\ halted' = [halted EXCEPT ![d] = TRUE]
    /\ UNCHANGED <<device, main, call, torn, USB_OutPacket, got, toggle, number,
                   tried, abandoned, bounds>>

HostTransfer(d) ==
    \/ d = "out" /\ HostOut
    \/ d = "in" /\ HostIn
    \/ HostStalled(d)

HostSetup(r) ==
    /\ ~PKTDIS /\ Len(USTAT) < USTAT_DEPTH
    /\ requests < MaxRequests /\ requests' = requests + 1
    /\ PKTDIS' = TRUE /\ USTAT' = Append(USTAT, r)
    /\ UNCHANGED <<ep, ep_data, main, call, torn, USB_OutPacket, host, lost>>
-----------------------------------------------------------------------------
\* Configured (USB_Ept_Init).
Init ==
    /\ ep = Both(USBEnableEndpoint)
    /\ ep_data = Both([ping_pong_state |-> 0, transfer_terminated |-> FALSE])
    /\ USTAT = <<>> /\ PKTDIS = FALSE
    /\ handle = Both(NULL) /\ pc = "loop" /\ dir = "out" /\ entry = NULL
    /\ torn = Both(FALSE)
    /\ Rx_State = INIT /\ USB_OutPacket = [b \in {0, 1} |-> 0] /\ working = FALSE
    /\ received = <<>> /\ written = 0 /\ got = <<>>
    /\ toggle = Both(0) /\ number = 1 /\ tried = FALSE /\ abandoned = {}
    /\ halted = Both(FALSE)
    /\ lost = 0 /\ requests = 0

Next ==
    \/ Interrupt
    \/ MainLoop
    \/ \E d \in Directions : HostTransfer(d)
    \/ \E r \in Requests : HostSetup(r)

Spec == Init /\ [][Next]_vars

\* The interrupt, the main loop and the host's transfers go on; the bound on
\* lost handshakes lets one get through in the end.
FairSpec ==
    /\ Spec
    /\ WF_vars(Interrupt) /\ WF_vars(MainLoop)
    /\ \A d \in Directions : WF_vars(HostTransfer(d))
-----------------------------------------------------------------------------
TypeOK ==
    /\ ep \in [{"out", "in"} -> Endpoints(1, {0, 1})]
    /\ ep_data \in [{"out", "in"} -> [ping_pong_state : {0, 1},
                                      transfer_terminated : BOOLEAN]]
    /\ USTAT \in Seq(Transactions \cup Requests) /\ Len(USTAT) <= USTAT_DEPTH
    /\ PKTDIS \in BOOLEAN /\ working \in BOOLEAN /\ tried \in BOOLEAN
    /\ handle \in [{"out", "in"} -> {0, 1, NULL}] /\ Rx_State \in {0, 1, INIT}
    /\ pc \in {"loop", "fetch", "fill", "own", "advance", "return"}
    /\ dir \in {"out", "in"} /\ entry \in {0, 1, NULL}
    /\ torn \in [{"out", "in"} -> BOOLEAN]
    /\ USB_OutPacket \in [{0, 1} -> 0..MaxPackets]
    /\ received \in Seq(0..MaxPackets) /\ got \in Seq(1..MaxReplies)
    /\ written \in 0..MaxReplies /\ number \in 1..(MaxPackets + 1)
    /\ toggle \in [{"out", "in"} -> {0, 1}]
    /\ abandoned \subseteq 1..MaxPackets
    /\ halted \in [{"out", "in"} -> BOOLEAN]
    /\ lost \in 0..MaxLost /\ requests \in 0..MaxRequests

\* The packets of s are in order; 0 stands for none.
Increasing(s) ==
    \A i, j \in DOMAIN s : i < j /\ s[i] # 0 /\ s[j] # 0 => s[i] < s[j]
Taken == {received[i] : i \in DOMAIN received}

(***************************************************************************)
(* "The active BDT entry which the SIE will use for the next attempted     *)
(* transaction" (usb_device.c:2837-2857): between two transfers of an      *)
(* endpoint the software's pointer is on it if it is not armed, and it is  *)
(* the only one armed or stalled.  Otherwise the endpoint would be dead.   *)
(***************************************************************************)
LooksWhereSieLooks(d) ==
    Calling(d) \/ /\ ~ep[d].bd[1 - ep[d].sie].uown
                  /\ ep[d].bd[ep[d].sie].uown \/ ep[d].next = ep[d].sie
ActiveEntry == \A d \in Directions : LooksWhereSieLooks(d)

(***************************************************************************)
(* However requests, SETUP packets and lost handshakes interleave with the *)
(* main loop's transfers, only a request between the setting of UOWN and   *)
(* the advance of the pointer (usb_device.c:1033-1045) leads the software  *)
(* astray, and the next CLEAR_FEATURE outside of a transfer leads it back. *)
(***************************************************************************)
ArmedWhereSieLooks ==
    \A d \in {"out", "in"} : torn[d] \/ LooksWhereSieLooks(d)

(***************************************************************************)
(* Whatever handshakes are lost and whenever the endpoint is halted and    *)
(* cleared, no packet is taken twice or out of order, neither by the main  *)
(* loop nor by the host: the toggles that USBEnableEndpoint and            *)
(* CLEAR_FEATURE write (usb_device.c:1578-1583, 2898, 2928) are the ones   *)
(* that the host counts with.                                              *)
(***************************************************************************)
DeliveredOnce == Increasing(received) /\ Increasing(got)

(***************************************************************************)
(* No OUT packet that the host sent with success is lost: the main loop    *)
(* took it, or it waits in a buffer.  A wrong toggle would make the SIE    *)
(* acknowledge and drop it.                                                *)
(***************************************************************************)
NothingLost ==
    \A n \in 1..(number - 1) :
        n \in abandoned \cup Taken \cup {USB_OutPacket[0], USB_OutPacket[1]}

\* Without requests every reply packet but the last has arrived when the next
\* is written: the busy check (blaster.c:642) waits for the host's handshake.
RepliesKept == requests = 0 => Len(got) >= written - 1

\* The link comes to the point where every packet has got through, or the
\* host waits for a halt to be cleared, or an endpoint stays torn: a halted and
\* cleared endpoint works again but for that (usb_device.c:2885-2929).
GotThrough(d) ==
    IF d = "out" THEN number > MaxPackets /\ USB_OutPacket = [b \in {0, 1} |-> 0]
    ELSE written = MaxReplies /\ ~ep["in"].bd[ep["in"].sie].uown
LinkRecovers == \A d \in Directions : <>[](halted[d] \/ torn[d] \/ GotThrough(d))

(***************************************************************************)
(* "While bytes are received from the host on EP2OUT, each byte B of them  *)
(* is processed as follows" (main.c:18-20): the main loop processes what   *)
(* was received, and nothing else.                                         *)
(***************************************************************************)
NothingStale == 0 \notin Taken
=============================================================================
