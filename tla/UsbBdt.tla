------------------------------- MODULE UsbBdt -------------------------------
(***************************************************************************)
(* One direction of a bulk endpoint in full ping-pong mode: its two buffer *)
(* descriptors (even 0, odd 1), the software's pointer to the one it arms  *)
(* next (pBDTEntryIn/Out[ep]) and the hardware's ping-pong state.  The     *)
(* operators are the functions of usb_device.c that work on it.            *)
(*                                                                         *)
(* A USB_HANDLE is a pointer to a descriptor: its index here, or NULL.     *)
(* Of STAT the model keeps UOWN, DTS and BSTALL; DTSEN is always set.      *)
(***************************************************************************)
EXTENDS Integers

NULL == -1

Descriptors(Size, Bufs) ==
    [uown : BOOLEAN, dts : {0, 1}, stall : BOOLEAN, cnt : 0..Size, buf : Bufs]

Endpoints(Size, Bufs) ==
    [bd : [{0, 1} -> Descriptors(Size, Bufs)],
     next : {0, 1, NULL},  \* pBDTEntryIn[ep] or pBDTEntryOut[ep]
     sie : {0, 1},         \* the descriptor of the SIE's next transaction
     enabled : BOOLEAN]    \* UEPn

Idle(dts) ==
    [uown |-> FALSE, dts |-> dts, stall |-> FALSE, cnt |-> 0, buf |-> 0]

\* After a bus reset: the table is cleared, the pointers are null, the UEP
\* registers are cleared and the ping-pong state is even.
USBDeviceInit ==
    [bd |-> [i \in {0, 1} |-> Idle(0)], next |-> NULL, sie |-> 0,
     enabled |-> FALSE]

\* Fault: both descriptors expect DATA0.
USBEnableEndpoint_SameToggle ==
    [bd |-> [i \in {0, 1} |-> Idle(0)], next |-> 0, sie |-> 0,
     enabled |-> TRUE]

\* SET_CONFIGURATION clears the table and the ping-pong state again, and the
\* application enables the endpoint: even expects DATA0, odd DATA1.
USBEnableEndpoint ==
    [bd |-> [i \in {0, 1} |-> Idle(i)], next |-> 0, sie |-> 0,
     enabled |-> TRUE]

\* Fault: both packets into the same descriptor.
USBTransferOnePacket_NoAdvance(ep, data, len) ==
    IF ep.next = NULL
    THEN ep
    ELSE [ep EXCEPT
             !.bd[ep.next] = [@ EXCEPT !.buf = data, !.cnt = len,
                                       !.stall = FALSE, !.uown = TRUE]]

\* Arm the next descriptor and advance.  Without a pointer nothing happens.
USBTransferOnePacket(ep, data, len) ==
    IF ep.next = NULL
    THEN ep
    ELSE [ep EXCEPT
             !.bd[ep.next] = [@ EXCEPT !.buf = data, !.cnt = len,
                                       !.stall = FALSE, !.uown = TRUE],
             !.next = 1 - @]

\* The handle that USBTransferOnePacket returns.
TransferHandle(ep) == ep.next

USBHandleBusy(ep, handle) == handle # NULL /\ ep.bd[handle].uown

USBHandleGetLength(ep, handle) == ep.bd[handle].cnt

\* The SIE completes a transaction of len bytes on its descriptor.
SieReady(ep) == ep.enabled /\ ep.bd[ep.sie].uown /\ ~ep.bd[ep.sie].stall
SieComplete(ep, len) ==
    [ep EXCEPT !.bd[ep.sie] = [@ EXCEPT !.uown = FALSE, !.cnt = len],
               !.sie = 1 - @]
=============================================================================
