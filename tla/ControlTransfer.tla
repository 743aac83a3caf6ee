--------------------------- MODULE ControlTransfer ---------------------------
(***************************************************************************)
(* Control transfers as the host sees them: a setup stage, a data stage    *)
(* from the device to the host if the request asks for one, and a status   *)
(* stage.  The host may start a new transfer at any time and abandon the   *)
(* running one.  There are no descriptors, buffers, data toggles or        *)
(* interrupts here.                                                        *)
(*                                                                         *)
(* A request is a record: kind, the direction in (device to host), the     *)
(* wLength of the host, how many bytes are available for it and, for an    *)
(* address, a configuration or a descriptor, the value asked for.          *)
(***************************************************************************)
EXTENDS Naturals, Sequences, FiniteSetsExt

CONSTANTS EP0_SIZE,  \* bytes of a packet
          Requests   \* the requests that the host makes

VARIABLES phase,     \* the stage that comes next, or "idle"
          req,       \* the last request
          got,       \* the positions of the data bytes that the host received
          addr,      \* the address that the device answers to
          due,       \* the addresses that it has agreed to take: one or none
          config     \* the active configuration

vars == <<phase, req, got, addr, due, config>>

\* The stage after the setup stage.
FirstStage(r) ==
    IF r.wLength > 0 THEN IF r.in THEN "dataIn" ELSE "dataOut" ELSE "statusIn"

\* The stage after a packet of n bytes that makes it total bytes.
StageAfter(r, n, total) ==
    IF n < EP0_SIZE \/ total = r.wLength THEN "statusOut" ELSE "dataIn"

Positions(from, n) == [i \in 1..n |-> from + i - 1]

Init ==
    /\ phase = "idle" /\ got = <<>> /\ req \in Requests
    /\ addr = 0 /\ due = {} /\ config = 0

Setup(r) ==
    /\ due = {}
    /\ phase' = FirstStage(r) /\ req' = r /\ got' = <<>>
    /\ UNCHANGED <<addr, due, config>>

\* The next packet: full, or what is left.
Data ==
    /\ phase = "dataIn" /\ req.kind # "unknown"
    /\ LET n == Min({EP0_SIZE, req.avail - Len(got), req.wLength - Len(got)})
       IN  /\ got' = got \o Positions(Len(got), n)
           /\ phase' = StageAfter(req, n, Len(got'))
    /\ UNCHANGED <<req, addr, due, config>>

\* The host does not want the rest of the data.
EndEarly ==
    /\ phase = "dataIn"
    /\ phase' = "statusOut"
    /\ UNCHANGED <<req, got, addr, due, config>>

Configure ==
    /\ phase = "statusIn" /\ req.kind = "config"
    /\ config' = req.value
    /\ UNCHANGED <<phase, req, got, addr, due>>

Status ==
    /\ phase \in {"statusIn", "statusOut"} /\ req.kind # "unknown"
    /\ req.kind = "config" => config = req.value
    /\ phase' = "idle"
    /\ due' = IF req.kind = "address" THEN {req.value} \ {addr} ELSE {}
    /\ UNCHANGED <<req, got, addr, config>>

TakeAddress ==
    /\ due = {addr'}
    /\ due' = {}
    /\ UNCHANGED <<phase, req, got, config>>

\* Only a request that the device does not know fails.
Stall ==
    /\ phase # "idle" /\ req.kind = "unknown"
    /\ phase' = "idle"
    /\ UNCHANGED <<req, got, addr, due, config>>

Reset ==
    /\ phase' = "idle" /\ got' = <<>>
    /\ addr' = 0 /\ due' = {} /\ config' = 0
    /\ UNCHANGED req

Next ==
    \/ \E r \in Requests : Setup(r)
    \/ Data \/ EndEarly \/ Configure \/ Status \/ TakeAddress \/ Stall \/ Reset

Spec == Init /\ [][Next]_vars
=============================================================================
