----------------------------- MODULE DeviceState -----------------------------
(***************************************************************************)
(* The device state machine of usb_device.c: start-up and attachment in    *)
(* main(), and the interrupt service routine USBDeviceTasks, step by step, *)
(* against a bus that may go quiet, become active or be reset between any  *)
(* two steps.                                                              *)
(*                                                                         *)
(* Control transfers are ControlEp's subject.  Here a transaction is what  *)
(* it does to USBDeviceState: the SETUP of SET_ADDRESS or of a             *)
(* SET_CONFIGURATION, its status stage, or anything else ("Data").         *)
(*                                                                         *)
(* Of the flags of UIR, TRNIF is represented by the transaction FIFO being *)
(* non-empty, and SOFIF, STALLIF and UERRIF by the one flag "OTHER".       *)
(* USBIF follows the enabled flags as a level: the routine clears it while *)
(* flags may be set, and relies on being called again.                     *)
(***************************************************************************)
EXTENDS Integers, Sequences

CONSTANTS USTAT_DEPTH  \* entries of the hardware's transaction FIFO, and the
                       \* transactions that one interrupt serves (4 in the code)

ASSUME DeviceAssumption == USTAT_DEPTH \in Nat \ {0}

VARIABLES
    main,       \* where main() is
    isr,        \* where USBDeviceTasks is, or "none"
    served,     \* transactions served by this call of it
    state,      \* USBDeviceState
    uir, uie,   \* the interrupt flags, and those that are enabled
    USBIE,      \* the USB interrupt and (once enabled) GIE
    SUSPND,     \* the module is in power conserve mode
    USBBusIsSuspended,
    UADDR,      \* the address the SIE answers to
    ustat,      \* the transaction FIFO
    line,       \* the bus, see Lines
    idled,      \* IDLEIF was generated, and no activity since then
    seen,       \* the SIE has reported the present SE0 as a reset
    host,       \* the state that the host believes the device to be in
    xfer,       \* the host's control transfer, or "none"
    armed       \* the device has armed its status stage

cpu == <<main, isr, served, state, USBBusIsSuspended>>
module == <<uir, uie, USBIE, SUSPND, UADDR, ustat>>
bus == <<line, idled, seen, host, xfer, armed>>
vars == <<cpu, module, bus>>
-----------------------------------------------------------------------------
\* DETACHED_STATE ... CONFIGURED_STATE, in the order of their values.
States == <<"detached", "attached", "powered", "default", "adr_pending",
            "address", "configured">>
Below(s, t) ==
    \E i, j \in DOMAIN States : i < j /\ States[i] = s /\ States[j] = t

\* SE0 while the pull-up charges the line ("rising") and during a bus reset.
Lines == {"off", "rising", "quiet", "active", "reset"}
SE0 == line \in {"rising", "reset"}

Setups == {"SetAddress", "SetConfiguration", "ClearConfiguration"}

\* UIE after SetConfigurationOptions: everything but ACTVIE.
ConfigurationOptions == {"URST", "IDLE", "TRN", "OTHER"}

Pending == (uir \cup IF ustat # <<>> THEN {"TRN"} ELSE {}) \cap uie
-----------------------------------------------------------------------------
\* Fault: transactions of before the reset stay in the FIFO.
FlushUstat_Not == UNCHANGED ustat
FlushUstat == ustat' = <<>>

\* USBDeviceInit.  EP0 no longer has a status stage armed.
USBDeviceInit ==
    /\ USBIE' = FALSE
    /\ uir' = {}
    /\ uie' = ConfigurationOptions
    /\ UADDR' = 0
    /\ FlushUstat
    /\ USBBusIsSuspended' = FALSE
    /\ state' = "detached"
    /\ armed' = FALSE

Init ==
    /\ main = "init" /\ isr = "none" /\ served = 0
    /\ state = "detached" /\ USBBusIsSuspended = FALSE
    /\ uir = {} /\ uie = {} /\ USBIE = FALSE /\ SUSPND = FALSE
    /\ UADDR = 0 /\ ustat = <<>>
    /\ line = "off" /\ idled = FALSE /\ seen = FALSE
    /\ host = "none" /\ xfer = "none" /\ armed = FALSE
-----------------------------------------------------------------------------
(***************************************************************************)
(* main(): USBDeviceInit, then USBDeviceAttach.  The main loop changes     *)
(* nothing here.                                                           *)
(***************************************************************************)
MainInit ==
    /\ main = "init"
    /\ USBDeviceInit
    /\ main' = "attach"
    /\ UNCHANGED <<isr, served, SUSPND, line, idled, seen, host, xfer>>

\* Registers set to known states, interrupts enabled.
MainAttach ==
    /\ main = "attach" /\ state = "detached"
    /\ uie' = ConfigurationOptions
    /\ SUSPND' = FALSE
    /\ USBIE' = TRUE
    /\ main' = "usben"
    /\ UNCHANGED <<isr, served, state, USBBusIsSuspended, uir, UADDR, ustat, bus>>

\* The module is enabled: the pull-up starts to charge the line.
MainEnable ==
    /\ main = "usben" /\ isr = "none"
    /\ line' = "rising" /\ seen' = FALSE
    /\ main' = "attached"
    /\ UNCHANGED <<isr, served, state, USBBusIsSuspended, module, idled, host,
                   xfer, armed>>

\* Whatever an interrupt has made of the state meanwhile.
MainAttached ==
    /\ main = "attached" /\ isr = "none"
    /\ state' = "attached"
    /\ main' = "loop"
    /\ UNCHANGED <<isr, served, USBBusIsSuspended, module, bus>>

Main == MainInit \/ MainAttach \/ MainEnable \/ MainAttached
-----------------------------------------------------------------------------
(***************************************************************************)
(* USBDeviceTasks.                                                         *)
(***************************************************************************)
Goto(l) == isr' = l /\ UNCHANGED <<main, served>>

Interrupt ==
    /\ isr = "none"
    /\ USBIE /\ Pending # {}
    /\ Goto("attached")
    /\ UNCHANGED <<state, USBBusIsSuspended, module, bus>>

\* The line has left SE0: what was taken for a reset is discarded.
TaskAttached ==
    /\ isr = "attached"
    /\ Goto("activity")
    /\ IF state = "attached" /\ ~SE0
       THEN /\ uir' = {}
            /\ ustat' = IF ustat = <<>> THEN ustat ELSE Tail(ustat)
            /\ uie' = uie \cup {"URST", "IDLE"}
            /\ state' = "powered"
       ELSE UNCHANGED <<uir, ustat, uie, state>>
    /\ UNCHANGED <<USBBusIsSuspended, USBIE, SUSPND, UADDR, bus>>

\* Fault: ACTVIE stays set.
WakeMasks_Not == UNCHANGED uie
WakeMasks == uie' = uie \ {"ACTV"}

\* Task A and USBWakeFromSuspend, up to the loop that clears ACTVIF: the
\* hardware ignores the clearing before it.
TaskActivity ==
    /\ isr = "activity"
    /\ IF "ACTV" \in uir \cap uie
       THEN /\ Goto("wake")
            /\ USBBusIsSuspended' = FALSE
            /\ SUSPND' = FALSE
            /\ WakeMasks
       ELSE /\ Goto("suspend")
            /\ UNCHANGED <<USBBusIsSuspended, SUSPND, uie>>
    /\ UNCHANGED <<state, uir, USBIE, UADDR, ustat, bus>>

\* Fault: ACTVIF is cleared once, before the hardware is synchronised.
WakeClears_Once == UNCHANGED uir
WakeClears == uir' = uir \ {"ACTV"}

\* The loop has cleared ACTVIF.
TaskWake ==
    /\ isr = "wake"
    /\ WakeClears
    /\ Goto("suspend")
    /\ UNCHANGED <<state, USBBusIsSuspended, uie, USBIE, SUSPND, UADDR, ustat, bus>>

TaskSuspend ==
    /\ isr = "suspend"
    /\ Goto(IF SUSPND THEN "none" ELSE "reset")
    /\ UNCHANGED <<state, USBBusIsSuspended, module, bus>>

\* Task B.
TaskReset ==
    /\ isr = "reset"
    /\ IF "URST" \in uir \cap uie
       THEN Goto("default") /\ USBDeviceInit
       ELSE /\ Goto("idle")
            /\ UNCHANGED <<USBIE, uir, uie, UADDR, ustat, USBBusIsSuspended,
                           state, armed>>
    /\ UNCHANGED <<SUSPND, line, idled, seen, host, xfer>>

\* Fault: USBDeviceInit has masked the interrupt for good.
Unmask_Not == UNCHANGED USBIE
Unmask == USBIE' = TRUE

TaskDefault ==
    /\ isr = "default"
    /\ Unmask
    /\ state' = "default"
    /\ uir' = uir \ {"URST"}
    /\ Goto("idle")
    /\ UNCHANGED <<USBBusIsSuspended, uie, SUSPND, UADDR, ustat, bus>>

\* Fault: the only ACTVIF of this idle period is cleared.
SuspendClears_ACTVIF == uir' = uir \ {"IDLE", "ACTV"}
SuspendClears == uir' = uir \ {"IDLE"}

\* Task C: USBSuspend.
TaskIdle ==
    /\ isr = "idle"
    /\ Goto("others")
    /\ IF "IDLE" \in uir \cap uie
       THEN /\ SuspendClears
            /\ uie' = uie \cup {"ACTV"}
            /\ SUSPND' = TRUE
            /\ USBBusIsSuspended' = TRUE
       ELSE UNCHANGED <<uir, uie, SUSPND, USBBusIsSuspended>>
    /\ UNCHANGED <<state, USBIE, UADDR, ustat, bus>>

\* SOF, stall and error interrupts, then the test for a reset so far.
TaskOthers ==
    /\ isr = "others"
    /\ uir' = uir \ {"OTHER"}
    /\ isr' = IF Below(state, "default") THEN "none" ELSE "transactions"
    /\ served' = 0
    /\ UNCHANGED <<main, state, USBBusIsSuspended, uie, USBIE, SUSPND, UADDR,
                   ustat, bus>>

\* USBCtrlEPService, as far as the device state goes: a SETUP, or a completed
\* status stage.  A SETUP's handler arms the status stage.
Serve(t) ==
    /\ armed' = (t \in Setups \/ armed)
    /\ UADDR' = IF t = "Status" /\ state = "adr_pending" THEN 1 ELSE UADDR
    /\ state' = CASE t = "SetAddress" -> "adr_pending"
                  [] t = "SetConfiguration" -> "configured"
                  [] t = "ClearConfiguration" -> "address"
                  [] t = "Status" /\ state = "adr_pending" -> "address"
                  [] OTHER -> state

\* Fault: one turn too many.
TurnLeft_OneMore == served <= USTAT_DEPTH
TurnLeft == served < USTAT_DEPTH

\* Task D: one turn of the loop.
TaskTransaction ==
    /\ isr = "transactions"
    /\ TurnLeft /\ ustat # <<>>
    /\ ustat' = Tail(ustat)
    /\ Serve(Head(ustat))
    /\ served' = served + 1
    /\ UNCHANGED <<main, isr, USBBusIsSuspended, uir, uie, USBIE, SUSPND, line,
                   idled, seen, host, xfer>>

TaskReturn ==
    /\ isr = "transactions"
    /\ ~TurnLeft \/ ustat = <<>>
    /\ isr' = "none" /\ served' = 0
    /\ UNCHANGED <<main, state, USBBusIsSuspended, module, bus>>

USBDeviceTasks ==
    \/ TaskAttached \/ TaskActivity \/ TaskWake \/ TaskSuspend \/ TaskReset
    \/ TaskDefault \/ TaskIdle \/ TaskOthers \/ TaskTransaction \/ TaskReturn
-----------------------------------------------------------------------------
(***************************************************************************)
(* The bus and the SIE.                                                    *)
(***************************************************************************)
Raise(f) == uir' = uir \cup {f} /\ UNCHANGED <<uie, USBIE, SUSPND, ustat>>

\* The SE0 of a line that is still charging may be reported as a reset.
FalseReset ==
    /\ line = "rising" /\ ~seen /\ ~SUSPND
    /\ seen' = TRUE
    /\ Raise("URST") /\ UADDR' = 0
    /\ UNCHANGED <<cpu, line, idled, host, xfer, armed>>

LineRises ==
    /\ line = "rising"
    /\ line' = "quiet"
    /\ UNCHANGED <<cpu, module, idled, seen, host, xfer, armed>>

\* 3 ms without activity, longer than main() needs to attach and than the
\* interrupt needs to be served.
IdleDetected ==
    /\ line = "quiet" /\ ~idled /\ ~SUSPND
    /\ main = "loop" /\ isr = "none" /\ Pending = {}
    /\ idled' = TRUE
    /\ Raise("IDLE") /\ UNCHANGED UADDR
    /\ UNCHANGED <<cpu, line, seen, host, xfer, armed>>

\* ACTVIF is generated once after each IDLEIF, in power conserve mode too.
LineChanges(l) ==
    /\ line' = l
    /\ idled' = FALSE
    /\ uir' = IF idled THEN uir \cup {"ACTV"} ELSE uir
    /\ UNCHANGED <<cpu, uie, USBIE, SUSPND, UADDR, ustat>>

\* The host's port sends nothing before the first reset.
Activity ==
    /\ line = "quiet" /\ host # "none"
    /\ LineChanges("active")
    /\ UNCHANGED <<seen, host, xfer, armed>>

GoesQuiet ==
    /\ line = "active"
    /\ line' = "quiet"
    /\ UNCHANGED <<cpu, module, idled, seen, host, xfer, armed>>

\* The host waits 100 ms after the attachment: main() is in its loop.
HostReset ==
    /\ line \in {"quiet", "active"} /\ main = "loop"
    /\ LineChanges("reset")
    /\ seen' = FALSE
    /\ host' = "default" /\ xfer' = "none"
    /\ UNCHANGED armed

\* Not in power conserve mode: the SIE has no clock.
ResetDetected ==
    /\ line = "reset" /\ ~seen /\ ~SUSPND
    /\ seen' = TRUE
    /\ Raise("URST") /\ UADDR' = 0
    /\ UNCHANGED <<cpu, line, idled, host, xfer, armed>>

\* A reset lasts 10 ms: the interrupt has been handled when it ends.
ResetEnds ==
    /\ line = "reset" /\ seen /\ "URST" \notin uir /\ isr = "none"
    /\ line' = "active"
    /\ UNCHANGED <<cpu, module, idled, seen, host, xfer, armed>>

OtherFlag ==
    /\ line = "active" /\ ~SUSPND /\ host # "none"
    /\ Raise("OTHER") /\ UNCHANGED UADDR
    /\ UNCHANGED <<cpu, bus>>

\* The SIE completes a transaction at the address that the host uses.  After
\* a SETUP it disables packet processing until the SETUP has been served.
Complete(t) ==
    /\ line = "active" /\ ~SUSPND
    /\ UADDR = IF host \in {"address", "configured"} THEN 1 ELSE 0
    /\ xfer = "none" \/ armed
    /\ Len(ustat) < USTAT_DEPTH
    /\ ustat' = Append(ustat, t)
    /\ UNCHANGED <<cpu, uir, uie, USBIE, SUSPND, UADDR, line, idled, seen>>

DataTransaction ==
    /\ Complete("Data")
    /\ UNCHANGED <<host, xfer, armed>>

\* An enumerated address is given once, then configurations.
HostSetup(r) ==
    /\ xfer = "none"
    /\ r = "SetAddress" <=> host = "default"
    /\ Complete(r)
    /\ xfer' = r
    /\ UNCHANGED <<host, armed>>

HostStatus ==
    /\ xfer # "none" /\ armed
    /\ Complete("Status")
    /\ host' = IF xfer = "SetConfiguration" THEN "configured" ELSE "address"
    /\ xfer' = "none" /\ armed' = FALSE

Bus ==
    \/ FalseReset \/ LineRises \/ IdleDetected \/ Activity \/ GoesQuiet
    \/ HostReset \/ ResetDetected \/ ResetEnds \/ OtherFlag
    \/ DataTransaction \/ HostStatus
    \/ \E r \in Setups : HostSetup(r)
-----------------------------------------------------------------------------
Next == Main \/ Interrupt \/ USBDeviceTasks \/ Bus

Spec == Init /\ [][Next]_vars

\* The CPU goes on, and so does a reset that the host has begun.  The host
\* need not do anything else.
FairSpec ==
    /\ Spec
    /\ WF_vars(Main) /\ WF_vars(Interrupt \/ USBDeviceTasks)
    /\ WF_vars(LineRises) /\ WF_vars(ResetDetected) /\ WF_vars(ResetEnds)
-----------------------------------------------------------------------------
Flags == {"URST", "IDLE", "ACTV", "OTHER"}

TypeOK ==
    /\ main \in {"init", "attach", "usben", "attached", "loop"}
    /\ isr \in {"none", "attached", "activity", "wake", "suspend", "reset",
                "default", "idle", "others", "transactions"}
    /\ served \in 0..USTAT_DEPTH
    /\ \E i \in DOMAIN States : state = States[i]
    /\ uir \subseteq Flags /\ uie \subseteq Flags \cup {"TRN"}
    /\ USBIE \in BOOLEAN /\ SUSPND \in BOOLEAN /\ USBBusIsSuspended \in BOOLEAN
    /\ UADDR \in {0, 1}
    /\ ustat \in Seq(Setups \cup {"Status", "Data"}) /\ Len(ustat) <= USTAT_DEPTH
    /\ line \in Lines /\ idled \in BOOLEAN /\ seen \in BOOLEAN
    /\ host \in {"none", "default", "address", "configured"}
    /\ xfer \in Setups \cup {"none"} /\ armed \in BOOLEAN

(***************************************************************************)
(* Whenever no interrupt is pending and no request under way, the device   *)
(* is in the state, and at the address, that the host believes it to be:   *)
(* whatever the line did while main() attached (usb_device.c:1369), and    *)
(* whatever was left in the transaction FIFO at a reset.                   *)
(***************************************************************************)
HandledAll == main = "loop" /\ isr = "none" /\ Pending = {}
InSync ==
    HandledAll /\ line # "reset" /\ xfer = "none" =>
        IF host = "none"
        THEN Below(state, "adr_pending") /\ state # "detached" /\ UADDR = 0
        ELSE state = host /\ UADDR = (IF host = "default" THEN 0 ELSE 1)

(***************************************************************************)
(* A suspended module can be woken: its activity interrupt is enabled, and *)
(* the one ACTVIF of the idle period is set or still to come, also when    *)
(* the bus became active or was reset between IDLEIF and USBSuspend        *)
(* (usb_device.c:2247-2269).  The flag main() looks at says the same.      *)
(***************************************************************************)
WakeUpAhead ==
    isr = "none" =>
        /\ SUSPND = USBBusIsSuspended /\ SUSPND = ("ACTV" \in uie)
        /\ SUSPND => idled \/ "ACTV" \in uir

\* Only activity on the bus wakes the module: an ACTVIF of an earlier idle
\* period does not (usb_device.c:2319-2341).
WakesOnActivityOnly == [][SUSPND /\ ~SUSPND' => ~idled]_vars

\* Activity on the bus, a reset included, wakes a suspended module
\* (usb_device.c:633-658).
WakesUp == (SUSPND /\ ~idled) ~> ~SUSPND

\* A reset, also one that finds the module suspended, is handled: ACTVIF
\* first, then URSTIF once SUSPND is clear (usb_device.c:660-664).
ResetHandled ==
    (line = "reset") ~> (line # "reset" /\ ~SUSPND /\ state = "default")

\* The SETUP of a request is served, unless the host resets the bus: no
\* transaction is left in the FIFO with the interrupt masked or not called
\* again (usb_device.c:674, 785-826).
RequestServed == (xfer # "none") ~> (armed \/ xfer = "none")
=============================================================================
