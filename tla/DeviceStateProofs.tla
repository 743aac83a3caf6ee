-------------------------- MODULE DeviceStateProofs --------------------------
(***************************************************************************)
(* Why a suspended device can always be woken, why device and host agree   *)
(* whenever nothing is pending, and type correctness, for every depth of   *)
(* the transaction FIFO.                                                   *)
(***************************************************************************)
EXTENDS DeviceState, SequenceTheorems, TLAPS

-----------------------------------------------------------------------------
(***************************************************************************)
(* The inductive invariant behind WakeUpAhead, in parts.                   *)
(***************************************************************************)

\* The three places that say that the module is suspended.
SuspendAgrees == (SUSPND <=> USBBusIsSuspended) /\ (SUSPND <=> "ACTV" \in uie)

\* The one ACTVIF of an idle period is not lost: not to a suspended module,
\* and not while IDLEIF waits to be handled.
ActivityAhead ==
    /\ SUSPND => idled \/ "ACTV" \in uir
    /\ "IDLE" \in uir => ~SUSPND /\ (idled \/ "ACTV" \in uir)

\* What the interrupt routine knows at each of its steps.
RoutineAwake ==
    /\ isr \in {"wake", "reset", "default", "idle"} => ~SUSPND
    /\ isr = "wake" => "IDLE" \notin uir

\* Before main() reaches its loop the bus is silent.
SilentBefore ==
    main # "loop" =>
        /\ line \notin {"reset", "active"} /\ host = "none"
        /\ ~idled /\ ~SUSPND /\ "IDLE" \notin uir

\* The steps between the check of ATTACHED_STATE and USBSuspend.
PastAttached == {"activity", "wake", "suspend", "reset", "idle"}

\* The flags that the ATTACHED_STATE clears are not cleared from a suspended
\* module: it is in that state only while a reset keeps the line at SE0, and
\* the reset cannot end before URSTIF has been handled.
AttachedAsleep ==
    /\ SUSPND /\ state = "attached" => line = "reset"
    /\ isr \in PastAttached /\ "IDLE" \in uir /\ state = "attached"
          => line = "reset"
    /\ state = "attached" /\ line = "reset" /\ seen => "URST" \in uir
    /\ "IDLE" \in uir => line \notin {"off", "rising"}

AwakeInv ==
    /\ SuspendAgrees /\ ActivityAhead /\ RoutineAwake /\ SilentBefore
    /\ AttachedAsleep
-----------------------------------------------------------------------------
(***************************************************************************)
(* The inductive invariant behind WakesOnActivityOnly: ACTVIF belongs to   *)
(* the present activity, not to an earlier idle period.                    *)
(***************************************************************************)

\* URSTIF has still to be handled, or to come, before this reset can end.
ResetPending == line = "reset" /\ (seen => "URST" \in uir)

\* ACTVIF waits for a suspend that is under way, for the routine that clears
\* it, or for a reset that will discard it.
ActivityFresh ==
    /\ "ACTV" \in uir => ~idled
    /\ "ACTV" \in uir => "IDLE" \in uir \/ SUSPND \/ isr = "wake" \/ ResetPending
    /\ idled => "IDLE" \in uir \/ SUSPND \/ host = "none"

\* A reset is no idle bus, and what it discards is not raised again in it.
ResetNotIdle ==
    /\ line \in {"reset", "rising"} => ~idled
    /\ "URST" \in uir => ~idled
    /\ isr = "default" => ~idled /\ "ACTV" \notin uir

\* Once the module is enabled, resets and idle conditions are; the bus is in
\* use only after the first reset, and the ATTACHED_STATE does not outlast it.
Listening ==
    /\ main \in {"usben", "attached", "loop"} => "URST" \in uie /\ "IDLE" \in uie
    /\ line \in {"reset", "active"} => host # "none"
    /\ state = "attached" => host = "none" \/ ResetPending

FreshInv == ActivityFresh /\ ResetNotIdle /\ Listening
-----------------------------------------------------------------------------
\* The states by their names.
LEMMA StateNames ==
    ASSUME NEW s
    PROVE  (\E i \in DOMAIN States : s = States[i]) <=>
           s \in {"detached", "attached", "powered", "default", "adr_pending",
                  "address", "configured"}
BY DEF States

\* The parts of TypeOK.
StateType == \E i \in DOMAIN States : state = States[i]
PlaceType ==
    /\ main \in {"init", "attach", "usben", "attached", "loop"}
    /\ isr \in {"none", "attached", "activity", "wake", "suspend", "reset",
                "default", "idle", "others", "transactions"}
    /\ served \in 0..USTAT_DEPTH
FlagsType == uir \subseteq Flags /\ uie \subseteq Flags \cup {"TRN"}
SwitchType ==
    /\ USBIE \in BOOLEAN /\ SUSPND \in BOOLEAN /\ USBBusIsSuspended \in BOOLEAN
    /\ idled \in BOOLEAN /\ seen \in BOOLEAN /\ armed \in BOOLEAN
FifoType ==
    /\ ustat \in Seq(Setups \cup {"Status", "Data"})
    /\ Len(ustat) <= USTAT_DEPTH
HostType ==
    /\ UADDR \in {0, 1} /\ line \in Lines
    /\ host \in {"none", "default", "address", "configured"}
    /\ xfer \in Setups \cup {"none"}

(***************************************************************************)
(* Each step of main(), of the interrupt routine and of the bus keeps the  *)
(* two invariants and the types.                                           *)
(***************************************************************************)

\* What keeps a suspended module wakeable survives every step.
LEMMA AwakeStep ==
    ASSUME SUSPND \in BOOLEAN, USBBusIsSuspended \in BOOLEAN, AwakeInv, [Next]_vars
    PROVE  AwakeInv'
<1> USE DEF AwakeInv, SuspendAgrees, ActivityAhead, RoutineAwake,
            SilentBefore, AttachedAsleep, PastAttached
<1>1. CASE MainInit
  BY <1>1 DEF MainInit, USBDeviceInit, FlushUstat, ConfigurationOptions, cpu,
     module, bus
<1>2. CASE MainAttach
  BY <1>2 DEF MainAttach, ConfigurationOptions, cpu, module, bus
<1>3. CASE MainEnable
  BY <1>3 DEF MainEnable, cpu, module, bus
<1>4. CASE MainAttached
  BY <1>4 DEF MainAttached, cpu, module, bus
<1>5. CASE Interrupt
  BY <1>5 DEF Interrupt, Goto, cpu, module, bus
<1>6. CASE TaskAttached
  BY <1>6 DEF TaskAttached, Goto, SE0, cpu, module, bus
<1>7. CASE TaskActivity
  BY <1>7 DEF TaskActivity, Goto, WakeMasks, cpu, module, bus
<1>8. CASE TaskWake
  BY <1>8 DEF TaskWake, Goto, WakeClears, cpu, module, bus
<1>9. CASE TaskSuspend
  BY <1>9 DEF TaskSuspend, Goto, cpu, module, bus
<1>10. CASE TaskReset
  BY <1>10 DEF TaskReset, USBDeviceInit, FlushUstat, ConfigurationOptions,
     Goto, cpu, module, bus
<1>11. CASE TaskDefault
  BY <1>11 DEF TaskDefault, Goto, Unmask, cpu, module, bus
<1>12. CASE TaskIdle
  BY <1>12 DEF TaskIdle, Goto, SuspendClears, cpu, module, bus
<1>13. CASE TaskOthers
  BY <1>13 DEF TaskOthers, cpu, module, bus
<1>14. CASE TaskTransaction
  BY <1>14 DEF TaskTransaction, Serve, TurnLeft, cpu, module, bus
<1>15. CASE TaskReturn
  BY <1>15 DEF TaskReturn, cpu, module, bus
<1>16. CASE FalseReset
  BY <1>16 DEF FalseReset, Raise, cpu, module, bus
<1>17. CASE LineRises
  BY <1>17 DEF LineRises, cpu, module, bus
<1>18. CASE IdleDetected
  BY <1>18 DEF IdleDetected, Raise, cpu, module, bus
<1>19. CASE Activity
  BY <1>19 DEF Activity, LineChanges, cpu, module, bus
<1>20. CASE GoesQuiet
  BY <1>20 DEF GoesQuiet, cpu, module, bus
<1>21. CASE HostReset
  BY <1>21 DEF HostReset, LineChanges, cpu, module, bus
<1>22. CASE ResetDetected
  BY <1>22 DEF ResetDetected, Raise, cpu, module, bus
<1>23. CASE ResetEnds
  BY <1>23 DEF ResetEnds, cpu, module, bus
<1>24. CASE OtherFlag
  BY <1>24 DEF OtherFlag, Raise, cpu, module, bus
<1>25. CASE DataTransaction
  BY <1>25 DEF DataTransaction, Complete, cpu, module, bus
<1>26. CASE HostStatus
  BY <1>26 DEF HostStatus, Complete, cpu, module, bus
<1>27. CASE \E r \in Setups : HostSetup(r)
  BY <1>27 DEF HostSetup, Complete, cpu, module, bus
<1>28. CASE UNCHANGED vars
  BY <1>28 DEF vars, cpu, module, bus
<1>29. QED
  BY <1>1, <1>2, <1>3, <1>4, <1>5, <1>6, <1>7, <1>8, <1>9, <1>10, <1>11,
     <1>12, <1>13, <1>14, <1>15, <1>16, <1>17, <1>18, <1>19, <1>20, <1>21,
     <1>22, <1>23, <1>24, <1>25, <1>26, <1>27, <1>28 DEF Next, Main,
     USBDeviceTasks, Bus
-----------------------------------------------------------------------------
\* ACTVIF stays a flag of the present activity.
LEMMA FreshStep ==
    ASSUME AwakeInv, FreshInv, [Next]_vars
    PROVE  FreshInv'
<1> USE DEF FreshInv, ActivityFresh, ResetNotIdle, Listening, ResetPending,
            AwakeInv, RoutineAwake, SilentBefore
<1>1. CASE MainInit
  BY <1>1 DEF MainInit, USBDeviceInit, FlushUstat, ConfigurationOptions, cpu,
     module, bus
<1>2. CASE MainAttach
  BY <1>2 DEF MainAttach, ConfigurationOptions, cpu, module, bus
<1>3. CASE MainEnable
  BY <1>3 DEF MainEnable, cpu, module, bus
<1>4. CASE MainAttached
  BY <1>4 DEF MainAttached, cpu, module, bus
<1>5. CASE Interrupt
  BY <1>5 DEF Interrupt, Goto, cpu, module, bus
<1>6. CASE TaskAttached
  BY <1>6 DEF TaskAttached, Goto, SE0, cpu, module, bus
<1>7. CASE TaskActivity
  BY <1>7 DEF TaskActivity, Goto, WakeMasks, cpu, module, bus
<1>8. CASE TaskWake
  BY <1>8 DEF TaskWake, Goto, WakeClears, cpu, module, bus
<1>9. CASE TaskSuspend
  BY <1>9 DEF TaskSuspend, Goto, cpu, module, bus
<1>10. CASE TaskReset
  BY <1>10 DEF TaskReset, USBDeviceInit, FlushUstat, ConfigurationOptions,
     Goto, cpu, module, bus
<1>11. CASE TaskDefault
  BY <1>11 DEF TaskDefault, Goto, Unmask, cpu, module, bus
<1>12. CASE TaskIdle
  BY <1>12 DEF TaskIdle, Goto, SuspendClears, cpu, module, bus
<1>13. CASE TaskOthers
  BY <1>13 DEF TaskOthers, cpu, module, bus
<1>14. CASE TaskTransaction
  BY <1>14 DEF TaskTransaction, Serve, TurnLeft, cpu, module, bus
<1>15. CASE TaskReturn
  BY <1>15 DEF TaskReturn, cpu, module, bus
<1>16. CASE FalseReset
  BY <1>16 DEF FalseReset, Raise, cpu, module, bus
<1>17. CASE LineRises
  BY <1>17 DEF LineRises, cpu, module, bus
<1>18. CASE IdleDetected
  BY <1>18 DEF IdleDetected, Raise, Pending, cpu, module, bus
<1>19. CASE Activity
  BY <1>19 DEF Activity, LineChanges, cpu, module, bus
<1>20. CASE GoesQuiet
  BY <1>20 DEF GoesQuiet, cpu, module, bus
<1>21. CASE HostReset
  BY <1>21 DEF HostReset, LineChanges, cpu, module, bus
<1>22. CASE ResetDetected
  BY <1>22 DEF ResetDetected, Raise, cpu, module, bus
<1>23. CASE ResetEnds
  BY <1>23 DEF ResetEnds, cpu, module, bus
<1>24. CASE OtherFlag
  BY <1>24 DEF OtherFlag, Raise, cpu, module, bus
<1>25. CASE DataTransaction
  BY <1>25 DEF DataTransaction, Complete, cpu, module, bus
<1>26. CASE HostStatus
  BY <1>26 DEF HostStatus, Complete, cpu, module, bus
<1>27. CASE \E r \in Setups : HostSetup(r)
  BY <1>27 DEF HostSetup, Complete, cpu, module, bus
<1>28. CASE UNCHANGED vars
  BY <1>28 DEF vars, cpu, module, bus
<1>29. QED
  BY <1>1, <1>2, <1>3, <1>4, <1>5, <1>6, <1>7, <1>8, <1>9, <1>10, <1>11,
     <1>12, <1>13, <1>14, <1>15, <1>16, <1>17, <1>18, <1>19, <1>20, <1>21,
     <1>22, <1>23, <1>24, <1>25, <1>26, <1>27, <1>28 DEF Next, Main,
     USBDeviceTasks, Bus
-----------------------------------------------------------------------------
\* The types, part by part.
LEMMA TypeStep ==
    ASSUME TypeOK, [Next]_vars
    PROVE  TypeOK'
<1>1. StateType /\ PlaceType /\ FlagsType /\ SwitchType /\ FifoType /\ HostType
  BY DEF TypeOK, StateType, PlaceType, FlagsType, SwitchType, FifoType,
     HostType
<1> USE DEF Next, Main, USBDeviceTasks, Bus, MainInit, MainAttach,
            MainEnable, MainAttached, Interrupt, TaskAttached,
            TaskActivity, TaskWake, TaskSuspend, TaskReset,
            TaskDefault, TaskIdle, TaskOthers, TaskTransaction,
            TaskReturn, FalseReset, LineRises, IdleDetected, Activity,
            GoesQuiet, HostReset, ResetDetected, ResetEnds, OtherFlag,
            DataTransaction, HostStatus, HostSetup, Complete,
            ConfigurationOptions, FlushUstat, Goto, LineChanges,
            Raise, Serve, SuspendClears, TurnLeft, USBDeviceInit,
            Unmask, WakeClears, WakeMasks, vars, cpu, module, bus
<1>2. StateType'
  BY <1>1, StateNames DEF StateType
<1>3. PlaceType'
  BY <1>1, DeviceAssumption DEF PlaceType
<1>4. FlagsType'
  BY <1>1 DEF FlagsType, Flags
<1>5. SwitchType'
  BY <1>1, ZenonT(60) DEF SwitchType
<1>6. FifoType'
  <2> DEFINE E == Setups \cup {"Status", "Data"}
  <2>1. \/ ustat' = ustat
        \/ ustat' = <<>>
        \/ ustat # <<>> /\ ustat' = Tail(ustat)
        \/ \E t \in E : Len(ustat) < USTAT_DEPTH /\ ustat' = Append(ustat, t)
    BY Zenon DEF Setups
  <2>2. ustat \in Seq(E) /\ Len(ustat) <= USTAT_DEPTH /\ USTAT_DEPTH \in Nat
    BY <1>1, DeviceAssumption DEF FifoType
  <2> HIDE DEF E
  <2>3. ustat' \in Seq(E) /\ Len(ustat') <= USTAT_DEPTH
    <3>1. CASE ustat # <<>> /\ ustat' = Tail(ustat)
      BY <2>2, <3>1
    <3>2. CASE \E t \in E : Len(ustat) < USTAT_DEPTH /\ ustat' = Append(ustat, t)
      BY <2>2, <3>2
    <3>3. CASE ustat' = <<>>
      BY <2>2, <3>3
    <3>4. CASE ustat' = ustat
      BY <2>2, <3>4
    <3>5. QED
      BY <2>1, <3>1, <3>2, <3>3, <3>4
  <2>4. QED
    BY <2>3 DEF FifoType, E
<1>7. HostType'
  BY <1>1 DEF HostType, Setups, Lines
<1>8. QED
  BY <1>2, <1>3, <1>4, <1>5, <1>6, <1>7
     DEF TypeOK, StateType, PlaceType, FlagsType, SwitchType, FifoType, HostType
-----------------------------------------------------------------------------
\* The variables of the device state machine keep their types.
THEOREM TypeCorrect == Spec => []TypeOK
<1>1. Init => TypeOK
  <2> SUFFICES ASSUME Init PROVE TypeOK
    OBVIOUS
  <2>1. StateType
    <3>1. state = "detached"
      BY DEF Init
    <3>2. QED
      BY <3>1, StateNames DEF StateType
  <2>2. PlaceType /\ FlagsType
    BY DeviceAssumption DEF Init, PlaceType, FlagsType
  <2>3. SwitchType
    BY DEF Init, SwitchType
  <2>4. FifoType /\ HostType
    BY DeviceAssumption DEF Init, FifoType, HostType, Lines
  <2>5. QED
    BY <2>1, <2>2, <2>3, <2>4
       DEF TypeOK, StateType, PlaceType, FlagsType, SwitchType, FifoType, HostType
<1>2. TypeOK /\ [Next]_vars => TypeOK'
  BY TypeStep
<1>3. QED
  BY <1>1, <1>2, PTL DEF Spec

(***************************************************************************)
(* A suspended module can always be woken: USBSuspend, USBWakeFromSuspend, *)
(* USBDeviceInit and the ATTACHED_STATE never drop the one ACTVIF of an    *)
(* idle period (usb_device.c:2247-2269, 617, 668).                         *)
(***************************************************************************)
THEOREM AlwaysWakeable == Spec => []WakeUpAhead
<1>1. Init => AwakeInv
  BY DEF Init, AwakeInv, SuspendAgrees, ActivityAhead, RoutineAwake,
         SilentBefore, AttachedAsleep, PastAttached
<1>2. TypeOK /\ AwakeInv /\ [Next]_vars => AwakeInv'
  BY AwakeStep DEF TypeOK
<1>3. TypeOK /\ AwakeInv => WakeUpAhead
  BY DEF TypeOK, AwakeInv, SuspendAgrees, ActivityAhead, WakeUpAhead
<1>4. QED
  BY <1>1, <1>2, <1>3, TypeCorrect, PTL DEF Spec

\* A suspended module stays suspended until the bus is active: the ACTVIF that
\* wakes it was raised in this idle period (usb_device.c:2319-2341).
THEOREM WokenByActivityOnly == Spec => WakesOnActivityOnly
<1>1. Init => AwakeInv /\ FreshInv
  BY DEF Init, AwakeInv, SuspendAgrees, ActivityAhead, RoutineAwake,
         SilentBefore, AttachedAsleep, PastAttached, FreshInv, ActivityFresh,
         ResetNotIdle, Listening, ResetPending
<1>2. TypeOK /\ AwakeInv /\ FreshInv /\ [Next]_vars => AwakeInv' /\ FreshInv'
  BY AwakeStep, FreshStep DEF TypeOK
<1>3. AwakeInv /\ FreshInv /\ [Next]_vars => [SUSPND /\ ~SUSPND' => ~idled]_vars
  <2> SUFFICES ASSUME AwakeInv, FreshInv, Next, SUSPND, ~SUSPND' PROVE ~idled
    OBVIOUS
  <2>1. CASE TaskActivity
    BY <2>1 DEF TaskActivity, FreshInv, ActivityFresh
  <2>2. CASE MainAttach
    BY <2>2 DEF MainAttach, AwakeInv, SilentBefore
  <2>3. CASE ~TaskActivity /\ ~MainAttach
    BY <2>3 DEF Next, Main, USBDeviceTasks, Bus, MainInit, MainEnable,
       MainAttached, Interrupt, TaskAttached, TaskWake, TaskSuspend,
       TaskReset, TaskDefault, TaskIdle, TaskOthers, TaskTransaction,
       TaskReturn, FalseReset, LineRises, IdleDetected, Activity, GoesQuiet,
       HostReset, ResetDetected, ResetEnds, OtherFlag, DataTransaction,
       HostStatus, HostSetup, USBDeviceInit, Goto, Raise, LineChanges,
       Complete, cpu, module, bus
  <2>4. QED
    BY <2>1, <2>2, <2>3
<1>4. QED
  BY <1>1, <1>2, <1>3, TypeCorrect, PTL DEF Spec, WakesOnActivityOnly
-----------------------------------------------------------------------------
(***************************************************************************)
(* The inductive invariant behind InSync: what the transactions that wait  *)
(* in the FIFO will make of the device is what the host believes it to be, *)
(* unless a reset is to be handled.                                        *)
(***************************************************************************)
AllIn(s, Q) == \A i \in 1..Len(s) : s[i] \in Q
EndsWith(s, t, Q) ==
    /\ Len(s) > 0 /\ s[Len(s)] = t
    /\ \A i \in 1..(Len(s) - 1) : s[i] \in Q

\* A device that the host has not reset yet.
Untouched ==
    /\ UADDR = 0 /\ ustat = <<>> /\ xfer = "none" /\ ~armed
    /\ state \in {"detached", "attached", "powered", "default"}
    /\ state = "detached" => main # "loop" \/ isr = "default"

\* Between USBDeviceInit and the state that follows it.
Cleared ==
    /\ state = "detached" /\ UADDR = 0 /\ ustat = <<>> /\ ~armed
    /\ xfer = "none"
    /\ host = "none" \/ (host = "default" /\ line = "reset")

\* SET_ADDRESS takes effect with its status stage.
Addressing ==
    /\ UADDR = 0
    /\ \/ /\ host = "default" /\ state = "default" /\ ~armed
          /\ \/ xfer = "none" /\ AllIn(ustat, {"Data"})
             \/ xfer = "SetAddress" /\ EndsWith(ustat, "SetAddress", {"Data"})
       \/ /\ host = "default" /\ state = "adr_pending" /\ armed
          /\ xfer = "SetAddress" /\ AllIn(ustat, {"Data"})
       \/ /\ host = "address" /\ state = "adr_pending" /\ ~armed
          /\ xfer = "none" /\ EndsWith(ustat, "Status", {"Data"})

\* SET_CONFIGURATION takes effect with its SETUP.
Configuring ==
    /\ UADDR = 1 /\ host \in {"address", "configured"}
    /\ xfer \in {"none", "SetConfiguration", "ClearConfiguration"}
    /\ IF armed
       THEN /\ xfer # "none" /\ AllIn(ustat, {"Data", "Status"})
            /\ state = IF xfer = "SetConfiguration" THEN "configured"
                       ELSE "address"
       ELSE /\ state = host
            /\ IF xfer = "none" THEN AllIn(ustat, {"Data", "Status"})
               ELSE EndsWith(ustat, xfer, {"Data", "Status"})

\* A reset is to be handled wherever the flag is set.
ResetsHost ==
    /\ line = "reset" => host = "default" /\ xfer = "none"
    /\ line \in {"off", "rising"} => host = "none"
    /\ "URST" \in uir => host = "none" \/ line = "reset"
    /\ main # "init" => "TRN" \in uie

SyncInv ==
    /\ ResetsHost
    /\ host = "none" => Untouched
    /\ isr = "default" => Cleared
    /\ host # "none" /\ isr # "default" /\ ~ResetPending
          => Addressing \/ Configuring

-----------------------------------------------------------------------------
\* What serving the oldest transaction leaves of the FIFO.
LEMMA Served ==
    ASSUME NEW E, NEW s \in Seq(E), s # <<>>, NEW t, NEW Q
    PROVE  /\ AllIn(s, Q) => Head(s) \in Q /\ AllIn(Tail(s), Q)
           /\ EndsWith(s, t, Q) =>
                 \/ Head(s) = t /\ Tail(s) = <<>>
                 \/ Head(s) \in Q /\ EndsWith(Tail(s), t, Q)
<1>1. PICK n \in Nat : n = Len(s)
  OBVIOUS
<1>2. n # 0
  BY <1>1
<1>3. /\ Head(s) = s[1] /\ Tail(s) \in Seq(E) /\ Len(Tail(s)) = n - 1
      /\ \A i \in 1..(n - 1) : Tail(s)[i] = s[i + 1]
  BY <1>1, <1>2
<1>4. AllIn(s, Q) => Head(s) \in Q /\ AllIn(Tail(s), Q)
  BY <1>1, <1>2, <1>3 DEF AllIn
<1>5. ASSUME EndsWith(s, t, Q)
      PROVE  \/ Head(s) = t /\ Tail(s) = <<>>
             \/ Head(s) \in Q /\ EndsWith(Tail(s), t, Q)
  <2>1. CASE n = 1
    <3>1. Tail(s) \in Seq(E) /\ Len(Tail(s)) = 0
      BY <1>3, <2>1
    <3>2. Tail(s) = <<>>
      BY <3>1, EmptySeq
    <3>3. QED
      BY <1>1, <1>3, <1>5, <2>1, <3>2 DEF EndsWith
  <2>2. CASE n > 1
    BY <1>1, <1>3, <1>5, <2>2 DEF EndsWith
  <2>3. QED
    BY <1>2, <2>1, <2>2
<1>6. QED
  BY <1>4, <1>5

LEMMA NoneIn == ASSUME NEW Q PROVE AllIn(<<>>, Q)
<1>1. Len(<<>>) = 0
  BY EmptySeq
<1>2. QED
  BY <1>1 DEF AllIn

\* What a new transaction makes of the FIFO.
LEMMA Appended ==
    ASSUME NEW E, NEW s \in Seq(E), NEW t, NEW Q, AllIn(s, Q)
    PROVE  /\ EndsWith(Append(s, t), t, Q)
           /\ t \in Q => AllIn(Append(s, t), Q)
<1>1. PICK n \in Nat : n = Len(s)
  OBVIOUS
<1>2. /\ Len(Append(s, t)) = n + 1 /\ Append(s, t)[n + 1] = t
      /\ \A i \in 1..n : Append(s, t)[i] = s[i]
  BY <1>1
<1> HIDE DEF AllIn
<1>3. \A i \in 1..n : s[i] \in Q
  BY <1>1 DEF AllIn
<1>4. EndsWith(Append(s, t), t, Q)
  BY <1>2, <1>3 DEF EndsWith
<1>5. t \in Q => AllIn(Append(s, t), Q)
  BY <1>2, <1>3 DEF AllIn
<1>6. QED
  BY <1>4, <1>5

\* The states of a device that the host has not reset.
LEMMA EarlyStates ==
    ASSUME NEW s \in {"attached", "powered", "default"}
    PROVE  Below(s, "adr_pending") /\ s # "detached"
<1>1. /\ DOMAIN States = 1..7 /\ States[2] = "attached"
      /\ States[3] = "powered" /\ States[4] = "default"
      /\ States[5] = "adr_pending"
  BY SMTT(40) DEF States
<1>2. QED
  BY <1>1 DEF Below

\* Device and host stay in step.
LEMMA SyncStep ==
    ASSUME TypeOK, AwakeInv, FreshInv, SyncInv, [Next]_vars
    PROVE  SyncInv'
<1> USE DEF SyncInv, ResetsHost, Untouched, Cleared, Addressing, Configuring,
            ResetPending, AwakeInv, SilentBefore, FreshInv, Listening
<1>1. CASE MainInit
  BY <1>1 DEF MainInit, USBDeviceInit, FlushUstat, ConfigurationOptions, cpu,
     module, bus
<1>2. CASE MainAttach
  BY <1>2 DEF MainAttach, ConfigurationOptions, cpu, module, bus
<1>3. CASE MainEnable
  BY <1>3 DEF MainEnable, cpu, module, bus
<1>4. CASE MainAttached
  BY <1>4 DEF MainAttached, cpu, module, bus
<1>5. CASE Interrupt
  BY <1>5 DEF Interrupt, Goto, cpu, module, bus
<1>6. CASE TaskAttached
  BY <1>6 DEF TaskAttached, Goto, SE0, cpu, module, bus
<1>7. CASE TaskActivity
  BY <1>7 DEF TaskActivity, Goto, WakeMasks, cpu, module, bus
<1>8. CASE TaskWake
  BY <1>8 DEF TaskWake, Goto, WakeClears, cpu, module, bus
<1>9. CASE TaskSuspend
  BY <1>9 DEF TaskSuspend, Goto, cpu, module, bus
<1>10. CASE TaskReset
  BY <1>10 DEF TaskReset, USBDeviceInit, FlushUstat, ConfigurationOptions,
     Goto, cpu, module, bus
<1>11. CASE TaskDefault
  <2>1. AllIn(<<>>, {"Data"})
    BY NoneIn
  <2>2. QED
    BY <1>11, <2>1 DEF TaskDefault, Goto, Unmask, cpu, module, bus
<1>12. CASE TaskIdle
  BY <1>12 DEF TaskIdle, Goto, SuspendClears, cpu, module, bus
<1>13. CASE TaskOthers
  BY <1>13 DEF TaskOthers, cpu, module, bus
<1>14. CASE TaskTransaction
  <2>1. /\ ustat # <<>> /\ ustat' = Tail(ustat) /\ isr = "transactions"
        /\ Serve(Head(ustat)) /\ ustat \in Seq(Setups \cup {"Status", "Data"})
        /\ UNCHANGED <<main, isr, uir, uie, line, seen, host, xfer>>
    BY <1>14 DEF TaskTransaction, TypeOK
  <2>2. ASSUME NEW t, NEW Q
        PROVE  /\ AllIn(ustat, Q) => Head(ustat) \in Q /\ AllIn(ustat', Q)
               /\ EndsWith(ustat, t, Q) =>
                     \/ Head(ustat) = t /\ ustat' = <<>>
                     \/ Head(ustat) \in Q /\ EndsWith(ustat', t, Q)
    BY <2>1, Served
  <2>3. ASSUME NEW Q PROVE AllIn(<<>>, Q)
    BY NoneIn
  <2>4. CASE Addressing /\ host # "none" /\ ~ResetPending
    <3>1. CASE /\ host = "default" /\ xfer = "none"
               /\ AllIn(ustat, {"Data"})
      <4>1. Head(ustat) = "Data" /\ AllIn(ustat', {"Data"})
        BY <2>2, <3>1
      <4>2. QED
        BY <2>1, <2>4, <3>1, <4>1 DEF Serve, Setups
    <3>2. CASE xfer = "SetAddress" /\ armed /\ AllIn(ustat, {"Data"})
      <4>1. Head(ustat) = "Data" /\ AllIn(ustat', {"Data"})
        BY <2>2, <3>2
      <4>2. QED
        BY <2>1, <2>4, <3>2, <4>1 DEF Serve, Setups
    <3>3. CASE /\ xfer = "SetAddress" /\ ~armed
               /\ EndsWith(ustat, "SetAddress", {"Data"})
      <4>1. \/ Head(ustat) = "SetAddress" /\ AllIn(ustat', {"Data"})
            \/ Head(ustat) = "Data" /\ EndsWith(ustat', "SetAddress", {"Data"})
        BY <2>2, <2>3, <3>3
      <4>2. QED
        BY <2>1, <2>4, <3>3, <4>1 DEF Serve, Setups
    <3>4. CASE /\ host = "address" /\ xfer = "none"
               /\ EndsWith(ustat, "Status", {"Data"})
      <4>1. \/ Head(ustat) = "Status" /\ AllIn(ustat', {"Data", "Status"})
            \/ Head(ustat) = "Data" /\ EndsWith(ustat', "Status", {"Data"})
        BY <2>2, <2>3, <3>4
      <4>2. QED
        BY <2>1, <2>4, <3>4, <4>1 DEF Serve, Setups
    <3>5. QED
      BY <2>4, <3>1, <3>2, <3>3, <3>4
  <2>5. CASE Configuring /\ host # "none" /\ ~ResetPending
    <3>1. CASE AllIn(ustat, {"Data", "Status"}) /\ (armed <=> xfer # "none")
      <4>1. /\ Head(ustat) \in {"Data", "Status"}
            /\ AllIn(ustat', {"Data", "Status"})
        BY <2>2, <3>1
      <4>2. QED
        BY <2>1, <2>5, <3>1, <4>1 DEF Serve, Setups
    <3>2. CASE /\ ~armed /\ xfer # "none"
               /\ EndsWith(ustat, xfer, {"Data", "Status"})
      <4>1. \/ Head(ustat) = xfer /\ AllIn(ustat', {"Data", "Status"})
            \/ /\ Head(ustat) \in {"Data", "Status"}
               /\ EndsWith(ustat', xfer, {"Data", "Status"})
        BY <2>2, <2>3, <3>2
      <4>2. QED
        BY <2>1, <2>5, <3>2, <4>1 DEF Serve, Setups
    <3>3. QED
      BY <2>5, <3>1, <3>2
  <2>6. CASE host = "none"
    BY <2>1, <2>6
  <2>7. CASE ResetPending
    BY <2>1, <2>7
  <2>8. QED
    BY <2>1, <2>4, <2>5, <2>6, <2>7
<1>15. CASE TaskReturn
  BY <1>15 DEF TaskReturn, cpu, module, bus
<1>16. CASE FalseReset
  BY <1>16 DEF FalseReset, Raise, cpu, module, bus
<1>17. CASE LineRises
  BY <1>17 DEF LineRises, cpu, module, bus
<1>18. CASE IdleDetected
  BY <1>18 DEF IdleDetected, Raise, Pending, cpu, module, bus
<1>19. CASE Activity
  BY <1>19 DEF Activity, LineChanges, cpu, module, bus
<1>20. CASE GoesQuiet
  BY <1>20 DEF GoesQuiet, cpu, module, bus
<1>21. CASE HostReset
  BY <1>21 DEF HostReset, LineChanges, cpu, module, bus
<1>22. CASE ResetDetected
  BY <1>22 DEF ResetDetected, Raise, cpu, module, bus
<1>23. CASE ResetEnds
  BY <1>23 DEF ResetEnds, cpu, module, bus
<1>24. CASE OtherFlag
  BY <1>24 DEF OtherFlag, Raise, cpu, module, bus
<1>25. CASE DataTransaction
  <2>1. /\ ustat' = Append(ustat, "Data") /\ line = "active"
        /\ ustat \in Seq(Setups \cup {"Status", "Data"})
        /\ xfer = "none" \/ armed
        /\ UADDR = IF host \in {"address", "configured"} THEN 1 ELSE 0
        /\ UNCHANGED <<cpu, uir, uie, UADDR, line, seen, host, xfer, armed>>
    BY <1>25 DEF DataTransaction, Complete, TypeOK
  <2>2. ASSUME NEW Q, AllIn(ustat, Q), "Data" \in Q
        PROVE  AllIn(ustat', Q)
    BY <2>1, <2>2, Appended
  <2>3. Addressing \/ Configuring
    BY <2>1
  <2>4. CASE Addressing
    <3>1. AllIn(ustat, {"Data"}) /\ AllIn(ustat', {"Data"})
      BY <2>1, <2>2, <2>4
    <3>2. QED
      BY <2>1, <2>4, <3>1 DEF cpu
  <2>5. CASE Configuring
    <3>1. AllIn(ustat, {"Data", "Status"}) /\ AllIn(ustat', {"Data", "Status"})
      BY <2>1, <2>2, <2>5
    <3>2. QED
      BY <2>1, <2>5, <3>1 DEF cpu
  <2>6. QED
    BY <2>3, <2>4, <2>5
<1>26. CASE HostStatus
  <2>1. /\ ustat' = Append(ustat, "Status") /\ line = "active"
        /\ ustat \in Seq(Setups \cup {"Status", "Data"})
        /\ xfer # "none" /\ armed /\ xfer' = "none" /\ armed' = FALSE
        /\ UADDR = IF host \in {"address", "configured"} THEN 1 ELSE 0
        /\ host' = IF xfer = "SetConfiguration" THEN "configured" ELSE "address"
        /\ UNCHANGED <<cpu, uir, uie, UADDR, line, seen>>
    BY <1>26 DEF HostStatus, Complete, TypeOK
  <2>2. ASSUME NEW Q, AllIn(ustat, Q)
        PROVE  /\ EndsWith(ustat', "Status", Q)
               /\ "Status" \in Q => AllIn(ustat', Q)
    BY <2>1, <2>2, Appended
  <2>3. Addressing \/ Configuring
    BY <2>1
  <2>4. CASE Addressing
    <3>1. AllIn(ustat, {"Data"}) /\ EndsWith(ustat', "Status", {"Data"})
      BY <2>1, <2>2, <2>4
    <3>2. QED
      BY <2>1, <2>4, <3>1 DEF cpu
  <2>5. CASE Configuring
    <3>1. AllIn(ustat, {"Data", "Status"}) /\ AllIn(ustat', {"Data", "Status"})
      BY <2>1, <2>2, <2>5
    <3>2. QED
      BY <2>1, <2>5, <3>1 DEF cpu
  <2>6. QED
    BY <2>3, <2>4, <2>5
<1>27. CASE \E r \in Setups : HostSetup(r)
  <2>1. PICK r \in Setups : HostSetup(r)
    BY <1>27
  <2>2. /\ ustat' = Append(ustat, r) /\ line = "active"
        /\ ustat \in Seq(Setups \cup {"Status", "Data"})
        /\ xfer = "none" /\ xfer' = r /\ (r = "SetAddress" <=> host = "default")
        /\ UADDR = IF host \in {"address", "configured"} THEN 1 ELSE 0
        /\ UNCHANGED <<cpu, uir, uie, UADDR, line, seen, host, armed>>
    BY <2>1 DEF HostSetup, Complete, TypeOK
  <2>3. ASSUME NEW Q, AllIn(ustat, Q) PROVE EndsWith(ustat', r, Q)
    BY <2>2, <2>3, Appended
  <2>4. Addressing \/ Configuring
    BY <2>2
  <2>5. CASE Addressing
    <3>1. AllIn(ustat, {"Data"}) /\ EndsWith(ustat', "SetAddress", {"Data"})
      BY <2>2, <2>3, <2>5
    <3>2. QED
      BY <2>2, <2>5, <3>1 DEF cpu
  <2>6. CASE Configuring
    <3>1. EndsWith(ustat', r, {"Data", "Status"})
      BY <2>2, <2>3, <2>6
    <3>2. QED
      BY <2>1, <2>2, <2>6, <3>1 DEF cpu, Setups
  <2>7. QED
    BY <2>4, <2>5, <2>6
<1>28. CASE UNCHANGED vars
  BY <1>28 DEF vars, cpu, module, bus
<1>29. QED
  BY <1>1, <1>2, <1>3, <1>4, <1>5, <1>6, <1>7, <1>8, <1>9, <1>10, <1>11,
     <1>12, <1>13, <1>14, <1>15, <1>16, <1>17, <1>18, <1>19, <1>20, <1>21,
     <1>22, <1>23, <1>24, <1>25, <1>26, <1>27, <1>28 DEF Next, Main,
     USBDeviceTasks, Bus
-----------------------------------------------------------------------------
\* Whenever nothing is pending and no request is under way, device and host
\* agree on the device's state and address, whatever resets, suspends and
\* transactions came before.
THEOREM DeviceInSync == Spec => []InSync
<1>1. Init => AwakeInv /\ FreshInv /\ SyncInv
  BY DEF Init, AwakeInv, SuspendAgrees, ActivityAhead, RoutineAwake,
         SilentBefore, AttachedAsleep, PastAttached, FreshInv, ActivityFresh,
         ResetNotIdle, Listening, ResetPending, SyncInv, ResetsHost,
         Untouched, Cleared
<1>2. /\ TypeOK /\ AwakeInv /\ FreshInv /\ SyncInv /\ [Next]_vars
      => AwakeInv' /\ FreshInv' /\ SyncInv'
  BY AwakeStep, FreshStep, SyncStep DEF TypeOK
<1>3. TypeOK /\ FreshInv /\ SyncInv => InSync
  <2> SUFFICES ASSUME TypeOK, FreshInv, SyncInv, HandledAll, line # "reset",
                      xfer = "none"
               PROVE  IF host = "none"
                      THEN /\ Below(state, "adr_pending") /\ state # "detached"
                           /\ UADDR = 0
                      ELSE /\ state = host
                           /\ UADDR = IF host = "default" THEN 0 ELSE 1
    BY DEF InSync
  <2>1. ustat = <<>>
    BY DEF HandledAll, Pending, SyncInv, ResetsHost
  <2>2. ASSUME NEW t, NEW Q PROVE ~EndsWith(ustat, t, Q)
    <3>1. Len(ustat) = 0
      BY <2>1, EmptySeq
    <3>2. QED
      BY <3>1 DEF EndsWith
  <2>3. CASE host = "none"
    <3>1. state \in {"attached", "powered", "default"} /\ UADDR = 0
      BY <2>3 DEF HandledAll, SyncInv, Untouched
    <3>2. QED
      BY <2>3, <3>1, EarlyStates
  <2>4. CASE host # "none"
    <3>1. Addressing \/ Configuring
      BY <2>4 DEF HandledAll, ResetPending, SyncInv, FreshInv, Listening, Pending
    <3>2. QED
      BY <2>2, <2>4, <3>1 DEF Addressing, Configuring
  <2>5. QED
    BY <2>3, <2>4
<1>4. QED
  BY <1>1, <1>2, <1>3, TypeCorrect, PTL DEF Spec
=============================================================================
