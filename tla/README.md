# Verification of the USB_JTAG firmware

This directory holds TLA+ models of the firmware under `src/USB_JTAG/firmware`
(a USB-Blaster compatible JTAG adapter for PIC16F1459 and PIC18F14K50) and of
the part of the Microchip USB device stack it is built with
(`src/USB_JTAG/mla/framework/usb/src/usb_device.c`). TLC checks the models on
small instances; TLAPS proves some of the results for every value of the
constants. Paths such as `blaster.c` below are under
`src/USB_JTAG/firmware/src`, `usb_device.c` is the file named above.

The build that is modelled is the one `usb_config.h` selects: `USB_INTERRUPT`
(the stack runs in the interrupt), full ping-pong buffering, EP0 of 8 bytes, two
bulk endpoints, status-stage timeouts, `DEBUG` off, PIC16F1459.

## The system

The device is a USB function with one bulk IN endpoint (EP1), one bulk OUT
endpoint (EP2) and the control endpoint (EP0). The host writes command bytes to
EP2; the firmware drives the JTAG pins with them and returns reply bytes on EP1.
Four parties act concurrently:

* the **main loop** (`main.c`), which runs `Main_Task_Blaster` over and over
  while the device is configured and not suspended;
* the **USB interrupt** (`system.c:126`), which runs `USBDeviceTasks` and
  everything that it calls, the callbacks of `main.c:162` included; it can
  interrupt the main loop anywhere;
* the **SIE**, the hardware that moves packets between the bus and the buffers,
  through the buffer descriptor table (BDT) that it shares with the software;
* the **host**. A timer sets a flag every 10 ms.

### Inventory

| Component | Source | State it keeps | Operations | What is hard | What makes it correct |
|---|---|---|---|---|---|
| TX FIFO | `blaster.c:318-364` | 256-byte ring, two 8-bit indexes, 16-bit occupancy | init, write, read, fill, room | indexes wrap and are never compared; no operation checks anything; the full ring | it is a bounded queue; nothing unsent is overwritten; indexes and occupancy agree |
| Main task | `blaster.c:433-691` | `Rx_State`, `RxSize`, `ValidPPB`, `RxPtr`, `JTAG_State`, `Read`, `ByteSize`, `nCS`, handles, packet buffers | RX handling, bit bang, byte shift, TX handling | two buffers and a mode machine run out at different times; back pressure; the SIE works meanwhile | each command executed once and in order, each reply delivered once and in order, on the right pins |
| Main loop, callbacks | `main.c:100-204`, `system.c:93-131` | none | state and suspend checks, event handler, ISR | callbacks run in the interrupt | the main task runs only on a configured bus; a configuration starts it afresh |
| Bulk endpoints | `usb_device.c:298-385, 878-1047, 1543-1585`, `usb_device.h:1371, 1405` | descriptors, `pBDTEntryIn/Out`, UEP | init, enable, transfer one packet, handle macros | software and hardware positions advance separately; a reset under way | both agree; no descriptor is touched while the SIE owns it |
| Control endpoint | `usb_device.c:1416-1518, 1616-1947, 2369-2670` | control transfer state, pipes, flags, four descriptors | setup, in, out, service complete, status stage | abandoned transfers, short packets, timeouts, ping-pong | a descriptor for the next SETUP is always armed; every transfer can finish |
| Standard requests, halt | `usb_device.c:1968-2202, 2689-2983` | active configuration, alternate setting, remote wakeup, `transfer_terminated` | set configuration, status, features | a halt request meets an armed transfer | a halted endpoint stalls until cleared; toggles restart; nothing stale is taken for data |
| Device state | `usb_device.c:489-827, 1352-1382, 2245-2346` | `USBDeviceState`, `SUSPND`, interrupt flags and enables | attach, reset, idle, activity, SOF, transaction complete | order of flags within one interrupt, events between them | states change only as USB 2.0 allows; the device always gets out of suspend |
| FT245 and EEPROM emulation | `blaster.c:215-316` | `eeprom_checksum` | EEPROM read, checksum, vendor requests | overlapping ranges, 16-bit rotate | the host accepts the EEPROM image |
| JTAG ports and SPI | `jtag.c` | port latches, SSP registers | init, mode switch, put, wait, get, bit reversal | pin ownership changes hands | no clock edge without a command |
| Descriptors | `usb_descriptors.c` | constants | none | | |
| Host, OTG, class drivers | rest of `mla/` | | not in this build | | |

`PROJECT.json` lists the hazards of this code line by line with the properties
that cover them, or the reason why none does yet.

## The modules

| Module | What it is | State and actions against the code |
|---|---|---|
| `TxQueue` | abstract: a bounded queue of replies | `Put`, `Take` (a packet), `Forget` |
| `TxFifo` | the ring of `blaster.c` and its two users | `TXFIFO_Init/Write/Read`, `Fill`, `Room`, `TxSize` are the functions (widths: `UINT8`, `UINT16`); `StartBatch` is the room check, `CommandWithReply` and `CommandWithoutReply` a turn of either JTAG loop, `FillPacket` the TX part, `Reconfigure` the call in `USB_Ept_Init` |
| `TxFifoProofs` | invariance theorems about `TxFifo`, and the theorem that it implements `TxQueue` | |
| `Cpld` | abstract: the machine that the comment `main.c:12-60` describes, one command byte at a time | `SetPins`, `EnterShift`, `Shift`; `Receive` and `Deliver` at its ends; `Lose` and `Restart` for reset and configuration |
| `UsbBdt` | operators on one endpoint direction: two descriptors, the software pointer, the SIE's position | `USBDeviceInit`, `USBEnableEndpoint`, `USBTransferOnePacket`, `USBHandleBusy`, `USBHandleGetLength`; `SieReady`, `SieComplete` for the hardware |
| `Blaster` | main loop, `Main_Task_Blaster`, SIE, host, timer and the part of the interrupt that the main loop sees | see below |
| `BlasterProofs` | invariance theorems about `Blaster`, and the theorems that it uses the ring as `TxFifo` says and implements `Cpld` | |
| `Interrupted` | `Main_Task_Blaster` statement by statement, preempted by the USB interrupt | see below |
| `InterruptedProofs` | invariance theorems about `Interrupted` | |
| `EndpointHalt` | the bulk endpoints with data toggles, lost handshakes and endpoint halt | see below |
| `HaltProofs` | invariance theorems about `EndpointHalt` | |
| `ControlTransfer` | abstract: control transfers as the host sees them, stage by stage | `Setup`, `Data`, `EndEarly`, `Status`, `Stall`; `Configure`, `TakeAddress`, `Reset` for their effects |
| `ControlEp` | endpoint 0 of `usb_device.c`, the SIE and the host | see below |
| `ControlEpProofs` | invariance theorems about `ControlEp`, and the theorem that it implements `ControlTransfer` | |
| `DeviceState` | start-up, attachment and `USBDeviceTasks` flag by flag, with the bus | see below |
| `DeviceStateProofs` | invariance theorems about `DeviceState` | |
| `ByteShift` | abstract: the shift register that the comment `main.c:48-60` describes, bit by bit | `Load`, `Bit`, `Give`, `Drop` |
| `JtagSpi` | `JTAG_SPI_Put/Wait/Get` with the SPI module | see below |
| `JtagSpiProofs` | the theorem that `JtagSpi` implements `ByteShift` | |
| `Eeprom` | the FT245 emulation: EEPROM image, checksum, vendor requests | see below |
| `EepromProofs` | invariance theorems about `Eeprom` | |
| `MCControlEp`, `MCPeripherals` | instances for TLC: the requests of the runs; the ring, the SPI module and the contents of `usb_descriptors.c` | |

`Blaster` composes `UsbBdt` (for EP1 and EP2) and `TxFifo` (its operators, and its
specification as a property), and is shown to implement `Cpld`. `Interrupted` has
the same main task and the same `UsbBdt` at the granularity at which the interrupt
can come between. `EndpointHalt` puts `UsbBdt` on a link that loses handshakes.
`JtagSpi` is one byte of `Blaster`'s byte shift mode and implements `ByteShift`.
`ControlEp` and `DeviceState` divide `USBDeviceTasks` between them: `ControlEp`
has the transactions of EP0 in full, `DeviceState` the flags around them, with a
control transfer as what it does to `USBDeviceState`. What the bulk endpoints
share with either is the bus reset and the configuration, which `Blaster`,
`Interrupted` and `EndpointHalt` have as events. `MCPeripherals` puts `TxFifo`, `Eeprom` and
`JtagSpi`, which share nothing, one after another into one run.

### Blaster

`pc` is the place in the main loop: the check of the device state (`loop`), the
three parts of `Main_Task_Blaster` (`rx`, `jtag`, `tx`), and the loops over
command bytes (`bang`, `shift`), in which one action is one byte. Between any two
of these the SIE may complete a transaction, the timer expire, or the bus be
reset, suspended or resumed. Variables carry the names of the code; `Rx_State`
is the number of the buffer to be received into, or `INIT`. Reads of a handle
(`USBHandleBusy`) and the arming of the next descriptor are one step: only the
interrupt could come between them, and `Interrupted` is about that.

Data are abstracted to what the properties tell apart. Command bytes are
numbers, their bits are the code's. A reply is the serial number of the command
that took the sample, so that a lost, repeated or exchanged reply is visible;
a shift with `nCS` low replies `Ones`, as in the code. The SIE writes a whole
packet and clears UOWN in one step, as the hardware promises.

`SetConfiguration` happens only after a reset and when the pass of the main loop
that was running at the reset has ended: enumeration takes milliseconds of reset
recovery, SET_ADDRESS and descriptor requests, a pass of the main loop does not.

A byte shift command lowers TCK at once (`blaster.c:540`), although `main.c:32-33`
says that nothing else is done then; `Cpld` has the code's behaviour. The mutant of
`ClockedByCommandsOnly` shows why the assignment is needed: the SPI module idles
low, and a TCK that is high would fall when the module takes the pin over.

The ghost variables are `sent` (bounds the run), `done` (numbers the commands),
`host` (the last packet received) and `resets`.

### EndpointHalt

`Blaster` has a perfect link and no halt; `EndpointHalt` has both, and less of the
main task: of `Main_Task_Blaster` only when it arms which descriptor. A packet is
its number. `SetHalt` and `ClearHalt` are the two halves of
`USBStdFeatureReqHandler`, with `ep_data` the software's copy of the ping-pong
state, which `ServiceTransaction` keeps from the hardware's FIFO (`USTAT`).
`HostOut` and `HostIn` are a transaction with the toggles of both ends, and with
its handshake or without: a repeated OUT packet is acknowledged and dropped, a
repeated IN packet is dropped by the host. A SETUP packet sets PKTDIS, which holds
up all endpoints until `ServiceSetup`, the last of the FIFO, has run: the request,
its status stage and what the host does then (after CLEAR_FEATURE it starts with
DATA0 and gives up a packet whose handshake it did not see) are one step.

The main loop calls `USBTransferOnePacket` in `MainInit`, `MainRx` and `MainTx`, and
the call is there statement by statement (`pc`), as in `Interrupted`: the pointer
is copied (`Fetch`, into the local `entry`), the descriptor written (`Fill`), UOWN
set (`Own`), the pointer toggled (`Advance`: the pointer itself, not the copy), the
handle stored by the caller (`Return`). Interrupt, SIE and host may come between
any two of these. `dir` is the endpoint of the call; only one runs at a time. `Fill`
takes the writes of ADR, CNT and STAT together: the SIE does not use the descriptor
before UOWN is set, and a request changes only STAT, so one that falls among these
writes has the effect of one before or after `Fill`. A statement such as
`STAT.Val |= _USIE` is a single instruction on this processor. The NULL check always passes, because the device
stays configured here.

The ghosts are `received`, `written`, `got`, `tried`, `abandoned` and, per direction,
`torn`: a request came between the setting of UOWN and the advance of the pointer,
and no CLEAR_FEATURE has come outside of a transfer since. A buffer that the main
loop has taken holds 0, so that taking it again is visible.

`LooksWhereSieLooks` is what the comment `usb_device.c:2837-2839` wants of the
pointer. As an invariant (`ActiveEntry`) it is violated, which is a finding;
`ArmedWhereSieLooks` says that `torn` is the only exception, and `LinkRecovers` has
the same one.

### ControlEp

The variable `dev` is a record of the device's state: the four EP0 descriptors,
the SIE's positions, PKTDIS, the hardware's FIFO of completed transactions
(USTAT), and the variables of `usb_device.c` under their names. The functions of
the code are operators from device state to device state, composed in the order
of the calls; an action of the interrupt is one entry of the FIFO
(`ServiceTransaction`), one stall (`ServiceStall`) or one frame (`ServiceSOF`).
One step per call of `USBCtrlEPService` is faithful because the SIE processes no
packet between a SETUP and `USBCtrlEPServiceComplete`, which clears PKTDIS, and
because the descriptors that the other handlers change are theirs until they set
UOWN. The main loop does not touch EP0.

Requests are records: what the handler does with the request (send `avail` bytes,
acknowledge, set the address, set the configuration, not know it), its direction
and the host's `wLength`. Data are positions in the source, so that a byte sent
twice, left out or out of order is visible.

The host (`HostSetup`, `HostIn`, `HostOut`, `HostStalled`, `HostEndsEarly`) may
start a new transfer at any point of the running one, end a control read early,
and lose the device's view of a handshake in a data stage (`HostInLost`), after
which the SIE sends the packet again. Three rules of USB 2.0 restrict it
(`MayAsk`): it configures a device only after addressing it, it grants 2 ms of
recovery after SET_ADDRESS, and (a constant, `DropsAddress`) it does not abandon
a SET_ADDRESS for another request. The last one is what the finding about the
pending address is about.

`AlwaysAnswered` is the device's side of progress, stated as an invariant: once the
transactions are serviced, the descriptor that the host's next token needs is
armed, with data or with a stall, without the timeout having to expire. No token
is answered with NAK for ever.

`TransferSpec` maps the device's address and configuration to those of
`ControlTransfer`, and the address that the host uses but the device does not yet
answer to, to `due`.

### Interrupted

`pc` is a statement of `Main_Task_Blaster` or of `USBTransferOnePacket`, which is
inlined with its locals `ep` and `handle`: the fetch of the pointer with its NULL
check, the writing of the descriptor, the setting of UOWN, the advance of the
pointer (the pointer itself, not the copy), the return. A bus reset, a
SET_CONFIGURATION(0) or a SET_CONFIGURATION may come between any two of them. The
interrupt runs to its end before the main task goes on, so each is one step.
Commands and replies are counted only: a byte of the bit-bang loop may be any of
the three kinds, and the ring is its occupancy, with the code's truncations. A
local that is out of its scope has its first value.

Toggling the null pointer that a reset left gives the address 4, `WILD`.
What a store through it would overwrite is not modelled; `WildNeverUsed` says that
there is none. The length that RX handling reads through a handle that the
interrupt has just cleared is any byte.

After a reset or SET_CONFIGURATION(0), the pass that was running has ended
before the next SET_CONFIGURATION (enumeration takes milliseconds; after
SET_CONFIGURATION(0) the host needs another control transfer for it). A host that
configures a device which is configured already may do so in mid-pass; `Again`
bounds that. With `Again = 0` all properties hold, with `Again = 1` the main task can
hang: a finding.

`ShiftDone` is the SPI module: 8 instruction cycles for a byte, less than lies
between two uses of `SSPBUF`, hence `~shifting` in the guards of `Shift` and of the
read. Switching the module off ends its transfer; whether BF survives is left open.

### DeviceState

`main` runs through `USBDeviceInit` and `USBDeviceAttach`; `isr` is the place in
`USBDeviceTasks`, whose tests and tasks are one action each. `uir` and `uie` are the
flags and enables, `ustat` the hardware's transaction FIFO, `line` the bus. The host
resets, suspends (goes quiet), becomes active again and starts SET_ADDRESS,
SET_CONFIGURATION and others; `host` is the state that it believes the device to
be in. What is assumed of hardware and host:

* USBIF follows the enabled flags as a level, so that a flag that is set during
  the routine calls it again;
* ACTVIF is set once after each IDLEIF, by the first activity (a reset included),
  in power conserve mode too; clearing it has no effect until the module's clock
  runs again (`TaskWake`); the other flags need the clock;
* the line is SE0 while the pull-up charges it, which the SIE may report as a
  reset; the host's port sends nothing before the first reset, and that comes
  100 ms after the attachment, when `main()` is in its loop;
* a reset lasts (10 ms) until the interrupt has handled it; idle is 3 ms, longer
  than anything pending takes.

### JtagSpi and Eeprom

`JtagSpi` shifts bit by bit through a chain of `Chain` registers with the 256-byte
table of `jtag.c`. `Elapsed` is the timing assumption: the instructions between two
uses of `SSPBUF` take at least the 8 cycles of a transfer. The comment of
`JTAG_SPI_Wait` says that it waits for the transfer; after a byte that the
host did not ask for, BF is still set and it does not wait at all. `ShiftSpec` holds
because of `Elapsed` alone, as its mutant shows.

`Eeprom` computes each byte as `EEPROM_Read` does, the strings first, then the
switch (`HeaderWord` is the field that the address falls into, `Header` its byte);
the checksum loop takes one word at a time; and the host reads the 64 words
through request 0x90, directly or through the mirror image above word 63, with
other requests in between. `ChecksumAccepted` recomputes the checksum from what the
host has read, with the rotation written as doubling modulo 2^16 - 1.
`Xor` is C's operator on 16 bits, place by place, since no proof can use the
module `Bitwise`. The descriptors are constants. `DescriptorsFit` assumes of them
that they are bytes and words and that the strings end below the checksum: nothing
in the code checks that, and a string over address 126 would hide the checksum.
`MCPeripherals` gives `Eeprom` the descriptors of `usb_descriptors.c`, which end at 76.
TLC evaluates the assumption for them, and `TableReverses`, which says that the
table of `jtag.c` reverses each of the 256 bytes.

## What is checked

Deadlock checking is off in the runs of `Blaster` and `EndpointHalt`: the models
stop when `MaxBytes` is used up and the bus is in a state that nothing leaves any
more, or when all packets are through and the host's requests used up. It is off in
`device_state`, where the host may leave the bus quiet for good. Liveness
properties check progress instead.

| Run | Configuration | Shows |
|---|---|---|
| `blaster_data` | `MCBlaster.cfg`: ring of 3, 4 bytes, commands 73 (TCK, nCS, read) and 194 (shift 2, read) | `TypeOK`; `ReceiveBuffersExclusive`; `ClockedByCommandsOnly`; `TransmitBufferStable`; `FifoSpec`: `Blaster` uses the ring as `TxFifo` says; `CpldSpec` |
| `blaster_reset` | `MCBlasterReset.cfg`: one bus reset anywhere, any number of suspends; ring of 2, one reply per packet, 3 bytes, commands 73 (TCK, nCS, read) and 129 (shift 1), one reply under way | `PingPongInStep`; `CpldSpec`; `PacketsKeepComing`; `WorkFinishes` |
| `blaster_full` | `MCBlasterFull.cfg`: ring of 3, 3 bytes, as many replies under way as the ring holds | `WorkFinishes` fails: a finding |
| `interrupted` | `MCInterrupted.cfg`: ring of 4, packets of up to 2, resets and configurations at any statement | `TypeOK`; `WildNeverUsed`; `AgreeBetweenPasses`; `PassEnds` |
| `reconfigure` | `MCReconfigure.cfg`: ring of 3, one SET_CONFIGURATION of a configured device in mid-pass | `PacketsKeepComing` fails: a finding |
| `controlep` | `MCControlEp.cfg`: packets of 2 bytes, 13 requests, 4 SETUPs, one lost handshake, one bus reset anywhere | `TypeOK`; `SetupAlwaysPossible`; `PointersInStep`; `AlwaysAnswered`; `TransferSpec`: `ControlEp` implements `ControlTransfer` |
| `controlep_drop` | `MCControlEpDrop.cfg`: the host may abandon SET_ADDRESS | `AddressAgreed` fails: a finding |
| `halt` | `MCHalt.cfg`: both endpoints, 3 OUT and 2 IN packets, one lost handshake, 2 halt requests anywhere | `TypeOK`; `ArmedWhereSieLooks`; `DeliveredOnce`; `NothingLost`; `RepliesKept`; `LinkRecovers` |
| `halt_stale` | `MCHaltStale.cfg`: EP2, one request | `NothingStale` fails: a finding |
| `halt_torn` | `MCHaltTorn.cfg`: EP2, one request | `ActiveEntry` fails: a finding |
| `device_state` | `MCDeviceState.cfg`: FIFO of 4 transactions, no other bound | `TypeOK`; `InSync`; `WakeUpAhead`; `WakesOnActivityOnly`; `WakesUp`; `ResetHandled`; `RequestServed` |
| `peripherals` | `MCPeripherals.cfg`: ring of 4, 2-bit indexes, packets and batches of up to 3, 3 reply values; the whole EEPROM image; bytes 1, 46 and 200 through a chain of 3 | `TypeOK`, `NoOverflow`, `IndexesAgree` of the ring; `QueueSpec`: `TxFifo` implements `TxQueue`; `ChecksumAccepted`; `StringsFound`; `ShiftSpec`: `JtagSpi` implements `ByteShift` |

Every property of a passing run has a mutant in `PROJECT.json`: an operator next
to the definition it replaces, marked *Fault*, under which the property fails.

### Bounds

The sizes keep the code's relations and shrink its numbers. `TXFIFO_SIZE = UINT8`
is the one relation that the code depends on. In `peripherals` and `blaster_data` packets
(`TX_MAX`, `OUT_MAX`) are smaller than the ring and do not divide it, so a packet
starts at every offset and wraps inside the ring. Four command bytes with packets of up to two
are enough for: both receive buffers used and the first used again, an empty
packet, a shift command at the end of a packet with its data in the next, a
shift longer than what is left, a batch that waits for room, a second IN packet.
`MaxResets = 1` puts one reset at every point, and three bytes, with packets of up to
two, give it a packet under way and one that follows, the ring of two a batch that
waits for room; a configuration wipes what the first one left, apart from `RxSize`,
`RxPtr`, `ValidPPB` and `Read`, which one reset exposes. `MaxBytes`, `MaxResets` and
`Window` are the only caps in guards.

`Interrupted` has no counter but `again`; resets and configurations are unbounded.
A ring of 4 with packets of 2 has a packet for each relation to the room: larger,
equal, smaller, and the truncated full ring. `DeviceState` is finite as it is: a
FIFO of 4 is the hardware's. In `MCPeripherals` the descriptors are the code's; none
of the three bytes is a palindrome or another's mirror image, so a reversal that is
missing or doubled shows, and a chain of 3 hands bits of one byte to the next.

In `ControlEp` a packet is 2 bytes, and `MCControlEp` has a control read for each
relation between what is asked, what there is and the packet size: nothing asked,
less than a packet, whole packets with and without more asked, a partial last
packet. Four SETUPs are enough to address, configure and then run any request
over the remains of any other. `TIMEOUT` is one
frame, so the timeout expires at every point. `MaxSetups`, `MaxLost`, `MaxResets`
cap the host, and `USTAT_DEPTH` is the hardware's FIFO.

In `EndpointHalt` three OUT packets use both descriptors and the first of them
again, with either toggle; two IN packets use both descriptors, the second of them
after the busy check. Two requests are SET and CLEAR on one endpoint, on two, or
CLEAR twice, at any position of the SIE and of the main loop: the second one can
mend what the first has torn. One lost handshake comes before, between or after
them. `MaxPackets`, `MaxReplies`, `MaxLost`, `MaxRequests` cap the host, the main
loop and the link.

### Fairness

`Fairness` is weak fairness of the main loop (`while(1)`, no blocking call in it
besides the SPI wait, which the hardware ends), of the timer, and of the host's
polling of EP1 (the FTDI driver keeps an IN request pending at all times,
`main.c:71-75`). Nothing obliges the host to send commands. `WorkFinishes` and
`PacketsKeepComing` are claimed only if the bus stays active (`<>[]BusActive`).

`FairSpec` of `Interrupted` is the same at its granularity, with the SPI module's
completion of a byte. `PacketsKeepComing` is claimed there for a device that stays
configured; `PassEnds` is claimed whatever the interrupt does.

`FairSpec` of `DeviceState` obliges the CPU to go on, in `main()` and in the
interrupt routine, the line to rise once the pull-up is on, and a reset that has
begun to be detected and to end. The host need not do anything else: it may never
become active again, and a suspended device may stay so.

`FairSpec` of `EndpointHalt` is weak fairness of the interrupt, of the main loop and
of the host's transfers (the FTDI driver polls EP1; a host that has a packet for
EP2 retries it), and of nothing that loses a handshake or makes a request. The
main loop's fairness takes a call of `USBTransferOnePacket` to its end; `MainTx` is
fair because of the keep-alive packets. `LinkRecovers` lets an endpoint whose STALL
the host has seen, or whose transfer a request has torn, wait for CLEAR_FEATURE.

### Findings

* `blaster.c:646` assigns the 16-bit fill count to a `uint8_t`. With exactly 256
  replies in the ring it becomes 0, the TX part sends keep-alive packets as if
  the FIFO were empty, the JTAG part finds no room, and both stay so until the
  next configuration. `blaster_full` shows it; `WorkFinishes` in `blaster_reset` shows
  that one reply less is enough to avoid it.
* `jtag.c:93`: SET_CONFIGURATION of a device that is configured already, which
  USB 2.0 allows, runs `USB_Ept_Init` in the interrupt, and that switches the SPI
  module off (`blaster.c:206`). If the main task is between `JTAG_SPI_Put` and
  `JTAG_SPI_Wait`, the byte is never completed and the wait never ends: no packet is
  sent any more, although `main.c:71-75` promises one every 10 ms. `reconfigure` shows
  it. After a bus reset it cannot happen, as `interrupted` shows.
* `usb_device.c:2920`: CLEAR_FEATURE(ENDPOINT_HALT) on an armed EP2, which a host
  sends without a halt to restart the data toggle, clears UOWN. The main loop
  takes the descriptor for a completed packet of 64 bytes and executes what is
  left in the buffer. The stack reports EVENT_TRANSFER_TERMINATED with the handle
  for this purpose; `main.c:197` ignores it. `halt_stale` shows it. `DeliveredOnce`
  and `NothingLost` hold nevertheless for the packets that are real.
* `usb_device.c:1044`: `USBTransferOnePacket` sets UOWN (line 1033) and advances the
  pointer afterwards, with the USB interrupt enabled. A CLEAR_FEATURE(ENDPOINT_HALT)
  that is handled between the two takes the descriptor back and sets the pointer to
  it; the main loop then advances the pointer to the other one. The next transfer
  arms a descriptor that the SIE does not look at: the endpoint answers NAK until
  another CLEAR_FEATURE or a configuration. `halt_torn` shows it: `ActiveEntry` is the
  comment `usb_device.c:2837-2839` between transfers. No packet is lost or taken
  twice by it (`DeliveredOnce`, `NothingLost`), the endpoint only goes dead.
* `usb_device.c:2607`: ADR_PENDING_STATE survives a SETUP that abandons
  SET_ADDRESS before its status stage. The first IN transaction of the next
  transfer then makes the device take the low byte of that request's `wValue` as
  its address. `controlep_drop` shows it: SET_ADDRESS, abandoned for a control
  read, whose first data packet changes the address.

One more observation has no run: `usb_device.c:1031`, a halt that is set while the
endpoint's next descriptor is not armed (`usb_device.c:2862`) does not hold, since
`USBTransferOnePacket` keeps only the DTS bit of STAT. What `EndpointHalt` checks is
what a halt does to the packets, whether it holds or not.

## What is proved

`TxFifoProofs` proves, from `FifoAssumption` alone (the ring is as large as the
8-bit index range and smaller than the 16-bit one, packets are not empty):

* `TypeCorrect`: `Spec => []TypeOK`;
* `NeverOverflows`: `Spec => []NoOverflow`;
* `IndexesAlwaysAgree`: `Spec => []IndexesAgree`;
* `FifoIsQueue`: `Spec => QueueSpec`, `TxFifo` implements `TxQueue`.

None of the first three is inductive alone. The inductive invariant is `FifoInv`,
their conjunction: `TXFIFO_Read` keeps the occupancy from wrapping below zero
because `TxSize` is at most the occupancy, which holds only below 2^8; `Room` is
the true room only while there is no overflow; and the batch counter keeps the
promise of the room check alive until the last byte of the batch. The lemmas state
the modular arithmetic of the code (`IndexStep`, `IndexTake`), what the room check
grants (`RoomIsFree`) and what a packet takes (`TxSizeBounds`).

`FifoIsQueue` maps the queue to `Held`, the replies between the read and the write
index. Under `FifoInv` each step of the ring is a step of the queue or a stutter: a
write appends, because it lands in a slot that holds nothing unsent (`ModOffset`,
`ModDistinct`, `WriteAppends`); a read takes the first `TxSize` replies and leaves
the others in order (`ReadTakes`); the initialisation is `Forget`. TLC checks the
same formulas in `peripherals`.

`BlasterProofs`, from `BlasterAssumption` (the ring is as large as the 8-bit index
range and smaller than the 16-bit one, packets are not empty, a packet's replies
fit the 16-bit counter, commands are bytes):

* `TypeCorrect`; `AlwaysInStep`: `PingPongInStep`; `BuffersAlwaysExclusive`:
  `ReceiveBuffersExclusive`; `BufferStable`: `TransmitBufferStable`;
  `OnlyCommandsClock`: `ClockedByCommandsOnly`;
* `UsesFifo`: `Spec => FifoSpec`. Every step of the main task is a step of `TxFifo` or
  leaves the ring alone, so what is proved of the ring from `FifoAssumption` holds in
  the main task.

The inductive invariant `BlasterInv` has five parts. `InPart` and `OutPart`: an
endpoint is free, or busy with one descriptor, the SIE's, the pointer ahead and the
handle that the main task polls on it (`Free`, `Busy`, `Handed`); a null
handle is left only by a reset, and RX handling runs once at most before it
would read through one. `CmdPart`: TCK is low wherever the SPI module drives it or is
about to, and the two loops run only with bytes left. `CountPart`: bytes done,
left and not yet fetched are at most the bytes sent. `FifoPart`: the ring's types.

* `FirmwareIsCpld`: `Spec => CpldSpec`. `CpldInv` adds to
  `BlasterInv` the invariant of `TxFifoProofs`, instantiated for the ring of the main
  task, and `ModePart`: after a configuration no command is looked at before
  RX handling has reset `RxSize`, and in bit-bang mode no byte of a shift is left
  over. Each action is then one step of `Cpld` or shows nothing there: a packet
  received appends to `Current \o Waiting`, one turn of either loop takes the first
  command of it and appends its reply to `InFlight \o Queued` (`WriteAppends`), TX
  handling only moves replies from the ring to the packet (`ReadTakes`), a
  packet delivered takes it from the front. The truncated fill count of
  `blaster.c:646` does no harm here: it delays replies, which a finding above
  is about, and loses none.

`InterruptedProofs`, from `InterruptedAssumption`:

* `TypeCorrect`, and `NeverWild`: `WildNeverUsed`. The invariant adds `WildInv`: while
  the device is configured no pointer is wild or null, a handle that is tested is
  no wild one, and between the test and the advance the copy is a descriptor.
* `AlwaysAgree`: `AgreeBetweenPasses`, if `Again = 0`; TLC finds it violated with
  `Again = 1`. The invariant `AgreeInv` follows a transfer through the statements of
  `USBTransferOnePacket`: the endpoint is free, handed over (UOWN set, pointer
  not advanced), possibly served by the SIE already (the SIE's position
  advances before the software's), busy.

`HaltProofs`, from `HaltAssumption`:

* `TypeCorrect`, and `ArmedUnlessTorn`: `ArmedWhereSieLooks`. The invariant follows
  each endpoint through the statements of a transfer (`Part`, and `InStepAt` for an
  endpoint that is not torn): free, busy or halted with the handle in step between
  transfers, then with the descriptor written but not owned, owned with the pointer
  still behind, perhaps served by the SIE already, and each of these also as a halt
  request may have left it; only the descriptor that the main loop polls can be
  armed while the endpoint is torn (`OnlyPolled`). And the software's copy of the
  ping-pong state equals the SIE's exactly if an even number of its transactions
  waits in USTAT (`Lags`). A SETUP is the last entry there (`SetupLast`: PKTDIS holds up
  what follows), so the copy has caught up when a halt request uses it. That is why
  CLEAR_FEATURE finds the right descriptor, and why only the advance of a call that
  is already past the setting of UOWN can spoil it.
* `InOrder`: `DeliveredOnce`; `NoneMissing`: `NothingLost`; `Replies`: `RepliesKept`.
  `LinkInv` rests on the first invariant and says of the packets: the toggles of
  an endpoint's two descriptors differ (`Alternates`); SIE and host agree on the
  toggle of the next OUT packet but after a lost handshake (`OutToggle`), and
  then the packet is delivered already (`OutNumbers`); only the buffer of `Rx_State`
  can hold a packet, and it is empty while its descriptor is armed (`OutBuffers`), so
  nothing is overwritten; an IN packet that the host would take is newer than all
  that it has (`InInv`); and as long as there is no halt request, all replies have
  arrived when nothing is armed (`RepliesInv`). CLEAR_FEATURE keeps this because it
  leaves the two descriptors with DATA0 for the active one and DATA1 for the other,
  and takes both back.

`DeviceStateProofs`, from `DeviceAssumption`:

* `TypeCorrect`; `AlwaysWakeable`: `WakeUpAhead`; `WokenByActivityOnly`:
  `WakesOnActivityOnly`. `AwakeInv` follows SUSPND, ACTVIE and
  `USBBusIsSuspended` through the routine; it says that the one ACTVIF of an idle
  period is still to come or set, also while IDLEIF waits to be handled, that the bus
  is silent before `main()` reaches its loop, and that what the attached state
  discards is not a suspended module's flag. `FreshInv` says that an ACTVIF that is set
  belongs to the activity of now, because the routine's loop has cleared the one
  before.
* `DeviceInSync`: `InSync`. `SyncInv` says what the device will be when the transactions
  in the FIFO have been served: `Addressing` follows SET_ADDRESS, which takes effect
  with its status stage, `Configuring` a SET_CONFIGURATION, which takes effect with
  its SETUP, and `EndsWith` and `AllIn` say where in the FIFO these can be. In a
  reset that is still to be handled nothing of this holds; `USBDeviceInit` empties the
  FIFO (`Cleared`), so what was left of the old address is never served under the
  new one.

`ControlEpProofs`, from `ControlAssumption` (there is a request; reads go to the host,
and a request of another kind that the device knows has no data stage), for every
packet size, timeout, set of requests and number of SETUPs, lost handshakes and
resets:

* `TypeCorrect`; `SetupPossible`: `SetupAlwaysPossible`; `Pointers`: `PointersInStep`;
* with a host that does not abandon a SET_ADDRESS (`~DropsAddress`, as in
  `controlep`): `Answered`: `AlwaysAnswered`; `EndpointIsTransfer`: `TransferSpec`;
  `AddressTaken`: `AddressAgreed`, which TLC finds violated with `DropsAddress`.

The inductive invariant `EpInv` rests on one observation: wherever the host is, at
most three transactions wait in USTAT, in a fixed order, an IN of the running
transfer, the OUT of its status stage and the SETUP of the next transfer
(`QueuePart`). Which of them are there can be read off the positions of the SIE. So
the four descriptors have few shapes (`OutPart`, `InPart`): of the two for OUT the next
one is armed unless a SETUP waits, and while it is for a status packet the one
behind it is armed for the SETUP. `ReadPart` is
the arithmetic of a control read: bytes sent and bytes left add up to what was
asked for, and host and device differ by the packet under way. `AddressPart` is the
only part that needs `~DropsAddress`. The lemmas give, for each function of the code,
the descriptors that it leaves.

`JtagSpiProofs`, from `SpiAssumption` (the host's bytes are bytes, the chain has a
register):

* `ShiftsAsDescribed`: `ShiftSpec`, for every chain and all bytes. The table enters
  through three facts about each of its entries, which the prover compares one by
  one: the lowest bit of the mirror is the highest of the byte (`TableBytes`),
  reversing twice gives the byte back (`TableTwice`), and a shift to the left with a
  bit from TDO is in the mirror a shift to the right (`TableShift`). The invariant
  `SpiInv` adds that SSPBUF holds what the register holds while the module rests.
  BF is in no part of it: the byte that is read is the right one because of `Elapsed`
  alone.

`EepromProofs`, from `DescriptorsFit`, for all contents of the descriptors:

* `StringsAlwaysFound`: `StringsFound`. The invariant `RomInv` says that what the host
  has read are the words of the image under the one checksum, because it reads
  only when the loop is done (`LoopInv`), and either mirror has the same address
  (`NextAddress`). The rest is the layout (`Layout`, `Positions`): of the ranges that
  `EEPROM_Read` tests in turn, the first that holds is that of the string
  (`ReadsString`), and header and checksum lie in none (`ReadsHeader`). That the
  pointers and sizes survive as bytes (`Pointer`, `WordOfBytes`) is a consequence of the
  strings' ending below 126.
* `ChecksumAlwaysAccepted`: `ChecksumAccepted`. `Expected`, the driver's sum, is recursive
  over the words, and no induction over them is possible. The invariant `SumInv`
  replaces it by the induction over the steps of the firmware's own loop: after `n`
  turns there is a sequence of `n` sums (`Chain`), and each such sequence ends in
  `eeprom_checksum`. A turn extends the sequence (`ChainExtended`, `ChainSplit`).
  When the image has been read, a sequence solves the equation that defines
  `Expected`, so `Expected` is one, and it ends in the last word (`ExpectedIsChecksum`).
  This needs that no word but the last depends on the checksum (`ReadsData`), that the
  last one is it (`LastWord`), and that the rotation with the 16-bit shift of the code
  is doubling modulo 2^16 - 1 (`RotatedDoubled`).

Every safety property and every refinement of the passing runs is proved. Only
model-checked is liveness under fairness (`WorkFinishes`, `PacketsKeepComing`, `PassEnds`,
`LinkRecovers`, `WakesUp`, `ResetHandled`, `RequestServed`), which the prover does not
do; it stays with TLC.

## Not modelled

* What a store through the broken pointer of `usb_device.c:1044` would overwrite:
  it never happens (`NeverWild`).
* Remote wakeup, soft detach and the OTG features among the feature requests,
  which this firmware does not use; a bus reset or a new configuration together
  with an endpoint halt: both start from the state of `Init`, which `Blaster` reaches
  through a reset.
* OUT data stages on EP0 and deferred stages: no request of this firmware has one
  (`USBEP0Receive` and `USBDefer...` are not called). Handshakes lost in a status
  stage: host and device disagree about the end of the transfer, which USB 2.0
  leaves to a timeout of the host.
* Instruction timing (the models assume what *JtagSpi* and *Interrupted* say of the
  8 cycles), analog and oscillator set-up, the USART of the debug build, the PIC18
  variant of the timer (same flag, other register).
* The descriptors as data: what `EEPROM_Read` uses of them are constants of `Eeprom`, the
  rest is bytes that a control read sends.
* `usb_device_generic.c` is empty after preprocessing. The host stack, OTG, class
  drivers and their headers make up most of `mla/`; they are vendored, nothing in
  the firmware calls them and no object of them is linked. `kits/` is a pin-out.

## Plan

Done: the data path (`TxFifo`, `UsbBdt`, `Blaster`) and its preemption
(`Interrupted`), endpoint 0 (`ControlEp`), the device state machine (`DeviceState`),
the lossy link and endpoint halt (`EndpointHalt`), the SPI module and the EEPROM
(`JtagSpi`, `Eeprom`); the proofs listed above, which cover every safety property
and refinement of the runs. Left: remote wakeup and soft detach in `DeviceState`,
if the firmware ever uses them.
