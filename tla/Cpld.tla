-------------------------------- MODULE Cpld --------------------------------
(***************************************************************************)
(* What the firmware promises, after the description at the head of        *)
(* main.c: the CPLD of Altera's USB-Blaster as a machine that processes    *)
(* one command byte after another and queues one reply byte for each       *)
(* command that asks for one.  There are no packets, buffers, endpoints or *)
(* pins drivers here.                                                      *)
(*                                                                         *)
(* A sampled reply (TDO, or the byte that the shift register captured) is  *)
(* abstracted by the serial number of the command that took the sample; a  *)
(* shift with nCS low replies Ones, the pins being assumed high.           *)
(***************************************************************************)
EXTENDS Naturals, Sequences

VARIABLES inp,     \* command bytes received and not processed
          out,     \* replies queued and not received by the host
          host,    \* the replies in the last packet that the host received
          done,    \* number of command bytes processed (history)
          up,      \* the device is configured
          count,   \* bytes left in byte shift mode; 0 in bit bang mode
          readBit, \* the Read bit
          nCS,
          pins     \* TCK, TMS, TDI and LED

vars == <<inp, out, host, done, up, count, readBit, nCS, pins>>

Bit(b, mask) == (b \div mask) % 2

Ones == 0

Init ==
    /\ inp = <<>> /\ out = <<>> /\ host = <<>> /\ done = 0
    /\ up = FALSE
    /\ count = 0 /\ readBit = 0
    /\ nCS \in {0, 1}
    /\ pins = [TCK |-> 0, TMS |-> 1, TDI |-> 0, LED |-> 0]

Record(read, reply) == out' = IF read = 1 THEN Append(out, reply) ELSE out

\* The next command byte is processed.
Consume ==
    /\ inp # <<>>
    /\ inp' = Tail(inp)
    /\ done' = done + 1
    /\ UNCHANGED <<host, up>>

\* Bit bang mode, bit 7 clear: set the pins, then sample if Read is set.
SetPins ==
    /\ Consume
    /\ LET b == Head(inp)
       IN  /\ count = 0 /\ Bit(b, 128) = 0
           /\ readBit' = Bit(b, 64)
           /\ pins' = [TCK |-> Bit(b, 1), TMS |-> Bit(b, 2),
                       TDI |-> Bit(b, 16), LED |-> Bit(b, 32)]
           /\ nCS' = Bit(b, 8)
           /\ Record(Bit(b, 64), done')
    /\ UNCHANGED count

\* Bit bang mode, bit 7 set: the coming bytes are shifted.
EnterShift ==
    /\ Consume
    /\ LET b == Head(inp)
       IN  /\ count = 0 /\ Bit(b, 128) = 1
           /\ readBit' = Bit(b, 64)
           /\ count' = b % 64
    /\ pins' = [pins EXCEPT !.TCK = 0]
    /\ UNCHANGED <<out, nCS>>

\* Byte shift mode: one byte through the shift register.
Shift ==
    /\ Consume
    /\ count > 0
    /\ count' = count - 1
    /\ Record(readBit, IF nCS = 1 THEN done' ELSE Ones)
    /\ UNCHANGED <<readBit, nCS, pins>>

\* The host sends commands.
Receive ==
    /\ up
    /\ Len(inp') > Len(inp)
    /\ SubSeq(inp', 1, Len(inp)) = inp
    /\ UNCHANGED <<out, host, done, up, count, readBit, nCS, pins>>

\* The host receives the oldest replies, possibly none.
Deliver ==
    /\ up
    /\ \E n \in 0..Len(out) :
          /\ host' = SubSeq(out, 1, n)
          /\ out' = SubSeq(out, n + 1, Len(out))
    /\ UNCHANGED <<inp, done, up, count, readBit, nCS, pins>>

\* While the device is not configured, commands and replies may be lost: the
\* newest commands and the oldest replies first.
Lose ==
    /\ up' = FALSE
    /\ \E n \in 0..Len(inp) : inp' = SubSeq(inp, 1, n)
    /\ \E n \in 0..Len(out) : out' = SubSeq(out, n + 1, Len(out))
    /\ UNCHANGED <<host, done, count, readBit, nCS, pins>>

\* A configuration starts the machine afresh; the pins keep their levels.
Restart ==
    /\ up' = TRUE
    /\ inp' = <<>> /\ out' = <<>>
    /\ count' = 0 /\ nCS' = 1
    /\ UNCHANGED <<host, done, readBit, pins>>

Next == SetPins \/ EnterShift \/ Shift \/ Receive \/ Deliver \/ Lose \/ Restart

Spec == Init /\ [][Next]_vars
=============================================================================
