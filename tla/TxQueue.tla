------------------------------ MODULE TxQueue ------------------------------
(***************************************************************************)
(* What the transmit FIFO of blaster.c promises: a bounded queue of reply  *)
(* bytes.  Replies leave in the order in which they were put, each once,   *)
(* and never more than the capacity are held.                              *)
(***************************************************************************)
EXTENDS Naturals, Sequences

CONSTANTS Reply,     \* the values a reply byte may have
          Capacity   \* how many replies the queue holds

VARIABLES queue,     \* the replies not sent yet, oldest first
          packet     \* the replies of the last packet taken from the queue

vars == <<queue, packet>>

Init == queue = <<>> /\ packet = <<>>

Put == \E d \in Reply :
          /\ Len(queue) < Capacity
          /\ queue' = Append(queue, d)
          /\ UNCHANGED packet

Take == \E n \in 1..Len(queue) :
          /\ packet' = SubSeq(queue, 1, n)
          /\ queue' = SubSeq(queue, n + 1, Len(queue))

\* A new configuration forgets the replies that were not sent.
Forget == queue' = <<>> /\ UNCHANGED packet

Next == Put \/ Take \/ Forget

Spec == Init /\ [][Next]_vars
=============================================================================
