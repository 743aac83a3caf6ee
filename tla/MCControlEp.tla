---------------------------- MODULE MCControlEp ----------------------------
\* Requests for the model checker: packets of two bytes; reads of nothing, of
\* less than a packet, of whole packets, of more than there is and of less.
EXTENDS ControlEp

Ask(kind, in, wLength, avail, value) ==
    [kind |-> kind, in |-> in, wLength |-> wLength, avail |-> avail,
     value |-> value]

Reads == { Ask("read", TRUE, 0, 3, 0), Ask("read", TRUE, 3, 3, 0),
           Ask("read", TRUE, 4, 4, 2), Ask("read", TRUE, 5, 4, 0),
           Ask("read", TRUE, 4, 1, 0), Ask("read", TRUE, 3, 5, 0) }
NoData == { Ask("address", FALSE, 0, 0, 1), Ask("config", FALSE, 0, 0, 1),
            Ask("config", FALSE, 0, 0, 0), Ask("write", FALSE, 0, 2, 0) }
Unknown == { Ask("unknown", TRUE, 1, 0, 0), Ask("unknown", FALSE, 1, 0, 0),
             Ask("unknown", FALSE, 0, 0, 0) }

MCRequests == Reads \cup NoData \cup Unknown

\* One request of each kind that ends differently.
MCFewRequests ==
    { Ask("read", TRUE, 4, 4, 2), Ask("read", TRUE, 5, 4, 0),
      Ask("address", FALSE, 0, 0, 1), Ask("config", FALSE, 0, 0, 1),
      Ask("unknown", TRUE, 1, 0, 0) }
=============================================================================
