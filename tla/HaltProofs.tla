------------------------------ MODULE HaltProofs ------------------------------
(***************************************************************************)
(* Software and SIE look at the same descriptor of a bulk endpoint unless  *)
(* a request tears a transfer, and no packet is taken twice, out of order  *)
(* or not at all, wherever a halt is set or cleared and whatever           *)
(* handshakes are lost, for any number of packets, requests and losses.    *)
(*                                                                         *)
(* The requests act on the software's copy of the ping-pong state, which   *)
(* lags behind the SIE by the transactions that still wait in the FIFO     *)
(* (HaltInv).  On it rests the invariant of the packets (LinkInv).         *)
(***************************************************************************)
EXTENDS EndpointHalt, SequenceTheorems, TLAPS
-----------------------------------------------------------------------------
(***************************************************************************)
(* The states of an endpoint e whose caller polls the handle h: nothing    *)
(* armed, a packet armed, halted; only the SIE's descriptor may be owned.  *)
(***************************************************************************)
Alone(e)   == ~e.bd[1 - e.sie].uown
Free(e)    == ~e.bd[e.sie].uown /\ e.next = e.sie
Busy(e, h) == e.bd[e.sie].uown /\ e.next = 1 - e.sie /\ h = e.sie
Halted(e)  == e.bd[e.sie].uown /\ e.bd[e.sie].stall /\ e.next = e.sie

InStep(e, h) == Alone(e) /\ (Free(e) \/ Busy(e, h) \/ Halted(e))

\* UOWN of the descriptor n is set and the pointer not yet advanced: the SIE
\* has it, or is through with it already.
Handed(e, n) == Alone(e) /\ e.bd[e.sie].uown /\ e.next = e.sie /\ n = e.sie
Served(e, n) ==
    Alone(e) /\ ~e.bd[e.sie].uown /\ e.next = 1 - e.sie /\ n = 1 - e.sie

\* The statements before UOWN is set, those after it, those with a local handle.
Before == {"fetch", "fill", "own"}
After  == {"advance", "return"}
Places == {"loop"} \cup Before \cup After
Inside == {"fill", "own", "advance", "return"}

\* An endpoint that is not torn, its transfer with the local handle n at s.
InStepAt(s, e, h, n) ==
    /\ s = "loop" => InStep(e, h)
    /\ s \in Before => Alone(e) /\ e.next = e.sie
    /\ s \in {"fill", "own"} => n = e.sie
    /\ s = "advance" => Handed(e, n) \/ Served(e, n)
    /\ s = "return" => InStep(e, n)

\* Torn or not, the SIE can only have the descriptor that the caller polls.
Ready(e, i) == e.bd[i].uown /\ ~e.bd[i].stall
OnlyPolled(s, e, h, n) ==
    \A i \in {0, 1} : Ready(e, i) =>
        /\ s \notin Before
        /\ s \in After => i = n
        /\ s = "loop" => i = h

Part(s, e, h, n, t) ==
    OnlyPolled(s, e, h, n) /\ (t \/ InStepAt(s, e, h, n))

\* An odd number of transactions of d waits in the FIFO s, of four entries.
Waits(s, d, i) == i \in 1..Len(s) /\ s[i] = <<"DATA", d>>
Odd(s, d) ==
    ~(   (Waits(s, d, 1) <=> Waits(s, d, 2))
      <=> (Waits(s, d, 3) <=> Waits(s, d, 4)))

\* The data toggle of the SIE's next transaction, and of the one after it.
Toggle(e) == e.bd[e.sie].dts
Alternates(e) == e.bd[1 - e.sie].dts # e.bd[e.sie].dts

Lags(d) == (ep_data[d].ping_pong_state = ep[d].sie) <=> ~Odd(USTAT, d)

\* A SETUP packet holds up everything that would come after it.
SetupLast ==
    \A i \in 1..Len(USTAT) : USTAT[i] \in Requests => i = Len(USTAT) /\ PKTDIS

\* Where the main loop is with the endpoint d.
At(d) == IF dir = d THEN pc ELSE "loop"

\* Before the first transfer nothing is polled.
RxInit == Rx_State = INIT => handle["out"] = NULL /\ At("out") = "loop"

HaltInv ==
    /\ \A d \in {"out", "in"} :
          Part(At(d), ep[d], handle[d], entry, torn[d]) /\ Lags(d)
    /\ SetupLast /\ RxInit

\* What the types of the counters rest on: a packet under way is a written one.
Pending(d) == At(d) \in Before
CountInv ==
    /\ tried => number <= MaxPackets
    /\ Pending("in") \/ SieReady(ep["in"]) => written > 0
-----------------------------------------------------------------------------
(***************************************************************************)
(* The FIFO.                                                               *)
(***************************************************************************)
Entries == Transactions \cup Requests

LEMMA OddAppend ==
    ASSUME NEW s \in Seq(Entries), Len(s) < 4, NEW x \in Entries, NEW d
    PROVE  Odd(Append(s, x), d) <=> ~(Odd(s, d) <=> x = <<"DATA", d>>)
<1> DEFINE t == Append(s, x)
           m == <<"DATA", d>>
<1>0. PICK n \in 0..3 : n = Len(s)
  <2>1. PICK n \in Nat : n = Len(s)
    OBVIOUS
  <2>2. n < 4
    BY <2>1
  <2>3. QED
    BY <2>1, <2>2
<1>1. /\ Len(t) = n + 1 /\ t[n + 1] = x
      /\ \A i \in 1..n : t[i] = s[i]
  BY <1>0
<1> HIDE DEF t, m
<1>2. /\ \A i \in 1..n : Waits(t, d, i) <=> Waits(s, d, i)
      /\ Waits(t, d, n + 1) <=> x = m
      /\ \A i \in (n + 2)..4 : ~Waits(t, d, i)
      /\ \A i \in (n + 1)..4 : ~Waits(s, d, i)
  BY <1>0, <1>1 DEF Waits, m
<1>3. CASE n = 0
  BY <1>2, <1>3 DEF Odd, t, m
<1>4. CASE n = 1
  BY <1>2, <1>4 DEF Odd, t, m
<1>5. CASE n = 2
  BY <1>2, <1>5 DEF Odd, t, m
<1>6. CASE n = 3
  BY <1>2, <1>6 DEF Odd, t, m
<1>7. QED
  BY <1>1, <1>3, <1>4, <1>5, <1>6

LEMMA OddTail ==
    ASSUME NEW s \in Seq(Entries), s # <<>>, Len(s) <= 4, NEW d
    PROVE  Odd(Tail(s), d) <=> ~(Odd(s, d) <=> Head(s) = <<"DATA", d>>)
<1> DEFINE t == Tail(s)
           m == <<"DATA", d>>
<1>0. PICK n \in 1..4 : n = Len(s)
  <2>1. PICK n \in Nat : n = Len(s)
    OBVIOUS
  <2>2. n <= 4 /\ n # 0
    BY <2>1, EmptySeq
  <2>3. QED
    BY <2>1, <2>2
<1>1. /\ Len(t) = n - 1 /\ Head(s) = s[1]
      /\ \A i \in 1..(n - 1) : t[i] = s[i + 1]
  BY <1>0
<1> HIDE DEF t, m
<1>2. /\ \A i \in 1..(n - 1) : Waits(t, d, i) <=> Waits(s, d, i + 1)
      /\ Waits(s, d, 1) <=> Head(s) = m
      /\ \A i \in n..4 : ~Waits(t, d, i)
      /\ \A i \in (n + 1)..4 : ~Waits(s, d, i)
  BY <1>0, <1>1 DEF Waits, m
<1>3. CASE n = 1
  BY <1>2, <1>3 DEF Odd, t, m
<1>4. CASE n = 2
  BY <1>2, <1>4 DEF Odd, t, m
<1>5. CASE n = 3
  BY <1>2, <1>5 DEF Odd, t, m
<1>6. CASE n = 4
  BY <1>2, <1>6 DEF Odd, t, m
<1>7. QED
  BY <1>1, <1>3, <1>4, <1>5, <1>6
-----------------------------------------------------------------------------
(***************************************************************************)
(* The operations on an endpoint.                                          *)
(***************************************************************************)
Ep == [bd : [{0, 1} -> Descriptors(1, {0, 1})], next : {0, 1}, sie : {0, 1},
       enabled : BOOLEAN]
Status == [ping_pong_state : {0, 1}, transfer_terminated : BOOLEAN]

Filled(e, n, b) ==
    [e EXCEPT !.bd[n] = [@ EXCEPT !.buf = b, !.cnt = 1, !.stall = FALSE,
                                  !.uown = FALSE]]
Owned(e, n) == [e EXCEPT !.bd[n].uown = TRUE]
Advanced(e) == [e EXCEPT !.next = 1 - @]

LEMMA EpTypes ==
    ASSUME NEW e \in Ep
    PROVE  /\ e.sie \in {0, 1} /\ 1 - e.sie \in {0, 1} /\ e.sie # 1 - e.sie
           /\ 1 - (1 - e.sie) = e.sie
           /\ e.next \in {0, 1} /\ e.enabled \in BOOLEAN
           /\ e.bd \in [{0, 1} -> Descriptors(1, {0, 1})]
           /\ \A i \in {0, 1} :
                 /\ e.bd[i].uown \in BOOLEAN /\ e.bd[i].stall \in BOOLEAN
                 /\ e.bd[i].dts \in {0, 1} /\ e.bd[i].buf \in {0, 1}
<1>1. /\ e.sie \in {0, 1} /\ e.next \in {0, 1} /\ e.enabled \in BOOLEAN
      /\ e.bd \in [{0, 1} -> Descriptors(1, {0, 1})]
  BY DEF Ep
<1>2. \A i \in {0, 1} : e.bd[i] \in Descriptors(1, {0, 1})
  BY <1>1
<1>3. QED
  BY <1>1, <1>2 DEF Descriptors

\* A transfer begins when the polled descriptor is not busy: nothing is armed.
LEMMA CallPart ==
    ASSUME NEW e \in Ep, NEW h \in {0, 1, NULL}, NEW n, NEW m,
           NEW t \in BOOLEAN, Part("loop", e, h, n, t), ~USBHandleBusy(e, h)
    PROVE  Part("fetch", e, h, m, t) /\ ~SieReady(e)
<1>1. /\ e.sie \in {0, 1} /\ e.sie # 1 - e.sie /\ 0 # NULL /\ 1 # NULL
  BY EpTypes DEF NULL
<1>2. \A i \in {0, 1} : ~Ready(e, i)
  BY <1>1 DEF Part, OnlyPolled, Ready, USBHandleBusy
<1>3. ~SieReady(e) /\ OnlyPolled("fetch", e, h, m)
  BY <1>1, <1>2 DEF SieReady, OnlyPolled, Ready
<1>4. ~t => InStepAt("fetch", e, h, m)
  BY <1>1 DEF Part, InStepAt, InStep, Free, Busy, Halted, USBHandleBusy, Before
<1>5. QED
  BY <1>3, <1>4 DEF Part

LEMMA FetchPart ==
    ASSUME NEW e \in Ep, NEW h, NEW n, NEW t \in BOOLEAN,
           Part("fetch", e, h, n, t)
    PROVE  Part("fill", e, h, e.next, t)
BY DEF Part, OnlyPolled, InStepAt, Before, After

LEMMA FillPart ==
    ASSUME NEW e \in Ep, NEW h, NEW n \in {0, 1}, NEW t \in BOOLEAN,
           NEW b \in {0, 1}, Part("fill", e, h, n, t)
    PROVE  LET f == Filled(e, n, b)
           IN  /\ f \in Ep /\ f.sie = e.sie /\ f.enabled = e.enabled
               /\ Part("own", f, h, n, t)
               /\ Toggle(f) = Toggle(e) /\ (Alternates(f) <=> Alternates(e))
               /\ ~SieReady(e) /\ ~SieReady(f) /\ f.bd[n].buf = b
               /\ \A i \in {0, 1} : ~e.bd[i].stall => ~f.bd[i].stall
<1> DEFINE f == Filled(e, n, b)
           x == [e.bd[n] EXCEPT !.buf = b, !.cnt = 1, !.stall = FALSE,
                                !.uown = FALSE]
<1>1. /\ e.sie \in {0, 1} /\ 1 - e.sie \in {0, 1} /\ e.sie # 1 - e.sie
      /\ e.bd \in [{0, 1} -> Descriptors(1, {0, 1})]
  BY EpTypes
<1>2. /\ x \in Descriptors(1, {0, 1}) /\ ~x.uown /\ ~x.stall
      /\ x.dts = e.bd[n].dts /\ x.buf = b
  <2>1. e.bd[n] \in Descriptors(1, {0, 1}) /\ 1 \in 0..1
    BY <1>1
  <2>2. QED
    BY <2>1 DEF Descriptors
<1>3. f = [e EXCEPT !.bd = [@ EXCEPT ![n] = x]]
  BY DEF Filled
<1> HIDE DEF f, x
<1>4. /\ f.bd[n] = x /\ \A i \in {0, 1} : i # n => f.bd[i] = e.bd[i]
      /\ f.next = e.next /\ f.sie = e.sie /\ f.enabled = e.enabled /\ f \in Ep
  BY <1>1, <1>2, <1>3 DEF Ep
<1>5. \A i \in {0, 1} : ~Ready(e, i) /\ ~Ready(f, i)
  BY <1>2, <1>4 DEF Part, OnlyPolled, Ready, Before
<1>6. OnlyPolled("own", f, h, n) /\ ~SieReady(e) /\ ~SieReady(f)
  BY <1>1, <1>4, <1>5 DEF OnlyPolled, SieReady, Ready
<1>7. \A i \in {0, 1} : /\ f.bd[i].dts = e.bd[i].dts
                        /\ f.bd[i].uown => e.bd[i].uown
                        /\ ~e.bd[i].stall => ~f.bd[i].stall
  BY <1>2, <1>4
<1>8. ~t => InStepAt("own", f, h, n)
  BY <1>1, <1>4, <1>7 DEF Part, InStepAt, Before, Alone
<1>9. QED
  BY <1>1, <1>2, <1>4, <1>6, <1>7, <1>8 DEF Part, Toggle, Alternates, f

\* The SIE has a descriptor only if it is the local handle's.
LEMMA OwnPart ==
    ASSUME NEW e \in Ep, NEW h, NEW n \in {0, 1}, NEW t \in BOOLEAN,
           Part("own", e, h, n, t)
    PROVE  LET f == Owned(e, n)
           IN  /\ f \in Ep /\ f.sie = e.sie /\ f.enabled = e.enabled
               /\ Part("advance", f, h, n, t)
               /\ Toggle(f) = Toggle(e) /\ (Alternates(f) <=> Alternates(e))
               /\ ~SieReady(e) /\ (SieReady(f) => f.sie = n)
               /\ \A i \in {0, 1} : /\ f.bd[i].buf = e.bd[i].buf
                                    /\ f.bd[i].stall = e.bd[i].stall
               /\ e.enabled /\ ~t /\ ~e.bd[n].stall => SieReady(f)
<1> DEFINE f == Owned(e, n)
           x == [e.bd[n] EXCEPT !.uown = TRUE]
<1>1. /\ e.sie \in {0, 1} /\ 1 - e.sie \in {0, 1} /\ e.sie # 1 - e.sie
      /\ e.bd \in [{0, 1} -> Descriptors(1, {0, 1})]
  BY EpTypes
<1>2. /\ x \in Descriptors(1, {0, 1}) /\ x.uown /\ x.stall = e.bd[n].stall
      /\ x.dts = e.bd[n].dts /\ x.buf = e.bd[n].buf
  <2>1. e.bd[n] \in Descriptors(1, {0, 1})
    BY <1>1
  <2>2. QED
    BY <2>1 DEF Descriptors
<1>3. f = [e EXCEPT !.bd = [@ EXCEPT ![n] = x]]
  BY DEF Owned
<1> HIDE DEF f, x
<1>4. /\ f.bd[n] = x /\ \A i \in {0, 1} : i # n => f.bd[i] = e.bd[i]
      /\ f.next = e.next /\ f.sie = e.sie /\ f.enabled = e.enabled /\ f \in Ep
  BY <1>1, <1>2, <1>3 DEF Ep
<1>5. \A i \in {0, 1} : ~Ready(e, i) /\ (Ready(f, i) => i = n)
  BY <1>4 DEF Part, OnlyPolled, Ready, Before
<1>6. /\ OnlyPolled("advance", f, h, n) /\ ~SieReady(e)
      /\ SieReady(f) => f.sie = n
  BY <1>1, <1>4, <1>5 DEF OnlyPolled, SieReady, Ready, Before
<1>7. \A i \in {0, 1} : /\ f.bd[i].dts = e.bd[i].dts
                        /\ f.bd[i].buf = e.bd[i].buf
                        /\ f.bd[i].stall = e.bd[i].stall
  BY <1>2, <1>4
<1>8. ~t => InStepAt("advance", f, h, n) /\ n = e.sie
  BY <1>1, <1>2, <1>4 DEF Part, InStepAt, Before, Alone, Handed
<1>9. e.enabled /\ ~t /\ ~e.bd[n].stall => SieReady(f)
  BY <1>2, <1>4, <1>8 DEF SieReady
<1>10. QED
  BY <1>1, <1>4, <1>6, <1>7, <1>8, <1>9 DEF Part, Toggle, Alternates, f

LEMMA AdvancePart ==
    ASSUME NEW e \in Ep, NEW h, NEW n \in {0, 1}, NEW t \in BOOLEAN,
           Part("advance", e, h, n, t)
    PROVE  LET f == Advanced(e)
           IN  /\ f \in Ep /\ f.sie = e.sie /\ f.enabled = e.enabled
               /\ f.bd = e.bd /\ Part("return", f, h, n, t)
<1> DEFINE f == Advanced(e)
<1>1. /\ e.sie \in {0, 1} /\ 1 - e.sie \in {0, 1} /\ e.sie # 1 - e.sie
      /\ 1 - (1 - e.sie) = e.sie /\ e.next \in {0, 1}
  BY EpTypes
<1>2. /\ f.bd = e.bd /\ f.next = 1 - e.next /\ f.sie = e.sie
      /\ f.enabled = e.enabled /\ f \in Ep
  BY DEF Ep, Advanced
<1> HIDE DEF f
<1>3. OnlyPolled("return", f, h, n)
  BY <1>2 DEF Part, OnlyPolled, Ready, Before, After
<1>4. ~t => InStepAt("return", f, h, n)
  BY <1>1, <1>2
     DEF Part, InStepAt, Handed, Served, InStep, Alone, Free, Busy, Before
<1>5. QED
  BY <1>2, <1>3, <1>4 DEF Part, f

LEMMA ReturnPart ==
    ASSUME NEW e \in Ep, NEW h, NEW n, NEW m, NEW t \in BOOLEAN,
           Part("return", e, h, n, t)
    PROVE  Part("loop", e, n, m, t)
BY DEF Part, OnlyPolled, InStepAt, Before, After

\* The local handle matters only within a transfer.
LEMMA LoopPart ==
    ASSUME NEW e, NEW h, NEW n, NEW m, NEW t, Part("loop", e, h, n, t)
    PROVE  Part("loop", e, h, m, t)
BY DEF Part, OnlyPolled, InStepAt, Before, After

\* The SIE's transaction, wherever the main loop is.
LEMMA SiePart ==
    ASSUME NEW e \in Ep, NEW s \in Places, NEW h,
           NEW n, NEW t \in BOOLEAN, Part(s, e, h, n, t), SieReady(e)
    PROVE  LET f == SieComplete(e, 1)
           IN  /\ f \in Ep /\ f.sie = 1 - e.sie /\ f.enabled = e.enabled
               /\ Part(s, f, h, n, t) /\ s \notin Before
               /\ Alternates(e) => Alternates(f) /\ Toggle(f) = 1 - Toggle(e)
               /\ ~SieReady(f)
               /\ \A i \in {0, 1} : f.bd[i].stall = e.bd[i].stall
<1> DEFINE p == e.sie
           f == SieComplete(e, 1)
           x == [e.bd[p] EXCEPT !.uown = FALSE, !.cnt = 1]
<1>1. /\ p \in {0, 1} /\ 1 - p \in {0, 1} /\ p # 1 - p /\ 1 - (1 - p) = p
      /\ e.bd \in [{0, 1} -> Descriptors(1, {0, 1})]
      /\ e.bd[p].dts \in {0, 1} /\ e.bd[1 - p].dts \in {0, 1}
  BY EpTypes
<1>2. /\ x \in Descriptors(1, {0, 1}) /\ ~x.uown
      /\ x.dts = e.bd[p].dts /\ x.stall = e.bd[p].stall
  <2>1. e.bd[p] \in Descriptors(1, {0, 1}) /\ 1 \in 0..1
    BY <1>1
  <2>2. QED
    BY <2>1 DEF Descriptors
<1>3. f = [e EXCEPT !.bd = [@ EXCEPT ![p] = x], !.sie = 1 - p]
  BY <1>1 DEF SieComplete, Ep
<1> HIDE DEF f, x
<1>4. /\ f.bd[p] = x /\ f.bd[1 - p] = e.bd[1 - p] /\ f.next = e.next
      /\ f.sie = 1 - p /\ f.enabled = e.enabled /\ f \in Ep
  BY <1>1, <1>2, <1>3 DEF Ep
<1>5. \A i \in {0, 1} : Ready(f, i) => Ready(e, i)
  BY <1>1, <1>2, <1>4 DEF Ready
<1>6. OnlyPolled(s, f, h, n) /\ Ready(e, p) /\ s \notin Before
  BY <1>1, <1>5 DEF Part, OnlyPolled, SieReady, Ready
<1>7. ~t => InStepAt(s, f, h, n)
  <2>1. SUFFICES ASSUME ~t PROVE InStepAt(s, f, h, n)
    OBVIOUS
  <2>2. InStepAt(s, e, h, n) /\ e.bd[p].uown /\ ~e.bd[p].stall
    BY <1>6, <2>1 DEF Part, Ready
  <2>3. s = "loop" => InStep(f, h)
    BY <1>1, <1>2, <1>4, <2>2 DEF InStepAt, InStep, Alone, Free, Busy, Halted
  <2>4. s = "return" => InStep(f, n)
    BY <1>1, <1>2, <1>4, <2>2 DEF InStepAt, InStep, Alone, Free, Busy, Halted
  <2>5. s = "advance" => Served(f, n)
    BY <1>1, <1>2, <1>4, <2>2 DEF InStepAt, Handed, Served, Alone
  <2>6. QED
    BY <1>6, <2>3, <2>4, <2>5 DEF InStepAt, Before
<1>8. /\ Alternates(e) => Alternates(f) /\ Toggle(f) = 1 - Toggle(e)
      /\ ~SieReady(f)
  <2>1. ~Ready(e, 1 - p)
    BY <1>1, <1>6 DEF Part, OnlyPolled, Places
  <2>2. QED
    BY <1>1, <1>2, <1>4, <2>1 DEF Toggle, Alternates, SieReady, Ready
<1>9. QED
  BY <1>1, <1>2, <1>4, <1>6, <1>7, <1>8 DEF Part, f

\* What a request leaves torn: Tear, for an endpoint at s.
TornAt(s, t, set) == IF s \in Inside THEN t \/ s = "advance" ELSE t /\ set

\* A request, if the software's copy of the ping-pong state has caught up.
LEMMA HaltShape ==
    ASSUME NEW e \in Ep, NEW f \in Status, f.ping_pong_state = e.sie
    PROVE  LET g == SetHalt(e, f)
           IN  /\ g \in Ep /\ g.sie = e.sie /\ g.next = e.sie
               /\ g.bd[e.sie].uown /\ g.bd[e.sie].stall
               /\ g.bd[1 - e.sie] = e.bd[1 - e.sie]
               /\ Alternates(e) => Alternates(g)
               /\ Toggle(g) = Toggle(e) /\ ~SieReady(g)
               /\ \A i \in {0, 1} : g.bd[i].buf = e.bd[i].buf
<1> DEFINE p == e.sie
           g == SetHalt(e, f)
           x == [e.bd[p] EXCEPT !.stall = TRUE, !.uown = TRUE]
<1>1. /\ p \in {0, 1} /\ 1 - p \in {0, 1} /\ p # 1 - p
      /\ e.bd \in [{0, 1} -> Descriptors(1, {0, 1})]
  BY EpTypes
<1>2. /\ x \in Descriptors(1, {0, 1}) /\ x.uown /\ x.stall
      /\ x.dts = e.bd[p].dts /\ x.buf = e.bd[p].buf
  BY <1>1 DEF Descriptors
<1>3. g = [e EXCEPT !.next = p, !.bd = [@ EXCEPT ![p] = x]]
  BY <1>1 DEF SetHalt, Ep
<1> HIDE DEF g, x
<1>4. /\ g.bd[p] = x /\ g.bd[1 - p] = e.bd[1 - p]
      /\ g.next = p /\ g.sie = p /\ g \in Ep
  BY <1>1, <1>2, <1>3 DEF Ep
<1>5. /\ Alternates(e) => Alternates(g)
      /\ Toggle(g) = Toggle(e) /\ ~SieReady(g)
      /\ \A i \in {0, 1} : g.bd[i].buf = e.bd[i].buf
  BY <1>1, <1>2, <1>4 DEF Toggle, Alternates, SieReady
<1>6. QED
  BY <1>2, <1>4, <1>5 DEF g

\* An endpoint at s keeps in step with its transfer, unless that is torn.
LEMMA HaltPart ==
    ASSUME NEW e \in Ep, NEW s \in Places, NEW h, NEW n, NEW t \in BOOLEAN,
           Part(s, e, h, n, t), NEW f \in Status, f.ping_pong_state = e.sie
    PROVE  Part(s, SetHalt(e, f), h, n, TornAt(s, t, TRUE))
<1> DEFINE p == e.sie
           g == SetHalt(e, f)
           u == TornAt(s, t, TRUE)
<1>1. p \in {0, 1} /\ 1 - p \in {0, 1} /\ p # 1 - p
  BY EpTypes
<1>2. /\ g.sie = p /\ g.next = p /\ g.bd[p].uown /\ g.bd[p].stall
      /\ g.bd[1 - p] = e.bd[1 - p]
  BY HaltShape
<1> HIDE DEF g
<1>3. OnlyPolled(s, g, h, n)
  <2>1. \A i \in {0, 1} : Ready(g, i) => Ready(e, i)
    BY <1>1, <1>2 DEF Ready
  <2>2. QED
    BY <2>1 DEF Part, OnlyPolled
<1>4. ~u => InStepAt(s, g, h, n)
  <2>1. SUFFICES ASSUME ~u PROVE InStepAt(s, g, h, n)
    OBVIOUS
  <2>2. ~t /\ s # "advance"
    BY <2>1 DEF TornAt, Inside
  <2>3. InStepAt(s, e, h, n)
    BY <2>2 DEF Part
  <2>4. Alone(e)
    BY <2>2, <2>3 DEF InStepAt, InStep, Before, After, Places
  <2>5. Alone(g) /\ Halted(g)
    BY <1>1, <1>2, <2>4 DEF Alone, Halted
  <2>6. QED
    BY <1>2, <2>2, <2>3, <2>5 DEF InStepAt, InStep
<1>5. QED
  BY <1>3, <1>4 DEF Part, g

LEMMA ClearShape ==
    ASSUME NEW e \in Ep, NEW f \in Status, f.ping_pong_state = e.sie
    PROVE  LET g == ClearHalt(e, f)
           IN  /\ g \in Ep /\ g.sie = e.sie /\ g.next = e.sie
               /\ \A i \in {0, 1} :
                     ~g.bd[i].uown /\ g.bd[i].buf = e.bd[i].buf
               /\ Alternates(g) /\ Toggle(g) = 0 /\ ~SieReady(g)
<1> DEFINE p == e.sie
           g == ClearHalt(e, f)
           taken == [e.bd[1 - p] EXCEPT !.uown = FALSE, !.dts = 1]
           active == [e.bd[p] EXCEPT !.uown = FALSE, !.stall = FALSE, !.dts = 0]
<1>1. /\ p \in {0, 1} /\ 1 - p \in {0, 1} /\ p # 1 - p
      /\ e.bd \in [{0, 1} -> Descriptors(1, {0, 1})]
  BY EpTypes
<1>2. /\ taken \in Descriptors(1, {0, 1}) /\ ~taken.uown /\ taken.dts = 1
      /\ active \in Descriptors(1, {0, 1}) /\ ~active.uown /\ active.dts = 0
      /\ taken.buf = e.bd[1 - p].buf /\ active.buf = e.bd[p].buf
  BY <1>1 DEF Descriptors
<1>3. g = [e EXCEPT !.next = p, !.bd = [[@ EXCEPT ![1 - p] = taken]
                                           EXCEPT ![p] = active]]
  BY <1>1 DEF ClearHalt, Ep
<1> HIDE DEF g, taken, active
<1>4. /\ g.next = p /\ g.sie = p
      /\ g.bd = [[e.bd EXCEPT ![1 - p] = taken] EXCEPT ![p] = active]
  BY <1>3 DEF Ep
<1>5. /\ g.bd[p] = active /\ g.bd[1 - p] = taken
      /\ g.bd \in [{0, 1} -> Descriptors(1, {0, 1})]
  BY <1>1, <1>2, <1>4
<1>6. g \in Ep
  BY <1>1, <1>2, <1>3 DEF Ep
<1>7. \A i \in {0, 1} : ~g.bd[i].uown /\ g.bd[i].buf = e.bd[i].buf
  BY <1>1, <1>2, <1>5
<1>8. Alternates(g) /\ Toggle(g) = 0 /\ ~SieReady(g)
  BY <1>1, <1>2, <1>4, <1>5 DEF Toggle, Alternates, SieReady
<1>9. QED
  BY <1>4, <1>6, <1>7, <1>8 DEF g

LEMMA ClearPart ==
    ASSUME NEW e \in Ep, NEW s \in Places, NEW h, NEW n, NEW t \in BOOLEAN,
           Part(s, e, h, n, t), NEW f \in Status, f.ping_pong_state = e.sie
    PROVE  Part(s, ClearHalt(e, f), h, n, TornAt(s, t, FALSE))
<1> DEFINE p == e.sie
           g == ClearHalt(e, f)
           u == TornAt(s, t, FALSE)
<1>1. p \in {0, 1} /\ 1 - p \in {0, 1}
  BY EpTypes
<1>2. g.sie = p /\ g.next = p /\ \A i \in {0, 1} : ~g.bd[i].uown
  BY ClearShape
<1> HIDE DEF g
<1>3. OnlyPolled(s, g, h, n)
  BY <1>2 DEF OnlyPolled, Ready
<1>4. ~u => InStepAt(s, g, h, n)
  <2>1. SUFFICES ASSUME ~u PROVE InStepAt(s, g, h, n)
    OBVIOUS
  <2>2. s # "advance" /\ (s \in Inside => ~t)
    BY <2>1 DEF TornAt, Inside
  <2>3. s \in {"fill", "own"} => n = p
    BY <2>2 DEF Part, InStepAt, Inside
  <2>4. Alone(g) /\ Free(g)
    BY <1>1, <1>2 DEF Alone, Free
  <2>5. QED
    BY <1>2, <2>2, <2>3, <2>4 DEF InStepAt, InStep
<1>5. QED
  BY <1>3, <1>4 DEF Part, g
-----------------------------------------------------------------------------
(***************************************************************************)
(* The steps.  DeviceType and CountType are the two parts of TypeOK.       *)
(***************************************************************************)
DeviceType ==
    /\ ep \in [{"out", "in"} -> Ep] /\ ep_data \in [{"out", "in"} -> Status]
    /\ USTAT \in Seq(Entries) /\ Len(USTAT) <= 4 /\ PKTDIS \in BOOLEAN
    /\ handle \in [{"out", "in"} -> {0, 1, NULL}] /\ Rx_State \in {0, 1, INIT}
    /\ pc \in Places /\ dir \in {"out", "in"}
    /\ entry \in {0, 1, NULL} /\ (pc \in Inside => entry \in {0, 1})
    /\ torn \in [{"out", "in"} -> BOOLEAN]

CountType ==
    /\ working \in BOOLEAN /\ tried \in BOOLEAN
    /\ USB_OutPacket \in [{0, 1} -> 0..MaxPackets]
    /\ received \in Seq(0..MaxPackets) /\ got \in Seq(1..MaxReplies)
    /\ written \in 0..MaxReplies /\ number \in 1..(MaxPackets + 1)
    /\ toggle \in [{"out", "in"} -> {0, 1}]
    /\ abandoned \subseteq 1..MaxPackets
    /\ halted \in [{"out", "in"} -> BOOLEAN]
    /\ lost \in 0..MaxLost /\ requests \in 0..MaxRequests

LEMMA TypeParts == DeviceType /\ CountType => TypeOK
<1>1. Ep \subseteq Endpoints(1, {0, 1})
  BY DEF Ep, Endpoints
<1>2. \A f \in [{"out", "in"} -> Ep] :
         f \in [{"out", "in"} -> Endpoints(1, {0, 1})]
  BY <1>1
<1>3. Places
         = {"loop", "fetch", "fill", "own", "advance", "return"}
  BY DEF Places, Before, After
<1>4. QED
  BY <1>2, <1>3, Zenon
     DEF TypeOK, DeviceType, CountType, Status, Entries, USTAT_DEPTH

\* The types of one endpoint.
LEMMA OneEndpoint ==
    ASSUME DeviceType, HaltInv, NEW d \in {"out", "in"}
    PROVE  /\ ep[d] \in Ep /\ ep_data[d] \in Status /\ torn[d] \in BOOLEAN
           /\ handle[d] \in {0, 1, NULL}
           /\ At(d) \in Places
           /\ Part(At(d), ep[d], handle[d], entry, torn[d]) /\ Lags(d)
           /\ ep[d].sie \in {0, 1} /\ ep_data[d].ping_pong_state \in {0, 1}
BY DEF DeviceType, HaltInv, At, Ep, Status, Places

\* A transaction enters the FIFO when the SIE turns to its next descriptor.
LEMMA CompleteStep ==
    ASSUME DeviceType, HaltInv, NEW d \in Directions, SieReady(ep[d]), ~PKTDIS,
           Len(USTAT) < 4, Complete(d),
           UNCHANGED <<ep_data, PKTDIS, handle, Rx_State, call, torn>>
    PROVE  DeviceType' /\ HaltInv'
<1> DEFINE f == SieComplete(ep[d], 1)
           x == <<"DATA", d>>
<1>0. UNCHANGED <<pc, dir, entry>>
  BY DEF call
<1>1. d \in {"out", "in"}
  BY HaltAssumption DEF HaltAssumption
<1>2. /\ f \in Ep /\ f.sie = 1 - ep[d].sie
      /\ Part(At(d), f, handle[d], entry, torn[d])
  <2>1. /\ ep[d] \in Ep /\ torn[d] \in BOOLEAN
        /\ At(d) \in Places
        /\ Part(At(d), ep[d], handle[d], entry, torn[d])
    BY <1>1, OneEndpoint
  <2>2. SieReady(ep[d])
    OBVIOUS
  <2>3. QED
    BY <2>1, <2>2, SiePart
<1>3. ep' = [ep EXCEPT ![d] = f] /\ USTAT' = Append(USTAT, x)
  BY DEF Complete
<1> HIDE DEF f
<1>4. x \in Entries /\ x \notin Requests
  BY DEF Entries, Transactions, Requests
<1>5. PICK n \in 0..3 : n = Len(USTAT)
  <2>1. PICK n \in Nat : n = Len(USTAT)
    BY DEF DeviceType
  <2>2. n < 4
    BY <2>1
  <2>3. QED
    BY <2>1, <2>2
<1>6. /\ USTAT' \in Seq(Entries) /\ Len(USTAT') = n + 1 /\ USTAT'[n + 1] = x
      /\ \A i \in 1..n : USTAT'[i] = USTAT[i]
  BY <1>3, <1>4, <1>5 DEF DeviceType
<1>7. DeviceType'
  <2>1. Len(USTAT') <= 4
    BY <1>5, <1>6
  <2>2. ep' \in [{"out", "in"} -> Ep]
    BY <1>1, <1>2, <1>3 DEF DeviceType
  <2>3. QED
    BY <1>0, <1>6, <2>1, <2>2, Zenon DEF DeviceType
<1>8. ASSUME NEW c \in {"out", "in"}
      PROVE  Part(At(c)', ep'[c], handle'[c], entry', torn'[c]) /\ Lags(c)'
  <2>1. Odd(USTAT', c) <=> ~(Odd(USTAT, c) <=> c = d)
    BY <1>3, <1>4, OddAppend DEF DeviceType
  <2>2. /\ Lags(c) /\ Part(At(c), ep[c], handle[c], entry, torn[c])
        /\ ep[c].sie \in {0, 1} /\ ep_data[c].ping_pong_state \in {0, 1}
    BY OneEndpoint
  <2>3. At(c)' = At(c)
    BY <1>0 DEF At
  <2>4. CASE c = d
    <3>1. ep'[c].sie = 1 - ep[c].sie /\ ep'[c] = f
      BY <1>1, <1>2, <1>3, <2>4 DEF DeviceType
    <3>2. Part(At(c)', ep'[c], handle'[c], entry', torn'[c])
      BY <1>0, <1>2, <2>3, <2>4, <3>1
    <3>3. Lags(c)'
      BY <2>1, <2>2, <2>4, <3>1 DEF Lags
    <3>4. QED
      BY <3>2, <3>3
  <2>5. CASE c # d
    <3>1. ep'[c] = ep[c]
      BY <1>3, <2>5 DEF DeviceType
    <3>2. QED
      BY <1>0, <2>1, <2>2, <2>3, <2>5, <3>1 DEF Lags
  <2>6. QED
    BY <2>4, <2>5
<1>9. SetupLast'
  <2>1. ASSUME NEW i \in 1..n PROVE USTAT[i] \notin Requests
    BY <1>5, <2>1 DEF HaltInv, SetupLast
  <2>2. QED
    BY <1>4, <1>5, <1>6, <2>1 DEF SetupLast
<1>10. RxInit'
  BY <1>0 DEF HaltInv, RxInit, At
<1>11. QED
  BY <1>7, <1>8, <1>9, <1>10 DEF HaltInv

\* The interrupt takes a transaction from the FIFO and catches up.
LEMMA ServiceTransactionStep ==
    ASSUME DeviceType, HaltInv, ServiceTransaction
    PROVE  DeviceType' /\ HaltInv'
<1>1. PICK d \in Directions : Head(USTAT) = <<"DATA", d>>
  BY DEF ServiceTransaction, Transactions
<1>2. /\ USTAT # <<>> /\ USTAT' = Tail(USTAT)
      /\ ep_data' = [ep_data EXCEPT ![d].ping_pong_state = 1 - @]
      /\ UNCHANGED <<ep, PKTDIS, handle, Rx_State, pc, dir, entry, torn>>
  <2>1. Head(USTAT)[2] = d
    BY <1>1
  <2>2. TransactionComplete(Head(USTAT)[2]) => TransactionComplete(d)
    BY <2>1
  <2>3. TransactionComplete(d)
    BY <2>2 DEF ServiceTransaction
  <2>4. /\ USTAT # <<>> /\ USTAT' = Tail(USTAT)
        /\ UNCHANGED <<PKTDIS, handle, Rx_State, pc, dir, entry, torn>>
    BY DEF ServiceTransaction, main, call
  <2>5. QED
    BY <2>3, <2>4 DEF TransactionComplete
<1>3. d \in {"out", "in"}
  BY HaltAssumption DEF HaltAssumption
<1>4. PICK n \in 1..4 : n = Len(USTAT)
  <2>1. PICK n \in Nat : n = Len(USTAT)
    BY DEF DeviceType
  <2>2. n <= 4 /\ n # 0
    BY <1>2, <2>1, EmptySeq DEF DeviceType
  <2>3. QED
    BY <2>1, <2>2
<1>5. /\ USTAT' \in Seq(Entries) /\ Len(USTAT') = n - 1
      /\ \A i \in 1..(n - 1) : USTAT'[i] = USTAT[i + 1]
  BY <1>2, <1>4 DEF DeviceType
<1>6. /\ ep_data' \in [{"out", "in"} -> Status]
      /\ ep_data'[d].ping_pong_state = 1 - ep_data[d].ping_pong_state
      /\ \A c \in {"out", "in"} : c # d => ep_data'[c] = ep_data[c]
  <2> DEFINE g == [ep_data[d] EXCEPT !.ping_pong_state = 1 - @]
  <2>1. ep_data[d] \in Status
    BY <1>3 DEF DeviceType
  <2>2. g \in Status /\ g.ping_pong_state = 1 - ep_data[d].ping_pong_state
    BY <2>1 DEF Status
  <2>3. ep_data' = [ep_data EXCEPT ![d] = g]
    BY <1>2
  <2> HIDE DEF g
  <2>4. QED
    BY <1>3, <2>2, <2>3 DEF DeviceType
<1>7. DeviceType'
  <2>1. Len(USTAT') <= 4
    BY <1>4, <1>5
  <2>2. QED
    BY <1>2, <1>5, <1>6, <2>1, Zenon DEF DeviceType
<1>8. ASSUME NEW c \in {"out", "in"}
      PROVE  Part(At(c)', ep'[c], handle'[c], entry', torn'[c]) /\ Lags(c)'
  <2>1. Odd(USTAT', c) <=> ~(Odd(USTAT, c) <=> c = d)
    BY <1>1, <1>2, OddTail DEF DeviceType
  <2>2. /\ Lags(c) /\ Part(At(c), ep[c], handle[c], entry, torn[c])
        /\ ep[c].sie \in {0, 1} /\ ep_data[c].ping_pong_state \in {0, 1}
    BY OneEndpoint
  <2>3. At(c)' = At(c)
    BY <1>2 DEF At
  <2>4. Lags(c)'
    BY <1>2, <1>6, <2>1, <2>2 DEF Lags
  <2>5. QED
    BY <1>2, <2>2, <2>3, <2>4
<1>9. SetupLast'
  <2>1. ASSUME NEW i \in 1..(n - 1), USTAT'[i] \in Requests
        PROVE  i = n - 1 /\ PKTDIS
    <3>1. i + 1 \in 1..n /\ USTAT[i + 1] \in Requests
      BY <1>5, <2>1
    <3>2. i + 1 = n /\ PKTDIS
      BY <1>4, <3>1 DEF HaltInv, SetupLast
    <3>3. QED
      BY <3>2
  <2>2. QED
    BY <1>2, <1>5, <2>1 DEF SetupLast
<1>10. RxInit'
  BY <1>2 DEF HaltInv, RxInit, At
<1>11. QED
  BY <1>7, <1>8, <1>9, <1>10 DEF HaltInv

\* What a request makes of an endpoint and of its data toggle.
Requested(d, g) ==
    /\ Head(USTAT)[2] = d /\ ep' = [ep EXCEPT ![d] = g]
    /\ ~SieReady(g) /\ (Alternates(ep[d]) => Alternates(g))
    /\ \A i \in {0, 1} : g.bd[i].buf = ep[d].bd[i].buf
    /\ \/ Head(USTAT)[1] = "SET_FEATURE" /\ Toggle(g) = Toggle(ep[d])
       \/ Head(USTAT)[1] = "CLEAR_FEATURE" /\ Toggle(g) = 0

\* A SETUP is the last entry: the software's copy has caught up with the SIE.
LEMMA ServiceSetupStep ==
    ASSUME DeviceType, HaltInv, ServiceSetup
    PROVE  /\ DeviceType' /\ HaltInv'
           /\ \E d \in {"out", "in"}, g \in Ep : Requested(d, g)
<1>1. PICK d \in Directions : /\ Head(USTAT)[2] = d
                              /\ FeatureRequest(Head(USTAT))
                              /\ Head(USTAT) \in Requests
  BY DEF ServiceSetup, Requests
<1>2. /\ USTAT # <<>> /\ USTAT' = Tail(USTAT)
      /\ UNCHANGED <<handle, Rx_State, pc, dir, entry>> /\ PKTDIS' = FALSE
  BY DEF ServiceSetup, main, call
<1>3. /\ d \in {"out", "in"} /\ ep[d] \in Ep /\ ep_data[d] \in Status
      /\ torn[d] \in BOOLEAN /\ At(d) \in Places
      /\ Part(At(d), ep[d], handle[d], entry, torn[d])
  BY HaltAssumption, OneEndpoint DEF HaltAssumption
<1>4. Len(USTAT) = 1
  <2>1. PICK n \in Nat : n = Len(USTAT)
    BY DEF DeviceType
  <2>2. n # 0 /\ Head(USTAT) = USTAT[1]
    BY <1>2, <2>1, EmptySeq DEF DeviceType
  <2>3. 1 \in 1..n
    BY <2>2
  <2>4. 1 = n
    BY <1>1, <2>1, <2>2, <2>3 DEF HaltInv, SetupLast
  <2>5. QED
    BY <2>1, <2>4
<1>5. USTAT' \in Seq(Entries) /\ Len(USTAT') = 0
  BY <1>2, <1>4 DEF DeviceType
<1>6. \A c : ~Odd(USTAT, c) /\ ~Odd(USTAT', c)
  <2>1. ASSUME NEW c
        PROVE  \A i \in 1..4 : ~Waits(USTAT, c, i) /\ ~Waits(USTAT', c, i)
    <3>1. USTAT[1] # <<"DATA", c>>
      <4>1. Head(USTAT) = USTAT[1]
        BY <1>2 DEF DeviceType
      <4>2. <<"DATA", c>> \notin Requests
        BY DEF Requests
      <4>3. QED
        BY <1>1, <4>1, <4>2
    <3>2. QED
      BY <1>4, <1>5, <3>1 DEF Waits
  <2>2. QED
    BY <2>1 DEF Odd
<1>7. ep_data[d].ping_pong_state = ep[d].sie
  BY <1>3, <1>6 DEF HaltInv, Lags
<1>8. torn' = [torn EXCEPT ![d] =
                  TornAt(At(d), @, Head(USTAT)[1] = "SET_FEATURE")]
  <2>1. torn' = [torn EXCEPT ![d] =
                    IF Calling(d) THEN @ \/ pc = "advance"
                                  ELSE @ /\ Head(USTAT)[1] = "SET_FEATURE"]
    BY <1>1 DEF ServiceSetup, Tear
  <2>2. /\ Calling(d) <=> At(d) \in Inside
        /\ Calling(d) => At(d) = pc
    BY DEF Calling, At, Inside
  <2>3. torn'[d] = TornAt(At(d), torn[d], Head(USTAT)[1] = "SET_FEATURE")
    BY <1>3, <2>1, <2>2 DEF TornAt, DeviceType
  <2>4. QED
    BY <1>3, <2>1, <2>3 DEF DeviceType
<1>9. PICK g \in Ep, f \in Status :
         /\ ep' = [ep EXCEPT ![d] = g] /\ ep_data' = [ep_data EXCEPT ![d] = f]
         /\ g.sie = ep[d].sie /\ f.ping_pong_state = ep_data[d].ping_pong_state
         /\ Part(At(d), g, handle[d], entry, torn'[d])
         /\ Requested(d, g)
  <2>1. CASE Head(USTAT)[1] = "SET_FEATURE"
    <3> DEFINE g == SetHalt(ep[d], ep_data[d])
               f == [ep_data[d] EXCEPT !.transfer_terminated =
                                           TerminatedBySet(ep[d], ep_data[d])]
    <3>1. /\ g \in Ep /\ g.sie = ep[d].sie
          /\ Part(At(d), g, handle[d], entry, TornAt(At(d), torn[d], TRUE))
          /\ ~SieReady(g) /\ (Alternates(ep[d]) => Alternates(g))
          /\ Toggle(g) = Toggle(ep[d])
          /\ \A i \in {0, 1} : g.bd[i].buf = ep[d].bd[i].buf
      <4>1. Part(At(d), g, handle[d], entry, TornAt(At(d), torn[d], TRUE))
        BY <1>3, <1>7, HaltPart
      <4>2. QED
        BY <1>3, <1>7, <4>1, HaltShape
    <3>2. f \in Status /\ f.ping_pong_state = ep_data[d].ping_pong_state
      <4>1. TerminatedBySet(ep[d], ep_data[d]) \in BOOLEAN
        BY DEF TerminatedBySet
      <4>2. QED
        BY <1>3, <4>1 DEF Status
    <3>3. ep' = [ep EXCEPT ![d] = g] /\ ep_data' = [ep_data EXCEPT ![d] = f]
      BY <1>1, <2>1 DEF FeatureRequest
    <3> HIDE DEF g, f
    <3>4. torn'[d] = TornAt(At(d), torn[d], TRUE)
      BY <1>3, <1>8, <2>1 DEF DeviceType
    <3>5. Requested(d, g)
      BY <1>1, <2>1, <3>1, <3>3 DEF Requested
    <3>6. QED
      BY <3>1, <3>2, <3>3, <3>4, <3>5
  <2>2. CASE Head(USTAT)[1] = "CLEAR_FEATURE"
    <3> DEFINE g == ClearHalt(ep[d], ep_data[d])
               f == [ep_data[d] EXCEPT !.transfer_terminated = FALSE]
    <3>1. /\ g \in Ep /\ g.sie = ep[d].sie
          /\ Part(At(d), g, handle[d], entry, TornAt(At(d), torn[d], FALSE))
          /\ ~SieReady(g) /\ Alternates(g) /\ Toggle(g) = 0
          /\ \A i \in {0, 1} : g.bd[i].buf = ep[d].bd[i].buf
      <4>1. Part(At(d), g, handle[d], entry, TornAt(At(d), torn[d], FALSE))
        BY <1>3, <1>7, ClearPart
      <4>2. QED
        BY <1>3, <1>7, <4>1, ClearShape
    <3>2. f \in Status /\ f.ping_pong_state = ep_data[d].ping_pong_state
      BY <1>3 DEF Status
    <3>3. ep' = [ep EXCEPT ![d] = g] /\ ep_data' = [ep_data EXCEPT ![d] = f]
      BY <1>1, <2>2 DEF FeatureRequest
    <3> HIDE DEF g, f
    <3>4. torn'[d] = TornAt(At(d), torn[d], FALSE)
      BY <1>3, <1>8, <2>2 DEF DeviceType
    <3>5. Requested(d, g)
      BY <1>1, <2>2, <3>1, <3>3 DEF Requested
    <3>6. QED
      BY <3>1, <3>2, <3>3, <3>4, <3>5
  <2>3. QED
    BY <1>1, <2>1, <2>2 DEF FeatureRequest
<1>10. DeviceType'
  <2>1. Len(USTAT') <= 4 /\ PKTDIS' \in BOOLEAN
    BY <1>2, <1>5, 0 <= 4
  <2>2. /\ ep' \in [{"out", "in"} -> Ep]
        /\ ep_data' \in [{"out", "in"} -> Status]
    BY <1>3, <1>9 DEF DeviceType
  <2>3. torn' \in [{"out", "in"} -> BOOLEAN]
    <3>1. \A b \in BOOLEAN : TornAt(At(d), torn[d], b) \in BOOLEAN
      BY <1>3 DEF TornAt
    <3>2. (Head(USTAT)[1] = "SET_FEATURE") \in BOOLEAN
      OBVIOUS
    <3>3. QED
      BY <1>3, <1>8, <3>1, <3>2 DEF DeviceType
  <2>4. QED
    BY <1>2, <1>5, <2>1, <2>2, <2>3, Zenon DEF DeviceType
<1>11. ASSUME NEW c \in {"out", "in"}
       PROVE  Part(At(c)', ep'[c], handle'[c], entry', torn'[c]) /\ Lags(c)'
  <2>0. At(c)' = At(c)
    BY <1>2 DEF At
  <2>1. CASE c = d
    <3>1. /\ ep'[d] = g /\ ep'[d].sie = ep[d].sie
          /\ ep_data'[d].ping_pong_state = ep_data[d].ping_pong_state
      BY <1>3, <1>9 DEF DeviceType
    <3>2. QED
      BY <1>2, <1>6, <1>7, <1>9, <2>0, <2>1, <3>1 DEF Lags
  <2>2. CASE c # d
    <3>1. ep'[c] = ep[c] /\ ep_data'[c] = ep_data[c] /\ torn'[c] = torn[c]
      BY <1>8, <1>9, <2>2 DEF DeviceType
    <3>2. QED
      BY <1>2, <1>6, <2>0, <2>2, <3>1 DEF HaltInv, Lags
  <2>3. QED
    BY <2>1, <2>2
<1>12. SetupLast'
  BY <1>5 DEF SetupLast
<1>13. RxInit'
  BY <1>2 DEF HaltInv, RxInit, At
<1>14. QED
  BY <1>3, <1>9, <1>10, <1>11, <1>12, <1>13 DEF HaltInv

\* A SETUP enters the FIFO, and nothing after it.
LEMMA HostSetupStep ==
    ASSUME DeviceType, HaltInv, NEW r \in Requests, HostSetup(r)
    PROVE  DeviceType' /\ HaltInv'
<1>1. /\ USTAT' = Append(USTAT, r) /\ PKTDIS' = TRUE /\ ~PKTDIS
      /\ UNCHANGED <<ep, ep_data, handle, Rx_State, pc, dir, entry, torn>>
  BY DEF HostSetup, main, call
<1>2. r \in Entries
  BY DEF Entries
<1>3. PICK n \in 0..3 : n = Len(USTAT)
  <2>1. PICK n \in Nat : n = Len(USTAT)
    BY DEF DeviceType
  <2>2. n < 4
    BY <2>1 DEF HostSetup, USTAT_DEPTH
  <2>3. QED
    BY <2>1, <2>2
<1>4. /\ USTAT' \in Seq(Entries) /\ Len(USTAT') = n + 1
      /\ \A i \in 1..n : USTAT'[i] = USTAT[i]
  BY <1>1, <1>2, <1>3 DEF DeviceType
<1>5. DeviceType'
  <2>1. Len(USTAT') <= 4 /\ PKTDIS' \in BOOLEAN
    BY <1>1, <1>3, <1>4
  <2>2. QED
    BY <1>1, <1>4, <2>1, Zenon DEF DeviceType
<1>6. ASSUME NEW c \in {"out", "in"}
      PROVE  Part(At(c)', ep'[c], handle'[c], entry', torn'[c]) /\ Lags(c)'
  <2>0. Len(USTAT) < 4 /\ At(c)' = At(c)
    BY <1>1 DEF HostSetup, USTAT_DEPTH, At
  <2>1. r # <<"DATA", c>>
    BY DEF Requests
  <2>2. Odd(USTAT', c) <=> ~(Odd(USTAT, c) <=> r = <<"DATA", c>>)
    BY <1>1, <1>2, <2>0, OddAppend DEF DeviceType
  <2>3. QED
    BY <1>1, <2>0, <2>1, <2>2 DEF HaltInv, Lags
<1>7. SetupLast'
  BY <1>1, <1>3, <1>4 DEF HaltInv, SetupLast
<1>8. RxInit'
  BY <1>1 DEF HaltInv, RxInit, At
<1>9. QED
  BY <1>5, <1>6, <1>7, <1>8 DEF HaltInv

\* Nothing that DeviceType and HaltInv speak of changes.
LEMMA DeviceKept ==
    ASSUME DeviceType, HaltInv,
           UNCHANGED <<ep, ep_data, USTAT, PKTDIS, handle, Rx_State, call,
                       torn>>
    PROVE  DeviceType' /\ HaltInv'
<1>1. UNCHANGED <<pc, dir, entry>>
  BY DEF call
<1>2. DeviceType'
  BY <1>1 DEF DeviceType
<1>3. HaltInv'
  BY <1>1 DEF HaltInv, Lags, SetupLast, RxInit, At
<1>4. QED
  BY <1>2, <1>3

\* A statement of the main loop, on the endpoint d.
LEMMA LoopStep ==
    ASSUME DeviceType, HaltInv, NEW d \in {"out", "in"}, NEW g \in Ep,
           ep' = [ep EXCEPT ![d] = g], g.sie = ep[d].sie,
           UNCHANGED <<ep_data, USTAT, PKTDIS, torn>>,
           handle' \in [{"out", "in"} -> {0, 1, NULL}],
           Rx_State' \in {0, 1, INIT}, pc' \in Places, dir' \in {"out", "in"},
           entry' \in {0, 1, NULL}, pc' \in Inside => entry' \in {0, 1},
           Part(At(d)', g, handle'[d], entry', torn[d]),
           \A c \in {"out", "in"} : c # d =>
              At(c) = "loop" /\ At(c)' = "loop" /\ handle'[c] = handle[c],
           RxInit'
    PROVE  DeviceType' /\ HaltInv'
<1>1. ep' \in [{"out", "in"} -> Ep]
  BY DEF DeviceType
<1>2. DeviceType'
  BY <1>1, Zenon DEF DeviceType
<1>3. ASSUME NEW c \in {"out", "in"}
      PROVE  Part(At(c)', ep'[c], handle'[c], entry', torn'[c]) /\ Lags(c)'
  <2>1. Lags(c) /\ Part(At(c), ep[c], handle[c], entry, torn[c])
    BY OneEndpoint
  <2>2. CASE c = d
    <3>1. ep'[c] = g
      BY <2>2 DEF DeviceType
    <3>2. QED
      BY <2>1, <2>2, <3>1 DEF Lags
  <2>3. CASE c # d
    <3>1. ep'[c] = ep[c]
      BY <2>3 DEF DeviceType
    <3>2. /\ At(c) = "loop" /\ At(c)' = "loop" /\ handle'[c] = handle[c]
          /\ torn'[c] = torn[c]
      BY <2>3
    <3>3. Part("loop", ep[c], handle[c], entry', torn[c])
      BY <2>1, <3>2, LoopPart
    <3>4. QED
      BY <2>1, <3>1, <3>2, <3>3 DEF Lags
  <2>4. QED
    BY <2>2, <2>3
<1>4. SetupLast'
  BY DEF HaltInv, SetupLast
<1>5. QED
  BY <1>2, <1>3, <1>4 DEF HaltInv

\* A transfer begins.
LEMMA CallStep ==
    ASSUME DeviceType, HaltInv, NEW d \in {"out", "in"}, pc = "loop", Call(d),
           ~USBHandleBusy(ep[d], handle[d]),
           d = "out" => Rx_State' \in {0, 1}, d = "in" => UNCHANGED Rx_State,
           UNCHANGED <<ep, ep_data, USTAT, PKTDIS, torn, handle>>
    PROVE  /\ DeviceType' /\ HaltInv' /\ ~SieReady(ep[d])
           /\ \A c \in {"out", "in"} : Pending(c)' <=> c = d
<1>1. /\ pc' = "fetch" /\ dir' = d /\ entry' = entry
      /\ At(d)' = "fetch" /\ \A c : At(c) = "loop"
      /\ \A c : c # d => At(c)' = "loop"
  BY DEF Call, At
<1>2. Part("fetch", ep[d], handle[d], entry', torn[d]) /\ ~SieReady(ep[d])
  <2>1. /\ ep[d] \in Ep /\ torn[d] \in BOOLEAN /\ handle[d] \in {0, 1, NULL}
        /\ Part("loop", ep[d], handle[d], entry, torn[d])
    BY <1>1, OneEndpoint
  <2>2. QED
    BY <2>1, CallPart
<1>3. /\ ep[d] \in Ep /\ ep' = [ep EXCEPT ![d] = ep[d]]
  BY DEF DeviceType
<1>4. /\ handle' \in [{"out", "in"} -> {0, 1, NULL}]
      /\ Rx_State' \in {0, 1, INIT} /\ entry' \in {0, 1, NULL}
      /\ pc' \in Places /\ pc' \notin Inside
  BY <1>1 DEF DeviceType, Places, Before, Inside
<1>5. RxInit'
  BY <1>1 DEF HaltInv, RxInit, INIT
<1>6. DeviceType' /\ HaltInv'
  <2>1. /\ \A c \in {"out", "in"} : c # d =>
              At(c) = "loop" /\ At(c)' = "loop" /\ handle'[c] = handle[c]
        /\ UNCHANGED <<ep_data, USTAT, PKTDIS, torn>>
        /\ pc' \in Inside => entry' \in {0, 1}
        /\ Part(At(d)', ep[d], handle'[d], entry', torn[d])
        /\ dir' \in {"out", "in"} /\ ep[d].sie = ep[d].sie
    BY <1>1, <1>2, <1>4
  <2>2. QED
    BY <1>3, <1>4, <1>5, <2>1, LoopStep
<1>7. \A c \in {"out", "in"} : Pending(c)' <=> c = d
  BY <1>1 DEF Pending, Before
<1>8. QED
  BY <1>2, <1>6, <1>7

\* What USBTransferOnePacket leaves as it is, and that it arms the endpoint.
Unstalled(e) == \A i \in {0, 1} : ~e.bd[i].stall
Alike(d) ==
    /\ Toggle(ep'[d]) = Toggle(ep[d]) /\ ep'[d].enabled = ep[d].enabled
    /\ Alternates(ep[d]) => Alternates(ep'[d])
    /\ Unstalled(ep[d]) => Unstalled(ep'[d])
    /\ Pending(d)' => Pending(d)
    /\ SieReady(ep[d]) => SieReady(ep'[d])
    /\ SieReady(ep'[d]) => Pending(d) \/ SieReady(ep[d])
    /\ Pending(d) /\ ep[d].enabled /\ ~torn[d] /\ Unstalled(ep[d])
          => Pending(d)' \/ SieReady(ep'[d])

\* The buffer of an OUT transfer.
Aims ==
    /\ SieReady(ep["out"]) => Active("out").buf = Rx_State
    /\ At("out") = "own" => ep["out"].bd[entry].buf = Rx_State

LEMMA AlikeSame ==
    ASSUME NEW d, ep'[d] = ep[d], Pending(d)' <=> Pending(d)
    PROVE  Alike(d)
BY DEF Alike

Transfer == Fetch \/ Fill \/ Own \/ Advance \/ Return

\* A statement of USBTransferOnePacket.
LEMMA TransferStep ==
    ASSUME DeviceType, HaltInv, Transfer
    PROVE  /\ DeviceType' /\ HaltInv'
           /\ \A d \in {"out", "in"} : Alike(d)
           /\ Aims => Aims'
<1>0. PICK d \in {"out", "in"} : d = dir
  BY DEF DeviceType
<1>1. /\ d \in {"out", "in"} /\ At(d) = pc /\ \A c : c # d => At(c) = "loop"
      /\ entry \in {0, 1, NULL} /\ (pc \in Inside => entry \in {0, 1})
      /\ Rx_State \in {0, 1, INIT} /\ pc \in Places
      /\ handle \in [{"out", "in"} -> {0, 1, NULL}]
  BY <1>0 DEF DeviceType, At
<1>2. /\ ep[d] \in Ep /\ torn[d] \in BOOLEAN
      /\ Part(pc, ep[d], handle[d], entry, torn[d])
      /\ ep[d].sie \in {0, 1} /\ ep[d].next \in {0, 1}
  BY <1>1, OneEndpoint, EpTypes
<1>3. /\ UNCHANGED <<ep_data, USTAT, PKTDIS, torn, Rx_State>> /\ pc # "loop"
      /\ pc' # "loop" => dir' = dir
      /\ \A c \in {"out", "in"} : c # d => handle'[c] = handle[c]
  BY <1>0 DEF Transfer, Fetch, Fill, Own, Advance, Return, device, main,
             DeviceType
<1>4. d = "out" => Rx_State \in {0, 1}
  BY <1>1, <1>3 DEF HaltInv, RxInit
<1>5. dir' \in {"out", "in"} /\ pc' \in Places
  <2>1. pc' \in {"fill", "own", "advance", "return", "loop"}
    BY DEF Transfer, Fetch, Fill, Own, Advance, Return
  <2>2. dir' = dir \/ dir' = "out"
    BY DEF Transfer, Fetch, Fill, Own, Advance, Return
  <2>3. QED
    BY <1>0, <2>1, <2>2 DEF Places, Before, After
<1>6. /\ At(d)' = pc' /\ \A c : c # d => At(c)' = "loop"
  BY <1>0, <1>3 DEF At
<1>7. RxInit'
  BY <1>1, <1>3, <1>4, <1>6 DEF RxInit, HaltInv, INIT
<1>8. ASSUME NEW g \in Ep, ep' = [ep EXCEPT ![d] = g], g.sie = ep[d].sie,
             handle' = handle, entry' \in {0, 1},
             Part(pc', g, handle[d], entry', torn[d])
      PROVE  DeviceType' /\ HaltInv'
  <2>1. \A c \in {"out", "in"} : c # d =>
           At(c) = "loop" /\ At(c)' = "loop" /\ handle'[c] = handle[c]
    BY <1>1, <1>6, <1>8
  <2>2. Part(At(d)', g, handle'[d], entry', torn[d])
    BY <1>6, <1>8
  <2>3. entry' \in {0, 1, NULL} /\ (pc' \in Inside => entry' \in {0, 1})
    BY <1>8
  <2>4. /\ handle' \in [{"out", "in"} -> {0, 1, NULL}]
        /\ Rx_State' \in {0, 1, INIT}
        /\ UNCHANGED <<ep_data, USTAT, PKTDIS, torn>>
    BY <1>1, <1>3, <1>8
  <2>5. QED
    BY <1>5, <1>7, <1>8, <2>1, <2>2, <2>3, <2>4, LoopStep
\* The other endpoint.
<1>9. ASSUME NEW c \in {"out", "in"}, c # d, ep'[c] = ep[c] PROVE Alike(c)
  BY <1>1, <1>6, <1>9, AlikeSame DEF Pending
<1>10. CASE Fetch
  <2>1. /\ pc = "fetch" /\ pc' = "fill" /\ entry' = ep[d].next
        /\ UNCHANGED <<ep, handle>>
    BY <1>0, <1>10 DEF Fetch, device, main
  <2>2. Part("fill", ep[d], handle[d], entry', torn[d])
    BY <1>2, <2>1, FetchPart
  <2>3. ep' = [ep EXCEPT ![d] = ep[d]]
    BY <1>1, <2>1 DEF DeviceType
  <2>4. DeviceType' /\ HaltInv'
    BY <1>2, <1>8, <2>1, <2>2, <2>3
  <2>5. \A c \in {"out", "in"} : Alike(c)
    <3>1. Pending(d)' <=> Pending(d)
      BY <1>1, <1>6, <2>1 DEF Pending, Before
    <3>2. QED
      BY <1>9, <2>1, <3>1, AlikeSame
  <2>6. Aims => Aims'
    BY <1>1, <1>3, <1>6, <2>1 DEF Aims, Active
  <2>7. QED
    BY <2>4, <2>5, <2>6
<1>11. CASE Fill
  <2> DEFINE b == IF d = "out" THEN Rx_State ELSE 0
             g == Filled(ep[d], entry, b)
  <2>1. /\ pc = "fill" /\ pc' = "own"
        /\ ep' = [ep EXCEPT ![d] = g] /\ UNCHANGED <<entry, handle>>
    BY <1>0, <1>11 DEF Fill, main, Filled
  <2>2. entry \in {0, 1} /\ b \in {0, 1}
    BY <1>1, <1>4, <2>1 DEF Inside
  <2>3. /\ g \in Ep /\ g.sie = ep[d].sie /\ g.enabled = ep[d].enabled
        /\ Part("own", g, handle[d], entry, torn[d])
        /\ Toggle(g) = Toggle(ep[d]) /\ (Alternates(g) <=> Alternates(ep[d]))
        /\ ~SieReady(ep[d]) /\ ~SieReady(g) /\ g.bd[entry].buf = b
        /\ \A i \in {0, 1} : ~ep[d].bd[i].stall => ~g.bd[i].stall
    BY <1>2, <2>1, <2>2, FillPart
  <2> HIDE DEF g
  <2>4. DeviceType' /\ HaltInv'
    BY <1>8, <2>1, <2>2, <2>3
  <2>5. /\ ep'[d] = g
        /\ \A c \in {"out", "in"} : c # d => ep'[c] = ep[c]
    BY <1>1, <2>1 DEF DeviceType
  <2>6. \A c \in {"out", "in"} : Alike(c)
    <3>1. Pending(d)' /\ Pending(d)
      BY <1>1, <1>6, <2>1 DEF Pending, Before
    <3>2. Alike(d)
      BY <2>3, <2>5, <3>1 DEF Alike, Unstalled
    <3>3. QED
      BY <1>9, <2>5, <3>2
  <2>7. Aims => Aims'
    <3>1. CASE d = "out"
      BY <1>3, <2>1, <2>3, <2>5, <3>1 DEF Aims
    <3>2. CASE d # "out"
      BY <1>3, <1>6, <2>1, <2>5, <3>2 DEF Aims, Active
    <3>3. QED
      BY <3>1, <3>2
  <2>8. QED
    BY <2>4, <2>6, <2>7
<1>12. CASE Own
  <2> DEFINE g == Owned(ep[d], entry)
  <2>1. /\ pc = "own" /\ pc' = "advance"
        /\ ep' = [ep EXCEPT ![d] = g] /\ UNCHANGED <<entry, handle>>
    BY <1>0, <1>12 DEF Own, main, Owned
  <2>2. entry \in {0, 1}
    BY <1>1, <2>1 DEF Inside
  <2>3. /\ g \in Ep /\ g.sie = ep[d].sie /\ g.enabled = ep[d].enabled
        /\ Part("advance", g, handle[d], entry, torn[d])
        /\ Toggle(g) = Toggle(ep[d]) /\ (Alternates(g) <=> Alternates(ep[d]))
        /\ ~SieReady(ep[d]) /\ (SieReady(g) => g.sie = entry)
        /\ \A i \in {0, 1} : /\ g.bd[i].buf = ep[d].bd[i].buf
                             /\ g.bd[i].stall = ep[d].bd[i].stall
        /\ ep[d].enabled /\ ~torn[d] /\ ~ep[d].bd[entry].stall => SieReady(g)
    BY <1>2, <2>1, <2>2, OwnPart
  <2> HIDE DEF g
  <2>4. DeviceType' /\ HaltInv'
    BY <1>8, <2>1, <2>2, <2>3
  <2>5. /\ ep'[d] = g
        /\ \A c \in {"out", "in"} : c # d => ep'[c] = ep[c]
    BY <1>1, <2>1 DEF DeviceType
  <2>6. \A c \in {"out", "in"} : Alike(c)
    <3>1. Pending(d) /\ ~Pending(d)'
      BY <1>1, <1>6, <2>1 DEF Pending, Before
    <3>2. Alike(d)
      BY <2>2, <2>3, <2>5, <3>1 DEF Alike, Unstalled
    <3>3. QED
      BY <1>9, <2>5, <3>2
  <2>7. Aims => Aims'
    <3>1. CASE d = "out"
      <4>1. At("out") = "own" /\ At("out")' = "advance" /\ ep'["out"] = g
        BY <1>1, <1>6, <2>1, <2>5, <3>1
      <4>2. Aims => (SieReady(g) => g.bd[g.sie].buf = Rx_State)
        BY <2>2, <2>3, <3>1, <4>1 DEF Aims
      <4>3. QED
        BY <1>3, <4>1, <4>2 DEF Aims, Active
    <3>2. CASE d # "out"
      BY <1>3, <1>6, <2>1, <2>5, <3>2 DEF Aims, Active
    <3>3. QED
      BY <3>1, <3>2
  <2>8. QED
    BY <2>4, <2>6, <2>7
<1>13. CASE Advance
  <2> DEFINE g == Advanced(ep[d])
  <2>1. /\ pc = "advance" /\ pc' = "return"
        /\ ep' = [ep EXCEPT ![d] = g] /\ UNCHANGED <<entry, handle>>
    BY <1>0, <1>13 DEF Advance, main, Advanced
  <2>2. entry \in {0, 1}
    BY <1>1, <2>1 DEF Inside
  <2>3. /\ g \in Ep /\ g.sie = ep[d].sie /\ g.enabled = ep[d].enabled
        /\ g.bd = ep[d].bd /\ Part("return", g, handle[d], entry, torn[d])
    BY <1>2, <2>1, <2>2, AdvancePart
  <2> HIDE DEF g
  <2>4. DeviceType' /\ HaltInv'
    BY <1>8, <2>1, <2>2, <2>3
  <2>5. /\ ep'[d] = g
        /\ \A c \in {"out", "in"} : c # d => ep'[c] = ep[c]
    BY <1>1, <2>1 DEF DeviceType
  <2>6. \A c \in {"out", "in"} : Alike(c)
    <3>1. ~Pending(d) /\ ~Pending(d)'
      BY <1>1, <1>6, <2>1 DEF Pending, Before
    <3>2. Alike(d)
      BY <2>3, <2>5, <3>1 DEF Alike, Unstalled, Toggle, Alternates, SieReady
    <3>3. QED
      BY <1>9, <2>5, <3>2
  <2>7. Aims => Aims'
    <3>1. CASE d = "out"
      <4>1. At("out")' = "return" /\ ep'["out"] = g
        BY <1>6, <2>1, <2>5, <3>1
      <4>2. QED
        BY <1>3, <2>3, <3>1, <4>1 DEF Aims, Active, SieReady
    <3>2. CASE d # "out"
      BY <1>3, <1>6, <2>1, <2>5, <3>2 DEF Aims, Active
    <3>3. QED
      BY <3>1, <3>2
  <2>8. QED
    BY <2>4, <2>6, <2>7
<1>14. CASE Return
  <2>1. /\ pc = "return" /\ pc' = "loop" /\ entry' = NULL
        /\ handle' = [handle EXCEPT ![d] = entry] /\ UNCHANGED ep
    BY <1>0, <1>14 DEF Return, device
  <2>2. entry \in {0, 1} /\ pc' \notin Inside
    BY <1>1, <2>1 DEF Inside
  <2>3. /\ handle' \in [{"out", "in"} -> {0, 1, NULL}] /\ handle'[d] = entry
        /\ \A c \in {"out", "in"} : c # d => handle'[c] = handle[c]
    BY <1>1, <2>1, <2>2
  <2>4. Part("loop", ep[d], entry, entry', torn[d])
    BY <1>2, <2>1, ReturnPart
  <2>5. ep' = [ep EXCEPT ![d] = ep[d]]
    BY <1>1, <2>1 DEF DeviceType
  <2>6. Part(At(d)', ep[d], handle'[d], entry', torn[d])
    BY <1>6, <2>1, <2>3, <2>4
  <2>7. /\ entry' \in {0, 1, NULL} /\ (pc' \in Inside => entry' \in {0, 1})
        /\ Rx_State' \in {0, 1, INIT}
        /\ UNCHANGED <<ep_data, USTAT, PKTDIS, torn>>
        /\ \A c \in {"out", "in"} : c # d =>
              At(c) = "loop" /\ At(c)' = "loop" /\ handle'[c] = handle[c]
    BY <1>1, <1>3, <1>6, <2>1, <2>2
  <2>8. DeviceType' /\ HaltInv'
    BY <1>2, <1>5, <1>7, <2>3, <2>5, <2>6, <2>7, LoopStep
  <2>9. \A c \in {"out", "in"} : Alike(c)
    <3>1. ~Pending(d)' /\ ~Pending(d)
      BY <1>1, <1>6, <2>1 DEF Pending, Before
    <3>2. QED
      BY <1>9, <2>1, <3>1, AlikeSame
  <2>10. Aims => Aims'
    BY <1>3, <1>6, <2>1 DEF Aims, Active
  <2>11. QED
    BY <2>8, <2>9, <2>10
<1>15. QED
  BY <1>10, <1>11, <1>12, <1>13, <1>14 DEF Transfer

LEMMA DeviceStep ==
    ASSUME DeviceType, HaltInv, [Next]_vars
    PROVE  DeviceType' /\ HaltInv'
<1>1. CASE ServiceTransaction
  BY <1>1, ServiceTransactionStep
<1>2. CASE ServiceSetup
  BY <1>2, ServiceSetupStep
<1>3. CASE MainInit
  <2>1. ~USBHandleBusy(ep["out"], handle["out"])
    BY <1>3 DEF MainInit, HaltInv, RxInit, USBHandleBusy
  <2>2. /\ pc = "loop" /\ Call("out") /\ Rx_State' \in {0, 1}
        /\ UNCHANGED <<ep, ep_data, USTAT, PKTDIS, torn, handle>>
    BY <1>3 DEF MainInit, device
  <2>3. /\ "out" = "out" => Rx_State' \in {0, 1}
        /\ "out" = "in" => UNCHANGED Rx_State
    BY <2>1, <2>2
  <2>4. QED
    BY <2>1, <2>2, <2>3, CallStep
<1>4. CASE MainRx
  <2>1. Rx_State' \in {0, 1}
    BY <1>4 DEF MainRx, DeviceType
  <2>2. /\ ~USBHandleBusy(ep["out"], handle["out"])
        /\ pc = "loop" /\ Call("out")
        /\ UNCHANGED <<ep, ep_data, USTAT, PKTDIS, torn, handle>>
    BY <1>4 DEF MainRx, device
  <2>3. /\ "out" = "out" => Rx_State' \in {0, 1}
        /\ "out" = "in" => UNCHANGED Rx_State
    BY <2>1, <2>2
  <2>4. QED
    BY <2>1, <2>2, <2>3, CallStep
<1>5. CASE MainDone
  BY <1>5, DeviceKept DEF MainDone, device
<1>6. CASE MainTx
  <2>1. /\ ~USBHandleBusy(ep["in"], handle["in"])
        /\ pc = "loop" /\ Call("in")
        /\ UNCHANGED <<ep, ep_data, USTAT, PKTDIS, torn, handle, Rx_State>>
    BY <1>6 DEF MainTx, InFree, device
  <2>2. QED
    BY <2>1, CallStep
<1>7. CASE Transfer
  BY <1>7, TransferStep
<1>8. CASE HostOut
  <2>1. /\ "out" \in Directions /\ ~PKTDIS /\ Len(USTAT) < 4
        /\ SieReady(ep["out"])
        /\ UNCHANGED <<ep_data, PKTDIS, handle, Rx_State, call, torn>>
        /\ Complete("out") \/ UNCHANGED <<ep, USTAT>>
    BY <1>8 DEF HostOut, Answers, USTAT_DEPTH, main
  <2>2. QED
    BY <2>1, CompleteStep, DeviceKept
<1>9. CASE HostIn
  <2>1. /\ "in" \in Directions /\ ~PKTDIS /\ Len(USTAT) < 4
        /\ SieReady(ep["in"])
        /\ UNCHANGED <<ep_data, PKTDIS, handle, Rx_State, call, torn>>
        /\ Complete("in") \/ UNCHANGED <<ep, USTAT>>
    BY <1>9 DEF HostIn, Answers, USTAT_DEPTH, main
  <2>2. QED
    BY <2>1, CompleteStep, DeviceKept
<1>10. ASSUME NEW d \in Directions, HostStalled(d)
       PROVE  DeviceType' /\ HaltInv'
  BY <1>10, DeviceKept DEF HostStalled, device, main
<1>11. ASSUME NEW r \in Requests, HostSetup(r)
       PROVE  DeviceType' /\ HaltInv'
  BY <1>11, HostSetupStep
<1>12. CASE UNCHANGED vars
  BY <1>12, DeviceKept DEF vars, device, main
<1>13. QED
  BY <1>1, <1>2, <1>3, <1>4, <1>5, <1>6, <1>7, <1>8, <1>9, <1>10, <1>11, <1>12
     DEF Next, Interrupt, MainLoop, Transfer, HostTransfer
-----------------------------------------------------------------------------
(***************************************************************************)
(* Packets, requests and losses.                                           *)
(***************************************************************************)
LEMMA NextNumber ==
    ASSUME NEW n \in 1..(MaxPackets + 1), n <= MaxPackets
    PROVE  n \in 1..MaxPackets /\ n + 1 \in 1..(MaxPackets + 1)
BY HaltAssumption DEF HaltAssumption

\* What CountType and CountInv speak of, but for the IN endpoint.
counts == <<working, received, written, USB_OutPacket, host, bounds>>

LEMMA CountKept ==
    ASSUME CountType, CountInv, UNCHANGED counts,
           Pending("in")' \/ SieReady(ep["in"])'
              => Pending("in") \/ SieReady(ep["in"])
    PROVE  CountType' /\ CountInv'
<1>1. UNCHANGED <<working, received, written, USB_OutPacket, got, toggle,
                  number, tried, abandoned, halted, lost, requests>>
  BY DEF counts, host, bounds
<1>2. CountType'
  BY <1>1 DEF CountType
<1>3. CountInv'
  BY <1>1 DEF CountInv
<1>4. QED
  BY <1>2, <1>3

LEMMA CountStep ==
    ASSUME DeviceType, HaltInv, CountType, CountInv, [Next]_vars
    PROVE  CountType' /\ CountInv'
<1>1. CASE ServiceTransaction
  <2>1. UNCHANGED <<ep, pc, dir, counts>>
    BY <1>1 DEF ServiceTransaction, TransactionComplete, main, call, counts
  <2>2. QED
    BY <2>1, CountKept DEF Pending, At
<1>2. CASE ServiceSetup
  <2>1. SieReady(ep["in"])' => SieReady(ep["in"])
    <3>1. PICK d \in {"out", "in"}, g \in Ep : Requested(d, g)
      BY <1>2, ServiceSetupStep
    <3>2. ep' = [ep EXCEPT ![d] = g] /\ ~SieReady(g)
      BY <3>1 DEF Requested
    <3>3. QED
      BY <3>2 DEF DeviceType
  <2>2. Pending("in")' <=> Pending("in")
    BY <1>2 DEF ServiceSetup, call, Pending, At
  <2>3. UNCHANGED <<working, received, written, USB_OutPacket, got, bounds>>
    BY <1>2 DEF ServiceSetup, main
  <2>4. PICK d \in Directions : Head(USTAT)[2] = d
    BY <1>2 DEF ServiceSetup, Requests
  <2>5. \/ UNCHANGED <<toggle, halted, number, tried, abandoned>>
        \/ /\ toggle' = [toggle EXCEPT ![d] = 0]
           /\ halted' = [halted EXCEPT ![d] = FALSE]
           /\ \/ UNCHANGED <<number, tried, abandoned>>
              \/ /\ tried /\ number' = number + 1 /\ tried' = FALSE
                 /\ abandoned' = abandoned \cup {number}
    BY <1>2, <2>4 DEF ServiceSetup
  <2>6. /\ toggle' \in [{"out", "in"} -> {0, 1}]
        /\ halted' \in [{"out", "in"} -> BOOLEAN]
    BY <2>5 DEF CountType
  <2>7. /\ number' \in 1..(MaxPackets + 1) /\ tried' \in BOOLEAN
        /\ abandoned' \subseteq 1..MaxPackets
        /\ tried' => number' <= MaxPackets
    <3>1. CASE UNCHANGED <<number, tried, abandoned>>
      BY <3>1 DEF CountType, CountInv
    <3>2. CASE /\ tried /\ number' = number + 1 /\ tried' = FALSE
               /\ abandoned' = abandoned \cup {number}
      <4>1. number \in 1..MaxPackets /\ number + 1 \in 1..(MaxPackets + 1)
        BY <3>2, NextNumber DEF CountType, CountInv
      <4>2. QED
        BY <3>2, <4>1 DEF CountType
    <3>3. QED
      BY <2>5, <3>1, <3>2
  <2>8. CountType'
    BY <2>3, <2>6, <2>7 DEF CountType, bounds
  <2>9. QED
    BY <2>1, <2>2, <2>3, <2>7, <2>8 DEF CountInv
<1>3. CASE MainInit
  <2>1. UNCHANGED <<ep, counts>> /\ ~Pending("in")'
    BY <1>3 DEF MainInit, Call, device, counts, Pending, At, Before
  <2>2. QED
    BY <2>1, CountKept
<1>4. CASE MainRx
  <2>1. /\ received' = Append(received, USB_OutPacket[Rx_State])
        /\ USB_OutPacket' = [USB_OutPacket EXCEPT ![Rx_State] = 0]
        /\ working' = TRUE /\ UNCHANGED <<ep, written, host, bounds>>
        /\ ~Pending("in")'
    BY <1>4 DEF MainRx, Call, device, Pending, At, Before
  <2>2. Rx_State \in {0, 1}
    BY <1>4 DEF MainRx, DeviceType
  <2>3. /\ received' \in Seq(0..MaxPackets)
        /\ USB_OutPacket' \in [{0, 1} -> 0..MaxPackets]
    <3>1. USB_OutPacket[Rx_State] \in 0..MaxPackets /\ 0 \in 0..MaxPackets
      BY <2>2, HaltAssumption DEF CountType, HaltAssumption
    <3>2. received \in Seq(0..MaxPackets)
          /\ USB_OutPacket \in [{0, 1} -> 0..MaxPackets]
      BY DEF CountType
    <3>3. received' \in Seq(0..MaxPackets)
      BY <2>1, <3>1, <3>2, AppendProperties
    <3>4. QED
      BY <2>1, <3>1, <3>2, <3>3
  <2>4. CountType'
    BY <2>1, <2>3 DEF CountType, host, bounds
  <2>5. QED
    BY <2>1, <2>4 DEF CountInv, host
<1>5. CASE MainDone
  <2>1. /\ working' = FALSE
        /\ UNCHANGED <<ep, pc, dir, received, written, USB_OutPacket, host,
                       bounds>>
    BY <1>5 DEF MainDone, device, call
  <2>2. CountType'
    BY <2>1 DEF CountType, host, bounds
  <2>3. QED
    BY <2>1, <2>2 DEF CountInv, host, Pending, At
<1>6. CASE MainTx
  <2>1. /\ written < MaxReplies /\ written' = written + 1
        /\ UNCHANGED <<working, received, USB_OutPacket, host, bounds>>
    BY <1>6 DEF MainTx
  <2>2. written' \in 0..MaxReplies /\ written' > 0
    BY <2>1, HaltAssumption DEF CountType, HaltAssumption
  <2>3. CountType'
    BY <2>1, <2>2 DEF CountType, host, bounds
  <2>4. QED
    BY <2>1, <2>2, <2>3 DEF CountInv, host
<1>7. CASE Transfer
  <2>1. UNCHANGED counts
    BY <1>7 DEF Transfer, Fetch, Fill, Own, Advance, Return, main, counts
  <2>2. Alike("in")
    BY <1>7, TransferStep
  <2>3. QED
    BY <2>1, <2>2, CountKept DEF Alike
<1>8. CASE HostOut
  <2>1. /\ number <= MaxPackets
        /\ ep'["in"] = ep["in"] /\ UNCHANGED <<main, call>>
        /\ UNCHANGED <<got, abandoned, halted, requests>>
    BY <1>8 DEF HostOut, Answers, Complete, DeviceType
  <2>2. USB_OutPacket' \in [{0, 1} -> 0..MaxPackets]
    <3>1. Active("out").buf \in {0, 1}
      BY EpTypes DEF Active, DeviceType
    <3>2. number \in 0..MaxPackets
      BY <2>1, HaltAssumption DEF CountType, HaltAssumption
    <3>3. \/ USB_OutPacket' =
                [USB_OutPacket EXCEPT ![Active("out").buf] = number]
          \/ UNCHANGED USB_OutPacket
      BY <1>8 DEF HostOut
    <3>4. QED
      BY <3>1, <3>2, <3>3 DEF CountType
  <2>3. \/ /\ toggle' = [toggle EXCEPT !["out"] = 1 - @]
           /\ number' = number + 1 /\ tried' = FALSE /\ UNCHANGED lost
        \/ /\ lost < MaxLost /\ lost' = lost + 1
           /\ tried' = TRUE /\ UNCHANGED <<toggle, number>>
    BY <1>8 DEF HostOut
  <2>4. toggle' \in [{"out", "in"} -> {0, 1}] /\ lost' \in 0..MaxLost
    BY <2>3, HaltAssumption DEF CountType, HaltAssumption
  <2>5. number' \in 1..(MaxPackets + 1) /\ tried' \in BOOLEAN
    <3>1. number + 1 \in 1..(MaxPackets + 1)
      BY <2>1, NextNumber DEF CountType
    <3>2. QED
      BY <2>3, <3>1 DEF CountType
  <2>6. tried' => number' <= MaxPackets
    BY <2>1, <2>3
  <2>7. CountType'
    BY <2>1, <2>2, <2>4, <2>5 DEF CountType, main
  <2>8. QED
    BY <2>1, <2>6, <2>7 DEF CountInv, Pending, At, main, call
<1>9. CASE HostIn
  <2>1. SieReady(ep["in"]) /\ UNCHANGED <<main, call>>
    BY <1>9 DEF HostIn
  <2>2. written \in 1..MaxReplies
    BY <2>1, HaltAssumption DEF CountInv, CountType, HaltAssumption
  <2>3. \/ /\ got' = Append(got, written)
           /\ toggle' = [toggle EXCEPT !["in"] = 1 - @]
        \/ UNCHANGED <<got, toggle>>
    BY <1>9 DEF HostIn
  <2>4. got' \in Seq(1..MaxReplies) /\ toggle' \in [{"out", "in"} -> {0, 1}]
    <3>1. Append(got, written) \in Seq(1..MaxReplies)
      BY <2>2, AppendProperties DEF CountType
    <3>2. [toggle EXCEPT !["in"] = 1 - @] \in [{"out", "in"} -> {0, 1}]
      BY DEF CountType
    <3>3. QED
      BY <2>3, <3>1, <3>2 DEF CountType
  <2>5. lost' = lost \/ (lost < MaxLost /\ lost' = lost + 1)
    BY <1>9 DEF HostIn
  <2>6. UNCHANGED <<USB_OutPacket, number, tried, abandoned, halted, requests>>
    BY <1>9 DEF HostIn
  <2>7. lost' \in 0..MaxLost
    BY <2>5, HaltAssumption DEF CountType, HaltAssumption
  <2>8. CountType'
    BY <2>1, <2>4, <2>6, <2>7 DEF CountType, main
  <2>9. written' > 0
    BY <2>1, <2>2 DEF main
  <2>10. QED
    BY <2>6, <2>8, <2>9 DEF CountInv
<1>10. ASSUME NEW d \in Directions, HostStalled(d)
       PROVE  CountType' /\ CountInv'
  <2>1. /\ halted' = [halted EXCEPT ![d] = TRUE]
        /\ UNCHANGED <<ep, pc, dir, working, received, written, USB_OutPacket,
                       got, toggle, number, tried, abandoned, bounds>>
    BY <1>10 DEF HostStalled, device, main, call
  <2>2. CountType'
    BY <2>1 DEF CountType, bounds
  <2>3. QED
    BY <2>1, <2>2 DEF CountInv, Pending, At
<1>11. ASSUME NEW r \in Requests, HostSetup(r)
       PROVE  CountType' /\ CountInv'
  <2>1. /\ requests' \in 0..MaxRequests
        /\ UNCHANGED <<ep, pc, dir, working, received, written, USB_OutPacket,
                       host, lost>>
    BY <1>11, HaltAssumption
       DEF HostSetup, main, call, CountType, HaltAssumption
  <2>2. CountType'
    BY <2>1 DEF CountType, host
  <2>3. QED
    BY <2>1, <2>2 DEF CountInv, Pending, At, host
<1>12. CASE UNCHANGED vars
  BY <1>12, CountKept DEF vars, device, main, call, counts, Pending, At
<1>13. QED
  BY <1>1, <1>2, <1>3, <1>4, <1>5, <1>6, <1>7, <1>8, <1>9, <1>10, <1>11, <1>12
     DEF Next, Interrupt, MainLoop, Transfer, HostTransfer
-----------------------------------------------------------------------------
IInv == DeviceType /\ CountType /\ HaltInv /\ CountInv

LEMMA InitHolds == Init => IInv
<1> SUFFICES ASSUME Init PROVE IInv
  OBVIOUS
<1> DEFINE e == USBEnableEndpoint
<1>1. /\ e \in Ep /\ e.sie = 0 /\ Free(e) /\ ~SieReady(e)
      /\ Part("loop", e, NULL, NULL, FALSE)
  BY DEF USBEnableEndpoint, Idle, Ep, Descriptors, Free, SieReady, Part,
         OnlyPolled, Ready, InStepAt, InStep, Alone, Before
<1>2. \A d \in {"out", "in"} : /\ ep[d] = e /\ handle[d] = NULL
                               /\ torn[d] = FALSE /\ At(d) = "loop"
  BY DEF Init, Both, At
<1>3. ep = [c \in {"out", "in"} |-> e]
  BY DEF Init, Both
<1> HIDE DEF e
<1>4. DeviceType
  <2>1. USTAT \in Seq(Entries) /\ Len(USTAT) <= 4
    BY DEF Init
  <2>2. ep_data \in [{"out", "in"} -> Status]
    BY DEF Init, Both, Status
  <2>3. /\ ep \in [{"out", "in"} -> Ep]
        /\ handle \in [{"out", "in"} -> {0, 1, NULL}]
        /\ torn \in [{"out", "in"} -> BOOLEAN]
    BY <1>1, <1>3 DEF Init, Both
  <2>4. /\ PKTDIS \in BOOLEAN /\ Rx_State \in {0, 1, INIT}
        /\ pc \in Places /\ pc \notin Inside /\ dir \in {"out", "in"}
        /\ entry \in {0, 1, NULL}
    BY DEF Init, Places, Inside
  <2>5. QED
    BY <2>1, <2>2, <2>3, <2>4 DEF DeviceType
<1>5. CountType
  <2>1. received \in Seq(0..MaxPackets) /\ got \in Seq(1..MaxReplies)
    BY DEF Init
  <2>2. /\ toggle \in [{"out", "in"} -> {0, 1}]
        /\ halted \in [{"out", "in"} -> BOOLEAN]
        /\ USB_OutPacket \in [{0, 1} -> 0..MaxPackets]
    BY HaltAssumption DEF HaltAssumption, Init, Both
  <2>3. /\ written \in 0..MaxReplies /\ number \in 1..(MaxPackets + 1)
        /\ lost \in 0..MaxLost /\ requests \in 0..MaxRequests
    BY HaltAssumption DEF HaltAssumption, Init
  <2>4. /\ working \in BOOLEAN /\ tried \in BOOLEAN
        /\ abandoned \subseteq 1..MaxPackets
    BY DEF Init
  <2>5. QED
    BY <2>1, <2>2, <2>3, <2>4 DEF CountType
<1>6. HaltInv
  <2>1. Len(USTAT) = 0 /\ entry = NULL
    BY EmptySeq DEF Init
  <2>2. \A c : ~Odd(USTAT, c)
    BY <2>1 DEF Odd, Waits
  <2>3. ASSUME NEW d \in {"out", "in"}
        PROVE  Part(At(d), ep[d], handle[d], entry, torn[d]) /\ Lags(d)
    <3>1. ep_data[d].ping_pong_state = 0
      BY DEF Init, Both
    <3>2. Lags(d)
      BY <1>1, <1>2, <2>2, <3>1 DEF Lags
    <3>3. QED
      BY <1>1, <1>2, <2>1, <3>2
  <2>4. SetupLast /\ RxInit
    BY <1>2, <2>1 DEF SetupLast, RxInit
  <2>5. QED
    BY <2>3, <2>4 DEF HaltInv
<1>7. CountInv
  BY <1>1, <1>2 DEF CountInv, Init, Pending, Before
<1>8. QED
  BY <1>4, <1>5, <1>6, <1>7 DEF IInv

\* The inductive invariant: types, endpoints in step or torn, counters in range.
THEOREM Inductive == Spec => []IInv
<1>1. Init => IInv
  BY InitHolds
<1>2. IInv /\ [Next]_vars => IInv'
  BY DeviceStep, CountStep DEF IInv
<1>3. QED
  BY <1>1, <1>2, PTL DEF Spec

\* Every variable keeps its type; handles and pointers stay in the table.
THEOREM TypeCorrect == Spec => []TypeOK
<1>1. IInv => TypeOK
  BY TypeParts DEF IInv
<1>2. QED
  BY <1>1, Inductive, PTL

\* Between two transfers only the descriptor that the SIE uses next is armed or
\* stalled, and if it is not, the software arms it next.  The one exception is
\* a request that came between the setting of UOWN and the advance of the
\* pointer (torn), until a CLEAR_FEATURE outside of a transfer.
THEOREM ArmedUnlessTorn == Spec => []ArmedWhereSieLooks
<1>1. IInv => ArmedWhereSieLooks
  <2>1. SUFFICES ASSUME IInv, NEW d \in {"out", "in"}, ~torn[d], ~Calling(d)
                 PROVE  /\ ~ep[d].bd[1 - ep[d].sie].uown
                        /\ ep[d].bd[ep[d].sie].uown \/ ep[d].next = ep[d].sie
    BY DEF ArmedWhereSieLooks, LooksWhereSieLooks
  <2>2. At(d) \in {"loop", "fetch"}
    BY <2>1 DEF Calling, At, IInv, DeviceType, Places, Before, After
  <2>3. InStepAt(At(d), ep[d], handle[d], entry)
    BY <2>1 DEF IInv, HaltInv, Part
  <2>4. QED
    BY <2>2, <2>3 DEF InStepAt, InStep, Alone, Free, Busy, Halted, Before
<1>2. QED
  BY <1>1, Inductive, PTL
-----------------------------------------------------------------------------
(***************************************************************************)
(* The packets.  The SIE and the host agree on the toggle of the next OUT  *)
(* packet, but after a lost handshake: then the last one was delivered     *)
(* already.  A packet is delivered when it is in a buffer or was taken; at *)
(* most the buffer of Rx_State holds one, while none is armed.             *)
(***************************************************************************)
Matches(d) == toggle[d] = Toggle(ep[d])
Delivered == Taken \cup {USB_OutPacket[0], USB_OutPacket[1]}

OutToggle == Matches("out") <=> ~tried

OutBuffers ==
    /\ \A b \in {0, 1} : USB_OutPacket[b] # 0 =>
          b = Rx_State /\ ~Pending("out") /\ ~SieReady(ep["out"])
    /\ Aims

OutNumbers ==
    /\ \A x \in Delivered : x <= number /\ (x = number => tried)
    /\ tried => number \in Delivered
    /\ NothingLost

OutOrder ==
    /\ Increasing(received)
    /\ \A b \in {0, 1} : USB_OutPacket[b] # 0 =>
          \A i \in DOMAIN received : received[i] < USB_OutPacket[b]

OutInv == OutToggle /\ OutBuffers /\ OutNumbers /\ OutOrder

\* The host would take the last IN packet, now or once it is armed: a new one.
Fresh == Pending("in") \/ (SieReady(ep["in"]) /\ Matches("in"))

InInv ==
    /\ Increasing(got)
    /\ \A i \in DOMAIN got :
          got[i] <= written /\ (Fresh => got[i] < written)

\* Without requests nothing but a lost handshake makes the toggles differ.
NoRequests == \A i \in 1..Len(USTAT) : USTAT[i] \notin Requests
RepliesInv ==
    requests = 0 =>
        /\ ep["in"].enabled /\ ~torn["in"] /\ Unstalled(ep["in"]) /\ NoRequests
        /\ IF Fresh THEN Len(got) >= written - 1 ELSE Len(got) >= written
        /\ ~SieReady(ep["in"]) => Matches("in")

LinkInv ==
    /\ \A d \in {"out", "in"} : Alternates(ep[d])
    /\ OutInv /\ InInv /\ RepliesInv

LEMMA OutKept ==
    ASSUME OutInv, Toggle(ep'["out"]) = Toggle(ep["out"]),
           toggle'["out"] = toggle["out"], Aims',
           UNCHANGED <<number, tried, received, USB_OutPacket, Rx_State,
                       abandoned>>,
           Pending("out")' \/ SieReady(ep["out"])'
              => Pending("out") \/ SieReady(ep["out"])
    PROVE  OutInv'
<1>1. Delivered' = Delivered /\ Taken' = Taken
  BY DEF Delivered, Taken
<1>2. OutToggle'
  BY DEF OutInv, OutToggle, Matches
<1>3. OutBuffers'
  BY DEF OutInv, OutBuffers
<1>4. OutNumbers'
  BY <1>1 DEF OutInv, OutNumbers, NothingLost
<1>5. OutOrder'
  BY DEF OutInv, OutOrder, Increasing
<1>6. QED
  BY <1>2, <1>3, <1>4, <1>5 DEF OutInv

LEMMA InKept ==
    ASSUME InInv, Fresh' => Fresh, UNCHANGED <<got, written>>
    PROVE  InInv'
BY DEF InInv, Increasing

\* A transfer under way is not armed yet.
LEMMA NotReady ==
    ASSUME IInv, NEW d \in {"out", "in"}, Pending(d)
    PROVE  ~SieReady(ep[d])
<1>1. /\ OnlyPolled(At(d), ep[d], handle[d], entry)
      /\ ep[d].sie \in {0, 1} /\ At(d) \in Before
  BY DEF IInv, HaltInv, Part, DeviceType, Ep, Pending
<1>2. QED
  BY <1>1 DEF OnlyPolled, Ready, SieReady

\* What the main loop's transfers make of the IN packets.
LEMMA AlikeIn ==
    ASSUME IInv, LinkInv, Alike("in"), toggle'["in"] = toggle["in"],
           UNCHANGED <<got, written>>,
           requests' = 0 =>
              /\ requests = 0 /\ torn'["in"] = torn["in"]
              /\ NoRequests => NoRequests'
    PROVE  InInv' /\ RepliesInv'
<1>1. Matches("in")' <=> Matches("in")
  BY DEF Alike, Matches
<1>2. Fresh' => Fresh
  BY <1>1 DEF Fresh, Alike
<1>3. InInv'
  BY <1>2, InKept DEF LinkInv
<1>4. RepliesInv'
  <2>1. SUFFICES ASSUME requests' = 0 PROVE RepliesInv'
    BY DEF RepliesInv
  <2>2. /\ ep["in"].enabled /\ ~torn["in"] /\ Unstalled(ep["in"]) /\ NoRequests
        /\ IF Fresh THEN Len(got) >= written - 1 ELSE Len(got) >= written
        /\ ~SieReady(ep["in"]) => Matches("in")
        /\ requests = 0 /\ torn'["in"] = torn["in"] /\ NoRequests'
    BY <2>1 DEF LinkInv, RepliesInv
  <2>3. ep'["in"].enabled /\ ~torn'["in"] /\ Unstalled(ep'["in"])
    BY <2>2 DEF Alike
  <2>4. Pending("in") => Matches("in")
    BY <2>2, NotReady
  <2>5. Fresh => Fresh'
    BY <1>1, <2>2, <2>4 DEF Fresh, Alike
  <2>6. ~SieReady(ep'["in"]) => Matches("in")'
    BY <1>1, <2>2 DEF Alike
  <2>7. IF Fresh' THEN Len(got') >= written' - 1 ELSE Len(got') >= written'
    BY <1>2, <2>2, <2>5
  <2>8. QED
    BY <2>2, <2>3, <2>6, <2>7 DEF RepliesInv
<1>5. QED
  BY <1>3, <1>4

\* The packets are the same, the endpoints at most a statement further.
LEMMA LinkKept ==
    ASSUME IInv, LinkInv, Alike("out"), Alike("in"), Aims => Aims',
           UNCHANGED <<toggle, number, tried, received, USB_OutPacket,
                       Rx_State, abandoned, got, written>>,
           requests' = 0 =>
              /\ requests = 0 /\ torn'["in"] = torn["in"]
              /\ NoRequests => NoRequests'
    PROVE  LinkInv'
<1>1. InInv' /\ RepliesInv'
  BY AlikeIn
<1>2. OutInv'
  BY OutKept DEF LinkInv, OutInv, OutBuffers, Alike
<1>3. \A d \in {"out", "in"} : Alternates(ep'[d])
  BY DEF LinkInv, Alike
<1>4. QED
  BY <1>1, <1>2, <1>3 DEF LinkInv

\* A larger sequence of packets.
LEMMA TakenAppend ==
    ASSUME NEW s \in Seq(Nat), NEW x \in Nat, Increasing(s),
           x # 0 => \A i \in DOMAIN s : s[i] < x
    PROVE  LET t == Append(s, x)
           IN  /\ Increasing(t) /\ Len(t) = Len(s) + 1
               /\ {t[i] : i \in DOMAIN t} = {s[i] : i \in DOMAIN s} \cup {x}
               /\ \A i \in DOMAIN t :
                     t[i] = x \/ (i \in DOMAIN s /\ t[i] = s[i])
<1> DEFINE t == Append(s, x)
           n == Len(s)
<1>1. /\ n \in Nat /\ Len(t) = n + 1 /\ t[n + 1] = x
      /\ \A i \in 1..n : t[i] = s[i]
      /\ DOMAIN s = 1..n /\ DOMAIN t = 1..(n + 1)
      /\ \A i \in 1..n : s[i] \in Nat
  BY AppendProperties
<1> HIDE DEF t, n
<1>2. Increasing(t)
  BY <1>1 DEF Increasing
<1>3. {t[i] : i \in DOMAIN t} = {s[i] : i \in DOMAIN s} \cup {x}
  <2>1. ASSUME NEW i \in DOMAIN t
        PROVE  t[i] \in {s[k] : k \in DOMAIN s} \cup {x}
    BY <1>1
  <2>2. ASSUME NEW i \in DOMAIN s
        PROVE  s[i] \in {t[k] : k \in DOMAIN t}
    <3>1. i \in DOMAIN t /\ t[i] = s[i]
      BY <1>1
    <3>2. QED
      BY <3>1
  <2>3. x \in {t[k] : k \in DOMAIN t}
    <3>1. n + 1 \in DOMAIN t
      BY <1>1
    <3>2. QED
      BY <1>1, <3>1
  <2>4. QED
    BY <2>1, <2>2, <2>3
<1>4. \A i \in DOMAIN t : t[i] = x \/ (i \in DOMAIN s /\ t[i] = s[i])
  BY <1>1
<1>5. QED
  BY <1>1, <1>2, <1>3, <1>4 DEF t, n

\* The types that the packets' steps use.
LEMMA PacketTypes ==
    ASSUME DeviceType, CountType
    PROVE  /\ number \in Nat /\ MaxPackets \in Nat
           /\ USB_OutPacket \in [{0, 1} -> Nat]
           /\ received \in Seq(Nat) /\ got \in Seq(Nat) /\ written \in Nat
           /\ Taken \subseteq Nat /\ Delivered \subseteq Nat
           /\ toggle \in [{"out", "in"} -> {0, 1}] /\ tried \in BOOLEAN
           /\ \A d \in {"out", "in"} : ep[d] \in Ep /\ Toggle(ep[d]) \in {0, 1}
<1>1. number \in Nat /\ MaxPackets \in Nat /\ written \in Nat
  BY HaltAssumption DEF CountType
<1>2. 0..MaxPackets \subseteq Nat /\ 1..MaxReplies \subseteq Nat
  BY HaltAssumption DEF HaltAssumption
<1>3. /\ USB_OutPacket \in [{0, 1} -> Nat]
      /\ received \in Seq(Nat) /\ got \in Seq(Nat)
  <2>1. received \in Seq(Nat)
    BY <1>2, SeqMonotonic DEF CountType
  <2>2. got \in Seq(Nat)
    BY <1>2, SeqMonotonic DEF CountType
  <2>3. USB_OutPacket \in [{0, 1} -> Nat]
    BY <1>2 DEF CountType
  <2>4. QED
    BY <2>1, <2>2, <2>3
<1>4. Taken \subseteq Nat
  BY <1>3 DEF Taken
<1>5. \A d \in {"out", "in"} : ep[d] \in Ep /\ Toggle(ep[d]) \in {0, 1}
  BY EpTypes DEF DeviceType, Toggle
<1>7. Delivered \subseteq Nat
  BY <1>3, <1>4 DEF Delivered
<1>8. toggle \in [{"out", "in"} -> {0, 1}] /\ tried \in BOOLEAN
  BY DEF CountType
<1>9. QED
  BY <1>1, <1>3, <1>4, <1>5, <1>7, <1>8

LEMMA RequestOut ==
    ASSUME IInv, LinkInv, ServiceSetup
    PROVE  LinkInv'
<1>1. DeviceType /\ CountType /\ HaltInv
  BY DEF IInv
<1>2. PICK d \in {"out", "in"}, g \in Ep : Requested(d, g)
  BY <1>1, ServiceSetupStep
<1>3. /\ Head(USTAT)[2] = d /\ ep' = [ep EXCEPT ![d] = g]
      /\ ~SieReady(g) /\ Alternates(g)
      /\ \/ Head(USTAT)[1] = "SET_FEATURE" /\ Toggle(g) = Toggle(ep[d])
         \/ Head(USTAT)[1] = "CLEAR_FEATURE" /\ Toggle(g) = 0
      /\ \A i \in {0, 1} : g.bd[i].buf = ep[d].bd[i].buf
  BY <1>2 DEF Requested, LinkInv
<1>4. /\ ep \in [{"out", "in"} -> Ep] /\ ep'[d] = g
      /\ \A c \in {"out", "in"} : c # d => ep'[c] = ep[c]
  BY <1>1, <1>3 DEF DeviceType
<1>5. /\ UNCHANGED <<main, USB_OutPacket, got, bounds>>
      /\ IF Head(USTAT)[1] = "SET_FEATURE"
         THEN UNCHANGED <<toggle, number, tried, abandoned>>
         ELSE /\ toggle' = [toggle EXCEPT ![d] = 0]
              /\ IF d = "out" /\ tried
                 THEN /\ number' = number + 1 /\ tried' = FALSE
                      /\ abandoned' = abandoned \cup {number}
                 ELSE UNCHANGED <<number, tried, abandoned>>
  BY <1>3 DEF ServiceSetup
<1>6. /\ UNCHANGED <<Rx_State, received, written, requests, pc, dir, entry>>
      /\ \A c : At(c)' = At(c) /\ (Pending(c)' <=> Pending(c))
  BY <1>5 DEF ServiceSetup, main, call, bounds, At, Pending
<1>7. /\ number \in Nat /\ Delivered \subseteq Nat
      /\ toggle \in [{"out", "in"} -> {0, 1}] /\ tried \in BOOLEAN
  BY <1>1, PacketTypes
<1>8. \A c \in {"out", "in"} : Alternates(ep'[c])
  BY <1>3, <1>4 DEF LinkInv
<1>9. Aims'
  <2>1. Aims /\ (At("out") = "own" => entry \in {0, 1})
    BY <1>1 DEF LinkInv, OutInv, OutBuffers, DeviceType, At, Inside
  <2>2. CASE d = "out"
    BY <1>3, <1>4, <1>6, <2>1, <2>2 DEF Aims
  <2>3. CASE d = "in"
    BY <1>4, <1>6, <2>1, <2>3 DEF Aims, Active
  <2>4. QED
    BY <2>2, <2>3
<1>10. OutInv'
  <2>1. CASE d = "in"
    <3>1. /\ toggle'["out"] = toggle["out"]
          /\ UNCHANGED <<number, tried, abandoned>>
      BY <1>5, <1>7, <2>1
    <3>2. ep'["out"] = ep["out"]
      BY <1>4, <2>1
    <3>3. QED
      BY <1>5, <1>6, <1>9, <3>1, <3>2, OutKept DEF LinkInv
  <2>2. CASE d = "out" /\ Head(USTAT)[1] = "SET_FEATURE"
    <3>1. UNCHANGED <<toggle, number, tried, abandoned>>
      BY <1>5, <2>2
    <3>2. OutToggle'
      BY <1>3, <1>4, <2>2, <3>1 DEF LinkInv, OutInv, OutToggle, Matches
    <3>3. OutBuffers'
      BY <1>3, <1>4, <1>5, <1>6, <1>9, <2>2 DEF LinkInv, OutInv, OutBuffers
    <3>4. OutNumbers'
      BY <1>5, <1>6, <3>1
         DEF LinkInv, OutInv, OutNumbers, Delivered, Taken, NothingLost
    <3>5. OutOrder'
      BY <1>5, <1>6 DEF LinkInv, OutInv, OutOrder, Increasing
    <3>6. QED
      BY <3>2, <3>3, <3>4, <3>5 DEF OutInv
  <2>3. CASE d = "out" /\ Head(USTAT)[1] = "CLEAR_FEATURE"
    <3>1. /\ toggle'["out"] = 0 /\ tried' = FALSE
          /\ IF tried
             THEN number' = number + 1 /\ abandoned' = abandoned \cup {number}
             ELSE UNCHANGED <<number, abandoned>>
      BY <1>5, <1>7, <2>3
    <3>2. OutToggle'
      BY <1>3, <1>4, <2>3, <3>1 DEF OutToggle, Matches
    <3>3. OutBuffers'
      BY <1>3, <1>4, <1>5, <1>6, <1>9, <2>3 DEF LinkInv, OutInv, OutBuffers
    <3>4. OutNumbers'
      <4>1. OutNumbers /\ Delivered' = Delivered /\ Taken' = Taken
        BY <1>5, <1>6 DEF LinkInv, OutInv, Delivered, Taken
      <4>2. \A x \in Delivered : x <= number' /\ x # number'
        BY <1>7, <3>1, <4>1 DEF OutNumbers
      <4>3. NothingLost'
        <5>1. ASSUME NEW n \in 1..(number' - 1)
              PROVE  n \in abandoned' \cup Delivered
          <6>1. CASE n \in 1..(number - 1)
            BY <3>1, <4>1, <6>1 DEF OutNumbers, NothingLost, Delivered
          <6>2. CASE n \notin 1..(number - 1)
            BY <1>7, <3>1, <6>2
          <6>3. QED
            BY <6>1, <6>2
        <5>2. QED
          BY <1>5, <4>1, <5>1 DEF NothingLost, Delivered
      <4>4. QED
        BY <3>1, <4>1, <4>2, <4>3 DEF OutNumbers
    <3>5. OutOrder'
      BY <1>5, <1>6 DEF LinkInv, OutInv, OutOrder, Increasing
    <3>6. QED
      BY <3>2, <3>3, <3>4, <3>5 DEF OutInv
  <2>4. QED
    BY <1>3, <2>1, <2>2, <2>3
<1>11. InInv'
  <2>1. Fresh' => Fresh
    <3>1. CASE d = "out"
      <4>1. toggle'["in"] = toggle["in"] /\ ep'["in"] = ep["in"]
        BY <1>4, <1>5, <1>7, <3>1
      <4>2. QED
        BY <1>6, <4>1 DEF Fresh, Matches
    <3>2. CASE d = "in"
      BY <1>3, <1>4, <1>6, <3>2 DEF Fresh
    <3>3. QED
      BY <3>1, <3>2
  <2>2. QED
    BY <1>5, <1>6, <2>1, InKept DEF LinkInv
<1>12. RepliesInv'
  <2>1. \E i \in 1..Len(USTAT) : USTAT[i] \in Requests
    <3>1. /\ USTAT # <<>> /\ Head(USTAT) \in Requests /\ USTAT \in Seq(Entries)
      BY <1>1 DEF ServiceSetup, DeviceType
    <3>2. Head(USTAT) = USTAT[1] /\ 1 \in 1..Len(USTAT)
      BY <3>1, EmptySeq
    <3>3. QED
      BY <3>1, <3>2
  <2>2. requests # 0
    BY <2>1 DEF LinkInv, RepliesInv, NoRequests
  <2>3. QED
    BY <1>6, <2>2 DEF RepliesInv
<1>13. QED
  BY <1>8, <1>10, <1>11, <1>12 DEF LinkInv

\* The receive buffers are armed for the first time.
LEMMA FirstOut ==
    ASSUME IInv, LinkInv, MainInit
    PROVE  LinkInv'
<1>1. DeviceType /\ HaltInv
  BY DEF IInv
<1>2. /\ pc = "loop" /\ Rx_State = INIT /\ Rx_State' = 0 /\ Call("out")
      /\ UNCHANGED <<ep, ep_data, USTAT, PKTDIS, torn, handle, written,
                     received, USB_OutPacket, host, bounds>>
  BY DEF MainInit, device
<1>3. ~USBHandleBusy(ep["out"], handle["out"])
  BY <1>1, <1>2 DEF HaltInv, RxInit, USBHandleBusy
<1>4. ~SieReady(ep["out"]) /\ \A c \in {"out", "in"} : Pending(c)' <=> c = "out"
  <2>1. /\ "out" = "out" => Rx_State' \in {0, 1}
        /\ "out" = "in" => UNCHANGED Rx_State
    BY <1>2
  <2>2. QED
    BY <1>1, <1>2, <1>3, <2>1, CallStep
<1>5. ~Pending("in") /\ ~Pending("in")'
  BY <1>2, <1>4 DEF Pending, At, Before
<1>6. UNCHANGED <<got, toggle, number, tried, abandoned, requests>>
  BY <1>2 DEF host, bounds
<1>7. USB_OutPacket[0] = 0 /\ USB_OutPacket[1] = 0
  BY <1>2 DEF LinkInv, OutInv, OutBuffers, INIT
<1>8. OutInv'
  <2>1. Aims'
    BY <1>2, <1>4 DEF Aims, Call, At
  <2>2. Delivered' = Delivered
    BY <1>2 DEF Delivered, Taken
  <2>3. OutToggle' /\ OutBuffers'
    BY <1>2, <1>6, <1>7, <2>1
       DEF LinkInv, OutInv, OutToggle, Matches, OutBuffers
  <2>4. OutNumbers' /\ OutOrder'
    BY <1>2, <1>6, <2>2
       DEF LinkInv, OutInv, OutNumbers, NothingLost, Delivered, OutOrder,
           Increasing
  <2>5. QED
    BY <2>3, <2>4 DEF OutInv
<1>9. InInv' /\ RepliesInv'
  <2>1. Alike("in")
    BY <1>2, <1>5, AlikeSame
  <2>2. NoRequests => NoRequests'
    BY <1>2 DEF NoRequests
  <2>3. QED
    BY <1>2, <1>6, <2>1, <2>2, AlikeIn
<1>10. QED
  BY <1>2, <1>8, <1>9 DEF LinkInv

\* The main loop takes the packet of Rx_State and turns to the other buffer.
LEMMA RxOut ==
    ASSUME IInv, LinkInv, MainRx
    PROVE  LinkInv'
<1> DEFINE x == USB_OutPacket[Rx_State]
<1>1. DeviceType /\ CountType /\ HaltInv
  BY DEF IInv
<1>2. /\ pc = "loop" /\ Rx_State \in {0, 1} /\ Rx_State' = 1 - Rx_State
      /\ Rx_State' \in {0, 1} /\ Call("out")
      /\ ~USBHandleBusy(ep["out"], handle["out"])
      /\ received' = Append(received, x)
      /\ USB_OutPacket' = [USB_OutPacket EXCEPT ![Rx_State] = 0]
      /\ UNCHANGED <<ep, ep_data, USTAT, PKTDIS, torn, handle, written,
                     host, bounds>>
  BY <1>1 DEF MainRx, device, DeviceType
<1>3. /\ number \in Nat /\ USB_OutPacket \in [{0, 1} -> Nat]
      /\ received \in Seq(Nat) /\ x \in Nat
  BY <1>1, <1>2, PacketTypes
<1>4. ~SieReady(ep["out"]) /\ \A c \in {"out", "in"} : Pending(c)' <=> c = "out"
  <2>1. /\ "out" = "out" => Rx_State' \in {0, 1}
        /\ "out" = "in" => UNCHANGED Rx_State
    BY <1>2
  <2>2. QED
    BY <1>1, <1>2, <2>1, CallStep
<1>5. ~Pending("in") /\ ~Pending("in")'
  BY <1>2, <1>4 DEF Pending, At, Before
<1>6. UNCHANGED <<got, toggle, number, tried, abandoned, requests>>
  BY <1>2 DEF host, bounds
<1>7. /\ USB_OutPacket[1 - Rx_State] = 0
      /\ USB_OutPacket'[0] = 0 /\ USB_OutPacket'[1] = 0
  BY <1>2, <1>3 DEF LinkInv, OutInv, OutBuffers
<1>8. Increasing(received') /\ Taken' = Taken \cup {x}
  <2>1. /\ Increasing(received)
        /\ x # 0 => \A i \in DOMAIN received : received[i] < x
    BY <1>2 DEF LinkInv, OutInv, OutOrder
  <2>2. /\ Increasing(Append(received, x))
        /\ {Append(received, x)[i] : i \in DOMAIN Append(received, x)}
              = {received[i] : i \in DOMAIN received} \cup {x}
    BY <1>3, <2>1, TakenAppend
  <2>3. QED
    BY <1>2, <2>2 DEF Taken
<1>9. Delivered' = Delivered
  <2>1. {USB_OutPacket[0], USB_OutPacket[1]} = {x, 0}
    BY <1>2, <1>7
  <2>2. QED
    BY <1>7, <1>8, <2>1 DEF Delivered
<1>10. OutInv'
  <2>1. OutToggle'
    BY <1>2, <1>6 DEF LinkInv, OutInv, OutToggle, Matches
  <2>2. OutBuffers'
    <3>1. Aims'
      BY <1>2, <1>4 DEF Aims, Call, At
    <3>2. QED
      BY <1>7, <3>1 DEF OutBuffers
  <2>3. OutNumbers'
    BY <1>6, <1>9 DEF LinkInv, OutInv, OutNumbers, NothingLost, Delivered
  <2>4. OutOrder'
    BY <1>7, <1>8 DEF OutOrder
  <2>5. QED
    BY <2>1, <2>2, <2>3, <2>4 DEF OutInv
<1>11. InInv' /\ RepliesInv'
  <2>1. Alike("in")
    BY <1>2, <1>5, AlikeSame
  <2>2. NoRequests => NoRequests'
    BY <1>2 DEF NoRequests
  <2>3. QED
    BY <1>2, <1>6, <2>1, <2>2, AlikeIn
<1>12. QED
  BY <1>2, <1>10, <1>11 DEF LinkInv

\* The main loop writes a packet after the host's handshake for the last.
LEMMA TxIn ==
    ASSUME IInv, LinkInv, MainTx
    PROVE  LinkInv'
<1>1. DeviceType /\ CountType /\ HaltInv
  BY DEF IInv
<1>2. written \in Nat /\ got \in Seq(Nat)
  BY <1>1, PacketTypes
<1>3. /\ pc = "loop" /\ Call("in") /\ ~USBHandleBusy(ep["in"], handle["in"])
      /\ written' = written + 1
      /\ UNCHANGED <<ep, ep_data, USTAT, PKTDIS, torn, handle, Rx_State,
                     received, USB_OutPacket, host, bounds>>
  BY DEF MainTx, InFree, device
<1>4. ~SieReady(ep["in"]) /\ \A c \in {"out", "in"} : Pending(c)' <=> c = "in"
  BY <1>1, <1>3, CallStep
<1>5. ~Pending("in") /\ ~Pending("out") /\ Fresh' /\ ~Fresh
  BY <1>3, <1>4 DEF Pending, At, Before, Fresh
<1>6. UNCHANGED <<got, toggle, number, tried, abandoned, requests>>
  BY <1>3 DEF host, bounds
<1>7. OutInv'
  <2>1. Aims'
    BY <1>3 DEF LinkInv, OutInv, OutBuffers, Aims, Active, Call, At
  <2>2. ~Pending("out")'
    BY <1>4
  <2>3. QED
    BY <1>3, <1>6, <2>1, <2>2, OutKept DEF LinkInv
<1>8. InInv'
  <2>1. ASSUME NEW i \in DOMAIN got
        PROVE  got[i] <= written + 1 /\ got[i] < written + 1
    <3>1. got[i] \in Nat /\ got[i] <= written
      BY <1>2 DEF LinkInv, InInv
    <3>2. QED
      BY <1>2, <3>1
  <2>2. QED
    BY <1>3, <1>6, <2>1 DEF LinkInv, InInv, Increasing
<1>9. RepliesInv'
  <2>1. SUFFICES ASSUME requests' = 0 PROVE RepliesInv'
    BY DEF RepliesInv
  <2>2. /\ ep["in"].enabled /\ ~torn["in"] /\ Unstalled(ep["in"]) /\ NoRequests
        /\ Matches("in") /\ Len(got) >= written
    BY <1>4, <1>5, <1>6, <2>1 DEF LinkInv, RepliesInv
  <2>3. Matches("in")' /\ NoRequests'
    BY <1>3, <1>6, <2>2 DEF Matches, NoRequests
  <2>4. Len(got') >= written' - 1
    BY <1>2, <1>3, <1>6, <2>2
  <2>5. QED
    BY <1>3, <1>5, <2>2, <2>3, <2>4 DEF RepliesInv
<1>10. QED
  BY <1>3, <1>7, <1>8, <1>9 DEF LinkInv

\* What a completed transaction makes of its endpoint and of the FIFO.
LEMMA Completed ==
    ASSUME IInv, LinkInv, NEW d \in {"out", "in"}, SieReady(ep[d]), Complete(d)
    PROVE  /\ Alternates(ep'[d]) /\ Toggle(ep'[d]) = 1 - Toggle(ep[d])
           /\ ~SieReady(ep'[d]) /\ ep'[d].enabled = ep[d].enabled
           /\ Unstalled(ep[d]) => Unstalled(ep'[d])
           /\ \A c \in {"out", "in"} : c # d => ep'[c] = ep[c]
           /\ NoRequests => NoRequests'
<1> DEFINE f == SieComplete(ep[d], 1)
           x == <<"DATA", d>>
<1>1. /\ Alternates(ep[d]) /\ ep[d] \in Ep /\ torn[d] \in BOOLEAN
      /\ At(d) \in Places
      /\ Part(At(d), ep[d], handle[d], entry, torn[d])
  BY OneEndpoint DEF IInv, LinkInv
<1>2. /\ Alternates(f) /\ Toggle(f) = 1 - Toggle(ep[d])
      /\ ~SieReady(f) /\ f.enabled = ep[d].enabled
      /\ \A i \in {0, 1} : f.bd[i].stall = ep[d].bd[i].stall
  BY <1>1, SiePart
<1>3. ep' = [ep EXCEPT ![d] = f] /\ USTAT' = Append(USTAT, x)
  BY DEF Complete
<1> HIDE DEF f
<1>4. ep'[d] = f /\ \A c \in {"out", "in"} : c # d => ep'[c] = ep[c]
  BY <1>3 DEF IInv, DeviceType
<1>5. Unstalled(ep[d]) => Unstalled(ep'[d])
  BY <1>2, <1>4 DEF Unstalled
<1>6. ASSUME NoRequests, NEW i \in 1..Len(USTAT')
      PROVE  USTAT'[i] \notin Requests
  <2>1. x \notin Requests
    BY DEF Requests
  <2>2. USTAT \in Seq(Entries)
    BY DEF IInv, DeviceType
  <2>3. PICK n \in Nat : n = Len(USTAT)
    BY <2>2
  <2>4. /\ Len(USTAT') = n + 1 /\ USTAT'[n + 1] = x
        /\ \A k \in 1..n : USTAT'[k] = USTAT[k]
    BY <1>3, <2>2, <2>3
  <2>5. CASE i = n + 1
    BY <2>1, <2>4, <2>5
  <2>6. CASE i # n + 1
    BY <1>6, <2>3, <2>4, <2>6 DEF NoRequests
  <2>7. QED
    BY <2>5, <2>6
<1>7. QED
  BY <1>2, <1>4, <1>5, <1>6 DEF NoRequests

\* The host sends a packet, or repeats one after a lost handshake.
LEMMA PacketOut ==
    ASSUME IInv, LinkInv, HostOut
    PROVE  OutInv'
<1> DEFINE e == ep["out"]
<1>1. DeviceType /\ CountType /\ HaltInv
  BY DEF IInv
<1>2. /\ number \in Nat /\ USB_OutPacket \in [{0, 1} -> Nat]
      /\ received \in Seq(Nat)
      /\ Delivered \subseteq Nat /\ tried \in BOOLEAN
      /\ toggle["out"] \in {0, 1} /\ Toggle(e) \in {0, 1}
      /\ toggle \in [{"out", "in"} -> {0, 1}]
  BY <1>1, PacketTypes
<1>3. /\ SieReady(e)
      /\ UNCHANGED <<Rx_State, received, abandoned, pc, dir, entry>>
      /\ \/ /\ toggle'["out"] = 1 - toggle["out"]
            /\ number' = number + 1 /\ tried' = FALSE
         \/ /\ tried' = TRUE
            /\ toggle'["out"] = toggle["out"] /\ number' = number
  BY <1>2 DEF HostOut, main, call
<1>4. /\ OutToggle /\ OutNumbers /\ OutOrder /\ Aims
      /\ Active("out").buf = Rx_State /\ Rx_State \in {0, 1}
      /\ 1 - Rx_State \in {0, 1} /\ 1 - Rx_State # Rx_State
      /\ USB_OutPacket[Rx_State] = 0 /\ USB_OutPacket[1 - Rx_State] = 0
      /\ ~Pending("out") /\ ~Pending("out")' /\ At("out")' # "own"
  <2>1. OutToggle /\ OutNumbers /\ OutOrder /\ Aims
    BY DEF LinkInv, OutInv, OutBuffers
  <2>2. ~Pending("out")
    BY <1>3, NotReady
  <2>3. ~Pending("out")' /\ At("out")' # "own"
    BY <1>3, <2>2 DEF Pending, At, Before
  <2>4. Active("out").buf \in {0, 1}
    BY <1>1, EpTypes DEF Active, DeviceType
  <2>5. Active("out").buf = Rx_State
    BY <1>3, <2>1 DEF Aims
  <2>6. \A b \in {0, 1} : USB_OutPacket[b] = 0
    BY <1>3 DEF LinkInv, OutInv, OutBuffers
  <2>7. 1 - Rx_State \in {0, 1} /\ 1 - Rx_State # Rx_State
    BY <2>4, <2>5
  <2>8. QED
    BY <2>1, <2>2, <2>3, <2>4, <2>5, <2>6, <2>7
<1>5. Taken' = Taken
  BY <1>3 DEF Taken
<1>6. CASE Active("out").dts = toggle["out"]
  <2>1. /\ Complete("out")
        /\ USB_OutPacket' = [USB_OutPacket EXCEPT ![Rx_State] = number]
    BY <1>4, <1>6 DEF HostOut
  <2>2. /\ Toggle(ep'["out"]) = 1 - Toggle(e) /\ ~SieReady(ep'["out"])
    BY <1>3, <2>1, Completed
  <2>3. Matches("out") /\ ~tried
    BY <1>4, <1>6 DEF Matches, Active, Toggle, OutToggle
  <2>4. USB_OutPacket'[1 - Rx_State] = 0 /\ USB_OutPacket'[Rx_State] = number
    BY <1>2, <1>4, <2>1
  <2>5. Delivered = Taken \cup {0} /\ Delivered' = Taken \cup {0, number}
    BY <1>2, <1>4, <1>5, <2>4 DEF Delivered
  <2>6. OutToggle'
    BY <1>2, <1>3, <2>2, <2>3 DEF OutToggle, Matches
  <2>7. OutBuffers'
    <3>1. USB_OutPacket'[1 - Rx_State] = 0 /\ Rx_State' = Rx_State
      BY <1>3, <2>4
    <3>2. \A b \in {0, 1} : USB_OutPacket'[b] # 0 => b = Rx_State'
      BY <1>4, <3>1
    <3>3. QED
      BY <1>4, <2>2, <3>2 DEF OutBuffers, Aims
  <2>8. OutNumbers'
    <3>1. \A x \in Delivered : x <= number /\ x # number
      BY <1>4, <2>3 DEF OutNumbers
    <3>2. \A x \in Delivered' : x <= number' /\ (x = number' => tried')
      BY <1>2, <1>3, <2>5, <3>1
    <3>3. tried' => number' \in Delivered'
      BY <1>3, <2>5
    <3>4. ASSUME NEW n \in 1..(number' - 1)
          PROVE  n \in abandoned \cup Delivered'
      <4>1. n \in 1..(number - 1) \/ n = number
        BY <1>2, <1>3
      <4>2. n \in 1..(number - 1) => n \in abandoned \cup Delivered
        BY <1>4 DEF OutNumbers, NothingLost, Delivered
      <4>3. QED
        BY <2>5, <4>1, <4>2
    <3>5. NothingLost'
      BY <1>3, <3>4 DEF NothingLost, Delivered
    <3>6. QED
      BY <3>2, <3>3, <3>5 DEF OutNumbers
  <2>9. OutOrder'
    <3>1. ASSUME NEW i \in DOMAIN received
          PROVE  received[i] < number
      <4>1. received[i] \in Delivered
        BY DEF Delivered, Taken
      <4>2. received[i] <= number /\ received[i] # number /\ received[i] \in Nat
        BY <1>2, <1>4, <2>3, <4>1 DEF OutNumbers
      <4>3. QED
        BY <1>2, <4>2
    <3>2. \A b \in {0, 1} : USB_OutPacket'[b] # 0 => USB_OutPacket'[b] = number
      BY <1>4, <2>4
    <3>3. QED
      BY <1>3, <1>4, <3>1, <3>2 DEF OutOrder, Increasing
  <2>10. QED
    BY <2>6, <2>7, <2>8, <2>9 DEF OutInv
<1>7. CASE Active("out").dts # toggle["out"]
  <2>1. UNCHANGED <<ep, USB_OutPacket>>
    BY <1>7 DEF HostOut
  <2>2. ~Matches("out") /\ tried
    BY <1>2, <1>4, <1>7 DEF Matches, Active, Toggle, OutToggle
  <2>3. Delivered' = Delivered /\ number \in Delivered
    BY <1>4, <1>5, <2>1, <2>2 DEF Delivered, OutNumbers
  <2>4. OutToggle'
    BY <1>2, <1>3, <2>1, <2>2 DEF OutToggle, Matches
  <2>5. OutBuffers'
    <3>1. \A b \in {0, 1} : USB_OutPacket'[b] = 0
      BY <1>4, <2>1
    <3>2. Aims'
      BY <1>3, <1>4, <2>1 DEF Aims, Active
    <3>3. QED
      BY <3>1, <3>2 DEF OutBuffers
  <2>6. OutNumbers'
    <3>1. \A x \in Delivered : x \in Nat /\ x <= number
      BY <1>2, <1>4 DEF OutNumbers
    <3>2. \A x \in Delivered' : x <= number' /\ (x = number' => tried')
      BY <1>2, <1>3, <2>3, <3>1
    <3>3. tried' => number' \in Delivered'
      BY <1>3, <2>3
    <3>4. ASSUME NEW n \in 1..(number' - 1)
          PROVE  n \in abandoned \cup Delivered
      <4>1. n \in 1..(number - 1) \/ n = number
        BY <1>2, <1>3
      <4>2. n \in 1..(number - 1) => n \in abandoned \cup Delivered
        BY <1>4 DEF OutNumbers, NothingLost, Delivered
      <4>3. QED
        BY <2>3, <4>1, <4>2
    <3>5. NothingLost'
      BY <1>3, <2>3, <3>4 DEF NothingLost, Delivered
    <3>6. QED
      BY <3>2, <3>3, <3>5 DEF OutNumbers
  <2>7. OutOrder'
    BY <1>3, <1>4, <2>1 DEF OutOrder, Increasing
  <2>8. QED
    BY <2>4, <2>5, <2>6, <2>7 DEF OutInv
<1>8. QED
  BY <1>6, <1>7

LEMMA HostOutStep ==
    ASSUME IInv, LinkInv, HostOut
    PROVE  LinkInv'
<1>1. /\ SieReady(ep["out"])
      /\ UNCHANGED <<got, written, requests, torn, pc, dir>>
      /\ toggle'["in"] = toggle["in"]
      /\ Complete("out") \/ UNCHANGED <<ep, USTAT>>
  BY DEF HostOut, IInv, CountType, main, call
<1>2. /\ Alternates(ep'["out"]) /\ ep'["in"] = ep["in"]
      /\ NoRequests => NoRequests'
  <2>1. CASE Complete("out")
    BY <1>1, <2>1, Completed
  <2>2. CASE UNCHANGED <<ep, USTAT>>
    BY <2>2 DEF LinkInv, NoRequests
  <2>3. QED
    BY <1>1, <2>1, <2>2
<1>3. Alike("in")
  <2>1. Pending("in")' <=> Pending("in")
    BY <1>1 DEF Pending, At
  <2>2. QED
    BY <1>2, <2>1, AlikeSame
<1>4. InInv' /\ RepliesInv'
  BY <1>1, <1>2, <1>3, AlikeIn
<1>5. QED
  BY <1>2, <1>4, PacketOut DEF LinkInv

\* The host takes the packet, or it is a repetition.
LEMMA PacketIn ==
    ASSUME IInv, LinkInv, HostIn
    PROVE  InInv' /\ RepliesInv'
<1> DEFINE e == ep["in"]
<1>1. /\ written \in Nat /\ got \in Seq(Nat) /\ Toggle(e) \in {0, 1}
      /\ toggle \in [{"out", "in"} -> {0, 1}]
  BY PacketTypes DEF IInv
<1>2. SieReady(e) /\ UNCHANGED <<written, requests, torn, pc, dir>>
  BY DEF HostIn, main, call
<1>3. InInv /\ RepliesInv /\ ~Pending("in") /\ ~Pending("in")'
      /\ (Fresh <=> Matches("in"))
  <2>1. ~Pending("in")
    BY <1>2, NotReady
  <2>2. ~Pending("in")'
    BY <1>2, <2>1 DEF Pending, At
  <2>3. QED
    BY <1>2, <2>1, <2>2 DEF LinkInv, Fresh
\* After the transaction SIE and host agree, or the handshake was lost.
<1>4. /\ Complete("in") \/ UNCHANGED <<ep, USTAT>>
      /\ \/ /\ Matches("in") /\ got' = Append(got, written)
            /\ toggle'["in"] = 1 - toggle["in"]
         \/ ~Matches("in") /\ UNCHANGED <<got, toggle>>
  BY <1>1 DEF HostIn, Matches, Active, Toggle
<1>5. /\ ~Fresh' /\ (~SieReady(ep'["in"]) => Matches("in")')
      /\ ep'["in"].enabled = e.enabled
      /\ Unstalled(e) => Unstalled(ep'["in"])
      /\ NoRequests => NoRequests'
  <2>1. CASE Complete("in")
    <3>1. /\ Toggle(ep'["in"]) = 1 - Toggle(e) /\ ~SieReady(ep'["in"])
          /\ ep'["in"].enabled = e.enabled
          /\ Unstalled(e) => Unstalled(ep'["in"])
          /\ NoRequests => NoRequests'
      BY <1>2, <2>1, Completed
    <3>2. toggle["in"] \in {0, 1}
      BY <1>1
    <3>3. Matches("in")'
      BY <1>1, <1>4, <3>1, <3>2 DEF Matches
    <3>4. QED
      BY <1>3, <3>1, <3>3 DEF Fresh
  <2>2. CASE UNCHANGED <<ep, USTAT>>
    <3>1. toggle["in"] \in {0, 1}
      BY <1>1
    <3>2. ~Matches("in")'
      BY <1>1, <1>4, <2>2, <3>1 DEF Matches
    <3>3. SieReady(ep'["in"]) /\ ~Fresh'
      BY <1>2, <1>3, <2>2, <3>2 DEF Fresh
    <3>4. QED
      BY <2>2, <3>3 DEF NoRequests
  <2>3. QED
    BY <1>4, <2>1, <2>2
<1>6. /\ Increasing(got') /\ \A i \in DOMAIN got' : got'[i] <= written
      /\ requests = 0 => Len(got') >= written
  <2>1. CASE Matches("in") /\ got' = Append(got, written)
    <3>1. \A i \in DOMAIN got : got[i] < written
      BY <1>2, <1>3, <2>1 DEF InInv
    <3>2. /\ Increasing(Append(got, written))
          /\ Len(Append(got, written)) = Len(got) + 1
          /\ \A i \in DOMAIN Append(got, written) :
                \/ Append(got, written)[i] = written
                \/ i \in DOMAIN got /\ Append(got, written)[i] = got[i]
      BY <1>1, <1>3, <3>1, TakenAppend DEF InInv
    <3>3. \A i \in DOMAIN got' : got'[i] <= written
      BY <1>1, <1>3, <2>1, <3>2 DEF InInv
    <3>4. requests = 0 => Len(got') >= written
      <4>1. requests = 0 => Len(got) >= written - 1
        BY <1>2, <1>3, <2>1 DEF RepliesInv
      <4>2. Len(got) \in Nat /\ Len(got') = Len(got) + 1
        BY <1>1, <2>1, <3>2
      <4>3. QED
        BY <1>1, <4>1, <4>2
    <3>5. QED
      BY <2>1, <3>2, <3>3, <3>4
  <2>2. CASE ~Matches("in") /\ UNCHANGED got
    BY <1>3, <2>2 DEF InInv, RepliesInv, Increasing
  <2>3. QED
    BY <1>4, <2>1, <2>2
<1>7. InInv'
  BY <1>2, <1>5, <1>6 DEF InInv
<1>8. RepliesInv'
  <2>1. SUFFICES ASSUME requests' = 0 PROVE RepliesInv'
    BY DEF RepliesInv
  <2>2. /\ ep["in"].enabled /\ ~torn["in"] /\ Unstalled(ep["in"]) /\ NoRequests
        /\ Len(got') >= written'
    BY <1>2, <1>3, <1>6, <2>1 DEF RepliesInv
  <2>3. QED
    BY <1>2, <1>5, <2>2 DEF RepliesInv
<1>9. QED
  BY <1>7, <1>8

LEMMA HostInStep ==
    ASSUME IInv, LinkInv, HostIn
    PROVE  LinkInv'
<1>1. /\ SieReady(ep["in"])
      /\ UNCHANGED <<Rx_State, received, pc, dir, entry, USB_OutPacket, number,
                     tried, abandoned>>
      /\ Complete("in") \/ UNCHANGED <<ep, USTAT>>
      /\ toggle'["out"] = toggle["out"]
  BY DEF HostIn, IInv, CountType, main, call
<1>2. ep'["out"] = ep["out"] /\ Alternates(ep'["in"])
  BY <1>1, Completed DEF LinkInv
<1>3. OutInv'
  <2>1. Aims' /\ (Pending("out")' <=> Pending("out"))
    BY <1>1, <1>2 DEF LinkInv, OutInv, OutBuffers, Aims, Active, Pending, At
  <2>2. QED
    BY <1>1, <1>2, <2>1, OutKept DEF LinkInv
<1>4. QED
  BY <1>2, <1>3, PacketIn DEF LinkInv

\* The same, when the endpoints are not touched at all.
LEMMA LinkSame ==
    ASSUME IInv, LinkInv,
           UNCHANGED <<ep, toggle, number, tried, received, USB_OutPacket,
                       Rx_State, abandoned, got, written, call>>,
           requests' = 0 =>
              /\ requests = 0 /\ torn'["in"] = torn["in"]
              /\ NoRequests => NoRequests'
    PROVE  LinkInv'
<1>1. /\ Pending("out")' <=> Pending("out")
      /\ Pending("in")' <=> Pending("in")
  BY DEF call, Pending, At
<1>2. Alike("out") /\ Alike("in")
  BY <1>1, AlikeSame
<1>3. Aims => Aims'
  BY DEF Aims, Active, At, call
<1>4. QED
  BY <1>2, <1>3, LinkKept

LEMMA LinkStep == IInv /\ LinkInv /\ [Next]_vars => LinkInv'
<1> SUFFICES ASSUME IInv, LinkInv, [Next]_vars
             PROVE  LinkInv'
  OBVIOUS
<1>1. CASE ServiceTransaction
  <2>1. /\ USTAT # <<>> /\ USTAT' = Tail(USTAT)
        /\ UNCHANGED <<ep, main, call, torn, USB_OutPacket, host, bounds>>
    BY <1>1 DEF ServiceTransaction, TransactionComplete
  <2>2. ASSUME NoRequests, NEW i \in 1..Len(USTAT')
        PROVE  USTAT'[i] \notin Requests
    <3>1. USTAT \in Seq(Entries)
      BY DEF IInv, DeviceType
    <3>2. PICK n \in Nat : n = Len(USTAT)
      BY <3>1
    <3>3. n # 0
      BY <2>1, <3>1, <3>2, EmptySeq
    <3>4. Len(USTAT') = n - 1 /\ \A k \in 1..(n - 1) : USTAT'[k] = USTAT[k + 1]
      BY <2>1, <3>1, <3>2, <3>3
    <3>5. i + 1 \in 1..n /\ USTAT'[i] = USTAT[i + 1]
      BY <3>2, <3>3, <3>4
    <3>6. QED
      BY <2>2, <3>2, <3>5 DEF NoRequests
  <2>3. NoRequests => NoRequests'
    BY <2>2 DEF NoRequests
  <2>4. QED
    BY <2>1, <2>3, LinkSame DEF main, host, bounds
<1>2. CASE ServiceSetup
  BY <1>2, RequestOut
<1>3. CASE MainInit
  BY <1>3, FirstOut
<1>4. CASE MainRx
  BY <1>4, RxOut
<1>5. CASE MainDone
  BY <1>5, LinkSame DEF MainDone, device, host, bounds, NoRequests
<1>6. CASE MainTx
  BY <1>6, TxIn
<1>7. CASE Transfer
  <2>1. Alike("out") /\ Alike("in") /\ (Aims => Aims')
    BY <1>7, TransferStep DEF IInv
  <2>2. UNCHANGED <<USTAT, Rx_State, received, written, torn, USB_OutPacket,
                    host, bounds>>
    BY <1>7 DEF Transfer, Fetch, Fill, Own, Advance, Return, device, main
  <2>3. NoRequests => NoRequests'
    BY <2>2 DEF NoRequests
  <2>4. QED
    BY <2>1, <2>2, <2>3, LinkKept DEF host, bounds
<1>8. CASE HostOut
  BY <1>8, HostOutStep
<1>9. CASE HostIn
  BY <1>9, HostInStep
<1>10. ASSUME NEW d \in Directions, HostStalled(d)
       PROVE  LinkInv'
  BY <1>10, LinkSame DEF HostStalled, device, main, bounds, NoRequests
<1>11. ASSUME NEW r \in Requests, HostSetup(r)
       PROVE  LinkInv'
  <2>1. requests' # 0
    <3>1. requests \in Nat
      BY HaltAssumption DEF IInv, CountType
    <3>2. QED
      BY <1>11, <3>1 DEF HostSetup
  <2>2. QED
    BY <1>11, <2>1, LinkSame DEF HostSetup, main, host
<1>12. CASE UNCHANGED vars
  BY <1>12, LinkSame DEF vars, device, main, host, bounds, NoRequests
<1>13. QED
  BY <1>1, <1>2, <1>3, <1>4, <1>5, <1>6, <1>7, <1>8, <1>9, <1>10, <1>11, <1>12
     DEF Next, Interrupt, MainLoop, Transfer, HostTransfer

LEMMA LinkInit == Init => LinkInv
<1> SUFFICES ASSUME Init PROVE LinkInv
  OBVIOUS
<1> DEFINE e == USBEnableEndpoint
<1>1. /\ Toggle(e) = 0 /\ Alternates(e) /\ ~SieReady(e) /\ e.enabled
      /\ Unstalled(e)
  BY DEF USBEnableEndpoint, Idle, Toggle, Alternates, SieReady, Unstalled
<1>2. ep["out"] = e /\ ep["in"] = e
  BY DEF Init, Both
<1> HIDE DEF e
<1>3. /\ toggle["out"] = 0 /\ toggle["in"] = 0 /\ number = 1 /\ ~tried
      /\ USB_OutPacket[0] = 0 /\ USB_OutPacket[1] = 0 /\ torn["in"] = FALSE
      /\ received = <<>> /\ got = <<>> /\ written = 0 /\ USTAT = <<>>
  BY DEF Init, Both
<1>4. /\ \A d : At(d) = "loop" /\ ~Pending(d)
  BY DEF Init, At, Pending, Before
<1>5. DOMAIN received = {} /\ DOMAIN got = {} /\ Len(got) = 0 /\ Len(USTAT) = 0
  BY <1>3
<1>6. Delivered = {0}
  BY <1>3, <1>5 DEF Delivered, Taken
<1>7. OutInv
  <2>1. OutToggle
    BY <1>1, <1>2, <1>3 DEF OutToggle, Matches
  <2>2. OutBuffers
    BY <1>1, <1>2, <1>3, <1>4 DEF OutBuffers, Aims
  <2>3. OutNumbers
    BY <1>3, <1>6 DEF OutNumbers, NothingLost
  <2>4. OutOrder
    BY <1>3, <1>5 DEF OutOrder, Increasing
  <2>5. QED
    BY <2>1, <2>2, <2>3, <2>4 DEF OutInv
<1>8. InInv
  BY <1>5 DEF InInv, Increasing
<1>9. RepliesInv
  <2>1. NoRequests /\ ~Fresh /\ Matches("in")
    BY <1>1, <1>2, <1>3, <1>4, <1>5 DEF NoRequests, Fresh, Matches
  <2>2. QED
    BY <1>1, <1>2, <1>3, <1>5, <2>1 DEF RepliesInv
<1>10. QED
  BY <1>1, <1>2, <1>7, <1>8, <1>9 DEF LinkInv

\* The inductive invariant of the packets.
THEOREM Linked == Spec => [](IInv /\ LinkInv)
<1>1. Init => IInv /\ LinkInv
  BY InitHolds, LinkInit
<1>2. IInv /\ LinkInv /\ [Next]_vars => IInv' /\ LinkInv'
  BY DeviceStep, CountStep, LinkStep DEF IInv
<1>3. QED
  BY <1>1, <1>2, PTL DEF Spec

\* No packet is taken twice or out of order, by the main loop or by the host,
\* whatever handshakes are lost and whenever the endpoints are halted and
\* cleared.
THEOREM InOrder == Spec => []DeliveredOnce
<1>1. LinkInv => DeliveredOnce
  BY DEF LinkInv, OutInv, OutOrder, InInv, DeliveredOnce
<1>2. QED
  BY <1>1, Linked, PTL

\* An OUT packet that the host sent with success was taken or waits in a
\* buffer, unless the host gave it up when it cleared a halt.
THEOREM NoneMissing == Spec => []NothingLost
<1>1. LinkInv => NothingLost
  BY DEF LinkInv, OutInv, OutNumbers
<1>2. QED
  BY <1>1, Linked, PTL

\* Without requests, all reply packets but the last have arrived.
THEOREM Replies == Spec => []RepliesKept
<1>1. IInv /\ LinkInv => RepliesKept
  <2>1. SUFFICES ASSUME IInv, LinkInv, requests = 0
                 PROVE  Len(got) >= written - 1
    BY DEF RepliesKept
  <2>2. written \in Nat /\ got \in Seq(Nat)
    BY <2>1, PacketTypes DEF IInv
  <2>3. Len(got) \in Nat
    BY <2>2
  <2>4. Len(got) >= written - 1 \/ Len(got) >= written
    BY <2>1 DEF LinkInv, RepliesInv
  <2>5. QED
    BY <2>2, <2>3, <2>4
<1>2. QED
  BY <1>1, Linked, PTL
=============================================================================
