---------------------------- MODULE TxFifoProofs ----------------------------
(***************************************************************************)
(* The safety of the transmit FIFO, and that it implements the bounded     *)
(* queue TxQueue, for every width and size that satisfy FifoAssumption:    *)
(* what is between the two indexes, read in ring order, is the queue.      *)
(***************************************************************************)
EXTENDS TxFifo, SequenceTheorems, TLAPS

(***************************************************************************)
(* Arithmetic modulo the width of a C integer.                             *)
(***************************************************************************)

\* A value that fits is unchanged (an assignment that does not truncate).
LEMMA ModSmall ==
    ASSUME NEW m \in Nat, NEW x \in 0..(m - 1)
    PROVE  x % m = x
OBVIOUS

\* A value below twice the modulus wraps once (an index that passes the end).
LEMMA ModWrap ==
    ASSUME NEW m \in Nat, m > 0, NEW x \in m..(2 * m - 1)
    PROVE  x % m = x - m
OBVIOUS

\* A truncated value fits.
LEMMA ModRange ==
    ASSUME NEW m \in Nat, m > 0, NEW x \in Nat
    PROVE  x % m \in 0..(m - 1)
OBVIOUS
-----------------------------------------------------------------------------
(***************************************************************************)
(* The inductive invariant.  None of its parts is inductive alone: the     *)
(* range of the counter needs the room reserved for the running batch, and *)
(* the agreement of the indexes with the counter needs the counter's range,*)
(* or the truncation of the counter would not be the identity.             *)
(***************************************************************************)
FifoInv == TypeOK /\ NoOverflow /\ IndexesAgree

\* The room that the callers compare is the number of free bytes: the 16-bit
\* subtraction of TXFIFO_Room does not wrap (blaster.c:361-364).
LEMMA RoomIsFree ==
    ASSUME FifoInv
    PROVE  Room(TXFIFO_ocpy) = TXFIFO_SIZE - TXFIFO_ocpy
BY FifoAssumption, ModWrap DEF FifoInv, TypeOK, NoOverflow, Room

\* A packet never takes more than is held, nor more than it carries
\* (blaster.c:646-663).
LEMMA TxSizeBounds ==
    ASSUME NEW ocpy \in 0..TXFIFO_SIZE
    PROVE  TxSize(ocpy) \in 0..TX_MAX /\ TxSize(ocpy) <= ocpy
<1>1. CASE ocpy < UINT8
  <2>1. ocpy % UINT8 = ocpy
    BY <1>1, FifoAssumption, ModSmall
  <2>2. QED
    BY <1>1, <2>1, FifoAssumption DEF TxSize, Fill
<1>2. CASE ocpy = UINT8
  <2>1. ocpy % UINT8 = 0
    BY <1>2, FifoAssumption, ModWrap
  <2>2. QED
    BY <1>2, <2>1, FifoAssumption DEF TxSize, Fill
<1>3. QED
  BY <1>1, <1>2, FifoAssumption

\* Moving both an index and the counter by n keeps them in step.
LEMMA IndexStep ==
    ASSUME NEW r \in 0..(UINT8 - 1), NEW o \in 0..UINT8, o < UINT8
    PROVE  (((r + o) % UINT8) + 1) % UINT8 = (r + (o + 1)) % UINT8
<1>1. UINT8 \in Nat /\ UINT8 > 0
  BY FifoAssumption
<1>2. CASE r + o < UINT8
  <2>1. (r + o) % UINT8 = r + o
    BY <1>1, <1>2, ModSmall
  <2>2. QED
    BY <1>1, <2>1
<1>3. CASE r + o >= UINT8
  <2>1. (r + o) % UINT8 = r + o - UINT8
    BY <1>1, <1>3, ModWrap
  <2>2. (r + o - UINT8 + 1) % UINT8 = r + o - UINT8 + 1
    BY <1>1, <1>3, ModSmall
  <2>3. (r + (o + 1)) % UINT8 = r + (o + 1) - UINT8
    BY <1>1, <1>3, ModWrap
  <2>4. QED
    BY <1>1, <2>1, <2>2, <2>3
<1>4. QED
  BY <1>1, <1>2, <1>3

\* Taking n of the o held bytes keeps the end of the interval in place.
LEMMA IndexTake ==
    ASSUME NEW r \in 0..(UINT8 - 1), NEW o \in 0..UINT8, NEW n \in 0..o
    PROVE  (r + o) % UINT8 = (((r + n) % UINT8) + (o - n)) % UINT8
<1>1. UINT8 \in Nat /\ UINT8 > 0
  BY FifoAssumption
<1>2. CASE r + n < UINT8
  <2>1. (r + n) % UINT8 = r + n
    BY <1>1, <1>2, ModSmall
  <2>2. QED
    BY <1>1, <2>1
<1>3. CASE r + n >= UINT8
  <2>1. (r + n) % UINT8 = r + n - UINT8
    BY <1>1, <1>3, ModWrap
  <2>2. (r + o) % UINT8 = r + o - UINT8
    BY <1>1, <1>3, ModWrap
  <2>3. (r + o - UINT8) % UINT8 = r + o - UINT8
    BY <1>1, <1>3, ModSmall
  <2>4. QED
    BY <1>1, <2>1, <2>2, <2>3
<1>4. QED
  BY <1>1, <1>2, <1>3

\* A turn of the loop gives up at least one of the reserved places.
LEMMA TurnEndsSmaller ==
    ASSUME batch \in 0..OUT_MAX, NextTurn
    PROVE  \E b \in 0..OUT_MAX : batch' = b /\ b + 1 <= batch
<1>1. OUT_MAX \in Nat
  BY FifoAssumption
<1>2. CASE batch' = batch - 1
  <2>1. batch - 1 \in 0..OUT_MAX /\ (batch - 1) + 1 <= batch
    BY <1>1 DEF NextTurn
  <2>2. QED
    BY <1>2, <2>1
<1>3. CASE batch' = 0
  <2>1. 0 \in 0..OUT_MAX /\ 0 + 1 <= batch
    BY <1>1 DEF NextTurn
  <2>2. QED
    BY <1>3, <2>1
<1>4. QED
  BY <1>2, <1>3 DEF NextTurn
-----------------------------------------------------------------------------
LEMMA InitFifoInv == Init => FifoInv
<1> SUFFICES ASSUME Init PROVE FifoInv
  OBVIOUS
<1>1. 0 % UINT8 = 0
  BY FifoAssumption, ModSmall
<1>2. TypeOK
  BY FifoAssumption DEF Init, TypeOK, Slots
<1>3. NoOverflow /\ IndexesAgree
  BY <1>1, FifoAssumption DEF Init, NoOverflow, IndexesAgree
<1>4. QED
  BY <1>2, <1>3 DEF FifoInv

\* Each step keeps the invariant.
LEMMA NextFifoInv == FifoInv /\ [Next]_vars => FifoInv'
<1> SUFFICES ASSUME FifoInv, [Next]_vars PROVE FifoInv'
  OBVIOUS
<1>1. /\ UINT8 \in Nat /\ UINT8 > 0
      /\ UINT16 \in Nat /\ UINT16 > UINT8
      /\ TXFIFO_SIZE = UINT8
      /\ OUT_MAX \in Nat /\ TX_MAX \in Nat
  BY FifoAssumption
<1>2. /\ TXFIFO \in [Slots -> Reply]
      /\ TXFIFO_rp \in 0..(UINT8 - 1)
      /\ TXFIFO_wp \in 0..(UINT8 - 1)
      /\ TXFIFO_ocpy \in 0..UINT8
      /\ batch \in 0..OUT_MAX
      /\ packet \in Seq(Reply)
      /\ TXFIFO_ocpy + batch <= UINT8
      /\ TXFIFO_wp = (TXFIFO_rp + TXFIFO_ocpy) % UINT8
  BY <1>1 DEF FifoInv, TypeOK, NoOverflow, IndexesAgree
<1>3. CASE StartBatch
  <2>1. PICK RxSize \in 1..OUT_MAX :
           /\ Room(TXFIFO_ocpy) >= RxSize
           /\ batch' = RxSize
           /\ UNCHANGED <<fifoVars, packet>>
    BY <1>3 DEF StartBatch
  <2>2. TXFIFO_ocpy + RxSize <= UINT8
    BY <1>1, <1>2, <2>1, RoomIsFree
  <2>3. QED
    BY <1>1, <1>2, <2>1, <2>2
    DEF FifoInv, TypeOK, NoOverflow, IndexesAgree, fifoVars
<1>4. CASE CommandWithReply
  <2>1. PICK d \in Reply : TXFIFO_Write(d)
    BY <1>4 DEF CommandWithReply
  <2>2. batch > 0 /\ packet' = packet
    BY <1>4 DEF CommandWithReply, NextTurn
  <2>3. TXFIFO_ocpy < UINT8
    BY <1>1, <1>2, <2>2
  <2>4. TXFIFO_ocpy' = TXFIFO_ocpy + 1
    BY <1>1, <1>2, <2>1, <2>3, ModSmall DEF TXFIFO_Write
  <2>5. TXFIFO' \in [Slots -> Reply] /\ TXFIFO_rp' = TXFIFO_rp
    BY <1>2, <2>1 DEF TXFIFO_Write
  <2>6. TXFIFO_wp' \in 0..(UINT8 - 1)
    BY <1>1, <1>2, <2>1, ModRange DEF TXFIFO_Write
  <2>7. TXFIFO_wp' = (TXFIFO_rp' + TXFIFO_ocpy') % UINT8
    BY <1>2, <2>1, <2>3, <2>4, <2>5, IndexStep DEF TXFIFO_Write
  <2>8. PICK b \in 0..OUT_MAX : batch' = b /\ b + 1 <= batch
    BY <1>4, <1>2, TurnEndsSmaller DEF CommandWithReply
  <2>9. QED
    BY <1>1, <1>2, <2>2, <2>3, <2>4, <2>5, <2>6, <2>7, <2>8
    DEF FifoInv, TypeOK, NoOverflow, IndexesAgree
<1>5. CASE CommandWithoutReply
  <2>1. UNCHANGED fifoVars /\ packet' = packet
    BY <1>5 DEF CommandWithoutReply
  <2>2. PICK b \in 0..OUT_MAX : batch' = b /\ b + 1 <= batch
    BY <1>5, <1>2, TurnEndsSmaller DEF CommandWithoutReply
  <2>3. QED
    BY <1>1, <1>2, <2>1, <2>2
    DEF FifoInv, TypeOK, NoOverflow, IndexesAgree, fifoVars
<1>6. CASE FillPacket
  <2> DEFINE n == TxSize(TXFIFO_ocpy)
  <2>1. batch' = batch /\ TXFIFO_Read(n)
    BY <1>6 DEF FillPacket
  <2>2. n \in 0..TX_MAX /\ n <= TXFIFO_ocpy
    BY <1>1, <1>2, TxSizeBounds
  <2> HIDE DEF n
  <2>3. TXFIFO_ocpy' = TXFIFO_ocpy - n
    <3>1. TXFIFO_ocpy' = (TXFIFO_ocpy + UINT16 - n) % UINT16
      BY <2>1 DEF TXFIFO_Read
    <3>2. TXFIFO_ocpy + UINT16 - n \in UINT16..(2 * UINT16 - 1)
      BY <1>1, <1>2, <2>2
    <3>3. QED
      BY <1>1, <1>2, <2>2, <3>1, <3>2, ModWrap
  <2>4. TXFIFO' = TXFIFO /\ TXFIFO_wp' = TXFIFO_wp
    BY <2>1 DEF TXFIFO_Read
  <2>5. TXFIFO_rp' = (TXFIFO_rp + n) % UINT8
    BY <2>1 DEF TXFIFO_Read
  <2>6. TXFIFO_rp' \in 0..(UINT8 - 1)
    BY <1>1, <1>2, <2>2, <2>5, ModRange
  <2>7. packet' \in Seq(Reply)
    <3>1. packet' = [i \in 1..n |-> TXFIFO[(TXFIFO_rp + i - 1) % UINT8]]
      BY <2>1 DEF TXFIFO_Read, Copied
    <3>2. \A i \in 1..n : TXFIFO[(TXFIFO_rp + i - 1) % UINT8] \in Reply
      BY <1>1, <1>2, <2>2, ModRange DEF Slots
    <3>3. QED
      BY <1>1, <2>2, <3>1, <3>2
  <2>8. TXFIFO_wp' = (TXFIFO_rp' + TXFIFO_ocpy') % UINT8
    BY <1>1, <1>2, <2>2, <2>3, <2>4, <2>5, IndexTake
  <2>9. TypeOK' /\ NoOverflow'
    BY <1>1, <1>2, <2>1, <2>2, <2>3, <2>4, <2>6, <2>7 DEF TypeOK, NoOverflow
  <2>10. QED
    BY <2>8, <2>9 DEF FifoInv, IndexesAgree
<1>7. CASE Reconfigure
  <2>1. 0 % UINT8 = 0
    BY <1>1, ModSmall
  <2>2. QED
    BY <1>1, <1>2, <1>7, <2>1
    DEF Reconfigure, TXFIFO_Init, FifoInv, TypeOK, NoOverflow, IndexesAgree
<1>8. CASE UNCHANGED vars
  BY <1>8 DEF vars, fifoVars, FifoInv, TypeOK, NoOverflow, IndexesAgree
<1>9. QED
  BY <1>3, <1>4, <1>5, <1>6, <1>7, <1>8 DEF Next
-----------------------------------------------------------------------------
\* The invariant holds in every reachable state.
THEOREM FifoInvariant == Spec => []FifoInv
BY InitFifoInv, NextFifoInv, PTL DEF Spec

\* TypeOK: the indexes stay in the ring and the counter in its 16 bits.
THEOREM TypeCorrect == Spec => []TypeOK
<1>1. FifoInv => TypeOK
  BY DEF FifoInv
<1>2. QED
  BY <1>1, FifoInvariant, PTL

\* No unsent reply is ever overwritten, whatever the sizes and whatever the
\* interleaving of batches and packets (blaster.c:526, 587, 331-335).
THEOREM NeverOverflows == Spec => []NoOverflow
<1>1. FifoInv => NoOverflow
  BY DEF FifoInv
<1>2. QED
  BY <1>1, FifoInvariant, PTL

\* The indexes and the counter always describe the same interval of the ring.
THEOREM IndexesAlwaysAgree == Spec => []IndexesAgree
<1>1. FifoInv => IndexesAgree
  BY DEF FifoInv
<1>2. QED
  BY <1>1, FifoInvariant, PTL
-----------------------------------------------------------------------------
(***************************************************************************)
(* The ring as a queue.                                                    *)
(***************************************************************************)
\* The replies held, oldest first.
Held == Copied(TXFIFO, TXFIFO_rp, TXFIFO_ocpy)

\* What the proofs below use of FifoAssumption and FifoInv.
LEMMA FifoFacts ==
    ASSUME FifoInv
    PROVE  /\ UINT8 \in Nat /\ UINT8 > 0 /\ UINT16 \in Nat /\ UINT16 > UINT8
           /\ TXFIFO_SIZE = UINT8 /\ OUT_MAX \in Nat /\ TX_MAX \in Nat
           /\ Slots = 0..(UINT8 - 1)
           /\ TXFIFO \in [Slots -> Reply]
           /\ TXFIFO_rp \in 0..(UINT8 - 1)
           /\ TXFIFO_wp = (TXFIFO_rp + TXFIFO_ocpy) % UINT8
           /\ TXFIFO_ocpy \in 0..UINT8
           /\ TXFIFO_ocpy + batch <= UINT8
           /\ batch \in Nat
BY FifoAssumption DEF FifoInv, TypeOK, NoOverflow, IndexesAgree, Slots

\* Two offsets below the width are at different places of the ring: the byte
\* that is written is not one of those that are held.
LEMMA ModDistinct ==
    ASSUME NEW m \in Nat, m > 0, NEW r \in 0..(m - 1),
           NEW i \in 0..(m - 1), NEW j \in 0..(m - 1), i < j
    PROVE  (r + i) % m # (r + j) % m
<1>1. CASE r + j < m
  <2>1. (r + i) % m = r + i /\ (r + j) % m = r + j
    BY <1>1, ModSmall
  <2>2. QED
    BY <2>1
<1>2. CASE r + i < m /\ r + j >= m
  <2>1. (r + i) % m = r + i /\ (r + j) % m = r + j - m
    BY <1>2, ModSmall, ModWrap
  <2>2. QED
    BY <2>1
<1>3. CASE r + i >= m
  <2>1. (r + i) % m = r + i - m /\ (r + j) % m = r + j - m
    BY <1>3, ModWrap
  <2>2. QED
    BY <2>1
<1>4. QED
  BY <1>1, <1>2, <1>3

\* An offset from a moved index is a larger offset from the old one.
LEMMA ModOffset ==
    ASSUME NEW m \in Nat, m > 0, NEW r \in 0..(m - 1),
           NEW n \in 0..m, NEW k \in 0..(m - 1), n + k < m
    PROVE  (((r + n) % m) + k) % m = (r + n + k) % m
<1>1. CASE r + n < m
  <2>1. (r + n) % m = r + n
    BY <1>1, ModSmall
  <2>2. QED
    BY <2>1
<1>2. CASE r + n >= m
  <2>1. (r + n) % m = r + n - m
    BY <1>2, ModWrap
  <2>2. (r + n + k) % m = r + n + k - m
    BY <1>2, ModWrap
  <2>3. (r + n - m + k) % m = r + n - m + k
    BY <1>2, ModSmall
  <2>4. QED
    BY <2>1, <2>2, <2>3
<1>3. QED
  BY <1>1, <1>2

\* Every place that an index can point at is one of the ring.
LEMMA InRing ==
    ASSUME FifoInv, NEW k \in Nat
    PROVE  k % UINT8 \in Slots
BY FifoFacts, ModRange

\* A sequence with one place more than s is s with one element appended.
LEMMA AppendByPlaces ==
    ASSUME NEW S, NEW s \in Seq(S), NEW e \in S, NEW t \in Seq(S),
           Len(t) = Len(s) + 1,
           \A i \in 1..Len(s) : t[i] = s[i], t[Len(s) + 1] = e
    PROVE  t = Append(s, e)
<1>1. /\ Append(s, e) \in Seq(S)
      /\ Len(Append(s, e)) = Len(s) + 1
      /\ \A i \in 1..Len(s) : Append(s, e)[i] = s[i]
      /\ Append(s, e)[Len(s) + 1] = e
  BY AppendProperties
<1>2. Len(s) \in Nat
  BY LenProperties
<1>3. \A i \in 1..Len(t) : t[i] = Append(s, e)[i]
  <2>1. \A i \in 1..Len(t) : i \in 1..Len(s) \/ i = Len(s) + 1
    BY <1>2
  <2>2. QED
    BY <1>1, <2>1
<1>4. QED
  BY <1>1, <1>3, SeqEqual

\* What is held is a sequence of replies, as long as the counter says.
LEMMA HeldType ==
    ASSUME FifoInv
    PROVE  Held \in Seq(Reply) /\ Len(Held) = TXFIFO_ocpy
<1>1. Held = [i \in 1..TXFIFO_ocpy |-> TXFIFO[(TXFIFO_rp + i - 1) % UINT8]]
  BY DEF Held, Copied
<1>2. TXFIFO_ocpy \in Nat
  BY FifoFacts
<1>3. ASSUME NEW i \in 1..TXFIFO_ocpy
      PROVE  TXFIFO[(TXFIFO_rp + i - 1) % UINT8] \in Reply
  <2>1. TXFIFO_rp + i - 1 \in Nat
    BY FifoFacts
  <2>2. (TXFIFO_rp + i - 1) % UINT8 \in Slots
    BY <2>1, InRing
  <2>3. QED
    BY <2>2, FifoFacts
<1>4. QED
  BY <1>1, <1>2, <1>3
-----------------------------------------------------------------------------
\* TXFIFO_Write appends its byte to what is held.
LEMMA WriteAppends ==
    ASSUME FifoInv, TXFIFO_ocpy < UINT8, NEW d \in Reply, TXFIFO_Write(d)
    PROVE  Held' = Append(Held, d)
<1>1. /\ UINT8 \in Nat /\ UINT8 > 0 /\ UINT16 \in Nat /\ UINT16 > UINT8
      /\ TXFIFO \in [Slots -> Reply] /\ TXFIFO_rp \in 0..(UINT8 - 1)
      /\ TXFIFO_wp = (TXFIFO_rp + TXFIFO_ocpy) % UINT8
      /\ TXFIFO_ocpy \in 0..UINT8
  BY FifoFacts
<1>2. TXFIFO_ocpy' = TXFIFO_ocpy + 1 /\ TXFIFO_rp' = TXFIFO_rp
  BY <1>1, ModSmall DEF TXFIFO_Write
<1>3. TXFIFO' = [TXFIFO EXCEPT ![TXFIFO_wp] = d]
  BY DEF TXFIFO_Write
<1>4. ASSUME NEW i \in 1..TXFIFO_ocpy
      PROVE  TXFIFO'[(TXFIFO_rp + i - 1) % UINT8]
               = TXFIFO[(TXFIFO_rp + i - 1) % UINT8]
  <2>1. (TXFIFO_rp + (i - 1)) % UINT8 # (TXFIFO_rp + TXFIFO_ocpy) % UINT8
    BY <1>1, ModDistinct
  <2>2. TXFIFO_rp + (i - 1) = TXFIFO_rp + i - 1
    BY <1>1
  <2>3. (TXFIFO_rp + i - 1) % UINT8 # TXFIFO_wp
    BY <1>1, <2>1, <2>2
  <2>4. (TXFIFO_rp + i - 1) % UINT8 \in Slots
    BY <1>1, InRing
  <2>5. QED
    BY <1>1, <1>3, <2>3, <2>4
<1>5. TXFIFO'[(TXFIFO_rp + TXFIFO_ocpy) % UINT8] = d
  BY <1>1, <1>3, InRing
<1>6. Held' = [i \in 1..(TXFIFO_ocpy + 1) |->
                 TXFIFO'[(TXFIFO_rp + i - 1) % UINT8]]
  BY <1>2 DEF Held, Copied
<1>7. Held \in Seq(Reply) /\ Len(Held) = TXFIFO_ocpy
  BY HeldType
<1>8. \A i \in 1..TXFIFO_ocpy : Held[i] = TXFIFO[(TXFIFO_rp + i - 1) % UINT8]
  BY DEF Held, Copied
<1>9. TXFIFO_rp + (TXFIFO_ocpy + 1) - 1 = TXFIFO_rp + TXFIFO_ocpy
  BY <1>1
<1>10. Held'[TXFIFO_ocpy + 1] = d
  BY <1>1, <1>5, <1>6, <1>9
<1>11. \A i \in 1..TXFIFO_ocpy : Held'[i] = Held[i]
  <2> SUFFICES ASSUME NEW i \in 1..TXFIFO_ocpy PROVE Held'[i] = Held[i]
    OBVIOUS
  <2>1. Held'[i] = TXFIFO'[(TXFIFO_rp + i - 1) % UINT8]
    BY <1>1, <1>6
  <2>2. QED
    BY <1>4, <1>8, <2>1
<1>12. Held' \in Seq(Reply) /\ Len(Held') = TXFIFO_ocpy + 1
  <2>1. TXFIFO_ocpy + 1 \in Nat
    BY <1>1
  <2>2. TXFIFO' \in [Slots -> Reply]
    BY <1>1, <1>3
  <2>3. ASSUME NEW i \in 1..(TXFIFO_ocpy + 1)
        PROVE  TXFIFO'[(TXFIFO_rp + i - 1) % UINT8] \in Reply
    <3>1. TXFIFO_rp + i - 1 \in Nat
      BY <1>1
    <3>2. QED
      BY <2>2, <3>1, InRing
  <2>4. QED
    BY <1>6, <2>1, <2>3
<1>13. QED
  BY <1>7, <1>10, <1>11, <1>12, AppendByPlaces

\* TXFIFO_Read takes what is held from the front: the packet is the first
\* bytes of it, and the rest is still held.
LEMMA ReadTakes ==
    ASSUME FifoInv, NEW n \in 1..TXFIFO_ocpy, TXFIFO_Read(n)
    PROVE  /\ packet' = SubSeq(Held, 1, n)
           /\ Held' = SubSeq(Held, n + 1, Len(Held))
<1>1. /\ UINT8 \in Nat /\ UINT8 > 0 /\ UINT16 \in Nat /\ UINT16 > UINT8
      /\ TXFIFO \in [Slots -> Reply] /\ TXFIFO_rp \in 0..(UINT8 - 1)
      /\ TXFIFO_ocpy \in 0..UINT8
  BY FifoFacts
<1>2. Held \in Seq(Reply) /\ Len(Held) = TXFIFO_ocpy
  BY HeldType
<1>3. \A i \in 1..TXFIFO_ocpy : Held[i] = TXFIFO[(TXFIFO_rp + i - 1) % UINT8]
  BY DEF Held, Copied
<1>4. packet' = [i \in 1..n |-> TXFIFO[(TXFIFO_rp + i - 1) % UINT8]]
  BY DEF TXFIFO_Read, Copied
<1>5. packet' = SubSeq(Held, 1, n)
  BY <1>1, <1>2, <1>3, <1>4
<1>6. TXFIFO_ocpy' = TXFIFO_ocpy - n
  <2>1. TXFIFO_ocpy' = (TXFIFO_ocpy + UINT16 - n) % UINT16
    BY DEF TXFIFO_Read
  <2>2. TXFIFO_ocpy + UINT16 - n \in UINT16..(2 * UINT16 - 1)
    BY <1>1
  <2>3. QED
    BY <1>1, <2>1, <2>2, ModWrap
<1>7. TXFIFO' = TXFIFO /\ TXFIFO_rp' = (TXFIFO_rp + n) % UINT8
  BY DEF TXFIFO_Read
<1>8. Held' = [i \in 1..(TXFIFO_ocpy - n) |->
                 TXFIFO[(((TXFIFO_rp + n) % UINT8) + i - 1) % UINT8]]
  BY <1>6, <1>7 DEF Held, Copied
<1>9. ASSUME NEW i \in 1..(TXFIFO_ocpy - n)
      PROVE  (((TXFIFO_rp + n) % UINT8) + i - 1) % UINT8
               = (TXFIFO_rp + (n + i) - 1) % UINT8
  <2> DEFINE s == (TXFIFO_rp + n) % UINT8
  <2>1. s \in Nat
    BY <1>1, ModRange
  <2>2. (s + (i - 1)) % UINT8 = (TXFIFO_rp + n + (i - 1)) % UINT8
    BY <1>1, ModOffset
  <2> HIDE DEF s
  <2>3. s + (i - 1) = s + i - 1 /\ TXFIFO_rp + n + (i - 1) = TXFIFO_rp + (n + i) - 1
    BY <1>1, <2>1
  <2>4. (s + i - 1) % UINT8 = (TXFIFO_rp + (n + i) - 1) % UINT8
    BY <2>2, <2>3
  <2>5. QED
    BY <2>4 DEF s
<1>10. Held' = [i \in 1..(TXFIFO_ocpy - n) |-> Held[n + i]]
  <2>1. \A i \in 1..(TXFIFO_ocpy - n) :
           /\ n + i \in 1..TXFIFO_ocpy
           /\ TXFIFO[(((TXFIFO_rp + n) % UINT8) + i - 1) % UINT8] = Held[n + i]
    BY <1>1, <1>3, <1>9
  <2>2. QED
    BY <1>8, <2>1
<1>11. Held' = SubSeq(Held, n + 1, Len(Held))
  BY <1>1, <1>2, <1>10
<1>12. QED
  BY <1>5, <1>11
-----------------------------------------------------------------------------
LEMMA InitRefines == Init => Queue!Init
<1> SUFFICES ASSUME Init PROVE Queue!Init
  OBVIOUS
<1>1. FifoInv
  BY InitFifoInv
<1>2. Held \in Seq(Reply) /\ Len(Held) = 0
  BY <1>1, HeldType DEF Init
<1>3. Held = <<>>
  BY <1>2
<1>4. QED
  BY <1>3 DEF Init, Queue!Init, Held

LEMMA NextRefines == FifoInv /\ [Next]_vars => [Queue!Next]_(Queue!vars)
<1> SUFFICES ASSUME FifoInv, [Next]_vars PROVE [Queue!Next]_(Queue!vars)
  OBVIOUS
<1>1. ASSUME UNCHANGED fifoVars, packet' = packet
      PROVE  UNCHANGED Queue!vars
  BY <1>1 DEF fifoVars, Queue!vars, Copied
<1>2. CASE StartBatch
  BY <1>2, <1>1 DEF StartBatch
<1>3. CASE CommandWithReply
  <2>1. PICK d \in Reply : TXFIFO_Write(d)
    BY <1>3 DEF CommandWithReply
  <2>2. TXFIFO_ocpy < UINT8
    BY <1>3, FifoFacts DEF CommandWithReply, NextTurn
  <2>3. Len(Held) < TXFIFO_SIZE
    BY <2>2, HeldType, FifoFacts
  <2>4. Held' = Append(Held, d)
    BY <2>1, <2>2, WriteAppends
  <2>5. packet' = packet
    BY <1>3 DEF CommandWithReply
  <2>6. Queue!Put
    BY <2>3, <2>4, <2>5 DEF Queue!Put, Held
  <2>7. QED
    BY <2>6 DEF Queue!Next
<1>4. CASE CommandWithoutReply
  BY <1>4, <1>1 DEF CommandWithoutReply
<1>5. CASE FillPacket
  <2> DEFINE n == TxSize(TXFIFO_ocpy)
  <2>1. TXFIFO_Read(n) /\ n > 0
    BY <1>5 DEF FillPacket
  <2>2. n \in 1..TXFIFO_ocpy
    <3>1. n \in 0..TX_MAX /\ n <= TXFIFO_ocpy
      BY FifoFacts, TxSizeBounds
    <3>2. QED
      BY <2>1, <3>1, FifoFacts
  <2> HIDE DEF n
  <2>3. /\ packet' = SubSeq(Held, 1, n)
        /\ Held' = SubSeq(Held, n + 1, Len(Held))
    BY <2>1, <2>2, ReadTakes
  <2>4. n \in 1..Len(Held)
    BY <2>2, HeldType
  <2>5. Queue!Take
    BY <2>3, <2>4 DEF Queue!Take, Held
  <2>6. QED
    BY <2>5 DEF Queue!Next
<1>6. CASE Reconfigure
  <2>1. TXFIFO_ocpy' = 0 /\ packet' = packet
    BY <1>6 DEF Reconfigure, TXFIFO_Init
  <2>2. Held' = <<>>
    BY <2>1 DEF Held, Copied
  <2>3. Queue!Forget
    BY <2>1, <2>2 DEF Queue!Forget, Held
  <2>4. QED
    BY <2>3 DEF Queue!Next
<1>7. CASE UNCHANGED vars
  BY <1>7, <1>1 DEF vars
<1>8. QED
  BY <1>2, <1>3, <1>4, <1>5, <1>6, <1>7 DEF Next
-----------------------------------------------------------------------------
\* The ring is a bounded queue: replies leave in the order in which they were
\* recorded, each once, and a packet is the front of the queue
\* (blaster.c:318-364).
THEOREM FifoIsQueue == Spec => QueueSpec
<1>1. Spec => Queue!Init /\ [][Queue!Next]_(Queue!vars)
  BY InitRefines, NextRefines, FifoInvariant, PTL DEF Spec
<1>2. QED
  BY <1>1 DEF QueueSpec, Queue!Spec
=============================================================================
