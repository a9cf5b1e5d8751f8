--------------------------- MODULE RxRing_proofs ---------------------------
(***************************************************************************)
(* The receive ring for any size of the ring, of words and headers, any    *)
(* lengths of packets and any modulus of the counters that the ring's size *)
(* divides: the counters and the bytes between them are right, and the     *)
(* ring implements the packet FIFO.                                        *)
(***************************************************************************)
EXTENDS RxRing, SequenceTheorems, TLAPS

(* What % is.                                                               *)
LEMMA Division ==
    ASSUME NEW C \in Nat \ {0}, NEW a \in Int
    PROVE  \E q \in Int : \E r \in 0..(C - 1) : a = C * q + r /\ a % C = r
  <1>1. /\ (a % C) \in 0..(C - 1) /\ (a \div C) \in Int
        /\ a = (C * (a \div C)) + (a % C)
    OBVIOUS
  <1> QED  BY <1>1

LEMMA Divisor ==
    ASSUME NEW C \in Nat, NEW W \in Nat \ {0}, C % W = 0
    PROVE  \E k \in Int : C = W * k
  <1>1. C \div W \in Int /\ C = W * (C \div W)
    OBVIOUS
  <1> QED  BY <1>1

LEMMA Remainder ==
    ASSUME NEW C \in Nat \ {0}, NEW q \in Int, NEW r \in 0..(C - 1)
    PROVE  (C * q + r) % C = r
  OBVIOUS

LEMMA Products ==
    ASSUME NEW C \in Int, NEW p \in Int, NEW q \in Int
    PROVE  /\ C * p + C * q = C * (p + q) /\ p + q \in Int
           /\ (C * p) * q = C * (p * q) /\ p * q \in Int
  OBVIOUS

(* Multiples do not change a remainder.                                     *)
LEMMA AddMultiple ==
    ASSUME NEW C \in Nat \ {0}, NEW a \in Int, NEW q \in Int
    PROVE  (a + C * q) % C = a % C
  <1>1. PICK p \in Int : \E r \in 0..(C - 1) : a = C * p + r /\ a % C = r
    BY Division
  <1>2. PICK r \in 0..(C - 1) : a = C * p + r /\ a % C = r
    BY <1>1
  <1>3. PICK s \in Int : s = p + q
    OBVIOUS
  <1>4. a + C * q = (C * p + C * q) + r
    BY <1>2
  <1>5. a + C * q = C * s + r
    BY <1>3, <1>4, Products
  <1>6. (C * s + r) % C = r
    BY Remainder
  <1> QED  BY <1>2, <1>5, <1>6

(* A remainder by C knows the remainder by a divisor of C.                  *)
LEMMA ModMod ==
    ASSUME NEW C \in Nat \ {0}, NEW W \in Nat \ {0}, C % W = 0, NEW a \in Int
    PROVE  (a % C) % W = a % W
  <1>1. PICK k \in Int : C = W * k
    BY Divisor
  <1>2. PICK q \in Int : \E r \in 0..(C - 1) : a = C * q + r /\ a % C = r
    BY Division
  <1>3. PICK r \in 0..(C - 1) : a = C * q + r /\ a % C = r
    BY <1>2
  <1>4. PICK m \in Int : m = k * q
    BY Products
  <1>5. a = r + W * m
    BY <1>1, <1>3, <1>4, Products
  <1>6. r \in Int
    OBVIOUS
  <1>7. (r + W * m) % W = r % W
    BY <1>6, AddMultiple
  <1> QED  BY <1>3, <1>5, <1>7

(* The remainder of a number below the modulus, of a sum of two and of a    *)
(* difference.                                                              *)
LEMMA ModSmall ==
    ASSUME NEW C \in Nat \ {0}, NEW r \in 0..(C - 1)
    PROVE  r % C = r
  OBVIOUS

LEMMA ModSum ==
    ASSUME NEW C \in Nat \ {0}, NEW r \in 0..(C - 1), NEW m \in 0..(C - 1)
    PROVE  (r + m) % C = IF r + m < C THEN r + m ELSE r + m - C
  OBVIOUS

LEMMA ModDiff ==
    ASSUME NEW C \in Nat \ {0}, NEW w \in 0..(C - 1), NEW r \in 0..(C - 1)
    PROVE  (w - r) % C = IF w >= r THEN w - r ELSE w - r + C
  OBVIOUS

LEMMA ModPlus ==
    ASSUME NEW C \in Nat \ {0}, NEW a \in Int, NEW m \in 0..(C - 1)
    PROVE  /\ a % C \in 0..(C - 1)
           /\ (a + m) % C = IF (a % C) + m < C THEN (a % C) + m ELSE (a % C) + m - C
  <1>1. PICK q \in Int : \E r \in 0..(C - 1) : a = C * q + r /\ a % C = r
    BY Division
  <1>2. PICK r \in 0..(C - 1) : a = C * q + r /\ a % C = r
    BY <1>1
  <1>3. PICK b \in Int : b = r + m
    OBVIOUS
  <1>4. a + m = b + C * q
    <2>1. C * q \in Int
      BY Products
    <2> QED  BY <1>2, <1>3, <2>1
  <1>5. (b + C * q) % C = b % C
    BY AddMultiple
  <1>6. b % C = IF r + m < C THEN r + m ELSE r + m - C
    BY <1>3, ModSum
  <1> QED  BY <1>2, <1>4, <1>5, <1>6

(* Numbers less than the modulus apart have different remainders.           *)
LEMMA ModApart ==
    ASSUME NEW C \in Nat \ {0}, NEW a \in Int, NEW m \in 1..(C - 1)
    PROVE  (a + m) % C # a % C
  <1>1. m \in 0..(C - 1) /\ m \in Nat \ {0}
    OBVIOUS
  <1>2. /\ a % C \in 0..(C - 1)
        /\ (a + m) % C = IF (a % C) + m < C THEN (a % C) + m ELSE (a % C) + m - C
    BY <1>1, ModPlus
  <1> QED  BY <1>1, <1>2

(* Two counters modulo C, and how far the one is ahead of the other.        *)
LEMMA Ahead ==
    ASSUME NEW C \in Nat \ {0}, NEW w \in 0..(C - 1), NEW r \in 0..(C - 1)
    PROVE  (w - r) % C \in 0..(C - 1) /\ (r + ((w - r) % C)) % C = w
  <1>1. PICK f \in 0..(C - 1) : f = (w - r) % C /\ f = IF w >= r THEN w - r ELSE w - r + C
    BY ModDiff
  <1>2. (r + f) % C = w
    <2>1. (r + f) % C = IF r + f < C THEN r + f ELSE r + f - C
      BY ModSum
    <2> QED  BY <1>1, <2>1
  <1> QED  BY <1>1, <1>2

LEMMA WriterMoves ==
    ASSUME NEW C \in Nat \ {0}, NEW w \in 0..(C - 1), NEW r \in 0..(C - 1),
           NEW n \in Nat, ((w - r) % C) + n < C
    PROVE  (w + n) % C \in 0..(C - 1) /\ (((w + n) % C) - r) % C = ((w - r) % C) + n
  <1>1. PICK f \in 0..(C - 1) : f = (w - r) % C /\ f = IF w >= r THEN w - r ELSE w - r + C
    BY ModDiff
  <1>2. n \in 0..(C - 1)
    BY <1>1
  <1>3. PICK v \in 0..(C - 1) : v = (w + n) % C /\ v = IF w + n < C THEN w + n ELSE w + n - C
    BY <1>2, ModSum
  <1>4. (v - r) % C = IF v >= r THEN v - r ELSE v - r + C
    BY ModDiff
  <1> QED  BY <1>1, <1>3, <1>4

LEMMA ReaderMoves ==
    ASSUME NEW C \in Nat \ {0}, NEW w \in 0..(C - 1), NEW r \in 0..(C - 1),
           NEW n \in Nat, n <= (w - r) % C
    PROVE  (r + n) % C \in 0..(C - 1) /\ (w - ((r + n) % C)) % C = ((w - r) % C) - n
  <1>1. PICK f \in 0..(C - 1) : f = (w - r) % C /\ f = IF w >= r THEN w - r ELSE w - r + C
    BY ModDiff
  <1>2. n \in 0..(C - 1)
    BY <1>1
  <1>3. PICK v \in 0..(C - 1) : v = (r + n) % C /\ v = IF r + n < C THEN r + n ELSE r + n - C
    BY <1>2, ModSum
  <1>4. (w - v) % C = IF w >= v THEN w - v ELSE w - v + C
    BY ModDiff
  <1> QED  BY <1>1, <1>3, <1>4

(* A counter modulo C is off by a multiple of each divisor of C.            *)
LEMMA Landing ==
    ASSUME NEW C \in Nat \ {0}, NEW R \in Nat \ {0}, C % R = 0, NEW r \in Int, NEW n \in Int
    PROVE  \E p \in Int : (r + n) % C = (r + n) + R * p
  <1>1. PICK k \in Int : C = R * k
    BY Divisor
  <1>2. PICK a \in Int : a = r + n
    OBVIOUS
  <1>3. PICK q \in Int : \E s \in 0..(C - 1) : a = C * q + s /\ a % C = s
    BY Division
  <1>4. PICK s \in 0..(C - 1) : a = C * q + s /\ a % C = s
    BY <1>3
  <1>5. PICK p \in Int : p = k * (-q) /\ C * (-q) = R * p
    <2>1. PICK m \in Int : m = -q
      OBVIOUS
    <2> QED  BY <1>1, <2>1, Products
  <1>6. C * (-q) = -(C * q)
    OBVIOUS
  <1>7. s = a + R * p
    BY <1>4, <1>5, <1>6
  <1> QED  BY <1>2, <1>4, <1>7

(* Rounding up to a multiple of W.                                          *)
LEMMA RoundUp ==
    ASSUME NEW W \in Nat \ {0}, NEW n \in Nat
    PROVE  /\ ((n + W - 1) \div W) * W \in Nat
           /\ (((n + W - 1) \div W) * W) % W = 0
           /\ n <= ((n + W - 1) \div W) * W
           /\ \A k \in Nat : n <= k /\ k % W = 0 => ((n + W - 1) \div W) * W <= k
  <1>1. PICK q \in Int : /\ q = (n + W - 1) \div W
                         /\ \E r \in 0..(W - 1) : n + W - 1 = W * q + r
    OBVIOUS
  <1>2. PICK r \in 0..(W - 1) : n + W - 1 = W * q + r
    BY <1>1
  <1>3. PICK p \in Int : p = W * q /\ p = q * W
    OBVIOUS
  <1>4. p \in Nat /\ n <= p /\ p < n + W
    BY <1>2, <1>3
  <1>5. p % W = 0
    <2>1. (W * q + 0) % W = 0
      BY Remainder
    <2> QED  BY <1>3, <2>1
  <1>6. ASSUME NEW k \in Nat, n <= k, k % W = 0
        PROVE  p <= k
    <2>1. PICK m \in Int : k = W * m
      BY <1>6, Divisor
    <2>2. W * q < W * m + W
      BY <1>3, <1>4, <1>6, <2>1
    <2>3. q < m + 1
      BY <2>1, <2>2
    <2>4. W * q <= W * m
      BY <2>3
    <2> QED  BY <1>3, <2>1, <2>4
  <1> QED  BY <1>1, <1>3, <1>4, <1>5, <1>6
-----------------------------------------------------------------------------
(* Packets dealt with, and bytes taken from the ring.                       *)
Done == Len(handed) + skipped
Taken == nread - Fill

(* What arrives is packet after packet, each byte behind the one before it. *)
(* Where a packet begins its bytes follow, as far as they have arrived, so  *)
(* that nothing need be said step by step.                                  *)
NetInv ==
    /\ \A j \in 1..Len(stream) :
         /\ stream[j].id \in 1..Len(packets)
         /\ stream[j].len = packets[stream[j].id]
         /\ stream[j].k \in 1..Padded(stream[j].len)
    /\ stream # <<>> => stream[1].id = 1 /\ stream[1].k = 1
    /\ \A i, j \in 1..Len(stream) :
         i <= j /\ stream[i].k = 1 /\ j - i < Padded(stream[i].len)
           => stream[j] = Byte(stream[i].id, j - i + 1, stream[i].len)
    /\ \A j \in 1..Len(stream) :
         j < Len(stream) /\ stream[j].k = Padded(stream[j].len)
           => stream[j + 1].id = stream[j].id + 1 /\ stream[j + 1].k = 1
    /\ stream = <<>> => Len(packets) <= 1
    /\ stream # <<>> =>
         \/ stream[Len(stream)].id = Len(packets)
         \/ /\ stream[Len(stream)].id + 1 = Len(packets)
            /\ stream[Len(stream)].k = Padded(stream[Len(stream)].len)

(* The reader is at the end of the last packet dealt with.                  *)
TakenInv ==
    /\ Taken = 0 => Done = 0
    /\ Taken > 0 =>
         stream[Taken].id = Done /\ stream[Taken].k = Padded(stream[Taken].len)

IInv == TypeOK /\ RingIsWindow /\ NetInv /\ TakenInv

-----------------------------------------------------------------------------
(* Packets are padded to words, and fit into the ring.                      *)
LEMMA Sizes ==
    ASSUME NEW len \in Lens
    PROVE  /\ len \in Nat \ {0} /\ len <= RxBuf
           /\ Padded(len) \in 1..RxBuf /\ len <= Padded(len)
           /\ Padded(len) % Word = 0
  <1>1. len \in Nat \ {0} /\ len <= RxBuf /\ RxBuf \in Nat /\ Word \in Nat \ {0}
        /\ RxBuf % Word = 0
    BY RxRingAssumption
  <1>2. /\ Padded(len) \in Nat /\ Padded(len) % Word = 0 /\ len <= Padded(len)
        /\ \A k \in Nat : len <= k /\ k % Word = 0 => Padded(len) <= k
    BY <1>1, RoundUp DEF Padded
  <1>3. Padded(len) <= RxBuf
    BY <1>1, <1>2
  <1> QED  BY <1>1, <1>2, <1>3

(* The sizes the counters run through.                                      *)
LEMMA Moduli ==
    /\ RxBuf \in Nat \ {0} /\ CtrMod \in Nat \ {0} /\ Word \in Nat \ {0}
    /\ RxBuf < CtrMod /\ CtrMod % RxBuf = 0 /\ CtrMod % Word = 0
  <1>1. /\ RxBuf \in Nat \ {0} /\ CtrMod \in Nat \ {0} /\ Word \in Nat \ {0}
        /\ RxBuf < CtrMod /\ CtrMod % RxBuf = 0 /\ RxBuf % Word = 0
    BY RxRingAssumption
  <1>2. (CtrMod % RxBuf) % Word = CtrMod % Word
    <2>1. PICK a \in Int : a = CtrMod
      BY <1>1
    <2>2. (a % RxBuf) % Word = a % Word
      BY <1>1, ModMod
    <2> QED  BY <2>1, <2>2
  <1>3. 0 % Word = 0
    BY <1>1, ModSmall
  <1> QED  BY <1>1, <1>2, <1>3

(* The counters come round, but the places of the ring do not notice.       *)
LEMMA RingPlaces ==
    ASSUME NEW r \in Int, NEW n \in Int, NEW i \in Int
    PROVE  (((r + n) % CtrMod) + i) % RxBuf = (r + (n + i)) % RxBuf
  <1>1. PICK p \in Int : (r + n) % CtrMod = (r + n) + RxBuf * p
    BY Moduli, Landing
  <1>2. PICK b \in Int : b = r + (n + i)
    OBVIOUS
  <1>3. PICK z \in Int : z = RxBuf * p
    BY Moduli, Products
  <1>4. ((r + n) % CtrMod) + i = b + RxBuf * p
    BY <1>1, <1>2, <1>3
  <1>5. (b + RxBuf * p) % RxBuf = b % RxBuf
    BY Moduli, AddMultiple
  <1> QED  BY <1>2, <1>4, <1>5

(* How full the ring is, and where its end is.                              *)
LEMMA FillIs ==
    ASSUME TypeOK
    PROVE  /\ Fill \in 0..RxBuf /\ rxqrp \in 0..(CtrMod - 1) /\ rxqwp \in 0..(CtrMod - 1)
           /\ (rxqrp + Fill) % CtrMod = rxqwp
           /\ (rxqrp + Fill) % RxBuf = rxqwp % RxBuf
  <1>1. rxqrp \in 0..(CtrMod - 1) /\ rxqwp \in 0..(CtrMod - 1) /\ Fill <= RxBuf
    BY DEF TypeOK
  <1>2. Fill \in 0..(CtrMod - 1) /\ (rxqrp + Fill) % CtrMod = rxqwp
    BY <1>1, Moduli, Ahead DEF Fill
  <1>3. PICK a \in Int : a = rxqrp + Fill
    BY <1>1, <1>2, Moduli
  <1>4. (a % CtrMod) % RxBuf = a % RxBuf
    BY Moduli, ModMod
  <1> QED  BY <1>1, <1>2, <1>3, <1>4, Moduli

(* What moving the one counter or the other does to it.                     *)
LEMMA FillLess ==
    ASSUME TypeOK, NEW n \in Nat, n <= Fill, rxqrp' = (rxqrp + n) % CtrMod, rxqwp' = rxqwp
    PROVE  rxqrp' \in 0..(CtrMod - 1) /\ Fill' = Fill - n
  <1>1. PICK w \in 0..(CtrMod - 1) : w = rxqwp
    BY DEF TypeOK
  <1>2. PICK r \in 0..(CtrMod - 1) : r = rxqrp
    BY DEF TypeOK
  <1>3. PICK c \in Nat \ {0} : c = CtrMod
    BY Moduli
  <1>4. w \in 0..(c - 1) /\ r \in 0..(c - 1) /\ n <= (w - r) % c
    BY <1>1, <1>2, <1>3 DEF Fill
  <1>5. (r + n) % c \in 0..(c - 1) /\ (w - ((r + n) % c)) % c = ((w - r) % c) - n
    BY <1>4, ReaderMoves
  <1> QED  BY <1>1, <1>2, <1>3, <1>5 DEF Fill

LEMMA FillMore ==
    ASSUME TypeOK, NEW n \in Nat, Fill + n < CtrMod,
           rxqwp' = (rxqwp + n) % CtrMod, rxqrp' = rxqrp
    PROVE  rxqwp' \in 0..(CtrMod - 1) /\ Fill' = Fill + n
  <1>1. PICK w \in 0..(CtrMod - 1) : w = rxqwp
    BY DEF TypeOK
  <1>2. PICK r \in 0..(CtrMod - 1) : r = rxqrp
    BY DEF TypeOK
  <1>3. PICK c \in Nat \ {0} : c = CtrMod
    BY Moduli
  <1>4. w \in 0..(c - 1) /\ r \in 0..(c - 1) /\ ((w - r) % c) + n < c
    BY <1>1, <1>2, <1>3 DEF Fill
  <1>5. (w + n) % c \in 0..(c - 1) /\ (((w + n) % c) - r) % c = ((w - r) % c) + n
    BY <1>4, WriterMoves
  <1> QED  BY <1>1, <1>2, <1>3, <1>5 DEF Fill

(* What the variables are, spelled out.                                     *)
LEMMA Shapes ==
    ASSUME IInv
    PROVE  /\ Len(stream) \in Nat /\ Len(packets) \in Nat /\ Len(handed) \in Nat
           /\ stream \in Seq(Bytes) /\ packets \in Seq(Lens) /\ handed \in Seq(Seq(Bytes))
           /\ skipped \in Nat /\ nread \in 0..Len(stream) /\ Len(packets) <= MaxSent
           /\ MaxSent \in Nat
           /\ Fill \in 0..RxBuf /\ Fill <= nread /\ Taken \in 0..Len(stream)
           /\ Taken + Fill = nread /\ Done \in Nat
           /\ \A j \in 1..Len(stream) : stream[j] \in Bytes
           /\ \A i \in 1..Len(packets) : packets[i] \in Lens
  <1>1. /\ stream \in Seq(Bytes) /\ packets \in Seq(Lens) /\ handed \in Seq(Seq(Bytes))
        /\ skipped \in Nat /\ nread \in 0..Len(stream) /\ Len(packets) <= MaxSent
        /\ MaxSent \in Nat
    BY RxRingAssumption DEF IInv, TypeOK
  <1>2. Fill \in 0..RxBuf /\ Fill <= nread /\ RxBuf \in Nat
    BY FillIs, Moduli DEF IInv, RingIsWindow
  <1>3. Len(stream) \in Nat /\ Len(packets) \in Nat /\ Len(handed) \in Nat
    BY <1>1
  <1>4. Taken \in 0..Len(stream) /\ Taken + Fill = nread
    BY <1>1, <1>2, <1>3 DEF Taken
  <1>5. Done \in Nat
    BY <1>1, <1>3 DEF Done
  <1>6. /\ \A j \in 1..Len(stream) : stream[j] \in Bytes
        /\ \A i \in 1..Len(packets) : packets[i] \in Lens
    BY <1>1, ElementOfSeq
  <1> QED  BY <1>1, <1>2, <1>3, <1>4, <1>5, <1>6

(* Where the next packet begins, and its bytes as far as they have arrived. *)
LEMMA NextPacket ==
    ASSUME IInv, Taken < Len(stream)
    PROVE  /\ Done + 1 \in 1..Len(packets) /\ packets[Done + 1] \in Lens
           /\ Taken + 1 \in 1..Len(stream)
           /\ \A j \in 1..Padded(packets[Done + 1]) :
                Taken + j \in 1..Len(stream) =>
                  stream[Taken + j] = Byte(Done + 1, j, packets[Done + 1])
  <1> DEFINE t == Taken + 1
  <1>1. t \in 1..Len(stream) /\ Taken \in Nat /\ Done \in Nat /\ Len(stream) \in Nat
    BY Shapes
  <1>2. stream[t].id = Done + 1 /\ stream[t].k = 1
    <2>1. CASE Taken = 0
      <3>1. Done = 0 /\ stream # <<>> /\ t = 1
        BY <1>1, <2>1 DEF IInv, TakenInv
      <3> QED  BY <3>1 DEF IInv, NetInv
    <2>2. CASE Taken > 0
      <3>1. stream[Taken].id = Done /\ stream[Taken].k = Padded(stream[Taken].len)
        BY <2>2 DEF IInv, TakenInv
      <3>2. Taken \in 1..Len(stream) /\ Taken < Len(stream)
        BY <1>1, <2>2
      <3> QED  BY <3>1, <3>2 DEF IInv, NetInv
    <2> QED  BY <1>1, <2>1, <2>2
  <1>3. stream[t].id \in 1..Len(packets) /\ stream[t].len = packets[Done + 1]
    BY <1>1, <1>2 DEF IInv, NetInv
  <1>4. packets[Done + 1] \in Lens
    BY <1>2, <1>3, Shapes
  <1>5. Padded(packets[Done + 1]) \in Nat
    BY <1>4, Sizes, Moduli
  <1>6. ASSUME NEW j \in 1..Padded(packets[Done + 1]), Taken + j \in 1..Len(stream)
        PROVE  stream[Taken + j] = Byte(Done + 1, j, packets[Done + 1])
    <2>1. t <= Taken + j /\ (Taken + j) - t < Padded(stream[t].len) /\ (Taken + j) - t + 1 = j
      BY <1>1, <1>3, <1>5, <1>6
    <2>2. stream[Taken + j] = Byte(stream[t].id, (Taken + j) - t + 1, stream[t].len)
      BY <1>1, <1>2, <1>6, <2>1 DEF IInv, NetInv
    <2> QED  BY <1>2, <1>3, <2>1, <2>2
  <1> QED  BY <1>1, <1>2, <1>3, <1>4, <1>6

(* What coremodel_process_rxq sees when it looks at the ring.               *)
LEMMA AtPacket ==
    ASSUME IInv, Complete
    PROVE  /\ Taken < Len(stream) /\ Offs \in 0..(RxBuf - 1)
           /\ Done + 1 \in 1..Len(packets) /\ packets[Done + 1] \in Lens
           /\ PktLen = packets[Done + 1] /\ DLen = Padded(PktLen)
           /\ DLen \in 1..RxBuf /\ DLen <= Fill /\ PktLen \in 1..DLen /\ DLen % Word = 0
           /\ \A j \in 1..DLen : stream[Taken + j] = Byte(Done + 1, j, PktLen)
           /\ \A j \in 1..DLen : Taken + j \in 1..Len(stream)
  <1>1. /\ Fill \in 0..RxBuf /\ Fill > 0 /\ Taken < Len(stream) /\ Taken + Fill <= Len(stream)
        /\ Taken \in Nat /\ Fill \in Nat /\ nread - Fill + 1 + 0 = Taken + 1
        /\ Done \in Nat /\ Len(stream) \in Nat /\ RxBuf \in Nat
    BY Shapes, Moduli, RxRingAssumption DEF Complete, Taken
  <1>2. /\ Done + 1 \in 1..Len(packets) /\ packets[Done + 1] \in Lens
        /\ Taken + 1 \in 1..Len(stream)
        /\ \A j \in 1..Padded(packets[Done + 1]) :
             Taken + j \in 1..Len(stream) =>
               stream[Taken + j] = Byte(Done + 1, j, packets[Done + 1])
    BY <1>1, NextPacket
  <1>3. /\ Padded(packets[Done + 1]) \in 1..RxBuf
        /\ packets[Done + 1] \in 1..Padded(packets[Done + 1])
        /\ Padded(packets[Done + 1]) % Word = 0
    BY <1>2, Sizes
  <1>4. rxq[Offs] = stream[Taken + 1] /\ Offs \in 0..(RxBuf - 1)
    <2>1. 0 \in 0..(Fill - 1) /\ rxqrp \in Int /\ rxqrp + 0 = rxqrp
      BY <1>1, FillIs DEF IInv
    <2>2. rxq[(rxqrp + 0) % RxBuf] = stream[nread - Fill + 1 + 0]
      BY <2>1 DEF IInv, RingIsWindow
    <2>3. 0 \in 0..(RxBuf - 1) /\ rxqrp % RxBuf \in 0..(RxBuf - 1)
      BY <2>1, Moduli, ModPlus
    <2> QED  BY <1>1, <2>1, <2>2, <2>3 DEF Offs
  <1>5. PktLen = packets[Done + 1]
    <2>1. stream[Taken + 1] = Byte(Done + 1, 1, packets[Done + 1])
      BY <1>2, <1>3
    <2> QED  BY <1>4, <2>1 DEF PktLen, Byte
  <1>6. DLen = Padded(PktLen) /\ DLen <= Fill
    BY DEF DLen, Complete
  <1>7. \A j \in 1..DLen : Taken + j \in 1..Len(stream)
    BY <1>1, <1>3, <1>5, <1>6
  <1> QED  BY <1>1, <1>2, <1>3, <1>4, <1>5, <1>6, <1>7

(* The bytes put together from both ends of the ring are the packet's.      *)
LEMMA Gathered ==
    ASSUME IInv, Complete
    PROVE  SubSeq(Gather, 1, PktLen) = Body(Done + 1, PktLen)
  <1>1. /\ Taken \in Nat /\ Fill \in 0..RxBuf /\ Offs \in 0..(RxBuf - 1)
        /\ DLen \in 1..RxBuf /\ DLen <= Fill /\ PktLen \in 1..DLen
        /\ \A j \in 1..DLen : stream[Taken + j] = Byte(Done + 1, j, PktLen)
        /\ RxBuf \in Nat \ {0}
    BY AtPacket, Shapes, Moduli
  <1>2. ASSUME NEW j \in 1..DLen
        PROVE  Gather[j] = Byte(Done + 1, j, PktLen)
    <2>1. /\ j - 1 \in 0..(Fill - 1) /\ j - 1 \in 0..(RxBuf - 1) /\ rxqrp \in Int
          /\ nread - Fill + 1 + (j - 1) = Taken + j
      <3>1. rxqrp \in Int
        BY Moduli, FillIs DEF IInv
      <3>2. nread \in Int /\ Fill \in Int
        BY <1>1, Shapes
      <3>3. nread - Fill + 1 + (j - 1) = Taken + j
        BY <1>1, <3>2 DEF Taken
      <3> QED  BY <1>1, <3>1, <3>3
    <2>2. PICK m \in 0..(RxBuf - 1) : m = j - 1
      BY <2>1
    <2>3. rxq[(rxqrp + m) % RxBuf] = stream[Taken + j]
      BY <2>1, <2>2 DEF IInv, RingIsWindow
    <2>4. (rxqrp + m) % RxBuf = IF Offs + m < RxBuf THEN Offs + m ELSE Offs + m - RxBuf
      BY <1>1, <2>1, ModPlus DEF Offs
    <2>5. Gather[j] = IF j <= RxBuf - Offs THEN rxq[Offs + j - 1]
                                           ELSE rxq[j - (RxBuf - Offs) - 1]
      BY DEF Gather
    <2>6. CASE j <= RxBuf - Offs
      <3>1. Offs + j - 1 = Offs + m /\ Offs + m < RxBuf
        BY <1>1, <2>2, <2>6
      <3> QED  BY <1>1, <2>3, <2>4, <2>5, <2>6, <3>1
    <2>7. CASE ~(j <= RxBuf - Offs)
      <3>1. j - (RxBuf - Offs) - 1 = Offs + m - RxBuf /\ ~(Offs + m < RxBuf)
        BY <1>1, <2>2, <2>7
      <3> QED  BY <1>1, <2>3, <2>4, <2>5, <2>7, <3>1
    <2> QED  BY <2>6, <2>7
  <1>3. PICK n \in 1..DLen : n = PktLen
    BY <1>1
  <1>4. Gather = [j \in 1..DLen |-> Byte(Done + 1, j, n)]
    <2>1. Gather = [j \in 1..DLen |-> Gather[j]]
      BY DEF Gather
    <2> QED  BY <1>2, <1>3, <2>1
  <1>5. SubSeq(Gather, 1, n) = [j \in 1..n |-> Gather[j]]
    <2>1. n - 1 + 1 = n /\ \A j \in 1..n : j + 1 - 1 = j
      BY <1>1
    <2> QED  BY <1>1, <1>3, <2>1
  <1>6. \A j \in 1..n : Gather[j] = Byte(Done + 1, j, n) /\ j \in 1..DLen
    BY <1>1, <1>2, <1>3
  <1> QED  BY <1>3, <1>5, <1>6 DEF Body

(* A packet is a sequence of bytes.                                         *)
LEMMA BodyType ==
    ASSUME IInv, Complete
    PROVE  Body(Done + 1, PktLen) \in Seq(Bytes)
  <1>1. /\ Done + 1 \in 1..Len(packets) /\ PktLen \in 1..DLen /\ DLen \in 1..RxBuf
        /\ packets[Done + 1] \in Lens /\ PktLen = packets[Done + 1]
    BY AtPacket
  <1>2. PICK id \in 0..MaxSent : id = Done + 1
    BY <1>1, Shapes
  <1>3. PICK len \in Lens : len = PktLen /\ len \in 1..RxBuf
    BY <1>1, Moduli
  <1>4. \A k \in 1..len : Byte(id, k, len) \in Bytes
    BY <1>2, <1>3, Moduli DEF Byte, Bytes
  <1>5. Body(id, len) \in Seq(Bytes)
    BY <1>3, <1>4, Moduli DEF Body
  <1> QED  BY <1>2, <1>3, <1>5

-----------------------------------------------------------------------------
LEMMA InitInv == Init => IInv
  <1> SUFFICES ASSUME Init PROVE IInv
    OBVIOUS
  <1>1. /\ RxBuf \in Nat \ {0} /\ CtrMod \in Nat \ {0} /\ Word \in Nat \ {0}
        /\ MaxSent \in Nat /\ MaxFail \in Nat
    BY RxRingAssumption
  <1>2. /\ packets = <<>> /\ stream = <<>> /\ handed = <<>> /\ nread = 0 /\ skipped = 0
        /\ rxqrp = 0 /\ rxqwp = 0 /\ Len(packets) = 0 /\ Len(stream) = 0 /\ Len(handed) = 0
    BY DEF Init
  <1>3. Fill = 0 /\ rxqrp % Word = 0
    <2>1. 0 \in 0..(CtrMod - 1) /\ 0 \in 0..(Word - 1) /\ 0 - 0 = 0
      BY <1>1
    <2>2. 0 % CtrMod = 0 /\ 0 % Word = 0
      BY <1>1, <2>1, ModSmall
    <2> QED  BY <1>2, <2>1, <2>2 DEF Fill
  <1>4. TypeOK
    <2>1. rxq \in [0..(RxBuf - 1) -> Bytes]
      <3>1. NoByte \in Bytes
        BY <1>1 DEF NoByte, Byte, Bytes
      <3> QED  BY <3>1 DEF Init
    <2>2. packets \in Seq(Lens) /\ stream \in Seq(Bytes) /\ handed \in Seq(Seq(Bytes))
      BY <1>2
    <2>3. rxqwp \in 0..(CtrMod - 1) /\ rxqrp \in 0..(CtrMod - 1) /\ Fill <= RxBuf
      BY <1>1, <1>2, <1>3
    <2> QED  BY <1>1, <1>2, <2>1, <2>2, <2>3 DEF TypeOK, Init
  <1>5. RingIsWindow
    BY <1>2, <1>3 DEF RingIsWindow, Framed
  <1>6. NetInv
    BY <1>2 DEF NetInv
  <1>7. TakenInv
    BY <1>2, <1>3 DEF TakenInv, Taken, Done
  <1> QED  BY <1>4, <1>5, <1>6, <1>7 DEF IInv

(* Only the place in the round, or the failures, change.                    *)
LEMMA Still ==
    ASSUME IInv, phase' \in {"idle", "read", "frame"}, fails' \in 0..MaxFail,
           UNCHANGED <<ringvars, netvars, nread, handed, skipped>>
    PROVE  IInv'
  <1>1. /\ rxq' = rxq /\ rxqwp' = rxqwp /\ rxqrp' = rxqrp /\ packets' = packets
        /\ stream' = stream /\ nread' = nread /\ handed' = handed /\ skipped' = skipped
    BY DEF ringvars, netvars
  <1>2. Fill' = Fill
    BY <1>1 DEF Fill
  <1>3. TypeOK'
    BY <1>1, <1>2 DEF IInv, TypeOK
  <1>4. RingIsWindow'
    BY <1>1, <1>2 DEF IInv, RingIsWindow, Framed, Offs
  <1>5. NetInv'
    BY <1>1 DEF IInv, NetInv
  <1>6. TakenInv'
    BY <1>1, <1>2 DEF IInv, TakenInv, Taken, Done
  <1> QED  BY <1>3, <1>4, <1>5, <1>6 DEF IInv

(* A packet is taken or stepped over: the reader goes on to the next.       *)
LEMMA Consumed ==
    ASSUME IInv, Complete, rxqrp' = (rxqrp + DLen) % CtrMod, Done' = Done + 1,
           handed' \in Seq(Seq(Bytes)), skipped' \in Nat, skipped' <= Done',
           UNCHANGED <<rxq, rxqwp, phase, fails, netvars, nread>>
    PROVE  IInv'
  <1>1. /\ rxq' = rxq /\ rxqwp' = rxqwp /\ packets' = packets /\ stream' = stream
        /\ nread' = nread /\ phase' = phase /\ fails' = fails
    BY DEF netvars
  <1>2. /\ DLen \in Nat \ {0} /\ DLen <= Fill /\ DLen % Word = 0 /\ DLen = Padded(PktLen)
        /\ Done + 1 \in 1..Len(packets) /\ Taken + DLen \in 1..Len(stream)
        /\ stream[Taken + DLen] = Byte(Done + 1, DLen, PktLen)
    <2>1. /\ DLen \in 1..RxBuf /\ DLen <= Fill /\ DLen % Word = 0 /\ DLen = Padded(PktLen)
          /\ Done + 1 \in 1..Len(packets)
          /\ \A j \in 1..DLen : stream[Taken + j] = Byte(Done + 1, j, PktLen)
          /\ \A j \in 1..DLen : Taken + j \in 1..Len(stream)
      BY AtPacket
    <2>2. DLen \in Nat \ {0} /\ DLen \in 1..DLen
      BY <2>1, Moduli
    <2> QED  BY <2>1, <2>2
  <1>3. /\ rxqrp \in 0..(CtrMod - 1) /\ rxqwp \in 0..(CtrMod - 1) /\ Fill \in 0..RxBuf
        /\ RxBuf \in Nat \ {0} /\ CtrMod \in Nat \ {0} /\ Word \in Nat \ {0}
        /\ Taken \in Nat /\ Done \in Nat /\ nread \in Nat /\ Len(stream) \in Nat
    BY FillIs, Moduli, Shapes DEF IInv
  <1>d. PICK d \in Nat \ {0} : d = DLen
    BY <1>2
  <1>f. PICK f \in 0..RxBuf : f = Fill /\ d <= f
    BY <1>2, <1>3, <1>d
  <1>4. rxqrp' \in 0..(CtrMod - 1) /\ Fill' = f - d
    <2>1. TypeOK /\ d <= Fill /\ rxqrp' = (rxqrp + d) % CtrMod
      BY <1>d, <1>f DEF IInv
    <2>2. rxqrp' \in 0..(CtrMod - 1) /\ Fill' = Fill - d
      BY <1>1, <2>1, FillLess
    <2> QED  BY <1>f, <2>2
  <1>g. PICK g \in 0..RxBuf : g = Fill' /\ g = f - d
    BY <1>3, <1>4, <1>d, <1>f
  <1>n. PICK n \in Nat : n = nread /\ f <= n /\ n <= Len(stream)
    BY <1>3, <1>f, Shapes
  <1>t. Taken = n - f /\ Taken' = n - g /\ n - g = (n - f) + d
    BY <1>1, <1>f, <1>g, <1>n DEF Taken
  <1>5. Fill' \in 0..RxBuf /\ Fill' <= nread /\ Taken' = Taken + DLen
    BY <1>d, <1>f, <1>g, <1>n, <1>t
  <1>6. TypeOK'
    <2>1. skipped' \in 0..MaxSent
      <3>1. Done' <= Len(packets) /\ Len(packets) <= MaxSent
        BY <1>2, <1>3, Shapes
      <3>2. Len(packets) \in Nat /\ MaxSent \in Nat /\ Done' \in Nat
        BY <1>2, <1>3, Shapes
      <3> QED  BY <3>1, <3>2
    <2> QED  BY <1>1, <1>3, <1>4, <1>5, <2>1 DEF IInv, TypeOK
  <1>7. \A i \in 0..(Fill' - 1) : rxq[(rxqrp' + i) % RxBuf] = stream[nread - Fill' + 1 + i]
    <2> SUFFICES ASSUME NEW i \in 0..(g - 1)
                 PROVE  rxq[(rxqrp' + i) % RxBuf] = stream[n - g + 1 + i]
      BY <1>g, <1>n
    <2>1. PICK m \in 0..(f - 1) : m = d + i
      BY <1>d, <1>f, <1>g
    <2>2. (((rxqrp + d) % CtrMod) + i) % RxBuf = (rxqrp + (d + i)) % RxBuf
      <3>1. PICK r \in Int : r = rxqrp
        BY <1>3
      <3>2. PICK e \in Int, j \in Int : e = d /\ j = i
        OBVIOUS
      <3>3. (((r + e) % CtrMod) + j) % RxBuf = (r + (e + j)) % RxBuf
        BY RingPlaces
      <3> QED  BY <3>1, <3>2, <3>3
    <2>3. rxq[(rxqrp + m) % RxBuf] = stream[nread - Fill + 1 + m]
      BY <1>f DEF IInv, RingIsWindow
    <2>4. n - f + 1 + m = n - g + 1 + i
      BY <1>d, <1>f, <1>g, <2>1
    <2> QED  BY <1>d, <1>f, <1>n, <2>1, <2>2, <2>3, <2>4
  <1>8. Framed'
    <2>1. rxqrp' % Word = 0
      <3>1. PICK k \in Int : d = Word * k
        BY <1>2, <1>3, <1>d, Divisor
      <3>2. PICK a \in Int : a = rxqrp /\ a % Word = 0
        BY <1>3 DEF IInv, RingIsWindow, Framed
      <3>3. (a + Word * k) % Word = a % Word
        BY Moduli, AddMultiple
      <3>4. PICK b \in Int : b = a + d
        OBVIOUS
      <3>5. (b % CtrMod) % Word = b % Word
        BY Moduli, ModMod
      <3> QED  BY <1>d, <3>1, <3>2, <3>3, <3>4, <3>5
    <2>2. ASSUME Fill' > 0  PROVE rxq'[Offs'].k = 1
      <3>1. 0 \in 0..(Fill' - 1) /\ rxqrp' + 0 = rxqrp' /\ nread - Fill' + 1 + 0 = Taken' + 1
        BY <1>3, <1>4, <1>g, <1>n, <1>t, <2>2
      <3>2. rxq[rxqrp' % RxBuf] = stream[Taken' + 1]
        BY <1>7, <3>1
      <3>3. Taken' \in 1..Len(stream) /\ Taken' < Len(stream)
        BY <1>3, <1>d, <1>f, <1>g, <1>n, <1>t, <2>2
      <3>4. stream[Taken'].k = Padded(stream[Taken'].len)
        BY <1>2, <1>5 DEF Byte
      <3>5. stream[Taken' + 1].k = 1
        BY <3>3, <3>4 DEF IInv, NetInv
      <3> QED  BY <1>1, <3>2, <3>5 DEF Offs
    <2> QED  BY <2>1, <2>2 DEF Framed
  <1>9. RingIsWindow'
    BY <1>1, <1>5, <1>7, <1>8 DEF RingIsWindow
  <1>10. NetInv'
    BY <1>1 DEF IInv, NetInv
  <1>11. TakenInv'
    <2>1. stream'[Taken'].id = Done' /\ stream'[Taken'].k = Padded(stream'[Taken'].len)
      BY <1>1, <1>2, <1>5 DEF Byte
    <2>2. Taken' # 0
      BY <1>2, <1>3, <1>5
    <2> QED  BY <2>1, <2>2 DEF TakenInv
  <1> QED  BY <1>6, <1>9, <1>10, <1>11 DEF IInv

(* The VM begins a packet: all of the one before has arrived.               *)
LEMMA SendStep ==
    ASSUME IInv, VMSend
    PROVE  IInv'
  <1>1. /\ rxq' = rxq /\ rxqwp' = rxqwp /\ rxqrp' = rxqrp /\ stream' = stream
        /\ nread' = nread /\ handed' = handed /\ skipped' = skipped
        /\ phase' = phase /\ fails' = fails
    BY DEF VMSend, ringvars
  <1>2. PICK len \in Lens : packets' = Append(packets, len)
    BY DEF VMSend
  <1>3. /\ packets \in Seq(Lens) /\ stream \in Seq(Bytes) /\ Len(stream) \in Nat
        /\ Len(packets) \in Nat /\ Len(packets) < MaxSent /\ MaxSent \in Nat
    BY Shapes DEF VMSend
  <1>4. /\ packets' \in Seq(Lens) /\ Len(packets') = Len(packets) + 1
        /\ \A i \in 1..Len(packets) : packets'[i] = packets[i] /\ i \in 1..Len(packets')
    BY <1>2, <1>3
  <1>5. Fill' = Fill /\ Taken' = Taken /\ Done' = Done /\ Framed'
    BY <1>1 DEF Fill, Taken, Done, IInv, RingIsWindow, Framed, Offs
  <1>6. TypeOK'
    BY <1>1, <1>3, <1>4, <1>5 DEF IInv, TypeOK
  <1>7. RingIsWindow'
    BY <1>1, <1>5 DEF IInv, RingIsWindow
  <1>8. TakenInv'
    BY <1>1, <1>5 DEF IInv, TakenInv
  <1>9. NetInv'
    <2>1. ASSUME NEW j \in 1..Len(stream)
          PROVE  /\ stream[j].id \in 1..Len(packets')
                 /\ stream[j].len = packets'[stream[j].id]
                 /\ stream[j].k \in 1..Padded(stream[j].len)
      BY <1>4 DEF IInv, NetInv
    <2>2. CASE packets = <<>>
      <3>1. stream = <<>>
        <4>1. ~(1 \in 1..Len(stream))
          BY <2>2 DEF IInv, NetInv
        <4> QED  BY <1>3, <4>1, EmptySeq
      <3>2. Len(packets') <= 1
        BY <1>4, <2>2
      <3> QED  BY <1>1, <1>3, <3>1, <3>2 DEF NetInv
    <2>3. CASE packets # <<>>
      <3>1. Len(packets) \in 1..Len(packets) /\ packets[Len(packets)] \in Lens
        BY <1>3, <2>3, EmptySeq, ElementOfSeq
      <3>2. Padded(packets[Len(packets)]) \in Nat \ {0}
        BY <3>1, Sizes, Moduli
      <3>3. Padded(packets[Len(packets)]) - Have = 0
        BY <2>3 DEF VMSend, Left
      <3>4. /\ stream # <<>> /\ stream[Len(stream)].id = Len(packets)
            /\ stream[Len(stream)].k = Padded(packets[Len(packets)])
        <4>1. CASE stream # <<>> /\ stream[Len(stream)].id = Len(packets)
          <5>1. Have = stream[Len(stream)].k /\ Len(stream) \in 1..Len(stream)
            BY <1>3, <4>1, EmptySeq DEF Have
          <5>2. stream[Len(stream)].k \in Int
            <6>1. stream[Len(stream)] \in Bytes
              BY <5>1, Shapes
            <6> QED  BY <6>1, Moduli DEF Bytes
          <5> QED  BY <3>2, <3>3, <4>1, <5>1, <5>2
        <4>2. CASE ~(stream # <<>> /\ stream[Len(stream)].id = Len(packets))
          <5>1. Have = 0
            BY <4>2 DEF Have
          <5> QED  BY <3>2, <3>3, <5>1
        <4> QED  BY <4>1, <4>2
      <3>5. Len(stream) \in 1..Len(stream)
        BY <1>3, <3>4, EmptySeq
      <3>6. stream[Len(stream)].len = packets[Len(packets)]
        BY <3>4, <3>5 DEF IInv, NetInv
      <3>7. /\ stream[Len(stream)].id + 1 = Len(packets')
            /\ stream[Len(stream)].k = Padded(stream[Len(stream)].len)
        BY <1>4, <3>4, <3>6
      <3> QED  BY <1>1, <2>1, <3>4, <3>7 DEF IInv, NetInv
    <2> QED  BY <2>2, <2>3
  <1> QED  BY <1>6, <1>7, <1>8, <1>9 DEF IInv

(* A sequence and another one behind it.                                    *)
LEMMA Joined ==
    ASSUME NEW S, NEW s \in Seq(S), NEW t \in Seq(S)
    PROVE  /\ s \o t \in Seq(S) /\ Len(s \o t) = Len(s) + Len(t)
           /\ \A j \in 1..Len(s) : (s \o t)[j] = s[j]
           /\ \A j \in 1..Len(t) : (s \o t)[Len(s) + j] = t[j]
  OBVIOUS

(* More of the packet under way arrives.                                    *)
LEMMA ArriveStep ==
    ASSUME IInv, Arrive
    PROVE  IInv'
  <1> DEFINE id == Len(packets)  len == packets[id]
  <1>1. /\ rxq' = rxq /\ rxqwp' = rxqwp /\ rxqrp' = rxqrp /\ packets' = packets
        /\ nread' = nread /\ handed' = handed /\ skipped' = skipped
        /\ phase' = phase /\ fails' = fails
    BY DEF Arrive, ringvars
  <1>2. PICK n \in 1..Left : stream' = stream \o [j \in 1..n |-> Byte(id, Have + j, len)]
    BY DEF Arrive
  <1>3. /\ packets \in Seq(Lens) /\ stream \in Seq(Bytes) /\ Len(stream) \in Nat
        /\ Len(packets) \in Nat /\ Len(packets) <= MaxSent /\ MaxSent \in Nat
        /\ Len(stream) \in 1..Len(stream) \/ stream = <<>>
    BY Shapes, EmptySeq
  <1>4. /\ packets # <<>> /\ id \in 1..Len(packets) /\ len \in Lens /\ id \in 1..MaxSent
        /\ Padded(len) \in Nat \ {0} /\ Padded(len) <= RxBuf /\ RxBuf \in Nat
    <2>1. packets # <<>>
      BY <1>2 DEF Left
    <2>2. id \in 1..Len(packets) /\ len \in Lens
      BY <1>3, <2>1, EmptySeq, ElementOfSeq
    <2> QED  BY <1>3, <2>1, <2>2, Sizes, Moduli
  <1>5. PICK have \in 0..Padded(len) : have = Have
    <2>1. CASE stream # <<>> /\ stream[Len(stream)].id = Len(packets)
      <3>1. /\ stream[Len(stream)].k \in 1..Padded(stream[Len(stream)].len)
            /\ stream[Len(stream)].len = len
        BY <1>3, <2>1 DEF IInv, NetInv
      <3> QED  BY <1>4, <2>1, <3>1 DEF Have
    <2>2. CASE ~(stream # <<>> /\ stream[Len(stream)].id = Len(packets))
      BY <1>4, <2>2 DEF Have
    <2> QED  BY <2>1, <2>2
  <1>6. n \in Nat \ {0} /\ have + n <= Padded(len)
    BY <1>2, <1>4, <1>5 DEF Left
  <1> DEFINE new == [j \in 1..n |-> Byte(id, have + j, len)]
  <1>7. /\ new \in Seq(Bytes) /\ Len(new) = n
        /\ \A j \in 1..n : new[j] = Byte(id, have + j, len)
    <2>1. \A j \in 1..n : Byte(id, have + j, len) \in Bytes
      BY <1>3, <1>4, <1>5, <1>6 DEF Byte, Bytes
    <2> QED  BY <1>6, <2>1
  <1>8. stream' = stream \o new
    BY <1>2, <1>5
  <1> HIDE DEF new
  <1>9. /\ stream' \in Seq(Bytes) /\ Len(stream') = Len(stream) + n
        /\ \A j \in 1..Len(stream) : stream'[j] = stream[j]
        /\ \A j \in 1..n : stream'[Len(stream) + j] = Byte(id, have + j, len)
    <2>1. stream \in Seq(Bytes) /\ new \in Seq(Bytes)
      BY <1>3, <1>7
    <2>2. /\ stream \o new \in Seq(Bytes) /\ Len(stream \o new) = Len(stream) + Len(new)
          /\ \A j \in 1..Len(stream) : (stream \o new)[j] = stream[j]
          /\ \A j \in 1..Len(new) : (stream \o new)[Len(stream) + j] = new[j]
      BY <2>1, Joined
    <2> QED  BY <1>7, <1>8, <2>2
  <1>10. /\ stream' # <<>> /\ Len(stream') \in Nat
         /\ \A j \in 1..Len(stream') :
              \/ j \in 1..Len(stream)
              \/ j - Len(stream) \in 1..n /\ Len(stream) + (j - Len(stream)) = j
    BY <1>3, <1>6, <1>9
  <1>11. Fill' = Fill /\ Taken' = Taken /\ Done' = Done /\ Framed'
    BY <1>1 DEF Fill, Taken, Done, IInv, RingIsWindow, Framed, Offs
  <1>12. TypeOK'
    <2>1. nread' \in 0..Len(stream')
      BY <1>1, <1>3, <1>6, <1>9, Shapes
    <2> QED  BY <1>1, <1>9, <1>11, <2>1 DEF IInv, TypeOK
  <1>13. RingIsWindow'
    <2>1. \A i \in 0..(Fill - 1) : nread - Fill + 1 + i \in 1..Len(stream)
      <3>1. Fill \in Nat /\ nread \in Nat /\ Fill <= nread /\ nread <= Len(stream)
        BY <1>3, Shapes, Moduli
      <3> QED  BY <1>3, <3>1
    <2> QED  BY <1>1, <1>9, <1>11, <2>1 DEF IInv, RingIsWindow
  <1>14. TakenInv'
    <2>1. Taken > 0 => Taken \in 1..Len(stream)
      BY <1>3, Shapes
    <2> QED  BY <1>9, <1>11, <2>1 DEF IInv, TakenInv
  <1>15. \A j \in 1..Len(stream') :
           /\ stream'[j].id \in 1..Len(packets)
           /\ stream'[j].len = packets[stream'[j].id]
           /\ stream'[j].k \in 1..Padded(stream'[j].len)
    <2> TAKE j \in 1..Len(stream')
    <2>1. CASE j \in 1..Len(stream)
      BY <1>9, <2>1 DEF IInv, NetInv
    <2>2. CASE j - Len(stream) \in 1..n /\ Len(stream) + (j - Len(stream)) = j
      <3>1. PICK m \in 1..n : m = j - Len(stream) /\ stream'[j] = Byte(id, have + m, len)
        BY <1>9, <2>2
      <3>2. have + m \in 1..Padded(len)
        BY <1>4, <1>5, <1>6
      <3> QED  BY <1>4, <3>1, <3>2 DEF Byte
    <2> QED  BY <1>10, <2>1, <2>2
  <1>16. stream'[1].id = 1 /\ stream'[1].k = 1
    <2>1. CASE stream # <<>>
      <3>1. 1 \in 1..Len(stream)
        BY <1>3, <2>1
      <3> QED  BY <1>9, <2>1, <3>1 DEF IInv, NetInv
    <2>2. CASE stream = <<>>
      <3>1. Len(stream) = 0 /\ have = 0 /\ 1 \in 1..n /\ Len(stream) + 1 = 1
        BY <1>5, <1>6, <2>2 DEF Have
      <3>2. stream'[1] = Byte(id, have + 1, len)
        BY <1>9, <3>1
      <3>3. id = 1
        <4>1. Len(packets) <= 1
          BY <2>2 DEF IInv, NetInv
        <4>2. PICK m \in Nat : m = Len(packets)
          BY <1>3
        <4>3. m \in 1..m /\ m <= 1
          BY <1>4, <4>1, <4>2
        <4>4. m = 1
          BY <4>3
        <4> QED  BY <4>2, <4>4
      <3> QED  BY <3>1, <3>2, <3>3 DEF Byte
    <2> QED  BY <2>1, <2>2
  <1>17. stream'[Len(stream')].id = Len(packets)
    <2>1. stream'[Len(stream')] = Byte(id, have + n, len)
      BY <1>6, <1>9
    <2> QED  BY <2>1 DEF Byte
  (* Byte j of the new ones follows what has arrived of its packet.         *)
  <1>18. ASSUME NEW j \in 1..Len(stream), stream[j].k = 1,
                Len(stream) - j + 1 < Padded(stream[j].len)
         PROVE  stream[j].id = id /\ stream[j].len = len /\ have = Len(stream) - j + 1
    <2>1. Len(stream) \in 1..Len(stream) /\ j <= Len(stream)
      BY <1>3, <1>18
    <2>2. Padded(stream[j].len) \in Nat
      <3>1. stream[j].id \in 1..Len(packets) /\ stream[j].len = packets[stream[j].id]
        BY DEF IInv, NetInv
      <3>2. packets[stream[j].id] \in Lens
        BY <3>1, Shapes
      <3>3. Padded(packets[stream[j].id]) \in 1..RxBuf /\ RxBuf \in Nat
        BY <3>2, Sizes, Moduli
      <3> QED  BY <3>1, <3>3
    <2>3. Len(stream) - j < Padded(stream[j].len)
      BY <1>3, <1>18, <2>2
    <2>4. stream[Len(stream)] = Byte(stream[j].id, Len(stream) - j + 1, stream[j].len)
      BY <1>18, <2>1, <2>3 DEF IInv, NetInv
    <2>5. /\ stream[Len(stream)].id = stream[j].id
          /\ stream[Len(stream)].k = Len(stream) - j + 1
          /\ stream[Len(stream)].len = stream[j].len
      BY <2>4 DEF Byte
    <2>6. stream[Len(stream)].k # Padded(stream[Len(stream)].len)
      BY <1>3, <1>18, <2>2, <2>5
    <2>7. stream # <<>>
      BY <2>1
    <2>8. stream[Len(stream)].id = id
      BY <2>6, <2>7 DEF IInv, NetInv
    <2>9. stream[Len(stream)].len = len
      BY <2>1, <2>8 DEF IInv, NetInv
    <2> QED  BY <1>5, <2>5, <2>7, <2>8, <2>9 DEF Have
  <1>19. \A i, j \in 1..Len(stream') :
           i <= j /\ stream'[i].k = 1 /\ j - i < Padded(stream'[i].len)
             => stream'[j] = Byte(stream'[i].id, j - i + 1, stream'[i].len)
    <2> SUFFICES ASSUME NEW i \in 1..Len(stream'), NEW j \in 1..Len(stream'),
                        i <= j, stream'[i].k = 1, j - i < Padded(stream'[i].len)
                 PROVE  stream'[j] = Byte(stream'[i].id, j - i + 1, stream'[i].len)
      OBVIOUS
    <2>1. CASE j \in 1..Len(stream)
      <3>1. i \in 1..Len(stream)
        BY <1>3, <1>10, <2>1
      <3> QED  BY <1>9, <2>1, <3>1 DEF IInv, NetInv
    <2>2. CASE i \in 1..Len(stream) /\ ~(j \in 1..Len(stream))
      <3>1. PICK m \in 1..n : j = Len(stream) + m /\ stream'[j] = Byte(id, have + m, len)
        BY <1>9, <1>10, <2>2
      <3>2. stream'[i] = stream[i]
        BY <1>9, <2>2
      <3>3. Padded(stream[i].len) \in Nat
        <4>1. stream[i].id \in 1..Len(packets) /\ stream[i].len = packets[stream[i].id]
          BY <2>2 DEF IInv, NetInv
        <4>2. packets[stream[i].id] \in Lens
          BY <4>1, Shapes
        <4>3. Padded(packets[stream[i].id]) \in 1..RxBuf /\ RxBuf \in Nat
          BY <4>2, Sizes, Moduli
        <4> QED  BY <4>1, <4>3
      <3>4. Len(stream) - i + 1 < Padded(stream[i].len)
        BY <1>3, <1>6, <2>2, <3>1, <3>2, <3>3
      <3>5. stream[i].id = id /\ stream[i].len = len /\ have = Len(stream) - i + 1
        BY <1>18, <2>2, <3>2, <3>4
      <3>6. have + m = j - i + 1
        BY <1>3, <2>2, <3>1, <3>5
      <3> QED  BY <3>1, <3>2, <3>5, <3>6
    <2>3. CASE ~(i \in 1..Len(stream)) /\ ~(j \in 1..Len(stream))
      <3>1. PICK m \in 1..n : j = Len(stream) + m /\ stream'[j] = Byte(id, have + m, len)
        BY <1>9, <1>10, <2>3
      <3>2. PICK l \in 1..n : i = Len(stream) + l /\ stream'[i] = Byte(id, have + l, len)
        BY <1>9, <1>10, <2>3
      <3>3. stream'[i].id = id /\ stream'[i].len = len /\ have + l = 1
        BY <3>2 DEF Byte
      <3>4. have + m = j - i + 1
        BY <1>3, <1>5, <1>6, <3>1, <3>2, <3>3
      <3> QED  BY <3>1, <3>3, <3>4
    <2> QED  BY <2>1, <2>2, <2>3
  <1>20. \A j \in 1..Len(stream') :
           j < Len(stream') /\ stream'[j].k = Padded(stream'[j].len)
             => stream'[j + 1].id = stream'[j].id + 1 /\ stream'[j + 1].k = 1
    <2> SUFFICES ASSUME NEW j \in 1..Len(stream'), j < Len(stream'),
                        stream'[j].k = Padded(stream'[j].len)
                 PROVE  stream'[j + 1].id = stream'[j].id + 1 /\ stream'[j + 1].k = 1
      OBVIOUS
    <2>1. CASE j < Len(stream)
      <3>1. j \in 1..Len(stream) /\ j + 1 \in 1..Len(stream)
        BY <1>3, <1>10, <2>1
      <3> QED  BY <1>9, <2>1, <3>1 DEF IInv, NetInv
    <2>2. CASE j = Len(stream)
      <3>1. j \in 1..Len(stream) /\ stream # <<>> /\ stream'[j] = stream[j] /\ 1 \in 1..n
        BY <1>3, <1>6, <1>9, <1>10, <2>2
      <3>2. stream'[j + 1] = Byte(id, have + 1, len)
        BY <1>9, <2>2, <3>1
      <3>3. CASE stream[j].id = Len(packets)
        <4>1. have = stream[j].k
          BY <1>5, <2>2, <3>1, <3>3 DEF Have
        <4>2. stream[j].len = len
          BY <3>1, <3>3 DEF IInv, NetInv
        <4>3. FALSE
          BY <1>4, <1>5, <1>6, <3>1, <4>1, <4>2
        <4> QED  BY <4>3
      <3>4. CASE stream[j].id # Len(packets)
        <4>1. stream[j].id + 1 = Len(packets)
          BY <2>2, <3>1, <3>4 DEF IInv, NetInv
        <4>2. have = 0
          BY <1>5, <2>2, <3>4 DEF Have
        <4> QED  BY <3>1, <3>2, <4>1, <4>2 DEF Byte
      <3> QED  BY <3>3, <3>4
    <2>3. CASE j > Len(stream)
      <3>1. PICK m \in 1..n : j = Len(stream) + m /\ stream'[j] = Byte(id, have + m, len)
        BY <1>3, <1>9, <1>10, <2>3
      <3>2. m < n
        BY <1>3, <1>6, <1>9, <3>1
      <3>3. have + m < Padded(len)
        BY <1>4, <1>5, <1>6, <3>2
      <3> QED  BY <1>4, <1>5, <1>6, <3>1, <3>3 DEF Byte
    <2> QED  BY <1>3, <1>10, <2>1, <2>2, <2>3
  <1>21. NetInv'
    BY <1>1, <1>10, <1>15, <1>16, <1>17, <1>19, <1>20 DEF NetInv
  <1> QED  BY <1>12, <1>13, <1>14, <1>21 DEF IInv
(* read(2) puts bytes behind those in the ring, and over none of them.      *)
LEMMA ReadKeeps ==
    ASSUME IInv, Read
    PROVE  IInv'
  <1> DEFINE offs == rxqwp % RxBuf
  <1>1. /\ rxqrp' = rxqrp /\ packets' = packets /\ stream' = stream
        /\ handed' = handed /\ skipped' = skipped /\ phase' = phase /\ fails' = fails
    BY DEF Read, netvars
  <1>2. /\ rxqrp \in 0..(CtrMod - 1) /\ rxqwp \in 0..(CtrMod - 1) /\ Fill \in 0..RxBuf
        /\ RxBuf \in Nat \ {0} /\ CtrMod \in Nat \ {0} /\ RxBuf < CtrMod
        /\ nread \in Nat /\ Len(stream) \in Nat /\ nread <= Len(stream) /\ Fill <= nread
        /\ (rxqrp + Fill) % RxBuf = offs
        /\ rxq \in [0..(RxBuf - 1) -> Bytes]
    <2>1. /\ rxqrp \in 0..(CtrMod - 1) /\ rxqwp \in 0..(CtrMod - 1)
          /\ (rxqrp + Fill) % RxBuf = offs
      BY FillIs DEF IInv
    <2>2. rxq \in [0..(RxBuf - 1) -> Bytes]
      BY DEF IInv, TypeOK
    <2>3. /\ nread \in 0..Len(stream) /\ Len(stream) \in Nat
          /\ Fill \in 0..RxBuf /\ Fill <= nread
      BY Shapes
    <2>4. RxBuf \in Nat \ {0} /\ CtrMod \in Nat \ {0} /\ RxBuf < CtrMod
      BY Moduli
    <2>5. nread \in Nat /\ nread <= Len(stream)
      BY <2>3
    <2> QED  BY <2>1, <2>2, <2>3, <2>4, <2>5
  <1>r. PICK r \in 0..(CtrMod - 1) : r = rxqrp
    BY <1>2
  <1>w. PICK w \in 0..(CtrMod - 1) : w = rxqwp
    BY <1>2
  <1>f. PICK f \in 0..RxBuf : f = Fill
    BY <1>2
  <1>o. PICK o \in 0..(RxBuf - 1) : o = offs
    <2>1. w \in Int /\ 0 \in 0..(RxBuf - 1)
      BY <1>2
    <2>2. w % RxBuf \in 0..(RxBuf - 1)
      BY <1>2, <2>1, ModPlus
    <2> QED  BY <1>w, <2>2
  <1>a. PICK a \in Nat : a = nread /\ f <= a /\ a <= Len(stream)
    BY <1>2, <1>f
  <1>l. PICK l \in Nat : l = Len(stream)
    BY <1>2
  <1>n. PICK n \in Nat \ {0} :
          /\ n <= RxBuf - f /\ n <= RxBuf - o /\ n <= l - a
          /\ rxq' = [i \in 0..(RxBuf - 1) |-> IF i \in o..(o + n - 1)
                                                THEN stream[a + 1 + i - o] ELSE rxq[i]]
          /\ rxqwp' = (w + n) % CtrMod
          /\ nread' = a + n
    <2>1. PICK s \in Int : s = ReadStep /\ s <= RxBuf - f /\ s <= RxBuf - o
      BY <1>2, <1>f, <1>o DEF ReadStep, Least
    <2>2. PICK n \in Int : n = Least(s, l - a) /\ n <= s /\ n <= l - a
      BY <1>a, <1>l DEF Least
    <2>3. /\ n > 0
          /\ rxq' = [i \in 0..(RxBuf - 1) |-> IF i \in o..(o + n - 1)
                                                THEN stream[a + 1 + i - o] ELSE rxq[i]]
          /\ rxqwp' = (w + n) % CtrMod
          /\ nread' = a + n
      BY <1>w, <1>o, <1>a, <1>l, <2>1, <2>2 DEF Read
    <2>4. n \in Nat \ {0} /\ n <= RxBuf - f /\ n <= RxBuf - o /\ n <= l - a
      <3>1. RxBuf \in Nat /\ n > 0
        BY <1>2, <2>3
      <3> QED  BY <2>1, <2>2, <3>1
    <2> QED  BY <2>3, <2>4
  <1>g. PICK g \in 0..RxBuf : g = f + n
    BY <1>2, <1>n
  <1>4. rxqwp' \in 0..(CtrMod - 1) /\ Fill' = g
    <2>1. TypeOK /\ Fill + n < CtrMod /\ rxqwp' = (rxqwp + n) % CtrMod
      BY <1>2, <1>f, <1>g, <1>n, <1>w DEF IInv
    <2>2. rxqwp' \in 0..(CtrMod - 1) /\ Fill' = Fill + n
      BY <1>1, <2>1, FillMore
    <2> QED  BY <1>f, <1>g, <2>2
  <1>5. Taken' = Taken /\ Taken < Len(stream) /\ Taken = a - f /\ Done' = Done
    <2>1. Taken = a - f /\ Taken' = (a + n) - g /\ (a + n) - g = a - f /\ a - f < l
      BY <1>a, <1>f, <1>g, <1>n, <1>4 DEF Taken
    <2> QED  BY <1>1, <1>l, <2>1 DEF Done
  <1>6. TypeOK'
    <2>1. ASSUME NEW i \in 0..(RxBuf - 1)
          PROVE  rxq'[i] \in Bytes
      <3>1. CASE i \in o..(o + n - 1)
        <4>1. a + 1 + i - o \in 1..l
          BY <1>a, <1>n, <3>1
        <4>2. stream[a + 1 + i - o] \in Bytes
          BY <1>l, <4>1, Shapes
        <4> QED  BY <1>n, <3>1, <4>2
      <3>2. CASE ~(i \in o..(o + n - 1))
        BY <1>2, <1>n, <3>2
      <3> QED  BY <3>1, <3>2
    <2>2. rxq' \in [0..(RxBuf - 1) -> Bytes]
      BY <1>n, <2>1
    <2>3. nread' \in 0..Len(stream)
      BY <1>a, <1>l, <1>n
    <2>4. Fill' <= RxBuf
      BY <1>2, <1>4
    <2> QED  BY <1>1, <1>2, <1>4, <2>2, <2>3, <2>4 DEF IInv, TypeOK
  (* Where the new bytes go.                                                *)
  <1>7. ASSUME NEW m \in 0..(n - 1)
        PROVE  (r + (f + m)) % RxBuf = o + m
    <2>1. PICK b \in Int : b = r + f
      OBVIOUS
    <2>2. m \in 0..(RxBuf - 1) /\ o + m < RxBuf
      BY <1>2, <1>n
    <2>3. b % RxBuf = o
      BY <1>2, <1>f, <1>o, <1>r, <2>1
    <2>4. (b + m) % RxBuf = IF (b % RxBuf) + m < RxBuf THEN (b % RxBuf) + m
                                                       ELSE (b % RxBuf) + m - RxBuf
      BY <1>2, <2>2, ModPlus
    <2>5. b + m = r + (f + m)
      BY <2>1
    <2> QED  BY <2>2, <2>3, <2>4, <2>5
  <1>8. ASSUME NEW i \in 0..(g - 1)
        PROVE  rxq'[(r + i) % RxBuf] = stream[(a + n) - g + 1 + i]
    <2>1. CASE i < f
      <3>1. PICK p \in 0..(RxBuf - 1) : p = (r + i) % RxBuf
        <4>1. PICK b \in Int : b = r + i
          OBVIOUS
        <4>2. 0 \in 0..(RxBuf - 1)
          BY <1>2
        <4> QED  BY <1>2, <4>1, <4>2, ModPlus
      <3>2. ASSUME p \in o..(o + n - 1)
            PROVE  FALSE
        <4>1. PICK m \in 0..(n - 1) : m = p - o
          BY <3>2
        <4>2. (r + (f + m)) % RxBuf = p
          BY <1>7, <4>1
        <4>3. PICK c \in Int, d \in 1..(RxBuf - 1) : c = r + i /\ d = (f + m) - i
          BY <1>2, <1>n, <2>1
        <4>4. (c + d) % RxBuf # c % RxBuf
          BY <1>2, ModApart
        <4>5. c + d = r + (f + m)
          BY <4>3
        <4> QED  BY <3>1, <4>2, <4>3, <4>4, <4>5
      <3>3. rxq'[p] = rxq[p]
        BY <1>n, <3>1, <3>2
      <3>4. rxq[p] = stream[a - f + 1 + i]
        <4>1. i \in 0..(f - 1)
          BY <2>1
        <4>2. rxq[(rxqrp + i) % RxBuf] = stream[nread - Fill + 1 + i]
          BY <1>f, <4>1 DEF IInv, RingIsWindow
        <4> QED  BY <1>a, <1>f, <1>r, <3>1, <4>2
      <3>5. (a + n) - g + 1 + i = a - f + 1 + i
        BY <1>g
      <3> QED  BY <3>1, <3>3, <3>4, <3>5
    <2>2. CASE ~(i < f)
      <3>1. PICK m \in 0..(n - 1) : i = f + m
        BY <1>g, <2>2
      <3>2. (r + i) % RxBuf = o + m
        BY <1>7, <3>1
      <3>3. o + m \in 0..(RxBuf - 1) /\ o + m \in o..(o + n - 1)
        BY <1>2, <1>n
      <3>4. rxq'[o + m] = stream[a + 1 + (o + m) - o]
        BY <1>n, <3>3
      <3>5. a + 1 + (o + m) - o = (a + n) - g + 1 + i
        BY <1>g, <3>1
      <3> QED  BY <3>2, <3>4, <3>5
    <2> QED  BY <2>1, <2>2
  <1>9. Framed'
    <2>1. rxqrp' % Word = 0
      BY <1>1 DEF IInv, RingIsWindow, Framed
    <2>2. rxq'[Offs'].k = 1
      <3>1. 0 \in 0..(g - 1) /\ r + 0 = r /\ (a + n) - g + 1 + 0 = (a - f) + 1
        BY <1>g, <1>n
      <3>2. rxq'[r % RxBuf] = stream[(a - f) + 1]
        BY <1>8, <3>1
      <3>3. /\ Taken + 1 \in 1..Len(stream)
            /\ \A j \in 1..Padded(packets[Done + 1]) :
                 Taken + j \in 1..Len(stream) =>
                   stream[Taken + j] = Byte(Done + 1, j, packets[Done + 1])
            /\ packets[Done + 1] \in Lens
        BY <1>5, NextPacket
      <3>4. 1 \in 1..Padded(packets[Done + 1])
        BY <1>2, <3>3, Sizes
      <3>5. stream[Taken + 1].k = 1
        <4>1. stream[Taken + 1] = Byte(Done + 1, 1, packets[Done + 1])
          BY <3>3, <3>4
        <4> QED  BY <4>1 DEF Byte
      <3> QED  BY <1>1, <1>5, <1>r, <3>2, <3>5 DEF Offs
    <2> QED  BY <2>1, <2>2 DEF Framed
  <1>10. RingIsWindow'
    <2>1. g <= a + n
      BY <1>a, <1>g
    <2> QED  BY <1>1, <1>4, <1>8, <1>9, <1>n, <1>r, <2>1 DEF RingIsWindow
  <1>11. NetInv'
    BY <1>1 DEF IInv, NetInv
  <1>12. TakenInv'
    BY <1>1, <1>5 DEF IInv, TakenInv
  <1> QED  BY <1>6, <1>10, <1>11, <1>12 DEF IInv

LEMMA NextStep ==
    ASSUME IInv, [Next]_vars
    PROVE  IInv'
  <1>1. CASE VMSend
    BY <1>1, SendStep
  <1>2. CASE Arrive
    BY <1>2, ArriveStep
  <1>3. CASE ProcessFds
    BY <1>3, Still DEF ProcessFds, IInv, TypeOK
  <1>4. CASE Read
    BY <1>4, ReadKeeps
  <1>5. CASE ReadEnd
    BY <1>5, Still DEF ReadEnd, IInv, TypeOK
  <1>6. CASE FrameEnd
    BY <1>6, Still DEF FrameEnd, IInv, TypeOK
  <1>7. CASE FrameSkip
    <2>1. /\ Complete /\ rxqrp' = (rxqrp + DLen) % CtrMod /\ skipped' = skipped + 1
          /\ handed' = handed
          /\ UNCHANGED <<rxq, rxqwp, phase, fails, netvars, nread>>
      BY <1>7 DEF FrameSkip
    <2>2. skipped \in Nat /\ Len(handed) \in Nat /\ handed \in Seq(Seq(Bytes))
      BY Shapes
    <2>3. Done' = Done + 1 /\ skipped' \in Nat /\ skipped' <= Done'
      BY <2>1, <2>2 DEF Done
    <2> QED  BY <2>1, <2>2, <2>3, Consumed
  <1>8. CASE FrameTake
    <2>1. /\ Complete /\ rxqrp' = (rxqrp + DLen) % CtrMod /\ skipped' = skipped
          /\ handed' = Append(handed, SubSeq(Gather, 1, PktLen))
          /\ UNCHANGED <<rxq, rxqwp, phase, fails, netvars, nread>>
      BY <1>8 DEF FrameTake
    <2>2. skipped \in Nat /\ Len(handed) \in Nat /\ handed \in Seq(Seq(Bytes))
      BY Shapes
    <2>3. SubSeq(Gather, 1, PktLen) \in Seq(Bytes)
      BY <2>1, BodyType, Gathered
    <2>4. handed' \in Seq(Seq(Bytes)) /\ Len(handed') = Len(handed) + 1
      BY <2>1, <2>2, <2>3
    <2>5. Done' = Done + 1 /\ skipped' \in Nat /\ skipped' <= Done'
      BY <2>1, <2>2, <2>4 DEF Done
    <2> QED  BY <2>1, <2>4, <2>5, Consumed
  <1>9. CASE FrameFail
    <2>1. fails' \in 0..MaxFail
      BY <1>9, RxRingAssumption DEF FrameFail, IInv, TypeOK
    <2> QED  BY <1>9, <2>1, Still DEF FrameFail
  <1>10. CASE UNCHANGED vars
    <2>1. phase' \in {"idle", "read", "frame"} /\ fails' \in 0..MaxFail
      BY <1>10 DEF vars, IInv, TypeOK
    <2> QED  BY <1>10, <2>1, Still DEF vars, ringvars, netvars
  <1> QED  BY <1>1, <1>2, <1>3, <1>4, <1>5, <1>6, <1>7, <1>8, <1>9, <1>10 DEF Next, Process

LEMMA Invariance == Spec => []IInv
  <1>1. Init => IInv
    BY InitInv
  <1>2. IInv /\ [Next]_vars => IInv'
    BY NextStep
  <1> QED  BY <1>1, <1>2, PTL DEF Spec

(* Every variable keeps its type, and the writer never passes the reader,   *)
(* for any size of the ring and any modulus of the counters it divides.     *)
THEOREM TypeCorrect == Spec => []TypeOK
  <1>1. IInv => TypeOK
    BY DEF IInv
  <1> QED  BY Invariance, <1>1, PTL

(* The ring holds the last bytes read from the socket, in order, across its *)
(* end and the counters' wrap, and coremodel_process_rxq always stands at   *)
(* the first byte of a packet.                                              *)
THEOREM RingRight == Spec => []RingIsWindow
  <1>1. IInv => RingIsWindow
    BY DEF IInv
  <1> QED  BY Invariance, <1>1, PTL
LEMMA SentIs ==
    ASSUME IInv
    PROVE  /\ Len(Sent) = Len(packets)
           /\ \A i \in 1..Len(packets) : Sent[i] = Body(i, packets[i])
  <1>1. Len(packets) \in Nat
    BY Shapes
  <1> QED  BY <1>1 DEF Sent

(* The packet dealt with is the oldest one outstanding, and it is too long  *)
(* for PacketFifo exactly if coremodel_process_rxq steps over it.           *)
LEMMA Oldest ==
    ASSUME IInv, Complete
    PROVE  /\ Done < Len(Sent) /\ Sent[Done + 1] = Body(Done + 1, PktLen)
           /\ Padded(Len(Sent[Done + 1])) = DLen
  <1>1. /\ Done + 1 \in 1..Len(packets) /\ PktLen = packets[Done + 1]
        /\ PktLen \in 1..DLen /\ DLen \in 1..RxBuf /\ DLen = Padded(PktLen)
    BY AtPacket
  <1>2. Len(packets) \in Nat /\ Done \in Nat /\ RxBuf \in Nat
    BY Shapes, Moduli
  <1>3. Sent[Done + 1] = Body(Done + 1, PktLen) /\ Len(Sent) = Len(packets)
    BY <1>1, SentIs
  <1>4. PICK len \in Nat : len = PktLen
    BY <1>1, <1>2
  <1>5. Len(Body(Done + 1, len)) = len
    BY DEF Body
  <1> QED  BY <1>1, <1>2, <1>3, <1>4, <1>5

(* Sending a packet adds it to what PacketFifo has to deliver.              *)
LEMMA SendMapped ==
    ASSUME IInv, VMSend
    PROVE  \E len \in Lens : /\ Len(packets) + 1 \in 1..MaxSent
                             /\ Sent' = Append(Sent, Body(Len(packets) + 1, len))
  <1>1. PICK len \in Lens : packets' = Append(packets, len)
    BY DEF VMSend
  <1>2. PICK n \in Nat : n = Len(packets) /\ n < MaxSent
    BY Shapes DEF VMSend
  <1>3. /\ packets \in Seq(Lens) /\ Len(packets') = n + 1
        /\ \A i \in 1..n : packets'[i] = packets[i]
        /\ packets'[n + 1] = len
    BY <1>1, <1>2, Shapes
  <1>4. Sent' = [i \in 1..(n + 1) |-> Body(i, packets'[i])]
    BY <1>3 DEF Sent, Body, Byte
  <1>5. Sent = [i \in 1..n |-> Body(i, packets[i])]
    BY <1>2 DEF Sent
  <1>6. Append(Sent, Body(n + 1, len))
          = [i \in 1..(n + 1) |-> IF i = n + 1 THEN Body(n + 1, len) ELSE Sent[i]]
    BY <1>5
  <1>7. \A i \in 1..(n + 1) : i = n + 1 \/ i \in 1..n
    BY <1>2
  <1>8. \A i \in 1..(n + 1) :
          Body(i, packets'[i]) = IF i = n + 1 THEN Body(n + 1, len) ELSE Sent[i]
    BY <1>3, <1>5, <1>7
  <1>9. Sent' = Append(Sent, Body(n + 1, len))
    BY <1>4, <1>6, <1>8
  <1>10. n + 1 \in 1..MaxSent
    BY <1>2, Shapes
  <1> QED  BY <1>2, <1>9, <1>10

(* Every step of the ring is one of PacketFifo, or none of its business.    *)
LEMMA Simulation ==
    ASSUME IInv, [Next]_vars
    PROVE  [Fifo!Next]_(Fifo!vars)
  <1>1. CASE VMSend
    <2>1. PICK m \in Lens : /\ Len(packets) + 1 \in 1..MaxSent
                            /\ Sent' = Append(Sent, Body(Len(packets) + 1, m))
      BY <1>1, SendMapped
    <2>2. \E p \in {Body(id, len) : id \in 1..MaxSent, len \in Lens} :
            Sent' = Append(Sent, p)
      BY <2>1
    <2>3. UNCHANGED <<Len(handed) + skipped, handed>>
      BY <1>1 DEF VMSend
    <2>4. Fifo!Send
      BY <2>2, <2>3 DEF Fifo!Send
    <2> QED  BY <2>4 DEF Fifo!Next
  <1>2. CASE FrameSkip
    <2>1. /\ Done < Len(Sent) /\ Padded(Len(Sent[Done + 1])) > MaxPkt
      BY <1>2, Oldest DEF FrameSkip
    <2>2. Done' = Done + 1
      BY <1>2, Shapes DEF FrameSkip, Done
    <2>3. Sent' = Sent /\ handed' = handed
      BY <1>2 DEF FrameSkip, netvars, Sent
    <2>4. Fifo!Take
      BY <2>1, <2>2, <2>3 DEF Fifo!Take, Done
    <2> QED  BY <2>4 DEF Fifo!Next
  <1>3. CASE FrameTake
    <2>1. Done < Len(Sent) /\ ~(Padded(Len(Sent[Done + 1])) > MaxPkt)
      <3>1. DLen \in 1..RxBuf /\ RxBuf \in Nat /\ MaxPkt \in Nat /\ DLen <= MaxPkt
        BY <1>3, AtPacket, RxRingAssumption DEF FrameTake
      <3>2. Done < Len(Sent) /\ Padded(Len(Sent[Done + 1])) = DLen
        BY <1>3, Oldest DEF FrameTake
      <3>3. ~(DLen > MaxPkt)
        BY <3>1
      <3> QED  BY <3>2, <3>3
    <2>2. handed' = Append(handed, Sent[Done + 1])
      BY <1>3, Oldest, Gathered DEF FrameTake
    <2>3. Done' = Done + 1
      <3>1. handed \in Seq(Seq(Bytes)) /\ Sent[Done + 1] \in Seq(Bytes) /\ skipped \in Nat
        BY <1>3, Oldest, BodyType, Shapes DEF FrameTake
      <3>2. Len(handed') = Len(handed) + 1 /\ Len(handed) \in Nat
        BY <2>2, <3>1
      <3>3. skipped' = skipped
        BY <1>3 DEF FrameTake
      <3> QED  BY <3>1, <3>2, <3>3 DEF Done
    <2>4. Sent' = Sent
      BY <1>3 DEF FrameTake, netvars, Sent
    <2>5. Fifo!Take
      BY <2>1, <2>2, <2>3, <2>4 DEF Fifo!Take, Done
    <2> QED  BY <2>5 DEF Fifo!Next
  <1>4. ASSUME UNCHANGED <<packets, handed, skipped>>
        PROVE  UNCHANGED Fifo!vars
    BY <1>4 DEF Fifo!vars, Sent
  <1>5. CASE Arrive
    BY <1>4, <1>5 DEF Arrive
  <1>6. CASE Read
    BY <1>4, <1>6 DEF Read, netvars
  <1>7. CASE ProcessFds \/ ReadEnd \/ FrameEnd \/ FrameFail
    BY <1>4, <1>7 DEF ProcessFds, ReadEnd, FrameEnd, FrameFail, netvars
  <1>8. CASE UNCHANGED vars
    BY <1>4, <1>8 DEF vars
  <1> QED  BY <1>1, <1>2, <1>3, <1>5, <1>6, <1>7, <1>8 DEF Next, Process

LEMMA InitMapped == Init => Fifo!Init
  <1> SUFFICES ASSUME Init PROVE Fifo!Init
    OBVIOUS
  <1>1. packets = <<>> /\ handed = <<>> /\ skipped = 0
    BY DEF Init
  <1>2. Sent = <<>> /\ Len(handed) + skipped = 0
    BY <1>1 DEF Sent
  <1> QED  BY <1>1, <1>2 DEF Fifo!Init

(* The ring is a FIFO of packets, whatever the sizes: each packet is given  *)
(* to coremodel_process_packet whole, once and in its turn, and exactly     *)
(* those above MAX_PKT are stepped over.                                    *)
THEOREM RefinesFifo == Spec => Fifo!Init /\ [][Fifo!Next]_(Fifo!vars)
  <1>1. Init => Fifo!Init
    BY InitMapped
  <1>2. IInv /\ [Next]_vars => [Fifo!Next]_(Fifo!vars)
    BY Simulation
  <1> QED  BY <1>1, <1>2, Invariance, PTL DEF Spec
=============================================================================
