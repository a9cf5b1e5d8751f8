-------------------------- MODULE Examples_proofs --------------------------
(***************************************************************************)
(* The examples, for every value of their constants but where a theorem    *)
(* says otherwise.                                                         *)
(*                                                                         *)
(* The accelerometer, for any number of entries, any modulus of its        *)
(* counters that this number divides, any driver and any number of ticks:  *)
(* the types, that the FIFO holds the entries stored last, and that the    *)
(* driver reads them in order and whole.                                   *)
(*                                                                         *)
(* The clocks, for any start, any steps of the host's clock and any        *)
(* accesses: the types, that a reading is of one instant, that a register  *)
(* keeps what was written, and that alarm flags are raised and stay.       *)
(*                                                                         *)
(* The switch, for any number of clients, stations and entries: the types, *)
(* that look-ups touch live entries only, and where frames go.             *)
(***************************************************************************)
EXTENDS Adxl36x, Rtc, EthSwitch, SequenceTheorems, FiniteSetTheorems,
        WellFoundedInduction, TLAPS

-----------------------------------------------------------------------------
(* The accelerometer (Adxl36x). *)

(* What % is.                                                               *)
LEMMA Division ==
    ASSUME NEW C \in Nat \ {0}, NEW a \in Int
    PROVE  \E q \in Int : \E r \in 0..(C - 1) : a = C * q + r /\ a % C = r
  <1>1. /\ (a % C) \in 0..(C - 1) /\ (a \div C) \in Int
        /\ a = (C * (a \div C)) + (a % C)
    OBVIOUS
  <1> QED  BY <1>1

LEMMA Divisor ==
    ASSUME NEW C \in Nat, NEW W \in Nat \ {0}, C % W = 0
    PROVE  \E k \in Int : C = W * k
  <1>1. C \div W \in Int /\ C = W * (C \div W)
    OBVIOUS
  <1> QED  BY <1>1

LEMMA Remainder ==
    ASSUME NEW C \in Nat \ {0}, NEW q \in Int, NEW r \in 0..(C - 1)
    PROVE  (C * q + r) % C = r
  OBVIOUS

LEMMA Products ==
    ASSUME NEW C \in Int, NEW p \in Int, NEW q \in Int
    PROVE  /\ C * p + C * q = C * (p + q) /\ p + q \in Int
           /\ (C * p) * q = C * (p * q) /\ p * q \in Int
  OBVIOUS

(* Multiples do not change a remainder.                                     *)
LEMMA AddMultiple ==
    ASSUME NEW C \in Nat \ {0}, NEW a \in Int, NEW q \in Int
    PROVE  (a + C * q) % C = a % C
  <1>1. PICK p \in Int : \E r \in 0..(C - 1) : a = C * p + r /\ a % C = r
    BY Division
  <1>2. PICK r \in 0..(C - 1) : a = C * p + r /\ a % C = r
    BY <1>1
  <1>3. PICK s \in Int : s = p + q
    OBVIOUS
  <1>4. a + C * q = (C * p + C * q) + r
    BY <1>2
  <1>5. a + C * q = C * s + r
    BY <1>3, <1>4, Products
  <1>6. (C * s + r) % C = r
    BY Remainder
  <1> QED  BY <1>2, <1>5, <1>6

(* A remainder by C knows the remainder by a divisor of C.                  *)
LEMMA ModMod ==
    ASSUME NEW C \in Nat \ {0}, NEW W \in Nat \ {0}, C % W = 0, NEW a \in Int
    PROVE  (a % C) % W = a % W
  <1>1. PICK k \in Int : C = W * k
    BY Divisor
  <1>2. PICK q \in Int : \E r \in 0..(C - 1) : a = C * q + r /\ a % C = r
    BY Division
  <1>3. PICK r \in 0..(C - 1) : a = C * q + r /\ a % C = r
    BY <1>2
  <1>4. PICK m \in Int : m = k * q
    BY Products
  <1>5. a = r + W * m
    BY <1>1, <1>3, <1>4, Products
  <1>6. r \in Int
    OBVIOUS
  <1>7. (r + W * m) % W = r % W
    BY <1>6, AddMultiple
  <1> QED  BY <1>3, <1>5, <1>7

(* The remainder of a number below the modulus, of a sum of two and of a    *)
(* difference.                                                              *)
LEMMA ModSmall ==
    ASSUME NEW C \in Nat \ {0}, NEW r \in 0..(C - 1)
    PROVE  r % C = r
  OBVIOUS

LEMMA ModSum ==
    ASSUME NEW C \in Nat \ {0}, NEW r \in 0..(C - 1), NEW m \in 0..(C - 1)
    PROVE  (r + m) % C = IF r + m < C THEN r + m ELSE r + m - C
  OBVIOUS

LEMMA ModDiff ==
    ASSUME NEW C \in Nat \ {0}, NEW w \in 0..(C - 1), NEW r \in 0..(C - 1)
    PROVE  (w - r) % C = IF w >= r THEN w - r ELSE w - r + C
  OBVIOUS

LEMMA ModPlus ==
    ASSUME NEW C \in Nat \ {0}, NEW a \in Int, NEW m \in 0..(C - 1)
    PROVE  /\ a % C \in 0..(C - 1)
           /\ (a + m) % C = IF (a % C) + m < C THEN (a % C) + m ELSE (a % C) + m - C
  <1>1. PICK q \in Int : \E r \in 0..(C - 1) : a = C * q + r /\ a % C = r
    BY Division
  <1>2. PICK r \in 0..(C - 1) : a = C * q + r /\ a % C = r
    BY <1>1
  <1>3. PICK b \in Int : b = r + m
    OBVIOUS
  <1>4. a + m = b + C * q
    <2>1. C * q \in Int
      BY Products
    <2> QED  BY <1>2, <1>3, <2>1
  <1>5. (b + C * q) % C = b % C
    BY AddMultiple
  <1>6. b % C = IF r + m < C THEN r + m ELSE r + m - C
    BY <1>3, ModSum
  <1> QED  BY <1>2, <1>4, <1>5, <1>6

(* Numbers less than the modulus apart have different remainders.           *)
LEMMA ModApart ==
    ASSUME NEW C \in Nat \ {0}, NEW a \in Int, NEW m \in 1..(C - 1)
    PROVE  (a + m) % C # a % C
  <1>1. m \in 0..(C - 1) /\ m \in Nat \ {0}
    OBVIOUS
  <1>2. /\ a % C \in 0..(C - 1)
        /\ (a + m) % C = IF (a % C) + m < C THEN (a % C) + m ELSE (a % C) + m - C
    BY <1>1, ModPlus
  <1> QED  BY <1>1, <1>2

(* Two counters modulo C, and how far the one is ahead of the other.        *)
LEMMA Ahead ==
    ASSUME NEW C \in Nat \ {0}, NEW w \in 0..(C - 1), NEW r \in 0..(C - 1)
    PROVE  (w - r) % C \in 0..(C - 1) /\ (r + ((w - r) % C)) % C = w
  <1>1. PICK f \in 0..(C - 1) : f = (w - r) % C /\ f = IF w >= r THEN w - r ELSE w - r + C
    BY ModDiff
  <1>2. (r + f) % C = w
    <2>1. (r + f) % C = IF r + f < C THEN r + f ELSE r + f - C
      BY ModSum
    <2> QED  BY <1>1, <2>1
  <1> QED  BY <1>1, <1>2

LEMMA WriterMoves ==
    ASSUME NEW C \in Nat \ {0}, NEW w \in 0..(C - 1), NEW r \in 0..(C - 1),
           NEW n \in Nat, ((w - r) % C) + n < C
    PROVE  (w + n) % C \in 0..(C - 1) /\ (((w + n) % C) - r) % C = ((w - r) % C) + n
  <1>1. PICK f \in 0..(C - 1) : f = (w - r) % C /\ f = IF w >= r THEN w - r ELSE w - r + C
    BY ModDiff
  <1>2. n \in 0..(C - 1)
    BY <1>1
  <1>3. PICK v \in 0..(C - 1) : v = (w + n) % C /\ v = IF w + n < C THEN w + n ELSE w + n - C
    BY <1>2, ModSum
  <1>4. (v - r) % C = IF v >= r THEN v - r ELSE v - r + C
    BY ModDiff
  <1> QED  BY <1>1, <1>3, <1>4

LEMMA ReaderMoves ==
    ASSUME NEW C \in Nat \ {0}, NEW w \in 0..(C - 1), NEW r \in 0..(C - 1),
           NEW n \in Nat, n <= (w - r) % C
    PROVE  (r + n) % C \in 0..(C - 1) /\ (w - ((r + n) % C)) % C = ((w - r) % C) - n
  <1>1. PICK f \in 0..(C - 1) : f = (w - r) % C /\ f = IF w >= r THEN w - r ELSE w - r + C
    BY ModDiff
  <1>2. n \in 0..(C - 1)
    BY <1>1
  <1>3. PICK v \in 0..(C - 1) : v = (r + n) % C /\ v = IF r + n < C THEN r + n ELSE r + n - C
    BY <1>2, ModSum
  <1>4. (w - v) % C = IF w >= v THEN w - v ELSE w - v + C
    BY ModDiff
  <1> QED  BY <1>1, <1>3, <1>4
-----------------------------------------------------------------------------
(* A timer that has run out, or whose event is held, is one that the bound  *)
(* on ticks allows for; the FIFO has a sample size once it has had a sample. *)
TimerInv == expired \/ pending => ticks < MaxTicks
SizeInv == (put = <<>> => fifo.size = 0) /\ (fifo.size = 0 => fifo.samples = 0)
HistInv == put \in Seq(Entry) /\ ticks \in 0..MaxTicks

IInv == TypeOK /\ FifoIsWindow /\ TimerInv /\ SizeInv /\ HistInv

Fifos == [slots : [0..(FIFO_SIZE - 1) -> Entry],
          wpt : 0..(CtrMod - 1), rpt : 0..(CtrMod - 1), count : 0..FIFO_SIZE,
          samples : 0..(CtrMod - 1), size : 0..4, phase : 0..5]

-----------------------------------------------------------------------------
LEMMA Moduli ==
    /\ FIFO_SIZE \in Nat \ {0} /\ CtrMod \in Nat \ {0}
    /\ FIFO_SIZE < CtrMod /\ CtrMod % FIFO_SIZE = 0
  BY Adxl36xAssumption

(* The entries of a sample: one to four.                                    *)
LEMMA ChannelsAre ==
    ASSUME NEW s \in DOMAIN Channels
    PROVE  /\ Channels[s] \in Seq({"X", "Y", "Z", "T", "A"})
           /\ Len(Channels[s]) \in 1..4 /\ DOMAIN Channels[s] = 1..Len(Channels[s])
  <1> DEFINE Name == {"X", "Y", "Z", "T", "A"}
             Good == {t \in Seq(Name) : Len(t) \in 1..4 /\ DOMAIN t = 1..Len(t)}
  <1>1. \A a, b, c, d \in Name :
           {<<a>>, <<a, b>>, <<a, b, c>>, <<a, b, c, d>>} \subseteq Good
    OBVIOUS
  <1>2. "X" \in Name /\ "Y" \in Name /\ "Z" \in Name /\ "T" \in Name /\ "A" \in Name
    OBVIOUS
  <1>3. s \in {"XYZ", "X", "Y", "Z", "XYZT", "XT", "YT", "ZT", "XYZA", "XA", "YA", "ZA"}
    BY DEF Channels
  <1> HIDE DEF Name, Good
  <1>4. s = "XYZ" => Channels[s] \in Good
    <2>1. s = "XYZ" => Channels[s] = <<"X", "Y", "Z">>
      BY DEF Channels
    <2> QED  BY <1>1, <1>2, <2>1
  <1>5. s = "X" => Channels[s] \in Good
    <2>1. s = "X" => Channels[s] = <<"X">>
      BY DEF Channels
    <2> QED  BY <1>1, <1>2, <2>1
  <1>6. s = "Y" => Channels[s] \in Good
    <2>1. s = "Y" => Channels[s] = <<"Y">>
      BY DEF Channels
    <2> QED  BY <1>1, <1>2, <2>1
  <1>7. s = "Z" => Channels[s] \in Good
    <2>1. s = "Z" => Channels[s] = <<"Z">>
      BY DEF Channels
    <2> QED  BY <1>1, <1>2, <2>1
  <1>8. s = "XYZT" => Channels[s] \in Good
    <2>1. s = "XYZT" => Channels[s] = <<"X", "Y", "Z", "T">>
      BY DEF Channels
    <2> QED  BY <1>1, <1>2, <2>1
  <1>9. s = "XT" => Channels[s] \in Good
    <2>1. s = "XT" => Channels[s] = <<"X", "T">>
      BY DEF Channels
    <2> QED  BY <1>1, <1>2, <2>1
  <1>10. s = "YT" => Channels[s] \in Good
    <2>1. s = "YT" => Channels[s] = <<"Y", "T">>
      BY DEF Channels
    <2> QED  BY <1>1, <1>2, <2>1
  <1>11. s = "ZT" => Channels[s] \in Good
    <2>1. s = "ZT" => Channels[s] = <<"Z", "T">>
      BY DEF Channels
    <2> QED  BY <1>1, <1>2, <2>1
  <1>12. s = "XYZA" => Channels[s] \in Good
    <2>1. s = "XYZA" => Channels[s] = <<"X", "Y", "Z", "A">>
      BY DEF Channels
    <2> QED  BY <1>1, <1>2, <2>1
  <1>13. s = "XA" => Channels[s] \in Good
    <2>1. s = "XA" => Channels[s] = <<"X", "A">>
      BY DEF Channels
    <2> QED  BY <1>1, <1>2, <2>1
  <1>14. s = "YA" => Channels[s] \in Good
    <2>1. s = "YA" => Channels[s] = <<"Y", "A">>
      BY DEF Channels
    <2> QED  BY <1>1, <1>2, <2>1
  <1>15. s = "ZA" => Channels[s] \in Good
    <2>1. s = "ZA" => Channels[s] = <<"Z", "A">>
      BY DEF Channels
    <2> QED  BY <1>1, <1>2, <2>1
  <1>16. Channels[s] \in Good
    BY <1>3, <1>4, <1>5, <1>6, <1>7, <1>8, <1>9, <1>10, <1>11, <1>12, <1>13, <1>14, <1>15
  <1> QED  BY <1>16 DEF Good, Name

LEMMA EntriesAre ==
    ASSUME NEW s \in DOMAIN Channels, NEW n \in 0..MaxTicks
    PROVE  /\ Entries(n, s) \in Seq(Entry) /\ Len(Entries(n, s)) \in 1..4
           /\ DOMAIN Entries(n, s) = 1..Len(Entries(n, s))
  <1>1. PICK m \in 1..4 : m = Len(Channels[s]) /\ DOMAIN Channels[s] = 1..m
    BY ChannelsAre
  <1>2. \A i \in 1..m : Channels[s][i] \in {"X", "Y", "Z", "T", "A"}
    BY <1>1, ChannelsAre
  <1>3. Entries(n, s) = [i \in 1..m |-> <<n, Channels[s][i]>>]
    BY <1>1 DEF Entries
  <1>4. \A i \in 1..m : <<n, Channels[s][i]>> \in Entry
    BY <1>2 DEF Entry
  <1> QED  BY <1>1, <1>3, <1>4

(* Places of a ring less than its size apart are different.                 *)
LEMMA PlacesApart ==
    ASSUME NEW F \in Nat \ {0}, NEW r \in Int, NEW i \in 0..(F - 1), NEW j \in 0..(F - 1),
           (r + i) % F = (r + j) % F
    PROVE  i = j
  <1>1. ASSUME NEW k \in 0..(F - 1), NEW l \in 0..(F - 1), k < l
        PROVE  (r + k) % F # (r + l) % F
    <2>1. PICK a \in Int, m \in 1..(F - 1) : a = r + k /\ m = l - k
      BY <1>1
    <2>2. (a + m) % F # a % F
      BY ModApart
    <2>3. a + m = r + l
      BY <2>1
    <2> QED  BY <2>1, <2>2, <2>3
  <1>2. i < j \/ j < i \/ i = j
    OBVIOUS
  <1> QED  BY <1>1, <1>2

(* Places as far behind equal places are equal.                             *)
LEMMA PlacesBehind ==
    ASSUME NEW F \in Nat \ {0}, NEW a \in Int, NEW b \in Int, a % F = b % F,
           NEW m \in Int
    PROVE  (a + m) % F = (b + m) % F
  <1>1. PICK p \in Int : \E s \in 0..(F - 1) : a = F * p + s /\ a % F = s
    BY Division
  <1>2. PICK s \in 0..(F - 1) : a = F * p + s /\ a % F = s
    BY <1>1
  <1>3. PICK q \in Int : \E t \in 0..(F - 1) : b = F * q + t /\ b % F = t
    BY Division
  <1>4. PICK t \in 0..(F - 1) : b = F * q + t /\ b % F = t
    BY <1>3
  <1>5. PICK c \in Int, d \in Int : c = p /\ d = -q /\ F * q = -(F * d)
    <2>1. PICK d \in Int : d = -q
      OBVIOUS
    <2>2. F * d = -(F * q)
      BY <2>1
    <2>3. F * q \in Int /\ F * d \in Int
      BY Products
    <2> QED  BY <2>1, <2>2, <2>3
  <1>6. PICK e \in Int : e = c + d /\ F * c + F * d = F * e
    BY Products
  <1>7. F * c \in Int /\ F * d \in Int /\ F * e \in Int
    BY Products
  <1>8. PICK g \in Int : g = b + m
    OBVIOUS
  <1>9. a + m = g + F * e
    BY <1>2, <1>4, <1>5, <1>6, <1>7, <1>8
  <1>10. (g + F * e) % F = g % F
    BY AddMultiple
  <1> QED  BY <1>8, <1>9, <1>10

(* The counters of the FIFO.                                                *)
Ahd(w, r) == (w + CtrMod - r) % CtrMod

LEMMA AheadIs ==
    ASSUME NEW w \in 0..(CtrMod - 1), NEW r \in 0..(CtrMod - 1)
    PROVE  Ahd(w, r) = (w - r) % CtrMod
  <1>1. PICK c \in Nat \ {0} : c = CtrMod
    BY Moduli
  <1>2. PICK a \in Int : a = w - r
    OBVIOUS
  <1>3. PICK k \in Int : k = 1 /\ c * k = c
    OBVIOUS
  <1>4. (a + c * k) % c = a % c
    BY AddMultiple
  <1>5. a + c * k = w + c - r
    BY <1>2, <1>3
  <1> QED  BY <1>1, <1>2, <1>4, <1>5 DEF Ahd

LEMMA CountIs ==
    ASSUME IInv
    PROVE  /\ fifo \in Fifos
           /\ fifo.wpt \in 0..(CtrMod - 1) /\ fifo.rpt \in 0..(CtrMod - 1)
           /\ fifo.count \in 0..FIFO_SIZE /\ fifo.count = Ahd(fifo.wpt, fifo.rpt)
           /\ fifo.slots \in [0..(FIFO_SIZE - 1) -> Entry]
           /\ Room = FIFO_SIZE - fifo.count
           /\ (fifo.rpt + fifo.count) % FIFO_SIZE = fifo.wpt % FIFO_SIZE
           /\ put \in Seq(Entry) /\ Len(put) \in Nat /\ fifo.count <= Len(put)
  <1>1. /\ fifo \in Fifos /\ fifo.wpt \in 0..(CtrMod - 1) /\ fifo.rpt \in 0..(CtrMod - 1)
        /\ fifo.count \in 0..FIFO_SIZE
        /\ fifo.slots \in [0..(FIFO_SIZE - 1) -> Entry]
    BY DEF IInv, TypeOK, Fifos
  <1>2. fifo.count = Ahd(fifo.wpt, fifo.rpt) /\ fifo.count <= Len(put)
    BY DEF IInv, FifoIsWindow, Ahd
  <1>3. Room = FIFO_SIZE - fifo.count
    BY <1>2 DEF Room, Ahd
  <1>4. (fifo.rpt + fifo.count) % FIFO_SIZE = fifo.wpt % FIFO_SIZE
    <2>1. PICK w \in 0..(CtrMod - 1), r \in 0..(CtrMod - 1) : w = fifo.wpt /\ r = fifo.rpt
      BY <1>1
    <2>2. PICK c \in Nat \ {0} : c = CtrMod
      BY Moduli
    <2>3. (w - r) % c \in 0..(c - 1) /\ (r + ((w - r) % c)) % c = w
      <3>1. w \in 0..(c - 1) /\ r \in 0..(c - 1)
        BY <2>2
      <3> QED  BY <3>1, Ahead
    <2>4. PICK n \in Int : n = fifo.count /\ n = (w - r) % c /\ (r + n) % c = w
      <3>1. fifo.count = (w - r) % c
        BY <1>2, <2>1, <2>2, AheadIs
      <3> QED  BY <2>3, <3>1
    <2>5. PICK a \in Int : a = r + n
      OBVIOUS
    <2>6. (a % CtrMod) % FIFO_SIZE = a % FIFO_SIZE
      BY Moduli, ModMod
    <2> QED  BY <2>1, <2>2, <2>4, <2>5, <2>6
  <1>5. put \in Seq(Entry) /\ Len(put) \in Nat
    BY DEF IInv, HistInv
  <1> QED  BY <1>1, <1>2, <1>3, <1>4, <1>5

LEMMA InitInv == Init => IInv
  <1> SUFFICES ASSUME Init PROVE IInv
    OBVIOUS
  <1>1. /\ put = <<>> /\ Len(put) = 0 /\ narrow /\ steady /\ ticks = 0
        /\ fifo.count = 0 /\ fifo.size = 0 /\ fifo.wpt = 0 /\ fifo.rpt = 0
        /\ fifo.samples = 0 /\ ~expired /\ ~pending
    BY DEF Init
  <1>2. TypeOK
    <2>1. fifo \in Fifos
      <3>1. <<0, "A">> \in Entry
        BY Adxl36xAssumption DEF Entry
      <3> QED  BY <3>1, Moduli DEF Init, Fifos
    <2>2. reg \in [measure : BOOLEAN, period : BOOLEAN, mode : 0..3,
                   select : DOMAIN Channels, level : Nat, format : {8, 12, 16}]
      <3>1. "XYZ" \in DOMAIN Channels
        BY DEF Channels
      <3> QED  BY <3>1 DEF Init
    <2>3. addr \in DOMAIN Regs
      BY DEF Init, Regs
    <2> QED  BY <1>1, <2>1, <2>2, <2>3 DEF Init, TypeOK, Fifos
  <1>3. FifoIsWindow
    <2>1. (0 + CtrMod - 0) % CtrMod = 0
      <3>1. PICK c \in Nat \ {0} : c = CtrMod
        BY Moduli
      <3>2. (0 + c * 1) % c = 0 % c /\ 0 % c = 0 /\ 0 + c * 1 = 0 + c - 0
        BY AddMultiple, ModSmall
      <3> QED  BY <3>1, <3>2
    <2> QED  BY <1>1, <2>1 DEF FifoIsWindow, SamplesCounted
  <1> QED  BY <1>1, <1>2, <1>3, Adxl36xAssumption DEF IInv, TimerInv, SizeInv, HistInv

-----------------------------------------------------------------------------
(* A ring f of F places with q written from place w on.                     *)
Overlaid(F, f, w, q) ==
    [i \in 0..(F - 1) |->
       IF \E k \in 1..Len(q) : (w + k - 1) % F = i
         THEN q[CHOOSE k \in 1..Len(q) : (w + k - 1) % F = i]
         ELSE f[i]]

(* It holds the last c members of p, from place r on.                       *)
Holds(F, f, r, c, p) == \A k \in 1..c : f[(r + (k - 1)) % F] = p[Len(p) - c + k]

(* A ring of F places from r up to w holds the last c members of p; the     *)
(* members of q put behind them make it hold the last c + Len(q) of p \o q. *)
Filled(S, F, f, r, w, c, p) ==
    /\ F \in Nat \ {0} /\ f \in [0..(F - 1) -> S] /\ r \in Int /\ w \in Int /\ c \in 0..F
    /\ p \in Seq(S) /\ c <= Len(p) /\ (r + c) % F = w % F
    /\ Holds(F, f, r, c, p)

LEMMA WindowGrows ==
    ASSUME NEW S, NEW F, NEW f, NEW r, NEW w, NEW c, NEW p, Filled(S, F, f, r, w, c, p),
           NEW q \in Seq(S), c + Len(q) <= F
    PROVE  /\ Overlaid(F, f, w, q) \in [0..(F - 1) -> S]
           /\ Holds(F, Overlaid(F, f, w, q), r, c + Len(q), p \o q)
  <1> DEFINE n == Len(q)
             Wr(k) == (w + k - 1) % F
             Pl(k) == (r + k) % F
             Hit(i) == \E k \in 1..n : Wr(k) = i
  <1> PICK g : g = Overlaid(F, f, w, q)
    OBVIOUS
  <1> /\ F \in Nat \ {0} /\ f \in [0..(F - 1) -> S] /\ r \in Int /\ w \in Int /\ c \in 0..F
      /\ p \in Seq(S) /\ c <= Len(p) /\ (r + c) % F = w % F
    BY DEF Filled
  <1>0. /\ \A k \in 1..c : f[Pl(k - 1)] = p[Len(p) - c + k]
        /\ g = [i \in 0..(F - 1) |-> IF Hit(i) THEN q[CHOOSE k \in 1..n : Wr(k) = i] ELSE f[i]]
    BY DEF Overlaid, Holds, Filled
  <1>1. n \in Nat /\ Len(p) \in Nat /\ n <= F
    OBVIOUS
  <1>2. \A k \in Int : Pl(k) \in 0..(F - 1)
    <2> SUFFICES ASSUME NEW k \in Int PROVE Pl(k) \in 0..(F - 1)
      OBVIOUS
    <2>1. PICK a \in Int : a = r + k
      OBVIOUS
    <2>2. a % F \in 0..(F - 1)
      OBVIOUS
    <2> QED  BY <2>1, <2>2
  <1>3. ASSUME NEW j \in 1..n
        PROVE  Wr(j) = Pl(c + (j - 1))
    <2>1. PICK a \in Int, m \in Int : a = r + c /\ m = j - 1
      OBVIOUS
    <2>2. (a + m) % F = (w + m) % F
      <3>1. a % F = w % F
        BY <2>1
      <3> QED  BY <3>1, PlacesBehind
    <2>3. a + m = r + (c + (j - 1)) /\ w + m = w + j - 1
      BY <2>1
    <2> QED  BY <2>2, <2>3
  <1>4. ASSUME NEW i \in 0..(F - 1), NEW j \in 0..(F - 1), Pl(i) = Pl(j)
        PROVE  i = j
    BY <1>4, PlacesApart
  <1>5. ASSUME NEW j \in 1..n
        PROVE  g[Wr(j)] = q[j]
    <2>1. Wr(j) \in 0..(F - 1)
      <3>1. c + (j - 1) \in Int
        OBVIOUS
      <3> QED  BY <1>2, <1>3, <3>1
    <2>2. ASSUME NEW k \in 1..n, Wr(k) = Wr(j)
          PROVE  k = j
      <3>1. c + (k - 1) \in 0..(F - 1) /\ c + (j - 1) \in 0..(F - 1)
        BY <1>1
      <3>2. Pl(c + (k - 1)) = Pl(c + (j - 1))
        BY <1>3, <2>2
      <3>3. c + (k - 1) = c + (j - 1)
        BY <1>4, <3>1, <3>2
      <3> QED  BY <3>3
    <2>3. (CHOOSE k \in 1..n : Wr(k) = Wr(j)) = j
      BY <2>2
    <2>4. PICK i \in 0..(F - 1) : i = Wr(j)
      BY <2>1
    <2>5. Hit(i)
      BY <2>4
    <2>6. g[i] = q[CHOOSE k \in 1..n : Wr(k) = i]
      <3> HIDE DEF Hit, Wr
      <3> QED  BY <1>0, <2>5
    <2> QED  BY <2>3, <2>4, <2>6
  <1> HIDE DEF Wr, Pl
  <1>6. ASSUME NEW k \in 1..c
        PROVE  g[Pl(k - 1)] = f[Pl(k - 1)]
    <2>1. ~ \E j \in 1..n : Wr(j) = Pl(k - 1)
      <3> SUFFICES ASSUME NEW j \in 1..n, Wr(j) = Pl(k - 1) PROVE FALSE
        OBVIOUS
      <3>1. c + (j - 1) \in 0..(F - 1) /\ k - 1 \in 0..(F - 1)
        BY <1>1
      <3>2. c + (j - 1) = k - 1
        BY <1>3, <1>4, <3>1
      <3> QED  BY <3>2
    <2>2. Pl(k - 1) \in 0..(F - 1)
      <3>1. k - 1 \in Int
        OBVIOUS
      <3> QED  BY <1>2, <3>1
    <2>3. PICK i \in 0..(F - 1) : i = Pl(k - 1)
      BY <2>2
    <2>4. ~Hit(i)
      BY <2>1, <2>3
    <2>5. g[i] = f[i]
      <3> HIDE DEF Hit
      <3> QED  BY <1>0, <2>4
    <2> QED  BY <2>3, <2>5
  <1>7. g \in [0..(F - 1) -> S]
    <2> SUFFICES ASSUME NEW i \in 0..(F - 1) PROVE g[i] \in S
      BY <1>0
    <2>1. CASE \E k \in 1..n : Wr(k) = i
      <3>1. PICK j \in 1..n : Wr(j) = i
        BY <2>1
      <3>2. g[i] = q[j]
        BY <1>5, <3>1
      <3>3. q[j] \in S
        BY <1>1
      <3> QED  BY <3>2, <3>3
    <2>2. CASE ~ \E k \in 1..n : Wr(k) = i
      <3>1. g[i] = f[i]
        BY <1>0, <2>2
      <3>2. f[i] \in S
        OBVIOUS
      <3> QED  BY <3>1, <3>2
    <2> QED  BY <2>1, <2>2
  <1>8. ASSUME NEW k \in 1..(c + n)
        PROVE  g[Pl(k - 1)] = (p \o q)[Len(p) - c + k]
    <2>1. CASE k <= c
      <3>1. g[Pl(k - 1)] = p[Len(p) - c + k]
        <4>1. k \in 1..c
          BY <2>1
        <4> QED  BY <1>0, <1>6, <4>1
      <3>2. (p \o q)[Len(p) - c + k] = p[Len(p) - c + k]
        BY <1>1, <2>1
      <3> QED  BY <3>1, <3>2
    <2>2. CASE k > c
      <3>1. PICK j \in 1..n : j = k - c
        BY <1>1, <2>2
      <3>2. c + (j - 1) = k - 1
        BY <3>1
      <3>3. g[Pl(k - 1)] = q[j]
        BY <1>3, <1>5, <3>2
      <3>4. Len(p) - c + k = Len(p) + j
        BY <1>1, <3>1
      <3>5. (p \o q)[Len(p) + j] = q[j]
        <4>1. j \in 1..Len(q) /\ Len(p) + j \in 1..(Len(p) + Len(q))
          BY <1>1
        <4> QED  BY <4>1
      <3> QED  BY <3>3, <3>4, <3>5
    <2> QED  BY <2>1, <2>2
  <1>9. Len(p \o q) - (c + n) = Len(p) - c
    BY <1>1
  <1> QED  BY <1>7, <1>8, <1>9 DEF Pl, Holds

-----------------------------------------------------------------------------
(* Samples of z entries of which c entries are left, rounded up.            *)
LEMMA RoundStored ==
    ASSUME NEW c \in Nat, NEW z \in 1..4
    PROVE  /\ (c + z - 1) \div z \in 0..c
           /\ (c + z + z - 1) \div z = ((c + z - 1) \div z) + 1
           /\ (0 + z - 1) \div z = 0
  <1>1. z = 1 \/ z = 2 \/ z = 3 \/ z = 4
    OBVIOUS
  <1>2. CASE z = 1
    BY <1>2
  <1>3. CASE z = 2
    BY <1>3
  <1>4. CASE z = 3
    BY <1>4
  <1>5. CASE z = 4
    BY <1>5
  <1> QED  BY <1>1, <1>2, <1>3, <1>4, <1>5

LEMMA RoundRead ==
    ASSUME NEW c \in Nat \ {0}, NEW z \in 1..4
    PROVE  /\ (c + z - 1) \div z \in 1..c
           /\ ((c - 1) + z - 1) \div z = IF (c - 1) % z = 0 THEN ((c + z - 1) \div z) - 1
                                         ELSE (c + z - 1) \div z
  <1>1. z = 1 \/ z = 2 \/ z = 3 \/ z = 4
    OBVIOUS
  <1>2. CASE z = 1
    BY <1>2
  <1>3. CASE z = 2
    BY <1>3
  <1>4. CASE z = 3
    BY <1>4
  <1>5. CASE z = 4
    BY <1>5
  <1> QED  BY <1>1, <1>2, <1>3, <1>4, <1>5

(* A sample is stored.                                                      *)
LEMMA StoreStep ==
    ASSUME IInv, SampleStore, UNCHANGED reg, ticks < MaxTicks
    PROVE  /\ fifo' \in Fifos /\ (fifo'.count > 0 => fifo'.size > 0)
           /\ FifoIsWindow' /\ SizeInv' /\ put' \in Seq(Entry)
  <1>1. PICK n \in 1..4, es \in Seq(Entry) :
           es = Sample /\ n = Len(es) /\ DOMAIN es = 1..n
    <2>1. reg.select \in DOMAIN Channels
      BY DEF IInv, TypeOK
    <2>2. ticks + 1 \in 0..MaxTicks
      BY Adxl36xAssumption DEF IInv, HistInv
    <2> QED  BY <2>1, <2>2, EntriesAre DEF Sample
  <1>2. PICK w \in 0..(CtrMod - 1), r \in 0..(CtrMod - 1), c \in 0..FIFO_SIZE :
           /\ w = fifo.wpt /\ r = fifo.rpt /\ c = fifo.count
    BY CountIs
  <1>3. /\ fifo \in Fifos /\ c = Ahd(w, r) /\ fifo.slots \in [0..(FIFO_SIZE - 1) -> Entry]
        /\ Room = FIFO_SIZE - c /\ (r + c) % FIFO_SIZE = w % FIFO_SIZE
        /\ put \in Seq(Entry) /\ Len(put) \in Nat /\ c <= Len(put)
    BY <1>2, CountIs
  <1>4. c + n <= FIFO_SIZE
    BY <1>1, <1>3, Moduli DEF SampleStore, SampleFits
  <1>5. put' = put \o es /\ Len(put') = Len(put) + n
    BY <1>1, <1>3 DEF SampleStore
  <1>6. /\ fifo'.slots = Overlaid(FIFO_SIZE, fifo.slots, w, es)
        /\ fifo'.wpt = (w + n) % CtrMod /\ fifo'.rpt = r /\ fifo'.count = c + n
        /\ fifo'.samples = (fifo.samples + 1) % CtrMod /\ fifo'.size = n
        /\ fifo'.phase = fifo.phase
        /\ fifo' = [slots |-> fifo'.slots, wpt |-> fifo'.wpt, rpt |-> fifo'.rpt,
                    count |-> fifo'.count, samples |-> fifo'.samples,
                    size |-> fifo'.size, phase |-> fifo'.phase]
    <2>1. fifo' = Stored(fifo, es)
      BY <1>1 DEF SampleStore
    <2>2. DOMAIN fifo.slots = 0..(FIFO_SIZE - 1)
      BY <1>3
    <2> QED  BY <1>1, <1>2, <1>3, <2>1, <2>2 DEF Stored, Fifos, Overlaid
  <1>7. /\ fifo'.slots \in [0..(FIFO_SIZE - 1) -> Entry]
        /\ Holds(FIFO_SIZE, fifo'.slots, r, c + n, put \o es)
    <2>1. Holds(FIFO_SIZE, fifo.slots, r, c, put)
      BY <1>2 DEF IInv, FifoIsWindow, Slot, Holds
    <2>2. Filled(Entry, FIFO_SIZE, fifo.slots, r, w, c, put)
      BY <1>3, <2>1, Moduli DEF Filled
    <2>3. c + Len(es) <= FIFO_SIZE
      BY <1>1, <1>4
    <2> QED  BY <1>1, <1>6, <2>2, <2>3, WindowGrows
  <1>8. fifo'.wpt \in 0..(CtrMod - 1) /\ fifo'.count = Ahd(fifo'.wpt, fifo'.rpt)
    <2>1. PICK C \in Nat \ {0} : C = CtrMod
      BY Moduli
    <2>2. w \in 0..(C - 1) /\ r \in 0..(C - 1) /\ n \in Nat /\ c = (w - r) % C
      <3>1. c = (w - r) % CtrMod
        BY <1>3, AheadIs
      <3> QED  BY <2>1, <3>1
    <2>3. ((w - r) % C) + n < C
      BY <1>4, <2>1, <2>2, Moduli
    <2>4. (w + n) % C \in 0..(C - 1) /\ (((w + n) % C) - r) % C = c + n
      BY <2>2, <2>3, WriterMoves
    <2>5. (w + n) % CtrMod \in 0..(CtrMod - 1)
          /\ Ahd((w + n) % CtrMod, r) = (((w + n) % CtrMod) - r) % CtrMod
      BY <2>1, <2>4, AheadIs
    <2> QED  BY <1>6, <2>1, <2>4, <2>5
  <1>9. PICK s \in 0..(CtrMod - 1) : s = fifo.samples
    BY <1>3 DEF Fifos
  <1>10. fifo' \in Fifos
    <2>1. (s + 1) % CtrMod \in 0..(CtrMod - 1)
      BY Moduli
    <2>2. fifo.phase \in 0..5
      BY <1>3 DEF Fifos
    <2>3. /\ fifo'.slots \in [0..(FIFO_SIZE - 1) -> Entry]
          /\ fifo'.wpt \in 0..(CtrMod - 1) /\ fifo'.rpt \in 0..(CtrMod - 1)
          /\ fifo'.count \in 0..FIFO_SIZE /\ fifo'.samples \in 0..(CtrMod - 1)
          /\ fifo'.size \in 0..4 /\ fifo'.phase \in 0..5
      BY <1>4, <1>6, <1>7, <1>8, <1>9, <2>1, <2>2
    <2>4. fifo' = [slots |-> fifo'.slots, wpt |-> fifo'.wpt, rpt |-> fifo'.rpt,
                   count |-> fifo'.count, samples |-> fifo'.samples,
                   size |-> fifo'.size, phase |-> fifo'.phase]
      BY <1>6
    <2> QED  BY <2>3, <2>4 DEF Fifos
  <1>11. SamplesCounted'
    <2> SUFFICES ASSUME narrow', fifo'.size > 0, reg'.format = 8, steady'
                 PROVE  fifo'.samples = (fifo'.count + fifo'.size - 1) \div fifo'.size
      BY DEF SamplesCounted
    <2>1. narrow /\ steady /\ reg.format = 8 /\ fifo.size \in {0, n}
      BY <1>1 DEF SampleStore
    <2>2. s = (c + n - 1) \div n
      <3>1. CASE fifo.size = 0
        <4>1. s = 0 /\ c = 0
          BY <1>2, <1>9, <3>1 DEF IInv, SizeInv, TypeOK
        <4> QED  BY <4>1, RoundStored
      <3>2. CASE fifo.size = n
        BY <1>2, <1>9, <2>1, <3>2 DEF IInv, FifoIsWindow, SamplesCounted
      <3> QED  BY <2>1, <3>1, <3>2
    <2>3. s \in 0..c /\ (c + n + n - 1) \div n = s + 1
      BY <2>2, RoundStored
    <2>4. (s + 1) % CtrMod = s + 1
      <3>1. s + 1 \in 0..(CtrMod - 1)
        BY <1>4, <2>3, Moduli
      <3> QED  BY <3>1, Moduli, ModSmall
    <2> QED  BY <1>6, <1>9, <2>3, <2>4
  <1>12. FifoIsWindow'
    <2>1. Holds(FIFO_SIZE, fifo'.slots, fifo'.rpt, fifo'.count, put')
      BY <1>5, <1>6, <1>7
    <2>2. fifo'.count <= Len(put')
      BY <1>3, <1>5, <1>6
    <2> QED  BY <1>8, <1>11, <2>1, <2>2 DEF FifoIsWindow, Slot, Ahd, Holds
  <1>13. SizeInv' /\ put' \in Seq(Entry)
    <2>1. put' \in Seq(Entry) /\ put' # <<>>
      BY <1>3, <1>5
    <2> QED  BY <1>6, <2>1 DEF SizeInv
  <1> QED  BY <1>6, <1>10, <1>12, <1>13

(* A byte is read, and one entry or none goes with it.                      *)
LEMMA ReadStep ==
    ASSUME IInv, ReadFifo, UNCHANGED reg
    PROVE  /\ fifo' \in Fifos /\ (fifo'.count > 0 => fifo'.size > 0)
           /\ FifoIsWindow' /\ SizeInv' /\ put' = put
  <1>1. PICK w \in 0..(CtrMod - 1), r \in 0..(CtrMod - 1), c \in 1..FIFO_SIZE :
           /\ w = fifo.wpt /\ r = fifo.rpt /\ c = fifo.count
    BY CountIs, Moduli DEF ReadFifo
  <1>2. /\ fifo \in Fifos /\ c = Ahd(w, r) /\ fifo.slots \in [0..(FIFO_SIZE - 1) -> Entry]
        /\ put \in Seq(Entry) /\ Len(put) \in Nat /\ c <= Len(put)
    BY <1>1, CountIs
  <1>3. PICK s \in 0..(CtrMod - 1), z \in 1..4 : s = fifo.samples /\ z = fifo.size
    BY <1>1, <1>2 DEF Fifos, IInv, TypeOK
  <1>4. PICK d \in 0..1 : d = IF Byte.pop THEN 1 ELSE 0
    OBVIOUS
  <1>5. /\ fifo'.slots = fifo.slots /\ fifo'.wpt = w /\ fifo'.rpt = (r + d) % CtrMod
        /\ fifo'.count = c - d /\ fifo'.size = z
        /\ fifo'.samples = IF (c - d) % z = 0 THEN (s + CtrMod - 1) % CtrMod ELSE s
        /\ fifo'.phase = (fifo.phase + 1) % 6
        /\ fifo' = [slots |-> fifo'.slots, wpt |-> fifo'.wpt, rpt |-> fifo'.rpt,
                    count |-> fifo'.count, samples |-> fifo'.samples,
                    size |-> fifo'.size, phase |-> fifo'.phase]
    <2>1. CASE Byte.pop
      <3>1. d = 1 /\ fifo' = Counted(Popped(fifo))
        BY <1>4, <2>1 DEF ReadFifo
      <3> QED  BY <1>1, <1>2, <1>3, <3>1 DEF Counted, Popped, Fifos
    <2>2. CASE ~Byte.pop
      <3>1. d = 0 /\ fifo' = Counted(fifo)
        BY <1>4, <2>2 DEF ReadFifo
      <3>2. (r + 0) % CtrMod = r
        BY Moduli, ModSmall
      <3>3. /\ fifo'.slots = fifo.slots /\ fifo'.wpt = w /\ fifo'.rpt = r
            /\ fifo'.count = c /\ fifo'.size = z
            /\ fifo'.samples = IF c % z = 0 THEN (s + CtrMod - 1) % CtrMod ELSE s
            /\ fifo'.phase = (fifo.phase + 1) % 6
            /\ fifo' = [slots |-> fifo'.slots, wpt |-> fifo'.wpt, rpt |-> fifo'.rpt,
                        count |-> fifo'.count, samples |-> fifo'.samples,
                        size |-> fifo'.size, phase |-> fifo'.phase]
        BY <1>1, <1>2, <1>3, <3>1 DEF Counted, Fifos
      <3>4. c - d = c
        BY <3>1, Moduli
      <3>5. (r + d) % CtrMod = r
        BY <3>1, <3>2
      <3> QED  BY <3>3, <3>4, <3>5
    <2> QED  BY <2>1, <2>2
  <1>6. /\ fifo'.rpt \in 0..(CtrMod - 1)
        /\ fifo'.count = Ahd(fifo'.wpt, fifo'.rpt)
    <2>1. PICK C \in Nat \ {0} : C = CtrMod
      BY Moduli
    <2>2. w \in 0..(C - 1) /\ r \in 0..(C - 1) /\ d \in Nat /\ c = (w - r) % C /\ d <= c
      <3>1. c = (w - r) % CtrMod
        BY <1>2, AheadIs
      <3> QED  BY <2>1, <3>1
    <2>3. (r + d) % C \in 0..(C - 1) /\ (w - ((r + d) % C)) % C = c - d
      BY <2>2, ReaderMoves
    <2>4. (r + d) % CtrMod \in 0..(CtrMod - 1)
          /\ Ahd(w, (r + d) % CtrMod) = (w - ((r + d) % CtrMod)) % CtrMod
      BY <2>1, <2>3, AheadIs
    <2> QED  BY <1>5, <2>1, <2>3, <2>4
  <1>7. fifo' \in Fifos
    <2>1. (s + CtrMod - 1) % CtrMod \in 0..(CtrMod - 1)
      BY Moduli
    <2>2. fifo.phase \in 0..5
      BY <1>2 DEF Fifos
    <2>3. /\ fifo'.slots \in [0..(FIFO_SIZE - 1) -> Entry]
          /\ fifo'.wpt \in 0..(CtrMod - 1) /\ fifo'.rpt \in 0..(CtrMod - 1)
          /\ fifo'.count \in 0..FIFO_SIZE
          /\ fifo'.size \in 0..4 /\ fifo'.phase \in 0..5
      <3>1. c - d \in 0..FIFO_SIZE
        BY Moduli
      <3>2. (fifo.phase + 1) % 6 \in 0..5
        BY <2>2
      <3> QED  BY <1>2, <1>5, <1>6, <3>1, <3>2
    <2>4. fifo'.samples \in 0..(CtrMod - 1)
      BY <1>5, <2>1
    <2>5. fifo' = [slots |-> fifo'.slots, wpt |-> fifo'.wpt, rpt |-> fifo'.rpt,
                   count |-> fifo'.count, samples |-> fifo'.samples,
                   size |-> fifo'.size, phase |-> fifo'.phase]
      BY <1>5
    <2> QED  BY <2>3, <2>4, <2>5 DEF Fifos
  <1>8. put' = put
    BY DEF ReadFifo
  <1>9. Holds(FIFO_SIZE, fifo'.slots, fifo'.rpt, fifo'.count, put')
    <2> SUFFICES ASSUME NEW k \in 1..(c - d)
                 PROVE  fifo.slots[(((r + d) % CtrMod) + (k - 1)) % FIFO_SIZE]
                          = put[Len(put) - (c - d) + k]
      BY <1>5, <1>8 DEF Holds
    <2>1. PICK a \in Int, m \in Int, j \in 1..c : a = r + d /\ m = k - 1 /\ j = k + d
      OBVIOUS
    <2>2. PICK b \in Int : b = a % CtrMod /\ b % FIFO_SIZE = a % FIFO_SIZE
      <3>1. (a % CtrMod) % FIFO_SIZE = a % FIFO_SIZE
        BY Moduli, ModMod
      <3>2. a % CtrMod \in Int
        BY Moduli
      <3> QED  BY <3>1, <3>2
    <2>3. ((a % CtrMod) + m) % FIFO_SIZE = (a + m) % FIFO_SIZE
      <3>1. PICK F \in Nat \ {0} : F = FIFO_SIZE
        BY Moduli
      <3>2. b % F = a % F
        BY <2>2, <3>1
      <3>3. (b + m) % F = (a + m) % F
        BY <3>2, PlacesBehind
      <3> QED  BY <2>2, <3>1, <3>3
    <2>4. a + m = r + (j - 1) /\ Len(put) - (c - d) + k = Len(put) - c + j
      BY <1>2, <2>1
    <2>5. fifo.slots[(r + (j - 1)) % FIFO_SIZE] = put[Len(put) - c + j]
      BY <1>1 DEF IInv, FifoIsWindow, Slot
    <2> QED  BY <2>1, <2>3, <2>4, <2>5
  <1>10. SamplesCounted'
    <2> SUFFICES ASSUME narrow', fifo'.size > 0, reg'.format = 8, steady'
                 PROVE  fifo'.samples = (fifo'.count + fifo'.size - 1) \div fifo'.size
      BY DEF SamplesCounted
    <2>1. narrow /\ steady /\ reg.format = 8
      BY DEF ReadFifo
    <2>2. d = 1
      BY <1>4, <2>1 DEF Byte
    <2>3. s = (c + z - 1) \div z
      <3>1. SamplesCounted
        BY DEF IInv, FifoIsWindow
      <3> QED  BY <1>1, <1>3, <2>1, <3>1 DEF SamplesCounted
    <2>4. /\ s \in 1..c
          /\ ((c - 1) + z - 1) \div z = IF (c - 1) % z = 0 THEN s - 1 ELSE s
      <3>1. PICK n \in Nat \ {0} : n = c
        BY Moduli
      <3> QED  BY <2>3, <3>1, RoundRead
    <2>5. (s + CtrMod - 1) % CtrMod = s - 1
      <3>1. PICK C \in Nat \ {0}, b \in Int : C = CtrMod /\ b = s - 1
        BY Moduli
      <3>2. (b + C * 1) % C = b % C /\ b + C * 1 = s + C - 1
        BY <3>1, AddMultiple
      <3>3. b % C = b
        BY <2>4, <3>1, ModSmall
      <3> QED  BY <3>1, <3>2, <3>3
    <2> QED  BY <1>5, <2>2, <2>4, <2>5
  <1>11. FifoIsWindow'
    <2>1. fifo'.count <= Len(put')
      BY <1>2, <1>5, <1>8
    <2> QED  BY <1>6, <1>9, <1>10, <2>1 DEF FifoIsWindow, Slot, Ahd, Holds
  <1>12. SizeInv'
    BY <1>3, <1>5, <1>8 DEF SizeInv, IInv
  <1> QED  BY <1>5, <1>7, <1>8, <1>11, <1>12

(* A step that leaves the FIFO, what was stored in it and the entries'      *)
(* format alone, or changes the format before anything was stored.          *)
LEMMA FifoKept ==
    ASSUME IInv, UNCHANGED <<fifo, put, narrow>>,
           reg'.format = reg.format \/ put = <<>> \/ ~steady', steady' => steady
    PROVE  FifoIsWindow' /\ SizeInv'
  <1>1. SizeInv'
    BY DEF IInv, SizeInv
  <1>2. SamplesCounted'
    <2> SUFFICES ASSUME narrow', fifo'.size > 0, reg'.format = 8, steady'
                 PROVE  fifo'.samples = (fifo'.count + fifo'.size - 1) \div fifo'.size
      BY DEF SamplesCounted
    <2>1. reg.format = 8
      BY <1>1 DEF IInv, SizeInv
    <2> QED  BY <2>1 DEF IInv, FifoIsWindow, SamplesCounted
  <1> QED  BY <1>1, <1>2 DEF IInv, FifoIsWindow, Slot

-----------------------------------------------------------------------------
(* Every step keeps IInv.  Those of the FIFO are above; the others leave it *)
(* and what was stored alone.                                               *)
TypeRest ==
    /\ reg \in [measure : BOOLEAN, period : BOOLEAN, mode : 0..3,
                select : DOMAIN Channels, level : Nat, format : {8, 12, 16}]
    /\ addr \in DOMAIN Regs /\ count \in BOOLEAN
    /\ status \subseteq {"DATA_READY", "WATER_MARK", "OVER_RUN"}
    /\ {armed, expired, pending, run} \subseteq BOOLEAN
    /\ th \in [timer : {"wait", "lock", "done"}, cm : {"loop", "done"}, main : {"wait", "done"}]

LEMMA TypeParts ==
    /\ TypeOK <=> TypeRest /\ fifo \in Fifos /\ (fifo.count > 0 => fifo.size > 0)
    /\ TypeOK' <=> TypeRest' /\ fifo' \in Fifos /\ (fifo'.count > 0 => fifo'.size > 0)
  BY DEF TypeOK, TypeRest, Fifos

LEMMA RegsAre ==
    DOMAIN Regs = 1..10 /\ Len(Regs) = 10
    /\ \A i \in 1..10 : Regs[i] = "FIFO_DATA" <=> i = 3
  BY DEF Regs

LEMMA OthersStep ==
    ASSUME IInv, TypeRest', TimerInv', UNCHANGED <<fifo, put, narrow, ticks>>,
           reg'.format = reg.format \/ put = <<>> \/ ~steady', steady' => steady
    PROVE  IInv'
  <1>1. FifoIsWindow' /\ SizeInv'
    BY FifoKept
  <1>2. TypeOK'
    BY TypeParts DEF IInv
  <1> QED  BY <1>1, <1>2 DEF IInv, HistInv

LEMMA ExpireStep == IInv /\ Expire => IInv'
  <1> SUFFICES ASSUME IInv, Expire PROVE IInv'
    OBVIOUS
  <1>1. TypeRest
    BY TypeParts DEF IInv
  <1>2. TypeRest' /\ TimerInv'
    BY <1>1 DEF Expire, TypeRest, TimerInv, threadvars
  <1>3. UNCHANGED <<fifo, put, narrow, ticks, reg, steady>>
    BY DEF Expire, history
  <1> QED  BY <1>2, <1>3, OthersStep

LEMMA TimerWaitStep == IInv /\ TimerWait => IInv'
  <1> SUFFICES ASSUME IInv, TimerWait PROVE IInv'
    OBVIOUS
  <1>1. TypeRest
    BY TypeParts DEF IInv
  <1>2. TypeRest' /\ TimerInv'
    BY <1>1 DEF IInv, TimerWait, TypeRest, TimerInv
  <1>3. UNCHANGED <<fifo, put, narrow, ticks, reg, steady>>
    BY DEF TimerWait, history
  <1> QED  BY <1>2, <1>3, OthersStep

LEMMA TickStep ==
    ASSUME IInv, Tick, UNCHANGED <<reg, addr, count, run>>,
           th' \in [timer : {"wait", "lock", "done"}, cm : {"loop", "done"},
                    main : {"wait", "done"}], ticks < MaxTicks
    PROVE  IInv'
  <1>1. TypeRest
    BY TypeParts DEF IInv
  <1>2. ticks' \in 0..MaxTicks
    BY Adxl36xAssumption DEF IInv, HistInv, Tick
  <1>3. TypeRest'
    <2>1. status' \subseteq {"DATA_READY", "WATER_MARK", "OVER_RUN"}
      BY <1>1 DEF Tick, SampleStore, SampleNone, Marked, TypeRest
    <2>2. armed' \in BOOLEAN /\ expired' = FALSE /\ pending' = FALSE
      BY <1>1 DEF Tick, TimerStart, TypeRest
    <2> QED  BY <1>1, <2>1, <2>2 DEF TypeRest
  <1>4. TimerInv'
    BY DEF Tick, TimerStart, TimerInv
  <1>5. CASE SampleStore
    <2>1. /\ fifo' \in Fifos /\ (fifo'.count > 0 => fifo'.size > 0)
          /\ FifoIsWindow' /\ SizeInv' /\ put' \in Seq(Entry)
      BY <1>5, StoreStep
    <2>2. TypeOK'
      BY <1>3, <2>1, TypeParts
    <2> QED  BY <1>2, <1>4, <2>1, <2>2 DEF IInv, HistInv
  <1>6. CASE SampleNone
    <2>1. UNCHANGED <<fifo, put, narrow, steady, reg>>
      BY <1>6 DEF SampleNone, history
    <2>2. FifoIsWindow' /\ SizeInv'
      BY <2>1, FifoKept
    <2>3. TypeOK'
      BY <1>3, <2>1, TypeParts DEF IInv
    <2> QED  BY <1>2, <1>4, <2>1, <2>2, <2>3 DEF IInv, HistInv
  <1> QED  BY <1>5, <1>6 DEF Tick

LEMMA TimerProcessStep == IInv /\ TimerProcess => IInv'
  <1> SUFFICES ASSUME IInv, TimerProcess PROVE IInv'
    OBVIOUS
  <1>1. TypeRest
    BY TypeParts DEF IInv
  <1>2. /\ UNCHANGED <<reg, addr, count, run>>
        /\ th' \in [timer : {"wait", "lock", "done"}, cm : {"loop", "done"},
                    main : {"wait", "done"}]
    BY <1>1 DEF TimerProcess, TypeRest
  <1>3. CASE run /\ pending
    <2>1. Tick /\ ticks < MaxTicks
      BY <1>3 DEF TimerProcess, IInv, TimerInv
    <2> QED  BY <1>2, <2>1, TickStep
  <1>4. CASE ~(run /\ pending)
    <2>1. UNCHANGED <<fifo, status, armed, expired, pending, ticks, put, narrow, steady>>
      BY <1>4 DEF TimerProcess, timervars, history
    <2>2. TypeRest' /\ TimerInv'
      BY <1>1, <1>2, <2>1 DEF IInv, TypeRest, TimerInv
    <2> QED  BY <1>2, <2>1, <2>2, OthersStep
  <1> QED  BY <1>3, <1>4

LEMMA StopStep == IInv /\ Stop => IInv'
  <1> SUFFICES ASSUME IInv, Stop PROVE IInv'
    OBVIOUS
  <1>1. TypeRest
    BY TypeParts DEF IInv
  <1>2. UNCHANGED <<fifo, put, narrow, ticks, reg, steady, status, armed, expired,
                    pending, run, th>>
    BY DEF Stop, history, timervars, threadvars
  <1>3. addr' = 1 /\ count' = FALSE
    BY DEF Stop
  <1>4. TypeRest' /\ TimerInv'
    <2>1. addr' \in DOMAIN Regs
      BY <1>3, RegsAre
    <2> QED  BY <1>1, <1>2, <1>3, <2>1 DEF IInv, TypeRest, TimerInv
  <1> QED  BY <1>2, <1>4, OthersStep

LEMMA WriteStep == IInv /\ Write => IInv'
  <1> SUFFICES ASSUME IInv, Write PROVE IInv'
    OBVIOUS
  <1>1. TypeRest
    BY TypeParts DEF IInv
  <1>2. UNCHANGED <<fifo, put, narrow, ticks, status, pending, run, th>>
    BY DEF Write, threadvars
  <1>3. reg' \in [measure : BOOLEAN, period : BOOLEAN, mode : 0..3,
                  select : DOMAIN Channels, level : Nat, format : {8, 12, 16}]
    <2>1. reg' = reg \/ reg' \in Written(Regs[addr])
      BY DEF Write
    <2>2. reg \in [measure : BOOLEAN, period : BOOLEAN, mode : 0..3,
                   select : DOMAIN Channels, level : Nat, format : {8, 12, 16}]
      BY <1>1 DEF TypeRest
    <2>3. /\ \A s \in Selects : s \in DOMAIN Channels
          /\ \A l \in Levels : l \in Nat
          /\ \A f \in Formats : f \in {8, 12, 16}
      BY Adxl36xAssumption
    <2> DEFINE Record == [measure : BOOLEAN, period : BOOLEAN, mode : 0..3,
                          select : DOMAIN Channels, level : Nat, format : {8, 12, 16}]
    <2>4. /\ \A m \in 0..3, s \in Selects : [reg EXCEPT !.mode = m, !.select = s] \in Record
          /\ \A l \in Levels : [reg EXCEPT !.level = l] \in Record
          /\ [reg EXCEPT !.period = TRUE] \in Record
          /\ \A m \in BOOLEAN : [reg EXCEPT !.measure = m] \in Record
          /\ \A f \in Formats : [reg EXCEPT !.format = f] \in Record
          /\ reg \in Record
      BY <2>2, <2>3
    <2> HIDE DEF Record
    <2>5. ASSUME NEW name PROVE Written(name) \subseteq Record
      <3>1. CASE name = "FIFO_CONTROL"
        <4> DEFINE Controlled(m, s) == [reg EXCEPT !.mode = m, !.select = s]
        <4>1. Written(name) = {Controlled(m, s) : m \in 0..3, s \in Selects}
          BY <3>1 DEF Written
        <4>2. \A m \in 0..3, s \in Selects : Controlled(m, s) \in Record
          BY <2>4
        <4> HIDE DEF Controlled
        <4> QED  BY <4>1, <4>2
      <3>2. CASE name = "FIFO_SAMPLES"
        <4>1. Written(name) = {[reg EXCEPT !.level = l] : l \in Levels}
          BY <3>2 DEF Written
        <4> QED  BY <2>4, <4>1
      <3>3. CASE name = "FILTER_CTL"
        <4>1. Written(name) = {[reg EXCEPT !.period = TRUE]}
          BY <3>3 DEF Written
        <4> QED  BY <2>4, <4>1
      <3>4. CASE name = "POWER_CTL"
        <4>1. Written(name) = {[reg EXCEPT !.measure = m] : m \in BOOLEAN}
          BY <3>4 DEF Written
        <4> QED  BY <2>4, <4>1
      <3>5. CASE name = "ADC_CTL"
        <4>1. Written(name) = {[reg EXCEPT !.format = f] : f \in Formats}
          BY <3>5 DEF Written
        <4> QED  BY <2>4, <4>1
      <3>6. CASE /\ name # "FIFO_CONTROL" /\ name # "FIFO_SAMPLES" /\ name # "FILTER_CTL"
                 /\ name # "POWER_CTL" /\ name # "ADC_CTL"
        <4>1. Written(name) = {reg}
          BY <3>6 DEF Written
        <4> QED  BY <2>4, <4>1
      <3> QED  BY <3>1, <3>2, <3>3, <3>4, <3>5, <3>6
    <2> QED  BY <2>1, <2>2, <2>5 DEF Record
  <1>4. addr' \in DOMAIN Regs /\ count' \in BOOLEAN
    <2>1. addr \in 1..10 /\ count \in BOOLEAN
      BY <1>1, RegsAre DEF TypeRest
    <2>2. addr' \in 1..10
      BY <2>1, RegsAre DEF Write, Advanced
    <2>3. count' \in BOOLEAN
      BY <2>1 DEF Write
    <2> QED  BY <2>2, <2>3, RegsAre
  <1>5. armed' \in BOOLEAN /\ expired' = FALSE
    BY <1>3 DEF Write, Restart, TimerStart, TimerStop
  <1>6. TypeRest' /\ TimerInv'
    BY <1>1, <1>2, <1>3, <1>4, <1>5 DEF IInv, TypeRest, TimerInv
  <1>7. (reg'.format = reg.format \/ put = <<>> \/ ~steady') /\ (steady' => steady)
    BY DEF Write
  <1> QED  BY <1>2, <1>6, <1>7, OthersStep

LEMMA ReadByteStep == IInv /\ Read => IInv'
  <1> SUFFICES ASSUME IInv, Read PROVE IInv'
    OBVIOUS
  <1>1. TypeRest
    BY TypeParts DEF IInv
  <1>2. UNCHANGED <<reg, count, armed, expired, pending, run, th, ticks>>
    BY DEF Read, timervars, threadvars
  <1>3. addr' \in DOMAIN Regs
    <2>1. addr \in 1..10
      BY <1>1, RegsAre DEF TypeRest
    <2>2. Advanced \in 1..10 /\ (Regs[Advanced] = "FIFO_DATA" <=> addr = 2)
      BY <2>1, RegsAre DEF Advanced
    <2>3. addr' \in 1..10
      BY <2>1, <2>2 DEF Read, ReadAdvance
    <2> QED  BY <2>3, RegsAre
  <1>4. status' \subseteq status
    BY DEF Read, ReadStatus, ReadFifo, ReadPlain
  <1>5. TypeRest' /\ TimerInv'
    BY <1>1, <1>2, <1>3, <1>4 DEF IInv, TypeRest, TimerInv
  <1>6. CASE ReadFifo
    <2>1. /\ fifo' \in Fifos /\ (fifo'.count > 0 => fifo'.size > 0)
          /\ FifoIsWindow' /\ SizeInv' /\ put' = put
      BY <1>2, <1>6, ReadStep
    <2>2. TypeOK'
      BY <1>5, <2>1, TypeParts
    <2> QED  BY <1>2, <1>5, <2>1, <2>2 DEF IInv, HistInv
  <1>7. CASE ReadStatus \/ ReadPlain
    <2>1. UNCHANGED <<fifo, put, narrow, steady>>
      BY <1>7 DEF ReadStatus, ReadPlain, history
    <2> QED  BY <1>2, <1>5, <2>1, OthersStep
  <1> QED  BY <1>6, <1>7 DEF Read

LEMMA EndStep == IInv /\ (CmLost \/ MainExit) => IInv'
  <1> SUFFICES ASSUME IInv, CmLost \/ MainExit PROVE IInv'
    OBVIOUS
  <1>1. TypeRest
    BY TypeParts DEF IInv
  <1>2. UNCHANGED <<reg, addr, count, fifo, status, armed, expired, pending, ticks, put,
                    narrow, steady>>
    BY DEF CmLost, MainExit, history, timervars
  <1>3. run' \in BOOLEAN
        /\ th' \in [timer : {"wait", "lock", "done"}, cm : {"loop", "done"},
                    main : {"wait", "done"}]
    BY <1>1 DEF CmLost, MainExit, TypeRest
  <1>4. TypeRest' /\ TimerInv'
    BY <1>1, <1>2, <1>3 DEF IInv, TypeRest, TimerInv
  <1> QED  BY <1>2, <1>4, OthersStep

LEMMA NextStep == IInv /\ [Next]_vars => IInv'
  <1> SUFFICES ASSUME IInv, [Next]_vars PROVE IInv'
    OBVIOUS
  <1>1. CASE Expire
    BY <1>1, ExpireStep
  <1>2. CASE TimerThread
    BY <1>2, TimerWaitStep, TimerProcessStep DEF TimerThread
  <1>3. CASE Stop
    BY <1>3, StopStep
  <1>4. CASE Write
    BY <1>4, WriteStep
  <1>5. CASE Read
    BY <1>5, ReadByteStep
  <1>6. CASE CmLost \/ MainExit
    BY <1>6, EndStep
  <1>7. CASE UNCHANGED vars
    <2>1. UNCHANGED <<reg, addr, count, fifo, status, armed, expired, pending, run, th,
                      ticks, put, steady, narrow>>
      BY <1>7 DEF vars
    <2>2. TypeRest
      BY TypeParts DEF IInv
    <2>3. TypeRest' /\ TimerInv'
      BY <2>1, <2>2 DEF IInv, TypeRest, TimerInv
    <2> QED  BY <2>1, <2>3, OthersStep
  <1> QED  BY <1>1, <1>2, <1>3, <1>4, <1>5, <1>6, <1>7 DEF Next

(* The accelerometer's types and the history of its FIFO, in every state.   *)
THEOREM InvariantHolds == Spec => []IInv
  BY InitInv, NextStep, PTL DEF Spec

(* Every variable has its type, whatever the driver writes and reads and    *)
(* whenever the timer runs out: the FIFO's count stays within its size, and *)
(* adi_adxl36x_i2c_read never divides by a sample size of zero.             *)
THEOREM TypeCorrect == Spec => []TypeOK
  <1>1. IInv => TypeOK
    BY DEF IInv
  <1> QED  BY <1>1, InvariantHolds, PTL

(* The FIFO holds the entries stored last, whole and in order, as many as   *)
(* its count says: adi_adxl36x_fifo_sample overwrites none that is unread,  *)
(* and where the counters wrap no entry is skipped or read twice.           *)
THEOREM FifoRight == Spec => []FifoIsWindow
  <1>1. IInv => FifoIsWindow
    BY DEF IInv
  <1> QED  BY <1>1, InvariantHolds, PTL
-----------------------------------------------------------------------------
(* What the driver reads.  Of the entry at the FIFO's head Begun nibbles    *)
(* have been read, by the count of bytes and the format; what was read is   *)
(* the entries that are gone, and these.                                    *)
Begun == (2 * fifo.phase) % Width

ReadInv ==
    /\ out \in Seq(Entry \X (1..4))
    /\ put = <<>> => out = <<>> /\ fifo.phase = 0
    /\ steady =>
         /\ Len(out) = Width * (Len(put) - fifo.count) + Begun
         /\ Begun > 0 => fifo.count > 0
         /\ \A i \in 1..Len(out) : out[i] = Nibble(i)

(* Where nibble i is, for entries of W of them stored in p.                 *)
Place(W, p, i) == <<p[((i - 1) \div W) + 1], ((i - 1) % W) + 1>>

LEMMA PlaceIs ==
    ASSUME NEW W \in {2, 3, 4}, NEW e \in Nat, NEW k \in 0..(W - 1), NEW p
    PROVE  Place(W, p, W * e + k + 1) = <<p[e + 1], k + 1>>
  <1>1. PICK i \in Nat : i = W * e + k
    OBVIOUS
  <1>2. i \div W = e /\ i % W = k
    <2>1. CASE W = 2
      BY <1>1, <2>1
    <2>2. CASE W = 3
      BY <1>1, <2>2
    <2>3. CASE W = 4
      BY <1>1, <2>3
    <2> QED  BY <2>1, <2>2, <2>3
  <1>3. (i + 1) - 1 = i
    OBVIOUS
  <1> QED  BY <1>1, <1>2, <1>3 DEF Place

(* It is in an entry that has been stored, and stays there as more are.     *)
LEMMA PlaceStays ==
    ASSUME NEW W \in {2, 3, 4}, NEW S, NEW p \in Seq(S), NEW q \in Seq(S),
           NEW i \in 1..(W * Len(p))
    PROVE  Place(W, p \o q, i) = Place(W, p, i)
  <1>1. PICK n \in Nat : n = Len(p)
    BY LenProperties
  <1>2. PICK j \in Int : j = ((i - 1) \div W) + 1
    OBVIOUS
  <1>3. j \in 1..n
    <2>1. CASE W = 2
      BY <1>1, <1>2, <2>1
    <2>2. CASE W = 3
      BY <1>1, <1>2, <2>2
    <2>3. CASE W = 4
      BY <1>1, <1>2, <2>3
    <2> QED  BY <2>1, <2>2, <2>3
  <1>4. (p \o q)[j] = p[j]
    BY <1>1, <1>3, ConcatProperties
  <1> QED  BY <1>2, <1>4 DEF Place

(* A byte is two nibbles.                                                   *)
LEMMA TwoMore ==
    ASSUME NEW S, NEW o \in Seq(S), NEW a \in S, NEW b \in S
    PROVE  /\ o \o <<a, b>> \in Seq(S) /\ Len(o \o <<a, b>>) = Len(o) + 2 /\ Len(o) \in Nat
           /\ \A i \in 1..Len(o) : (o \o <<a, b>>)[i] = o[i]
           /\ (o \o <<a, b>>)[Len(o) + 1] = a /\ (o \o <<a, b>>)[Len(o) + 2] = b
  <1>1. <<a, b>> \in Seq(S) /\ Len(<<a, b>>) = 2 /\ <<a, b>>[1] = a /\ <<a, b>>[2] = b
    OBVIOUS
  <1>2. PICK t \in Seq(S) : t = <<a, b>> /\ Len(t) = 2 /\ t[1] = a /\ t[2] = b
    BY <1>1
  <1> QED  BY <1>2, ConcatProperties, LenProperties

(* The two oldest entries of the FIFO are the next ones that were stored.   *)
LEMMA HeadIs ==
    ASSUME IInv, fifo.count > 0
    PROVE  /\ Slot(0) \in Entry /\ Slot(1) \in Entry
           /\ Slot(0) = put[(Len(put) - fifo.count) + 1]
           /\ fifo.count > 1 => Slot(1) = put[(Len(put) - fifo.count) + 2]
  <1>1. /\ fifo.count \in Nat /\ fifo.rpt \in Nat /\ FIFO_SIZE \in Nat \ {0}
        /\ fifo.slots \in [0..(FIFO_SIZE - 1) -> Entry]
    BY CountIs, Moduli
  <1>2. Slot(0) \in Entry /\ Slot(1) \in Entry
    BY <1>1 DEF Slot
  <1>3. \A k \in 1..fifo.count : Slot(k - 1) = put[(Len(put) - fifo.count) + k]
    BY DEF IInv, FifoIsWindow
  <1>4. 1 \in 1..fifo.count /\ (fifo.count > 1 => 2 \in 1..fifo.count) /\ 1 - 1 = 0 /\ 2 - 1 = 1
    BY <1>1
  <1> QED  BY <1>2, <1>3, <1>4

(* What adi_adxl36x_i2c_read takes from the FIFO with a byte.               *)
LEMMA TakenIs ==
    ASSUME IInv, ReadFifo
    PROVE  /\ fifo'.phase = (fifo.phase + 1) % 6 /\ fifo.phase \in 0..5
           /\ fifo'.count = IF Byte.pop THEN fifo.count - 1 ELSE fifo.count
  <1>1. fifo \in Fifos
    BY CountIs
  <1>2. fifo.phase \in 0..5
    BY <1>1 DEF Fifos
  <1>3. CASE Byte.pop
    <2>1. fifo' = Counted(Popped(fifo))
      BY <1>3 DEF ReadFifo
    <2> QED  BY <1>1, <1>2, <1>3, <2>1 DEF Counted, Popped, Fifos
  <1>4. CASE ~Byte.pop
    <2>1. fifo' = Counted(fifo)
      BY <1>4 DEF ReadFifo
    <2> QED  BY <1>1, <1>2, <1>4, <2>1 DEF Counted, Fifos
  <1> QED  BY <1>2, <1>3, <1>4

(* The next two nibbles, when x of entry e + 1 have been read.              *)
LEMMA NextTwo ==
    ASSUME NEW W \in {2, 3, 4}, Width = W, NEW e \in Nat, NEW x \in 0..(W - 1),
           NEW n \in Nat, n = W * e + x
    PROVE  /\ Nibble(n + 1) = <<put[e + 1], x + 1>>
           /\ Nibble(n + 2) = IF x + 1 < W THEN <<put[e + 1], x + 2>> ELSE <<put[e + 2], 1>>
  <1>1. \A i : Nibble(i) = Place(W, put, i)
    BY DEF Nibble, Place
  <1>2. Nibble(n + 1) = <<put[e + 1], x + 1>>
    BY <1>1, PlaceIs
  <1>3. CASE x + 1 < W
    <2>1. PICK y \in 0..(W - 1) : y = x + 1 /\ n + 2 = W * e + y + 1
      BY <1>3
    <2>2. Place(W, put, W * e + y + 1) = <<put[e + 1], y + 1>>
      BY ONLY W \in {2, 3, 4}, e \in Nat, y \in 0..(W - 1), PlaceIs
    <2> QED  BY <1>1, <1>2, <1>3, <2>1, <2>2
  <1>4. CASE x + 1 = W
    <2>1. PICK f \in Nat, z \in 0..(W - 1) : f = e + 1 /\ z = 0 /\ n + 2 = W * f + z + 1
      <3>1. W * (e + 1) = W * e + W
        OBVIOUS
      <3> QED  BY <1>4, <3>1
    <2>2. Place(W, put, W * f + z + 1) = <<put[f + 1], z + 1>>
      BY ONLY W \in {2, 3, 4}, f \in Nat, z \in 0..(W - 1), PlaceIs
    <2>3. f + 1 = e + 2 /\ z + 1 = 1
      BY <2>1
    <2> QED  BY <1>1, <1>2, <1>4, <2>1, <2>2, <2>3
  <1> QED  BY <1>3, <1>4

(* How many are read at each byte of the six that repeat.                   *)
LEMMA Phases ==
    ASSUME NEW ph \in 0..5, NEW q, q = (ph + 1) % 6
    PROVE  /\ q \in 0..5
           /\ (2 * ph) % 2 = 0 /\ (2 * q) % 2 = 0
           /\ ph % 2 = 0 => (2 * ph) % 4 = 0 /\ (2 * q) % 4 = 2
           /\ ph % 2 = 1 => (2 * ph) % 4 = 2 /\ (2 * q) % 4 = 0
           /\ ph % 3 = 0 => (2 * ph) % 3 = 0 /\ (2 * q) % 3 = 2
           /\ ph % 3 = 1 => (2 * ph) % 3 = 2 /\ (2 * q) % 3 = 1
           /\ ph % 3 = 2 => (2 * ph) % 3 = 1 /\ (2 * q) % 3 = 0
  <1>1. ph = 0 \/ ph = 1 \/ ph = 2 \/ ph = 3 \/ ph = 4 \/ ph = 5
    OBVIOUS
  <1> QED  BY <1>1

(* A byte of FIFO data is two nibbles: in a read that keeps to the format,  *)
(* the two that come next.                                                  *)
LEMMA ByteIs ==
    ASSUME IInv, ReadInv, ReadFifo, UNCHANGED reg
    PROVE  \E a, b \in Entry \X (1..4) :
             /\ Byte.nibbles = <<a, b>>
             /\ steady' =>
                  /\ a = Nibble(Len(out) + 1) /\ b = Nibble(Len(out) + 2)
                  /\ Len(out) + 2 = Width * (Len(put) - fifo'.count) + Begun'
                  /\ Begun' > 0 => fifo'.count > 0
  <1>1. PICK e \in Nat, n \in Nat, c \in Nat, ph \in 0..5 :
           /\ e = Len(put) - fifo.count /\ n = Len(out) /\ c = fifo.count
           /\ ph = fifo.phase /\ c > 0 /\ fifo'.phase = (ph + 1) % 6
           /\ fifo'.count = IF Byte.pop THEN c - 1 ELSE c
    <2>1. fifo.count \in Nat /\ fifo.count <= Len(put) /\ Len(put) \in Nat /\ Len(out) \in Nat
      BY CountIs, Moduli, LenProperties DEF ReadInv
    <2>2. /\ fifo.phase \in 0..5 /\ fifo.count > 0 /\ fifo'.phase = (fifo.phase + 1) % 6
          /\ fifo'.count = IF Byte.pop THEN fifo.count - 1 ELSE fifo.count
      BY TakenIs DEF ReadFifo
    <2>3. PICK e, n, c, ph : /\ e = Len(put) - fifo.count /\ n = Len(out)
                             /\ c = fifo.count /\ ph = fifo.phase
      OBVIOUS
    <2>4. e \in Nat /\ n \in Nat /\ c \in Nat
      BY <2>1, <2>3
    <2>5. /\ ph \in 0..5 /\ c > 0 /\ fifo'.phase = (ph + 1) % 6
          /\ fifo'.count = IF Byte.pop THEN c - 1 ELSE c
      BY <2>2, <2>3, Zenon
    <2> QED  BY <2>3, <2>4, <2>5, Zenon
  <1>2. PICK s, t \in Entry : /\ s = Slot(0) /\ t = Slot(1) /\ s = put[e + 1]
                              /\ c > 1 => t = put[e + 2]
    BY <1>1, HeadIs
  <1>3. Len(put) - fifo'.count = IF Byte.pop THEN e + 1 ELSE e
    BY <1>1, CountIs
  <1>4. steady' => n = Width * e + Begun /\ ~(reg.format = 12 /\ ph % 3 = 1 /\ c = 1)
    BY <1>1 DEF ReadFifo, ReadInv
  <1>5. Begun = (2 * ph) % Width /\ Begun' = (2 * ((ph + 1) % 6)) % Width
    BY <1>1 DEF Width, Begun
  <1>6. CASE reg.format = 8
    <2>1. Byte.nibbles = <<<<s, 1>>, <<s, 2>>>> /\ Byte.pop
      BY <1>1, <1>2, <1>6 DEF Byte
    <2>2. Width = 2 /\ Begun = 0 /\ Begun' = 0
      <3>1. Width = 2
        BY <1>6 DEF Width
      <3> QED  BY <1>5, <1>6, <3>1, Phases
    <2>3. <<s, 1>> \in Entry \X (1..4) /\ <<s, 2>> \in Entry \X (1..4)
      OBVIOUS
    <2>4. ASSUME steady'
          PROVE  /\ Nibble(n + 1) = <<s, 1>> /\ Nibble(n + 2) = <<s, 2>>
                 /\ n + 2 = Width * (Len(put) - fifo'.count) + Begun'
                 /\ Begun' > 0 => fifo'.count > 0
      <3>1. n = 2 * e + 0
        BY <1>1, <1>4, <2>2, <2>4
      <3>2. Nibble(n + 1) = <<put[e + 1], 0 + 1>> /\ Nibble(n + 2) = <<put[e + 1], 0 + 2>>
        BY <2>2, <3>1, NextTwo
      <3>3. Nibble(n + 1) = <<s, 1>> /\ Nibble(n + 2) = <<s, 2>>
        <4>1. 0 + 1 = 1 /\ 0 + 2 = 2
          OBVIOUS
        <4> QED  BY <1>2, <3>1, <3>2, <4>1
      <3>4. n + 2 = Width * (Len(put) - fifo'.count) + Begun'
        <4>1. Len(put) - fifo'.count = e + 1
          BY <1>3, <2>1
        <4>2. n + 2 = 2 * (e + 1) + 0
          BY <3>1
        <4> QED  BY <2>2, <4>1, <4>2
      <3>5. Begun' > 0 => fifo'.count > 0
        BY <1>1, <2>1, <2>2, <3>1
      <3> QED  BY <3>3, <3>4, <3>5
    <2> QED  BY <1>1, <2>1, <2>3, <2>4
  <1>7. CASE reg.format = 16 /\ ph % 2 = 0
    <2>1. Byte.nibbles = <<<<s, 1>>, <<s, 2>>>> /\ ~Byte.pop
      BY <1>1, <1>2, <1>7 DEF Byte
    <2>2. Width = 4 /\ Begun = 0 /\ Begun' = 2
      <3>1. Width = 4
        BY <1>7 DEF Width
      <3> QED  BY <1>5, <1>7, <3>1, Phases
    <2>3. <<s, 1>> \in Entry \X (1..4) /\ <<s, 2>> \in Entry \X (1..4)
      OBVIOUS
    <2>4. ASSUME steady'
          PROVE  /\ Nibble(n + 1) = <<s, 1>> /\ Nibble(n + 2) = <<s, 2>>
                 /\ n + 2 = Width * (Len(put) - fifo'.count) + Begun'
                 /\ Begun' > 0 => fifo'.count > 0
      <3>1. n = 4 * e + 0
        BY <1>1, <1>4, <2>2, <2>4
      <3>2. Nibble(n + 1) = <<put[e + 1], 0 + 1>> /\ Nibble(n + 2) = <<put[e + 1], 0 + 2>>
        BY <2>2, <3>1, NextTwo
      <3>3. Nibble(n + 1) = <<s, 1>> /\ Nibble(n + 2) = <<s, 2>>
        <4>1. 0 + 1 = 1 /\ 0 + 2 = 2
          OBVIOUS
        <4> QED  BY <1>2, <3>1, <3>2, <4>1
      <3>4. n + 2 = Width * (Len(put) - fifo'.count) + Begun'
        <4>1. Len(put) - fifo'.count = e
          BY <1>3, <2>1
        <4>2. n + 2 = 4 * e + 2
          BY <3>1
        <4> QED  BY <2>2, <4>1, <4>2
      <3>5. Begun' > 0 => fifo'.count > 0
        BY <1>1, <2>1, <2>2, <3>1
      <3> QED  BY <3>3, <3>4, <3>5
    <2> QED  BY <1>1, <2>1, <2>3, <2>4
  <1>8. CASE reg.format = 16 /\ ph % 2 = 1
    <2>1. Byte.nibbles = <<<<s, 3>>, <<s, 4>>>> /\ Byte.pop
      BY <1>1, <1>2, <1>8 DEF Byte
    <2>2. Width = 4 /\ Begun = 2 /\ Begun' = 0
      <3>1. Width = 4
        BY <1>8 DEF Width
      <3> QED  BY <1>5, <1>8, <3>1, Phases
    <2>3. <<s, 3>> \in Entry \X (1..4) /\ <<s, 4>> \in Entry \X (1..4)
      OBVIOUS
    <2>4. ASSUME steady'
          PROVE  /\ Nibble(n + 1) = <<s, 3>> /\ Nibble(n + 2) = <<s, 4>>
                 /\ n + 2 = Width * (Len(put) - fifo'.count) + Begun'
                 /\ Begun' > 0 => fifo'.count > 0
      <3>1. n = 4 * e + 2
        BY <1>1, <1>4, <2>2, <2>4
      <3>2. Nibble(n + 1) = <<put[e + 1], 2 + 1>> /\ Nibble(n + 2) = <<put[e + 1], 2 + 2>>
        BY <2>2, <3>1, NextTwo
      <3>3. Nibble(n + 1) = <<s, 3>> /\ Nibble(n + 2) = <<s, 4>>
        <4>1. 2 + 1 = 3 /\ 2 + 2 = 4
          OBVIOUS
        <4> QED  BY <1>2, <3>1, <3>2, <4>1
      <3>4. n + 2 = Width * (Len(put) - fifo'.count) + Begun'
        <4>1. Len(put) - fifo'.count = e + 1
          BY <1>3, <2>1
        <4>2. n + 2 = 4 * (e + 1) + 0
          BY <3>1
        <4> QED  BY <2>2, <4>1, <4>2
      <3>5. Begun' > 0 => fifo'.count > 0
        BY <1>1, <2>1, <2>2, <3>1
      <3> QED  BY <3>3, <3>4, <3>5
    <2> QED  BY <1>1, <2>1, <2>3, <2>4
  <1>9. CASE reg.format = 12 /\ ph % 3 = 0
    <2>1. Byte.nibbles = <<<<s, 1>>, <<s, 2>>>> /\ ~Byte.pop
      BY <1>1, <1>2, <1>9 DEF Byte
    <2>2. Width = 3 /\ Begun = 0 /\ Begun' = 2
      <3>1. Width = 3
        BY <1>9 DEF Width
      <3> QED  BY <1>5, <1>9, <3>1, Phases
    <2>3. <<s, 1>> \in Entry \X (1..4) /\ <<s, 2>> \in Entry \X (1..4)
      OBVIOUS
    <2>4. ASSUME steady'
          PROVE  /\ Nibble(n + 1) = <<s, 1>> /\ Nibble(n + 2) = <<s, 2>>
                 /\ n + 2 = Width * (Len(put) - fifo'.count) + Begun'
                 /\ Begun' > 0 => fifo'.count > 0
      <3>1. n = 3 * e + 0
        BY <1>1, <1>4, <2>2, <2>4
      <3>2. Nibble(n + 1) = <<put[e + 1], 0 + 1>> /\ Nibble(n + 2) = <<put[e + 1], 0 + 2>>
        BY <2>2, <3>1, NextTwo
      <3>3. Nibble(n + 1) = <<s, 1>> /\ Nibble(n + 2) = <<s, 2>>
        <4>1. 0 + 1 = 1 /\ 0 + 2 = 2
          OBVIOUS
        <4> QED  BY <1>2, <3>1, <3>2, <4>1
      <3>4. n + 2 = Width * (Len(put) - fifo'.count) + Begun'
        <4>1. Len(put) - fifo'.count = e
          BY <1>3, <2>1
        <4>2. n + 2 = 3 * e + 2
          BY <3>1
        <4> QED  BY <2>2, <4>1, <4>2
      <3>5. Begun' > 0 => fifo'.count > 0
        BY <1>1, <2>1, <2>2, <3>1
      <3> QED  BY <3>3, <3>4, <3>5
    <2> QED  BY <1>1, <2>1, <2>3, <2>4
  <1>10. CASE reg.format = 12 /\ ph % 3 = 1
    <2>1. Byte.nibbles = <<<<s, 3>>, <<t, 1>>>> /\ Byte.pop
      BY <1>1, <1>2, <1>10 DEF Byte
    <2>2. Width = 3 /\ Begun = 2 /\ Begun' = 1
      <3>1. Width = 3
        BY <1>10 DEF Width
      <3> QED  BY <1>5, <1>10, <3>1, Phases
    <2>3. <<s, 3>> \in Entry \X (1..4) /\ <<t, 1>> \in Entry \X (1..4)
      OBVIOUS
    <2>4. ASSUME steady'
          PROVE  /\ Nibble(n + 1) = <<s, 3>> /\ Nibble(n + 2) = <<t, 1>>
                 /\ n + 2 = Width * (Len(put) - fifo'.count) + Begun'
                 /\ Begun' > 0 => fifo'.count > 0
      <3>1. n = 3 * e + 2 /\ c > 1
        BY <1>1, <1>4, <1>10, <2>2, <2>4
      <3>2. Nibble(n + 1) = <<put[e + 1], 2 + 1>> /\ Nibble(n + 2) = <<put[e + 2], 1>>
        BY <2>2, <3>1, NextTwo
      <3>3. Nibble(n + 1) = <<s, 3>> /\ Nibble(n + 2) = <<t, 1>>
        <4>1. 2 + 1 = 3
          OBVIOUS
        <4> QED  BY <1>2, <3>1, <3>2, <4>1
      <3>4. n + 2 = Width * (Len(put) - fifo'.count) + Begun'
        <4>1. Len(put) - fifo'.count = e + 1
          BY <1>3, <2>1
        <4>2. n + 2 = 3 * (e + 1) + 1
          BY <3>1
        <4> QED  BY <2>2, <4>1, <4>2
      <3>5. Begun' > 0 => fifo'.count > 0
        BY <1>1, <2>1, <2>2, <3>1
      <3> QED  BY <3>3, <3>4, <3>5
    <2> QED  BY <1>1, <2>1, <2>3, <2>4
  <1>11. CASE reg.format = 12 /\ ph % 3 = 2
    <2>1. Byte.nibbles = <<<<s, 2>>, <<s, 3>>>> /\ Byte.pop
      BY <1>1, <1>2, <1>11 DEF Byte
    <2>2. Width = 3 /\ Begun = 1 /\ Begun' = 0
      <3>1. Width = 3
        BY <1>11 DEF Width
      <3> QED  BY <1>5, <1>11, <3>1, Phases
    <2>3. <<s, 2>> \in Entry \X (1..4) /\ <<s, 3>> \in Entry \X (1..4)
      OBVIOUS
    <2>4. ASSUME steady'
          PROVE  /\ Nibble(n + 1) = <<s, 2>> /\ Nibble(n + 2) = <<s, 3>>
                 /\ n + 2 = Width * (Len(put) - fifo'.count) + Begun'
                 /\ Begun' > 0 => fifo'.count > 0
      <3>1. n = 3 * e + 1
        BY <1>1, <1>4, <2>2, <2>4
      <3>2. Nibble(n + 1) = <<put[e + 1], 1 + 1>> /\ Nibble(n + 2) = <<put[e + 1], 1 + 2>>
        BY <2>2, <3>1, NextTwo
      <3>3. Nibble(n + 1) = <<s, 2>> /\ Nibble(n + 2) = <<s, 3>>
        <4>1. 1 + 1 = 2 /\ 1 + 2 = 3
          OBVIOUS
        <4> QED  BY <1>2, <3>1, <3>2, <4>1
      <3>4. n + 2 = Width * (Len(put) - fifo'.count) + Begun'
        <4>1. Len(put) - fifo'.count = e + 1
          BY <1>3, <2>1
        <4>2. n + 2 = 3 * (e + 1) + 0
          BY <3>1
        <4> QED  BY <2>2, <4>1, <4>2
      <3>5. Begun' > 0 => fifo'.count > 0
        BY <1>1, <2>1, <2>2, <3>1
      <3> QED  BY <3>3, <3>4, <3>5
    <2> QED  BY <1>1, <2>1, <2>3, <2>4
  <1>12. reg.format \in {8, 12, 16} /\ ph % 2 \in 0..1 /\ ph % 3 \in 0..2
    <2>1. reg.format \in {8, 12, 16}
      BY DEF IInv, TypeOK
    <2>2. ph % 2 \in 0..1 /\ ph % 3 \in 0..2
      OBVIOUS
    <2> QED  BY <2>1, <2>2
  <1> QED  BY <1>6, <1>7, <1>8, <1>9, <1>10, <1>11, <1>12

LEMMA Quarter ==
    ASSUME NEW f \in {8, 12, 16}
    PROVE  f \div 4 \in {2, 3, 4}
  <1>1. 8 \div 4 = 2 /\ 12 \div 4 = 3 /\ 16 \div 4 = 4
    OBVIOUS
  <1> QED  BY <1>1

LEMMA WidthIs ==
    ASSUME IInv
    PROVE  Width \in {2, 3, 4} /\ Begun \in 0..(Width - 1)
  <1>1. PICK f \in {8, 12, 16} : f = reg.format
    BY DEF IInv, TypeOK
  <1>2. PICK ph \in 0..5 : ph = fifo.phase
    BY CountIs DEF Fifos
  <1>4. Width \in {2, 3, 4}
    BY <1>1, Quarter DEF Width
  <1>5. PICK W \in {2, 3, 4} : W = Width
    BY <1>4
  <1>6. (2 * ph) % W \in 0..(W - 1)
    <2>1. CASE W = 2
      BY <2>1
    <2>2. CASE W = 3
      BY <2>2
    <2>3. CASE W = 4
      BY <2>3
    <2> QED  BY <2>1, <2>2, <2>3
  <1> QED  BY <1>2, <1>4, <1>5, <1>6 DEF Begun

LEMMA InitRead == Init => ReadInv
  <1> SUFFICES ASSUME Init PROVE ReadInv
    OBVIOUS
  <1>1. /\ out = <<>> /\ put = <<>> /\ fifo.phase = 0 /\ fifo.count = 0
        /\ Len(out) = 0 /\ Len(put) = 0
    BY DEF Init
  <1>2. Begun \in 0..(Width - 1) /\ Width \in {2, 3, 4}
    BY InitInv, WidthIs
  <1>3. Begun = 0
    <2>1. (2 * 0) % 2 = 0 /\ (2 * 0) % 3 = 0 /\ (2 * 0) % 4 = 0
      OBVIOUS
    <2> QED  BY <1>1, <1>2, <2>1 DEF Begun
  <1>4. out \in Seq(Entry \X (1..4))
    BY <1>1
  <1> QED  BY <1>1, <1>2, <1>3, <1>4 DEF ReadInv

(* A byte of the FIFO.                                                      *)
LEMMA ReadFifoReads == IInv /\ ReadInv /\ ReadFifo /\ UNCHANGED reg => ReadInv'
  <1> SUFFICES ASSUME IInv, ReadInv, ReadFifo, UNCHANGED reg PROVE ReadInv'
    OBVIOUS
  <1>1. PICK a \in Entry \X (1..4), b \in Entry \X (1..4) :
           /\ Byte.nibbles = <<a, b>>
           /\ steady' =>
                /\ a = Nibble(Len(out) + 1) /\ b = Nibble(Len(out) + 2)
                /\ Len(out) + 2 = Width * (Len(put) - fifo'.count) + Begun'
                /\ Begun' > 0 => fifo'.count > 0
    BY ByteIs
  <1>2. PICK n \in Nat : n = Len(out)
    BY LenProperties DEF ReadInv
  <1>3. out' = out \o <<a, b>>
    BY <1>1 DEF ReadFifo
  <1>4. out \in Seq(Entry \X (1..4))
    BY DEF ReadInv
  <1>5. /\ out' \in Seq(Entry \X (1..4)) /\ Len(out') = n + 2
        /\ \A i \in 1..n : out'[i] = out[i]
        /\ out'[n + 1] = a /\ out'[n + 2] = b
    BY <1>2, <1>3, <1>4, TwoMore
  <1>6. UNCHANGED <<put, Width>>
    BY DEF ReadFifo, Width
  <1>7. put # <<>>
    <2>1. fifo.count \in Nat /\ fifo.count <= Len(put) /\ fifo.count > 0
      BY CountIs, Moduli DEF ReadFifo
    <2> QED  BY <2>1
  <1>8. ASSUME steady'
        PROVE  /\ Len(out') = Width' * (Len(put') - fifo'.count) + Begun'
               /\ Begun' > 0 => fifo'.count > 0
               /\ \A i \in 1..Len(out') : out'[i] = (Nibble(i))'
    <2>1. steady /\ \A i \in 1..n : out[i] = Nibble(i)
      BY <1>2, <1>8 DEF ReadFifo, ReadInv
    <2>2. a = Nibble(n + 1) /\ b = Nibble(n + 2)
      BY <1>1, <1>2, <1>8
    <2>3. ASSUME NEW i \in 1..(n + 2)
          PROVE  out'[i] = Nibble(i)
      <3>1. i \in 1..n \/ i = n + 1 \/ i = n + 2
        OBVIOUS
      <3> QED  BY <1>5, <2>1, <2>2, <3>1
    <2>4. \A i \in 1..Len(out') : out'[i] = (Nibble(i))'
      BY <1>5, <1>6, <2>3 DEF Nibble
    <2> QED  BY <1>1, <1>2, <1>5, <1>6, <1>8, <2>4
  <1> QED  BY <1>5, <1>6, <1>7, <1>8 DEF ReadInv

(* A sample: what was read stays where it was.                              *)
LEMMA StoreReads ==
    ASSUME IInv, ReadInv, SampleStore, UNCHANGED reg, ticks < MaxTicks
    PROVE  ReadInv'
  <1>1. PICK es \in Seq(Entry) : es = Sample /\ Len(es) \in 1..4 /\ fifo' = Stored(fifo, es)
    <2>1. reg.select \in DOMAIN Channels
      BY DEF IInv, TypeOK
    <2>2. ticks + 1 \in 0..MaxTicks
      BY Adxl36xAssumption DEF IInv, HistInv
    <2> QED  BY <2>1, <2>2, EntriesAre DEF Sample, SampleStore
  <1>2. /\ fifo \in Fifos /\ fifo.count \in Nat /\ fifo.count <= Len(put)
        /\ put \in Seq(Entry) /\ Len(put) \in Nat
    BY CountIs, Moduli
  <1>3. PICK m \in Nat, c \in Nat, k \in 1..4 :
           m = Len(put) /\ c = fifo.count /\ k = Len(es) /\ c <= m
    BY <1>1, <1>2
  <1>4. fifo'.count = c + k /\ fifo'.phase = fifo.phase
    BY <1>1, <1>2, <1>3 DEF Stored, Fifos
  <1>5. put' = put \o es /\ Len(put') = m + k /\ UNCHANGED <<out, steady>>
    BY <1>1, <1>2, <1>3, ConcatProperties DEF SampleStore
  <1>6. put' # <<>>
    BY <1>3, <1>5
  <1>7. UNCHANGED <<Width, Begun>>
    BY <1>4 DEF Width, Begun
  <1>8. PICK W \in {2, 3, 4} : W = Width /\ Begun \in 0..(W - 1)
    BY WidthIs
  <1>9. ASSUME steady
        PROVE  /\ Len(out) = Width * (Len(put') - fifo'.count) + Begun
               /\ \A i \in 1..Len(out) : out[i] = (Nibble(i))'
    <2>1. /\ Len(out) = W * (m - c) + Begun /\ (Begun > 0 => c > 0)
          /\ \A i \in 1..Len(out) : out[i] = Nibble(i)
      BY <1>3, <1>8, <1>9 DEF ReadInv
    <2>2. Len(put') - fifo'.count = m - c
      <3>1. (m + k) - (c + k) = m - c
        OBVIOUS
      <3> QED  BY <1>4, <1>5, <3>1
    <2>3. Len(out) <= W * m
      <3>1. PICK g \in Nat : g = m - c /\ (Begun > 0 => g + 1 <= m) /\ g <= m
        BY <1>3, <2>1
      <3>2. CASE W = 2
        BY <1>8, <2>1, <3>1, <3>2
      <3>3. CASE W = 3
        BY <1>8, <2>1, <3>1, <3>3
      <3>4. CASE W = 4
        BY <1>8, <2>1, <3>1, <3>4
      <3> QED  BY <3>2, <3>3, <3>4
    <2>4. ASSUME NEW i \in 1..Len(out)
          PROVE  out[i] = (Nibble(i))'
      <3>1. i \in 1..(W * m)
        BY <2>3, <1>2, LenProperties DEF ReadInv
      <3>2. Place(W, put \o es, i) = Place(W, put, i)
        BY <1>1, <1>2, <1>3, <3>1, PlaceStays
      <3>3. Nibble(i) = Place(W, put, i)
        BY <1>8 DEF Nibble, Place
      <3>4. (Nibble(i))' = Place(W, put \o es, i)
        BY <1>5, <1>7, <1>8 DEF Nibble, Place
      <3> QED  BY <2>1, <3>2, <3>3, <3>4
    <2> QED  BY <1>8, <2>1, <2>2, <2>4
  <1>10. Begun > 0 => fifo'.count > 0
    <2>1. c + k > 0
      BY <1>3
    <2> QED  BY <1>4, <2>1
  <1> QED  BY <1>5, <1>6, <1>7, <1>9, <1>10 DEF ReadInv

(* The other steps.                                                         *)
LEMMA OthersRead ==
    ASSUME IInv, IInv', ReadInv, UNCHANGED <<out, fifo, put>>,
           reg'.format = reg.format \/ put = <<>> \/ ~steady', steady' => steady
    PROVE  ReadInv'
  <1>1. CASE reg'.format = reg.format \/ ~steady'
    <2>1. reg'.format = reg.format => UNCHANGED <<Width, Begun>>
      BY DEF Width, Begun
    <2>2. reg'.format = reg.format => \A i : (Nibble(i))' = Nibble(i)
      BY DEF Width, Nibble
    <2> QED  BY <1>1, <2>1, <2>2 DEF ReadInv
  <1>2. CASE put = <<>>
    <2>1. /\ out' = <<>> /\ put' = <<>> /\ fifo'.phase = 0
          /\ Len(out') = 0 /\ Len(put') = 0
      BY <1>2 DEF ReadInv
    <2>2. fifo'.count = 0
      <3>1. fifo.count \in Nat /\ fifo.count <= Len(put)
        BY CountIs, Moduli
      <3> QED  BY <1>2, <2>1, <3>1
    <2>3. PICK W \in {2, 3, 4} : W = Width'
      <3>1. PICK f \in {8, 12, 16} : f = reg'.format
        BY DEF IInv, TypeOK
      <3> QED  BY <3>1, Quarter DEF Width
    <2>4. Begun' = 0
      <3>1. Begun' = (2 * 0) % W
        BY <2>1, <2>3 DEF Begun
      <3>2. (2 * 0) % 2 = 0 /\ (2 * 0) % 3 = 0 /\ (2 * 0) % 4 = 0
        OBVIOUS
      <3> QED  BY <3>1, <3>2
    <2>5. out' \in Seq(Entry \X (1..4))
      BY <2>1
    <2>6. Len(out') = Width' * (Len(put') - fifo'.count) + Begun'
      <3>1. W * (0 - 0) + 0 = 0
        OBVIOUS
      <3> QED  BY <2>1, <2>2, <2>3, <2>4, <3>1
    <2>7. ~(Begun' > 0) /\ \A i \in 1..Len(out') : out'[i] = (Nibble(i))'
      BY <2>1, <2>4
    <2> QED  BY <2>1, <2>5, <2>6, <2>7 DEF ReadInv
  <1> QED  BY <1>1, <1>2

LEMMA NextRead == IInv /\ ReadInv /\ [Next]_vars => ReadInv'
  <1> SUFFICES ASSUME IInv, ReadInv, [Next]_vars PROVE ReadInv'
    OBVIOUS
  <1>1. IInv'
    BY NextStep
  <1>2. CASE Read /\ ReadFifo
    BY <1>2, ReadFifoReads DEF Read
  <1>3. CASE TimerProcess
    <2>1. UNCHANGED reg
      BY <1>3 DEF TimerProcess
    <2>2. CASE run /\ pending
      <3>1. ticks < MaxTicks
        BY <2>2 DEF IInv, TimerInv
      <3>2. SampleStore \/ SampleNone
        BY <1>3, <2>2 DEF TimerProcess, Tick
      <3>3. CASE SampleStore
        BY <2>1, <3>1, <3>3, StoreReads
      <3>4. CASE SampleNone
        <4>1. UNCHANGED <<out, fifo, put, steady>>
          BY <3>4 DEF SampleNone, history
        <4> QED  BY <1>1, <2>1, <4>1, OthersRead
      <3> QED  BY <3>2, <3>3, <3>4
    <2>3. CASE ~(run /\ pending)
      <3>1. UNCHANGED <<out, fifo, put, steady>>
        BY <1>3, <2>3 DEF TimerProcess, history
      <3> QED  BY <1>1, <2>1, <3>1, OthersRead
    <2> QED  BY <2>2, <2>3
  <1>4. CASE Write
    <2>1. /\ UNCHANGED <<out, fifo, put>>
          /\ steady' = (steady /\ (reg'.format = reg.format \/ put = <<>>))
      BY <1>4 DEF Write
    <2>2. (steady' => steady) /\ (reg'.format = reg.format \/ put = <<>> \/ ~steady')
      BY <2>1
    <2> QED  BY <1>1, <2>1, <2>2, OthersRead
  <1>5. CASE Read /\ ~ReadFifo
    <2>1. UNCHANGED <<out, fifo, put, steady, reg>>
      BY <1>5 DEF Read, ReadStatus, ReadPlain, history
    <2> QED  BY <1>1, <2>1, OthersRead
  <1>6. CASE Expire \/ TimerWait \/ Stop \/ CmLost \/ MainExit \/ UNCHANGED vars
    <2>1. UNCHANGED <<out, fifo, put, steady, reg>>
      BY <1>6 DEF Expire, TimerWait, Stop, CmLost, MainExit, vars, history
    <2> QED  BY <1>1, <2>1, OthersRead
  <1> QED  BY <1>2, <1>3, <1>4, <1>5, <1>6 DEF Next, TimerThread

(* What NibblesInOrder says of the entries gone.                            *)
LEMMA ReadIsOrder == IInv /\ ReadInv => NibblesInOrder
  <1> SUFFICES ASSUME IInv, ReadInv, steady
               PROVE  /\ Len(out) \div Width = Len(put) - fifo.count
                      /\ \A i \in DOMAIN out : out[i] = Nibble(i)
    BY DEF NibblesInOrder
  <1>1. PICK W \in {2, 3, 4} : W = Width /\ Begun \in 0..(W - 1)
    BY WidthIs
  <1>2. PICK e \in Nat : e = Len(put) - fifo.count
    BY CountIs, Moduli
  <1>3. PICK b \in 0..(W - 1) : b = Begun
    BY <1>1
  <1>4. Len(out) = W * e + b /\ \A i \in 1..Len(out) : out[i] = Nibble(i)
    BY <1>1, <1>2, <1>3 DEF ReadInv
  <1>5. (W * e + b) \div W = e
    <2>1. CASE W = 2
      BY <2>1
    <2>2. CASE W = 3
      BY <2>2
    <2>3. CASE W = 4
      BY <2>3
    <2> QED  BY <2>1, <2>2, <2>3
  <1>6. DOMAIN out = 1..Len(out)
    BY LenProperties DEF ReadInv
  <1> QED  BY <1>1, <1>2, <1>4, <1>5, <1>6

(* The driver that keeps to one format, and reads 12-bit entries in pairs,  *)
(* gets every nibble of every entry once and in the order of the samples,   *)
(* for any number of them, wherever the timer's ticks fall between the      *)
(* bytes: adi_adxl36x_i2c_read pops an entry with its last byte, by the     *)
(* bytes counted and the format, and never before.                          *)
THEOREM NibblesRight == Spec => []NibblesInOrder
  <1>1. Spec => [](IInv /\ ReadInv)
    BY InitInv, NextStep, InitRead, NextRead, PTL DEF Spec
  <1> QED  BY <1>1, ReadIsOrder, PTL
-----------------------------------------------------------------------------
(* The clocks (Rtc). *)

(* Of some places in a sequence one is the first.                           *)
LEMMA LeastOf ==
    ASSUME NEW T, T \subseteq Nat, T # {}
    PROVE  \E j \in T : \A k \in T : j <= k
  <1> DEFINE R == {p \in Nat \X Nat : p[1] < p[2]}
  <1>1. IsWellFoundedOn(R, Nat)
    BY NatLessThanWellFounded DEF OpToRel
  <1>2. \A j, k \in Nat : <<k, j>> \in R <=> k < j
    OBVIOUS
  <1> HIDE DEF R
  <1>3. PICK j \in T : \A k \in T : ~(<<k, j>> \in R)
    BY <1>1, WFMin
  <1>4. ASSUME NEW k \in T PROVE j <= k
    <2>1. j \in Nat /\ k \in Nat
      OBVIOUS
    <2>2. ~(k < j)
      BY <1>2, <1>3, <2>1
    <2> QED  BY <2>1, <2>2
  <1> QED  BY <1>4

(* What holds at 0 and goes on from i to i + 1 holds up to N.               *)
LEMMA Climb ==
    ASSUME NEW N \in Nat, NEW T, 0 \in T,
           \A i \in 0..(N - 1) : i \in T => i + 1 \in T
    PROVE  \A i \in 0..N : i \in T
  <1> DEFINE U == {i \in 0..N : i \notin T}
  <1>1. U = {}
    <2> SUFFICES ASSUME U # {} PROVE FALSE
      OBVIOUS
    <2>1. PICK j \in U : \A k \in U : j <= k
      <3>1. U \subseteq Nat
        OBVIOUS
      <3> HIDE DEF U
      <3> QED  BY <3>1, LeastOf
    <2>2. j # 0 /\ j - 1 \in 0..(N - 1) /\ (j - 1) + 1 = j
      OBVIOUS
    <2>3. j - 1 \notin T
      BY <2>2
    <2> QED  BY <2>1, <2>2, <2>3
  <1> QED  BY <1>1

(* A recursion over 0..N defines a function.                                *)
Follows(f, s, N, F) == f[0] = s /\ \A i \in 1..N : f[i] = F[<<f[i - 1], i>>]
LEMMA Recursion ==
    ASSUME NEW S, NEW s \in S, NEW N \in Nat, NEW F \in [S \X (1..N) -> S]
    PROVE  \E f \in [0..N -> S] : Follows(f, s, N, F)
  <1> DEFINE Upto(n) == \E f \in [0..n -> S] :
                 /\ f[0] = s
                 /\ \A i \in 1..n : f[i] = F[<<f[i - 1], i>>]
             T == {n \in 0..N : Upto(n)}
  <1>1. 0 \in T
    <2>1. PICK f : f = [i \in 0..0 |-> s]
      OBVIOUS
    <2>2. f \in [0..0 -> S] /\ f[0] = s
      BY <2>1
    <2>3. \A i \in 1..0 : FALSE
      OBVIOUS
    <2>4. Upto(0)
      BY <2>2, <2>3
    <2> QED  BY <2>4
  <1>2. ASSUME NEW n \in 0..(N - 1), n \in T PROVE n + 1 \in T
    <2>1. PICK f \in [0..n -> S] : /\ f[0] = s
                                   /\ \A i \in 1..n : f[i] = F[<<f[i - 1], i>>]
      BY <1>2
    <2>2. PICK v \in S : v = F[<<f[n], n + 1>>]
      <3>1. <<f[n], n + 1>> \in S \X (1..N)
        OBVIOUS
      <3> QED  BY <3>1
    <2>3. PICK g : g = [i \in 0..(n + 1) |-> IF i = n + 1 THEN v ELSE f[i]]
      OBVIOUS
    <2>4. g \in [0..(n + 1) -> S]
      BY <2>3
    <2>5. g[n + 1] = v /\ \A i \in 0..n : g[i] = f[i]
      BY <2>3
    <2>6. g[0] = s
      BY <2>1, <2>5
    <2>7. ASSUME NEW i \in 1..(n + 1) PROVE g[i] = F[<<g[i - 1], i>>]
      <3>1. CASE i = n + 1
        BY <2>2, <2>5, <3>1
      <3>2. CASE i # n + 1
        <4>1. i \in 1..n /\ i \in 0..n /\ i - 1 \in 0..n
          BY <3>2
        <4> QED  BY <2>1, <2>5, <4>1
      <3> QED  BY <3>1, <3>2
    <2>8. Upto(n + 1)
      BY <2>4, <2>6, <2>7
    <2> QED  BY <2>8
  <1>3. N \in T
    <2> HIDE DEF T
    <2> QED  BY <1>1, <1>2, Climb
  <1> QED  BY <1>3 DEF Follows

(* The registers and twelve_hour_flag.                                      *)
Registers == [regs : [Cells -> 0..255], twelve : BOOLEAN]

(* What a byte leaves is a byte.                                            *)
StatusByte(v) == v \in 0..255 /\ v % 8 < 4 /\ (v \div 16) \in {0, 8}
FlagsAnd(v, old, b) ==
    \A mask \in {1, 2} : Has(v, mask) <=> Has(old, mask) /\ Has(b, mask)
LEMMA StatusIs ==
    ASSUME NEW old \in 0..255, NEW b \in 0..255,
           NEW v, v = Status3231(old, b) \/ v = Status3234(old, b)
    PROVE  StatusByte(v) /\ FlagsAnd(v, old, b)
  BY DEF StatusByte, FlagsAnd, Status3231, Status3234, WithBit, Has

LEMMA StoredIs ==
    ASSUME NEW c, NEW a, NEW old \in 0..255, NEW b \in 0..255
    PROVE  StoredAs(c, a, old, b) \in 0..255
  <1>1. PICK x, y : x = Status3231(old, b) /\ y = Status3234(old, b)
    OBVIOUS
  <1>2. x \in 0..255 /\ y \in 0..255
    BY <1>1, StatusIs DEF StatusByte
  <1>3. b % 32 \in 0..255
    OBVIOUS
  <1> QED  BY <1>1, <1>2, <1>3 DEF StoredAs

Updated(r, c, s, a, b) ==
    /\ r \in Registers
    /\ \A k \in Cells : r.regs[k] =
           IF Cell(a) = k THEN StoredAs(c, a, s.regs[k], b) ELSE s.regs[k]
LEMMA PutIs ==
    ASSUME NEW c, NEW s \in Registers, NEW a \in 0..(NREGS - 1), NEW b \in 0..255
    PROVE  Updated(Put(c, s, a, b), c, s, a, b)
  <1>1. PICK r, t : s.regs = r /\ s.twelve = t
    OBVIOUS
  <1>2. r \in [Cells -> 0..255] /\ t \in BOOLEAN
    BY <1>1 DEF Registers
  <1>3. CASE Cell(a) \in Cells
    <2>1. PICK k, v : k \in Cells /\ k = Cell(a) /\ v = StoredAs(c, a, r[k], b)
      BY <1>3
    <2>2. v \in 0..255
      BY <1>2, <2>1, StoredIs
    <2>3. PICK q : q = [r EXCEPT ![k] = v]
      OBVIOUS
    <2>4. q \in [Cells -> 0..255] /\ \A j \in Cells : q[j] = IF j = k THEN v ELSE r[j]
      BY <1>2, <2>2, <2>3
    <2>5. PICK u \in BOOLEAN : Put(c, s, a, b) = [regs |-> q, twelve |-> u]
      BY <1>1, <1>2, <1>3, <2>1, <2>3 DEF Put, Has
    <2> QED  BY <1>1, <2>1, <2>4, <2>5 DEF Registers, Updated
  <1>4. CASE Cell(a) \notin Cells
    <2>1. PICK u \in BOOLEAN : Put(c, s, a, b) = [regs |-> r, twelve |-> u]
      BY <1>1, <1>2, <1>4 DEF Put, Has
    <2> QED  BY <1>1, <1>2, <1>4, <2>1 DEF Registers, Updated
  <1> QED  BY <1>3, <1>4

(* A byte of a write and the register it goes to.                           *)
LEMMA AccessIs ==
    ASSUME NEW a \in 0..NREGS, NEW d \in Seq(0..255), NEW i \in 1..Len(d)
    PROVE  RegAt(a, i) \in 0..(NREGS - 1) /\ d[i] \in 0..255
  <1>1. RegAt(a, i) \in 0..(NREGS - 1)
    BY LenProperties DEF RegAt, NREGS
  <1>2. d[i] \in 0..255
    BY ElementOfSeq
  <1> QED  BY <1>1, <1>2

(* PutAll is what its loop does, byte by byte.                              *)
Looped(f, c, s, a, d) ==
    /\ f[0] = s /\ f[Len(d)] = PutAll(c, s, a, d)
    /\ \A i \in 1..Len(d) : f[i] = Put(c, f[i - 1], RegAt(a, i), d[i])
LEMMA LoopIs ==
    ASSUME NEW c, NEW s \in Registers, NEW a \in 0..NREGS, NEW d \in Seq(0..255)
    PROVE  \E f \in [0..Len(d) -> Registers] : Looped(f, c, s, a, d)
  <1> DEFINE Step == [x \in Registers \X (1..Len(d)) |-> Put(c, x[1], RegAt(a, x[2]), d[x[2]])]
             Loop(f) == f = [i \in 0..Len(d) |-> IF i = 0 THEN s
                                       ELSE Put(c, f[i - 1], RegAt(a, i), d[i])]
  <1>1. PutAll(c, s, a, d) = (CHOOSE f : Loop(f))[Len(d)]
    BY DEF PutAll
  <1>2. ASSUME NEW i \in 1..Len(d), NEW r \in Registers
        PROVE  Put(c, r, RegAt(a, i), d[i]) \in Registers
    <2>1. RegAt(a, i) \in 0..(NREGS - 1) /\ d[i] \in 0..255
      BY AccessIs
    <2> QED  BY <2>1, PutIs DEF Updated
  <1>3. Step \in [Registers \X (1..Len(d)) -> Registers]
    BY <1>2
  <1>4. \A i \in 1..Len(d), r \in Registers : Step[<<r, i>>] = Put(c, r, RegAt(a, i), d[i])
    OBVIOUS
  <1>5. Len(d) \in Nat
    BY LenProperties
  <1> HIDE DEF Step
  <1>6. PICK f \in [0..Len(d) -> Registers] : Follows(f, s, Len(d), Step)
    BY <1>3, <1>5, Recursion
  <1>7. PICK n \in Nat : n = Len(d)
    BY <1>5
  <1>8. \A i \in 1..n : i - 1 \in 0..n /\ i # 0
    OBVIOUS
  <1>9. \A i \in 1..n : f[i - 1] \in Registers /\ f[i] = Put(c, f[i - 1], RegAt(a, i), d[i])
    <2>1. SUFFICES ASSUME NEW i \in 1..n
                   PROVE  f[i - 1] \in Registers /\ f[i] = Put(c, f[i - 1], RegAt(a, i), d[i])
      OBVIOUS
    <2>2. f[i - 1] \in Registers
      BY <1>7, <1>8
    <2>3. f[i] = Step[<<f[i - 1], i>>]
      BY <1>6, <1>7 DEF Follows
    <2> QED  BY <1>4, <1>7, <2>2, <2>3
  <1>10. Loop(f)
    <2>1. f = [i \in 0..n |-> f[i]]
      BY <1>7
    <2>2. \A i \in 0..n : f[i] = IF i = 0 THEN s ELSE Put(c, f[i - 1], RegAt(a, i), d[i])
      BY <1>6, <1>9 DEF Follows
    <2> QED  BY <1>7, <2>1, <2>2, Zenon
  <1>11. ASSUME NEW g, Loop(g) PROVE g[n] = f[n]
    <2>1. /\ g[0] = s
          /\ \A i \in 1..n : g[i] = Put(c, g[i - 1], RegAt(a, i), d[i])
      BY <1>7, <1>8, <1>11
    <2>2. \A i \in 0..n : g[i] = f[i]
      <3> DEFINE T == {i \in 0..n : g[i] = f[i]}
      <3>1. 0 \in T
        BY <1>6, <2>1 DEF Follows
      <3>2. ASSUME NEW i \in 0..(n - 1), i \in T PROVE i + 1 \in T
        <4>1. i + 1 \in 1..n /\ (i + 1) - 1 = i /\ i + 1 \in 0..n
          OBVIOUS
        <4>2. g[i + 1] = Put(c, g[i], RegAt(a, i + 1), d[i + 1])
          BY <2>1, <4>1
        <4>3. f[i + 1] = Put(c, f[i], RegAt(a, i + 1), d[i + 1])
          BY <1>9, <4>1
        <4> QED  BY <3>2, <4>1, <4>2, <4>3
      <3> HIDE DEF T
      <3>3. \A i \in 0..n : i \in T
        BY <3>1, <3>2, Climb
      <3> QED  BY <3>3 DEF T
    <2> QED  BY <2>2
  <1>12. PutAll(c, s, a, d) = f[n]
    <2>1. Loop(CHOOSE g : Loop(g))
      BY <1>10, Zenon
    <2> HIDE DEF Loop
    <2> QED  BY <1>1, <1>7, <1>11, <2>1
  <1> QED  BY <1>6, <1>7, <1>9, <1>12 DEF Follows, Looped
-----------------------------------------------------------------------------
(* What a write leaves in control and status.                               *)
Good(r) == /\ r \in Registers
           /\ r.regs[14] < 32
           /\ r.regs[Status] % 8 < 4 /\ (r.regs[Status] \div 16) \in {0, 8}

LEMMA PutGood ==
    ASSUME NEW c, NEW s, Good(s), NEW a \in 0..(NREGS - 1), NEW b \in 0..255
    PROVE  Good(Put(c, s, a, b))
  <1>1. s \in Registers /\ 14 \in Cells /\ Status \in Cells /\ Status = 15
    BY DEF Good, Cells, Status
  <1>2. PICK r : r = Put(c, s, a, b)
    OBVIOUS
  <1>3. Updated(r, c, s, a, b) /\ r \in Registers
    <2>1. Updated(r, c, s, a, b)
      BY <1>1, <1>2, PutIs
    <2> QED  BY <2>1 DEF Updated
  <1>4. /\ r.regs[14] = IF Cell(a) = 14 THEN StoredAs(c, a, s.regs[14], b) ELSE s.regs[14]
        /\ r.regs[15] = IF Cell(a) = 15 THEN StoredAs(c, a, s.regs[15], b) ELSE s.regs[15]
    BY <1>1, <1>3 DEF Updated
  <1>5. PICK o, x, y : /\ o \in 0..255 /\ o = s.regs[15]
                       /\ x = Status3231(o, b) /\ y = Status3234(o, b)
    BY <1>1 DEF Registers
  <1>6. /\ x % 8 < 4 /\ (x \div 16) \in {0, 8}
        /\ y % 8 < 4 /\ (y \div 16) \in {0, 8}
    BY <1>5, StatusIs DEF StatusByte
  <1>7. r.regs[14] < 32
    <2>1. CASE Cell(a) = 14
      <3>1. a = 14
        BY <2>1 DEF Cell
      <3>2. r.regs[14] = b % 32
        BY <1>1, <1>4, <2>1, <3>1 DEF StoredAs
      <3> QED  BY <3>2
    <2>2. CASE Cell(a) # 14
      BY <1>1, <1>4, <2>2 DEF Good
    <2> QED  BY <2>1, <2>2
  <1>8. r.regs[15] % 8 < 4 /\ (r.regs[15] \div 16) \in {0, 8}
    <2>1. CASE Cell(a) = 15
      <3>1. a = 15
        BY <2>1 DEF Cell
      <3>2. r.regs[15] = x \/ r.regs[15] = y
        BY <1>1, <1>4, <1>5, <2>1, <3>1 DEF StoredAs
      <3> QED  BY <1>6, <3>2
    <2>2. CASE Cell(a) # 15
      BY <1>1, <1>4, <2>2 DEF Good
    <2> QED  BY <2>1, <2>2
  <1> QED  BY <1>1, <1>2, <1>3, <1>7, <1>8 DEF Good

(* The alarm flags after i bytes: none has risen, and each that has fallen  *)
(* was written a zero.                                                      *)
Cleared(s, a, d, i, r) ==
    \A mask \in {1, 2} :
       /\ Has(r.regs[Status], mask) => Has(s.regs[Status], mask)
       /\ Has(s.regs[Status], mask) /\ ~Has(r.regs[Status], mask) =>
             \E j \in 1..i : RegAt(a, j) = Status /\ ~Has(d[j], mask)

(* The other registers after i bytes: the last byte that went to each.      *)
LastByte(s, a, d, i, r, k) ==
    \/ r.regs[k] = s.regs[k] /\ \A j \in 1..i : Cell(RegAt(a, j)) # k
    \/ \E j \in 1..i : /\ Cell(RegAt(a, j)) = k
                       /\ \A m \in (j + 1)..i : Cell(RegAt(a, m)) # k
                       /\ r.regs[k] = IF k = 14 THEN d[j] % 32 ELSE d[j]

LEMMA ClearedOn ==
    ASSUME NEW c, NEW s \in Registers, NEW a \in 0..NREGS, NEW d \in Seq(0..255),
           NEW i \in 1..Len(d), NEW r, Good(r), Cleared(s, a, d, i - 1, r)
    PROVE  Cleared(s, a, d, i, Put(c, r, RegAt(a, i), d[i]))
  <1>1. PICK q, g, b : q = Put(c, r, g, b) /\ g = RegAt(a, i) /\ b = d[i]
    OBVIOUS
  <1>2. g \in 0..(NREGS - 1) /\ b \in 0..255
    BY <1>1, AccessIs
  <1>3. Updated(q, c, r, g, b) /\ r \in Registers
    BY <1>1, <1>2, PutIs DEF Good
  <1>10. PICK u \in 0..255, v \in 0..255 : u = r.regs[Status] /\ v = q.regs[Status]
    <2>1. q \in Registers /\ r \in Registers /\ Status \in Cells
      BY <1>3 DEF Updated, Cells, Status
    <2>2. r.regs[Status] \in 0..255 /\ q.regs[Status] \in 0..255
      BY <2>1 DEF Registers
    <2> QED  BY <2>2
  <1>4. v = IF Cell(g) = Status THEN StoredAs(c, g, u, b) ELSE u
    BY <1>3, <1>10 DEF Updated, Cells, Status
  <1>5. SUFFICES ASSUME NEW mask \in {1, 2}
                 PROVE  /\ Has(v, mask) => Has(s.regs[Status], mask)
                        /\ Has(s.regs[Status], mask) /\ ~Has(v, mask) =>
                              \E j \in 1..i : RegAt(a, j) = Status /\ ~Has(d[j], mask)
    BY <1>1, <1>10 DEF Cleared
  <1>6. /\ Has(u, mask) => Has(s.regs[Status], mask)
        /\ Has(s.regs[Status], mask) /\ ~Has(u, mask) =>
              \E j \in 1..(i - 1) : RegAt(a, j) = Status /\ ~Has(d[j], mask)
    BY <1>10 DEF Cleared
  <1>7. i \in 1..i /\ \A j \in 1..(i - 1) : j \in 1..i
    BY LenProperties
  <1>8. CASE g = Status
    <2>1. v = Status3231(u, b) \/ v = Status3234(u, b)
      BY <1>4, <1>8, <1>10 DEF StoredAs, Cell, Status
    <2>2. Has(v, mask) <=> Has(u, mask) /\ Has(b, mask)
      <3>1. FlagsAnd(v, u, b)
        BY <1>2, <1>10, <2>1, StatusIs
      <3> QED  BY <3>1 DEF FlagsAnd
    <2> QED  BY <1>1, <1>6, <1>7, <1>8, <2>2, Zenon
  <1>9. CASE g # Status
    <2>1. v = u
      BY <1>4, <1>9, <1>10 DEF Cell, Status
    <2> QED  BY <1>6, <1>7, <2>1, Zenon
  <1> QED  BY <1>8, <1>9

LEMMA LastOn ==
    ASSUME NEW c, NEW s \in Registers, NEW a \in 0..NREGS, NEW d \in Seq(0..255),
           NEW i \in 1..Len(d), NEW r, Good(r), NEW k \in Cells \ {Status},
           LastByte(s, a, d, i - 1, r, k)
    PROVE  LastByte(s, a, d, i, Put(c, r, RegAt(a, i), d[i]), k)
  <1>1. PICK q, g, b : q = Put(c, r, g, b) /\ g = RegAt(a, i) /\ b = d[i]
    OBVIOUS
  <1>2. g \in 0..(NREGS - 1) /\ b \in 0..255
    BY <1>1, AccessIs
  <1>3. q.regs[k] = IF Cell(g) = k THEN StoredAs(c, g, r.regs[k], b) ELSE r.regs[k]
    <2>1. Updated(q, c, r, g, b)
      BY <1>1, <1>2, PutIs DEF Good
    <2> QED  BY <2>1 DEF Updated
  <1>4. i \in 1..i /\ (\A j \in 1..i : j \in 1..(i - 1) \/ j = i) /\ (i + 1)..i = {}
        /\ \A j \in 1..(i - 1) : j \in 1..i /\ \A m \in (j + 1)..i : m \in (j + 1)..(i - 1) \/ m = i
    BY LenProperties
  <1>5. CASE Cell(g) = k
    <2>1. q.regs[k] = IF k = 14 THEN b % 32 ELSE b
      BY <1>2, <1>3, <1>5 DEF StoredAs, Cell, Status
    <2> QED  BY <1>1, <1>4, <1>5, <2>1 DEF LastByte
  <1>6. CASE Cell(g) # k
    <2>1. q.regs[k] = r.regs[k]
      BY <1>3, <1>6
    <2>2. CASE r.regs[k] = s.regs[k] /\ \A j \in 1..(i - 1) : Cell(RegAt(a, j)) # k
      BY <1>1, <1>4, <1>6, <2>1, <2>2 DEF LastByte
    <2>3. CASE \E j \in 1..(i - 1) : /\ Cell(RegAt(a, j)) = k
                                     /\ \A m \in (j + 1)..(i - 1) : Cell(RegAt(a, m)) # k
                                     /\ r.regs[k] = IF k = 14 THEN d[j] % 32 ELSE d[j]
      <3>1. PICK j \in 1..(i - 1) : /\ Cell(RegAt(a, j)) = k
                                    /\ \A m \in (j + 1)..(i - 1) : Cell(RegAt(a, m)) # k
                                    /\ r.regs[k] = IF k = 14 THEN d[j] % 32 ELSE d[j]
        BY <2>3
      <3>2. \A m \in (j + 1)..i : Cell(RegAt(a, m)) # k
        BY <1>1, <1>4, <1>6, <3>1
      <3> QED  BY <1>1, <1>4, <2>1, <3>1, <3>2 DEF LastByte
    <2> QED  BY <2>2, <2>3 DEF LastByte
  <1> QED  BY <1>5, <1>6

LEMMA WriteIs ==
    ASSUME NEW c, NEW s, Good(s), NEW a \in 0..NREGS, NEW d \in Seq(0..255)
    PROVE  /\ Good(PutAll(c, s, a, d))
           /\ Cleared(s, a, d, Len(d), PutAll(c, s, a, d))
           /\ \A k \in Cells \ {Status} : LastByte(s, a, d, Len(d), PutAll(c, s, a, d), k)
  <1>1. s \in Registers
    BY DEF Good
  <1>2. PICK f : Looped(f, c, s, a, d)
    BY <1>1, LoopIs
  <1>3. PICK n \in Nat : n = Len(d)
    BY LenProperties
  <1> DEFINE T == {i \in 0..n : /\ Good(f[i])
                               /\ Cleared(s, a, d, i, f[i])
                               /\ \A k \in Cells \ {Status} : LastByte(s, a, d, i, f[i], k)}
  <1>4. 0 \in T
    BY <1>2 DEF Cleared, LastByte, Looped
  <1>5. ASSUME NEW i \in 0..(n - 1), i \in T PROVE i + 1 \in T
    <2>1. i + 1 \in 1..n /\ (i + 1) - 1 = i /\ i + 1 \in 0..n
      OBVIOUS
    <2>2. f[i + 1] = Put(c, f[i], RegAt(a, i + 1), d[i + 1])
      BY <1>2, <1>3, <2>1 DEF Looped
    <2>3. RegAt(a, i + 1) \in 0..(NREGS - 1) /\ d[i + 1] \in 0..255
      BY <1>3, <2>1, AccessIs
    <2>4. Good(f[i + 1])
      BY <1>5, <2>2, <2>3, PutGood
    <2>5. Cleared(s, a, d, i + 1, f[i + 1])
      BY <1>1, <1>3, <1>5, <2>1, <2>2, ClearedOn
    <2>6. \A k \in Cells \ {Status} : LastByte(s, a, d, i + 1, f[i + 1], k)
      BY <1>1, <1>3, <1>5, <2>1, <2>2, LastOn
    <2> QED  BY <2>1, <2>4, <2>5, <2>6
  <1>6. n \in T
    <2> HIDE DEF T
    <2>1. \A i \in 0..n : i \in T
      BY <1>3, <1>4, <1>5, Climb
    <2> QED  BY <1>3, <2>1
  <1> QED  BY <1>2, <1>3, <1>6 DEF Looped
-----------------------------------------------------------------------------
(* What the guest writes in a call.                                         *)
LEMMA DataIs ==
    ASSUME NEW d \in Data
    PROVE  /\ d \in Seq(0..255) /\ Len(d) \in Nat /\ Len(d) > 0 /\ Len(d) <= MaxLen
           /\ \A i \in 1..Len(d) : d[i] \in Bytes
  <1>1. PICK n \in 1..MaxLen : d \in [1..n -> Bytes]
    BY DEF Data
  <1>2. n \in Nat /\ n > 0 /\ n <= MaxLen
    BY RtcAssumption
  <1>3. d \in Seq(0..255) /\ Len(d) = n
    <2>1. d \in [1..n -> 0..255]
      BY <1>1, RtcAssumption
    <2> QED  BY <1>2, <2>1, SeqDef, LenProperties
  <1> QED  BY <1>1, <1>2, <1>3

(* A register number is one.                                                *)
LEMMA RegAtIs ==
    ASSUME NEW a \in Nat, NEW i \in Nat \ {0}
    PROVE  RegAt(a, i) \in 0..(NREGS - 1)
  BY DEF RegAt, NREGS

(* A time register holds a byte.                                            *)
LEMMA TimeIs ==
    ASSUME NEW t \in Nat, NEW h12 \in BOOLEAN, NEW a \in 0..6
    PROVE  TimeReg(t, h12, a) \in 0..255
  <1>1. /\ TmSec(t) \in Int /\ TmMin(t) \in Int /\ TmHour(t) \in Int /\ TmDay(t) \in Int
    BY DEF TmSec, TmMin, TmHour, TmDay
  <1>2. \A n \in Int : Bcd(n) \in Int
    BY DEF Bcd
  <1>3. \A n \in Int : /\ format_7bit_bcd(n) \in 0..127 /\ format_6bit_bcd(n) \in 0..63
                       /\ format_5bit_bcd(n) \in 0..31
    BY <1>2 DEF format_7bit_bcd, format_6bit_bcd, format_5bit_bcd
  <1>4. HourReg(t, h12) \in 0..127
    BY <1>1, <1>3 DEF HourReg
  <1>5. (TmDay(t) + 4) % 7 \in 0..6
    BY <1>1
  <1> QED  BY <1>1, <1>3, <1>4, <1>5 DEF TimeReg

(* What is read of the time is the latched time.                            *)
LEMMA SeenIs ==
    ASSUME RtcTypeOK, NEW a \in Nat, NEW n \in Nat, NEW g \in Seen(a, n)
    PROVE  /\ g \in (0..6) \X (0..255)
           /\ g[2] = TimeReg(system_time, twelve, g[1])
  <1>1. PICK i \in 1..n :
           /\ RegAt(a, i) <= 6
           /\ g = <<RegAt(a, i), Value(system_time, twelve, regs, RegAt(a, i))>>
    BY DEF Seen
  <1>2. PICK k \in 0..6 : k = RegAt(a, i)
    BY <1>1, RegAtIs DEF NREGS
  <1>3. Value(system_time, twelve, regs, k) = TimeReg(system_time, twelve, k)
    BY DEF Value
  <1>4. system_time \in Nat /\ twelve \in BOOLEAN
    BY DEF RtcTypeOK
  <1>5. TimeReg(system_time, twelve, k) \in 0..255
    BY <1>4, TimeIs
  <1> QED  BY <1>1, <1>2, <1>3, <1>5

(* An access only adds flags, those of the alarms that are due.             *)
FlagsOr(v, u, x, y) ==
    /\ v \in 0..255 /\ v % 8 < 4 /\ (v \div 16) \in {0, 8}
    /\ Has(v, 1) <=> Has(u, 1) \/ x
    /\ Has(v, 2) <=> Has(u, 2) \/ y
LEMMA WithBitIs ==
    ASSUME NEW u \in 0..255, u % 8 < 4, (u \div 16) \in {0, 8}, NEW x \in BOOLEAN, NEW y \in BOOLEAN
    PROVE  FlagsOr(WithBit(WithBit(u, 1, x), 2, y), u, x, y)
  BY DEF FlagsOr, WithBit, Has

LEMMA RaisedIs ==
    ASSUME RtcTypeOK, NEW t, NEW r, r = Raised(regs, system_time, t, twelve)
    PROVE  /\ r \in [Cells -> 0..255]
           /\ \A k \in Cells \ {Status} : r[k] = regs[k]
           /\ FlagsOr(r[Status], regs[Status], Alarm1(regs, system_time, t, twelve),
                      Alarm2(regs, system_time, t, twelve))
  <1>1. PICK x, y : /\ x = Alarm1(regs, system_time, t, twelve)
                    /\ y = Alarm2(regs, system_time, t, twelve)
    OBVIOUS
  <1>2. x \in BOOLEAN /\ y \in BOOLEAN
    BY <1>1 DEF Alarm1, Alarm2, HourMatches, DayMatches, Has
  <1>3. PICK v, u : v = WithBit(WithBit(u, 1, x), 2, y) /\ u = regs[Status]
    OBVIOUS
  <1>4. u \in 0..255 /\ u % 8 < 4 /\ (u \div 16) \in {0, 8}
    <2>1. regs \in [Cells -> 0..255] /\ Status \in Cells
      BY DEF RtcTypeOK, Cells, Status
    <2> QED  BY <1>3, <2>1 DEF RtcTypeOK
  <1>5. FlagsOr(v, u, x, y)
    BY <1>2, <1>3, <1>4, WithBitIs
  <1>6. v \in 0..255
    BY <1>5 DEF FlagsOr
  <1>7. r = [regs EXCEPT ![Status] = v]
    BY <1>1, <1>3 DEF Raised
  <1>8. regs \in [Cells -> 0..255] /\ Status \in Cells
    BY DEF RtcTypeOK, Cells, Status
  <1>9. r[Status] = v
    BY <1>7, <1>8
  <1>10. r \in [Cells -> 0..255] /\ \A k \in Cells \ {Status} : r[k] = regs[k]
    BY <1>6, <1>7, <1>8
  <1> QED  BY <1>1, <1>3, <1>5, <1>9, <1>10

(* What a write leaves.                                                     *)
Old == [regs |-> regs, twelve |-> twelve]
New == [regs |-> regs', twelve |-> twelve']
LEMMA WriteRegsIs ==
    ASSUME RtcTypeOK, NEW a \in 0..NREGS, NEW d \in Data, WriteRegs(a, d)
    PROVE  /\ Good(New)
           /\ Cleared(Old, a, d, Len(d), New)
           /\ \A k \in Cells \ {Status} : LastByte(Old, a, d, Len(d), New, k)
           /\ ndata' \in 0..MaxData /\ ndata' # ndata
  <1>1. Good(Old)
    BY DEF Good, RtcTypeOK, Old, Registers
  <1>2. PICK r : r = PutAll(chip, Old, a, d)
    OBVIOUS
  <1>3. /\ Good(r) /\ Cleared(Old, a, d, Len(d), r)
        /\ \A k \in Cells \ {Status} : LastByte(Old, a, d, Len(d), r, k)
    BY <1>1, <1>2, DataIs, WriteIs
  <1>4. regs' = r.regs /\ twelve' = r.twelve
    BY <1>2 DEF WriteRegs, Old
  <1>5. r = New
    BY <1>3, <1>4 DEF Good, Registers, New
  <1>6. ndata' \in 0..MaxData /\ ndata' # ndata
    BY DataIs, RtcAssumption DEF WriteRegs, RtcTypeOK
  <1> QED  BY <1>3, <1>5, <1>6
-----------------------------------------------------------------------------
(* Every step keeps the types.                                              *)
LEMMA RtcInitType == RtcInit => RtcTypeOK
  <1>1. SUFFICES ASSUME RtcInit PROVE RtcTypeOK
    OBVIOUS
  <1>2. /\ chip \in Chips /\ now \in Starts /\ system_time = now /\ startAt = now
        /\ steps = 0 /\ ndata = 0 /\ open = "no" /\ twelve = FALSE /\ index = 0
        /\ start = FALSE /\ sramAddr = 0 /\ ptr = 0 /\ got = {}
    BY <1>1 DEF RtcInit
  <1>3. /\ sram = [i \in 0 .. SramSize - 1 |-> UnknownByte]
        /\ shadow = [c \in Cells |-> UnknownByte]
    BY <1>1 DEF RtcInit, Forgotten
  <1>4. now \in Nat /\ system_time \in 0..now /\ startAt \in 0..now
    BY <1>2, RtcAssumption
  <1>5. /\ regs \in [Cells -> 0..255] /\ regs[14] < 32
        /\ regs[Status] % 8 < 4 /\ (regs[Status] \div 16) \in {0, 8}
    <2>1. regs = InitRegs
      BY <1>1 DEF RtcInit
    <2>2. 14 \in Cells /\ 15 \in Cells /\ Status = 15
      BY DEF Cells, Status
    <2>3. regs[14] = 28 /\ regs[15] = 136 /\ regs \in [Cells -> 0..255]
      BY <2>1, <2>2 DEF InitRegs
    <2> QED  BY <2>2, <2>3
  <1>6. /\ sramAddr \in 0..SramSize - 1
        /\ sram \in [0..SramSize - 1 -> Bytes \cup {UnknownByte}]
        /\ shadow \in [Cells -> Bytes \cup {UnknownByte}]
    BY <1>2, <1>3, RtcAssumption
  <1>7. steps \in 0..MaxSteps /\ ndata \in 0..MaxData
    BY <1>2, RtcAssumption
  <1>8. /\ index \in 0..NREGS - 1 /\ ptr \in 0..NREGS - 1 /\ got \subseteq ((0..6) \X (0..255))
        /\ start \in BOOLEAN /\ twelve \in BOOLEAN
    <2>1. 0 \in 0..NREGS - 1 /\ FALSE \in BOOLEAN
      BY DEF NREGS
    <2> QED  BY <1>2, <2>1, Zenon
  <1> QED  BY <1>2, <1>4, <1>5, <1>6, <1>7, <1>8 DEF RtcTypeOK

(* The guest's view of a write.                                             *)
LEMMA NotedIs ==
    ASSUME RtcTypeOK, NEW a \in Nat, NEW d \in Data
    PROVE  /\ Noted(a, d) \in [Cells -> Bytes \cup {UnknownByte}]
           /\ \A c \in Cells :
                (\A i \in 1..Len(d) : ~ByteFor(c, a, d, i)) => Noted(a, d)[c] = shadow[c]
           /\ \A c \in Cells, i \in 1..Len(d) :
                ByteFor(c, a, d, i) /\ (\A m \in (i + 1)..Len(d) : ~ByteFor(c, a, d, m)) =>
                   Noted(a, d)[c] = IF RegAt(a, i) = 13 THEN UnknownByte ELSE d[i]
  <1> DEFINE Is(c) == {i \in 1..Len(d) : ByteFor(c, a, d, i)}
             IsLast(c, i) == i \in Is(c) /\ \A j \in Is(c) : j <= i
             Note(i) == IF RegAt(a, i) = 13 THEN UnknownByte ELSE d[i]
             Was(c) == IF Is(c) = {} THEN shadow[c]
                       ELSE Note(CHOOSE i \in Is(c) : \A j \in Is(c) : j <= i)
  <1>1. Noted(a, d) = [c \in Cells |-> Was(c)]
    BY DEF Noted
  <1>2. \A c, i : IsLast(c, i) => Was(c) = Note(i)
    <2> SUFFICES ASSUME NEW c, NEW i, IsLast(c, i) PROVE Was(c) = Note(i)
      OBVIOUS
    <2>1. PICK k : k = CHOOSE x \in Is(c) : \A j \in Is(c) : j <= x
      OBVIOUS
    <2>2. k \in Is(c) /\ \A j \in Is(c) : j <= k
      BY <2>1
    <2>3. k = i
      BY <2>2, DataIs
    <2> QED  BY <2>1, <2>3
  <1>3. \A c : Is(c) # {} => \E i : IsLast(c, i)
    <2> SUFFICES ASSUME NEW c, Is(c) # {} PROVE \E i : IsLast(c, i)
      OBVIOUS
    <2>1. PICK n \in Nat : n = Len(d)
      BY DataIs
    <2> DEFINE T == {n - i : i \in Is(c)}
    <2>2. T \subseteq Nat /\ T # {}
      BY <2>1
    <2>3. PICK j \in T : \A k \in T : j <= k
      <3> HIDE DEF T
      <3> QED  BY <2>2, LeastOf
    <2>4. PICK i \in Is(c) : j = n - i
      BY <2>3
    <2>5. ASSUME NEW k \in Is(c) PROVE k <= i
      <3>1. n - k \in T
        OBVIOUS
      <3>2. n - i <= n - k
        BY <2>3, <2>4, <3>1
      <3> QED  BY <2>1, <3>2
    <2> QED  BY <2>4, <2>5
  <1>4. \A c \in Cells : Was(c) \in Bytes \cup {UnknownByte}
    <2> SUFFICES ASSUME NEW c \in Cells PROVE Was(c) \in Bytes \cup {UnknownByte}
      OBVIOUS
    <2>1. CASE Is(c) = {}
      BY <2>1 DEF RtcTypeOK
    <2>2. CASE Is(c) # {}
      <3>1. PICK i : IsLast(c, i)
        BY <2>2, <1>3
      <3>2. Was(c) = Note(i)
        BY <3>1, <1>2
      <3>3. i \in 1..Len(d)
        BY <3>1
      <3>4. Note(i) \in Bytes \cup {UnknownByte}
        BY <3>3, DataIs
      <3> QED  BY <3>2, <3>4
    <2> QED  BY <2>1, <2>2
  <1>5. ASSUME NEW c \in Cells, NEW i \in 1..Len(d), ByteFor(c, a, d, i),
               \A m \in (i + 1)..Len(d) : ~ByteFor(c, a, d, m)
        PROVE  IsLast(c, i)
    BY <1>5, DataIs
  <1>6. \A c \in Cells : (\A i \in 1..Len(d) : ~ByteFor(c, a, d, i)) => Was(c) = shadow[c]
    OBVIOUS
  <1> HIDE DEF IsLast, Was
  <1> QED  BY <1>1, <1>2, <1>4, <1>5, <1>6

LEMMA RtcNextType == RtcTypeOK /\ [RtcNext]_rtcvars => RtcTypeOK'
  <1> SUFFICES ASSUME RtcTypeOK, [RtcNext]_rtcvars PROVE RtcTypeOK'
    OBVIOUS
  <1>1. CASE ClockTick
    <2>1. now' \in Nat /\ now' >= now /\ steps' \in 0..MaxSteps
      BY <1>1, RtcAssumption DEF ClockTick, RtcTypeOK
    <2>2. system_time' \in 0..now' /\ startAt' \in 0..now'
      BY <1>1, <2>1 DEF ClockTick, RtcTypeOK, dev, guest
    <2> QED  BY <1>1, <2>1, <2>2 DEF ClockTick, RtcTypeOK, dev, guest
  <1>2. CASE Access /\ start' \in BOOLEAN
    <2>1. /\ regs' \in [Cells -> 0..255] /\ regs'[14] < 32
          /\ regs'[Status] % 8 < 4 /\ (regs'[Status] \div 16) \in {0, 8}
      <3>1. PICK r : r = Raised(regs, system_time, now, twelve) /\ regs' = r
        BY <1>2 DEF Access
      <3>2. 14 \in Cells \ {Status}
        BY DEF Cells, Status
      <3>3. /\ r \in [Cells -> 0..255] /\ \A k \in Cells \ {Status} : r[k] = regs[k]
            /\ FlagsOr(r[Status], regs[Status], Alarm1(regs, system_time, now, twelve),
                       Alarm2(regs, system_time, now, twelve))
        BY <3>1, RaisedIs
      <3>4. r[Status] % 8 < 4 /\ (r[Status] \div 16) \in {0, 8}
        BY <3>3 DEF FlagsOr
      <3>5. r[14] < 32
        BY <3>2, <3>3 DEF RtcTypeOK
      <3> QED  BY <3>1, <3>3, <3>4, <3>5
    <2>2. system_time' \in 0..now' /\ startAt' \in 0..now' /\ got' = {} /\ open' = "new"
      BY <1>2 DEF Access, RtcTypeOK
    <2>3. UNCHANGED <<chip, now, steps, twelve, index, sramAddr, sram, ptr, shadow, ndata>>
      BY <1>2 DEF Access
    <2> QED  BY <1>2, <2>1, <2>2, <2>3 DEF RtcTypeOK
  <1>3. CASE StopOrDeselect
    BY <1>3 DEF StopOrDeselect, RtcTypeOK, dev, guest
  <1>4. ASSUME NEW a \in Addrs, WriteAddr(a) PROVE RtcTypeOK'
    <2>1. a \in 0..NREGS - 1
      BY RtcAssumption DEF NREGS
    <2>2. index' = a /\ start' = FALSE /\ ptr' = a /\ open' = "wr"
      BY <1>4 DEF WriteAddr
    <2>3. UNCHANGED <<chip, now, steps, system_time, regs, twelve, sramAddr, sram,
                      shadow, got, startAt, ndata>>
      BY <1>4 DEF WriteAddr
    <2> QED  BY <2>1, <2>2, <2>3 DEF RtcTypeOK
  <1>5. ASSUME NEW a \in 0..NREGS, NEW d \in Data, WriteRegs(a, d)
        PROVE  /\ regs' \in [Cells -> 0..255] /\ twelve' \in BOOLEAN /\ regs'[14] < 32
               /\ regs'[Status] % 8 < 4 /\ (regs'[Status] \div 16) \in {0, 8}
               /\ ndata' \in 0..MaxData
    BY <1>5, WriteRegsIs DEF Good, New, Registers
  <1>6. ASSUME NEW d \in Data, WriteData(d) PROVE RtcTypeOK'
    <2>1. index \in 0..NREGS /\ index \in Nat /\ Len(d) + 1 \in Nat \ {0}
      BY DataIs DEF RtcTypeOK, NREGS
    <2>2. index' \in 0..NREGS - 1
      BY <1>6, <2>1, RegAtIs DEF WriteData
    <2>3. ptr' \in (0..NREGS - 1) \cup {NoPtr}
      <3>1. CASE ptr = NoPtr
        BY <1>6, <3>1 DEF WriteData
      <3>2. CASE ptr # NoPtr
        <4>1. ptr \in Nat
          BY <3>2 DEF RtcTypeOK, NREGS
        <4>2. ptr' = RegAt(ptr, Len(d) + 1)
          BY <1>6, <3>2 DEF WriteData
        <4> QED  BY <2>1, <4>1, <4>2, RegAtIs
      <3> QED  BY <3>1, <3>2
    <2>4. shadow' \in [Cells -> Bytes \cup {UnknownByte}]
      <3>1. CASE ptr = NoPtr
        BY <1>6, <3>1 DEF WriteData, Forgotten
      <3>2. CASE ptr # NoPtr
        <4>1. ptr \in Nat
          BY <3>2 DEF RtcTypeOK, NREGS
        <4> QED  BY <1>6, <3>2, <4>1, NotedIs DEF WriteData
      <3> QED  BY <3>1, <3>2
    <2>5. WriteRegs(index, d)
      BY <1>6 DEF WriteData
    <2>6. /\ UNCHANGED <<chip, now, steps, system_time, sramAddr, sram, got, startAt>>
          /\ UNCHANGED <<open, start>>
      BY <1>6, <2>5 DEF WriteData, WriteRegs
    <2>7. /\ regs' \in [Cells -> 0..255] /\ twelve' \in BOOLEAN /\ regs'[14] < 32
          /\ regs'[Status] % 8 < 4 /\ (regs'[Status] \div 16) \in {0, 8}
          /\ ndata' \in 0..MaxData
      BY <1>5, <2>1, <2>5
    <2> QED  BY <2>2, <2>3, <2>4, <2>6, <2>7 DEF RtcTypeOK
  <1>7. ASSUME NEW a \in Addrs, NEW d \in Data, WriteJoined(a, d) PROVE RtcTypeOK'
    <2>1. a + 1 \in 0..NREGS /\ a + 1 \in Nat /\ Len(d) + 1 \in Nat \ {0}
      BY DataIs, RtcAssumption DEF NREGS
    <2>2. index' \in 0..NREGS - 1
      BY <1>7, <2>1, RegAtIs DEF WriteJoined
    <2>3. shadow' \in [Cells -> Bytes \cup {UnknownByte}]
      BY <1>7 DEF WriteJoined, Forgotten
    <2>4. WriteRegs(a + 1, d)
      BY <1>7 DEF WriteJoined
    <2>5. /\ start' \in BOOLEAN /\ open' = "wr" /\ ptr' = NoPtr
          /\ UNCHANGED <<chip, now, steps, system_time, sramAddr, sram, got, startAt>>
      BY <1>7, <2>4 DEF WriteJoined, WriteRegs
    <2>6. /\ regs' \in [Cells -> 0..255] /\ twelve' \in BOOLEAN /\ regs'[14] < 32
          /\ regs'[Status] % 8 < 4 /\ (regs'[Status] \div 16) \in {0, 8}
          /\ ndata' \in 0..MaxData
      BY <1>5, <2>1, <2>4
    <2> QED  BY <2>2, <2>3, <2>5, <2>6 DEF RtcTypeOK
  <1>8. ASSUME NEW a \in Nat, NEW n \in Nat, got' = got \cup Seen(a, n)
        PROVE  got' \subseteq ((0..6) \X (0..255))
    BY <1>8, SeenIs DEF RtcTypeOK
  <1>9. ASSUME NEW n \in 1..MaxLen, ReadRegs(n) PROVE RtcTypeOK'
    <2>1. index \in Nat /\ n \in Nat /\ n + 1 \in Nat \ {0}
      BY RtcAssumption DEF RtcTypeOK, NREGS
    <2>2. index' \in 0..NREGS - 1
      BY <1>9, <2>1, RegAtIs DEF ReadRegs
    <2>3. ptr' \in (0..NREGS - 1) \cup {NoPtr}
      <3>1. CASE ptr = NoPtr
        BY <1>9, <3>1 DEF ReadRegs
      <3>2. CASE ptr # NoPtr
        <4>1. ptr \in Nat
          BY <3>2 DEF RtcTypeOK, NREGS
        <4>2. ptr' = RegAt(ptr, n + 1)
          BY <1>9, <3>2 DEF ReadRegs
        <4> QED  BY <2>1, <4>1, <4>2, RegAtIs
      <3> QED  BY <3>1, <3>2
    <2>4. got' \subseteq ((0..6) \X (0..255))
      BY <1>8, <1>9, <2>1 DEF ReadRegs
    <2>5. /\ open' = "rd"
          /\ UNCHANGED <<chip, now, steps, system_time, regs, twelve, start, sramAddr, sram,
                         shadow, startAt, ndata>>
      BY <1>9 DEF ReadRegs
    <2> QED  BY <2>2, <2>3, <2>4, <2>5 DEF RtcTypeOK
  <1>10. ASSUME NEW a \in Addrs, NEW n \in 0..MaxLen, XfrRead(a, n) PROVE RtcTypeOK'
    <2>1. a \in Nat /\ (IF n = 0 THEN 1 ELSE n) \in Nat
      BY RtcAssumption
    <2>2. got' \subseteq ((0..6) \X (0..255))
      BY <1>8, <1>10, <2>1 DEF XfrRead
    <2> QED  BY <1>10, <2>2 DEF XfrRead, Xfr, RtcTypeOK
  <1>11. ASSUME NEW a \in Addrs, NEW d \in Data, XfrWrite(a, d) PROVE RtcTypeOK'
    <2>1. a \in 0..NREGS /\ a \in Nat
      BY RtcAssumption DEF NREGS
    <2>2. shadow' \in [Cells -> Bytes \cup {UnknownByte}]
      BY <1>11, <2>1, NotedIs DEF XfrWrite
    <2>3. WriteRegs(a, d)
      BY <1>11 DEF XfrWrite
    <2>4. UNCHANGED <<chip, now, steps, open, system_time, index, start, sramAddr, sram,
                      ptr, got, startAt>>
      BY <1>11, <2>3 DEF XfrWrite, Xfr, WriteRegs
    <2>5. /\ regs' \in [Cells -> 0..255] /\ twelve' \in BOOLEAN /\ regs'[14] < 32
          /\ regs'[Status] % 8 < 4 /\ (regs'[Status] \div 16) \in {0, 8}
          /\ ndata' \in 0..MaxData
      BY <1>5, <2>1, <2>3
    <2> QED  BY <2>2, <2>4, <2>5 DEF RtcTypeOK
  <1>12. SramNext(sramAddr) \in 0..SramSize - 1
    BY RtcAssumption DEF SramNext, RtcTypeOK
  <1>13. ASSUME NEW b \in 0..SramSize - 1, XfrSramAddr(b) PROVE RtcTypeOK'
    BY <1>13 DEF XfrSramAddr, Xfr, RtcTypeOK
  <1>14. CASE XfrSramRead
    BY <1>12, <1>14 DEF XfrSramRead, Xfr, RtcTypeOK
  <1>15. ASSUME NEW b \in Bytes, XfrSramWrite(b) PROVE RtcTypeOK'
    <2>1. sram' \in [0..SramSize - 1 -> Bytes \cup {UnknownByte}]
      BY <1>15 DEF XfrSramWrite, RtcTypeOK
    <2>2. ndata' \in 0..MaxData
      BY <1>15, RtcAssumption DEF XfrSramWrite, RtcTypeOK
    <2> QED  BY <1>12, <1>15, <2>1, <2>2 DEF XfrSramWrite, Xfr, RtcTypeOK
  <1>16. CASE UNCHANGED rtcvars
    BY <1>16 DEF rtcvars, dev, guest, RtcTypeOK
  <1>17. CASE Start \/ Select
    <2>1. Access /\ start' \in BOOLEAN
      BY <1>17 DEF Start, Select, RtcTypeOK
    <2> QED  BY <1>2, <2>1
  <1> QED  BY <1>1, <1>3, <1>4, <1>6, <1>7, <1>9, <1>10, <1>11, <1>13, <1>14, <1>15,
              <1>16, <1>17 DEF RtcNext

(* Type correctness of the clock examples: the register pointers of both    *)
(* chips stay inside what they point into, and writes of any bytes, at any  *)
(* address and of any length, set no bit of control and status that the     *)
(* chip does not have.                                                      *)
THEOREM RtcTypeCorrect == RtcSpec => []RtcTypeOK
  <1> QED  BY RtcInitType, RtcNextType, PTL DEF RtcSpec
-----------------------------------------------------------------------------
(* What a step does to what has been read.                                  *)
OfOneAccess == system_time = startAt /\ OneInstant
LEMMA InstantInit == RtcInit => OfOneAccess
  BY DEF RtcInit, OfOneAccess, OneInstant

LEMMA InstantNext == RtcTypeOK /\ OfOneAccess /\ [RtcNext]_rtcvars => OfOneAccess'
  <1> SUFFICES ASSUME RtcTypeOK, OfOneAccess, [RtcNext]_rtcvars PROVE OfOneAccess'
    OBVIOUS
  <1>1. CASE UNCHANGED <<system_time, startAt, got>>
    BY <1>1 DEF OfOneAccess, OneInstant
  <1>2. CASE Access
    BY <1>2 DEF Access, OfOneAccess, OneInstant
  <1>3. ASSUME UNCHANGED <<system_time, startAt>>, NEW a \in Nat, NEW n \in Nat,
               got' = got \cup Seen(a, n)
        PROVE  OfOneAccess'
    <2>1. SUFFICES ASSUME NEW g \in got'
                   PROVE  \E h12 \in BOOLEAN : g[2] = TimeReg(startAt, h12, g[1])
      BY <1>3 DEF OfOneAccess, OneInstant
    <2>2. CASE g \in got
      BY <2>2 DEF OfOneAccess, OneInstant
    <2>3. CASE g \in Seen(a, n)
      <3>1. g[2] = TimeReg(system_time, twelve, g[1])
        BY <2>3, SeenIs
      <3> QED  BY <3>1 DEF OfOneAccess, RtcTypeOK
    <2> QED  BY <1>3, <2>2, <2>3
  <1>4. ASSUME NEW n \in 1..MaxLen, ReadRegs(n) PROVE OfOneAccess'
    <2>1. index \in Nat /\ n \in Nat
      BY RtcAssumption DEF RtcTypeOK, NREGS
    <2> QED  BY <1>3, <1>4, <2>1 DEF ReadRegs
  <1>5. ASSUME NEW a \in Addrs, NEW n \in 0..MaxLen, XfrRead(a, n) PROVE OfOneAccess'
    <2>1. a \in Nat /\ (IF n = 0 THEN 1 ELSE n) \in Nat
      BY RtcAssumption
    <2> QED  BY <1>3, <1>5, <2>1 DEF XfrRead, Xfr
  <1>6. CASE ClockTick \/ StopOrDeselect \/ UNCHANGED rtcvars
    BY <1>1, <1>6 DEF ClockTick, StopOrDeselect, rtcvars, dev, guest
  <1>7. CASE Start \/ Select
    BY <1>2, <1>7 DEF Start, Select
  <1>8. CASE \E a \in Addrs : WriteAddr(a)
    BY <1>1, <1>8 DEF WriteAddr
  <1>9. CASE \E d \in Data : WriteData(d)
    BY <1>1, <1>9 DEF WriteData, WriteRegs
  <1>10. CASE \E a \in Addrs, d \in Data : WriteJoined(a, d) \/ XfrWrite(a, d)
    BY <1>1, <1>10 DEF WriteJoined, WriteRegs, XfrWrite, Xfr
  <1>11. CASE (\E b \in 0..SramSize - 1 : XfrSramAddr(b)) \/ XfrSramRead
              \/ \E b \in Bytes : XfrSramWrite(b)
    BY <1>1, <1>11 DEF XfrSramAddr, XfrSramRead, XfrSramWrite, Xfr
  <1> QED  BY <1>4, <1>5, <1>6, <1>7, <1>8, <1>9, <1>10, <1>11 DEF RtcNext

(* The latch at work: while the host's clock moves on, and whatever else    *)
(* the guest reads, writes or leaves in between, all the time registers it  *)
(* reads after a START or a chip select are those of that one moment.       *)
THEOREM LatchedTime == RtcSpec => []OneInstant
  <1>1. OfOneAccess => OneInstant
    BY DEF OfOneAccess
  <1> QED  BY <1>1, InstantInit, InstantNext, RtcTypeCorrect, PTL DEF RtcSpec
-----------------------------------------------------------------------------
(* A write seen by the guest and by the chip.                               *)
Agrees(w, r, c) == w # UnknownByte => r = (IF c = 14 THEN w % 32 ELSE w)
LEMMA WriteAgrees ==
    ASSUME RtcTypeOK, NEW a \in 0..NREGS, NEW d \in Data, WriteRegs(a, d),
           shadow' = Noted(a, d), NEW c \in Cells \ {Status}, Agrees(shadow[c], regs[c], c)
    PROVE  Agrees(shadow'[c], regs'[c], c)
  <1>1. \A i : ByteFor(c, a, d, i) <=> Cell(RegAt(a, i)) = c
    BY DEF ByteFor, Cell, Cells
  <1>2. PICK w : w = Noted(a, d) /\ shadow' = w
    OBVIOUS
  <1>3. /\ (\A i \in 1..Len(d) : ~ByteFor(c, a, d, i)) => w[c] = shadow[c]
        /\ \A i \in 1..Len(d) :
              ByteFor(c, a, d, i) /\ (\A m \in (i + 1)..Len(d) : ~ByteFor(c, a, d, m)) =>
                 w[c] = IF RegAt(a, i) = 13 THEN UnknownByte ELSE d[i]
    <2>1. a \in Nat /\ c \in Cells
      OBVIOUS
    <2> QED  BY <1>2, <2>1, NotedIs
  <1>4. LastByte(Old, a, d, Len(d), New, c)
    BY WriteRegsIs
  <1>5. CASE regs'[c] = regs[c] /\ \A j \in 1..Len(d) : Cell(RegAt(a, j)) # c
    BY <1>1, <1>2, <1>3, <1>5
  <1>6. CASE \E j \in 1..Len(d) : /\ Cell(RegAt(a, j)) = c
                                  /\ \A m \in (j + 1)..Len(d) : Cell(RegAt(a, m)) # c
                                  /\ regs'[c] = IF c = 14 THEN d[j] % 32 ELSE d[j]
    <2>1. PICK j \in 1..Len(d) : /\ Cell(RegAt(a, j)) = c
                                 /\ \A m \in (j + 1)..Len(d) : Cell(RegAt(a, m)) # c
                                 /\ regs'[c] = IF c = 14 THEN d[j] % 32 ELSE d[j]
      BY <1>6
    <2>2. w[c] = IF RegAt(a, j) = 13 THEN UnknownByte ELSE d[j]
      BY <1>1, <1>3, <2>1
    <2>3. PICK x, y, z : x = w[c] /\ y = regs'[c] /\ z = d[j]
      OBVIOUS
    <2>4. /\ x = UnknownByte \/ x = z
          /\ y = IF c = 14 THEN z % 32 ELSE z
      <3>1. x = UnknownByte \/ x = z
        BY <2>2, <2>3, Zenon
      <3>2. y = IF c = 14 THEN z % 32 ELSE z
        BY <2>1, <2>3, Zenon
      <3> QED  BY <3>1, <3>2, Zenon
    <2>5. Agrees(x, y, c)
      BY <2>4, Zenon DEF Agrees
    <2> QED  BY <1>2, <2>3, <2>5
  <1> QED  BY <1>4, <1>5, <1>6 DEF LastByte, Old, New

KeptOf == \A c \in Cells \ {Status} : Agrees(shadow[c], regs[c], c)
LEMMA KeptIs == Kept <=> (ptr # NoPtr /\ chip = "ds3231" => ptr = index) /\ KeptOf
  BY DEF Kept, KeptOf, Agrees

LEMMA KeptInit == RtcInit => Kept
  <1>1. SUFFICES ASSUME RtcInit PROVE Kept
    OBVIOUS
  <1>2. ptr = 0 /\ index = 0 /\ \A c \in Cells : shadow[c] = UnknownByte
    BY <1>1 DEF RtcInit, Forgotten
  <1> QED  BY <1>2, KeptIs DEF KeptOf, Agrees

LEMMA KeptNext == RtcTypeOK /\ Kept /\ [RtcNext]_rtcvars => Kept'
  <1> SUFFICES ASSUME RtcTypeOK, Kept, [RtcNext]_rtcvars PROVE Kept'
    OBVIOUS
  <1> DEFINE Pointer == ptr # NoPtr /\ chip = "ds3231" => ptr = index
  <1>1. Pointer /\ KeptOf
    BY KeptIs
  <1>2. SUFFICES Pointer' /\ KeptOf'
    BY DEF Kept, KeptOf, Agrees
  <1>3. CASE UNCHANGED <<regs, shadow, ptr, index, chip>>
    BY <1>1, <1>3 DEF KeptOf
  <1>4. CASE Access
    <2>1. \A k \in Cells \ {Status} : regs'[k] = regs[k]
      BY <1>4, RaisedIs DEF Access
    <2> QED  BY <1>1, <1>4, <2>1 DEF Access, KeptOf
  <1>5. ASSUME NEW a \in Addrs, WriteAddr(a) PROVE Pointer' /\ KeptOf'
    BY <1>1, <1>5 DEF WriteAddr, KeptOf
  <1>6. ASSUME shadow' = Forgotten PROVE KeptOf'
    BY <1>6 DEF KeptOf, Forgotten, Agrees
  <1>7. ASSUME NEW a \in 0..NREGS, NEW d \in Data, WriteRegs(a, d), shadow' = Noted(a, d)
        PROVE  KeptOf'
    BY <1>1, <1>7, WriteAgrees DEF KeptOf
  <1>8. ASSUME NEW d \in Data, WriteData(d) PROVE Pointer' /\ KeptOf'
    <2>1. WriteRegs(index, d) /\ index \in 0..NREGS
      BY <1>8 DEF WriteData, RtcTypeOK, NREGS
    <2>2. KeptOf'
      <3>1. CASE ptr = NoPtr
        BY <1>6, <1>8, <3>1 DEF WriteData
      <3>2. CASE ptr # NoPtr
        BY <1>1, <1>7, <1>8, <2>1, <3>2 DEF WriteData
      <3> QED  BY <3>1, <3>2
    <2>3. Pointer'
      BY <1>1, <1>8 DEF WriteData
    <2> QED  BY <2>2, <2>3
  <1>9. ASSUME NEW a \in Addrs, NEW d \in Data, WriteJoined(a, d) PROVE Pointer' /\ KeptOf'
    BY <1>6, <1>9 DEF WriteJoined
  <1>10. ASSUME NEW a \in Addrs, NEW d \in Data, XfrWrite(a, d) PROVE Pointer' /\ KeptOf'
    <2>1. a \in 0..NREGS
      BY RtcAssumption DEF NREGS
    <2>2. KeptOf'
      BY <1>7, <1>10, <2>1 DEF XfrWrite
    <2> QED  BY <1>10, <2>2 DEF XfrWrite, Xfr
  <1>11. ASSUME NEW n \in 1..MaxLen, ReadRegs(n) PROVE Pointer' /\ KeptOf'
    BY <1>1, <1>11 DEF ReadRegs, KeptOf
  <1>12. CASE ClockTick \/ StopOrDeselect \/ UNCHANGED rtcvars
    BY <1>3, <1>12 DEF ClockTick, StopOrDeselect, rtcvars, dev, guest
  <1>13. CASE Start \/ Select
    BY <1>4, <1>13 DEF Start, Select
  <1>14. CASE \E a \in Addrs, n \in 0..MaxLen : XfrRead(a, n)
    BY <1>3, <1>14 DEF XfrRead, Xfr
  <1>15. CASE (\E b \in 0..SramSize - 1 : XfrSramAddr(b)) \/ XfrSramRead
              \/ \E b \in Bytes : XfrSramWrite(b)
    BY <1>3, <1>15 DEF XfrSramAddr, XfrSramRead, XfrSramWrite, Xfr
  <1> QED  BY <1>5, <1>8, <1>9, <1>10, <1>11, <1>12, <1>13, <1>14, <1>15 DEF RtcNext

(* The stored registers hold what the guest last wrote to each, counted     *)
(* from the address it sent, through reads, writes and wraps past the last  *)
(* register of any length: the pointer the DS3231 keeps across calls is the *)
(* guest's own count.                                                       *)
THEOREM WritesKept == RtcSpec => []Kept
  <1> QED  BY KeptInit, KeptNext, RtcTypeCorrect, PTL DEF RtcSpec
-----------------------------------------------------------------------------
(* The rows of the table imply what the code compares.                      *)
LEMMA RowsAreAlarms ==
    ASSUME NEW r \in [Cells -> 0..255], NEW old, NEW t, NEW h12
    PROVE  /\ Row1Matches(r, t, h12) => Alarm1(r, old, t, h12)
           /\ Row2Matches(r, t, h12) => Alarm2(r, old, t, h12)
  <1>1. r[10] # UnknownByte /\ Alarm2_DayDate # UnknownByte /\ ~Has(Alarm2_DayDate, 128)
    <2>1. 10 \in Cells
      BY DEF Cells
    <2> QED  BY <2>1 DEF UnknownByte, Alarm2_DayDate, Has
  <1>2. /\ \A v, b : FieldsMatch(t, h12, [f \in {0} |-> v], b) => v % 128 = TimeReg(t, h12, 0)
        /\ \A v, b : FieldsMatch(t, h12, [f \in {1} |-> v], b) => v % 128 = TimeReg(t, h12, 1)
    BY DEF FieldsMatch
  <1>3. ASSUME NEW b, FieldsMatch(t, h12, [f \in 0..1 |-> r[7 + f]], b)
        PROVE  r[8] % 128 = TimeReg(t, h12, 1)
    <2>1. PICK g : g = [f \in 0..1 |-> r[7 + f]]
      OBVIOUS
    <2>2. 1 \in DOMAIN g /\ g[1] = r[8]
      <3>1. 1 \in 0..1 /\ 7 + 1 = 8
        OBVIOUS
      <3> QED  BY <2>1, <3>1
    <2> QED  BY <1>3, <2>1, <2>2, Zenon DEF FieldsMatch
  <1>4. ASSUME NEW b, FieldsMatch(t, h12, [f \in 0..2 |-> r[7 + f]], b)
        PROVE  /\ r[9] % 128 = TimeReg(t, h12, 2)
               /\ b = UnknownByte \/ DayMatches(b, t)
    <2>1. PICK g : g = [f \in 0..2 |-> r[7 + f]]
      OBVIOUS
    <2>2. 2 \in DOMAIN g /\ g[2] = r[9]
      <3>1. 2 \in 0..2 /\ 7 + 2 = 9
        OBVIOUS
      <3> QED  BY <2>1, <3>1
    <2> QED  BY <1>4, <2>1, <2>2, Zenon DEF FieldsMatch
  <1>5. ASSUME NEW b, FieldsMatch(t, h12, [f \in 1..2 |-> r[10 + f]], b)
        PROVE  b = UnknownByte \/ DayMatches(b, t)
    BY <1>5 DEF FieldsMatch
  <1>6. \A b : b % 128 = TimeReg(t, h12, 2) => HourMatches(b, t, h12)
    BY DEF TimeReg, HourMatches
  <1>7. ASSUME Row1Matches(r, t, h12) PROVE Alarm1(r, old, t, h12)
    <2>1. ~Has(r[7], 128)
      BY <1>7 DEF Row1Matches
    <2>2. CASE Has(r[8], 128)
      BY <1>2, <1>7, <2>1, <2>2, Zenon DEF Row1Matches, Alarm1
    <2>3. CASE ~Has(r[8], 128) /\ Has(r[9], 128)
      BY <1>3, <1>7, <2>1, <2>3, Zenon DEF Row1Matches, Alarm1
    <2>4. CASE ~Has(r[8], 128) /\ ~Has(r[9], 128)
      <3>1. FieldsMatch(t, h12, [f \in 0..2 |-> r[7 + f]],
                        IF Has(r[10], 128) THEN UnknownByte ELSE r[10])
        BY <1>7, <2>4, Zenon DEF Row1Matches
      <3>2. /\ r[9] % 128 = TimeReg(t, h12, 2)
            /\ Has(r[10], 128) \/ DayMatches(r[10], t)
        BY <1>1, <1>4, <3>1, Zenon
      <3> QED  BY <1>6, <2>1, <2>4, <3>2, Zenon DEF Alarm1
    <2> QED  BY <2>2, <2>3, <2>4
  <1>8. ASSUME Row2Matches(r, t, h12) PROVE Alarm2(r, old, t, h12)
    <2>1. ~Has(r[11], 128)
      BY <1>8 DEF Row2Matches
    <2>2. CASE Has(r[12], 128)
      BY <1>2, <1>8, <2>1, <2>2, Zenon DEF Row2Matches, Alarm2
    <2>3. CASE ~Has(r[12], 128)
      <3>1. FieldsMatch(t, h12, [f \in 1..2 |-> r[10 + f]], Alarm2_DayDate)
        BY <1>8, <2>3, Zenon DEF Row2Matches
      <3>2. DayMatches(Alarm2_DayDate, t)
        BY <1>1, <1>5, <3>1, Zenon
      <3> QED  BY <1>1, <2>1, <2>3, <3>2, Zenon DEF Alarm2
    <2> QED  BY <2>2, <2>3
  <1> QED  BY <1>7, <1>8

(* Whatever the alarm registers hold and whenever the access comes, an      *)
(* alarm whose row of the README's table holds at that instant raises its   *)
(* flag, in 12 and 24 hour mode.                                            *)
THEOREM RowRaises == RtcSpec => MatchRaises
  <1>1. ASSUME RtcTypeOK, Access
        PROVE  /\ Row1Matches(regs, now, twelve) => Has(regs'[Status], 1)
               /\ Row2Matches(regs, now, twelve) => Has(regs'[Status], 2)
    <2>1. PICK r : r = Raised(regs, system_time, now, twelve) /\ regs' = r
      BY <1>1 DEF Access
    <2>2. FlagsOr(r[Status], regs[Status], Alarm1(regs, system_time, now, twelve),
                  Alarm2(regs, system_time, now, twelve))
      BY <1>1, <2>1, RaisedIs
    <2>3. regs \in [Cells -> 0..255]
      BY <1>1 DEF RtcTypeOK
    <2> QED  BY <2>1, <2>2, <2>3, RowsAreAlarms DEF FlagsOr
  <1> QED  BY <1>1, RtcTypeCorrect, PTL DEF MatchRaises
-----------------------------------------------------------------------------
(* The bytes of a write that is no longer than the register file go to      *)
(* different registers.                                                     *)
LEMMA RegAtOnce ==
    ASSUME NEW a \in 0..NREGS, NEW i \in Nat \ {0}, NEW j \in Nat \ {0},
           i < j, j - i < NREGS
    PROVE  RegAt(a, i) # RegAt(a, j)
  BY DEF RegAt, NREGS

(* A write that clears a flag carries a zero for it, which the guest knows. *)
Sticks(mask) ==
    /\ ~Has(regs[Status], mask) /\ Has(regs'[Status], mask) => ndata' = ndata
    /\ Has(regs[Status], mask) /\ ~Has(regs'[Status], mask) =>
          /\ ndata' # ndata
          /\ ptr' # NoPtr \/ chip = "ds3234" =>
                shadow'[Status] # UnknownByte /\ ~Has(shadow'[Status], mask)
LEMMA WriteSticks ==
    ASSUME RtcTypeOK, MaxLen <= NREGS, NEW a \in 0..NREGS, NEW d \in Data, WriteRegs(a, d),
           ptr' # NoPtr \/ chip = "ds3234" => shadow' = Noted(a, d),
           NEW mask \in {1, 2}
    PROVE  Sticks(mask)
  <1>1. /\ Has(regs'[Status], mask) => Has(regs[Status], mask)
        /\ Has(regs[Status], mask) /\ ~Has(regs'[Status], mask) =>
             \E j \in 1..Len(d) : RegAt(a, j) = Status /\ ~Has(d[j], mask)
        /\ ndata' # ndata
    BY WriteRegsIs DEF Cleared, Old, New
  <1>2. ASSUME ptr' # NoPtr \/ chip = "ds3234", Has(regs[Status], mask), ~Has(regs'[Status], mask)
        PROVE  shadow'[Status] # UnknownByte /\ ~Has(shadow'[Status], mask)
    <2>1. PICK j \in 1..Len(d) : RegAt(a, j) = Status /\ ~Has(d[j], mask)
      BY <1>1, <1>2
    <2>2. \A m \in (j + 1)..Len(d) : RegAt(a, m) # Status
      <3>1. SUFFICES ASSUME NEW m \in (j + 1)..Len(d) PROVE RegAt(a, m) # Status
        OBVIOUS
      <3>2. m \in Nat \ {0} /\ j \in Nat \ {0} /\ j < m /\ m - j < NREGS
        BY DataIs, RtcAssumption DEF NREGS
      <3> QED  BY <2>1, <3>2, RegAtOnce
    <2>3. \A i : ByteFor(Status, a, d, i) <=> RegAt(a, i) = Status
      BY DEF ByteFor, Status
    <2>4. Status \in Cells /\ a \in Nat
      BY DEF Status, Cells
    <2>5. shadow'[Status] = d[j]
      <3>1. Noted(a, d)[Status] = IF RegAt(a, j) = 13 THEN UnknownByte ELSE d[j]
        BY <2>1, <2>2, <2>3, <2>4, NotedIs
      <3>2. RegAt(a, j) # 13
        BY <2>1 DEF Status
      <3> QED  BY <1>2, <3>1, <3>2
    <2>6. d[j] # UnknownByte
      BY DataIs, RtcAssumption DEF UnknownByte
    <2> QED  BY <2>1, <2>5, <2>6
  <1> QED  BY <1>1, <1>2 DEF Sticks

LEMMA StepSticks ==
    ASSUME MaxLen <= NREGS, RtcTypeOK, Kept, [RtcNext]_rtcvars, NEW mask \in {1, 2}
    PROVE  Sticks(mask)
  <1>1. CASE UNCHANGED regs
    BY <1>1 DEF Sticks
  <1>2. CASE Access
    <2>1. FlagsOr(regs'[Status], regs[Status], Alarm1(regs, system_time, now, twelve),
                  Alarm2(regs, system_time, now, twelve))
      BY <1>2, RaisedIs DEF Access
    <2>2. Has(regs[Status], mask) => Has(regs'[Status], mask)
      BY <2>1 DEF FlagsOr
    <2> QED  BY <1>2, <2>2 DEF Access, Sticks
  <1>3. ASSUME NEW d \in Data, WriteData(d) PROVE Sticks(mask)
    <2>1. WriteRegs(index, d) /\ index \in 0..NREGS
      BY <1>3 DEF WriteData, RtcTypeOK, NREGS
    <2>2. chip = "ds3231" /\ (ptr' # NoPtr => ptr # NoPtr)
      BY <1>3 DEF WriteData
    <2>3. ptr' # NoPtr => ptr = index
      BY <2>2, KeptIs
    <2>4. ptr' # NoPtr \/ chip = "ds3234" => shadow' = Noted(index, d)
      BY <1>3, <2>2, <2>3 DEF WriteData
    <2> QED  BY <2>1, <2>4, WriteSticks
  <1>4. ASSUME NEW a \in Addrs, NEW d \in Data, WriteJoined(a, d) PROVE Sticks(mask)
    <2>1. WriteRegs(a + 1, d) /\ a + 1 \in 0..NREGS
      BY <1>4, RtcAssumption DEF WriteJoined, NREGS
    <2>2. chip = "ds3231" /\ ptr' = NoPtr
      BY <1>4 DEF WriteJoined
    <2>3. ptr' # NoPtr \/ chip = "ds3234" => shadow' = Noted(a + 1, d)
      BY <2>2
    <2> QED  BY <2>1, <2>3, WriteSticks
  <1>5. ASSUME NEW a \in Addrs, NEW d \in Data, XfrWrite(a, d) PROVE Sticks(mask)
    <2>1. WriteRegs(a, d) /\ a \in 0..NREGS
      BY <1>5, RtcAssumption DEF XfrWrite, NREGS
    <2>2. shadow' = Noted(a, d)
      BY <1>5 DEF XfrWrite
    <2> QED  BY <2>1, <2>2, WriteSticks
  <1>6. CASE ClockTick \/ StopOrDeselect \/ UNCHANGED rtcvars
    BY <1>1, <1>6 DEF ClockTick, StopOrDeselect, rtcvars, dev
  <1>7. CASE Start \/ Select
    BY <1>2, <1>7 DEF Start, Select
  <1>8. CASE (\E a \in Addrs : WriteAddr(a)) \/ \E n \in 1..MaxLen : ReadRegs(n)
    BY <1>1, <1>8 DEF WriteAddr, ReadRegs
  <1>9. CASE \E a \in Addrs, n \in 0..MaxLen : XfrRead(a, n)
    BY <1>1, <1>9 DEF XfrRead
  <1>10. CASE (\E b \in 0..SramSize - 1 : XfrSramAddr(b)) \/ XfrSramRead
              \/ \E b \in Bytes : XfrSramWrite(b)
    BY <1>1, <1>10 DEF XfrSramAddr, XfrSramRead, XfrSramWrite
  <1> QED  BY <1>3, <1>4, <1>5, <1>6, <1>7, <1>8, <1>9, <1>10 DEF RtcNext

(* A raised flag falls only by a write of a zero to it that the guest knows *)
(* of, and no write raises one.  A call may not be longer than the register *)
(* file: a longer one comes round to the status register again, and may     *)
(* clear a flag and then write a one over it.                               *)
THEOREM FlagsStick ==
    ASSUME MaxLen <= NREGS
    PROVE  RtcSpec => AlarmsStick
  <1>1. ASSUME RtcTypeOK, Kept, [RtcNext]_rtcvars
        PROVE  \A mask \in {1, 2} : Sticks(mask)
    BY <1>1, StepSticks
  <1>2. AlarmsStick <=> [][\A mask \in {1, 2} : Sticks(mask)]_rtcvars
    BY PTL DEF AlarmsStick, Sticks
  <1> QED  BY <1>1, <1>2, RtcTypeCorrect, WritesKept, PTL DEF RtcSpec
-----------------------------------------------------------------------------
(* The switch (EthSwitch). *)

(* Every station is behind one client, and every client has one station     *)
(* behind it, if any.                                                       *)
OneStation ==
    /\ \A m \in Macs : \A c, d \in Places[m] : c = d
    /\ \A m, n \in Macs : Places[m] \cap Places[n] # {} => m = n

MacEntry == [mac : Macs \cup {Bcast}, age : 0..(Purge + 1), next : Addresses \cup {NULL}]
Tables == [heap : [Addresses -> MacEntry], me : [Clients -> Addresses \cup {NULL}],
           nme : [Clients -> Int]]

(* Client c's list is empty, or it is its station's entry.                  *)
Alone(t, c) ==
    \/ t.me[c] = NULL /\ t.nme[c] = 0
    \/ /\ t.me[c] \in Addresses /\ t.nme[c] = 1
       /\ t.heap[t.me[c]].mac \in Macs /\ c \in Places[t.heap[t.me[c]].mac]

(* No other entry is in memory.                                             *)
Tidy(t) ==
    /\ t \in Tables
    /\ \A c \in Clients : Alone(t, c)
    /\ \A c, d \in Clients : t.me[c] = t.me[d] /\ t.me[c] # NULL => c = d
    /\ \A a \in Addresses : t.heap[a].next = NULL
    /\ \A a \in Addresses : t.heap[a] # Freed => \E c \in Clients : t.me[c] = a

HasStation(t, c, mac) == t.me[c] # NULL /\ t.heap[t.me[c]].mac = mac

(* What a look-up makes of a table: entries are refreshed, and old ones go. *)
Shrunk(t, u) ==
    \A c \in Clients :
       \/ /\ u.me[c] = t.me[c]
          /\ u.me[c] # NULL => /\ u.heap[u.me[c]].mac = t.heap[t.me[c]].mac
                               /\ u.heap[u.me[c]].age <= t.heap[t.me[c]].age
       \/ u.me[c] = NULL /\ t.me[c] # NULL /\ t.heap[t.me[c]].age > Purge

LEMMA AddressesAre == NULL \notin Addresses /\ NULL + 1 \in Addresses
  BY EthSwitchAssumption DEF Addresses, NULL

(* An entry on its own, refreshed.                                          *)
Only(t, u, a) ==
    /\ u \in Tables /\ u.me = t.me /\ u.nme = t.nme
    /\ \A b \in Addresses \ {a} : u.heap[b] = t.heap[b]
    /\ u.heap[a].mac = t.heap[a].mac /\ u.heap[a].next = t.heap[a].next
    /\ u.heap[a].age = 0
LEMMA RefreshIs ==
    ASSUME NEW t \in Tables, NEW a \in Addresses
    PROVE  Only(t, [t EXCEPT !.heap[a].age = 0], a)
  <1>1. PICK h, m, n : h = t.heap /\ m = t.me /\ n = t.nme
    OBVIOUS
  <1>2. /\ h \in [Addresses -> MacEntry] /\ m \in [Clients -> Addresses \cup {NULL}]
        /\ n \in [Clients -> Int]
    BY <1>1 DEF Tables
  <1>3. PICK x : x = h[a]
    OBVIOUS
  <1>4. PICK y : y = [x EXCEPT !.age = 0]
    OBVIOUS
  <1>5. x \in MacEntry /\ y \in MacEntry /\ y.mac = x.mac /\ y.next = x.next /\ y.age = 0
    <2>1. x \in MacEntry
      BY <1>2, <1>3
    <2>2. 0 \in 0..(Purge + 1)
      BY EthSwitchAssumption
    <2> QED  BY <1>4, <2>1, <2>2 DEF MacEntry
  <1>6. PICK g : g = [h EXCEPT ![a] = y]
    OBVIOUS
  <1>7. g \in [Addresses -> MacEntry] /\ g[a] = y /\ \A b \in Addresses \ {a} : g[b] = h[b]
    BY <1>2, <1>5, <1>6
  <1>8. [t EXCEPT !.heap[a].age = 0] = [heap |-> g, me |-> m, nme |-> n]
    BY <1>1, <1>3, <1>4, <1>6 DEF Tables
  <1>9. PICK u : u = [heap |-> g, me |-> m, nme |-> n]
    OBVIOUS
  <1>10. u.heap = g /\ u.me = m /\ u.nme = n /\ u \in Tables
    BY <1>2, <1>7, <1>9 DEF Tables
  <1>11. Only(t, u, a)
    BY <1>1, <1>3, <1>5, <1>7, <1>10 DEF Only
  <1> QED  BY <1>8, <1>9, <1>11

LEMMA RefreshTidy ==
    ASSUME NEW t, Tidy(t), NEW a \in Addresses, NEW u, Only(t, u, a), t.heap[a] # Freed
    PROVE  Tidy(u) /\ Shrunk(t, u)
  <1>1. t \in Tables /\ u \in Tables
    BY DEF Tidy, Only
  <1>2. \A b \in Addresses : /\ u.heap[b].mac = t.heap[b].mac /\ u.heap[b].next = t.heap[b].next
                             /\ u.heap[b].age <= t.heap[b].age
                             /\ u.heap[b] # Freed => t.heap[b] # Freed
    <2> SUFFICES ASSUME NEW b \in Addresses
                 PROVE  /\ u.heap[b].mac = t.heap[b].mac /\ u.heap[b].next = t.heap[b].next
                        /\ u.heap[b].age <= t.heap[b].age
                        /\ u.heap[b] # Freed => t.heap[b] # Freed
      OBVIOUS
    <2>1. t.heap[b] \in MacEntry
      BY <1>1 DEF Tables
    <2>2. t.heap[b].age \in 0..(Purge + 1)
      BY <2>1 DEF MacEntry
    <2>3. t.heap[b].age >= 0 /\ t.heap[b].age <= t.heap[b].age
      BY <2>2, EthSwitchAssumption
    <2>4. CASE b = a
      BY <2>3, <2>4 DEF Only
    <2>5. CASE b # a
      BY <2>3, <2>5 DEF Only
    <2> QED  BY <2>4, <2>5
  <1>3. u.me = t.me /\ u.nme = t.nme
    BY DEF Only
  <1>4. \A c \in Clients : t.me[c] # NULL => t.me[c] \in Addresses
    BY <1>1 DEF Tables
  <1>5. \A c \in Clients : Alone(u, c)
    BY <1>2, <1>3, <1>4 DEF Alone, Tidy
  <1>6. Tidy(u)
    BY <1>1, <1>2, <1>3, <1>5 DEF Tidy
  <1> QED  BY <1>2, <1>3, <1>4, <1>6 DEF Shrunk

(* The only entry of a client goes.                                         *)
Without(t, u, c) ==
    /\ u \in Tables
    /\ \A b \in Addresses : u.heap[b] = IF b = t.me[c] THEN Freed ELSE t.heap[b]
    /\ \A d \in Clients : /\ u.me[d] = IF d = c THEN NULL ELSE t.me[d]
                          /\ u.nme[d] = IF d = c THEN 0 ELSE t.nme[d]
LEMMA FreedIs == Freed \in MacEntry /\ Freed.next = NULL
  BY EthSwitchAssumption DEF Freed, MacEntry

LEMMA WithoutTidy ==
    ASSUME NEW t, Tidy(t), NEW c \in Clients, t.me[c] \in Addresses, NEW u, Without(t, u, c),
           t.heap[t.me[c]].age > Purge
    PROVE  Tidy(u) /\ Shrunk(t, u)
  <1>1. t \in Tables /\ u \in Tables
    BY DEF Tidy, Without
  <1>2. \A d \in Clients : t.me[d] # NULL => t.me[d] \in Addresses
    BY <1>1 DEF Tables
  <1>3. \A d \in Clients \ {c} : t.me[d] # NULL => u.heap[t.me[d]] = t.heap[t.me[d]]
    BY <1>2 DEF Without, Tidy
  <1>4. ASSUME NEW d \in Clients PROVE Alone(u, d)
    <2>1. CASE d = c
      BY <2>1 DEF Alone, Without
    <2>2. CASE d # c
      <3>1. Alone(t, d)
        BY DEF Tidy
      <3>2. u.me[d] = t.me[d] /\ u.nme[d] = t.nme[d]
        BY <2>2 DEF Without
      <3> QED  BY <1>3, <2>2, <3>1, <3>2, AddressesAre DEF Alone
    <2> QED  BY <2>1, <2>2
  <1>5. \A d, e \in Clients : u.me[d] = u.me[e] /\ u.me[d] # NULL => d = e
    BY DEF Without, Tidy
  <1>6. \A b \in Addresses : u.heap[b].next = NULL
    BY FreedIs DEF Without, Tidy
  <1>7. ASSUME NEW b \in Addresses, u.heap[b] # Freed PROVE \E d \in Clients : u.me[d] = b
    <2>1. b # t.me[c] /\ t.heap[b] # Freed
      BY <1>7 DEF Without
    <2>2. PICK d \in Clients : t.me[d] = b
      BY <2>1 DEF Tidy
    <2>3. u.me[d] = b
      BY <2>1, <2>2 DEF Without
    <2> QED  BY <2>3
  <1>8. Tidy(u)
    BY <1>1, <1>4, <1>5, <1>6, <1>7 DEF Tidy
  <1>9. ASSUME NEW d \in Clients, d # c, t.me[d] # NULL
        PROVE  u.heap[t.me[d]].age <= t.heap[t.me[d]].age
    <2>1. t.heap[t.me[d]] \in MacEntry
      BY <1>1, <1>2, <1>9 DEF Tables
    <2>2. t.heap[t.me[d]].age \in 0..(Purge + 1)
      BY <2>1 DEF MacEntry
    <2> QED  BY <1>3, <1>9, <2>2, EthSwitchAssumption
  <1>10. \A d \in Clients : u.me[d] = IF d = c THEN NULL ELSE t.me[d]
    BY DEF Without
  <1>11. Shrunk(t, u)
    BY <1>3, <1>9, <1>10, AddressesAre DEF Shrunk
  <1> QED  BY <1>8, <1>11

(* The parts of a walk in a tidy table.                                     *)
Walks == [t : Tables, cs : Seq(Clients), e : Addresses \cup {NULL},
          p : Addresses \cup {NULL}, broken : BOOLEAN]

LEMMA WalkIs ==
    ASSUME NEW t \in Tables, NEW cs \in Seq(Clients), NEW e \in Addresses \cup {NULL},
           NEW q \in Addresses \cup {NULL}, NEW v,
           v = [t |-> t, cs |-> cs, e |-> e, p |-> q, broken |-> FALSE]
    PROVE  v \in Walks /\ v.t = t /\ v.cs = cs /\ v.e = e /\ v.p = q /\ ~v.broken
  BY DEF Walks

LEMMA PurgedIs ==
    ASSUME NEW w \in Walks, Tidy(w.t), NEW c \in Clients, c = Head(w.cs), w.e \in Addresses,
           w.e = w.t.me[c]
    PROVE  \E u : Without(w.t, u, c) /\ Purged(w) = NextClient(Walk(u, w.cs, NULL, NULL))
  <1>1. PICK t, h, m, n, e, q : /\ t = w.t /\ h = t.heap /\ m = t.me /\ n = t.nme
                                /\ e = w.e /\ q = w.p
    OBVIOUS
  <1>2. /\ h \in [Addresses -> MacEntry] /\ m \in [Clients -> Addresses \cup {NULL}]
        /\ n \in [Clients -> Int] /\ e \in Addresses /\ q \in Addresses \cup {NULL}
        /\ t = [heap |-> h, me |-> m, nme |-> n] /\ e = m[c]
    BY <1>1 DEF Tables, Walks
  <1>3. n[c] = 1 /\ h[e].next = NULL
    BY <1>1, <1>2, AddressesAre DEF Tidy, Alone
  <1>4. q # NULL => [h EXCEPT ![q].next = NULL] = h
    <2>1. SUFFICES ASSUME q \in Addresses PROVE [h EXCEPT ![q].next = NULL] = h
      BY <1>2
    <2>2. PICK x : x = h[q]
      OBVIOUS
    <2>3. x \in MacEntry /\ x.next = NULL
      BY <1>1, <1>2, <2>1, <2>2 DEF Tidy
    <2>4. [x EXCEPT !.next = NULL] = x
      BY <2>3 DEF MacEntry
    <2>5. [h EXCEPT ![q] = x] = h
      BY <1>2, <2>1, <2>2
    <2> QED  BY <2>2, <2>4, <2>5
  <1>5. PICK g, k, l : /\ g = [h EXCEPT ![e] = Freed] /\ k = [n EXCEPT ![c] = 0]
                       /\ l = [m EXCEPT ![c] = NULL]
    OBVIOUS
  <1>6. /\ g \in [Addresses -> MacEntry] /\ k \in [Clients -> Int]
        /\ l \in [Clients -> Addresses \cup {NULL}]
    BY <1>2, <1>5, FreedIs
  <1>7. /\ \A b \in Addresses : g[b] = IF b = e THEN Freed ELSE h[b]
        /\ \A d \in Clients : k[d] = IF d = c THEN 0 ELSE n[d]
        /\ \A d \in Clients : l[d] = IF d = c THEN NULL ELSE m[d]
    BY <1>2, <1>5
  <1>8. PICK u : u = [heap |-> g, me |-> l, nme |-> k]
    OBVIOUS
  <1>9. u \in Tables /\ u.heap = g /\ u.me = l /\ u.nme = k
    BY <1>6, <1>8 DEF Tables
  <1>10. Without(t, u, c)
    BY <1>1, <1>2, <1>7, <1>9 DEF Without
  <1>11. PICK v : v = [t EXCEPT !.heap = g, !.nme[c] = @ - 1]
    OBVIOUS
  <1>12. v = [heap |-> g, me |-> m, nme |-> k]
    <2>1. [n EXCEPT ![c] = @ - 1] = k
      BY <1>2, <1>3, <1>5
    <2> QED  BY <1>1, <1>2, <1>11, <2>1
  <1>13. v.nme[c] = 0 /\ [v EXCEPT !.me[c] = NULL] = u
    BY <1>5, <1>7, <1>8, <1>12
  <1>14. (IF q = NULL THEN h ELSE [h EXCEPT ![q].next = h[e].next]) = h
    BY <1>3, <1>4
  <1>15. v = [t EXCEPT !.heap = [(IF q = NULL THEN h ELSE [h EXCEPT ![q].next = h[e].next])
                                    EXCEPT ![e] = Freed], !.nme[c] = @ - 1]
    BY <1>5, <1>11, <1>14, Zenon
  <1>16. Purged(w) = NextClient(Walk([v EXCEPT !.me[c] = NULL], w.cs, NULL, NULL))
    BY <1>1, <1>13, <1>15, Zenon DEF Purged
  <1> QED  BY <1>1, <1>10, <1>13, <1>16

(* A walk for the entry of a station, begun in table t0: behind it no       *)
(* client has that entry, and at its place the client is not done with.     *)
OnWalk(t0, mac, w) ==
    /\ w \in Walks /\ ~w.broken
    /\ Tidy(w.t) /\ Shrunk(t0, w.t)
    /\ \A c \in Clients : c \in ToSet(w.cs) \/ ~HasStation(w.t, c, mac)
    /\ w.e # NULL => w.cs # <<>> /\ w.e = w.t.me[Head(w.cs)]
    /\ w.e = NULL /\ w.cs # <<>> => ~HasStation(w.t, Head(w.cs), mac)
AtEnd(w, mac) ==
    w.cs = <<>> \/ (w.e # NULL /\ w.t.heap[w.e].mac = mac /\ w.t.heap[w.e].age = 0)
ToGo(w) == 2 * Len(w.cs) - (IF w.e = NULL THEN 1 ELSE 0)

LEMMA HeadAndTail ==
    ASSUME NEW S, NEW s \in Seq(S), s # <<>>
    PROVE  /\ Head(s) \in S /\ Tail(s) \in Seq(S) /\ Len(s) \in Nat
           /\ Len(Tail(s)) = Len(s) - 1
           /\ \A x : x \in ToSet(s) => x = Head(s) \/ x \in ToSet(Tail(s))
           /\ Head(s) \in ToSet(s)
           /\ Len(s) > 1 <=> Tail(s) # <<>>
           /\ Len(s) > 1 => s[2] = Head(Tail(s)) /\ s[2] \in S
           /\ \A x \in ToSet(Tail(s)) : x \in ToSet(s)
  <1>1. /\ Head(s) \in S /\ Tail(s) \in Seq(S) /\ Len(s) \in Nat \ {0} /\ Head(s) = s[1]
        /\ Len(Tail(s)) = Len(s) - 1
        /\ \A i \in 1 .. Len(Tail(s)) : Tail(s)[i] = s[i+1]
    BY HeadTailProperties, EmptySeq
  <1>2. DOMAIN s = 1..Len(s) /\ DOMAIN Tail(s) = 1..Len(Tail(s))
    BY <1>1, LenProperties
  <1>3. ASSUME NEW x \in ToSet(s) PROVE x = Head(s) \/ x \in ToSet(Tail(s))
    <2>1. PICK i \in 1..Len(s) : x = s[i]
      BY <1>2 DEF ToSet
    <2>2. CASE i = 1
      BY <1>1, <2>1, <2>2
    <2>3. CASE i # 1
      <3>1. i - 1 \in 1..Len(Tail(s)) /\ (i - 1) + 1 = i
        BY <1>1, <2>3
      <3>2. Tail(s)[i - 1] = x
        BY <1>1, <2>1, <3>1
      <3> QED  BY <1>2, <3>1, <3>2 DEF ToSet
    <2> QED  BY <2>2, <2>3
  <1>4. Head(s) \in ToSet(s)
    <2>1. 1 \in DOMAIN s
      BY <1>1, <1>2
    <2> QED  BY <1>1, <2>1 DEF ToSet
  <1>5. Len(s) > 1 <=> Tail(s) # <<>>
    <2>1. PICK u \in Seq(S) : u = Tail(s)
      BY <1>1
    <2>2. Len(u) = Len(s) - 1 /\ Len(s) \in Nat \ {0}
      BY <1>1, <2>1
    <2>3. u # <<>> <=> Len(u) > 0
      BY EmptySeq
    <2> QED  BY <2>1, <2>2, <2>3
  <1>6. Len(s) > 1 => s[2] = Head(Tail(s)) /\ s[2] \in S
    <2>1. SUFFICES ASSUME Len(s) > 1 PROVE s[2] = Head(Tail(s)) /\ s[2] \in S
      OBVIOUS
    <2>2. Tail(s)[1] = s[2] /\ 2 \in 1..Len(s)
      <3>1. 1 \in 1..Len(Tail(s)) /\ 1 + 1 = 2 /\ 2 \in 1..Len(s)
        BY <1>1, <2>1
      <3> QED  BY <1>1, <3>1
    <2>3. Head(Tail(s)) = Tail(s)[1]
      <3>1. PICK u \in Seq(S) : u = Tail(s) /\ u # <<>>
        BY <1>1, <1>5, <2>1
      <3>2. Head(u) = u[1]
        BY <3>1
      <3> QED  BY <3>1, <3>2
    <2> QED  BY <2>2, <2>3, ElementOfSeq
  <1>7. \A x \in ToSet(Tail(s)) : x \in ToSet(s)
    <2>1. SUFFICES ASSUME NEW i \in 1..Len(Tail(s)) PROVE Tail(s)[i] \in ToSet(s)
      BY <1>2 DEF ToSet
    <2>2. i + 1 \in DOMAIN s /\ Tail(s)[i] = s[i + 1]
      BY <1>1, <1>2
    <2> QED  BY <2>2 DEF ToSet
  <1> QED  BY <1>1, <1>3, <1>4, <1>5, <1>6, <1>7

LEMMA NextClientIs ==
    ASSUME NEW t0, NEW mac, NEW w \in Walks, ~w.broken, w.cs # <<>>,
           Tidy(w.t), Shrunk(t0, w.t), ~HasStation(w.t, Head(w.cs), mac),
           \A c \in Clients : c \in ToSet(w.cs) \/ ~HasStation(w.t, c, mac)
    PROVE  /\ OnWalk(t0, mac, NextClient(w))
           /\ AtEnd(NextClient(w), mac) \/ ToGo(NextClient(w)) < 2 * Len(w.cs) - 1
  <1>1. PICK t, cs, q : t = w.t /\ cs = w.cs /\ q = w.p
    OBVIOUS
  <1>2. t \in Tables /\ cs \in Seq(Clients) /\ q \in Addresses \cup {NULL} /\ cs # <<>>
    BY <1>1 DEF Walks
  <1>3. /\ Tail(cs) \in Seq(Clients) /\ Len(cs) \in Nat
        /\ Len(Tail(cs)) = Len(cs) - 1
        /\ \A x : x \in ToSet(cs) => x = Head(cs) \/ x \in ToSet(Tail(cs))
        /\ Len(cs) > 1 <=> Tail(cs) # <<>>
        /\ Len(cs) > 1 => cs[2] = Head(Tail(cs)) /\ cs[2] \in Clients
    BY <1>2, HeadAndTail
  <1>4. PICK e : e = IF Len(cs) > 1 THEN t.me[cs[2]] ELSE NULL
    OBVIOUS
  <1>5. PICK v : v = Walk(t, Tail(cs), e, q)
    OBVIOUS
  <1>6. NextClient(w) = v
    BY <1>1, <1>4, <1>5 DEF NextClient
  <1>7. e \in Addresses \cup {NULL}
    BY <1>2, <1>3, <1>4 DEF Tables
  <1>8. /\ v \in Walks /\ ~v.broken /\ v.t = t /\ v.cs = Tail(cs) /\ v.e = e /\ v.p = q
    BY <1>2, <1>3, <1>5, <1>7 DEF Walk, Walks
  <1>9. \A c \in Clients : c \in ToSet(Tail(cs)) \/ ~HasStation(t, c, mac)
    BY <1>1, <1>3
  <1>10. OnWalk(t0, mac, v)
    BY <1>1, <1>3, <1>4, <1>8, <1>9 DEF OnWalk, HasStation
  <1>11. AtEnd(v, mac) \/ ToGo(v) < 2 * Len(cs) - 1
    BY <1>3, <1>8 DEF AtEnd, ToGo
  <1> QED  BY <1>1, <1>6, <1>10, <1>11

LEMMA ShrunkOn ==
    ASSUME NEW t \in Tables, NEW u \in Tables, NEW v \in Tables, Shrunk(t, u), Shrunk(u, v)
    PROVE  Shrunk(t, v)
  <1>1. \A x \in Tables, a \in Addresses : x.heap[a].age \in Int
    <2> SUFFICES ASSUME NEW x \in Tables, NEW a \in Addresses PROVE x.heap[a].age \in Int
      OBVIOUS
    <2>1. x.heap[a] \in MacEntry
      BY DEF Tables
    <2> QED  BY <2>1, EthSwitchAssumption DEF MacEntry
  <1>2. \A x \in Tables, c \in Clients : x.me[c] # NULL => x.me[c] \in Addresses
    BY DEF Tables
  <1> QED  BY <1>1, <1>2, EthSwitchAssumption DEF Shrunk

LEMMA WalkStepIs ==
    ASSUME NEW t0 \in Tables, NEW mac \in Macs, NEW w, OnWalk(t0, mac, w),
           NEW v, v = WalkStep(w, mac)
    PROVE  /\ OnWalk(t0, mac, v)
           /\ AtEnd(v, mac) \/ (~AtEnd(w, mac) /\ ToGo(v) < ToGo(w))
  <1>1. /\ w \in Walks /\ ~w.broken /\ Tidy(w.t) /\ Shrunk(t0, w.t)
        /\ \A c \in Clients : c \in ToSet(w.cs) \/ ~HasStation(w.t, c, mac)
    BY DEF OnWalk
  <1>2. PICK t, cs, e, q : t = w.t /\ cs = w.cs /\ e = w.e /\ q = w.p
    OBVIOUS
  <1>3. /\ t \in Tables /\ cs \in Seq(Clients) /\ e \in Addresses \cup {NULL}
        /\ q \in Addresses \cup {NULL}
        /\ w = [t |-> t, cs |-> cs, e |-> e, p |-> q, broken |-> FALSE]
    BY <1>1, <1>2 DEF Walks
  <1>4. CASE cs = <<>>
    BY <1>2, <1>4 DEF WalkStep, AtEnd
  <1>5. CASE cs # <<>> /\ e = NULL
    <2>1. v = NextClient(w)
      BY <1>1, <1>2, <1>5 DEF WalkStep
    <2>2. ~HasStation(w.t, Head(w.cs), mac)
      BY <1>2, <1>5 DEF OnWalk
    <2>3. ToGo(w) = 2 * Len(w.cs) - 1 /\ ~AtEnd(w, mac)
      BY <1>2, <1>5 DEF ToGo, AtEnd
    <2>4. /\ OnWalk(t0, mac, v)
          /\ AtEnd(v, mac) \/ ToGo(v) < 2 * Len(w.cs) - 1
      BY <1>1, <1>2, <1>5, <2>1, <2>2, NextClientIs
    <2> QED  BY <2>3, <2>4
  <1>6. CASE cs # <<>> /\ e # NULL
    <2>1. PICK c \in Clients : c = Head(cs)
      BY <1>3, <1>6, HeadAndTail
    <2>2. e \in Addresses /\ e = t.me[c]
      BY <1>2, <1>3, <1>6, <2>1 DEF OnWalk
    <2>3. t.heap[e] # Freed /\ t.heap[e].next = NULL
      <3>1. t.heap[e].mac \in Macs
        BY <1>1, <1>2, <2>2, AddressesAre DEF Tidy, Alone
      <3> QED  BY <1>1, <1>2, <2>2, <3>1, EthSwitchAssumption DEF Tidy, Freed
    <2>4. CASE t.heap[e].mac = mac
      <3>1. v = Refreshed(w)
        BY <1>1, <1>2, <1>6, <2>3, <2>4 DEF WalkStep, Live
      <3>2. PICK u : u = [t EXCEPT !.heap[e].age = 0]
        OBVIOUS
      <3>3. Only(t, u, e)
        BY <1>3, <2>2, <3>2, RefreshIs
      <3>4. Tidy(u) /\ Shrunk(t, u)
        BY <1>1, <1>2, <2>2, <2>3, <3>3, RefreshTidy
      <3>5. v = [t |-> u, cs |-> cs, e |-> e, p |-> q, broken |-> FALSE]
        BY <1>3, <3>1, <3>2 DEF Refreshed
      <3>6. v \in Walks /\ v.t = u /\ v.cs = cs /\ v.e = e /\ ~v.broken /\ u \in Tables
        <4>1. u \in Tables
          BY <3>3 DEF Only
        <4>2. /\ cs \in Seq(Clients) /\ e \in Addresses \cup {NULL}
              /\ q \in Addresses \cup {NULL}
          BY <1>3
        <4> QED  BY <3>5, <4>1, <4>2, WalkIs
      <3>7. Shrunk(t0, u)
        BY <1>1, <1>2, <1>3, <3>4, <3>6, ShrunkOn
      <3>8. u.me = t.me /\ \A d \in Clients : HasStation(u, d, mac) => HasStation(t, d, mac)
        <4>1. u.me = t.me
          BY <3>3 DEF Only
        <4>2. \A d \in Clients : t.me[d] # NULL => t.me[d] \in Addresses
          BY <1>3 DEF Tables
        <4>3. \A a \in Addresses : u.heap[a].mac = t.heap[a].mac
          BY <3>3 DEF Only
        <4> QED  BY <4>1, <4>2, <4>3 DEF HasStation
      <3>9. OnWalk(t0, mac, v)
        BY <1>1, <1>2, <1>6, <2>1, <2>2, <3>4, <3>6, <3>7, <3>8 DEF OnWalk
      <3>10. AtEnd(v, mac)
        BY <1>6, <2>2, <2>4, <3>3, <3>6 DEF AtEnd, Only
      <3> QED  BY <3>9, <3>10
    <2>5. CASE t.heap[e].mac # mac /\ Expired(t.heap[e])
      <3>1. v = Purged(w)
        BY <1>1, <1>2, <1>6, <2>3, <2>5 DEF WalkStep, Live
      <3>2. PICK u : Without(t, u, c) /\ Purged(w) = NextClient(Walk(u, w.cs, NULL, NULL))
        BY <1>1, <1>2, <2>1, <2>2, PurgedIs
      <3>3. t.heap[t.me[c]].age > Purge
        BY <2>2, <2>5 DEF Expired
      <3>4. Tidy(u) /\ Shrunk(t, u) /\ u \in Tables
        BY <1>1, <1>2, <2>2, <3>2, <3>3, WithoutTidy DEF Without
      <3>5. PICK x : x = Walk(u, cs, NULL, NULL)
        OBVIOUS
      <3>6. x \in Walks /\ ~x.broken /\ x.t = u /\ x.cs = cs
        BY <1>3, <3>4, <3>5 DEF Walk, Walks
      <3>7. Shrunk(t0, u)
        BY <1>1, <1>2, <1>3, <3>4, ShrunkOn
      <3>8. \A d \in Clients : HasStation(u, d, mac) => HasStation(t, d, mac) /\ d # c
        <4>1. \A d \in Clients \ {c} : t.me[d] # NULL => t.me[d] \in Addresses /\ t.me[d] # t.me[c]
          BY <1>1, <1>2, <1>3 DEF Tables, Tidy
        <4> QED  BY <3>2, <4>1 DEF HasStation, Without
      <3>9. /\ OnWalk(t0, mac, NextClient(x))
            /\ AtEnd(NextClient(x), mac) \/ ToGo(NextClient(x)) < 2 * Len(x.cs) - 1
        <4>1. ~HasStation(x.t, Head(x.cs), mac)
          BY <2>1, <3>6, <3>8
        <4>2. \A d \in Clients : d \in ToSet(x.cs) \/ ~HasStation(x.t, d, mac)
          BY <1>1, <1>2, <3>6, <3>8
        <4> QED  BY <1>6, <3>4, <3>6, <3>7, <4>1, <4>2, NextClientIs
      <3>10. v = NextClient(x)
        BY <1>2, <3>1, <3>2, <3>5
      <3>11. ToGo(w) = 2 * Len(cs) /\ ~AtEnd(w, mac) /\ Len(cs) \in Nat
        <4>1. Len(cs) \in Nat
          BY <1>3, LenProperties
        <4> QED  BY <1>2, <1>6, <2>5, <4>1 DEF ToGo, AtEnd
      <3>12. AtEnd(v, mac) \/ ToGo(v) < 2 * Len(cs) - 1
        BY <3>6, <3>9, <3>10
      <3>13. ToGo(v) \in Int
        <4>1. Len(v.cs) \in Nat
          BY <3>9, <3>10, LenProperties DEF OnWalk, Walks
        <4> QED  BY <4>1 DEF ToGo
      <3> QED  BY <3>9, <3>10, <3>11, <3>12, <3>13
    <2>6. CASE t.heap[e].mac # mac /\ ~Expired(t.heap[e])
      <3>1. v = Walk(t, cs, NULL, e)
        BY <1>1, <1>2, <1>6, <2>3, <2>6 DEF WalkStep, Live
      <3>2. v \in Walks /\ v.t = t /\ v.cs = cs /\ v.e = NULL /\ ~v.broken
        <4>1. v = [t |-> t, cs |-> cs, e |-> NULL, p |-> e, broken |-> FALSE]
          BY <3>1 DEF Walk
        <4>2. e \in Addresses \cup {NULL} /\ NULL \in Addresses \cup {NULL}
          BY <2>2
        <4> QED  BY <1>3, <4>1, <4>2, WalkIs
      <3>3. ~HasStation(t, c, mac)
        BY <2>2, <2>6 DEF HasStation
      <3>4. OnWalk(t0, mac, v)
        BY <1>1, <1>2, <2>1, <3>2, <3>3 DEF OnWalk
      <3>5. ToGo(v) < ToGo(w) /\ ~AtEnd(w, mac)
        <4>1. Len(cs) \in Nat
          BY <1>3, LenProperties
        <4> QED  BY <1>2, <1>6, <2>6, <3>2, <4>1 DEF ToGo, AtEnd
      <3> QED  BY <3>4, <3>5
    <2> QED  BY <2>4, <2>5, <2>6
  <1> QED  BY <1>4, <1>5, <1>6

LEMMA TwoTurnsMore == ASSUME NEW a \in Nat, NEW b \in Nat PROVE a * (b + 2) = a * b + 2 * a
  OBVIOUS

(* Locate is what its loop does, step by step, for as long as it takes.     *)
LEMMA LocateIs ==
    ASSUME NEW t0 \in Tables, NEW mac \in Macs, NEW w, OnWalk(t0, mac, w)
    PROVE  OnWalk(t0, mac, Locate(w, mac)) /\ AtEnd(Locate(w, mac), mac)
  <1> DEFINE W == {x \in Walks : OnWalk(t0, mac, x)}
             N == Len(w.cs) * (MaxEntries + 1)
             Loop(f) == f = [k \in 0..N |-> IF k = 0 THEN w ELSE WalkStep(f[k - 1], mac)]
  <1>1. Locate(w, mac) = (CHOOSE f : Loop(f))[N]
    BY DEF Locate
  <1>2. w \in W
    BY DEF OnWalk
  <1>3. PICK L \in Nat : L = Len(w.cs)
    BY LenProperties DEF OnWalk, Walks
  <1>4. PICK n \in Nat : n = N /\ n >= 2 * L
    <2>1. PICK m \in Nat : m = MaxEntries - 1
      BY EthSwitchAssumption
    <2>2. L * m \in Nat
      BY <2>1
    <2>3. N = L * m + 2 * L
      <3>1. MaxEntries + 1 = m + 2
        BY <2>1, EthSwitchAssumption
      <3>2. L * (m + 2) = L * m + 2 * L
        BY TwoTurnsMore
      <3>3. N = L * (m + 2)
        BY <1>3, <3>1, Zenon
      <3> QED  BY <3>2, <3>3
    <2> QED  BY <2>2, <2>3
  <1>5. ASSUME NEW x \in W PROVE WalkStep(x, mac) \in W
    BY WalkStepIs DEF OnWalk
  <1> DEFINE F == [x \in W \X (1..n) |-> WalkStep(x[1], mac)]
  <1>6. F \in [W \X (1..n) -> W] /\ \A x \in W, k \in 1..n : F[<<x, k>>] = WalkStep(x, mac)
    BY <1>5
  <1>7. PICK f \in [0..n -> W] : Follows(f, w, n, F)
    <2> HIDE DEF F, W
    <2> QED  BY <1>2, <1>6, Recursion
  <1>8. \A k \in 1..n : k - 1 \in 0..n /\ k # 0
    OBVIOUS
  <1>9. \A k \in 1..n : f[k] = WalkStep(f[k - 1], mac)
    <2>1. SUFFICES ASSUME NEW k \in 1..n PROVE f[k] = WalkStep(f[k - 1], mac)
      OBVIOUS
    <2>2. f[k - 1] \in W
      BY <1>8
    <2>3. f[k] = F[<<f[k - 1], k>>]
      BY <1>7 DEF Follows
    <2> HIDE DEF F, W
    <2> QED  BY <1>6, <2>2, <2>3
  <1>10. f[0] = w
    BY <1>7 DEF Follows
  <1> HIDE DEF F
  <1>11. Loop(f)
    <2>1. f = [k \in 0..n |-> f[k]]
      OBVIOUS
    <2>2. \A k \in 0..n : f[k] = IF k = 0 THEN w ELSE WalkStep(f[k - 1], mac)
      BY <1>9, <1>10
    <2> HIDE DEF W
    <2> QED  BY <1>4, <2>1, <2>2, Zenon
  <1>12. ASSUME NEW g, Loop(g) PROVE g[n] = f[n]
    <2> HIDE DEF W
    <2>1. /\ g[0] = w
          /\ \A k \in 1..n : g[k] = WalkStep(g[k - 1], mac)
      BY <1>4, <1>8, <1>12
    <2> DEFINE T == {k \in 0..n : g[k] = f[k]}
    <2>2. 0 \in T
      BY <1>10, <2>1
    <2>3. ASSUME NEW k \in 0..(n - 1), k \in T PROVE k + 1 \in T
      <3>1. k + 1 \in 1..n /\ (k + 1) - 1 = k /\ k + 1 \in 0..n
        OBVIOUS
      <3>2. g[k + 1] = WalkStep(g[k], mac) /\ f[k + 1] = WalkStep(f[k], mac)
        BY <1>9, <2>1, <3>1
      <3> QED  BY <2>3, <3>1, <3>2
    <2> HIDE DEF T
    <2>4. \A k \in 0..n : k \in T
      BY <2>2, <2>3, Climb
    <2> QED  BY <2>4 DEF T
  <1>13. Locate(w, mac) = f[n]
    <2>1. Loop(CHOOSE g : Loop(g))
      BY <1>11, Zenon
    <2> HIDE DEF Loop
    <2> QED  BY <1>1, <1>4, <1>12, <2>1
  <1> HIDE DEF Loop
  <1> DEFINE T == {k \in 0..n : AtEnd(f[k], mac) \/ ToGo(f[k]) <= 2 * L - k}
  <1>14. \A k \in 0..n : OnWalk(t0, mac, f[k]) /\ Len(f[k].cs) \in Nat /\ ToGo(f[k]) \in Int
    <2>1. SUFFICES ASSUME NEW k \in 0..n
                   PROVE  OnWalk(t0, mac, f[k]) /\ Len(f[k].cs) \in Nat /\ ToGo(f[k]) \in Int
      OBVIOUS
    <2>2. f[k] \in W
      OBVIOUS
    <2>3. OnWalk(t0, mac, f[k]) /\ f[k].cs \in Seq(Clients)
      BY <2>2 DEF Walks
    <2>4. Len(f[k].cs) \in Nat
      BY <2>3, LenProperties
    <2> QED  BY <2>3, <2>4 DEF ToGo
  <1> HIDE DEF W
  <1>15. 0 \in T
    <2>1. ToGo(w) <= 2 * L
      BY <1>3 DEF ToGo
    <2> QED  BY <1>10, <2>1
  <1>16. ASSUME NEW k \in 0..(n - 1), k \in T PROVE k + 1 \in T
    <2>1. k + 1 \in 1..n /\ (k + 1) - 1 = k /\ k + 1 \in 0..n /\ k \in 0..n
      OBVIOUS
    <2>2. f[k + 1] = WalkStep(f[k], mac)
      BY <1>9, <2>1
    <2>3. AtEnd(f[k + 1], mac) \/ (~AtEnd(f[k], mac) /\ ToGo(f[k + 1]) < ToGo(f[k]))
      BY <1>14, <2>1, <2>2, WalkStepIs
    <2> QED  BY <1>14, <1>16, <2>1, <2>3
  <1>17. n \in T
    <2> HIDE DEF T
    <2>1. \A k \in 0..n : k \in T
      BY <1>15, <1>16, Climb
    <2> QED  BY <2>1
  <1>18. AtEnd(f[n], mac)
    <2>1. SUFFICES ASSUME ~AtEnd(f[n], mac) PROVE FALSE
      OBVIOUS
    <2>2. ToGo(f[n]) <= 0
      BY <1>4, <1>14, <1>17, <2>1
    <2>3. f[n].cs \in Seq(Clients) /\ f[n].cs # <<>>
      BY <1>14, <2>1 DEF OnWalk, Walks, AtEnd
    <2>4. Len(f[n].cs) \in Nat \ {0}
      BY <2>3, EmptySeq
    <2> QED  BY <2>2, <2>4 DEF ToGo
  <1> QED  BY <1>13, <1>14, <1>18

-----------------------------------------------------------------------------
(* What a look-up in a tidy table finds and leaves.                         *)
LEMMA LookUpIs ==
    ASSUME NEW t, Tidy(t), clients \in Seq(Clients),
           \A c \in Clients : t.me[c] # NULL => c \in ToSet(clients),
           NEW mac \in Macs, NEW w, w = LookUp(t, mac)
    PROVE  /\ ~w.broken /\ Tidy(w.t) /\ Shrunk(t, w.t)
           /\ \/ FoundAt(w) = NoClient /\ \A c \in Clients : ~HasStation(w.t, c, mac)
              \/ /\ FoundAt(w) \in Clients /\ HasStation(w.t, FoundAt(w), mac)
                 /\ w.t.heap[w.t.me[FoundAt(w)]].age = 0
  <1>1. t \in Tables
    BY DEF Tidy
  <1>2. PICK e : e = IF clients = <<>> THEN NULL ELSE t.me[clients[1]]
    OBVIOUS
  <1>3. clients # <<>> => Head(clients) = clients[1] /\ Head(clients) \in Clients
    BY HeadAndTail
  <1>4. e \in Addresses \cup {NULL} /\ NULL \in Addresses \cup {NULL}
    BY <1>1, <1>2, <1>3 DEF Tables
  <1>5. PICK v : v = Walk(t, clients, e, NULL)
    OBVIOUS
  <1>6. v \in Walks /\ v.t = t /\ v.cs = clients /\ v.e = e /\ ~v.broken
    <2>1. v = [t |-> t, cs |-> clients, e |-> e, p |-> NULL, broken |-> FALSE]
      BY <1>5 DEF Walk
    <2>2. PICK q \in Addresses \cup {NULL} : q = NULL
      BY <1>4
    <2>3. v = [t |-> t, cs |-> clients, e |-> e, p |-> q, broken |-> FALSE]
      BY <2>1, <2>2, Zenon
    <2> QED  BY <1>1, <1>4, <2>3, WalkIs
  <1>7. Shrunk(t, t)
    <2>1. SUFFICES ASSUME NEW c \in Clients, t.me[c] # NULL
                   PROVE  t.heap[t.me[c]].age <= t.heap[t.me[c]].age
      BY DEF Shrunk
    <2>2. t.heap[t.me[c]] \in MacEntry
      BY <1>1, <2>1 DEF Tables
    <2>3. t.heap[t.me[c]].age \in 0..(Purge + 1)
      BY <2>2 DEF MacEntry
    <2> QED  BY <2>3, EthSwitchAssumption
  <1>8. OnWalk(t, mac, v)
    BY <1>2, <1>3, <1>6, <1>7 DEF OnWalk, HasStation
  <1>9. w = Locate(v, mac)
    BY <1>2, <1>5 DEF LookUp
  <1>10. OnWalk(t, mac, w) /\ AtEnd(w, mac)
    BY <1>1, <1>8, <1>9, LocateIs
  <1>11. w \in Walks /\ ~w.broken /\ Tidy(w.t) /\ Shrunk(t, w.t)
    BY <1>10 DEF OnWalk
  <1>12. CASE w.cs = <<>>
    <2>1. ToSet(w.cs) = {}
      <3>1. DOMAIN w.cs = 1..Len(w.cs) /\ Len(w.cs) = 0
        BY <1>11, <1>12, LenProperties, EmptySeq DEF Walks
      <3> QED  BY <3>1 DEF ToSet
    <2>2. \A c \in Clients : ~HasStation(w.t, c, mac)
      BY <1>10, <2>1 DEF OnWalk
    <2> QED  BY <1>11, <1>12, <2>2 DEF FoundAt
  <1>13. CASE w.cs # <<>>
    <2>1. PICK c \in Clients : c = Head(w.cs) /\ FoundAt(w) = c
      <3>1. w.cs \in Seq(Clients)
        BY <1>11 DEF Walks
      <3> QED  BY <1>13, <3>1, HeadAndTail DEF FoundAt
    <2>2. /\ w.e # NULL /\ w.e = w.t.me[c] /\ w.t.heap[w.e].mac = mac
          /\ w.t.heap[w.e].age = 0
      BY <1>10, <1>13, <2>1 DEF OnWalk, AtEnd
    <2> QED  BY <1>11, <2>1, <2>2 DEF HasStation
  <1> QED  BY <1>12, <1>13

(* The table knows a station where it was last heard, for as long as it     *)
(* was heard less than the purge time ago.                                  *)
Heards == [Macs -> [at : Clients \cup {NoClient}, age : 0..(Purge + 1)]]
HeardAt(t, h) ==
    /\ \A c \in Clients : t.me[c] # NULL =>
          /\ h[t.heap[t.me[c]].mac].at = c
          /\ t.heap[t.me[c]].age <= h[t.heap[t.me[c]].mac].age
    /\ \A m \in Macs : h[m].age <= Purge => \E c \in Clients : HasStation(t, c, m)

LEMMA AgesAre ==
    /\ \A t \in Tables, a \in Addresses :
          t.heap[a].age \in Int /\ t.heap[a].age >= 0 /\ t.heap[a].age <= Purge + 1
    /\ \A h \in Heards, m \in Macs :
          h[m].age \in Int /\ h[m].age >= 0 /\ h[m].age <= Purge + 1
    /\ Purge \in Nat
  <1>1. ASSUME NEW t \in Tables, NEW a \in Addresses
        PROVE  t.heap[a].age \in 0..(Purge + 1)
    <2>1. t.heap[a] \in MacEntry
      BY DEF Tables
    <2> QED  BY <2>1 DEF MacEntry
  <1>2. ASSUME NEW h \in Heards, NEW m \in Macs PROVE h[m].age \in 0..(Purge + 1)
    <2>1. h[m] \in [at : Clients \cup {NoClient}, age : 0..(Purge + 1)]
      BY DEF Heards
    <2> QED  BY <2>1
  <1> QED  BY <1>1, <1>2, EthSwitchAssumption

LEMMA MacsAre ==
    ASSUME NEW t, Tidy(t), NEW c \in Clients, t.me[c] # NULL
    PROVE  /\ t.me[c] \in Addresses /\ t.heap[t.me[c]].mac \in Macs
           /\ c \in Places[t.heap[t.me[c]].mac] /\ t.heap[t.me[c]] # Freed /\ t.nme[c] = 1
  <1>1. t.me[c] \in Addresses /\ t.heap[t.me[c]].mac \in Macs
    BY DEF Tidy, Alone
  <1>2. t.heap[t.me[c]] # Freed
    BY <1>1, EthSwitchAssumption DEF Freed
  <1> QED  BY <1>1, <1>2 DEF Tidy, Alone

LEMMA HeardOn ==
    ASSUME NEW t, Tidy(t), NEW u, Tidy(u), Shrunk(t, u), NEW h \in Heards, HeardAt(t, h)
    PROVE  HeardAt(u, h)
  <1>1. t \in Tables /\ u \in Tables
    BY DEF Tidy
  <1>2. ASSUME NEW c \in Clients, u.me[c] # NULL
        PROVE  /\ h[u.heap[u.me[c]].mac].at = c
               /\ u.heap[u.me[c]].age <= h[u.heap[u.me[c]].mac].age
    <2>1. /\ u.me[c] = t.me[c] /\ u.heap[u.me[c]].mac = t.heap[t.me[c]].mac
          /\ u.heap[u.me[c]].age <= t.heap[t.me[c]].age
      BY <1>2 DEF Shrunk
    <2>2. t.me[c] \in Addresses /\ t.heap[t.me[c]].mac \in Macs
      BY <1>2, <2>1, MacsAre
    <2>3. /\ h[t.heap[t.me[c]].mac].at = c
          /\ t.heap[t.me[c]].age <= h[t.heap[t.me[c]].mac].age
      BY <1>2, <2>1 DEF HeardAt
    <2>4. PICK x, y, z : x = u.heap[u.me[c]].age /\ y = t.heap[t.me[c]].age
                         /\ z = h[t.heap[t.me[c]].mac].age
      OBVIOUS
    <2>5. x \in Int /\ y \in Int /\ z \in Int
      BY <1>1, <2>1, <2>2, <2>4, AgesAre
    <2> QED  BY <2>1, <2>3, <2>4, <2>5
  <1>3. ASSUME NEW m \in Macs, h[m].age <= Purge
        PROVE  \E c \in Clients : HasStation(u, c, m)
    <2>1. PICK c \in Clients : t.me[c] # NULL /\ t.heap[t.me[c]].mac = m
      BY <1>3 DEF HeardAt, HasStation
    <2>2. t.me[c] \in Addresses
      BY <2>1, MacsAre
    <2>3. t.heap[t.me[c]].age <= h[m].age
      BY <2>1 DEF HeardAt
    <2>4. ~(t.heap[t.me[c]].age > Purge)
      BY <1>1, <1>3, <2>2, <2>3, AgesAre
    <2>5. u.me[c] # NULL /\ u.heap[u.me[c]].mac = m
      BY <2>1, <2>4 DEF Shrunk
    <2> QED  BY <2>5 DEF HasStation
  <1> QED  BY <1>2, <1>3 DEF HeardAt
(* A client that has none is given an entry.                                *)
Added(t, u, c, mac, a) ==
    /\ u \in Tables
    /\ a \in Addresses /\ t.heap[a] = Freed /\ \A d \in Clients : t.me[d] # a
    /\ \A b \in Addresses : b # a => u.heap[b] = t.heap[b]
    /\ u.heap[a].mac = mac /\ u.heap[a].age = 0 /\ u.heap[a].next = NULL
    /\ \A d \in Clients : /\ u.me[d] = IF d = c THEN a ELSE t.me[d]
                          /\ u.nme[d] = IF d = c THEN t.nme[c] + 1 ELSE t.nme[d]
LEMMA AddMacIs ==
    ASSUME NEW t \in Tables, Fresh(t) # {}, NEW c \in Clients, t.me[c] = NULL, NEW mac \in Macs
    PROVE  \E a : Added(t, AddMac(t, c, mac), c, mac, a)
  <1>1. PICK a : a = CHOOSE x \in Fresh(t) : TRUE
    OBVIOUS
  <1>2. a \in Fresh(t)
    BY <1>1
  <1>3. a \in Addresses /\ t.heap[a] = Freed /\ \A d \in Clients : t.me[d] # a
    BY <1>2 DEF Fresh, Live
  <1>4. PICK h, m, n : h = t.heap /\ m = t.me /\ n = t.nme
    OBVIOUS
  <1>5. /\ h \in [Addresses -> MacEntry] /\ m \in [Clients -> Addresses \cup {NULL}]
        /\ n \in [Clients -> Int]
    BY <1>4 DEF Tables
  <1>6. PICK y : y = [mac |-> mac, age |-> 0, next |-> NULL]
    OBVIOUS
  <1>7. y \in MacEntry /\ y.mac = mac /\ y.age = 0 /\ y.next = NULL
    <2>1. 0 \in 0..(Purge + 1)
      BY EthSwitchAssumption
    <2> QED  BY <1>6, <2>1 DEF MacEntry
  <1>8. PICK g, l, k : /\ g = [h EXCEPT ![a] = y] /\ l = [m EXCEPT ![c] = a]
                       /\ k = [n EXCEPT ![c] = @ + 1]
    OBVIOUS
  <1>9. /\ g \in [Addresses -> MacEntry] /\ l \in [Clients -> Addresses \cup {NULL}]
        /\ k \in [Clients -> Int]
        /\ g[a] = y /\ \A b \in Addresses : b # a => g[b] = h[b]
        /\ \A d \in Clients : /\ l[d] = IF d = c THEN a ELSE m[d]
                              /\ k[d] = IF d = c THEN n[c] + 1 ELSE n[d]
    BY <1>3, <1>5, <1>7, <1>8
  <1>10. PICK u : u = [heap |-> g, me |-> l, nme |-> k]
    OBVIOUS
  <1>11. u \in Tables /\ u.heap = g /\ u.me = l /\ u.nme = k
    BY <1>9, <1>10 DEF Tables
  <1>12. AddMac(t, c, mac) = u
    BY <1>1, <1>4, <1>6, <1>8, <1>10 DEF AddMac
  <1>13. Added(t, u, c, mac, a)
    BY <1>3, <1>4, <1>7, <1>9, <1>11 DEF Added
  <1> QED  BY <1>12, <1>13

LEMMA AddedTidy ==
    ASSUME NEW t, Tidy(t), NEW c \in Clients, t.me[c] = NULL, NEW mac \in Macs,
           c \in Places[mac], NEW a, NEW u, Added(t, u, c, mac, a)
    PROVE  Tidy(u)
  <1>1. \A d \in Clients : t.me[d] # NULL => t.me[d] \in Addresses /\ t.me[d] # a
    <2>1. t \in Tables
      BY DEF Tidy
    <2> QED  BY <2>1 DEF Tables, Added
  <1>2. \A d \in Clients : d # c /\ t.me[d] # NULL => u.heap[t.me[d]] = t.heap[t.me[d]]
    BY <1>1 DEF Added
  <1>3. ASSUME NEW d \in Clients PROVE Alone(u, d)
    <2>1. CASE d = c
      <3>1. t.nme[c] = 0
        BY AddressesAre DEF Tidy, Alone
      <3> QED  BY <2>1, <3>1 DEF Added, Alone
    <2>2. CASE d # c
      <3>1. u.me[d] = t.me[d] /\ u.nme[d] = t.nme[d] /\ Alone(t, d)
        BY <2>2 DEF Added, Tidy
      <3> QED  BY <1>2, <2>2, <3>1, AddressesAre DEF Alone
    <2> QED  BY <2>1, <2>2
  <1>4. \A d, e \in Clients : u.me[d] = u.me[e] /\ u.me[d] # NULL => d = e
    BY <1>1 DEF Added, Tidy
  <1>5. \A b \in Addresses : u.heap[b].next = NULL
    BY DEF Added, Tidy
  <1>6. ASSUME NEW b \in Addresses, u.heap[b] # Freed PROVE \E d \in Clients : u.me[d] = b
    <2>1. CASE b = a
      BY <2>1 DEF Added
    <2>2. CASE b # a
      <3>1. PICK d \in Clients : t.me[d] = b
        BY <1>6, <2>2 DEF Added, Tidy
      <3>2. d # c
        BY <3>1, AddressesAre
      <3> QED  BY <3>1, <3>2 DEF Added
    <2> QED  BY <2>1, <2>2
  <1>7. u \in Tables
    BY DEF Added
  <1> QED  BY <1>3, <1>4, <1>5, <1>6, <1>7 DEF Tidy

(* The frame's source is heard anew.                                        *)
LEMMA HeardNew ==
    ASSUME OneStation, NEW t, Tidy(t), NEW u, Tidy(u), NEW h \in Heards, HeardAt(t, h),
           NEW s \in Macs, NEW c \in Places[s], c \in Clients,
           HasStation(u, c, s), u.heap[u.me[c]].age = 0,
           \A d \in Clients : d # c => /\ u.me[d] = t.me[d]
                                       /\ t.me[d] # NULL => u.heap[t.me[d]] = t.heap[t.me[d]],
           NEW g, g = [h EXCEPT ![s] = [at |-> c, age |-> 0]]
    PROVE  g \in Heards /\ HeardAt(u, g)
  <1>1. PICK x : x = [at |-> c, age |-> 0]
    OBVIOUS
  <1>2. x.at = c /\ x.age = 0 /\ x \in [at : Clients \cup {NoClient}, age : 0..(Purge + 1)]
    <2>1. 0 \in 0..(Purge + 1)
      BY EthSwitchAssumption
    <2> QED  BY <1>1, <2>1
  <1>3. g[s] = x /\ (\A m \in Macs : m # s => g[m] = h[m]) /\ g \in Heards
    BY <1>1, <1>2 DEF Heards
  <1>4. ASSUME NEW d \in Clients, u.me[d] # NULL
        PROVE  /\ g[u.heap[u.me[d]].mac].at = d
               /\ u.heap[u.me[d]].age <= g[u.heap[u.me[d]].mac].age
    <2>1. CASE d = c
      BY <1>2, <1>3, <2>1 DEF HasStation
    <2>2. CASE d # c
      <3>1. u.me[d] = t.me[d] /\ u.heap[u.me[d]] = t.heap[t.me[d]]
        BY <1>4, <2>2
      <3>2. PICK m \in Macs : m = t.heap[t.me[d]].mac /\ d \in Places[m]
        BY <1>4, <3>1, MacsAre
      <3>3. m # s
        BY <2>2, <3>2 DEF OneStation
      <3> QED  BY <1>3, <1>4, <3>1, <3>2, <3>3 DEF HeardAt
    <2> QED  BY <2>1, <2>2
  <1>5. ASSUME NEW m \in Macs, g[m].age <= Purge
        PROVE  \E d \in Clients : HasStation(u, d, m)
    <2>1. CASE m = s
      BY <2>1
    <2>2. CASE m # s
      <3>1. PICK d \in Clients : t.me[d] # NULL /\ t.heap[t.me[d]].mac = m
        BY <1>3, <1>5, <2>2 DEF HeardAt, HasStation
      <3>2. d \in Places[m]
        BY <3>1, MacsAre
      <3>3. d # c
        BY <2>2, <3>2 DEF OneStation
      <3> QED  BY <3>1, <3>3 DEF HasStation
    <2> QED  BY <2>1, <2>2
  <1> QED  BY <1>3, <1>4, <1>5 DEF HeardAt
-----------------------------------------------------------------------------
(* The invariant.                                                           *)
Tbl == [heap |-> heap, me |-> me, nme |-> nme]
SwitchTypes ==
    /\ phase \in {"args", "run", "stop", "end"} /\ running \in BOOLEAN
    /\ clients \in Seq(Clients) /\ IsInjective(clients) /\ nclients \in Int
    /\ broken \in {"no", "walk", "loss"}
    /\ Tbl \in Tables /\ heard \in Heards
    /\ frame.to \subseteq Clients /\ frame.dst \in Macs \cup {Bcast}

(* The frame of a step goes where the table says, or everywhere.            *)
Sent(f, cl, h) ==
    \/ f.dst = Bcast /\ f.to = cl \ {f.src}
    \/ f.dst # Bcast /\ f.to = {h[f.dst].at}
    \/ /\ f.dst # Bcast /\ f.to = cl \ {f.src}
       /\ h[f.dst].age > Purge

SwitchInv ==
    /\ SwitchTypes
    /\ broken # "walk"
    /\ phase = "args" => frame = NoFrame
    /\ broken = "no" => /\ Tidy(Tbl)
                        /\ \A c \in Clients : me[c] # NULL => c \in ToSet(clients)
    /\ broken = "no" /\ phase \in {"args", "run"} => HeardAt(Tbl, heard)
    /\ broken = "no" /\ phase = "run" /\ frame # NoFrame => Sent(frame, ToSet(clients), heard)

(* A frame.  The source's client has its entry after the first look-up, so  *)
(* the second finds a station where it was last heard, or it was not heard  *)
(* for longer than the purge time.                                          *)
LEMMA EthTxStep ==
    ASSUME OneStation, SwitchInv, NEW s \in Macs, NEW dmac \in Macs \cup {Bcast},
           NEW c \in Places[s], EthTx(c, s, dmac)
    PROVE  SwitchInv'
  <1>1. PICK src, t0 : src = LookUp(t0, s) /\ t0 = Tbl
    OBVIOUS
  <1>2. /\ clients \in Seq(Clients) /\ Tidy(t0) /\ HeardAt(t0, heard) /\ heard \in Heards
        /\ \A d \in Clients : t0.me[d] # NULL => d \in ToSet(clients)
        /\ phase = "run" /\ broken = "no" /\ c \in ToSet(clients) /\ c \in Clients
    <2>1. phase = "run" /\ broken = "no" /\ c \in ToSet(clients)
      BY DEF EthTx
    <2>2. c \in Clients
      BY EthSwitchAssumption
    <2>3. clients \in Seq(Clients) /\ heard \in Heards
      BY DEF SwitchInv, SwitchTypes
    <2>4. t0.me = me
      BY <1>1 DEF Tbl
    <2> QED  BY <1>1, <2>1, <2>2, <2>3, <2>4 DEF SwitchInv
  <1>3. /\ ~src.broken /\ Tidy(src.t) /\ Shrunk(t0, src.t)
        /\ \/ FoundAt(src) = NoClient /\ \A d \in Clients : ~HasStation(src.t, d, s)
           \/ /\ FoundAt(src) \in Clients /\ HasStation(src.t, FoundAt(src), s)
              /\ src.t.heap[src.t.me[FoundAt(src)]].age = 0
    BY <1>1, <1>2, LookUpIs
  <1>4. HeardAt(src.t, heard) /\ \A d \in Clients : src.t.me[d] # NULL => d \in ToSet(clients)
    BY <1>2, <1>3, HeardOn DEF Shrunk
  <1>5. FoundAt(src) # c => \A d \in Clients : ~HasStation(src.t, d, s)
    <2>1. SUFFICES ASSUME FoundAt(src) \in Clients, HasStation(src.t, FoundAt(src), s)
                   PROVE  FoundAt(src) = c
      BY <1>3
    <2>2. FoundAt(src) \in Places[s]
      BY <1>3, <2>1, MacsAre DEF HasStation
    <2> QED  BY <2>2 DEF OneStation
  <1>6. PICK t1 : t1 = IF FoundAt(src) # c THEN AddMac(src.t, c, s) ELSE src.t
    OBVIOUS
  <1>7. /\ Tidy(t1) /\ HasStation(t1, c, s) /\ t1.heap[t1.me[c]].age = 0
        /\ \A d \in Clients : d # c => /\ t1.me[d] = src.t.me[d]
                                       /\ src.t.me[d] # NULL =>
                                             t1.heap[src.t.me[d]] = src.t.heap[src.t.me[d]]
    <2>1. CASE FoundAt(src) = c
      <3>1. HasStation(src.t, c, s) /\ src.t.heap[src.t.me[c]].age = 0
        BY <1>2, <1>3, <2>1, EthSwitchAssumption
      <3> QED  BY <1>3, <1>6, <2>1, <3>1
    <2>2. CASE FoundAt(src) # c
      <3>1. src.t.me[c] = NULL
        <4>1. SUFFICES ASSUME src.t.me[c] # NULL PROVE FALSE
          OBVIOUS
        <4>2. PICK m \in Macs : m = src.t.heap[src.t.me[c]].mac /\ c \in Places[m]
          BY <1>2, <1>3, <4>1, MacsAre
        <4>3. m = s
          BY <4>2 DEF OneStation
        <4> QED  BY <1>2, <1>5, <2>2, <4>1, <4>2, <4>3 DEF HasStation
      <3>2. Fresh(src.t) # {}
        BY <1>1, <1>3, <2>2 DEF EthTx, Tbl
      <3>3. src.t \in Tables
        BY <1>3 DEF Tidy
      <3>4. t1 = AddMac(src.t, c, s)
        BY <1>6, <2>2
      <3>5. PICK a : Added(src.t, t1, c, s, a)
        BY <1>2, <3>1, <3>2, <3>3, <3>4, AddMacIs
      <3>6. Tidy(t1)
        BY <1>2, <1>3, <3>1, <3>5, AddedTidy
      <3>7. \A d \in Clients : src.t.me[d] # NULL => src.t.me[d] \in Addresses /\ src.t.me[d] # a
        BY <3>3, <3>5 DEF Tables, Added
      <3>8. HasStation(t1, c, s) /\ t1.heap[t1.me[c]].age = 0
        BY <1>2, <3>5, AddressesAre DEF Added, HasStation
      <3>9. \A d \in Clients : d # c => /\ t1.me[d] = src.t.me[d]
                                        /\ src.t.me[d] # NULL =>
                                              t1.heap[src.t.me[d]] = src.t.heap[src.t.me[d]]
        BY <3>5, <3>7 DEF Added
      <3> QED  BY <3>6, <3>8, <3>9
    <2> QED  BY <2>1, <2>2
  <1>8. PICK g : g = [heard EXCEPT ![s] = [at |-> c, age |-> 0]]
    OBVIOUS
  <1>9. heard' = g
    BY <1>8, Zenon DEF EthTx
  <1>10. g \in Heards /\ HeardAt(t1, g)
    BY <1>2, <1>3, <1>4, <1>7, <1>8, HeardNew
  <1>11. \A d \in Clients : t1.me[d] # NULL => d \in ToSet(clients)
    BY <1>2, <1>4, <1>7
  <1>12. PICK dst : dst = LookUp(t1, dmac)
    OBVIOUS
  <1>13. dmac # Bcast =>
           /\ ~dst.broken /\ Tidy(dst.t) /\ Shrunk(t1, dst.t)
           /\ \/ FoundAt(dst) = NoClient /\ \A d \in Clients : ~HasStation(dst.t, d, dmac)
              \/ /\ FoundAt(dst) \in Clients /\ HasStation(dst.t, FoundAt(dst), dmac)
                 /\ dst.t.heap[dst.t.me[FoundAt(dst)]].age = 0
    BY <1>2, <1>7, <1>11, <1>12, LookUpIs
  <1>14. PICK t2 : t2 = IF dmac = Bcast THEN t1 ELSE dst.t
    OBVIOUS
  <1>15. /\ Tidy(t2) /\ HeardAt(t2, g)
         /\ \A d \in Clients : t2.me[d] # NULL => d \in ToSet(clients)
    <2>1. CASE dmac = Bcast
      BY <1>7, <1>10, <1>11, <1>14, <2>1
    <2>2. CASE dmac # Bcast
      <3>1. Tidy(dst.t) /\ Shrunk(t1, dst.t) /\ t2 = dst.t
        BY <1>13, <1>14, <2>2
      <3>2. HeardAt(dst.t, g)
        BY <1>7, <1>10, <3>1, HeardOn
      <3> QED  BY <1>11, <3>1, <3>2 DEF Shrunk
    <2> QED  BY <2>1, <2>2
  <1>16. PICK to : to = IF dmac = Bcast \/ FoundAt(dst) = NoClient THEN Others(c)
                        ELSE {FoundAt(dst)}
    OBVIOUS
  <1>17. /\ heap' = t2.heap /\ me' = t2.me /\ nme' = t2.nme
         /\ frame' = [src |-> c, dst |-> dmac, to |-> to]
         /\ UNCHANGED <<broken, phase, running, clients, nclients>>
    BY <1>1, <1>3, <1>6, <1>12, <1>13, <1>14, <1>16 DEF EthTx, Tbl
  <1>18. Tbl' = t2
    <2>1. t2 \in Tables
      BY <1>15 DEF Tidy
    <2>2. t2 = [heap |-> t2.heap, me |-> t2.me, nme |-> t2.nme]
      BY <2>1 DEF Tables
    <2> QED  BY <1>17, <2>2 DEF Tbl
  <1>19. Sent([src |-> c, dst |-> dmac, to |-> to], ToSet(clients), g)
    <2>1. CASE dmac = Bcast
      BY <1>16, <2>1 DEF Sent, Others
    <2>2. CASE dmac # Bcast /\ FoundAt(dst) = NoClient
      <3>1. \A d \in Clients : ~HasStation(t2, d, dmac)
        BY <1>13, <1>14, <2>2, EthSwitchAssumption
      <3>2. ~(g[dmac].age <= Purge)
        BY <1>15, <2>2, <3>1 DEF HeardAt
      <3>3. g[dmac].age > Purge
        BY <1>10, <2>2, <3>2, AgesAre
      <3> QED  BY <1>16, <2>2, <3>3 DEF Sent, Others
    <2>3. CASE dmac # Bcast /\ FoundAt(dst) # NoClient
      <3>1. PICK d \in Clients : d = FoundAt(dst) /\ HasStation(t2, d, dmac)
        BY <1>13, <1>14, <2>3
      <3>2. g[dmac].at = d
        BY <1>15, <3>1 DEF HeardAt, HasStation
      <3> QED  BY <1>16, <2>3, <3>1, <3>2 DEF Sent
    <2> QED  BY <2>1, <2>2, <2>3
  <1>20. to \subseteq Clients
    <2>1. ToSet(clients) \subseteq Clients
      BY <1>2, LenProperties, ElementOfSeq DEF ToSet
    <2> QED  BY <1>13, <1>16, <2>1 DEF Others
  <1>21. SwitchTypes'
    <2>1. t2 \in Tables
      BY <1>15 DEF Tidy
    <2>2. frame'.to \subseteq Clients /\ frame'.dst \in Macs \cup {Bcast}
      BY <1>17, <1>20
    <2> QED  BY <1>9, <1>10, <1>17, <1>18, <2>1, <2>2 DEF SwitchInv, SwitchTypes
  <1>22. /\ broken' # "walk" /\ (phase' = "args" => frame' = NoFrame)
         /\ Tidy(Tbl') /\ HeardAt(Tbl', heard')
         /\ \A d \in Clients : me'[d] # NULL => d \in ToSet(clients')
         /\ Sent(frame', ToSet(clients'), heard')
    BY <1>2, <1>9, <1>15, <1>17, <1>18, <1>19
  <1> QED  BY <1>21, <1>22 DEF SwitchInv
LEMMA AgedIs ==
    ASSUME NEW n \in 0..(Purge + 1)
    PROVE  /\ Aged(n) \in 0..(Purge + 1) /\ n <= Aged(n)
           /\ Aged(n) <= Purge => n <= Purge
           /\ \A k \in 0..(Purge + 1) : k <= n => Aged(k) <= Aged(n)
  BY EthSwitchAssumption DEF Aged

(* Everything in the table, and what is heard, grows older.                 *)
LEMMA TimePassesStep == SwitchInv /\ TimePasses => SwitchInv'
  <1> SUFFICES ASSUME SwitchInv, TimePasses PROVE SwitchInv'
    OBVIOUS
  <1>1. PICK t, u, h, g : t = Tbl /\ u = Tbl' /\ h = heard /\ g = heard'
    OBVIOUS
  <1>2. /\ phase = "run" /\ broken = "no" /\ Tidy(t) /\ HeardAt(t, h) /\ h \in Heards
        /\ t \in Tables
    BY <1>1 DEF SwitchInv, SwitchTypes, TimePasses
  <1>3. /\ t.heap = heap /\ t.me = me /\ t.nme = nme
        /\ u.heap = heap' /\ u.me = me /\ u.nme = nme
        /\ u = [heap |-> heap', me |-> me, nme |-> nme]
    BY <1>1 DEF Tbl, TimePasses
  <1>4. ASSUME NEW a \in Addresses
        PROVE  /\ u.heap[a] \in MacEntry
               /\ t.heap[a] = Freed => u.heap[a] = Freed
               /\ t.heap[a] # Freed => /\ u.heap[a].mac = t.heap[a].mac
                                       /\ u.heap[a].next = t.heap[a].next
                                       /\ u.heap[a].age = Aged(t.heap[a].age)
    <2>1. u.heap[a] = IF t.heap[a] # Freed THEN [t.heap[a] EXCEPT !.age = Aged(@)] ELSE Freed
      BY <1>3 DEF TimePasses, Live
    <2>2. PICK x, y : x = t.heap[a] /\ y = Aged(x.age)
      OBVIOUS
    <2>3. x \in MacEntry
      BY <1>2, <2>2 DEF Tables
    <2>4. x.age \in 0..(Purge + 1)
      BY <2>3 DEF MacEntry
    <2>5. y \in 0..(Purge + 1)
      BY <2>2, <2>4, AgedIs
    <2>6. PICK z : z = [x EXCEPT !.age = y]
      OBVIOUS
    <2>7. z \in MacEntry /\ z.mac = x.mac /\ z.next = x.next /\ z.age = y
      BY <2>3, <2>5, <2>6 DEF MacEntry
    <2>8. u.heap[a] = IF x # Freed THEN z ELSE Freed
      BY <2>1, <2>2, <2>6
    <2> QED  BY <2>2, <2>7, <2>8, FreedIs
  <1>5. u \in Tables
    <2>1. heap' \in [Addresses -> MacEntry]
      <3>1. \A a \in Addresses : heap'[a] \in MacEntry
        BY <1>3, <1>4
      <3>2. DOMAIN heap' = Addresses /\ heap' = [a \in Addresses |-> heap'[a]]
        BY DEF TimePasses
      <3> QED  BY <3>1, <3>2
    <2>2. me \in [Clients -> Addresses \cup {NULL}] /\ nme \in [Clients -> Int]
      BY <1>2, <1>3 DEF Tables
    <2> QED  BY <1>3, <2>1, <2>2 DEF Tables
  <1>6. \A a \in Addresses : u.heap[a].mac = t.heap[a].mac /\ u.heap[a].next = t.heap[a].next
    BY <1>4
  <1>7. \A c \in Clients : Alone(u, c)
    <2>1. SUFFICES ASSUME NEW c \in Clients PROVE Alone(u, c)
      OBVIOUS
    <2>2. Alone(t, c) /\ u.me[c] = t.me[c] /\ u.nme[c] = t.nme[c]
      BY <1>2, <1>3 DEF Tidy
    <2> QED  BY <1>6, <2>2 DEF Alone
  <1>8. Tidy(u)
    BY <1>2, <1>3, <1>4, <1>5, <1>6, <1>7 DEF Tidy
  <1>9. /\ g \in Heards
        /\ \A m \in Macs : g[m].at = h[m].at /\ g[m].age = Aged(h[m].age)
    <2>1. g = [m \in Macs |-> [h[m] EXCEPT !.age = Aged(@)]]
      BY <1>1 DEF TimePasses
    <2>2. ASSUME NEW m \in Macs
          PROVE  /\ g[m] \in [at : Clients \cup {NoClient}, age : 0..(Purge + 1)]
                 /\ g[m].at = h[m].at /\ g[m].age = Aged(h[m].age)
      <3>1. PICK x, y : x = h[m] /\ y = Aged(x.age)
        OBVIOUS
      <3>2. x \in [at : Clients \cup {NoClient}, age : 0..(Purge + 1)]
        BY <1>2, <3>1 DEF Heards
      <3>3. y \in 0..(Purge + 1)
        BY <3>1, <3>2, AgedIs
      <3>4. g[m] = [x EXCEPT !.age = y]
        BY <2>1, <3>1
      <3> QED  BY <3>1, <3>2, <3>3, <3>4
    <2> QED  BY <2>1, <2>2 DEF Heards
  <1>10. HeardAt(u, g)
    <2>1. ASSUME NEW c \in Clients, u.me[c] # NULL
          PROVE  /\ g[u.heap[u.me[c]].mac].at = c
                 /\ u.heap[u.me[c]].age <= g[u.heap[u.me[c]].mac].age
      <3>1. PICK a, m : a = t.me[c] /\ m = t.heap[a].mac
        OBVIOUS
      <3>2. a \in Addresses /\ m \in Macs /\ t.heap[a] # Freed /\ u.me[c] = a
        BY <1>2, <1>3, <2>1, <3>1, MacsAre
      <3>3. h[m].at = c /\ t.heap[a].age <= h[m].age
        BY <1>2, <1>3, <2>1, <3>1 DEF HeardAt
      <3>4. PICK x, y : x = t.heap[a].age /\ y = h[m].age
        OBVIOUS
      <3>5. x \in 0..(Purge + 1) /\ y \in 0..(Purge + 1) /\ x <= y
        BY <1>2, <3>2, <3>3, <3>4, AgesAre
      <3>6. Aged(x) <= Aged(y)
        BY <3>5, AgedIs
      <3>7. u.heap[a].mac = m /\ u.heap[a].age = Aged(x)
        BY <1>4, <3>1, <3>2, <3>4
      <3>8. g[m].at = c /\ g[m].age = Aged(y)
        BY <1>9, <3>2, <3>3, <3>4
      <3> QED  BY <3>2, <3>6, <3>7, <3>8
    <2>2. ASSUME NEW m \in Macs, g[m].age <= Purge
          PROVE  \E c \in Clients : HasStation(u, c, m)
      <3>1. PICK y : y = h[m].age
        OBVIOUS
      <3>2. y \in 0..(Purge + 1)
        BY <1>2, <3>1, AgesAre
      <3>3. y <= Purge
        BY <1>9, <2>2, <3>1, <3>2, AgedIs
      <3>4. PICK c \in Clients : t.me[c] # NULL /\ t.heap[t.me[c]].mac = m
        BY <1>2, <3>1, <3>3 DEF HeardAt, HasStation
      <3>5. t.me[c] \in Addresses
        BY <1>2, <3>4, MacsAre
      <3>6. u.me[c] # NULL /\ u.heap[u.me[c]].mac = m
        BY <1>3, <1>6, <3>4, <3>5
      <3> QED  BY <3>6 DEF HasStation
    <2> QED  BY <2>1, <2>2 DEF HeardAt
  <1>11. Sent(frame, ToSet(clients), h) /\ frame.dst \in Macs \cup {Bcast} =>
            Sent(frame, ToSet(clients), g)
    <2>1. SUFFICES ASSUME frame.dst \in Macs, h[frame.dst].age > Purge
                   PROVE  g[frame.dst].age > Purge
      BY <1>9 DEF Sent
    <2>2. PICK y : y = h[frame.dst].age
      OBVIOUS
    <2>3. y \in 0..(Purge + 1)
      BY <1>2, <2>1, <2>2, AgesAre
    <2>4. y <= Aged(y) /\ Aged(y) \in Int /\ g[frame.dst].age = Aged(y)
      BY <1>9, <2>1, <2>2, <2>3, AgedIs
    <2> QED  BY <2>1, <2>2, <2>3, <2>4, EthSwitchAssumption
  <1>12. UNCHANGED <<phase, running, clients, nclients, me, nme, broken, frame>>
    BY DEF TimePasses
  <1>13. SwitchTypes'
    BY <1>1, <1>5, <1>9, <1>12 DEF SwitchInv, SwitchTypes
  <1>14. frame.dst \in Macs \cup {Bcast}
    BY DEF SwitchInv, SwitchTypes
  <1> QED  BY <1>1, <1>2, <1>8, <1>10, <1>11, <1>12, <1>13, <1>14 DEF SwitchInv

LEMMA RemoveIs ==
    ASSUME NEW S, NEW s \in Seq(S), IsInjective(s), NEW i \in 1..Len(s)
    PROVE  RemoveAt(s, i) \in Seq(S) /\ IsInjective(RemoveAt(s, i))
  <1>1. PICK n \in Nat : n = Len(s)
    BY LenProperties
  <1>2. PICK x, y : x = SubSeq(s, 1, i - 1) /\ y = SubSeq(s, i + 1, Len(s))
    OBVIOUS
  <1>3. /\ x \in Seq(S) /\ Len(x) = i - 1
        /\ \A j \in 1..(i - 1) : x[j] = s[j]
    <2>1. \A j \in 1..(i - 1) : s[j] \in S
      BY <1>1, ElementOfSeq
    <2>2. /\ SubSeq(s, 1, i - 1) \in Seq(S)
          /\ Len(SubSeq(s, 1, i - 1)) = IF 1 <= i - 1 THEN (i - 1) - 1 + 1 ELSE 0
          /\ \A j \in 1..((i - 1) - 1 + 1) : SubSeq(s, 1, i - 1)[j] = s[1 + j - 1]
      BY <2>1, SubSeqProperties
    <2> QED  BY <1>2, <2>2
  <1>4. /\ y \in Seq(S) /\ Len(y) = n - i
        /\ \A j \in 1..(n - i) : y[j] = s[i + j]
    <2>1. \A j \in (i + 1)..n : s[j] \in S
      BY <1>1, ElementOfSeq
    <2>2. /\ SubSeq(s, i + 1, n) \in Seq(S)
          /\ Len(SubSeq(s, i + 1, n)) = IF i + 1 <= n THEN n - (i + 1) + 1 ELSE 0
          /\ \A j \in 1..(n - (i + 1) + 1) : SubSeq(s, i + 1, n)[j] = s[(i + 1) + j - 1]
      BY <2>1, SubSeqProperties
    <2> QED  BY <1>1, <1>2, <2>2
  <1>5. PICK r : r = RemoveAt(s, i)
    OBVIOUS
  <1>6. r = x \o y
    BY <1>2, <1>5 DEF RemoveAt
  <1>7. /\ r \in Seq(S) /\ Len(r) = n - 1
        /\ \A j \in 1..(n - 1) : r[j] = IF j <= i - 1 THEN x[j] ELSE y[j - (i - 1)]
    <2>1. PICK k, l : k = i - 1 /\ l = n - i
      OBVIOUS
    <2>2. k \in Nat /\ l \in Nat /\ k + l = n - 1
      BY <1>1, <2>1
    <2>3. x \in Seq(S) /\ y \in Seq(S) /\ Len(x) = k /\ Len(y) = l
      BY <1>3, <1>4, <2>1
    <2>4. /\ x \o y \in Seq(S) /\ Len(x \o y) = Len(x) + Len(y)
          /\ \A j \in 1..(Len(x) + Len(y)) :
                (x \o y)[j] = IF j <= Len(x) THEN x[j] ELSE y[j - Len(x)]
      BY <2>3, ConcatProperties
    <2>5. /\ r \in Seq(S) /\ Len(r) = k + l
          /\ \A j \in 1..(k + l) : r[j] = IF j <= k THEN x[j] ELSE y[j - k]
      BY <1>6, <2>3, <2>4
    <2> QED  BY <2>1, <2>2, <2>5
  <1>8. \A j \in 1..(n - 1) : r[j] = s[IF j <= i - 1 THEN j ELSE j + 1]
    <2>1. SUFFICES ASSUME NEW j \in 1..(n - 1) PROVE r[j] = s[IF j <= i - 1 THEN j ELSE j + 1]
      OBVIOUS
    <2>2. CASE j <= i - 1
      BY <1>3, <1>7, <2>2
    <2>3. CASE j > i - 1
      <3>1. j - (i - 1) \in 1..(n - i) /\ i + (j - (i - 1)) = j + 1
        BY <1>1, <2>3
      <3> QED  BY <1>4, <1>7, <2>3, <3>1
    <2> QED  BY <2>2, <2>3
  <1>9. DOMAIN s = 1..n /\ DOMAIN r = 1..(n - 1)
    BY <1>1, <1>7, LenProperties
  <1>10. ASSUME NEW j \in 1..(n - 1), NEW k \in 1..(n - 1), r[j] = r[k] PROVE j = k
    <2>1. PICK p, q : /\ p = (IF j <= i - 1 THEN j ELSE j + 1)
                      /\ q = (IF k <= i - 1 THEN k ELSE k + 1)
      OBVIOUS
    <2>2. p \in 1..n /\ q \in 1..n
      BY <1>1, <2>1
    <2>3. s[p] = s[q]
      BY <1>8, <1>10, <2>1
    <2>4. p = q
      BY <1>9, <2>2, <2>3 DEF IsInjective
    <2> QED  BY <1>1, <2>1, <2>4
  <1> QED  BY <1>5, <1>7, <1>9, <1>10 DEF IsInjective

LEMMA PrependIs ==
    ASSUME NEW S, NEW s \in Seq(S), IsInjective(s), NEW x \in S, x \notin ToSet(s)
    PROVE  /\ <<x>> \o s \in Seq(S) /\ IsInjective(<<x>> \o s)
           /\ \A y \in ToSet(s) : y \in ToSet(<<x>> \o s)
  <1>1. PICK n \in Nat : n = Len(s)
    BY LenProperties
  <1>2. PICK r : r = <<x>> \o s
    OBVIOUS
  <1>3. /\ r \in Seq(S) /\ Len(r) = n + 1
        /\ \A j \in 1..(n + 1) : r[j] = IF j = 1 THEN x ELSE s[j - 1]
    <2>1. <<x>> \in Seq(S) /\ Len(<<x>>) = 1 /\ <<x>>[1] = x
      OBVIOUS
    <2>2. /\ r \in Seq(S) /\ Len(r) = 1 + n
          /\ \A j \in 1..(1 + n) : r[j] = IF j <= 1 THEN <<x>>[j] ELSE s[j - 1]
      BY <1>1, <1>2, <2>1, ConcatProperties
    <2> QED  BY <1>1, <2>1, <2>2
  <1>4. DOMAIN s = 1..n /\ DOMAIN r = 1..(n + 1)
    BY <1>1, <1>3, LenProperties
  <1>5. ASSUME NEW j \in 1..(n + 1), NEW k \in 1..(n + 1), r[j] = r[k] PROVE j = k
    <2>1. \A l \in 1..(n + 1) : l # 1 => l - 1 \in 1..n /\ r[l] = s[l - 1] /\ r[l] # x
      <3>1. SUFFICES ASSUME NEW l \in 1..(n + 1), l # 1
                     PROVE  l - 1 \in 1..n /\ r[l] = s[l - 1] /\ r[l] # x
        OBVIOUS
      <3>2. l - 1 \in 1..n
        BY <3>1
      <3>3. s[l - 1] \in ToSet(s)
        BY <1>4, <3>2 DEF ToSet
      <3> QED  BY <1>3, <3>1, <3>2, <3>3
    <2>2. 1 \in 1..(n + 1) /\ r[1] = x
      BY <1>3
    <2>3. CASE j = 1 \/ k = 1
      BY <1>5, <2>1, <2>2, <2>3
    <2>4. CASE j # 1 /\ k # 1
      <3>1. s[j - 1] = s[k - 1] /\ j - 1 \in DOMAIN s /\ k - 1 \in DOMAIN s
        BY <1>4, <1>5, <2>1, <2>4
      <3>2. j - 1 = k - 1
        BY <3>1 DEF IsInjective
      <3> QED  BY <3>2
    <2> QED  BY <2>3, <2>4
  <1>6. ASSUME NEW y \in ToSet(s) PROVE y \in ToSet(r)
    <2>1. PICK j \in 1..n : y = s[j]
      BY <1>4 DEF ToSet
    <2>2. j + 1 \in 1..(n + 1) /\ j + 1 # 1 /\ (j + 1) - 1 = j
      OBVIOUS
    <2>3. r[j + 1] = y
      BY <1>3, <2>1, <2>2
    <2> QED  BY <1>4, <2>2, <2>3 DEF ToSet
  <1> QED  BY <1>2, <1>3, <1>4, <1>5, <1>6 DEF IsInjective

(* A list of one entry.                                                     *)
LEMMA ListedIs ==
    ASSUME NEW h, NEW a \in Addresses, h[a].next = NULL
    PROVE  Listed(h, a) = {a}
  <1>1. a \in Listed(h, a)
    BY DEF Listed
  <1>2. ASSUME NEW b \in Listed(h, a) PROVE b = a
    <2>1. \A S \in SUBSET Addresses :
             a \in S /\ (\A x \in S : h[x].next # NULL => h[x].next \in S) => b \in S
      BY DEF Listed
    <2>2. b \in {a}
      BY <2>1
    <2> QED  BY <2>2
  <1> QED  BY <1>1, <1>2
LEMMA ListOfIs ==
    ASSUME Tidy(Tbl)
    PROVE  \A c \in Clients : ListOf(c) = IF me[c] = NULL THEN {} ELSE {me[c]}
  <1>1. \A c \in Clients : me[c] # NULL => me[c] \in Addresses /\ heap[me[c]].next = NULL
    <2>1. PICK t : t = Tbl
      OBVIOUS
    <2>2. t.heap = heap /\ t.me = me /\ Tidy(t)
      BY <2>1 DEF Tbl
    <2> QED  BY <2>2 DEF Tidy, Tables
  <1> QED  BY <1>1, ListedIs DEF ListOf

LEMMA AddClientStep == ASSUME SwitchInv, NEW c \in Clients, AddClient(c) PROVE SwitchInv'
  <1>1. PICK cs : cs = <<c>> \o clients
    OBVIOUS
  <1>2. /\ clients' = cs /\ nclients' = nclients + 1 /\ phase = "args" /\ c \notin ToSet(clients)
        /\ UNCHANGED <<phase, running, heap, me, nme, broken, heard, frame>>
    BY <1>1 DEF AddClient, table
  <1>3. clients \in Seq(Clients) /\ IsInjective(clients)
    BY DEF SwitchInv, SwitchTypes
  <1>4. cs \in Seq(Clients) /\ IsInjective(cs) /\ \A d \in ToSet(clients) : d \in ToSet(cs)
    BY <1>1, <1>2, <1>3, PrependIs
  <1>5. Tbl' = Tbl
    BY <1>2 DEF Tbl
  <1>6. SwitchTypes'
    BY <1>2, <1>4, <1>5 DEF SwitchInv, SwitchTypes
  <1>7. broken = "no" => \A d \in Clients : me[d] # NULL => d \in ToSet(cs)
    BY <1>4 DEF SwitchInv
  <1> QED  BY <1>2, <1>5, <1>6, <1>7 DEF SwitchInv

LEMMA ServeStep ==
    ASSUME SwitchInv, phase = "args", NEW n \in Int, Serve(n) PROVE SwitchInv'
  <1>1. UNCHANGED <<clients, heap, me, nme, broken, heard, frame>> /\ nclients' = n
    BY DEF Serve, table
  <1>2. phase' \in {"stop", "run"} /\ running' \in BOOLEAN
    BY DEF Serve
  <1>3. Tbl' = Tbl
    BY <1>1 DEF Tbl
  <1>4. SwitchTypes'
    BY <1>1, <1>2, <1>3 DEF SwitchInv, SwitchTypes
  <1>5. frame = NoFrame
    BY DEF SwitchInv
  <1> QED  BY <1>1, <1>2, <1>3, <1>4, <1>5 DEF SwitchInv

(* After a client was lost nothing is claimed but the types.                *)
LEMMA FailStep == ASSUME SwitchInv, NEW c \in Clients, Fail(c) PROVE SwitchInv'
  <1>1. PICK i : i = CHOOSE j \in DOMAIN clients : clients[j] = c
    OBVIOUS
  <1>2. /\ clients' = (IF i = Len(clients) THEN clients ELSE RemoveAt(clients, i + 1))
        /\ nclients' = nclients - (Len(clients) - Len(clients'))
        /\ broken' = "loss" /\ phase = "run" /\ c \in ToSet(clients)
        /\ UNCHANGED <<phase, running, heap, me, nme, heard, frame>>
    BY <1>1 DEF Fail, table
  <1>3. clients \in Seq(Clients) /\ IsInjective(clients) /\ nclients \in Int
    BY DEF SwitchInv, SwitchTypes
  <1>4. i \in DOMAIN clients
    BY <1>1, <1>2 DEF ToSet
  <1>5. clients' \in Seq(Clients) /\ IsInjective(clients')
    <2>1. CASE i = Len(clients)
      BY <1>2, <1>3, <2>1
    <2>2. CASE i # Len(clients)
      <3>1. i + 1 \in 1..Len(clients)
        BY <1>3, <1>4, <2>2, LenProperties
      <3> QED  BY <1>2, <1>3, <2>2, <3>1, RemoveIs
    <2> QED  BY <2>1, <2>2
  <1>6. nclients' \in Int
    BY <1>2, <1>3, <1>5, LenProperties
  <1>7. Tbl' = Tbl
    BY <1>2 DEF Tbl
  <1>8. SwitchTypes'
    BY <1>2, <1>5, <1>6, <1>7 DEF SwitchInv, SwitchTypes
  <1> QED  BY <1>2, <1>8 DEF SwitchInv

(* Every entry in memory is in the list of a client that is freed.          *)
LEMMA CleanupStep == ASSUME SwitchInv, Cleanup PROVE SwitchInv'
  <1>1. PICK gone : gone = UNION {ListOf(c) : c \in ToSet(clients)}
    OBVIOUS
  <1>2. /\ phase' = "end" /\ broken = "no"
        /\ clients' = <<>> /\ nclients' = nclients - Len(clients)
        /\ heap' = [a \in Addresses |-> IF a \in gone THEN Freed ELSE heap[a]]
        /\ me' = [c \in Clients |-> NULL] /\ nme' = [c \in Clients |-> 0]
        /\ UNCHANGED <<running, broken, heard, frame>>
    BY <1>1 DEF Cleanup
  <1>3. /\ Tidy(Tbl) /\ \A c \in Clients : me[c] # NULL => c \in ToSet(clients)
    BY <1>2 DEF SwitchInv
  <1>4. Tbl.heap = heap /\ Tbl.me = me
    BY DEF Tbl
  <1>5. ASSUME NEW a \in Addresses PROVE heap'[a] = Freed
    <2>1. CASE a \in gone
      BY <1>2, <2>1
    <2>2. CASE a \notin gone
      <3>1. SUFFICES ASSUME heap[a] # Freed PROVE a \in gone
        BY <1>2, <2>2
      <3>2. PICK c \in Clients : me[c] = a
        BY <1>3, <1>4, <3>1 DEF Tidy
      <3>3. a # NULL
        BY AddressesAre
      <3>4. a \in ListOf(c)
        BY <1>3, <3>2, <3>3, ListOfIs
      <3>5. c \in ToSet(clients)
        BY <1>3, <3>2, <3>3
      <3> QED  BY <1>1, <3>4, <3>5
    <2> QED  BY <2>1, <2>2
  <1>6. PICK t : t = Tbl'
    OBVIOUS
  <1>7. /\ t.heap = heap' /\ t.me = me' /\ t.nme = nme'
        /\ t = [heap |-> heap', me |-> me', nme |-> nme']
    BY <1>6 DEF Tbl
  <1>8. t \in Tables
    <2>1. heap' \in [Addresses -> MacEntry]
      BY <1>2, <1>5, FreedIs
    <2>2. me' \in [Clients -> Addresses \cup {NULL}]
      BY <1>2
    <2>3. nme' \in [Clients -> Int]
      BY <1>2
    <2> QED  BY <1>7, <2>1, <2>2, <2>3 DEF Tables
  <1>9. \A c \in Clients : t.me[c] = NULL /\ t.nme[c] = 0
    BY <1>2, <1>7
  <1>10. \A a \in Addresses : t.heap[a] = Freed /\ t.heap[a].next = NULL
    BY <1>5, <1>7, FreedIs
  <1>11. Tidy(t)
    <2>1. \A c \in Clients : Alone(t, c)
      BY <1>9 DEF Alone
    <2> QED  BY <1>8, <1>9, <1>10, <2>1 DEF Tidy
  <1>12. clients' \in Seq(Clients) /\ IsInjective(clients') /\ nclients' \in Int
    <2>1. clients \in Seq(Clients) /\ nclients \in Int
      BY DEF SwitchInv, SwitchTypes
    <2>2. Len(clients) \in Nat
      BY <2>1, LenProperties
    <2>3. clients' \in Seq(Clients) /\ DOMAIN clients' = {}
      BY <1>2, EmptySeq
    <2> QED  BY <1>2, <2>1, <2>2, <2>3 DEF IsInjective
  <1>13. SwitchTypes'
    BY <1>2, <1>6, <1>8, <1>12 DEF SwitchInv, SwitchTypes
  <1> QED  BY <1>2, <1>6, <1>7, <1>9, <1>11, <1>13 DEF SwitchInv
-----------------------------------------------------------------------------
LEMMA SwitchStarts == SwitchInit => SwitchInv
  <1> SUFFICES ASSUME SwitchInit PROVE SwitchInv
    OBVIOUS
  <1>1. PICK t : t = Tbl
    OBVIOUS
  <1>2. /\ t.heap = heap /\ t.me = me /\ t.nme = nme
        /\ t = [heap |-> heap, me |-> me, nme |-> nme]
    BY <1>1 DEF Tbl
  <1>3. /\ phase = "args" /\ running = FALSE /\ clients = <<>> /\ nclients = 0
        /\ broken = "no" /\ frame = NoFrame
        /\ heap = [a \in Addresses |-> Freed]
        /\ me = [c \in Clients |-> NULL] /\ nme = [c \in Clients |-> 0]
        /\ heard = [m \in Macs |-> [at |-> NoClient, age |-> Purge + 1]]
    BY DEF SwitchInit
  <1>4. t \in Tables
    <2>1. heap \in [Addresses -> MacEntry]
      BY <1>3, FreedIs
    <2>2. me \in [Clients -> Addresses \cup {NULL}]
      BY <1>3
    <2>3. nme \in [Clients -> Int]
      BY <1>3
    <2> QED  BY <1>2, <2>1, <2>2, <2>3 DEF Tables
  <1>5. \A c \in Clients : t.me[c] = NULL /\ t.nme[c] = 0
    BY <1>2, <1>3
  <1>6. \A a \in Addresses : t.heap[a] = Freed /\ t.heap[a].next = NULL
    BY <1>2, <1>3, FreedIs
  <1>7. Tidy(t)
    <2>1. \A c \in Clients : Alone(t, c)
      BY <1>5 DEF Alone
    <2> QED  BY <1>4, <1>5, <1>6, <2>1 DEF Tidy
  <1>8. \A m \in Macs : heard[m].at = NoClient /\ heard[m].age = Purge + 1
    BY <1>3
  <1>9. heard \in Heards
    <2>1. PICK x : x = [at |-> NoClient, age |-> Purge + 1]
      OBVIOUS
    <2>2. x \in [at : Clients \cup {NoClient}, age : 0..(Purge + 1)]
      <3>1. Purge + 1 \in 0..(Purge + 1)
        BY EthSwitchAssumption
      <3> QED  BY <2>1, <3>1
    <2> QED  BY <1>3, <2>1, <2>2 DEF Heards
  <1>10. HeardAt(t, heard)
    <2>1. ~(Purge + 1 <= Purge)
      BY EthSwitchAssumption
    <2> QED  BY <1>5, <1>8, <2>1 DEF HeardAt
  <1>11. clients \in Seq(Clients) /\ IsInjective(clients)
    <2>1. clients \in Seq(Clients) /\ DOMAIN clients = {}
      BY <1>3, EmptySeq
    <2> QED  BY <2>1 DEF IsInjective
  <1>12. frame.to \subseteq Clients /\ frame.dst \in Macs \cup {Bcast}
    BY <1>3 DEF NoFrame
  <1>13. SwitchTypes
    <2>1. /\ phase \in {"args", "run", "stop", "end"} /\ running \in BOOLEAN /\ nclients \in Int
          /\ broken \in {"no", "walk", "loss"}
      <3>1. phase = "args" /\ running = FALSE /\ broken = "no"
        BY <1>3
      <3>2. nclients = 0
        BY <1>3
      <3>3. running \in BOOLEAN
        BY <3>1
      <3>4. phase \in {"args", "run", "stop", "end"} /\ broken \in {"no", "walk", "loss"}
        BY <3>1
      <3>5. nclients \in Int
        BY <3>2
      <3> QED  BY <3>3, <3>4, <3>5
    <2>2. Tbl \in Tables
      BY <1>1, <1>4
    <2> QED  BY <1>9, <1>11, <1>12, <2>1, <2>2 DEF SwitchTypes
  <1> QED  BY <1>1, <1>2, <1>3, <1>5, <1>7, <1>10, <1>13 DEF SwitchInv

LEMMA SwitchKept == ASSUME OneStation PROVE SwitchInv /\ [SwitchNext]_switchvars => SwitchInv'
  <1> SUFFICES ASSUME SwitchInv, [SwitchNext]_switchvars PROVE SwitchInv'
    OBVIOUS
  <1>1. ASSUME NEW c \in Clients, AddClient(c) PROVE SwitchInv'
    BY <1>1, AddClientStep
  <1>2. ASSUME NEW c \in Clients, Fail(c) PROVE SwitchInv'
    BY <1>2, FailStep
  <1>3. nclients \in Int /\ nclients - 1 \in Int
    BY DEF SwitchInv, SwitchTypes
  <1>4. CASE AddFails
    BY <1>3, <1>4, ServeStep DEF AddFails
  <1>5. CASE ArgsDone
    BY <1>3, <1>5, ServeStep DEF ArgsDone
  <1>6. CASE NoClients
    <2>1. /\ phase' = "stop"
          /\ UNCHANGED <<running, clients, nclients, heap, me, nme, broken, heard, frame>>
      BY <1>6 DEF NoClients, table
    <2>2. Tbl' = Tbl
      BY <2>1 DEF Tbl
    <2>3. SwitchTypes'
      BY <2>1, <2>2 DEF SwitchInv, SwitchTypes
    <2> QED  BY <2>1, <2>2, <2>3 DEF SwitchInv
  <1>7. CASE Interrupt
    <2>1. /\ running' = FALSE
          /\ UNCHANGED <<phase, clients, nclients, heap, me, nme, broken, heard, frame>>
      BY <1>7 DEF Interrupt, table
    <2>2. Tbl' = Tbl
      BY <2>1 DEF Tbl
    <2>3. SwitchTypes'
      BY <2>1, <2>2 DEF SwitchInv, SwitchTypes
    <2> QED  BY <2>1, <2>2, <2>3 DEF SwitchInv
  <1>8. CASE Cleanup
    BY <1>8, CleanupStep
  <1>9. CASE TimePasses
    BY <1>9, TimePassesStep
  <1>10. ASSUME NEW m \in Macs, NEW d \in Macs \cup {Bcast}, NEW c \in Places[m], EthTx(c, m, d)
         PROVE  SwitchInv'
    BY <1>10, EthTxStep
  <1>11. CASE UNCHANGED switchvars
    <2>1. UNCHANGED <<phase, running, clients, nclients, heap, me, nme, broken, heard, frame>>
      BY <1>11 DEF switchvars, table
    <2>2. Tbl' = Tbl
      BY <2>1 DEF Tbl
    <2>3. SwitchTypes'
      BY <2>1, <2>2 DEF SwitchInv, SwitchTypes
    <2> QED  BY <2>1, <2>2, <2>3 DEF SwitchInv
  <1> QED  BY <1>1, <1>2, <1>4, <1>5, <1>6, <1>7, <1>8, <1>9, <1>10, <1>11 DEF SwitchNext

LEMMA SwitchHolds == ASSUME OneStation PROVE SwitchSpec => []SwitchInv
  <1>1. SwitchInv /\ [SwitchNext]_switchvars => SwitchInv'
    BY SwitchKept
  <1> QED  BY <1>1, SwitchStarts, PTL DEF SwitchSpec

LEMMA SwitchTyped == SwitchInv => SwitchTypeOK
  <1> SUFFICES ASSUME SwitchInv PROVE SwitchTypeOK
    OBVIOUS
  <1>1. SwitchTypes
    BY DEF SwitchInv
  <1>2. PICK t : t = Tbl
    OBVIOUS
  <1>3. t \in Tables /\ t.heap = heap /\ t.me = me /\ t.nme = nme
    BY <1>1, <1>2 DEF SwitchTypes, Tbl
  <1>4. /\ heap \in [Addresses -> MacEntry]
        /\ me \in [Clients -> Addresses \cup {NULL}] /\ nme \in [Clients -> Int]
    BY <1>3 DEF Tables
  <1>5. broken = "no" => /\ \A c \in Clients : nme[c] = Cardinality(ListOf(c))
                         /\ \A a \in Addresses : Live(heap, a) =>
                               Cardinality({c \in ToSet(clients) : a \in ListOf(c)}) = 1
    <2> SUFFICES ASSUME broken = "no"
                 PROVE  /\ \A c \in Clients : nme[c] = Cardinality(ListOf(c))
                        /\ \A a \in Addresses : Live(heap, a) =>
                              Cardinality({c \in ToSet(clients) : a \in ListOf(c)}) = 1
      OBVIOUS
    <2>1. /\ Tidy(t) /\ \A c \in Clients : me[c] # NULL => c \in ToSet(clients)
          /\ \A c \in Clients : ListOf(c) = IF me[c] = NULL THEN {} ELSE {me[c]}
      BY <1>2, ListOfIs DEF SwitchInv
    <2>2. ASSUME NEW c \in Clients PROVE nme[c] = Cardinality(ListOf(c))
      <3>1. \/ me[c] = NULL /\ nme[c] = 0
            \/ me[c] # NULL /\ nme[c] = 1
        BY <1>3, <2>1, AddressesAre DEF Tidy, Alone
      <3>2. CASE me[c] = NULL
        BY <2>1, <3>1, <3>2, FS_EmptySet
      <3>3. CASE me[c] # NULL
        <4>1. ListOf(c) = {me[c]} /\ nme[c] = 1
          BY <2>1, <3>1, <3>3
        <4>2. Cardinality({me[c]}) = 1
          BY FS_Singleton
        <4> QED  BY <4>1, <4>2
      <3> QED  BY <3>2, <3>3
    <2>3. ASSUME NEW a \in Addresses, Live(heap, a)
          PROVE  Cardinality({c \in ToSet(clients) : a \in ListOf(c)}) = 1
      <3>1. PICK c \in Clients : me[c] = a
        BY <1>3, <2>1, <2>3 DEF Tidy, Live
      <3>2. a # NULL
        BY AddressesAre
      <3>3. ToSet(clients) \subseteq Clients
        BY <1>1, LenProperties, ElementOfSeq DEF ToSet, SwitchTypes
      <3>4. {d \in ToSet(clients) : a \in ListOf(d)} = {c}
        <4>1. c \in ToSet(clients) /\ a \in ListOf(c)
          BY <2>1, <3>1, <3>2
        <4>2. ASSUME NEW d \in ToSet(clients), a \in ListOf(d) PROVE d = c
          <5>1. d \in Clients /\ me[d] = a
            BY <2>1, <3>3, <4>2
          <5> QED  BY <1>3, <2>1, <3>1, <3>2, <5>1 DEF Tidy
        <4> QED  BY <4>1, <4>2
      <3>5. Cardinality({c}) = 1
        BY FS_Singleton
      <3> QED  BY <3>4, <3>5
    <2> QED  BY <2>2, <2>3
  <1>6. /\ heap \in [Addresses -> [mac : Macs \cup {Bcast}, age : 0 .. Purge + 1,
                                   next : Addresses \cup {NULL}]]
        /\ heard \in [Macs -> [at : Clients \cup {NoClient}, age : 0 .. Purge + 1]]
    BY <1>1, <1>4 DEF SwitchTypes, MacEntry, Heards
  <1> QED  BY <1>1, <1>4, <1>5, <1>6 DEF SwitchTypes, SwitchTypeOK

(* While the switch is whole, every MAC entry in memory is in the list of   *)
(* exactly one client and counts there: switch_cli_locate,                  *)
(* switch_cli_add_mac and switch_cleanup_connections neither leak an entry  *)
(* nor leave one in two lists.                                              *)
THEOREM SwitchTypeCorrect == ASSUME OneStation PROVE SwitchSpec => []SwitchTypeOK
  BY SwitchHolds, SwitchTyped, PTL

(* With at most one station behind a client, and each station behind one    *)
(* client, no look-up of switch_cli_locate follows a null pointer or reads  *)
(* an entry it freed, whatever it purges on the way.                        *)
THEOREM WalksSafe == ASSUME OneStation PROVE SwitchSpec => []WalkSafe
  <1>1. SwitchInv => WalkSafe
    BY DEF SwitchInv, WalkSafe
  <1> QED  BY <1>1, SwitchHolds, PTL

(* Under the same condition switch_eth_tx sends a frame where its           *)
(* destination was last heard, or to every client but the source's when     *)
(* that is a broadcast or older than the purge time.                        *)
THEOREM ForwardsRight == ASSUME OneStation PROVE SwitchSpec => []Forwarded
  <1>1. SwitchInv => Forwarded
    BY DEF SwitchInv, Forwarded, Sent
  <1> QED  BY <1>1, SwitchHolds, PTL
=============================================================================
