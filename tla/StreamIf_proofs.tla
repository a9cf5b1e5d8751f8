-------------------------- MODULE StreamIf_proofs --------------------------
(***************************************************************************)
(* The stream interfaces for windows, packets and streams of any size, if  *)
(* no two threads send on an Ethernet interface: the callbacks of an       *)
(* application that does not stall are given what the VM said, and credits *)
(* are neither made nor lost.                                              *)
(***************************************************************************)
EXTENDS StreamIf, SequenceTheorems, TLAPS

(* An element is put at the end of a queue.                                 *)
LEMMA AppendIs ==
    ASSUME NEW S, NEW s \in Seq(S), NEW e \in S
    PROVE  /\ Append(s, e) \in Seq(S) /\ Len(Append(s, e)) = Len(s) + 1 /\ Len(s) \in Nat
           /\ \A j \in 1..Len(s) : Append(s, e)[j] = s[j]
           /\ Append(s, e)[Len(s) + 1] = e
  BY AppendProperties, LenProperties

(* The first is taken from a queue, or one is put at its end.               *)
LEMMA TailIs ==
    ASSUME NEW S, NEW s \in Seq(S), s # <<>>
    PROVE  /\ Tail(s) \in Seq(S) /\ Len(Tail(s)) = Len(s) - 1 /\ Len(s) \in Nat \ {0}
           /\ \A j \in 1..(Len(s) - 1) : Tail(s)[j] = s[j + 1] /\ j + 1 \in 1..Len(s)
  BY HeadTailProperties, EmptySeq
-----------------------------------------------------------------------------
(* coremodel_eth_rx looks at the credits before it takes the mutex: two     *)
(* senders may both find the last one.                                      *)
OneEthSender == "ETH" \in Types => \A s, t \in EthSenders : s = t

(* The packets of kind K in a queue q, of whose first packet o numbers are  *)
(* gone, hold the numbers from a + 1 to b in order, each once.              *)
Lo(q, o, i) == q[i].first + (IF i = 1 THEN o ELSE 0)
Hi(q, i) == q[i].first + q[i].len - 1
Tiled(K, q, o, a, b) ==
    /\ \A i \in 1..Len(q) : q[i].pkt \in K => a < Lo(q, o, i) /\ Lo(q, o, i) <= Hi(q, i) /\ Hi(q, i) <= b
    /\ \A i, j \in 1..Len(q) : i < j /\ q[i].pkt \in K /\ q[j].pkt \in K => Hi(q, i) < q[j].first
    /\ \A n \in (a + 1)..b : \E i \in 1..Len(q) : q[i].pkt \in K /\ Lo(q, o, i) <= n /\ n <= Hi(q, i)

Packet == [pkt : {"TX", "RX_ACK", "BRK"}, first : Nat, len : Nat]

-----------------------------------------------------------------------------
LEMMA PacketsAre ==
    ASSUME NEW q \in Seq(Packet)
    PROVE  /\ Len(q) \in Nat /\ (q # <<>> => Len(q) > 0 /\ 1 \in 1..Len(q))
           /\ \A i \in 1..Len(q) : /\ q[i] \in Packet /\ q[i].first \in Nat /\ q[i].len \in Nat
                                  /\ Hi(q, i) \in Int
  <1>1. \A i \in 1..Len(q) : q[i] \in Packet
    BY ElementOfSeq
  <1>2. \A i \in 1..Len(q) : q[i].first \in Nat /\ q[i].len \in Nat
    BY <1>1 DEF Packet
  <1> QED  BY <1>1, <1>2, LenProperties, EmptySeq DEF Hi

(* The oldest packet comes first.                                           *)
LEMMA HeadLow ==
    ASSUME NEW K, NEW q \in Seq(Packet), NEW o \in Nat, NEW a \in Nat, NEW b \in Nat,
           Tiled(K, q, o, a, b), q # <<>>, q[1].pkt \in K
    PROVE  Lo(q, o, 1) = a + 1
  <1>1. /\ 1 \in 1..Len(q) /\ Lo(q, o, 1) = q[1].first + o
        /\ \A i \in 1..Len(q) : q[i].first \in Nat /\ q[i].len \in Nat
    BY PacketsAre DEF Lo
  <1>2. a < Lo(q, o, 1) /\ Lo(q, o, 1) <= Hi(q, 1) /\ Hi(q, 1) <= b
    BY <1>1 DEF Tiled
  <1>3. a + 1 \in (a + 1)..b
    BY <1>1, <1>2 DEF Hi
  <1>4. PICK i \in 1..Len(q) : q[i].pkt \in K /\ Lo(q, o, i) <= a + 1 /\ a + 1 <= Hi(q, i)
    BY <1>3 DEF Tiled
  <1>5. i = 1
    <2>1. CASE i > 1
      <3>1. Hi(q, 1) < q[i].first /\ Lo(q, o, i) = q[i].first
        BY <1>1, <1>4, <2>1 DEF Tiled, Lo
      <3>2. PICK h \in Int, f \in Nat : h = Hi(q, 1) /\ f = q[i].first
        BY <1>1, PacketsAre
      <3>3. a < h /\ h < f /\ f <= a + 1
        BY <1>1, <1>2, <1>4, <3>1, <3>2
      <3> QED  BY <3>3
    <2> QED  BY <2>1
  <1>6. PICK l \in Nat : l = Lo(q, o, 1)
    BY <1>1
  <1> QED  BY <1>2, <1>4, <1>5, <1>6

(* A packet of kind K with the numbers that follow, and one of another kind. *)
LEMMA TiledMore ==
    ASSUME NEW K, NEW q \in Seq(Packet), NEW o \in Nat, NEW a \in Nat, NEW b \in Nat,
           NEW p \in Packet, Tiled(K, q, o, a, b), a <= b, q = <<>> => o = 0,
           p.pkt \in K, p.first = b + 1, p.len > 0
    PROVE  Tiled(K, Append(q, p), o, a, b + p.len)
  <1>1. PICK m \in Nat : m = Len(q)
    BY LenProperties
  <1>2. PICK r \in Seq(Packet) :
           /\ r = Append(q, p) /\ Len(r) = m + 1 /\ r[m + 1] = p
           /\ \A i \in 1..m : r[i] = q[i]
    <2>1. /\ Append(q, p) \in Seq(Packet) /\ Len(Append(q, p)) = Len(q) + 1
          /\ Append(q, p)[Len(q) + 1] = p
          /\ \A i \in 1..Len(q) : Append(q, p)[i] = q[i]
      BY AppendIs
    <2> QED  BY <1>1, <2>1
  <1>3. \A i \in 1..m : /\ Lo(r, o, i) = Lo(q, o, i) /\ Hi(r, i) = Hi(q, i)
                        /\ Hi(r, i) \in Int
    BY <1>1, <1>2, PacketsAre DEF Lo, Hi
  <1>4. Lo(r, o, m + 1) = b + 1 /\ Hi(r, m + 1) = b + p.len /\ p.len \in Nat
    <2>1. m = 0 => o = 0
      <3>1. q # <<>> => Len(q) > 0
        BY PacketsAre
      <3> QED  BY <1>1, <3>1
    <2>2. PICK l \in Nat : l = p.len /\ r[m + 1].len = l /\ r[m + 1].first = b + 1
      BY <1>2 DEF Packet
    <2>3. m + 1 = 1 <=> m = 0
      OBVIOUS
    <2>4. Lo(r, o, m + 1) = b + 1
      BY <2>1, <2>2, <2>3 DEF Lo
    <2>5. Hi(r, m + 1) = p.first + p.len - 1
      BY <1>2 DEF Hi
    <2>6. p.first + p.len - 1 = b + p.len /\ p.len \in Nat
      <3>1. (b + 1) + l - 1 = b + l
        OBVIOUS
      <3> QED  BY <2>2, <3>1
    <2> QED  BY <2>4, <2>5, <2>6
  <1>5. \A i \in 1..(m + 1) : i \in 1..m \/ i = m + 1
    OBVIOUS
  <1>6. /\ \A i \in 1..m : q[i].pkt \in K => a < Lo(q, o, i) /\ Lo(q, o, i) <= Hi(q, i) /\ Hi(q, i) <= b
        /\ \A i, j \in 1..m : i < j /\ q[i].pkt \in K /\ q[j].pkt \in K => Hi(q, i) < q[j].first
        /\ \A n \in (a + 1)..b : \E i \in 1..m : q[i].pkt \in K /\ Lo(q, o, i) <= n /\ n <= Hi(q, i)
    BY <1>1 DEF Tiled
  <1>7. ASSUME NEW i \in 1..(m + 1), r[i].pkt \in K
        PROVE  a < Lo(r, o, i) /\ Lo(r, o, i) <= Hi(r, i) /\ Hi(r, i) <= b + p.len
    <2>1. CASE i \in 1..m
      <3>1. a < Lo(r, o, i) /\ Lo(r, o, i) <= Hi(r, i) /\ Hi(r, i) <= b
        BY <1>2, <1>3, <1>6, <1>7, <2>1
      <3>2. Hi(r, i) \in Int
        BY <1>3, <2>1
      <3> QED  BY <1>4, <3>1, <3>2
    <2>2. CASE i = m + 1
      BY <1>4, <2>2
    <2> QED  BY <1>5, <2>1, <2>2
  <1>8. ASSUME NEW i \in 1..(m + 1), NEW j \in 1..(m + 1), i < j, r[i].pkt \in K, r[j].pkt \in K
        PROVE  Hi(r, i) < r[j].first
    <2>1. i \in 1..m
      BY <1>8
    <2>2. CASE j \in 1..m
      BY <1>2, <1>3, <1>6, <1>8, <2>1, <2>2
    <2>3. CASE j = m + 1
      <3>1. Hi(r, i) <= b /\ r[j].first = b + 1 /\ Hi(r, i) \in Int
        BY <1>2, <1>3, <1>6, <1>8, <2>1, <2>3
      <3> QED  BY <3>1
    <2> QED  BY <1>5, <2>2, <2>3
  <1>9. ASSUME NEW n \in (a + 1)..(b + p.len)
        PROVE  \E i \in 1..(m + 1) : r[i].pkt \in K /\ Lo(r, o, i) <= n /\ n <= Hi(r, i)
    <2>1. CASE n <= b
      <3>1. PICK i \in 1..m : q[i].pkt \in K /\ Lo(q, o, i) <= n /\ n <= Hi(q, i)
        BY <1>6, <2>1
      <3>2. i \in 1..(m + 1)
        OBVIOUS
      <3> QED  BY <1>2, <1>3, <3>1, <3>2
    <2>2. CASE n > b
      <3>1. m + 1 \in 1..(m + 1) /\ b + 1 <= n /\ n <= b + p.len
        BY <1>4, <2>2
      <3> QED  BY <1>2, <1>4, <3>1
    <2> QED  BY <2>1, <2>2
  <1> QED  BY <1>2, <1>7, <1>8, <1>9 DEF Tiled

LEMMA TiledOther ==
    ASSUME NEW K, NEW q \in Seq(Packet), NEW o \in Nat, NEW a \in Nat, NEW b \in Nat,
           NEW p \in Packet, Tiled(K, q, o, a, b), p.pkt \notin K
    PROVE  Tiled(K, Append(q, p), o, a, b)
  <1>1. PICK m \in Nat : m = Len(q)
    BY LenProperties
  <1>2. PICK r \in Seq(Packet) :
           /\ r = Append(q, p) /\ Len(r) = m + 1 /\ r[m + 1] = p
           /\ \A i \in 1..m : r[i] = q[i]
    <2>1. /\ Append(q, p) \in Seq(Packet) /\ Len(Append(q, p)) = Len(q) + 1
          /\ Append(q, p)[Len(q) + 1] = p
          /\ \A i \in 1..Len(q) : Append(q, p)[i] = q[i]
      BY AppendIs
    <2> QED  BY <1>1, <2>1
  <1>3. \A i \in 1..m : Lo(r, o, i) = Lo(q, o, i) /\ Hi(r, i) = Hi(q, i)
    BY <1>1, <1>2 DEF Lo, Hi
  <1>4. \A i \in 1..(m + 1) : r[i].pkt \in K => i \in 1..m
    BY <1>2
  <1>5. /\ \A i \in 1..m : q[i].pkt \in K => a < Lo(q, o, i) /\ Lo(q, o, i) <= Hi(q, i) /\ Hi(q, i) <= b
        /\ \A i, j \in 1..m : i < j /\ q[i].pkt \in K /\ q[j].pkt \in K => Hi(q, i) < q[j].first
        /\ \A n \in (a + 1)..b : \E i \in 1..m : q[i].pkt \in K /\ Lo(q, o, i) <= n /\ n <= Hi(q, i)
    BY <1>1 DEF Tiled
  <1>6. \A i \in 1..(m + 1) :
           r[i].pkt \in K => a < Lo(r, o, i) /\ Lo(r, o, i) <= Hi(r, i) /\ Hi(r, i) <= b
    BY <1>2, <1>3, <1>4, <1>5
  <1>7. \A i, j \in 1..(m + 1) :
           i < j /\ r[i].pkt \in K /\ r[j].pkt \in K => Hi(r, i) < r[j].first
    BY <1>2, <1>3, <1>4, <1>5
  <1>8. ASSUME NEW n \in (a + 1)..b
        PROVE  \E i \in 1..(m + 1) : r[i].pkt \in K /\ Lo(r, o, i) <= n /\ n <= Hi(r, i)
    <2>1. PICK i \in 1..m : q[i].pkt \in K /\ Lo(q, o, i) <= n /\ n <= Hi(q, i)
      BY <1>5
    <2>2. i \in 1..(m + 1)
      OBVIOUS
    <2> QED  BY <1>2, <1>3, <2>1, <2>2
  <1> QED  BY <1>2, <1>6, <1>7, <1>8 DEF Tiled

(* Of the first packet n numbers more are gone, or it is: wholly, if of     *)
(* kind K, and without a change, if of another.                             *)
LEMMA TiledPart ==
    ASSUME NEW K, NEW q \in Seq(Packet), NEW o \in Nat, NEW a \in Nat, NEW b \in Nat,
           NEW n \in Nat, Tiled(K, q, o, a, b), q # <<>>, q[1].pkt \in K, o + n < q[1].len
    PROVE  Tiled(K, q, o + n, a + n, b)
  <1>1. 1 \in 1..Len(q) /\ \A i \in 1..Len(q) : q[i].first \in Nat /\ q[i].len \in Nat
    BY PacketsAre
  <1>2. q[1].first + o = a + 1
    <2>1. Lo(q, o, 1) = a + 1
      BY HeadLow
    <2> QED  BY <2>1 DEF Lo
  <1>3. /\ Lo(q, o + n, 1) = a + n + 1
        /\ \A i \in 1..Len(q) : i > 1 => Lo(q, o + n, i) = q[i].first /\ Lo(q, o, i) = q[i].first
    <2>1. PICK f \in Nat : f = q[1].first
      BY <1>1
    <2>2. Lo(q, o + n, 1) = a + n + 1
      BY <1>2, <2>1 DEF Lo
    <2>3. \A x \in Nat : x + 0 = x
      OBVIOUS
    <2> QED  BY <1>1, <2>2, <2>3 DEF Lo
  <1>4. a + n < Hi(q, 1)
    BY <1>1, <1>2 DEF Hi
  <1>5. \A i \in 1..Len(q) : i > 1 /\ q[i].pkt \in K => Hi(q, 1) < q[i].first
    BY <1>1 DEF Tiled
  <1>6. \A i \in 1..Len(q) : Hi(q, i) \in Int
    BY <1>1 DEF Hi
  <1>7. ASSUME NEW i \in 1..Len(q), q[i].pkt \in K
        PROVE  a + n < Lo(q, o + n, i) /\ Lo(q, o + n, i) <= Hi(q, i) /\ Hi(q, i) <= b
    <2>1. Lo(q, o, i) <= Hi(q, i) /\ Hi(q, i) <= b
      BY <1>7 DEF Tiled
    <2>2. CASE i = 1
      BY <1>1, <1>3, <1>4, <1>6, <2>1, <2>2
    <2>3. CASE i > 1
      BY <1>1, <1>3, <1>4, <1>5, <1>6, <1>7, <2>1, <2>3
    <2> QED  BY <2>2, <2>3
  <1>8. ASSUME NEW k \in (a + n + 1)..b
        PROVE  \E i \in 1..Len(q) : q[i].pkt \in K /\ Lo(q, o + n, i) <= k /\ k <= Hi(q, i)
    <2>1. k \in (a + 1)..b
      OBVIOUS
    <2>2. PICK i \in 1..Len(q) : q[i].pkt \in K /\ Lo(q, o, i) <= k /\ k <= Hi(q, i)
      BY <2>1 DEF Tiled
    <2>3. Lo(q, o + n, i) <= k
      BY <1>3, <2>2
    <2> QED  BY <2>2, <2>3
  <1> QED  BY <1>7, <1>8 DEF Tiled

LEMMA TailTiles ==
    ASSUME NEW q \in Seq(Packet), q # <<>>
    PROVE  \E t \in Seq(Packet), m \in Nat :
             /\ t = Tail(q) /\ Len(q) = m + 1 /\ Len(t) = m
             /\ \A i \in 1..m : i + 1 \in 1..(m + 1) /\ t[i] = q[i + 1] /\ q[i + 1] \in Packet
             /\ \A i \in 1..m : Lo(t, 0, i) = q[i + 1].first /\ Hi(t, i) = Hi(q, i + 1)
             /\ \A i \in 1..m : \A o : Lo(q, o, i + 1) = q[i + 1].first
  <1>1. PICK m \in Nat : Len(q) = m + 1
    <2>1. Len(q) \in Nat /\ Len(q) # 0
      BY LenProperties, EmptySeq
    <2>2. Len(q) - 1 \in Nat /\ Len(q) = (Len(q) - 1) + 1
      BY <2>1
    <2> QED  BY <2>2
  <1>2. PICK t \in Seq(Packet) : t = Tail(q) /\ Len(t) = m /\ \A i \in 1..m : t[i] = q[i + 1]
    <2>1. Tail(q) \in Seq(Packet) /\ Len(Tail(q)) = Len(q) - 1
          /\ \A i \in 1..(Len(q) - 1) : Tail(q)[i] = q[i + 1]
      BY TailIs
    <2>2. Len(q) - 1 = m
      BY <1>1
    <2> QED  BY <2>1, <2>2
  <1>3. \A i \in 1..m : i + 1 \in 1..(m + 1) /\ q[i + 1] \in Packet /\ q[i + 1].first \in Nat
    <2> SUFFICES ASSUME NEW i \in 1..m
                 PROVE  i + 1 \in 1..(m + 1) /\ q[i + 1] \in Packet /\ q[i + 1].first \in Nat
      OBVIOUS
    <2>1. PICK j \in 1..(m + 1) : j = i + 1
      OBVIOUS
    <2> QED  BY <1>1, <2>1, PacketsAre
  <1>4. \A i \in 1..m : Lo(t, 0, i) = q[i + 1].first /\ Hi(t, i) = Hi(q, i + 1)
    BY <1>2, <1>3 DEF Lo, Hi
  <1>5. \A i \in 1..m : \A o : Lo(q, o, i + 1) = q[i + 1].first
    <2>1. \A i \in 1..m : i + 1 # 1 /\ q[i + 1].first + 0 = q[i + 1].first
      BY <1>3
    <2> QED  BY <2>1 DEF Lo
  <1> QED  BY <1>1, <1>2, <1>3, <1>4, <1>5

(* The first packet goes, wholly, or is not of kind K.                      *)
LEMMA TiledFree ==
    ASSUME NEW K, NEW q \in Seq(Packet), NEW o \in Nat, NEW a \in Nat, NEW b \in Nat,
           Tiled(K, q, o, a, b), q # <<>>
    PROVE  /\ q[1].pkt \in K => Tiled(K, Tail(q), 0, Hi(q, 1), b)
           /\ q[1].pkt \notin K => Tiled(K, Tail(q), 0, a, b)
  <1>1. PICK t \in Seq(Packet), m \in Nat :
           /\ t = Tail(q) /\ Len(q) = m + 1 /\ Len(t) = m
           /\ \A i \in 1..m : i + 1 \in 1..(m + 1) /\ t[i] = q[i + 1] /\ q[i + 1] \in Packet
           /\ \A i \in 1..m : Lo(t, 0, i) = q[i + 1].first /\ Hi(t, i) = Hi(q, i + 1)
           /\ \A i \in 1..m : \A u : Lo(q, u, i + 1) = q[i + 1].first
    BY TailTiles
  <1>2. /\ \A i \in 1..(m + 1) : q[i].pkt \in K => a < Lo(q, o, i) /\ Lo(q, o, i) <= Hi(q, i) /\ Hi(q, i) <= b
        /\ \A i, j \in 1..(m + 1) : i < j /\ q[i].pkt \in K /\ q[j].pkt \in K => Hi(q, i) < q[j].first
        /\ \A n \in (a + 1)..b : \E i \in 1..(m + 1) : q[i].pkt \in K /\ Lo(q, o, i) <= n /\ n <= Hi(q, i)
    BY <1>1 DEF Tiled
  <1>3. ASSUME NEW i \in 1..m, t[i].pkt \in K
        PROVE  /\ a < Lo(t, 0, i) /\ Lo(t, 0, i) <= Hi(t, i) /\ Hi(t, i) <= b
               /\ q[1].pkt \in K => Hi(q, 1) < Lo(t, 0, i)
    <2>1. PICK j \in 1..(m + 1) : j = i + 1 /\ 1 < j
      OBVIOUS
    <2>2. q[j].pkt \in K /\ Lo(q, o, j) = Lo(t, 0, i) /\ Hi(q, j) = Hi(t, i) /\ Lo(t, 0, i) = q[j].first
      BY <1>1, <1>3, <2>1
    <2>3. 1 \in 1..(m + 1)
      OBVIOUS
    <2> QED  BY <1>2, <2>1, <2>2, <2>3
  <1>4. ASSUME NEW i \in 1..m, NEW j \in 1..m, i < j, t[i].pkt \in K, t[j].pkt \in K
        PROVE  Hi(t, i) < t[j].first
    <2>1. PICK k \in 1..(m + 1), l \in 1..(m + 1) : k = i + 1 /\ l = j + 1 /\ k < l
      BY <1>4
    <2>2. q[k].pkt \in K /\ q[l].pkt \in K /\ Hi(t, i) = Hi(q, k) /\ t[j].first = q[l].first
      BY <1>1, <1>4, <2>1
    <2> QED  BY <1>2, <2>1, <2>2
  <1>5. ASSUME NEW n \in (a + 1)..b, q[1].pkt \in K => Hi(q, 1) < n
        PROVE  \E i \in 1..m : t[i].pkt \in K /\ Lo(t, 0, i) <= n /\ n <= Hi(t, i)
    <2>1. PICK j \in 1..(m + 1) : q[j].pkt \in K /\ Lo(q, o, j) <= n /\ n <= Hi(q, j)
      BY <1>2
    <2>2. j # 1
      <3>1. 1 \in 1..Len(q) /\ Hi(q, 1) \in Int
        BY PacketsAre
      <3> QED  BY <1>5, <2>1, <3>1
    <2>3. PICK i \in 1..m : j = i + 1
      <3>1. j - 1 \in 1..m /\ j = (j - 1) + 1
        BY <2>2
      <3> QED  BY <3>1
    <2>4. t[i].pkt \in K /\ Lo(t, 0, i) = Lo(q, o, j) /\ Hi(t, i) = Hi(q, j)
      BY <1>1, <2>1, <2>3
    <2> QED  BY <2>1, <2>4
  <1>6. CASE q[1].pkt \in K
    <2>1. 1 \in 1..(m + 1) /\ 1 \in 1..Len(q) /\ Hi(q, 1) \in Int
      BY <1>1, PacketsAre
    <2>2. Lo(q, o, 1) = a + 1
      BY <1>6, HeadLow
    <2>3. a + 1 <= Hi(q, 1)
      BY <1>2, <1>6, <2>1, <2>2
    <2>4. ASSUME NEW n \in (Hi(q, 1) + 1)..b
          PROVE  \E i \in 1..m : t[i].pkt \in K /\ Lo(t, 0, i) <= n /\ n <= Hi(t, i)
      <3>1. n \in (a + 1)..b /\ Hi(q, 1) < n
        BY <2>1, <2>3
      <3> QED  BY <1>5, <3>1
    <2>5. Tiled(K, t, 0, Hi(q, 1), b)
      BY <1>1, <1>3, <1>4, <1>6, <2>4 DEF Tiled
    <2> QED  BY <1>1, <1>6, <2>5
  <1>7. CASE q[1].pkt \notin K
    <2>1. Tiled(K, t, 0, a, b)
      BY <1>1, <1>3, <1>4, <1>5, <1>7 DEF Tiled
    <2> QED  BY <1>1, <1>7, <2>1
  <1> QED  BY <1>6, <1>7

(* Together the packets hold the numbers from a + 1 to b.                   *)
Holds(K, q, o, i) == IF q[i].pkt \in K THEN Lo(q, o, i)..Hi(q, i) ELSE {}

LEMMA TiledUnion ==
    ASSUME NEW K, NEW q \in Seq(Packet), NEW o \in Nat, NEW a \in Nat, NEW b \in Nat,
           Tiled(K, q, o, a, b)
    PROVE  UNION {Holds(K, q, o, i) : i \in 1..Len(q)} = (a + 1)..b
  <1>1. \A i \in 1..Len(q) : Lo(q, o, i) \in Int /\ Hi(q, i) \in Int
    BY PacketsAre DEF Lo
  <1>2. ASSUME NEW i \in 1..Len(q), NEW n \in Holds(K, q, o, i)
        PROVE  n \in (a + 1)..b
    <2>1. q[i].pkt \in K /\ n \in Lo(q, o, i)..Hi(q, i)
      BY <1>2 DEF Holds
    <2>2. a < Lo(q, o, i) /\ Hi(q, i) <= b
      BY <2>1 DEF Tiled
    <2> QED  BY <1>1, <2>1, <2>2
  <1>3. ASSUME NEW n \in (a + 1)..b
        PROVE  \E i \in 1..Len(q) : n \in Holds(K, q, o, i)
    <2>1. PICK i \in 1..Len(q) : q[i].pkt \in K /\ Lo(q, o, i) <= n /\ n <= Hi(q, i)
      BY DEF Tiled
    <2>2. n \in Lo(q, o, i)..Hi(q, i)
      BY <1>1, <2>1
    <2> QED  BY <2>1, <2>2 DEF Holds
  <1> QED  BY <1>2, <1>3
-----------------------------------------------------------------------------
(* The invariant.  A packet that an application which does not stall has    *)
(* taken in part is the oldest one.                                         *)
OffsInv ==
    ~stalls => /\ ~busy
               /\ offs > 0 => rxbufs # <<>> /\ rxbufs[1].pkt = "TX" /\ offs < rxbufs[1].len

(* What is queued has been said, and the VM has room for what it granted.   *)
SaidInv ==
    /\ \A i \in 1..Len(rxbufs) : rxbufs[i].pkt # "RX_ACK" => rxbufs[i].first + rxbufs[i].len - 1 <= said
    /\ granted <= Window + used

StreamInv ==
    ~stalls =>
      /\ heard = Numbers(1, Len(heard)) /\ Len(heard) <= said
      /\ Tiled({"TX", "BRK"}, rxbufs, offs, Len(heard), said)

CreditInv ==
    /\ cred + used <= granted
    /\ Tiled({"RX_ACK"}, rxbufs, 0, cred + used, granted)

(* A sender on an Ethernet interface past the test of the credits has one.  *)
SenderInv ==
    /\ checked \subseteq EthSenders
    /\ checked # {} => type = "ETH" /\ cred > 0 /\ used < MaxUsed

IInv == TypeOK /\ OffsInv /\ SaidInv /\ StreamInv /\ CreditInv /\ SenderInv

LEMMA QueueIs ==
    ASSUME IInv
    PROVE  /\ rxbufs \in Seq(Packets) /\ rxbufs \in Seq(Packet) /\ Packets \subseteq Packet
           /\ Len(rxbufs) \in Nat /\ (rxbufs # <<>> => 1 \in 1..Len(rxbufs) /\ rxbufs[1] \in Packets)
  <1>1. Packets \subseteq Packet
    BY StreamIfAssumption DEF Packets, Packet
  <1>2. rxbufs \in Seq(Packets)
    BY DEF IInv, TypeOK
  <1>3. rxbufs \in Seq(Packet)
    BY <1>1, <1>2
  <1> QED  BY <1>1, <1>2, <1>3, PacketsAre, ElementOfSeq

LEMMA PacketIs ==
    ASSUME NEW p \in Packets
    PROVE  /\ p.first \in Nat /\ p.len \in Nat \ {0}
           /\ p.pkt # "RX_ACK" => p.first \in 1..MaxSaid
           /\ p.pkt = "TX" => p.len <= MaxLen
           /\ p.pkt = "BRK" => p.len = 1
           /\ p.pkt \in {"TX", "BRK", "RX_ACK"}
  BY StreamIfAssumption DEF Packets

LEMMA TypesAre ==
    ASSUME IInv
    PROVE  /\ cred \in Nat /\ cred < CredMod /\ used \in Nat /\ used <= MaxUsed /\ granted \in Nat
           /\ said \in Nat /\ said <= MaxSaid /\ offs \in Nat /\ offs <= MaxLen
           /\ heard \in Seq(0..MaxSaid) /\ Len(heard) \in Nat
           /\ cred + used <= granted /\ granted <= Window + used /\ cred <= Window
           /\ Window < CredMod /\ Window \in Nat /\ CredMod \in Nat
  <1>1. /\ cred \in Nat /\ cred < CredMod /\ used \in Nat /\ used <= MaxUsed /\ granted \in Nat
        /\ said \in Nat /\ said <= MaxSaid /\ offs \in Nat /\ offs <= MaxLen
        /\ heard \in Seq(0..MaxSaid)
    BY StreamIfAssumption DEF IInv, TypeOK
  <1>2. cred + used <= granted /\ granted <= Window + used
    BY DEF IInv, CreditInv, SaidInv
  <1> QED  BY <1>1, <1>2, StreamIfAssumption, LenProperties

(* Consecutive numbers behind those that were heard.                        *)
Counted(q, a, n) == q \in Seq(Nat) /\ Len(q) = n /\ q = Numbers(a + 1, n)

LEMMA NumbersMore ==
    ASSUME NEW x, NEW y, NEW a \in Nat, NEW b \in Nat, Counted(x, 0, a), Counted(y, a, b)
    PROVE  Counted(x \o y, 0, a + b)
  <1> USE DEF Counted
  <1>0. Len(y) = b /\ x \in Seq(Nat) /\ y \in Seq(Nat) /\ \A j \in 1..b : y[j] = a + j
    <2>1. y = [j \in 1..b |-> a + j]
      <3>1. \A j \in 1..b : (a + 1) + j - 1 = a + j
        OBVIOUS
      <3> QED  BY <3>1 DEF Numbers
    <2>2. \A j \in 1..b : y[j] = a + j
      BY <2>1
    <2>3. DOMAIN y = 1..b /\ Len(y) \in Nat /\ DOMAIN y = 1..Len(y)
      BY <2>1, LenProperties
    <2>4. Len(y) = b
      BY <2>3
    <2> QED  BY <2>2, <2>4
  <1>1. PICK u \in Seq(Nat) : /\ u = x \o y /\ Len(u) = a + b
                            /\ \A i \in 1..(a + b) : u[i] = IF i <= a THEN x[i] ELSE y[i - a]
    <2>1. /\ x \o y \in Seq(Nat) /\ Len(x \o y) = Len(x) + Len(y)
          /\ \A i \in 1..(Len(x) + Len(y)) : (x \o y)[i] = IF i <= Len(x) THEN x[i] ELSE y[i - Len(x)]
      BY ConcatProperties
    <2> QED  BY <1>0, <2>1
  <1>2. u = [i \in 1..(a + b) |-> u[i]]
    BY <1>1, LenProperties
  <1>3. \A i \in 1..(a + b) : u[i] = 1 + i - 1
    <2> SUFFICES ASSUME NEW i \in 1..(a + b) PROVE u[i] = 1 + i - 1
      OBVIOUS
    <2>1. CASE i <= a
      <3>1. x[i] = 1 + i - 1
        BY <2>1 DEF Numbers
      <3> QED  BY <1>1, <2>1, <3>1
    <2>2. CASE i > a
      <3>1. i - a \in 1..b /\ a + (i - a) = i
        BY <2>2
      <3> QED  BY <1>0, <1>1, <2>2, <3>1
    <2> QED  BY <2>1, <2>2
  <1>4. u = Numbers(1, a + b)
    BY <1>2, <1>3 DEF Numbers
  <1>5. 0 + 1 = 1
    OBVIOUS
  <1>6. u \in Seq(Nat) /\ Len(u) = a + b /\ u = Numbers(0 + 1, a + b)
    BY <1>1, <1>4, <1>5
  <1> QED  BY <1>1, <1>6

LEMMA InitInv == Init => IInv
  <1> SUFFICES ASSUME Init PROVE IInv
    OBVIOUS
  <1>1. rxbufs = <<>> /\ heard = <<>> /\ Len(rxbufs) = 0 /\ Len(heard) = 0
        /\ said = 0 /\ used = 0 /\ cred = Window /\ granted = Window /\ checked = {}
        /\ Window \in Nat /\ Window < CredMod /\ CredMod \in Nat /\ offs = 0 /\ ~busy
    BY StreamIfAssumption DEF Init
  <1>2. TypeOK
    <2>1. rxbufs \in Seq(Packets) /\ heard \in Seq(0..MaxSaid)
      BY <1>1, EmptySeq
    <2>2. cred \in 0..(CredMod - 1) /\ offs \in 0..MaxLen /\ said \in 0..MaxSaid
          /\ used \in 0..MaxUsed /\ granted \in Nat
      BY <1>1, StreamIfAssumption
    <2>3. type \in Types /\ stalls \in BOOLEAN /\ advancing \in BOOLEAN /\ busy \in BOOLEAN
          /\ waiting \in BOOLEAN /\ checked \subseteq {"loop", "app"}
      BY DEF Init
    <2> QED  BY <1>1, <2>1, <2>2, <2>3 DEF TypeOK
  <1>3. \A K, b : b \in Nat => Tiled(K, rxbufs, 0, b, b)
    BY <1>1 DEF Tiled
  <1>4. heard = Numbers(1, 0)
    BY <1>1 DEF Numbers
  <1>5. OffsInv /\ SaidInv
    BY <1>1 DEF OffsInv, SaidInv
  <1>6. StreamInv
    BY <1>1, <1>3, <1>4 DEF StreamInv
  <1>7. CreditInv
    BY <1>1, <1>3 DEF CreditInv
  <1> QED  BY <1>1, <1>2, <1>5, <1>6, <1>7 DEF IInv, SenderInv

-----------------------------------------------------------------------------
(* The VM says something or returns credits.                                *)
LEMMA ReceiveStep ==
    ASSUME IInv, NEW p \in Packets, Receive(p), said' \in Nat, said <= said', said' <= MaxSaid,
           granted' \in Nat, granted' <= Window + used,
           p.pkt # "RX_ACK" => p.first = said + 1 /\ said' = said + p.len /\ granted' = granted,
           p.pkt = "RX_ACK" => p.first = granted + 1 /\ granted' = granted + p.len /\ said' = said
    PROVE  IInv'
  <1>1. UNCHANGED <<type, stalls, busy, offs, heard, cred, checked, waiting, used>> /\ advancing' = TRUE
    BY DEF Receive, kind, txvars, rxvars
  <1>2. /\ rxbufs' = Append(rxbufs, p) /\ rxbufs' \in Seq(Packets) /\ Len(rxbufs') = Len(rxbufs) + 1
        /\ \A i \in 1..Len(rxbufs) : rxbufs'[i] = rxbufs[i]
        /\ rxbufs'[Len(rxbufs) + 1] = p /\ Len(rxbufs) \in Nat
    BY QueueIs, AppendIs DEF Receive
  <1>3. rxbufs # <<>> => rxbufs' # <<>> /\ rxbufs'[1] = rxbufs[1]
    BY <1>2, QueueIs
  <1>4. p \in Packet /\ p.len \in Nat \ {0} /\ p.first \in Nat
    BY QueueIs, PacketIs
  <1>5. TypeOK'
    <2>1. ~stalls /\ offs > 0 => rxbufs' # <<>> /\ offs < rxbufs'[1].len
      BY <1>3 DEF IInv, TypeOK
    <2> QED  BY <1>1, <1>2, <2>1 DEF IInv, TypeOK
  <1>6. OffsInv'
    BY <1>1, <1>3 DEF IInv, OffsInv
  <1>7. SaidInv'
    <2> SUFFICES ASSUME NEW i \in 1..Len(rxbufs'), rxbufs'[i].pkt # "RX_ACK"
                 PROVE  rxbufs'[i].first + rxbufs'[i].len - 1 <= said'
      BY <1>1 DEF SaidInv
    <2>1. CASE i \in 1..Len(rxbufs)
      <3>1. rxbufs[i].first + rxbufs[i].len - 1 <= said
        BY <1>2, <2>1 DEF IInv, SaidInv
      <3>2. rxbufs[i].first \in Nat /\ rxbufs[i].len \in Nat
        BY <2>1, QueueIs, PacketsAre
      <3>3. rxbufs'[i] = rxbufs[i]
        BY <1>2, <2>1
      <3>4. PICK f \in Nat, l \in Nat : f = rxbufs[i].first /\ l = rxbufs[i].len
        BY <3>2
      <3>5. f + l - 1 <= said /\ said \in Nat
        BY <3>1, <3>4, TypesAre
      <3>6. f + l - 1 <= said'
        BY <3>5
      <3> QED  BY <3>3, <3>4, <3>6
    <2>2. CASE i = Len(rxbufs) + 1
      <3>1. p.first = said + 1 /\ said' = said + p.len
        BY <1>2, <2>2
      <3>2. PICK c \in Nat, l \in Nat : c = said /\ l = p.len
        BY <1>4, TypesAre
      <3>3. (c + 1) + l - 1 <= c + l
        OBVIOUS
      <3> QED  BY <1>2, <2>2, <3>1, <3>2, <3>3
    <2> QED  BY <1>2, <2>1, <2>2
  <1>8. StreamInv'
    <2> SUFFICES ASSUME ~stalls
                 PROVE  /\ heard = Numbers(1, Len(heard)) /\ Len(heard) <= said'
                        /\ Tiled({"TX", "BRK"}, rxbufs', offs, Len(heard), said')
      BY <1>1 DEF StreamInv
    <2>1. /\ heard = Numbers(1, Len(heard)) /\ Len(heard) <= said
          /\ Tiled({"TX", "BRK"}, rxbufs, offs, Len(heard), said)
      BY DEF IInv, StreamInv
    <2>2. rxbufs = <<>> => offs = 0
      BY TypesAre DEF IInv, OffsInv
    <2>3. Tiled({"TX", "BRK"}, rxbufs', offs, Len(heard), said')
      <3>1. CASE p.pkt = "RX_ACK"
        BY <1>2, <1>4, <2>1, <3>1, TiledOther, TypesAre, QueueIs
      <3>2. CASE p.pkt # "RX_ACK"
        <4>1. p.pkt \in {"TX", "BRK"}
          BY <3>2, PacketIs
        <4>2. Len(heard) \in Nat /\ said \in Nat /\ offs \in Nat /\ rxbufs \in Seq(Packet)
          BY TypesAre, QueueIs
        <4>3. p.first = said + 1 /\ p.len > 0
          BY <1>4, <3>2
        <4>4. Tiled({"TX", "BRK"}, Append(rxbufs, p), offs, Len(heard), said + p.len)
          BY <1>4, <2>1, <2>2, <4>1, <4>2, <4>3, TiledMore
        <4> QED  BY <1>2, <3>2, <4>4
      <3> QED  BY <3>1, <3>2
    <2> QED  BY <2>1, <2>3, TypesAre
  <1>9. CreditInv'
    <2>1. Tiled({"RX_ACK"}, rxbufs, 0, cred + used, granted) /\ cred + used <= granted
      BY DEF IInv, CreditInv
    <2>2. PICK a \in Nat : a = cred + used
      BY TypesAre
    <2>3. Tiled({"RX_ACK"}, rxbufs', 0, a, granted')
      <3>1. CASE p.pkt = "RX_ACK"
        <4>1. granted \in Nat /\ rxbufs \in Seq(Packet)
          BY TypesAre, QueueIs
        <4>2. p.first = granted + 1 /\ p.len > 0 /\ a <= granted /\ p.pkt \in {"RX_ACK"}
          BY <1>4, <2>1, <2>2, <3>1
        <4>3. Tiled({"RX_ACK"}, Append(rxbufs, p), 0, a, granted + p.len)
          BY <1>4, <2>1, <2>2, <4>1, <4>2, TiledMore
        <4> QED  BY <1>2, <3>1, <4>3
      <3>2. CASE p.pkt # "RX_ACK"
        BY <1>2, <1>4, <2>1, <2>2, <3>2, TiledOther, TypesAre, QueueIs
      <3> QED  BY <3>1, <3>2
    <2>4. a <= granted'
      BY <1>4, <2>1, <2>2, PacketIs, TypesAre
    <2> QED  BY <1>1, <2>2, <2>3, <2>4 DEF CreditInv
  <1>10. SenderInv'
    BY <1>1 DEF IInv, SenderInv
  <1> QED  BY <1>5, <1>6, <1>7, <1>8, <1>9, <1>10 DEF IInv

LEMMA SayStep == IInv /\ VMSay => IInv'
  <1> SUFFICES ASSUME IInv, VMSay PROVE IInv'
    OBVIOUS
  <1>1. granted' = granted
    BY DEF VMSay
  <1>2. CASE \E len \in 1..MaxLen : /\ said + len <= MaxSaid
                                    /\ Receive(Tx(said + 1, len))
                                    /\ said' = said + len
    <2>1. PICK len \in 1..MaxLen : /\ said + len <= MaxSaid
                                   /\ Receive(Tx(said + 1, len))
                                   /\ said' = said + len
      BY <1>2
    <2>2. PICK p : p = Tx(said + 1, len)
      OBVIOUS
    <2>3. p.pkt = "TX" /\ p.first = said + 1 /\ p.len = len
      BY <2>2 DEF Tx
    <2>4. p \in Packets
      <3>1. said + 1 \in 1..MaxSaid
        BY <2>1, TypesAre, StreamIfAssumption
      <3> QED  BY <2>2, <3>1 DEF Tx, Packets
    <2>5. said' \in Nat /\ said <= said' /\ said' <= MaxSaid
      BY <2>1, TypesAre, StreamIfAssumption
    <2> QED  BY <1>1, <2>1, <2>2, <2>3, <2>4, <2>5, ReceiveStep, TypesAre
  <1>3. CASE type = "UART" /\ said < MaxSaid /\ Receive(Brk(said + 1)) /\ said' = said + 1
    <2>1. PICK p : p = Brk(said + 1)
      OBVIOUS
    <2>2. p.pkt = "BRK" /\ p.first = said + 1 /\ p.len = 1
      BY <2>1 DEF Brk
    <2>3. p \in Packets
      <3>1. said + 1 \in 1..MaxSaid
        BY <1>3, TypesAre, StreamIfAssumption
      <3> QED  BY <2>1, <3>1 DEF Brk, Packets
    <2>4. said' \in Nat /\ said <= said' /\ said' <= MaxSaid
      BY <1>3, TypesAre, StreamIfAssumption
    <2> QED  BY <1>1, <1>3, <2>1, <2>2, <2>3, <2>4, ReceiveStep, TypesAre
  <1> QED  BY <1>2, <1>3 DEF VMSay

LEMMA GrantStep == IInv /\ VMGrant => IInv'
  <1> SUFFICES ASSUME IInv, VMGrant PROVE IInv'
    OBVIOUS
  <1>1. PICK n \in 1..(Window + used - granted) :
           Receive(RxAck(granted + 1, n)) /\ granted' = granted + n /\ said' = said
    BY DEF VMGrant
  <1>2. PICK p : p = RxAck(granted + 1, n)
    OBVIOUS
  <1>3. p.pkt = "RX_ACK" /\ p.first = granted + 1 /\ p.len = n
    BY <1>2 DEF RxAck
  <1>4. p \in Packets
    <2>1. granted + 1 \in 1..(Window + MaxUsed) /\ n \in 1..(Window + MaxUsed)
      BY TypesAre, StreamIfAssumption
    <2> QED  BY <1>2, <2>1 DEF RxAck, Packets
  <1>5. granted' \in Nat /\ granted' <= Window + used
    BY <1>1, TypesAre
  <1>6. said' = said /\ said' \in Nat /\ said <= said' /\ said' <= MaxSaid
    BY <1>1, TypesAre
  <1>7. p.first = granted + 1 /\ granted' = granted + p.len
    BY <1>1, <1>3
  <1> QED  BY <1>1, <1>2, <1>3, <1>4, <1>5, <1>6, <1>7, ReceiveStep

-----------------------------------------------------------------------------
(* The oldest packet is freed, or nothing happens to the queue.             *)
LEMMA FreeIs ==
    ASSUME IInv, rxbufs # <<>>, Free, UNCHANGED <<said, granted, used>>
    PROVE  rxbufs' \in Seq(Packets) /\ SaidInv'
  <1>1. /\ rxbufs' \in Seq(Packets) /\ Len(rxbufs') = Len(rxbufs) - 1
        /\ \A i \in 1..(Len(rxbufs) - 1) : rxbufs'[i] = rxbufs[i + 1] /\ i + 1 \in 1..Len(rxbufs)
    BY QueueIs, TailIs DEF Free
  <1>2. SaidInv'
    <2>1. ASSUME NEW i \in 1..(Len(rxbufs) - 1), rxbufs'[i].pkt # "RX_ACK"
          PROVE  rxbufs'[i].first + rxbufs'[i].len - 1 <= said
      BY <1>1, <2>1 DEF IInv, SaidInv
    <2> QED  BY <1>1, <2>1 DEF IInv, SaidInv
  <1> QED  BY <1>1, <1>2

(* Freeing a packet of data leaves the credits.                             *)
LEMMA CreditsLeft ==
    ASSUME IInv, rxbufs # <<>>, rxbufs[1].pkt # "RX_ACK", Free, UNCHANGED <<cred, used, granted>>
    PROVE  CreditInv'
  <1>1. PICK a \in Nat : a = cred + used
    BY TypesAre
  <1>2. Tiled({"RX_ACK"}, rxbufs, 0, a, granted)
    BY <1>1 DEF IInv, CreditInv
  <1>3. Tiled({"RX_ACK"}, Tail(rxbufs), 0, a, granted)
    BY <1>2, TiledFree, TypesAre, QueueIs
  <1> QED  BY <1>1, <1>3 DEF Free, CreditInv, IInv

(* A turn with data, of which the callback takes n bytes.                   *)
LEMMA TxStep == IInv /\ AdvanceTx => IInv'
  <1> SUFFICES ASSUME IInv, AdvanceTx PROVE IInv'
    OBVIOUS
  <1>1. PICK n \in Takes : heard' = heard \o Taken(n) /\ TxPart(n)
    BY DEF AdvanceTx
  <1>2. /\ rxbufs # <<>> /\ rxbufs[1].pkt = "TX" /\ ~busy
        /\ UNCHANGED <<type, stalls, busy, cred, checked, waiting, used, said, granted>>
    BY DEF AdvanceTx, First, kind, rxvars
  <1>3. PICK f \in Nat, l \in Nat \ {0} :
           /\ f = rxbufs[1].first /\ l = rxbufs[1].len /\ f > 0 /\ l <= MaxLen /\ f + l - 1 <= said
    <2>1. rxbufs[1] \in Packets /\ 1 \in 1..Len(rxbufs)
      BY <1>2, QueueIs
    <2>2. /\ rxbufs[1].first \in Nat /\ rxbufs[1].len \in Nat \ {0} /\ rxbufs[1].first > 0
          /\ rxbufs[1].len <= MaxLen
      BY <1>2, <2>1, PacketIs, StreamIfAssumption
    <2>3. rxbufs[1].first + rxbufs[1].len - 1 <= said
      BY <1>2, <2>1 DEF IInv, SaidInv
    <2> QED  BY <2>2, <2>3
  <1>4. PICK L \in Nat, o \in Nat : L = Len(heard) /\ o = offs
    BY TypesAre
  <1>5. n \in Nat \ {0} /\ (o <= l => o + n <= l)
    BY <1>3, <1>4, StreamIfAssumption DEF Takes
  <1>6. PICK t : t = Taken(n)
    OBVIOUS
  <1>7. /\ t = [j \in 1..n |-> IF o + j <= l THEN f + o + j - 1 ELSE 0]
        /\ t \in Seq(0..MaxSaid) /\ Len(t) = n
    <2>1. t = [j \in 1..n |-> IF o + j <= l THEN f + o + j - 1 ELSE 0]
      BY <1>3, <1>4, <1>6 DEF Taken
    <2>2. \A j \in 1..n : (IF o + j <= l THEN f + o + j - 1 ELSE 0) \in 0..MaxSaid
      <3>1. PICK c \in Nat, m \in Nat : c = said /\ m = MaxSaid /\ c <= m
        BY TypesAre, StreamIfAssumption
      <3>2. f + l - 1 <= m
        BY <1>3, <3>1
      <3>3. \A j \in 1..n : (IF o + j <= l THEN f + o + j - 1 ELSE 0) \in 0..m
        BY <1>5, <3>2
      <3> QED  BY <3>1, <3>3
    <2> QED  BY <1>5, <2>1, <2>2
  <1>8. heard' = heard \o t /\ heard' \in Seq(0..MaxSaid)
    BY <1>1, <1>6, <1>7, TypesAre, ConcatProperties
  <1>9. CASE o + n < l
    <2>1. offs' = o + n /\ advancing' = FALSE /\ rxbufs' = rxbufs
      BY <1>1, <1>3, <1>4, <1>9 DEF TxPart
    <2>2. o + n \in 0..MaxLen
      <3>1. PICK m \in Nat : m = MaxLen
        BY StreamIfAssumption
      <3> QED  BY <1>3, <1>5, <1>9, <3>1
    <2>3. TypeOK'
      BY <1>2, <1>3, <1>8, <1>9, <2>1, <2>2 DEF IInv, TypeOK
    <2>4. OffsInv' /\ SaidInv' /\ CreditInv' /\ SenderInv'
      BY <1>2, <1>3, <1>9, <2>1 DEF IInv, OffsInv, SaidInv, CreditInv, SenderInv
    <2>5. ASSUME ~stalls
          PROVE  /\ heard' = Numbers(1, L + n) /\ Len(heard') = L + n /\ L + n <= said
                 /\ Tiled({"TX", "BRK"}, rxbufs, o + n, L + n, said)
      <3>1. heard = Numbers(1, L) /\ Tiled({"TX", "BRK"}, rxbufs, o, L, said)
        BY <1>4, <2>5 DEF IInv, StreamInv
      <3>2. f + o = L + 1
        <4>1. rxbufs[1].pkt \in {"TX", "BRK"} /\ said \in Nat /\ rxbufs \in Seq(Packet)
          BY <1>2, TypesAre, QueueIs
        <4>2. Lo(rxbufs, o, 1) = L + 1
          BY <1>2, <1>4, <3>1, <4>1, HeadLow
        <4> QED  BY <1>3, <4>2 DEF Lo
      <3>3. t = Numbers(L + 1, n)
        <4>1. \A j \in 1..n : (IF o + j <= l THEN f + o + j - 1 ELSE 0) = (L + 1) + j - 1
          BY <1>5, <1>9, <3>2
        <4> QED  BY <1>7, <4>1 DEF Numbers
      <3>4. heard' = Numbers(1, L + n) /\ Len(heard') = L + n
        <4>1. heard \in Seq(0..MaxSaid) /\ n \in Nat
          BY <1>5, TypesAre
        <4>2. t \in Seq(0..MaxSaid)
          BY <1>7
        <4>3. 0 + 1 = 1 /\ L \in Nat /\ L = Len(heard) /\ heard = Numbers(1, L)
          BY <1>4, <3>1
        <4>4. Counted(heard, 0, L)
          BY <4>1, <4>3, StreamIfAssumption DEF Counted
        <4>5. Counted(t, L, n)
          <5>1. t \in Seq(Nat)
            BY <4>2, StreamIfAssumption
          <5>2. Len(t) = n
            BY <1>7
          <5> QED  BY <3>3, <5>1, <5>2 DEF Counted
        <4>6. Counted(heard \o t, 0, L + n)
          BY <4>1, <4>3, <4>4, <4>5, NumbersMore
        <4> QED  BY <1>8, <4>3, <4>6 DEF Counted
      <3>5. Tiled({"TX", "BRK"}, rxbufs, o + n, L + n, said)
        BY <1>2, <1>3, <1>5, <1>9, <3>1, TiledPart, TypesAre, QueueIs
      <3>6. L + n <= said
        <4>1. PICK c \in Nat : c = said /\ f + l - 1 <= c
          BY <1>3, TypesAre
        <4> QED  BY <1>5, <1>9, <3>2, <4>1
      <3> QED  BY <3>4, <3>5, <3>6
    <2>6. StreamInv'
      BY <1>2, <2>1, <2>5 DEF StreamInv
    <2> QED  BY <2>3, <2>4, <2>6 DEF IInv
  <1>10. CASE ~(o + n < l)
    <2>1. offs' = 0 /\ advancing' = advancing /\ Free
      BY <1>1, <1>3, <1>4, <1>10 DEF TxPart
    <2>2. rxbufs' \in Seq(Packets) /\ SaidInv'
      BY <1>2, <2>1, FreeIs
    <2>3. TypeOK'
      BY <1>2, <1>8, <2>1, <2>2, StreamIfAssumption DEF IInv, TypeOK
    <2>4. OffsInv' /\ SenderInv'
      BY <1>2, <2>1 DEF IInv, OffsInv, SenderInv
    <2>5. CreditInv'
      BY <1>2, <2>1, CreditsLeft
    <2>6. ASSUME ~stalls
          PROVE  /\ heard' = Numbers(1, L + n) /\ Len(heard') = L + n /\ L + n <= said
                 /\ Tiled({"TX", "BRK"}, Tail(rxbufs), 0, L + n, said)
      <3>1. heard = Numbers(1, L) /\ Tiled({"TX", "BRK"}, rxbufs, o, L, said) /\ o <= l
        BY <1>3, <1>4, <2>6 DEF IInv, StreamInv, OffsInv
      <3>2. f + o = L + 1
        <4>1. rxbufs[1].pkt \in {"TX", "BRK"} /\ said \in Nat /\ rxbufs \in Seq(Packet)
          BY <1>2, TypesAre, QueueIs
        <4>2. Lo(rxbufs, o, 1) = L + 1
          BY <1>2, <1>4, <3>1, <4>1, HeadLow
        <4> QED  BY <1>3, <4>2 DEF Lo
      <3>3. o + n = l
        BY <1>5, <1>10, <3>1
      <3>4. t = Numbers(L + 1, n)
        <4>1. \A j \in 1..n : (IF o + j <= l THEN f + o + j - 1 ELSE 0) = (L + 1) + j - 1
          BY <1>5, <3>2, <3>3
        <4> QED  BY <1>7, <4>1 DEF Numbers
      <3>5. heard' = Numbers(1, L + n) /\ Len(heard') = L + n
        <4>1. heard \in Seq(0..MaxSaid) /\ n \in Nat
          BY <1>5, TypesAre
        <4>2. t \in Seq(0..MaxSaid)
          BY <1>7
        <4>3. 0 + 1 = 1 /\ L \in Nat /\ L = Len(heard) /\ heard = Numbers(1, L)
          BY <1>4, <3>1
        <4>4. Counted(heard, 0, L)
          BY <4>1, <4>3, StreamIfAssumption DEF Counted
        <4>5. Counted(t, L, n)
          <5>1. t \in Seq(Nat)
            BY <4>2, StreamIfAssumption
          <5>2. Len(t) = n
            BY <1>7
          <5> QED  BY <3>4, <5>1, <5>2 DEF Counted
        <4>6. Counted(heard \o t, 0, L + n)
          BY <4>1, <4>3, <4>4, <4>5, NumbersMore
        <4> QED  BY <1>8, <4>3, <4>6 DEF Counted
      <3>6. Hi(rxbufs, 1) = L + n /\ L + n <= said
        <4>1. PICK c \in Nat : c = said /\ f + l - 1 <= c
          BY <1>3, TypesAre
        <4>2. f + l - 1 = L + n
          BY <1>5, <3>2, <3>3
        <4> QED  BY <1>3, <4>1, <4>2 DEF Hi
      <3>7. Tiled({"TX", "BRK"}, Tail(rxbufs), 0, L + n, said)
        BY <1>2, <3>1, <3>6, TiledFree, TypesAre, QueueIs
      <3> QED  BY <3>5, <3>6, <3>7
    <2>7. StreamInv'
      BY <1>2, <2>1, <2>6 DEF StreamInv, Free
    <2> QED  BY <2>2, <2>3, <2>4, <2>5, <2>7 DEF IInv
  <1> QED  BY <1>9, <1>10

(* The callback stalls, and the packet is gone.                             *)
LEMMA StallStep == IInv /\ AdvanceStall => IInv'
  <1> SUFFICES ASSUME IInv, AdvanceStall PROVE IInv'
    OBVIOUS
  <1>1. /\ rxbufs # <<>> /\ rxbufs[1].pkt = "TX" /\ stalls /\ busy' = TRUE /\ Free
        /\ UNCHANGED <<type, stalls, advancing, offs, heard, cred, checked, waiting, used, said,
                       granted>>
    BY DEF AdvanceStall, First, kind, rxvars
  <1>2. rxbufs' \in Seq(Packets) /\ SaidInv'
    BY <1>1, FreeIs
  <1>3. TypeOK' /\ OffsInv' /\ SenderInv' /\ StreamInv'
    BY <1>1, <1>2 DEF IInv, TypeOK, OffsInv, SenderInv, StreamInv
  <1>4. CreditInv'
    BY <1>1, CreditsLeft
  <1> QED  BY <1>2, <1>3, <1>4 DEF IInv

(* Credits come back.                                                       *)
LEMMA AckStep == IInv /\ AdvanceAck => IInv'
  <1> SUFFICES ASSUME IInv, AdvanceAck PROVE IInv'
    OBVIOUS
  <1>1. /\ rxbufs # <<>> /\ rxbufs[1].pkt = "RX_ACK" /\ Free
        /\ cred' = (cred + rxbufs[1].len) % CredMod /\ waiting' \in BOOLEAN
        /\ UNCHANGED <<type, stalls, advancing, busy, offs, heard, checked, used, said, granted>>
    BY DEF AdvanceAck, First, kind, txvars
  <1>2. rxbufs' \in Seq(Packets) /\ SaidInv'
    BY <1>1, FreeIs
  <1>3. PICK a \in Nat, g \in Nat, l \in Nat \ {0} :
           a = cred + used /\ g = granted /\ l = rxbufs[1].len
    <2>1. rxbufs[1] \in Packets
      BY <1>1, QueueIs
    <2> QED  BY <2>1, PacketIs, TypesAre
  <1>4. Tiled({"RX_ACK"}, rxbufs, 0, a, g)
    BY <1>3 DEF IInv, CreditInv
  <1>5. Hi(rxbufs, 1) = a + l /\ a + l <= g
    <2>1. rxbufs[1].first + 0 = a + 1
      <3>1. rxbufs[1].pkt \in {"RX_ACK"} /\ 0 \in Nat /\ rxbufs \in Seq(Packet)
        BY <1>1, QueueIs
      <3>2. Lo(rxbufs, 0, 1) = a + 1
        BY <1>1, <1>3, <1>4, <3>1, HeadLow
      <3> QED  BY <3>2 DEF Lo
    <2>2. rxbufs[1].first \in Nat /\ 1 \in 1..Len(rxbufs) /\ rxbufs[1].pkt \in {"RX_ACK"}
      BY <1>1, QueueIs, PacketsAre
    <2>3. Hi(rxbufs, 1) = a + l
      BY <1>3, <2>1, <2>2 DEF Hi
    <2>4. Hi(rxbufs, 1) <= g
      BY <1>4, <2>2 DEF Tiled
    <2> QED  BY <2>3, <2>4
  <1>6. cred' = cred + l
    <2>1. PICK M \in Nat, c \in Nat : M = CredMod /\ c = cred + l /\ c < M
      <3>1. cred + l < CredMod /\ cred + l \in Nat /\ CredMod \in Nat
        <4>1. PICK c \in Nat, u \in Nat, w \in Nat, C \in Nat :
                 /\ c = cred /\ u = used /\ w = Window /\ C = CredMod
                 /\ g <= w + u /\ w < C
          BY <1>3, TypesAre
        <4>2. c + l < C /\ c + l \in Nat
          BY <1>3, <1>5, <4>1
        <4> QED  BY <4>1, <4>2
      <3> QED  BY <3>1
    <2>2. c % M = c
      BY <2>1
    <2> QED  BY <1>1, <1>3, <2>1, <2>2
  <1>7. cred' \in 0..(CredMod - 1) /\ cred' + used = a + l /\ cred' > 0
    <2>1. PICK c \in Nat, u \in Nat, M \in Nat, w \in Nat :
             /\ c = cred /\ u = used /\ M = CredMod /\ w = Window /\ w < M /\ g <= w + u
      BY <1>3, TypesAre
    <2>2. c + l \in 0..(M - 1) /\ (c + l) + u = a + l /\ c + l > 0
      BY <1>3, <1>5, <2>1
    <2> QED  BY <1>6, <2>1, <2>2
  <1>8. CreditInv'
    <2>1. Tiled({"RX_ACK"}, Tail(rxbufs), 0, a + l, g)
      BY <1>1, <1>4, <1>5, TiledFree, QueueIs
    <2> QED  BY <1>1, <1>3, <1>5, <1>7, <2>1 DEF CreditInv, Free
  <1>9. ~stalls => offs = 0
    BY <1>1, TypesAre DEF IInv, OffsInv
  <1>10. TypeOK' /\ OffsInv' /\ SenderInv'
    BY <1>1, <1>2, <1>7, <1>9 DEF IInv, TypeOK, OffsInv, SenderInv
  <1>11. StreamInv'
    <2> SUFFICES ASSUME ~stalls PROVE Tiled({"TX", "BRK"}, Tail(rxbufs), offs, Len(heard), said)
      BY <1>1 DEF IInv, StreamInv, Free
    <2>1. Tiled({"TX", "BRK"}, rxbufs, offs, Len(heard), said)
      BY DEF IInv, StreamInv
    <2>2. rxbufs[1].pkt \notin {"TX", "BRK"}
      BY <1>1
    <2>3. Tiled({"TX", "BRK"}, Tail(rxbufs), 0, Len(heard), said)
      BY <1>1, <2>1, <2>2, TiledFree, TypesAre, QueueIs
    <2> QED  BY <1>9, <2>3
  <1> QED  BY <1>2, <1>8, <1>10, <1>11 DEF IInv

(* A BREAK is passed on.                                                    *)
LEMMA BrkStep == IInv /\ AdvanceBrk => IInv'
  <1> SUFFICES ASSUME IInv, AdvanceBrk PROVE IInv'
    OBVIOUS
  <1>1. /\ rxbufs # <<>> /\ rxbufs[1].pkt = "BRK" /\ Free
        /\ heard' = heard \o Numbers(rxbufs[1].first, 1)
        /\ UNCHANGED <<type, stalls, advancing, busy, offs, cred, checked, waiting, used, said,
                       granted>>
    BY DEF AdvanceBrk, First, kind, rxvars
  <1>2. rxbufs' \in Seq(Packets) /\ SaidInv'
    BY <1>1, FreeIs
  <1>3. PICK f \in 1..MaxSaid : f = rxbufs[1].first /\ rxbufs[1].len = 1 /\ f <= said
    <2>1. rxbufs[1] \in Packets /\ 1 \in 1..Len(rxbufs)
      BY <1>1, QueueIs
    <2>2. rxbufs[1].first \in 1..MaxSaid /\ rxbufs[1].len = 1
      BY <1>1, <2>1, PacketIs
    <2>3. rxbufs[1].first + 1 - 1 <= said
      BY <1>1, <2>1, <2>2 DEF IInv, SaidInv
    <2> QED  BY <2>2, <2>3
  <1>4. PICK t \in Seq(0..MaxSaid) : t = Numbers(f, 1)
    <2>1. Numbers(f, 1) = [j \in 1..1 |-> f + j - 1]
      BY DEF Numbers
    <2>2. \A j \in 1..1 : f + j - 1 \in 0..MaxSaid
      OBVIOUS
    <2>3. Numbers(f, 1) \in Seq(0..MaxSaid)
      <3>1. PICK S, e : S = 0..MaxSaid /\ e \in S /\ e = f + 1 - 1
        <4>1. f + 1 - 1 \in 0..MaxSaid
          BY <2>2
        <4> QED  BY <4>1
      <3>2. Numbers(f, 1) = [j \in 1..1 |-> e]
        <4>1. \A j \in 1..1 : f + j - 1 = e
          BY <3>1
        <4> QED  BY <2>1, <4>1
      <3>3. [j \in 1..1 |-> e] \in Seq(S)
        BY <3>1
      <3> QED  BY <3>1, <3>2, <3>3
    <2> QED  BY <2>3
  <1>5. heard' = heard \o t /\ heard' \in Seq(0..MaxSaid)
    BY <1>1, <1>3, <1>4, TypesAre, ConcatProperties
  <1>6. ~stalls => offs = 0
    BY <1>1, TypesAre DEF IInv, OffsInv
  <1>7. TypeOK' /\ OffsInv' /\ SenderInv'
    BY <1>1, <1>2, <1>5, <1>6 DEF IInv, TypeOK, OffsInv, SenderInv
  <1>8. CreditInv'
    BY <1>1, CreditsLeft
  <1>9. PICK L \in Nat : L = Len(heard)
    BY TypesAre
  <1>10. ASSUME ~stalls
         PROVE  /\ heard' = Numbers(1, L + 1) /\ Len(heard') = L + 1 /\ L + 1 <= said
                /\ Tiled({"TX", "BRK"}, Tail(rxbufs), 0, L + 1, said)
    <2>1. heard = Numbers(1, L) /\ Tiled({"TX", "BRK"}, rxbufs, 0, L, said)
      BY <1>6, <1>9, <1>10 DEF IInv, StreamInv
    <2>2. rxbufs[1].first + 0 = L + 1
      <3>1. rxbufs[1].pkt \in {"TX", "BRK"} /\ 0 \in Nat /\ said \in Nat
        BY <1>1, TypesAre
      <3>2. rxbufs \in Seq(Packet) /\ rxbufs # <<>>
        BY <1>1, QueueIs
      <3>3. Lo(rxbufs, 0, 1) = L + 1
        BY <1>9, <2>1, <3>1, <3>2, HeadLow
      <3> QED  BY <3>3 DEF Lo
    <2>3. f = L + 1
      BY <1>3, <2>2
    <2>4. heard' = Numbers(1, L + 1) /\ Len(heard') = L + 1
      <3>1. 0 + 1 = 1 /\ L \in Nat /\ 1 \in Nat
        BY <1>9
      <3>2. Counted(heard, 0, L)
        BY <1>9, <2>1, <3>1, TypesAre, StreamIfAssumption DEF Counted
      <3>3. Counted(t, L, 1)
        BY <1>4, <2>3, StreamIfAssumption DEF Counted, Numbers
      <3>4. Counted(heard \o t, 0, L + 1)
        BY <3>1, <3>2, <3>3, NumbersMore
      <3> QED  BY <1>5, <3>1, <3>4 DEF Counted
    <2>5. Hi(rxbufs, 1) = L + 1
      BY <1>3, <2>3 DEF Hi
    <2>6. Tiled({"TX", "BRK"}, Tail(rxbufs), 0, L + 1, said)
      <3>1. rxbufs[1].pkt \in {"TX", "BRK"}
        BY <1>1
      <3> QED  BY <1>1, <2>1, <2>5, <3>1, TiledFree, TypesAre, QueueIs
    <2> QED  BY <1>3, <2>3, <2>4, <2>6
  <1>11. StreamInv'
    BY <1>1, <1>6, <1>10 DEF StreamInv, Free
  <1> QED  BY <1>2, <1>7, <1>8, <1>11 DEF IInv

(* The loop ends, or is entered to go on with what is queued.               *)
LEMMA EndStep == IInv /\ (AdvanceEnd \/ TxReady) => IInv'
  <1> SUFFICES ASSUME IInv, AdvanceEnd \/ TxReady PROVE IInv'
    OBVIOUS
  <1>1. /\ UNCHANGED <<type, stalls, rxbufs, offs, heard, cred, checked, waiting, used, said, granted>>
        /\ advancing' \in BOOLEAN /\ busy' \in BOOLEAN /\ (busy' => busy)
    <2>1. busy \in BOOLEAN
      BY DEF IInv, TypeOK
    <2>2. CASE AdvanceEnd
      BY <2>1, <2>2 DEF AdvanceEnd, kind, txvars, rxvars
    <2>3. CASE TxReady
      BY <2>3 DEF TxReady, kind, rxvars
    <2> QED  BY <2>2, <2>3
  <1>2. TypeOK' /\ OffsInv'
    BY <1>1 DEF IInv, TypeOK, OffsInv
  <1>3. SaidInv' /\ StreamInv' /\ CreditInv' /\ SenderInv'
    BY <1>1 DEF IInv, SaidInv, StreamInv, CreditInv, SenderInv
  <1> QED  BY <1>2, <1>3 DEF IInv

-----------------------------------------------------------------------------
LEMMA MinIs ==
    ASSUME NEW m \in Nat, NEW n \in Nat
    PROVE  Min({m, n}) = IF m <= n THEN m ELSE n
  <1>1. PICK l \in {m, n} : (\A k \in {m, n} : l <= k) /\ l = IF m <= n THEN m ELSE n
    OBVIOUS
  <1>2. Min({m, n}) \in {m, n} /\ \A k \in {m, n} : Min({m, n}) <= k
    BY <1>1 DEF Min
  <1> QED  BY <1>1, <1>2

(* A send spends credits it has.                                            *)
LEMMA SpendStep ==
    ASSUME IInv, NEW n \in Nat, n <= cred, used + n <= MaxUsed,
           cred' = (cred - n) % CredMod, used' = used + n,
           UNCHANGED <<type, stalls, rxbufs, advancing, busy, offs, heard, said, granted>>,
           waiting' \in BOOLEAN, checked' \subseteq {"loop", "app"}
    PROVE  TypeOK' /\ OffsInv' /\ SaidInv' /\ StreamInv' /\ CreditInv'
  <1>1. PICK c \in Nat, u \in Nat, C \in Nat :
           c = cred /\ u = used /\ C = CredMod /\ n <= c /\ c < C
    BY TypesAre
  <1>2. cred' = c - n
    <2>1. PICK d \in Nat : d = c - n /\ d < C
      BY <1>1
    <2>2. d % C = d
      BY <2>1
    <2> QED  BY <1>1, <2>1, <2>2
  <1>3. used' = u + n /\ cred' + used' = c + u
    <2>1. (c - n) + (u + n) = c + u
      OBVIOUS
    <2> QED  BY <1>1, <1>2, <2>1
  <1>4. CreditInv'
    BY <1>1, <1>3 DEF IInv, CreditInv
  <1>5. SaidInv'
    <2>1. granted <= Window + (u + n)
      BY <1>1, TypesAre
    <2> QED  BY <1>3, <2>1 DEF IInv, SaidInv
  <1>6. OffsInv' /\ StreamInv'
    BY DEF IInv, OffsInv, StreamInv
  <1>7. TypeOK'
    <2>1. cred' \in 0..(CredMod - 1) /\ used' \in 0..MaxUsed
      BY <1>1, <1>2, <1>3, StreamIfAssumption
    <2> QED  BY <2>1 DEF IInv, TypeOK
  <1> QED  BY <1>4, <1>5, <1>6, <1>7

(* What does not touch credits or the queue.                                *)
LEMMA TestStep ==
    ASSUME IInv, SenderInv',
           UNCHANGED <<type, stalls, rxbufs, advancing, busy, offs, heard, cred, used, said, granted>>,
           waiting' \in BOOLEAN, checked' \subseteq {"loop", "app"}
    PROVE  IInv'
  <1>1. TypeOK' /\ OffsInv' /\ SaidInv'
    BY DEF IInv, TypeOK, OffsInv, SaidInv
  <1>2. StreamInv' /\ CreditInv'
    BY DEF IInv, StreamInv, CreditInv
  <1> QED  BY <1>1, <1>2 DEF IInv

LEMMA UartStep == ASSUME NEW s PROVE IInv /\ UartRx(s) => IInv'
  <1> SUFFICES ASSUME IInv, UartRx(s) PROVE IInv'
    OBVIOUS
  <1>1. /\ type = "UART"
        /\ UNCHANGED <<type, stalls, rxbufs, advancing, busy, offs, heard, checked, said, granted>>
    BY DEF UartRx, kind, txvars
  <1>2. checked = {} /\ checked' = {} /\ SenderInv'
    <2>1. checked = {}
      BY <1>1 DEF IInv, SenderInv
    <2> QED  BY <1>1, <2>1 DEF SenderInv
  <1>3. CASE cred = 0
    <2>1. UNCHANGED <<cred, used>> /\ waiting' \in BOOLEAN
      BY <1>3 DEF UartRx
    <2> QED  BY <1>1, <1>2, <2>1, TestStep
  <1>4. CASE cred # 0
    <2>1. PICK n \in 1..MaxLen :
             /\ used + Accepted(n) <= MaxUsed /\ used' = used + Accepted(n)
             /\ cred' = (cred - Accepted(n)) % CredMod /\ waiting' = waiting
      BY <1>4 DEF UartRx
    <2>2. PICK m \in Nat : m = Accepted(n) /\ m <= cred
      <3>1. cred \in Nat /\ n \in Nat
        BY TypesAre, StreamIfAssumption
      <3>2. Min({n, cred}) = IF n <= cred THEN n ELSE cred
        BY <3>1, MinIs
      <3> QED  BY <3>1, <3>2 DEF Accepted
    <2>3. waiting' \in BOOLEAN
      BY <2>1 DEF IInv, TypeOK
    <2>4. /\ used + m <= MaxUsed /\ used' = used + m /\ cred' = (cred - m) % CredMod
      BY <2>1, <2>2
    <2>5. TypeOK' /\ OffsInv' /\ SaidInv' /\ StreamInv' /\ CreditInv'
      BY <1>1, <1>2, <2>2, <2>3, <2>4, SpendStep
    <2> QED  BY <1>2, <2>5 DEF IInv
  <1> QED  BY <1>3, <1>4

LEMMA CheckStep == ASSUME NEW s \in {"loop", "app"} PROVE IInv /\ EthRxCheck(s) => IInv'
  <1> SUFFICES ASSUME IInv, EthRxCheck(s) PROVE IInv'
    OBVIOUS
  <1>1. /\ type = "ETH" /\ s \in EthSenders /\ cred \in Nat
        /\ UNCHANGED <<type, stalls, rxbufs, advancing, busy, offs, heard, cred, used, said, granted>>
        /\ waiting' \in BOOLEAN
        /\ checked' = checked \/ (cred # 0 /\ used < MaxUsed /\ checked' = checked \cup {s})
    BY TypesAre DEF EthRxCheck, kind, txvars, IInv, TypeOK
  <1>2. checked' \subseteq {"loop", "app"}
    BY <1>1 DEF IInv, TypeOK
  <1>3. SenderInv'
    <2>1. cred # 0 => cred > 0
      BY <1>1
    <2>2. CASE checked' = checked
      BY <1>1, <2>2 DEF IInv, SenderInv
    <2>3. CASE cred # 0 /\ used < MaxUsed /\ checked' = checked \cup {s}
      BY <1>1, <2>1, <2>3 DEF IInv, SenderInv
    <2> QED  BY <1>1, <2>2, <2>3
  <1> QED  BY <1>1, <1>2, <1>3, TestStep

(* One sender: nobody else has found the credit this one spends.            *)
LEMMA PushStep ==
    ASSUME OneEthSender, NEW s \in {"loop", "app"}
    PROVE  IInv /\ EthRxPush(s) => IInv'
  <1> SUFFICES ASSUME IInv, EthRxPush(s) PROVE IInv'
    OBVIOUS
  <1>1. /\ s \in checked /\ checked' = checked \ {s} /\ waiting' = waiting
        /\ used' = used + 1 /\ cred' = (cred - 1) % CredMod
        /\ UNCHANGED <<type, stalls, rxbufs, advancing, busy, offs, heard, said, granted>>
    BY DEF EthRxPush, kind, txvars
  <1>2. checked' = {}
    BY <1>1 DEF OneEthSender, IInv, SenderInv, TypeOK
  <1>3. 1 <= cred /\ used + 1 <= MaxUsed /\ waiting' \in BOOLEAN
    BY <1>1, TypesAre, StreamIfAssumption DEF IInv, SenderInv, TypeOK
  <1>4. TypeOK' /\ OffsInv' /\ SaidInv' /\ StreamInv' /\ CreditInv'
    BY <1>1, <1>2, <1>3, SpendStep
  <1> QED  BY <1>2, <1>4 DEF IInv, SenderInv

LEMMA Inductive == OneEthSender /\ IInv /\ [Next]_vars => IInv'
  <1> SUFFICES ASSUME OneEthSender, IInv, [Next]_vars PROVE IInv'
    OBVIOUS
  <1>1. CASE VMSay \/ VMGrant
    BY <1>1, SayStep, GrantStep
  <1>2. CASE Advance
    BY <1>2, EndStep, TxStep, StallStep, AckStep, BrkStep DEF Advance
  <1>3. CASE TxReady
    BY <1>3, EndStep
  <1>4. CASE \E s \in {"loop", "app"} : UartRx(s) \/ EthRxCheck(s) \/ EthRxPush(s)
    BY <1>4, UartStep, CheckStep, PushStep
  <1>5. CASE UNCHANGED vars
    BY <1>5 DEF vars, IInv, TypeOK, OffsInv, SaidInv, StreamInv, CreditInv, SenderInv
  <1> QED  BY <1>1, <1>2, <1>3, <1>4, <1>5 DEF Next

LEMMA Invariant == ASSUME OneEthSender PROVE Spec => []IInv
  <1>1. Init => IInv
    BY InitInv
  <1>2. IInv /\ [Next]_vars => IInv'
    BY Inductive
  <1> QED  BY <1>1, <1>2, PTL DEF Spec

-----------------------------------------------------------------------------
(* What the packets of the queue stand for.                                 *)
LEMMA StreamIs == IInv => UnstalledStreamKept
  <1> SUFFICES ASSUME IInv, ~stalls PROVE StreamKept
    BY DEF UnstalledStreamKept
  <1>1. rxbufs \in Seq(Packet) /\ offs \in Nat /\ Len(heard) \in Nat /\ said \in Nat
    BY QueueIs, TypesAre
  <1>2. /\ heard = Numbers(1, Len(heard)) /\ Len(heard) <= said
        /\ Tiled({"TX", "BRK"}, rxbufs, offs, Len(heard), said)
    BY DEF IInv, StreamInv
  <1>3. UNION {Holds({"TX", "BRK"}, rxbufs, offs, i) : i \in 1..Len(rxbufs)} = (Len(heard) + 1)..said
    BY <1>1, <1>2, TiledUnion
  <1>4. ASSUME NEW i \in 1..Len(rxbufs) PROVE HeldOf(i) = Holds({"TX", "BRK"}, rxbufs, offs, i)
    <2>1. rxbufs[i] \in Packets
      BY DEF IInv, TypeOK
    <2>2. rxbufs[i].pkt = "RX_ACK" <=> ~(rxbufs[i].pkt \in {"TX", "BRK"})
      BY <2>1, PacketIs
    <2> QED  BY <2>2 DEF HeldOf, Holds, Lo, Hi
  <1>5. UNION {HeldOf(i) : i \in 1..Len(rxbufs)} = (Len(heard) + 1)..said
    BY <1>3, <1>4
  <1> QED  BY <1>2, <1>5 DEF StreamKept

LEMMA CreditsAre == IInv => CreditsKept
  <1> SUFFICES ASSUME IInv PROVE CreditsKept
    OBVIOUS
  <1>1. PICK a \in Nat : a = cred + used
    BY TypesAre
  <1>2. rxbufs \in Seq(Packet) /\ granted \in Nat
    BY QueueIs, TypesAre
  <1>3. a <= granted /\ Tiled({"RX_ACK"}, rxbufs, 0, a, granted)
    BY <1>1 DEF IInv, CreditInv
  <1>4. UNION {Holds({"RX_ACK"}, rxbufs, 0, i) : i \in 1..Len(rxbufs)} = (a + 1)..granted
    BY <1>2, <1>3, TiledUnion
  <1>5. ASSUME NEW i \in 1..Len(rxbufs) PROVE ReturnedBy(i) = Holds({"RX_ACK"}, rxbufs, 0, i)
    <2>1. Lo(rxbufs, 0, i) = rxbufs[i].first
      BY <1>2, PacketsAre DEF Lo
    <2> QED  BY <2>1 DEF ReturnedBy, Holds, Hi
  <1>6. UNION {ReturnedBy(i) : i \in 1..Len(rxbufs)} = (a + 1)..granted
    BY <1>4, <1>5
  <1> QED  BY <1>1, <1>3, <1>6 DEF CreditsKept

(* Every variable keeps its type, and an application that does not stall    *)
(* has something left to take of the packet it took in part.                *)
THEOREM TypeCorrect == ASSUME OneEthSender PROVE Spec => []TypeOK
  <1>1. IInv => TypeOK
    BY DEF IInv
  <1> QED  BY <1>1, Invariant, PTL

(* coremodel_advance_if with coremodel_advance_if_uart and                  *)
(* coremodel_advance_if_eth: an application that takes packets whole or in  *)
(* parts, but never stalls, is given every byte and BREAK once and in order. *)
THEOREM StreamRight == ASSUME OneEthSender PROVE Spec => []UnstalledStreamKept
  <1> QED  BY StreamIs, Invariant, PTL

(* coremodel_uart_rx, coremodel_eth_rx and coremodel_advance_if: every      *)
(* credit the VM granted is used, left or on its way back, and the VM is    *)
(* never sent more than it has room for.                                    *)
THEOREM CreditsRight == ASSUME OneEthSender PROVE Spec => []CreditsKept
  <1> QED  BY CreditsAre, Invariant, PTL
=============================================================================
