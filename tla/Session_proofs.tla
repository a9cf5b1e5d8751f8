--------------------------- MODULE Session_proofs ---------------------------
(***************************************************************************)
(* The session, for any number of interfaces, connections, packets,        *)
(* devices and failing allocations: the types; that packets reach the      *)
(* interface they were sent to, in order and not too early, though the VM  *)
(* uses connection indices again; and that a list is complete.             *)
(***************************************************************************)
EXTENDS Session, SequenceTheorems, WellFoundedInduction, TLAPS

(* Taking an element out of a sequence moves those behind it one place.     *)
LEMMA RemoveAtIs ==
    ASSUME NEW S, NEW s \in Seq(S), NEW k \in 1..Len(s)
    PROVE  /\ RemoveAt(s, k) \in Seq(S)
           /\ Len(RemoveAt(s, k)) = Len(s) - 1
           /\ \A i \in 1..(Len(s) - 1) :
                RemoveAt(s, k)[i] = IF i < k THEN s[i] ELSE s[i + 1]
  <1> DEFINE a == SubSeq(s, 1, k - 1)
             b == SubSeq(s, k + 1, Len(s))
  <1>1. a \in Seq(S) /\ Len(a) = k - 1 /\ \A i \in 1..(k - 1) : a[i] = s[i]
    OBVIOUS
  <1>2. b \in Seq(S) /\ Len(b) = Len(s) - k /\ \A i \in 1..(Len(s) - k) : b[i] = s[k + i]
    OBVIOUS
  <1>3. RemoveAt(s, k) = a \o b
    BY DEF RemoveAt
  <1> HIDE DEF a, b
  <1>4. a \o b \in Seq(S) /\ Len(a \o b) = Len(a) + Len(b)
    BY <1>1, <1>2, ConcatProperties
  <1>5. ASSUME NEW i \in 1..(Len(s) - 1)
        PROVE  (a \o b)[i] = IF i < k THEN s[i] ELSE s[i + 1]
    <2>1. (a \o b)[i] = IF i <= Len(a) THEN a[i] ELSE b[i - Len(a)]
      BY <1>1, <1>2, ConcatProperties
    <2>2. CASE i < k
      BY <2>1, <2>2, <1>1
    <2>3. CASE ~(i < k)
      <3>1. i - (k - 1) \in 1..(Len(s) - k) /\ k + (i - (k - 1)) = i + 1
        BY <2>3
      <3>2. b[i - (k - 1)] = s[k + (i - (k - 1))]
        BY <3>1, <1>2
      <3>3. (a \o b)[i] = b[i - (k - 1)]
        BY <2>1, <2>3, <1>1
      <3> QED  BY <2>3, <3>1, <3>2, <3>3
    <2> QED  BY <2>2, <2>3
  <1> QED  BY <1>1, <1>2, <1>3, <1>4, <1>5

(* An element is put at the end of a queue.                                 *)
LEMMA AppendIs ==
    ASSUME NEW S, NEW s \in Seq(S), NEW e \in S
    PROVE  /\ Append(s, e) \in Seq(S) /\ Len(Append(s, e)) = Len(s) + 1 /\ Len(s) \in Nat
           /\ \A j \in 1..Len(s) : Append(s, e)[j] = s[j]
           /\ Append(s, e)[Len(s) + 1] = e
  BY AppendProperties, LenProperties

(* The first is taken from a queue, or one is put at its end.               *)
LEMMA TailIs ==
    ASSUME NEW S, NEW s \in Seq(S), s # <<>>
    PROVE  /\ Tail(s) \in Seq(S) /\ Len(Tail(s)) = Len(s) - 1 /\ Len(s) \in Nat \ {0}
           /\ \A j \in 1..(Len(s) - 1) : Tail(s)[j] = s[j + 1] /\ j + 1 \in 1..Len(s)
  BY HeadTailProperties, EmptySeq

(* Of some places in a sequence one is the first.                           *)
LEMMA LeastOf ==
    ASSUME NEW T, T \subseteq Nat, T # {}
    PROVE  \E j \in T : \A k \in T : j <= k
  <1> DEFINE R == {p \in Nat \X Nat : p[1] < p[2]}
  <1>1. IsWellFoundedOn(R, Nat)
    BY NatLessThanWellFounded DEF OpToRel
  <1>2. \A j, k \in Nat : <<k, j>> \in R <=> k < j
    OBVIOUS
  <1> HIDE DEF R
  <1>3. PICK j \in T : \A k \in T : ~(<<k, j>> \in R)
    BY <1>1, WFMin
  <1>4. ASSUME NEW k \in T PROVE j <= k
    <2>1. j \in Nat /\ k \in Nat
      OBVIOUS
    <2>2. ~(k < j)
      BY <1>2, <1>3, <2>1
    <2> QED  BY <2>1, <2>2
  <1> QED  BY <1>4
-----------------------------------------------------------------------------
(* Of a query there is one request or one answer under way, and only while  *)
(* it waits; and the interface being attached is that of the attach query.  *)
QueryInv ==
    /\ query => call # "none"
    /\ call = "attach" <=> connIf # NoHandle
    /\ call # "none" /\ ~query => phase = "process"
    /\ \A j \in 1..Len(tx) : tx[j].op # "disc" =>
         /\ query
         /\ tx[j].op = "conn" => call = "attach" /\ tx[j].h = connIf
         /\ tx[j].op = "list" => call = "list"
    /\ \A j \in 1..Len(rx) : rx[j].kind # "data" =>
         /\ query
         /\ rx[j].kind = "conn" => call = "attach"
         /\ rx[j].kind = "list" => call = "list"
    /\ \A j, k \in 1..Len(tx) : tx[j].op # "disc" /\ tx[k].op # "disc" => j = k
    /\ \A j, k \in 1..Len(rx) : rx[j].kind # "data" /\ rx[k].kind # "data" => j = k
    /\ \A j \in 1..Len(tx), k \in 1..Len(rx) : ~(tx[j].op # "disc" /\ rx[k].kind # "data")

(* The life of a handle.                                                    *)
StateInv ==
    \A h \in Handles :
      /\ itf[h].state = "unused" <=> h > calls
      /\ itf[h].state = "pending" <=> h = connIf
      /\ itf[h].state = "unused" => vmsent[h] = 0
      /\ itf[h].state = "pending" /\ query => itf[h].conn = NoConn
      /\ itf[h].state = "attached" => itf[h].conn # NoConn

(* What the VM has behind an index: an interface that was asked for, one    *)
(* given up while the request that says so is under way, the one being      *)
(* attached while the answer is.                                            *)
VmInv ==
    /\ \A i \in Conns : vmconn[i] # NoHandle => itf[vmconn[i]].state # "unused"
    /\ \A j \in 1..Len(tx) : tx[j].op = "disc" =>
         /\ vmconn[tx[j].conn] # NoHandle
         /\ itf[vmconn[tx[j].conn]].state = "freed"
         /\ \A k \in 1..Len(tx) : tx[k].op = "disc" /\ tx[k].conn = tx[j].conn => k = j
    /\ \A j \in 1..Len(rx) :
         rx[j].kind = "conn" /\ rx[j].conn # NoConn => vmconn[rx[j].conn] = connIf

(* A packet under way has the index of its interface, or is behind the      *)
(* answer that will give the interface that index; and no packet of an      *)
(* earlier owner comes behind that answer.                                  *)
DataInv ==
    \A j \in 1..Len(rx) : rx[j].kind = "data" =>
      /\ itf[rx[j].h].state # "unused"
      /\ itf[rx[j].h].state # "freed" =>
           \/ Linked(rx[j].h) /\ itf[rx[j].h].conn = rx[j].conn
           \/ \E k \in 1..(j - 1) : rx[k].kind = "conn" /\ rx[k].conn = rx[j].conn
      /\ \A g \in Handles : Linked(g) /\ itf[g].conn = rx[j].conn => rx[j].h = g
      /\ \A k \in 1..(j - 1) : rx[k].kind = "conn" /\ rx[k].conn = rx[j].conn => rx[j].h = connIf

(* The list so far is the first devices of the VM; the page under way goes  *)
(* on where they end, or is that page met again.                            *)
Prefix(n) == SubSeq(Devices, 1, n)
ListInv ==
    /\ devices # Null => \E n \in 1..NumDevices : devices = Prefix(n)
    /\ call # "list" => devices = Null
    /\ call = "list" /\ ~query => devices \in {Null, Devices}
    /\ \A j \in 1..Len(tx) : tx[j].op = "list" => Listed = Prefix(tx[j].from)
    /\ \A j \in 1..Len(rx) : rx[j].kind = "list" =>
         /\ rx[j].from <= Len(Listed)
         /\ \E n \in rx[j].from..NumDevices :
              /\ n > rx[j].from \/ n = NumDevices
              /\ rx[j].items = SubSeq(Devices, rx[j].from + 1, n)

IInv == TypeOK /\ QueryInv /\ StateInv /\ VmInv /\ DataInv /\ ListInv /\ Routed /\ ListRight
-----------------------------------------------------------------------------
Packets == DataPkts \cup Answers

(* The numbers.                                                             *)
LEMMA Numbers ==
    /\ Handles \subseteq Nat \ {0} /\ NoHandle \notin Handles
    /\ NumDevices \in Nat /\ MaxSend \in Nat /\ MaxAttach \in Nat
    /\ Devices \in Seq(Nat) /\ Len(Devices) = NumDevices
    /\ \A i \in 1..NumDevices : Devices[i] = i
  BY SessionAssumption DEF Handles, NoHandle, Devices

(* What a packet and a request carry.                                       *)
LEMMA RxKinds ==
    ASSUME TypeOK, NEW j \in 1..Len(rx)
    PROVE  /\ rx[j] \in Packets
           /\ rx[j].kind \in {"data", "conn", "list"}
           /\ rx[j].kind = "data" =>
                rx[j].conn \in Conns /\ rx[j].h \in Handles /\ rx[j].n \in 1..MaxSend
           /\ rx[j].kind = "conn" => rx[j].conn \in Conns \cup {NoConn}
           /\ rx[j].kind = "list" => rx[j].from \in 0..NumDevices /\ rx[j].items \in Lists
  <1>1. rx[j] \in Packets
    BY ElementOfSeq DEF TypeOK, Packets
  <1> QED  BY <1>1, Numbers DEF Packets, DataPkts, Answers

(* What a request of the library carries.                                   *)
LEMMA TxKinds ==
    ASSUME TypeOK, NEW j \in 1..Len(tx)
    PROVE  /\ tx[j].op \in {"conn", "disc", "list"}
           /\ tx[j].op = "conn" => tx[j].h \in Handles
           /\ tx[j].op = "disc" => tx[j].conn \in Conns /\ tx[j] = DiscReq(tx[j].conn)
           /\ tx[j].op = "list" => tx[j].from \in 0..NumDevices
  <1>1. tx[j] \in Requests
    BY ElementOfSeq DEF TypeOK
  <1> QED  BY <1>1, Numbers DEF Requests, DiscReq

(* The receiver of an index is the interface of the list that has it.       *)
LEMMA ReceiverIs ==
    ASSUME TypeOK, IfsRight, NEW i
    PROVE  /\ Receiver(i) # NoHandle =>
                Receiver(i) \in Handles /\ Linked(Receiver(i)) /\ itf[Receiver(i)].conn = i
           /\ Receiver(i) = NoHandle => \A h \in Handles : Linked(h) => itf[h].conn # i
  <1>1. \A j \in 1..Len(ifs) : ifs[j] \in Handles /\ Linked(ifs[j])
    BY DEF TypeOK, IfsRight, InIfs
  <1>2. CASE \E j \in 1..Len(ifs) : itf[ifs[j]].conn = i
    <2> DEFINE P(j) == /\ itf[ifs[j]].conn = i
                       /\ \A k \in 1..(j - 1) : itf[ifs[k]].conn # i
    <2>1. \E j \in 1..Len(ifs) : P(j)
      <3> DEFINE T == {j \in 1..Len(ifs) : itf[ifs[j]].conn = i}
      <3>1. Len(ifs) \in Nat /\ T \subseteq Nat /\ T # {}
        BY <1>2, LenProperties DEF TypeOK
      <3>2. PICK j \in T : \A k \in T : j <= k
        <4> HIDE DEF T
        <4> QED  BY <3>1, LeastOf
      <3>3. \A k \in 1..(j - 1) : k \notin T /\ k \in 1..Len(ifs)
        BY <3>1, <3>2
      <3> QED  BY <3>2, <3>3
    <2>2. PICK j \in 1..Len(ifs) : P(j) /\ Receiver(i) = ifs[j]
      BY <1>2, <2>1 DEF Receiver
    <2> QED  BY <1>1, <2>2, Numbers
  <1>3. CASE ~(\E j \in 1..Len(ifs) : itf[ifs[j]].conn = i)
    BY <1>3, <1>1 DEF Receiver, IfsRight, InIfs
  <1> QED  BY <1>2, <1>3
-----------------------------------------------------------------------------
(* The first k elements of q go to the end of g, and the rest stays.        *)
MovesOn(S, g, q, k) ==
    /\ g \o SubSeq(q, 1, k) \in Seq(S)
    /\ SubSeq(q, k + 1, Len(q)) \in Seq(S)
    /\ (g \o SubSeq(q, 1, k)) \o SubSeq(q, k + 1, Len(q)) = g \o q

(* It loses nothing.                                                        *)
LEMMA MoveIs ==
    ASSUME NEW S, NEW g \in Seq(S), NEW q \in Seq(S), NEW k \in 0..Len(q)
    PROVE  MovesOn(S, g, q, k)
  <1>1. PICK a, b : a = SubSeq(q, 1, k) /\ b = SubSeq(q, k + 1, Len(q))
    OBVIOUS
  <1>2. a \in Seq(S) /\ b \in Seq(S)
    BY <1>1
  <1>3. a \o b = q
    <2>1. /\ 1 \in 1..(Len(q) + 1) /\ k \in (1 - 1)..Len(q) /\ Len(q) \in k..Len(q)
      BY LenProperties
    <2> QED  BY <1>1, <2>1, ConcatAdjacentSubSeq, SubSeqFull
  <1>4. (g \o a) \o b = g \o (a \o b)
    BY <1>2, ConcatAssociative
  <1>5. g \o a \in Seq(S)
    BY <1>2, ConcatProperties
  <1> QED  BY <1>1, <1>2, <1>3, <1>4, <1>5 DEF MovesOn

(* Accepting packets moves them, and leaves the rest of an interface.       *)
LEMMA AdvanceIs ==
    ASSUME NEW r \in Interfaces, NEW k \in 0..Len(r.rxbufs)
    PROVE  /\ Advance(r, k) \in Interfaces
           /\ Advance(r, k).state = r.state /\ Advance(r, k).conn = r.conn
           /\ Advance(r, k).got \o Advance(r, k).rxbufs = r.got \o r.rxbufs
           /\ r.defer => Advance(r, k).got = r.got
  <1>1. /\ r.got \in Seq(DataPkts) /\ r.rxbufs \in Seq(DataPkts)
        /\ r.defer \in BOOLEAN /\ r.busy \in BOOLEAN
    BY DEF Interfaces
  <1>2. CASE r.defer \/ r.busy
    BY <1>2 DEF Advance
  <1>3. CASE ~(r.defer \/ r.busy)
    <2>1. PICK g, b, c : /\ g = r.got \o SubSeq(r.rxbufs, 1, k)
                         /\ b = SubSeq(r.rxbufs, k + 1, Len(r.rxbufs))
                         /\ c = (k < Len(r.rxbufs))
      OBVIOUS
    <2>2. g \in Seq(DataPkts) /\ b \in Seq(DataPkts) /\ g \o b = r.got \o r.rxbufs
      <3>1. PICK q, h : q = r.rxbufs /\ h = r.got
        OBVIOUS
      <3>2. /\ q \in Seq(DataPkts) /\ h \in Seq(DataPkts) /\ k \in 0..Len(q)
            /\ g = h \o SubSeq(q, 1, k) /\ b = SubSeq(q, k + 1, Len(q))
        BY <1>1, <2>1, <3>1, Zenon
      <3>3. MovesOn(DataPkts, h, q, k)
        BY <3>2, MoveIs
      <3> QED  BY <3>1, <3>2, <3>3, Zenon DEF MovesOn
    <2>3. c \in BOOLEAN
      BY <2>1
    <2>4. Advance(r, k) = [r EXCEPT !.got = g, !.rxbufs = b, !.busy = c]
      BY <1>3, <2>1 DEF Advance, Interfaces
    <2>5. Advance(r, k) \in Interfaces
      BY <2>2, <2>3, <2>4 DEF Interfaces
    <2>6. /\ Advance(r, k).got = g /\ Advance(r, k).rxbufs = b
          /\ Advance(r, k).state = r.state /\ Advance(r, k).conn = r.conn
      BY <2>4 DEF Interfaces
    <2> QED  BY <1>3, <2>2, <2>5, <2>6
  <1> QED  BY <1>2, <1>3

(* An interface is still connected as it was, and knows the same packets;   *)
(* its callbacks have not run while it was being attached.                  *)
Same(h) ==
    /\ itf'[h].state = itf[h].state /\ itf'[h].conn = itf[h].conn
    /\ Known(h)' = Known(h)
    /\ itf[h].state = "pending" => itf'[h].got = itf[h].got

(* An interface that a step leaves alone is the same after it.              *)
LEMMA SameRefl ==
    ASSUME NEW h, itf'[h] = itf[h]
    PROVE  Same(h)
  BY DEF Same, Known

(* A ready call moves packets of its interface, and nothing else.           *)
LEMMA ReadyIs ==
    ASSUME IInv, NEW h \in Handles, Ready(h)
    PROVE  itf' \in [Handles -> Interfaces] /\ \A g \in Handles : Same(g)
  <1>1. itf \in [Handles -> Interfaces] /\ itf[h] \in Interfaces /\ itf[h].state = "attached"
    BY DEF IInv, TypeOK, Ready
  <1>2. PICK k \in 0..Len(itf[h].rxbufs) :
          itf' = [itf EXCEPT ![h] = Advance([@ EXCEPT !.busy = FALSE], k)]
    BY DEF Ready
  <1>3. PICK r : r = [itf[h] EXCEPT !.busy = FALSE]
    OBVIOUS
  <1>4. /\ r \in Interfaces /\ r.rxbufs = itf[h].rxbufs /\ r.got = itf[h].got
        /\ r.state = itf[h].state /\ r.conn = itf[h].conn
    BY <1>1, <1>3 DEF Interfaces
  <1>5. PICK a : a = Advance(r, k)
    OBVIOUS
  <1>6. /\ a \in Interfaces /\ a.state = r.state /\ a.conn = r.conn
        /\ a.got \o a.rxbufs = r.got \o r.rxbufs
    BY <1>4, <1>5, AdvanceIs
  <1>7. itf' = [itf EXCEPT ![h] = a]
    BY <1>1, <1>2, <1>3, <1>5
  <1>8. Same(h)
    <2>1. itf'[h] = a
      BY <1>1, <1>7
    <2> QED  BY <1>1, <1>4, <1>6, <2>1 DEF Same, Known
  <1>9. \A g \in Handles : g # h => itf'[g] = itf[g]
    BY <1>1, <1>7
  <1> QED  BY <1>1, <1>6, <1>7, <1>8, <1>9, SameRefl

(* The interface being attached has no connection between two rounds.       *)
LEMMA PendingOutside ==
    ASSUME IInv, phase # "process", NEW h \in Handles, itf[h].state = "pending"
    PROVE  ~Linked(h) /\ ~InIfs(h)
  <1>1. h = connIf
    BY DEF IInv, StateInv
  <1>2. query
    BY <1>1, Numbers DEF IInv, QueryInv
  <1>3. ~Linked(h)
    BY <1>2 DEF IInv, StateInv, Linked
  <1> QED  BY <1>3 DEF IInv, Routed, IfsRight

(* The deferred flush moves packets of the interfaces that were deferred;   *)
(* none of them is being attached.                                          *)
LEMMA PrepareIs ==
    ASSUME IInv, Prepare
    PROVE  itf' \in [Handles -> Interfaces] /\ \A g \in Handles : Same(g)
  <1>1. itf \in [Handles -> Interfaces] /\ phase = "idle"
    BY DEF IInv, TypeOK, Prepare
  <1>2. CASE itf' = itf
    BY <1>1, <1>2, SameRefl
  <1>3. CASE itf' # itf
    <2>1. PICK k \in [Handles -> 0..MaxSend] :
            /\ \A h \in Handles : k[h] <= Len(itf[h].rxbufs)
            /\ Flush(k)
      BY <1>3 DEF Prepare
    <2> DEFINE F(h) == IF InIfs(h) /\ itf[h].defer
                         THEN Advance([itf[h] EXCEPT !.defer = FALSE], k[h])
                         ELSE itf[h]
    <2>2. itf' = [h \in Handles |-> F(h)]
      BY <2>1 DEF Flush
    <2>3. ASSUME NEW h \in Handles
          PROVE  F(h) \in Interfaces /\ (itf'[h] = F(h) => Same(h))
      <3>0. itf[h] \in Interfaces
        BY <1>1
      <3>1. CASE ~(InIfs(h) /\ itf[h].defer)
        BY <3>0, <3>1, SameRefl
      <3>2. CASE InIfs(h) /\ itf[h].defer
        <4>1. PICK r : r = [itf[h] EXCEPT !.defer = FALSE]
          OBVIOUS
        <4>2. /\ r \in Interfaces /\ r.rxbufs = itf[h].rxbufs /\ r.got = itf[h].got
              /\ r.state = itf[h].state /\ r.conn = itf[h].conn
          BY <3>0, <4>1 DEF Interfaces
        <4>3. k[h] \in 0..Len(r.rxbufs)
          BY <2>1, <4>2, Numbers
        <4>4. PICK a : a = Advance(r, k[h])
          OBVIOUS
        <4>5. /\ a \in Interfaces /\ a.state = r.state /\ a.conn = r.conn
              /\ a.got \o a.rxbufs = r.got \o r.rxbufs
          BY <4>2, <4>3, <4>4, AdvanceIs
        <4>6. F(h) = a
          BY <3>2, <4>1, <4>4
        <4>7. itf[h].state # "pending"
          BY <1>1, <3>2, PendingOutside
        <4> HIDE DEF F
        <4> QED  BY <4>2, <4>5, <4>6, <4>7 DEF Same, Known
      <3> QED  BY <3>1, <3>2
    <2> HIDE DEF F
    <2>4. \A h \in Handles : itf'[h] = F(h)
      BY <2>2
    <2>5. itf' \in [Handles -> Interfaces]
      BY <2>2, <2>3
    <2> QED  BY <2>3, <2>4, <2>5
  <1> QED  BY <1>2, <1>3

(* A packet of the batch is taken from what has arrived.                    *)
LEMMA ConsumeIs ==
    ASSUME TypeOK, NEW kind, First(kind)
    PROVE  /\ Len(rx) \in Nat \ {0} /\ 1 \in 1..Len(rx) /\ rx[1].kind = kind
           /\ phase = "process" /\ batch \in 1..Len(rx)
           /\ Tail(rx) \in Seq(Packets) /\ Len(Tail(rx)) = Len(rx) - 1
           /\ \A j \in 1..(Len(rx) - 1) : Tail(rx)[j] = rx[j + 1] /\ j + 1 \in 1..Len(rx)
  <1>1. rx \in Seq(Packets) /\ Len(rx) \in Nat /\ batch \in 0..Len(rx)
    BY LenProperties DEF TypeOK, Packets
  <1>2. batch > 0 /\ phase = "process" /\ rx[1].kind = kind
    BY DEF First
  <1>3. rx # <<>> /\ Len(rx) > 0 /\ batch \in 1..Len(rx)
    BY <1>1, <1>2
  <1> QED  BY <1>1, <1>2, <1>3, TailIs

(* The receiver of a packet, if there is one, has it behind the others.     *)
LEMMA DataIs ==
    ASSUME IInv, ProcessData, NEW g, g = Receiver(rx[1].conn)
    PROVE  /\ itf' \in [Handles -> Interfaces] /\ deferPkt' \in BOOLEAN
           /\ rx[1] \in DataPkts
           /\ g = NoHandle => itf' = itf
           /\ g # NoHandle =>
                /\ g \in Handles /\ Linked(g) /\ itf[g].conn = rx[1].conn
                /\ \A h \in Handles : h # g => itf'[h] = itf[h]
                /\ itf'[g].state = itf[g].state /\ itf'[g].conn = itf[g].conn
                /\ Known(g)' = Append(Known(g), rx[1])
                /\ itf[g].state = "pending" => itf'[g].got = itf[g].got
  <1>0. itf \in [Handles -> Interfaces] /\ deferPkt \in BOOLEAN /\ TypeOK /\ IfsRight
    BY DEF IInv, TypeOK, Routed
  <1>1. rx[1] \in DataPkts
    <2>1. 1 \in 1..Len(rx) /\ rx[1].kind = "data"
      BY <1>0, ConsumeIs DEF ProcessData
    <2>2. rx[1] \in DataPkts \cup Answers
      BY <1>0, <2>1, RxKinds DEF Packets
    <2> QED  BY <2>1, <2>2 DEF Answers
  <1>2. CASE g = NoHandle
    BY <1>0, <1>1, <1>2 DEF ProcessData
  <1>3. CASE g # NoHandle
    <2>1. g \in Handles /\ Linked(g) /\ itf[g].conn = rx[1].conn
      BY <1>0, <1>3, ReceiverIs
    <2>2. PICK k \in 0..(Len(itf[g].rxbufs) + 1) : Deliver(g, rx[1], k)
      BY <1>3 DEF ProcessData
    <2>3. PICK q, d : q = Append(itf[g].rxbufs, rx[1]) /\ d = (connIf = g)
      OBVIOUS
    <2>4. PICK r : r = [itf[g] EXCEPT !.rxbufs = q, !.defer = d]
      OBVIOUS
    <2>5. itf[g] \in Interfaces /\ itf[g].got \in Seq(DataPkts) /\ itf[g].rxbufs \in Seq(DataPkts)
      BY <1>0, <2>1 DEF Interfaces
    <2>6. q \in Seq(DataPkts) /\ Len(q) = Len(itf[g].rxbufs) + 1 /\ d \in BOOLEAN
      BY <1>1, <2>3, <2>5, AppendProperties
    <2>7. /\ r \in Interfaces /\ r.rxbufs = q /\ r.defer = d /\ r.got = itf[g].got
          /\ r.state = itf[g].state /\ r.conn = itf[g].conn
      BY <2>4, <2>5, <2>6 DEF Interfaces
    <2>8. PICK a : a = Advance(r, k)
      OBVIOUS
    <2>9. /\ a \in Interfaces /\ a.state = r.state /\ a.conn = r.conn
          /\ a.got \o a.rxbufs = r.got \o r.rxbufs
          /\ r.defer => a.got = r.got
      <3>1. k \in 0..Len(r.rxbufs)
        BY <2>6, <2>7
      <3> QED  BY <2>7, <2>8, <3>1, AdvanceIs
    <2>10. itf' = [itf EXCEPT ![g] = a] /\ deferPkt' \in BOOLEAN
      <3>1. Queued(g, rx[1], connIf = g) = r
        BY <2>3, <2>4 DEF Queued
      <3> QED  BY <1>0, <2>2, <2>8, <3>1 DEF Deliver
    <2>11. itf' \in [Handles -> Interfaces] /\ itf'[g] = a /\ \A h \in Handles : h # g => itf'[h] = itf[h]
      BY <1>0, <2>1, <2>9, <2>10
    <2>12. itf[g].got \o q = Append(itf[g].got \o itf[g].rxbufs, rx[1])
      <3>1. PICK u, v, p : u = itf[g].got /\ v = itf[g].rxbufs /\ p = rx[1]
        OBVIOUS
      <3>2. u \in Seq(DataPkts) /\ v \in Seq(DataPkts) /\ p \in DataPkts /\ <<p>> \in Seq(DataPkts)
        BY <1>1, <2>5, <3>1
      <3>3. Append(v, p) = v \o <<p>> /\ u \o v \in Seq(DataPkts)
        BY <3>2, AppendIsConcat, ConcatProperties
      <3>4. Append(u \o v, p) = (u \o v) \o <<p>>
        BY <3>2, <3>3, AppendIsConcat
      <3>5. (u \o v) \o <<p>> = u \o (v \o <<p>>)
        BY <3>2, ConcatAssociative
      <3> QED  BY <2>3, <3>1, <3>3, <3>4, <3>5
    <2>13. Known(g)' = Append(Known(g), rx[1])
      BY <2>7, <2>9, <2>11, <2>12 DEF Known
    <2>14. itf[g].state = "pending" => itf'[g].got = itf[g].got
      <3>1. itf[g].state = "pending" => d
        BY <2>1, <2>3 DEF IInv, StateInv
      <3> QED  BY <2>7, <2>9, <2>11, <3>1
    <2>15. itf'[g].state = itf[g].state /\ itf'[g].conn = itf[g].conn
      BY <2>7, <2>9, <2>11
    <2> QED  BY <1>1, <1>3, <2>1, <2>10, <2>11, <2>13, <2>14, <2>15
  <1> QED  BY <1>2, <1>3
-----------------------------------------------------------------------------
(* The first devices.                                                       *)
LEMMA PrefixIs ==
    ASSUME NEW n \in 0..NumDevices
    PROVE  /\ Prefix(n) \in Seq(Nat) /\ Len(Prefix(n)) = n
           /\ Prefix(n) \in Lists /\ Prefix(n) # Null
           /\ n = 0 => Prefix(n) = <<>>
           /\ n = NumDevices => Prefix(n) = Devices
  <1>0. /\ Devices \in Seq(Nat) /\ Len(Devices) = NumDevices /\ NumDevices \in Nat
        /\ \A i \in 1..NumDevices : Devices[i] = i
    BY Numbers
  <1>1. \A i \in 1..n : Devices[i] \in Nat /\ Devices[i] = i
    BY <1>0
  <1>2. /\ Prefix(n) \in Seq(Nat) /\ Len(Prefix(n)) = n
        /\ \A i \in 1..n : Prefix(n)[i] = i
    BY <1>1, SubSeqProperties DEF Prefix
  <1>3. Prefix(n) \in Lists
    <2>1. 0 \in 0..Len(Devices) /\ n \in 0..Len(Devices) /\ Prefix(n) = SubSeq(Devices, 0 + 1, n)
      BY <1>0 DEF Prefix
    <2> QED  BY <2>1 DEF Lists
  <1>4. Prefix(n) # Null
    <2>1. Len(Null) = 1 /\ Null[1] = 0
      BY DEF Null
    <2>2. Len(Prefix(n)) = 1 => Prefix(n)[1] = 1
      BY <1>2
    <2> QED  BY <2>1, <2>2
  <1>5. n = 0 => Prefix(n) = <<>>
    BY <1>2, EmptySeq
  <1>6. n = NumDevices => Prefix(n) = Devices
    BY <1>0, SubSeqFull DEF Prefix
  <1> QED  BY <1>2, <1>3, <1>4, <1>5, <1>6

(* What has been listed so far.                                             *)
LEMMA ListedIs ==
    ASSUME ListInv
    PROVE  /\ \E m \in 0..NumDevices : Listed = Prefix(m) /\ Len(Listed) = m
           /\ devices \in Lists \cup {Null}
  <1>0. NumDevices \in Nat
    BY Numbers
  <1>1. CASE devices = Null
    <2>1. 0 \in 0..NumDevices
      BY <1>0
    <2>2. Prefix(0) = <<>> /\ Len(Prefix(0)) = 0
      BY <2>1, PrefixIs
    <2> QED  BY <1>1, <2>1, <2>2 DEF Listed
  <1>2. CASE devices # Null
    <2>1. PICK n \in 1..NumDevices : devices = Prefix(n)
      BY <1>2 DEF ListInv
    <2>2. n \in 0..NumDevices
      BY <1>0
    <2>3. Len(Prefix(n)) = n /\ Prefix(n) \in Lists
      BY <2>2, PrefixIs
    <2> QED  BY <1>2, <2>1, <2>2, <2>3 DEF Listed
  <1> QED  BY <1>1, <1>2

(* A page goes on where the list ends, or ends it.                          *)
LEMMA PageIs ==
    ASSUME TypeOK, ListInv, NEW j \in 1..Len(rx), rx[j].kind = "list"
    PROVE  /\ rx[j].items = <<>> => Listed = Devices
           /\ rx[j].items # <<>> =>
                \E n \in 1..NumDevices : /\ Merged(rx[j]) = Prefix(n) /\ Len(Merged(rx[j])) = n
                                         /\ Merged(rx[j]) # Null
                                         /\ rx[j].from <= n
  <1>0. /\ NumDevices \in Nat /\ rx[j].from \in 0..NumDevices
        /\ Devices \in Seq(Nat) /\ Len(Devices) = NumDevices
    BY Numbers, RxKinds
  <1>1. PICK m \in 0..NumDevices : Listed = Prefix(m) /\ Len(Listed) = m
    BY ListedIs
  <1>2. PICK f \in 0..NumDevices : f = rx[j].from /\ f <= m
    BY <1>0, <1>1 DEF ListInv
  <1>3. PICK n \in f..NumDevices : /\ n > f \/ n = NumDevices
                                   /\ rx[j].items = SubSeq(Devices, f + 1, n)
    BY <1>2 DEF ListInv
  <1>4. rx[j].items = <<>> => n = f
    <2>1. \A i \in (f + 1)..n : Devices[i] \in Nat
      BY <1>0
    <2>2. Len(SubSeq(Devices, f + 1, n)) = IF f + 1 <= n THEN n - (f + 1) + 1 ELSE 0
      BY <2>1, SubSeqProperties
    <2>3. rx[j].items = <<>> => Len(SubSeq(Devices, f + 1, n)) = 0
      BY <1>3
    <2> QED  BY <2>2, <2>3
  <1>5. rx[j].items = <<>> => Listed = Devices
    <2>1. rx[j].items = <<>> => m = NumDevices
      BY <1>2, <1>3, <1>4
    <2> QED  BY <1>1, <2>1, PrefixIs
  <1>6. ASSUME rx[j].items # <<>>
        PROVE  n \in 1..NumDevices /\ n \in 0..NumDevices /\ Merged(rx[j]) = Prefix(n)
    <2>1. n > f
      <3>1. n = f => SubSeq(Devices, f + 1, n) = <<>>
        BY SubSeqEmpty
      <3> QED  BY <1>3, <1>6, <3>1
    <2>2. SubSeq(Listed, 1, f) = Prefix(f)
      <3>1. CASE f = 0
        <4>1. SubSeq(Listed, 1, f) = <<>>
          BY <3>1, SubSeqEmpty
        <4> QED  BY <3>1, <4>1, PrefixIs
      <3>2. CASE f > 0
        <4>1. f \in 1..(m - 1 + 1) /\ 1 \in 1..(m - 1 + 1) /\ 1 \in 1..Len(Devices) /\ m \in 1..Len(Devices)
          BY <1>0, <1>2, <3>2
        <4>2. SubSeq(SubSeq(Devices, 1, m), 1, f) = SubSeq(Devices, 1 + 1 - 1, 1 + f - 1)
          BY <1>0, <4>1, SubSeqOfSubSeq
        <4>3. 1 + 1 - 1 = 1 /\ 1 + f - 1 = f
          OBVIOUS
        <4> QED  BY <1>1, <4>2, <4>3 DEF Prefix
      <3> QED  BY <3>1, <3>2
    <2>3. SubSeq(Devices, 1, f) \o SubSeq(Devices, f + 1, n) = SubSeq(Devices, 1, n)
      <3>1. 1 \in 1..(Len(Devices) + 1) /\ f \in (1 - 1)..Len(Devices) /\ n \in f..Len(Devices)
        BY <1>0
      <3> QED  BY <1>0, <3>1, ConcatAdjacentSubSeq
    <2>4. Merged(rx[j]) = SubSeq(Listed, 1, f) \o SubSeq(Devices, f + 1, n)
      BY <1>2, <1>3, Zenon DEF Merged
    <2>5. SubSeq(Listed, 1, f) = SubSeq(Devices, 1, f)
      BY <2>2 DEF Prefix
    <2>6. Merged(rx[j]) = Prefix(n)
      BY <2>3, <2>4, <2>5, Zenon DEF Prefix
    <2> QED  BY <1>2, <2>1, <2>6
  <1>7. ASSUME rx[j].items # <<>>
        PROVE  /\ Len(Prefix(n)) = n /\ Prefix(n) # Null /\ rx[j].from <= n
    BY <1>2, <1>6, <1>7, PrefixIs
  <1> QED  BY <1>5, <1>6, <1>7
-----------------------------------------------------------------------------
(* Every variable keeps its type.                                           *)
ITypes == itf \in [Handles -> Interfaces]
FlagTypes == /\ phase \in {"idle", "select", "process"} /\ call \in {"none", "attach", "list"}
             /\ query \in BOOLEAN /\ deferPkt \in BOOLEAN
NumTypes == /\ calls \in 0..MaxAttach /\ lists \in 0..MaxList /\ fails \in 0..MaxFail
            /\ batch \in 0..Len(rx)
ListTypes == devices \in Lists \cup {Null} /\ result \in Lists \cup {Null}
IfTypes == ifs \in Seq(Handles) /\ connIf \in Handles \cup {NoHandle}
VMTypes == /\ tx \in Seq(Requests) /\ rx \in Seq(Packets)
           /\ vmconn \in [Conns -> Handles \cup {NoHandle}] /\ vmsent \in [Handles -> 0..MaxSend]

(* TypeOK by what a step can disturb.                                       *)
LEMMA Types == TypeOK <=> ITypes /\ FlagTypes /\ NumTypes /\ ListTypes /\ IfTypes /\ VMTypes
  BY DEF TypeOK, ITypes, FlagTypes, NumTypes, ListTypes, IfTypes, VMTypes, Packets

(* The same of the state after a step.                                      *)
LEMMA TypesNext ==
    TypeOK' <=> ITypes' /\ FlagTypes' /\ NumTypes' /\ ListTypes' /\ IfTypes' /\ VMTypes'
  BY DEF TypeOK, ITypes, FlagTypes, NumTypes, ListTypes, IfTypes, VMTypes, Packets

(* Each step keeps the types: of the interfaces,                            *)
LEMMA ITypesStep ==
    ASSUME IInv, [Next]_vars
    PROVE  ITypes'
  <1> USE DEF ITypes
  <1>0. itf \in [Handles -> Interfaces] /\ TypeOK
    BY DEF IInv, TypeOK
  <1>1. CASE Attach
    <2>1. NewIf("pending", NoConn) \in Interfaces
      BY DEF NewIf, Interfaces
    <2> QED  BY <1>0, <1>1, <2>1 DEF Attach
  <1>2. ASSUME NEW h \in Handles, Detach(h)
        PROVE  ITypes'
    <2>1. [itf[h] EXCEPT !.state = "freed", !.rxbufs = <<>>] \in Interfaces
      <3>1. itf[h] \in Interfaces /\ <<>> \in Seq(DataPkts)
        BY <1>0
      <3> QED  BY <3>1 DEF Interfaces
    <2> QED  BY <1>0, <1>2, <2>1 DEF Detach
  <1>3. ASSUME NEW h \in Handles, Ready(h)
        PROVE  ITypes'
    BY <1>3, ReadyIs
  <1>4. CASE Prepare
    BY <1>4, PrepareIs
  <1>5. CASE ProcessData
    BY <1>5, DataIs
  <1>6. CASE ProcessConn
    <2>1. itf' = itf \/ (connIf \in Handles /\ itf' = [itf EXCEPT ![connIf].conn = rx[1].conn])
      BY <1>0, <1>6 DEF ProcessConn, TypeOK
    <2>2. rx[1].conn \in Conns \cup {NoConn}
      BY <1>0, <1>6, ConsumeIs, RxKinds DEF ProcessConn
    <2>3. PICK c \in Conns \cup {NoConn} : c = rx[1].conn
      BY <2>2
    <2>4. \A h \in Handles : [itf[h] EXCEPT !.conn = c] \in Interfaces
      BY <1>0, <2>3 DEF Interfaces
    <2>5. CASE connIf \in Handles /\ itf' = [itf EXCEPT ![connIf] = [itf[connIf] EXCEPT !.conn = c]]
      BY <1>0, <2>4, <2>5
    <2> QED  BY <1>0, <2>1, <2>3, <2>5
  <1>7. CASE EndRound
    <2>1. itf' = itf \/ \E s \in {"freed", "attached"} : itf' = [itf EXCEPT ![connIf].state = s]
      BY <1>7 DEF EndRound, AttachReturns, ListReturns
    <2>2. \A h \in Handles, s \in {"freed", "attached"} : [itf[h] EXCEPT !.state = s] \in Interfaces
      BY <1>0 DEF Interfaces
    <2>3. CASE itf' # itf
      <3>1. PICK s \in {"freed", "attached"} :
              itf' = [itf EXCEPT ![connIf] = [itf[connIf] EXCEPT !.state = s]]
        BY <2>1, <2>3
      <3>2. connIf \in Handles => [itf[connIf] EXCEPT !.state = s] \in Interfaces
        BY <2>2
      <3> QED  BY <1>0, <3>1, <3>2
    <2> QED  BY <1>0, <2>3
  <1>8. CASE UNCHANGED itf
    BY <1>0, <1>8
  <1>9. [Next]_vars => \/ UNCHANGED itf \/ Attach \/ (\E h \in Handles : Detach(h) \/ Ready(h))
                       \/ Prepare \/ ProcessData \/ ProcessConn \/ EndRound
    BY DEF Next, Round, Answer, vars, libvars, List, Process, ProcessFail, ProcessList,
           ProcessListNoMem, ProcessListNoReq, VMConnect, VMDisconnect, VMList, VMSend
  <1> QED  BY <1>1, <1>2, <1>3, <1>4, <1>5, <1>6, <1>7, <1>8, <1>9

(* of the flags and of the place in the loop,                               *)
LEMMA FlagTypesStep ==
    ASSUME IInv, [Next]_vars
    PROVE  FlagTypes'
  <1>0. /\ phase \in {"idle", "select", "process"} /\ call \in {"none", "attach", "list"}
        /\ query \in BOOLEAN /\ deferPkt \in BOOLEAN
    BY DEF IInv, TypeOK
  <1>1. phase' \in {"idle", "select", "process"} /\ call' \in {"none", "attach", "list"}
    BY <1>0 DEF Next, Round, Answer, vars, libvars, Attach, List, Detach, Ready, Prepare,
                Process, ProcessData, ProcessConn, EndRound, ProcessFail, ProcessList,
                ProcessListNoMem, ProcessListNoReq, VMConnect, VMDisconnect, VMList, VMSend
  <1>2. query' \in BOOLEAN
    <2>1. query' = query \/ query' = TRUE \/ query' = FALSE
      BY DEF Next, Round, Answer, vars, libvars, Attach, List, Detach, Ready, Prepare,
             Process, ProcessData, ProcessConn, EndRound, ProcessFail, ProcessList,
             ProcessListNoMem, ProcessListNoReq, VMConnect, VMDisconnect, VMList, VMSend
    <2> QED  BY <1>0, <2>1
  <1>3. deferPkt' \in BOOLEAN
    <2>1. CASE ProcessData
      BY <2>1, DataIs
    <2>2. CASE ~ProcessData
      <3>1. deferPkt' = deferPkt \/ deferPkt' = FALSE
        BY <2>2 DEF Next, Round, Answer, vars, libvars, Attach, List, Detach, Ready, Prepare,
             Process, ProcessConn, EndRound, ProcessFail, ProcessList,
             ProcessListNoMem, ProcessListNoReq, VMConnect, VMDisconnect, VMList, VMSend
      <3> QED  BY <1>0, <3>1
    <2> QED  BY <2>1, <2>2
  <1> QED  BY <1>1, <1>2, <1>3 DEF FlagTypes

(* of the counters,                                                         *)
LEMMA NumTypesStep ==
    ASSUME IInv, [Next]_vars
    PROVE  NumTypes'
  <1> USE DEF NumTypes, bounds
  <1>0. /\ NumTypes /\ TypeOK /\ rx \in Seq(Packets) /\ Len(rx) \in Nat
        /\ MaxAttach \in Nat /\ MaxList \in Nat /\ MaxFail \in Nat
    BY Types, SessionAssumption, LenProperties DEF IInv, VMTypes
  <1>1. CASE Attach
    BY <1>0, <1>1 DEF Attach, vmvars
  <1>2. CASE List
    BY <1>0, <1>2 DEF List, vmvars
  <1>3. CASE UNCHANGED <<bounds, rx>> /\ (batch' = batch \/ batch' = Len(rx))
    BY <1>0, <1>3
  <1>4. ASSUME UNCHANGED <<calls, lists>>, NEW kind, First(kind), Consume,
               UNCHANGED fails \/ (fails < MaxFail /\ fails' = fails + 1)
        PROVE  NumTypes'
    <2>1. Len(rx') = Len(rx) - 1 /\ batch' = batch - 1 /\ batch \in 1..Len(rx)
      BY <1>0, <1>4, ConsumeIs DEF Consume
    <2> QED  BY <1>0, <1>4, <2>1
  <1>5. CASE ProcessFail \/ ProcessListNoReq
    BY <1>0, <1>5 DEF ProcessFail, ProcessListNoReq
  <1>6. CASE Answer \/ VMSend
    <2>1. rx' = rx \/ \E p : rx' = Append(rx, p)
      BY <1>6 DEF Answer, VMConnect, VMDisconnect, VMList, VMSend
    <2>2. Len(rx) <= Len(rx') /\ Len(rx') \in Nat
      BY <1>0, <2>1
    <2>3. UNCHANGED <<calls, lists, fails, batch>>
      BY <1>6 DEF Answer, VMConnect, VMDisconnect, VMList, VMSend, libvars
    <2> QED  BY <1>0, <2>2, <2>3
  <1>7. (\E h \in Handles : Detach(h) \/ Ready(h)) \/ Prepare \/ Process \/ EndRound \/ UNCHANGED vars
          => UNCHANGED <<bounds, rx>> /\ (batch' = batch \/ batch' = Len(rx))
    BY DEF Detach, Ready, Prepare, Process, EndRound, vars
  <1>8. CASE ProcessData
    BY <1>4, <1>8 DEF ProcessData
  <1>9. CASE ProcessConn
    BY <1>4, <1>9 DEF ProcessConn
  <1>10. CASE ProcessList
    BY <1>4, <1>10 DEF ProcessList
  <1>11. CASE ProcessListNoMem
    BY <1>4, <1>11 DEF ProcessListNoMem
  <1> QED  BY <1>1, <1>2, <1>3, <1>5, <1>6, <1>7, <1>8, <1>9, <1>10, <1>11 DEF Next, Round

(* of the device lists,                                                     *)
LEMMA ListTypesStep ==
    ASSUME IInv, [Next]_vars
    PROVE  ListTypes'
  <1>0. TypeOK /\ ListInv /\ devices \in Lists \cup {Null} /\ result \in Lists \cup {Null}
    BY ListedIs DEF IInv, TypeOK
  <1>1. result' = result \/ result' = devices
    BY DEF Next, Round, Answer, vars, libvars, Attach, List, Detach, Ready, Prepare,
           Process, ProcessData, ProcessConn, EndRound, ProcessFail, ProcessList, AttachReturns,
           ListReturns, ProcessListNoMem, ProcessListNoReq, VMConnect, VMDisconnect, VMList, VMSend
  <1>2. \/ devices' = devices \/ devices' = Null
        \/ First("list") /\ rx[1].items # <<>> /\ devices' = Merged(rx[1])
    BY DEF Next, Round, Answer, vars, libvars, Attach, List, Detach, Ready, Prepare,
           Process, ProcessData, ProcessConn, EndRound, ProcessFail, ProcessList, AttachReturns,
           ListReturns, ProcessListNoMem, ProcessListNoReq, VMConnect, VMDisconnect, VMList, VMSend
  <1>3. CASE First("list") /\ rx[1].items # <<>> /\ devices' = Merged(rx[1])
    <2>1. 1 \in 1..Len(rx) /\ rx[1].kind = "list"
      BY <1>0, <1>3, ConsumeIs
    <2>2. PICK n \in 1..NumDevices : Merged(rx[1]) = Prefix(n)
      BY <1>0, <1>3, <2>1, PageIs
    <2>3. n \in 0..NumDevices
      BY Numbers
    <2> QED  BY <1>0, <1>1, <1>3, <2>2, <2>3, PrefixIs DEF ListTypes
  <1> QED  BY <1>0, <1>1, <1>2, <1>3 DEF ListTypes

(* of the list of interfaces,                                               *)
LEMMA IfTypesStep ==
    ASSUME IInv, [Next]_vars
    PROVE  IfTypes'
  <1>0. /\ TypeOK /\ ifs \in Seq(Handles) /\ connIf \in Handles \cup {NoHandle}
        /\ calls \in 0..MaxAttach /\ MaxAttach \in Nat
    BY Numbers DEF IInv, TypeOK
  <1>1. CASE Attach
    <2>1. calls' \in Handles
      BY <1>0, <1>1 DEF Attach, Handles
    <2> QED  BY <1>0, <1>1, <2>1 DEF Attach, IfTypes
  <1>2. ASSUME NEW h \in Handles, Detach(h)
        PROVE  IfTypes'
    <2>1. CASE InIfs(h)
      <3>1. PICK i \in 1..Len(ifs) : ifs' = RemoveAt(ifs, i)
        BY <1>2, <2>1 DEF Detach, InIfs
      <3> QED  BY <1>0, <1>2, <3>1, RemoveAtIs DEF Detach, IfTypes
    <2>2. CASE ~InIfs(h)
      BY <1>0, <1>2, <2>2 DEF Detach, IfTypes
    <2> QED  BY <2>1, <2>2
  <1>3. CASE ProcessConn
    <2>1. connIf \in Handles => <<connIf>> \o ifs \in Seq(Handles)
      BY <1>0, ConcatProperties
    <2> QED  BY <1>0, <1>3, <2>1 DEF ProcessConn, IfTypes
  <1>4. CASE EndRound
    BY <1>0, <1>4 DEF EndRound, AttachReturns, ListReturns, IfTypes
  <1>5. CASE UNCHANGED <<ifs, connIf>>
    BY <1>0, <1>5 DEF IfTypes
  <1>6. [Next]_vars => \/ Attach \/ (\E h \in Handles : Detach(h)) \/ ProcessConn \/ EndRound
                       \/ UNCHANGED <<ifs, connIf>>
    BY DEF Next, Round, Answer, vars, libvars, List, Ready, Prepare, Process, ProcessData,
           ProcessFail, ProcessList, ProcessListNoMem, ProcessListNoReq, VMConnect,
           VMDisconnect, VMList, VMSend
  <1> QED  BY <1>1, <1>2, <1>3, <1>4, <1>5, <1>6

(* What is put into the two queues.                                         *)
LEMMA TxStep ==
    ASSUME IInv, [Next]_vars
    PROVE  tx' \in Seq(Requests)
  <1>0. /\ TypeOK /\ ListInv /\ tx \in Seq(Requests) /\ calls \in 0..MaxAttach
        /\ MaxAttach \in Nat /\ NumDevices \in Nat /\ Len(Devices) = NumDevices
    BY Numbers DEF IInv, TypeOK
  <1>1. CASE Attach
    <2>1. ConnReq(calls') \in Requests
      BY <1>0, <1>1 DEF Attach, ConnReq, Requests, Handles
    <2> QED  BY <1>0, <1>1, <2>1, AppendProperties DEF Attach
  <1>2. CASE List
    <2>1. ListReq(0) \in Requests
      BY <1>0 DEF ListReq, Requests
    <2> QED  BY <1>0, <1>2, <2>1, AppendProperties DEF List
  <1>3. ASSUME NEW h \in Handles, Detach(h)
        PROVE  tx' \in Seq(Requests)
    <2>1. itf[h].state = "attached" /\ itf[h] \in Interfaces
      BY <1>0, <1>3 DEF Detach, TypeOK
    <2>2. itf[h].conn \in Conns
      BY <2>1 DEF IInv, StateInv, Interfaces
    <2>3. DiscReq(itf[h].conn) \in Requests
      BY <2>2 DEF DiscReq, Requests
    <2> QED  BY <1>0, <1>3, <2>3, AppendProperties DEF Detach
  <1>4. CASE ProcessList
    <2>1. CASE UNCHANGED tx
      BY <1>0, <2>1
    <2>2. CASE ~UNCHANGED tx
      <3>1. /\ rx[1].items # <<>> /\ devices' = Merged(rx[1])
            /\ tx' = Append(tx, ListReq(Len(devices')))
        BY <1>4, <2>2 DEF ProcessList
      <3>2. 1 \in 1..Len(rx) /\ rx[1].kind = "list"
        BY <1>0, <1>4, ConsumeIs DEF ProcessList
      <3>3. PICK n \in 1..NumDevices : Len(devices') = n
        BY <1>0, <3>1, <3>2, PageIs
      <3>4. ListReq(n) \in Requests
        BY <1>0 DEF ListReq, Requests
      <3> QED  BY <1>0, <3>1, <3>3, <3>4, AppendProperties
    <2> QED  BY <2>1, <2>2
  <1>5. CASE tx # <<>> /\ tx' = Tail(tx)
    BY <1>0, <1>5
  <1>6. CASE UNCHANGED tx
    BY <1>0, <1>6
  <1>7. [Next]_vars => \/ Attach \/ List \/ (\E h \in Handles : Detach(h)) \/ ProcessList
                       \/ (tx # <<>> /\ tx' = Tail(tx)) \/ UNCHANGED tx
    BY DEF Next, Round, Answer, vars, libvars, Ready, Prepare, Process, ProcessData,
           ProcessConn, EndRound, ProcessFail, ProcessListNoMem, ProcessListNoReq, VMConnect,
           VMDisconnect, VMList, VMSend
  <1> QED  BY <1>1, <1>2, <1>3, <1>4, <1>5, <1>6, <1>7

(* of the packets that have arrived,                                        *)
LEMMA RxStep ==
    ASSUME IInv, [Next]_vars
    PROVE  rx' \in Seq(Packets)
  <1>0. /\ TypeOK /\ rx \in Seq(Packets)
        /\ NumDevices \in Nat /\ MaxSend \in Nat /\ Len(Devices) = NumDevices
    BY Numbers DEF IInv, TypeOK, Packets
  <1>1. CASE VMConnect
    <2>1. \A i \in Conns \cup {NoConn} : ConnRsp(i) \in Packets
      BY DEF ConnRsp, Packets, Answers
    <2>2. PICK i \in Conns \cup {NoConn} : rx' = Append(rx, ConnRsp(i))
      BY <1>1 DEF VMConnect
    <2> QED  BY <1>0, <2>1, <2>2, AppendProperties
  <1>2. CASE VMList
    <2>1. PICK n \in tx[1].from..Len(Devices) :
            rx' = Append(rx, ListRsp(tx[1].from, SubSeq(Devices, tx[1].from + 1, n)))
      BY <1>2 DEF VMList
    <2>2. 1 \in 1..Len(tx) /\ tx[1].op = "list"
      <3>1. tx # <<>> /\ tx[1].op = "list" /\ tx \in Seq(Requests)
        BY <1>2, <1>0 DEF VMList, TypeOK
      <3> QED  BY <3>1
    <2>3. tx[1].from \in 0..NumDevices
      BY <1>0, <2>2, TxKinds
    <2>4. PICK f \in 0..NumDevices : f = tx[1].from
      BY <2>3
    <2>5. n \in 0..Len(Devices) /\ f \in 0..Len(Devices)
      BY <1>0, <2>4
    <2>6. SubSeq(Devices, f + 1, n) \in Lists
      BY <2>5 DEF Lists
    <2>7. ListRsp(f, SubSeq(Devices, f + 1, n)) \in Packets
      BY <2>5, <2>6 DEF ListRsp, Packets, Answers
    <2> QED  BY <1>0, <2>1, <2>4, <2>7, AppendProperties
  <1>3. CASE VMSend
    <2>1. PICK i \in Conns : /\ vmconn[i] # NoHandle /\ vmsent[vmconn[i]] < MaxSend
                             /\ rx' = Append(rx, Data(i, vmconn[i], vmsent[vmconn[i]] + 1))
      BY <1>3 DEF VMSend
    <2>2. vmconn[i] \in Handles /\ vmsent[vmconn[i]] \in 0..MaxSend
      BY <1>0, <2>1 DEF TypeOK
    <2>3. Data(i, vmconn[i], vmsent[vmconn[i]] + 1) \in Packets
      BY <1>0, <2>1, <2>2 DEF Data, Packets, DataPkts
    <2> QED  BY <1>0, <2>1, <2>3, AppendProperties
  <1>4. CASE \E kind : First(kind) /\ Consume
    BY <1>0, <1>4, ConsumeIs DEF Consume
  <1>5. CASE UNCHANGED rx
    BY <1>0, <1>5
  <1>6. [Next]_vars => \/ VMConnect \/ VMList \/ VMSend \/ (\E kind : First(kind) /\ Consume)
                       \/ UNCHANGED rx
    <2>1. ProcessData \/ ProcessConn \/ ProcessList \/ ProcessListNoMem
            => \E kind : First(kind) /\ Consume
      BY DEF ProcessData, ProcessConn, ProcessList, ProcessListNoMem
    <2> QED  BY <2>1 DEF Next, Round, Answer, vars, libvars, Attach, List, Detach, Ready, Prepare,
                 Process, ProcessFail, EndRound, ProcessListNoReq, VMDisconnect
  <1> QED  BY <1>1, <1>2, <1>3, <1>4, <1>5, <1>6

(* of what the VM knows.                                                    *)
LEMMA VMTypesStep ==
    ASSUME IInv, [Next]_vars
    PROVE  VMTypes'
  <1>0. /\ TypeOK /\ vmconn \in [Conns -> Handles \cup {NoHandle}]
        /\ vmsent \in [Handles -> 0..MaxSend] /\ MaxSend \in Nat
    BY Numbers DEF IInv, TypeOK
  <1>1. vmconn' \in [Conns -> Handles \cup {NoHandle}]
    <2>1. CASE VMConnect
      <3>1. tx[1].h \in Handles
        <4>1. tx # <<>> /\ tx[1].op = "conn" /\ tx \in Seq(Requests)
          BY <2>1, <1>0 DEF VMConnect, TypeOK
        <4>2. 1 \in 1..Len(tx)
          BY <4>1
        <4> QED  BY <1>0, <4>1, <4>2, TxKinds
      <3> QED  BY <1>0, <2>1, <3>1 DEF VMConnect
    <2>2. CASE VMDisconnect
      BY <1>0, <2>2 DEF VMDisconnect
    <2>3. CASE UNCHANGED vmconn
      BY <1>0, <2>3
    <2>4. [Next]_vars => VMConnect \/ VMDisconnect \/ UNCHANGED vmconn
      BY DEF Next, Round, Answer, vars, vmvars, Attach, List, Detach, Ready, Prepare,
             Process, ProcessData, ProcessConn, EndRound, ProcessFail, ProcessList,
             ProcessListNoMem, ProcessListNoReq, VMList, VMSend
    <2> QED  BY <2>1, <2>2, <2>3, <2>4
  <1>2. vmsent' \in [Handles -> 0..MaxSend]
    <2>1. CASE VMSend
      <3>1. PICK i \in Conns : /\ vmconn[i] # NoHandle /\ vmsent[vmconn[i]] < MaxSend
                               /\ vmsent' = [vmsent EXCEPT ![vmconn[i]] = @ + 1]
        BY <2>1 DEF VMSend
      <3>2. vmconn[i] \in Handles /\ vmsent[vmconn[i]] + 1 \in 0..MaxSend
        BY <1>0, <3>1
      <3> QED  BY <1>0, <3>1, <3>2
    <2>2. CASE UNCHANGED vmsent
      BY <1>0, <2>2
    <2>3. [Next]_vars => VMSend \/ UNCHANGED vmsent
      BY DEF Next, Round, Answer, vars, vmvars, Attach, List, Detach, Ready, Prepare,
             Process, ProcessData, ProcessConn, EndRound, ProcessFail, ProcessList,
             ProcessListNoMem, ProcessListNoReq, VMConnect, VMDisconnect, VMList
    <2> QED  BY <2>1, <2>2, <2>3
  <1> QED  BY <1>1, <1>2, TxStep, RxStep DEF VMTypes

(* All together.                                                            *)
LEMMA TypeStep ==
    ASSUME IInv, [Next]_vars
    PROVE  TypeOK'
  BY ITypesStep, FlagTypesStep, NumTypesStep, ListTypesStep, IfTypesStep, VMTypesStep, TypesNext
-----------------------------------------------------------------------------
(* The two queues after a step: t is s without its first element, or with   *)
(* one more at its end.                                                     *)
Shorter(s, t) ==
    /\ Len(s) \in Nat \ {0} /\ Len(t) = Len(s) - 1 /\ 1 \in 1..Len(s)
    /\ \A j \in 1..Len(t) : t[j] = s[j + 1] /\ j + 1 \in 1..Len(s) /\ j + 1 # 1
    /\ \A j \in 1..Len(s) : j # 1 => j - 1 \in 1..Len(t) /\ t[j - 1] = s[j]

Longer(s, t, e) ==
    /\ Len(s) \in Nat /\ Len(t) = Len(s) + 1
    /\ \A j \in 1..Len(s) : t[j] = s[j] /\ j \in 1..Len(t)
    /\ t[Len(s) + 1] = e /\ Len(s) + 1 \in 1..Len(t)
    /\ \A j \in 1..Len(t) : j \in 1..Len(s) \/ j = Len(s) + 1

(* The two relations are those of Tail and Append.                          *)
LEMMA ShorterIs ==
    ASSUME NEW S, NEW s \in Seq(S), s # <<>>
    PROVE  Shorter(s, Tail(s))
  <1>1. PICK t : t = Tail(s)
    OBVIOUS
  <1>2. /\ Len(s) \in Nat \ {0} /\ Len(t) = Len(s) - 1
        /\ \A j \in 1..(Len(s) - 1) : t[j] = s[j + 1] /\ j + 1 \in 1..Len(s)
    BY <1>1, TailIs
  <1>3. Shorter(s, t)
    BY <1>2 DEF Shorter
  <1> QED  BY <1>1, <1>3

(* And of Append.                                                           *)
LEMMA LongerIs ==
    ASSUME NEW S, NEW s \in Seq(S), NEW e
    PROVE  Longer(s, Append(s, e), e)
  <1>1. PICK t : t = Append(s, e)
    OBVIOUS
  <1>2. s \in Seq(S \cup {e}) /\ e \in S \cup {e}
    BY SeqMonotonic
  <1>3. /\ Len(s) \in Nat /\ Len(t) = Len(s) + 1
        /\ \A j \in 1..Len(s) : t[j] = s[j]
        /\ t[Len(s) + 1] = e
    BY <1>1, <1>2, AppendIs
  <1>4. Longer(s, t, e)
    BY <1>3 DEF Longer
  <1> QED  BY <1>1, <1>4

(* What they say of the requests and of the packets.                        *)
LEMMA TxAppend ==
    ASSUME TypeOK, NEW e, tx' = Append(tx, e)
    PROVE  Longer(tx, tx', e)
  <1>1. tx \in Seq(Requests)
    BY DEF TypeOK
  <1> QED  BY <1>1, LongerIs

(* The VM takes a request.                                                  *)
LEMMA TxTail ==
    ASSUME TypeOK, tx # <<>>, tx' = Tail(tx)
    PROVE  Shorter(tx, tx')
  <1>1. tx \in Seq(Requests)
    BY DEF TypeOK
  <1> QED  BY <1>1, ShorterIs

(* The VM sends a packet.                                                   *)
LEMMA RxAppend ==
    ASSUME TypeOK, NEW e, rx' = Append(rx, e)
    PROVE  Longer(rx, rx', e)
  <1>1. rx \in Seq(Packets)
    BY DEF TypeOK, Packets
  <1> QED  BY <1>1, LongerIs

(* The library takes a packet.                                              *)
LEMMA RxTail ==
    ASSUME TypeOK, NEW kind, First(kind), Consume
    PROVE  /\ phase = "process" /\ rx[1].kind = kind /\ 1 \in 1..Len(rx)
           /\ Shorter(rx, rx')
  <1>1. rx \in Seq(Packets) /\ rx # <<>> /\ phase = "process" /\ rx[1].kind = kind
        /\ 1 \in 1..Len(rx)
    BY ConsumeIs DEF TypeOK, Packets
  <1> QED  BY <1>1, ShorterIs DEF Consume

(* No query, no request or answer of one under way.                         *)
LEMMA NoQuery ==
    ASSUME QueryInv, call = "none"
    PROVE  /\ ~query /\ connIf = NoHandle
           /\ \A j \in 1..Len(tx) : tx[j].op = "disc"
           /\ \A j \in 1..Len(rx) : rx[j].kind = "data"
  BY DEF QueryInv

(* Every step keeps QueryInv: the only call that sends a query waits for it. *)
LEMMA QueryStep ==
    ASSUME IInv, [Next]_vars
    PROVE  QueryInv'
  <1>0. TypeOK /\ QueryInv
    BY DEF IInv
  <1>1. CASE Attach
    <2>1. /\ tx' = Append(tx, ConnReq(calls')) /\ rx' = rx /\ query' = TRUE /\ phase' = phase
          /\ call' = "attach" /\ connIf' = calls' /\ calls' # NoHandle /\ call = "none"
      BY <1>0, <1>1 DEF Attach, CanCall, TypeOK, NoHandle
    <2>2. ConnReq(calls').op = "conn" /\ ConnReq(calls').h = calls'
      BY DEF ConnReq
    <2> QED  BY <1>0, <2>1, <2>2, NoQuery, TxAppend DEF QueryInv, Longer
  <1>2. CASE List
    <2>1. /\ tx' = Append(tx, ListReq(0)) /\ rx' = rx /\ query' = TRUE /\ phase' = phase
          /\ call' = "list" /\ connIf' = connIf /\ call = "none"
      BY <1>2 DEF List, CanCall
    <2>2. ListReq(0).op = "list"
      BY DEF ListReq
    <2>3. Longer(tx, tx', ListReq(0))
      BY <1>0, <2>1, TxAppend
    <2>4. /\ connIf = NoHandle
          /\ \A j \in 1..Len(tx) : tx[j].op = "disc"
          /\ \A j \in 1..Len(rx) : rx[j].kind = "data"
      BY <1>0, <2>1, NoQuery
    <2> QED  BY <2>1, <2>2, <2>3, <2>4 DEF QueryInv, Longer
  <1>3. ASSUME NEW h \in Handles, Detach(h)
        PROVE  QueryInv'
    <2>1. /\ tx' = Append(tx, DiscReq(itf[h].conn)) /\ rx' = rx /\ query' = query /\ phase' = phase
          /\ call' = call /\ connIf' = connIf
      BY <1>3 DEF Detach
    <2>2. DiscReq(itf[h].conn).op = "disc"
      BY DEF DiscReq
    <2> QED  BY <1>0, <2>1, <2>2, TxAppend DEF QueryInv, Longer
  <1>4. CASE UNCHANGED <<query, call, connIf, tx, rx>> /\ (phase # "process" \/ UNCHANGED phase)
    BY <1>0, <1>4 DEF QueryInv
  <1>5. CASE ProcessData
    <2>1. UNCHANGED <<query, call, connIf, tx, phase>> /\ First("data") /\ Consume
      BY <1>5 DEF ProcessData
    <2>2. Shorter(rx, rx')
      BY <1>0, <2>1, RxTail
    <2>3. \A j \in 1..Len(rx') : j \in Nat /\ rx'[j] = rx[j + 1] /\ j + 1 \in 1..Len(rx)
      BY <2>2 DEF Shorter
    <2>4. \A j, k \in 1..Len(rx') : rx'[j].kind # "data" /\ rx'[k].kind # "data" => j = k
      <3>1. ASSUME NEW j \in 1..Len(rx'), NEW k \in 1..Len(rx'),
                   rx'[j].kind # "data", rx'[k].kind # "data"
            PROVE  j = k
        <4>1. j + 1 = k + 1
          BY <1>0, <2>3, <3>1 DEF QueryInv
        <4> QED  BY <2>3, <4>1
      <3> QED  BY <3>1
    <2> QED  BY <1>0, <2>1, <2>3, <2>4 DEF QueryInv
  <1>6. CASE ProcessConn
    <2>1. UNCHANGED <<call, connIf, tx, phase>> /\ First("conn") /\ Consume
      BY <1>6 DEF ProcessConn
    <2>2. phase = "process" /\ 1 \in 1..Len(rx) /\ rx[1].kind = "conn" /\ Shorter(rx, rx')
      BY <1>0, <2>1, RxTail
    <2>3. query /\ connIf # NoHandle
      BY <1>0, <2>2 DEF QueryInv
    <2>4. query' = FALSE
      BY <1>6, <2>3 DEF ProcessConn
    <2> QED  BY <1>0, <2>1, <2>2, <2>4 DEF QueryInv, Shorter
  <1>7. CASE ProcessList \/ ProcessListNoMem
    <2>1. UNCHANGED <<call, connIf, phase>> /\ First("list") /\ Consume
      BY <1>7 DEF ProcessList, ProcessListNoMem
    <2>2. phase = "process" /\ 1 \in 1..Len(rx) /\ rx[1].kind = "list" /\ Shorter(rx, rx')
      BY <1>0, <2>1, RxTail
    <2>3. query /\ call = "list"
      BY <1>0, <2>2 DEF QueryInv
    <2>4. CASE query' = FALSE /\ tx' = tx
      BY <1>0, <2>1, <2>2, <2>4 DEF QueryInv, Shorter
    <2>5. ASSUME NEW n, query' = query, tx' = Append(tx, ListReq(n))
          PROVE  QueryInv'
      <3>1. ListReq(n).op = "list"
        BY DEF ListReq
      <3>2. Longer(tx, tx', ListReq(n))
        BY <1>0, <2>5, TxAppend
      <3> QED  BY <1>0, <2>1, <2>2, <2>3, <2>5, <3>1, <3>2 DEF QueryInv, Shorter, Longer
    <2> QED  BY <1>7, <2>3, <2>4, <2>5 DEF ProcessList, ProcessListNoMem
  <1>8. CASE EndRound
    <2>1. UNCHANGED <<query, tx, rx>> /\ phase' = "idle"
      BY <1>8 DEF EndRound
    <2>2. CASE query \/ call = "none"
      <3>1. UNCHANGED <<connIf, call>>
        BY <1>8, <2>2 DEF EndRound
      <3> QED  BY <1>0, <2>1, <2>2, <3>1 DEF QueryInv
    <2>3. CASE ~(query \/ call = "none")
      <3>1. call' = "none" /\ (call # "attach" => connIf' = connIf) /\ (call = "attach" => connIf' = NoHandle)
        BY <1>8, <2>3 DEF EndRound, AttachReturns, ListReturns
      <3> QED  BY <1>0, <2>1, <2>3, <3>1 DEF QueryInv
    <2> QED  BY <2>2, <2>3
  <1>9. CASE VMConnect
    <2>1. /\ UNCHANGED <<query, call, connIf, phase>> /\ tx # <<>> /\ tx' = Tail(tx)
          /\ tx[1].op = "conn"
      BY <1>9 DEF VMConnect, libvars
    <2>2. PICK i : rx' = Append(rx, ConnRsp(i))
      BY <1>9 DEF VMConnect
    <2>3. ConnRsp(i).kind = "conn"
      BY DEF ConnRsp
    <2> QED  BY <1>0, <2>1, <2>2, <2>3, TxTail, RxAppend DEF QueryInv, Shorter, Longer
  <1>10. CASE VMDisconnect
    <2>1. /\ UNCHANGED <<query, call, connIf, phase, rx>> /\ tx # <<>> /\ tx' = Tail(tx)
          /\ tx[1].op = "disc"
      BY <1>10 DEF VMDisconnect, libvars
    <2> QED  BY <1>0, <2>1, TxTail DEF QueryInv, Shorter
  <1>11. CASE VMList
    <2>1. /\ UNCHANGED <<query, call, connIf, phase>> /\ tx # <<>> /\ tx' = Tail(tx)
          /\ tx[1].op = "list"
      BY <1>11 DEF VMList, libvars
    <2>2. PICK n : rx' = Append(rx, ListRsp(tx[1].from, SubSeq(Devices, tx[1].from + 1, n)))
      BY <1>11 DEF VMList
    <2>3. ListRsp(tx[1].from, SubSeq(Devices, tx[1].from + 1, n)).kind = "list"
      BY DEF ListRsp
    <2> QED  BY <1>0, <2>1, <2>2, <2>3, TxTail, RxAppend DEF QueryInv, Shorter, Longer
  <1>12. CASE VMSend
    <2>1. UNCHANGED <<query, call, connIf, phase, tx>>
      BY <1>12 DEF VMSend, libvars
    <2>2. PICK i, h, n : rx' = Append(rx, Data(i, h, n))
      BY <1>12 DEF VMSend
    <2>3. Data(i, h, n).kind = "data"
      BY DEF Data
    <2> QED  BY <1>0, <2>1, <2>2, <2>3, RxAppend DEF QueryInv, Longer
  <1>13. (\E h \in Handles : Ready(h)) \/ Prepare \/ Process \/ ProcessFail \/ ProcessListNoReq \/ UNCHANGED vars
          => UNCHANGED <<query, call, connIf, tx, rx>> /\ (phase # "process" \/ UNCHANGED phase)
    BY DEF Ready, Prepare, Process, ProcessFail, ProcessListNoReq, vars
  <1> QED  BY <1>1, <1>2, <1>3, <1>4, <1>5, <1>6, <1>7, <1>8, <1>9, <1>10, <1>11, <1>12, <1>13
           DEF Next, Round, Answer
-----------------------------------------------------------------------------
(* What the steps that change the life of an interface do to it.            *)
OthersSame(h) == \A g \in Handles : g # h => itf'[g] = itf[g]

(* What attach, detach, the answer of the VM and the end of a round do to the *)
(* handles.                                                                 *)
LEMMA AttachIs ==
    ASSUME IInv, Attach
    PROVE  /\ calls' = calls + 1 /\ calls' \in Handles /\ connIf' = calls' /\ query'
           /\ connIf = NoHandle /\ ~query
           /\ itf[calls'].state = "unused" /\ itf'[calls'] = NewIf("pending", NoConn)
           /\ OthersSame(calls')
           /\ UNCHANGED <<ifs, rx, vmconn, vmsent>> /\ tx' = Append(tx, ConnReq(calls'))
  <1>1. /\ calls' = calls + 1 /\ connIf' = calls' /\ query' /\ call = "none"
        /\ calls < MaxAttach /\ itf' = [itf EXCEPT ![calls'] = NewIf("pending", NoConn)]
        /\ UNCHANGED <<ifs, rx, vmconn, vmsent>> /\ tx' = Append(tx, ConnReq(calls'))
    BY DEF Attach, CanCall, vmvars
  <1>2. calls \in 0..MaxAttach /\ MaxAttach \in Nat /\ itf \in [Handles -> Interfaces]
    BY Numbers DEF IInv, TypeOK
  <1>3. calls' \in Handles /\ calls' > calls
    BY <1>1, <1>2 DEF Handles
  <1>4. itf[calls'].state = "unused"
    BY <1>3 DEF IInv, StateInv
  <1>5. connIf = NoHandle /\ ~query
    BY <1>1, NoQuery DEF IInv
  <1> QED  BY <1>1, <1>2, <1>3, <1>4, <1>5 DEF OthersSame

(* A handle that is detached is freed and leaves the list.                  *)
LEMMA DetachIs ==
    ASSUME IInv, NEW h \in Handles, Detach(h)
    PROVE  /\ itf[h].state = "attached" /\ itf[h].conn \in Conns
           /\ itf'[h].state = "freed" /\ itf'[h].conn = itf[h].conn
           /\ Known(h)' = itf[h].got /\ itf[h].got \in Seq(DataPkts)
           /\ OthersSame(h)
           /\ UNCHANGED <<calls, connIf, query, rx, vmconn, vmsent>>
           /\ tx' = Append(tx, DiscReq(itf[h].conn))
  <1>1. /\ itf \in [Handles -> Interfaces] /\ itf[h] \in Interfaces
        /\ itf[h].state = "attached" /\ itf[h].got \in Seq(DataPkts)
    BY DEF IInv, TypeOK, Detach, Interfaces
  <1>2. itf[h].conn \in Conns
    BY <1>1 DEF IInv, StateInv, Interfaces
  <1>3. itf' = [itf EXCEPT ![h] = [itf[h] EXCEPT !.state = "freed", !.rxbufs = <<>>]]
    BY DEF Detach
  <1>4. /\ itf'[h].state = "freed" /\ itf'[h].conn = itf[h].conn
        /\ itf'[h].got = itf[h].got /\ itf'[h].rxbufs = <<>>
    BY <1>1, <1>3 DEF Interfaces
  <1>5. Known(h)' = itf[h].got
    BY <1>1, <1>4, ConcatEmptySeq DEF Known
  <1> QED  BY <1>1, <1>2, <1>3, <1>4, <1>5 DEF Detach, OthersSame, vmvars, bounds

(* The answer gives the interface being attached its index.                 *)
LEMMA ConnIs ==
    ASSUME IInv, ProcessConn
    PROVE  /\ First("conn") /\ Consume /\ 1 \in 1..Len(rx) /\ rx[1].kind = "conn"
           /\ rx[1].conn \in Conns \cup {NoConn}
           /\ query /\ ~query'
           /\ UNCHANGED <<calls, connIf, tx, vmconn, vmsent>>
           /\ \E c \in Handles :
                /\ c = connIf /\ itf[c].state = "pending" /\ itf[c].conn = NoConn
                /\ itf'[c].state = "pending" /\ itf'[c].conn = rx[1].conn
                /\ itf'[c].got = itf[c].got /\ Known(c)' = Known(c)
                /\ OthersSame(c)
                /\ ifs' = (IF rx[1].conn = NoConn THEN ifs ELSE <<c>> \o ifs)
  <1>1. /\ TypeOK /\ itf \in [Handles -> Interfaces] /\ connIf \in Handles \cup {NoHandle}
        /\ First("conn") /\ Consume
    BY DEF IInv, TypeOK, ProcessConn
  <1>2. 1 \in 1..Len(rx) /\ rx[1].kind = "conn" /\ rx[1].conn \in Conns \cup {NoConn}
    BY <1>1, RxTail, RxKinds
  <1>3. query /\ connIf \in Handles
    BY <1>1, <1>2 DEF IInv, QueryInv
  <1>4. PICK c \in Handles : c = connIf
    BY <1>3
  <1>5. itf[c].state = "pending" /\ itf[c].conn = NoConn
    BY <1>3, <1>4 DEF IInv, StateInv
  <1>6. /\ itf' = [itf EXCEPT ![c].conn = rx[1].conn] /\ ~query'
        /\ ifs' = (IF rx[1].conn = NoConn THEN ifs ELSE <<c>> \o ifs)
    BY <1>3, <1>4, Numbers DEF ProcessConn
  <1>7. UNCHANGED <<calls, connIf, tx, vmconn, vmsent>>
    BY DEF ProcessConn, vmvars, bounds
  <1>8. /\ itf'[c].state = itf[c].state /\ itf'[c].conn = rx[1].conn
        /\ itf'[c].got = itf[c].got /\ itf'[c].rxbufs = itf[c].rxbufs
        /\ \A g \in Handles : g # c => itf'[g] = itf[g]
    BY <1>1, <1>6 DEF Interfaces
  <1>9. Known(c)' = Known(c)
    BY <1>8 DEF Known
  <1> QED  BY <1>1, <1>2, <1>3, <1>4, <1>5, <1>6, <1>7, <1>8, <1>9 DEF OthersSame

(* The end of a round gives the interface that was attached to the caller,  *)
(* or frees it.                                                             *)
Returned(c) ==
    /\ c = connIf /\ itf[c].state = "pending" /\ ~query
    /\ itf'[c].state = (IF itf[c].conn = NoConn THEN "freed" ELSE "attached")
    /\ itf'[c].conn = itf[c].conn
    /\ Known(c)' = Known(c)
    /\ OthersSame(c) /\ connIf' = NoHandle

(* The end of a round makes it attached, or frees it.                       *)
LEMMA EndIs ==
    ASSUME IInv, EndRound
    PROVE  /\ UNCHANGED <<calls, ifs, query, tx, rx, vmconn, vmsent>>
           /\ UNCHANGED <<itf, connIf>> \/ \E c \in Handles : Returned(c)
  <1>1. /\ TypeOK /\ itf \in [Handles -> Interfaces] /\ connIf \in Handles \cup {NoHandle}
    BY DEF IInv, TypeOK
  <1>2. UNCHANGED <<calls, ifs, query, tx, rx, vmconn, vmsent>>
    BY DEF EndRound, vmvars, bounds
  <1>3. CASE query \/ call # "attach"
    BY <1>2, <1>3 DEF EndRound, ListReturns
  <1>4. CASE ~(query \/ call # "attach")
    <2>1. PICK c \in Handles : c = connIf
      BY <1>1, <1>4 DEF IInv, QueryInv
    <2>2. itf[c].state = "pending"
      BY <2>1 DEF IInv, StateInv
    <2>3. PICK s : s = IF itf[c].conn = NoConn THEN "freed" ELSE "attached"
      OBVIOUS
    <2>4. itf' = [itf EXCEPT ![c].state = s] /\ connIf' = NoHandle
      BY <1>4, <2>1, <2>3 DEF EndRound, AttachReturns
    <2>5. /\ itf'[c].state = s /\ itf'[c].conn = itf[c].conn
          /\ itf'[c].got = itf[c].got /\ itf'[c].rxbufs = itf[c].rxbufs
          /\ \A g \in Handles : g # c => itf'[g] = itf[g]
      BY <1>1, <2>1, <2>4 DEF Interfaces
    <2>6. Known(c)' = Known(c)
      BY <2>5 DEF Known
    <2> QED  BY <1>2, <1>4, <2>1, <2>2, <2>3, <2>4, <2>5, <2>6 DEF OthersSame, Returned
  <1> QED  BY <1>3, <1>4

(* The other steps leave the interfaces in their lives.                     *)
Calm == /\ \A h \in Handles : itf'[h].state = itf[h].state /\ itf'[h].conn = itf[h].conn
        /\ UNCHANGED <<calls, connIf, ifs>>

(* All other steps are calm.                                                *)
LEMMA OthersCalm ==
    ASSUME IInv, [Next]_vars
    PROVE  \/ Attach \/ (\E h \in Handles : Detach(h)) \/ ProcessConn \/ EndRound
           \/ Calm /\ (query' = query \/ ~query' \/ connIf = NoHandle)
  <1>1. CASE \E h \in Handles : Ready(h)
    BY <1>1, ReadyIs DEF Calm, Same, Ready, bounds
  <1>2. CASE Prepare
    BY <1>2, PrepareIs DEF Calm, Same, Prepare, bounds
  <1>3. CASE ProcessData
    <2>1. PICK g : g = Receiver(rx[1].conn)
      OBVIOUS
    <2>2. \A h \in Handles : itf'[h].state = itf[h].state /\ itf'[h].conn = itf[h].conn
      BY <1>3, <2>1, DataIs
    <2> QED  BY <1>3, <2>2 DEF Calm, ProcessData, bounds
  <1>4. CASE UNCHANGED <<itf, calls, connIf, ifs>> /\ (query' = query \/ ~query')
    BY <1>4 DEF Calm
  <1>5. CASE List
    BY <1>5, NoQuery DEF Calm, List, CanCall, IInv
  <1> QED  BY <1>1, <1>2, <1>3, <1>4, <1>5 DEF Next, Round, Answer, vars, bounds, libvars, Process,
             ProcessFail, ProcessList, ProcessListNoMem, ProcessListNoReq, VMConnect,
             VMDisconnect, VMList, VMSend

(* Every step keeps the lives of the handles in their order.                *)
LEMMA StateStep ==
    ASSUME IInv, [Next]_vars
    PROVE  StateInv'
  <1>0. /\ StateInv /\ TypeOK /\ calls \in Nat /\ vmsent \in [Handles -> 0..MaxSend]
        /\ MaxSend \in Nat /\ Handles \subseteq Nat \ {0} /\ NoHandle \notin Handles
        /\ itf \in [Handles -> Interfaces] /\ vmconn \in [Conns -> Handles \cup {NoHandle}]
    BY Numbers DEF IInv, TypeOK
  <1>1. CASE Attach
    <2>1. /\ NewIf("pending", NoConn).state = "pending" /\ NewIf("pending", NoConn).conn = NoConn
      BY DEF NewIf
    <2>2. /\ calls' = calls + 1 /\ calls' \in Handles /\ connIf' = calls' /\ query'
          /\ connIf = NoHandle /\ itf[calls'].state = "unused"
          /\ itf'[calls'] = NewIf("pending", NoConn) /\ vmsent' = vmsent
          /\ \A g \in Handles : g # calls' => itf'[g] = itf[g]
      BY <1>1, AttachIs DEF OthersSame
    <2>3. ASSUME NEW g \in Handles, g # calls'
          PROVE  /\ itf'[g] = itf[g] /\ itf[g].state # "pending" /\ (g > calls <=> g > calls')
      BY <1>0, <2>2, <2>3 DEF StateInv
    <2> QED  BY <1>0, <2>1, <2>2, <2>3 DEF StateInv
  <1>2. ASSUME NEW h \in Handles, Detach(h)
        PROVE  StateInv'
    BY <1>0, <1>2, DetachIs DEF StateInv, OthersSame
  <1>3. CASE ProcessConn
    BY <1>0, <1>3, ConnIs DEF StateInv, OthersSame
  <1>4. CASE EndRound
    <2>1. CASE UNCHANGED <<itf, connIf>>
      BY <1>0, <1>4, <2>1, EndIs DEF StateInv
    <2>2. ASSUME NEW c \in Handles, Returned(c)
          PROVE  StateInv'
      BY <1>0, <1>4, <2>2, EndIs DEF StateInv, OthersSame, Returned
    <2> QED  BY <1>4, <2>1, <2>2, EndIs
  <1>5. CASE Calm /\ (query' = query \/ ~query' \/ connIf = NoHandle) /\ UNCHANGED vmsent
    BY <1>0, <1>5 DEF StateInv, Calm
  <1>6. CASE VMSend
    <2>1. PICK i \in Conns : /\ vmconn[i] # NoHandle
                             /\ vmsent' = [vmsent EXCEPT ![vmconn[i]] = @ + 1]
      BY <1>6 DEF VMSend
    <2>2. vmconn[i] \in Handles /\ itf[vmconn[i]].state # "unused"
      BY <1>0, <2>1 DEF IInv, VmInv
    <2>3. UNCHANGED <<itf, calls, connIf, query>>
      BY <1>6 DEF VMSend, libvars, bounds
    <2> QED  BY <1>0, <2>1, <2>2, <2>3 DEF StateInv
  <1>7. [Next]_vars => VMSend \/ UNCHANGED vmsent
    BY DEF Next, Round, Answer, vars, vmvars, Attach, List, Detach, Ready, Prepare,
           Process, ProcessData, ProcessConn, EndRound, ProcessFail, ProcessList,
           ProcessListNoMem, ProcessListNoReq, VMConnect, VMDisconnect, VMList
  <1> QED  BY <1>1, <1>2, <1>3, <1>4, <1>5, <1>6, <1>7, OthersCalm
-----------------------------------------------------------------------------
(* A handle once given is never new again, and once freed stays so.         *)
LEMMA Lives ==
    ASSUME IInv, [Next]_vars, NEW h \in Handles
    PROVE  /\ itf[h].state = "freed" => itf'[h].state = "freed"
           /\ itf[h].state # "unused" => itf'[h].state # "unused"
  <1>1. CASE Attach
    BY <1>1, AttachIs DEF OthersSame
  <1>2. ASSUME NEW g \in Handles, Detach(g)
        PROVE  /\ itf[h].state = "freed" => itf'[h].state = "freed"
               /\ itf[h].state # "unused" => itf'[h].state # "unused"
    BY <1>2, DetachIs DEF OthersSame
  <1>3. CASE ProcessConn
    BY <1>3, ConnIs DEF OthersSame
  <1>4. CASE EndRound
    BY <1>4, EndIs DEF OthersSame, Returned
  <1>5. CASE Calm
    BY <1>5 DEF Calm
  <1> QED  BY <1>1, <1>2, <1>3, <1>4, <1>5, OthersCalm

(* The answers of the VM.                                                   *)
LEMMA VMConnectIs ==
    ASSUME IInv, VMConnect
    PROVE  /\ Shorter(tx, tx') /\ tx[1].op = "conn" /\ query
           /\ connIf \in Handles /\ itf[connIf].state = "pending" /\ itf[connIf].conn = NoConn
           /\ UNCHANGED <<libvars, vmsent>>
           /\ \A k \in 1..Len(rx) : rx[k].kind = "data"
           /\ \A j \in 1..Len(tx') : tx'[j].op = "disc"
           /\ \/ \E i \in Conns : /\ vmconn[i] = NoHandle
                                  /\ vmconn' = [vmconn EXCEPT ![i] = connIf]
                                  /\ Longer(rx, rx', ConnRsp(i))
              \/ Longer(rx, rx', ConnRsp(NoConn)) /\ UNCHANGED vmconn
  <1>1. /\ TypeOK /\ QueryInv /\ StateInv /\ tx # <<>> /\ tx' = Tail(tx) /\ tx[1].op = "conn"
        /\ UNCHANGED <<libvars, vmsent>>
    BY DEF IInv, VMConnect
  <1>2. Shorter(tx, tx') /\ 1 \in 1..Len(tx)
    BY <1>1, TxTail DEF Shorter
  <1>3. /\ query /\ call = "attach" /\ tx[1].h = connIf
        /\ \A k \in 1..Len(rx) : rx[k].kind = "data"
        /\ \A j \in 1..Len(tx') : tx'[j].op = "disc"
    BY <1>1, <1>2 DEF QueryInv, Shorter
  <1>4. connIf \in Handles
    BY <1>1, <1>2, <1>3, TxKinds
  <1>5. itf[connIf].state = "pending" /\ itf[connIf].conn = NoConn
    BY <1>1, <1>3, <1>4 DEF StateInv
  <1>6. \/ \E i \in Conns : /\ vmconn[i] = NoHandle
                            /\ vmconn' = [vmconn EXCEPT ![i] = connIf]
                            /\ Longer(rx, rx', ConnRsp(i))
        \/ Longer(rx, rx', ConnRsp(NoConn)) /\ UNCHANGED vmconn
    BY <1>1, <1>3, RxAppend DEF VMConnect
  <1> QED  BY <1>1, <1>2, <1>3, <1>4, <1>5, <1>6

(* What the VM's handling of requests, and its packets, do.                 *)
LEMMA VMDisconnectIs ==
    ASSUME IInv, VMDisconnect
    PROVE  /\ Shorter(tx, tx') /\ tx[1].op = "disc" /\ tx[1].conn \in Conns
           /\ tx[1] = DiscReq(tx[1].conn) /\ 1 \in 1..Len(tx)
           /\ vmconn' = [vmconn EXCEPT ![tx[1].conn] = NoHandle]
           /\ UNCHANGED <<libvars, rx, vmsent>>
  <1>1. TypeOK /\ tx # <<>> /\ tx' = Tail(tx) /\ tx[1].op = "disc"
    BY DEF IInv, VMDisconnect
  <1>2. Shorter(tx, tx') /\ 1 \in 1..Len(tx)
    BY <1>1, TxTail DEF Shorter
  <1> QED  BY <1>1, <1>2, TxKinds DEF VMDisconnect

(* A page of the list.                                                      *)
LEMMA VMListIs ==
    ASSUME IInv, VMList
    PROVE  /\ Shorter(tx, tx') /\ tx[1].op = "list" /\ 1 \in 1..Len(tx)
           /\ UNCHANGED <<libvars, vmconn, vmsent>>
           /\ \A j \in 1..Len(tx') : tx'[j].op = "disc"
           /\ \A k \in 1..Len(rx) : rx[k].kind = "data"
           /\ \E f \in 0..NumDevices, n \in 0..NumDevices :
                /\ f = tx[1].from /\ n \in f..NumDevices
                /\ n > f \/ n = NumDevices
                /\ Longer(rx, rx', ListRsp(f, SubSeq(Devices, f + 1, n)))
  <1>1. /\ TypeOK /\ QueryInv /\ tx # <<>> /\ tx' = Tail(tx) /\ tx[1].op = "list"
        /\ UNCHANGED <<libvars, vmconn, vmsent>>
    BY DEF IInv, VMList
  <1>2. Shorter(tx, tx') /\ 1 \in 1..Len(tx)
    BY <1>1, TxTail DEF Shorter
  <1>3. PICK f \in 0..NumDevices : f = tx[1].from
    BY <1>1, <1>2, TxKinds
  <1>4. PICK n \in f..NumDevices : /\ n > f \/ n = NumDevices
                                   /\ rx' = Append(rx, ListRsp(f, SubSeq(Devices, f + 1, n)))
    BY <1>3, Numbers DEF VMList
  <1>5. Longer(rx, rx', ListRsp(f, SubSeq(Devices, f + 1, n)))
    BY <1>1, <1>4, RxAppend
  <1>6. n \in 0..NumDevices
    BY Numbers
  <1>7. /\ \A j \in 1..Len(tx') : tx'[j].op = "disc"
        /\ \A k \in 1..Len(rx) : rx[k].kind = "data"
    BY <1>1, <1>2 DEF QueryInv, Shorter
  <1> QED  BY <1>1, <1>2, <1>3, <1>4, <1>5, <1>6, <1>7

(* A packet to whatever is connected.                                       *)
LEMMA VMSendIs ==
    ASSUME IInv, VMSend
    PROVE  /\ UNCHANGED <<libvars, tx, vmconn>>
           /\ \E i \in Conns, h \in Handles :
                /\ h = vmconn[i] /\ vmsent[h] < MaxSend
                /\ vmsent' = [vmsent EXCEPT ![h] = @ + 1]
                /\ Longer(rx, rx', Data(i, h, vmsent[h] + 1))
  <1>1. PICK i \in Conns : /\ vmconn[i] # NoHandle /\ vmsent[vmconn[i]] < MaxSend
                           /\ vmsent' = [vmsent EXCEPT ![vmconn[i]] = @ + 1]
                           /\ rx' = Append(rx, Data(i, vmconn[i], vmsent[vmconn[i]] + 1))
    BY DEF VMSend
  <1>2. TypeOK /\ vmconn[i] \in Handles
    BY <1>1 DEF IInv, TypeOK
  <1>3. Longer(rx, rx', Data(i, vmconn[i], vmsent[vmconn[i]] + 1))
    BY <1>1, <1>2, RxAppend
  <1> QED  BY <1>1, <1>2, <1>3 DEF VMSend

(* The requests of the steps of the library, but for coremodel_detach.      *)
LEMMA TxAsks ==
    ASSUME IInv, [Next]_vars
    PROVE  \/ tx' = tx \/ (\E h \in Handles : Detach(h))
           \/ \E e : Longer(tx, tx', e) /\ e.op # "disc"
           \/ Answer
  <1>0. TypeOK
    BY DEF IInv
  <1>1. \A n : ConnReq(n).op # "disc" /\ ListReq(n).op # "disc"
    BY DEF ConnReq, ListReq
  <1>2. CASE \E e : e.op # "disc" /\ tx' = Append(tx, e)
    BY <1>0, <1>2, TxAppend
  <1>3. Attach \/ List => \E e : e.op # "disc" /\ tx' = Append(tx, e)
    BY <1>1 DEF Attach, List
  <1>4. ProcessList => UNCHANGED tx \/ \E e : e.op # "disc" /\ tx' = Append(tx, e)
    BY <1>1 DEF ProcessList
  <1> QED  BY <1>2, <1>3, <1>4 DEF Next, Round, vars, Ready, Prepare, Process, ProcessData,
             ProcessConn, EndRound, ProcessFail, ProcessListNoMem, ProcessListNoReq, VMSend

(* Every step keeps what the VM has behind its indices.                     *)
LEMMA VmStep ==
    ASSUME IInv, [Next]_vars
    PROVE  VmInv'
  <1>0. /\ TypeOK /\ QueryInv /\ StateInv /\ VmInv /\ IfsRight
        /\ vmconn \in [Conns -> Handles \cup {NoHandle}] /\ NoHandle \notin Handles
    BY Numbers DEF IInv, TypeOK, Routed
  <1>a. \A j \in 1..Len(tx) : tx[j].op = "disc" => tx[j].conn \in Conns
    BY <1>0, TxKinds
  <1>b. [Next]_vars => VMConnect \/ VMDisconnect \/ UNCHANGED vmconn
    BY DEF Next, Round, Answer, vars, vmvars, Attach, List, Detach, Ready, Prepare,
           Process, ProcessData, ProcessConn, EndRound, ProcessFail, ProcessList,
           ProcessListNoMem, ProcessListNoReq, VMList, VMSend
  <1>1. ASSUME NEW i \in Conns, vmconn'[i] # NoHandle
        PROVE  itf'[vmconn'[i]].state # "unused"
    <2>1. vmconn'[i] = vmconn[i] \/ (connIf \in Handles /\ vmconn'[i] = connIf)
      BY <1>0, <1>1, <1>b, VMConnectIs, VMDisconnectIs
    <2>2. vmconn'[i] \in Handles /\ itf[vmconn'[i]].state # "unused"
      BY <1>0, <1>1, <2>1 DEF VmInv, StateInv
    <2> QED  BY <2>2, Lives
  <1>2. ASSUME NEW j \in 1..Len(tx'), tx'[j].op = "disc"
        PROVE  /\ vmconn'[tx'[j].conn] # NoHandle
               /\ itf'[vmconn'[tx'[j].conn]].state = "freed"
               /\ \A k \in 1..Len(tx') : tx'[k].op = "disc" /\ tx'[k].conn = tx'[j].conn => k = j
    <2> DEFINE Q == /\ vmconn'[tx'[j].conn] # NoHandle
                    /\ itf'[vmconn'[tx'[j].conn]].state = "freed"
                    /\ \A k \in 1..Len(tx') : tx'[k].op = "disc" /\ tx'[k].conn = tx'[j].conn => k = j
    <2>0. ASSUME NEW n \in 1..Len(tx), tx[n].op = "disc"
          PROVE  vmconn[tx[n].conn] \in Handles /\ itf'[vmconn[tx[n].conn]].state = "freed"
      <3>1. vmconn[tx[n].conn] \in Handles /\ itf[vmconn[tx[n].conn]].state = "freed"
        BY <1>0, <1>a, <2>0 DEF VmInv
      <3> QED  BY <3>1, Lives
    <2>1. CASE tx' = tx /\ UNCHANGED vmconn
      BY <1>0, <1>2, <2>0, <2>1 DEF VmInv
    <2>2. ASSUME NEW e, Longer(tx, tx', e), e.op # "disc", UNCHANGED vmconn
          PROVE  Q
      BY <1>0, <1>2, <2>0, <2>2 DEF VmInv, Longer
    <2>3. ASSUME NEW h \in Handles, Detach(h)
          PROVE  Q
      <3>1. /\ itf[h].state = "attached" /\ itf'[h].state = "freed" /\ itf[h].conn \in Conns
            /\ UNCHANGED vmconn /\ tx' = Append(tx, DiscReq(itf[h].conn))
        BY <2>3, DetachIs
      <3>2. vmconn[itf[h].conn] = h
        BY <1>0, <3>1 DEF IfsRight, Linked
      <3>3. \A n \in 1..Len(tx) : tx[n].op = "disc" => tx[n].conn # itf[h].conn
        BY <1>0, <3>1, <3>2 DEF VmInv
      <3>4. Longer(tx, tx', DiscReq(itf[h].conn))
        BY <1>0, <3>1, TxAppend
      <3>5. DiscReq(itf[h].conn).conn = itf[h].conn
        BY DEF DiscReq
      <3>6. CASE j = Len(tx) + 1
        BY <1>0, <3>1, <3>2, <3>3, <3>4, <3>5, <3>6 DEF Longer
      <3>7. CASE j \in 1..Len(tx)
        BY <1>0, <1>2, <2>0, <3>1, <3>3, <3>4, <3>5, <3>7 DEF VmInv, Longer
      <3> QED  BY <3>4, <3>6, <3>7 DEF Longer
    <2>4. CASE VMConnect
      <3>1. j + 1 \in 1..Len(tx) /\ tx'[j] = tx[j + 1] /\ Shorter(tx, tx')
        BY <1>2, <2>4, VMConnectIs DEF Shorter
      <3>2. vmconn'[tx'[j].conn] = vmconn[tx'[j].conn]
        BY <1>0, <1>2, <1>a, <2>4, <3>1, VMConnectIs DEF VmInv
      <3> QED  BY <1>0, <1>2, <2>0, <3>1, <3>2 DEF VmInv, Shorter
    <2>5. CASE VMDisconnect
      <3>1. j + 1 \in 1..Len(tx) /\ tx'[j] = tx[j + 1] /\ Shorter(tx, tx') /\ j + 1 # 1
        BY <1>2, <2>5, VMDisconnectIs DEF Shorter
      <3>2. tx[j + 1].conn # tx[1].conn
        BY <1>0, <1>2, <2>5, <3>1, VMDisconnectIs DEF VmInv
      <3>3. vmconn'[tx'[j].conn] = vmconn[tx'[j].conn]
        BY <1>0, <1>2, <1>a, <2>5, <3>1, <3>2, VMDisconnectIs
      <3> QED  BY <1>0, <1>2, <2>0, <3>1, <3>3 DEF VmInv, Shorter
    <2>6. CASE VMList
      <3>1. j + 1 \in 1..Len(tx) /\ tx'[j] = tx[j + 1] /\ Shorter(tx, tx') /\ UNCHANGED vmconn
        BY <1>2, <2>6, VMListIs DEF Shorter
      <3> QED  BY <1>0, <1>2, <2>0, <3>1 DEF VmInv, Shorter
    <2>7. CASE ~(VMConnect \/ VMDisconnect \/ VMList)
      <3>1. UNCHANGED vmconn
        BY <1>b, <2>7
      <3>2. \/ tx' = tx \/ (\E h \in Handles : Detach(h))
            \/ \E e : Longer(tx, tx', e) /\ e.op # "disc"
        BY <2>7, TxAsks DEF Answer
      <3> HIDE DEF Q
      <3>3. CASE ~(tx' = tx)
        BY <2>2, <2>3, <3>1, <3>2, <3>3 DEF Q
      <3> QED  BY <2>1, <3>1, <3>3
    <2> QED  BY <2>4, <2>5, <2>6, <2>7
  <1>3. ASSUME NEW j \in 1..Len(rx'), rx'[j].kind = "conn", rx'[j].conn # NoConn
        PROVE  vmconn'[rx'[j].conn] = connIf'
    <2>1. CASE VMConnect
      <3>1. UNCHANGED connIf /\ \A k \in 1..Len(rx) : rx[k].kind = "data"
        BY <2>1, VMConnectIs DEF libvars
      <3>2. PICK i \in Conns \cup {NoConn} :
              /\ Longer(rx, rx', ConnRsp(i))
              /\ i # NoConn => vmconn' = [vmconn EXCEPT ![i] = connIf]
        BY <2>1, VMConnectIs
      <3>3. rx'[j] = ConnRsp(i)
        BY <1>3, <3>1, <3>2 DEF Longer
      <3>4. i # NoConn /\ rx'[j].conn = i
        BY <1>3, <3>3 DEF ConnRsp
      <3> QED  BY <1>0, <3>1, <3>2, <3>4
    <2>2. CASE ~VMConnect
      <3>1. PICK k \in 1..Len(rx) : rx[k] = rx'[j]
        <4>1. CASE rx' = rx
          BY <1>3, <4>1
        <4>2. CASE Shorter(rx, rx')
          BY <1>3, <4>2 DEF Shorter
        <4>3. ASSUME NEW e, Longer(rx, rx', e), e.kind # "conn"
              PROVE  \E k \in 1..Len(rx) : rx[k] = rx'[j]
          BY <1>3, <4>3 DEF Longer
        <4>4. CASE VMSend
          <5>1. \A i, h, n : Data(i, h, n).kind # "conn"
            BY DEF Data
          <5> QED  BY <4>3, <4>4, <5>1, VMSendIs
        <4>5. CASE VMList
          <5>1. \A f, s : ListRsp(f, s).kind # "conn"
            BY DEF ListRsp
          <5> QED  BY <4>3, <4>5, <5>1, VMListIs
        <4>6. CASE \E kind : First(kind) /\ Consume
          BY <1>0, <4>2, <4>6, RxTail
        <4>7. \/ rx' = rx \/ VMSend \/ VMList \/ \E kind : First(kind) /\ Consume
          BY <2>2 DEF Next, Round, Answer, vars, libvars, Attach, List, Detach, Ready, Prepare,
             Process, ProcessData, ProcessConn, EndRound, ProcessFail, ProcessList,
             ProcessListNoMem, ProcessListNoReq, VMDisconnect
        <4> QED  BY <4>1, <4>4, <4>5, <4>6, <4>7
      <3>2. /\ vmconn[rx[k].conn] = connIf /\ query /\ connIf # NoHandle /\ rx[k].conn \in Conns
            /\ connIf \in Handles
        BY <1>0, <1>3, <3>1, RxKinds DEF VmInv, QueryInv, TypeOK
      <3>3. connIf' = connIf
        <4>1. CASE Attach
          BY <3>2, <4>1, AttachIs
        <4>2. CASE EndRound
          BY <3>2, <4>2, EndIs DEF Returned
        <4> QED  BY <4>1, <4>2, OthersCalm, DetachIs, ConnIs DEF Calm
      <3>4. CASE VMDisconnect
        <4>1. vmconn[tx[1].conn] \in Handles /\ itf[vmconn[tx[1].conn]].state = "freed"
          BY <1>0, <3>4, VMDisconnectIs DEF VmInv
        <4>2. itf[connIf].state = "pending"
          BY <1>0, <3>2 DEF StateInv
        <4>3. rx[k].conn # tx[1].conn
          BY <3>2, <4>1, <4>2
        <4> QED  BY <1>0, <3>1, <3>2, <3>3, <3>4, <4>3, VMDisconnectIs
      <3> QED  BY <1>b, <2>2, <3>1, <3>2, <3>3, <3>4
    <2> QED  BY <2>1, <2>2
  <1> QED  BY <1>1, <1>2, <1>3 DEF VmInv
-----------------------------------------------------------------------------
(* The connected interfaces, and the list of them, after a step.            *)
LEMMA LinkedConn ==
    ASSUME TypeOK, StateInv, NEW h \in Handles, Linked(h)
    PROVE  itf[h].conn \in Conns /\ itf[h].state \in {"pending", "attached"}
  <1>1. itf[h].conn \in Conns \cup {NoConn}
    BY DEF TypeOK, Interfaces
  <1> QED  BY <1>1 DEF Linked, StateInv

(* The list after a detach has each of the other interfaces, once.          *)
LEMMA IfsDetach ==
    ASSUME TypeOK, IfsRight, NEW h \in Handles, Detach(h)
    PROVE  /\ \A i, j \in 1..Len(ifs') : i # j => ifs'[i] # ifs'[j]
           /\ \A g \in Handles : InIfs(g)' <=> InIfs(g) /\ g # h
  <1>0. ifs \in Seq(Handles) /\ Len(ifs) \in Nat
    BY LenProperties DEF TypeOK
  <1>1. InIfs(h)
    BY DEF Detach, IfsRight, Linked
  <1>2. PICK n \in 1..Len(ifs) : ifs[n] = h /\ ifs' = RemoveAt(ifs, n)
    BY <1>1 DEF Detach, InIfs
  <1>3. PICK t : t = RemoveAt(ifs, n)
    OBVIOUS
  <1>4. /\ Len(t) = Len(ifs) - 1
        /\ \A i \in 1..(Len(ifs) - 1) : t[i] = IF i < n THEN ifs[i] ELSE ifs[i + 1]
    BY <1>0, <1>3, RemoveAtIs
  <1>5. \A i, j \in 1..Len(t) : i # j => t[i] # t[j]
    BY <1>0, <1>2, <1>4 DEF IfsRight
  <1>6. ASSUME NEW g \in Handles
        PROVE  (\E i \in 1..Len(t) : t[i] = g) <=> InIfs(g) /\ g # h
    <2>1. ASSUME NEW i \in 1..Len(t), t[i] = g
          PROVE  InIfs(g) /\ g # h
      BY <1>0, <1>2, <1>4, <2>1 DEF IfsRight, InIfs
    <2>2. ASSUME InIfs(g), g # h
          PROVE  \E i \in 1..Len(t) : t[i] = g
      <3>1. PICK k \in 1..Len(ifs) : ifs[k] = g
        BY <2>2 DEF InIfs
      <3>2. CASE k < n
        <4>1. k \in 1..Len(t) /\ t[k] = g
          BY <1>0, <1>4, <3>1, <3>2
        <4> QED  BY <4>1
      <3>3. CASE k > n
        <4>1. k - 1 \in 1..Len(t) /\ t[k - 1] = g
          BY <1>0, <1>4, <3>1, <3>3
        <4> QED  BY <4>1
      <3> QED  BY <1>2, <2>2, <3>1, <3>2, <3>3
    <2> QED  BY <2>1, <2>2
  <1> QED  BY <1>2, <1>3, <1>5, <1>6 DEF InIfs

(* The list after an answer has the new interface as well, at its head.     *)
LEMMA IfsConn ==
    ASSUME TypeOK, IfsRight, NEW c \in Handles, ~InIfs(c), ifs' = <<c>> \o ifs
    PROVE  /\ \A i, j \in 1..Len(ifs') : i # j => ifs'[i] # ifs'[j]
           /\ \A g \in Handles : InIfs(g)' <=> InIfs(g) \/ g = c
  <1>0. ifs \in Seq(Handles) /\ <<c>> \in Seq(Handles) /\ Len(ifs) \in Nat
        /\ Len(<<c>>) = 1 /\ <<c>>[1] = c
    BY LenProperties DEF TypeOK
  <1>1. PICK t : t = <<c>> \o ifs
    OBVIOUS
  <1>2. /\ Len(t) = Len(ifs) + 1
        /\ \A i \in 1..(Len(ifs) + 1) : t[i] = IF i = 1 THEN c ELSE ifs[i - 1]
    BY <1>0, <1>1, ConcatProperties
  <1>3. \A k \in 1..Len(ifs) : ifs[k] # c
    BY DEF InIfs
  <1>4. ASSUME NEW i \in 1..Len(t), NEW j \in 1..Len(t), i # j
        PROVE  t[i] # t[j]
    <2>1. i # 1 => i - 1 \in 1..Len(ifs) /\ t[i] = ifs[i - 1] /\ t[i] # c
      BY <1>0, <1>2, <1>3
    <2>2. j # 1 => j - 1 \in 1..Len(ifs) /\ t[j] = ifs[j - 1] /\ t[j] # c
      BY <1>0, <1>2, <1>3
    <2>3. CASE i = 1 \/ j = 1
      BY <1>0, <1>2, <1>4, <2>1, <2>2, <2>3
    <2>4. CASE i # 1 /\ j # 1
      BY <1>0, <1>2, <1>4, <2>1, <2>2, <2>4 DEF IfsRight
    <2> QED  BY <2>3, <2>4
  <1>5. ASSUME NEW g \in Handles
        PROVE  (\E i \in 1..Len(t) : t[i] = g) <=> InIfs(g) \/ g = c
    <2>1. ASSUME NEW k \in 1..Len(ifs), ifs[k] = g
          PROVE  \E i \in 1..Len(t) : t[i] = g
      <3>1. k + 1 \in 1..Len(t) /\ t[k + 1] = g
        BY <1>0, <1>2, <2>1
      <3> QED  BY <3>1
    <2>2. 1 \in 1..Len(t) /\ t[1] = c
      BY <1>0, <1>2
    <2>3. ASSUME NEW i \in 1..Len(t), t[i] = g
          PROVE  InIfs(g) \/ g = c
      BY <1>0, <1>2, <2>3 DEF InIfs
    <2> QED  BY <2>1, <2>2, <2>3 DEF InIfs
  <1> QED  BY <1>1, <1>4, <1>5 DEF InIfs

(* What becomes of the connections.                                         *)
Connects(h) == ProcessConn /\ h = connIf /\ rx[1].conn # NoConn /\ itf'[h].conn = rx[1].conn

(* Which interfaces are linked changes with the list only.                  *)
LEMMA LinkedStep ==
    ASSUME IInv, [Next]_vars, NEW h \in Handles
    PROVE  /\ Linked(h) => /\ itf'[h].conn = itf[h].conn
                           /\ Linked(h)' \/ (Detach(h) /\ itf'[h].state = "freed")
           /\ Linked(h)' => Linked(h) \/ Connects(h)
  <1>0. TypeOK /\ StateInv /\ itf \in [Handles -> Interfaces]
    BY DEF IInv, TypeOK
  <1>1. CASE Attach
    <2>1. /\ NewIf("pending", NoConn).state = "pending" /\ NewIf("pending", NoConn).conn = NoConn
      BY DEF NewIf
    <2> QED  BY <1>1, <2>1, AttachIs DEF OthersSame, Linked
  <1>2. ASSUME NEW g \in Handles, Detach(g)
        PROVE  /\ Linked(h) => /\ itf'[h].conn = itf[h].conn
                               /\ Linked(h)' \/ (Detach(h) /\ itf'[h].state = "freed")
               /\ Linked(h)' => Linked(h) \/ Connects(h)
    BY <1>2, DetachIs DEF OthersSame, Linked
  <1>3. CASE ProcessConn
    BY <1>3, ConnIs DEF OthersSame, Linked, Connects
  <1>4. CASE EndRound
    <2>1. CASE UNCHANGED itf
      BY <2>1 DEF Linked
    <2>2. ASSUME NEW c \in Handles, Returned(c)
          PROVE  /\ Linked(h) => itf'[h].conn = itf[h].conn /\ Linked(h)'
                 /\ Linked(h)' => Linked(h)
      BY <2>2 DEF OthersSame, Linked, Returned
    <2> QED  BY <1>4, <2>1, <2>2, EndIs
  <1>5. CASE Calm
    BY <1>5 DEF Calm, Linked
  <1> QED  BY <1>1, <1>2, <1>3, <1>4, <1>5, OthersCalm

(* So the list stays that of the linked interfaces.                         *)
LEMMA IfsListStep ==
    ASSUME IInv, [Next]_vars
    PROVE  /\ \A i, j \in 1..Len(ifs') : i # j => ifs'[i] # ifs'[j]
           /\ \A h \in Handles : InIfs(h)' <=> Linked(h)'
  <1>0. TypeOK /\ IfsRight /\ StateInv
    BY DEF IInv, Routed
  <1>1. CASE Attach
    <2>1. ifs' = ifs
      BY <1>1, AttachIs
    <2>2. \A h \in Handles : Linked(h)' <=> Linked(h)
      <3>1. /\ NewIf("pending", NoConn).state = "pending" /\ NewIf("pending", NoConn).conn = NoConn
        BY DEF NewIf
      <3> QED  BY <1>1, <3>1, AttachIs DEF OthersSame, Linked
    <2> QED  BY <1>0, <2>1, <2>2 DEF IfsRight, InIfs
  <1>2. ASSUME NEW h \in Handles, Detach(h)
        PROVE  /\ \A i, j \in 1..Len(ifs') : i # j => ifs'[i] # ifs'[j]
               /\ \A g \in Handles : InIfs(g)' <=> Linked(g)'
    <2>1. \A g \in Handles : Linked(g)' <=> Linked(g) /\ g # h
      BY <1>2, DetachIs DEF OthersSame, Linked
    <2> QED  BY <1>0, <1>2, <2>1, IfsDetach DEF IfsRight
  <1>3. CASE ProcessConn
    <2>1. PICK c \in Handles :
            /\ itf[c].state = "pending" /\ itf[c].conn = NoConn
            /\ itf'[c].state = "pending" /\ itf'[c].conn = rx[1].conn
            /\ OthersSame(c)
            /\ ifs' = (IF rx[1].conn = NoConn THEN ifs ELSE <<c>> \o ifs)
      BY <1>3, ConnIs
    <2>2. ~InIfs(c)
      BY <1>0, <2>1 DEF IfsRight, Linked
    <2>3. \A g \in Handles : Linked(g)' <=> Linked(g) \/ (g = c /\ rx[1].conn # NoConn)
      BY <2>1 DEF OthersSame, Linked
    <2>4. CASE rx[1].conn = NoConn
      BY <1>0, <2>1, <2>3, <2>4 DEF IfsRight, InIfs
    <2>5. CASE rx[1].conn # NoConn
      BY <1>0, <2>1, <2>2, <2>3, <2>5, IfsConn DEF IfsRight
    <2> QED  BY <2>4, <2>5
  <1>4. CASE EndRound
    <2>1. CASE UNCHANGED itf
      BY <1>0, <1>4, <2>1, EndIs DEF Linked, IfsRight, InIfs
    <2>2. ASSUME NEW c \in Handles, Returned(c)
          PROVE  \A h \in Handles : Linked(h)' <=> Linked(h)
      BY <2>2 DEF OthersSame, Linked, Returned
    <2>3. CASE \E c \in Handles : Returned(c)
      BY <1>0, <1>4, <2>2, <2>3, EndIs DEF IfsRight, InIfs
    <2> QED  BY <1>4, <2>1, <2>3, EndIs
  <1>5. CASE Calm
    <2>1. \A h \in Handles : Linked(h)' <=> Linked(h)
      BY <1>5 DEF Calm, Linked
    <2> QED  BY <1>0, <1>5, <2>1 DEF Calm, IfsRight, InIfs
  <1> QED  BY <1>1, <1>2, <1>3, <1>4, <1>5, OthersCalm

(* A connected interface is the one the VM has behind its index.            *)
LEMMA IndexStep ==
    ASSUME IInv, [Next]_vars, NEW h \in Handles, Linked(h)'
    PROVE  vmconn'[itf'[h].conn] = h
  <1>0. /\ TypeOK /\ IfsRight /\ StateInv /\ VmInv /\ NoHandle \notin Handles
        /\ vmconn \in [Conns -> Handles \cup {NoHandle}]
    BY Numbers DEF IInv, Routed, TypeOK
  <1>1. CASE Connects(h)
    <2>1. vmconn[rx[1].conn] = connIf /\ UNCHANGED vmconn
      BY <1>0, <1>1, ConnIs DEF Connects, VmInv
    <2> QED  BY <1>1, <2>1 DEF Connects
  <1>2. CASE Linked(h)
    <2>1. itf'[h].conn = itf[h].conn /\ itf[h].conn \in Conns /\ vmconn[itf[h].conn] = h
      BY <1>0, <1>2, LinkedStep, LinkedConn DEF IfsRight
    <2>2. CASE VMConnect
      <3>1. \/ UNCHANGED vmconn
            \/ \E i \in Conns : vmconn[i] = NoHandle /\ vmconn' = [vmconn EXCEPT ![i] = connIf]
        BY <2>2, VMConnectIs
      <3> QED  BY <1>0, <2>1, <3>1
    <2>3. CASE VMDisconnect
      <3>1. itf[vmconn[tx[1].conn]].state = "freed"
        BY <1>0, <2>3, VMDisconnectIs DEF VmInv
      <3>2. tx[1].conn # itf[h].conn
        BY <1>2, <2>1, <3>1 DEF Linked
      <3> QED  BY <1>0, <2>1, <2>3, <3>2, VMDisconnectIs
    <2>4. [Next]_vars => VMConnect \/ VMDisconnect \/ UNCHANGED vmconn
      BY DEF Next, Round, Answer, vars, vmvars, Attach, List, Detach, Ready, Prepare,
           Process, ProcessData, ProcessConn, EndRound, ProcessFail, ProcessList,
           ProcessListNoMem, ProcessListNoReq, VMList, VMSend
    <2> QED  BY <2>1, <2>2, <2>3, <2>4
  <1> QED  BY <1>1, <1>2, LinkedStep

(* What is under way stays so until it is taken.                            *)
LEMMA RxMoves ==
    ASSUME IInv, [Next]_vars
    PROVE  \/ rx' = rx
           \/ Shorter(rx, rx') /\ (ProcessData \/ ProcessConn \/ ProcessList \/ ProcessListNoMem)
           \/ \E e : Longer(rx, rx', e) /\ (VMConnect \/ VMList \/ VMSend)
  <1>0. TypeOK
    BY DEF IInv
  <1>1. CASE ProcessData \/ ProcessConn \/ ProcessList \/ ProcessListNoMem
    <2>1. PICK kind : First(kind) /\ Consume
      BY <1>1 DEF ProcessData, ProcessConn, ProcessList, ProcessListNoMem
    <2> QED  BY <1>0, <1>1, <2>1, RxTail
  <1>2. CASE VMConnect
    <2>1. PICK e : rx' = Append(rx, e)
      BY <1>2 DEF VMConnect
    <2> QED  BY <1>0, <1>2, <2>1, RxAppend
  <1>3. CASE VMList
    <2>1. PICK e : rx' = Append(rx, e)
      BY <1>3 DEF VMList
    <2> QED  BY <1>0, <1>3, <2>1, RxAppend
  <1>4. CASE VMSend
    <2>1. PICK e : rx' = Append(rx, e)
      BY <1>4 DEF VMSend
    <2> QED  BY <1>0, <1>4, <2>1, RxAppend
  <1>5. CASE UNCHANGED rx
    BY <1>5
  <1> QED  BY <1>1, <1>2, <1>3, <1>4, <1>5 DEF Next, Round, Answer, vars, Attach, List, Detach,
             Ready, Prepare, Process, ProcessFail, EndRound, ProcessListNoReq, VMDisconnect

(* An answer under way stays there until it is processed.                   *)
LEMMA ConnStays ==
    ASSUME IInv, [Next]_vars, NEW j \in 1..Len(rx), rx[j].kind = "conn"
    PROVE  (\E k \in 1..Len(rx') : rx'[k] = rx[j]) \/ (ProcessConn /\ rx[1] = rx[j])
  <1>1. CASE rx' = rx
    BY <1>1
  <1>2. CASE Shorter(rx, rx') /\ (ProcessData \/ ProcessConn \/ ProcessList \/ ProcessListNoMem)
    <2>1. j = 1 => ProcessConn
      <3>1. ProcessData \/ ProcessList \/ ProcessListNoMem => rx[1].kind # "conn"
        BY DEF ProcessData, ProcessList, ProcessListNoMem, First
      <3> QED  BY <1>2, <3>1
    <2> QED  BY <1>2, <2>1 DEF Shorter
  <1>3. CASE \E e : Longer(rx, rx', e)
    BY <1>3 DEF Longer
  <1> QED  BY <1>1, <1>2, <1>3, RxMoves

(* And so does a disconnect.                                                *)
LEMMA DiscStays ==
    ASSUME IInv, [Next]_vars, NEW j \in 1..Len(tx), tx[j].op = "disc"
    PROVE  (\E k \in 1..Len(tx') : tx'[k] = tx[j]) \/ (VMDisconnect /\ tx[1] = tx[j])
  <1>0. TypeOK
    BY DEF IInv
  <1>1. CASE tx' = tx
    BY <1>1
  <1>2. CASE \E e : Longer(tx, tx', e)
    BY <1>2 DEF Longer
  <1>3. CASE \E h \in Handles : Detach(h)
    <2>1. PICK e : tx' = Append(tx, e)
      BY <1>3 DEF Detach
    <2> QED  BY <1>0, <1>2, <2>1, TxAppend
  <1>4. CASE Answer
    <2>1. Shorter(tx, tx') /\ (tx[1].op = "disc" => VMDisconnect)
      BY <1>4, VMConnectIs, VMDisconnectIs, VMListIs DEF Answer
    <2> QED  BY <2>1 DEF Shorter
  <1> QED  BY <1>1, <1>2, <1>3, <1>4, TxAsks

(* The VM and the library agree on who has an index, or are about to.       *)
LEMMA OwnerStep ==
    ASSUME IInv, [Next]_vars, NEW i \in Conns, NEW h \in Handles, vmconn'[i] = h
    PROVE  \/ Linked(h)' /\ itf'[h].conn = i
           \/ \E j \in 1..Len(tx') : tx'[j] = DiscReq(i)
           \/ \E j \in 1..Len(rx') : rx'[j] = ConnRsp(i)
  <1>0. /\ TypeOK /\ IfsRight /\ StateInv /\ VmInv /\ NoHandle \notin Handles
        /\ vmconn \in [Conns -> Handles \cup {NoHandle}]
    BY Numbers DEF IInv, Routed, TypeOK
  <1>a. DiscReq(i).op = "disc" /\ DiscReq(i).conn = i
    BY DEF DiscReq
  <1>b. ConnRsp(i).kind = "conn" /\ ConnRsp(i).conn = i /\ i # NoConn
    BY SessionAssumption DEF ConnRsp
  <1>1. CASE vmconn[i] = h
    <2>1. CASE Linked(h) /\ itf[h].conn = i
      <3>1. CASE Detach(h)
        <4>1. tx' = Append(tx, DiscReq(i))
          BY <2>1, <3>1, DetachIs
        <4>2. Longer(tx, tx', DiscReq(i))
          BY <1>0, <4>1, TxAppend
        <4> QED  BY <4>2 DEF Longer
      <3>2. CASE ~Detach(h)
        BY <2>1, <3>2, LinkedStep
      <3> QED  BY <3>1, <3>2
    <2>2. CASE \E j \in 1..Len(tx) : tx[j] = DiscReq(i)
      <3>1. PICK j \in 1..Len(tx) : tx[j] = DiscReq(i)
        BY <2>2
      <3>2. CASE VMDisconnect /\ tx[1] = tx[j]
        BY <1>0, <1>a, <3>1, <3>2, VMDisconnectIs
      <3>3. CASE ~(VMDisconnect /\ tx[1] = tx[j])
        BY <1>a, <3>1, <3>3, DiscStays
      <3> QED  BY <3>2, <3>3
    <2>3. CASE \E j \in 1..Len(rx) : rx[j] = ConnRsp(i)
      <3>1. PICK j \in 1..Len(rx) : rx[j] = ConnRsp(i)
        BY <2>3
      <3>2. CASE ProcessConn /\ rx[1] = rx[j]
        <4>1. vmconn[i] = connIf
          BY <1>0, <1>b, <3>1 DEF VmInv
        <4>2. itf'[h].state = "pending" /\ itf'[h].conn = i
          BY <1>1, <1>b, <3>1, <3>2, <4>1, ConnIs
        <4> QED  BY <1>b, <4>2 DEF Linked
      <3>3. CASE ~(ProcessConn /\ rx[1] = rx[j])
        BY <1>b, <3>1, <3>3, ConnStays
      <3> QED  BY <3>2, <3>3
    <2> QED  BY <1>0, <1>1, <2>1, <2>2, <2>3 DEF IfsRight
  <1>2. CASE vmconn[i] # h
    <2>1. CASE VMConnect
      <3>1. PICK g \in Conns : vmconn' = [vmconn EXCEPT ![g] = connIf] /\ Longer(rx, rx', ConnRsp(g))
        BY <1>2, <2>1, VMConnectIs
      <3>2. g = i
        BY <1>0, <1>2, <3>1
      <3> QED  BY <3>1, <3>2 DEF Longer
    <2>2. CASE VMDisconnect
      BY <1>0, <1>2, <2>2, VMDisconnectIs
    <2>3. [Next]_vars => VMConnect \/ VMDisconnect \/ UNCHANGED vmconn
      BY DEF Next, Round, Answer, vars, vmvars, Attach, List, Detach, Ready, Prepare,
           Process, ProcessData, ProcessConn, EndRound, ProcessFail, ProcessList,
           ProcessListNoMem, ProcessListNoReq, VMList, VMSend
    <2> QED  BY <1>2, <2>1, <2>2, <2>3
  <1> QED  BY <1>1, <1>2

(* Every step keeps the list of interfaces right.                           *)
LEMMA IfsStep ==
    ASSUME IInv, [Next]_vars
    PROVE  IfsRight'
  <1>1. vmconn' \in [Conns -> Handles \cup {NoHandle}]
    BY VMTypesStep DEF VMTypes
  <1>2. ASSUME NEW i \in Conns, vmconn'[i] # NoHandle
        PROVE  \/ Linked(vmconn[i])' /\ itf'[vmconn'[i]].conn = i
               \/ \E j \in 1..Len(tx') : tx'[j] = DiscReq(i)
               \/ \E j \in 1..Len(rx') : rx'[j] = ConnRsp(i)
    <2>1. PICK h \in Handles : vmconn'[i] = h
      BY <1>1, <1>2
    <2>2. Linked(h)' => Linked(vmconn[i])'
      BY <2>1 DEF Linked
    <2> QED  BY <2>1, <2>2, OwnerStep
  <1>3. \A h \in Handles : Linked(h)' => vmconn'[itf'[h].conn] = h
    BY IndexStep
  <1> QED  BY <1>2, <1>3, IfsListStep DEF IfsRight
-----------------------------------------------------------------------------
(* The list of devices.                                                     *)
LEMMA ListQuiet ==
    ASSUME ListInv, UNCHANGED devices,
           call' # "list" => devices = Null,
           call' = "list" /\ ~query' => devices \in {Null, Devices},
           \A j \in 1..Len(tx') : tx'[j].op = "list" => \E k \in 1..Len(tx) : tx[k] = tx'[j],
           \A j \in 1..Len(rx') : rx'[j].kind = "list" => \E k \in 1..Len(rx) : rx[k] = rx'[j]
    PROVE  ListInv'
  <1>1. Listed' = Listed
    BY DEF Listed
  <1>2. ASSUME NEW j \in 1..Len(tx'), tx'[j].op = "list"
        PROVE  Listed = Prefix(tx'[j].from)
    BY <1>2 DEF ListInv
  <1>3. ASSUME NEW j \in 1..Len(rx'), rx'[j].kind = "list"
        PROVE  /\ rx'[j].from <= Len(Listed)
               /\ \E n \in rx'[j].from..NumDevices :
                    /\ n > rx'[j].from \/ n = NumDevices
                    /\ rx'[j].items = SubSeq(Devices, rx'[j].from + 1, n)
    <2>1. PICK k \in 1..Len(rx) : rx[k] = rx'[j]
      BY <1>3
    <2> QED  BY <1>3, <2>1 DEF ListInv
  <1>4. devices' # Null => \E n \in 1..NumDevices : devices' = Prefix(n)
    BY DEF ListInv
  <1> HIDE DEF ListInv
  <1> QED  BY <1>1, <1>2, <1>3, <1>4 DEF ListInv, Prefix

(* A page is added.                                                         *)
LEMMA PageStep ==
    ASSUME TypeOK, QueryInv, ListInv, 1 \in 1..Len(rx), rx[1].kind = "list",
           rx[1].items # <<>>, devices' = Merged(rx[1]), UNCHANGED <<call, query>>,
           \/ UNCHANGED <<tx, rx>>
           \/ Longer(tx, tx', ListReq(Len(devices'))) /\ Shorter(rx, rx')
    PROVE  ListInv'
  <1>1. PICK n \in 1..NumDevices : /\ devices' = Prefix(n) /\ Len(devices') = n /\ devices' # Null
                                   /\ rx[1].from <= n
    BY PageIs
  <1>2. Listed' = devices'
    BY <1>1 DEF Listed
  <1>3. query /\ call = "list" /\ \A j \in 1..Len(tx) : tx[j].op = "disc"
    BY DEF QueryInv
  <1>4. \A j \in 1..Len(rx) : rx[j].kind = "list" => j = 1
    BY DEF QueryInv
  <1>5. ASSUME NEW j \in 1..Len(tx'), tx'[j].op = "list"
        PROVE  Listed' = Prefix(tx'[j].from)
    <2>1. tx'[j] = ListReq(Len(devices'))
      BY <1>3, <1>5 DEF Longer
    <2>2. tx'[j].from = n
      BY <1>1, <2>1 DEF ListReq
    <2> QED  BY <1>1, <1>2, <2>2
  <1>6. ASSUME NEW j \in 1..Len(rx'), rx'[j].kind = "list"
        PROVE  /\ rx'[j].from <= Len(Listed')
               /\ \E m \in rx'[j].from..NumDevices :
                    /\ m > rx'[j].from \/ m = NumDevices
                    /\ rx'[j].items = SubSeq(Devices, rx'[j].from + 1, m)
    <2>1. rx'[j] = rx[1]
      BY <1>4, <1>6 DEF Shorter
    <2> QED  BY <1>1, <1>2, <2>1 DEF ListInv
  <1> QED  BY <1>1, <1>2, <1>3, <1>5, <1>6 DEF ListInv, Prefix

(* Every step keeps the list of devices a beginning of the VM's.            *)
LEMMA ListStep ==
    ASSUME IInv, [Next]_vars
    PROVE  ListInv'
  <1>0. /\ TypeOK /\ QueryInv /\ ListInv /\ NumDevices \in Nat /\ 0 \in 0..NumDevices
        /\ call \in {"none", "attach", "list"}
    BY Numbers DEF IInv, TypeOK
  <1>1. CASE Attach \/ \E h \in Handles : Detach(h)
    <2>1. /\ UNCHANGED <<devices, rx>> /\ call = "none" /\ call' \in {"none", "attach"}
          /\ \E n : tx' = Append(tx, ConnReq(n)) \/ tx' = Append(tx, DiscReq(n))
      BY <1>1 DEF Attach, Detach, CanCall
    <2>2. PICK e : Longer(tx, tx', e) /\ e.op # "list"
      <3>1. \A n : ConnReq(n).op # "list" /\ DiscReq(n).op # "list"
        BY DEF ConnReq, DiscReq
      <3> QED  BY <1>0, <2>1, <3>1, TxAppend
    <2> QED  BY <1>0, <2>1, <2>2, ListQuiet DEF ListInv, Longer
  <1>2. CASE List
    <2>1. /\ UNCHANGED <<devices, rx>> /\ call = "none" /\ call' = "list" /\ query'
          /\ tx' = Append(tx, ListReq(0))
      BY <1>2 DEF List, CanCall
    <2>2. Longer(tx, tx', ListReq(0)) /\ ListReq(0).from = 0
      BY <1>0, <2>1, TxAppend DEF ListReq
    <2>3. devices' = Null /\ Listed' = <<>> /\ Prefix(0) = <<>>
      BY <1>0, <2>1, PrefixIs DEF ListInv, Listed
    <2>4. /\ \A j \in 1..Len(tx) : tx[j].op = "disc"
          /\ \A j \in 1..Len(rx) : rx[j].kind = "data"
      BY <1>0, <2>1, NoQuery
    <2>5. \A j \in 1..Len(tx') : tx'[j].op = "list" => tx'[j] = ListReq(0)
      BY <2>2, <2>4 DEF Longer
    <2> QED  BY <2>1, <2>2, <2>3, <2>4, <2>5 DEF ListInv, Prefix
  <1>3. CASE ProcessConn
    <2>1. /\ UNCHANGED <<devices, call, tx>> /\ 1 \in 1..Len(rx) /\ rx[1].kind = "conn"
          /\ First("conn") /\ Consume
      BY <1>3, ConnIs DEF ProcessConn
    <2>2. call = "attach" /\ devices = Null /\ Shorter(rx, rx')
      BY <1>0, <2>1, RxTail DEF QueryInv, ListInv
    <2> QED  BY <1>0, <2>1, <2>2, ListQuiet DEF Shorter
  <1>4. CASE ProcessList
    <2>1. 1 \in 1..Len(rx) /\ rx[1].kind = "list" /\ Shorter(rx, rx') /\ UNCHANGED call
      BY <1>0, <1>4, RxTail DEF ProcessList
    <2>2. query /\ call = "list"
      BY <1>0, <2>1 DEF QueryInv
    <2>3. CASE rx[1].items = <<>>
      <3>1. UNCHANGED <<devices, tx>> /\ Listed = Devices
        BY <1>0, <1>4, <2>1, <2>2, <2>3, PageIs DEF ProcessList
      <3>2. devices \in {Null, Devices}
        BY <3>1 DEF Listed
      <3> QED  BY <1>0, <2>1, <2>2, <3>1, <3>2, ListQuiet DEF Shorter
    <2>4. CASE rx[1].items # <<>>
      <3>1. devices' = Merged(rx[1]) /\ tx' = Append(tx, ListReq(Len(devices'))) /\ UNCHANGED query
        BY <1>4, <2>2, <2>4 DEF ProcessList
      <3>2. Longer(tx, tx', ListReq(Len(devices')))
        BY <1>0, <3>1, TxAppend
      <3> QED  BY <1>0, <2>1, <2>4, <3>1, <3>2, PageStep
    <2> QED  BY <2>3, <2>4
  <1>5. CASE ProcessListNoMem
    <2>1. /\ 1 \in 1..Len(rx) /\ rx[1].kind = "list" /\ Shorter(rx, rx') /\ UNCHANGED <<call, tx>>
          /\ devices' = Null /\ ~query'
      BY <1>0, <1>5, RxTail DEF ProcessListNoMem
    <2>2. /\ \A j \in 1..Len(tx') : tx'[j].op = "disc"
          /\ \A j \in 1..Len(rx') : rx'[j].kind = "data"
      <3>1. \A j \in 1..Len(rx) : rx[j].kind = "data" \/ j = 1
        BY <1>0, <2>1 DEF QueryInv
      <3>2. \A j \in 1..Len(tx) : tx[j].op = "disc"
        BY <1>0, <2>1 DEF QueryInv
      <3> QED  BY <2>1, <3>1, <3>2 DEF Shorter
    <2> QED  BY <2>1, <2>2 DEF ListInv
  <1>6. CASE ProcessListNoReq
    <2>1. 1 \in 1..Len(rx) /\ rx[1].kind = "list"
      BY <1>0, <1>6, ConsumeIs DEF ProcessListNoReq
    <2> QED  BY <1>0, <1>6, <2>1, PageStep DEF ProcessListNoReq
  <1>7. CASE EndRound
    <2>1. UNCHANGED <<query, tx, rx>>
      BY <1>7 DEF EndRound
    <2>2. CASE UNCHANGED <<devices, call>>
      BY <1>0, <2>1, <2>2, ListQuiet DEF ListInv
    <2>3. CASE ~UNCHANGED <<devices, call>>
      <3>1. call' = "none" /\ ~query /\ (UNCHANGED devices \/ devices' = Null)
        BY <1>7, <2>3 DEF EndRound, AttachReturns, ListReturns
      <3>2. devices' = Null
        BY <1>0, <1>7, <2>3, <3>1 DEF ListInv, EndRound, AttachReturns, ListReturns
      <3>3. /\ \A j \in 1..Len(tx') : tx'[j].op = "disc"
            /\ \A j \in 1..Len(rx') : rx'[j].kind = "data"
        BY <1>0, <2>1, <3>1 DEF QueryInv
      <3> QED  BY <3>1, <3>2, <3>3 DEF ListInv
    <2> QED  BY <2>2, <2>3
  <1>8. CASE VMConnect \/ VMDisconnect \/ VMSend
    <2>1. UNCHANGED <<devices, call, query>>
      BY <1>8 DEF VMConnect, VMDisconnect, VMSend, libvars
    <2>2. tx' = tx \/ Shorter(tx, tx')
      BY <1>8, VMConnectIs, VMDisconnectIs, VMSendIs
    <2>3. rx' = rx \/ \E e : Longer(rx, rx', e) /\ e.kind # "list"
      <3>1. \A i, h, n : ConnRsp(i).kind # "list" /\ Data(i, h, n).kind # "list"
        BY DEF ConnRsp, Data
      <3> QED  BY <1>8, <3>1, VMConnectIs, VMDisconnectIs, VMSendIs
    <2>4. \A j \in 1..Len(tx') : \E k \in 1..Len(tx) : tx[k] = tx'[j]
      BY <2>2 DEF Shorter
    <2>5. \A j \in 1..Len(rx') : rx'[j].kind = "list" => \E k \in 1..Len(rx) : rx[k] = rx'[j]
      BY <2>3 DEF Longer
    <2> QED  BY <1>0, <2>1, <2>4, <2>5, ListQuiet DEF ListInv
  <1>9. CASE VMList
    <2>1. UNCHANGED <<devices, call, query>>
      BY <1>9 DEF VMList, libvars
    <2>2. PICK f \in 0..NumDevices, n \in 0..NumDevices :
            /\ f = tx[1].from /\ n \in f..NumDevices
            /\ n > f \/ n = NumDevices
            /\ Longer(rx, rx', ListRsp(f, SubSeq(Devices, f + 1, n)))
      BY <1>9, VMListIs
    <2>3. /\ Shorter(tx, tx') /\ tx[1].op = "list" /\ 1 \in 1..Len(tx)
          /\ \A j \in 1..Len(tx') : tx'[j].op = "disc"
          /\ \A k \in 1..Len(rx) : rx[k].kind = "data"
      BY <1>9, VMListIs
    <2>4. Listed' = Listed /\ Listed = Prefix(f) /\ Len(Listed) = f
      BY <1>0, <2>1, <2>2, <2>3, PrefixIs DEF ListInv, Listed
    <2>5. \A j \in 1..Len(rx') : rx'[j].kind = "list"
            => rx'[j].from = f /\ rx'[j].items = SubSeq(Devices, f + 1, n)
      <3>1. PICK s : s = SubSeq(Devices, f + 1, n)
        OBVIOUS
      <3>2. \A j \in 1..Len(rx') : rx'[j].kind = "list" => rx'[j] = ListRsp(f, s)
        BY <2>2, <2>3, <3>1 DEF Longer
      <3>3. ListRsp(f, s).from = f /\ ListRsp(f, s).items = s
        BY DEF ListRsp
      <3> QED  BY <3>1, <3>2, <3>3
    <2>6. ASSUME NEW j \in 1..Len(rx'), rx'[j].kind = "list"
          PROVE  /\ rx'[j].from <= Len(Listed')
                 /\ \E m \in rx'[j].from..NumDevices :
                      /\ m > rx'[j].from \/ m = NumDevices
                      /\ rx'[j].items = SubSeq(Devices, rx'[j].from + 1, m)
      <3>1. rx'[j].from = f /\ rx'[j].items = SubSeq(Devices, f + 1, n)
        BY <2>5, <2>6
      <3>2. f <= Len(Listed') /\ n \in f..NumDevices
        BY <2>2, <2>4
      <3> QED  BY <2>2, <3>1, <3>2
    <2> QED  BY <1>0, <2>1, <2>3, <2>4, <2>6 DEF ListInv, Prefix
  <1>10. CASE UNCHANGED <<devices, call, query, tx>> /\ (rx' = rx \/ Shorter(rx, rx'))
    BY <1>0, <1>10, ListQuiet DEF ListInv, Shorter
  <1>11. (\E h \in Handles : Ready(h)) \/ Prepare \/ Process \/ ProcessFail \/ UNCHANGED vars
          => UNCHANGED <<devices, call, query, tx, rx>>
    BY DEF Ready, Prepare, Process, ProcessFail, vars
  <1>12. ProcessData => UNCHANGED <<devices, call, query, tx>> /\ Shorter(rx, rx')
    BY <1>0, RxTail DEF ProcessData
  <1> QED  BY <1>1, <1>2, <1>3, <1>4, <1>5, <1>6, <1>7, <1>8, <1>9, <1>10, <1>11, <1>12
           DEF Next, Round, Answer

(* What coremodel_list returns is all of it, or nothing.                    *)
LEMMA ListRightStep ==
    ASSUME IInv, [Next]_vars
    PROVE  ListRight'
  <1>1. CASE EndRound /\ call = "list" /\ ~query
    BY <1>1 DEF EndRound, ListReturns, IInv, ListInv, ListRight, Devices
  <1>2. CASE ~(EndRound /\ call = "list" /\ ~query)
    <2>1. result' = result
      <3>1. EndRound => result' = result
        BY <1>2 DEF EndRound, AttachReturns, ListReturns, IInv, TypeOK
      <3> QED  BY <3>1 DEF Next, Round, Answer, vars, libvars, Attach, List, Detach, Ready, Prepare,
             Process, ProcessData, ProcessConn, ProcessFail, ProcessList,
             ProcessListNoMem, ProcessListNoReq, VMConnect, VMDisconnect, VMList, VMSend
    <2> QED  BY <2>1 DEF IInv, ListRight
  <1> QED  BY <1>1, <1>2

(* No callback runs while its interface is being attached.                  *)
LEMMA CallbackStep ==
    ASSUME IInv, [Next]_vars
    PROVE  NoEarlyCallback'
  <1> SUFFICES ASSUME NEW h \in Handles, itf'[h].state = "pending"
               PROVE  itf'[h].got = <<>>
    BY DEF NoEarlyCallback
  <1>0. itf[h].state = "pending" => itf[h].got = <<>>
    BY DEF IInv, Routed, NoEarlyCallback
  <1>1. CASE Attach
    BY <1>0, <1>1, AttachIs DEF OthersSame, NewIf
  <1>2. CASE \E g \in Handles : Detach(g)
    BY <1>0, <1>2, DetachIs DEF OthersSame
  <1>3. CASE (\E g \in Handles : Ready(g)) \/ Prepare
    BY <1>0, <1>3, ReadyIs, PrepareIs DEF Same
  <1>4. CASE ProcessData
    <2>1. PICK g : g = Receiver(rx[1].conn)
      OBVIOUS
    <2> QED  BY <1>0, <1>4, <2>1, DataIs
  <1>5. CASE ProcessConn
    BY <1>0, <1>5, ConnIs DEF OthersSame
  <1>6. CASE EndRound
    BY <1>0, <1>6, EndIs DEF OthersSame, Returned
  <1>7. CASE UNCHANGED itf
    BY <1>0, <1>7
  <1> QED  BY <1>1, <1>2, <1>3, <1>4, <1>5, <1>6, <1>7 DEF Next, Round, Answer, vars, libvars, List,
             Process, ProcessFail, ProcessList, ProcessListNoMem, ProcessListNoReq, VMConnect,
             VMDisconnect, VMList, VMSend
-----------------------------------------------------------------------------
(* The packets under way.                                                   *)
LEMMA ConnIfKept ==
    ASSUME IInv, [Next]_vars, query
    PROVE  connIf' = connIf
  <1>1. CASE Attach
    BY <1>1, AttachIs
  <1>2. CASE EndRound
    BY <1>2, EndIs DEF Returned
  <1> QED  BY <1>1, <1>2, OthersCalm, DetachIs, ConnIs DEF Calm

(* One that was under way before the step, s places further behind.         *)
LEMMA DataMoved ==
    ASSUME IInv, [Next]_vars,
           NEW s \in {0, 1}, NEW j \in 1..Len(rx'), Len(rx) \in Nat, j + s \in 1..Len(rx),
           \A k \in 1..j : rx'[k] = rx[k + s],
           s = 1 /\ rx[1].kind = "conn" => ProcessConn,
           rx'[j].kind = "data"
    PROVE  /\ itf'[rx'[j].h].state # "unused"
           /\ itf'[rx'[j].h].state # "freed" =>
                \/ Linked(rx[j].h)' /\ itf'[rx'[j].h].conn = rx'[j].conn
                \/ \E k \in 1..(j - 1) : rx'[k].kind = "conn" /\ rx'[k].conn = rx'[j].conn
           /\ \A g \in Handles : Linked(g)' /\ itf'[g].conn = rx'[j].conn => rx'[j].h = g
           /\ \A k \in 1..(j - 1) :
                rx'[k].kind = "conn" /\ rx'[k].conn = rx'[j].conn => rx'[j].h = connIf'
  <1>0. /\ TypeOK /\ QueryInv /\ DataInv /\ IfsRight
    BY DEF IInv, Routed
  <1>1. PICK n \in 1..Len(rx) : n = j + s /\ rx[n] = rx'[j] /\ rx[n].kind = "data"
    OBVIOUS
  <1>2. PICK h \in Handles, i \in Conns : h = rx[n].h /\ i = rx[n].conn /\ i # NoConn
    BY <1>0, <1>1, RxKinds, SessionAssumption
  <1>3. Linked(h)' => Linked(rx[j].h)'
    BY <1>1, <1>2 DEF Linked
  <1>4. itf'[h].state # "unused"
    BY <1>0, <1>1, <1>2, Lives DEF DataInv
  <1>5. ASSUME itf'[h].state # "freed"
        PROVE  \/ Linked(h)' /\ itf'[h].conn = i
               \/ \E k \in 1..(j - 1) : rx'[k].kind = "conn" /\ rx'[k].conn = i
    <2>1. itf[h].state # "freed"
      BY <1>5, Lives
    <2>2. CASE Linked(h) /\ itf[h].conn = i
      BY <1>5, <2>2, LinkedStep
    <2>3. CASE \E k \in 1..(n - 1) : rx[k].kind = "conn" /\ rx[k].conn = i
      <3>1. PICK k \in 1..(n - 1) : rx[k].kind = "conn" /\ rx[k].conn = i
        BY <2>3
      <3>2. CASE s = 1 /\ k = 1
        <4>1. ProcessConn /\ h = connIf /\ rx[1].conn = i
          BY <1>0, <1>1, <1>2, <3>1, <3>2 DEF DataInv
        <4>2. itf'[h].state = "pending" /\ itf'[h].conn = i
          BY <4>1, ConnIs
        <4> QED  BY <1>2, <4>2 DEF Linked
      <3>3. CASE ~(s = 1 /\ k = 1)
        <4>1. PICK m \in 1..(j - 1) : m + s = k /\ m \in 1..j
          <5>1. k - s \in 1..(j - 1) /\ (k - s) + s = k /\ k - s \in 1..j
            BY <1>1, <3>3
          <5> QED  BY <5>1
        <4>2. rx'[m] = rx[k]
          BY <4>1
        <4> QED  BY <3>1, <4>1, <4>2
      <3> QED  BY <3>2, <3>3
    <2> QED  BY <1>0, <1>1, <1>2, <2>1, <2>2, <2>3 DEF DataInv
  <1>6. ASSUME NEW g \in Handles, Linked(g)', itf'[g].conn = i
        PROVE  h = g
    <2>1. CASE Linked(g)
      BY <1>0, <1>1, <1>2, <1>6, <2>1, LinkedStep DEF DataInv
    <2>2. CASE Connects(g)
      <3>1. rx[1].kind = "conn" /\ rx[1].conn = i /\ g = connIf /\ n # 1
        BY <1>1, <1>6, <2>2, ConnIs DEF Connects
      <3>2. 1 \in 1..(n - 1)
        BY <3>1
      <3> QED  BY <1>0, <1>1, <1>2, <3>1, <3>2 DEF DataInv
    <2> QED  BY <1>6, <2>1, <2>2, LinkedStep
  <1>7. ASSUME NEW k \in 1..(j - 1), rx'[k].kind = "conn", rx'[k].conn = i
        PROVE  h = connIf'
    <2>1. k + s \in 1..(n - 1) /\ k + s \in 1..Len(rx) /\ rx[k + s] = rx'[k]
      <3>1. k \in 1..j /\ k + s \in 1..(n - 1) /\ k + s \in 1..Len(rx)
        BY <1>1
      <3> QED  BY <3>1
    <2>2. h = connIf
      BY <1>0, <1>1, <1>2, <1>7, <2>1 DEF DataInv
    <2>3. query
      BY <1>0, <1>7, <2>1 DEF QueryInv
    <2> QED  BY <2>2, <2>3, ConnIfKept
  <1>8. itf'[h].state # "freed" =>
          \/ Linked(rx[j].h)' /\ itf'[h].conn = i
          \/ \E k \in 1..(j - 1) : rx'[k].kind = "conn" /\ rx'[k].conn = i
    BY <1>3, <1>5
  <1> QED  BY <1>1, <1>2, <1>4, <1>6, <1>7, <1>8

(* One the VM sends now.                                                    *)
LEMMA DataSent ==
    ASSUME IInv, [Next]_vars, VMSend, NEW j, j = Len(rx) + 1
    PROVE  /\ itf'[rx'[j].h].state # "unused"
           /\ itf'[rx'[j].h].state # "freed" =>
                \/ Linked(rx[j].h)' /\ itf'[rx'[j].h].conn = rx'[j].conn
                \/ \E k \in 1..(j - 1) : rx'[k].kind = "conn" /\ rx'[k].conn = rx'[j].conn
           /\ \A g \in Handles : Linked(g)' /\ itf'[g].conn = rx'[j].conn => rx'[j].h = g
           /\ \A k \in 1..(j - 1) :
                rx'[k].kind = "conn" /\ rx'[k].conn = rx'[j].conn => rx'[j].h = connIf'
  <1>0. /\ TypeOK /\ VmInv /\ IfsRight /\ NoHandle \notin Handles
    BY Numbers DEF IInv, Routed
  <1>1. PICK i \in Conns, h \in Handles :
          /\ h = vmconn[i]
          /\ Longer(rx, rx', Data(i, h, vmsent[h] + 1))
    BY VMSendIs
  <1>2. UNCHANGED <<itf, connIf>> /\ i # NoConn
    BY VMSendIs, SessionAssumption DEF libvars
  <1>3. rx'[j] = Data(i, h, vmsent[h] + 1) /\ Len(rx) \in Nat /\ \A k \in 1..(j - 1) : rx'[k] = rx[k]
    BY <1>1 DEF Longer
  <1>4. rx'[j].h = h /\ rx'[j].conn = i
    BY <1>3 DEF Data
  <1>5. itf[h].state # "unused"
    BY <1>0, <1>1 DEF VmInv
  <1>6. ASSUME itf[h].state # "freed"
        PROVE  \/ Linked(h) /\ itf[h].conn = i
               \/ \E k \in 1..(j - 1) : rx'[k].kind = "conn" /\ rx'[k].conn = i
    <2>1. CASE \E n \in 1..Len(tx) : tx[n] = DiscReq(i)
      <3>1. PICK n \in 1..Len(tx) : tx[n] = DiscReq(i)
        BY <2>1
      <3>2. tx[n].op = "disc" /\ tx[n].conn = i
        BY <3>1 DEF DiscReq
      <3> QED  BY <1>0, <1>1, <1>6, <3>2 DEF VmInv
    <2>2. CASE \E k \in 1..Len(rx) : rx[k] = ConnRsp(i)
      <3>1. ConnRsp(i).kind = "conn" /\ ConnRsp(i).conn = i
        BY DEF ConnRsp
      <3>2. 1..Len(rx) = 1..(j - 1)
        BY <1>3
      <3> QED  BY <1>3, <2>2, <3>1, <3>2
    <2> QED  BY <1>0, <1>1, <2>1, <2>2 DEF IfsRight
  <1>7. \A g \in Handles : Linked(g) /\ itf[g].conn = i => h = g
    BY <1>0, <1>1 DEF IfsRight
  <1>8. ASSUME NEW k \in 1..(j - 1), rx'[k].kind = "conn", rx'[k].conn = i
        PROVE  h = connIf
    <2>1. k \in 1..Len(rx) /\ rx[k] = rx'[k]
      BY <1>3
    <2> QED  BY <1>0, <1>1, <1>2, <1>8, <2>1 DEF VmInv
  <1>9. \A g : Linked(g)' <=> Linked(g)
    BY <1>2 DEF Linked
  <1> QED  BY <1>2, <1>4, <1>5, <1>6, <1>7, <1>8, <1>9

(* Every step keeps packets with the interface they are for.                *)
LEMMA DataStep ==
    ASSUME IInv, [Next]_vars
    PROVE  DataInv'
  <1>0. TypeOK /\ Len(rx) \in Nat
    BY LenProperties DEF IInv, TypeOK
  <1> DEFINE Q(j) ==
           /\ itf'[rx'[j].h].state # "unused"
           /\ itf'[rx'[j].h].state # "freed" =>
                \/ Linked(rx[j].h)' /\ itf'[rx'[j].h].conn = rx'[j].conn
                \/ \E k \in 1..(j - 1) : rx'[k].kind = "conn" /\ rx'[k].conn = rx'[j].conn
           /\ \A g \in Handles : Linked(g)' /\ itf'[g].conn = rx'[j].conn => rx'[j].h = g
           /\ \A k \in 1..(j - 1) :
                rx'[k].kind = "conn" /\ rx'[k].conn = rx'[j].conn => rx'[j].h = connIf'
  <1>1. ASSUME NEW j \in 1..Len(rx'), rx'[j].kind = "data"
        PROVE  Q(j)
    <2>1. CASE rx' = rx
      <3>1. /\ 0 \in {0, 1} /\ j + 0 \in 1..Len(rx) /\ \A k \in 1..j : rx'[k] = rx[k + 0]
        BY <1>1, <2>1
      <3> QED  BY <1>0, <1>1, <3>1, DataMoved
    <2>2. CASE Shorter(rx, rx') /\ (ProcessData \/ ProcessConn \/ ProcessList \/ ProcessListNoMem)
      <3>1. /\ 1 \in {0, 1} /\ j + 1 \in 1..Len(rx) /\ \A k \in 1..j : rx'[k] = rx[k + 1]
        BY <1>1, <2>2 DEF Shorter
      <3>2. rx[1].kind = "conn" => ProcessConn
        BY <2>2 DEF ProcessData, ProcessList, ProcessListNoMem, First
      <3> QED  BY <1>0, <1>1, <3>1, <3>2, DataMoved
    <2>3. ASSUME NEW e, Longer(rx, rx', e), VMConnect \/ VMList \/ VMSend
          PROVE  Q(j)
      <3>1. CASE j = Len(rx) + 1
        <4>1. e.kind = "data"
          BY <1>1, <2>3, <3>1 DEF Longer
        <4>2. VMSend
          <5>1. CASE VMConnect
            <6>1. \A i : ConnRsp(i).kind # "data"
              BY DEF ConnRsp
            <6>2. PICK i : Longer(rx, rx', ConnRsp(i))
              BY <5>1, VMConnectIs
            <6>3. e = ConnRsp(i)
              BY <2>3, <6>2 DEF Longer
            <6> QED  BY <4>1, <6>1, <6>3
          <5>2. CASE VMList
            <6>1. \A f, s : ListRsp(f, s).kind # "data"
              BY DEF ListRsp
            <6>2. PICK f, s : Longer(rx, rx', ListRsp(f, s))
              BY <5>2, VMListIs
            <6>3. e = ListRsp(f, s)
              BY <2>3, <6>2 DEF Longer
            <6> QED  BY <4>1, <6>1, <6>3
          <5> QED  BY <2>3, <5>1, <5>2
        <4> QED  BY <3>1, <4>2, DataSent
      <3>2. CASE j \in 1..Len(rx)
        <4>1. /\ 0 \in {0, 1} /\ j + 0 \in 1..Len(rx) /\ \A k \in 1..j : rx'[k] = rx[k + 0]
          BY <1>0, <2>3, <3>2 DEF Longer
        <4> QED  BY <1>0, <1>1, <4>1, DataMoved
      <3> QED  BY <1>1, <2>3, <3>1, <3>2 DEF Longer
    <2> QED  BY <2>1, <2>2, <2>3, RxMoves
  <1> QED  BY <1>1 DEF DataInv
-----------------------------------------------------------------------------
(* No packet is lost, repeated or overtaken.                                *)
Conserved(h) ==
    /\ \A n \in 1..Len(Known(h)) : Known(h)[n].h = h /\ Known(h)[n].n = n
    /\ itf[h].state # "freed" =>
         /\ Len(Known(h)) <= vmsent[h]
         /\ \A n \in (Len(Known(h)) + 1)..vmsent[h] :
               \E j \in 1..Len(rx) : IsFor(h, j) /\ rx[j].n = n
         /\ \A j \in 1..Len(rx) :
               IsFor(h, j) => /\ rx[j].n \in (Len(Known(h)) + 1)..vmsent[h]
                              /\ \A k \in 1..(j - 1) : IsFor(h, k) => rx[k].n < rx[j].n

(* Conservation, handle by handle.                                          *)
LEMMA ConsIs == Conservation <=> \A h \in Handles : Conserved(h)
  BY DEF Conservation, Conserved

(* The same after a step.                                                   *)
LEMMA ConsNext == Conservation' <=> \A h \in Handles : Conserved(h)'
  BY DEF Conservation, Conserved

(* What an interface knows stays as it is, and no packet for it is taken    *)
(* or sent.                                                                 *)
LEMMA ConsKept ==
    ASSUME NEW h \in Handles, Conserved(h), Known(h)' = Known(h), vmsent'[h] = vmsent[h],
           itf'[h].state # "freed" => itf[h].state # "freed",
           Len(Known(h)) \in Nat, vmsent[h] \in Nat,
           \/ rx' = rx
           \/ Shorter(rx, rx') /\ (itf[h].state = "freed" \/ ~IsFor(h, 1))
           \/ \E e : Longer(rx, rx', e) /\ (e.kind # "data" \/ e.h # h)
    PROVE  Conserved(h)'
  <1>1. \A n \in 1..Len(Known(h)') : Known(h)'[n].h = h /\ Known(h)'[n].n = n
    BY DEF Conserved
  <1> SUFFICES ASSUME itf'[h].state # "freed"
               PROVE  /\ \A n \in (Len(Known(h)) + 1)..vmsent[h] :
                            \E j \in 1..Len(rx') : IsFor(h, j)' /\ rx'[j].n = n
                      /\ \A j \in 1..Len(rx') :
                            IsFor(h, j)' => /\ rx'[j].n \in (Len(Known(h)) + 1)..vmsent[h]
                                           /\ \A k \in 1..(j - 1) : IsFor(h, k)' => rx'[k].n < rx'[j].n
    BY <1>1 DEF Conserved
  <1>2. CASE rx' = rx
    BY <1>2 DEF Conserved, IsFor
  <1>3. CASE Shorter(rx, rx') /\ ~IsFor(h, 1)
    <2>1. \A j \in 1..Len(rx') : IsFor(h, j)' <=> IsFor(h, j + 1)
      BY <1>3 DEF Shorter, IsFor
    <2>2. ASSUME NEW n \in (Len(Known(h)) + 1)..vmsent[h]
          PROVE  \E j \in 1..Len(rx') : IsFor(h, j)' /\ rx'[j].n = n
      <3>1. PICK j \in 1..Len(rx) : IsFor(h, j) /\ rx[j].n = n
        BY DEF Conserved
      <3>2. j - 1 \in 1..Len(rx') /\ rx'[j - 1] = rx[j]
        BY <1>3, <3>1 DEF Shorter
      <3> QED  BY <3>1, <3>2 DEF IsFor
    <2>3. ASSUME NEW j \in 1..Len(rx'), IsFor(h, j)'
          PROVE  /\ rx'[j].n \in (Len(Known(h)) + 1)..vmsent[h]
                 /\ \A k \in 1..(j - 1) : IsFor(h, k)' => rx'[k].n < rx'[j].n
      <3>1. j + 1 \in 1..Len(rx) /\ rx'[j] = rx[j + 1] /\ IsFor(h, j + 1)
        BY <1>3, <2>1, <2>3 DEF Shorter
      <3>2. \A k \in 1..(j - 1) : /\ k \in 1..Len(rx') /\ rx'[k] = rx[k + 1]
                                  /\ k + 1 \in 1..((j + 1) - 1)
        BY <1>3 DEF Shorter
      <3>3. \A k \in 1..((j + 1) - 1) : IsFor(h, k) => rx[k].n < rx[j + 1].n
        BY <3>1 DEF Conserved
      <3> QED  BY <2>1, <3>1, <3>2, <3>3 DEF Conserved
    <2> QED  BY <2>2, <2>3
  <1>4. ASSUME NEW e, Longer(rx, rx', e), e.kind # "data" \/ e.h # h
        PROVE  /\ \A n \in (Len(Known(h)) + 1)..vmsent[h] :
                     \E j \in 1..Len(rx') : IsFor(h, j)' /\ rx'[j].n = n
               /\ \A j \in 1..Len(rx') :
                     IsFor(h, j)' => /\ rx'[j].n \in (Len(Known(h)) + 1)..vmsent[h]
                                    /\ \A k \in 1..(j - 1) : IsFor(h, k)' => rx'[k].n < rx'[j].n
    <2>1. /\ \A j \in 1..Len(rx') : IsFor(h, j)' => j \in 1..Len(rx)
          /\ \A j \in 1..Len(rx) : j \in 1..Len(rx') /\ rx'[j] = rx[j] /\ (IsFor(h, j)' <=> IsFor(h, j))
          /\ Len(rx) \in Nat
      BY <1>4 DEF Longer, IsFor
    <2>2. ASSUME NEW n \in (Len(Known(h)) + 1)..vmsent[h]
          PROVE  \E j \in 1..Len(rx') : IsFor(h, j)' /\ rx'[j].n = n
      BY <2>1 DEF Conserved
    <2>3. ASSUME NEW j \in 1..Len(rx'), IsFor(h, j)'
          PROVE  /\ rx'[j].n \in (Len(Known(h)) + 1)..vmsent[h]
                 /\ \A k \in 1..(j - 1) : IsFor(h, k)' => rx'[k].n < rx'[j].n
      <3>1. j \in 1..Len(rx) /\ IsFor(h, j) /\ \A k \in 1..(j - 1) : k \in 1..Len(rx)
        BY <2>1, <2>3
      <3> QED  BY <2>1, <3>1 DEF Conserved
    <2> QED  BY <2>2, <2>3
  <1> QED  BY <1>2, <1>3, <1>4

(* The receiver of a packet has it as the next.                             *)
LEMMA ConsTaken ==
    ASSUME NEW h \in Handles, Conserved(h), itf[h].state # "freed",
           Known(h) \in Seq(DataPkts), rx[1] \in DataPkts, rx[1].h = h, vmsent[h] \in Nat,
           Known(h)' = Append(Known(h), rx[1]), Shorter(rx, rx'), UNCHANGED vmsent
    PROVE  Conserved(h)'
  <1>0. PICK t, k : t = Known(h)' /\ k = Known(h)
    OBVIOUS
  <1>1. PICK m \in Nat : m = Len(Known(h)) /\ t = Known(h)' /\ k = Known(h)
    BY <1>0, LenProperties
  <1>2. /\ Len(t) = m + 1 /\ t[m + 1] = rx[1]
        /\ \A n \in 1..m : t[n] = k[n]
    BY <1>1, AppendIs
  <1>3. IsFor(h, 1) /\ 1 \in 1..Len(rx) /\ rx[1].n \in (m + 1)..vmsent[h] /\ m <= vmsent[h]
    BY <1>1 DEF Conserved, IsFor, DataPkts, Shorter
  <1>4. \A j \in 1..Len(rx) : IsFor(h, j) /\ j # 1 => rx[1].n < rx[j].n
    <2>1. ASSUME NEW j \in 1..Len(rx), IsFor(h, j), j # 1
          PROVE  rx[1].n < rx[j].n
      <3>1. 1 \in 1..(j - 1)
        BY <2>1
      <3> QED  BY <1>3, <2>1, <3>1 DEF Conserved
    <2> QED  BY <2>1
  <1>5. rx[1].n = m + 1
    <2>1. PICK j \in 1..Len(rx) : IsFor(h, j) /\ rx[j].n = m + 1
      <3>1. m + 1 \in (Len(Known(h)) + 1)..vmsent[h]
        BY <1>1, <1>3
      <3> QED  BY <3>1 DEF Conserved
    <2> QED  BY <1>3, <1>4, <2>1
  <1>6. \A n \in 1..(m + 1) : t[n].h = h /\ t[n].n = n
    <2>1. \A n \in 1..m : k[n].h = h /\ k[n].n = n
      BY <1>1 DEF Conserved
    <2> QED  BY <1>2, <1>5, <2>1
  <1>7. \A j \in 1..Len(rx') : IsFor(h, j)' <=> IsFor(h, j + 1)
    BY DEF Shorter, IsFor
  <1>8. ASSUME NEW n \in (m + 2)..vmsent[h]
        PROVE  \E j \in 1..Len(rx') : IsFor(h, j)' /\ rx'[j].n = n
    <2>1. PICK j \in 1..Len(rx) : IsFor(h, j) /\ rx[j].n = n
      <3>1. n \in (Len(Known(h)) + 1)..vmsent[h]
        BY <1>1
      <3> QED  BY <3>1 DEF Conserved
    <2>2. j # 1
      BY <1>5, <2>1
    <2>3. j - 1 \in 1..Len(rx') /\ rx'[j - 1] = rx[j]
      BY <2>1, <2>2 DEF Shorter
    <2> QED  BY <2>1, <2>3 DEF IsFor
  <1>9. ASSUME NEW j \in 1..Len(rx'), IsFor(h, j)'
        PROVE  /\ rx'[j].n \in (m + 2)..vmsent[h]
               /\ \A i \in 1..(j - 1) : IsFor(h, i)' => rx'[i].n < rx'[j].n
    <2>1. j + 1 \in 1..Len(rx) /\ rx'[j] = rx[j + 1] /\ IsFor(h, j + 1) /\ j + 1 # 1
      BY <1>7, <1>9 DEF Shorter
    <2>2. rx[j + 1].n \in (m + 1)..vmsent[h] /\ rx[1].n < rx[j + 1].n
      BY <1>1, <1>4, <2>1 DEF Conserved
    <2>3. \A i \in 1..(j - 1) : /\ i \in 1..Len(rx') /\ rx'[i] = rx[i + 1]
                                /\ i + 1 \in 1..((j + 1) - 1)
      BY DEF Shorter
    <2>4. \A i \in 1..((j + 1) - 1) : IsFor(h, i) => rx[i].n < rx[j + 1].n
      BY <2>1 DEF Conserved
    <2>5. rx'[j].n \in (m + 2)..vmsent[h]
      BY <1>5, <2>1, <2>2
    <2>6. ASSUME NEW i \in 1..(j - 1), IsFor(h, i)'
          PROVE  rx'[i].n < rx'[j].n
      BY <1>7, <2>1, <2>3, <2>4, <2>6
    <2> QED  BY <2>5, <2>6
  <1>10. Len(Known(h))' = m + 1 /\ (Len(Known(h)) + 1)' = m + 2
    BY <1>1, <1>2
  <1> QED  BY <1>1, <1>3, <1>6, <1>8, <1>9, <1>10 DEF Conserved

(* A packet that is sent is the last for its interface.                     *)
LEMMA ConsSent ==
    ASSUME NEW h \in Handles, Conserved(h), UNCHANGED itf, Known(h)' = Known(h),
           Len(Known(h)) \in Nat, vmsent[h] \in Nat, vmsent'[h] = vmsent[h] + 1,
           NEW i, Longer(rx, rx', Data(i, h, vmsent[h] + 1))
    PROVE  Conserved(h)'
  <1>1. PICK m \in Nat, v \in Nat : m = Len(Known(h)) /\ v = vmsent[h] /\ m = Len(Known(h)')
    OBVIOUS
  <1>2. \A n \in 1..m : Known(h)'[n].h = h /\ Known(h)'[n].n = n
    BY <1>1 DEF Conserved
  <1>3. PICK l \in Nat : l = Len(rx) /\ Len(rx') = l + 1
    BY DEF Longer
  <1>4. /\ rx'[l + 1].kind = "data" /\ rx'[l + 1].h = h /\ rx'[l + 1].n = v + 1
        /\ l + 1 \in 1..Len(rx')
    BY <1>1, <1>3 DEF Longer, Data
  <1>5. \A j \in 1..l : /\ j \in 1..Len(rx') /\ rx'[j] = rx[j] /\ (IsFor(h, j)' <=> IsFor(h, j))
    BY <1>3 DEF Longer, IsFor
  <1>6. ASSUME itf'[h].state # "freed"
        PROVE  /\ m <= v + 1
               /\ \A n \in (m + 1)..(v + 1) :
                     \E j \in 1..Len(rx') : IsFor(h, j)' /\ rx'[j].n = n
               /\ \A j \in 1..Len(rx') :
                     IsFor(h, j)' => /\ rx'[j].n \in (m + 1)..(v + 1)
                                    /\ \A k \in 1..(j - 1) : IsFor(h, k)' => rx'[k].n < rx'[j].n
    <2>1. /\ m <= v
          /\ \A n \in (m + 1)..v : \E j \in 1..l : IsFor(h, j) /\ rx[j].n = n
          /\ \A j \in 1..l :
                IsFor(h, j) => /\ rx[j].n \in (m + 1)..v
                               /\ \A k \in 1..(j - 1) : IsFor(h, k) => rx[k].n < rx[j].n
      BY <1>1, <1>3, <1>6 DEF Conserved
    <2>2. ASSUME NEW n \in (m + 1)..(v + 1)
          PROVE  \E j \in 1..Len(rx') : IsFor(h, j)' /\ rx'[j].n = n
      <3>1. CASE n = v + 1
        BY <1>4, <3>1 DEF IsFor
      <3>2. CASE n # v + 1
        <4>1. n \in (m + 1)..v
          BY <3>2
        <4> QED  BY <1>5, <2>1, <4>1
      <3> QED  BY <3>1, <3>2
    <2>3. ASSUME NEW j \in 1..Len(rx'), IsFor(h, j)'
          PROVE  /\ rx'[j].n \in (m + 1)..(v + 1)
                 /\ \A k \in 1..(j - 1) : IsFor(h, k)' => rx'[k].n < rx'[j].n
      <3>1. CASE j = l + 1
        <4>1. rx'[j].n = v + 1
          BY <1>4, <3>1
        <4>2. ASSUME NEW k \in 1..(j - 1), IsFor(h, k)'
              PROVE  rx'[k].n < rx'[j].n
          BY <1>5, <2>1, <3>1, <4>1, <4>2
        <4> QED  BY <2>1, <4>1, <4>2
      <3>2. CASE j \in 1..l
        <4>1. IsFor(h, j) /\ rx'[j] = rx[j] /\ rx[j].n \in (m + 1)..v
          BY <1>5, <2>1, <2>3, <3>2
        <4>2. \A k \in 1..(j - 1) : k \in 1..l /\ rx'[k] = rx[k] /\ (IsFor(h, k)' <=> IsFor(h, k))
          BY <1>5, <3>2
        <4>3. \A k \in 1..(j - 1) : IsFor(h, k) => rx[k].n < rx[j].n
          BY <2>1, <3>2, <4>1
        <4>4. rx'[j].n \in (m + 1)..(v + 1)
          BY <4>1
        <4>5. ASSUME NEW k \in 1..(j - 1), IsFor(h, k)'
              PROVE  rx'[k].n < rx'[j].n
          BY <4>1, <4>2, <4>3, <4>5
        <4> QED  BY <4>4, <4>5
      <3> QED  BY <1>3, <3>1, <3>2
    <2> QED  BY <2>1, <2>2, <2>3
  <1> QED  BY <1>1, <1>2, <1>6 DEF Conserved

(* Whose packets a step touches.                                            *)
LEMMA KnownKept ==
    ASSUME IInv, [Next]_vars, NEW h \in Handles
    PROVE  \/ Attach /\ h = calls'
           \/ Detach(h)
           \/ ProcessData /\ h = Receiver(rx[1].conn)
           \/ Known(h)' = Known(h)
  <1>1. itf'[h] = itf[h] => Known(h)' = Known(h)
    BY DEF Known
  <1>2. CASE Attach
    BY <1>1, <1>2, AttachIs DEF OthersSame
  <1>3. ASSUME NEW g \in Handles, Detach(g)
        PROVE  Detach(h) \/ Known(h)' = Known(h)
    BY <1>1, <1>3, DetachIs DEF OthersSame
  <1>4. CASE (\E g \in Handles : Ready(g)) \/ Prepare
    BY <1>4, ReadyIs, PrepareIs DEF Same
  <1>5. CASE ProcessData
    <2>1. PICK g : g = Receiver(rx[1].conn)
      OBVIOUS
    <2> QED  BY <1>1, <1>5, <2>1, DataIs
  <1>6. CASE ProcessConn
    <2>1. PICK c \in Handles : Known(c)' = Known(c) /\ OthersSame(c)
      BY <1>6, ConnIs
    <2> QED  BY <1>1, <2>1 DEF OthersSame
  <1>7. CASE EndRound
    <2>1. ASSUME NEW c \in Handles, Returned(c)
          PROVE  Known(h)' = Known(h)
      BY <1>1, <2>1 DEF OthersSame, Returned
    <2> QED  BY <1>1, <1>7, <2>1, EndIs
  <1>8. CASE UNCHANGED itf
    BY <1>1, <1>8
  <1> QED  BY <1>2, <1>3, <1>4, <1>5, <1>6, <1>7, <1>8 DEF Next, Round, Answer, vars, libvars, List,
             Process, ProcessFail, ProcessList, ProcessListNoMem, ProcessListNoReq, VMConnect,
             VMDisconnect, VMList, VMSend

(* The packet that is processed is for its receiver, if its interface is    *)
(* not freed.                                                               *)
LEMMA ReceiverRight ==
    ASSUME IInv, ProcessData
    PROVE  /\ rx[1].h \in Handles
           /\ Receiver(rx[1].conn) # NoHandle => rx[1].h = Receiver(rx[1].conn)
           /\ Receiver(rx[1].conn) = NoHandle => itf[rx[1].h].state = "freed"
  <1>1. TypeOK /\ IfsRight /\ DataInv
    BY DEF IInv, Routed
  <1>2. 1 \in 1..Len(rx) /\ rx[1].kind = "data"
    BY <1>1, ConsumeIs DEF ProcessData
  <1>3. rx[1].h \in Handles
    BY <1>1, <1>2, RxKinds
  <1>4. /\ Receiver(rx[1].conn) # NoHandle =>
              /\ Receiver(rx[1].conn) \in Handles /\ Linked(Receiver(rx[1].conn))
              /\ itf[Receiver(rx[1].conn)].conn = rx[1].conn
        /\ Receiver(rx[1].conn) = NoHandle => \A h \in Handles : Linked(h) => itf[h].conn # rx[1].conn
    BY <1>1, ReceiverIs
  <1> QED  BY <1>1, <1>2, <1>3, <1>4 DEF DataInv

(* Every step conserves the packets.                                        *)
LEMMA ConsStep ==
    ASSUME IInv, [Next]_vars
    PROVE  Conservation'
  <1> SUFFICES ASSUME NEW h \in Handles
               PROVE  Conserved(h)'
    BY ConsNext
  <1>0. /\ TypeOK /\ Conserved(h) /\ itf \in [Handles -> Interfaces] /\ vmsent[h] \in Nat
        /\ vmsent \in [Handles -> 0..MaxSend]
    BY ConsIs, Numbers DEF IInv, TypeOK, Routed
  <1>1. Known(h) \in Seq(DataPkts) /\ Len(Known(h)) \in Nat
    <2>1. itf[h].got \in Seq(DataPkts) /\ itf[h].rxbufs \in Seq(DataPkts)
      BY <1>0 DEF Interfaces
    <2> QED  BY <2>1, ConcatProperties, LenProperties DEF Known
  <1>2. itf'[h].state # "freed" => itf[h].state # "freed"
    BY Lives
  <1>3. CASE Attach /\ h = calls'
    <2>1. /\ itf[h].state = "unused" /\ itf'[h] = NewIf("pending", NoConn) /\ UNCHANGED <<rx, vmsent>>
      BY <1>3, AttachIs
    <2>2. vmsent'[h] = 0
      BY <2>1 DEF IInv, StateInv
    <2>3. Known(h)' = <<>> /\ Len(Known(h)') = 0
      <3>1. itf'[h].got = <<>> /\ itf'[h].rxbufs = <<>>
        BY <2>1 DEF NewIf
      <3>2. <<>> \o <<>> = <<>>
        BY ConcatEmptySeq, EmptySeq
      <3> QED  BY <3>1, <3>2 DEF Known
    <2>4. \A j \in 1..Len(rx') : ~IsFor(h, j)'
      BY <2>1 DEF IInv, DataInv, IsFor
    <2> QED  BY <2>2, <2>3, <2>4 DEF Conserved
  <1>4. CASE Detach(h)
    <2>1. /\ itf'[h].state = "freed" /\ Known(h)' = itf[h].got /\ itf[h].got \in Seq(DataPkts)
      BY <1>4, DetachIs
    <2>2. itf[h].rxbufs \in Seq(DataPkts)
      BY <1>0 DEF Interfaces
    <2>3. PICK g \in Seq(DataPkts), q \in Seq(DataPkts) : g = itf[h].got /\ q = itf[h].rxbufs
      BY <2>1, <2>2
    <2>4. PICK s : s = g \o q
      OBVIOUS
    <2>5. /\ Len(g) \in Nat /\ Len(q) \in Nat /\ Len(s) = Len(g) + Len(q)
          /\ \A n \in 1..Len(g) : s[n] = g[n]
      <3>1. Len(g) \in Nat /\ Len(q) \in Nat
        BY LenProperties
      <3> QED  BY <2>4, <3>1, ConcatProperties
    <2>6. Known(h) = s
      BY <2>3, <2>4 DEF Known
    <2>7. \A n \in 1..Len(s) : s[n].h = h /\ s[n].n = n
      BY <1>0, <2>6 DEF Conserved
    <2>8. \A n \in 1..Len(g) : g[n].h = h /\ g[n].n = n
      BY <2>5, <2>7
    <2> QED  BY <2>1, <2>3, <2>8 DEF Conserved
  <1>5. CASE ProcessData /\ h = Receiver(rx[1].conn)
    <2>1. /\ Known(h)' = Append(Known(h), rx[1]) /\ rx[1] \in DataPkts /\ Linked(h)
      BY <1>5, DataIs, Numbers
    <2>2. rx[1].h = h
      BY <1>5, ReceiverRight, Numbers
    <2>3. itf[h].state # "freed" /\ UNCHANGED vmsent /\ Shorter(rx, rx')
      BY <1>0, <1>5, <2>1, RxTail DEF Linked, ProcessData, vmvars
    <2> QED  BY <1>0, <1>1, <2>1, <2>2, <2>3, ConsTaken
  <1>6. CASE Known(h)' = Known(h) /\ VMSend
    <2>1. PICK i \in Conns, g \in Handles :
            /\ vmsent' = [vmsent EXCEPT ![g] = @ + 1]
            /\ Longer(rx, rx', Data(i, g, vmsent[g] + 1))
      BY <1>6, VMSendIs
    <2>2. UNCHANGED itf
      BY <1>6, VMSendIs DEF libvars
    <2>3. CASE g = h
      <3>1. vmsent'[h] = vmsent[h] + 1
        BY <1>0, <2>1, <2>3
      <3> QED  BY <1>0, <1>1, <1>6, <2>1, <2>2, <2>3, <3>1, ConsSent
    <2>4. CASE g # h
      <3>1. vmsent'[h] = vmsent[h]
        BY <1>0, <2>1, <2>4
      <3>2. Data(i, g, vmsent[g] + 1).h = g
        BY DEF Data
      <3> QED  BY <1>0, <1>1, <1>2, <1>6, <2>1, <2>4, <3>1, <3>2, ConsKept
    <2> QED  BY <2>3, <2>4
  <1>7. CASE Known(h)' = Known(h) /\ ~VMSend /\ ~(ProcessData /\ h = Receiver(rx[1].conn))
    <2>1. UNCHANGED vmsent
      BY <1>7 DEF Next, Round, Answer, vars, vmvars, Attach, List, Detach, Ready, Prepare,
           Process, ProcessData, ProcessConn, EndRound, ProcessFail, ProcessList,
           ProcessListNoMem, ProcessListNoReq, VMConnect, VMDisconnect, VMList
    <2>2. CASE rx' = rx
      BY <1>0, <1>1, <1>2, <1>7, <2>1, <2>2, ConsKept
    <2>3. CASE Shorter(rx, rx') /\ (ProcessData \/ ProcessConn \/ ProcessList \/ ProcessListNoMem)
      <3>1. ProcessData => itf[h].state = "freed" \/ ~IsFor(h, 1)
        BY <1>7, ReceiverRight DEF IsFor
      <3>2. ProcessConn \/ ProcessList \/ ProcessListNoMem => ~IsFor(h, 1)
        BY DEF ProcessConn, ProcessList, ProcessListNoMem, First, IsFor
      <3> QED  BY <1>0, <1>1, <1>2, <1>7, <2>1, <2>3, <3>1, <3>2, ConsKept
    <2>4. CASE VMConnect \/ VMList
      <3>1. PICK e : Longer(rx, rx', e) /\ e.kind # "data"
        <4>1. \A i, f, s : ConnRsp(i).kind # "data" /\ ListRsp(f, s).kind # "data"
          BY DEF ConnRsp, ListRsp
        <4> QED  BY <2>4, <4>1, VMConnectIs, VMListIs
      <3> QED  BY <1>0, <1>1, <1>2, <1>7, <2>1, <3>1, ConsKept
    <2> QED  BY <1>7, <2>2, <2>3, <2>4, RxMoves
  <1> QED  BY <1>3, <1>4, <1>5, <1>6, <1>7, KnownKept
-----------------------------------------------------------------------------
(* The invariant holds when the session begins.                             *)
LEMMA InitInv == Init => IInv
  <1> SUFFICES ASSUME Init PROVE IInv
    OBVIOUS
  <1>0. /\ itf \in [Handles -> Interfaces] /\ \A h \in Handles : itf[h] = NewIf("unused", NoConn)
    <2>1. NewIf("unused", NoConn) \in Interfaces
      <3>1. <<>> \in Seq(DataPkts)
        OBVIOUS
      <3> QED  BY <3>1 DEF NewIf, Interfaces
    <2> QED  BY <2>1 DEF Init
  <1>1. /\ Len(tx) = 0 /\ Len(rx) = 0 /\ Len(ifs) = 0
    BY DEF Init
  <1>2. \A h \in Handles : /\ itf[h].state = "unused" /\ itf[h].conn = NoConn
                           /\ itf[h].got = <<>> /\ itf[h].rxbufs = <<>>
    BY <1>0 DEF NewIf
  <1>3. TypeOK
    <2>1. ITypes
      BY <1>0 DEF ITypes
    <2>2. FlagTypes /\ ListTypes
      BY DEF Init, FlagTypes, ListTypes
    <2>3. NumTypes
      BY <1>1, SessionAssumption DEF Init, NumTypes
    <2>4. IfTypes
      BY DEF Init, IfTypes
    <2>5. VMTypes
      BY Numbers DEF Init, VMTypes
    <2> QED  BY <2>1, <2>2, <2>3, <2>4, <2>5, Types
  <1>4. QueryInv
    BY <1>1 DEF Init, QueryInv
  <1>5. StateInv
    BY <1>2, Numbers DEF Init, StateInv
  <1>6. VmInv /\ DataInv
    BY <1>1 DEF Init, VmInv, DataInv
  <1>7. ListInv /\ ListRight
    BY <1>1 DEF Init, ListInv, ListRight
  <1>8. Routed
    <2>1. NoEarlyCallback
      BY <1>2 DEF NoEarlyCallback
    <2>2. IfsRight
      BY <1>1, <1>2 DEF Init, IfsRight, InIfs, Linked
    <2>3. Conservation
      <3>1. \A h \in Handles : Known(h) = <<>> /\ Len(Known(h)) = 0 /\ vmsent[h] = 0
        <4>1. <<>> \o <<>> = <<>>
          BY ConcatEmptySeq, EmptySeq
        <4>2. \A h \in Handles : Known(h) = <<>>
          BY <1>2, <4>1, Zenon DEF Known
        <4>3. \A h \in Handles : vmsent[h] = 0
          BY DEF Init
        <4>4. Len(<<>>) = 0
          OBVIOUS
        <4> QED  BY <4>2, <4>3, <4>4, Zenon
      <3> QED  BY <1>1, <3>1 DEF Conservation
    <2> QED  BY <2>1, <2>2, <2>3 DEF Routed
  <1> QED  BY <1>3, <1>4, <1>5, <1>6, <1>7, <1>8 DEF IInv

(* Together, the invariant is inductive.                                    *)
THEOREM Invariance == Spec => []IInv
  <1>1. IInv /\ [Next]_vars => IInv'
    <2> SUFFICES ASSUME IInv, [Next]_vars PROVE IInv'
      OBVIOUS
    <2>1. Routed'
      BY CallbackStep, ConsStep, IfsStep DEF Routed
    <2> QED  BY <2>1, TypeStep, QueryStep, StateStep, VmStep, DataStep, ListStep, ListRightStep
             DEF IInv
  <1> QED  BY <1>1, InitInv, PTL DEF Spec

(* Every variable has its type, for any values of the bounds.               *)
THEOREM TypeCorrect == Spec => []TypeOK
  BY Invariance, PTL DEF IInv

(* Packets reach the interface they were sent to, once, in order and not    *)
(* before the caller of coremodel_attach_* knows it; the list of interfaces *)
(* is that of the connections of the VM, though the VM uses their indices   *)
(* again.                                                                   *)
THEOREM RoutedRight == Spec => []Routed
  BY Invariance, PTL DEF IInv

(* coremodel_list returns all the devices of the VM or nothing.             *)
THEOREM ListIsRight == Spec => []ListRight
  BY Invariance, PTL DEF IInv
=============================================================================
