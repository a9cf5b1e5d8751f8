---------------------------- MODULE CanIf_proofs ----------------------------
(***************************************************************************)
(* The CAN interface, for any number of frames and any number of           *)
(* transaction indices: the types, and that a frame of the application is  *)
(* alone on its way and is completed by its own acknowledgement.           *)
(***************************************************************************)
EXTENDS CanIf, SequenceTheorems, TLAPS

(* Taking an element out of a sequence moves those behind it one place.     *)
LEMMA RemoveAtIs ==
    ASSUME NEW S, NEW s \in Seq(S), NEW k \in 1..Len(s)
    PROVE  /\ RemoveAt(s, k) \in Seq(S)
           /\ Len(RemoveAt(s, k)) = Len(s) - 1
           /\ \A i \in 1..(Len(s) - 1) :
                RemoveAt(s, k)[i] = IF i < k THEN s[i] ELSE s[i + 1]
  <1> DEFINE a == SubSeq(s, 1, k - 1)
             b == SubSeq(s, k + 1, Len(s))
  <1>1. a \in Seq(S) /\ Len(a) = k - 1 /\ \A i \in 1..(k - 1) : a[i] = s[i]
    OBVIOUS
  <1>2. b \in Seq(S) /\ Len(b) = Len(s) - k /\ \A i \in 1..(Len(s) - k) : b[i] = s[k + i]
    OBVIOUS
  <1>3. RemoveAt(s, k) = a \o b
    BY DEF RemoveAt
  <1> HIDE DEF a, b
  <1>4. a \o b \in Seq(S) /\ Len(a \o b) = Len(a) + Len(b)
    BY <1>1, <1>2, ConcatProperties
  <1>5. ASSUME NEW i \in 1..(Len(s) - 1)
        PROVE  (a \o b)[i] = IF i < k THEN s[i] ELSE s[i + 1]
    <2>1. (a \o b)[i] = IF i <= Len(a) THEN a[i] ELSE b[i - Len(a)]
      BY <1>1, <1>2, ConcatProperties
    <2>2. CASE i < k
      BY <2>1, <2>2, <1>1
    <2>3. CASE ~(i < k)
      <3>1. i - (k - 1) \in 1..(Len(s) - k) /\ k + (i - (k - 1)) = i + 1
        BY <2>3
      <3>2. b[i - (k - 1)] = s[k + (i - (k - 1))]
        BY <3>1, <1>2
      <3>3. (a \o b)[i] = b[i - (k - 1)]
        BY <2>1, <2>3, <1>1
      <3> QED  BY <2>3, <3>1, <3>2, <3>3
    <2> QED  BY <2>2, <2>3
  <1> QED  BY <1>1, <1>2, <1>3, <1>4, <1>5
-----------------------------------------------------------------------------
(* What the loop relies on: a frame of the VM in rxbufs has been sent, and  *)
(* coremodel_advance_if passes over packets only behind a stall.            *)
LoopInv ==
    /\ \A i \in 1..Len(rxbufs) : rxbufs[i].pkt = "TX" => rxbufs[i].n \in 1..ntx
    /\ cur > 1 => busy

IInv == TypeOK /\ LoopInv /\ RxOneAtATime /\ TxInOrder

Packet == [pkt : {"TX", "RX_ACK"}, n : Nat]

(* The types of the initial state and of every step.                        *)
LEMMA InitInv == Init => IInv
  <1> SUFFICES ASSUME Init PROVE IInv
    OBVIOUS
  <1>1. TypeOK
    <2>1. rxbufs \in Seq([pkt : {"TX", "RX_ACK"}, n : Nat]) /\ Len(rxbufs) = 0
      BY DEF Init
    <2>2. onbus \in Seq(0..(IdxMod - 1)) /\ acked \in Seq(1..MaxTx)
      BY DEF Init
    <2>3. /\ trnidx \in 0..(IdxMod - 1)
          /\ ntx \in 0..MaxTx /\ nrx \in 0..MaxRx /\ ndone \in 0..MaxRx
      BY CanIfAssumption DEF Init
    <2>4. cur \in 0..(Len(rxbufs) + 1)
      BY <2>1 DEF Init
    <2>5. busy \in BOOLEAN /\ ebusy \in BOOLEAN /\ (cur = 0 /\ rxbufs # <<>> => busy)
      BY DEF Init
    <2> QED  BY <2>1, <2>2, <2>3, <2>4, <2>5 DEF TypeOK
  <1>2. LoopInv /\ RxOneAtATime
    BY DEF Init, LoopInv, RxOneAtATime, Acks
  <1>3. TxInOrder
    <2>1. Frames = {} /\ Len(acked) = 0 /\ ntx = 0
      BY DEF Init, Frames
    <2> QED  BY <2>1 DEF TxInOrder
  <1> QED  BY <1>1, <1>2, <1>3 DEF IInv

(* A packet of the VM is put at the end and the loop starts.                *)
LEMMA ReceiveIs ==
    ASSUME IInv, NEW p \in Packet, Receive(p)
    PROVE  /\ rxbufs' \in Seq(Packet) /\ Len(rxbufs') = Len(rxbufs) + 1
           /\ \A i \in 1..Len(rxbufs) : rxbufs'[i] = rxbufs[i]
           /\ rxbufs'[Len(rxbufs) + 1] = p
           /\ cur' = 1
  BY DEF Receive, IInv, TypeOK, Packet

(* A packet is freed and the loop starts over.                              *)
LEMMA FreeIs ==
    ASSUME IInv, cur \in 1..Len(rxbufs), Free
    PROVE  /\ rxbufs' \in Seq(Packet) /\ Len(rxbufs') = Len(rxbufs) - 1
           /\ \A i \in 1..(Len(rxbufs) - 1) :
                rxbufs'[i] = IF i < cur THEN rxbufs[i] ELSE rxbufs[i + 1]
           /\ cur' = 1
  <1>1. rxbufs \in Seq(Packet)
    BY DEF IInv, TypeOK, Packet
  <1> QED  BY <1>1, RemoveAtIs DEF Free
-----------------------------------------------------------------------------
(* Every step keeps the types, and what the loop relies on.                 *)
LEMMA TypeStep ==
    ASSUME IInv, [Next]_vars
    PROVE  TypeOK' /\ LoopInv'
  <1> USE DEF Packet
  <1>0. rxbufs \in Seq(Packet)
    BY DEF IInv, TypeOK
  <1>1. CASE VMTx
    <2>1. Tx(ntx + 1) \in Packet /\ Receive(Tx(ntx + 1)) /\ ntx' = ntx + 1
      BY <1>1 DEF VMTx, Tx, IInv, TypeOK
    <2>2. /\ rxbufs' \in Seq(Packet) /\ Len(rxbufs') = Len(rxbufs) + 1
          /\ \A i \in 1..Len(rxbufs) : rxbufs'[i] = rxbufs[i]
          /\ rxbufs'[Len(rxbufs) + 1] = Tx(ntx + 1)
          /\ cur' = 1
      BY <2>1, ReceiveIs
    <2>3. TypeOK'
      BY <1>1, <2>2, CanIfAssumption DEF VMTx, IInv, TypeOK
    <2>4. LoopInv'
      <3>1. ASSUME NEW i \in 1..Len(rxbufs'), rxbufs'[i].pkt = "TX"
            PROVE  rxbufs'[i].n \in 1..ntx'
        <4>1. ntx \in Nat /\ ntx' = ntx + 1
          BY <1>1, CanIfAssumption DEF VMTx, IInv, TypeOK
        <4>2. CASE i = Len(rxbufs) + 1
          BY <2>2, <4>1, <4>2 DEF Tx
        <4>3. CASE i # Len(rxbufs) + 1
          <5>1. i \in 1..Len(rxbufs) /\ rxbufs'[i] = rxbufs[i]
            BY <1>0, <2>2, <3>1, <4>3
          <5>2. rxbufs[i].n \in 1..ntx
            BY <3>1, <5>1 DEF IInv, LoopInv
          <5> QED  BY <4>1, <5>1, <5>2
        <4> QED  BY <4>2, <4>3
      <3> QED  BY <2>2, <3>1 DEF LoopInv
    <2> QED  BY <2>3, <2>4
  <1>2. CASE VMAck
    <2>1. Head(onbus) \in Nat /\ Tail(onbus) \in Seq(0..(IdxMod - 1))
      BY <1>2, CanIfAssumption DEF VMAck, IInv, TypeOK
    <2>2. RxAck(Head(onbus)) \in Packet /\ Receive(RxAck(Head(onbus)))
      BY <1>2, <2>1 DEF VMAck, RxAck
    <2>3. /\ rxbufs' \in Seq(Packet) /\ Len(rxbufs') = Len(rxbufs) + 1
          /\ \A i \in 1..Len(rxbufs) : rxbufs'[i] = rxbufs[i]
          /\ rxbufs'[Len(rxbufs) + 1] = RxAck(Head(onbus))
          /\ cur' = 1
      BY <2>2, ReceiveIs
    <2>4. TypeOK'
      BY <1>2, <2>1, <2>3 DEF VMAck, IInv, TypeOK
    <2>5. LoopInv'
      <3>1. ASSUME NEW i \in 1..Len(rxbufs'), rxbufs'[i].pkt = "TX"
            PROVE  rxbufs'[i].n \in 1..ntx'
        <4>1. rxbufs'[i] = rxbufs[i] /\ i \in 1..Len(rxbufs)
          BY <2>3, <3>1, <1>0 DEF RxAck
        <4> QED  BY <1>2, <3>1, <4>1 DEF VMAck, IInv, LoopInv
      <3> QED  BY <2>3, <3>1 DEF LoopInv
    <2> QED  BY <2>4, <2>5
  <1>3. CASE AdvanceEnd
    BY <1>3 DEF AdvanceEnd, rxvars, IInv, TypeOK, LoopInv
  <1>4. CASE TxBehind
    BY <1>4 DEF TxBehind, At, rxvars, IInv, TypeOK, LoopInv
  <1>5. CASE TxStall
    BY <1>5 DEF TxStall, At, rxvars, IInv, TypeOK, LoopInv
  <1>6. CASE TxDone
    <2>1. cur \in 1..Len(rxbufs) /\ Free
      BY <1>6 DEF TxDone, At
    <2>2. rxbufs[cur].n \in 1..MaxTx
      BY <1>6, <2>1, CanIfAssumption DEF TxDone, At, IInv, TypeOK, LoopInv
    <2>3. /\ rxbufs' \in Seq(Packet) /\ Len(rxbufs') = Len(rxbufs) - 1
          /\ \A i \in 1..(Len(rxbufs) - 1) :
               rxbufs'[i] = IF i < cur THEN rxbufs[i] ELSE rxbufs[i + 1]
          /\ cur' = 1
      BY <2>1, FreeIs
    <2>4. TypeOK'
      BY <1>6, <2>2, <2>3 DEF TxDone, rxvars, IInv, TypeOK
    <2>5. LoopInv'
      <3>1. ASSUME NEW i \in 1..Len(rxbufs'), rxbufs'[i].pkt = "TX"
            PROVE  rxbufs'[i].n \in 1..ntx'
        <4>1. PICK j \in 1..Len(rxbufs) : rxbufs'[i] = rxbufs[j]
          <5>0. i \in 1..(Len(rxbufs) - 1) /\ Len(rxbufs) \in Nat
            BY <2>3, <3>1, <1>0
          <5>1. i \in 1..(Len(rxbufs) - 1) /\ i \in 1..Len(rxbufs) /\ i + 1 \in 1..Len(rxbufs)
            BY <5>0
          <5>2. rxbufs'[i] = IF i < cur THEN rxbufs[i] ELSE rxbufs[i + 1]
            BY <2>3, <5>1
          <5> QED  BY <5>1, <5>2
        <4> QED  BY <1>6, <3>1, <4>1 DEF TxDone, IInv, LoopInv
      <3> QED  BY <2>3, <3>1 DEF LoopInv
    <2> QED  BY <2>4, <2>5
  <1>7. CASE RxComplete
    <2>1. cur \in 1..Len(rxbufs) /\ Free
      BY <1>7 DEF RxComplete, At
    <2>2. ndone' \in 0..MaxRx /\ ebusy' \in BOOLEAN
      <3>1. CASE rxbufs[cur].n = trnidx
        <4>1. cur \in Acks
          BY <1>7, <2>1 DEF RxComplete, At, Acks
        <4>2. ebusy /\ nrx = ndone + 1
          BY <4>1 DEF IInv, RxOneAtATime
        <4> QED  BY <1>7, <3>1, <4>2 DEF RxComplete, IInv, TypeOK
      <3>2. CASE rxbufs[cur].n # trnidx
        BY <1>7, <3>2 DEF RxComplete, IInv, TypeOK
      <3> QED  BY <3>1, <3>2
    <2>3. /\ rxbufs' \in Seq(Packet) /\ Len(rxbufs') = Len(rxbufs) - 1
          /\ \A i \in 1..(Len(rxbufs) - 1) :
               rxbufs'[i] = IF i < cur THEN rxbufs[i] ELSE rxbufs[i + 1]
          /\ cur' = 1
      BY <2>1, FreeIs
    <2>4. TypeOK'
      BY <1>7, <2>2, <2>3 DEF RxComplete, IInv, TypeOK
    <2>5. LoopInv'
      <3>1. ASSUME NEW i \in 1..Len(rxbufs'), rxbufs'[i].pkt = "TX"
            PROVE  rxbufs'[i].n \in 1..ntx'
        <4>1. PICK j \in 1..Len(rxbufs) : rxbufs'[i] = rxbufs[j]
          <5>0. i \in 1..(Len(rxbufs) - 1) /\ Len(rxbufs) \in Nat
            BY <2>3, <3>1, <1>0
          <5>1. i \in 1..(Len(rxbufs) - 1) /\ i \in 1..Len(rxbufs) /\ i + 1 \in 1..Len(rxbufs)
            BY <5>0
          <5>2. rxbufs'[i] = IF i < cur THEN rxbufs[i] ELSE rxbufs[i + 1]
            BY <2>3, <5>1
          <5> QED  BY <5>1, <5>2
        <4> QED  BY <1>7, <3>1, <4>1 DEF RxComplete, IInv, LoopInv
      <3> QED  BY <2>3, <3>1 DEF LoopInv
    <2> QED  BY <2>4, <2>5
  <1>8. CASE Ready
    <2>1. TypeOK'
      <3>1. cur' \in 0..(Len(rxbufs') + 1) /\ cur' # 0
        BY <1>0, <1>8 DEF Ready
      <3>2. busy' \in BOOLEAN
        BY <1>8 DEF Ready
      <3> QED  BY <1>8, <3>1, <3>2 DEF Ready, rxvars, IInv, TypeOK
    <2>2. LoopInv'
      BY <1>8 DEF Ready, rxvars, IInv, LoopInv
    <2> QED  BY <2>1, <2>2
  <1>9. ASSUME NEW s \in {"loop", "app"}, CanRx(s)
        PROVE  TypeOK' /\ LoopInv'
    <2>1. trnidx' \in 0..(IdxMod - 1)
      BY <1>9, CanIfAssumption DEF CanRx, IInv, TypeOK
    <2>2. nrx' \in 0..MaxRx
      BY <1>9, CanIfAssumption DEF CanRx, IInv, TypeOK
    <2>3. onbus' \in Seq(0..(IdxMod - 1))
      BY <1>9, <2>1 DEF CanRx, IInv, TypeOK
    <2>4. TypeOK'
      BY <1>9, <2>1, <2>2, <2>3 DEF CanRx, IInv, TypeOK
    <2>5. LoopInv'
      BY <1>9 DEF CanRx, IInv, LoopInv
    <2> QED  BY <2>4, <2>5
  <1>10. CASE UNCHANGED vars
    BY <1>10 DEF vars, IInv, TypeOK, LoopInv
  <1> QED
    BY <1>1, <1>2, <1>3, <1>4, <1>5, <1>6, <1>7, <1>8, <1>9, <1>10 DEF Next, Advance

(* Every step keeps the frame of the application alone, under its index.    *)
LEMMA OneStep ==
    ASSUME IInv, [Next]_vars
    PROVE  RxOneAtATime'
  <1> USE DEF Packet
  <1>0. rxbufs \in Seq(Packet) /\ DOMAIN rxbufs = 1..Len(rxbufs)
    BY DEF IInv, TypeOK
  <1>a. nrx \in Nat /\ ndone \in Nat
    BY CanIfAssumption DEF IInv, TypeOK
  <1>1. CASE VMTx
    <2>1. Tx(ntx + 1) \in Packet /\ Receive(Tx(ntx + 1))
      BY <1>1 DEF VMTx, Tx, IInv, TypeOK
    <2>2. /\ rxbufs' \in Seq(Packet) /\ Len(rxbufs') = Len(rxbufs) + 1
          /\ \A i \in 1..Len(rxbufs) : rxbufs'[i] = rxbufs[i]
          /\ rxbufs'[Len(rxbufs) + 1] = Tx(ntx + 1)
      BY <2>1, ReceiveIs
    <2>3. Acks' = Acks
      BY <1>0, <2>2 DEF Acks, Tx
    <2>4. \A i \in Acks : rxbufs'[i] = rxbufs[i]
      BY <1>0, <2>2 DEF Acks
    <2> QED  BY <1>1, <2>3, <2>4 DEF VMTx, IInv, RxOneAtATime
  <1>2. CASE VMAck
    <2>1. ebusy /\ onbus = <<trnidx>> /\ Acks = {}
      BY <1>2 DEF VMAck, IInv, RxOneAtATime
    <2>2. Head(onbus) = trnidx /\ Tail(onbus) = <<>> /\ trnidx \in Nat
      BY <2>1, CanIfAssumption DEF IInv, TypeOK
    <2>3. RxAck(trnidx) \in Packet /\ Receive(RxAck(trnidx))
      BY <1>2, <2>2 DEF VMAck, RxAck
    <2>4. /\ rxbufs' \in Seq(Packet) /\ Len(rxbufs') = Len(rxbufs) + 1
          /\ \A i \in 1..Len(rxbufs) : rxbufs'[i] = rxbufs[i]
          /\ rxbufs'[Len(rxbufs) + 1] = RxAck(trnidx)
      BY <2>3, ReceiveIs
    <2>5. Acks' = {Len(rxbufs) + 1} /\ rxbufs'[Len(rxbufs) + 1].n = trnidx
      <3>1. Acks' = {i \in 1..(Len(rxbufs) + 1) : rxbufs'[i].pkt = "RX_ACK"}
        BY <2>4 DEF Acks
      <3>2. \A i \in 1..Len(rxbufs) : rxbufs'[i].pkt # "RX_ACK"
        BY <1>0, <2>1, <2>4 DEF Acks
      <3>3. rxbufs'[Len(rxbufs) + 1].pkt = "RX_ACK" /\ rxbufs'[Len(rxbufs) + 1].n = trnidx
        BY <2>4 DEF RxAck
      <3> QED  BY <1>0, <3>1, <3>2, <3>3
    <2> QED  BY <1>2, <2>1, <2>2, <2>5 DEF VMAck, IInv, RxOneAtATime
  <1>3. CASE AdvanceEnd
    BY <1>3 DEF AdvanceEnd, rxvars, IInv, RxOneAtATime, Acks
  <1>4. CASE TxBehind
    BY <1>4 DEF TxBehind, rxvars, IInv, RxOneAtATime, Acks
  <1>5. CASE TxStall
    BY <1>5 DEF TxStall, rxvars, IInv, RxOneAtATime, Acks
  <1>6. CASE TxDone
    <2>1. cur \in 1..Len(rxbufs) /\ cur \notin Acks /\ Free
      BY <1>6 DEF TxDone, At, Acks
    <2>2. /\ rxbufs' \in Seq(Packet) /\ Len(rxbufs') = Len(rxbufs) - 1
          /\ \A i \in 1..(Len(rxbufs) - 1) :
               rxbufs'[i] = IF i < cur THEN rxbufs[i] ELSE rxbufs[i + 1]
      BY <2>1, FreeIs
    <2>3. \A i \in 1..(Len(rxbufs) - 1) :
            i \in Acks' <=> (IF i < cur THEN i ELSE i + 1) \in Acks
      <3> TAKE i \in 1..(Len(rxbufs) - 1)
      <3>1. /\ i \in DOMAIN rxbufs /\ i + 1 \in DOMAIN rxbufs
            /\ i \in DOMAIN rxbufs'
        BY <1>0, <2>2
      <3>2. rxbufs'[i] = IF i < cur THEN rxbufs[i] ELSE rxbufs[i + 1]
        BY <2>2
      <3> QED  BY <3>1, <3>2 DEF Acks
    <2>4. Acks = {} => Acks' = {}
      <3>1. \A m \in Acks' : m \in 1..(Len(rxbufs) - 1)
        BY <2>2 DEF Acks
      <3> QED  BY <2>3, <3>1
    <2>5. ASSUME NEW i \in Acks, Acks = {i}, rxbufs[i].n = trnidx
          PROVE  \E j \in Acks' : Acks' = {j} /\ rxbufs'[j].n = trnidx
      <3> DEFINE j == IF i < cur THEN i ELSE i - 1
      <3>1. i \in 1..Len(rxbufs) /\ i # cur
        BY <1>0, <2>1 DEF Acks
      <3>2. j \in 1..(Len(rxbufs) - 1) /\ (IF j < cur THEN j ELSE j + 1) = i
        BY <1>0, <2>1, <3>1
      <3>3. j \in Acks' /\ rxbufs'[j] = rxbufs[i]
        BY <2>2, <2>3, <3>2
      <3>4. ASSUME NEW m \in Acks' PROVE m = j
        <4>1. m \in 1..(Len(rxbufs) - 1)
          BY <2>2, <3>4 DEF Acks
        <4>2. (IF m < cur THEN m ELSE m + 1) = i
          BY <2>3, <2>5, <3>4, <4>1
        <4> QED  BY <1>0, <2>1, <3>1, <4>1, <4>2
      <3> HIDE DEF j
      <3> QED  BY <2>5, <3>3, <3>4
    <2> QED
      BY <1>6, <2>4, <2>5 DEF TxDone, rxvars, IInv, RxOneAtATime
  <1>7. CASE RxComplete
    <2>1. cur \in Acks /\ Free
      BY <1>7 DEF RxComplete, At, Acks
    <2>2. ebusy /\ onbus = <<>> /\ Acks = {cur} /\ rxbufs[cur].n = trnidx
      BY <2>1 DEF IInv, RxOneAtATime
    <2>3. /\ rxbufs' \in Seq(Packet) /\ Len(rxbufs') = Len(rxbufs) - 1
          /\ \A i \in 1..(Len(rxbufs) - 1) :
               rxbufs'[i] = IF i < cur THEN rxbufs[i] ELSE rxbufs[i + 1]
      BY <1>0, <2>1, FreeIs DEF Acks
    <2>4. Acks' = {}
      <3>1. ASSUME NEW m \in Acks' PROVE FALSE
        <4>1. m \in 1..(Len(rxbufs) - 1) /\ rxbufs'[m].pkt = "RX_ACK"
          BY <2>3, <3>1 DEF Acks
        <4>2. CASE m < cur
          <5>1. m \in Acks
            <6>1. m \in 1..Len(rxbufs) /\ rxbufs'[m] = rxbufs[m]
              BY <1>0, <2>3, <4>1, <4>2
            <6> QED  BY <1>0, <4>1, <6>1 DEF Acks
          <5> QED  BY <1>0, <2>1, <2>2, <4>1, <4>2, <5>1 DEF Acks
        <4>3. CASE ~(m < cur)
          <5>1. m + 1 \in Acks
            <6>1. m + 1 \in 1..Len(rxbufs) /\ rxbufs'[m] = rxbufs[m + 1]
              BY <1>0, <2>3, <4>1, <4>3
            <6> QED  BY <1>0, <4>1, <6>1 DEF Acks
          <5> QED  BY <1>0, <2>1, <2>2, <4>1, <4>3, <5>1 DEF Acks
        <4> QED  BY <4>2, <4>3
      <3> QED  BY <3>1
    <2>5. ebusy' = FALSE /\ ndone' = ndone + 1 /\ onbus' = <<>> /\ nrx' = nrx
      BY <1>7, <2>2 DEF RxComplete
    <2>6. nrx = ndone + 1
      BY <2>2 DEF IInv, RxOneAtATime
    <2> QED  BY <1>a, <2>4, <2>5, <2>6 DEF RxOneAtATime
  <1>8. CASE Ready
    BY <1>8 DEF Ready, rxvars, IInv, RxOneAtATime, Acks
  <1>9. ASSUME NEW s \in {"loop", "app"}, CanRx(s)
        PROVE  RxOneAtATime'
    <2>1. ~ebusy /\ onbus = <<>> /\ Acks = {} /\ nrx = ndone
      BY <1>9, <1>a DEF CanRx, IInv, RxOneAtATime
    <2>2. ebusy' = TRUE /\ onbus' = <<trnidx'>> /\ Acks' = {}
      BY <1>9, <2>1 DEF CanRx, Acks
    <2>3. nrx' = ndone' + 1
      BY <1>9, <2>1 DEF CanRx
    <2> QED  BY <2>2, <2>3 DEF RxOneAtATime
  <1>10. CASE UNCHANGED vars
    BY <1>10 DEF vars, IInv, RxOneAtATime, Acks
  <1> QED
    BY <1>1, <1>2, <1>3, <1>4, <1>5, <1>6, <1>7, <1>8, <1>9, <1>10 DEF Next, Advance

(* Every step keeps the order of the VM's frames.                           *)
LEMMA OrderStep ==
    ASSUME IInv, [Next]_vars
    PROVE  TxInOrder'
  <1> USE DEF Packet
  <1>0. /\ rxbufs \in Seq(Packet) /\ DOMAIN rxbufs = 1..Len(rxbufs) /\ Len(rxbufs) \in Nat
        /\ acked \in Seq(1..MaxTx) /\ Len(acked) \in Nat /\ ntx \in Nat
    BY CanIfAssumption DEF IInv, TypeOK
  <1>a. TxInOrder /\ \A i \in Frames : i \in 1..Len(rxbufs) /\ rxbufs[i].n \in Nat
    <2>1. \A i \in 1..Len(rxbufs) : rxbufs[i].n \in Nat
      <3> TAKE i \in 1..Len(rxbufs)
      <3>1. rxbufs[i] \in Packet
        BY <1>0, ElementOfSeq
      <3> QED  BY <3>1
    <2>2. \A i \in Frames : i \in 1..Len(rxbufs)
      BY <1>0 DEF Frames
    <2> QED  BY <2>1, <2>2 DEF IInv
  <1>1. CASE VMTx
    <2>1. Tx(ntx + 1) \in Packet /\ Receive(Tx(ntx + 1)) /\ ntx' = ntx + 1 /\ acked' = acked
      BY <1>0, <1>1 DEF VMTx, Tx
    <2>2. /\ rxbufs' \in Seq(Packet) /\ Len(rxbufs') = Len(rxbufs) + 1
          /\ \A i \in 1..Len(rxbufs) : rxbufs'[i] = rxbufs[i]
          /\ rxbufs'[Len(rxbufs) + 1] = Tx(ntx + 1)
      BY <2>1, ReceiveIs
    <2>3. /\ Frames' = Frames \cup {Len(rxbufs) + 1}
          /\ \A i \in Frames : rxbufs'[i] = rxbufs[i]
          /\ rxbufs'[Len(rxbufs) + 1].n = ntx + 1
      BY <1>0, <2>2 DEF Frames, Tx
    <2>4. \A i \in Frames : rxbufs[i].n \in (Len(acked) + 1)..ntx
      BY <1>a DEF TxInOrder
    <2>5. {rxbufs'[i].n : i \in Frames'} = {rxbufs[i].n : i \in Frames} \cup {ntx + 1}
      BY <2>3
    <2>6. ((Len(acked) + 1)..ntx) \cup {ntx + 1} = (Len(acked) + 1)..(ntx + 1)
      <3>1. Len(acked) <= ntx
        BY <1>a DEF TxInOrder
      <3> QED  BY <1>0, <3>1
    <2>7. \A i, j \in Frames' : i < j => rxbufs'[i].n < rxbufs'[j].n
      <3> TAKE i, j \in Frames'
      <3> HAVE i < j
      <3>1. i \in Frames
        BY <1>0, <1>a, <2>3
      <3>2. CASE j \in Frames
        BY <1>a, <2>3, <3>1, <3>2 DEF TxInOrder
      <3>3. CASE j = Len(rxbufs) + 1
        BY <1>0, <2>3, <2>4, <3>1, <3>3
      <3> QED  BY <2>3, <3>2, <3>3
    <2>8. Len(acked') <= ntx' /\ \A n \in 1..Len(acked') : acked'[n] = n
      BY <1>0, <1>a, <2>1 DEF TxInOrder
    <2> QED  BY <1>a, <2>1, <2>5, <2>6, <2>7, <2>8 DEF TxInOrder
  <1>2. CASE VMAck
    <2>1. Head(onbus) \in Nat
      BY <1>2, CanIfAssumption DEF VMAck, IInv, TypeOK
    <2>2. RxAck(Head(onbus)) \in Packet /\ Receive(RxAck(Head(onbus)))
      BY <1>2, <2>1 DEF VMAck, RxAck
    <2>3. /\ rxbufs' \in Seq(Packet) /\ Len(rxbufs') = Len(rxbufs) + 1
          /\ \A i \in 1..Len(rxbufs) : rxbufs'[i] = rxbufs[i]
          /\ rxbufs'[Len(rxbufs) + 1] = RxAck(Head(onbus))
      BY <2>2, ReceiveIs
    <2>4. Frames' = Frames /\ \A i \in Frames : rxbufs'[i] = rxbufs[i]
      BY <1>0, <2>3 DEF Frames, RxAck
    <2> QED  BY <1>2, <1>a, <2>4 DEF VMAck, TxInOrder
  <1>3. CASE TxDone \/ RxComplete
    <2>1. cur \in 1..Len(rxbufs) /\ Free
      BY <1>3 DEF TxDone, RxComplete, At
    <2>2. /\ rxbufs' \in Seq(Packet) /\ Len(rxbufs') = Len(rxbufs) - 1
          /\ \A i \in 1..(Len(rxbufs) - 1) :
               rxbufs'[i] = IF i < cur THEN rxbufs[i] ELSE rxbufs[i + 1]
      BY <2>1, FreeIs
    <2> DEFINE Old(i) == IF i < cur THEN i ELSE i + 1
    <2>3. \A i \in 1..(Len(rxbufs) - 1) :
            Old(i) \in 1..Len(rxbufs) /\ Old(i) # cur /\ rxbufs'[i] = rxbufs[Old(i)]
      <3> TAKE i \in 1..(Len(rxbufs) - 1)
      <3>1. Old(i) \in 1..Len(rxbufs) /\ Old(i) # cur
        BY <1>0, <2>1
      <3>2. rxbufs'[i] = rxbufs[Old(i)]
        BY <2>2
      <3> QED  BY <3>1, <3>2
    <2>4. \A i, j \in 1..(Len(rxbufs) - 1) : i < j => Old(i) < Old(j)
      BY <1>0, <2>1
    <2>5. \A m \in 1..Len(rxbufs) : m # cur =>
            \E i \in 1..(Len(rxbufs) - 1) : Old(i) = m
      <3> TAKE m \in 1..Len(rxbufs)
      <3> HAVE m # cur
      <3>1. CASE m < cur
        BY <1>0, <2>1, <3>1
      <3>2. CASE cur < m
        <4>1. m - 1 \in 1..(Len(rxbufs) - 1) /\ Old(m - 1) = m
          BY <1>0, <2>1, <3>2
        <4> QED  BY <4>1
      <3> QED  BY <1>0, <2>1, <3>1, <3>2
    <2> HIDE DEF Old
    <2>6. \A i \in Frames' : i \in 1..(Len(rxbufs) - 1) /\ Old(i) \in Frames
      <3> TAKE i \in Frames'
      <3>1. i \in 1..(Len(rxbufs) - 1) /\ rxbufs'[i].pkt = "TX"
        BY <2>2 DEF Frames
      <3>2. Old(i) \in DOMAIN rxbufs /\ rxbufs'[i] = rxbufs[Old(i)]
        BY <1>0, <2>3, <3>1
      <3> QED  BY <3>1, <3>2 DEF Frames
    <2>7. \A m \in Frames : m # cur => \E i \in Frames' : Old(i) = m
      <3> TAKE m \in Frames
      <3> HAVE m # cur
      <3>1. PICK i \in 1..(Len(rxbufs) - 1) : Old(i) = m
        BY <1>0, <2>5 DEF Frames
      <3> QED  BY <2>2, <2>3, <3>1 DEF Frames
    <2>8. \A i, j \in Frames' : i < j => rxbufs'[i].n < rxbufs'[j].n
      <3> TAKE i, j \in Frames'
      <3> HAVE i < j
      <3>1. Old(i) \in Frames /\ Old(j) \in Frames /\ Old(i) < Old(j)
        BY <2>4, <2>6
      <3>2. rxbufs'[i] = rxbufs[Old(i)] /\ rxbufs'[j] = rxbufs[Old(j)]
        BY <2>3, <2>6
      <3> QED  BY <1>a, <3>1, <3>2 DEF TxInOrder
    <2>9. {rxbufs'[i].n : i \in Frames'} = {rxbufs[i].n : i \in Frames \ {cur}}
      <3>1. \A i \in Frames' : Old(i) \in Frames \ {cur} /\ rxbufs'[i].n = rxbufs[Old(i)].n
        BY <2>3, <2>6
      <3> QED  BY <2>7, <3>1
    <2>10. CASE RxComplete
      <3>1. cur \notin Frames /\ acked' = acked /\ ntx' = ntx
        BY <2>10 DEF RxComplete, At, Frames
      <3>2. {rxbufs'[i].n : i \in Frames'} = {rxbufs[i].n : i \in Frames}
        BY <2>9, <3>1
      <3> QED  BY <1>a, <2>8, <3>1, <3>2 DEF TxInOrder
    <2>11. CASE TxDone
      <3>1. /\ cur = 1 /\ cur \in Frames /\ ntx' = ntx
            /\ acked' = Append(acked, rxbufs[cur].n)
        BY <1>0, <2>1, <2>11 DEF TxDone, At, Frames, IInv, LoopInv
      <3>2. \A i \in Frames \ {cur} : rxbufs[cur].n < rxbufs[i].n
        BY <1>0, <1>a, <3>1 DEF TxInOrder
      <3>3. {rxbufs[i].n : i \in Frames} = (Len(acked) + 1)..ntx
        BY <1>a DEF TxInOrder
      <3>4. rxbufs[cur].n = Len(acked) + 1
        <4>1. rxbufs[cur].n \in (Len(acked) + 1)..ntx
          BY <3>1, <3>3
        <4>2. PICK k \in Frames : rxbufs[k].n = Len(acked) + 1
          <5>1. Len(acked) + 1 \in (Len(acked) + 1)..ntx
            BY <1>0, <4>1
          <5>2. Len(acked) + 1 \in {rxbufs[i].n : i \in Frames}
            BY <3>3, <5>1
          <5> QED  BY <5>2
        <4> QED  BY <1>0, <3>2, <4>1, <4>2
      <3>5. {rxbufs[i].n : i \in Frames \ {cur}} = (Len(acked) + 2)..ntx
        <4>1. \A i \in Frames \ {cur} : rxbufs[i].n \in (Len(acked) + 2)..ntx
          BY <1>0, <1>a, <3>2, <3>3, <3>4
        <4>2. ASSUME NEW k \in (Len(acked) + 2)..ntx
              PROVE  \E i \in Frames \ {cur} : rxbufs[i].n = k
          <5>1. k \in (Len(acked) + 1)..ntx /\ k # Len(acked) + 1
            BY <1>0
          <5>2. PICK i \in Frames : rxbufs[i].n = k
            BY <3>3, <5>1
          <5> QED  BY <3>4, <5>1, <5>2
        <4> QED  BY <4>1, <4>2
      <3>6. /\ Len(acked') = Len(acked) + 1
            /\ \A n \in 1..Len(acked') : acked'[n] = n
            /\ Len(acked') <= ntx'
        <4>1. rxbufs[cur].n <= ntx
          BY <3>1, <3>3
        <4> QED  BY <1>0, <1>a, <3>1, <3>4, <4>1 DEF TxInOrder
      <3>7. {rxbufs'[i].n : i \in Frames'} = (Len(acked') + 1)..ntx'
        <4>1. Len(acked') + 1 = Len(acked) + 2
          BY <1>0, <3>6
        <4> QED  BY <2>9, <3>1, <3>5, <4>1
      <3> QED  BY <2>8, <3>6, <3>7 DEF TxInOrder
    <2> QED  BY <1>3, <2>10, <2>11
  <1>4. CASE AdvanceEnd \/ TxBehind \/ TxStall \/ Ready
    BY <1>4, <1>a DEF AdvanceEnd, TxBehind, TxStall, Ready, rxvars, TxInOrder, Frames
  <1>5. ASSUME NEW s \in {"loop", "app"}, CanRx(s)
        PROVE  TxInOrder'
    BY <1>5, <1>a DEF CanRx, TxInOrder, Frames
  <1>6. CASE UNCHANGED vars
    BY <1>6, <1>a DEF vars, TxInOrder, Frames
  <1> QED
    BY <1>1, <1>2, <1>3, <1>4, <1>5, <1>6 DEF Next, Advance

LEMMA Inductive == Spec => []IInv
  <1>1. IInv /\ [Next]_vars => IInv'
    BY TypeStep, OneStep, OrderStep DEF IInv
  <1> QED  BY InitInv, <1>1, PTL DEF Spec

-----------------------------------------------------------------------------
(* Every variable keeps its type, and when the loop rests only frames       *)
(* behind a stall are queued: coremodel_advance_if leaves nothing else.     *)
THEOREM TypeCorrect == Spec => []TypeOK
  <1>1. IInv => TypeOK
    BY DEF IInv
  <1> QED  BY Inductive, <1>1, PTL

(* coremodel_can_rx and the acknowledgements keep one frame under way, and  *)
(* each acknowledgement completes the frame it is for, however many frames  *)
(* there are and wherever their indices come round.                         *)
THEOREM OneAtATime == Spec => []RxOneAtATime
  <1>1. IInv => RxOneAtATime
    BY DEF IInv
  <1> QED  BY Inductive, <1>1, PTL

(* The VM's frames are answered in the order of sending, each once, however *)
(* often the application stalls and the loop passes them over.              *)
THEOREM TransmitOrder == Spec => []TxInOrder
  <1>1. IInv => TxInOrder
    BY DEF IInv
  <1> QED  BY Inductive, <1>1, PTL
=============================================================================
