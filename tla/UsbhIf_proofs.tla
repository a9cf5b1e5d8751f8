---------------------------- MODULE UsbhIf_proofs ----------------------------
(***************************************************************************)
(* The USB host interface, for any pipes and any number of packets: the    *)
(* types, that transfers of a pipe are a queue of which nothing is lost,   *)
(* and that a reset parts what is sent before it from what comes after.    *)
(***************************************************************************)
EXTENDS UsbhIf, SequenceTheorems, TLAPS

(* Taking an element out of a sequence moves those behind it one place.     *)
LEMMA RemoveAtIs ==
    ASSUME NEW S, NEW s \in Seq(S), NEW k \in 1..Len(s)
    PROVE  /\ RemoveAt(s, k) \in Seq(S)
           /\ Len(RemoveAt(s, k)) = Len(s) - 1
           /\ \A i \in 1..(Len(s) - 1) :
                RemoveAt(s, k)[i] = IF i < k THEN s[i] ELSE s[i + 1]
  <1> DEFINE a == SubSeq(s, 1, k - 1)
             b == SubSeq(s, k + 1, Len(s))
  <1>1. a \in Seq(S) /\ Len(a) = k - 1 /\ \A i \in 1..(k - 1) : a[i] = s[i]
    OBVIOUS
  <1>2. b \in Seq(S) /\ Len(b) = Len(s) - k /\ \A i \in 1..(Len(s) - k) : b[i] = s[k + i]
    OBVIOUS
  <1>3. RemoveAt(s, k) = a \o b
    BY DEF RemoveAt
  <1> HIDE DEF a, b
  <1>4. a \o b \in Seq(S) /\ Len(a \o b) = Len(a) + Len(b)
    BY <1>1, <1>2, ConcatProperties
  <1>5. ASSUME NEW i \in 1..(Len(s) - 1)
        PROVE  (a \o b)[i] = IF i < k THEN s[i] ELSE s[i + 1]
    <2>1. (a \o b)[i] = IF i <= Len(a) THEN a[i] ELSE b[i - Len(a)]
      BY <1>1, <1>2, ConcatProperties
    <2>2. CASE i < k
      BY <2>1, <2>2, <1>1
    <2>3. CASE ~(i < k)
      <3>1. i - (k - 1) \in 1..(Len(s) - k) /\ k + (i - (k - 1)) = i + 1
        BY <2>3
      <3>2. b[i - (k - 1)] = s[k + (i - (k - 1))]
        BY <3>1, <1>2
      <3>3. (a \o b)[i] = b[i - (k - 1)]
        BY <2>1, <2>3, <1>1
      <3> QED  BY <2>3, <3>1, <3>2, <3>3
    <2> QED  BY <2>2, <2>3
  <1> QED  BY <1>1, <1>2, <1>3, <1>4, <1>5
-----------------------------------------------------------------------------
(* The queue is in the order of sending.                                    *)
QueueInv ==
    /\ \A i, j \in 1..Len(rxbufs) : i < j => rxbufs[i].id < rxbufs[j].id
    /\ \A p \in ToSet(rxbufs) \cup ToSet(log) : p.id <= npkts

(* What may not overtake: a reset anything, a transfer one of its pipe.     *)
Before(p, q) == (p.pkt = "RESET" \/ p.pipe = q.pipe) => p.id < q.id
LogInv ==
    /\ \A i, j \in 1..Len(log) : i < j => Before(log[i], log[j])
    /\ \A p \in ToSet(log), q \in ToSet(rxbufs) : Before(p, q)

DropInv ==
    \A id \in dropped :
        \E p \in ToSet(log) \cup ToSet(rxbufs) : p.pkt = "RESET" /\ id < p.id

(* The sweep of a reset stays at the front of the queue and has its reset   *)
(* ahead; otherwise the loop passes over waiting transfers only.            *)
SweepInv ==
    /\ busy => cur = 1 /\ \E i \in 1..Len(rxbufs) : rxbufs[i].pkt = "RESET"
    /\ ~busy => \A i \in 1..Len(rxbufs) : i < cur => rxbufs[i].pipe \in ebusy

IInv == TypeOK /\ SweepInv /\ QueueInv /\ LogInv /\ DropInv /\ NoneLost

LEMMA ToSetOf ==
    ASSUME NEW S, NEW s \in Seq(S)
    PROVE  /\ ToSet(s) = {s[i] : i \in 1..Len(s)}
           /\ ToSet(s) \subseteq S
  BY DEF ToSet

LEMMA ToSetAppend ==
    ASSUME NEW S, NEW s \in Seq(S), NEW e \in S
    PROVE  ToSet(Append(s, e)) = ToSet(s) \cup {e}
  <1>1. /\ Append(s, e) \in Seq(S) /\ Len(Append(s, e)) = Len(s) + 1
        /\ \A i \in 1..Len(s) : Append(s, e)[i] = s[i]
        /\ Append(s, e)[Len(s) + 1] = e
        /\ Len(s) \in Nat
    OBVIOUS
  <1>2. ToSet(Append(s, e)) = {Append(s, e)[i] : i \in 1..(Len(s) + 1)}
    BY <1>1, ToSetOf
  <1>3. ToSet(s) = {s[i] : i \in 1..Len(s)}
    BY ToSetOf
  <1> QED  BY <1>1, <1>2, <1>3

LEMMA InitInv == Init => IInv
  <1> SUFFICES ASSUME Init PROVE IInv
    OBVIOUS
  <1>1. /\ rxbufs \in Seq(Packets) /\ log \in Seq(Packets)
        /\ Len(rxbufs) = 0 /\ Len(log) = 0
    BY DEF Init
  <1>2. ToSet(rxbufs) = {} /\ ToSet(log) = {}
    BY DEF Init, ToSet
  <1>3. TypeOK
    <2>1. cur \in 0..(Len(rxbufs) + 1) /\ npkts \in 0..MaxPkts
      BY <1>1, UsbhIfAssumption DEF Init
    <2>2. cur = 0 => ~busy /\ \A i \in 1..Len(rxbufs) : rxbufs[i].pipe \in ebusy
      BY <1>1 DEF Init
    <2> QED  BY <1>1, <2>1, <2>2 DEF Init, TypeOK
  <1>4. NoneLost
    BY <1>2 DEF Init, NoneLost
  <1> QED  BY <1>1, <1>2, <1>3, <1>4 DEF Init, IInv, SweepInv, QueueInv, LogInv, DropInv

(* A packet is freed and the loop starts over.                              *)
LEMMA FreeIs ==
    ASSUME IInv, cur \in 1..Len(rxbufs), Free
    PROVE  /\ rxbufs' \in Seq(Packets) /\ Len(rxbufs') = Len(rxbufs) - 1
           /\ \A i \in 1..(Len(rxbufs) - 1) :
                rxbufs'[i] = IF i < cur THEN rxbufs[i] ELSE rxbufs[i + 1]
           /\ ToSet(rxbufs') = ToSet(rxbufs) \ {Here}
           /\ \A i, j \in 1..Len(rxbufs') : i < j => rxbufs'[i].id < rxbufs'[j].id
           /\ cur' = 1
  <1>1. rxbufs \in Seq(Packets) /\ Len(rxbufs) \in Nat
    BY DEF IInv, TypeOK
  <1>2. /\ rxbufs' \in Seq(Packets) /\ Len(rxbufs') = Len(rxbufs) - 1
        /\ \A i \in 1..(Len(rxbufs) - 1) :
             rxbufs'[i] = IF i < cur THEN rxbufs[i] ELSE rxbufs[i + 1]
        /\ cur' = 1
    BY <1>1, RemoveAtIs DEF Free
  <1>3. \A i, j \in 1..Len(rxbufs) : i < j => rxbufs[i].id < rxbufs[j].id
    BY DEF IInv, QueueInv
  <1>4. \A i \in 1..Len(rxbufs) : rxbufs[i].id \in Nat
    BY <1>1 DEF Packets
  <1>5. ASSUME NEW i \in 1..Len(rxbufs'), NEW j \in 1..Len(rxbufs'), i < j
        PROVE  rxbufs'[i].id < rxbufs'[j].id
    <2> DEFINE Old(k) == IF k < cur THEN k ELSE k + 1
    <2>1. \A k \in 1..Len(rxbufs') : Old(k) \in 1..Len(rxbufs) /\ rxbufs'[k] = rxbufs[Old(k)]
      BY <1>1, <1>2
    <2>2. Old(i) < Old(j)
      BY <1>1, <1>2, <1>5
    <2> HIDE DEF Old
    <2> QED  BY <1>3, <2>1, <2>2
  <1>6. ToSet(rxbufs') = ToSet(rxbufs) \ {Here}
    <2>1. /\ ToSet(rxbufs) = {rxbufs[i] : i \in 1..Len(rxbufs)}
          /\ ToSet(rxbufs') = {rxbufs'[i] : i \in 1..Len(rxbufs')}
      BY <1>1, <1>2, ToSetOf
    <2>2. \A i \in 1..Len(rxbufs) : i # cur => rxbufs[i] # Here
      BY <1>1, <1>3, <1>4 DEF Here
    <2>3. ASSUME NEW k \in 1..Len(rxbufs')
          PROVE  rxbufs'[k] \in ToSet(rxbufs) \ {Here}
      <3>1. PICK m \in 1..Len(rxbufs) : m # cur /\ rxbufs'[k] = rxbufs[m]
        <4>1. CASE k < cur
          BY <1>1, <1>2, <4>1
        <4>2. CASE ~(k < cur)
          <5>1. k + 1 \in 1..Len(rxbufs) /\ k + 1 # cur
            BY <1>1, <1>2, <4>2
          <5>2. rxbufs'[k] = rxbufs[k + 1]
            BY <1>2, <4>2
          <5> QED  BY <5>1, <5>2
        <4> QED  BY <4>1, <4>2
      <3> QED  BY <2>1, <2>2, <3>1
    <2>4. ASSUME NEW m \in 1..Len(rxbufs), rxbufs[m] # Here
          PROVE  rxbufs[m] \in ToSet(rxbufs')
      <3>1. m # cur
        BY <2>4 DEF Here
      <3>2. CASE m < cur
        <4>1. m \in 1..Len(rxbufs') /\ rxbufs'[m] = rxbufs[m]
          BY <1>1, <1>2, <3>2
        <4> QED  BY <2>1, <4>1
      <3>3. CASE m > cur
        <4>1. m - 1 \in 1..Len(rxbufs') /\ ~(m - 1 < cur) /\ (m - 1) + 1 = m
          BY <1>1, <1>2, <3>3
        <4>2. rxbufs'[m - 1] = rxbufs[m]
          BY <1>2, <4>1
        <4> QED  BY <2>1, <4>1, <4>2
      <3> QED  BY <1>1, <3>1, <3>2, <3>3
    <2> QED  BY <2>1, <2>3, <2>4
  <1> QED  BY <1>2, <1>5, <1>6

-----------------------------------------------------------------------------
(* The packet freed is answered, or is a reset whose rst is called, behind  *)
(* none that it may not overtake.                                           *)
LEMMA AnsweredStep ==
    ASSUME IInv, cur \in 1..Len(rxbufs), Free,
           log' = Append(log, Here), npkts' = npkts, dropped' = dropped,
           Here.pkt = "RESET" => cur = 1,
           \A i \in 1..Len(rxbufs) : i < cur => rxbufs[i].pipe # Here.pipe
    PROVE  log' \in Seq(Packets) /\ QueueInv' /\ LogInv' /\ DropInv' /\ NoneLost'
  <1>1. /\ rxbufs \in Seq(Packets) /\ log \in Seq(Packets) /\ Here \in Packets
        /\ Len(rxbufs) \in Nat
    BY DEF IInv, TypeOK, Here
  <1>2. /\ \A i, j \in 1..Len(rxbufs') : i < j => rxbufs'[i].id < rxbufs'[j].id
        /\ ToSet(rxbufs') = ToSet(rxbufs) \ {Here}
    BY FreeIs
  <1>3. log' \in Seq(Packets) /\ ToSet(log') = ToSet(log) \cup {Here}
    BY <1>1, ToSetAppend
  <1>4. Here \in ToSet(rxbufs) /\ ToSet(rxbufs) = {rxbufs[i] : i \in 1..Len(rxbufs)}
    BY <1>1, ToSetOf DEF Here
  <1>5. QueueInv'
    BY <1>2, <1>3, <1>4 DEF IInv, QueueInv
  <1>6. LogInv'
    <2>1. ASSUME NEW p \in ToSet(log'), NEW q \in ToSet(rxbufs')
          PROVE  Before(p, q)
      <3>1. q \in ToSet(rxbufs) /\ q # Here
        BY <1>2
      <3>2. CASE p \in ToSet(log)
        BY <3>1, <3>2 DEF IInv, LogInv
      <3>3. CASE p = Here
        <4>1. PICK j \in 1..Len(rxbufs) : q = rxbufs[j]
          BY <1>4, <3>1
        <4>2. j # cur
          BY <3>1, <4>1 DEF Here
        <4>3. CASE j < cur
          BY <3>3, <4>1, <4>3 DEF Before
        <4>4. CASE cur < j
          <5>1. Here.id < q.id
            BY <4>1, <4>4 DEF IInv, QueueInv, Here
          <5> QED  BY <3>3, <5>1 DEF Before
        <4> QED  BY <1>1, <4>2, <4>3, <4>4
      <3> QED  BY <1>3, <3>2, <3>3
    <2>2. ASSUME NEW i \in 1..Len(log'), NEW j \in 1..Len(log'), i < j
          PROVE  Before(log'[i], log'[j])
      <3>1. /\ Len(log') = Len(log) + 1 /\ Len(log) \in Nat
            /\ \A k \in 1..Len(log) : log'[k] = log[k]
            /\ log'[Len(log) + 1] = Here
        BY <1>1
      <3>2. i \in 1..Len(log) /\ log'[i] = log[i]
        BY <2>2, <3>1
      <3>3. CASE j \in 1..Len(log)
        BY <2>2, <3>1, <3>2, <3>3 DEF IInv, LogInv
      <3>4. CASE j = Len(log) + 1
        <4>1. log[i] \in ToSet(log)
          BY <1>1, <3>2, ToSetOf
        <4>2. Before(log[i], Here)
          BY <1>4, <4>1 DEF IInv, LogInv
        <4> QED  BY <3>1, <3>2, <3>4, <4>2
      <3> QED  BY <2>2, <3>1, <3>3, <3>4
    <2> QED  BY <2>1, <2>2 DEF LogInv
  <1>7. DropInv'
    BY <1>2, <1>3 DEF IInv, DropInv
  <1>8. NoneLost'
    <2>1. ToSet(log') \cup ToSet(rxbufs') = ToSet(log) \cup ToSet(rxbufs)
      BY <1>2, <1>3, <1>4
    <2> QED  BY <2>1 DEF IInv, NoneLost
  <1> QED  BY <1>3, <1>5, <1>6, <1>7, <1>8

(* A transfer in front of a reset that sweeps is cancelled.                 *)
LEMMA CancelStep ==
    ASSUME IInv, XfrCancel
    PROVE  IInv'
  <1>0. cur \in 1..Len(rxbufs) /\ Free /\ busy /\ Here.pkt = "XFR"
    BY DEF XfrCancel, At, Here
  <1>1. /\ rxbufs \in Seq(Packets) /\ log \in Seq(Packets) /\ Here \in Packets
        /\ Len(rxbufs) \in Nat
    BY <1>0 DEF IInv, TypeOK, Here
  <1>2. /\ rxbufs' \in Seq(Packets) /\ Len(rxbufs') = Len(rxbufs) - 1
        /\ \A i \in 1..(Len(rxbufs) - 1) :
             rxbufs'[i] = IF i < cur THEN rxbufs[i] ELSE rxbufs[i + 1]
        /\ ToSet(rxbufs') = ToSet(rxbufs) \ {Here}
        /\ \A i, j \in 1..Len(rxbufs') : i < j => rxbufs'[i].id < rxbufs'[j].id
        /\ cur' = 1
    BY <1>0, FreeIs
  <1>3. PICK r \in 1..Len(rxbufs) : rxbufs[r].pkt = "RESET" /\ cur = 1
    BY <1>0 DEF IInv, SweepInv
  <1>4. r > 1 /\ rxbufs[r] # Here
    BY <1>0, <1>1, <1>3 DEF Here
  <1>5. Here \in ToSet(rxbufs) /\ rxbufs[r] \in ToSet(rxbufs)
    BY <1>0, <1>1, ToSetOf DEF Here
  <1>6. Here.id < rxbufs[r].id
    BY <1>0, <1>3, <1>4 DEF IInv, QueueInv, Here
  <1>7. TypeOK'
    <2>1. Here.id \in 1..MaxPkts
      BY <1>1 DEF Packets
    <2>2. cur' \in 0..(Len(rxbufs') + 1) /\ cur' # 0
      BY <1>1, <1>2, <1>0
    <2>3. dropped' \subseteq 1..MaxPkts
      BY <2>1 DEF XfrCancel, IInv, TypeOK
    <2> QED  BY <1>2, <2>2, <2>3 DEF XfrCancel, IInv, TypeOK
  <1>8. SweepInv'
    <2>1. r - 1 \in 1..(Len(rxbufs) - 1) /\ ~(r - 1 < cur) /\ (r - 1) + 1 = r
      BY <1>1, <1>3, <1>4
    <2>2. rxbufs'[r - 1] = rxbufs[r]
      BY <1>2, <2>1
    <2> QED  BY <1>0, <1>2, <1>3, <2>1, <2>2 DEF XfrCancel, SweepInv
  <1>9. QueueInv' /\ LogInv'
    BY <1>2 DEF XfrCancel, IInv, QueueInv, LogInv
  <1>10. DropInv'
    <2>1. rxbufs[r] \in ToSet(rxbufs') /\ log' = log
      BY <1>2, <1>4, <1>5 DEF XfrCancel
    <2>2. ASSUME NEW id \in dropped
          PROVE  \E p \in ToSet(log') \cup ToSet(rxbufs') : p.pkt = "RESET" /\ id < p.id
      <3>1. PICK p \in ToSet(log) \cup ToSet(rxbufs) : p.pkt = "RESET" /\ id < p.id
        BY DEF IInv, DropInv
      <3>2. p # Here
        BY <1>0, <3>1
      <3> QED  BY <1>2, <2>1, <3>1, <3>2
    <2>3. dropped' = dropped \cup {Here.id}
      BY DEF XfrCancel
    <2> QED  BY <1>3, <1>6, <2>1, <2>2, <2>3 DEF DropInv
  <1>11. NoneLost'
    <2>1. dropped' = dropped \cup {Here.id} /\ log' = log /\ npkts' = npkts
      BY DEF XfrCancel
    <2>2. {p.id : p \in ToSet(log) \cup ToSet(rxbufs)} \cup dropped = 1..npkts
      BY DEF IInv, NoneLost
    <2>3. {p.id : p \in ToSet(log') \cup ToSet(rxbufs')} \cup dropped' = 1..npkts'
      BY <1>2, <1>5, <2>1, <2>2
    <2> QED  BY <2>3 DEF NoneLost
  <1> QED  BY <1>7, <1>8, <1>9, <1>10, <1>11 DEF IInv

(* A packet of the VM is put at the end and the loop starts.                *)
LEMMA SendStep ==
    ASSUME IInv, VMSend
    PROVE  IInv'
  <1>1. /\ rxbufs \in Seq(Packets) /\ log \in Seq(Packets)
        /\ Len(rxbufs) \in Nat /\ npkts \in Nat /\ npkts' = npkts + 1
        /\ npkts' \in 1..MaxPkts
    BY UsbhIfAssumption DEF VMSend, IInv, TypeOK
  <1>2. PICK p \in Packets : rxbufs' = Append(rxbufs, p) /\ p.id = npkts'
    BY <1>1 DEF VMSend, Packet, Packets
  <1>3. /\ rxbufs' \in Seq(Packets) /\ Len(rxbufs') = Len(rxbufs) + 1
        /\ \A i \in 1..Len(rxbufs) : rxbufs'[i] = rxbufs[i]
        /\ rxbufs'[Len(rxbufs) + 1] = p
    BY <1>1, <1>2
  <1>4. ToSet(rxbufs') = ToSet(rxbufs) \cup {p}
    BY <1>1, <1>2, ToSetAppend
  <1>5. /\ ToSet(rxbufs) = {rxbufs[i] : i \in 1..Len(rxbufs)}
        /\ ToSet(rxbufs) \subseteq Packets /\ ToSet(log) \subseteq Packets
    BY <1>1, ToSetOf
  <1>6. \A q \in ToSet(rxbufs) \cup ToSet(log) : q.id \in Nat /\ q.id <= npkts
    BY <1>5 DEF IInv, QueueInv, Packets
  <1>7. /\ cur = 0 /\ cur' = 1 /\ ~busy /\ UNCHANGED <<busy, ebusy, avail, tell, log, dropped>>
    BY DEF VMSend, IInv, TypeOK
  <1>8. TypeOK'
    <2>1. npkts' \in 0..MaxPkts /\ cur' \in 0..(Len(rxbufs') + 1) /\ cur' # 0
      BY <1>1, <1>3, <1>7, UsbhIfAssumption
    <2> QED  BY <1>3, <1>7, <2>1 DEF IInv, TypeOK
  <1>9. SweepInv'
    BY <1>7 DEF SweepInv
  <1>10. QueueInv'
    <2>1. ASSUME NEW i \in 1..Len(rxbufs'), NEW j \in 1..Len(rxbufs'), i < j
          PROVE  rxbufs'[i].id < rxbufs'[j].id
      <3>1. i \in 1..Len(rxbufs) /\ rxbufs'[i] = rxbufs[i]
        BY <1>1, <1>3, <2>1
      <3>2. CASE j \in 1..Len(rxbufs)
        BY <1>3, <2>1, <3>1, <3>2 DEF IInv, QueueInv
      <3>3. CASE j = Len(rxbufs) + 1
        <4>1. rxbufs[i].id \in Nat /\ rxbufs[i].id <= npkts
          BY <1>5, <1>6, <3>1
        <4> QED  BY <1>1, <1>2, <1>3, <3>1, <3>3, <4>1
      <3> QED  BY <1>1, <1>3, <3>2, <3>3
    <2>2. \A q \in ToSet(rxbufs') \cup ToSet(log') : q.id <= npkts'
      BY <1>1, <1>2, <1>4, <1>6, <1>7
    <2> QED  BY <2>1, <2>2 DEF QueueInv
  <1>11. LogInv'
    <2>1. \A q \in ToSet(log) : q.id < p.id
      BY <1>1, <1>2, <1>6
    <2> QED  BY <1>4, <1>7, <2>1 DEF IInv, LogInv, Before
  <1>12. DropInv'
    BY <1>4, <1>7 DEF IInv, DropInv
  <1>13. NoneLost'
    <2>1. {q.id : q \in ToSet(log) \cup ToSet(rxbufs)} \cup dropped = 1..npkts
      BY DEF IInv, NoneLost
    <2>2. 1..npkts' = 1..npkts \cup {npkts'}
      BY <1>1
    <2>3. {q.id : q \in ToSet(log') \cup ToSet(rxbufs')} \cup dropped' = 1..npkts'
      BY <1>2, <1>4, <1>7, <2>1, <2>2
    <2> QED  BY <2>3 DEF NoneLost
  <1> QED  BY <1>8, <1>9, <1>10, <1>11, <1>12, <1>13 DEF IInv

(* The rest of the queue is where the loop was or before it, and no pipe    *)
(* that waits has become free: the types and the sweep after an answer.     *)
LEMMA FreedTypes ==
    ASSUME IInv, cur \in 1..Len(rxbufs), Free, busy' = FALSE,
           log' \in Seq(Packets), npkts' = npkts, dropped' = dropped, tell' = tell,
           avail' \subseteq Pipes, ebusy' \subseteq ebusy
    PROVE  TypeOK' /\ SweepInv'
  <1>1. rxbufs \in Seq(Packets) /\ Len(rxbufs) \in Nat
    BY DEF IInv, TypeOK
  <1>2. rxbufs' \in Seq(Packets) /\ Len(rxbufs') = Len(rxbufs) - 1 /\ cur' = 1
    BY FreeIs
  <1>3. cur' \in 0..(Len(rxbufs') + 1) /\ cur' # 0
    BY <1>1, <1>2
  <1>4. busy' \in BOOLEAN
    OBVIOUS
  <1>5. SweepInv'
    BY <1>1, <1>2 DEF SweepInv
  <1> QED  BY <1>2, <1>3, <1>4, <1>5 DEF IInv, TypeOK

-----------------------------------------------------------------------------
(* Every step keeps the invariant.                                          *)
LEMMA NextStep ==
    ASSUME IInv, [Next]_vars
    PROVE  IInv'
  <1>0. /\ rxbufs \in Seq(Packets) /\ Len(rxbufs) \in Nat
        /\ busy \in BOOLEAN /\ ebusy \subseteq Pipes /\ NoPipe \notin Pipes
    BY UsbhIfAssumption DEF IInv, TypeOK
  <1>1. CASE VMSend
    BY <1>1, SendStep
  <1>2. CASE AdvanceEnd
    <2>1. cur = Len(rxbufs) + 1 /\ cur' = 0
      BY <1>0, <1>2 DEF AdvanceEnd, IInv, TypeOK
    <2>2. ~busy /\ \A i \in 1..Len(rxbufs) : rxbufs[i].pipe \in ebusy
      BY <1>0, <2>1 DEF IInv, SweepInv
    <2>3. TypeOK'
      BY <1>2, <2>1, <2>2 DEF AdvanceEnd, IInv, TypeOK
    <2>4. SweepInv'
      BY <1>2, <2>2 DEF AdvanceEnd, SweepInv
    <2> QED
      BY <1>2, <2>3, <2>4 DEF AdvanceEnd, IInv, QueueInv, LogInv, DropInv, NoneLost
  <1>3. CASE ResetBegin
    <2>1. cur \in 1..Len(rxbufs) /\ rxbufs[cur].pkt = "RESET" /\ cur' = 1 /\ busy' = TRUE
      BY <1>3 DEF ResetBegin, At
    <2>2. TypeOK'
      BY <1>0, <1>3, <2>1 DEF ResetBegin, IInv, TypeOK
    <2>3. SweepInv'
      BY <1>3, <2>1 DEF ResetBegin, SweepInv
    <2> QED
      BY <1>3, <2>2, <2>3 DEF ResetBegin, IInv, QueueInv, LogInv, DropInv, NoneLost
  <1>4. CASE XfrCancel
    BY <1>4, CancelStep
  <1>5. CASE ResetEnd
    <2>1. cur \in 1..Len(rxbufs) /\ Free /\ cur = 1 /\ busy' = FALSE
      BY <1>5 DEF ResetEnd, At, IInv, SweepInv
    <2>2. log' \in Seq(Packets) /\ QueueInv' /\ LogInv' /\ DropInv' /\ NoneLost'
      BY <1>0, <1>5, <2>1, AnsweredStep DEF ResetEnd
    <2>3. TypeOK' /\ SweepInv'
      BY <1>5, <2>1, <2>2, FreedTypes DEF ResetEnd, IInv, TypeOK
    <2> QED  BY <2>2, <2>3 DEF IInv
  <1>6. CASE XfrBehind \/ XfrNak
    <2>1. /\ cur \in 1..Len(rxbufs) /\ ~busy /\ cur' = cur + 1
          /\ ebusy \subseteq ebusy' /\ rxbufs[cur].pipe \in ebusy'
          /\ ebusy' \subseteq Pipes \ SetupPipes
          /\ UNCHANGED <<rxbufs, busy, avail, tell, npkts, log, dropped>>
      BY <1>6 DEF XfrBehind, XfrNak, Callback, At, Here, Keep, IInv, TypeOK
    <2>2. TypeOK'
      BY <1>0, <2>1 DEF IInv, TypeOK
    <2>3. SweepInv'
      <3>1. \A i \in 1..Len(rxbufs) : i < cur + 1 => i < cur \/ i = cur
        BY <1>0, <2>1
      <3> QED  BY <2>1, <3>1 DEF IInv, SweepInv
    <2> QED  BY <2>1, <2>2, <2>3 DEF IInv, QueueInv, LogInv, DropInv, NoneLost
  <1>7. CASE XfrSetup \/ XfrDone
    <2>1. /\ cur \in 1..Len(rxbufs) /\ Free /\ ~busy /\ Here.pkt = "XFR"
          /\ Here.pipe \notin ebusy
          /\ log' = Append(log, Here) /\ npkts' = npkts /\ dropped' = dropped
          /\ busy' = busy /\ tell' = tell /\ ebusy' \subseteq ebusy
      BY <1>7 DEF XfrSetup, XfrDone, Callback, At, Here
    <2>2. avail' \subseteq Pipes
      BY <1>7 DEF XfrSetup, XfrDone, IInv, TypeOK
    <2>3. \A i \in 1..Len(rxbufs) : i < cur => rxbufs[i].pipe # Here.pipe
      BY <2>1 DEF IInv, SweepInv
    <2>4. log' \in Seq(Packets) /\ QueueInv' /\ LogInv' /\ DropInv' /\ NoneLost'
      BY <2>1, <2>3, AnsweredStep
    <2>5. busy' = FALSE
      BY <1>0, <2>1
    <2>6. TypeOK' /\ SweepInv'
      BY <2>1, <2>2, <2>4, <2>5, FreedTypes
    <2> QED  BY <2>4, <2>6 DEF IInv
  <1>8. ASSUME NEW pipe \in Pipes, Become(pipe)
        PROVE  IInv'
    BY <1>8 DEF Become, IInv, TypeOK, SweepInv, QueueInv, LogInv, DropInv, NoneLost
  <1>9. ASSUME NEW pipe \in Pipes, Ready(pipe)
        PROVE  IInv'
    <2>1. TypeOK'
      <3>1. cur' \in 0..(Len(rxbufs) + 1) /\ cur' # 0
        BY <1>0, <1>9 DEF Ready
      <3> QED  BY <1>9, <3>1 DEF Ready, IInv, TypeOK
    <2>2. SweepInv'
      BY <1>9 DEF Ready, IInv, TypeOK, SweepInv
    <2> QED  BY <1>9, <2>1, <2>2 DEF Ready, IInv, QueueInv, LogInv, DropInv, NoneLost
  <1>10. CASE UNCHANGED vars
    BY <1>10 DEF vars, IInv, TypeOK, SweepInv, QueueInv, LogInv, DropInv, NoneLost
  <1> QED
    BY <1>1, <1>2, <1>3, <1>4, <1>5, <1>6, <1>7, <1>8, <1>9, <1>10 DEF Next, Advance

LEMMA Inductive == Spec => []IInv
  <1>1. IInv /\ [Next]_vars => IInv'
    BY NextStep
  <1> QED  BY InitInv, <1>1, PTL DEF Spec
-----------------------------------------------------------------------------
(* Every variable keeps its type; when coremodel_advance_if has come to its *)
(* end no reset is queued or half done and only waiting pipes have          *)
(* transfers left.                                                          *)
THEOREM TypeCorrect == Spec => []TypeOK
  <1>1. IInv => TypeOK
    BY DEF IInv
  <1> QED  BY Inductive, <1>1, PTL

(* The transfers of each pipe are answered in the order of sending, however *)
(* the pipes wait for the device and pass each other by in rxbufs, and no   *)
(* packet is lost.                                                          *)
THEOREM KeepsTransfers == Spec => []TransfersKept
  <1>1. IInv => TransfersKept
    <2> SUFFICES ASSUME IInv PROVE PipeInOrder
      BY DEF TransfersKept, IInv
    <2> DEFINE s == log \o rxbufs
    <2>1. log \in Seq(Packets) /\ rxbufs \in Seq(Packets)
      BY DEF IInv, TypeOK
    <2>2. /\ Len(log) \in Nat /\ Len(rxbufs) \in Nat
          /\ Len(s) = Len(log) + Len(rxbufs)
          /\ \A i \in 1..Len(s) : s[i] = IF i <= Len(log) THEN log[i] ELSE rxbufs[i - Len(log)]
      BY <2>1, ConcatProperties
    <2> HIDE DEF s
    <2>3. ASSUME NEW i \in 1..Len(s), NEW j \in 1..Len(s), i < j, s[i].pipe = s[j].pipe
          PROVE  s[i].id < s[j].id
      <3>1. CASE j <= Len(log)
        <4>1. i \in 1..Len(log) /\ j \in 1..Len(log) /\ s[i] = log[i] /\ s[j] = log[j]
          BY <2>2, <2>3, <3>1
        <4> QED  BY <2>3, <4>1 DEF IInv, LogInv, Before
      <3>2. CASE Len(log) < i
        <4>1. /\ i - Len(log) \in 1..Len(rxbufs) /\ j - Len(log) \in 1..Len(rxbufs)
              /\ i - Len(log) < j - Len(log)
              /\ s[i] = rxbufs[i - Len(log)] /\ s[j] = rxbufs[j - Len(log)]
          BY <2>2, <2>3, <3>2
        <4> QED  BY <4>1 DEF IInv, QueueInv
      <3>3. CASE i <= Len(log) /\ Len(log) < j
        <4>1. /\ i \in 1..Len(log) /\ j - Len(log) \in 1..Len(rxbufs)
              /\ s[i] = log[i] /\ s[j] = rxbufs[j - Len(log)]
          BY <2>2, <2>3, <3>3
        <4>2. s[i] \in ToSet(log) /\ s[j] \in ToSet(rxbufs)
          BY <2>1, <4>1, ToSetOf
        <4> QED  BY <2>3, <4>2 DEF IInv, LogInv, Before
      <3> QED  BY <2>2, <3>1, <3>2, <3>3
    <2> QED  BY <2>3 DEF PipeInOrder, s
  <1> QED  BY Inductive, <1>1, PTL

(* Behind a call of rst nothing sent before that reset is answered, and a   *)
(* transfer is cancelled only by a reset sent after it.                     *)
THEOREM ResetsPart == Spec => []ResetParts
  <1>1. IInv => ResetParts
    <2> SUFFICES ASSUME IInv PROVE ResetParts
      OBVIOUS
    <2>1. log \in Seq(Packets) /\ rxbufs \in Seq(Packets)
      BY DEF IInv, TypeOK
    <2>2. ToSet(log) \cup ToSet(rxbufs) \subseteq ToSet(log \o rxbufs)
      <3>1. /\ Len(log) \in Nat /\ Len(rxbufs) \in Nat /\ log \o rxbufs \in Seq(Packets)
            /\ Len(log \o rxbufs) = Len(log) + Len(rxbufs)
            /\ \A i \in 1..Len(log \o rxbufs) :
                 (log \o rxbufs)[i] = IF i <= Len(log) THEN log[i] ELSE rxbufs[i - Len(log)]
        BY <2>1, ConcatProperties
      <3>2. /\ ToSet(log) = {log[i] : i \in 1..Len(log)}
            /\ ToSet(rxbufs) = {rxbufs[i] : i \in 1..Len(rxbufs)}
            /\ ToSet(log \o rxbufs) = {(log \o rxbufs)[i] : i \in 1..Len(log \o rxbufs)}
        BY <2>1, <3>1, ToSetOf
      <3>3. ASSUME NEW i \in 1..Len(log) PROVE log[i] \in ToSet(log \o rxbufs)
        <4>1. i \in 1..Len(log \o rxbufs) /\ (log \o rxbufs)[i] = log[i]
          BY <3>1
        <4> QED  BY <3>2, <4>1
      <3>4. ASSUME NEW i \in 1..Len(rxbufs) PROVE rxbufs[i] \in ToSet(log \o rxbufs)
        <4>1. Len(log) + i \in 1..Len(log \o rxbufs) /\ ~(Len(log) + i <= Len(log))
              /\ (Len(log) + i) - Len(log) = i
          BY <3>1
        <4>2. (log \o rxbufs)[Len(log) + i] = rxbufs[i]
          BY <3>1, <4>1
        <4> QED  BY <3>2, <4>1, <4>2
      <3> QED  BY <3>2, <3>3, <3>4
    <2>3. \A id \in dropped : \E p \in ToSet(log \o rxbufs) : p.pkt = "RESET" /\ id < p.id
      BY <2>2 DEF IInv, DropInv
    <2> QED  BY <2>3 DEF ResetParts, IInv, LogInv, Before
  <1> QED  BY Inductive, <1>1, PTL
==============================================================================
