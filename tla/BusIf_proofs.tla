---------------------------- MODULE BusIf_proofs ----------------------------
(***************************************************************************)
(* The I2C and SPI interfaces, for any packets, any chunk and any way the  *)
(* application takes them apart: the types, that each request is answered  *)
(* once and in order, and that parts fit together.                         *)
(***************************************************************************)
EXTENDS BusIf, SequenceTheorems, TLAPS

(* The queue is in the order of sending, behind what has been answered.     *)
QueueInv ==
    /\ \A i, j \in 1..Len(rxbufs) : i < j => rxbufs[i].id < rxbufs[j].id
    /\ \A i \in 1..Len(rxbufs) : rxbufs[i].id <= npkts
    /\ \A i \in 1..Len(asked) : asked[i] <= npkts
    /\ \A i, j \in 1..Len(asked) : i < j => asked[i] < asked[j]
    /\ \A i \in 1..Len(answers) :
         /\ answers[i].id <= npkts
         /\ \A j \in 1..Len(rxbufs) : answers[i].id < rxbufs[j].id

(* A packet the loop has not come to is whole.                              *)
TookInv ==
    \A id \in 1..MaxPkts :
        id > npkts \/ (\E i \in 1..Len(rxbufs) : i > 1 /\ rxbufs[i].id = id)
            => took[id] = 0

(* A part is taken of data only, and less than all of it.                   *)
PartInv ==
    app # "fickle" /\ offs > 0 =>
        /\ rxbufs # <<>>
        /\ Oldest.pkt \in {"WRITE", "READ", "XFR"}
        /\ offs < Oldest.len

IInv == TypeOK /\ QueueInv /\ TookInv /\ PartInv /\ AnsweredInOrder /\ PartKept

Pkts == [pkt : Kinds, id : 1..MaxPkts, len : 0..MaxLen, done : BOOLEAN]
Records == [id : 1..MaxPkts, len : 0..MaxLen]

(* An index of a sequence that was appended to is one of the old or new.    *)
LEMMA OldOrLast ==
    ASSUME NEW m \in Nat, NEW i \in 1..(m + 1)
    PROVE  i \in 1..m \/ i = m + 1
  OBVIOUS

LEMMA OldBefore ==
    ASSUME NEW m \in Nat, NEW j \in 1..(m + 1), NEW i \in 1..(m + 1), i < j
    PROVE  i \in 1..m
  OBVIOUS

LEMMA InitInv == Init => IInv
  <1> SUFFICES ASSUME Init PROVE IInv
    OBVIOUS
  <1>1. /\ rxbufs \in Seq(Pkts) /\ answers \in Seq(Records) /\ asked \in Seq(1..MaxPkts)
        /\ early \in Seq(0..MaxPkts)
        /\ Len(rxbufs) = 0 /\ Len(answers) = 0 /\ Len(asked) = 0
    BY DEF Init
  <1>2. TypeOK
    <2>1. offs \in 0..MaxLen /\ trnidx \in 0..npkts /\ npkts \in 0..MaxPkts
      BY BusIfAssumption DEF Init
    <2>2. took \in [1..MaxPkts -> Nat]
      BY DEF Init
    <2> QED  BY <1>1, <2>1, <2>2 DEF Init, TypeOK, Pkts, Records
  <1>3. QueueInv /\ TookInv
    BY <1>1 DEF Init, QueueInv, TookInv
  <1>4. PartInv /\ PartKept
    BY <1>1 DEF Init, PartInv, PartKept
  <1>5. AnsweredInOrder
    BY <1>1 DEF AnsweredInOrder, Waiting
  <1> QED  BY <1>2, <1>3, <1>4, <1>5 DEF IInv

(* What the loop relies on, spelled out.                                    *)
LEMMA Shapes ==
    ASSUME IInv
    PROVE  /\ rxbufs \in Seq(Pkts) /\ Len(rxbufs) \in Nat
           /\ answers \in Seq(Records) /\ Len(answers) \in Nat
           /\ asked \in Seq(1..MaxPkts) /\ Len(asked) \in Nat
           /\ npkts \in Nat /\ offs \in Nat /\ MaxLen \in Nat /\ MaxPkts \in Nat
           /\ \A i \in 1..Len(rxbufs) : rxbufs[i] \in Pkts /\ rxbufs[i].id \in Nat
           /\ \A i \in 1..Len(asked) : asked[i] \in Nat
           /\ \A i \in 1..Len(answers) : answers[i] \in Records
  <1>1. /\ rxbufs \in Seq(Pkts) /\ answers \in Seq(Records) /\ asked \in Seq(1..MaxPkts)
        /\ npkts \in Nat /\ offs \in Nat /\ MaxLen \in Nat /\ MaxPkts \in Nat
    BY BusIfAssumption DEF IInv, TypeOK, Pkts, Records
  <1>2. ASSUME NEW i \in 1..Len(rxbufs) PROVE rxbufs[i] \in Pkts /\ rxbufs[i].id \in Nat
    <2>1. rxbufs[i] \in Pkts
      BY <1>1, ElementOfSeq
    <2> QED  BY <2>1 DEF Pkts
  <1>3. \A i \in 1..Len(asked) : asked[i] \in Nat
    BY <1>1
  <1>4. \A i \in 1..Len(answers) : answers[i] \in Records
    BY <1>1
  <1> QED  BY <1>1, <1>2, <1>3, <1>4

(* The oldest packet is freed, with its answer if it requires one.          *)
LEMMA FreedStep ==
    ASSUME IInv, rxbufs # <<>>, Free, Answer(Oldest), UNCHANGED <<npkts, asked>>
    PROVE  /\ rxbufs' \in Seq(Pkts) /\ Len(rxbufs') = Len(rxbufs) - 1
           /\ \A i \in 1..Len(rxbufs') : rxbufs'[i] = rxbufs[i + 1] /\ i + 1 \in 1..Len(rxbufs)
           /\ answers' \in Seq(Records)
           /\ Len(answers') \in {Len(answers), Len(answers) + 1}
           /\ \A i \in 1..Len(answers) : answers'[i] = answers[i]
           /\ Len(answers') = Len(answers) + 1 =>
                answers'[Len(answers) + 1] = AnswerTo(Oldest)
           /\ QueueInv' /\ AnsweredInOrder'
  <1>1. /\ Len(rxbufs) \in Nat \ {0} /\ Len(answers) \in Nat /\ Len(asked) \in Nat
        /\ rxbufs \in Seq(Pkts) /\ answers \in Seq(Records)
        /\ 1 \in 1..Len(rxbufs) /\ npkts' = npkts /\ asked' = asked
    BY Shapes, EmptySeq
  <1>2. /\ rxbufs' \in Seq(Pkts) /\ Len(rxbufs') = Len(rxbufs) - 1
        /\ \A i \in 1..Len(rxbufs') : rxbufs'[i] = rxbufs[i + 1] /\ i + 1 \in 1..Len(rxbufs)
    <2>1. /\ rxbufs' \in Seq(Pkts) /\ Len(rxbufs') = Len(rxbufs) - 1
          /\ \A i \in 1..Len(rxbufs') : rxbufs'[i] = rxbufs[i + 1]
      BY <1>1, HeadTailProperties DEF Free
    <2> QED  BY <1>1, <2>1
  <1>3. /\ Oldest \in Pkts /\ Oldest.id \in Nat
        /\ AnswerTo(Oldest) \in Records /\ AnswerTo(Oldest).id = Oldest.id
    <2>1. Oldest \in Pkts
      BY <1>1, ElementOfSeq DEF Oldest
    <2>2. Oldest.id \in 1..MaxPkts /\ Oldest.len \in 0..MaxLen /\ 0 \in 0..MaxLen
      BY <2>1, BusIfAssumption DEF Pkts
    <2> QED  BY <2>1, <2>2 DEF AnswerTo, Records
  <1>4. /\ \A i \in Waiting : rxbufs[i].id \in Nat /\ i \in 1..Len(rxbufs)
        /\ {rxbufs'[i].id : i \in Waiting'} = {rxbufs[i].id : i \in Waiting \ {1}}
        /\ \A i, j \in Waiting' : i < j => rxbufs'[i].id < rxbufs'[j].id
    <2>1. \A i \in Waiting : rxbufs[i].id \in Nat /\ i \in 1..Len(rxbufs)
      BY Shapes DEF Waiting
    <2>2. ASSUME NEW i \in Waiting'
          PROVE  /\ i \in 1..Len(rxbufs') /\ i + 1 \in Waiting \ {1}
                 /\ rxbufs'[i].id = rxbufs[i + 1].id
      <3>1. i \in 1..Len(rxbufs') /\ rxbufs'[i].done
        BY <2>2 DEF Waiting
      <3> QED  BY <1>2, <3>1 DEF Waiting
    <2>3. ASSUME NEW m \in Waiting \ {1}
          PROVE  m - 1 \in Waiting' /\ rxbufs'[m - 1].id = rxbufs[m].id
      <3>1. m - 1 \in 1..Len(rxbufs') /\ (m - 1) + 1 = m /\ rxbufs[m].done
        BY <1>1, <1>2 DEF Waiting
      <3>2. rxbufs'[m - 1] = rxbufs[m]
        BY <1>2, <3>1
      <3> QED  BY <3>1, <3>2 DEF Waiting
    <2>4. {rxbufs'[i].id : i \in Waiting'} = {rxbufs[i].id : i \in Waiting \ {1}}
      BY <2>2, <2>3
    <2>5. ASSUME NEW i \in Waiting', NEW j \in Waiting', i < j
          PROVE  rxbufs'[i].id < rxbufs'[j].id
      <3>1. i + 1 < j + 1
        BY <1>2, <2>2, <2>5
      <3> QED  BY <2>2, <3>1 DEF IInv, AnsweredInOrder
    <2> QED  BY <2>1, <2>4, <2>5
  <1>5. /\ answers' \in Seq(Records)
        /\ Len(answers') \in {Len(answers), Len(answers) + 1}
        /\ \A i \in 1..Len(answers) : answers'[i] = answers[i]
        /\ Len(answers') = Len(answers) + 1 =>
             answers'[Len(answers) + 1] = AnswerTo(Oldest)
        /\ Len(answers') = Len(answers) + 1 <=> Oldest.done
    <2>1. CASE Oldest.done
      <3>1. answers' = Append(answers, AnswerTo(Oldest))
        BY <2>1 DEF Answer
      <3> QED  BY <1>1, <1>3, <2>1, <3>1
    <2>2. CASE ~Oldest.done
      <3>1. answers' = answers
        BY <2>2 DEF Answer
      <3> QED  BY <1>1, <2>2, <3>1
    <2> QED  BY <2>1, <2>2
  <1>6. QueueInv'
    <2>1. ASSUME NEW i \in 1..Len(answers')
          PROVE  /\ answers'[i].id <= npkts
                 /\ \A j \in 1..Len(rxbufs') : answers'[i].id < rxbufs'[j].id
      <3>1. CASE i \in 1..Len(answers)
        BY <1>2, <1>5, <3>1 DEF IInv, QueueInv
      <3>2. CASE i = Len(answers) + 1
        <4>1. Len(answers') = Len(answers) + 1
          BY <1>1, <1>5, <2>1, <3>2
        <4>2. answers'[i].id = rxbufs[1].id
          BY <1>3, <1>5, <3>2, <4>1 DEF Oldest
        <4>3. \A j \in 1..Len(rxbufs') : 1 < j + 1
          BY <1>2
        <4> QED  BY <1>1, <1>2, <4>2, <4>3 DEF IInv, QueueInv
      <3> QED  BY <1>1, <1>5, <2>1, <3>1, <3>2
    <2>2. \A i, j \in 1..Len(rxbufs') : i < j => rxbufs'[i].id < rxbufs'[j].id
      <3> TAKE i, j \in 1..Len(rxbufs')
      <3> HAVE i < j
      <3>1. i + 1 < j + 1
        BY <1>1, <1>2
      <3> QED  BY <1>2, <3>1 DEF IInv, QueueInv
    <2>3. \A i \in 1..Len(rxbufs') : rxbufs'[i].id <= npkts
      BY <1>2 DEF IInv, QueueInv
    <2> QED  BY <1>1, <2>1, <2>2, <2>3 DEF IInv, QueueInv
  <1>7. AnsweredInOrder'
    <2> DEFINE S == {asked[i] : i \in (Len(answers) + 1)..Len(asked)}
    <2>1. /\ Len(answers) <= Len(asked)
          /\ \A i \in 1..Len(answers) : answers[i].id = asked[i]
          /\ {rxbufs[i].id : i \in Waiting} = S
          /\ \A i, j \in Waiting : i < j => rxbufs[i].id < rxbufs[j].id
      BY DEF IInv, AnsweredInOrder
    <2>2. CASE ~Oldest.done
      <3>1. 1 \notin Waiting /\ answers' = answers
        BY <2>2 DEF Waiting, Oldest, Answer
      <3>2. {rxbufs'[i].id : i \in Waiting'} = S
        BY <1>4, <2>1, <3>1
      <3>3. Len(answers') <= Len(asked')
        BY <1>1, <2>1, <3>1
      <3>4. \A i \in 1..Len(answers') : answers'[i].id = asked'[i]
        BY <1>1, <2>1, <3>1
      <3>5. {asked'[i] : i \in (Len(answers') + 1)..Len(asked')} = S
        BY <1>1, <3>1
      <3> HIDE DEF S
      <3> QED  BY <1>4, <3>2, <3>3, <3>4, <3>5 DEF AnsweredInOrder
    <2>3. CASE Oldest.done
      <3>1. 1 \in Waiting
        BY <1>1, <2>3 DEF Waiting, Oldest
      <3>2. PICK k \in (Len(answers) + 1)..Len(asked) : asked[k] = rxbufs[1].id
        BY <2>1, <3>1
      <3>3. /\ Len(answers) + 1 \in 1..Len(asked) /\ k \in 1..Len(asked)
            /\ Len(answers) + 1 \in (Len(answers) + 1)..Len(asked)
        BY <1>1, <3>2
      <3>4. \A i \in 1..Len(asked) : asked[i] \in Nat
        BY Shapes
      <3>5. asked[Len(answers) + 1] = rxbufs[1].id
        <4>1. asked[Len(answers) + 1] \in S
          BY <3>3
        <4>2. PICK w \in Waiting : rxbufs[w].id = asked[Len(answers) + 1]
          BY <2>1, <4>1
        <4>3. rxbufs[1].id <= rxbufs[w].id
          <5>1. w = 1 \/ 1 < w
            BY <1>1, <1>4
          <5> QED  BY <1>4, <2>1, <3>1, <5>1
        <4>4. asked[Len(answers) + 1] <= asked[k]
          <5>1. Len(answers) + 1 = k \/ Len(answers) + 1 < k
            BY <1>1, <3>2
          <5> QED  BY <3>3, <3>4, <5>1 DEF IInv, QueueInv
        <4> QED  BY <1>4, <3>1, <3>2, <3>3, <3>4, <4>2, <4>3, <4>4
      <3>6. Len(answers') = Len(answers) + 1
        BY <1>5, <2>3
      <3>7. \A i \in 1..Len(answers') : answers'[i].id = asked[i]
        <4> TAKE i \in 1..Len(answers')
        <4>1. CASE i \in 1..Len(answers)
          BY <1>5, <2>1, <4>1
        <4>2. CASE i = Len(answers) + 1
          BY <1>3, <1>5, <3>5, <3>6, <4>2 DEF Oldest
        <4> QED  BY <1>1, <3>6, <4>1, <4>2
      <3>8. {rxbufs'[i].id : i \in Waiting'} = {asked[i] : i \in (Len(answers') + 1)..Len(asked)}
        <4>1. \A i \in Waiting \ {1} : rxbufs[i].id # rxbufs[1].id
          <5> TAKE i \in Waiting \ {1}
          <5>1. i \in 1..Len(rxbufs) /\ i # 1
            BY <1>4
          <5>2. 1 < i
            BY <5>1
          <5>3. rxbufs[1].id < rxbufs[i].id /\ rxbufs[1].id \in Nat /\ rxbufs[i].id \in Nat
            BY <1>4, <2>1, <3>1, <5>2
          <5> QED  BY <5>3
        <4>2. {rxbufs[i].id : i \in Waiting \ {1}} = S \ {rxbufs[1].id}
          <5>1. \A x \in S \ {rxbufs[1].id} : \E i \in Waiting \ {1} : x = rxbufs[i].id
            <6> TAKE x \in S \ {rxbufs[1].id}
            <6>1. PICK i \in Waiting : x = rxbufs[i].id
              BY <2>1
            <6> QED  BY <6>1
          <5>2. \A i \in Waiting \ {1} : rxbufs[i].id \in S \ {rxbufs[1].id}
            <6> HIDE DEF S
            <6> QED  BY <2>1, <4>1
          <5> HIDE DEF S
          <5> QED  BY <5>1, <5>2
        <4>3. ASSUME NEW i \in (Len(answers') + 1)..Len(asked)
              PROVE  asked[i] \in S \ {rxbufs[1].id}
          <5>1. i \in (Len(answers) + 1)..Len(asked) /\ i \in 1..Len(asked) /\ Len(answers) + 1 < i
            BY <1>1, <3>6
          <5>2. asked[Len(answers) + 1] < asked[i]
            BY <3>3, <5>1 DEF IInv, QueueInv
          <5> QED  BY <3>3, <3>4, <3>5, <5>1, <5>2
        <4>4. ASSUME NEW i \in (Len(answers) + 1)..Len(asked), asked[i] # rxbufs[1].id
              PROVE  i \in (Len(answers') + 1)..Len(asked)
          <5>1. i # Len(answers) + 1
            BY <3>5, <4>4
          <5>2. Len(answers) \in Nat /\ Len(asked) \in Nat
            BY <1>1
          <5> QED  BY <3>6, <5>1, <5>2
        <4>5. {asked[i] : i \in (Len(answers') + 1)..Len(asked)} = S \ {rxbufs[1].id}
          <5>1. \A x \in S \ {rxbufs[1].id} :
                  \E i \in (Len(answers') + 1)..Len(asked) : x = asked[i]
            <6> TAKE x \in S \ {rxbufs[1].id}
            <6>1. PICK i \in (Len(answers) + 1)..Len(asked) : x = asked[i]
              OBVIOUS
            <6> QED  BY <4>4, <6>1
          <5> HIDE DEF S
          <5> QED  BY <4>3, <5>1
        <4>6. {rxbufs'[i].id : i \in Waiting'} = {rxbufs[i].id : i \in Waiting \ {1}}
          BY <1>4
        <4> HIDE DEF S
        <4> QED  BY <4>2, <4>5, <4>6
      <3>9. Len(answers') <= Len(asked)
        BY <3>3, <3>6
      <3>10. asked' = asked /\ \A i, j \in Waiting' : i < j => rxbufs'[i].id < rxbufs'[j].id
        BY <1>1, <1>4
      <3>11. {rxbufs'[i].id : i \in Waiting'}
               = {asked'[i] : i \in (Len(answers') + 1)..Len(asked')}
        BY <3>8, <3>10
      <3>12. \A i \in 1..Len(answers') : answers'[i].id = asked'[i]
        BY <3>7, <3>10
      <3> QED  BY <3>9, <3>10, <3>11, <3>12 DEF AnsweredInOrder
    <2> QED  BY <2>2, <2>3
  <1> QED  BY <1>2, <1>5, <1>6, <1>7

(* So much of PartKept as is about answers already given.                   *)
LEMMA AnswersKeep ==
    ASSUME IInv, rxbufs # <<>>, NEW n \in Nat,
           took' = [took EXCEPT ![Oldest.id] = @ + n], app' = app
    PROVE  /\ Oldest.id \in 1..MaxPkts /\ took[Oldest.id] \in Nat
           /\ took' \in [1..MaxPkts -> Nat]
           /\ took'[Oldest.id] = took[Oldest.id] + n
           /\ \A id \in 1..MaxPkts : id # Oldest.id => took'[id] = took[id]
           /\ app # "fickle" =>
                \A i \in 1..Len(answers) :
                  answers[i].len > 0 => took'[answers[i].id] = answers[i].len
           /\ \A i \in 2..Len(rxbufs) : took'[rxbufs[i].id] = 0
           /\ \A id \in 1..MaxPkts : id > npkts => took'[id] = 0
  <1>1. /\ Len(rxbufs) \in Nat \ {0} /\ 1 \in 1..Len(rxbufs) /\ npkts \in Nat
        /\ Oldest \in Pkts /\ Oldest = rxbufs[1]
        /\ \A i \in 1..Len(rxbufs) : rxbufs[i] \in Pkts /\ rxbufs[i].id \in Nat
        /\ \A i \in 1..Len(answers) : answers[i] \in Records
    BY Shapes, EmptySeq DEF Oldest
  <1>2. Oldest.id \in 1..MaxPkts /\ took \in [1..MaxPkts -> Nat] /\ MaxPkts \in Nat
    BY <1>1, BusIfAssumption DEF Pkts, IInv, TypeOK
  <1>3. /\ took' \in [1..MaxPkts -> Nat] /\ took'[Oldest.id] = took[Oldest.id] + n
        /\ \A id \in 1..MaxPkts : id # Oldest.id => took'[id] = took[id]
        /\ took[Oldest.id] \in Nat
    BY <1>2
  <1>4. ASSUME NEW i \in 1..Len(answers), app # "fickle", answers[i].len > 0
        PROVE  took'[answers[i].id] = answers[i].len
    <2>1. answers[i].id \in 1..MaxPkts
      BY <1>1 DEF Records
    <2>2. answers[i].id < Oldest.id
      BY <1>1 DEF IInv, QueueInv
    <2>3. took[answers[i].id] = answers[i].len
      BY <1>4 DEF IInv, PartKept
    <2> QED  BY <1>2, <1>3, <2>1, <2>2, <2>3
  <1>5. ASSUME NEW i \in 2..Len(rxbufs)
        PROVE  took'[rxbufs[i].id] = 0
    <2>1. i \in 1..Len(rxbufs) /\ 1 < i
      BY <1>1
    <2>2. rxbufs[i].id \in 1..MaxPkts
      BY <1>1, <2>1 DEF Pkts
    <2>3. Oldest.id < rxbufs[i].id
      BY <1>1, <2>1 DEF IInv, QueueInv
    <2>4. took[rxbufs[i].id] = 0
      BY <2>1, <2>2 DEF IInv, TookInv
    <2> QED  BY <1>2, <1>3, <2>2, <2>3, <2>4
  <1>6. ASSUME NEW id \in 1..MaxPkts, id > npkts
        PROVE  took'[id] = 0
    <2>1. Oldest.id <= npkts
      BY <1>1 DEF IInv, QueueInv
    <2>2. took[id] = 0
      BY <1>6 DEF IInv, TookInv
    <2> QED  BY <1>1, <1>2, <1>3, <1>6, <2>1, <2>2
  <1> QED  BY <1>2, <1>3, <1>4, <1>5, <1>6

(* The queue moves up: n bytes of the packet freed were taken last, and its *)
(* answer, if it carries data, carries all that was taken.                  *)
LEMMA FreedInv ==
    ASSUME IInv, rxbufs # <<>>, Free, Answer(Oldest), NEW n \in Nat,
           took' = [took EXCEPT ![Oldest.id] = @ + n],
           app # "fickle" =>
             /\ offs' = 0
             /\ AnswerTo(Oldest).len > 0 => offs + n = Oldest.len,
           offs' \in 0..MaxLen, trnidx' \in 0..npkts, busy' \in BOOLEAN,
           advancing' = TRUE, UNCHANGED <<kind, vmvars>>
    PROVE  IInv'
  <1>1. /\ Len(rxbufs) \in Nat \ {0} /\ 1 \in 1..Len(rxbufs) /\ npkts \in Nat
        /\ Oldest = rxbufs[1] /\ Len(answers) \in Nat
        /\ UNCHANGED <<npkts, asked, early, app, type>>
    BY Shapes, EmptySeq DEF Oldest, kind, vmvars
  <1>2. /\ rxbufs' \in Seq(Pkts) /\ Len(rxbufs') = Len(rxbufs) - 1
        /\ \A i \in 1..Len(rxbufs') : rxbufs'[i] = rxbufs[i + 1] /\ i + 1 \in 1..Len(rxbufs)
        /\ answers' \in Seq(Records)
        /\ Len(answers') \in {Len(answers), Len(answers) + 1}
        /\ \A i \in 1..Len(answers) : answers'[i] = answers[i]
        /\ Len(answers') = Len(answers) + 1 =>
             answers'[Len(answers) + 1] = AnswerTo(Oldest)
        /\ QueueInv' /\ AnsweredInOrder'
    BY <1>1, FreedStep
  <1>3. /\ Oldest.id \in 1..MaxPkts /\ took[Oldest.id] \in Nat
        /\ took' \in [1..MaxPkts -> Nat]
        /\ took'[Oldest.id] = took[Oldest.id] + n
        /\ app # "fickle" =>
             \A i \in 1..Len(answers) :
               answers[i].len > 0 => took'[answers[i].id] = answers[i].len
        /\ \A i \in 2..Len(rxbufs) : took'[rxbufs[i].id] = 0
        /\ \A id \in 1..MaxPkts : id > npkts => took'[id] = 0
    BY <1>1, AnswersKeep
  <1>4. \A i \in 1..Len(rxbufs') : took'[rxbufs'[i].id] = 0
    <2> TAKE i \in 1..Len(rxbufs')
    <2>1. i + 1 \in 2..Len(rxbufs) /\ rxbufs'[i] = rxbufs[i + 1]
      BY <1>1, <1>2
    <2> QED  BY <1>3, <2>1
  <1>5. TypeOK'
    BY <1>1, <1>2, <1>3 DEF IInv, TypeOK, Pkts, Records
  <1>6. TookInv'
    <2>1. ASSUME NEW id \in 1..MaxPkts,
                 id > npkts' \/ (\E i \in 1..Len(rxbufs') : i > 1 /\ rxbufs'[i].id = id)
          PROVE  took'[id] = 0
      <3>1. CASE id > npkts
        BY <1>3, <3>1
      <3>2. CASE \E i \in 1..Len(rxbufs') : i > 1 /\ rxbufs'[i].id = id
        BY <1>4, <3>2
      <3> QED  BY <1>1, <2>1, <3>1, <3>2
    <2> QED  BY <2>1 DEF TookInv
  <1>7. PartInv'
    BY <1>1 DEF PartInv
  <1>8. PartKept'
    <2> SUFFICES ASSUME app # "fickle"
                 PROVE  /\ offs' = IF rxbufs' = <<>> THEN 0 ELSE took'[(Oldest.id)']
                        /\ \A i \in 1..Len(answers') :
                             answers'[i].len > 0 => took'[answers'[i].id] = answers'[i].len
      BY <1>1 DEF PartKept
    <2>1. offs' = IF rxbufs' = <<>> THEN 0 ELSE took'[(Oldest.id)']
      <3>1. CASE rxbufs' = <<>>
        BY <3>1
      <3>2. CASE rxbufs' # <<>>
        <4>1. 1 \in 1..Len(rxbufs')
          BY <1>2, <3>2, EmptySeq
        <4>2. took'[rxbufs'[1].id] = 0
          BY <1>4, <4>1
        <4> QED  BY <3>2, <4>2 DEF Oldest
      <3> QED  BY <3>1, <3>2
    <2>2. ASSUME NEW i \in 1..Len(answers'), answers'[i].len > 0
          PROVE  took'[answers'[i].id] = answers'[i].len
      <3>1. CASE i \in 1..Len(answers)
        BY <1>2, <1>3, <2>2, <3>1
      <3>2. CASE i = Len(answers) + 1
        <4>1. Len(answers') = Len(answers) + 1
          BY <1>1, <1>2, <2>2, <3>2
        <4>2. answers'[i] = AnswerTo(Oldest)
          BY <1>2, <3>2, <4>1
        <4>3. answers'[i].id = Oldest.id /\ answers'[i].len = Oldest.len
          BY <2>2, <4>2 DEF AnswerTo
        <4>4. offs = took[Oldest.id]
          BY DEF IInv, PartKept
        <4>5. offs + n = Oldest.len
          BY <2>2, <4>2
        <4> QED  BY <1>3, <4>3, <4>4, <4>5
      <3> QED  BY <1>1, <1>2, <2>2, <3>1, <3>2
    <2> QED  BY <2>1, <2>2
  <1> QED  BY <1>2, <1>5, <1>6, <1>7, <1>8 DEF IInv

-----------------------------------------------------------------------------
(* What the VM sends is a packet, and carries the next index.               *)
LEMMA RequestIs ==
    ASSUME NEW p \in Requests, npkts + 1 \in 1..MaxPkts
    PROVE  p \in Pkts /\ p.id = npkts + 1 /\ p.done \in BOOLEAN
  <1>1. p \in [pkt : Kinds, id : {npkts + 1}, len : 0..MaxLen, done : BOOLEAN]
    BY DEF Requests
  <1>2. {npkts + 1} \subseteq 1..MaxPkts
    OBVIOUS
  <1> QED  BY <1>1, <1>2 DEF Pkts

(* A packet of the VM is put at the end and the loop starts.                *)
LEMMA SendStep ==
    ASSUME IInv, VMSend
    PROVE  IInv'
  <1>1. /\ rxbufs \in Seq(Pkts) /\ Len(rxbufs) \in Nat /\ asked \in Seq(1..MaxPkts)
        /\ Len(asked) \in Nat /\ Len(answers) \in Nat
        /\ npkts \in Nat /\ MaxPkts \in Nat /\ MaxLen \in Nat
        /\ \A i \in 1..Len(rxbufs) : rxbufs[i] \in Pkts /\ rxbufs[i].id \in Nat
        /\ \A i \in 1..Len(asked) : asked[i] \in Nat
        /\ \A i \in 1..Len(answers) : answers[i] \in Records
    BY Shapes
  <1>2. /\ npkts' = npkts + 1 /\ npkts' \in 1..MaxPkts /\ ~advancing /\ advancing' = TRUE
        /\ UNCHANGED <<type, app, busy, offs, trnidx, answers, early, took>>
    BY <1>1 DEF VMSend, kind
  <1>3. PICK p \in Requests : /\ rxbufs' = Append(rxbufs, p)
                              /\ asked' = IF p.done THEN Append(asked, p.id) ELSE asked
    BY DEF VMSend
  <1>4. p \in Pkts /\ p.id = npkts' /\ p.done \in BOOLEAN
    <2>1. npkts + 1 \in 1..MaxPkts
      BY <1>1, <1>2
    <2> QED  BY <1>2, <1>3, <2>1, RequestIs
  <1>5. /\ rxbufs' \in Seq(Pkts) /\ Len(rxbufs') = Len(rxbufs) + 1
        /\ \A i \in 1..Len(rxbufs) : rxbufs'[i] = rxbufs[i]
        /\ rxbufs'[Len(rxbufs) + 1] = p
    BY <1>1, <1>3, <1>4
  <1>6. /\ asked' \in Seq(1..MaxPkts)
        /\ Len(asked') = (IF p.done THEN Len(asked) + 1 ELSE Len(asked))
        /\ \A i \in 1..Len(asked) : asked'[i] = asked[i]
        /\ p.done => asked'[Len(asked) + 1] = npkts'
    <2>1. CASE p.done
      <3>1. asked' = Append(asked, npkts') /\ npkts' \in 1..MaxPkts
        BY <1>2, <1>3, <1>4, <2>1
      <3> QED  BY <1>1, <2>1, <3>1
    <2>2. CASE ~p.done
      <3>1. asked' = asked
        BY <1>3, <2>2
      <3> QED  BY <1>1, <2>2, <3>1
    <2> QED  BY <2>1, <2>2
  <1>5a. /\ \A i \in 1..Len(rxbufs') : i \in 1..Len(rxbufs) \/ i = Len(rxbufs) + 1
         /\ \A i, j \in 1..Len(rxbufs') : i < j => i \in 1..Len(rxbufs)
    <2>1. Len(rxbufs) \in Nat /\ Len(rxbufs') = Len(rxbufs) + 1
      BY <1>1, <1>5
    <2> QED  BY <2>1, OldOrLast, OldBefore
  <1>6a. /\ \A i \in 1..Len(asked') : i \in 1..Len(asked) \/ (p.done /\ i = Len(asked) + 1)
         /\ \A i, j \in 1..Len(asked') : i < j => i \in 1..Len(asked)
    <2>1. Len(asked) \in Nat
      BY <1>1
    <2>2. CASE p.done
      <3>1. Len(asked') = Len(asked) + 1
        BY <1>6, <2>2
      <3> QED  BY <2>1, <2>2, <3>1, OldOrLast, OldBefore
    <2>3. CASE ~p.done
      <3>1. Len(asked') = Len(asked)
        BY <1>6, <2>3
      <3> QED  BY <3>1
    <2> QED  BY <2>2, <2>3
  <1>7. TypeOK'
    <2>1. trnidx' \in 0..npkts' /\ npkts' \in 0..MaxPkts
      BY <1>1, <1>2 DEF IInv, TypeOK
    <2> QED  BY <1>2, <1>5, <1>6, <2>1 DEF IInv, TypeOK, Pkts
  <1>8. QueueInv'
    <2>1. /\ \A i \in 1..Len(rxbufs) : rxbufs[i].id < npkts'
          /\ \A i \in 1..Len(asked) : asked[i] < npkts'
          /\ \A i \in 1..Len(answers) : answers[i].id < npkts'
      <3>1. \A i \in 1..Len(answers) : answers[i].id \in Nat
        BY <1>1 DEF Records
      <3> QED  BY <1>1, <1>2, <3>1 DEF IInv, QueueInv
    <2>2. /\ \A i, j \in 1..Len(rxbufs') : i < j => rxbufs'[i].id < rxbufs'[j].id
          /\ \A i \in 1..Len(rxbufs') : rxbufs'[i].id <= npkts'
      <3>1. ASSUME NEW i \in 1..Len(rxbufs'), NEW j \in 1..Len(rxbufs'), i < j
            PROVE  rxbufs'[i].id < rxbufs'[j].id
        <4>1. i \in 1..Len(rxbufs) /\ rxbufs'[i] = rxbufs[i]
          BY <1>5, <1>5a, <3>1
        <4>2. CASE j \in 1..Len(rxbufs)
          BY <1>5, <3>1, <4>1, <4>2 DEF IInv, QueueInv
        <4>3. CASE j = Len(rxbufs) + 1
          BY <1>4, <1>5, <2>1, <4>1, <4>3
        <4>4. j \in 1..Len(rxbufs) \/ j = Len(rxbufs) + 1
          BY <1>5a
        <4> QED  BY <4>2, <4>3, <4>4
      <3>2. ASSUME NEW i \in 1..Len(rxbufs')
            PROVE  rxbufs'[i].id <= npkts'
        <4>1. CASE i \in 1..Len(rxbufs)
          <5>1. rxbufs'[i] = rxbufs[i] /\ rxbufs[i].id < npkts' /\ rxbufs[i].id \in Nat
            BY <1>1, <1>5, <2>1, <4>1
          <5> QED  BY <1>2, <5>1
        <4>2. CASE i = Len(rxbufs) + 1
          BY <1>1, <1>2, <1>4, <1>5, <4>2
        <4> QED  BY <1>5a, <4>1, <4>2
      <3> QED  BY <3>1, <3>2
    <2>3. /\ \A i, j \in 1..Len(asked') : i < j => asked'[i] < asked'[j]
          /\ \A i \in 1..Len(asked') : asked'[i] <= npkts'
      <3>1. ASSUME NEW i \in 1..Len(asked'), NEW j \in 1..Len(asked'), i < j
            PROVE  asked'[i] < asked'[j]
        <4>1. i \in 1..Len(asked) /\ asked'[i] = asked[i]
          BY <1>6, <1>6a, <3>1
        <4>2. CASE j \in 1..Len(asked)
          BY <1>6, <3>1, <4>1, <4>2 DEF IInv, QueueInv
        <4>3. CASE p.done /\ j = Len(asked) + 1
          BY <1>6, <2>1, <4>1, <4>3
        <4>4. j \in 1..Len(asked) \/ (p.done /\ j = Len(asked) + 1)
          BY <1>6a
        <4> QED  BY <4>2, <4>3, <4>4
      <3>2. ASSUME NEW i \in 1..Len(asked')
            PROVE  asked'[i] <= npkts'
        <4>1. CASE i \in 1..Len(asked)
          <5>1. asked'[i] = asked[i] /\ asked[i] < npkts' /\ asked[i] \in Nat
            BY <1>1, <1>6, <2>1, <4>1
          <5> QED  BY <1>2, <5>1
        <4>2. CASE p.done /\ i = Len(asked) + 1
          BY <1>1, <1>2, <1>6, <4>2
        <4> QED  BY <1>6a, <4>1, <4>2
      <3> QED  BY <3>1, <3>2
    <2>4. ASSUME NEW i \in 1..Len(answers')
          PROVE  /\ answers'[i].id <= npkts'
                 /\ \A j \in 1..Len(rxbufs') : answers'[i].id < rxbufs'[j].id
      <3>1. i \in 1..Len(answers) /\ answers' = answers /\ answers[i].id \in Nat
        BY <1>1, <1>2 DEF Records
      <3>2. ASSUME NEW j \in 1..Len(rxbufs')
            PROVE  answers[i].id < rxbufs'[j].id
        <4>1. CASE j \in 1..Len(rxbufs)
          BY <1>5, <3>1, <4>1 DEF IInv, QueueInv
        <4>2. CASE j = Len(rxbufs) + 1
          BY <1>4, <1>5, <2>1, <3>1, <4>2
        <4> QED  BY <1>5a, <4>1, <4>2
      <3> QED  BY <1>1, <1>2, <2>1, <3>1, <3>2
    <2> QED  BY <2>2, <2>3, <2>4 DEF QueueInv
  <1>9. TookInv'
    <2> SUFFICES ASSUME NEW id \in 1..MaxPkts,
                        id > npkts' \/ (\E i \in 1..Len(rxbufs') : i > 1 /\ rxbufs'[i].id = id)
                 PROVE  took[id] = 0
      BY <1>2 DEF TookInv
    <2>1. CASE id > npkts
      BY <2>1 DEF IInv, TookInv
    <2>2. CASE ~(id > npkts)
      <3>1. PICK i \in 1..Len(rxbufs') : i > 1 /\ rxbufs'[i].id = id
        BY <1>1, <1>2, <2>2
      <3>2. i \in 1..Len(rxbufs) /\ rxbufs'[i] = rxbufs[i]
        BY <1>1, <1>2, <1>4, <1>5, <2>2, <3>1
      <3> QED  BY <3>1, <3>2 DEF IInv, TookInv
    <2> QED  BY <2>1, <2>2
  <1>10. rxbufs' # <<>> /\ Oldest' = (IF rxbufs = <<>> THEN p ELSE Oldest)
    <2>1. CASE rxbufs = <<>>
      <3>1. Len(rxbufs) = 0
        BY <2>1
      <3> QED  BY <1>5, <2>1, <3>1 DEF Oldest
    <2>2. CASE rxbufs # <<>>
      <3>1. 1 \in 1..Len(rxbufs)
        BY <1>1, <2>2, EmptySeq
      <3> QED  BY <1>1, <1>5, <2>2, <3>1, EmptySeq DEF Oldest
    <2> QED  BY <2>1, <2>2
  <1>11. PartInv'
    BY <1>2, <1>10 DEF IInv, PartInv
  <1>12. PartKept'
    <2>1. rxbufs = <<>> => took[p.id] = 0
      BY <1>1, <1>2, <1>4 DEF IInv, TookInv
    <2>2. app # "fickle" => offs = IF rxbufs = <<>> THEN 0 ELSE took[Oldest.id]
      BY DEF IInv, PartKept
    <2>3. app # "fickle" => offs = took[Oldest'.id]
      BY <1>10, <2>1, <2>2
    <2> QED  BY <1>2, <1>10, <2>3 DEF IInv, PartKept
  <1>13. AnsweredInOrder'
    <2>1. /\ Len(answers) <= Len(asked)
          /\ \A i \in 1..Len(answers) : answers[i].id = asked[i]
          /\ {rxbufs[i].id : i \in Waiting} = {asked[i] : i \in (Len(answers) + 1)..Len(asked)}
          /\ \A i, j \in Waiting : i < j => rxbufs[i].id < rxbufs[j].id
      BY DEF IInv, AnsweredInOrder
    <2>2. /\ Waiting' = (IF p.done THEN Waiting \cup {Len(rxbufs) + 1} ELSE Waiting)
          /\ \A i \in Waiting : rxbufs'[i] = rxbufs[i] /\ i \in 1..Len(rxbufs)
      BY <1>1, <1>5 DEF Waiting
    <2>3. Len(answers') <= Len(asked')
      BY <1>1, <1>2, <1>6, <2>1
    <2>4. \A i \in 1..Len(answers') : answers'[i].id = asked'[i]
      BY <1>1, <1>2, <1>6, <2>1
    <2>5. {rxbufs'[i].id : i \in Waiting'} = {asked'[i] : i \in (Len(answers') + 1)..Len(asked')}
      <3>1. {asked'[i] : i \in (Len(answers) + 1)..Len(asked)}
              = {asked[i] : i \in (Len(answers) + 1)..Len(asked)}
        <4>1. \A i \in (Len(answers) + 1)..Len(asked) : asked'[i] = asked[i]
          BY <1>1, <1>6
        <4> QED  BY <4>1
      <3>2. CASE p.done
        <4>1. (Len(answers') + 1)..Len(asked')
                = ((Len(answers) + 1)..Len(asked)) \cup {Len(asked) + 1}
          BY <1>1, <1>2, <1>6, <2>1, <3>2
        <4>2. {rxbufs'[i].id : i \in Waiting'} = {rxbufs[i].id : i \in Waiting} \cup {npkts'}
          BY <1>4, <1>5, <2>2, <3>2
        <4>3. {asked'[i] : i \in (Len(answers') + 1)..Len(asked')}
                = {asked'[i] : i \in (Len(answers) + 1)..Len(asked)} \cup {npkts'}
          BY <1>6, <3>2, <4>1
        <4> QED  BY <2>1, <3>1, <4>2, <4>3
      <3>3. CASE ~p.done
        <4>1. asked' = asked /\ answers' = answers /\ Waiting' = Waiting
          BY <1>2, <1>3, <2>2, <3>3
        <4>2. {rxbufs'[i].id : i \in Waiting} = {rxbufs[i].id : i \in Waiting}
          BY <2>2
        <4> QED  BY <2>1, <4>1, <4>2
      <3> QED  BY <3>2, <3>3
    <2>6. \A i, j \in Waiting' : i < j => rxbufs'[i].id < rxbufs'[j].id
      <3>1. \A i \in Waiting' : i \in 1..Len(rxbufs')
        BY DEF Waiting
      <3> QED  BY <1>8, <3>1 DEF QueueInv
    <2> QED  BY <2>3, <2>4, <2>5, <2>6 DEF AnsweredInOrder
  <1> QED  BY <1>7, <1>8, <1>9, <1>11, <1>12, <1>13 DEF IInv

-----------------------------------------------------------------------------
(* A step that leaves queue, requests and answers alone leaves what is said *)
(* of them alone.                                                           *)
LEMMA Unmoved ==
    ASSUME IInv, UNCHANGED <<rxbufs, answers, asked, npkts>>
    PROVE  QueueInv' /\ AnsweredInOrder'
  <1>1. rxbufs' = rxbufs /\ answers' = answers /\ asked' = asked /\ npkts' = npkts
    OBVIOUS
  <1>2. QueueInv'
    BY <1>1 DEF IInv, QueueInv
  <1>3. Waiting' = Waiting
    BY <1>1 DEF Waiting
  <1>4. {rxbufs'[i].id : i \in Waiting'} = {rxbufs[i].id : i \in Waiting}
    BY <1>1, <1>3
  <1>5. {asked'[i] : i \in (Len(answers') + 1)..Len(asked')}
          = {asked[i] : i \in (Len(answers) + 1)..Len(asked)}
    BY <1>1
  <1>6. \A i, j \in Waiting' : i < j => rxbufs'[i].id < rxbufs'[j].id
    BY <1>1, <1>3 DEF IInv, AnsweredInOrder
  <1>7. Len(answers') <= Len(asked') /\ \A i \in 1..Len(answers') : answers'[i].id = asked'[i]
    BY <1>1 DEF IInv, AnsweredInOrder
  <1>8. {rxbufs[i].id : i \in Waiting} = {asked[i] : i \in (Len(answers) + 1)..Len(asked)}
    BY DEF IInv, AnsweredInOrder
  <1>9. {rxbufs'[i].id : i \in Waiting'}
          = {asked'[i] : i \in (Len(answers') + 1)..Len(asked')}
    BY <1>4, <1>5, <1>8
  <1> QED  BY <1>2, <1>6, <1>7, <1>9 DEF AnsweredInOrder

(* A step that moves only the loop, the stall or the index.                 *)
LEMMA Rested ==
    ASSUME IInv, TypeOK',
           UNCHANGED <<rxbufs, answers, asked, npkts, app, offs, took>>
    PROVE  IInv'
  <1>1. QueueInv' /\ AnsweredInOrder'
    BY Unmoved
  <1>2. /\ rxbufs' = rxbufs /\ answers' = answers /\ npkts' = npkts
        /\ app' = app /\ offs' = offs /\ took' = took
    OBVIOUS
  <1>3. Oldest' = Oldest
    BY <1>2 DEF Oldest
  <1>4. TookInv'
    BY <1>2 DEF IInv, TookInv
  <1>5. PartInv'
    BY <1>2, <1>3 DEF IInv, PartInv
  <1>6. PartKept'
    BY <1>2, <1>3 DEF IInv, PartKept
  <1> QED  BY <1>1, <1>4, <1>5, <1>6 DEF IInv

(* The callback leaves a part of the packet.                                *)
LEMMA PartStep ==
    ASSUME IInv, First({"WRITE", "READ", "XFR"}), NEW n \in Nat \ {0},
           took' = [took EXCEPT ![Oldest.id] = @ + n],
           offs + n < Oldest.len, offs' = offs + n, advancing' = FALSE,
           trnidx' = Oldest.id,
           UNCHANGED <<rxbufs, answers, kind, busy, vmvars>>
    PROVE  IInv'
  <1>1. /\ rxbufs # <<>> /\ Len(rxbufs) \in Nat \ {0} /\ 1 \in 1..Len(rxbufs)
        /\ npkts \in Nat /\ offs \in Nat /\ MaxLen \in Nat
        /\ Oldest = rxbufs[1] /\ Oldest \in Pkts
        /\ Oldest.pkt \in {"WRITE", "READ", "XFR"}
        /\ UNCHANGED <<npkts, asked, early, app, type>>
    BY Shapes, EmptySeq DEF First, Oldest, kind, vmvars
  <1>2. /\ Oldest.id \in 1..MaxPkts /\ took[Oldest.id] \in Nat
        /\ took' \in [1..MaxPkts -> Nat]
        /\ took'[Oldest.id] = took[Oldest.id] + n
        /\ app # "fickle" =>
             \A i \in 1..Len(answers) :
               answers[i].len > 0 => took'[answers[i].id] = answers[i].len
        /\ \A i \in 2..Len(rxbufs) : took'[rxbufs[i].id] = 0
        /\ \A id \in 1..MaxPkts : id > npkts => took'[id] = 0
    BY <1>1, AnswersKeep
  <1>3. TypeOK'
    <2>1. Oldest.len \in 0..MaxLen /\ Oldest.id \in 1..MaxPkts
      BY <1>1 DEF Pkts
    <2>2. offs' \in 0..MaxLen /\ offs' > 0
      BY <1>1, <2>1
    <2>3. trnidx' \in 0..npkts'
      BY <1>1, <2>1 DEF IInv, QueueInv
    <2> QED  BY <1>1, <1>2, <2>2, <2>3 DEF IInv, TypeOK
  <1>4. QueueInv' /\ AnsweredInOrder'
    BY <1>1, Unmoved
  <1>5. TookInv'
    <2>1. \A i \in 1..Len(rxbufs) : i > 1 => i \in 2..Len(rxbufs)
      BY <1>1
    <2> QED  BY <1>1, <1>2, <2>1 DEF TookInv
  <1>6. Oldest' = Oldest
    BY <1>1 DEF Oldest
  <1>7. PartInv'
    BY <1>1, <1>6 DEF PartInv
  <1>8. PartKept'
    <2>1. app # "fickle" => offs = took[Oldest.id]
      BY <1>1 DEF IInv, PartKept
    <2>2. app # "fickle" => offs' = took'[Oldest.id]
      BY <1>2, <2>1
    <2> QED  BY <1>1, <1>2, <1>6, <2>2 DEF PartKept
  <1> QED  BY <1>3, <1>4, <1>5, <1>7, <1>8 DEF IInv

(* Every step keeps the invariant.                                          *)
LEMMA NextStep ==
    ASSUME IInv, [Next]_vars
    PROVE  IInv'
  <1>0. /\ Len(rxbufs) \in Nat /\ npkts \in Nat /\ offs \in Nat /\ MaxLen \in Nat
        /\ \A i \in 1..Len(rxbufs) : rxbufs[i] \in Pkts /\ rxbufs[i].id <= npkts
        /\ busy \in BOOLEAN /\ offs \in 0..MaxLen
    BY Shapes DEF IInv, QueueInv, TypeOK
  <1>a. ASSUME NEW K, First(K)
        PROVE  /\ rxbufs # <<>> /\ Oldest \in Pkts /\ Oldest.pkt \in K
               /\ Oldest.id \in 0..npkts /\ Oldest.len \in 0..MaxLen
               /\ advancing /\ ~busy
               /\ took = [took EXCEPT ![Oldest.id] = @ + 0]
    <2>1. 1 \in 1..Len(rxbufs) /\ Oldest = rxbufs[1]
      BY <1>0, <1>a, Shapes, EmptySeq DEF First, Oldest
    <2>2. Oldest \in Pkts /\ Oldest.id \in 1..MaxPkts /\ Oldest.id <= npkts
      BY <1>0, <2>1 DEF Pkts
    <2>3. took = [took EXCEPT ![Oldest.id] = @ + 0]
      BY <2>2 DEF IInv, TypeOK
    <2> QED  BY <1>0, <1>a, <2>1, <2>2, <2>3, Shapes DEF First, Pkts
  <1>1. CASE VMSend
    BY <1>1, SendStep
  <1>2. CASE AdvanceEnd
    <2>1. TypeOK'
      BY <1>2 DEF AdvanceEnd, kind, vmvars, IInv, TypeOK
    <2> QED  BY <1>2, <2>1, Rested DEF AdvanceEnd, kind, vmvars
  <1>3. CASE AdvanceEdge
    <2>1. /\ First({"START", "STOP", "CS"}) /\ Answer(Oldest) /\ Free
          /\ UNCHANGED <<kind, vmvars, advancing, busy, offs, took>>
      BY <1>3 DEF AdvanceEdge
    <2>2. /\ rxbufs # <<>> /\ Oldest.pkt \in {"START", "STOP", "CS"}
          /\ Oldest.id \in 0..npkts /\ advancing
          /\ took = [took EXCEPT ![Oldest.id] = @ + 0]
      BY <1>a, <2>1
    <2>3. trnidx' \in 0..npkts
      BY <1>3, <2>2 DEF AdvanceEdge, IInv, TypeOK
    <2>4. app # "fickle" => offs' = 0 /\ ~(AnswerTo(Oldest).len > 0)
      <3>1. app # "fickle" => ~(offs > 0)
        BY <2>2 DEF IInv, PartInv
      <3> QED  BY <1>0, <2>1, <2>2, <3>1 DEF AnswerTo
    <2>5. advancing' = TRUE
      BY <2>1, <2>2 DEF IInv, TypeOK
    <2> QED  BY <1>0, <2>1, <2>2, <2>3, <2>4, <2>5, FreedInv
  <1>4. CASE AdvanceStall
    <2>1. /\ First({"START", "WRITE", "READ", "XFR"}) /\ trnidx' = Oldest.id
          /\ busy' = TRUE /\ advancing' = FALSE
          /\ UNCHANGED <<rxbufs, offs, answers, took, type, app, npkts, asked, early>>
      BY <1>4 DEF AdvanceStall, kind, vmvars
    <2>2. TypeOK'
      BY <1>a, <2>1 DEF IInv, TypeOK
    <2> QED  BY <2>1, <2>2, Rested
  <1>5. CASE AdvanceData
    <2>1. /\ First({"WRITE", "READ", "XFR"}) /\ trnidx' = Oldest.id
          /\ UNCHANGED <<kind, vmvars, busy>>
      BY <1>5 DEF AdvanceData
    <2>2. PICK n \in Takes :
            /\ took' = [took EXCEPT ![Oldest.id] = @ + n]
            /\ IF offs + n < Oldest.len
                 THEN /\ offs' = offs + n
                      /\ advancing' = FALSE
                      /\ UNCHANGED <<rxbufs, answers>>
                 ELSE /\ offs' = 0
                      /\ Answer(Oldest)
                      /\ Free
                      /\ UNCHANGED advancing
      BY <1>5 DEF AdvanceData
    <2>3. Oldest.len \in 0..MaxLen /\ Oldest.id \in 0..npkts /\ rxbufs # <<>> /\ advancing
      BY <1>a, <2>1
    <2>4. n \in Nat \ {0} /\ n <= Rest
      <3>1. Rest \in Nat /\ Chunk \in Nat
        BY <1>0, <2>3, BusIfAssumption DEF Rest
      <3>2. Offered \in Nat /\ Offered <= Rest
        BY <3>1 DEF Offered
      <3>3. n \in {Offered} \ {0} \/ n \in 1..Offered
        BY DEF Takes
      <3> QED  BY <3>1, <3>2, <3>3
    <2>5. CASE offs + n < Oldest.len
      BY <2>1, <2>2, <2>4, <2>5, PartStep
    <2>6. CASE ~(offs + n < Oldest.len)
      <3>1. app # "fickle" => offs + n = Oldest.len
        <4>1. app # "fickle" => offs <= Oldest.len
          BY <1>0, <2>3 DEF IInv, PartInv
        <4> QED  BY <1>0, <2>3, <2>4, <2>6, <4>1 DEF Rest
      <3>2. /\ Free /\ Answer(Oldest) /\ offs' = 0 /\ advancing' = TRUE
            /\ offs' \in 0..MaxLen /\ trnidx' \in 0..npkts /\ busy' \in BOOLEAN
        BY <1>0, <2>1, <2>2, <2>3, <2>6 DEF IInv, TypeOK
      <3> QED  BY <2>1, <2>2, <2>3, <2>4, <3>1, <3>2, FreedInv
    <2> QED  BY <2>5, <2>6
  <1>6. CASE AdvanceNak
    <2>1. /\ First({"WRITE"}) /\ Answer(Oldest) /\ Free /\ trnidx' = Oldest.id
          /\ UNCHANGED <<kind, vmvars, advancing, busy, offs, took>>
          /\ offs > 0 => app = "fickle"
      BY <1>6 DEF AdvanceNak
    <2>2. /\ rxbufs # <<>> /\ Oldest.pkt = "WRITE"
          /\ Oldest.id \in 0..npkts /\ advancing
          /\ took = [took EXCEPT ![Oldest.id] = @ + 0]
      BY <1>a, <2>1
    <2>3. app # "fickle" => offs' = 0 /\ ~(AnswerTo(Oldest).len > 0)
      BY <1>0, <2>1, <2>2 DEF AnswerTo
    <2>4. advancing' = TRUE /\ trnidx' \in 0..npkts
      BY <2>1, <2>2 DEF IInv, TypeOK
    <2> QED  BY <1>0, <2>1, <2>2, <2>3, <2>4, FreedInv
  <1>7. CASE Ready
    <2>1. TypeOK'
      BY <1>7 DEF Ready, kind, vmvars, IInv, TypeOK
    <2> QED  BY <1>7, <2>1, Rested DEF Ready, kind, vmvars
  <1>8. CASE PushRead
    <2>1. trnidx \in 0..MaxPkts
      BY <1>0, BusIfAssumption DEF IInv, TypeOK
    <2>2. early' \in Seq(0..MaxPkts)
      BY <1>8, <2>1 DEF PushRead, IInv, TypeOK
    <2>3. TypeOK'
      BY <1>8, <2>2 DEF PushRead, kind, IInv, TypeOK
    <2> QED  BY <1>8, <2>3, Rested DEF PushRead, kind
  <1>9. CASE UNCHANGED vars
    <2>1. TypeOK'
      BY <1>9 DEF vars, IInv, TypeOK
    <2> QED  BY <1>9, <2>1, Rested DEF vars
  <1> QED
    BY <1>1, <1>2, <1>3, <1>4, <1>5, <1>6, <1>7, <1>8, <1>9 DEF Next, Advance

LEMMA Inductive == Spec => []IInv
  <1>1. IInv /\ [Next]_vars => IInv'
    BY NextStep
  <1> QED  BY InitInv, <1>1, PTL DEF Spec
-----------------------------------------------------------------------------
(* Every variable keeps its type, and coremodel_advance_if leaves its loop  *)
(* with packets queued only at a stall or behind a part that was taken.     *)
THEOREM TypeCorrect == Spec => []TypeOK
  <1>1. IInv => TypeOK
    BY DEF IInv
  <1> QED  BY Inductive, <1>1, PTL

(* Each request of the VM's bus master is answered once, in its order and   *)
(* under its own index, whatever stalls, parts and refusals lie between.    *)
THEOREM AnswersInOrder == Spec => []AnsweredInOrder
  <1>1. IInv => AnsweredInOrder
    BY DEF IInv
  <1> QED  BY Inductive, <1>1, PTL

(* cif->offs is what the application has had of the first packet, and an    *)
(* answer with data carries exactly what was produced for it, if a write is *)
(* refused at its beginning or not at all.                                  *)
THEOREM PartsKept == Spec => []PartKept
  <1>1. IInv => PartKept
    BY DEF IInv
  <1> QED  BY Inductive, <1>1, PTL
=============================================================================
