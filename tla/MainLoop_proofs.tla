--------------------------- MODULE MainLoop_proofs ---------------------------
(***************************************************************************)
(* Theorems about MainLoop, for any number of threads, packets and chunks. *)
(***************************************************************************)
EXTENDS MainLoop, SequenceTheorems, TLAPS

USE MainLoopAssumption

(* Where a thread is fits the call it is in.                                *)
ModeInv ==
    \A t \in Threads :
        /\ pc[t] \in {"idle", "push"} => mode[t] = "none"
        /\ pc[t] \in {"prepare", "flush", "select", "process"} => mode[t] # "none"
        /\ pc[t] = "ask" => mode[t] = "query"
        /\ mode[t] = "query" => t \in Askers
        /\ mode[t] \in {"loop", "timed"} => t \in Loopers

(* The mutex is held where the code holds it.                               *)
LockInv ==
    \A t \in Threads :
        pc[t] \in {"push", "ask", "flush"} \/ mode[t] = "query" => lock = t

(* A query in flight belongs to a thread inside a list or attach call.      *)
QueryInv == query => \E t \in Threads : mode[t] = "query"

(* A thread past preparefds has need_wake set for it, and what is queued    *)
(* since then is announced by the socket or by the pipe.                    *)
WakeInv ==
    \A t \in Threads :
        pc[t] \in {"flush", "select"} /\ fdOpen
            => needWake /\ (txbufs # <<>> => "out" \in armed[t] \/ pipe > 0)

-----------------------------------------------------------------------------
LEMMA PacketsType ==
    ASSUME NEW n \in Nat, NEW k \in Nat
    PROVE  Packets(n, k) \in Seq(Nat)
<1>1. k * Size \in Nat
  OBVIOUS
<1>2. ASSUME NEW j \in 1..(k * Size)
      PROVE  n + 1 + ((j - 1) \div Size) \in Nat
  <2>1. j - 1 \in Nat
    BY <1>1, <1>2
  <2>2. (j - 1) \div Size \in Nat
    BY <2>1
  <2> QED BY <2>2
<1> QED BY <1>1, <1>2 DEF Packets

(* What a write takes off the queue is part of the queue.                   *)
LEMMA WrittenType ==
    ASSUME NEW q \in Seq(Nat), TypeOK, SndBufOK
    PROVE  Written(q) \in 0..Len(q) /\ Written(q) <= Room
BY DEF Written, Least, Room, TypeOK, SndBufOK

(* A queue cut in two and put together again is the queue.                  *)
LEMMA CutJoin ==
    ASSUME NEW q \in Seq(Nat), NEW k \in 0..Len(q)
    PROVE  /\ SubSeq(q, 1, k) \in Seq(Nat)
           /\ Len(SubSeq(q, 1, k)) = k
           /\ SubSeq(q, k + 1, Len(q)) \in Seq(Nat)
           /\ SubSeq(q, 1, k) \o SubSeq(q, k + 1, Len(q)) = q
<1>1. SubSeq(q, 1, k) \in Seq(Nat) /\ Len(SubSeq(q, 1, k)) = k
  OBVIOUS
<1>2. SubSeq(q, k + 1, Len(q)) \in Seq(Nat)
  OBVIOUS
<1>3. SubSeq(q, 1, k) \o SubSeq(q, k + 1, Len(q)) = SubSeq(q, 1, Len(q))
  <2>1. 1 \in 1..(Len(q) + 1) /\ k \in (1 - 1)..Len(q) /\ Len(q) \in k..Len(q)
    OBVIOUS
  <2> QED BY <2>1, ConcatAdjacentSubSeq
<1>4. SubSeq(q, 1, Len(q)) = q
  BY SubSeqFull
<1> QED BY <1>1, <1>2, <1>3, <1>4

LEMMA Regroup ==
    ASSUME NEW a \in Seq(Nat), NEW b \in Seq(Nat), NEW c \in Seq(Nat)
    PROVE  (a \o b) \o c = a \o (b \o c)
BY ConcatAssociative

-----------------------------------------------------------------------------
(* What PushPackets and Transmit do to the typed state.                     *)
LEMMA PushType ==
    ASSUME TypeOK, NEW k \in Nat, PushPackets(k)
    PROVE  /\ npush' \in 0..MaxPush
           /\ pushed' \in Seq(Nat)
           /\ txbufs' \in Seq(Nat)
           /\ txflag' \in BOOLEAN
           /\ pipe' \in 0..PipeCap
<1>1. Packets(npush, k) \in Seq(Nat)
  BY PacketsType DEF TypeOK
<1> QED BY <1>1 DEF TypeOK, PushPackets, WakeBytes

LEMMA TransmitType ==
    ASSUME TypeOK, SndBufOK, NEW q \in Seq(Nat), Transmit(q)
    PROVE  /\ wire' \in Seq(Nat)
           /\ txbufs' \in Seq(Nat)
           /\ Len(wire') >= Len(wire)
           /\ Len(wire') - taken <= SndCap
           /\ wire' \o txbufs' = wire \o q
<1>1. Written(q) \in 0..Len(q) /\ Written(q) <= Room
  BY WrittenType
<1> DEFINE a == SubSeq(q, 1, Written(q))
           b == SubSeq(q, Written(q) + 1, Len(q))
<1>2. a \in Seq(Nat) /\ Len(a) = Written(q) /\ b \in Seq(Nat) /\ a \o b = q
  BY <1>1, CutJoin
<1>3. wire \in Seq(Nat) /\ taken \in Nat
  BY DEF TypeOK
<1>4. wire' = wire \o a /\ txbufs' = b
  BY DEF Transmit
<1> HIDE DEF a, b
<1>5. wire' \o txbufs' = wire \o q
  <2>0. wire \in Seq(Nat) /\ a \in Seq(Nat) /\ b \in Seq(Nat)
    BY <1>2, <1>3
  <2> HIDE MainLoopAssumption
  <2>1. (wire \o a) \o b = wire \o (a \o b)
    BY <2>0, Regroup, ZenonT(60)
  <2>2. wire' \o txbufs' = (wire \o a) \o b
    BY <1>4
  <2> QED BY <2>1, <2>2, <1>2
<1>6. wire' \in Seq(Nat) /\ Len(wire') = Len(wire) + Written(q)
  BY <1>2, <1>3, <1>4, ConcatProperties
<1>7. Len(wire') >= Len(wire) /\ Len(wire') - taken <= SndCap
  BY <1>1, <1>3, <1>6 DEF Room
<1> QED BY <1>2, <1>4, <1>5, <1>6, <1>7

-----------------------------------------------------------------------------

(* A step keeps every variable in its set and the send buffer within        *)
(* bounds.                                                                  *)
LEMMA TypeStep == TypeInv /\ [Next]_vars => TypeInv'
<1> SUFFICES ASSUME TypeOK, SndBufOK, [Next]_vars
             PROVE  TypeOK' /\ SndBufOK'
  BY DEF TypeInv
<1>1. ASSUME NEW t \in Threads, PushLock(t)
      PROVE  TypeOK' /\ SndBufOK'
  BY <1>1 DEF TypeOK, SndBufOK, PushLock, PCs, libvars, vmvars
<1>2. ASSUME NEW t \in Threads, Push(t)
      PROVE  TypeOK' /\ SndBufOK'
  BY <1>2, PushType DEF TypeOK, SndBufOK, Push, PCs, Unlocked, vmvars
<1>3. ASSUME NEW t \in Threads, AskLock(t)
      PROVE  TypeOK' /\ SndBufOK'
  BY <1>3 DEF TypeOK, SndBufOK, AskLock, PCs, Modes, libvars, vmvars
<1>4. ASSUME NEW t \in Threads, Ask(t)
      PROVE  TypeOK' /\ SndBufOK'
  BY <1>4, PushType DEF TypeOK, SndBufOK, Ask, PCs, vmvars
<1>5. ASSUME NEW t \in Threads, Mainloop(t)
      PROVE  TypeOK' /\ SndBufOK'
  BY <1>5 DEF TypeOK, SndBufOK, Mainloop, PCs, Modes, libvars, vmvars
<1>6. ASSUME NEW t \in Threads, PrepareClosed(t)
      PROVE  TypeOK' /\ SndBufOK'
  BY <1>6 DEF TypeOK, SndBufOK, PrepareClosed, PCs, Fds, libvars, vmvars
<1>7. ASSUME NEW t \in Threads, Prepare(t)
      PROVE  TypeOK' /\ SndBufOK'
  BY <1>7 DEF TypeOK, SndBufOK, Prepare, ArmedFds, PCs, Fds, vmvars
<1>8. ASSUME NEW t \in Threads, Flush(t)
      PROVE  TypeOK' /\ SndBufOK'
  <2>1. /\ npush' \in 0..MaxPush /\ pushed' \in Seq(Nat) /\ txbufs' \in Seq(Nat)
        /\ txflag' \in BOOLEAN /\ pipe' \in 0..PipeCap
    BY <1>8, PushType DEF Flush, TypeOK
  <2> QED BY <1>8, <2>1 DEF TypeOK, SndBufOK, Flush, PCs, Unlocked, vmvars
<1>9. ASSUME NEW t \in Threads, Select(t)
      PROVE  TypeOK' /\ SndBufOK'
  BY <1>9 DEF TypeOK, SndBufOK, Select, PCs, Fds, libvars, vmvars
<1>10. ASSUME NEW t \in Threads, ProcessClosed(t)
       PROVE  TypeOK' /\ SndBufOK'
  BY <1>10 DEF TypeOK, SndBufOK, ProcessClosed, Return, PCs, Modes, vmvars
<1>11. ASSUME NEW t \in Threads, ProcessEof(t)
       PROVE  TypeOK' /\ SndBufOK'
  <2>1. inbox' \in Seq({"RSP", "DATA"})
    BY <1>11, EmptySeq DEF ProcessEof
  <2>2. pipe' \in 0..PipeCap /\ query' \in BOOLEAN
    BY <1>11 DEF TypeOK, ProcessEof, PipeDrained
  <2> QED BY <1>11, <2>1, <2>2 DEF TypeOK, SndBufOK, ProcessEof, Return, PCs, Modes
<1>12. ASSUME NEW t \in Threads, Process(t)
       PROVE  TypeOK' /\ SndBufOK'
  <2>1. PICK k \in 0..Len(Batch(t)), d \in BOOLEAN :
          /\ Deliver(t, k, d)
          /\ LET q == txbufs \o Packets(npush, k)
             IN  IF MayWrite(t, q) THEN Transmit(q) ELSE txbufs' = q /\ wire' = wire
    BY <1>12 DEF Process
  <2>2. k \in Nat
    BY DEF Batch, TypeOK
  <2> DEFINE q == txbufs \o Packets(npush, k)
  <2>3. q \in Seq(Nat)
    BY <2>2, PacketsType DEF TypeOK
  <2>4. /\ wire' \in Seq(Nat) /\ txbufs' \in Seq(Nat)
        /\ Len(wire') >= Len(wire) /\ Len(wire') - taken <= SndCap
    <3> HIDE DEF q
    <3>1. CASE Transmit(q)
      BY <3>1, <2>3, TransmitType
    <3>2. CASE txbufs' = q /\ wire' = wire
      BY <3>2, <2>3 DEF TypeOK, SndBufOK
    <3> QED BY <2>1, <3>1, <3>2 DEF q
  <2>5. /\ npush' \in 0..MaxPush /\ pushed' \in Seq(Nat) /\ txflag' \in BOOLEAN
        /\ defer' \in BOOLEAN /\ query' \in BOOLEAN /\ inbox' \in Seq({"RSP", "DATA"})
    BY <2>1, <2>2, PacketsType DEF TypeOK, Deliver
  <2>6. /\ pc' \in [Threads -> PCs] /\ mode' \in [Threads -> Modes]
        /\ lock' \in Threads \cup {NoThread}
    <3>1. CASE Return(t)
      BY <3>1 DEF TypeOK, Return, PCs, Modes
    <3>2. CASE NextRound(t)
      BY <3>2 DEF TypeOK, NextRound, PCs
    <3> QED BY <1>12, <3>1, <3>2 DEF Process
  <2>7. /\ needWake' \in BOOLEAN /\ pipe' \in 0..PipeCap
        /\ UNCHANGED <<armed, ready, fdOpen, reqEnd, taken, peerClosed, nin>>
    <3>1. pipe' = PipeDrained(t) /\ needWake' = FALSE
      BY <1>12 DEF Process
    <3>2. UNCHANGED <<armed, ready, fdOpen, reqEnd, taken, peerClosed, nin>>
      BY <1>12 DEF Process
    <3>3. 0 \in 0..PipeCap
      BY MainLoopAssumption
    <3> QED BY <3>1, <3>2, <3>3 DEF TypeOK, PipeDrained
  <2> QED BY <2>4, <2>5, <2>6, <2>7 DEF TypeOK, SndBufOK
<1>13. CASE VMTake
  BY <1>13 DEF TypeOK, SndBufOK, VMTake, libvars
<1>14. CASE VMAnswer
  BY <1>14 DEF TypeOK, SndBufOK, VMAnswer, libvars
<1>15. CASE VMSend
  BY <1>15 DEF TypeOK, SndBufOK, VMSend, libvars
<1>16. CASE VMClose
  BY <1>16 DEF TypeOK, SndBufOK, VMClose, libvars
<1>17. CASE UNCHANGED vars
  BY <1>17 DEF TypeOK, SndBufOK, vars
<1> QED BY <1>1, <1>2, <1>3, <1>4, <1>5, <1>6, <1>7, <1>8, <1>9, <1>10, <1>11,
           <1>12, <1>13, <1>14, <1>15, <1>16, <1>17 DEF Next, Round

(* Every variable stays in its set: the pipe and the socket are never       *)
(* overfilled, and the library's flags stay flags.                          *)
THEOREM TypeCorrect == Spec => []TypeInv
<1>1. Init => TypeInv
  <2> SUFFICES ASSUME Init PROVE TypeOK /\ SndBufOK
    BY DEF TypeInv
  <2>1. /\ <<>> \in Seq(Nat) /\ <<>> \in Seq({"RSP", "DATA"}) /\ Len(<<>>) = 0
    BY EmptySeq
  <2>2. /\ lock \in Threads \cup {NoThread}
        /\ pc \in [Threads -> PCs] /\ mode \in [Threads -> Modes]
        /\ armed \in [Threads -> SUBSET Fds] /\ ready \in [Threads -> SUBSET Fds]
    BY DEF Init, PCs, Modes
  <2>3. 0 \in 0..PipeCap /\ 0 \in 0..MaxIn /\ 0 \in 0..MaxPush
    BY MainLoopAssumption
  <2>4. taken \in 0..Len(wire) /\ SndBufOK
    BY <2>1 DEF Init, SndBufOK
  <2> QED BY <2>1, <2>2, <2>3, <2>4 DEF Init, TypeOK
<1> QED BY <1>1, TypeStep, PTL DEF Spec
-----------------------------------------------------------------------------
(* A push puts the same chunks at the end of the queue and of the history.  *)
LEMMA PushInOrder ==
    ASSUME TypeOK, SentInOrder, NEW k \in Nat, PushPackets(k), wire' = wire
    PROVE  SentInOrder'
<1>1. Packets(npush, k) \in Seq(Nat)
  BY PacketsType DEF TypeOK
<1>2. wire \in Seq(Nat) /\ txbufs \in Seq(Nat)
  BY DEF TypeOK
<1> HIDE MainLoopAssumption
<1>3. (wire \o txbufs) \o Packets(npush, k) = wire \o (txbufs \o Packets(npush, k))
  BY <1>1, <1>2, Regroup, ZenonT(60)
<1> QED BY <1>3 DEF PushPackets, SentInOrder

LEMMA OrderStep == TypeInv /\ SentInOrder /\ [Next]_vars => SentInOrder'
<1> SUFFICES ASSUME TypeOK, SndBufOK, SentInOrder, [Next]_vars
             PROVE  SentInOrder'
  BY DEF TypeInv
<1>1. CASE UNCHANGED <<wire, txbufs, pushed>>
  BY <1>1 DEF SentInOrder
<1>2. ASSUME NEW t \in Threads, Push(t) \/ Ask(t)
      PROVE  SentInOrder'
  BY <1>2, PushInOrder DEF Push, Ask
<1>3. ASSUME NEW t \in Threads, Flush(t)
      PROVE  SentInOrder'
  <2>1. CASE PushPackets(1)
    BY <1>3, <2>1, PushInOrder DEF Flush
  <2>2. CASE UNCHANGED <<npush, pushed, txbufs, txflag, pipe>>
    BY <1>1, <1>3, <2>2 DEF Flush
  <2> QED BY <1>3, <2>1, <2>2 DEF Flush
<1>4. ASSUME NEW t \in Threads, Process(t)
      PROVE  SentInOrder'
  <2>1. PICK k \in 0..Len(Batch(t)), d \in BOOLEAN :
          /\ Deliver(t, k, d)
          /\ LET q == txbufs \o Packets(npush, k)
             IN  IF MayWrite(t, q) THEN Transmit(q) ELSE txbufs' = q /\ wire' = wire
    BY <1>4 DEF Process
  <2>2. k \in Nat
    BY DEF Batch, TypeOK
  <2> DEFINE new == Packets(npush, k)
             q == txbufs \o new
  <2>3. new \in Seq(Nat) /\ q \in Seq(Nat)
    BY <2>2, PacketsType DEF TypeOK
  <2>4. pushed' = pushed \o new
    BY <2>1 DEF Deliver
  <2>5. wire' \o txbufs' = wire \o q
    <3> HIDE DEF q
    <3>1. CASE Transmit(q)
      BY <3>1, <2>3, TransmitType
    <3>2. CASE txbufs' = q /\ wire' = wire
      BY <3>2
    <3> QED BY <2>1, <3>1, <3>2 DEF q
  <2>6. wire \o q = (wire \o txbufs) \o new
    <3>1. wire \in Seq(Nat) /\ txbufs \in Seq(Nat)
      BY DEF TypeOK
    <3> HIDE MainLoopAssumption
    <3> HIDE DEF new
    <3>2. (wire \o txbufs) \o new = wire \o (txbufs \o new)
      BY <2>3, <3>1, Regroup, ZenonT(60)
    <3> QED BY <3>2 DEF q
  <2> QED BY <2>4, <2>5, <2>6 DEF SentInOrder
<1>5. ASSUME NEW t \in Threads,
             \/ PushLock(t) \/ AskLock(t) \/ Mainloop(t) \/ PrepareClosed(t)
             \/ Prepare(t) \/ Select(t) \/ ProcessClosed(t) \/ ProcessEof(t)
      PROVE  SentInOrder'
  BY <1>1, <1>5 DEF PushLock, AskLock, Mainloop, PrepareClosed, Prepare, Select,
                    ProcessClosed, ProcessEof, libvars
<1>6. CASE VMTake \/ VMAnswer \/ VMSend \/ VMClose
  BY <1>1, <1>6 DEF VMTake, VMAnswer, VMSend, VMClose, libvars
<1>7. CASE UNCHANGED vars
  BY <1>1, <1>7 DEF vars
<1> QED BY <1>2, <1>3, <1>4, <1>5, <1>6, <1>7 DEF Next, Round

(* Whatever the threads do and however writes are cut short, the stream the *)
(* VM receives is the pushed packets, whole and in order.                   *)
THEOREM InOrder == Spec => []SentInOrder
<1>1. Init => SentInOrder
  BY EmptySeq, ConcatEmptySeq DEF Init, SentInOrder
<1> QED BY <1>1, TypeCorrect, OrderStep, PTL DEF Spec

-----------------------------------------------------------------------------
ControlInv == ModeInv /\ LockInv /\ QueryInv

(* Only one thread moves in a step of Next; what it may change of the       *)
(* control state.                                                           *)
LEMMA ControlStep == TypeOK /\ ControlInv /\ [Next]_vars => ControlInv'
<1> SUFFICES ASSUME TypeOK, ModeInv, LockInv, QueryInv, [Next]_vars
             PROVE  ModeInv' /\ LockInv' /\ QueryInv'
  BY DEF ControlInv
<1> USE DEF TypeOK, PCs, Modes
<1>1. ASSUME NEW t \in Threads, PushLock(t) \/ Push(t)
      PROVE  ModeInv' /\ LockInv' /\ QueryInv'
  <2>1. ModeInv'
    BY <1>1 DEF ModeInv, PushLock, Push
  <2>2. LockInv'
    BY <1>1 DEF ModeInv, LockInv, PushLock, Push, CanLock, Unlocked
  <2>3. QueryInv'
    BY <1>1 DEF QueryInv, PushLock, Push, libvars
  <2> QED BY <2>1, <2>2, <2>3
<1>2. ASSUME NEW t \in Threads, AskLock(t) \/ Ask(t) \/ Mainloop(t)
      PROVE  ModeInv' /\ LockInv' /\ QueryInv'
  <2>1. ModeInv'
    BY <1>2 DEF ModeInv, AskLock, Ask, Mainloop
  <2>2. LockInv'
    BY <1>2 DEF ModeInv, LockInv, AskLock, Ask, Mainloop, CanLock
  <2>3. QueryInv'
    BY <1>2 DEF ModeInv, QueryInv, AskLock, Ask, Mainloop, libvars
  <2> QED BY <2>1, <2>2, <2>3
<1>3. ASSUME NEW t \in Threads, PrepareClosed(t) \/ Prepare(t) \/ Flush(t) \/ Select(t)
      PROVE  ModeInv' /\ LockInv' /\ QueryInv'
  <2>1. ModeInv'
    BY <1>3 DEF ModeInv, PrepareClosed, Prepare, Flush, Select
  <2>2. LockInv'
    BY <1>3 DEF ModeInv, LockInv, PrepareClosed, Prepare, Flush, Select, CanLock, Unlocked
  <2>3. QueryInv'
    BY <1>3 DEF QueryInv, PrepareClosed, Prepare, Flush, Select, libvars
  <2> QED BY <2>1, <2>2, <2>3
<1>4. ASSUME NEW t \in Threads, ProcessClosed(t) \/ ProcessEof(t) \/ Process(t)
      PROVE  ModeInv' /\ LockInv' /\ QueryInv'
  <2>1. /\ pc[t] = "process" /\ CanLock(t)
        /\ Return(t) \/ NextRound(t)
    BY <1>4 DEF ProcessClosed, ProcessEof, Process
  <2>2. ModeInv'
    BY <2>1 DEF ModeInv, Return, NextRound
  <2>3. LockInv'
    BY <2>1 DEF ModeInv, LockInv, Return, NextRound, CanLock
  <2>4. query' => query /\ (mode'[t] = "query" \/ mode[t] # "query")
    BY <1>4 DEF ProcessClosed, ProcessEof, Process, Deliver, Return, NextRound
  <2>5. QueryInv'
    BY <2>1, <2>4 DEF QueryInv, Return, NextRound
  <2> QED BY <2>2, <2>3, <2>5
<1>5. CASE VMTake \/ VMAnswer \/ VMSend \/ VMClose \/ UNCHANGED vars
  BY <1>5 DEF VMTake, VMAnswer, VMSend, VMClose, libvars, vars, ModeInv, LockInv, QueryInv
<1> QED BY <1>1, <1>2, <1>3, <1>4, <1>5 DEF Next, Round

LEMMA Control == Spec => []ControlInv
<1>1. Init => ControlInv
  BY DEF Init, ControlInv, ModeInv, LockInv, QueryInv
<1>2. TypeInv => TypeOK
  BY DEF TypeInv
<1> QED BY <1>1, <1>2, TypeCorrect, ControlStep, PTL DEF Spec

(* A query in flight belongs to the thread that owns the mutex: answers     *)
(* cannot cross between threads.                                            *)
THEOREM QueryIsOwned == Spec => []QueryOwned
<1>1. ControlInv => QueryOwned
  BY DEF ControlInv, LockInv, QueryInv, QueryOwned
<1> QED BY <1>1, Control, PTL
-----------------------------------------------------------------------------
(* All calls that run the loop come from one thread, as in the examples:    *)
(* the main thread attaches its devices and then calls coremodel_mainloop.  *)
OneLooper == \E m \in Threads : Loopers \cup Askers \subseteq {m}

LEMMA WakeStep ==
    OneLooper /\ TypeOK /\ ControlInv /\ WakeInv /\ [Next]_vars => WakeInv'
<1> SUFFICES ASSUME OneLooper, TypeOK, ModeInv, LockInv, WakeInv, [Next]_vars
             PROVE  WakeInv'
  BY DEF ControlInv
(* No second thread is between preparefds and select.                       *)
<1>1. \A t, u \in Threads : mode[t] # "none" /\ mode[u] # "none" => t = u
  <2>1. \A t \in Threads : mode[t] # "none" => t \in Loopers \cup Askers
    BY DEF ModeInv, TypeOK, Modes
  <2> QED BY <2>1 DEF OneLooper
<1> USE DEF TypeOK, PCs, Modes
<1>2. CASE UNCHANGED <<pc, armed, needWake, pipe, txbufs, fdOpen>>
  BY <1>2 DEF WakeInv
<1>3. ASSUME NEW t \in Threads, PushLock(t) \/ AskLock(t) \/ Mainloop(t)
      PROVE  WakeInv'
  BY <1>3 DEF WakeInv, PushLock, AskLock, Mainloop, libvars
<1>4. ASSUME NEW t \in Threads, Push(t) \/ Ask(t)
      PROVE  WakeInv'
  <2>1. /\ PushPackets(1)
        /\ UNCHANGED <<armed, needWake, fdOpen>>
        /\ \E p \in {"idle", "prepare"} : pc' = [pc EXCEPT ![t] = p]
    BY <1>4 DEF Push, Ask
  <2>2. needWake => pipe' > 0
    BY <2>1 DEF PushPackets, WakeBytes
  <2> QED BY <2>1, <2>2 DEF WakeInv
<1>5. ASSUME NEW t \in Threads, PrepareClosed(t)
      PROVE  WakeInv'
  BY <1>5 DEF WakeInv, PrepareClosed, libvars
<1>6. ASSUME NEW t \in Threads, Prepare(t)
      PROVE  WakeInv'
  <2>1. mode[t] # "none"
    BY <1>6 DEF ModeInv, Prepare
  <2>2. \A u \in Threads : pc[u] \in {"flush", "select"} => u = t
    BY <1>1, <2>1 DEF ModeInv
  <2>3. /\ needWake' = TRUE
        /\ txbufs' = txbufs
        /\ txbufs # <<>> => "out" \in armed'[t]
        /\ \A u \in Threads \ {t} : pc'[u] = pc[u]
    BY <1>6 DEF Prepare, ArmedFds
  <2> QED BY <2>2, <2>3 DEF WakeInv
<1>7. ASSUME NEW t \in Threads, Flush(t)
      PROVE  WakeInv'
  <2>1. /\ UNCHANGED <<armed, needWake, fdOpen>>
        /\ pc[t] = "flush"
        /\ pc' = [pc EXCEPT ![t] = "select"]
    BY <1>7 DEF Flush
  <2>2. PushPackets(1) \/ UNCHANGED <<txbufs, pipe>>
    BY <1>7 DEF Flush
  <2>3. PushPackets(1) => (needWake => pipe' > 0)
    BY DEF PushPackets, WakeBytes
  <2> QED BY <2>1, <2>2, <2>3 DEF WakeInv
<1>8. ASSUME NEW t \in Threads, Select(t)
      PROVE  WakeInv'
  BY <1>8 DEF WakeInv, Select, libvars
<1>9. ASSUME NEW t \in Threads, ProcessClosed(t) \/ ProcessEof(t) \/ Process(t)
      PROVE  WakeInv'
  <2>1. pc[t] = "process" /\ (Return(t) \/ NextRound(t))
    BY <1>9 DEF ProcessClosed, ProcessEof, Process
  <2>2. \A u \in Threads \ {t} : pc[u] \notin {"flush", "select"}
    BY <1>1, <2>1 DEF ModeInv
  <2>3. \A u \in Threads : pc'[u] \notin {"flush", "select"}
    BY <2>1, <2>2 DEF Return, NextRound
  <2> QED BY <2>3 DEF WakeInv
<1>10. CASE VMTake \/ VMAnswer \/ VMSend \/ VMClose \/ UNCHANGED vars
  BY <1>2, <1>10 DEF VMTake, VMAnswer, VMSend, VMClose, libvars, vars
<1> QED BY <1>3, <1>4, <1>5, <1>6, <1>7, <1>8, <1>9, <1>10 DEF Next, Round

(* With one thread in the loop, no number of pushing threads can put it to  *)
(* sleep on a packet nobody will announce: the invariant of need_wake, the  *)
(* wake-up pipe and writefds.                                               *)
THEOREM NoWakeupIsLost == OneLooper /\ Spec => []NoLostWakeup
<1>1. Init => WakeInv
  BY DEF Init, WakeInv
<1>2. TypeInv => TypeOK
  BY DEF TypeInv
<1>3. WakeInv => NoLostWakeup
  BY DEF WakeInv, NoLostWakeup
<1>4. SUFFICES ASSUME OneLooper PROVE Spec => []NoLostWakeup
  OBVIOUS
<1> QED BY <1>1, <1>2, <1>3, <1>4, TypeCorrect, Control, WakeStep, PTL DEF Spec
=============================================================================
