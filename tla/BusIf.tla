------------------------------- MODULE BusIf -------------------------------
(***************************************************************************)
(* The bus interfaces of coremodel.c, I2C and SPI: the VM is the master,   *)
(* its packets are offered to the callbacks of the application, which may  *)
(* take (or produce) them in parts, refuse them or stall, and those that   *)
(* require an answer get one, marked with the packet's transaction index.  *)
(*                                                                         *)
(* coremodel_advance_if() runs with the mutex held, one turn of its loop   *)
(* per step: "advancing".  The VM numbers its packets from 1, and the      *)
(* number is the transaction index.                                        *)
(***************************************************************************)
EXTENDS Integers, Sequences

CONSTANTS
    Types,    \* cif->type: a subset of {"I2C", "SPI"}
    Chunk,    \* bytes one SPI transfer callback is offered at most (256)
    MaxLen,   \* bound: bytes of a packet
    MaxPkts,  \* bound: packets of the VM
    MaxEarly  \* bound: calls to coremodel_i2c_push_read

ASSUME BusIfAssumption ==
    /\ Types \subseteq {"I2C", "SPI"}
    /\ Chunk \in Nat \ {0} /\ MaxLen \in Nat \ {0}
    /\ MaxPkts \in Nat /\ MaxEarly \in Nat

VARIABLES
    type,      \* cif->type
    app,       \* how the application behaves, see below
    rxbufs,    \* packets of the VM for this interface
    advancing, \* coremodel_advance_if is in its loop
    busy,      \* cif->busy
    offs,      \* cif->offs
    trnidx,    \* cif->trnidx
    \* history
    npkts,     \* packets the VM has sent
    asked,     \* those that require an answer
    answers,   \* the answers: transaction index and bytes of data
    early,     \* the indices of the unsolicited read data
    took       \* bytes of each packet the application has taken or produced

vars == <<type, app, rxbufs, advancing, busy, offs, trnidx, npkts, asked, answers,
          early, took>>
kind == <<type, app>>
vmvars == <<npkts, asked, early>>

(* An eager application takes all it is offered and never stalls; a slow one *)
(* takes parts and stalls; a fickle one may also refuse the rest of a write *)
(* it has taken a part of.                                                  *)
Apps == {"eager", "slow", "fickle"}

Init ==
    /\ type \in Types
    /\ app \in Apps
    /\ rxbufs = <<>>
    /\ advancing = FALSE
    /\ busy = FALSE
    /\ offs = 0
    /\ trnidx = 0
    /\ npkts = 0
    /\ asked = <<>>
    /\ answers = <<>>
    /\ early = <<>>
    /\ took = [id \in 1..MaxPkts |-> 0]

-----------------------------------------------------------------------------
(* What the VM may send next: reads and SPI transfers are always answered,  *)
(* starts and writes when the VM asks for it.                               *)
Kinds == {"START", "WRITE", "READ", "STOP", "CS", "XFR"}
Requests ==
    {p \in [pkt : Kinds, id : {npkts + 1}, len : 0..MaxLen, done : BOOLEAN] :
        /\ p.pkt \in {"CS", "XFR"} <=> type = "SPI"
        /\ p.pkt \in {"WRITE", "READ", "XFR"} <=> p.len > 0
        /\ p.pkt \in {"READ", "XFR"} => p.done
        /\ p.pkt \in {"STOP", "CS"} => ~p.done}

(* A packet of the VM: coremodel_process_packet queues it and advances.     *)
VMSend ==
    /\ ~advancing
    /\ npkts < MaxPkts
    /\ npkts' = npkts + 1
    /\ \E p \in Requests :
         /\ rxbufs' = Append(rxbufs, p)
         /\ asked' = IF p.done THEN Append(asked, p.id) ELSE asked
    /\ advancing' = TRUE
    /\ UNCHANGED <<kind, busy, offs, trnidx, answers, early, took>>

-----------------------------------------------------------------------------
(* One turn of coremodel_advance_if with the oldest packet.                 *)
First(pkts) == advancing /\ rxbufs # <<>> /\ rxbufs[1].pkt \in pkts /\ ~busy
Oldest == rxbufs[1]
Free == rxbufs' = Tail(rxbufs)

(* The answer to a read or an SPI transfer carries len bytes of rdbuf.      *)
AnswerTo(p) == [id |-> p.id, len |-> IF p.pkt \in {"READ", "XFR"} THEN p.len ELSE 0]
Answer(p) == answers' = IF p.done THEN Append(answers, AnswerTo(p)) ELSE answers

AdvanceEnd ==
    /\ advancing
    /\ rxbufs = <<>> \/ busy
    /\ advancing' = FALSE
    /\ UNCHANGED <<kind, rxbufs, busy, offs, trnidx, answers, took, vmvars>>

(* START and STOP on I2C, chip select on SPI: taken at once.  A start is    *)
(* accepted or refused, and the answer tells which.                         *)
AdvanceEdge ==
    /\ First({"START", "STOP", "CS"})
    /\ trnidx' = IF type = "I2C" THEN Oldest.id ELSE trnidx
    /\ Answer(Oldest)
    /\ Free
    /\ UNCHANGED <<kind, advancing, busy, offs, took, vmvars>>

(* A callback that returns 0 stalls the interface; the packet stays.        *)
AdvanceStall ==
    /\ First({"START", "WRITE", "READ", "XFR"})
    /\ app # "eager"
    /\ trnidx' = Oldest.id
    /\ busy' = TRUE
    /\ advancing' = FALSE
    /\ UNCHANGED <<kind, rxbufs, offs, answers, took, vmvars>>

(* What a data callback is offered: len - offs bytes, a number that is      *)
(* unsigned, but never more than Chunk on SPI.                              *)
Rest == IF offs <= Oldest.len THEN Oldest.len - offs ELSE MaxLen
Offered == IF type = "SPI" /\ Rest > Chunk THEN Chunk ELSE Rest
Takes == IF app = "eager" THEN {Offered} \ {0} ELSE 1..Offered

(* Mutant: a packet of which a part was taken is answered.                  *)
AdvanceDataShort ==
    /\ First({"WRITE", "READ", "XFR"})
    /\ trnidx' = Oldest.id
    /\ \E n \in Takes : took' = [took EXCEPT ![Oldest.id] = @ + n]
    /\ offs' = 0
    /\ Answer(Oldest)
    /\ Free
    /\ UNCHANGED <<kind, advancing, busy, vmvars>>

(* Mutant: the loop does not mark the place it left off.                    *)
AdvanceDataForgets ==
    /\ First({"WRITE", "READ", "XFR"})
    /\ trnidx' = Oldest.id
    /\ \E n \in Takes :
         /\ took' = [took EXCEPT ![Oldest.id] = @ + n]
         /\ offs' = 0
         /\ IF offs + n < Oldest.len
              THEN /\ advancing' = FALSE
                   /\ UNCHANGED <<rxbufs, answers>>
              ELSE /\ Answer(Oldest)
                   /\ Free
                   /\ UNCHANGED advancing
    /\ UNCHANGED <<kind, busy, vmvars>>

(* The callback took, or produced, n bytes.  With a part of the packet left *)
(* the loop ends; otherwise the packet is answered.                         *)
AdvanceData ==
    /\ First({"WRITE", "READ", "XFR"})
    /\ trnidx' = Oldest.id
    /\ \E n \in Takes :
         /\ took' = [took EXCEPT ![Oldest.id] = @ + n]
         /\ IF offs + n < Oldest.len
              THEN /\ offs' = offs + n
                   /\ advancing' = FALSE
                   /\ UNCHANGED <<rxbufs, answers>>
              ELSE /\ offs' = 0
                   /\ Answer(Oldest)
                   /\ Free
                   /\ UNCHANGED advancing
    /\ UNCHANGED <<kind, busy, vmvars>>

(* Mutant: a refusal is left without its answer.                            *)
AdvanceNakSilent ==
    /\ First({"WRITE"})
    /\ offs > 0 => app = "fickle"
    /\ trnidx' = Oldest.id
    /\ Free
    /\ UNCHANGED <<kind, advancing, busy, offs, answers, took, vmvars>>

(* A write is refused: answered at once, freed, and offs stays as it is.    *)
AdvanceNak ==
    /\ First({"WRITE"})
    /\ offs > 0 => app = "fickle"
    /\ trnidx' = Oldest.id
    /\ Answer(Oldest)
    /\ Free
    /\ UNCHANGED <<kind, advancing, busy, offs, took, vmvars>>

(* Mutant: the interface stays stalled.                                     *)
ReadyIgnored ==
    /\ ~advancing
    /\ busy \/ (offs > 0 /\ rxbufs # <<>> /\ app # "eager")
    /\ advancing' = TRUE
    /\ UNCHANGED <<kind, busy, rxbufs, offs, trnidx, answers, took, vmvars>>

(* coremodel_i2c_ready, coremodel_spi_ready: the application un-stalls, or  *)
(* asks for the rest of a packet it took in part.                           *)
Ready ==
    /\ ~advancing
    /\ busy \/ (offs > 0 /\ rxbufs # <<>> /\ app # "eager")
    /\ busy' = FALSE
    /\ advancing' = TRUE
    /\ UNCHANGED <<kind, rxbufs, offs, trnidx, answers, took, vmvars>>

(* coremodel_i2c_push_read, from a callback or a thread: read data ahead of *)
(* the request, under the index of the packet in hand.                      *)
PushRead ==
    /\ type = "I2C"
    /\ Len(early) < MaxEarly
    /\ early' = Append(early, trnidx)
    /\ UNCHANGED <<kind, rxbufs, advancing, busy, offs, trnidx, npkts, asked, answers, took>>

-----------------------------------------------------------------------------
Advance == AdvanceEnd \/ AdvanceEdge \/ AdvanceStall \/ AdvanceData \/ AdvanceNak

Next == VMSend \/ Advance \/ Ready \/ PushRead

(* The loop runs on, and the application un-stalls what it has stalled.     *)
(* An interface is not stalled for ever at the same packet.                 *)
Spec ==
    /\ Init /\ [][Next]_vars
    /\ WF_vars(Advance) /\ WF_vars(Ready)
    /\ SF_vars(AdvanceEdge) /\ SF_vars(AdvanceData)
-----------------------------------------------------------------------------
(* Every variable has its type, and the loop rests on an empty queue, at a  *)
(* packet that stalled, or at one that was taken in part.                   *)
TypeOK ==
    /\ type \in Types
    /\ app \in Apps
    /\ rxbufs \in Seq([pkt : Kinds, id : 1..MaxPkts, len : 0..MaxLen, done : BOOLEAN])
    /\ advancing \in BOOLEAN
    /\ busy \in BOOLEAN
    /\ offs \in 0..MaxLen
    /\ ~advancing /\ rxbufs # <<>> => busy \/ offs > 0
    /\ trnidx \in 0..npkts
    /\ npkts \in 0..MaxPkts
    /\ asked \in Seq(1..MaxPkts)
    /\ answers \in Seq([id : 1..MaxPkts, len : 0..MaxLen])
    /\ early \in Seq(0..MaxPkts)
    /\ took \in [1..MaxPkts -> Nat]

(* Each packet that requires an answer gets exactly one, in the order the   *)
(* VM sent them and under its own index, whatever stalls, parts and         *)
(* refusals lie between: those answered are the first it has asked for,     *)
(* those queued are the others, in their order.                             *)
Waiting == {i \in 1..Len(rxbufs) : rxbufs[i].done}
AnsweredInOrder ==
    /\ Len(answers) <= Len(asked)
    /\ \A i \in 1..Len(answers) : answers[i].id = asked[i]
    /\ {rxbufs[i].id : i \in Waiting} = {asked[i] : i \in (Len(answers) + 1)..Len(asked)}
    /\ \A i, j \in Waiting : i < j => rxbufs[i].id < rxbufs[j].id

(* offs is the part of the first packet the application has had, so no byte *)
(* is offered twice or passed over and each packet begins at its first; and *)
(* every byte of an answer was produced for it, none is left from another.  *)
(* (A refusal in the middle of a write leaves offs behind: "fickle".)       *)
PartKept ==
    app # "fickle" =>
        /\ offs = IF rxbufs = <<>> THEN 0 ELSE took[Oldest.id]
        /\ \A i \in 1..Len(answers) :
             answers[i].len > 0 => took[answers[i].id] = answers[i].len

(* Every request is answered in the end, if the application un-stalls what  *)
(* it stalls, asks for the rest of what it took in part, and refuses a      *)
(* write at its beginning or not at all.                                    *)
AllAnswered ==
    \A n \in 1..MaxPkts :
        Len(asked) >= n /\ (app = "slow" \/ (app = "eager" /\ type = "I2C"))
            ~> Len(answers) >= n

(* An application that takes all it is offered and never stalls has nothing *)
(* to un-stall: every request is answered without coremodel_*_ready.        *)
EagerAnswered ==
    \A n \in 1..MaxPkts : Len(asked) >= n /\ app = "eager" ~> Len(answers) >= n
=============================================================================
