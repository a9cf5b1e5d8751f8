------------------------------- MODULE CanIf -------------------------------
(***************************************************************************)
(* The CAN interface of coremodel.c.  Frames of the VM go to the tx        *)
(* callback, which acknowledges, refuses or stalls; frames of the          *)
(* application go to the VM one at a time, each completed by the VM's      *)
(* acknowledgement, in a callback that may send the next one at once.  A   *)
(* frame that stalls is passed over, so that acknowledgements behind it    *)
(* get through.                                                            *)
(*                                                                         *)
(* coremodel_advance_if() runs with the mutex held, one packet per step:   *)
(* "cur" is its place in rxbufs.  Frames are numbered from 1 in each       *)
(* direction.                                                              *)
(***************************************************************************)
EXTENDS Naturals, Sequences, SequencesExt

CONSTANTS
    IdxMod,  \* transaction indices count modulo this (256)
    MaxTx,   \* bound: frames of the VM
    MaxRx    \* bound: frames of the application

ASSUME CanIfAssumption == IdxMod \in Nat \ {0} /\ MaxTx \in Nat /\ MaxRx \in Nat

VARIABLES
    rxbufs,  \* packets of the VM for this interface
    cur,     \* place of coremodel_advance_if in rxbufs, 0 when it does not run
    busy,    \* cif->busy: the tx callback stalled
    ebusy,   \* cif->ebusy: a frame of the application is not acknowledged
    trnidx,  \* cif->trnidx
    \* the VM
    ntx,     \* frames it has sent
    onbus,   \* transaction indices of the frames it has not acknowledged
    \* history
    acked,   \* frames of the VM answered with PKT_CAN_TX_ACK
    nrx,     \* frames coremodel_can_rx has accepted
    ndone    \* calls of rxcomplete

vars == <<rxbufs, cur, busy, ebusy, trnidx, ntx, onbus, acked, nrx, ndone>>
rxvars == <<ebusy, trnidx, onbus, nrx, ndone>>

Tx(n) == [pkt |-> "TX", n |-> n]
RxAck(idx) == [pkt |-> "RX_ACK", n |-> idx]

Init ==
    /\ rxbufs = <<>>
    /\ cur = 0
    /\ busy = FALSE
    /\ ebusy = FALSE
    /\ trnidx = 0
    /\ ntx = 0
    /\ onbus = <<>>
    /\ acked = <<>>
    /\ nrx = 0
    /\ ndone = 0

-----------------------------------------------------------------------------
(* A packet of the VM: coremodel_process_packet queues it and advances.     *)
Receive(p) ==
    /\ cur = 0
    /\ rxbufs' = Append(rxbufs, p)
    /\ cur' = 1

VMTx ==
    /\ ntx < MaxTx
    /\ Receive(Tx(ntx + 1))
    /\ ntx' = ntx + 1
    /\ UNCHANGED <<busy, ebusy, trnidx, onbus, acked, nrx, ndone>>

VMAck ==
    /\ onbus # <<>>
    /\ Receive(RxAck(Head(onbus)))
    /\ onbus' = Tail(onbus)
    /\ UNCHANGED <<busy, ebusy, trnidx, ntx, acked, nrx, ndone>>

-----------------------------------------------------------------------------
At(pkt) == cur \in 1..Len(rxbufs) /\ rxbufs[cur].pkt = pkt
Free == cur' = 1 /\ rxbufs' = RemoveAt(rxbufs, cur)

AdvanceEnd ==
    /\ cur > Len(rxbufs)
    /\ cur' = 0
    /\ UNCHANGED <<rxbufs, busy, ntx, acked, rxvars>>

(* Mutant: a stalled frame holds up what is behind it.                      *)
TxBlocks ==
    /\ At("TX") /\ busy
    /\ cur' = 0
    /\ UNCHANGED <<rxbufs, busy, ntx, acked, rxvars>>

(* While the interface is stalled its frames are passed over.               *)
TxBehind ==
    /\ At("TX") /\ busy
    /\ cur' = cur + 1
    /\ UNCHANGED <<rxbufs, busy, ntx, acked, rxvars>>

(* Mutant: the frame that stalls is passed over, but nothing is marked.     *)
TxStallUnmarked ==
    /\ At("TX") /\ ~busy
    /\ cur' = cur + 1
    /\ UNCHANGED <<rxbufs, busy, ntx, acked, rxvars>>

(* CAN_STALL ends the loop.                                                 *)
TxStall ==
    /\ At("TX") /\ ~busy
    /\ busy' = TRUE
    /\ cur' = 0
    /\ UNCHANGED <<rxbufs, ntx, acked, rxvars>>

(* CAN_ACK or CAN_NAK: answered and freed.                                  *)
TxDone ==
    /\ At("TX") /\ ~busy
    /\ acked' = Append(acked, rxbufs[cur].n)
    /\ Free
    /\ UNCHANGED <<busy, ntx, rxvars>>

(* An acknowledgement under the current index completes the application's   *)
(* frame; another is freed unused.                                          *)
RxComplete ==
    /\ At("RX_ACK")
    /\ IF rxbufs[cur].n = trnidx
         THEN /\ ebusy' = FALSE
              /\ ndone' = ndone + 1
         ELSE UNCHANGED <<ebusy, ndone>>
    /\ Free
    /\ UNCHANGED <<busy, ntx, acked, trnidx, onbus, nrx>>

-----------------------------------------------------------------------------
(* coremodel_can_rx, in a callback ("loop") or in a thread that needs the   *)
(* mutex ("app").                                                           *)
CanLock(s) == s = "loop" \/ cur = 0

(* Mutant: the frame in progress is not asked about.                        *)
CanRxUnchecked(s) ==
    /\ CanLock(s)
    /\ nrx < MaxRx
    /\ nrx' = nrx + 1
    /\ trnidx' = (trnidx + 1) % IdxMod
    /\ onbus' = Append(onbus, trnidx')
    /\ ebusy' = TRUE
    /\ UNCHANGED <<rxbufs, cur, busy, ntx, acked, ndone>>

CanRx(s) ==
    /\ CanLock(s)
    /\ ~ebusy
    /\ nrx < MaxRx
    /\ nrx' = nrx + 1
    /\ trnidx' = (trnidx + 1) % IdxMod
    /\ onbus' = Append(onbus, trnidx')
    /\ ebusy' = TRUE
    /\ UNCHANGED <<rxbufs, cur, busy, ntx, acked, ndone>>


(* coremodel_can_ready.                                                     *)
Ready ==
    /\ cur = 0
    /\ busy
    /\ busy' = FALSE
    /\ cur' = 1
    /\ UNCHANGED <<rxbufs, ntx, acked, rxvars>>

-----------------------------------------------------------------------------
Advance == AdvanceEnd \/ TxBehind \/ TxStall \/ TxDone \/ RxComplete

Next ==
    \/ VMTx \/ VMAck
    \/ Advance \/ Ready
    \/ \E s \in {"loop", "app"} : CanRx(s)

(* The loop runs on and the VM acknowledges (its packets come in whenever   *)
(* the mutex is free again and again); the application un-stalls.           *)
Spec ==
    /\ Init /\ [][Next]_vars
    /\ WF_vars(Advance) /\ WF_vars(Ready) /\ SF_vars(VMAck)
-----------------------------------------------------------------------------
(* Every variable has its type, and at rest only frames behind a stall are  *)
(* queued.                                                                  *)
TypeOK ==
    /\ rxbufs \in Seq([pkt : {"TX", "RX_ACK"}, n : Nat])
    /\ cur \in 0..(Len(rxbufs) + 1)
    /\ busy \in BOOLEAN
    /\ ebusy \in BOOLEAN
    /\ trnidx \in 0..(IdxMod - 1)
    /\ ntx \in 0..MaxTx
    /\ onbus \in Seq(0..(IdxMod - 1))
    /\ acked \in Seq(1..MaxTx)
    /\ nrx \in 0..MaxRx
    /\ ndone \in 0..MaxRx
    /\ cur = 0 /\ rxbufs # <<>> => busy

(* The VM's frames are answered in order, each once, though the loop passes *)
(* over some: those answered are its first, those queued are the others, in *)
(* their order.                                                             *)
Frames == {i \in DOMAIN rxbufs : rxbufs[i].pkt = "TX"}
TxInOrder ==
    /\ Len(acked) <= ntx /\ \A n \in 1..Len(acked) : acked[n] = n
    /\ {rxbufs[i].n : i \in Frames} = (Len(acked) + 1)..ntx
    /\ \A i, j \in Frames : i < j => rxbufs[i].n < rxbufs[j].n

(* One frame of the application is under way at most: with the VM, or in an *)
(* acknowledgement that is not processed.  Exactly then is the interface    *)
(* busy, it is the one frame that rxcomplete has not been called for, and   *)
(* it goes under the current index: no acknowledgement is ever taken for    *)
(* another's, or freed unused, though indices come round.                   *)
Acks == {i \in DOMAIN rxbufs : rxbufs[i].pkt = "RX_ACK"}
RxOneAtATime ==
    /\ nrx = ndone + (IF ebusy THEN 1 ELSE 0)
    /\ \/ ~ebusy /\ onbus = <<>> /\ Acks = {}
       \/ ebusy /\ onbus = <<trnidx>> /\ Acks = {}
       \/ ebusy /\ onbus = <<>> /\ \E i \in Acks : Acks = {i} /\ rxbufs[i].n = trnidx

(* A frame of the application is completed, even if the application stalls  *)
(* the other direction for ever.                                            *)
RxCompletes == \A n \in 1..MaxRx : nrx >= n ~> ndone >= n

(* A frame of the VM is answered, if the application does not stall it for  *)
(* ever.                                                                    *)
TxAnswered == SF_vars(TxDone) => \A n \in 1..MaxTx : ntx >= n ~> Len(acked) >= n

(* Both: the frames of each direction end, neither held up by the other.    *)
BothServed == RxCompletes /\ TxAnswered
=============================================================================
