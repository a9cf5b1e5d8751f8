------------------------------ MODULE StreamIf ------------------------------
(***************************************************************************)
(* The stream interfaces of coremodel.c, UART and Ethernet: bytes of the   *)
(* VM go to the tx callback, which may take them in parts or stall; data   *)
(* of the application goes to the VM within the credits it has granted.    *)
(*                                                                         *)
(* coremodel_advance_if() runs with the mutex held, one turn of its loop   *)
(* per step: "advancing".  Callbacks of the application run inside a turn  *)
(* and may send; another thread may send when the mutex is free.  The VM   *)
(* numbers what it says, bytes and BREAKs alike, from 1, and so the        *)
(* credits it grants.                                                      *)
(***************************************************************************)
EXTENDS Integers, Sequences, SequencesExt

CONSTANTS
    Types,       \* cif->type: a subset of {"UART", "ETH"}
    UartSenders, \* who sends: "loop" (a callback, or between rounds), "app" (a thread)
    EthSenders,
    Window,      \* the credits granted on connection
    CredMod,     \* cred is unsigned and counts modulo this (2^32 in the code)
    MaxLen,      \* bound: bytes of a packet of the VM
    MaxSaid,     \* bound: bytes and BREAKs of the VM
    MaxUsed      \* bound: credits the application uses

ASSUME StreamIfAssumption ==
    /\ Types \subseteq {"UART", "ETH"}
    /\ UartSenders \subseteq {"loop", "app"}
    /\ EthSenders \subseteq {"loop", "app"}
    /\ Window \in Nat /\ CredMod \in Nat /\ Window < CredMod
    /\ MaxLen \in Nat /\ MaxSaid \in Nat /\ MaxUsed \in Nat

VARIABLES
    type,      \* cif->type
    stalls,    \* whether the application's tx callback may return 0
    rxbufs,    \* packets of the VM for this interface
    advancing, \* coremodel_advance_if is in its loop
    cred,      \* cif->cred
    busy,      \* cif->busy
    offs,      \* cif->offs
    checked,   \* senders past the unlocked test of coremodel_eth_rx
    \* the application
    heard,     \* what its callbacks were given
    waiting,   \* coremodel_*_rx found no credit and rxrdy has not been called since
    \* the VM
    said,      \* how much it has said
    granted,   \* credits granted in all
    used       \* credits' worth of data sent to it

vars == <<type, stalls, rxbufs, advancing, cred, busy, offs, checked, heard, waiting, said,
          granted, used>>
kind == <<type, stalls>>
txvars == <<busy, offs, heard>>
rxvars == <<cred, checked, waiting, used>>

Tx(first, len) == [pkt |-> "TX", first |-> first, len |-> len]
RxAck(first, n) == [pkt |-> "RX_ACK", first |-> first, len |-> n]
Brk(first) == [pkt |-> "BRK", first |-> first, len |-> 1]

Init ==
    /\ type \in Types
    /\ stalls \in BOOLEAN
    /\ rxbufs = <<>>
    /\ advancing = FALSE
    /\ cred = Window
    /\ busy = FALSE
    /\ offs = 0
    /\ checked = {}
    /\ heard = <<>>
    /\ waiting = FALSE
    /\ said = 0
    /\ granted = Window
    /\ used = 0

-----------------------------------------------------------------------------
(* A packet of the VM: coremodel_process_packet queues it and advances.     *)
Receive(p) ==
    /\ ~advancing
    /\ rxbufs' = Append(rxbufs, p)
    /\ advancing' = TRUE
    /\ UNCHANGED <<kind, txvars, rxvars>>

VMSay ==
    /\ \/ \E len \in 1..MaxLen :
            /\ said + len <= MaxSaid
            /\ Receive(Tx(said + 1, len))
            /\ said' = said + len
       \/ /\ type = "UART"
          /\ said < MaxSaid
          /\ Receive(Brk(said + 1))
          /\ said' = said + 1
    /\ UNCHANGED granted

(* The VM has made room and returns credits.                                *)
VMGrant ==
    /\ \E n \in 1..(Window + used - granted) :
         /\ Receive(RxAck(granted + 1, n))
         /\ granted' = granted + n
    /\ UNCHANGED said

-----------------------------------------------------------------------------
(* One turn of coremodel_advance_if with the oldest packet.                 *)
First(pkt) == advancing /\ rxbufs # <<>> /\ rxbufs[1].pkt = pkt
Free == rxbufs' = Tail(rxbufs)
Numbers(first, n) == [j \in 1..n |-> first + j - 1]

(* Nothing is left, or a stalled interface has data first in line.          *)
AdvanceEnd ==
    /\ advancing
    /\ rxbufs = <<>> \/ (First("TX") /\ busy)
    /\ advancing' = FALSE
    /\ UNCHANGED <<kind, rxbufs, txvars, rxvars, said, granted>>

(* Mutant: offs is not cleared behind a packet taken in parts.              *)
TxPartStale(n) ==
    /\ offs' = offs + n
    /\ IF offs' < rxbufs[1].len
         THEN advancing' = FALSE /\ UNCHANGED rxbufs
         ELSE Free /\ UNCHANGED advancing

(* Mutant: a part taken by the callback is not remembered.                  *)
TxPartForgotten(n) ==
    IF offs + n < rxbufs[1].len
      THEN /\ offs' = 0
           /\ advancing' = FALSE
           /\ UNCHANGED rxbufs
      ELSE /\ offs' = 0
           /\ Free
           /\ UNCHANGED advancing

(* The callback took n > 0 bytes; with a part of the packet the loop ends.  *)
TxPart(n) ==
    IF offs + n < rxbufs[1].len
      THEN /\ offs' = offs + n
           /\ advancing' = FALSE
           /\ UNCHANGED rxbufs
      ELSE /\ offs' = 0
           /\ Free
           /\ UNCHANGED advancing

(* The callback is offered len - offs bytes, a number that is unsigned.  The *)
(* bytes it may take; those past the end of the packet are not the VM's: 0. *)
Takes == IF offs <= rxbufs[1].len THEN 1..(rxbufs[1].len - offs) ELSE 1..MaxLen
Taken(n) ==
    [j \in 1..n |-> IF offs + j <= rxbufs[1].len THEN rxbufs[1].first + offs + j - 1 ELSE 0]

AdvanceTx ==
    /\ First("TX") /\ ~busy
    /\ \E n \in Takes :
         /\ heard' = heard \o Taken(n)
         /\ TxPart(n)
    /\ UNCHANGED <<kind, busy, rxvars, said, granted>>

(* The callback took nothing: the interface is stalled, the switch is left  *)
(* with break, and the packet is freed.  (Offered nothing, it takes none.)  *)
AdvanceStall ==
    /\ First("TX") /\ ~busy
    /\ stalls
    /\ busy' = TRUE
    /\ Free
    /\ UNCHANGED <<kind, advancing, offs, heard, rxvars, said, granted>>

(* Mutant: rxrdy is called when credits are left, not when there were none. *)
AdvanceAckLate ==
    /\ First("RX_ACK")
    /\ cred' = (cred + rxbufs[1].len) % CredMod
    /\ waiting' = (waiting /\ cred = 0)
    /\ Free
    /\ UNCHANGED <<kind, advancing, txvars, checked, used, said, granted>>

(* Credits come back; rxrdy is called if there were none.                   *)
AdvanceAck ==
    /\ First("RX_ACK")
    /\ cred' = (cred + rxbufs[1].len) % CredMod
    /\ waiting' = (waiting /\ cred # 0)
    /\ Free
    /\ UNCHANGED <<kind, advancing, txvars, checked, used, said, granted>>

AdvanceBrk ==
    /\ First("BRK")
    /\ heard' = heard \o Numbers(rxbufs[1].first, 1)
    /\ Free
    /\ UNCHANGED <<kind, advancing, busy, offs, rxvars, said, granted>>


(* coremodel_uart_txrdy, coremodel_eth_ready: also the way to ask for the   *)
(* rest of a packet that was taken in part.  (eth_ready takes no mutex: in  *)
(* this model the loop's own thread calls it, between rounds.)              *)
TxReady ==
    /\ ~advancing
    /\ busy \/ (offs > 0 /\ rxbufs # <<>>)
    /\ busy' = FALSE
    /\ advancing' = TRUE
    /\ UNCHANGED <<kind, rxbufs, offs, heard, rxvars, said, granted>>

-----------------------------------------------------------------------------
(* Sending.  A callback owns the mutex; a thread needs it free.             *)
CanLock(s) == s = "loop" \/ ~advancing

(* Mutant: a send may go one credit over.                                   *)
GrantedTo(n) == Min({n, cred + 1})

(* What coremodel_uart_rx accepts of n bytes.                               *)
Accepted(n) == Min({n, cred})

UartRx(s) ==
    /\ type = "UART" /\ s \in UartSenders
    /\ CanLock(s)
    /\ IF cred = 0
         THEN /\ waiting' = TRUE
              /\ UNCHANGED <<cred, used>>
         ELSE \E n \in 1..MaxLen :
                /\ used + Accepted(n) <= MaxUsed
                /\ used' = used + Accepted(n)
                /\ cred' = (cred - Accepted(n)) % CredMod
                /\ UNCHANGED waiting
    /\ UNCHANGED <<kind, rxbufs, advancing, txvars, checked, said, granted>>

(* coremodel_eth_rx looks at the credits before it takes the mutex...       *)
EthRxCheck(s) ==
    /\ type = "ETH" /\ s \in EthSenders \ checked
    /\ IF cred = 0
         THEN /\ waiting' = TRUE
              /\ UNCHANGED checked
         ELSE /\ used < MaxUsed
              /\ checked' = checked \cup {s}
              /\ UNCHANGED waiting
    /\ UNCHANGED <<kind, rxbufs, advancing, cred, txvars, used, said, granted>>

(* ... and sends one packet for one credit.                                 *)
EthRxPush(s) ==
    /\ s \in checked
    /\ CanLock(s)
    /\ checked' = checked \ {s}
    /\ used' = used + 1
    /\ cred' = (cred - 1) % CredMod
    /\ UNCHANGED <<kind, rxbufs, advancing, waiting, txvars, said, granted>>

-----------------------------------------------------------------------------
Advance == AdvanceEnd \/ AdvanceTx \/ AdvanceStall \/ AdvanceAck \/ AdvanceBrk

Next ==
    \/ VMSay \/ VMGrant
    \/ Advance \/ TxReady
    \/ \E s \in {"loop", "app"} : UartRx(s) \/ EthRxCheck(s) \/ EthRxPush(s)

(* The loop runs on; the VM makes room; the application un-stalls what it   *)
(* stalled.                                                                 *)
Spec == Init /\ [][Next]_vars /\ WF_vars(Advance) /\ WF_vars(VMGrant) /\ WF_vars(TxReady)
-----------------------------------------------------------------------------
Packets ==
    [pkt : {"TX"}, first : 1..MaxSaid, len : 1..MaxLen]
      \cup [pkt : {"BRK"}, first : 1..MaxSaid, len : {1}]
      \cup [pkt : {"RX_ACK"}, first : 1..(Window + MaxUsed), len : 1..(Window + MaxUsed)]

(* Every variable has its type, and of a packet taken in part something is  *)
(* left to take.                                                            *)
TypeOK ==
    /\ type \in Types
    /\ stalls \in BOOLEAN
    /\ rxbufs \in Seq(Packets)
    /\ advancing \in BOOLEAN
    /\ cred \in 0..(CredMod - 1)
    /\ busy \in BOOLEAN
    /\ offs \in 0..MaxLen
    /\ ~stalls /\ offs > 0 => rxbufs # <<>> /\ offs < rxbufs[1].len
    /\ checked \subseteq {"loop", "app"}
    /\ heard \in Seq(0..MaxSaid)
    /\ waiting \in BOOLEAN
    /\ said \in 0..MaxSaid
    /\ granted \in Nat
    /\ used \in 0..MaxUsed

(* The callbacks are given what the VM said, every byte once and in order,  *)
(* BREAKs in their place; the rest is what is queued, less the part of the  *)
(* first packet that has been taken.                                        *)
HeldOf(i) ==
    IF rxbufs[i].pkt = "RX_ACK"
      THEN {}
      ELSE (rxbufs[i].first + (IF i = 1 THEN offs ELSE 0))..(rxbufs[i].first + rxbufs[i].len - 1)
StreamKept ==
    /\ heard = Numbers(1, Len(heard)) /\ Len(heard) <= said
    /\ UNION {HeldOf(i) : i \in 1..Len(rxbufs)} = (Len(heard) + 1)..said

(* That holds of an application that takes packets whole or in parts, but   *)
(* never stalls: a packet on which the callback stalls is freed.            *)
UnstalledStreamKept == ~stalls => StreamKept

(* Credits are neither made nor lost: of those the VM has granted, the      *)
(* first are used or left, and the others on their way back, so the VM is   *)
(* never sent more than it has room for.                                    *)
ReturnedBy(i) ==
    IF rxbufs[i].pkt = "RX_ACK"
      THEN rxbufs[i].first..(rxbufs[i].first + rxbufs[i].len - 1)
      ELSE {}
CreditsKept ==
    /\ cred + used <= granted
    /\ UNION {ReturnedBy(i) : i \in 1..Len(rxbufs)} = (cred + used + 1)..granted

(* Everything the VM says is heard, if the application asks for the rest of *)
(* what it took in part (and never stalls).                                 *)
AllHeard == \A n \in 1..MaxSaid : said >= n /\ ~stalls ~> Len(heard) >= n

(* "0 to signal stall of the Rx interface (CoreModel will call func->rxrdy  *)
(* to un-stall it)": the sender that found no credit is told of new ones.   *)
RxStallEnds == waiting ~> ~waiting

(* Both: neither direction is left waiting for the other.                   *)
Progress == AllHeard /\ RxStallEnds
=============================================================================
