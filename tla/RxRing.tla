------------------------------- MODULE RxRing -------------------------------
(***************************************************************************)
(* The receive ring of coremodel.c: coremodel_processfds() reads the       *)
(* socket into rxq, and coremodel_process_rxq() cuts the bytes into        *)
(* packets.  Reads may end anywhere, packets may wrap around the end of    *)
(* the ring, the two counters are unsigned and wrap, a packet above        *)
(* MAX_PKT is stepped over, and a packet for which no memory is left stays *)
(* in the ring for the next round.                                         *)
(*                                                                         *)
(* A byte is a record of the packet it belongs to, its place in it, and    *)
(* the length field the packet carries (which the code reads in the first  *)
(* word; nothing else of a packet is looked at here).                      *)
(***************************************************************************)
EXTENDS Integers, Sequences

CONSTANTS
    RxBuf,    \* RX_BUF
    CtrMod,   \* rxqwp and rxqrp count modulo this (2^32 in the code)
    Word,     \* packets are padded to a multiple of this (4)
    Hdr,      \* bytes of a packet header (8)
    MaxPkt,   \* MAX_PKT
    Lens,     \* the lengths of the packets the VM sends
    MaxSent,  \* bound: packets the VM sends
    MaxFail   \* bound: allocations that fail

Padded(len) == ((len + Word - 1) \div Word) * Word

(* A packet longer than the ring would never be complete: the VM sends none. *)
ASSUME RxRingAssumption ==
    /\ RxBuf \in Nat \ {0} /\ CtrMod \in Nat \ {0} /\ Word \in Nat \ {0}
    /\ RxBuf % Word = 0
    /\ CtrMod % RxBuf = 0 /\ CtrMod > RxBuf
    /\ Hdr \in Nat \ {0} /\ Hdr <= RxBuf
    /\ MaxPkt \in Nat
    /\ Lens \subseteq Hdr..RxBuf
    /\ MaxSent \in Nat /\ MaxFail \in Nat

VARIABLES
    rxq,      \* the ring
    rxqwp,    \* bytes written to it, modulo CtrMod
    rxqrp,    \* bytes taken from it, modulo CtrMod
    phase,    \* where coremodel_processfds is
    fails,    \* allocations that have failed
    \* the VM and the socket
    packets,  \* packets sent: their lengths
    stream,   \* the bytes that have arrived at the socket
    nread,    \* how many of them have been read
    \* history
    handed,   \* the packets given to coremodel_process_packet
    skipped   \* how many were stepped over

ringvars == <<rxq, rxqwp, rxqrp>>
netvars == <<packets, stream>>
vars == <<rxq, rxqwp, rxqrp, phase, fails, packets, stream, nread, handed, skipped>>

Least(a, b) == IF a <= b THEN a ELSE b

Byte(id, k, len) == [id |-> id, k |-> k, len |-> len]
NoByte == Byte(0, 0, 0)

(* What a packet is to coremodel_process_packet: its first len bytes.       *)
Body(id, len) == [k \in 1..len |-> Byte(id, k, len)]

Init ==
    /\ rxq = [i \in 0..(RxBuf - 1) |-> NoByte]
    /\ rxqwp = 0
    /\ rxqrp = 0
    /\ phase = "idle"
    /\ fails = 0
    /\ packets = <<>>
    /\ stream = <<>>
    /\ nread = 0
    /\ handed = <<>>
    /\ skipped = 0

(* rxqwp - rxqrp, in the arithmetic of the counters.                        *)
Fill == (rxqwp - rxqrp) % CtrMod

-----------------------------------------------------------------------------
(* The bytes of a packet arrive in their order, in pieces of any size.      *)
Have ==
    IF stream # <<>> /\ stream[Len(stream)].id = Len(packets)
      THEN stream[Len(stream)].k ELSE 0
Left == IF packets = <<>> THEN 0 ELSE Padded(packets[Len(packets)]) - Have

VMSend ==
    /\ Left = 0
    /\ Len(packets) < MaxSent
    /\ \E len \in Lens : packets' = Append(packets, len)
    /\ UNCHANGED <<ringvars, phase, fails, stream, nread, handed, skipped>>

Arrive ==
    LET id == Len(packets)
    IN  \E n \in 1..Left :
          /\ stream' = stream \o [j \in 1..n |-> Byte(id, Have + j, packets[id])]
          /\ UNCHANGED <<ringvars, phase, fails, packets, nread, handed, skipped>>

-----------------------------------------------------------------------------
(* A round begins.  The socket is in readfds only if the ring has room; the *)
(* round may also be due to the pipe, to room for writing, or to time.      *)
ProcessFds ==
    /\ phase = "idle"
    /\ phase' = IF Fill < RxBuf /\ nread < Len(stream) THEN "read" ELSE "frame"
    /\ UNCHANGED <<ringvars, fails, netvars, nread, handed, skipped>>

(* Mutant: the end of the ring does not stop the read.                      *)
ReadStepUnclamped == RxBuf - Fill

(* Mutant: the read goes up to the end of the ring, free or not.            *)
ReadStepOverrun == RxBuf - (rxqwp % RxBuf)

(* read(2) into the free part of the ring, up to its end.                   *)
ReadStep == Least(RxBuf - Fill, RxBuf - (rxqwp % RxBuf))

Read ==
    LET n == Least(ReadStep, Len(stream) - nread)
        offs == rxqwp % RxBuf
    IN  /\ phase = "read"
        /\ n > 0
        /\ rxq' = [i \in 0..(RxBuf - 1) |->
                     IF i \in offs..(offs + n - 1) THEN stream[nread + 1 + i - offs]
                                                   ELSE rxq[i]]
        /\ rxqwp' = (rxqwp + n) % CtrMod
        /\ nread' = nread + n
        /\ UNCHANGED <<rxqrp, phase, fails, netvars, handed, skipped>>

(* The ring is full, or the socket has nothing more: EAGAIN.                *)
ReadEnd ==
    /\ phase = "read"
    /\ ReadStep = 0 \/ nread = Len(stream)
    /\ phase' = "frame"
    /\ UNCHANGED <<ringvars, fails, netvars, nread, handed, skipped>>

-----------------------------------------------------------------------------
(* coremodel_process_rxq, one turn of its loop per action.                  *)
Offs == rxqrp % RxBuf
PktLen == rxq[Offs].len
DLen == Padded(PktLen)
Complete == Fill >= Hdr /\ Fill >= DLen

(* Mutant: the second part starts one byte too far.                         *)
GatherShifted ==
    LET step == RxBuf - Offs
    IN  [j \in 1..DLen |-> IF j <= step THEN rxq[Offs + j - 1] ELSE rxq[j - step]]

(* The dlen bytes at rxqrp, in two parts when they reach the ring's end.    *)
Gather ==
    LET step == RxBuf - Offs
    IN  [j \in 1..DLen |-> IF j <= step THEN rxq[Offs + j - 1] ELSE rxq[j - step - 1]]

FrameEnd ==
    /\ phase = "frame"
    /\ ~Complete
    /\ phase' = "idle"
    /\ UNCHANGED <<ringvars, fails, netvars, nread, handed, skipped>>


FrameSkip ==
    /\ phase = "frame"
    /\ Complete
    /\ DLen > MaxPkt
    /\ rxqrp' = (rxqrp + DLen) % CtrMod
    /\ skipped' = skipped + 1
    /\ UNCHANGED <<rxq, rxqwp, phase, fails, netvars, nread, handed>>

(* coremodel_process_packet takes a copy of len bytes.                      *)
FrameTake ==
    /\ phase = "frame"
    /\ Complete
    /\ DLen <= MaxPkt
    /\ handed' = Append(handed, SubSeq(Gather, 1, PktLen))
    /\ rxqrp' = (rxqrp + DLen) % CtrMod
    /\ UNCHANGED <<rxq, rxqwp, phase, fails, netvars, nread, skipped>>

(* It returns 1 when it cannot allocate: the loop ends, rxqrp stays.        *)
FrameFail ==
    /\ phase = "frame"
    /\ Complete
    /\ DLen <= MaxPkt
    /\ fails < MaxFail
    /\ fails' = fails + 1
    /\ phase' = "idle"
    /\ UNCHANGED <<ringvars, netvars, nread, handed, skipped>>

-----------------------------------------------------------------------------
Process == ProcessFds \/ Read \/ ReadEnd \/ FrameEnd \/ FrameSkip \/ FrameTake \/ FrameFail

Next == VMSend \/ Arrive \/ Process

(* Rounds go on (a timed main loop or the pipe starts one even when nothing *)
(* arrives), and what the VM has sent arrives.                              *)
Spec == Init /\ [][Next]_vars /\ WF_vars(Arrive) /\ WF_vars(Process)

-----------------------------------------------------------------------------
Bytes == [id : 0..MaxSent, k : 0..RxBuf, len : Lens \cup {0}]

(* Every variable has its type, and the ring is never filled past the       *)
(* reader: rxqwp - rxqrp stays within RX_BUF whatever the counters' wrap.   *)
TypeOK ==
    /\ rxq \in [0..(RxBuf - 1) -> Bytes]
    /\ rxqwp \in 0..(CtrMod - 1)
    /\ rxqrp \in 0..(CtrMod - 1)
    /\ Fill <= RxBuf
    /\ phase \in {"idle", "read", "frame"}
    /\ fails \in 0..MaxFail
    /\ packets \in Seq(Lens) /\ Len(packets) <= MaxSent
    /\ stream \in Seq(Bytes)
    /\ nread \in 0..Len(stream)
    /\ handed \in Seq(Seq(Bytes))
    /\ skipped \in 0..MaxSent

(* coremodel_process_rxq reads a length only where a packet starts, and at  *)
(* a multiple of the alignment (so the branch for a length field split by   *)
(* the end of the ring, rxqrp == RX_BUF - 1, is never taken).               *)
Framed ==
    /\ Fill > 0 => rxq[Offs].k = 1
    /\ rxqrp % Word = 0

(* The part of the ring between the counters is the last Fill bytes read    *)
(* from the socket, in order, across the ring's end and the counters' wrap, *)
(* and it starts where a packet does.                                       *)
RingIsWindow ==
    /\ Fill <= nread
    /\ \A i \in 0..(Fill - 1) :
         rxq[(rxqrp + i) % RxBuf] = stream[nread - Fill + 1 + i]
    /\ Framed

(* What the VM has sent, as PacketFifo sees it.                             *)
Sent == [i \in 1..Len(packets) |-> Body(i, packets[i])]

(* The ring behaves as PacketFifo: each packet is handed over whole, once   *)
(* and in order, those above MAX_PKT excepted, and none waits for ever,     *)
(* failed allocations notwithstanding.                                      *)
Fifo == INSTANCE PacketFifo WITH
    Packets <- {Body(id, len) : id \in 1..MaxSent, len \in Lens},
    Oversize <- LAMBDA p : Padded(Len(p)) > MaxPkt,
    sent <- Sent,
    done <- Len(handed) + skipped,
    got <- handed
IsPacketFifo == Fifo!Spec
=============================================================================
