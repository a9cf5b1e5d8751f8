------------------------------- MODULE UsbhIf -------------------------------
(***************************************************************************)
(* The USB host interface of coremodel.c.  The VM sends transfers for the  *)
(* pipes (an endpoint and a token) of a device the application plays.  A   *)
(* transfer the device is not ready for waits, and later ones for the same *)
(* pipe behind it, while other pipes go on; a bus reset cancels what was   *)
(* sent before it.                                                         *)
(*                                                                         *)
(* coremodel_advance_if() runs with the mutex held, one packet per step:   *)
(* "cur" is its place in rxbufs.  The VM numbers its packets from 1.       *)
(***************************************************************************)
EXTENDS Naturals, Sequences, SequencesExt

CONSTANTS
    Pipes,       \* the pairs of endpoint and token in use
    SetupPipes,  \* those whose token is SETUP
    MaxPkts      \* bound: packets of the VM

(* RESET has no pipe.                                                       *)
NoPipe == "none"

ASSUME UsbhIfAssumption ==
    SetupPipes \subseteq Pipes /\ NoPipe \notin Pipes /\ MaxPkts \in Nat

VARIABLES
    rxbufs,   \* packets of the VM for this interface
    cur,      \* place of coremodel_advance_if in rxbufs, 0 when it does not run
    busy,     \* cif->busy: a reset is sweeping the queue
    ebusy,    \* cif->ebusy: pipes whose first transfer waits for the device
    \* the application
    avail,    \* pipes the device is ready to serve
    tell,     \* pipes for which coremodel_usbh_ready is about to be called
    \* history
    npkts,    \* packets the VM has sent
    log,      \* answers to the VM and calls of rst, in order
    dropped   \* transfers cancelled by a reset

vars == <<rxbufs, cur, busy, ebusy, avail, tell, npkts, log, dropped>>

Packet(pkt, id, pipe) == [pkt |-> pkt, id |-> id, pipe |-> pipe]

Init ==
    /\ rxbufs = <<>>
    /\ cur = 0
    /\ busy = FALSE
    /\ ebusy = {}
    /\ avail = {}
    /\ tell = {}
    /\ npkts = 0
    /\ log = <<>>
    /\ dropped = {}

-----------------------------------------------------------------------------
(* A packet of the VM: coremodel_process_packet queues it and advances.     *)
VMSend ==
    /\ cur = 0
    /\ npkts < MaxPkts
    /\ npkts' = npkts + 1
    /\ \E p \in {Packet("RESET", npkts', NoPipe)} \cup {Packet("XFR", npkts', e) : e \in Pipes} :
         rxbufs' = Append(rxbufs, p)
    /\ cur' = 1
    /\ UNCHANGED <<busy, ebusy, avail, tell, log, dropped>>

-----------------------------------------------------------------------------
(* The packet the loop has come to, and the ways it goes on: over a packet  *)
(* that stays, from the front behind one that is freed.                     *)
At(pkt) == cur \in 1..Len(rxbufs) /\ rxbufs[cur].pkt = pkt
Here == rxbufs[cur]
Keep == cur' = cur + 1 /\ UNCHANGED rxbufs
Free == cur' = 1 /\ rxbufs' = RemoveAt(rxbufs, cur)

AdvanceEnd ==
    /\ cur > Len(rxbufs)
    /\ cur' = 0
    /\ UNCHANGED <<rxbufs, busy, ebusy, avail, tell, npkts, log, dropped>>

(* A reset is met first with busy clear: it sets it and starts the loop     *)
(* over, and each transfer before it is freed.                              *)
ResetBegin ==
    /\ At("RESET") /\ ~busy
    /\ busy' = TRUE
    /\ cur' = 1
    /\ UNCHANGED <<rxbufs, ebusy, avail, tell, npkts, log, dropped>>

(* Mutant: the sweep passes over the transfers.                             *)
XfrCancelSkips ==
    /\ At("XFR") /\ busy
    /\ Keep
    /\ UNCHANGED <<busy, ebusy, avail, tell, npkts, log, dropped>>

XfrCancel ==
    /\ At("XFR") /\ busy
    /\ dropped' = dropped \cup {Here.id}
    /\ Free
    /\ UNCHANGED <<busy, ebusy, avail, tell, npkts, log>>

(* Met again, it calls rst and no pipe waits any more.                      *)
ResetEnd ==
    /\ At("RESET") /\ busy
    /\ busy' = FALSE
    /\ ebusy' = {}
    /\ log' = Append(log, Here)
    /\ Free
    /\ UNCHANGED <<avail, tell, npkts, dropped>>

(* A pipe whose earlier transfer waits is passed over.                      *)
XfrBehind ==
    /\ At("XFR") /\ ~busy
    /\ Here.pipe \in ebusy \ SetupPipes
    /\ Keep
    /\ UNCHANGED <<busy, ebusy, avail, tell, npkts, log, dropped>>

(* The xfr callback is called.                                              *)
Callback(pipe) == At("XFR") /\ ~busy /\ Here.pipe = pipe /\ pipe \notin ebusy

(* SETUP is freed without an answer whatever the callback returns; it first *)
(* clears the busy bit of its own pipe, which is never set.                 *)
XfrSetup ==
    /\ \E pipe \in SetupPipes : Callback(pipe)
    /\ ebusy' = ebusy \ {Here.pipe}
    /\ log' = Append(log, Here)
    /\ Free
    /\ UNCHANGED <<busy, avail, tell, npkts, dropped>>

(* Mutant: the transfer is passed over but its pipe is not marked.          *)
XfrNakUnmarked ==
    /\ \E pipe \in Pipes \ (SetupPipes \cup avail) : Callback(pipe)
    /\ Keep
    /\ UNCHANGED <<busy, ebusy, avail, tell, npkts, log, dropped>>

(* Mutant: the transfer is freed instead of kept.                           *)
XfrNakFreed ==
    /\ \E pipe \in Pipes \ (SetupPipes \cup avail) : Callback(pipe)
    /\ ebusy' = ebusy \cup {Here.pipe}
    /\ Free
    /\ UNCHANGED <<busy, avail, tell, npkts, log, dropped>>

(* The device is not ready: USB_XFR_NAK.                                    *)
XfrNak ==
    /\ \E pipe \in Pipes \ (SetupPipes \cup avail) : Callback(pipe)
    /\ ebusy' = ebusy \cup {Here.pipe}
    /\ Keep
    /\ UNCHANGED <<busy, avail, tell, npkts, log, dropped>>

(* Data, or USB_XFR_STALL: answered.  The device may have run dry.          *)
XfrDone ==
    /\ \E pipe \in avail \ SetupPipes : Callback(pipe)
    /\ avail' \in {avail, avail \ {Here.pipe}}
    /\ log' = Append(log, Here)
    /\ Free
    /\ UNCHANGED <<busy, ebusy, tell, npkts, dropped>>

-----------------------------------------------------------------------------
(* The device becomes ready in a thread of its own, which then calls        *)
(* coremodel_usbh_ready; that waits for the mutex.                          *)
Become(pipe) ==
    /\ pipe \in Pipes \ (avail \cup SetupPipes)
    /\ avail' = avail \cup {pipe}
    /\ tell' = tell \cup {pipe}
    /\ UNCHANGED <<rxbufs, cur, busy, ebusy, npkts, log, dropped>>

(* Mutant: the queue is not looked at.                                      *)
ReadyIdle(pipe) ==
    /\ cur = 0
    /\ pipe \in tell
    /\ tell' = tell \ {pipe}
    /\ ebusy' = ebusy \ {pipe}
    /\ UNCHANGED <<cur, rxbufs, busy, avail, npkts, log, dropped>>

Ready(pipe) ==
    /\ cur = 0
    /\ pipe \in tell
    /\ tell' = tell \ {pipe}
    /\ ebusy' = ebusy \ {pipe}
    /\ cur' = 1
    /\ UNCHANGED <<rxbufs, busy, avail, npkts, log, dropped>>

-----------------------------------------------------------------------------
Advance ==
    \/ AdvanceEnd
    \/ ResetBegin \/ XfrCancel \/ ResetEnd
    \/ XfrBehind \/ XfrSetup \/ XfrNak \/ XfrDone

Next ==
    \/ VMSend \/ Advance
    \/ \E pipe \in Pipes : Become(pipe) \/ Ready(pipe)

(* The loop runs on; the device becomes ready again and says so.            *)
Spec ==
    /\ Init /\ [][Next]_vars
    /\ WF_vars(Advance)
    /\ \A pipe \in Pipes : WF_vars(Become(pipe)) /\ WF_vars(Ready(pipe))
-----------------------------------------------------------------------------
Packets == [pkt : {"XFR"}, id : 1..MaxPkts, pipe : Pipes]
             \cup [pkt : {"RESET"}, id : 1..MaxPkts, pipe : {NoPipe}]

(* Every variable has its type, and when the loop is at rest no reset is    *)
(* queued or half done, and each pipe with a transfer queued is marked.     *)
TypeOK ==
    /\ rxbufs \in Seq(Packets)
    /\ cur \in 0..(Len(rxbufs) + 1)
    /\ busy \in BOOLEAN
    /\ ebusy \subseteq Pipes \ SetupPipes
    /\ avail \subseteq Pipes
    /\ tell \subseteq Pipes
    /\ npkts \in 0..MaxPkts
    /\ log \in Seq(Packets)
    /\ dropped \subseteq 1..MaxPkts
    /\ cur = 0 => ~busy /\ \A i \in 1..Len(rxbufs) : rxbufs[i].pipe \in ebusy

(* Transfers of a pipe are answered in the order they were sent, those that *)
(* wait included.                                                           *)
PipeInOrder ==
    LET s == log \o rxbufs
    IN  \A i, j \in 1..Len(s) : i < j /\ s[i].pipe = s[j].pipe => s[i].id < s[j].id

(* Each packet is answered, waits, or was cancelled by a reset: none is     *)
(* lost.                                                                    *)
NoneLost == {p.id : p \in ToSet(log) \cup ToSet(rxbufs)} \cup dropped = 1..npkts

(* Both: per pipe the transfers are a queue, whatever passes them by.       *)
TransfersKept == PipeInOrder /\ NoneLost

(* A reset parts the transfers: behind the call of rst nothing sent before  *)
(* the reset is answered, and what it cancels was sent before it.           *)
ResetParts ==
    /\ \A i, j \in 1..Len(log) :
         i < j /\ log[i].pkt = "RESET" => log[i].id < log[j].id
    /\ \A id \in dropped :
         \E p \in ToSet(log \o rxbufs) : p.pkt = "RESET" /\ id < p.id

(* A transfer that waits for the device is served when the device is ready, *)
(* or cancelled: the NAK and coremodel_usbh_ready do not miss each other.   *)
Served ==
    \A id \in 1..MaxPkts :
        npkts >= id ~> id \in dropped \cup {p.id : p \in ToSet(log)}
=============================================================================
