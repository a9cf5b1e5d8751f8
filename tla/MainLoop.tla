------------------------------ MODULE MainLoop ------------------------------
(***************************************************************************)
(* The main loop of coremodel.c and the threads that share one instance:   *)
(* the recursive mutex, the transmit queue txbufs, the wake-up pipe, and   *)
(* coremodel_mainloop_int() running prepare / select / process rounds for  *)
(* coremodel_mainloop() and, nested, for coremodel_attach_*() and          *)
(* coremodel_list*().                                                      *)
(*                                                                         *)
(* A packet is Size chunks, all carrying the packet's number; chunks stand *)
(* for the bytes that one write(2) may or may not accept.  What a received *)
(* packet means is the subject of other modules: here it is "RSP", the     *)
(* answer to the query in flight, or "DATA", which reaches a callback of   *)
(* the application, and the callback may push a packet of its own.         *)
(***************************************************************************)
EXTENDS Naturals, Sequences

CONSTANTS
    Threads,   \* the application's threads; each of them may push packets
    Loopers,   \* those that call coremodel_mainloop
    Askers,    \* those that call coremodel_attach_* or coremodel_list*
    NoThread,  \* the owner of a free mutex
    Size,      \* chunks of a packet
    SndCap,    \* chunks the socket's send buffer holds
    PipeCap,   \* bytes the wake-up pipe holds
    MaxPush,   \* bound: packets pushed in a behaviour
    MaxIn,     \* bound: DATA packets the VM sends in a behaviour
    MayClose   \* whether the VM may close the connection

ASSUME MainLoopAssumption ==
    /\ Loopers \subseteq Threads
    /\ Askers \subseteq Threads
    /\ NoThread \notin Threads
    /\ Size \in Nat \ {0}
    /\ SndCap \in Nat \ {0}
    /\ PipeCap \in Nat \ {0}
    /\ MaxPush \in Nat
    /\ MaxIn \in Nat
    /\ MayClose \in BOOLEAN

VARIABLES
    lock,      \* coremodel_mutex: its owner (the depth follows from pc and mode)
    pc,        \* where each thread is
    mode,      \* the coremodel_mainloop_int call a thread is in
    armed,     \* the fd_sets a thread hands to select(2)
    ready,     \* the fd_sets select(2) returned to it
    needWake,  \* coremodel_need_wake
    pipe,      \* bytes in the wake-up pipe
    txbufs,    \* unsent chunks, oldest first (the txbufs list less rptr)
    txflag,    \* a packet was pushed since the last preparefds
    query,     \* a list or connection query is in flight
    defer,     \* cm->defer_pkt: a packet waits for the next preparefds
    fdOpen,    \* fd >= 0
    \* the VM and the socket
    inbox,     \* packets the socket holds for the library
    wire,      \* every chunk written to the socket
    taken,     \* how many of them the VM has read
    reqEnd,    \* length of the stream up to the unanswered query, 0 if none
    peerClosed,\* the VM has closed the connection
    nin,       \* DATA packets the VM has sent
    \* history
    pushed,    \* every chunk pushed, in the order the pushes took the mutex
    npush      \* packets pushed

libvars == <<needWake, pipe, txbufs, txflag, query, defer, fdOpen>>
vmvars == <<inbox, taken, peerClosed, nin>>
vars == <<lock, pc, mode, armed, ready, needWake, pipe, txbufs, txflag, query,
          defer, fdOpen, inbox, wire, taken, reqEnd, peerClosed, nin, pushed, npush>>

Fds == {"wake", "in", "out"}
PCs == {"idle", "push", "ask", "prepare", "flush", "select", "process"}
Modes == {"none", "loop", "timed", "query"}

Init ==
    /\ lock = NoThread
    /\ pc = [t \in Threads |-> "idle"]
    /\ mode = [t \in Threads |-> "none"]
    /\ armed = [t \in Threads |-> {}]
    /\ ready = [t \in Threads |-> {}]
    /\ needWake = FALSE
    /\ pipe = 0
    /\ txbufs = <<>>
    /\ txflag = FALSE
    /\ query = FALSE
    /\ defer = FALSE
    /\ fdOpen = TRUE
    /\ inbox = <<>>
    /\ wire = <<>>
    /\ taken = 0
    /\ reqEnd = 0
    /\ peerClosed = FALSE
    /\ nin = 0
    /\ pushed = <<>>
    /\ npush = 0

-----------------------------------------------------------------------------
(* The mutex is recursive: a thread that owns it may lock it again.         *)
CanLock(t) == lock \in {NoThread, t}


(* What the mutex is after t leaves a locked region: a query keeps it.      *)
Unlocked(t) == IF mode[t] = "query" THEN t ELSE NoThread

(* The chunks of k packets, the first of which is number n + 1.             *)
Packets(n, k) == [j \in 1..(k * Size) |-> n + 1 + ((j - 1) \div Size)]

(* The pipe is written only when a thread may sit in select.                *)
WakeBytes(k) == IF needWake THEN k ELSE 0

(* coremodel_push_packet for k packets in a row, the mutex held.  The write *)
(* end of the pipe is left blocking, so a full pipe makes the pusher wait.  *)
PushPackets(k) ==
    /\ npush + k <= MaxPush
    /\ pipe + WakeBytes(k) <= PipeCap
    /\ npush' = npush + k
    /\ pushed' = pushed \o Packets(npush, k)
    /\ txbufs' = txbufs \o Packets(npush, k)
    /\ txflag' = TRUE
    /\ pipe' = pipe + WakeBytes(k)

-----------------------------------------------------------------------------
(* A call that pushes one packet: uart_rx, gpio_set, event_signal, can_rx,  *)
(* detach...  It locks, pushes (waiting for room in the pipe with the mutex *)
(* held) and unlocks.                                                       *)
PushLock(t) ==
    /\ pc[t] = "idle"
    /\ npush < MaxPush
    /\ CanLock(t)
    /\ lock' = t
    /\ pc' = [pc EXCEPT ![t] = "push"]
    /\ UNCHANGED <<mode, armed, ready, libvars, wire, reqEnd, vmvars, pushed, npush>>

Push(t) ==
    /\ pc[t] = "push"
    /\ PushPackets(1)
    /\ lock' = Unlocked(t)
    /\ pc' = [pc EXCEPT ![t] = "idle"]
    /\ UNCHANGED <<mode, armed, ready, needWake, query, defer, fdOpen, wire,
                   reqEnd, vmvars>>

(* coremodel_attach_int, coremodel_list, coremodel_list_subdevices: take    *)
(* the mutex, give up if a query is in flight, push the request and run a   *)
(* nested loop without releasing the mutex until the query is over.         *)
AskLock(t) ==
    /\ t \in Askers
    /\ pc[t] = "idle"
    /\ npush < MaxPush
    /\ CanLock(t)
    /\ ~query
    /\ lock' = t
    /\ mode' = [mode EXCEPT ![t] = "query"]
    /\ pc' = [pc EXCEPT ![t] = "ask"]
    /\ UNCHANGED <<armed, ready, libvars, wire, reqEnd, vmvars, pushed, npush>>

Ask(t) ==
    /\ pc[t] = "ask"
    /\ PushPackets(1)
    /\ query' = TRUE
    /\ reqEnd' = Len(pushed')
    /\ pc' = [pc EXCEPT ![t] = "prepare"]
    /\ UNCHANGED <<lock, mode, armed, ready, needWake, defer, fdOpen, wire, vmvars>>

(* coremodel_mainloop(cm, usec), usec < 0 ("loop") or not ("timed").        *)
Mainloop(t) ==
    /\ t \in Loopers
    /\ pc[t] = "idle"
    /\ \E m \in {"loop", "timed"} : mode' = [mode EXCEPT ![t] = m]
    /\ pc' = [pc EXCEPT ![t] = "prepare"]
    /\ UNCHANGED <<lock, armed, ready, libvars, wire, reqEnd, vmvars, pushed, npush>>

-----------------------------------------------------------------------------
(* coremodel_preparefds                                                     *)

(* Mutant: room in the socket is not waited for.                            *)
ArmedFdsNoOut == {"wake", "in"}

ArmedFds == {"wake", "in"} \cup (IF txbufs # <<>> THEN {"out"} ELSE {})

(* A closed connection arms nothing: nfds stays 0.                          *)
PrepareClosed(t) ==
    /\ pc[t] = "prepare"
    /\ CanLock(t)
    /\ ~fdOpen
    /\ armed' = [armed EXCEPT ![t] = {}]
    /\ pc' = [pc EXCEPT ![t] = "select"]
    /\ UNCHANGED <<lock, mode, ready, libvars, wire, reqEnd, vmvars, pushed, npush>>

(* Mutant: need_wake is set only when nothing is deferred.                  *)
PrepareWakeLate(t) ==
    /\ pc[t] = "prepare"
    /\ CanLock(t)
    /\ fdOpen
    /\ armed' = [armed EXCEPT ![t] = ArmedFds]
    /\ needWake' = (needWake \/ ~defer)
    /\ txflag' = FALSE
    /\ IF defer
         THEN /\ lock' = t
              /\ pc' = [pc EXCEPT ![t] = "flush"]
         ELSE /\ lock' = lock
              /\ pc' = [pc EXCEPT ![t] = "select"]
    /\ UNCHANGED <<mode, ready, pipe, txbufs, query, defer, fdOpen, wire, reqEnd,
                   vmvars, pushed, npush>>

Prepare(t) ==
    /\ pc[t] = "prepare"
    /\ CanLock(t)
    /\ fdOpen
    /\ armed' = [armed EXCEPT ![t] = ArmedFds]
    /\ needWake' = TRUE
    /\ txflag' = FALSE
    /\ IF defer
         THEN /\ lock' = t
              /\ pc' = [pc EXCEPT ![t] = "flush"]
         ELSE /\ lock' = lock
              /\ pc' = [pc EXCEPT ![t] = "select"]
    /\ UNCHANGED <<mode, ready, pipe, txbufs, query, defer, fdOpen, wire, reqEnd,
                   vmvars, pushed, npush>>

(* coremodel_defer_pkt_flush, called by preparefds after the fd_sets are    *)
(* settled: the deferred callback runs now and may push.                    *)
Flush(t) ==
    /\ pc[t] = "flush"
    /\ \/ PushPackets(1)
       \/ UNCHANGED <<npush, pushed, txbufs, txflag, pipe>>
    /\ defer' = FALSE
    /\ lock' = Unlocked(t)
    /\ pc' = [pc EXCEPT ![t] = "select"]
    /\ UNCHANGED <<mode, armed, ready, needWake, query, fdOpen, wire, reqEnd, vmvars>>

-----------------------------------------------------------------------------
(* select(2), outside the mutex (but for a query, whose caller owns it).    *)
Room == SndCap - (Len(wire) - taken)
ReadyFds ==
    (IF pipe > 0 THEN {"wake"} ELSE {})
      \cup (IF inbox # <<>> \/ peerClosed THEN {"in"} ELSE {})
      \cup (IF Room > 0 THEN {"out"} ELSE {})

Select(t) ==
    /\ pc[t] = "select"
    /\ armed[t] \cap ReadyFds # {} \/ mode[t] = "timed"
    /\ ready' = [ready EXCEPT ![t] = armed[t] \cap ReadyFds]
    /\ pc' = [pc EXCEPT ![t] = "process"]
    /\ UNCHANGED <<lock, mode, armed, libvars, wire, reqEnd, vmvars, pushed, npush>>

-----------------------------------------------------------------------------
(* coremodel_processfds and the end of coremodel_mainloop_int's round.      *)
Return(t) ==
    /\ pc' = [pc EXCEPT ![t] = "idle"]
    /\ mode' = [mode EXCEPT ![t] = "none"]
    /\ lock' = IF lock = t THEN NoThread ELSE lock

NextRound(t) ==
    /\ pc' = [pc EXCEPT ![t] = "prepare"]
    /\ UNCHANGED <<mode, lock>>

PipeDrained(t) == IF "wake" \in ready[t] THEN 0 ELSE pipe

(* ENOTCONN: the connection was lost in an earlier round.                   *)
ProcessClosed(t) ==
    /\ pc[t] = "process"
    /\ CanLock(t)
    /\ ~fdOpen
    /\ needWake' = FALSE
    /\ query' = (query /\ mode[t] # "query")
    /\ Return(t)
    /\ UNCHANGED <<armed, ready, pipe, txbufs, txflag, defer, fdOpen, wire, reqEnd,
                   vmvars, pushed, npush>>

(* Mutant: the end of the stream ends the round, not the call.              *)
ProcessEofIgnored(t) ==
    /\ pc[t] = "process"
    /\ CanLock(t)
    /\ fdOpen
    /\ "in" \in ready[t] /\ peerClosed
    /\ needWake' = FALSE
    /\ pipe' = PipeDrained(t)
    /\ inbox' = <<>>
    /\ fdOpen' = FALSE
    /\ NextRound(t)
    /\ UNCHANGED <<armed, ready, txbufs, txflag, query, defer, wire, reqEnd, taken,
                   peerClosed, nin, pushed, npush>>

(* read(2) returns 0: the descriptor is closed before process_rxq runs, so  *)
(* what was read in the same round is never looked at.                      *)
ProcessEof(t) ==
    /\ pc[t] = "process"
    /\ CanLock(t)
    /\ fdOpen
    /\ "in" \in ready[t] /\ peerClosed
    /\ needWake' = FALSE
    /\ pipe' = PipeDrained(t)
    /\ inbox' = <<>>
    /\ fdOpen' = FALSE
    /\ query' = (query /\ mode[t] # "query")
    /\ Return(t)
    /\ UNCHANGED <<armed, ready, txbufs, txflag, defer, wire, reqEnd, taken,
                   peerClosed, nin, pushed, npush>>

(* The packets this round reads, and what becomes of them.                  *)
Batch(t) == IF "in" \in ready[t] THEN inbox ELSE <<>>
Answered(b) == \E i \in 1..Len(b) : b[i] = "RSP"
DataIn(b) == Len(SelectSeq(b, LAMBDA p : p = "DATA"))
(* A packet behind the answer may be for the interface being attached.      *)
MayDefer(t, b) ==
    /\ mode[t] = "query"
    /\ \E i, j \in 1..Len(b) : i < j /\ b[i] = "RSP" /\ b[j] = "DATA"

(* The callbacks of a round push k packets; need_wake is clear by then.     *)
Deliver(t, k, d) ==
    /\ d => MayDefer(t, Batch(t))
    /\ k <= DataIn(Batch(t)) - (IF d THEN 1 ELSE 0)
    /\ npush + k <= MaxPush
    /\ npush' = npush + k
    /\ pushed' = pushed \o Packets(npush, k)
    /\ txflag' = (txflag \/ k > 0)
    /\ defer' = (defer \/ d)
    /\ query' = (query /\ ~Answered(Batch(t)))
    /\ inbox' = IF "in" \in ready[t] THEN <<>> ELSE inbox

(* How much of q write(2) takes until q is empty or the socket is full.     *)
Least(a, b) == IF a <= b THEN a ELSE b

(* Mutant: a write that would block is taken for one that took everything.  *)
WrittenAll(q) == Len(q)

Written(q) == Least(Len(q), Room)

(* Mutant: after a short write the packet cut in two is sent again whole.   *)
TransmitRestart(q) ==
    LET n == Written(q)
        again == Least(n, (Len(wire) + n) % Size)
    IN  /\ wire' = wire \o SubSeq(q, 1, n)
        /\ txbufs' = SubSeq(q, (n - again) + 1, Len(q))

(* rptr of the first txbuf keeps the place of a write that was cut short.   *)
Transmit(q) ==
    /\ wire' = wire \o SubSeq(q, 1, Written(q))
    /\ txbufs' = SubSeq(q, Written(q) + 1, Len(q))

MayWrite(t, q) == "out" \in ready[t] \/ (q # <<>> /\ ~txflag')

Process(t) ==
    /\ pc[t] = "process"
    /\ CanLock(t)
    /\ fdOpen
    /\ ~("in" \in ready[t] /\ peerClosed)
    /\ needWake' = FALSE
    /\ pipe' = PipeDrained(t)
    /\ \E k \in 0..Len(Batch(t)), d \in BOOLEAN :
         /\ Deliver(t, k, d)
         /\ LET q == txbufs \o Packets(npush, k)
            IN  IF MayWrite(t, q)
                  THEN Transmit(q)
                  ELSE /\ txbufs' = q
                       /\ wire' = wire
    /\ \/ mode[t] = "query" /\ ~query' /\ Return(t)
       \/ mode[t] = "query" /\ query' /\ NextRound(t)
       \/ mode[t] = "timed" /\ Return(t)
       \/ mode[t] \in {"loop", "timed"} /\ NextRound(t)
    /\ UNCHANGED <<armed, ready, fdOpen, reqEnd, taken, peerClosed, nin>>

-----------------------------------------------------------------------------
(* The VM at the other end of the socket.                                   *)
VMTake ==
    /\ taken < Len(wire)
    /\ taken' = taken + 1
    /\ UNCHANGED <<lock, pc, mode, armed, ready, libvars, inbox, wire, reqEnd,
                   peerClosed, nin, pushed, npush>>

VMAnswer ==
    /\ ~peerClosed
    /\ reqEnd # 0 /\ taken >= reqEnd
    /\ reqEnd' = 0
    /\ inbox' = Append(inbox, "RSP")
    /\ UNCHANGED <<lock, pc, mode, armed, ready, libvars, wire, taken, peerClosed,
                   nin, pushed, npush>>

VMSend ==
    /\ ~peerClosed
    /\ nin < MaxIn
    /\ nin' = nin + 1
    /\ inbox' = Append(inbox, "DATA")
    /\ UNCHANGED <<lock, pc, mode, armed, ready, libvars, wire, reqEnd, taken,
                   peerClosed, pushed, npush>>

VMClose ==
    /\ MayClose
    /\ ~peerClosed
    /\ peerClosed' = TRUE
    /\ UNCHANGED <<lock, pc, mode, armed, ready, libvars, inbox, wire, reqEnd,
                   taken, nin, pushed, npush>>

-----------------------------------------------------------------------------
Round(t) ==
    \/ PrepareClosed(t) \/ Prepare(t) \/ Flush(t)
    \/ Select(t)
    \/ ProcessClosed(t) \/ ProcessEof(t) \/ Process(t)

Next ==
    \/ \E t \in Threads :
         \/ PushLock(t) \/ Push(t)
         \/ AskLock(t) \/ Ask(t)
         \/ Mainloop(t)
         \/ Round(t)
    \/ VMTake \/ VMAnswer \/ VMSend \/ VMClose

Spec == Init /\ [][Next]_vars

(* A thread inside the library keeps running when it can; a Looper calls    *)
(* coremodel_mainloop again; the VM reads its socket and answers queries.   *)
Fairness ==
    /\ \A t \in Threads : WF_vars(Push(t)) /\ WF_vars(Ask(t)) /\ WF_vars(Round(t))
    /\ \A t \in Loopers : WF_vars(Mainloop(t))
    /\ WF_vars(VMTake)
    /\ WF_vars(VMAnswer)

FairSpec == Spec /\ Fairness
-----------------------------------------------------------------------------
TypeOK ==
    /\ lock \in Threads \cup {NoThread}
    /\ pc \in [Threads -> PCs]
    /\ mode \in [Threads -> Modes]
    /\ armed \in [Threads -> SUBSET Fds]
    /\ ready \in [Threads -> SUBSET Fds]
    /\ needWake \in BOOLEAN
    /\ pipe \in 0..PipeCap
    /\ txbufs \in Seq(Nat)
    /\ txflag \in BOOLEAN
    /\ query \in BOOLEAN
    /\ defer \in BOOLEAN
    /\ fdOpen \in BOOLEAN
    /\ inbox \in Seq({"RSP", "DATA"})
    /\ wire \in Seq(Nat)
    /\ taken \in 0..Len(wire)
    /\ reqEnd \in Nat
    /\ peerClosed \in BOOLEAN
    /\ nin \in 0..MaxIn
    /\ pushed \in Seq(Nat)
    /\ npush \in 0..MaxPush

(* The socket never holds more than it has room for.                        *)
SndBufOK == Len(wire) - taken <= SndCap

(* Every variable has its type, and a write takes no more chunks than the   *)
(* socket's send buffer has room for.                                       *)
TypeInv == TypeOK /\ SndBufOK

(* A thread that sleeps in select while packets wait to be sent is woken:   *)
(* either it watches the socket for room, or a wake-up byte is in the pipe  *)
(* (or another thread is inside a query and runs rounds of its own).        *)
(* coremodel_push_packet writes that byte only under coremodel_need_wake.   *)
NoLostWakeup ==
    \A t \in Threads :
        pc[t] = "select" /\ mode[t] # "query" /\ fdOpen /\ lock = NoThread
                /\ txbufs # <<>>
            => "out" \in armed[t] \/ pipe > 0

(* The VM receives the pushed packets whole, once and in the order their    *)
(* callers took the mutex, however writes are cut short: what was written   *)
(* followed by what is queued is what was pushed.                           *)
SentInOrder == wire \o txbufs = pushed

(* While a query is in flight its caller owns the mutex, so no other        *)
(* thread's query can take its answer.                                      *)
QueryOwned ==
    query => \E t \in Threads : lock = t /\ mode[t] = "query"

(* Every packet pushed is eventually handed to the socket, unless the       *)
(* connection is lost: the wake-up pipe, tx_flag and writefds together      *)
(* leave no packet behind.                                                  *)
PushedIsSent ==
    \A n \in 1..MaxPush :
        npush >= n ~> Len(wire) >= n * Size \/ peerClosed

(* A list or attach call made on a live connection returns, whether the VM  *)
(* answers or closes the connection.                                        *)
LiveQueryReturns ==
    \A t \in Askers : (pc[t] = "ask" /\ fdOpen) ~> pc[t] = "idle"

(* A list or attach call always returns ("handle ..., or NULL on failure"). *)
QueryReturns ==
    \A t \in Askers : pc[t] = "ask" ~> pc[t] = "idle"
=============================================================================
