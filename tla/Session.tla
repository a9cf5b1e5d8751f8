------------------------------ MODULE Session ------------------------------
(***************************************************************************)
(* The session of coremodel.c with its VM: the interfaces attached to it,  *)
(* the queries that attach them and list the VM's devices, and the way a   *)
(* packet finds its interface.                                             *)
(*                                                                         *)
(* The calls of the application hold the mutex from end to end, so each is *)
(* a step; a query, which runs rounds of the main loop of its own, is the  *)
(* step that sends the request and the rounds up to its return.  What an   *)
(* interface does with a packet is the subject of other modules: here it   *)
(* accepts a prefix of what it was sent, and stalls or not.                *)
(*                                                                         *)
(* Handles are numbered in the order of the calls to coremodel_attach_*,   *)
(* the VM's packets in the order it sends them to one connection.          *)
(***************************************************************************)
EXTENDS Naturals, Sequences, SequencesExt

CONSTANTS
    MaxAttach,  \* bound: calls to coremodel_attach_*
    Conns,      \* the connection indices the VM uses
    NoConn,     \* CONN_QUERY, the index that is none
    MaxSend,    \* bound: packets the VM sends to one connection
    NumDevices, \* how many devices coremodel_list enumerates
    MaxList,    \* bound: calls to coremodel_list
    MaxFail     \* bound: allocations that fail

ASSUME SessionAssumption ==
    /\ MaxAttach \in Nat /\ MaxSend \in Nat /\ MaxList \in Nat /\ MaxFail \in Nat
    /\ NoConn \notin Conns
    /\ NumDevices \in Nat

Handles == 1..MaxAttach
NoHandle == 0

VARIABLES
    itf,      \* struct coremodel_if of each handle
    ifs,      \* cm->ifs: handles, the head of the list first
    connIf,   \* cm->conn_if
    query,    \* cm->query
    deferPkt, \* cm->defer_pkt
    devices,  \* cm->device_list
    call,     \* the query call in progress
    phase,    \* where the main loop is
    batch,    \* packets of the current coremodel_process_rxq
    calls,    \* attach calls made
    lists,    \* list calls made
    fails,    \* allocations that have failed
    result,   \* what the last coremodel_list returned
    \* the VM and the socket
    tx,       \* requests the VM has not handled
    rx,       \* packets the library has not processed
    vmconn,   \* the handle behind each connection index of the VM
    vmsent    \* packets sent to each handle

vars == <<itf, ifs, connIf, query, deferPkt, devices, call, phase, batch, calls,
          lists, fails, result, tx, rx, vmconn, vmsent>>
vmvars == <<vmconn, vmsent>>
bounds == <<calls, lists, fails>>

(* The VM's devices; a list that is no list (a device is never 0).          *)
Devices == [i \in 1..NumDevices |-> i]
Null == <<0>>

NewIf(state, conn) ==
    [state |-> state, conn |-> conn, rxbufs |-> <<>>, defer |-> TRUE,
     busy |-> FALSE, got |-> <<>>]

Data(i, h, n) == [kind |-> "data", conn |-> i, h |-> h, n |-> n]
ConnRsp(i) == [kind |-> "conn", conn |-> i]
ListRsp(from, items) == [kind |-> "list", from |-> from, items |-> items]

ConnReq(h) == [op |-> "conn", h |-> h]
DiscReq(i) == [op |-> "disc", conn |-> i]
ListReq(n) == [op |-> "list", from |-> n]

Init ==
    /\ itf = [h \in Handles |-> NewIf("unused", NoConn)]
    /\ ifs = <<>>
    /\ connIf = NoHandle
    /\ query = FALSE
    /\ deferPkt = FALSE
    /\ devices = Null
    /\ call = "none"
    /\ phase = "idle"
    /\ batch = 0
    /\ calls = 0
    /\ lists = 0
    /\ fails = 0
    /\ result = Null
    /\ tx = <<>>
    /\ rx = <<>>
    /\ vmconn = [i \in Conns |-> NoHandle]
    /\ vmsent = [h \in Handles |-> 0]

-----------------------------------------------------------------------------
(* coremodel_advance_if: the callbacks of interface r accept its k oldest   *)
(* packets; the one that stalls stays first in line.                        *)
Advance(r, k) ==
    IF r.defer \/ r.busy
      THEN r
      ELSE [r EXCEPT !.got = @ \o SubSeq(r.rxbufs, 1, k),
                     !.rxbufs = SubSeq(r.rxbufs, k + 1, Len(r.rxbufs)),
                     !.busy = k < Len(r.rxbufs)]

(* The application is free to call: no query runs, no round is processing.  *)
CanCall == call = "none" /\ phase \in {"idle", "select"}

(* coremodel_attach_int up to its nested main loop.                         *)
Attach ==
    /\ CanCall /\ phase = "idle"
    /\ calls < MaxAttach
    /\ calls' = calls + 1
    /\ itf' = [itf EXCEPT ![calls'] = NewIf("pending", NoConn)]
    /\ connIf' = calls'
    /\ query' = TRUE
    /\ call' = "attach"
    /\ tx' = Append(tx, ConnReq(calls'))
    /\ UNCHANGED <<ifs, deferPkt, devices, phase, batch, lists, fails, result, rx, vmvars>>

(* coremodel_list up to its nested main loop.                               *)
List ==
    /\ CanCall /\ phase = "idle"
    /\ lists < MaxList
    /\ lists' = lists + 1
    /\ query' = TRUE
    /\ call' = "list"
    /\ tx' = Append(tx, ListReq(0))
    /\ UNCHANGED <<itf, ifs, connIf, deferPkt, devices, phase, batch, calls, fails,
                   result, rx, vmvars>>

InIfs(h) == \E i \in 1..Len(ifs) : ifs[i] = h

(* coremodel_detach.  It goes through all of the list, which has a handle   *)
(* once at most (IfsRight).                                                 *)
Detach(h) ==
    /\ CanCall
    /\ itf[h].state = "attached"
    /\ ifs' = IF InIfs(h) THEN RemoveAt(ifs, CHOOSE i \in 1..Len(ifs) : ifs[i] = h) ELSE ifs
    /\ itf' = [itf EXCEPT ![h] = [@ EXCEPT !.state = "freed", !.rxbufs = <<>>]]
    /\ tx' = Append(tx, DiscReq(itf[h].conn))
    /\ UNCHANGED <<connIf, query, deferPkt, devices, call, phase, batch, bounds,
                   result, rx, vmvars>>

(* coremodel_*_ready, coremodel_uart_txrdy: the stalled interface goes on.  *)
Ready(h) ==
    /\ CanCall
    /\ itf[h].state = "attached" /\ itf[h].busy
    /\ \E k \in 0..Len(itf[h].rxbufs) :
         itf' = [itf EXCEPT ![h] = Advance([@ EXCEPT !.busy = FALSE], k)]
    /\ UNCHANGED <<ifs, connIf, query, deferPkt, devices, call, phase, batch, bounds,
                   result, tx, rx, vmvars>>

-----------------------------------------------------------------------------
(* coremodel_preparefds runs coremodel_defer_pkt_flush: k[h] packets of h   *)
(* are accepted.                                                            *)
Flush(k) ==
    itf' = [h \in Handles |->
              IF InIfs(h) /\ itf[h].defer
                THEN Advance([itf[h] EXCEPT !.defer = FALSE], k[h])
                ELSE itf[h]]

Prepare ==
    /\ phase = "idle"
    /\ phase' = "select"
    /\ IF deferPkt
         THEN \E k \in [Handles -> 0..MaxSend] :
                /\ \A h \in Handles : k[h] <= Len(itf[h].rxbufs)
                /\ Flush(k)
         ELSE itf' = itf
    /\ deferPkt' = FALSE
    /\ UNCHANGED <<ifs, connIf, query, devices, call, batch, bounds, result, tx, rx, vmvars>>

(* coremodel_processfds reads what has arrived.                             *)
Process ==
    /\ phase = "select"
    /\ phase' = "process"
    /\ batch' = Len(rx)
    /\ UNCHANGED <<itf, ifs, connIf, query, deferPkt, devices, call, bounds, result,
                   tx, rx, vmvars>>

(* coremodel_process_packet, for each packet of the batch in turn.          *)
First(kind) == phase = "process" /\ batch > 0 /\ rx[1].kind = kind
Consume ==
    /\ rx' = Tail(rx)
    /\ batch' = batch - 1

(* The first interface of the list with the packet's connection index.      *)
Receiver(i) ==
    IF \E j \in 1..Len(ifs) : itf[ifs[j]].conn = i
      THEN ifs[CHOOSE j \in 1..Len(ifs) :
                 /\ itf[ifs[j]].conn = i
                 /\ \A k \in 1..(j - 1) : itf[ifs[k]].conn # i]
      ELSE NoHandle

(* Interface h with packet p queued, to be deferred or not.                 *)
Queued(h, p, d) == [itf[h] EXCEPT !.rxbufs = Append(@, p), !.defer = d]

(* Mutant: nothing is deferred.                                             *)
DeliverNow(h, p, k) ==
    /\ itf' = [itf EXCEPT ![h] = Advance(Queued(h, p, FALSE), k)]
    /\ deferPkt' = deferPkt

(* Mutant: the last packet alone decides whether there is anything to flush. *)
DeliverOverwrite(h, p, k) ==
    /\ itf' = [itf EXCEPT ![h] = Advance(Queued(h, p, connIf = h), k)]
    /\ deferPkt' = (connIf = h)

(* The packet is queued; the interface being attached waits with it until   *)
(* the next coremodel_preparefds, the others are advanced.                  *)
Deliver(h, p, k) ==
    /\ itf' = [itf EXCEPT ![h] = Advance(Queued(h, p, connIf = h), k)]
    /\ deferPkt' = (deferPkt \/ connIf = h)

ProcessData ==
    /\ First("data")
    /\ Consume
    /\ LET h == Receiver(rx[1].conn)
       IN  IF h = NoHandle
             THEN UNCHANGED <<itf, deferPkt>>
             ELSE \E k \in 0..(Len(itf[h].rxbufs) + 1) : Deliver(h, rx[1], k)
    /\ UNCHANGED <<ifs, connIf, query, devices, call, phase, bounds, result, tx, vmvars>>

(* No memory for the packet: the loop of coremodel_process_rxq ends and the *)
(* packet is met again in the next round.                                   *)
ProcessFail ==
    /\ First("data")
    /\ Receiver(rx[1].conn) # NoHandle
    /\ fails < MaxFail
    /\ fails' = fails + 1
    /\ batch' = 0
    /\ UNCHANGED <<itf, ifs, connIf, query, deferPkt, devices, call, phase, calls,
                   lists, result, tx, rx, vmvars>>

(* coremodel_process_conn_response: a new interface becomes the list's head. *)
ProcessConn ==
    /\ First("conn")
    /\ Consume
    /\ IF query /\ connIf # NoHandle
         THEN /\ itf' = [itf EXCEPT ![connIf].conn = rx[1].conn]
              /\ ifs' = IF rx[1].conn = NoConn THEN ifs ELSE <<connIf>> \o ifs
              /\ query' = FALSE
         ELSE UNCHANGED <<itf, ifs, query>>
    /\ UNCHANGED <<connIf, deferPkt, devices, call, phase, bounds, result, tx, vmvars>>

(* coremodel_process_list_response: the entries take their places from      *)
(* index "from" on, whatever an earlier attempt has left there.             *)
Listed == IF devices = Null THEN <<>> ELSE devices

(* Mutant: a page is put behind what is there.                              *)
MergedAppend(p) == Listed \o p.items

Merged(p) == SubSeq(Listed, 1, p.from) \o p.items

(* The last page is empty and ends the query; another is followed by the    *)
(* request for the next.                                                    *)
ProcessList ==
    /\ First("list")
    /\ Consume
    /\ IF ~query
         THEN UNCHANGED <<query, devices, tx>>
         ELSE IF rx[1].items = <<>>
           THEN /\ query' = FALSE
                /\ UNCHANGED <<devices, tx>>
           ELSE /\ devices' = Merged(rx[1])
                /\ tx' = Append(tx, ListReq(Len(devices')))
                /\ UNCHANGED query
    /\ UNCHANGED <<itf, ifs, connIf, deferPkt, call, phase, bounds, result, vmvars>>

(* No memory for the list: the query is over and returns nothing.           *)
ProcessListNoMem ==
    /\ First("list")
    /\ query /\ rx[1].items # <<>>
    /\ fails < MaxFail
    /\ fails' = fails + 1
    /\ Consume
    /\ devices' = Null
    /\ query' = FALSE
    /\ UNCHANGED <<itf, ifs, connIf, deferPkt, call, phase, calls, lists, result, tx, vmvars>>

(* No memory for the next request: the same page is met again next round.   *)
ProcessListNoReq ==
    /\ First("list")
    /\ query /\ rx[1].items # <<>>
    /\ fails < MaxFail
    /\ fails' = fails + 1
    /\ devices' = Merged(rx[1])
    /\ batch' = 0
    /\ UNCHANGED <<itf, ifs, connIf, query, deferPkt, call, phase, calls, lists,
                   result, tx, rx, vmvars>>

-----------------------------------------------------------------------------
(* The end of a round, and of the query that was waiting for it.            *)
AttachReturns ==
    /\ itf' = [itf EXCEPT ![connIf].state =
                 IF itf[connIf].conn = NoConn THEN "freed" ELSE "attached"]
    /\ connIf' = NoHandle
    /\ UNCHANGED <<devices, result>>

ListReturns ==
    /\ result' = devices
    /\ devices' = Null
    /\ UNCHANGED <<itf, connIf>>

EndRound ==
    /\ phase = "process" /\ batch = 0
    /\ phase' = "idle"
    /\ IF query \/ call = "none"
         THEN UNCHANGED <<itf, connIf, devices, result, call>>
         ELSE /\ call' = "none"
              /\ IF call = "attach" THEN AttachReturns ELSE ListReturns
    /\ UNCHANGED <<ifs, query, deferPkt, batch, bounds, tx, rx, vmvars>>

-----------------------------------------------------------------------------
(* The VM answers requests in their order, and sends packets to whatever is *)
(* connected.  It may use the index of a closed connection again.           *)
libvars == <<itf, ifs, connIf, query, deferPkt, devices, call, phase, batch, bounds, result>>

VMConnect ==
    /\ tx # <<>> /\ tx[1].op = "conn"
    /\ tx' = Tail(tx)
    /\ \/ \E i \in Conns :
            /\ vmconn[i] = NoHandle
            /\ vmconn' = [vmconn EXCEPT ![i] = tx[1].h]
            /\ rx' = Append(rx, ConnRsp(i))
       \/ /\ rx' = Append(rx, ConnRsp(NoConn))
          /\ UNCHANGED vmconn
    /\ UNCHANGED <<libvars, vmsent>>

VMDisconnect ==
    /\ tx # <<>> /\ tx[1].op = "disc"
    /\ tx' = Tail(tx)
    /\ vmconn' = [vmconn EXCEPT ![tx[1].conn] = NoHandle]
    /\ UNCHANGED <<libvars, rx, vmsent>>

VMList ==
    /\ tx # <<>> /\ tx[1].op = "list"
    /\ tx' = Tail(tx)
    /\ \E n \in tx[1].from..Len(Devices) :
         /\ n > tx[1].from \/ n = Len(Devices)
         /\ rx' = Append(rx, ListRsp(tx[1].from, SubSeq(Devices, tx[1].from + 1, n)))
    /\ UNCHANGED <<libvars, vmconn, vmsent>>

VMSend ==
    /\ \E i \in Conns :
         LET h == vmconn[i]
         IN  /\ h # NoHandle
             /\ vmsent[h] < MaxSend
             /\ vmsent' = [vmsent EXCEPT ![h] = @ + 1]
             /\ rx' = Append(rx, Data(i, h, vmsent[h] + 1))
    /\ UNCHANGED <<libvars, tx, vmconn>>

-----------------------------------------------------------------------------
Round ==
    \/ Prepare \/ Process
    \/ ProcessData \/ ProcessFail \/ ProcessConn
    \/ ProcessList \/ ProcessListNoMem \/ ProcessListNoReq
    \/ EndRound

Answer == VMConnect \/ VMDisconnect \/ VMList

Next ==
    \/ Attach \/ List
    \/ \E h \in Handles : Detach(h) \/ Ready(h)
    \/ Round
    \/ Answer \/ VMSend

(* The application keeps the main loop running; the VM answers.             *)
Spec == Init /\ [][Next]_vars /\ WF_vars(Round) /\ WF_vars(Answer)
-----------------------------------------------------------------------------
Requests == [op : {"conn"}, h : Handles] \cup [op : {"disc"}, conn : Conns]
              \cup [op : {"list"}, from : 0..Len(Devices)]
DataPkts == [kind : {"data"}, conn : Conns, h : Handles, n : 1..MaxSend]
Lists == {SubSeq(Devices, m + 1, n) : m, n \in 0..Len(Devices)}
Answers == [kind : {"conn"}, conn : Conns \cup {NoConn}]
             \cup [kind : {"list"}, from : 0..Len(Devices), items : Lists]
Interfaces ==
    [state : {"unused", "pending", "attached", "freed"}, conn : Conns \cup {NoConn},
     rxbufs : Seq(DataPkts), defer : BOOLEAN, busy : BOOLEAN, got : Seq(DataPkts)]

(* Every variable has its type.                                             *)
TypeOK ==
    /\ itf \in [Handles -> Interfaces]
    /\ ifs \in Seq(Handles)
    /\ connIf \in Handles \cup {NoHandle}
    /\ query \in BOOLEAN
    /\ deferPkt \in BOOLEAN
    /\ devices \in Lists \cup {Null}
    /\ call \in {"none", "attach", "list"}
    /\ phase \in {"idle", "select", "process"}
    /\ batch \in 0..Len(rx)
    /\ calls \in 0..MaxAttach /\ lists \in 0..MaxList /\ fails \in 0..MaxFail
    /\ result \in Lists \cup {Null}
    /\ tx \in Seq(Requests)
    /\ rx \in Seq(DataPkts \cup Answers)
    /\ vmconn \in [Conns -> Handles \cup {NoHandle}]
    /\ vmsent \in [Handles -> 0..MaxSend]

(* No callback of an interface runs before the coremodel_attach_* call that *)
(* makes it has returned its handle: packets behind the answer are deferred. *)
NoEarlyCallback == \A h \in Handles : itf[h].state = "pending" => itf[h].got = <<>>

(* What an interface has been given, what it holds and what is on its way   *)
(* is what the VM sent to it, in that order: none is lost, repeated,        *)
(* overtaken, or given to another interface that has the index now.         *)
Known(h) == itf[h].got \o itf[h].rxbufs
IsFor(h, j) == rx[j].kind = "data" /\ rx[j].h = h
Conservation ==
    \A h \in Handles :
        /\ \A n \in 1..Len(Known(h)) : Known(h)[n].h = h /\ Known(h)[n].n = n
        /\ itf[h].state # "freed" =>
             /\ Len(Known(h)) <= vmsent[h]
             /\ \A n \in (Len(Known(h)) + 1)..vmsent[h] :
                   \E j \in 1..Len(rx) : IsFor(h, j) /\ rx[j].n = n
             /\ \A j \in 1..Len(rx) :
                   IsFor(h, j) => /\ rx[j].n \in (Len(Known(h)) + 1)..vmsent[h]
                                  /\ \A k \in 1..(j - 1) : IsFor(h, k) => rx[k].n < rx[j].n

(* The list of interfaces is that of the connections the VM has granted and *)
(* the application has not given up, each once, and the VM agrees; and a    *)
(* connection no interface has is one whose end, or whose beginning, is     *)
(* still to be told.                                                        *)
Linked(h) == itf[h].state = "attached" \/ (itf[h].state = "pending" /\ itf[h].conn # NoConn)
IfsRight ==
    /\ \A i, j \in 1..Len(ifs) : i # j => ifs[i] # ifs[j]
    /\ \A h \in Handles : InIfs(h) <=> Linked(h)
    /\ \A h \in Handles : Linked(h) => vmconn[itf[h].conn] = h
    /\ \A i \in Conns :
         vmconn[i] # NoHandle =>
           \/ Linked(vmconn[i]) /\ itf[vmconn[i]].conn = i
           \/ \E j \in 1..Len(tx) : tx[j] = DiscReq(i)
           \/ \E j \in 1..Len(rx) : rx[j] = ConnRsp(i)

(* Packets reach the interface they were sent to, once, in order and not    *)
(* before the caller of coremodel_attach_* knows it, and the interfaces are *)
(* those of the VM's connections, though their indices are used again.      *)
Routed == NoEarlyCallback /\ Conservation /\ IfsRight

(* coremodel_list returns all the devices of the VM or nothing, whatever    *)
(* the sizes of the pages and though a page may have to be taken twice.     *)
ListRight == result \in {Null, Devices}

(* A packet for an attached interface that is not stalled reaches it, the   *)
(* deferred ones included.                                                  *)
Reached ==
    \A h \in Handles :
        itf[h].state = "attached" /\ itf[h].rxbufs # <<>>
            ~> itf[h].state # "attached" \/ itf[h].rxbufs = <<>> \/ itf[h].busy

(* A query whose VM answers returns to its caller.                          *)
QueriesReturn == call # "none" ~> call = "none"

(* Neither a packet nor a caller is left waiting.                           *)
Progress == Reached /\ QueriesReturn
=============================================================================
