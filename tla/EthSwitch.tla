----------------------------- MODULE EthSwitch -----------------------------
(***************************************************************************)
(* The Ethernet switch example (eth-switch.c): clients given on the        *)
(* command line, each a connection with one Ethernet interface, and for    *)
(* each a linked list of the MAC addresses seen behind it.  A frame is     *)
(* handled whole inside the tx callback of the client it came from: look   *)
(* the source up and learn it, look the destination up, send on.  A        *)
(* look-up walks the lists of all clients and purges old entries as it     *)
(* goes.                                                                   *)
(*                                                                         *)
(* The lists are modelled as the heap they are.  A step that follows a     *)
(* null pointer or touches freed memory leaves the switch `broken', after  *)
(* which nothing is claimed.                                               *)
(***************************************************************************)
EXTENDS Integers, FiniteSets, SequencesExt

CONSTANTS
    Clients,    \* -c arguments, taken in any order
    Macs,       \* station addresses
    Places,     \* [Macs -> SUBSET Clients]: where a station may be
    Purge,      \* SWITCH_MAC_PURGE_SECONDS, in ticks
    MaxEntries, \* bound: MAC entries that exist at a time
    Losses      \* a connection may be lost, BOOLEAN

NoClient == "none"
Bcast == "ff:ff:ff:ff:ff:ff"
NULL == 0

ASSUME EthSwitchAssumption ==
    /\ IsFiniteSet(Clients) /\ NoClient \notin Clients
    /\ Places \in [Macs -> SUBSET Clients] /\ Bcast \notin Macs
    /\ Purge \in Nat /\ MaxEntries \in Nat \ {0} /\ Losses \in BOOLEAN

VARIABLES
    phase,      \* "args", "run", "stop", "end"
    running,    \* g_state.run
    clients,    \* g_state.clients, the newest first
    nclients,   \* g_state.nclients
    heap,       \* MAC entries by address: [mac, age, next], or Freed
    me, nme,    \* per client: head of its list, count
    broken,     \* "no", or the step that used memory that is not there
    heard,      \* per station: client it last sent from, ticks since then
    frame       \* the last frame: source, destination, the clients it went to

table == <<heap, me, nme>>
switchvars == <<phase, running, clients, nclients, table, broken, heard, frame>>

Addresses == 1 .. MaxEntries
Freed == [mac |-> Bcast, age |-> 0, next |-> NULL]
Live(h, a) == h[a] # Freed
NoFrame == [src |-> NoClient, dst |-> Bcast, to |-> {}]
Aged(n) == IF n > Purge THEN n ELSE n + 1

SwitchInit ==
    /\ phase = "args" /\ running = FALSE
    /\ clients = <<>> /\ nclients = 0
    /\ heap = [a \in Addresses |-> Freed]
    /\ me = [c \in Clients |-> NULL] /\ nme = [c \in Clients |-> 0]
    /\ broken = "no"
    /\ heard = [m \in Macs |-> [at |-> NoClient, age |-> Purge + 1]]
    /\ frame = NoFrame
-----------------------------------------------------------------------------
(* switch_cli_locate.  A walk is at entry e of client Head(cs), after entry p,
   which is not reset from one client to the next. *)
Walk(t, cs, e, p) == [t |-> t, cs |-> cs, e |-> e, p |-> p, broken |-> FALSE]
Stuck(w) == [w EXCEPT !.broken = TRUE]
NextClient(w) ==
    Walk(w.t, Tail(w.cs), IF Len(w.cs) > 1 THEN w.t.me[w.cs[2]] ELSE NULL, w.p)

\* Mutant: an entry goes when it is as old as the purge time.
ExpiredEarly(x) == x.age >= Purge
Expired(x) == x.age > Purge

\* Mutant: the head of the client stays when its last entry goes.
PurgedHeadStays(w) ==
    LET c == Head(w.cs)
        rest == w.t.heap[w.e].next
        linked == IF w.p = NULL THEN w.t.heap
                  ELSE [w.t.heap EXCEPT ![w.p].next = rest]
        t == [w.t EXCEPT !.heap = [linked EXCEPT ![w.e] = Freed], !.nme[c] = @ - 1]
    IN  IF t.nme[c] = 0 THEN NextClient(Walk(t, w.cs, NULL, NULL))
        ELSE IF w.p = NULL THEN Stuck(w)
        ELSE Walk(t, w.cs, rest, w.p)

\* An entry is unlinked through its predecessor only; the client's own head
\* is set when its last entry goes, and then the walk of it ends.
Purged(w) ==
    LET c == Head(w.cs)
        rest == w.t.heap[w.e].next
        linked == IF w.p = NULL THEN w.t.heap
                  ELSE [w.t.heap EXCEPT ![w.p].next = rest]
        t == [w.t EXCEPT !.heap = [linked EXCEPT ![w.e] = Freed], !.nme[c] = @ - 1]
    IN  IF t.nme[c] = 0
          THEN NextClient(Walk([t EXCEPT !.me[c] = NULL], w.cs, NULL, NULL))
        ELSE IF w.p = NULL THEN Stuck(w)
        ELSE Walk(t, w.cs, rest, w.p)

\* The entry is of station mac: the walk ends there.
Refreshed(w) == [w EXCEPT !.t.heap[w.e].age = 0]

WalkStep(w, mac) ==
    IF w.broken \/ w.cs = <<>> THEN w
    ELSE IF w.e = NULL THEN NextClient(w)
    ELSE IF ~Live(w.t.heap, w.e) THEN Stuck(w)
    ELSE IF w.t.heap[w.e].mac = mac THEN Refreshed(w)
    ELSE IF Expired(w.t.heap[w.e]) THEN Purged(w)
    ELSE Walk(w.t, w.cs, w.t.heap[w.e].next, w.e)

\* Where the walk from w ends: no step leads on from there, and a client has
\* no more than MaxEntries entries to walk.
Locate(w, mac) ==
    LET N == Len(w.cs) * (MaxEntries + 1)
        at[k \in 0 .. N] == IF k = 0 THEN w ELSE WalkStep(at[k - 1], mac)
    IN  at[N]

\* The look-up in table t: where it ended, with the table as it left it.
LookUp(t, mac) ==
    Locate(Walk(t, clients, IF clients = <<>> THEN NULL ELSE t.me[clients[1]], NULL), mac)
FoundAt(w) == IF w.cs = <<>> THEN NoClient ELSE Head(w.cs)

\* calloc: an address nothing points to.
Fresh(t) == {a \in Addresses : /\ ~Live(t.heap, a)
                               /\ \A c \in Clients : t.me[c] # a
                               /\ \A b \in Addresses : t.heap[b].next # a}
\* Mutant: the entry is not counted.
AddMacUncounted(t, c, mac) ==
    LET a == CHOOSE x \in Fresh(t) : TRUE IN
    [heap |-> [t.heap EXCEPT ![a] = [mac |-> mac, age |-> 0, next |-> t.me[c]]],
     me |-> [t.me EXCEPT ![c] = a],
     nme |-> t.nme]
AddMac(t, c, mac) ==
    LET a == CHOOSE x \in Fresh(t) : TRUE IN
    [heap |-> [t.heap EXCEPT ![a] = [mac |-> mac, age |-> 0, next |-> t.me[c]]],
     me |-> [t.me EXCEPT ![c] = a],
     nme |-> [t.nme EXCEPT ![c] = @ + 1]]

Others(c) == ToSet(clients) \ {c}

\* switch_eth_tx: a frame of station smac arrives from client c.
EthTx(c, smac, dmac) ==
    LET t0 == [heap |-> heap, me |-> me, nme |-> nme]
        src == LookUp(t0, smac)
        new == FoundAt(src) # c
        t1 == IF new THEN AddMac(src.t, c, smac) ELSE src.t
        dst == LookUp(t1, dmac)
        flood == dmac = Bcast \/ FoundAt(dst) = NoClient
        t2 == IF dmac = Bcast THEN t1 ELSE dst.t
        bad == src.broken \/ (dmac # Bcast /\ dst.broken)
    IN  /\ phase = "run" /\ broken = "no"
        /\ c \in ToSet(clients)
        /\ src.broken \/ ~new \/ Fresh(src.t) # {}
        /\ heard' = [heard EXCEPT ![smac] = [at |-> c, age |-> 0]]
        /\ IF bad THEN broken' = "walk" /\ UNCHANGED <<table, frame>>
           ELSE /\ heap' = t2.heap /\ me' = t2.me /\ nme' = t2.nme
                /\ frame' = [src |-> c, dst |-> dmac,
                             to |-> IF flood THEN Others(c) ELSE {FoundAt(dst)}]
                /\ UNCHANGED broken
        /\ UNCHANGED <<phase, running, clients, nclients>>

TimePasses ==
    /\ phase = "run" /\ broken = "no"
    /\ heap' = [a \in Addresses |-> IF Live(heap, a)
                                    THEN [heap[a] EXCEPT !.age = Aged(@)] ELSE Freed]
    /\ heard' = [m \in Macs |-> [heard[m] EXCEPT !.age = Aged(@)]]
    /\ UNCHANGED <<phase, running, clients, nclients, me, nme, broken, frame>>
-----------------------------------------------------------------------------
(* Command line, service loop, end. *)

\* switch_client_add: connected and attached, or not and freed - which
\* counts a client less that was never counted.
AddClient(c) ==
    /\ phase = "args"
    /\ c \notin ToSet(clients)
    /\ clients' = <<c>> \o clients
    /\ nclients' = nclients + 1
    /\ UNCHANGED <<phase, running, table, broken, heard, frame>>

\* A client that could not be added ends the parsing, not the program: main
\* goes on unless the count says there is no client.
Serve(n) == /\ nclients' = n
            /\ phase' = IF n = 0 THEN "stop" ELSE "run"
            /\ running' = (n # 0)
            /\ UNCHANGED <<clients, table, broken, heard, frame>>
AddFails ==
    /\ phase = "args"
    /\ ToSet(clients) # Clients
    /\ Serve(nclients - 1)
ArgsDone ==
    /\ phase = "args" /\ clients # <<>>
    /\ Serve(nclients)

\* ethernet_preparefds has no client to wait for.
NoClients ==
    /\ phase = "run" /\ clients = <<>>
    /\ phase' = "stop"
    /\ UNCHANGED <<running, clients, nclients, table, broken, heard, frame>>

\* ethernet_processfds: when client c fails, the one after it is freed, and
\* the loop goes on with what was freed; after the last there is none.
Fail(c) ==
    /\ Losses
    /\ phase = "run" /\ broken = "no"
    /\ c \in ToSet(clients)
    /\ broken' = "loss"
    /\ clients' = (LET i == CHOOSE j \in DOMAIN clients : clients[j] = c
                   IN  IF i = Len(clients) THEN clients ELSE RemoveAt(clients, i + 1))
    /\ nclients' = nclients - (Len(clients) - Len(clients'))
    /\ UNCHANGED <<phase, running, table, heard, frame>>

Interrupt ==
    /\ phase = "run" /\ running
    /\ running' = FALSE
    /\ UNCHANGED <<phase, clients, nclients, table, broken, heard, frame>>

\* The entries of a list that starts at a.
Listed(h, a) ==
    {b \in Addresses : \A S \in SUBSET Addresses :
        a \in S /\ (\A x \in S : h[x].next # NULL => h[x].next \in S) => b \in S}
ListOf(c) == IF me[c] = NULL THEN {} ELSE Listed(heap, me[c])

\* switch_cleanup: client_free for each, with its entries.
Cleanup ==
    LET gone == UNION {ListOf(c) : c \in ToSet(clients)} IN
    /\ phase = "stop" \/ (phase = "run" /\ ~running)
    /\ broken = "no"
    /\ phase' = "end"
    /\ clients' = <<>> /\ nclients' = nclients - Len(clients)
    /\ heap' = [a \in Addresses |-> IF a \in gone THEN Freed ELSE heap[a]]
    /\ me' = [c \in Clients |-> NULL]
    /\ nme' = [c \in Clients |-> 0]
    /\ UNCHANGED <<running, broken, heard, frame>>

SwitchNext ==
    \/ \E c \in Clients : AddClient(c) \/ Fail(c)
    \/ AddFails \/ ArgsDone \/ NoClients \/ Interrupt \/ Cleanup \/ TimePasses
    \/ \E m \in Macs, d \in Macs \cup {Bcast} : \E c \in Places[m] : EthTx(c, m, d)
SwitchSpec == SwitchInit /\ [][SwitchNext]_switchvars
-----------------------------------------------------------------------------
(* Properties. *)

\* Every variable has its type, and while the switch is whole every entry in
\* memory is in the list of exactly one client, a client of the switch, whose
\* count is the length of its list: nothing leaks and no list shares a tail.
SwitchTypeOK ==
    /\ phase \in {"args", "run", "stop", "end"} /\ running \in BOOLEAN
    /\ clients \in Seq(Clients) /\ IsInjective(clients) /\ nclients \in Int
    /\ broken \in {"no", "walk", "loss"}
    /\ heap \in [Addresses -> [mac : Macs \cup {Bcast}, age : 0 .. Purge + 1,
                               next : Addresses \cup {NULL}]]
    /\ me \in [Clients -> Addresses \cup {NULL}] /\ nme \in [Clients -> Int]
    /\ heard \in [Macs -> [at : Clients \cup {NoClient}, age : 0 .. Purge + 1]]
    /\ frame.to \subseteq Clients
    /\ broken = "no" =>
          /\ \A c \in Clients : nme[c] = Cardinality(ListOf(c))
          /\ \A a \in Addresses : Live(heap, a) =>
                Cardinality({c \in ToSet(clients) : a \in ListOf(c)}) = 1

\* A look-up never follows a null pointer or reads an entry that was freed,
\* whatever entries it purges on the way.
WalkSafe == broken # "walk"

\* A frame never comes back to a client that is not the destination's: it
\* goes to every other client, or to the one the destination was last heard
\* at; and it does go there alone if that was less than the purge time ago.
Forwarded ==
    (broken = "no" /\ phase = "run" /\ frame # NoFrame) =>
        \/ frame.dst = Bcast /\ frame.to = ToSet(clients) \ {frame.src}
        \/ frame.dst # Bcast /\ frame.to = {heard[frame.dst].at}
        \/ /\ frame.dst # Bcast /\ frame.to = ToSet(clients) \ {frame.src}
           /\ heard[frame.dst].age > Purge
=============================================================================
