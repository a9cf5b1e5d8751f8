----------------------------- MODULE PacketFifo -----------------------------
(***************************************************************************)
(* What the receive side of coremodel.c promises whatever the sizes of the *)
(* reads: the packets of the VM reach coremodel_process_packet one by one, *)
(* whole, in the order they were sent; packets above the size limit are    *)
(* stepped over and nothing else is; and none waits for ever.              *)
(***************************************************************************)
EXTENDS Naturals, Sequences

CONSTANTS
    Packets,      \* the packets the VM may send
    Oversize(_)   \* those that are stepped over

VARIABLES
    sent,   \* packets sent, oldest first
    done,   \* how many of them have been dealt with
    got     \* those handed to coremodel_process_packet

vars == <<sent, done, got>>

Init ==
    /\ sent = <<>>
    /\ done = 0
    /\ got = <<>>

Send ==
    /\ \E p \in Packets : sent' = Append(sent, p)
    /\ UNCHANGED <<done, got>>

Take ==
    /\ done < Len(sent)
    /\ done' = done + 1
    /\ got' = IF Oversize(sent[done + 1]) THEN got ELSE Append(got, sent[done + 1])
    /\ UNCHANGED sent

Next == Send \/ Take

Spec == Init /\ [][Next]_vars /\ WF_vars(Take)
=============================================================================
