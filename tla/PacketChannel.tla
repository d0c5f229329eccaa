---------------------------- MODULE PacketChannel ----------------------------
(***************************************************************************)
(* What the harness promises about one connection (spec.md 5): the        *)
(* packets a client decodes are the packets the server sent, each whole,  *)
(* none skipped, none repeated, in the order the server sent them.        *)
(***************************************************************************)
EXTENDS Naturals, Sequences

CONSTANT Packets      \* payloads the server may send

VARIABLES
    sent,             \* payloads the server has sent, in order
    delivered         \* payloads the client has decoded, in order

Init == sent = <<>> /\ delivered = <<>>

Send(p) == sent' = Append(sent, p) /\ UNCHANGED delivered

Receive ==
    /\ Len(delivered) < Len(sent)
    /\ delivered' = Append(delivered, sent[Len(delivered) + 1])
    /\ UNCHANGED sent

Next == (\E p \in Packets : Send(p)) \/ Receive

Spec == Init /\ [][Next]_<<sent, delivered>>
=============================================================================
