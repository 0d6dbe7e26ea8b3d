--------------------------- MODULE PacketChannel ----------------------------
(***************************************************************************)
(* What PacketProcessing may rely on: it is given the packets of the       *)
(* connection whole, once, and in the order the remote end sent them.  A   *)
(* connection that ends takes its undelivered packets with it.             *)
(***************************************************************************)
EXTENDS Integers, Sequences

CONSTANT Packets

VARIABLES sent,       \* the packets sent on this connection
          delivered   \* the packets given to PacketProcessing

Init == sent = << >> /\ delivered = << >>

Send(p) == sent' = Append(sent, p) /\ UNCHANGED delivered

Deliver == /\ Len(delivered) < Len(sent)
           /\ delivered' = Append(delivered, sent[Len(delivered) + 1])
           /\ UNCHANGED sent

Break == sent' = << >> /\ delivered' = << >>

Next == (\E p \in Packets : Send(p)) \/ Deliver \/ Break

Spec == Init /\ [][Next]_<<sent, delivered>>
=============================================================================
