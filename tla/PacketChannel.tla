---------------------------- MODULE PacketChannel ---------------------------
(***************************************************************************)
(* What the main loops take ReceivePacket for: a channel that hands over   *)
(* the packets of Send, whole, once each and in order.  Framing implements *)
(* it when no packet is split on its way.                                  *)
(***************************************************************************)
EXTENDS Naturals, Sequences

VARIABLES sent, received

vars == <<sent, received>>

Init == sent = << >> /\ received = << >>

\* One more packet, whatever it holds.
Send ==
    /\ Len(sent') = Len(sent) + 1
    /\ \A i \in 1..Len(sent) : sent'[i] = sent[i]
    /\ UNCHANGED received

Receive ==
    /\ Len(received) < Len(sent)
    /\ received' = Append(received, sent[Len(received) + 1])
    /\ UNCHANGED sent

Next == Send \/ Receive

Spec == Init /\ [][Next]_vars
=============================================================================
