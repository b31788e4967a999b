---------------------------- MODULE EternalPipe -----------------------------
(***************************************************************************)
(* What one direction of an EternalTCP connection promises: the packets    *)
(* the receiver hands over are the packets the sender was given, in order, *)
(* each exactly once, whatever becomes of the TCP connections below.       *)
(***************************************************************************)
EXTENDS Naturals, Sequences

CONSTANT Packets

VARIABLES
    sent,        \* packets accepted from the sending application
    delivered    \* packets handed to the receiving application

Init == sent = << >> /\ delivered = << >>

Send(p) ==
    /\ sent' = Append(sent, p)
    /\ UNCHANGED delivered

Deliver ==
    /\ Len(delivered) < Len(sent)
    /\ delivered' = Append(delivered, sent[Len(delivered) + 1])
    /\ UNCHANGED sent

Next == (\E p \in Packets : Send(p)) \/ Deliver

Spec == Init /\ [][Next]_<<sent, delivered>>
=============================================================================
