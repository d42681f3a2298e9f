---------------------------- MODULE LossyChannel ----------------------------
(***************************************************************************)
(* What the transport function promises its user over a line that loses    *)
(* segments and repeats the latest one: a message arrives whole or not at  *)
(* all, and never after a later one.  It may arrive twice.                 *)
(***************************************************************************)
EXTENDS Naturals, Sequences

CONSTANT Message

VARIABLES
    sent,       \* the messages the sender was given, in order
    delivered,  \* the messages the receiver handed up, in order
    last        \* the place in `sent` of the one handed up last; 0 before it

vars == <<sent, delivered, last>>

Init == sent = <<>> /\ delivered = <<>> /\ last = 0

Send(m) ==
    /\ sent' = Append(sent, m)
    /\ UNCHANGED <<delivered, last>>

Deliver(i) ==
    /\ i >= last
    /\ delivered' = Append(delivered, sent[i])
    /\ last' = i
    /\ UNCHANGED sent

Next == (\E m \in Message : Send(m)) \/ (\E i \in DOMAIN sent : Deliver(i))

Spec == Init /\ [][Next]_vars
=============================================================================
