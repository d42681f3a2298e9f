---------------------------- MODULE PollService -----------------------------
(***************************************************************************)
(* What a polling master promises its operator: the picture of the points  *)
(* it shows after a poll is one the outstation really had, no older than   *)
(* the moment that poll began.  A poll may fail; it never lies.            *)
(***************************************************************************)
EXTENDS Naturals

CONSTANT NoPoll        \* no number: no poll is under way

VARIABLES
    db,         \* version of the outstation's points
    pending,    \* the version when the poll under way began, or NoPoll
    view        \* the version the master shows

vars == <<db, pending, view>>

Init == db = 0 /\ pending = NoPoll /\ view = 0

Update == db' = db + 1 /\ UNCHANGED <<pending, view>>

Begin ==
    /\ pending = NoPoll
    /\ pending' = db
    /\ UNCHANGED <<db, view>>

Complete ==
    /\ pending # NoPoll
    /\ view' \in pending .. db
    /\ pending' = NoPoll
    /\ UNCHANGED db

Fail ==
    /\ pending # NoPoll
    /\ pending' = NoPoll
    /\ UNCHANGED <<db, view>>

Next == Update \/ Begin \/ Complete \/ Fail

Spec == Init /\ [][Next]_vars
=============================================================================
