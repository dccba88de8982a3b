------------------------------ MODULE MsgQueue ------------------------------
(***************************************************************************)
(* What a message queue of the platform layer promises its clients: a      *)
(* bounded first-in first-out box, every put and every get one atomic      *)
(* step.  iotk_pal_os.h states it for Slack = 0.                           *)
(*                                                                         *)
(* With Slack > 0 the box accepts up to Slack messages more than the       *)
(* Capacity slots it has, and each message beyond Capacity also replaces   *)
(* the unread message that lies Capacity places before it: a ring that has *)
(* wrapped over its own tail.                                              *)
(***************************************************************************)
EXTENDS Integers, Sequences

CONSTANTS
    Capacity,   \* number of slots
    Slack,      \* messages accepted beyond Capacity; 0 is the documented queue
    Messages,   \* what can be put
    Takers,     \* who gets
    Nothing     \* what a taker holds before its first get

VARIABLES
    box,        \* the unread messages, oldest first
    got         \* the message each taker got last

mqvars == <<box, got>>

Init ==
    /\ box = << >>
    /\ got = [t \in Takers |-> Nothing]

Put(m) ==
    /\ Len(box) < Capacity + Slack
    /\ box' = [i \in 1 .. Len(box) + 1 |->
                 IF (Len(box) + 1 - i) % Capacity = 0 THEN m ELSE box[i]]
    /\ UNCHANGED got

Get(t) ==
    /\ box # << >>
    /\ got' = [got EXCEPT ![t] = Head(box)]
    /\ box' = Tail(box)

Next ==
    \/ \E m \in Messages : Put(m)
    \/ \E t \in Takers : Get(t)

Spec == Init /\ [][Next]_mqvars
=============================================================================
