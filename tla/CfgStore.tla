------------------------------ MODULE CfgStore ------------------------------
(***************************************************************************)
(* What the configuration store promises: one value of fixed size for each *)
(* id, and a set that overlays the beginning of the value of its own id.   *)
(***************************************************************************)
EXTENDS Integers, Sequences

CONSTANTS
    Ids,        \* the ids of the table
    Size,       \* the number of bytes of each value
    Data        \* what a set may pass

VARIABLE value

Overlay(v, d) == [k \in 1 .. Len(v) |-> IF k <= Len(d) THEN d[k] ELSE v[k]]

Init == value = [i \in Ids |-> [k \in 1 .. Size[i] |-> 0]]

Set(i, d) == value' = [value EXCEPT ![i] = Overlay(@, d)]

Next == \E i \in Ids, d \in Data : Set(i, d)

Spec == Init /\ [][Next]_value
=============================================================================
