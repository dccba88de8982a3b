------------------------------ MODULE MCPorts ------------------------------
(***************************************************************************)
(* Small instances of the platform layer but for the Windows queue, all in *)
(* one run: its parts share nothing, so the one that runs is chosen at the *)
(* start, and the others stay as they are.                                 *)
(***************************************************************************)
EXTENDS PalEvent, PalLinuxQ, PalKernelQ, PalTask

VARIABLE part

evPart == part = "event"   /\ UNCHANGED <<lxVars, kqVars, tkVars, part>>
lxPart == part = "linuxq"  /\ UNCHANGED <<evVars, kqVars, tkVars, part>>
kqPart == part = "kernelq" /\ UNCHANGED <<evVars, lxVars, tkVars, part>>
tkPart == part = "task"    /\ UNCHANGED <<evVars, lxVars, kqVars, part>>

vars == <<evVars, lxVars, kqVars, tkVars, part>>

Init ==
    /\ EvInit /\ LxInit /\ KqInit /\ TkInit
    /\ part \in {"event", "linuxq", "kernelq", "task"}
    /\ part # "event" => port = Windows     \* one of them is enough

Next ==
    \/ evPart /\ EvNext
    \/ lxPart /\ LxNext
    \/ kqPart /\ KqNext
    \/ tkPart /\ TkNext

(* The fairness of the one part that states some.                          *)
Fairness == \A w \in Waiters : SF_vars(evPart /\ WaitReturn(w))

Spec == Init /\ [][Next]_vars /\ Fairness

(* The type invariants of the parts.                                       *)
TypeOK == EvTypeOK /\ LxTypeOK /\ KqTypeOK /\ TkTypeOK
=============================================================================
