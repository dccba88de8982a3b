------------------------------- MODULE MCApp -------------------------------
(***************************************************************************)
(* Small instances of the parts of the doorbell example that share nothing *)
(* with each other, checked in one run: the part that runs is chosen at    *)
(* the start, and the others stay as they are.                             *)
(***************************************************************************)
EXTENDS P2pSession, SlClient, SlProfiles, MCDataPoints

VARIABLE part

sessionPart == part = "session" /\ UNCHANGED <<clVars, prVars, dpVars, part>>
dpPart == part = "data" /\ UNCHANGED <<sessionVars, clVars, prVars, part>>
prPart ==       \* every set of profiles is a first one, and no call reads what an earlier one returned
    /\ part = "profiles" /\ op = "none"
    /\ UNCHANGED <<sessionVars, clVars, dpVars, part>>
clPart ==       \* a client that pings, or one that scans and reads, to which events are nothing
    /\ \/ part = "ping" /\ UNCHANGED scanVars
       \/ part = "scan" /\ UNCHANGED <<pingVars, raised>>
    /\ UNCHANGED <<sessionVars, prVars, dpVars, part>>

vars == <<sessionVars, clVars, prVars, dpVars, part>>

Init ==
    /\ SessionInit /\ ClInit /\ PrInit /\ DpInit
    /\ nextMode = STA               \* an access point gets no address to follow
    /\ part \in {"session", "ping", "scan", "profiles", "data"}
    /\ part # "profiles" => stored = {}

Next ==
    \/ sessionPart /\ SessionNext
    \/ clPart /\ ClNext
    \/ prPart /\ PrNext
    \/ dpPart /\ DpNext

(* The fairness of the parts that state some.                              *)
Fairness ==
    /\ WF_vars(sessionPart /\ Handler)
    /\ SF_vars(sessionPart /\ RunSpawned)
    /\ WF_vars(sessionPart /\ SdpStep)
    /\ WF_vars(clPart /\ (ClDriver \/ PingWrapper))

Spec == Init /\ [][Next]_vars /\ Fairness

(* The type invariants of the parts.                                       *)
TypeOK == SessionTypeOK /\ ClTypeOK /\ DpTypeOK

OneSsidLen == [n \in Nets |-> 4]

(* A key of each length there is: open, WEP only, WPA only, both, neither. *)
MCKeyLens == {0, 5, 9, 13, 3}
=============================================================================
