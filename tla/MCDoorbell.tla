----------------------------- MODULE MCDoorbell -----------------------------
(* Small instances of Doorbell: one network with the longest name there    *)
(* can be, or one with a short name and one with a long name.              *)
EXTENDS Doorbell

MCNets == {"home", "neighbour"}
OneNet == {"home"}
MCSsidLen == [n \in MCNets |-> IF n = "home" THEN 4 ELSE 9]
OneSsidLen == [n \in OneNet |-> 32]
=============================================================================
