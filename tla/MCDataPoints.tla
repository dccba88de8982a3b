---------------------------- MODULE MCDataPoints ----------------------------
(***************************************************************************)
(* Small instances of DataPoints: complex data of two kinds, the second of *)
(* which looks like the start of a data point.                             *)
(***************************************************************************)
EXTENDS DataPoints

Packed == {<<Arr(2), Str(s), Uns(3)>> : s \in DpTexts}
     \cup {<<Arr(2), Uns(7), Arr(2), Str(s), Uns(3)>> : s \in DpTexts}
=============================================================================
