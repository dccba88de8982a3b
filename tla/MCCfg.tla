-------------------------------- MODULE MCCfg --------------------------------
(* A small table with values of two, one and three bytes, and strings from *)
(* one byte to one more than the longest value holds.  The bytes 1 and 2   *)
(* are also ids.                                                           *)
EXTENDS Cfg

MCSize == <<2, 1, 3>>
MCData == {<<1>>, <<2, 1>>, <<2, 2, 1>>, <<1, 2, 2, 1>>}
=============================================================================
