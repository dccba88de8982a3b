----------------------------- MODULE MCPalEvent -----------------------------
(* Small instances of PalEvent: the port of the FH8610, or the one whose   *)
(* calls suit their kernel objects.                                        *)
EXTENDS PalEvent

Fh8610 == {RtThread}
OnWindows == {Windows}
=============================================================================
