----------------------------- MODULE MCPalMsgQ -----------------------------
(* Small instances of PalMsgQ: threads are model values.                   *)
EXTENDS PalMsgQ

AnyTimeout == {"forever", "finite"}
Forever == {"forever"}
=============================================================================
