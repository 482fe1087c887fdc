---------------------------- MODULE MC_Lifecycle ----------------------------
(* Instance of Lifecycle for TLC: two calls beside the caller's block.     *)
EXTENDS Lifecycle, TLC

CONSTANTS c1, c2
MC_Calls == {c1, c2}
MC_Keys == {"k1"}
MC_RejectStatuses == {503}
MC_Bodies == {"text"}
MC_Faults == {"ReadTimeout"}
=============================================================================
