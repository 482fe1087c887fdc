----------------------------- MODULE MC_Facade -----------------------------
(* Instance of Facade for TLC: one call of any facade method.              *)
EXTENDS Facade, TLC

CONSTANTS c1
MC_Calls == {c1}
MC_Keys == {"k1"}
MC_RejectStatuses == {404, 503}
MC_Bodies == {"json", "text"}
MC_JsonBodies == {"json"}
MC_Faults == {"ConnectError", "ReadTimeout"}
=============================================================================
