---------------------------- MODULE MC_Pipeline ----------------------------
(* Instance of Pipeline for TLC: two concurrent calls on one key.          *)
EXTENDS Pipeline, TLC

CONSTANTS c1, c2
MC_Calls == {c1, c2}
MC_Keys == {"k1"}
\* Statuses of _handle_response branches the server may send
\* without acting; 404 and 409 (the generic 4xx branch) come from the
\* server executing a request on a missing or an existing key.
MC_RejectStatuses == {401, 422, 503}
MC_RejectRedirect == {301, 401, 503}
MC_ContractRejects == {503}
MC_Bodies == {"json", "text"}
MC_AllFaults == {"ConnectError", "ReadTimeout", "ReadError"}
MC_TransientFaults == {"ConnectError", "ReadTimeout"}

Symmetry == Permutations(MC_Calls)
=============================================================================
