------------------------------ MODULE Lifecycle ------------------------------
(***************************************************************************)
(* The transport lifecycle of AtlasDNSClient and AsyncAtlasDNSClient       *)
(* (client.py): the httpx client created in __init__, released by close()  *)
(* / aclose(), which __exit__ / __aexit__ call when the `with` / `async    *)
(* with` block of the caller ends, normally or by an exception.  The calls *)
(* of Pipeline run beside the block: threads of the caller, or tasks it    *)
(* created and did not await before the block ended.                       *)
(*                                                                         *)
(* httpx is the environment.  Its close is guarded by its own state (a     *)
(* second close does nothing); it marks the client closed at once and then *)
(* closes the connection pool, which for AsyncClient is an await.  A       *)
(* request on a closed client raises RuntimeError before anything is sent; *)
(* a request whose connection the pool closes under it raises ReadError.   *)
(***************************************************************************)
EXTENDS Pipeline

VARIABLES
    client, \* httpx client state: "open" or "closed"
    pool,   \* its connection pool: "open", "closing" (being closed), "released"
    body    \* the caller's with block: "running", "closing" (in an explicit
            \* close()), "exiting" (in __exit__), "exited"

lvars == <<client, pool, body>>
allvars == <<vars, lvars>>

\* What httpx raises on a closed client, and under a request whose
\* connection was closed by the pool.
CloseFaults == {"RuntimeError", "ReadError"}

-----------------------------------------------------------------------------
(* The code.                                                               *)

\* httpx Client.close / AsyncClient.aclose on an open client: the state is
\* set to closed before the pool is closed.
StartClose == client' = "closed" /\ pool' = "closing"

\* close(): self.client.close() (await self.client.aclose()), called by the
\* caller inside the block; it returns once the pool is closed.
Close ==
    /\ body = "running"
    /\ client = "open"
    /\ StartClose
    /\ body' = "closing"
    /\ UNCHANGED vars

\* Mutant: __aexit__ calling self.close() without await, so the coroutine
\* is never run.
ExitNoAwait ==
    /\ body = "running"
    /\ body' = "exited"
    /\ UNCHANGED <<vars, client, pool>>

\* __exit__ / __aexit__ when the block ends (also by an exception):
\* self.close(); on a client already closed httpx returns at once.
Exit ==
    /\ body = "running"
    /\ IF client = "open"
         THEN StartClose /\ body' = "exiting"
         ELSE body' = "exited" /\ UNCHANGED <<client, pool>>
    /\ UNCHANGED vars

\* The pool's connections are closed, and the close() that started it returns.
Release ==
    /\ pool = "closing"
    /\ pool' = "released"
    /\ body' = CASE body = "closing" -> "running"
                 [] body = "exiting" -> "exited"
                 [] OTHER            -> body
    /\ UNCHANGED <<vars, client>>

\* One try of _request on an open client, and the answer to it.
LSend(c) == client = "open" /\ Send(c) /\ UNCHANGED lvars
LReceive(c) == Receive(c) /\ UNCHANGED lvars
LReadFailure(c) == ReadFailure(c) /\ UNCHANGED lvars

\* One try of _request on a closed client: client.request raises
\* RuntimeError, which backoff does not retry.
ClosedSend(c) ==
    /\ pc[c] = "ready"
    /\ client = "closed"
    /\ attempts' = [attempts EXCEPT ![c] = @ + 1]
    /\ OnException(c, "RuntimeError", attempts[c] + 1)
    /\ UNCHANGED <<store, op, pending, resp, applied, client, pool, body>>

\* The pool closes the connection a waiting try reads from: ReadError,
\* which backoff does not retry.
Dropped(c) ==
    /\ pool # "open"
    /\ pc[c] = "waiting"
    /\ resp[c] = NoResp
    /\ OnException(c, "ReadError", attempts[c])
    /\ UNCHANGED <<store, op, attempts, pending, resp, applied, client, pool, body>>

LServer(r) == (ServerReject(r) \/ ServerExecute(r)) /\ UNCHANGED lvars

LInit ==
    /\ Init
    /\ client = "open"
    /\ pool = "open"
    /\ body = "running"

\* The block has ended, every call has returned or raised, and the
\* server has nothing left.
LTerminated ==
    /\ body = "exited"
    /\ pool # "closing"
    /\ \A c \in Calls : pc[c] = "done"
    /\ pending = {}
    /\ UNCHANGED allvars

LNext ==
    \/ Close \/ Exit \/ Release
    \/ \E c \in Calls : LSend(c) \/ ClosedSend(c) \/ LReceive(c) \/ LReadFailure(c) \/ Dropped(c)
    \/ \E r \in Requests : LServer(r)
    \/ LTerminated

\* The caller's block ends, and a close that was started completes: asyncio
\* runs the awaited aclose() to its end.  No fairness is assumed for the
\* calls or the server.
Fairness == WF_allvars(Exit) /\ WF_allvars(Release)

LSpec == LInit /\ [][LNext]_allvars /\ Fairness

-----------------------------------------------------------------------------
(* Properties.                                                             *)

LEntries == Entries \cup [err : CloseFaults, status : {0}, body : {"none"}]
LOutcomes == Outcomes \cup [kind : {"raise"}, exc : CloseFaults, data : {"none"}, code : {0}]

\* The type of every variable.
LTypeOK ==
    /\ store \in [Keys -> BOOLEAN]
    /\ op \in [Calls -> Operations]
    /\ pc \in [Calls -> {"ready", "waiting", "done"}]
    /\ attempts \in [Calls -> 0..MaxTries]
    /\ pending \subseteq Requests
    /\ resp \in [Calls -> Responses \cup {NoResp}]
    /\ log \in [Calls -> Seq(LEntries)]
    /\ outcome \in [Calls -> LOutcomes]
    /\ applied \in [Calls -> Nat]
    /\ client \in {"open", "closed"}
    /\ pool \in {"open", "closing", "released"}
    /\ body \in {"running", "closing", "exiting", "exited"}

\* Spec section 3: the transport handle is released on every exit path of
\* the scoped use (__exit__ / __aexit__ call close()).
TransportReleased == <>(pool = "released")

=============================================================================
