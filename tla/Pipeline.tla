------------------------------ MODULE Pipeline ------------------------------
(***************************************************************************)
(* The request pipeline of the Atlas DNS Python SDK (client.py): the       *)
(* _request method of AtlasDNSClient and AsyncAtlasDNSClient, wrapped in   *)
(* the backoff.on_exception decorator, and BaseClient._handle_response.    *)
(*                                                                         *)
(* Each element of Calls is one invocation of _request: a thread of the    *)
(* blocking client or a task of the asynchronous one; they share one       *)
(* client and one server.  The server and the network (httpx and the       *)
(* Atlas DNS server) are the environment: a request reaches the server or  *)
(* fails to connect; a delivered request is handled by the server at any   *)
(* later time, also after the client stopped waiting for it; the client    *)
(* receives the answer to its current attempt or gives up on it with a    *)
(* read timeout or a read error.                                           *)
(***************************************************************************)
EXTENDS Naturals, Sequences

CONSTANTS
    Calls,          \* concurrent invocations of _request
    Keys,           \* resource identifiers interpolated into the path
    MaxTries,       \* max_tries=3 of the backoff decorator
    MaxRetries,     \* the max_retries argument of BaseClient.__init__
    RejectStatuses, \* statuses the server may answer without acting
    Bodies,         \* kinds of response body: "json" or non-JSON "text"
    Faults          \* the httpx exceptions the network raises in this run

ASSUME CallsAssumption == Calls # {}
ASSUME MaxTriesAssumption == MaxTries \in Nat \ {0}
ASSUME MaxRetriesAssumption == MaxRetries \in Nat
ASSUME RejectAssumption == RejectStatuses \subseteq (100..599 \ 200..299)
ASSUME BodiesAssumption == Bodies \subseteq {"json", "text"} /\ "text" \in Bodies
ASSUME FaultsAssumption ==
    Faults \subseteq {"ConnectError", "ConnectTimeout", "ReadTimeout", "ReadError"}

VARIABLES
    store,    \* store[k]: the server holds resource k
    op,       \* op[c]: method and key of call c (its arguments, fixed)
    pc,       \* "ready" to start an attempt, "waiting" for its answer, "done"
    attempts, \* attempts[c]: the backoff decorator's tries counter
    pending,  \* requests delivered to the server and not yet handled
    resp,     \* resp[c]: the answer to c's current attempt, once it arrived
    log,      \* log[c]: how each attempt of c ended (history)
    outcome,  \* outcome[c]: what _request returned or raised
    applied   \* applied[c]: times the server executed one of c's requests

vars == <<store, op, pc, attempts, pending, resp, log, outcome, applied>>

Methods == {"GET", "POST", "PUT", "DELETE"}
\* Try number t of call c, as delivered to the server.
Requests == [call : Calls, try : 1..MaxTries]
Operations == [method : Methods, key : Keys]

\* The httpx exceptions: a connect fault means the request never reached
\* the server (ConnectTimeout stands also for WriteTimeout and PoolTimeout).
ConnectFaults == {"ConnectError", "ConnectTimeout"}
ReadFaults == {"ReadTimeout", "ReadError"}

\* How an attempt ended: an HTTP response, or an exception of httpx.
RespEntry(s, b) == [err |-> "none", status |-> s, body |-> b]
FailEntry(e) == [err |-> e, status |-> 0, body |-> "none"]
NoResp == RespEntry(0, "none")

\* What _request returns (the decoded body) or raises (exception class,
\* message or carried body, and the status embedded in the message).
NoOutcome == [kind |-> "none", exc |-> "none", data |-> "none", code |-> 0]
Value(v) == [kind |-> "value", exc |-> "none", data |-> v, code |-> 0]
Raise(e, m, s) == [kind |-> "raise", exc |-> e, data |-> m, code |-> s]

\* The exception classes of the package's exceptions module.
TypedErrors == {"AtlasDNSException", "AuthenticationError",
                "ResourceNotFoundError", "ValidationError",
                "RateLimitError", "ServerError"}

-----------------------------------------------------------------------------
(* The code.                                                               *)

\* Mutants: plausible slips in the code below, used to show that the
\* properties can tell them apart from the code.
\* A tuple of httpx.TransportError that also retries read errors.
RetryOnAllTransport == {"ConnectError", "ConnectTimeout", "ReadTimeout", "ReadError"}
\* An off-by-one in the give-up check, one way and the other.
GivesUpLate(e, n) == e \notin {"ConnectError", "ConnectTimeout", "ReadTimeout"} \/ n = MaxTries + 1
GivesUpEarly(e, n) == e \notin {"ConnectError", "ConnectTimeout", "ReadTimeout"} \/ n >= MaxTries - 1

\* The exception types the decorator retries: httpx.TimeoutException (its
\* subclasses ConnectTimeout, ReadTimeout, ...) and httpx.ConnectError.
RetryOn == {"ConnectError", "ConnectTimeout", "ReadTimeout"}

\* backoff gives up on exception e raised by try n when e is not one of the
\* retried types (it propagates at once) or when n reached max_tries.
GivesUp(e, n) == e \notin RetryOn \/ n = MaxTries

\* response.json(), falling back to response.text on JSONDecodeError.
Decode(b) == IF b = "json" THEN Value("json") ELSE Value("text")

\* Mutant of _handle_response: the catch-all 4xx check moved before the
\* 422 and 429 checks.
HandleResponseGenericFirst(r) ==
    IF r.status = 401 THEN Raise("AuthenticationError", "Authentication failed", 0)
    ELSE IF r.status = 403 THEN Raise("AuthenticationError", "Permission denied", 0)
    ELSE IF r.status = 404 THEN Raise("ResourceNotFoundError", "Resource not found", 0)
    ELSE IF r.status >= 500 THEN Raise("ServerError", "Server error", r.status)
    ELSE IF r.status >= 400 THEN Raise("AtlasDNSException", r.body, 0)
    ELSE Decode(r.body)

\* BaseClient._handle_response: the status checks in the order of the code.
HandleResponse(r) ==
    IF r.status = 401 THEN Raise("AuthenticationError", "Authentication failed", 0)
    ELSE IF r.status = 403 THEN Raise("AuthenticationError", "Permission denied", 0)
    ELSE IF r.status = 404 THEN Raise("ResourceNotFoundError", "Resource not found", 0)
    ELSE IF r.status = 422 THEN Raise("ValidationError", r.body, 0)
    ELSE IF r.status = 429 THEN Raise("RateLimitError", "Rate limit exceeded", 0)
    ELSE IF r.status >= 500 THEN Raise("ServerError", "Server error", r.status)
    ELSE IF r.status >= 400 THEN Raise("AtlasDNSException", r.body, 0)
    ELSE Decode(r.body)

\* Mutant: the decorator configured with raise_on_giveup=False, so that a
\* call that gives up returns None instead of raising.
OnExceptionNoRaise(c, e, n) ==
    /\ log' = [log EXCEPT ![c] = Append(@, FailEntry(e))]
    /\ IF GivesUp(e, n)
         THEN /\ pc' = [pc EXCEPT ![c] = "done"]
              /\ outcome' = [outcome EXCEPT ![c] = IF e \in RetryOn THEN Value("none")
                                                                   ELSE Raise(e, "none", 0)]
         ELSE /\ pc' = [pc EXCEPT ![c] = "ready"]
              /\ UNCHANGED outcome

\* The backoff decorator catching exception e from try n of call c: retry
\* (after a sleep, which only lets other calls and the server move) or
\* re-raise e to the caller.
OnException(c, e, n) ==
    /\ log' = [log EXCEPT ![c] = Append(@, FailEntry(e))]
    /\ IF GivesUp(e, n)
         THEN /\ pc' = [pc EXCEPT ![c] = "done"]
              /\ outcome' = [outcome EXCEPT ![c] = Raise(e, "none", 0)]
         ELSE /\ pc' = [pc EXCEPT ![c] = "ready"]
              /\ UNCHANGED outcome

\* One try of _request: client.request connects and sends the request; a
\* connect fault raises before anything reaches the server.
Send(c) ==
    /\ pc[c] = "ready"
    /\ attempts' = [attempts EXCEPT ![c] = @ + 1]
    /\ \/ \E e \in Faults \cap ConnectFaults :
            /\ OnException(c, e, attempts[c] + 1)
            /\ UNCHANGED pending
       \/ /\ pending' = pending \cup {[call |-> c, try |-> attempts[c] + 1]}
          /\ pc' = [pc EXCEPT ![c] = "waiting"]
          /\ UNCHANGED <<log, outcome>>
    /\ UNCHANGED <<store, op, resp, applied>>

\* client.request returns the response and _request returns
\* _handle_response(response), which may raise a typed error; none of
\* those is retried.
Receive(c) ==
    /\ pc[c] = "waiting"
    /\ resp[c] # NoResp
    /\ log' = [log EXCEPT ![c] = Append(@, resp[c])]
    /\ outcome' = [outcome EXCEPT ![c] = HandleResponse(resp[c])]
    /\ pc' = [pc EXCEPT ![c] = "done"]
    /\ resp' = [resp EXCEPT ![c] = NoResp]
    /\ UNCHANGED <<store, op, attempts, pending, applied>>

\* client.request raises while waiting for the answer (httpx.ReadTimeout
\* after the configured timeout, or httpx.ReadError); the request may still
\* be handled by the server later.
ReadFailure(c) ==
    /\ pc[c] = "waiting"
    /\ resp[c] = NoResp
    /\ \E e \in Faults \cap ReadFaults : OnException(c, e, attempts[c])
    /\ UNCHANGED <<store, op, attempts, pending, resp, applied>>

-----------------------------------------------------------------------------
(* The environment: the Atlas DNS server.  It handles a delivered request  *)
(* of any try, in any order; the answer reaches the caller only if that    *)
(* try is the one the caller still waits for.                              *)

\* Status of a request the server executes, given whether the key exists.
ServerStatus(m, present) ==
    CASE m = "GET"    -> IF present THEN 200 ELSE 404
      [] m = "PUT"    -> IF present THEN 200 ELSE 404
      [] m = "POST"   -> IF present THEN 409 ELSE 201
      [] m = "DELETE" -> IF present THEN 204 ELSE 404

\* Whether the key exists after the server executed method m.
ServerStore(m, present) ==
    CASE m = "POST"   -> TRUE
      [] m = "DELETE" -> FALSE
      [] OTHER        -> present

Answer(r, a) ==
    resp' = IF pc[r.call] = "waiting" /\ r.try = attempts[r.call]
              THEN [resp EXCEPT ![r.call] = a]
              ELSE resp

\* The server refuses a delivered request (authentication, rate limit,
\* validation, an internal error) without acting on it.
ServerReject(r) ==
    /\ r \in pending
    /\ pending' = pending \ {r}
    /\ \E rs \in RejectStatuses, b \in Bodies : Answer(r, RespEntry(rs, b))
    /\ UNCHANGED <<store, op, pc, attempts, log, outcome, applied>>

\* The server executes a delivered request on the key of its call.
ServerExecute(r) ==
    /\ r \in pending
    /\ pending' = pending \ {r}
    /\ LET m == op[r.call].method
           k == op[r.call].key
           s == ServerStatus(m, store[k])
       IN  /\ store' = [store EXCEPT ![k] = ServerStore(m, @)]
           /\ applied' = IF s \in 200..299
                           THEN [applied EXCEPT ![r.call] = @ + 1]
                           ELSE applied
           /\ \E b \in Bodies : Answer(r, RespEntry(s, IF s = 204 THEN "text" ELSE b))
    /\ UNCHANGED <<op, pc, attempts, log, outcome>>

-----------------------------------------------------------------------------

Init ==
    /\ store \in [Keys -> BOOLEAN]
    /\ op \in [Calls -> Operations]
    /\ pc = [c \in Calls |-> "ready"]
    /\ attempts = [c \in Calls |-> 0]
    /\ pending = {}
    /\ resp = [c \in Calls |-> NoResp]
    /\ log = [c \in Calls |-> <<>>]
    /\ outcome = [c \in Calls |-> NoOutcome]
    /\ applied = [c \in Calls |-> 0]

\* Every call has returned or raised and the server has nothing left.
Terminated ==
    /\ \A c \in Calls : pc[c] = "done"
    /\ pending = {}
    /\ UNCHANGED vars

Next ==
    \/ \E c \in Calls : Send(c) \/ Receive(c) \/ ReadFailure(c)
    \/ \E r \in Requests : ServerReject(r) \/ ServerExecute(r)
    \/ Terminated

Spec == Init /\ [][Next]_vars

-----------------------------------------------------------------------------
(* Properties.                                                             *)

Statuses == {200, 201, 204, 404, 409} \cup RejectStatuses
Responses == [err : {"none"}, status : Statuses, body : Bodies]
Entries == Responses \cup [err : Faults, status : {0}, body : {"none"}]
Messages == {"none", "Authentication failed", "Permission denied",
             "Resource not found", "Rate limit exceeded", "Server error"}
             \cup Bodies
Outcomes == {NoOutcome}
            \cup [kind : {"value"}, exc : {"none"}, data : Bodies \cup {"none"}, code : {0}]
            \cup [kind : {"raise"}, exc : TypedErrors \cup Faults,
                  data : Messages, code : {0} \cup Statuses]

\* The type of every variable.
TypeOK ==
    /\ store \in [Keys -> BOOLEAN]
    /\ op \in [Calls -> Operations]
    /\ pc \in [Calls -> {"ready", "waiting", "done"}]
    /\ attempts \in [Calls -> 0..MaxTries]
    /\ pending \subseteq Requests
    /\ resp \in [Calls -> Responses \cup {NoResp}]
    /\ log \in [Calls -> Seq(Entries)]
    /\ outcome \in [Calls -> Outcomes]
    /\ applied \in [Calls -> Nat]

Last(s) == s[Len(s)]

\* Spec section 4.1: o is what the status table prescribes for response r;
\* one row per status class, each row the outcome it prescribes.
SpecPrescribes(r, o) ==
    /\ r.status = 401 => o = Raise("AuthenticationError", "Authentication failed", 0)
    /\ r.status = 403 => o = Raise("AuthenticationError", "Permission denied", 0)
    /\ r.status = 404 => o = Raise("ResourceNotFoundError", "Resource not found", 0)
    /\ r.status = 422 => o = Raise("ValidationError", r.body, 0)
    /\ r.status = 429 => o = Raise("RateLimitError", "Rate limit exceeded", 0)
    /\ r.status >= 500 => o = Raise("ServerError", "Server error", r.status)
    /\ r.status \in 400..499 \ {401, 403, 404, 422, 429}
           => o = Raise("AtlasDNSException", r.body, 0)
    /\ r.status < 400 => o = Value(r.body)

\* The spec's transient failures: a transport-level timeout or a failure to
\* connect.
Transient == {"ConnectError", "ConnectTimeout", "ReadTimeout"}

\* A call that ended with an HTTP response returned or raised what the
\* status table of the spec prescribes for that response
\* (_handle_response, whatever retries came before).
ResponseMapping ==
    \A c \in Calls :
        pc[c] = "done" /\ Last(log[c]).err = "none"
            => SpecPrescribes(Last(log[c]), outcome[c])

\* The backoff decorator never makes more than max_tries attempts, and a
\* call fails with a transient error only after all max_tries attempts
\* failed (two failures and then a success return the success).
RetryBudget ==
    \A c \in Calls :
        /\ attempts[c] <= MaxTries
        /\ outcome[c].exc \in Transient => attempts[c] = MaxTries

\* Only a transient failure is ever followed by another attempt: an HTTP
\* error response (429, 5xx, ...) or a non-transient exception ends the call.
RetriesOnlyAfterTransient ==
    \A c \in Calls : \A i \in 1..(Len(log[c]) - 1) : log[c][i].err \in Transient

\* A call that returned a value (so that create_*, update_* and delete_*
\* report success) had one of its requests executed by the server.
SuccessMeansApplied ==
    \A c \in Calls : outcome[c].kind = "value" => applied[c] >= 1

\* Spec section 4.1: every failure of execute is one of the typed errors.
TypedFailuresOnly ==
    \A c \in Calls : outcome[c].kind = "raise" => outcome[c].exc \in TypedErrors

\* Spec section 4.1: the retries are bounded by the configured max_retries
\* attempt count.
AttemptsWithinConfigured ==
    \A c \in Calls : attempts[c] <= MaxRetries

\* Spec section 4.2: the error mapping is the sole signal of failure, so a
\* delete that raised a typed error did not delete anything.
DeleteErrorMeansNotDeleted ==
    \A c \in Calls :
        /\ op[c].method = "DELETE"
        /\ outcome[c].kind = "raise"
        /\ outcome[c].exc \in TypedErrors
        => applied[c] = 0


-----------------------------------------------------------------------------
(* Refinement: the pipeline implements the contract of RequestContract,    *)
(* with backoff's tries counter as the attempts made and the outcome of    *)
(* _request as the call's result.                                          *)

Contract == INSTANCE RequestContract WITH
                tries <- attempts, result <- outcome, None <- NoOutcome

\* Spec section 4.1: _request makes at most max_tries attempts, ends once
\* and for good (a late answer to an abandoned try changes nothing), and
\* surfaces a transient failure only after its last attempt.
ContractSpec == Contract!Spec

=============================================================================
