--------------------------- MODULE PipelineProofs ---------------------------
(***************************************************************************)
(* Proofs about the request pipeline (Pipeline.tla), for every number of   *)
(* concurrent calls, every max_tries and every set of statuses, bodies and *)
(* faults the constants' assumptions allow.                                *)
(***************************************************************************)
EXTENDS Pipeline, TLAPS

(***************************************************************************)
(* The inductive invariant.  The properties are not inductive alone: a     *)
(* call may only start an attempt while below max_tries, a call has no     *)
(* outcome before it is done, and the log of a call that is still running  *)
(* holds only transient failures, which is what makes the last entry the   *)
(* only one that may be something else once it is done.                    *)
(***************************************************************************)
ReadyBelowMax == \A c \in Calls : pc[c] = "ready" => attempts[c] < MaxTries
OutcomeOnlyWhenDone == \A c \in Calls : pc[c] # "done" => outcome[c] = NoOutcome
OpenLogTransient ==
    \A c \in Calls : pc[c] # "done" =>
        \A i \in 1..Len(log[c]) : log[c][i].err \in Transient

IInv ==
    /\ TypeOK
    /\ ReadyBelowMax
    /\ OutcomeOnlyWhenDone
    /\ OpenLogTransient
    /\ RetryBudget
    /\ RetriesOnlyAfterTransient

(***************************************************************************)
(* A value is returned only for a response below 400.  When the server     *)
(* sends no such status without acting, every answer below 400 that a     *)
(* call holds or has handled comes from a request the server executed.    *)
(***************************************************************************)
SuccessBacked ==
    \A c \in Calls :
        /\ resp[c] \in Responses /\ resp[c].status < 400 => applied[c] >= 1
        /\ outcome[c].kind = "value" => applied[c] >= 1

-----------------------------------------------------------------------------
(* Lemmas about the operators of the model.                                *)

\* _handle_response maps every response to one of the outcomes.
LEMMA HandleResponseType ==
    ASSUME NEW r \in Entries, r.err = "none"
    PROVE  HandleResponse(r) \in Outcomes
<1>1. r.status \in Statuses /\ r.body \in Bodies
  BY FaultsAssumption DEF Entries, Responses
<1>2. ASSUME NEW e \in TypedErrors, NEW m \in Messages, NEW k \in {0} \cup Statuses
      PROVE  Raise(e, m, k) \in Outcomes
  BY DEF Raise, Outcomes
<1>3. Decode(r.body) \in Outcomes
  BY <1>1, BodiesAssumption DEF Decode, Value, Outcomes
<1>4. /\ {"Authentication failed", "Permission denied", "Resource not found",
          "Rate limit exceeded", "Server error", r.body} \subseteq Messages
      /\ {"AuthenticationError", "ResourceNotFoundError", "ValidationError",
          "RateLimitError", "ServerError", "AtlasDNSException"} \subseteq TypedErrors
  BY <1>1 DEF Messages, TypedErrors
<1>5. HandleResponse(r) \in
        {Raise("AuthenticationError", "Authentication failed", 0),
         Raise("AuthenticationError", "Permission denied", 0),
         Raise("ResourceNotFoundError", "Resource not found", 0),
         Raise("ValidationError", r.body, 0),
         Raise("RateLimitError", "Rate limit exceeded", 0),
         Raise("ServerError", "Server error", r.status),
         Raise("AtlasDNSException", r.body, 0),
         Decode(r.body)}
  BY DEF HandleResponse
<1>6. QED
  BY <1>1, <1>2, <1>3, <1>4, <1>5

\* A response never surfaces as a transport exception: _handle_response
\* returns or raises one of the package's own exceptions.
LEMMA HandleResponseExc ==
    ASSUME NEW r
    PROVE  HandleResponse(r).exc \in TypedErrors \cup {"none"}
BY DEF HandleResponse, Raise, Decode, Value, TypedErrors

\* The server answers an executed request with one of its own statuses and
\* leaves a Boolean in the store.
LEMMA ServerType ==
    ASSUME NEW m \in Methods, NEW p \in BOOLEAN
    PROVE  /\ ServerStatus(m, p) \in {200, 201, 204, 404, 409}
           /\ ServerStore(m, p) \in BOOLEAN
<1>1. CASE m = "GET" BY <1>1, SMT DEF ServerStatus, ServerStore
<1>2. CASE m = "PUT" BY <1>2, SMT DEF ServerStatus, ServerStore
<1>3. CASE m = "POST" BY <1>3, SMT DEF ServerStatus, ServerStore
<1>4. CASE m = "DELETE" BY <1>4, SMT DEF ServerStatus, ServerStore
<1>5. QED BY <1>1, <1>2, <1>3, <1>4 DEF Methods

-----------------------------------------------------------------------------

LEMMA InitIInv == Init => IInv
BY MaxTriesAssumption
DEF Init, IInv, TypeOK, ReadyBelowMax, OutcomeOnlyWhenDone, OpenLogTransient,
    RetryBudget, RetriesOnlyAfterTransient, NoResp, RespEntry, NoOutcome,
    Outcomes, Transient

\* The decorator's handling of exception e of try n, when n is the number
\* of tries made so far and the call was running, preserves the invariant
\* for that call, whatever the other variables of the step do.
LEMMA OnExceptionStep ==
    ASSUME IInv,
           NEW c \in Calls, NEW e \in Faults,
           pc[c] \in {"ready", "waiting"},
           OnException(c, e, attempts'[c]),
           attempts' \in [Calls -> 0..MaxTries],
           \A d \in Calls \ {c} : attempts'[d] = attempts[d]
    PROVE  /\ pc' \in [Calls -> {"ready", "waiting", "done"}]
           /\ log' \in [Calls -> Seq(Entries)]
           /\ outcome' \in [Calls -> Outcomes]
           /\ ReadyBelowMax'
           /\ OutcomeOnlyWhenDone'
           /\ OpenLogTransient'
           /\ RetryBudget'
           /\ RetriesOnlyAfterTransient'
<1> DEFINE n == attempts'[c]
<1>1. FailEntry(e) \in Entries
  BY DEF FailEntry, Entries
<1>2. log' = [log EXCEPT ![c] = Append(@, FailEntry(e))]
  BY DEF OnException
<1>3. log' \in [Calls -> Seq(Entries)]
  BY <1>1, <1>2 DEF IInv, TypeOK
<1>4. \A i \in 1..Len(log[c]) : log[c][i].err \in Transient
  BY DEF IInv, OpenLogTransient
<1>5. CASE GivesUp(e, n)
  <2>1. /\ pc' = [pc EXCEPT ![c] = "done"]
        /\ outcome' = [outcome EXCEPT ![c] = Raise(e, "none", 0)]
    BY <1>5 DEF OnException
  <2>2. Raise(e, "none", 0) \in Outcomes
    BY DEF Raise, Outcomes, Messages
  <2>3. e \in Transient => n = MaxTries
    BY <1>5 DEF GivesUp, RetryOn, Transient
  <2>4. RetriesOnlyAfterTransient'
    BY <1>2, <1>4, <2>1 DEF IInv, TypeOK, RetriesOnlyAfterTransient
  <2>5. pc' \in [Calls -> {"ready", "waiting", "done"}]
        /\ outcome' \in [Calls -> Outcomes]
    BY <2>1, <2>2 DEF IInv, TypeOK
  <2>6. ReadyBelowMax'
    BY <2>1 DEF IInv, TypeOK, ReadyBelowMax
  <2>9. OutcomeOnlyWhenDone'
    BY <2>1 DEF IInv, TypeOK, OutcomeOnlyWhenDone
  <2>10. OpenLogTransient'
    BY <1>2, <2>1 DEF IInv, TypeOK, OpenLogTransient
  <2>7. RetryBudget'
    BY <2>1, <2>3 DEF IInv, TypeOK, RetryBudget, Raise
  <2>8. QED
    BY <1>3, <2>4, <2>5, <2>6, <2>7, <2>9, <2>10
<1>6. CASE ~GivesUp(e, n)
  <2>1. /\ pc' = [pc EXCEPT ![c] = "ready"]
        /\ outcome' = outcome
    BY <1>6 DEF OnException
  <2>2. e \in Transient /\ n < MaxTries
    BY <1>6, MaxTriesAssumption DEF GivesUp, RetryOn, Transient
  <2>3. OpenLogTransient'
    BY <1>2, <1>4, <2>1, <2>2 DEF IInv, TypeOK, OpenLogTransient, FailEntry
  <2>4. RetriesOnlyAfterTransient'
    BY <1>2, <1>4, <2>1 DEF IInv, TypeOK, RetriesOnlyAfterTransient
  <2>5. pc' \in [Calls -> {"ready", "waiting", "done"}]
        /\ outcome' \in [Calls -> Outcomes]
    BY <2>1 DEF IInv, TypeOK
  <2>6. ReadyBelowMax'
    BY <2>1, <2>2 DEF IInv, ReadyBelowMax
  <2>7. OutcomeOnlyWhenDone'
    BY <2>1 DEF IInv, TypeOK, OutcomeOnlyWhenDone
  <2>9. RetryBudget'
    <3>1. outcome[c] = NoOutcome
      BY DEF IInv, OutcomeOnlyWhenDone
    <3>2. QED
      BY <2>1, <3>1 DEF IInv, TypeOK, RetryBudget, NoOutcome, Transient
  <2>8. QED
    BY <1>3, <2>3, <2>4, <2>5, <2>6, <2>7, <2>9
<1>7. QED
  BY <1>5, <1>6

LEMMA NextIInv == IInv /\ [Next]_vars => IInv'
<1> SUFFICES ASSUME IInv, [Next]_vars PROVE IInv'
  OBVIOUS
<1>0. TypeOK
  BY DEF IInv
<1>1. ASSUME NEW c \in Calls, Send(c) PROVE IInv'
  <2>1. /\ pc[c] = "ready"
        /\ attempts[c] < MaxTries
        /\ attempts' = [attempts EXCEPT ![c] = @ + 1]
        /\ UNCHANGED <<store, op, resp, applied>>
    BY <1>1 DEF Send, IInv, ReadyBelowMax
  <2>2. /\ attempts' \in [Calls -> 0..MaxTries]
        /\ \A d \in Calls \ {c} : attempts'[d] = attempts[d]
        /\ attempts'[c] = attempts[c] + 1
    BY <1>0, <2>1, MaxTriesAssumption DEF TypeOK
  <2>3. CASE \E e \in Faults \cap ConnectFaults :
                /\ OnException(c, e, attempts[c] + 1)
                /\ UNCHANGED pending
    <3>1. PICK e \in Faults : OnException(c, e, attempts'[c]) /\ UNCHANGED pending
      BY <2>2, <2>3
    <3>2. QED
      BY <1>0, <2>1, <2>2, <3>1, OnExceptionStep DEF IInv, TypeOK
  <2>4. CASE /\ pending' = pending \cup {[call |-> c, try |-> attempts[c] + 1]}
             /\ pc' = [pc EXCEPT ![c] = "waiting"]
             /\ UNCHANGED <<log, outcome>>
    <3>1. TypeOK'
      BY <1>0, <2>1, <2>2, <2>4, MaxTriesAssumption DEF TypeOK, Requests
    <3>2. ReadyBelowMax'
      BY <1>0, <2>2, <2>4 DEF IInv, TypeOK, ReadyBelowMax
    <3>3. OutcomeOnlyWhenDone' /\ OpenLogTransient'
      BY <1>0, <2>1, <2>4 DEF IInv, TypeOK, OutcomeOnlyWhenDone, OpenLogTransient
    <3>4. RetryBudget'
      BY <1>0, <2>1, <2>2, <2>4 DEF IInv, TypeOK, OutcomeOnlyWhenDone, RetryBudget,
                                   NoOutcome, Transient
    <3>5. RetriesOnlyAfterTransient'
      BY <2>4 DEF IInv, RetriesOnlyAfterTransient
    <3>6. QED
      BY <3>1, <3>2, <3>3, <3>4, <3>5 DEF IInv
  <2>5. QED
    BY <1>1, <2>3, <2>4 DEF Send
<1>2. ASSUME NEW c \in Calls, Receive(c) PROVE IInv'
  <2>1. /\ pc[c] = "waiting"
        /\ resp[c] \in Entries
        /\ resp[c].err = "none"
        /\ log' = [log EXCEPT ![c] = Append(@, resp[c])]
        /\ outcome' = [outcome EXCEPT ![c] = HandleResponse(resp[c])]
        /\ pc' = [pc EXCEPT ![c] = "done"]
        /\ resp' = [resp EXCEPT ![c] = NoResp]
        /\ UNCHANGED <<store, op, attempts, pending, applied>>
    BY <1>0, <1>2 DEF Receive, TypeOK, Entries, Responses, NoResp, RespEntry
  <2>2. HandleResponse(resp[c]) \in Outcomes
        /\ HandleResponse(resp[c]).exc \notin Transient
    BY <2>1, HandleResponseType, HandleResponseExc DEF TypedErrors, Transient
  <2>3. \A i \in 1..Len(log[c]) : log[c][i].err \in Transient
    BY <2>1 DEF IInv, OpenLogTransient
  <2>4. TypeOK'
    BY <1>0, <2>1, <2>2 DEF TypeOK, NoResp
  <2>5. ReadyBelowMax' /\ OutcomeOnlyWhenDone' /\ OpenLogTransient'
    BY <1>0, <2>1 DEF IInv, TypeOK, ReadyBelowMax, OutcomeOnlyWhenDone, OpenLogTransient
  <2>6. RetryBudget'
    BY <1>0, <2>1, <2>2 DEF IInv, TypeOK, RetryBudget
  <2>7. RetriesOnlyAfterTransient'
    BY <1>0, <2>1, <2>3 DEF IInv, TypeOK, RetriesOnlyAfterTransient
  <2>8. QED
    BY <2>4, <2>5, <2>6, <2>7 DEF IInv
<1>3. ASSUME NEW c \in Calls, ReadFailure(c) PROVE IInv'
  <2>1. PICK e \in Faults : OnException(c, e, attempts'[c])
    BY <1>3 DEF ReadFailure
  <2>2. /\ pc[c] = "waiting"
        /\ UNCHANGED <<store, op, attempts, pending, resp, applied>>
    BY <1>3 DEF ReadFailure
  <2>3. QED
    BY <1>0, <2>1, <2>2, OnExceptionStep DEF IInv, TypeOK
<1>4. ASSUME NEW r \in Requests, ServerReject(r) PROVE IInv'
  <2>1. /\ pending' \subseteq Requests
        /\ UNCHANGED <<store, op, pc, attempts, log, outcome, applied>>
    BY <1>0, <1>4 DEF ServerReject, TypeOK
  <2>2. resp' \in [Calls -> Responses \cup {NoResp}]
    <3>1. PICK rs \in RejectStatuses, b \in Bodies : Answer(r, RespEntry(rs, b))
      BY <1>4 DEF ServerReject
    <3>2. RespEntry(rs, b) \in Responses
      BY DEF RespEntry, Responses, Statuses
    <3>3. QED
      BY <1>0, <3>1, <3>2 DEF Answer, TypeOK
  <2>3. QED
    BY <1>0, <2>1, <2>2
    DEF IInv, TypeOK, ReadyBelowMax, OutcomeOnlyWhenDone, OpenLogTransient,
        RetryBudget, RetriesOnlyAfterTransient
<1>5. ASSUME NEW r \in Requests, ServerExecute(r) PROVE IInv'
  <2> DEFINE m == op[r.call].method
             k == op[r.call].key
             st == ServerStatus(m, store[k])
  <2>1. m \in Methods /\ k \in Keys /\ store[k] \in BOOLEAN
    BY <1>0 DEF TypeOK, Operations, Requests
  <2>2. st \in {200, 201, 204, 404, 409} /\ ServerStore(m, store[k]) \in BOOLEAN
    BY <2>1, ServerType
  <2>3. /\ pending' \subseteq Requests
        /\ store' = [store EXCEPT ![k] = ServerStore(m, @)]
        /\ applied' = IF st \in 200..299
                        THEN [applied EXCEPT ![r.call] = @ + 1]
                        ELSE applied
        /\ \E b \in Bodies : Answer(r, RespEntry(st, IF st = 204 THEN "text" ELSE b))
        /\ UNCHANGED <<op, pc, attempts, log, outcome>>
    BY <1>0, <1>5 DEF ServerExecute, TypeOK
  <2>4. store' \in [Keys -> BOOLEAN]
    <3>1. store' = [store EXCEPT ![k] = ServerStore(m, store[k])]
      BY <2>3
    <3>2. QED
      BY <1>0, <2>1, <2>2, <3>1 DEF TypeOK
  <2>7. applied' \in [Calls -> Nat]
    <3>1. r.call \in Calls
      BY DEF Requests
    <3>2. [applied EXCEPT ![r.call] = @ + 1] \in [Calls -> Nat]
      BY <1>0, <3>1 DEF TypeOK
    <3>3. QED
      BY <1>0, <2>3, <3>2 DEF TypeOK
  <2>5. resp' \in [Calls -> Responses \cup {NoResp}]
    <3>1. PICK b \in Bodies : Answer(r, RespEntry(st, IF st = 204 THEN "text" ELSE b))
      BY <2>3
    <3>2. RespEntry(st, IF st = 204 THEN "text" ELSE b) \in Responses
      BY <2>2, BodiesAssumption DEF RespEntry, Responses, Statuses
    <3>3. QED
      BY <1>0, <3>1, <3>2 DEF Answer, TypeOK
  <2>6. QED
    BY <1>0, <2>3, <2>4, <2>5, <2>7
    DEF IInv, TypeOK, ReadyBelowMax, OutcomeOnlyWhenDone, OpenLogTransient,
        RetryBudget, RetriesOnlyAfterTransient
<1>6. CASE UNCHANGED vars
  BY <1>6 DEF vars, IInv, TypeOK, ReadyBelowMax, OutcomeOnlyWhenDone,
              OpenLogTransient, RetryBudget, RetriesOnlyAfterTransient
<1>7. QED
  BY <1>1, <1>2, <1>3, <1>4, <1>5, <1>6 DEF Next, Terminated


-----------------------------------------------------------------------------
(* Refinement of RequestContract.  Besides IInv it needs that a call       *)
(* waiting for an answer has made an attempt, so that an answer ends it    *)
(* after at least one try.                                                  *)

WaitingTried == \A c \in Calls : pc[c] = "waiting" => attempts[c] >= 1

\* The decorator's handling of an exception changes the control state of
\* its own call only, to ready or done.
LEMMA OnExceptionPc ==
    ASSUME NEW c, NEW e, NEW n, OnException(c, e, n)
    PROVE  \E x \in {"ready", "done"} : pc' = [pc EXCEPT ![c] = x]
BY DEF OnException

LEMMA WaitingTriedStep == IInv /\ WaitingTried /\ [Next]_vars => WaitingTried'
<1> SUFFICES ASSUME IInv, WaitingTried, [Next]_vars PROVE WaitingTried'
  OBVIOUS
<1>0. TypeOK
  BY DEF IInv
<1>1. ASSUME NEW c \in Calls, Send(c) PROVE WaitingTried'
  <2>1. attempts' = [attempts EXCEPT ![c] = @ + 1]
    BY <1>1 DEF Send
  <2>2. \E x : pc' = [pc EXCEPT ![c] = x]
    BY <1>1, OnExceptionPc DEF Send
  <2>3. QED
    BY <1>0, <2>1, <2>2 DEF WaitingTried, TypeOK
<1>2. ASSUME NEW c \in Calls, Receive(c) PROVE WaitingTried'
  BY <1>0, <1>2 DEF Receive, WaitingTried, TypeOK
<1>3. ASSUME NEW c \in Calls, ReadFailure(c) PROVE WaitingTried'
  <2>1. \E x \in {"ready", "done"} : pc' = [pc EXCEPT ![c] = x]
    BY <1>3, OnExceptionPc DEF ReadFailure
  <2>2. QED
    BY <1>0, <1>3, <2>1 DEF ReadFailure, WaitingTried, TypeOK
<1>4. ASSUME NEW r \in Requests, ServerReject(r) \/ ServerExecute(r)
      PROVE WaitingTried'
  BY <1>4 DEF ServerReject, ServerExecute, WaitingTried
<1>5. CASE UNCHANGED vars
  BY <1>5 DEF vars, WaitingTried
<1>6. QED
  BY <1>1, <1>2, <1>3, <1>4, <1>5 DEF Next, Terminated


\* Every step of the pipeline is a step of the contract or leaves the
\* attempts and the outcomes alone.
LEMMA RefinementStep ==
    IInv /\ WaitingTried /\ [Next]_vars => [Contract!Next]_<<attempts, outcome>>
<1> SUFFICES ASSUME IInv, WaitingTried, [Next]_vars
             PROVE  [Contract!Next]_<<attempts, outcome>>
  OBVIOUS
<1>0. TypeOK
  BY DEF IInv
<1>1. ASSUME NEW c \in Calls, Send(c) PROVE Contract!Attempt(c)
  <2>1. /\ pc[c] = "ready"
        /\ outcome[c] = NoOutcome
        /\ attempts[c] < MaxTries
        /\ attempts' = [attempts EXCEPT ![c] = @ + 1]
    BY <1>1 DEF Send, IInv, ReadyBelowMax, OutcomeOnlyWhenDone
  <2>2. CASE \E e \in Faults \cap ConnectFaults : OnException(c, e, attempts[c] + 1)
    <3>1. PICK e \in Faults : OnException(c, e, attempts'[c])
      BY <1>0, <2>1, <2>2 DEF TypeOK
    <3>2. CASE GivesUp(e, attempts'[c])
      <4>1. outcome' = [outcome EXCEPT ![c] = Raise(e, "none", 0)]
        BY <3>1, <3>2 DEF OnException
      <4>2. e \in Transient => attempts'[c] = MaxTries
        BY <3>2 DEF GivesUp, RetryOn, Transient
      <4>3. QED
        BY <1>0, <2>1, <4>1, <4>2
        DEF Contract!Attempt, Contract!Settle, Raise, NoOutcome, TypeOK
    <3>3. CASE ~GivesUp(e, attempts'[c])
      <4>1. outcome' = outcome
        BY <3>1, <3>3 DEF OnException
      <4>2. QED
        BY <2>1, <4>1 DEF Contract!Attempt
    <3>4. QED
      BY <3>2, <3>3
  <2>3. CASE UNCHANGED outcome
    BY <2>1, <2>3 DEF Contract!Attempt
  <2>4. QED
    BY <1>1, <2>2, <2>3 DEF Send
<1>2. ASSUME NEW c \in Calls, Receive(c) PROVE Contract!Finish(c)
  <2>1. /\ pc[c] = "waiting"
        /\ outcome[c] = NoOutcome
        /\ attempts[c] >= 1
        /\ outcome' = [outcome EXCEPT ![c] = HandleResponse(resp[c])]
        /\ UNCHANGED attempts
    BY <1>2 DEF Receive, IInv, OutcomeOnlyWhenDone, WaitingTried
  <2>2. /\ HandleResponse(resp[c]).kind \in {"value", "raise"}
        /\ HandleResponse(resp[c]).exc \notin Transient
    BY HandleResponseExc DEF HandleResponse, Raise, Decode, Value, TypedErrors, Transient
  <2>3. QED
    BY <1>0, <2>1, <2>2 DEF Contract!Finish, Contract!Settle, NoOutcome, TypeOK
<1>3. ASSUME NEW c \in Calls, ReadFailure(c)
      PROVE  Contract!Finish(c) \/ UNCHANGED <<attempts, outcome>>
  <2>1. /\ pc[c] = "waiting"
        /\ outcome[c] = NoOutcome
        /\ attempts[c] >= 1
        /\ UNCHANGED attempts
    BY <1>3 DEF ReadFailure, IInv, OutcomeOnlyWhenDone, WaitingTried
  <2>2. PICK e \in Faults : OnException(c, e, attempts[c])
    BY <1>3 DEF ReadFailure
  <2>3. CASE GivesUp(e, attempts[c])
    <3>1. outcome' = [outcome EXCEPT ![c] = Raise(e, "none", 0)]
      BY <2>2, <2>3 DEF OnException
    <3>2. e \in Transient => attempts[c] = MaxTries
      BY <2>3 DEF GivesUp, RetryOn, Transient
    <3>3. QED
      BY <1>0, <2>1, <3>1, <3>2 DEF Contract!Finish, Contract!Settle, Raise, NoOutcome, TypeOK
  <2>4. CASE ~GivesUp(e, attempts[c])
    BY <2>1, <2>2, <2>4 DEF OnException
  <2>5. QED
    BY <2>3, <2>4
<1>4. ASSUME NEW r \in Requests, ServerReject(r) \/ ServerExecute(r)
      PROVE  UNCHANGED <<attempts, outcome>>
  BY <1>4 DEF ServerReject, ServerExecute
<1>5. CASE UNCHANGED vars
  BY <1>5 DEF vars
<1>6. QED
  BY <1>1, <1>2, <1>3, <1>4, <1>5 DEF Next, Terminated, Contract!Next


-----------------------------------------------------------------------------
(* The status table.  A call that ended with a response holds the outcome  *)
(* _handle_response gave that response, and that outcome is the one the   *)
(* spec's table prescribes.                                                *)

DoneLogged ==
    \A c \in Calls : pc[c] = "done" =>
        /\ Len(log[c]) >= 1
        /\ Last(log[c]).err = "none" => outcome[c] = HandleResponse(Last(log[c]))

\* _handle_response gives every response the server can send the outcome
\* the table of spec section 4.1 prescribes.
LEMMA HandleResponseSpec ==
    ASSUME NEW r \in Responses
    PROVE  SpecPrescribes(r, HandleResponse(r))
<1>1. r.status \in Statuses /\ r.body \in Bodies
  BY DEF Responses
<1>2. r.status \in {200, 201, 204, 404, 409} \/ r.status \in RejectStatuses
  BY <1>1, Zenon DEF Statuses
<1>3. r.status \in Nat
  <2>1. CASE r.status \in RejectStatuses
    <3>1. \A x \in RejectStatuses : x \in 100..599
      BY RejectAssumption
    <3>2. QED
      BY <2>1, <3>1
  <2>2. QED
    BY <1>2, <2>1
<1>4. Decode(r.body) = Value(r.body)
  BY <1>1, BodiesAssumption DEF Decode
\* One step per row of the table.
<1>5. r.status = 401 => HandleResponse(r) = Raise("AuthenticationError", "Authentication failed", 0)
  BY <1>3 DEF HandleResponse
<1>6. r.status = 403 => HandleResponse(r) = Raise("AuthenticationError", "Permission denied", 0)
  BY <1>3 DEF HandleResponse
<1>7. r.status = 404 => HandleResponse(r) = Raise("ResourceNotFoundError", "Resource not found", 0)
  BY <1>3 DEF HandleResponse
<1>8. r.status = 422 => HandleResponse(r) = Raise("ValidationError", r.body, 0)
  BY <1>3 DEF HandleResponse
<1>9. r.status = 429 => HandleResponse(r) = Raise("RateLimitError", "Rate limit exceeded", 0)
  BY <1>3 DEF HandleResponse
\* The rows whose guards are arithmetic: SMT settles the guards, Zenon
\* follows the chain to its branch.
<1>10. ASSUME r.status >= 500
       PROVE  HandleResponse(r) = Raise("ServerError", "Server error", r.status)
  <2>1. r.status # 401 /\ r.status # 403 /\ r.status # 404 /\ r.status # 422 /\ r.status # 429
    BY <1>3, <1>10
  <2>2. QED
    BY <1>10, <2>1, Zenon DEF HandleResponse
<1>11. ASSUME r.status \in 400..499 \ {401, 403, 404, 422, 429}
       PROVE  HandleResponse(r) = Raise("AtlasDNSException", r.body, 0)
  <2>1. r.status # 401 /\ r.status # 403 /\ r.status # 404 /\ r.status # 422 /\ r.status # 429 /\ ~(r.status >= 500)
    BY <1>3, <1>11
  <2>2. HandleResponse(r) = IF r.status >= 400 THEN Raise("AtlasDNSException", r.body, 0)
                                              ELSE Decode(r.body)
    BY <2>1, Zenon DEF HandleResponse
  <2>3. r.status >= 400
    BY <1>3, <1>11
  <2>4. QED
    BY <2>2, <2>3
<1>12. ASSUME r.status < 400
       PROVE  HandleResponse(r) = Value(r.body)
  <2>1. r.status # 401 /\ r.status # 403 /\ r.status # 404 /\ r.status # 422 /\ r.status # 429 /\ ~(r.status >= 500) /\ ~(r.status >= 400)
    BY <1>3, <1>12
  <2>2. QED
    BY <1>4, <2>1, Zenon DEF HandleResponse
<1>13. QED
  BY <1>5, <1>6, <1>7, <1>8, <1>9, <1>10, <1>11, <1>12 DEF SpecPrescribes

\* The decorator's handling of an exception leaves a log whose last entry
\* is that exception, for a call it may end.
LEMMA OnExceptionLogged ==
    ASSUME IInv, DoneLogged,
           NEW c \in Calls, NEW e \in Faults, NEW n,
           pc[c] # "done",
           OnException(c, e, n)
    PROVE  DoneLogged'
<1>1. log' = [log EXCEPT ![c] = Append(@, FailEntry(e))]
  BY DEF OnException
<1>2. \E x \in {"ready", "done"} : pc' = [pc EXCEPT ![c] = x]
  BY OnExceptionPc
<1>3. \A d \in Calls \ {c} : outcome'[d] = outcome[d]
  <2>0. outcome \in [Calls -> Outcomes]
    BY DEF IInv, TypeOK
  <2>1. CASE GivesUp(e, n)
    BY <2>0, <2>1 DEF OnException
  <2>2. CASE ~GivesUp(e, n)
    BY <2>2 DEF OnException
  <2>3. QED
    BY <2>1, <2>2
<1>4. log[c] \in Seq(Entries)
  BY DEF IInv, TypeOK
<1>5. Len(log'[c]) >= 1 /\ Last(log'[c]).err = e
  BY <1>1, <1>4 DEF Last, FailEntry, IInv, TypeOK
<1>6. e # "none"
  BY FaultsAssumption
<1>7. QED
  BY <1>1, <1>2, <1>3, <1>5, <1>6 DEF DoneLogged, IInv, TypeOK

LEMMA DoneLoggedStep == IInv /\ DoneLogged /\ [Next]_vars => DoneLogged'
<1> SUFFICES ASSUME IInv, DoneLogged, [Next]_vars PROVE DoneLogged'
  OBVIOUS
<1>0. TypeOK
  BY DEF IInv
<1>1. ASSUME NEW c \in Calls, Send(c) PROVE DoneLogged'
  <2>1. pc[c] = "ready"
    BY <1>1 DEF Send
  <2>2. CASE \E e \in Faults \cap ConnectFaults : OnException(c, e, attempts[c] + 1)
    BY <2>1, <2>2, OnExceptionLogged
  <2>3. CASE pc' = [pc EXCEPT ![c] = "waiting"] /\ UNCHANGED <<log, outcome>>
    BY <1>0, <2>1, <2>3 DEF DoneLogged, TypeOK
  <2>4. QED
    BY <1>1, <2>2, <2>3 DEF Send
<1>2. ASSUME NEW c \in Calls, Receive(c) PROVE DoneLogged'
  <2>1. /\ log[c] \in Seq(Entries)
        /\ log' = [log EXCEPT ![c] = Append(@, resp[c])]
        /\ outcome' = [outcome EXCEPT ![c] = HandleResponse(resp[c])]
        /\ pc' = [pc EXCEPT ![c] = "done"]
    BY <1>0, <1>2 DEF Receive, TypeOK
  <2>2. Len(log'[c]) >= 1 /\ Last(log'[c]) = resp[c]
    BY <1>0, <2>1 DEF Last, TypeOK
  <2>3. QED
    BY <1>0, <2>1, <2>2 DEF DoneLogged, TypeOK
<1>3. ASSUME NEW c \in Calls, ReadFailure(c) PROVE DoneLogged'
  <2>1. PICK e \in Faults : OnException(c, e, attempts[c])
    BY <1>3 DEF ReadFailure
  <2>2. QED
    BY <1>3, <2>1, OnExceptionLogged DEF ReadFailure
<1>4. ASSUME NEW r \in Requests, ServerReject(r) \/ ServerExecute(r)
      PROVE  DoneLogged'
  BY <1>4 DEF ServerReject, ServerExecute, DoneLogged
<1>5. CASE UNCHANGED vars
  BY <1>5 DEF vars, DoneLogged
<1>6. QED
  BY <1>1, <1>2, <1>3, <1>4, <1>5 DEF Next, Terminated

LEMMA DoneLoggedMapping == IInv /\ DoneLogged => ResponseMapping
<1> SUFFICES ASSUME IInv, DoneLogged, NEW c \in Calls, pc[c] = "done",
                    Last(log[c]).err = "none"
             PROVE  SpecPrescribes(Last(log[c]), outcome[c])
  BY DEF ResponseMapping
<1>1. Len(log[c]) >= 1 /\ log[c] \in Seq(Entries)
  BY DEF DoneLogged, IInv, TypeOK
<1>2. Last(log[c]) \in Responses
  BY <1>1, FaultsAssumption DEF Last, Entries
<1>3. outcome[c] = HandleResponse(Last(log[c]))
  BY DEF DoneLogged
<1>4. QED
  BY <1>2, <1>3, HandleResponseSpec

-----------------------------------------------------------------------------

\* The type invariant and the inductive invariant hold in every state of
\* every behaviour.
THEOREM InvariantHolds == Spec => []IInv
BY InitIInv, NextIInv, PTL DEF Spec

\* Every variable keeps its type (TypeOK of Pipeline).
THEOREM TypeCorrect == Spec => []TypeOK
BY InvariantHolds, PTL DEF IInv

\* For every max_tries and every number of concurrent calls, the backoff
\* decorator of _request never makes more than max_tries attempts, and
\* raises a transient transport error only after max_tries attempts
\* (RetryBudget of Pipeline).
THEOREM RetryBudgetHolds == Spec => []RetryBudget
BY InvariantHolds, PTL DEF IInv

\* Only a transient transport failure is ever followed by another attempt
\* of _request: no HTTP error response and no other exception is retried
\* (RetriesOnlyAfterTransient of Pipeline).
THEOREM RetriesOnlyAfterTransientHolds == Spec => []RetriesOnlyAfterTransient
BY InvariantHolds, PTL DEF IInv


\* The pipeline implements the contract of spec section 4.1 (ContractSpec
\* of Pipeline): _request makes at most max_tries attempts, ends once and
\* for good, and raises a transient failure only after its last attempt.
THEOREM PipelineImplementsContract == Spec => ContractSpec
<1>1. Init => Contract!Init
  BY DEF Init, Contract!Init
<1>2. Init => IInv /\ WaitingTried
  BY InitIInv DEF Init, WaitingTried
<1>3. IInv /\ WaitingTried /\ [Next]_vars => (IInv /\ WaitingTried)'
  BY NextIInv, WaitingTriedStep
<1>4. QED
  BY <1>1, <1>2, <1>3, RefinementStep, PTL DEF Spec, ContractSpec, Contract!Spec


\* A call of _request that ended with an HTTP response returned or raised
\* exactly what the status table of spec section 4.1 prescribes for it
\* (ResponseMapping of Pipeline), whatever retries came before.
THEOREM ResponseMappingHolds == Spec => []ResponseMapping
<1>1. Init => DoneLogged
  BY DEF Init, DoneLogged
<1>2. Spec => [](IInv /\ DoneLogged)
  BY <1>1, InitIInv, NextIInv, DoneLoggedStep, PTL DEF Spec
<1>3. QED
  BY <1>2, DoneLoggedMapping, PTL


-----------------------------------------------------------------------------
(* A returned value is backed by an executed request, when the server      *)
(* sends no status below 400 without acting (RejectStatuses of 4xx and     *)
(* 5xx only; the run pipeline_redirect_success shows a 301 breaking it).   *)

\* The server's refusals are all error statuses.
RejectsAreErrors == RejectStatuses \subseteq 400..599

\* A status of an executed request outside 2xx is an error status.
LEMMA ExecutedErrorStatus ==
    ASSUME NEW x \in {200, 201, 204, 404, 409}, x \notin 200..299
    PROVE  ~(x < 400)
OBVIOUS

\* _handle_response returns a value only for a status below 400.
LEMMA HandleResponseValue ==
    ASSUME NEW r \in Responses, HandleResponse(r).kind = "value"
    PROVE  r.status < 400
<1>1. SpecPrescribes(r, HandleResponse(r))
  BY HandleResponseSpec
<1>2. r.status \in Nat
  <2>1. r.status \in Statuses
    BY DEF Responses
  <2>2. \A x \in RejectStatuses : x \in Nat
    BY RejectAssumption
  <2>3. QED
    BY <2>1, <2>2 DEF Statuses
<1>3. SUFFICES ASSUME r.status >= 400 PROVE FALSE
  BY <1>2
<1>4. \/ r.status = 401 \/ r.status = 403 \/ r.status = 404
      \/ r.status = 422 \/ r.status = 429 \/ r.status >= 500
      \/ r.status \in 400..499 \ {401, 403, 404, 422, 429}
  BY <1>2, <1>3
<1>12. \A e, m, n : Raise(e, m, n).kind = "raise"
  BY DEF Raise
\* Each of those rows of the table raises (Zenon: the strings of the
\* messages are beyond the SMT encoding).
<1>5. r.status = 401 => HandleResponse(r).kind = "raise"
  <2>1. r.status = 401 => HandleResponse(r) = Raise("AuthenticationError", "Authentication failed", 0)
    BY <1>1, Zenon DEF SpecPrescribes
  <2>2. Raise("AuthenticationError", "Authentication failed", 0).kind = "raise"
    BY <1>12, Zenon
  <2>3. QED
    BY <2>1, <2>2, Zenon
<1>6. r.status = 403 => HandleResponse(r).kind = "raise"
  <2>1. r.status = 403 => HandleResponse(r) = Raise("AuthenticationError", "Permission denied", 0)
    BY <1>1, Zenon DEF SpecPrescribes
  <2>2. Raise("AuthenticationError", "Permission denied", 0).kind = "raise"
    BY <1>12, Zenon
  <2>3. QED
    BY <2>1, <2>2, Zenon
<1>7. r.status = 404 => HandleResponse(r).kind = "raise"
  <2>1. r.status = 404 => HandleResponse(r) = Raise("ResourceNotFoundError", "Resource not found", 0)
    BY <1>1, Zenon DEF SpecPrescribes
  <2>2. Raise("ResourceNotFoundError", "Resource not found", 0).kind = "raise"
    BY <1>12, Zenon
  <2>3. QED
    BY <2>1, <2>2, Zenon
<1>8. r.status = 422 => HandleResponse(r).kind = "raise"
  <2>1. r.status = 422 => HandleResponse(r) = Raise("ValidationError", r.body, 0)
    BY <1>1, Zenon DEF SpecPrescribes
  <2>2. Raise("ValidationError", r.body, 0).kind = "raise"
    BY <1>12, Zenon
  <2>3. QED
    BY <2>1, <2>2, Zenon
<1>9. r.status = 429 => HandleResponse(r).kind = "raise"
  <2>1. r.status = 429 => HandleResponse(r) = Raise("RateLimitError", "Rate limit exceeded", 0)
    BY <1>1, Zenon DEF SpecPrescribes
  <2>2. Raise("RateLimitError", "Rate limit exceeded", 0).kind = "raise"
    BY <1>12, Zenon
  <2>3. QED
    BY <2>1, <2>2, Zenon
<1>10. r.status >= 500 => HandleResponse(r).kind = "raise"
  <2>1. r.status >= 500 => HandleResponse(r) = Raise("ServerError", "Server error", r.status)
    BY <1>1, Zenon DEF SpecPrescribes
  <2>2. Raise("ServerError", "Server error", r.status).kind = "raise"
    BY <1>12, Zenon
  <2>3. QED
    BY <2>1, <2>2, Zenon
<1>11. r.status \in 400..499 \ {401, 403, 404, 422, 429} => HandleResponse(r).kind = "raise"
  <2>1. r.status \in 400..499 \ {401, 403, 404, 422, 429} => HandleResponse(r) = Raise("AtlasDNSException", r.body, 0)
    BY <1>1, Zenon DEF SpecPrescribes
  <2>2. Raise("AtlasDNSException", r.body, 0).kind = "raise"
    BY <1>12, Zenon
  <2>3. QED
    BY <2>1, <2>2
<1>13. QED
  BY <1>4, <1>5, <1>6, <1>7, <1>8, <1>9, <1>10, <1>11

\* The decorator's handling of an exception never leaves a value: the
\* call's outcome is unchanged or the exception.
LEMMA OnExceptionNoValue ==
    ASSUME NEW c, NEW e, NEW n, OnException(c, e, n)
    PROVE  \/ outcome' = outcome
           \/ outcome' = [outcome EXCEPT ![c] = Raise(e, "none", 0)]
BY DEF OnException

LEMMA SuccessBackedStep ==
    ASSUME RejectsAreErrors
    PROVE  IInv /\ SuccessBacked /\ [Next]_vars => SuccessBacked'
<1> SUFFICES ASSUME IInv, SuccessBacked, [Next]_vars PROVE SuccessBacked'
  OBVIOUS
<1>0. TypeOK
  BY DEF IInv
<1>1. ASSUME NEW c \in Calls, Send(c) PROVE SuccessBacked'
  <2>1. UNCHANGED <<resp, applied>>
    BY <1>1 DEF Send
  <2>2. \/ outcome' = outcome
        \/ \E e \in Faults : outcome' = [outcome EXCEPT ![c] = Raise(e, "none", 0)]
    BY <1>1, OnExceptionNoValue DEF Send
  <2>3. \A d \in Calls : outcome'[d].kind = "value" => outcome[d].kind = "value"
    <3>1. outcome \in [Calls -> Outcomes]
      BY <1>0 DEF TypeOK
    <3>2. QED
      BY <3>1, <2>2 DEF Raise
  <2>4. QED
    BY <2>1, <2>3 DEF SuccessBacked
<1>2. ASSUME NEW c \in Calls, Receive(c) PROVE SuccessBacked'
  <2>1. /\ resp[c] # NoResp
        /\ outcome' = [outcome EXCEPT ![c] = HandleResponse(resp[c])]
        /\ resp' = [resp EXCEPT ![c] = NoResp]
        /\ UNCHANGED applied
    BY <1>2 DEF Receive
  <2>2. resp[c] \in Responses
    BY <1>0, <2>1 DEF TypeOK
  <2>4. HandleResponse(resp[c]).kind = "value" => applied[c] >= 1
    BY <2>2, HandleResponseValue DEF SuccessBacked
  <2>5. NoResp \notin Responses
    BY RejectAssumption DEF NoResp, RespEntry, Responses, Statuses
  <2>6. QED
    BY <1>0, <2>1, <2>4, <2>5 DEF SuccessBacked, TypeOK
<1>3. ASSUME NEW c \in Calls, ReadFailure(c) PROVE SuccessBacked'
  <2>1. UNCHANGED <<resp, applied>>
    BY <1>3 DEF ReadFailure
  <2>2. \/ outcome' = outcome
        \/ \E e \in Faults : outcome' = [outcome EXCEPT ![c] = Raise(e, "none", 0)]
    BY <1>3, OnExceptionNoValue DEF ReadFailure
  <2>3. \A d \in Calls : outcome'[d].kind = "value" => outcome[d].kind = "value"
    <3>1. outcome \in [Calls -> Outcomes]
      BY <1>0 DEF TypeOK
    <3>2. QED
      BY <3>1, <2>2 DEF Raise
  <2>4. QED
    BY <2>1, <2>3 DEF SuccessBacked
<1>4. ASSUME NEW r \in Requests, ServerReject(r) PROVE SuccessBacked'
  <2>1. PICK rs \in RejectStatuses, b \in Bodies : Answer(r, RespEntry(rs, b))
    BY <1>4 DEF ServerReject
  <2>2. rs >= 400
    BY RejectsAreErrors DEF RejectsAreErrors
  <2>3. UNCHANGED <<outcome, applied>>
    BY <1>4 DEF ServerReject
  <2>4. \A d \in Calls : resp'[d] = resp[d] \/ resp'[d] = RespEntry(rs, b)
    BY <1>0, <2>1 DEF Answer, TypeOK
  <2>5. ~(RespEntry(rs, b).status < 400)
    BY <2>2, RejectAssumption DEF RespEntry
  <2>6. QED
    BY <2>3, <2>4, <2>5 DEF SuccessBacked
<1>5. ASSUME NEW r \in Requests, ServerExecute(r) PROVE SuccessBacked'
  <2> DEFINE st == ServerStatus(op[r.call].method, store[op[r.call].key])
  <2>1. r.call \in Calls /\ applied \in [Calls -> Nat]
    BY <1>0 DEF TypeOK, Requests
  <2>2. st \in {200, 201, 204, 404, 409}
    <3>1. op[r.call] \in Operations /\ store \in [Keys -> BOOLEAN]
      BY <1>0, <2>1 DEF TypeOK
    <3>2. QED
      BY <3>1, ServerType DEF Operations
  <2>3. /\ applied' = IF st \in 200..299
                        THEN [applied EXCEPT ![r.call] = @ + 1]
                        ELSE applied
        /\ \E b \in Bodies : Answer(r, RespEntry(st, IF st = 204 THEN "text" ELSE b))
        /\ UNCHANGED outcome
    BY <1>5 DEF ServerExecute
  <2>4. /\ \A c \in Calls : applied'[c] >= applied[c] /\ applied'[c] \in Nat
        /\ st < 400 => applied'[r.call] >= 1
    <3>1. CASE st \in 200..299
      <4>1. applied' = [applied EXCEPT ![r.call] = applied[r.call] + 1]
        BY <2>3, <3>1
      <4>2. QED
        BY <2>1, <4>1
    <3>2. CASE st \notin 200..299
      <4>1. applied' = applied
        BY <2>3, <3>2
      <4>3. ~(st < 400)
        BY <2>2, <3>2, ExecutedErrorStatus, Zenon
      <4>4. QED
        BY <2>1, <4>1, <4>3
    <3>3. QED
      BY <3>1, <3>2
  <2>6. PICK b \in Bodies : Answer(r, RespEntry(st, IF st = 204 THEN "text" ELSE b))
    BY <2>3
  <2>7. \A d \in Calls : \/ resp'[d] = resp[d]
                         \/ d = r.call /\ resp'[d] = RespEntry(st, IF st = 204 THEN "text" ELSE b)
    <3>1. resp \in [Calls -> Responses \cup {NoResp}]
      BY <1>0 DEF TypeOK
    <3>2. QED
      BY <2>6, <3>1 DEF Answer
  <2>8. RespEntry(st, IF st = 204 THEN "text" ELSE b).status = st
    BY DEF RespEntry
  <2>9. SUFFICES ASSUME NEW c \in Calls
                 PROVE  /\ resp'[c] \in Responses /\ resp'[c].status < 400
                              => applied'[c] >= 1
                        /\ outcome'[c].kind = "value" => applied'[c] >= 1
    BY DEF SuccessBacked
  <2>10. /\ resp[c] \in Responses /\ resp[c].status < 400 => applied[c] >= 1
         /\ outcome[c].kind = "value" => applied[c] >= 1
    BY <1>0 DEF SuccessBacked
  <2>5. /\ outcome'[c] = outcome[c]
        /\ applied'[c] >= applied[c]
        /\ applied[c] \in Nat
        /\ applied'[c] \in Nat
    BY <2>1, <2>3, <2>4
  <2>11. CASE resp'[c] = resp[c]
    <3>1. applied[c] >= 1 => applied'[c] >= 1
      BY <2>5
    <3>2. QED
      BY <2>5, <2>10, <2>11, <3>1, Zenon
  <2>12. CASE c = r.call /\ resp'[c] = RespEntry(st, IF st = 204 THEN "text" ELSE b)
    BY <2>4, <2>5, <2>8, <2>10, <2>12
  <2>13. QED
    BY <2>7, <2>11, <2>12
<1>6. CASE UNCHANGED vars
  BY <1>6 DEF vars, SuccessBacked
<1>7. QED
  BY <1>1, <1>2, <1>3, <1>4, <1>5, <1>6 DEF Next, Terminated

\* When the server refuses only with 4xx and 5xx statuses, a call of
\* _request that returned a value (so that create_*, update_* and delete_*
\* report success) had one of its requests executed by the server
\* (SuccessMeansApplied of Pipeline).
THEOREM SuccessMeansAppliedHolds ==
    ASSUME RejectsAreErrors
    PROVE  Spec => []SuccessMeansApplied
<1>1. Init => SuccessBacked
  <2>1. NoResp \notin Responses
    BY RejectAssumption DEF NoResp, RespEntry, Responses, Statuses
  <2>2. ASSUME Init
        PROVE  \A c \in Calls : resp[c] = NoResp /\ outcome[c].kind = "none"
    BY <2>2 DEF Init, NoOutcome
  <2>3. QED
    BY <2>1, <2>2 DEF SuccessBacked
<1>2. Spec => [](IInv /\ SuccessBacked)
  <2>1. Init => IInv
    BY InitIInv
  <2>2. IInv /\ [Next]_vars => IInv'
    BY NextIInv
  <2>3. IInv /\ SuccessBacked /\ [Next]_vars => SuccessBacked'
    BY SuccessBackedStep
  <2>4. QED
    BY <1>1, <2>1, <2>2, <2>3, PTL DEF Spec
<1>3. SuccessBacked => SuccessMeansApplied
  BY DEF SuccessBacked, SuccessMeansApplied
<1>4. QED
  BY <1>2, <1>3, PTL

=============================================================================
