--------------------------- MODULE LifecycleProofs ---------------------------
(***************************************************************************)
(* Proofs about the transport lifecycle (Lifecycle.tla): the calls of      *)
(* _request beside the caller's with block keep their types when close()  *)
(* or __exit__ closes the httpx client under them, for every number of     *)
(* calls and every max_tries.                                              *)
(***************************************************************************)
EXTENDS Lifecycle, PipelineProofs

(***************************************************************************)
(* LTypeOK is not inductive alone: a call may start a try, on an open or   *)
(* on a closed client, only while below max_tries, or the tries counter    *)
(* would leave 0..max_tries.                                               *)
(***************************************************************************)
LInv == LTypeOK /\ ReadyBelowMax

-----------------------------------------------------------------------------
(* Lemmas about the operators.                                             *)

\* The decorator's handling of an exception of httpx (a fault of the
\* network, RuntimeError of a closed client or ReadError of a closed pool)
\* keeps the types, and lets a call retry only below max_tries, when n is
\* the number of tries made so far.
LEMMA LOnExceptionStep ==
    ASSUME LInv,
           NEW c \in Calls, NEW e \in Faults \cup CloseFaults,
           OnException(c, e, attempts'[c]),
           attempts' \in [Calls -> 0..MaxTries],
           \A d \in Calls \ {c} : attempts'[d] = attempts[d]
    PROVE  /\ pc' \in [Calls -> {"ready", "waiting", "done"}]
           /\ log' \in [Calls -> Seq(LEntries)]
           /\ outcome' \in [Calls -> LOutcomes]
           /\ ReadyBelowMax'
<1> DEFINE n == attempts'[c]
<1>0. /\ pc \in [Calls -> {"ready", "waiting", "done"}]
      /\ log \in [Calls -> Seq(LEntries)]
      /\ outcome \in [Calls -> LOutcomes]
  BY DEF LInv, LTypeOK
<1>1. FailEntry(e) \in LEntries
  BY DEF FailEntry, LEntries, Entries
<1>2. log' \in [Calls -> Seq(LEntries)]
  BY <1>0, <1>1 DEF OnException
<1>3. CASE GivesUp(e, n)
  <2>1. /\ pc' = [pc EXCEPT ![c] = "done"]
        /\ outcome' = [outcome EXCEPT ![c] = Raise(e, "none", 0)]
    BY <1>3 DEF OnException
  <2>2. Raise(e, "none", 0) \in LOutcomes
    BY DEF Raise, LOutcomes, Outcomes, Messages
  <2>3. ReadyBelowMax'
    BY <1>0, <2>1 DEF LInv, ReadyBelowMax
  <2>4. QED
    BY <1>0, <1>2, <2>1, <2>2, <2>3
<1>4. CASE ~GivesUp(e, n)
  <2>1. pc' = [pc EXCEPT ![c] = "ready"] /\ outcome' = outcome
    BY <1>4 DEF OnException
  <2>2. n < MaxTries
    BY <1>4, MaxTriesAssumption DEF GivesUp
  <2>3. ReadyBelowMax'
    BY <1>0, <2>1, <2>2 DEF LInv, ReadyBelowMax
  <2>4. QED
    BY <1>0, <1>2, <2>1, <2>3
<1>5. QED
  BY <1>3, <1>4

-----------------------------------------------------------------------------

LEMMA LInitLInv == LInit => LInv
<1> SUFFICES ASSUME LInit PROVE LInv
  OBVIOUS
<1>1. TypeOK /\ ReadyBelowMax
  BY InitIInv DEF LInit, IInv
<1>2. /\ Entries \subseteq LEntries
      /\ Outcomes \subseteq LOutcomes
  BY DEF LEntries, LOutcomes
<1>3. QED
  BY <1>1, <1>2 DEF LInit, LInv, LTypeOK, TypeOK

\* The steps of the caller's block and of httpx's close touch only the
\* lifecycle's variables.
LEMMA CloseStepsLInv ==
    ASSUME LInv, Close \/ Exit \/ Release
    PROVE  LInv'
<1>1. UNCHANGED vars
  BY DEF Close, Exit, Release
<1>2. /\ client' \in {"open", "closed"}
      /\ pool' \in {"open", "closing", "released"}
  BY DEF Close, Exit, Release, StartClose, LInv, LTypeOK
<1>3. body' \in {"running", "closing", "exiting", "exited"}
  BY Zenon DEF Close, Exit, Release, LInv, LTypeOK
<1>4. QED
  BY <1>1, <1>2, <1>3 DEF vars, LInv, LTypeOK, ReadyBelowMax

\* A try of _request on an open or a closed client.
LEMMA SendLInv ==
    ASSUME LInv, NEW c \in Calls, LSend(c) \/ ClosedSend(c)
    PROVE  LInv'
<1>0. LTypeOK
  BY DEF LInv
<1>1. /\ pc[c] = "ready"
      /\ attempts[c] < MaxTries
      /\ attempts' = [attempts EXCEPT ![c] = attempts[c] + 1]
      /\ UNCHANGED <<store, op, resp, applied, client, pool, body>>
  BY DEF LSend, Send, ClosedSend, LInv, ReadyBelowMax, lvars
<1>2. /\ attempts' \in [Calls -> 0..MaxTries]
      /\ \A d \in Calls \ {c} : attempts'[d] = attempts[d]
      /\ attempts'[c] = attempts[c] + 1
  BY <1>0, <1>1, MaxTriesAssumption DEF LTypeOK
<1>3. CASE \E e \in Faults \cup CloseFaults :
              /\ OnException(c, e, attempts'[c])
              /\ UNCHANGED pending
  <2>1. PICK e \in Faults \cup CloseFaults :
              OnException(c, e, attempts'[c]) /\ UNCHANGED pending
    BY <1>3
  <2>2. QED
    BY <1>0, <1>1, <1>2, <2>1, LOnExceptionStep DEF LInv, LTypeOK
<1>4. CASE /\ pending' = pending \cup {[call |-> c, try |-> attempts[c] + 1]}
           /\ pc' = [pc EXCEPT ![c] = "waiting"]
           /\ UNCHANGED <<log, outcome>>
  <2>1. LTypeOK'
    BY <1>0, <1>1, <1>2, <1>4, MaxTriesAssumption DEF LTypeOK, Requests
  <2>2. ReadyBelowMax'
    BY <1>0, <1>2, <1>4 DEF LInv, LTypeOK, ReadyBelowMax
  <2>3. QED
    BY <2>1, <2>2 DEF LInv
<1>5. QED
  <2>1. CASE LSend(c)
    BY <1>2, <1>3, <1>4, <2>1 DEF LSend, Send
  <2>2. CASE ClosedSend(c)
    BY <1>2, <1>3, <2>2 DEF ClosedSend, CloseFaults
  <2>3. QED
    BY <2>1, <2>2

\* The answer to a try, a read failure, and a read cut off by the pool.
LEMMA AnswerLInv ==
    ASSUME LInv, NEW c \in Calls, LReceive(c) \/ LReadFailure(c) \/ Dropped(c)
    PROVE  LInv'
<1>0. LTypeOK
  BY DEF LInv
<1>1. CASE LReceive(c)
  <2>1. /\ pc[c] = "waiting"
        /\ resp[c] \in Responses
        /\ log' = [log EXCEPT ![c] = Append(@, resp[c])]
        /\ outcome' = [outcome EXCEPT ![c] = HandleResponse(resp[c])]
        /\ pc' = [pc EXCEPT ![c] = "done"]
        /\ resp' = [resp EXCEPT ![c] = NoResp]
        /\ UNCHANGED <<store, op, attempts, pending, applied, client, pool, body>>
    BY <1>0, <1>1 DEF LReceive, Receive, LTypeOK, lvars
  <2>2. /\ resp[c] \in Entries
        /\ resp[c].err = "none"
    BY <2>1 DEF Entries, Responses
  <2>3. HandleResponse(resp[c]) \in LOutcomes
    BY <2>2, HandleResponseType DEF LOutcomes
  <2>4. resp[c] \in LEntries
    BY <2>2 DEF LEntries
  <2>5. LTypeOK'
    BY <1>0, <2>1, <2>3, <2>4 DEF LTypeOK
  <2>6. ReadyBelowMax'
    BY <1>0, <2>1 DEF LInv, LTypeOK, ReadyBelowMax
  <2>7. QED
    BY <2>5, <2>6 DEF LInv
<1>2. CASE LReadFailure(c) \/ Dropped(c)
  <2>1. PICK e \in Faults \cup CloseFaults : OnException(c, e, attempts[c])
    BY <1>2 DEF LReadFailure, ReadFailure, Dropped, CloseFaults
  <2>2. UNCHANGED <<store, op, attempts, pending, resp, applied, client, pool, body>>
    BY <1>2 DEF LReadFailure, ReadFailure, Dropped, lvars
  <2>3. QED
    BY <1>0, <2>1, <2>2, LOnExceptionStep DEF LInv, LTypeOK
<1>3. QED
  BY <1>1, <1>2

\* The server handling a delivered request.
LEMMA ServerLInv ==
    ASSUME LInv, NEW r \in Requests, LServer(r)
    PROVE  LInv'
<1>0. /\ store \in [Keys -> BOOLEAN]
      /\ op \in [Calls -> Operations]
      /\ resp \in [Calls -> Responses \cup {NoResp}]
      /\ applied \in [Calls -> Nat]
  BY DEF LInv, LTypeOK
<1>1. /\ pending' \subseteq Requests
      /\ UNCHANGED <<op, pc, attempts, log, outcome, client, pool, body>>
  BY DEF LServer, ServerReject, ServerExecute, lvars, LInv, LTypeOK
<1>2. CASE ServerReject(r)
  <2>1. PICK rs \in RejectStatuses, b \in Bodies : Answer(r, RespEntry(rs, b))
    BY <1>2 DEF ServerReject
  <2>2. RespEntry(rs, b) \in Responses
    BY DEF RespEntry, Responses, Statuses
  <2>3. resp' \in [Calls -> Responses \cup {NoResp}]
    BY <1>0, <2>1, <2>2 DEF Answer
  <2>4. QED
    BY <1>1, <1>2, <2>3 DEF ServerReject, LInv, LTypeOK, ReadyBelowMax
<1>3. CASE ServerExecute(r)
  <2> DEFINE m == op[r.call].method
             k == op[r.call].key
             st == ServerStatus(m, store[k])
  <2>1. r.call \in Calls /\ m \in Methods /\ k \in Keys /\ store[k] \in BOOLEAN
    BY <1>0 DEF Operations, Requests
  <2>2. st \in {200, 201, 204, 404, 409} /\ ServerStore(m, store[k]) \in BOOLEAN
    BY <2>1, ServerType
  <2>3. /\ store' = [store EXCEPT ![k] = ServerStore(m, store[k])]
        /\ applied' = IF st \in 200..299
                        THEN [applied EXCEPT ![r.call] = applied[r.call] + 1]
                        ELSE applied
        /\ \E b \in Bodies : Answer(r, RespEntry(st, IF st = 204 THEN "text" ELSE b))
    BY <1>3 DEF ServerExecute
  <2>4. store' \in [Keys -> BOOLEAN]
    BY <1>0, <2>1, <2>2, <2>3
  <2>5. applied' \in [Calls -> Nat]
    <3>1. [applied EXCEPT ![r.call] = applied[r.call] + 1] \in [Calls -> Nat]
      BY <1>0, <2>1
    <3>2. QED
      BY <1>0, <2>3, <3>1
  <2>6. resp' \in [Calls -> Responses \cup {NoResp}]
    <3>1. PICK b \in Bodies : Answer(r, RespEntry(st, IF st = 204 THEN "text" ELSE b))
      BY <2>3
    <3>2. RespEntry(st, IF st = 204 THEN "text" ELSE b) \in Responses
      BY <2>2, BodiesAssumption DEF RespEntry, Responses, Statuses
    <3>3. QED
      BY <1>0, <3>1, <3>2 DEF Answer
  <2>7. QED
    BY <1>1, <2>4, <2>5, <2>6 DEF LInv, LTypeOK, ReadyBelowMax
<1>4. QED
  BY <1>2, <1>3 DEF LServer

LEMMA LNextLInv == LInv /\ [LNext]_allvars => LInv'
<1> SUFFICES ASSUME LInv, [LNext]_allvars PROVE LInv'
  OBVIOUS
<1>1. CASE Close \/ Exit \/ Release
  BY <1>1, CloseStepsLInv
<1>2. ASSUME NEW c \in Calls,
             LSend(c) \/ ClosedSend(c) \/ LReceive(c) \/ LReadFailure(c) \/ Dropped(c)
      PROVE  LInv'
  BY <1>2, SendLInv, AnswerLInv
<1>3. ASSUME NEW r \in Requests, LServer(r) PROVE LInv'
  BY <1>3, ServerLInv
<1>4. CASE LTerminated \/ UNCHANGED allvars
  BY <1>4 DEF LTerminated, allvars, vars, lvars, LInv, LTypeOK, ReadyBelowMax
<1>5. QED
  BY <1>1, <1>2, <1>3, <1>4 DEF LNext

\* Every variable keeps its type (LTypeOK of Lifecycle) when close() or
\* __exit__ closes the httpx client while calls of _request are running:
\* in particular no call makes more than max_tries tries, counting the
\* ones that failed with RuntimeError on the closed client.
THEOREM LifecycleTypeCorrect == LSpec => []LTypeOK
<1>1. LSpec => []LInv
  BY LInitLInv, LNextLInv, PTL DEF LSpec
<1>2. QED
  BY <1>1, PTL DEF LInv

-----------------------------------------------------------------------------
(* Refinement of RequestContract.  Closing the client under running calls  *)
(* keeps the contract of _request: a try on the closed client is an        *)
(* attempt that ends the call with RuntimeError, and a read the pool cuts  *)
(* off ends it with ReadError, neither of them transient.                  *)

LRInv == LInv /\ OutcomeOnlyWhenDone /\ WaitingTried

\* The decorator's handling of exception e of try n of a running call c
\* either retries, leaving the outcomes alone, or settles c with e.
LEMMA OnExceptionSettles ==
    ASSUME NEW c \in Calls, NEW e, NEW n,
           pc \in [Calls -> {"ready", "waiting", "done"}],
           outcome \in [Calls -> LOutcomes],
           pc[c] # "done",
           OutcomeOnlyWhenDone,
           OnException(c, e, n)
    PROVE  /\ \/ UNCHANGED outcome /\ pc' = [pc EXCEPT ![c] = "ready"]
              \/ /\ Contract!Settle(c, n)
                 /\ outcome'[c].kind = "raise"
                 /\ pc' = [pc EXCEPT ![c] = "done"]
           /\ OutcomeOnlyWhenDone'
<1>1. CASE GivesUp(e, n)
  <2>1. /\ pc' = [pc EXCEPT ![c] = "done"]
        /\ outcome' = [outcome EXCEPT ![c] = Raise(e, "none", 0)]
    BY <1>1 DEF OnException
  <2>2. e \in Transient => n = MaxTries
    BY <1>1 DEF GivesUp, RetryOn, Transient
  <2>3. Contract!Settle(c, n) /\ outcome'[c].kind = "raise"
    BY <2>1, <2>2 DEF Contract!Settle, Raise, NoOutcome
  <2>4. OutcomeOnlyWhenDone'
    BY <2>1 DEF OutcomeOnlyWhenDone
  <2>5. QED
    BY <2>1, <2>3, <2>4
<1>2. CASE ~GivesUp(e, n)
  <2>1. pc' = [pc EXCEPT ![c] = "ready"] /\ outcome' = outcome
    BY <1>2 DEF OnException
  <2>2. outcome[c] = NoOutcome
    BY DEF OutcomeOnlyWhenDone
  <2>3. OutcomeOnlyWhenDone'
    BY <2>1, <2>2 DEF OutcomeOnlyWhenDone
  <2>4. QED
    BY <2>1, <2>3
<1>3. QED
  BY <1>1, <1>2

LEMMA LRefinementStep ==
    ASSUME LRInv, [LNext]_allvars
    PROVE  /\ OutcomeOnlyWhenDone' /\ WaitingTried'
           /\ [Contract!Next]_<<attempts, outcome>>
<1>0. /\ pc \in [Calls -> {"ready", "waiting", "done"}]
      /\ outcome \in [Calls -> LOutcomes]
      /\ attempts \in [Calls -> 0..MaxTries]
  BY DEF LRInv, LInv, LTypeOK
<1>1. CASE Close \/ Exit \/ Release \/ LTerminated \/ UNCHANGED allvars
  <2>1. UNCHANGED vars
    BY <1>1 DEF Close, Exit, Release, LTerminated, allvars
  <2>2. QED
    BY <2>1 DEF vars, LRInv, OutcomeOnlyWhenDone, WaitingTried
<1>2. ASSUME NEW c \in Calls, LSend(c) \/ ClosedSend(c)
      PROVE  /\ OutcomeOnlyWhenDone' /\ WaitingTried'
             /\ Contract!Attempt(c)
  <2>1. /\ pc[c] = "ready"
        /\ outcome[c] = NoOutcome
        /\ attempts[c] < MaxTries
        /\ attempts' = [attempts EXCEPT ![c] = attempts[c] + 1]
    BY <1>2 DEF LSend, Send, ClosedSend, LRInv, LInv, ReadyBelowMax, OutcomeOnlyWhenDone
  <2>2. /\ attempts'[c] = attempts[c] + 1
        /\ attempts'[c] >= 1
        /\ \A d \in Calls \ {c} : attempts'[d] = attempts[d]
    BY <1>0, <2>1
  <2>3. CASE \E e \in Faults \cup CloseFaults : OnException(c, e, attempts'[c])
    <3>1. PICK e \in Faults \cup CloseFaults : OnException(c, e, attempts'[c])
      BY <2>3
    <3>2. /\ \/ UNCHANGED outcome /\ pc' = [pc EXCEPT ![c] = "ready"]
             \/ /\ Contract!Settle(c, attempts'[c])
                /\ outcome'[c].kind = "raise"
                /\ pc' = [pc EXCEPT ![c] = "done"]
          /\ OutcomeOnlyWhenDone'
      BY <1>0, <2>1, <3>1, OnExceptionSettles DEF LRInv
    <3>3. WaitingTried'
      BY <1>0, <2>2, <3>2 DEF LRInv, WaitingTried
    <3>4. QED
      BY <2>1, <3>2, <3>3 DEF Contract!Attempt, NoOutcome
  <2>4. CASE pc' = [pc EXCEPT ![c] = "waiting"] /\ UNCHANGED outcome
    <3>1. OutcomeOnlyWhenDone' /\ WaitingTried'
      BY <1>0, <2>1, <2>2, <2>4 DEF LRInv, OutcomeOnlyWhenDone, WaitingTried
    <3>2. QED
      BY <2>1, <2>4, <3>1 DEF Contract!Attempt
  <2>5. QED
    <3>1. CASE LSend(c)
      BY <2>2, <2>3, <2>4, <3>1 DEF LSend, Send
    <3>2. CASE ClosedSend(c)
      BY <2>2, <2>3, <3>2 DEF ClosedSend, CloseFaults
    <3>3. QED
      BY <1>2, <3>1, <3>2
<1>3. ASSUME NEW c \in Calls, LReceive(c)
      PROVE  /\ OutcomeOnlyWhenDone' /\ WaitingTried'
             /\ Contract!Finish(c)
  <2>1. /\ pc[c] = "waiting"
        /\ outcome[c] = NoOutcome
        /\ attempts[c] >= 1
        /\ outcome' = [outcome EXCEPT ![c] = HandleResponse(resp[c])]
        /\ pc' = [pc EXCEPT ![c] = "done"]
        /\ UNCHANGED attempts
    BY <1>3 DEF LReceive, Receive, LRInv, OutcomeOnlyWhenDone, WaitingTried
  <2>2. /\ HandleResponse(resp[c]).kind \in {"value", "raise"}
        /\ HandleResponse(resp[c]).exc \notin Transient
    BY HandleResponseExc DEF HandleResponse, Raise, Decode, Value, TypedErrors, Transient
  <2>3. OutcomeOnlyWhenDone' /\ WaitingTried'
    BY <1>0, <2>1 DEF LRInv, OutcomeOnlyWhenDone, WaitingTried
  <2>4. QED
    BY <1>0, <2>1, <2>2, <2>3 DEF Contract!Finish, Contract!Settle, NoOutcome
<1>4. ASSUME NEW c \in Calls, LReadFailure(c) \/ Dropped(c)
      PROVE  /\ OutcomeOnlyWhenDone' /\ WaitingTried'
             /\ Contract!Finish(c) \/ UNCHANGED <<attempts, outcome>>
  <2>1. /\ pc[c] = "waiting"
        /\ attempts[c] >= 1
        /\ outcome[c] = NoOutcome
        /\ UNCHANGED attempts
    BY <1>4 DEF LReadFailure, ReadFailure, Dropped, LRInv, WaitingTried,
               OutcomeOnlyWhenDone
  <2>2. PICK e \in Faults \cup CloseFaults : OnException(c, e, attempts[c])
    BY <1>4 DEF LReadFailure, ReadFailure, Dropped, CloseFaults
  <2>3. /\ \/ UNCHANGED outcome /\ pc' = [pc EXCEPT ![c] = "ready"]
           \/ /\ Contract!Settle(c, attempts[c])
              /\ outcome'[c].kind = "raise"
              /\ pc' = [pc EXCEPT ![c] = "done"]
        /\ OutcomeOnlyWhenDone'
    BY <1>0, <2>1, <2>2, OnExceptionSettles DEF LRInv
  <2>4. WaitingTried'
    BY <1>0, <2>1, <2>3 DEF LRInv, WaitingTried
  <2>5. QED
    BY <2>1, <2>3, <2>4 DEF Contract!Finish, NoOutcome
<1>5. ASSUME NEW r \in Requests, LServer(r)
      PROVE  /\ OutcomeOnlyWhenDone' /\ WaitingTried'
             /\ UNCHANGED <<attempts, outcome>>
  <2>1. UNCHANGED <<pc, attempts, outcome>>
    <3>1. CASE ServerReject(r)
      BY <3>1, Zenon DEF ServerReject
    <3>2. CASE ServerExecute(r)
      BY <3>2, Zenon DEF ServerExecute
    <3>3. QED
      BY <1>5, <3>1, <3>2 DEF LServer
  <2>2. QED
    BY <2>1 DEF LRInv, OutcomeOnlyWhenDone, WaitingTried
<1>6. QED
  BY <1>1, <1>2, <1>3, <1>4, <1>5 DEF LNext, Contract!Next

\* With close() or __exit__ closing the httpx client under running calls,
\* _request still implements the contract of spec section 4.1 (ContractSpec
\* of Pipeline): at most max_tries attempts, one end that never changes,
\* and a transient failure only after the last attempt; a RuntimeError of
\* the closed client and a ReadError of the closed pool end a call at once.
THEOREM LifecycleImplementsContract == LSpec => ContractSpec
<1>1. LInit => Contract!Init
  BY DEF LInit, Init, Contract!Init
<1>2. LInit => LRInv
  BY LInitLInv DEF LInit, Init, LRInv, OutcomeOnlyWhenDone, WaitingTried
<1>3. LRInv /\ [LNext]_allvars => LRInv'
  BY LNextLInv, LRefinementStep DEF LRInv
<1>4. LRInv /\ [LNext]_allvars => [Contract!Next]_<<attempts, outcome>>
  BY LRefinementStep
<1>5. QED
  BY <1>1, <1>2, <1>3, <1>4, PTL DEF LSpec, ContractSpec, Contract!Spec

=============================================================================
