---------------------------- MODULE FacadeProofs ----------------------------
(***************************************************************************)
(* Proofs about the client facade (Facade.tla): every facade step is a     *)
(* step of the pipeline or leaves it alone, so what PipelineProofs proves  *)
(* of _request holds inside the facade methods too, and a delete method    *)
(* reports True only for a deletion the server made.                       *)
(***************************************************************************)
EXTENDS Facade, PipelineProofs

(***************************************************************************)
(* A call that is done has returned or raised: the pipeline never ends a   *)
(* call without an outcome.  Without it the bool wrapper of a delete       *)
(* method could turn the empty outcome into True.                          *)
(***************************************************************************)
DoneDecided == \A c \in Calls : pc[c] = "done" => outcome[c].kind \in {"value", "raise"}

\* A facade method that returned True saw the server act for its call.
TrueBacked == \A c \in Calls : result[c] = Value("True") => applied[c] >= 1

-----------------------------------------------------------------------------
(* Lemmas about the operators.                                             *)

\* _handle_response returns or raises; it never gives the empty outcome.
LEMMA HandleResponseDecided ==
    ASSUME NEW r
    PROVE  HandleResponse(r).kind \in {"value", "raise"}
BY DEF HandleResponse, Raise, Decode, Value

\* The wrapper passes an exception through, so True comes from a value.
LEMMA WrapTrue ==
    ASSUME NEW s, NEW o, o.kind = "raise"
    PROVE  Wrap(s, o) # Value("True")
<1>1. Wrap(s, o) = o
  BY Zenon DEF Wrap
<1>2. Value("True").kind = "value"
  BY DEF Value
<1>3. QED
  BY <1>1, <1>2

\* The decorator's handling of an exception ends a call only by raising.
LEMMA OnExceptionDecided ==
    ASSUME NEW c \in Calls, NEW e, NEW n,
           pc \in [Calls -> {"ready", "waiting", "done"}],
           outcome \in [Calls -> Outcomes],
           DoneDecided,
           OnException(c, e, n)
    PROVE  DoneDecided'
<1>1. Raise(e, "none", 0).kind = "raise"
  BY DEF Raise
<1>2. CASE GivesUp(e, n)
  <2>1. /\ pc' = [pc EXCEPT ![c] = "done"]
        /\ outcome' = [outcome EXCEPT ![c] = Raise(e, "none", 0)]
    BY <1>2 DEF OnException
  <2>2. QED
    BY <1>1, <2>1 DEF DoneDecided
<1>3. CASE ~GivesUp(e, n)
  <2>1. pc' = [pc EXCEPT ![c] = "ready"] /\ outcome' = outcome
    BY <1>3 DEF OnException
  <2>2. QED
    BY <2>1 DEF DoneDecided
<1>4. QED
  BY <1>2, <1>3

LEMMA DoneDecidedStep == IInv /\ DoneDecided /\ [Next]_vars => DoneDecided'
<1> SUFFICES ASSUME IInv, DoneDecided, [Next]_vars PROVE DoneDecided'
  OBVIOUS
<1>0. /\ pc \in [Calls -> {"ready", "waiting", "done"}]
      /\ outcome \in [Calls -> Outcomes]
  BY DEF IInv, TypeOK
<1>1. ASSUME NEW c \in Calls, Send(c) PROVE DoneDecided'
  <2>1. CASE \E e \in Faults \cap ConnectFaults : OnException(c, e, attempts[c] + 1)
    BY <1>0, <2>1, OnExceptionDecided
  <2>2. CASE pc' = [pc EXCEPT ![c] = "waiting"] /\ UNCHANGED outcome
    BY <1>0, <2>2 DEF DoneDecided
  <2>3. QED
    BY <1>1, <2>1, <2>2 DEF Send
<1>2. ASSUME NEW c \in Calls, Receive(c) PROVE DoneDecided'
  <2>1. /\ outcome' = [outcome EXCEPT ![c] = HandleResponse(resp[c])]
        /\ pc' = [pc EXCEPT ![c] = "done"]
    BY <1>2 DEF Receive
  <2>2. HandleResponse(resp[c]).kind \in {"value", "raise"}
    BY HandleResponseDecided
  <2>3. QED
    BY <1>0, <2>1, <2>2 DEF DoneDecided
<1>3. ASSUME NEW c \in Calls, ReadFailure(c) PROVE DoneDecided'
  BY <1>0, <1>3, OnExceptionDecided DEF ReadFailure
<1>4. ASSUME NEW r \in Requests, ServerReject(r) \/ ServerExecute(r)
      PROVE DoneDecided'
  BY <1>4 DEF ServerReject, ServerExecute, DoneDecided
<1>5. CASE Terminated \/ UNCHANGED vars
  BY <1>5 DEF Terminated, vars, DoneDecided
<1>6. QED
  BY <1>1, <1>2, <1>3, <1>4, <1>5 DEF Next

\* The server's count of executed requests of a call never goes down.
LEMMA AppliedGrows ==
    IInv /\ [Next]_vars => \A c \in Calls : applied'[c] >= applied[c]
<1> SUFFICES ASSUME IInv, [Next]_vars, NEW c \in Calls
             PROVE  applied'[c] >= applied[c]
  OBVIOUS
<1>0. applied \in [Calls -> Nat]
  BY DEF IInv, TypeOK
<1>1. ASSUME NEW r \in Requests, ServerExecute(r) PROVE applied'[c] >= applied[c]
  <2> DEFINE st == ServerStatus(op[r.call].method, store[op[r.call].key])
  <2>1. r.call \in Calls
    BY DEF Requests
  <2>2. CASE st \in 200..299
    <3>1. applied' = [applied EXCEPT ![r.call] = applied[r.call] + 1]
      BY <1>1, <2>2 DEF ServerExecute
    <3>2. QED
      BY <1>0, <2>1, <3>1
  <2>3. CASE st \notin 200..299
    <3>1. applied' = applied
      BY <1>1, <2>3 DEF ServerExecute
    <3>2. QED
      BY <1>0, <3>1
  <2>4. QED
    BY <2>2, <2>3
<1>2. CASE ~\E r \in Requests : ServerExecute(r)
  <2>1. UNCHANGED applied
    BY <1>2 DEF Next, Send, Receive, ReadFailure, ServerReject, Terminated, vars
  <2>2. QED
    BY <1>0, <2>1
<1>3. QED
  BY <1>1, <1>2

-----------------------------------------------------------------------------
(* The facade steps.                                                       *)

\* Every facade method returns a model, a list of models or True for data,
\* and the wrappers' shapes are the four the code has.
Shapes == {"bool", "raw", "single", "list"}

LEMMA EndpointShapes == \A ep \in Endpoints : ep.shape \in Shapes
BY DEF Endpoints, SyncEndpoints, AsyncEndpoints, ZoneEndpoints, RecordEndpoints,
       BulkEndpoints, HealthCheckEndpoints, TrafficPolicyEndpoints,
       GeoDNSEndpoints, DNSSECEndpoints, AnalyticsEndpoints, QueryEndpoints,
       MonitoringEndpoints, WebhookEndpoints, Ep, Shapes

\* The wrapper of a facade method turns an outcome of _request into one of
\* the results a facade method has.
LEMMA WrapType ==
    ASSUME NEW s \in Shapes, NEW o \in Outcomes
    PROVE  Wrap(s, o) \in FResults
<1>1. Outcomes \subseteq FResults
  BY DEF FResults
<1>2. CASE o.kind = "raise"
  <2>1. Wrap(s, o) = o
    BY <1>2, Zenon DEF Wrap
  <2>2. QED
    BY <1>1, <2>1
<1>3. CASE o.kind # "raise"
  <2>1. Wrap(s, o) \in {Value("True"), o, Value("model"), Value("models"),
                       Raise("TypeError", "none", 0)}
    BY <1>3, Zenon DEF Wrap, Shapes
  <2>2. {Value("True"), Value("model"), Value("models"),
         Raise("TypeError", "none", 0)} \subseteq FResults
    BY DEF Value, Raise, FResults
  <2>3. QED
    BY <1>1, <2>1, <2>2
<1>4. QED
  BY <1>2, <1>3

\* A facade step is a step of the pipeline or leaves the pipeline alone.
LEMMA FNextNext == [FNext]_allvars => [Next]_vars
<1> SUFFICES ASSUME [FNext]_allvars PROVE [Next]_vars
  OBVIOUS
<1>1. ASSUME NEW c \in Calls, CallRequest(c) \/ WrapResult(c) PROVE UNCHANGED vars
  BY <1>1 DEF CallRequest, WrapResult
<1>2. ASSUME NEW c \in Calls, PipelineStep(c) PROVE Next
  BY <1>2 DEF PipelineStep, Next
<1>3. ASSUME NEW r \in Requests, ServerStep(r) PROVE Next
  BY <1>3 DEF ServerStep, Next
<1>4. CASE FTerminated \/ UNCHANGED allvars
  BY <1>4 DEF FTerminated, allvars
<1>5. QED
  BY <1>1, <1>2, <1>3, <1>4 DEF FNext

\* The facade runs the pipeline: its behaviours are behaviours of Spec.
LEMMA FSpecSpec == FSpec => Spec
<1>1. FInit => Init
  BY DEF FInit
<1>2. QED
  BY <1>1, FNextNext, PTL DEF FSpec, Spec

-----------------------------------------------------------------------------
(* Types.                                                                  *)

LEMMA FInitType == FInit => FTypeOK
<1> SUFFICES ASSUME FInit PROVE FTypeOK
  OBVIOUS
<1>1. TypeOK
  BY InitIInv DEF FInit, IInv
<1>2. input \in [Calls -> Inputs \cup {"none"}]
  BY DEF FInit, InputsFor
<1>3. NoOutcome \in FResults
  BY DEF NoOutcome, Outcomes, FResults
<1>4. QED
  BY <1>1, <1>2, <1>3 DEF FInit, FTypeOK

LEMMA FTypeStep == IInv /\ FTypeOK /\ [FNext]_allvars => FTypeOK'
<1> SUFFICES ASSUME IInv, FTypeOK, [FNext]_allvars PROVE FTypeOK'
  OBVIOUS
<1>0. TypeOK'
  BY FNextNext, NextIInv DEF IInv
<1>1. /\ stage \in [Calls -> {"args", "call", "done"}]
      /\ result \in [Calls -> FResults]
      /\ outcome \in [Calls -> Outcomes]
      /\ endpoint \in [Calls -> Endpoints]
  BY DEF FTypeOK, TypeOK
<1>2. ASSUME NEW c \in Calls, CallRequest(c) PROVE FTypeOK'
  <2>1. Raise("TypeError", "none", 0) \in FResults
    BY DEF Raise, FResults
  <2>2. QED
    BY <1>0, <1>1, <1>2, <2>1 DEF CallRequest, FTypeOK
<1>3. ASSUME NEW c \in Calls, WrapResult(c) PROVE FTypeOK'
  <2>1. Wrap(endpoint[c].shape, outcome[c]) \in FResults
    BY <1>1, EndpointShapes, WrapType
  <2>2. QED
    BY <1>0, <1>1, <1>3, <2>1 DEF WrapResult, FTypeOK
<1>4. CASE \/ \E c \in Calls : PipelineStep(c)
           \/ \E r \in Requests : ServerStep(r)
           \/ FTerminated \/ UNCHANGED allvars
  BY <1>0, <1>4 DEF PipelineStep, ServerStep, FTerminated, allvars, fvars, FTypeOK
<1>5. QED
  BY <1>2, <1>3, <1>4 DEF FNext

\* Every facade method's variables keep their types (FTypeOK of Facade):
\* the wrappers of all the methods turn every outcome of _request into a
\* model, a list, True, the data, or a TypeError.
THEOREM FacadeTypeCorrect == FSpec => []FTypeOK
<1>1. FSpec => []IInv
  BY FSpecSpec, InvariantHolds
<1>2. QED
  BY <1>1, FInitType, FTypeStep, PTL DEF FSpec

-----------------------------------------------------------------------------
(* True from a delete method.                                              *)

LEMMA TrueBackedStep ==
    /\ IInv /\ FTypeOK /\ DoneDecided /\ SuccessMeansApplied /\ TrueBacked
    /\ [FNext]_allvars
    => TrueBacked'
<1> SUFFICES ASSUME IInv, FTypeOK, DoneDecided, SuccessMeansApplied, TrueBacked,
                    [FNext]_allvars
             PROVE  TrueBacked'
  OBVIOUS
<1>0. /\ result \in [Calls -> FResults]
      /\ applied \in [Calls -> Nat]
      /\ applied' \in [Calls -> Nat]
      /\ \A c \in Calls : applied'[c] >= applied[c]
  BY FNextNext, NextIInv, AppliedGrows DEF IInv, TypeOK, FTypeOK
<1>1. ASSUME NEW c \in Calls, CallRequest(c) PROVE TrueBacked'
  <2>1. Raise("TypeError", "none", 0) # Value("True")
    BY DEF Raise, Value
  <2>2. \A d \in Calls : result'[d] = result[d] \/ result'[d] = Raise("TypeError", "none", 0)
    BY <1>0, <1>1 DEF CallRequest
  <2>3. QED
    BY <1>0, <2>1, <2>2 DEF TrueBacked
<1>2. ASSUME NEW c \in Calls, WrapResult(c) PROVE TrueBacked'
  <2>1. /\ result' = [result EXCEPT ![c] = Wrap(endpoint[c].shape, outcome[c])]
        /\ pc[c] = "done"
        /\ UNCHANGED applied
    BY <1>2 DEF WrapResult, vars
  <2>2. outcome[c].kind \in {"value", "raise"}
    BY <2>1 DEF DoneDecided
  <2>3. Wrap(endpoint[c].shape, outcome[c]) = Value("True") => applied[c] >= 1
    <3>1. CASE outcome[c].kind = "raise"
      BY <3>1, WrapTrue
    <3>2. CASE outcome[c].kind = "value"
      BY <3>2 DEF SuccessMeansApplied
    <3>3. QED
      BY <2>2, <3>1, <3>2
  <2>4. QED
    BY <1>0, <2>1, <2>3 DEF TrueBacked
<1>3. CASE \/ \E c \in Calls : PipelineStep(c)
           \/ \E r \in Requests : ServerStep(r)
           \/ FTerminated \/ UNCHANGED allvars
  <2>1. UNCHANGED result
    BY <1>3 DEF PipelineStep, ServerStep, FTerminated, allvars, fvars
  <2>2. QED
    BY <1>0, <2>1 DEF TrueBacked
<1>4. QED
  BY <1>1, <1>2, <1>3 DEF FNext

\* When the server refuses requests only with 4xx and 5xx statuses, a
\* delete method of the facade (delete_zone, delete_record, ...) returns
\* True only after the server executed one of its DELETE requests
\* (DeleteTrueMeansDeleted of Facade), for every number of concurrent
\* calls and every method they invoke.
THEOREM DeleteTrueMeansDeletedHolds ==
    ASSUME RejectsAreErrors
    PROVE  FSpec => []DeleteTrueMeansDeleted
<1>1. FSpec => [](IInv /\ SuccessMeansApplied /\ FTypeOK)
  BY FSpecSpec, InvariantHolds, SuccessMeansAppliedHolds, FacadeTypeCorrect, PTL
<1>2. FInit => DoneDecided /\ TrueBacked
  BY DEF FInit, Init, DoneDecided, TrueBacked, NoOutcome, Value
<1>3. FSpec => []DoneDecided
  BY <1>2, FSpecSpec, InvariantHolds, DoneDecidedStep, FNextNext, PTL DEF FSpec
<1>4. FSpec => []TrueBacked
  BY <1>1, <1>2, <1>3, TrueBackedStep, PTL DEF FSpec
<1>5. TrueBacked => DeleteTrueMeansDeleted
  BY DEF TrueBacked, DeleteTrueMeansDeleted
<1>6. QED
  BY <1>4, <1>5, PTL

=============================================================================
