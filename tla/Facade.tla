------------------------------- MODULE Facade -------------------------------
(***************************************************************************)
(* The client facade: the per-operation methods of AtlasDNSClient and      *)
(* AsyncAtlasDNSClient (client.py).  Each method flattens a model argument *)
(* with model_dump(), calls _request (the pipeline of Pipeline.tla) with   *)
(* its fixed method and path, and wraps what _request returned: into one   *)
(* model (Zone from the data), a list of models (one per item), True    *)
(* (the delete methods and disable_dnssec), or the data as it is.       *)
(*                                                                         *)
(* The JSON of a successful response is taken to have the shape the        *)
(* method expects (an object, or an array of objects); the pipeline's      *)
(* "text" value is a body that was not JSON, returned by _request as a str. *)
(***************************************************************************)
EXTENDS Pipeline

CONSTANT Inputs   \* kinds of argument callers pass to write methods

ASSUME InputsAssumption == Inputs \subseteq {"model", "dict"} /\ Inputs # {}

VARIABLES
    endpoint, \* endpoint[c]: the facade method call c invoked
    input,    \* input[c]: "model" instance, plain "dict", or "none"
    stage,    \* "args" before _request, "call" inside it, "done"
    result    \* result[c]: what the facade method returned or raised

fvars == <<endpoint, input, stage, result>>
allvars == <<vars, fvars>>

\* A facade method: name, HTTP method, how it wraps the data ("single",
\* "list", "bool" or "raw") and what its body argument accepts ("none";
\* "either" a model or a dict, flattened with model_dump(); "dict" only,
\* passed to httpx as given; "fields", a dict the method builds itself).
Ep(n, m, w, a) == [name |-> n, method |-> m, shape |-> w, arg |-> a]

ZoneEndpoints ==
    {Ep("list_zones", "GET", "list", "none"),
     Ep("get_zone", "GET", "single", "none"),
     Ep("create_zone", "POST", "single", "either"),
     Ep("update_zone", "PUT", "single", "dict"),
     Ep("delete_zone", "DELETE", "bool", "none"),
     Ep("validate_zone", "GET", "raw", "none")}

RecordEndpoints ==
    {Ep("list_records", "GET", "list", "none"),
     Ep("get_record", "GET", "single", "none"),
     Ep("create_record", "POST", "single", "either"),
     Ep("update_record", "PUT", "single", "dict"),
     Ep("delete_record", "DELETE", "bool", "none")}

BulkEndpoints ==
    {Ep("bulk_create_records", "POST", "list", "either"),
     Ep("execute_bulk_operation", "POST", "raw", "either")}

HealthCheckEndpoints ==
    {Ep("list_health_checks", "GET", "list", "none"),
     Ep("get_health_check", "GET", "single", "none"),
     Ep("create_health_check", "POST", "single", "either"),
     Ep("update_health_check", "PUT", "single", "dict"),
     Ep("delete_health_check", "DELETE", "bool", "none"),
     Ep("test_health_check", "POST", "raw", "none")}

TrafficPolicyEndpoints ==
    {Ep("list_traffic_policies", "GET", "list", "none"),
     Ep("get_traffic_policy", "GET", "single", "none"),
     Ep("create_traffic_policy", "POST", "single", "either"),
     Ep("update_traffic_policy", "PUT", "single", "dict"),
     Ep("delete_traffic_policy", "DELETE", "bool", "none"),
     Ep("simulate_traffic_policy", "POST", "raw", "dict")}

GeoDNSEndpoints ==
    {Ep("list_geodns_rules", "GET", "list", "none"),
     Ep("get_geodns_rule", "GET", "single", "none"),
     Ep("create_geodns_rule", "POST", "single", "either"),
     Ep("update_geodns_rule", "PUT", "single", "dict"),
     Ep("delete_geodns_rule", "DELETE", "bool", "none"),
     Ep("get_geodns_regions", "GET", "raw", "none")}

DNSSECEndpoints ==
    {Ep("get_dnssec_status", "GET", "single", "none"),
     Ep("enable_dnssec", "POST", "single", "dict"),
     Ep("disable_dnssec", "POST", "bool", "none"),
     Ep("rotate_dnssec_keys", "POST", "single", "none")}

AnalyticsEndpoints ==
    {Ep("get_analytics_overview", "GET", "single", "none"),
     Ep("get_query_analytics", "GET", "raw", "none"),
     Ep("get_performance_metrics", "GET", "raw", "none"),
     Ep("get_geographic_analytics", "GET", "raw", "none"),
     Ep("get_top_domains", "GET", "raw", "none")}

QueryEndpoints == {Ep("query_dns", "POST", "single", "fields")}

MonitoringEndpoints ==
    {Ep("get_system_status", "GET", "single", "none"),
     Ep("get_metrics", "GET", "raw", "none")}

WebhookEndpoints ==
    {Ep("list_webhooks", "GET", "list", "none"),
     Ep("get_webhook", "GET", "single", "none"),
     Ep("create_webhook", "POST", "single", "either"),
     Ep("update_webhook", "PUT", "single", "dict"),
     Ep("delete_webhook", "DELETE", "bool", "none"),
     Ep("test_webhook", "POST", "raw", "none")}

\* The methods AsyncAtlasDNSClient defines (the zone methods only).
AsyncEndpoints == ZoneEndpoints \ {Ep("validate_zone", "GET", "raw", "none")}

SyncEndpoints ==
    ZoneEndpoints \cup RecordEndpoints \cup BulkEndpoints \cup HealthCheckEndpoints
    \cup TrafficPolicyEndpoints \cup GeoDNSEndpoints \cup DNSSECEndpoints
    \cup AnalyticsEndpoints \cup QueryEndpoints \cup MonitoringEndpoints
    \cup WebhookEndpoints

Endpoints == SyncEndpoints \cup AsyncEndpoints

\* A write method of spec section 4.2 item 1 (a create_* method, whose
\* argument is Union[Model, Dict], or an update_* method, the PUT ones,
\* whose argument is annotated Dict) may be given a model or a dict. Any
\* other method with a body (simulate_traffic_policy, enable_dnssec) takes
\* only a dict.
WriteMethod(ep) == ep.arg = "either" \/ (ep.arg = "dict" /\ ep.method = "PUT")

\* The arguments a caller may pass for the body of a method.
InputsFor(ep) ==
    IF WriteMethod(ep) THEN Inputs
    ELSE IF ep.arg = "dict" THEN Inputs \cap {"dict"}
    ELSE {"none"}

-----------------------------------------------------------------------------

\* What the method sends as json_data can be serialised by httpx: a model
\* passed where the method takes a dict is not flattened, and json.dumps
\* raises TypeError inside client.request, which backoff does not retry.
Serializable(ep, in) == ~(ep.arg = "dict" /\ in = "model")

\* Mutant: delete methods that swallow ResourceNotFoundError and report
\* True, the "already deleted" special case the spec rules out.
WrapIdempotentDelete(shape, o) ==
    IF shape = "bool" /\ o.kind = "raise" /\ o.exc = "ResourceNotFoundError"
      THEN Value("True")
    ELSE IF o.kind = "raise" THEN o
    ELSE CASE shape = "bool"   -> Value("True")
           [] shape = "raw"    -> o
           [] shape = "single" -> IF o.data = "json" THEN Value("model")
                                  ELSE Raise("TypeError", "none", 0)
           [] shape = "list"   -> IF o.data = "json" THEN Value("models")
                                  ELSE Raise("TypeError", "none", 0)

\* Model(keyword data), a list of Model(keyword x), True, or data as it is; a
\* str (a non-JSON body) under ** or as the items of the list raises
\* TypeError.
Wrap(shape, o) ==
    IF o.kind = "raise" THEN o
    ELSE CASE shape = "bool"   -> Value("True")
           [] shape = "raw"    -> o
           [] shape = "single" -> IF o.data = "json" THEN Value("model")
                                  ELSE Raise("TypeError", "none", 0)
           [] shape = "list"   -> IF o.data = "json" THEN Value("models")
                                  ELSE Raise("TypeError", "none", 0)

\* The method body up to _request: flatten the argument and hand it over.
CallRequest(c) ==
    /\ stage[c] = "args"
    /\ IF Serializable(endpoint[c], input[c])
         THEN /\ stage' = [stage EXCEPT ![c] = "call"]
              /\ UNCHANGED result
         ELSE /\ stage' = [stage EXCEPT ![c] = "done"]
              /\ result' = [result EXCEPT ![c] = Raise("TypeError", "none", 0)]
    /\ UNCHANGED <<endpoint, input, vars>>

\* The method body after _request returned or raised.
WrapResult(c) ==
    /\ stage[c] = "call"
    /\ pc[c] = "done"
    /\ stage' = [stage EXCEPT ![c] = "done"]
    /\ result' = [result EXCEPT ![c] = Wrap(endpoint[c].shape, outcome[c])]
    /\ UNCHANGED <<endpoint, input, vars>>

\* The pipeline steps of a call inside _request, and the server's steps.
PipelineStep(c) ==
    /\ stage[c] = "call"
    /\ Send(c) \/ Receive(c) \/ ReadFailure(c)
    /\ UNCHANGED fvars

ServerStep(r) ==
    /\ ServerReject(r) \/ ServerExecute(r)
    /\ UNCHANGED fvars

FInit ==
    /\ Init
    /\ endpoint \in [Calls -> Endpoints]
    /\ \A c \in Calls : op[c].method = endpoint[c].method
    /\ input \in [Calls -> UNION {InputsFor(ep) : ep \in Endpoints}]
    /\ \A c \in Calls : input[c] \in InputsFor(endpoint[c])
    /\ stage = [c \in Calls |-> "args"]
    /\ result = [c \in Calls |-> NoOutcome]

FTerminated ==
    /\ \A c \in Calls : stage[c] = "done"
    /\ pending = {}
    /\ UNCHANGED allvars

FNext ==
    \/ \E c \in Calls : CallRequest(c) \/ WrapResult(c) \/ PipelineStep(c)
    \/ \E r \in Requests : ServerStep(r)
    \/ FTerminated

FSpec == FInit /\ [][FNext]_allvars

-----------------------------------------------------------------------------
(* Properties.                                                             *)

FResults == Outcomes
            \cup [kind : {"value"}, exc : {"none"}, data : {"model", "models", "True"},
                  code : {0}]
            \cup [kind : {"raise"}, exc : {"TypeError"}, data : {"none"}, code : {0}]

\* The type of every variable, the pipeline's included.
FTypeOK ==
    /\ TypeOK
    /\ endpoint \in [Calls -> Endpoints]
    /\ input \in [Calls -> Inputs \cup {"none"}]
    /\ stage \in [Calls -> {"args", "call", "done"}]
    /\ result \in [Calls -> FResults]

\* Spec section 4.2: a delete method returns True only when the deletion
\* happened: the server executed one of the call's DELETE requests.
DeleteTrueMeansDeleted ==
    \A c \in Calls :
        endpoint[c].method = "DELETE" /\ result[c] = Value("True") => applied[c] >= 1

\* Spec sections 4.1 and 7: a facade method returns its model, list, flag
\* or data, or fails with one of the package's typed errors.
FacadeFailuresTyped ==
    \A c \in Calls : result[c].kind = "raise" => result[c].exc \in TypedErrors

\* Spec section 4.2 item 1: a write method given a model instance flattens
\* it and sends the request, as it would for the equivalent mapping.
ModelArgumentSent ==
    \A c \in Calls : stage[c] = "done" /\ input[c] = "model" => attempts[c] >= 1

=============================================================================
