# Formal models of the Atlas DNS Python SDK

TLA+ models of `src/sdk/python/src/atlas_dns/client.py`, their TLC runs and
TLAPS proofs. `PROJECT.json` lists the components, runs, mutants, the map from
each definition to the source lines it models, the findings, the hazards and
the theorems.

## The system

The SDK is a client library. It has three parts.

- **Configuration** (`BaseClient.__init__`, client.py 30-60). It stores
  `base_url`, `api_key`, `timeout`, `max_retries` and `verify_ssl`, and builds
  the headers. `max_retries` is stored and never read.
- **Request pipeline.**
  - `_request` (sync 106-126, async 466-487) builds the URL and calls
    `httpx.Client.request`.
  - `_request` is wrapped in `backoff.on_exception(backoff.expo,
    (httpx.TimeoutException, httpx.ConnectError), max_tries=3)`.
  - `_handle_response` (62-82) maps a status to a typed exception or decodes
    the body. The decode is JSON, falling back to the text.
  - A call may be one of several threads (sync) or tasks (async) sharing one
    client.
- **Facade** (130-442 sync, 491-517 async). There is one method per operation.
  - It flattens a model argument with `model_dump()` (create methods only).
    Spec section 4.2 item 1 promises a model or a mapping to create and
    update methods, so `InputsFor` offers a model to those (`WriteMethod`:
    the create methods and the PUT `update_*` ones) and only a dict to the
    other methods with a body (`simulate_traffic_policy`, `enable_dnssec`).
  - It calls `_request` with a fixed method and path.
  - It wraps the result: `Model(**data)`, a list of models, `True`, or the
    data as it is.
  - The async client defines only the zone methods.
- **Not under src/.** `models` and `exceptions` are imported but absent; the
  exception classes are taken from spec section 7. `__init__.py` re-exports
  and `setup.py` is packaging metadata.
- **Transport lifecycle** (sync 87-104, async 448-464). `__init__` creates the
  httpx client. `close` (`aclose`) releases it, and `__exit__`/`__aexit__`
  call `close` when the caller's `with` block ends.

They interact as follows. Every facade method is the pipeline plus a flatten
step before it and a wrap step after it. The pipeline's environment is the
network and the Atlas DNS server:
- a connect fault means the request never reached the server;
- a delivered request can be executed by the server at any later time, even
  after the client stopped waiting for it (read timeout, read error) and sent
  a retry.

## Modules

| module | models | state | actions |
|---|---|---|---|
| `Pipeline` | `_request`, the backoff decorator, `_handle_response`; the server as environment | `pc`, `attempts`, `resp`, `log`, `outcome` per call; the server's `store`, `pending` requests, `applied` count | `Send` (one try: connect fault or delivery), `Receive` (response handled), `ReadFailure` (ReadTimeout/ReadError while waiting), `ServerReject`, `ServerExecute`, `Terminated` |
| `Facade` | every facade method as an endpoint record (method, result shape, argument kind) | `endpoint`, `input`, `stage`, `result` per call, plus the pipeline's state | `CallRequest` (flatten and serialise or fail), `PipelineStep`, `ServerStep`, `WrapResult` |
| `RequestContract` | the contract of spec section 4.1, abstractly | `tries`, `result` per call | `Attempt` (one more try; a failure may end it), `Finish` (end after the tries made) |
| `Lifecycle` | `__init__`, `close`, `__aexit__`; httpx's client state and pool as environment; the pipeline's calls beside the block | `client`, `pool`, `body`, plus the pipeline's state | `Close`, `Exit`, `Release` (the pool's close completes), `LSend`, `ClosedSend` (RuntimeError), `Dropped` (ReadError), `LReceive`, `LReadFailure`, `LServer` |
| `PipelineProofs` | TLAPS proofs about `Pipeline` | | |
| `FacadeProofs` | TLAPS proofs about `Facade` (extends `PipelineProofs`) | | |
| `LifecycleProofs` | TLAPS proofs about `Lifecycle` (extends `PipelineProofs`) | | |
| `MC_Pipeline`, `MC_Facade`, `MC_Lifecycle` | TLC instances | | |

### How Pipeline corresponds to the code

- **`Send(c)`** is one entry into the decorated function: `attempts` is
  backoff's tries counter.
  - With a connect fault, `OnException` runs. It gives up (`GivesUp`) when
    the exception is not in the retried tuple (`RetryOn`) or the try number
    reached `MaxTries`. Otherwise the call goes back to `ready`; the backoff
    sleep is only time in which the others move.
  - Without one, the request joins `pending`.
- **`ReadFailure`** is a ReadTimeout or ReadError raised while waiting. It
  goes through the same `OnException`. The request stays pending, because the
  server may still execute it.
- **`Receive`** applies `HandleResponse`, the if/elif chain of
  `_handle_response` in code order. It never retries.
- **The server.**
  - GET and PUT: 200 if the key exists, else 404.
  - POST: 201 and creates, or 409.
  - DELETE: 204 and deletes, or 404.
  - Any status in `RejectStatuses` can come without acting.
  - The answer reaches the call only if it belongs to the try the call still
    awaits.
- **Abstractions.**
  - Messages and bodies are small sets: a body is `"json"` or non-JSON
    `"text"`.
  - Paths are a key; the backoff delay is not modelled, only the interleaving
    it allows.
  - The sync and async `_request` are one model, as the spec requires them to
    be identical. Concurrency is the set `Calls`.

### How Lifecycle corresponds to the code

- `client` is the httpx client's own state and `pool` its connection pool.
  httpx's `close`/`aclose` does nothing on a closed client. On an open one it
  marks the client closed at once (`StartClose`) and then closes the pool.
  For `AsyncClient` that second part is an await (`Release`).
- `body` is the caller's `with` block. It is running, inside an explicit
  `close()`, inside `__exit__`, or exited.
  - `Close` is `close()` called in the block.
  - `Exit` is `__exit__`/`__aexit__`, which calls `close()`.
  - `close()` returns when `Release` fires.
- The calls of `Pipeline` run beside the block: threads of the caller, or
  tasks it did not await. A try on a closed client raises RuntimeError before
  sending (`ClosedSend`). A try waiting on a connection the pool closes raises
  ReadError (`Dropped`). The decorator treats both through `OnException`;
  neither is retried.
- The sync hooks (96-104) have the same shape and share the model.

### The contract and the refinement

`RequestContract` states spec section 4.1 without the pipeline's machinery:
- a call makes at most `MaxTries` attempts;
- it ends once, and its result never changes afterwards;
- a transient failure ends it only after its last attempt.

`Pipeline` defines `Contract == INSTANCE RequestContract WITH tries <-
attempts, result <- outcome, None <- NoOutcome`, and `ContractSpec` is the
contract's specification. The server, the pending requests and the logs are
hidden by the mapping.

## Runs

| run | cfg | result | shows |
|---|---|---|---|
| pipeline | `MC_Pipeline.cfg` | pass, 2.37M states, about 2.5 min | `ResponseMapping`, `RetryBudget`, `RetriesOnlyAfterTransient` and `SuccessMeansApplied` (a returned value means the server executed one of the call's requests) for 2 concurrent calls on one key, with every method and every interleaving of late, refused and retried requests |
| pipeline_untyped_failures | `..._TypedFailuresOnly.cfg` | violation | three connect errors raise raw `httpx.ConnectError` |
| pipeline_max_retries_ignored | `..._AttemptsWithinConfigured.cfg` | violation | `max_retries=1` still gives 3 attempts |
| pipeline_delete_after_timeout | `..._DeleteErrorMeansNotDeleted.cfg` | violation | DELETE applied, read timeout, retry gets 404: raises ResourceNotFoundError although it deleted |
| pipeline_redirect_success | `..._SuccessMeansApplied.cfg` | violation | a 301 is decoded as a success: `delete_*` returns True with nothing deleted |
| pipeline_contract | `MC_Pipeline_Contract.cfg` | pass, 1.03M states, about 1 min | `ContractSpec`: every behaviour of two calls under every fault, with a 503 reject, is a behaviour of the contract |
| lifecycle | `MC_Lifecycle.cfg` | pass, 1.64M states, about 2 min | `LTypeOK` and `TransportReleased`: two calls beside a block that may close the client itself; the pool is always released |
| lifecycle_closed_client | `MC_Lifecycle_TypedFailuresOnly.cfg` | violation | after `close()` a call raises httpx's RuntimeError, untyped and not retried, though spec section 5 calls concurrent calls safe |
| facade | `MC_Facade.cfg` | pass, 43k states | `DeleteTrueMeansDeleted` for one call of any method: 54 methods, which are 49 distinct endpoint records because the 5 async zone methods coincide with sync ones |
| facade_text_body | `MC_Facade_FacadeFailuresTyped.cfg` | violation | a 2xx non-JSON body makes `Zone(**data)` raise TypeError |
| facade_update_with_model | `MC_Facade_ModelArgumentSent.cfg` | violation | a model passed to `update_zone` is not flattened; `json` encoding raises TypeError and nothing is sent |

**Bounds.**
- Two calls on one key are enough for one call's late request to change what
  the other sees. With one key, every pair of methods conflicts.
- `MaxTries = 3` is the code's own value.
- The faults are ConnectError (a connect fault), ReadTimeout (retried after
  delivery) and ReadError (not retried). ConnectTimeout behaves as
  ConnectError.
- Reject statuses are 401, 422 and 503. With the server's own 404 and 409
  they reach the 401, 404, 409 and 422 branches of `_handle_response` and
  the >=500 branch. The 403 and 429 branches are not reached by a run; they
  are covered by the proof of `ResponseMappingHolds`, which holds for every
  set of reject statuses. Each violation run widens just what its scenario
  needs.

**Symmetry.** The calls are interchangeable model values, so `Permutations`
symmetry is sound: no property names a particular call.

**Fairness.** Only the lifecycle run checks liveness. Its specification
assumes weak fairness of two actions, and of nothing else:
- `Exit`: the caller's block ends, and then `__aexit__` runs.
- `Release`: asyncio runs an awaited `aclose()` to its end.

No fairness is assumed for the calls or the server, so `TransportReleased`
holds however the calls behave. The lifecycle run has no symmetry, because
TLC's liveness checking is unsound with it.

A call terminates because `MaxTries` bounds its tries. Deadlock checking is on
for every run, and `Terminated` (`LTerminated`) is the only stuttering end.

**Mutants.** Every property of a passing run is shown to be violated by a
plausible slip in the code it is about (see `mutants` in PROJECT.json):
- an off-by-one in the give-up test;
- the 4xx catch-all moved first;
- retrying ReadError;
- `raise_on_giveup=False`;
- delete methods that swallow ResourceNotFoundError;
- `__aexit__` calling `close()` without `await`.

## Proofs

`PipelineProofs` proves the following with TLAPS, for every set of calls and
keys and every `MaxTries >= 1`, from the ASSUMEs of `Pipeline`:
- `TypeCorrect`: `Spec => []TypeOK`;
- `RetryBudgetHolds`: `Spec => []RetryBudget`;
- `RetriesOnlyAfterTransientHolds`: `Spec => []RetriesOnlyAfterTransient`;
- `PipelineImplementsContract`: `Spec => ContractSpec`, the refinement;
- `ResponseMappingHolds`: `Spec => []ResponseMapping`, for every set of
  reject statuses outside 2xx.

None of these invariants is inductive alone. The strengthening `IInv` adds
three facts:
- `ReadyBelowMax`: a call about to try has tries left. Without it, `Send`
  could push `attempts` past `MaxTries`.
- `OutcomeOnlyWhenDone`: a running call has no outcome yet, so
  `RetryBudget` cannot be broken by a stale outcome.
- `OpenLogTransient`: a running call's log holds only transient faults, which
  is what `RetriesOnlyAfterTransient` needs when the next entry is appended.

The proof of `InvariantHolds: Spec => []IInv` has three parts:
- `InitIInv`;
- `NextIInv`, with one step per action and one sub-step per conjunct;
- the lemmas `HandleResponseType` and `ServerType` (what the decoder and the
  server can produce), and `OnExceptionStep`, the step shared by `Send` and
  `ReadFailure`.

The refinement proof shows that the initial states map to the contract's, and
that every step maps to a step or a stutter (`RefinementStep`):
- `Send` is `Attempt`: a connect fault that gives up settles the call.
- `Receive` is `Finish`.
- `ReadFailure` that gives up is `Finish`; one that retries is a stutter.

It needs one more invariant, `WaitingTried`: a waiting call has made an
attempt, which is what `Finish` requires.

`ResponseMappingHolds` rests on another invariant, `DoneLogged`: a finished
call has a non-empty log, and when its last entry is a response, its outcome
is `HandleResponse` of it. The lemma `HandleResponseSpec` then shows, one row
at a time, that `HandleResponse` gives every response the server can send
the outcome the spec's table (`SpecPrescribes`) prescribes.

`SuccessMeansAppliedHolds` proves `Spec => []SuccessMeansApplied` under the
hypothesis `RejectsAreErrors`: the server refuses only with 4xx and 5xx
statuses. The hypothesis is not an ASSUME of `Pipeline`, because it is not
true of every run. The violation run `pipeline_redirect_success` lets the
server send a 301 without acting, and `_handle_response` returns the body of
that 301 as a success.

The inductive invariant is `SuccessBacked`. A call that holds an answer below
400, or has already returned a value, had a request executed by the server.
The invariant is needed because the value is produced by `Receive` from an
answer that `ServerExecute` installed earlier. The proof rests on three
lemmas:
- `HandleResponseValue`: `_handle_response` returns a value only for a
  status below 400;
- `OnExceptionNoValue`: the backoff decorator never produces a value;
- `SuccessBackedStep`: `applied` only grows, and an answer below 400 comes
  only from `ServerExecute` with a 2xx, which increments `applied`.

`FacadeProofs` carries these results into the facade. Its first lemma is
`FSpecSpec: FSpec => Spec`: every facade step is a pipeline step or leaves
the pipeline's variables alone. It then proves two theorems.
- `FacadeTypeCorrect: FSpec => []FTypeOK`. This rests on:
  - `EndpointShapes`: each method's wrapper is one of four shapes;
  - `WrapType`: each wrapper maps every outcome of `_request` to a model, a
    list, `True`, the data or a `TypeError`.
- `DeleteTrueMeansDeletedHolds: FSpec => []DeleteTrueMeansDeleted`, under the
  same `RejectsAreErrors`. The inductive invariant `TrueBacked` says that a
  facade method which returned `True` saw the server act for its call. It
  needs `DoneDecided`, "a finished call has returned or raised". Without
  `DoneDecided`, the bool wrapper of a delete method would turn the empty
  outcome into `True`. It also needs `AppliedGrows` and `WrapTrue`:
  `Wrap(shape, o) = True` only when `o` is a value.

`LifecycleProofs` proves `LifecycleTypeCorrect: LSpec => []LTypeOK`. Its
inductive invariant is `LInv == LTypeOK /\ ReadyBelowMax`. The extra
conjunct is needed because a try on a closed client (`ClosedSend`) also
counts against `max_tries`. The proof has one lemma per group of actions:
- `CloseStepsLInv`: close, exit and release;
- `SendLInv`: a try on an open or a closed client;
- `AnswerLInv`: an answer, a read failure, or a read cut off by the pool;
- `ServerLInv`: the server's steps.

`LifecycleImplementsContract: LSpec => ContractSpec` shows that closing the
client or the pool under running calls keeps every call within the
contract. It is a check of the composition more than of closing: the
lifecycle's extra endings (RuntimeError, ReadError) are not transient, and
the contract allows those at any try, so only the pipeline's give-up test
could break it, which `pipeline_contract` already checks. No run checks it
on `LSpec` for that reason. Its
invariant is `LRInv == LInv /\ OutcomeOnlyWhenDone /\ WaitingTried`.
`LRefinementStep` maps every lifecycle step:
- a try on the open client (`LSend`) or on the closed one (`ClosedSend`) is
  `Attempt`. A RuntimeError is not in `RetryOn`, so `ClosedSend` settles at
  once, and it is not transient, so the contract allows it before the last
  try;
- `LReceive` is `Finish`;
- `LReadFailure` and `Dropped` (the pool closed under a read) are `Finish`
  when the decorator gives up and a stutter when it retries;
- close, exit, release and the server's steps are stutters.

The lemma `OnExceptionSettles` is the decorator's part, shared by all of
these.

`LOnExceptionStep` is the decorator's handling of the lifecycle's extra
exceptions. `IInv` cannot be reused here. Its `TypeOK` does not hold in the
lifecycle: a log may hold `RuntimeError`, which is not one of the network's
`Faults`.

**Only model-checked.**
- `TransportReleased`, a liveness property under the fairness of `LSpec`.
  TLAPS here cannot reason about ENABLED, which weak fairness needs.
- The violation runs. They show disagreements between the code and the spec
  on small instances, and nothing about them is meant to hold.

## Not modelled

- URL construction (`urljoin` with an absolute `/api/v2` path drops a
  `base_url` path prefix): a pure string computation.
- Headers, TLS and timeouts as durations.
- Body encodings: a non-UTF-8 2xx body (a hazard at line 80) is not told
  apart from other non-JSON text.
- The domain models' field validation.
- Packaging.

## Plan for the next sittings

1. Liveness of the pipeline: every call eventually completes under weak
   fairness of the server and the calls, justified by httpx's timeout.
2. A lifecycle safety property: no call returns a value from a request sent
   after close(). Then a proof of it, from `LRInv` and a history invariant
   on `client`.
