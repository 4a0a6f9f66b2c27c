# Zenture SDK: specifications and proofs

TLA+ models of the `zenture` Python SDK (`src/src/zenture`), the TLC configurations that
check them on small instances, and TLAPS proofs of their most important properties for
every instance. They are about what happens to a request, a wait, an iteration, a
billable run and a program made of such runs when the network, the clock, the server and other callers interfere.
Paths below are relative to `src/src/zenture` unless they start with `src/`.

## 1. The system

The SDK is a client of a public HTTP API: a synchronous and an asynchronous client, each a
set of *resources* (chat, evaluations, input wizard, operations, ...) over one *transport*.
Expensive work is a server-side **operation**: it is created by a POST under an
`Idempotency-Key`, billed, worked off, and looked at by polling.

    caller ── chat.run / evaluations.run / input_wizard.run        _resources/*.py
                │ create (POST + key)   │ wait            │ detail
                │                       │ polling.py      │
                ▼                       ▼                 ▼
              SyncTransport / AsyncTransport._request     _transport/*.py
                │ retry loop: retries.py, base.py, errors.py
                ▼
              httpx ── network ── public API              (external)

### Components, their state and what makes them correct

| component | state | operations | hard behaviour | correct means |
|---|---|---|---|---|
| retry policy (`retries.py`, `_transport/base.py`) | none | `should_retry`, `retry_delay` | which failure may be repeated | only repeatable requests are repeated, a bounded number of times, after a bounded delay |
| transport (`_transport/sync.py`) | attempt counter, delay, the response of the attempt | `request_json`, `request_text` | requests lost, delivered late, answered by a failing gateway after the work was done | at most one effect, no false success, no false refusal, bounded sleep, it ends |
| asynchronous transport (`_transport/async_.py`) | the same, per task, over a shared client that can be closed | the same, `aclose` | cancellation and closing while tasks are in flight | as above, and every task ends |
| error mapping (`errors.py`) | none | `error_from_response` | unknown codes, malformed bodies, odd Retry-After texts | every failure is a typed error that tells what the retry loop read |
| polling (`polling.py`, `_resources/operations.py`) | deadline, interval, last status | `get`, `wait` | GETs that overrun the deadline, shortened sleeps, a stop callback that takes its time or raises, cancellation, status that changes meanwhile | honest results and timeouts, promised cadence, prompt stop, a cancelled call is over, it ends |
| run helpers (`_resources/chat.py`, `evaluations.py`, `input_wizard.py`) | operation id and key in the call's frame | `create*`, `run` | crash or error after the job is billed, repeated runs, colliding keys | a job is billed once, results are the caller's own, a failed run can be recovered |
| iterators (same files, `_utils.py`) | `next_cursor`, `seen_cursors`, position on the page | `iter`, `iter_messages` | pages linked into a cycle, empty pages, collections that change | each page and item once, nothing skipped, it ends |
| idempotency keys (`idempotency.py`) | none | `idempotency_key` | normalisation maps different parts to one key | one key per job; a collision harms nobody |
| configuration (`config.py`) | frozen values; the process environment | `ZentureConfig`, `load_config_from_env` | two ways to make a client, an environment that changes | a live key leaves for production only, a test key for approved origins only |
| rate-limit headers (`rate_limits.py`) | none | parsing | malformed values; three parsers of one header | parsing is total and the parsers agree |
| contract models (`_contract`, `types.py`, `models.py`) | none | validation | rules between fields; ids bounded one way where read, another where sent | invalid requests are not sent, what one route returns the next accepts |
| clients (`client.py`, `async_client.py`) | the transport, whether it owns its httpx client | constructors, `from_env`, `close`, `aclose` | closing while in use; wrapping an httpx client others use | a closed client is quiet, closing one disturbs no other |
| examples (`src/examples`) | locals of a program | `end_to_end_chat_evaluation.py`, `evaluate.py` | a program that bills three jobs in a row dies and is run again | a rerun costs nothing, a report is about one conversation |
| read-only resources, redaction, scripts, OpenAPI | none | one GET and one parse | none | not modelled but for `models.list`, see section 7 |

Components interact by calls only: a run helper calls `create` and the transport, then
`operations.wait`, then a detail route; `wait` calls `operations.get` and through it the
transport; an iterator calls `list`. Callers share nothing but the server, and meet there
under an idempotency key. The composition is therefore by contract: `Transport` shows what a
request may do to the server, `RunOperation` uses requests of exactly that kind (sent several
times, effective once, failing before or after the effect), and uses waits that end the way
`Polling` shows them to end. `EvaluationFlow` goes one level up: its steps are run helpers as
`RunOperation` shows them to be, and their keys and requests are made of earlier results.

## 2. The modules

| module | models | main source |
|---|---|---|
| `RetryPolicy` | the retry policy and the retry delay as pure operators | `retries.py`, `_transport/base.py` |
| `ResponseParsing` | the three readers of Retry-After and rate-limit headers, and the class of an error, as pure operators | `_transport/base.py`, `errors.py`, `rate_limits.py` |
| `Transport` | one request: the retry loop, the network, the server | `_transport/sync.py` |
| `RequestContract` | abstract: what a request promises | implemented by `Transport` and by each task of `AsyncClient` |
| `AsyncClient` | tasks that share clients which are closed and cancelled under them | `_transport/async_.py`, `async_client.py` |
| `Configuration` | which keys go where | `config.py`, `client.py`, `_transport/base.py` |
| `Polling` | one `wait` on a clock | `_resources/operations.py`, `polling.py` |
| `PollingFloats` | the loop of `wait` when its durations may be NaN or infinite | `polling.py`, `_resources/operations.py` |
| `Pagination` | one iterator over a linked collection | `_resources/chat.py`, `evaluations.py`, `_utils.py` |
| `RunOperation` | several callers of the run helpers against one server | `_resources/chat.py`, `evaluations.py`, `input_wizard.py` |
| `BillableJobs` | abstract: what the run helpers promise together | implemented by `RunOperation` |
| `Text` | texts as sequences of symbols with a width, and the methods of `str` the code uses | external |
| `IdempotencyKey` | building and validating a key | `idempotency.py` |
| `ContractModels` | the rules requests and answers are held to | `_contract/models.py` |
| `EvaluationFlow` | programs made of run helpers, run again and again against one server; composes the three modules above | `src/examples/end_to_end_chat_evaluation.py`, `evaluate.py` |
| `MC*` | the instances TLC checks | |
| `Transport_proofs`, `AsyncClient_proofs`, `Configuration_proofs`, `Polling_proofs`, `Pagination_proofs`, `RunOperation_proofs`, `IdempotencyKey_proofs`, `EvaluationFlow_proofs` | the theorems; those about `ResponseParsing` are in `Transport_proofs`, whose loop they are about | |

Some definitions are preceded by a "mutated form": the same definition with a plausible bug
(a dropped guard, an off-by-one). Nothing uses them; they record, for each property, one way
of breaking the code that the property catches (`PROJECT.json`, "mutants").

### Transport

`pc` is the place in `_request`'s `while True`: `send` (before `self._client.request`), `wait`
(inside it), `received`, `sleep` (before `attempt += 1; continue`), `done`. `attempt`,
`delay` and `answer` are the loop's locals; `slept` adds up `time.sleep`. `CatchHTTPError` is
the `except httpx.HTTPError` branch, `ReturnResponse` the early return together with
`request_json`'s decoding, `RejectErrorBody`, `RetryErrorResponse` and `RaiseErrorResponse`
the three ways an error response ends. `Wake` is the sleep and the next turn of the loop.

The network keeps the fate of each attempt's request in `wire`: a request given up by the
client may still be delivered later, after another attempt or after the call. The server is
modelled by what callers are told to rely on: a delivery has at most one effect, so have all
deliveries with one key together; 2xx follows the work, 3xx and 4xx refuse it, a 5xx says
nothing about it. The transport itself hands a 3xx back like a 2xx; it is `parse_response`,
one layer up, that turns a redirect's body away because it is not the response's model
(`ParseResponse`). The model follows an answer up to there, and assumes (`AnswersAssumption`) that
only a 2xx carries such a body. `request_text` differs from `request_json` only in that nothing is decoded or parsed.

### ResponseParsing

A header text is one of the kinds that `float` and `parsedate_to_datetime` tell apart: absent,
empty, a number, infinite, nan, a date, anything else. The retry loop reads numbers and dates
and turns nan and negative numbers into 0 (`ParseRetryAfter`); the exception and the metadata read
numbers only (`ParseNonNegativeFloat`). `MCTransport` takes the Retry-After of its answers through
`RetryAfterHeader`, so the runs of `Transport` meet a text of every kind.

### AsyncClient

The loop of `Transport` once more, coarser in its answers and finer in what surrounds it: a
step goes from one `await` of a task (`requesting`: the httpx request; `sleeping`:
`asyncio.sleep`) to the next, as the event loop schedules it, and between the steps of a task
the others run, close clients (`Aclose`) or cancel it (`Cancel`). `ClientOf` and `HttpOf` say
which client a task uses and which httpx client that client sends through; `Owned` are the
clients that made their httpx client themselves (`_owns_client`), the others wrap one that
several may share and that its owner may close (`CloseShared`). A closed httpx client refuses
with a `RuntimeError`. The two httpx errors, a timeout and a connection that breaks or is
closed, are one action, `Broken`: the loop treats them alike. Threads that share a `Zenture`
are the same but for cancellation.

### Configuration

A base URL is a record of what `urlsplit` tells the validation of it: scheme, host (one of
those the code knows, or another, or none) and one more part. `Accepts` is the conjunction of
the three validators of `ZentureConfig`. A client is made from arguments (`New`) or from the
environment (`FromEnv`, one step: the code reads and validates twice, with nothing in between),
and the environment may change at any time (`SetEnv`). `Send` records which key a request carries
to which URL.

### Polling

`pc` follows the loop of `wait`: validation, the call of the stop callback (`check` until it has
looked at what the caller wants, `asking` until it returns), the first deadline test (`budget`),
the GET (`get` until the server reads the status, `answering` until the answer is back), the status
and second deadline test (`judge`), `sleep`. Time is a clock of whole units that runs during the
callback (for at most `MaxCallback`), GETs (for at most `MaxGet`, which includes the transport's own
retries) and sleeps (with at most `MaxOversleep` of lateness); the deadline is fixed before the first
call of the callback, so a slow one eats into the budget. The operation progresses, the caller asks
for a stop, a GET or the callback raises and an asyncio task is cancelled at any time. Cancelling
takes two steps: the caller's (`Cancel`, during an `await`) and the loop's (`DeliverCancel`: the
exception is raised by the `await` and leaves the loop), so that a loop that catches it can be told
from one that does not.

### PollingFloats

`PollingConfig` rejects what is `<= 0` or too small, comparisons that are all false for NaN. The
module repeats the loop of `Polling` with Python's comparisons, minimum and doubling over
integers, infinity and NaN; time is what is left of the budget. Stop requests, cancellation and
late wake-ups are `Polling`'s.

### Pagination

The three generators are one algorithm. `requested` and `yielded` are histories of what it
asked for and handed out; `link` is the server's `next_cursor` per page, any function at all,
so cycles and self-links included. The generator runs only between a `Pull` of its consumer
and the next `yield`. The `cursor` argument of the call is `start`.

### RunOperation

Every caller is a process in the middle of a helper: `creating`, `waiting`, `detail`. `ops` is
the server's list of operations, each with the key and the job (request body) it was created
for; a create with a known key and the same job replays, with another job conflicts. Requests
stay on the wire until lost, so a copy may arrive after its sender has crashed. `Crash`,
`RunAgain` and `Resume` are what `src/docs/idempotency.md` and
`src/docs/async-operations.md` tell callers to do. `Created` returns at once for a terminal
operation in `input_wizard.run` only, as in the code. `KeyOf` need not be injective. Polling arguments are validated after
the create (`_resources/operations.py:64`): the calls of `Misconfigured` callers bill their job and
then fail (`WaitRejects`), whenever they are run again, until somebody resumes with the operation id.
`BillableJobs` therefore promises them everything but an end (`Served`).

### EvaluationFlow

A runner is a place where one of the example programs runs; `pc` and `step` say where its `main`
is, the other fields are its locals. `Create` is `idempotency_key(...)`, the construction of the
request model and the POST, in the order in which each can fail; `Submit` is the server's answer:
a new operation, a replay, or a conflict. The wait is one step (`Waits`), which `RunOperation`
and `Polling` justify. `Interrupt` ends a program anywhere and takes its locals with it; whoever
runs it again (`StartEndToEnd`, `StartExample`) may do so under the same, another or a
colliding run id, with another prompt. The server works operations off with any of the outcomes
that its contract allows (`Work`: nested or flat results, ids in one field or the other, texts of
any length) and may drop old results (`Expire`), and the list of models may change. Two sides of
the contract meet here: what `ContractModels` lets in as an answer becomes the next request.

Keys of different steps or runs may coincide: parts are joined by dashes and may contain some, so
run `x` evaluates the answer `chat-m` under the key with which run `x-evaluation` chats with model
`m`, and nothing stops a caller from choosing the run id `example`. `KeysApart` says of an instance
that it contains no such pair; `RerunIsFree` is proved where it holds, and `MCEvaluationFlow`
evaluates it for the instance TLC checks. Two run ids that are normalised to the same text are
not excluded by it: they make one run (`SameRun`). The first half of `RerunIsFree`, that no step of
a run is billed twice, holds for them, and under every other change but that of the model; the
second half, that a conflict has a cause, counts them among the causes (`Undisturbed`). A run
whose id was not set has a new one at every start, as the example intends, and is then another run.

## 3. What the runs check

| run | question | properties |
|---|---|---|
| `transport` | what a request does to the server and tells its caller | at most one effect; a keyless refusal is clean; all attempts are used before giving up; the sleep is bounded and honours Retry-After; it ends; it implements `RequestContract` |
| `async_client` | two tasks, three clients and two httpx clients: what closing and cancelling may do | a closed client sends nothing more; closing is local; each task implements `RequestContract`; every task ends |
| `configuration` | which key may reach which origin | live keys go to production only, test keys never do |
| `polling` | what a wait costs and tells | honest timeouts; no early news missed; overrun, stop latency and cadence of GETs; a cancelled call is over; it ends |
| `pagination` | what an iterator fetches and yields | each page once; nothing skipped; an end is the end; only cycles are rejected; it ends |
| `run_helpers` | three callers, two about one job (one of them with polling arguments that are rejected) and one colliding with it, and any three failures | one operation per job; own results; polling errors that lead back; clean conflicts; the helpers implement `BillableJobs`, which includes that every caller with valid polling arguments is settled |
| `evaluation_flow` | programs run, interrupted and run again while prompt, models and kept results change | a run that keeps its model is billed once for each step, whatever else changes; a conflict has a cause; a report is about one conversation; local errors have a stated cause; nothing is billed ahead of what it is made of |

Five more runs check a statement of the documentation that the code does not keep, and TLC
finds each violated:

| run | statement | what the code does |
|---|---|---|
| `transport_retried_codes` | `src/docs/rate-limits.md:13-14`: statuses are retried when the error code is retryable | the status alone is enough (`retries.py:50`) |
| `transport_network_errors` | `src/docs/rate-limits.md:17-18`: network exceptions are not classified for retry | they are retried as a 503 (`_transport/sync.py:127-146`) |
| `transport_typed_failures` | `src/docs/errors.md:3`: failures are typed exceptions | an error body of JSON `null` ends in an `AssertionError` (`_transport/sync.py:165`) |
| `polling_nan` | `src/docs/async-operations.md:48`: timeout is a total local polling budget | a NaN passes the checks of `polling.py:43-48`, and its deadline never comes; for a number, the last GET may outlive the budget, and `OverrunBounded` says by how much |
| `run_content` | `_resources/chat.py:165-167`: the matching turn is attached after success | only if it is on the first page of messages (`_resources/chat.py:207`) |

### Bounds, and why they are enough

* `transport`: three attempts (`MaxRetries = 2`), so that there is a first, a middle and a last
  one; a safe and a mutating method, with and without a key; seventeen answers, for the
  combinations of status class, body shape, code (known to the policy on either side, and
  unknown) and Retry-After (none, unreadable, a date gone by, nan, within and above the cap of 3,
  infinite) that the loop tells apart. The backoff 1, 2 stays below the cap and Retry-After 5
  exceeds it.
* `async_client`: the smallest arrangement with one of each: a client that owns its httpx client
  and two that share one, a task with a key and one without, three attempts. Tasks meet only in
  httpx clients, so a third task adds no new kind of meeting.
* `configuration`: every scheme with every host, each known host under a port, and one URL for
  each part that an origin must not have; every key with every URL in every environment.
* `polling`: `MCConfigs` has budgets that end while the interval still doubles, when it is
  capped and before the first sleep is over, an interval that is no power of two, a budget that one
  run of the callback uses up, and one configuration for each reason to reject. A GET takes 0 to 2
  units, a run of the callback 0 or 1, a sleeper is late by 0 or 1.
* `pagination`: three cursors and the first page, every way of linking the four pages (so
  every cycle length up to three, every tail), one empty page, one page of two items, one
  relink at any moment. The properties about an unchanging collection quantify over the
  behaviours with no relink.
* `run_helpers`: three callers, two jobs, one key for both, and any three failures
  (`MaxFailures` counts crashes, losses, errors, timeouts and stops). A second failure is
  needed to fail the recovery from the first, the third to fail both callers of one job.
  Liveness and refinement are checked on the same instance.
* `evaluation_flow`: all three programs, two starts at one place (callers that run at the same
  time under one key are `run_helpers`' subject), one result dropped. Two starts create at most
  three operations each, so `MaxOperations = 9` is never reached. Symbols have widths such
  that every bound in the way (255 for a key, 140 for an id, 20000 and 40000 for texts) is exceeded
  by one outcome and met by the others; a run id of 101 characters is the shortest that lets
  the first keys through and stops a later one. One turn per page is the page that hides a turn.
* `polling_nan`: each of the three durations infinite and NaN in turn.

### Fairness

`Transport`: the client's own steps, and `CatchHTTPError`, because httpx's timeouts end every
wait; nothing is assumed of the network or the server. `AsyncClient`: the event loop runs
every task that can go on, and timeouts end its requests; nobody need close or cancel, and
nothing is assumed of network and server. `Polling`: the loop and the clock; a
GET is served or fails because the transport ends every request (`Transport`'s `Termination`), and
every run of the callback returns or raises, which is the caller's part: a callback that blocks for
ever blocks the wait. The operation need not finish and no stop need be asked for. `Pagination`: the generator runs
when asked and the consumer keeps asking; whether it gives up is open. `RunOperation`: callers
go on and, after a failure, try again as documented; a request that keeps being sent is
handled; operations are worked off. What a `Misconfigured` caller does always fails in the same
way, so nothing is promised to it. Failures are finitely many (`MaxFailures`): with
infinitely many nobody could promise an end. `PollingFloats`: the loop runs. `EvaluationFlow`
states no fairness and no liveness: that its steps end is shown where they are modelled in
full.

## 4. What is proved

All theorems hold for every value of the constants under the assumptions named in the
modules: sets of configurations, answers, models and outcomes of the stated shape, natural bounds,
sentinel values that are no numbers, cursors or texts (`ConfigAssumption`, `AnswersAssumption`,
`ClientsAssumption`, `CallsAssumption`, `BaseURLsAssumption`, `ConfigsAssumption`,
`TimingAssumption`, `CursorsAssumption`, `PagesAssumption`, `SecondAssumption`,
`CallersAssumption`, `FlowAssumption`). Three say more. `SymbolsAssumption`: a text gets no longer
in lower case, which holds of every character but U+0130; texts with that character are outside
the models. `WordsAssumption`: the constant words of the examples are safe, in lower case and as
long as they are. `TurnIdsAssumption`: the server gives turns of different operations different
ids. TLC evaluates all of them on every run.

Induction over numbers is done with sets: a set that has 0, and with every number the next, has
them all (`UpTo`, from the well-foundedness of `<` in the library). That a recursive function on
`0 .. n` exists is proved the same way (`RecursionExists`), and so is what `Lengths`, `Dashes` and
`Joins` compute. What a power of two is comes from the library's count of the subsets of a finite
set (`PowerOfTwo`, `PowersOfTwo`).

**`Transport_proofs`.** `MutatesAtMostOnce`, `ReturnedMeansDone`, `RefusedMeansUndone`,
`SleepsWithinBudget`, `UsesAllAttempts`, `WaitsAsAsked`, `TypeCorrect`, and `RefinesContract`:
every step of the retry loop is a step of `RequestContract` or changes nothing it speaks of. The safety properties are not
inductive: that the effect count stays at most 1 depends on which requests are still on the
wire. The invariant `Inv == TypeOK /\ IndInv` adds what ties them together: `ControlInv` (only
a repeatable call gets past its first attempt, and requests of later attempts are not on the
wire), `EffectInv` (a keyless mutation has no effect before its only request is delivered),
`AnswerInv` (an answer in hand, or in flight, tells the truth about the effect, and keeps
doing so: `HeardStable`), `DelayInv` and `BackoffBudget`. `UsesAllAttempts` says that a transient
failure of a repeatable call is not given up on while attempts remain; `WaitsAsAsked` needs one
more fact, that the delay of a sleeping call was computed from the answer it still holds
(`HeaderInv`).

Also there, about `ResponseParsing`: `AnyHeaderIsBounded`: whatever text arrives as Retry-After, the
loop sleeps between 0 and the cap, so no text makes `time.sleep` fail or hang. `ShownIsWaited`:
where the exception tells a finite `retry_after`, the retry loop reads the same; the converse does
not hold (a date or a negative number is waited for and not shown). `PolicyKnowsTheCodes`: the
retry policy and the exception table name the same codes, except `insufficient_credits`.

**`RunOperation_proofs`.** `TypeCorrect`, `BillsEachJobOnce`, `ReturnsOwnResults`,
`PollingErrorsLeadBack`, `ConflictsAreClean` and `RunsKeepTheContract` (every step is a step of
`BillableJobs` or a stutter), for any number of callers, jobs, keys and failures, whichever jobs
share a key. What callers are told is true because it was true when the server said it and stays
so. The invariant therefore has four parts: an operation is filed under the key of its job, and
alone there (`OpsInv`); a request on the wire still says what its sender wants, even after the
sender has crashed (`RequestsInv`); a reply in flight is about the caller's own operation, tells an
ending that has happened, or says that another job holds the key (`ReplyInv`, from `Own`, `Ended`
and `Taken`); and a caller's locals and outcome are such replies (`CallerInv`). That `Own`, `Ended`
and `Taken` survive every step is the lemma `KnowledgeStays`, and the reason why a conflict is
clean: once another job has the key, this one never gets it.

**`AsyncClient_proofs`.** `TypeCorrect`, `ClosedClientsAreQuiet`, `ClosingIsLocal` and
`EveryTaskKeepsItsContract`, for any number of tasks, clients and httpx clients, however they
are shared. The invariant is that of the single request, task by task (`ControlInv`,
`EffectInv`, `AnswerInv`), and `ClosedInv`: a closed client has given up the httpx client it
owns. The one assumption about sharing, in `ClientsAssumption`, is that a client that made its
httpx client is the only one that uses it.

**`Configuration_proofs`.** `TypeCorrect`, `KeysAreKeptApart`. A
request is safe because its client was, and a client because it passed the validators when it
was made (`ClientInv`, `SentInv`); what the environment became later plays no part.

**`Polling_proofs`.** `TypeCorrect`, `ReturnsTheFinalStatus`, `TimesOutHonestly`,
`MissesNoEarlyResult`, `OverrunsWithinBound`, `StopsPromptly`, and the action properties
`StopsPolling`, `KeepsTheCadence` and `CancelsAtOnce`. `TimesOutHonestly` says what a timeout tells:
that the budget is spent, and that the operation was looked at, unless one run of the callback can
use up the whole budget before the first GET. The invariant has one part for the configuration and the
interval (`LoopInv`), one that places the clock at each point of the loop relative to the last
GET, the last answer, the last call of the callback and the deadline (`ClockInv`), one for the age of
a stop request (`StopInv`), one for the age of the news (`NewsInv`) and one for what a cancellation
leaves to do (`CancelInv`). The bounds in the properties are sums
of what `ClockInv` allows for the phases between two observations. `KeepsTheCadence` adds
`CadenceInv`: the interval in hand is the k-th term of the documented sequence, which the loop
computes by doubling and capping and the documentation gives in closed form (`CadenceDoubles`).

**`Pagination_proofs`.** All safety properties of the run: `RequestsEachPageOnce` from the
invariant that every requested page has its cursor in `seen` while the next one has not
(`WalkInv`); `YieldsEachItemOnce` and `SkipsNothing` from an exact account of what has been
yielded (`ItemInv`); `ExhaustsWhatIsThere` and `RejectsCyclesOnly` from the links between the
pages walked (`LinkInv`). They hold for any number of cursors, page sizes and relinks.

**`IdempotencyKey_proofs`.** What `idempotency_key` makes of any texts: a part gets no longer by
being normalised, so parts that fit into 255 characters with their dashes make a valid key
(`ShortKeysAreValid`, `ShortFourPartKeys`), and two keys that differ only in their first part are
equal only if that part is normalised to the same text (`SameKeySamePart`). The last is what lets
`BillsInOrder` tell whose wizard a key belongs to.

**`EvaluationFlow_proofs`.** All properties of the run, for any number of programs and restarts,
any run ids, prompts and models, any server within its contract: `ProgramsAreWellTyped`,
`ReportsAreCoherent`, `NoErrorWithoutCause`, `BillsInOrder`, and, for keys that are apart,
`RerunsAreFree`. None of the properties is inductive: a report is coherent because of what the
program learned several steps, and several programs, earlier. The invariant `Inv` says of every
operation what it was made of (`Filing`: one of seven ways of filing it, each naming the earlier
operation whose result is in its request or its key), what the server made of it (`TurnOf`,
`PayloadOf`), and that no two operations have one key; and of every program which operation each of
its locals came from (`Course`, `OnRecord`, `Source`, `ChatKnown`, `TurnKnown`, `Waiting`,
`Evaluated`). The argument has three layers. Operations only grow (`Grows`): what they were made of
stays true (`FilingStays`), and so does all that other programs know (`KnownStays`), so that an
action need be shown to preserve the invariant of its own program or operation only (`OneMoves`,
`ServerMoves`). What a program learns from a result is what the server put there, however the result
is laid out (`ResultRead`, `WizardResult`, `ChatResult`, `EvaluationResult`), and what it finds on a
page of messages is the turn with the id it asked for (`TurnFound`). And the requests made of such
locals are ones the contract models accept, or fail for a stated reason (`PromptRejected`,
`ChatRejected`, `EvaluationRejected`, `KeyErrorHasCause`); in particular, a run id of at most 100
characters leaves room for every model and response id that the contract lets in, exactly:
100 + 1 + 10 + 1 + 140 + 1 + 2 = 255 (`KeysFit`). `RerunsAreFree` follows from `OncePerStep` (what
is filed for one step of one run, with one model, has one key: the chat's because the model is the
same, and so the evaluation's because both judge the answer of the same chat) and from
`SameKeySameRequest` (one key, one request, if nothing disturbed the run). TLC has checked `Inv` on the
instance of the run.

`ReturnedMeansDone`, `ReturnsTheFinalStatus`, `StopsPolling`, `YieldsEachItemOnce` and the theorems
about keys and headers prove properties that the runs above do not check a second time: what TLC
checks implies them, or they were cheap to prove along the way.

Every safety and action property that a passing run checks is proved. Only model-checked: the
liveness properties, those inside both `ImplementsContract` included (TLAPS has no fairness or
ENABLED reasoning here), and the loop of `PollingFloats`, of which the only run expects a
violation. `MCEvaluationFlow` checks, over all texts of up to four symbols, that `Dashed` agrees with
a one-pass reference definition and that normalisation is idempotent.

## 5. Hazards

`PROJECT.json` lists what is hard to test in this code, at its line, with the properties that
catch it.

## 6. Plan

Order of work: the request (everything else goes through it), the wait, the iterators, the
run helpers that compose them, the clients and their configuration, then the programs on top of
the run helpers, with the keys and the contract models they meet. What would be worth adding:

1. A condition on run ids alone that implies `KeysApart` (run ids of one fixed length would do),
   and normalisation's idempotence for texts of every length.
2. The other examples that combine calls (`operation_polling.py`, `pagination.py`), should they
   come to keep state between them.

## 7. Not modelled, and why

* The read-only resources (`account`, `models`, `helloworld`) are one GET and one parse; the GET
  is `Transport`'s, the rest keeps no state. `models.list` is a step of `EvaluationFlow`, which
  needs its answer.
* Of the contract models, the rules of dates, amounts, summaries and display fields; JSON
  encoding, header names' spelling and user-agent strings, message texts, docstrings: data whose
  details no property tells apart. A body is its shape.
* `redaction.py` rewrites texts for messages and has no state.
* `src/scripts`, `src/openapi`, `src/tests`: tooling and data. Of `src/examples`, the programs that
  make single calls.
* The public API and httpx are external; they are modelled by what the SDK and its
  documentation rely on, and marked as such in `PROJECT.json`.
