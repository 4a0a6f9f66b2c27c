------------------------------ MODULE Transport ------------------------------
(***************************************************************************)
(* One call of a resource: SyncTransport.request_json, whose _request is a *)
(* retry loop over a network that loses, delays and reorders and a server  *)
(* that may have done the work although its answer never arrives, and the  *)
(* resource's parse_response of what it hands back.                        *)
(*                                                                         *)
(* The client half follows _transport/sync.py.  The loop hands back every  *)
(* response below 400, redirects included: only the answer's model tells a *)
(* result from anything else.  The network and the server are not part of  *)
(* the repository; they are modelled as the SDK's callers are told to rely *)
(* on them: a request takes effect at most once per delivery, and at most  *)
(* once per Idempotency-Key.  A 2xx answer follows the work and it alone   *)
(* has a body of the model, a 3xx or 4xx answer refuses the work, and a    *)
(* 5xx answer says nothing of it (a gateway fails after the backend acts). *)
(***************************************************************************)
EXTENDS RetryPolicy

CONSTANTS
    Methods,          \* HTTP methods, in upper case
    Answers,          \* the answers the server may give
    MaxRetries,       \* config.max_retries
    InitialBackoff,   \* config.initial_retry_backoff
    MaxBackoff,       \* config.max_retry_backoff
    NoAnswer          \* no response has been received

MaxAttempts == MaxRetries + 1

(* Shape of a response body.  "model" is what the response's model accepts,*)
(* "envelope" a well-formed public error envelope, "object" any other JSON *)
(* object, "text" is not JSON.                                             *)
Bodies == {"model", "envelope", "object", "array", "null", "text"}

Answer == [status: Nat, body: Bodies, code: STRING, retryAfter: Nat \cup {NoHeader}]

ASSUME ConfigAssumption ==
    /\ MaxRetries \in Nat
    /\ InitialBackoff \in Nat
    /\ MaxBackoff \in Nat

ASSUME AnswersAssumption ==
    /\ Answers \subseteq Answer
    /\ NoAnswer \notin Answers
    /\ \A a \in Answers : a.body = "model" => a.status \in 200 .. 299

VARIABLES
    method,      \* the method of the call
    hasKey,      \* its headers carry a non-empty Idempotency-Key
    pc,          \* where the client is
    attempt,     \* the loop's attempt counter
    answer,      \* the response of the current attempt, once received
    delay,       \* the retry delay computed for the current attempt
    slept,       \* total time slept between attempts
    outcome,     \* how the call ended
    wire,        \* what became of the request of each attempt
    reply,       \* the server's reply to the current attempt, in flight
    effects      \* how often the server performed the mutation

callVars   == <<method, hasKey>>
clientVars == <<pc, attempt, answer, delay, slept, outcome>>
netVars    == <<wire, reply, effects>>
vars       == <<method, hasKey, pc, attempt, answer, delay, slept, outcome,
                wire, reply, effects>>

Outcomes ==
    {"pending", "returned", "APIError", "ResponseError", "TransportError", "AssertionError"}

Mutating == method \notin SafeMethods

TypeOK ==
    /\ method \in Methods
    /\ hasKey \in BOOLEAN
    /\ pc \in {"send", "wait", "received", "sleep", "done"}
    /\ attempt \in 1 .. MaxAttempts
    /\ answer \in Answers \cup {NoAnswer}
    /\ delay \in Nat
    /\ slept \in Nat
    /\ outcome \in Outcomes
    /\ wire \in [1 .. MaxAttempts -> {"unsent", "travelling", "delivered", "lost"}]
    /\ reply \in Answers \cup {NoAnswer}
    /\ effects \in Nat

Init ==
    /\ method \in Methods
    /\ hasKey \in BOOLEAN
    /\ pc = "send"
    /\ attempt = 1
    /\ answer = NoAnswer
    /\ delay = 0
    /\ slept = 0
    /\ outcome = "pending"
    /\ wire = [i \in 1 .. MaxAttempts |-> "unsent"]
    /\ reply = NoAnswer
    /\ effects = 0

-----------------------------------------------------------------------------
(* The client. *)

Finish(result) ==
    /\ pc' = "done"
    /\ outcome' = result

(* self._client.request(...): the request leaves. *)
Send ==
    /\ pc = "send"
    /\ pc' = "wait"
    /\ wire' = [wire EXCEPT ![attempt] = "travelling"]
    /\ answer' = NoAnswer
    /\ UNCHANGED <<callVars, attempt, delay, slept, outcome, reply, effects>>

(* The response arrives. *)
Receive ==
    /\ pc = "wait"
    /\ reply # NoAnswer
    /\ pc' = "received"
    /\ answer' = reply
    /\ reply' = NoAnswer
    /\ UNCHANGED <<callVars, attempt, delay, slept, outcome, wire, effects>>

(* Mutated form: exceptions are retried without asking the policy. *)
RetryAnyException == attempt < MaxAttempts

(* The policy is asked about an httpx.HTTPError as about a 503.            *)
RetryAfterException ==
    ShouldRetry(method, 503, "dependency_unavailable", hasKey, attempt, MaxAttempts)

(* httpx.HTTPError: a timeout, a refused or a broken connection.  It can   *)
(* strike before the request is delivered, after it, and after the reply.  *)
CatchHTTPError ==
    /\ pc = "wait"
    /\ reply' = NoAnswer
    /\ \/ /\ RetryAfterException
          /\ pc' = "sleep"
          /\ delay' = RetryDelay(NoHeader, attempt, InitialBackoff, MaxBackoff)
          /\ UNCHANGED outcome
       \/ /\ ~RetryAfterException
          /\ Finish("TransportError")
          /\ UNCHANGED delay
    /\ UNCHANGED <<callVars, attempt, answer, slept, wire, effects>>

(* Mutated form: the resource hands back whatever JSON it gets. *)
ParseNothing == TRUE

(* parse_response: the model accepts what the JSON text says. *)
ParseResponse == answer.body = "model"

(* status_code < 400: _request returns, request_json decodes the body, and *)
(* the resource holds it to its model.                                     *)
ReturnResponse ==
    /\ pc = "received" /\ answer.status < 400
    /\ Finish(IF answer.body # "text" /\ ParseResponse THEN "returned" ELSE "ResponseError")
    /\ UNCHANGED <<callVars, attempt, answer, delay, slept, netVars>>

(* An error response whose body is not a JSON object.                      *)
RejectErrorBody ==
    /\ pc = "received" /\ answer.status >= 400
    /\ answer.body \in {"text", "null", "array"}
    /\ Finish(IF answer.body = "null" THEN "AssertionError" ELSE "ResponseError")
    /\ UNCHANGED <<callVars, attempt, answer, delay, slept, netVars>>

ErrorObject == pc = "received" /\ answer.status >= 400 /\ answer.body \in {"envelope", "object"}

RetryAfterAnswer ==
    ShouldRetry(method, answer.status, answer.code, hasKey, attempt, MaxAttempts)

RetryErrorResponse ==
    /\ ErrorObject /\ RetryAfterAnswer
    /\ pc' = "sleep"
    /\ delay' = RetryDelay(answer.retryAfter, attempt, InitialBackoff, MaxBackoff)
    /\ UNCHANGED <<callVars, attempt, answer, slept, outcome, netVars>>

(* raise error_from_response(...): the typed error, or a response error    *)
(* when the object is not a public error envelope.                         *)
RaiseErrorResponse ==
    /\ ErrorObject /\ ~RetryAfterAnswer
    /\ Finish(IF answer.body = "envelope" THEN "APIError" ELSE "ResponseError")
    /\ UNCHANGED <<callVars, attempt, answer, delay, slept, netVars>>

(* Mutated form: the attempt is not counted. *)
WakeUncounted ==
    /\ pc = "sleep"
    /\ pc' = "send"
    /\ slept' = slept + delay
    /\ UNCHANGED <<callVars, attempt, answer, delay, outcome, netVars>>

(* if delay > 0: time.sleep(delay); attempt += 1; continue                 *)
Wake ==
    /\ pc = "sleep"
    /\ pc' = "send"
    /\ slept' = slept + delay
    /\ attempt' = attempt + 1
    /\ UNCHANGED <<callVars, answer, delay, outcome, netVars>>

ClientStep ==
    \/ Send
    \/ Receive
    \/ ReturnResponse
    \/ RejectErrorBody
    \/ RetryErrorResponse
    \/ RaiseErrorResponse
    \/ Wake

-----------------------------------------------------------------------------
(* The network and the server (external).                                  *)

Lose(i) ==
    /\ wire[i] = "travelling"
    /\ wire' = [wire EXCEPT ![i] = "lost"]
    /\ UNCHANGED <<callVars, clientVars, reply, effects>>

(* The server performs the request: for a key it has seen, it replays.     *)
Effect ==
    effects' = IF Mutating /\ (effects = 0 \/ ~hasKey) THEN effects + 1 ELSE effects

(* The request of attempt i reaches the server, maybe long after the       *)
(* client has given up on it; only the attempt that is waiting hears back. *)
Handle(i, a) ==
    /\ wire[i] = "travelling"
    /\ wire' = [wire EXCEPT ![i] = "delivered"]
    /\ reply' = IF pc = "wait" /\ attempt = i THEN a ELSE reply
    /\ \/ a.status >= 300 /\ UNCHANGED effects
       \/ a.status \notin 300 .. 499 /\ Effect
    /\ UNCHANGED <<callVars, clientVars>>

Environment == \E i \in 1 .. MaxAttempts : Lose(i) \/ \E a \in Answers : Handle(i, a)

-----------------------------------------------------------------------------
Done == pc = "done" /\ UNCHANGED vars

Next == ClientStep \/ CatchHTTPError \/ Environment \/ Done

(* The client's own steps run; httpx's read timeout ends every wait.       *)
Fairness == WF_vars(ClientStep) /\ WF_vars(CatchHTTPError)

Spec     == Init /\ [][Next]_vars
FairSpec == Spec /\ Fairness
-----------------------------------------------------------------------------
(* Safety. *)

(* However many times the request is sent, lost, delivered late or         *)
(* answered by a failing gateway, the server performs the mutation at most *)
(* once: the loop of _request repeats only what may be repeated.           *)
AtMostOneEffect == effects <= 1

(* What is handed to the caller of a mutation as its result, out of all    *)
(* the responses that sync.py:152 lets through, means that the server has  *)
(* performed it, exactly once.                                             *)
SuccessIsReal == outcome = "returned" /\ Mutating => effects = 1

(* A mutation without a key that ends in a refusal (3xx or 4xx) has        *)
(* certainly not been performed: no earlier attempt of the same call can   *)
(* have reached the server before the one that was refused.                *)
RefusalIsClean ==
    /\ pc = "done" /\ Mutating /\ ~hasKey
    /\ answer # NoAnswer /\ answer.status \in 300 .. 499
    => effects = 0

(* The failure of the current attempt is one the policy repeats.           *)
TransientFailure ==
    IF answer = NoAnswer
    THEN TRUE
    ELSE answer.body \in {"envelope", "object"} /\ Transient(answer.status, answer.code)

(* The call does not give up early: a repeatable call that ends with a     *)
(* transient failure has used its whole attempt budget.                    *)
GivesUpLast ==
    /\ outcome \in {"APIError", "ResponseError", "TransportError"}
    /\ answer # NoAnswer => answer.status >= 400
    /\ TransientFailure /\ Repeatable(method, hasKey)
    => attempt = MaxAttempts

(* Retries cost the caller at most max_retry_backoff each, whatever        *)
(* Retry-After a server sends (docs/rate-limits.md:7-9).                   *)
BackoffBudget == slept <= (attempt - 1) * MaxBackoff

(* No attempt leaves before the server's Retry-After has passed, as far as *)
(* the cap allows (base.py:82-85).                                         *)
HonoursRetryAfter ==
    [][attempt' # attempt /\ answer # NoAnswer /\ answer.retryAfter # NoHeader =>
         slept' - slept >= AtMost(answer.retryAfter, MaxBackoff)]_vars

(* The inductive invariant behind these properties. *)

Idle(i) == wire[i] = "unsent"

(* Only a repeatable call gets past its first attempt, and no request of a *)
(* later attempt is on the wire yet.                                       *)
ControlInv ==
    /\ pc = "received" \/ outcome = "returned" => answer \in Answers
    /\ outcome = "returned" => answer.body = "model"
    /\ outcome = "pending" <=> pc # "done"
    /\ pc = "sleep" => attempt <= MaxRetries
    /\ pc = "sleep" \/ attempt > 1 => Repeatable(method, hasKey)
    /\ \A i \in 1 .. MaxAttempts : i > attempt \/ (i = attempt /\ pc = "send") => Idle(i)

EffectInv ==
    /\ ~Mutating => effects = 0
    /\ Mutating => effects <= 1
    /\ Mutating /\ ~hasKey /\ wire[1] # "delivered" => effects = 0

(* What an answer says of the effect stays true while the call looks at it.*)
Truthful(a) ==
    Mutating => /\ a.status < 300 => effects = 1
                /\ ~hasKey /\ a.status \in 300 .. 499 => effects = 0

Heard(a) == a # NoAnswer => wire[attempt] = "delivered" /\ Truthful(a)

AnswerInv ==
    /\ pc \in {"wait", "received", "sleep", "done"} => Heard(answer)
    /\ reply # NoAnswer => pc = "wait"
    /\ Heard(reply)

DelayInv == pc = "sleep" => delay <= MaxBackoff

(* The retry loop never loses track of what its requests may have done:    *)
(* its budget, what is on the wire, the effect and the answers agree.      *)
IndInv == ControlInv /\ EffectInv /\ AnswerInv /\ DelayInv /\ BackoffBudget

(* Liveness. *)

(* Every call ends, even if no request is ever answered.                   *)
Termination == <>(pc = "done")

-----------------------------------------------------------------------------
(* What the documentation says of the retries. *)

(* docs/rate-limits.md:13-14 says that 429 and 5xx responses are retryable *)
(* "when the public error code is retryable"; retries.py:50 retries on the *)
(* status alone.                                                           *)
RetriedCodesAreRetryable ==
    pc = "sleep" /\ answer # NoAnswer => answer.code \in RetryableCodes

(* docs/rate-limits.md:17-18 says that network exceptions "are not         *)
(* classified for retry"; sync.py:127-146 retries them.                    *)
NetworkErrorsEndTheCall == pc = "sleep" => answer # NoAnswer

(* docs/errors.md:3 says that the SDK raises typed exceptions for API and  *)
(* local failures; the assert of sync.py:165 escapes as an AssertionError. *)
FailuresAreTyped == outcome # "AssertionError"

-----------------------------------------------------------------------------
(* The call as its caller sees it: what is handed back is a success,       *)
(* whatever the status it came with.                                       *)
Result ==
    CASE outcome = "pending"  -> "pending"
      [] outcome = "returned" -> "success"
      [] OTHER -> "failure"

Contract == INSTANCE RequestContract WITH mutating <- Mutating, result <- Result

(* The retry loop implements the request contract.                         *)
ImplementsContract == Contract!Spec
==============================================================================
