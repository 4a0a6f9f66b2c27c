------------------------------ MODULE AsyncClient ------------------------------
(***************************************************************************)
(* Tasks that share AsyncZenture clients, while other tasks close those    *)
(* clients and cancel them (async_client.py, _transport/async_.py).  Each  *)
(* task makes one request; a client owns its httpx client or wraps one     *)
(* that its caller made and may have given to other clients as well.       *)
(*                                                                         *)
(* A task runs undisturbed from one await to the next, so a step goes from *)
(* where it awaits (the request, the sleep before a retry) to its next     *)
(* await.  The retry policy is RetryPolicy's; answers are abstracted to    *)
(* what it makes of them.  Threads that share a Zenture take the same      *)
(* steps, for between two awaits a request shares nothing but the httpx    *)
(* client; they cannot be cancelled.                                       *)
(*                                                                         *)
(* httpx, the network and the server are external: a closed httpx client   *)
(* refuses to send with a RuntimeError, which is no httpx.HTTPError, and   *)
(* breaks or finishes what it has sent.                                    *)
(***************************************************************************)
EXTENDS RetryPolicy

CONSTANTS
    Tasks,
    Clients,      \* AsyncZenture objects
    Https,        \* httpx.AsyncClient objects
    ClientOf,     \* the client of each task
    HttpOf,       \* the httpx client of each client
    Owned,        \* the clients that made their httpx client themselves
    Method,       \* the HTTP method of each task
    HasKey,       \* whether its headers carry an Idempotency-Key
    MaxRetries    \* config.max_retries

MaxAttempts == MaxRetries + 1

ASSUME ClientsAssumption ==
    /\ ClientOf \in [Tasks -> Clients]
    /\ HttpOf \in [Clients -> Https]
    /\ Owned \subseteq Clients
    /\ \A c \in Owned, d \in Clients : HttpOf[c] = HttpOf[d] => c = d

ASSUME CallsAssumption ==
    /\ HasKey \in [Tasks -> BOOLEAN]
    /\ MaxRetries \in Nat

VARIABLES
    open,       \* the httpx client can send
    closed,     \* the clients on which aclose has been called
    pc,         \* where each task is
    attempt,    \* its attempt counter
    outcome,    \* how its call ended
    wire,       \* requests on their way: task and attempt
    reply,      \* the answer to its current request, in flight
    effects     \* how often the server performed its mutation

taskVars == <<pc, attempt, outcome>>
netVars  == <<wire, reply, effects>>
vars     == <<open, closed, pc, attempt, outcome, wire, reply, effects>>

Http(t) == HttpOf[ClientOf[t]]

Mutating(t) == Method[t] \notin SafeMethods

(* An answer is a 2xx, a 4xx, or an error that the policy calls transient. *)
Answers == {"success", "refusal", "transient"}

TypeOK ==
    /\ open \in [Https -> BOOLEAN]
    /\ closed \subseteq Clients
    /\ pc \in [Tasks -> {"idle", "requesting", "sleeping", "done"}]
    /\ attempt \in [Tasks -> 1 .. MaxAttempts]
    /\ outcome \in [Tasks -> {"pending", "returned", "APIError", "TransportError", "RuntimeError",
                              "Cancelled"}]
    /\ wire \subseteq Tasks \X (1 .. MaxAttempts)
    /\ reply \in [Tasks -> Answers \cup {"none"}]
    /\ effects \in [Tasks -> Nat]

(* AsyncZenture.__init__: every client has a transport of its own. *)
Init ==
    /\ open = [h \in Https |-> TRUE]
    /\ closed = {}
    /\ pc = [t \in Tasks |-> "idle"]
    /\ attempt = [t \in Tasks |-> 1]
    /\ outcome = [t \in Tasks |-> "pending"]
    /\ wire = {}
    /\ reply = [t \in Tasks |-> "none"]
    /\ effects = [t \in Tasks |-> 0]

-----------------------------------------------------------------------------
(* The tasks. *)

Finish(t, result) ==
    /\ pc' = [pc EXCEPT ![t] = "done"]
    /\ outcome' = [outcome EXCEPT ![t] = result]

(* await self._client.request(...): the httpx client looks whether it is   *)
(* open before anything leaves.                                            *)
Request(t, n) ==
    /\ attempt' = [attempt EXCEPT ![t] = n]
    /\ reply' = [reply EXCEPT ![t] = "none"]
    /\ \/ /\ open[Http(t)]
          /\ pc' = [pc EXCEPT ![t] = "requesting"]
          /\ wire' = wire \cup {<<t, n>>}
          /\ UNCHANGED outcome
       \/ /\ ~open[Http(t)]
          /\ Finish(t, "RuntimeError")
          /\ UNCHANGED wire

Call(t) ==
    /\ pc[t] = "idle"
    /\ Request(t, 1)
    /\ UNCHANGED <<open, closed, effects>>

(* Mutated form: transient failures are repeated whatever they repeat. *)
WorthARetryAlways(t) == attempt[t] < MaxAttempts

(* Both the answer 503 and an httpx.HTTPError are put to the policy.       *)
WorthARetry(t) ==
    ShouldRetry(Method[t], 503, "dependency_unavailable", HasKey[t], attempt[t], MaxAttempts)

(* Mutated form: a retry does not count. *)
RetryUncounted(t) ==
    /\ pc' = [pc EXCEPT ![t] = "sleeping"]
    /\ attempt' = [attempt EXCEPT ![t] = 1]
    /\ reply' = [reply EXCEPT ![t] = "none"]
    /\ UNCHANGED <<outcome, wire>>

(* if delay > 0: await asyncio.sleep(delay); without a delay the next      *)
(* request follows in the same step.                                       *)
Retry(t) ==
    \/ /\ pc' = [pc EXCEPT ![t] = "sleeping"]
       /\ reply' = [reply EXCEPT ![t] = "none"]
       /\ UNCHANGED <<attempt, outcome, wire>>
    \/ Request(t, attempt[t] + 1)

Answered(t) ==
    /\ pc[t] = "requesting" /\ reply[t] # "none"
    /\ \/ /\ reply[t] = "transient" /\ WorthARetry(t)
          /\ Retry(t)
       \/ /\ reply[t] = "transient" => ~WorthARetry(t)
          /\ Finish(t, IF reply[t] = "success" THEN "returned" ELSE "APIError")
          /\ UNCHANGED <<attempt, wire, reply>>
    /\ UNCHANGED <<open, closed, effects>>

(* httpx.HTTPError: a timeout, or a connection that breaks or is closed.   *)
Broken(t) ==
    /\ pc[t] = "requesting"
    /\ \/ WorthARetry(t) /\ Retry(t)
       \/ ~WorthARetry(t) /\ Finish(t, "TransportError") /\ UNCHANGED <<attempt, wire, reply>>
    /\ UNCHANGED <<open, closed, effects>>

WakeUp(t) ==
    /\ pc[t] = "sleeping"
    /\ Request(t, attempt[t] + 1)
    /\ UNCHANGED <<open, closed, effects>>

(* asyncio.CancelledError is delivered where the task awaits; no except    *)
(* clause of the SDK stops it.                                             *)
Cancel(t) ==
    /\ pc[t] \in {"requesting", "sleeping"}
    /\ Finish(t, "Cancelled")
    /\ UNCHANGED <<open, closed, attempt, netVars>>

(* Mutated forms: aclose closes what it does not own; the httpx client     *)
(* that is closed is the one the client does not own.                      *)
AcloseAnyway(c) ==
    /\ c \notin closed
    /\ closed' = closed \cup {c}
    /\ open' = [open EXCEPT ![HttpOf[c]] = FALSE]
    /\ UNCHANGED <<taskVars, netVars>>

AcloseShared(c) ==
    /\ c \notin closed
    /\ closed' = closed \cup {c}
    /\ open' = [h \in Https |-> open[h] /\ ~(c \notin Owned /\ HttpOf[c] = h)]
    /\ UNCHANGED <<taskVars, netVars>>

(* AsyncTransport.aclose, called by aclose and by leaving `async with`; a  *)
(* second call changes nothing.                                            *)
Aclose(c) ==
    /\ c \notin closed
    /\ closed' = closed \cup {c}
    /\ open' = [h \in Https |-> open[h] /\ ~(c \in Owned /\ HttpOf[c] = h)]
    /\ UNCHANGED <<taskVars, netVars>>

TaskStep(t) == Call(t) \/ Answered(t) \/ WakeUp(t)

-----------------------------------------------------------------------------
(* The surroundings (external). *)

Shared(h) == \A c \in Owned : HttpOf[c] # h

(* The caller closes an httpx client of its own.                           *)
CloseShared(h) ==
    /\ Shared(h) /\ open[h]
    /\ open' = [open EXCEPT ![h] = FALSE]
    /\ UNCHANGED <<closed, taskVars, netVars>>

Lose(t, n) ==
    /\ <<t, n>> \in wire
    /\ wire' = wire \ {<<t, n>>}
    /\ UNCHANGED <<open, closed, taskVars, reply, effects>>

(* The server performs a request: for a key it has seen, it replays.       *)
Effect(t) ==
    effects' = IF Mutating(t) /\ (effects[t] = 0 \/ ~HasKey[t])
               THEN [effects EXCEPT ![t] = @ + 1] ELSE effects

(* A request arrives, maybe after its task is gone; a transient failure    *)
(* may come before or after the work.                                      *)
Handle(t, n, a) ==
    /\ <<t, n>> \in wire
    /\ wire' = wire \ {<<t, n>>}
    /\ reply' = IF pc[t] = "requesting" /\ attempt[t] = n THEN [reply EXCEPT ![t] = a] ELSE reply
    /\ \/ a # "success" /\ UNCHANGED effects
       \/ a # "refusal" /\ Effect(t)
    /\ UNCHANGED <<open, closed, taskVars>>

-----------------------------------------------------------------------------
Done == (\A t \in Tasks : pc[t] = "done") /\ UNCHANGED vars

Next ==
    \/ \E t \in Tasks : TaskStep(t) \/ Broken(t) \/ Cancel(t)
    \/ \E c \in Clients : Aclose(c)
    \/ \E h \in Https : CloseShared(h)
    \/ \E t \in Tasks, n \in 1 .. MaxAttempts : Lose(t, n) \/ \E a \in Answers : Handle(t, n, a)
    \/ Done

(* The event loop runs every task that can go on, and httpx's timeouts end *)
(* every request; nobody need close or cancel anything.                    *)
Fairness == \A t \in Tasks : WF_vars(TaskStep(t)) /\ WF_vars(Broken(t))

Spec     == Init /\ [][Next]_vars
FairSpec == Spec /\ Fairness

-----------------------------------------------------------------------------
(* Safety. *)

(* A client closed by aclose is quiet: no task of it sends another request,*)
(* not even one that was about to retry.                                   *)
ClosedIsQuiet ==
    [][\A t \in Tasks, n \in 1 .. MaxAttempts :
          <<t, n>> \in wire' \ wire => ~(ClientOf[t] \in closed \cap Owned)]_vars

(* Closing one client takes nothing from a task of another: as long as its *)
(* own client is not closed, the httpx client it sends through stays open, *)
(* even if it is shared with the one that is closed.                       *)
CloseIsLocal ==
    [][closed' # closed =>
          \A t \in Tasks : ClientOf[t] \notin closed' /\ open[Http(t)] => open'[Http(t)]]_vars

-----------------------------------------------------------------------------
(* Each task as its caller sees it: closing and cancelling may cost it its *)
(* result, never its honesty.                                              *)
Result(t) ==
    CASE outcome[t] = "pending"  -> "pending"
      [] outcome[t] = "returned" -> "success"
      [] OTHER -> "failure"

Contract(t) ==
    INSTANCE RequestContract
    WITH mutating <- Mutating(t), effects <- effects[t], result <- Result(t)

(* Every task's request implements the safety part of the request contract,*)
(* whatever happens to its client and to the other tasks.                  *)
ImplementsContracts ==
    /\ \A t \in Tasks : Contract(t)!Init
    /\ [][\A t \in Tasks : Contract(t)!Next \/ UNCHANGED Contract(t)!vars]_vars

(* Liveness: every call ends, with its client open or closed.              *)
Termination == \A t \in Tasks : <>(pc[t] = "done")
================================================================================
