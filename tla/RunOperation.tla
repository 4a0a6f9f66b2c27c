----------------------------- MODULE RunOperation -----------------------------
(***************************************************************************)
(* The run helpers chat.run, evaluations.run and input_wizard.run: create  *)
(* a billable operation under the caller's idempotency key, wait for it,   *)
(* fetch its detail (_resources/chat.py, evaluations.py, input_wizard.py). *)
(* Several callers, some of them about the same job, run them against one  *)
(* server; callers crash, give up, and try again with the same key, as     *)
(* docs/idempotency.md tells them to.                                      *)
(*                                                                         *)
(* A request is here what Transport shows it to be: it may be sent several *)
(* times, take effect once, and fail for the caller before or after that.  *)
(* A wait is what Polling shows it to be: it ends with the operation in a  *)
(* terminal status, or with a timeout, a stop or an error; polling         *)
(* arguments that are not valid make it fail before its first look, and    *)
(* again in every run with the same arguments.  The server (external)      *)
(* binds a key to the first body it comes with.                            *)
(***************************************************************************)
EXTENDS Naturals, Sequences

CONSTANTS
    Callers,       \* processes that run a helper
    Jobs,          \* request bodies: what is to be done, and billed, once
    Keys,          \* idempotency keys
    JobOf,         \* the job of each caller
    KeyOf,         \* the key made for each job: idempotency_key(...) may map two to one
    HelperOf,      \* which helper each caller runs
    Misconfigured, \* the callers whose polling arguments PollingConfig rejects
    MaxFailures,   \* bound: crashes, losses, errors and timeouts in a behaviour
    None

ASSUME CallersAssumption ==
    /\ JobOf \in [Callers -> Jobs]
    /\ KeyOf \in [Jobs -> Keys]
    /\ HelperOf \in [Callers -> {"chat", "evaluation", "input_wizard"}]
    /\ Misconfigured \subseteq Callers
    /\ MaxFailures \in Nat
    /\ None \notin Keys \cup Nat

(* "queued" stands for both active statuses, "failed" for every terminal   *)
(* status without a result.                                                *)
Terminal == {"succeeded", "failed"}
Statuses == {"queued"} \cup Terminal

VARIABLES
    caller,     \* the local state of each caller
    ops,        \* the operations created at the server, in order
    requests,   \* create requests on the wire
    reply,      \* the server's answer to the create each caller waits for
    failures    \* how much has gone wrong so far

vars == <<caller, ops, requests, reply, failures>>

OpId == DOMAIN ops

Operation == [key: Keys, job: Jobs, status: Statuses]

Request == [caller: Callers, key: Keys, job: Jobs]

Fresh == [pc |-> "idle", mode |-> "run", op |-> None, outcome |-> "pending", status |-> "queued",
          content |-> None, excOp |-> None, excKey |-> None]

TypeOK ==
    /\ caller \in [Callers ->
          [pc: {"idle", "creating", "waiting", "detail", "done"},
           mode: {"run", "resume"},
           op: Nat \cup {None},
           outcome: {"pending", "returned", "Conflict", "Timeout", "Stopped", "Error"},
           status: Statuses,
           content: {"present", "absent", None},
           excOp: Nat \cup {None},
           excKey: Keys \cup {None}]]
    /\ \A c \in Callers : caller[c].pc \in {"waiting", "detail"} => caller[c].op \in OpId
    /\ ops \in Seq(Operation)
    /\ requests \subseteq Request
    /\ reply \in [Callers -> {None} \cup [op: Nat \cup {None}, status: Statuses]]
    /\ failures \in 0 .. MaxFailures

Init ==
    /\ caller = [c \in Callers |-> Fresh]
    /\ ops = <<>>
    /\ requests = {}
    /\ reply = [c \in Callers |-> None]
    /\ failures = 0

At(c, pc) == caller[c].pc = pc

Fail == failures < MaxFailures /\ failures' = failures + 1

End(c, outcome) == caller' = [caller EXCEPT ![c].pc = "done", ![c].outcome = outcome]

-----------------------------------------------------------------------------
(* Creating the operation. *)

(* Mutated form: a run after a failure makes a new key. *)
CreateRequestRekeyed(c) ==
    [caller |-> c, job |-> JobOf[c],
     key |-> IF failures = 0 THEN KeyOf[JobOf[c]] ELSE CHOOSE k \in Keys : k # KeyOf[JobOf[c]]]

CreateRequest(c) == [caller |-> c, key |-> KeyOf[JobOf[c]], job |-> JobOf[c]]

Run(c) ==
    /\ At(c, "idle")
    /\ caller' = [caller EXCEPT ![c].pc = "creating"]
    /\ requests' = requests \cup {CreateRequest(c)}
    /\ reply' = [reply EXCEPT ![c] = None]
    /\ UNCHANGED <<ops, failures>>

(* The transport repeats a keyed create whose request or answer was lost.  *)
Resend(c) ==
    /\ At(c, "creating") /\ reply[c] = None
    /\ CreateRequest(c) \notin requests
    /\ requests' = requests \cup {CreateRequest(c)}
    /\ UNCHANGED <<caller, ops, reply, failures>>

(* Mutated form: input_wizard.run returns what create returned. *)
CreatedIsEnough(c) ==
    /\ At(c, "creating")
    /\ reply[c] # None /\ reply[c].op # None
    /\ IF HelperOf[c] = "input_wizard"
       THEN caller' = [caller EXCEPT ![c].pc = "done", ![c].outcome = "returned",
                                     ![c].op = reply[c].op, ![c].status = reply[c].status]
       ELSE caller' = [caller EXCEPT ![c].pc = "waiting", ![c].op = reply[c].op]
    /\ UNCHANGED <<ops, requests, reply, failures>>

(* input_wizard.run returns at once if the operation is already terminal;  *)
(* the other two look at it again.                                         *)
Created(c) ==
    /\ At(c, "creating")
    /\ reply[c] # None /\ reply[c].op # None
    /\ IF HelperOf[c] = "input_wizard" /\ reply[c].status \in Terminal
       THEN caller' = [caller EXCEPT ![c].pc = "done", ![c].outcome = "returned",
                                     ![c].op = reply[c].op, ![c].status = reply[c].status]
       ELSE caller' = [caller EXCEPT ![c].pc = "waiting", ![c].op = reply[c].op]
    /\ UNCHANGED <<ops, requests, reply, failures>>

CreateConflicts(c) ==
    /\ At(c, "creating")
    /\ reply[c] # None /\ reply[c].op = None
    /\ End(c, "Conflict")
    /\ UNCHANGED <<ops, requests, reply, failures>>

(* Any other error: the answer is a refusal, unreadable, or never comes.   *)
CreateFails(c) ==
    /\ At(c, "creating")
    /\ Fail
    /\ End(c, "Error")
    /\ UNCHANGED <<ops, requests, reply>>

-----------------------------------------------------------------------------
(* Waiting for it. *)

WantsDetail(c) ==
    /\ HelperOf[c] \in {"chat", "evaluation"} /\ caller[c].mode = "run"
    /\ ops[caller[c].op].status = "succeeded"

(* Mutated form: the defaults of the run helpers are rejected as well. *)
PollsOnResume(c) == At(c, "waiting") /\ caller[c].mode = "resume"

(* wait looks at the polling arguments first, after the create.  A caller  *)
(* that resumes by operation id gives arguments of its own.                *)
Polls(c) == At(c, "waiting") /\ (c \in Misconfigured => caller[c].mode = "resume")

(* PollingConfig raises a ValidationError, which names no operation.       *)
WaitRejects(c) ==
    /\ At(c, "waiting") /\ ~Polls(c)
    /\ End(c, "Error")
    /\ UNCHANGED <<ops, requests, reply, failures>>

(* wait returns; operation_run_result wraps what it returned, and the run  *)
(* ends unless its result names a detail that the caller wants.            *)
WaitReturns(c) ==
    /\ Polls(c) /\ ops[caller[c].op].status \in Terminal
    /\ \/ /\ WantsDetail(c)
          /\ caller' = [caller EXCEPT ![c].pc = "detail", ![c].status = ops[caller[c].op].status]
       \/ caller' = [caller EXCEPT ![c].pc = "done", ![c].outcome = "returned",
                                   ![c].status = ops[caller[c].op].status]
    /\ UNCHANGED <<ops, requests, reply, failures>>

(* Mutated forms: the error carries no operation id; it carries no key.    *)
WaitEndsAnonymously(c, outcome) ==
    /\ Polls(c)
    /\ Fail
    /\ End(c, outcome)
    /\ UNCHANGED <<ops, requests, reply>>

WaitEndsKeyless(c, outcome) ==
    /\ Polls(c)
    /\ Fail
    /\ caller' = [caller EXCEPT ![c].pc = "done", ![c].outcome = outcome,
                                ![c].excOp = caller[c].op]
    /\ UNCHANGED <<ops, requests, reply>>

(* polling_error_with_context: the run helpers add the key to what wait    *)
(* knows of the operation.                                                 *)
WaitEnds(c, outcome) ==
    /\ Polls(c)
    /\ Fail
    /\ caller' = [caller EXCEPT ![c].pc = "done", ![c].outcome = outcome,
                     ![c].excOp = caller[c].op,
                     ![c].excKey = IF caller[c].mode = "run" THEN KeyOf[JobOf[c]] ELSE None]
    /\ UNCHANGED <<ops, requests, reply>>

(* Every other error of wait passes through: a failed GET, an exception of *)
(* the stop callback, a cancelled task.                                    *)
WaitFails(c) ==
    /\ Polls(c)
    /\ Fail
    /\ End(c, "Error")
    /\ UNCHANGED <<ops, requests, reply>>

(* chat.run looks for the turn on the first page of messages, and may not  *)
(* find it there; evaluations.run fetches the evaluation by its id.        *)
DetailReturns(c) ==
    /\ At(c, "detail")
    /\ \E content \in {"present", "absent"} :
          /\ content = "absent" => HelperOf[c] = "chat"
          /\ caller' = [caller EXCEPT ![c].pc = "done", ![c].outcome = "returned",
                                      ![c].content = content]
    /\ UNCHANGED <<ops, requests, reply, failures>>

DetailFails(c) ==
    /\ At(c, "detail")
    /\ Fail
    /\ End(c, "Error")
    /\ UNCHANGED <<ops, requests, reply>>

-----------------------------------------------------------------------------
(* What callers do about failures (external, as docs/idempotency.md says). *)

(* A crash loses everything the process knew; its requests travel on.      *)
Crash(c) ==
    /\ caller[c].pc \in {"creating", "waiting", "detail"}
    /\ Fail
    /\ caller' = [caller EXCEPT ![c] = Fresh]
    /\ UNCHANGED <<ops, requests, reply>>

Failed(c) == At(c, "done") /\ caller[c].outcome \in {"Error", "Timeout", "Stopped"}

RunAgain(c) ==
    /\ Failed(c)
    /\ caller' = [caller EXCEPT ![c] = Fresh]
    /\ UNCHANGED <<ops, requests, reply, failures>>

(* client.operations.wait(exc.operation_id)                                *)
Resume(c) ==
    /\ At(c, "done") /\ caller[c].outcome \in {"Timeout", "Stopped"}
    /\ caller' = [caller EXCEPT ![c] = [Fresh EXCEPT !.pc = "waiting", !.mode = "resume",
                                                     !.op = caller[c].excOp]]
    /\ UNCHANGED <<ops, requests, reply, failures>>

-----------------------------------------------------------------------------
(* The server and the network (external). *)

WithKey(k) == {i \in OpId : ops[i].key = k}

Answer(m, op, status) ==
    reply' = IF At(m.caller, "creating")
             THEN [reply EXCEPT ![m.caller] = [op |-> op, status |-> status]]
             ELSE reply

(* A request is handled whenever a copy of it arrives, maybe long after    *)
(* its sender has given up, crashed or succeeded.                          *)
HandleCreate(m) ==
    /\ m \in requests
    /\ \/ /\ WithKey(m.key) = {}
          /\ ops' = Append(ops, [key |-> m.key, job |-> m.job, status |-> "queued"])
          /\ Answer(m, Len(ops'), "queued")
       \/ \E i \in WithKey(m.key) :
             /\ UNCHANGED ops
             /\ IF ops[i].job = m.job THEN Answer(m, i, ops[i].status)
                                      ELSE Answer(m, None, "queued")
    /\ UNCHANGED <<caller, requests, failures>>

Lose(m) ==
    /\ m \in requests
    /\ Fail
    /\ requests' = requests \ {m}
    /\ UNCHANGED <<caller, ops, reply>>

Work(i) ==
    /\ ops[i].status \notin Terminal
    /\ \E s \in Terminal : ops' = [ops EXCEPT ![i].status = s]
    /\ UNCHANGED <<caller, requests, reply, failures>>

-----------------------------------------------------------------------------
CallerStep(c) ==
    \/ Run(c) \/ Resend(c) \/ Created(c) \/ CreateConflicts(c)
    \/ WaitRejects(c) \/ WaitReturns(c) \/ DetailReturns(c)

Trouble(c) ==
    \/ CreateFails(c) \/ WaitFails(c) \/ DetailFails(c) \/ Crash(c)
    \/ WaitEnds(c, "Timeout") \/ WaitEnds(c, "Stopped")

Recover(c) == RunAgain(c) \/ Resume(c)

Settled(c) == At(c, "done") /\ caller[c].outcome \in {"returned", "Conflict"}

Done == (\A c \in Callers : Settled(c)) /\ UNCHANGED vars

Next ==
    \/ \E c \in Callers : CallerStep(c) \/ Trouble(c) \/ Recover(c)
    \/ \E m \in requests : HandleCreate(m) \/ Lose(m)
    \/ \E i \in OpId : Work(i)
    \/ Done

(* Callers go on, and try again; the server handles what reaches it and    *)
(* works its operations off.                                               *)
Fairness ==
    /\ \A c \in Callers :
          /\ WF_vars(CallerStep(c))
          /\ WF_vars(Recover(c))
          /\ WF_vars(CreateRequest(c) \in requests /\ HandleCreate(CreateRequest(c)))
    /\ WF_vars(\E i \in OpId : Work(i))

Spec     == Init /\ [][Next]_vars
FairSpec == Spec /\ Fairness
-----------------------------------------------------------------------------
(* Safety. *)

(* A job is billed once: no crash, loss, retry or second caller creates    *)
(* another operation for it (docs/idempotency.md:3-9).                     *)
OneOperationPerJob == \A i, j \in OpId : ops[i].job = ops[j].job => i = j

(* What a caller is handed is the outcome of its own job, even if another  *)
(* job has got the same key.                                               *)
ResultIsOwn ==
    \A c \in Callers : caller[c].outcome = "returned" =>
        /\ caller[c].op \in OpId
        /\ ops[caller[c].op].job = JobOf[c]
        /\ ops[caller[c].op].status = caller[c].status
        /\ caller[c].status \in Terminal

(* A timeout or a stop names the operation of the caller's own job, and a  *)
(* run helper adds the key it is filed under (docs/async-operations.md:53).*)
PollingErrorLeadsBack ==
    \A c \in Callers : caller[c].outcome \in {"Timeout", "Stopped"} =>
        /\ caller[c].excOp \in OpId
        /\ ops[caller[c].excOp].job = JobOf[c]
        /\ caller[c].mode = "run" => caller[c].excKey = ops[caller[c].excOp].key

(* A conflict means that nothing has been billed for the job, not even by  *)
(* an earlier run whose answer was lost.                                   *)
ConflictIsClean ==
    \A c \in Callers : caller[c].outcome = "Conflict" => \A i \in OpId : ops[i].job # JobOf[c]

-----------------------------------------------------------------------------
(* chat.py:165-167 says that include_content attaches the matching chat    *)
(* turn after success; chat.py:207 reads one page of turns only.           *)
ContentIsAttached == \A c \in Callers : caller[c].content # "absent"

-----------------------------------------------------------------------------
(* The jobs as they look from outside. *)

OpsOf(j) == {i \in OpId : ops[i].job = j}

StateOf(j) ==
    IF OpsOf(j) = {} THEN "none"
    ELSE LET i == CHOOSE i \in OpsOf(j) : TRUE IN
         IF ops[i].status \in Terminal THEN ops[i].status ELSE "started"

KnownTo(c) ==
    IF ~Settled(c) THEN "nothing"
    ELSE IF caller[c].outcome = "Conflict" THEN "refused" ELSE caller[c].status

Contract == INSTANCE BillableJobs
    WITH Endings <- Terminal,
         Served <- Callers \ Misconfigured,
         work <- [j \in Jobs |-> StateOf(j)],
         told <- [c \in Callers |-> KnownTo(c)]

(* The run helpers implement the contract, its liveness included: after    *)
(* any finite number of failures, running again with the same key or       *)
(* resuming by operation id lets every caller know in the end whose        *)
(* polling arguments are valid, and one that fails every time has its job  *)
(* started once at most, however often it runs again (operations.py:64).   *)
ImplementsContract == Contract!Spec
==============================================================================
