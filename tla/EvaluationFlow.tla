---------------------------- MODULE EvaluationFlow ----------------------------
(***************************************************************************)
(* The program the SDK is for, as its own examples write it: improve a     *)
(* prompt, have it answered in a chat, look the answer up, have it         *)
(* evaluated (examples/end_to_end_chat_evaluation.py, and the two modes of *)
(* examples/evaluate.py).  Every step is a run helper whose request and    *)
(* idempotency key are made of what the steps before it returned, so what  *)
(* a program does when it is run again, after a crash or under another     *)
(* environment, depends on the keys (IdempotencyKey), the contract models  *)
(* (ContractModels) and the server's replays together.                     *)
(*                                                                         *)
(* A helper is here what RunOperation shows it to be: its request takes    *)
(* effect once or the helper fails (Interrupt), and it returns when its    *)
(* operation is terminal.  The server is external.                         *)
(***************************************************************************)
EXTENDS IdempotencyKey, ContractModels

CONSTANTS
    Runners,       \* places where a program runs
    Scripts,       \* which programs
    RunIds,        \* values of ZENTURE_EXAMPLE_RUN_ID, the empty text for an unset one
    FreshIds,      \* the run ids uuid4 makes up, in order
    Prompts,       \* values of ZENTURE_EXAMPLE_PROMPT
    ModelLists,    \* answers of GET /models?mode=single
    Optimized,     \* prompts the input wizard returns, None for a result without one
    ChatOutcomes,  \* by operation: the answers and ids its turn may get, and which of the
                   \* ids its result names ("id", "ids" or "none")
    ChatIds,       \* the id of the chat an operation opens
    EvaluationIds, \* the id of the evaluation an operation makes
    Shapes,        \* by route: how results are laid out, "nested", "flat" or "untyped"
    PageLimit,     \* turns on a page of messages
    MaxStarts,     \* bound: programs started in a behaviour
    MaxOperations, \* bound: operations the server files
    MaxExpired     \* bound: results the server does not keep

(* A turn of a chat, and what the server keeps of it. *)
ChatTurn ==
    [turn_id: Text, user_message: Text, model_answer: Text,
     model_response_id: Text, model_response_ids: Seq(Text)]

KeptTurn == [chat_id: Text, content: ChatTurn]

ASSUME FlowAssumption ==
    /\ Scripts \subseteq {"end_to_end", "chat_turn", "external"}
    /\ MaxStarts \in Nat \ {0}
    /\ MaxExpired \in Nat
    /\ MaxOperations \in Nat
    /\ PageLimit \in Nat \ {0}
    /\ RunIds \subseteq Text /\ Prompts \subseteq Text /\ Optimized \subseteq Text \cup {None}
    /\ FreshIds \in Seq(Text) /\ Len(FreshIds) >= MaxStarts
    /\ ModelLists \subseteq Seq([id: Text, is_available: BOOLEAN])
    /\ ChatIds \in [1 .. MaxOperations -> Text]
    /\ EvaluationIds \in [1 .. MaxOperations -> Text]
    /\ ChatOutcomes \in [1 .. MaxOperations ->
          SUBSET [answer: Text, turnId: Text, responseId: Text, named: {"id", "ids", "none"}]]
    /\ Shapes \in [{"input_wizard", "chat", "evaluate"} -> SUBSET {"nested", "flat", "untyped"}]
    /\ None \notin Text \cup ResultTypes \cup ChatTurn \cup KeptTurn
    /\ None \notin {"end_to_end", "chat_turn", "external", "wizard", "opening"}

(* The server (external) names every turn differently.                     *)
ASSUME TurnIdsAssumption ==
    \A i, j \in 1 .. MaxOperations :
        \A a \in ChatOutcomes[i], b \in ChatOutcomes[j] : a.turnId = b.turnId => i = j

(* The words the examples build their keys of are safe, in lower case, and *)
(* so long; their texts are within the bounds of the routes.               *)
KeyWords ==
    {"v1", "chat", "evaluation", "input-wizard", "chat-eval-first-turn", "chat-eval-follow-up",
     "evaluation-chat-turn", "evaluation-external", "example"}

ASSUME WordsAssumption ==
    /\ KeyWords \subseteq Safe
    /\ \A word \in KeyWords : LowerCase[word] = word /\ Width[word] <= 20
    /\ Width["v1"] = 2 /\ Width["chat"] = 4 /\ Width["evaluation"] = 10
    /\ {"first_message", "follow_up_message", "question", "reply",
        "example-external-answer-v1", "chat_", "eval_", "haiku"} \subseteq Symbols
    /\ \A word \in {"first_message", "follow_up_message", "question", "reply"} :
          Width[word] <= 20000
    /\ Width["example-external-answer-v1"] <= 255
    /\ Width["chat_"] = 5

VARIABLES
    runner,   \* the program at each place: its locals and where it is
    ops,      \* the server's operations, in order
    starts,   \* programs started so far
    used      \* history: the (run id, prompt, model) combinations programs have worked with

vars == <<runner, ops, starts, used>>

Terminal == {"succeeded", "failed", "expired"}
Statuses == {"queued"} \cup Terminal

Steps == {"wizard", "opening", "chat", "evaluation", "external"}

(* A program that has not begun; every other local is None until it is set. *)
Fresh(script, run, prompt) ==
    [script |-> script, run |-> run, prompt |-> prompt, pc |-> "start", step |-> None, op |-> 0,
     model |-> None, message |-> None, chatId |-> None, turnId |-> None, chatOp |-> 0,
     turn |-> None, response |-> None, evaluationId |-> None, outcome |-> "pending"]

Absent == [Fresh(None, <<>>, None) EXCEPT !.pc = "idle"]

Outcomes == {"pending", "reported", "RuntimeError", "IdempotencyKeyError",
             "ValidationError", "ResponseError", "Conflict"}

Locals ==
    [script: Scripts \cup {None}, run: Text, prompt: Text \cup {None},
     pc: {"idle", "start", "create", "wait", "messages", "detail", "done"},
     step: Steps \cup {None}, op: Nat,
     model: Text \cup {None}, message: Text \cup {None},
     chatId: Text \cup {None}, turnId: Text \cup {None}, chatOp: Nat,
     turn: ChatTurn \cup {None},
     response: Text \cup {None}, evaluationId: Text \cup {None},
     outcome: Outcomes]

(* A program that waits for an operation, or goes on to the next step, has *)
(* what that step's request is made of.                                    *)
TypeOK ==
    /\ runner \in [Runners -> Locals]
    /\ \A r \in Runners :
          /\ runner[r].pc = "wait" => runner[r].op \in DOMAIN ops
          /\ runner[r].pc = "messages" => runner[r].chatId # None /\ runner[r].turnId # None
          /\ runner[r].step = "chat" /\ runner[r].script = "end_to_end" =>
                runner[r].message # None
          /\ runner[r].step = "evaluation" => runner[r].response \notin {None, <<>>}
    /\ \A i \in DOMAIN ops :
          /\ ops[i].status \in Statuses
          /\ ops[i].step \in Steps
          /\ ops[i].payload # None => ops[i].status = "succeeded"
    /\ starts \in 0 .. MaxStarts

Init ==
    /\ runner = [r \in Runners |-> Absent]
    /\ ops = <<>>
    /\ starts = 0
    /\ used = {}

At(r, pc, step) == runner[r].pc = pc /\ runner[r].step = step

End(r, outcome) == runner' = [runner EXCEPT ![r].pc = "done", ![r].outcome = outcome]

-----------------------------------------------------------------------------
(* Starting a program (the environment of the process is external). *)

CanStart(r) == runner[r].pc \in {"idle", "done"} /\ starts < MaxStarts

(* os.environ.get("ZENTURE_EXAMPLE_RUN_ID") or f"local-e2e-{uuid4().hex}"  *)
RunId(id) == IF id = <<>> THEN FreshIds[starts + 1] ELSE id

StartEndToEnd(r) ==
    /\ CanStart(r) /\ "end_to_end" \in Scripts
    /\ \E id \in RunIds, prompt \in Prompts :
          runner' = [runner EXCEPT ![r] = Fresh("end_to_end", RunId(id), prompt)]
    /\ starts' = starts + 1
    /\ UNCHANGED <<ops, used>>

(* evaluate.py works under fixed keys and with fixed texts.                *)
Example == <<"example">>

StartExample(r) ==
    /\ CanStart(r)
    /\ \E script \in Scripts \cap {"chat_turn", "external"} :
          runner' = [runner EXCEPT ![r] =
              [Fresh(script, Example, None) EXCEPT
                 !.pc = "create", !.step = IF script = "chat_turn" THEN "opening" ELSE "external"]]
    /\ starts' = starts + 1
    /\ UNCHANGED <<ops, used>>

(* _select_single_model *)
Selected(models) ==
    LET available  == {i \in DOMAIN models : models[i].is_available}
        candidates == IF available = {} THEN DOMAIN models ELSE available
        haikus     == {i \in candidates : "haiku" \in Range(Lower(models[i].id))}
    IN  models[Min(IF haikus = {} THEN candidates ELSE haikus)].id

(* wallet.get, models.list and the choice of a model.                      *)
SelectModel(r) ==
    /\ runner[r].pc = "start"
    /\ \E models \in ModelLists :
          \/ /\ \E i \in DOMAIN models : ~ModelOK(models[i])
             /\ End(r, "ResponseError")
             /\ UNCHANGED used
          \/ /\ models = <<>>
             /\ End(r, "RuntimeError")
             /\ UNCHANGED used
          \/ /\ models # <<>> /\ \A i \in DOMAIN models : ModelOK(models[i])
             /\ runner' = [runner EXCEPT ![r].pc = "create", ![r].step = "wizard",
                                         ![r].model = Selected(models)]
             /\ used' = used \cup {[run |-> runner[r].run, prompt |-> runner[r].prompt,
                                    model |-> Selected(models)]}
    /\ UNCHANGED <<ops, starts>>

-----------------------------------------------------------------------------
(* The keys and the requests. *)

V1 == <<"v1">>

WizardKey(run) == Joined(<<run, <<"input-wizard">>, V1>>)
ChatKey(run, model) == Joined(<<run, <<"chat">>, model, V1>>)
EvaluationKey(run, response) == Joined(<<run, <<"evaluation">>, response, V1>>)
ExampleKey(run, name) == Joined(<<run, <<name>>, V1>>)

WizardRequest(r) == [route |-> "input_wizard", prompt |-> runner[r].prompt]

(* _chat_request; the examples chat in single mode. *)
ChatRequest(message, chatId, model) ==
    [route |-> "chat", message |-> message, chat_id |-> chatId, mode |-> "single",
     model |-> model, models |-> None]

OpeningRequest == ChatRequest(<<"first_message">>, None, None)

EvaluateRequest(r) ==
    [route |-> "evaluate", user_message |-> runner[r].turn.user_message,
     ai_answer |-> runner[r].turn.model_answer, external_id |-> None,
     chat_id |-> runner[r].chatId, model_response_id |-> runner[r].response,
     turn_id |-> runner[r].turn.turn_id]

ExternalRequest ==
    [route |-> "evaluate", user_message |-> <<"question">>, ai_answer |-> <<"reply">>,
     external_id |-> <<"example-external-answer-v1">>, chat_id |-> None,
     model_response_id |-> None, turn_id |-> None]

Filed(key) == {i \in DOMAIN ops : ops[i].key = key}

(* The server (external) files a request under its key, answers a repeated *)
(* one with the operation it has, and refuses another one under that key.  *)
Submit(r, key, request) ==
    \/ /\ Filed(key) = {}
       /\ Len(ops) < MaxOperations
       /\ ops' = Append(ops, [run |-> runner[r].run, step |-> runner[r].step, key |-> key,
                              request |-> request, status |-> "queued", payload |-> None,
                              turn |-> None])
       /\ runner' = [runner EXCEPT ![r].pc = "wait", ![r].op = Len(ops')]
    \/ \E i \in Filed(key) :
          /\ ops[i].request = request
          /\ runner' = [runner EXCEPT ![r].pc = "wait", ![r].op = i]
          /\ UNCHANGED ops
    \/ \E i \in Filed(key) :
          /\ ops[i].request # request
          /\ End(r, "Conflict")
          /\ UNCHANGED ops

(* Mutated form: every start of a program adds something new to its keys. *)
CreateUnderFreshKey(r, key, request, accepted) ==
    /\ \/ ~accepted /\ End(r, "ValidationError") /\ UNCHANGED ops
       \/ accepted /\ Submit(r, Joined(<<key, FreshIds[starts]>>), request)
    /\ UNCHANGED <<starts, used>>

(* idempotency_key(...), the construction of the request model, the POST.  *)
Create(r, key, request, accepted) ==
    /\ \/ ~ValidKey(key) /\ End(r, "IdempotencyKeyError") /\ UNCHANGED ops
       \/ ValidKey(key) /\ ~accepted /\ End(r, "ValidationError") /\ UNCHANGED ops
       \/ ValidKey(key) /\ accepted /\ Submit(r, key, request)
    /\ UNCHANGED <<starts, used>>

CreateWizard(r) ==
    /\ At(r, "create", "wizard")
    /\ Create(r, WizardKey(runner[r].run), WizardRequest(r),
              InputWizardRequestOK(WizardRequest(r)))

CreateOpening(r) ==
    /\ At(r, "create", "opening")
    /\ Create(r, ExampleKey(runner[r].run, "chat-eval-first-turn"), OpeningRequest,
              ChatRequestOK(OpeningRequest))

CreateChat(r) ==
    /\ At(r, "create", "chat")
    /\ \/ /\ runner[r].script = "chat_turn"
          /\ LET request == ChatRequest(<<"follow_up_message">>, runner[r].chatId, None)
             IN  Create(r, ExampleKey(runner[r].run, "chat-eval-follow-up"), request,
                        ChatRequestOK(request))
       \/ /\ runner[r].script # "chat_turn"
          /\ LET request == ChatRequest(runner[r].message, None, runner[r].model)
             IN  Create(r, ChatKey(runner[r].run, runner[r].model), request,
                        ChatRequestOK(request))

CreateEvaluation(r) ==
    /\ At(r, "create", "evaluation")
    /\ LET key == IF runner[r].script = "chat_turn"
                  THEN ExampleKey(runner[r].run, "evaluation-chat-turn")
                  ELSE EvaluationKey(runner[r].run, runner[r].response)
       IN  Create(r, key, EvaluateRequest(r), EvaluateRequestOK(EvaluateRequest(r)))

CreateExternal(r) ==
    /\ At(r, "create", "external")
    /\ Create(r, ExampleKey(runner[r].run, "evaluation-external"), ExternalRequest,
              EvaluateRequestOK(ExternalRequest))

-----------------------------------------------------------------------------
(* What the helpers return. *)

(* Mutated form: a helper returns what it has created. *)
WaitsForNothing(r, step) == At(r, "wait", step)

Waits(r, step) == At(r, "wait", step) /\ ops[runner[r].op].status \in Terminal

Payload(r) == ops[runner[r].op].payload

Readable(r) == Payload(r) # None => ResultOK(Projection(Payload(r)))

Returned(r, step) == Waits(r, step) /\ Readable(r)

(* A field of operation.result, None if there is no result.                *)
Result(r, name) == IF Payload(r) = None THEN None ELSE Get(Projection(Payload(r)), name)

Falsy == {None, <<>>}

(* The mutated form takes what the result has. *)
PromptOptimized(r) == Result(r, "optimized_prompt")

(* wizard.result.optimized_prompt if there is one, else prompt             *)
OptimizedPrompt(r) ==
    IF Result(r, "optimized_prompt") \in Falsy THEN runner[r].prompt
                                               ELSE Result(r, "optimized_prompt")

(* parse_response finds that the result breaks the contract.               *)
ResultRejected(r) ==
    /\ \E step \in Steps : Waits(r, step) /\ ~Readable(r)
    /\ End(r, "ResponseError")
    /\ UNCHANGED <<ops, starts, used>>

WizardReturns(r) ==
    /\ Returned(r, "wizard")
    /\ runner' = [runner EXCEPT ![r].pc = "create", ![r].step = "chat",
                                ![r].message = OptimizedPrompt(r)]
    /\ UNCHANGED <<ops, starts, used>>

OpeningReturns(r) ==
    /\ Returned(r, "opening")
    /\ \/ /\ Result(r, "chat_id") = None
          /\ End(r, "RuntimeError")
       \/ /\ Result(r, "chat_id") # None
          /\ runner' = [runner EXCEPT ![r].pc = "create", ![r].step = "chat",
                                      ![r].chatId = Result(r, "chat_id")]
    /\ UNCHANGED <<ops, starts, used>>

(* _first_response_id, None where it raises *)
FirstResponseId(r) ==
    IF Result(r, "model_response_id") \notin Falsy THEN Result(r, "model_response_id")
    ELSE IF Payload(r) = None \/ ResponseIds(Projection(Payload(r))) = <<>> THEN None
    ELSE Head(ResponseIds(Projection(Payload(r))))

ChatReturns(r) ==
    /\ Returned(r, "chat")
    /\ LET continued == runner[r].script = "chat_turn"
           chatId    == IF continued THEN runner[r].chatId ELSE Result(r, "chat_id")
           turnId    == Result(r, "turn_id")
           response  == IF continued THEN FirstResponseId(r) ELSE Result(r, "model_response_id")
           missing   == chatId = None \/ turnId = None \/ (continued /\ response = None)
       IN  IF missing
           THEN End(r, "RuntimeError")
           ELSE runner' = [runner EXCEPT ![r].pc = "messages", ![r].chatOp = runner[r].op,
                              ![r].chatId = chatId, ![r].turnId = turnId,
                              ![r].response = response]
    /\ UNCHANGED <<ops, starts, used>>

(* The mutated form takes the turn that comes first. *)
FindAnyTurn(turns, turnId) == IF turns = <<>> THEN None ELSE Head(turns)

(* _find_turn_by_id, None where it raises *)
FindTurn(turns, turnId) ==
    LET found == SelectInSeq(turns, LAMBDA turn : turn.turn_id = turnId)
    IN  IF found = 0 THEN None ELSE turns[found]

(* The server's turns of a chat, by their operations.                      *)
Turns(chatId) == {i \in DOMAIN ops : ops[i].turn # None /\ ops[i].turn.chat_id = chatId}

(* p starts a list of S, in the order of the numbers or against it.        *)
Starts(p, S) ==
    LET left == S \ Range(p)
    IN  \/ \A j \in DOMAIN p :
              /\ \A k \in DOMAIN p : j < k => p[j] < p[k]
              /\ \A i \in left : p[j] < i
        \/ \A j \in DOMAIN p :
              /\ \A k \in DOMAIN p : j < k => p[j] > p[k]
              /\ \A i \in left : p[j] > i

FirstPages(chatId) ==
    LET size  == Min({PageLimit, Cardinality(Turns(chatId))})
        lists == {p \in [1 .. size -> Turns(chatId)] : Starts(p, Turns(chatId))}
    IN  {[k \in 1 .. size |-> ops[p[k]].turn.content] : p \in lists}

(* chat.messages(chat_id), one page of it, and the search for the turn.    *)
Messages(r) ==
    /\ runner[r].pc = "messages"
    /\ \E page \in FirstPages(runner[r].chatId) :
          LET turn     == FindTurn(page, runner[r].turnId)
              response == IF runner[r].response \notin Falsy \/ turn = None THEN runner[r].response
                                                                          ELSE turn.model_response_id
          IN  \/ ~MessagesOK(runner[r].chatId, page) /\ End(r, "ResponseError")
              \/ /\ MessagesOK(runner[r].chatId, page)
                 /\ turn = None \/ response \in Falsy
                 /\ End(r, "RuntimeError")
              \/ /\ MessagesOK(runner[r].chatId, page)
                 /\ turn # None /\ response \notin Falsy
                 /\ runner' = [runner EXCEPT ![r].pc = "create", ![r].step = "evaluation",
                                             ![r].turn = turn, ![r].response = response]
    /\ UNCHANGED <<ops, starts, used>>

(* evaluate.py prints whatever came out.                                   *)
EvaluationReturns(r) ==
    /\ Returned(r, "evaluation") \/ Returned(r, "external")
    /\ \/ /\ runner[r].script # "end_to_end"
          /\ runner' = [runner EXCEPT ![r].pc = "done", ![r].outcome = "reported",
                                      ![r].evaluationId = Result(r, "evaluation_id")]
       \/ /\ runner[r].script = "end_to_end" /\ Result(r, "evaluation_id") = None
          /\ End(r, "RuntimeError")
       \/ /\ runner[r].script = "end_to_end" /\ Result(r, "evaluation_id") # None
          /\ runner' = [runner EXCEPT ![r].pc = "detail",
                                      ![r].evaluationId = Result(r, "evaluation_id")]
    /\ UNCHANGED <<ops, starts, used>>

(* evaluations.get and the summary *)
Detail(r) ==
    /\ runner[r].pc = "detail"
    /\ End(r, "reported")
    /\ UNCHANGED <<ops, starts, used>>

(* Any other way for a program to end, a crash, an error of a request, a   *)
(* timeout of a wait, loses all it knew.                                   *)
Interrupt(r) ==
    /\ runner[r].pc \notin {"idle", "done"}
    /\ runner' = [runner EXCEPT ![r] = Absent]
    /\ UNCHANGED <<ops, starts, used>>

-----------------------------------------------------------------------------
(* The server (external) works operations off. *)

(* A result is nested under the name of its type, or flat; an untyped one  *)
(* breaks the contract.                                                    *)
LaidOut(shape, type, fields) ==
    CASE shape = "nested"  -> [key \in {type} |-> fields]
      [] shape = "flat"    -> Typed(fields, type)
      [] shape = "untyped" -> fields

ChatIdOf(i) == IF ops[i].request.chat_id # None THEN ops[i].request.chat_id ELSE ChatIds[i]

ChatFields(named, chatId, turn) ==
    [chat_id |-> chatId, turn_id |-> turn.turn_id,
     model_response_id |-> IF named = "id" THEN turn.model_response_id ELSE None,
     model_response_ids |-> IF named = "ids" THEN turn.model_response_ids ELSE <<>>]

Succeed(i, payload, turn) ==
    ops' = [ops EXCEPT ![i].status = "succeeded", ![i].payload = payload, ![i].turn = turn]

FinishWizard(i) ==
    /\ ops[i].request.route = "input_wizard"
    /\ \E shape \in Shapes["input_wizard"], prompt \in Optimized :
          Succeed(i, LaidOut(shape, "input_wizard", [optimized_prompt |-> prompt]), None)

FinishChat(i) ==
    /\ ops[i].request.route = "chat"
    /\ \E shape \in Shapes["chat"], outcome \in ChatOutcomes[i] :
          LET turn == [turn_id |-> outcome.turnId, user_message |-> ops[i].request.message,
                       model_answer |-> outcome.answer, model_response_id |-> outcome.responseId,
                       model_response_ids |-> <<outcome.responseId>>]
          IN  Succeed(i, LaidOut(shape, "chat", ChatFields(outcome.named, ChatIdOf(i), turn)),
                      [chat_id |-> ChatIdOf(i), content |-> turn])

FinishEvaluation(i) ==
    /\ ops[i].request.route = "evaluate"
    /\ \E shape \in Shapes["evaluate"] :
          Succeed(i, LaidOut(shape, "evaluation", [evaluation_id |-> EvaluationIds[i]]), None)

Work(i) ==
    /\ ops[i].status = "queued"
    /\ \/ FinishWizard(i) \/ FinishChat(i) \/ FinishEvaluation(i)
       \/ ops' = [ops EXCEPT ![i].status = "failed"]
    /\ UNCHANGED <<runner, starts, used>>

(* The result of an old operation is no longer kept; its turn is.          *)
Expire(i) ==
    /\ ops[i].status = "succeeded"
    /\ Cardinality({j \in DOMAIN ops : ops[j].status = "expired"}) < MaxExpired
    /\ ops' = [ops EXCEPT ![i].status = "expired", ![i].payload = None]
    /\ UNCHANGED <<runner, starts, used>>

-----------------------------------------------------------------------------
RunnerStep(r) ==
    \/ SelectModel(r)
    \/ CreateWizard(r) \/ CreateOpening(r) \/ CreateChat(r)
    \/ CreateEvaluation(r) \/ CreateExternal(r)
    \/ ResultRejected(r)
    \/ WizardReturns(r) \/ OpeningReturns(r) \/ ChatReturns(r) \/ EvaluationReturns(r)
    \/ Messages(r)
    \/ Detail(r)

Done ==
    /\ starts = MaxStarts
    /\ \A r \in Runners : runner[r].pc \in {"idle", "done"}
    /\ UNCHANGED vars

Next ==
    \/ \E r \in Runners : StartEndToEnd(r) \/ StartExample(r) \/ RunnerStep(r) \/ Interrupt(r)
    \/ \E i \in DOMAIN ops : Work(i) \/ Expire(i)
    \/ Done

Spec == Init /\ [][Next]_vars
-----------------------------------------------------------------------------
(* The keys that programs may make, with what for and for which run.  Keys *)
(* are not apart of themselves: run "x" evaluates the answer "chat-m" under *)
(* the key with which run "x-evaluation" chats with model "m", and a run   *)
(* id may be the word the examples use.  Who picks the ids sees to it.     *)
Runs      == (RunIds \ {<<>>}) \cup Range(FreshIds)
Models    == UNION {{models[i].id : i \in DOMAIN models} : models \in ModelLists}
Responses == UNION {{outcome.responseId : outcome \in ChatOutcomes[i]} : i \in 1 .. MaxOperations}

Entry(step, run, key) == [step |-> step, run |-> run, key |-> key]

ExampleKeys ==
    {Entry("opening", Example, ExampleKey(Example, "chat-eval-first-turn")),
     Entry("chat", Example, ExampleKey(Example, "chat-eval-follow-up")),
     Entry("evaluation", Example, ExampleKey(Example, "evaluation-chat-turn")),
     Entry("external", Example, ExampleKey(Example, "evaluation-external"))}

KeySpace ==
    {Entry("wizard", run, WizardKey(run)) : run \in Runs}
    \cup {Entry("chat", run, ChatKey(run, model)) : run \in Runs, model \in Models}
    \cup {Entry("evaluation", run, EvaluationKey(run, response)) :
             run \in Runs, response \in Responses}
    \cup ExampleKeys

KeysApart ==
    /\ \A a, b \in KeySpace :
          a.key = b.key => a.step = b.step /\ Normalized(a.run) = Normalized(b.run)
    /\ \A run \in Runs : Normalized(run) # Normalized(Example)

-----------------------------------------------------------------------------
(* Run ids that are normalised to one text make one run (idempotency.py:   *)
(* 24-26).                                                                 *)
SameRun(a, b) == Normalized(a) = Normalized(b)

OneModel(run) ==
    LET own == {u \in used : SameRun(u.run, run)}
    IN  \A u, v \in own : u.model = v.model

(* Nothing that the requests of a run are made of has changed: the prompt, *)
(* the model chosen, the results kept, and no other id makes this run.     *)
Undisturbed(run) ==
    /\ \A u, v \in used : u.run = run /\ v.run = run => u = v
    /\ \A u \in used : SameRun(u.run, run) => u.run = run
    /\ \A i \in DOMAIN ops : ops[i].run = run => ops[i].status # "expired"

(* Running the program again costs nothing.  Whatever has changed since,   *)
(* another prompt, results no longer kept, another id that makes the same  *)
(* run: a run is billed twice for a step only if two models were chosen.   *)
(* It may be refused then, but only for such a change.                     *)
RerunIsFree ==
    /\ \A i, j \in DOMAIN ops :
          i # j /\ ops[i].step = ops[j].step /\ SameRun(ops[i].run, ops[j].run) =>
             ~OneModel(ops[i].run)
    /\ \A r \in Runners : runner[r].outcome = "Conflict" => ~Undisturbed(runner[r].run)

(* What is reported is about one conversation: the evaluation judged the   *)
(* very turn that the reported chat operation produced, with the model     *)
(* that the program chose, whoever ran what before under whichever key.    *)
ReportIsCoherent ==
    \A r \in Runners : runner[r].outcome = "reported" /\ runner[r].script # "external" =>
        LET chat       == ops[runner[r].chatOp]
            evaluation == ops[runner[r].op]
        IN  /\ chat.request.model = runner[r].model
            /\ evaluation.request.chat_id = chat.turn.chat_id
            /\ evaluation.request.turn_id = chat.turn.content.turn_id
            /\ evaluation.request.model_response_id = chat.turn.content.model_response_id
            /\ evaluation.request.user_message = chat.request.message
            /\ evaluation.request.ai_answer = chat.turn.content.model_answer
            /\ runner[r].script = "end_to_end" =>
                  runner[r].evaluationId = EvaluationIds[runner[r].op]

(* Nothing is billed ahead of what it is made of: no chat before the       *)
(* wizard, or the opening turn, has come to its end under the same run id, *)
(* no evaluation before there is an answer with the id it names.           *)
NothingBilledAhead ==
    [][Len(ops') > Len(ops) =>
          LET new == ops'[Len(ops')]
          IN  /\ new.step = "chat" =>
                    \E j \in DOMAIN ops :
                        /\ ops[j].step \in {"wizard", "opening"} /\ ops[j].status \in Terminal
                        /\ Normalized(ops[j].run) = Normalized(new.run)
              /\ new.step = "evaluation" =>
                    \E j \in DOMAIN ops :
                        /\ ops[j].turn # None
                        /\ ops[j].turn.content.model_response_id = new.request.model_response_id
      ]_vars

(* The SDK takes back every id it has handed out, so a program that has    *)
(* begun to be billed fails locally for a stated reason only: a run id of  *)
(* more than 100 characters, a text out of the routes' bounds, or an empty *)
(* turn or response id.                                                    *)
LocalErrorsHaveCause ==
    \A r \in Runners :
        LET p == runner[r] IN
        /\ p.outcome = "IdempotencyKeyError" => Length(p.run) > 100
        /\ p.outcome = "ValidationError" =>
              \/ p.prompt # None /\ ~Between(p.prompt, 1, 20000)
              \/ p.message # None /\ ~Between(p.message, 1, 20000)
              \/ p.turn # None /\ ~Between(p.turn.model_answer, 1, 40000)
              \/ p.turn # None /\ p.turn.turn_id = <<>>
              \/ p.response # None /\ RawOptionalId(p.response, "response_") = <<>>
===============================================================================
