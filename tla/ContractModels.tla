---------------------------- MODULE ContractModels ----------------------------
(***************************************************************************)
(* The rules of _contract/models.py that requests are held to before they  *)
(* are sent and answers when they are read: the bounds of single fields,   *)
(* the rules between fields, and the projection of an operation's nested   *)
(* result.  A request has every field, an absent one is None.  An answer   *)
(* has the fields the server sent.  Dates, amounts and display texts have  *)
(* rules of their own that nothing else depends on; they are left out.     *)
(***************************************************************************)
EXTENDS Text

CONSTANT None

Between(s, low, high) == Length(s) \in low .. high

Optional(value, low, high) == value # None => Between(value, low, high)

(* ^prefix[A-Za-z0-9_-]{3,128}$ *)
PublicId(s, prefix) ==
    /\ s # <<>> /\ Head(s) = prefix
    /\ Range(Tail(s)) \subseteq Plain
    /\ Between(Tail(s), 3, 128)

-----------------------------------------------------------------------------
(* Requests. *)

InputWizardRequestOK(request) == Between(request.prompt, 1, 20000)

(* Mutated form: the bounds of the id's tail are added to those of the id. *)
OptionalChatIdTail(value) == Optional(value, 13, 133)

OptionalChatId(value) == Optional(value, 8, 140)

(* _validate_model_mode *)
ModelModeOK(request) ==
    /\ request.models # None => IsInjective(request.models)
    /\ request.mode = "single" => request.models = None
    /\ request.mode = "multi"  => request.model = None /\ request.models # None

ChatRequestOK(request) ==
    /\ Between(request.message, 1, 20000)
    /\ OptionalChatId(request.chat_id)
    /\ Optional(request.model, 1, 140)
    /\ request.models # None =>
          /\ Len(request.models) \in 1 .. 3
          /\ \A i \in DOMAIN request.models : Between(request.models[i], 1, 140)
    /\ ModelModeOK(request)

(* _raw_optional_id: what the id names, or nothing at all *)
RawOptionalId(value, prefix) ==
    LET raw == Strip(value, Spaces)
    IN  IF raw # <<>> /\ Head(raw) = prefix THEN Tail(raw) ELSE raw

(* _validate_evaluation_target *)
EvaluationTargetOK(request) ==
    /\ request.model_response_id # None =>
          RawOptionalId(request.model_response_id, "response_") # <<>>
    /\ request.chat_id # None \/ request.turn_id # None => request.model_response_id # None

EvaluateRequestOK(request) ==
    /\ Between(request.user_message, 1, 40000)
    /\ Between(request.ai_answer, 1, 40000)
    /\ Optional(request.external_id, 1, 255)
    /\ OptionalChatId(request.chat_id)
    /\ Optional(request.model_response_id, 1, 140)
    /\ Optional(request.turn_id, 1, 140)
    /\ EvaluationTargetOK(request)

-----------------------------------------------------------------------------
(* Answers. *)

(* PublicOperationResult: the fields a result may have.                    *)
ResultFields ==
    {"result_type", "amount_billed", "chat_id", "completed_at", "evaluation_id",
     "input_wizard_id", "model_response_id", "model_response_ids", "optimized_prompt",
     "resource_id", "score", "status", "target_kind", "turn_id", "wizard_session_id"}

ResultTypes == {"input_wizard", "chat", "evaluation", "unknown"}

(* What result.get(name), or a field of the parsed result, is.             *)
Get(fields, name) == IF name \in DOMAIN fields THEN fields[name] ELSE None

(* A result names its type, one laid out under a key does so by the key.   *)
Typed(fields, type) ==
    [name \in DOMAIN fields \cup {"result_type"} |->
        IF name \in DOMAIN fields THEN fields[name] ELSE type]

(* _coerce_nested_result_projection: the first of the three keys that      *)
(* holds an object stands for the whole result.                            *)
Nested(payload, key) == Typed(payload[key], key)

Projection(payload) ==
    IF Get(payload, "chat") # None THEN Nested(payload, "chat")
    ELSE IF Get(payload, "evaluation") # None THEN Nested(payload, "evaluation")
    ELSE IF Get(payload, "input_wizard") # None THEN Nested(payload, "input_wizard")
    ELSE payload

ResponseIds(fields) ==
    IF "model_response_ids" \in DOMAIN fields THEN fields.model_response_ids ELSE <<>>

(* PublicOperationResult, SDKBaseModel's extra="forbid" included           *)
ResultOK(fields) ==
    /\ DOMAIN fields \subseteq ResultFields
    /\ Get(fields, "result_type") \in ResultTypes
    /\ Get(fields, "chat_id") # None => PublicId(fields.chat_id, "chat_")
    /\ Get(fields, "evaluation_id") # None => PublicId(fields.evaluation_id, "eval_")
    /\ Optional(Get(fields, "model_response_id"), 0, 140)
    /\ Len(ResponseIds(fields)) <= 3
    /\ Optional(Get(fields, "turn_id"), 0, 140)

(* PublicChatTurn *)
ChatTurnOK(turn) ==
    /\ Optional(turn.model_response_id, 0, 140)
    /\ Len(turn.model_response_ids) <= 3

(* PublicChatMessagesResponse *)
MessagesOK(chatId, turns) ==
    /\ PublicId(chatId, "chat_")
    /\ \A i \in DOMAIN turns : ChatTurnOK(turns[i])

(* PublicModel *)
ModelOK(model) == Between(model.id, 1, 140)
===============================================================================
