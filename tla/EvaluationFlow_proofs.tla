------------------------ MODULE EvaluationFlow_proofs ------------------------
(***************************************************************************)
(* What EvaluationFlow promises, for every number of programs, every run   *)
(* id, prompt, list of models and server: the inductive invariant says     *)
(* which operation every local of a program came from, and what every      *)
(* operation was made of.                                                  *)
(***************************************************************************)
EXTENDS EvaluationFlow, IdempotencyKey_proofs, FiniteSetTheorems

(* The optimized prompt of a result, or the prompt the wizard was given.   *)
MessageOf(payload, prompt) ==
    LET optimized == IF payload = None THEN None ELSE Get(Projection(payload), "optimized_prompt")
    IN  IF optimized \in Falsy THEN prompt ELSE optimized

(* The request to have the turn of an operation evaluated.                 *)
RequestAbout(c) ==
    [route |-> "evaluate", user_message |-> ops[c].turn.content.user_message,
     ai_answer |-> ops[c].turn.content.model_answer, external_id |-> None,
     chat_id |-> ops[c].turn.chat_id,
     model_response_id |-> ops[c].turn.content.model_response_id,
     turn_id |-> ops[c].turn.content.turn_id]

OpeningKey        == ExampleKey(Example, "chat-eval-first-turn")
FollowUpKey       == ExampleKey(Example, "chat-eval-follow-up")
TurnEvaluationKey == ExampleKey(Example, "evaluation-chat-turn")
ExternalKey       == ExampleKey(Example, "evaluation-external")

-----------------------------------------------------------------------------
(* What operations are made of. *)

(* A wizard of the run has come to its end, and the message is what it     *)
(* says, as long as its result is kept.                                    *)
WizardDone(run, prompt, message) ==
    \E w \in DOMAIN ops :
        /\ ops[w].key = WizardKey(run)
        /\ ops[w].request = [route |-> "input_wizard", prompt |-> prompt]
        /\ ops[w].status \in Terminal
        /\ ops[w].status # "expired" => message = MessageOf(ops[w].payload, prompt)

(* The opening turn of the example has come to its end in this chat.       *)
OpeningDone(chatId) ==
    \E o \in DOMAIN ops :
        /\ ops[o].key = OpeningKey
        /\ ops[o].request = OpeningRequest
        /\ ops[o].status \in Terminal
        /\ ops[o].turn # None
        /\ ops[o].turn.chat_id = chatId

(* A turn with this key has been answered, and the request is about it.    *)
Answered(key, request) ==
    \E c \in DOMAIN ops :
        /\ ops[c].key = key
        /\ ops[c].turn # None
        /\ request = RequestAbout(c)

(* What an operation o was filed as. *)
FiledAsWizard(o) ==
    /\ o.step = "wizard"
    /\ o.key = WizardKey(o.run)
    /\ \E u \in used : /\ u.run = o.run
                       /\ o.request = [route |-> "input_wizard", prompt |-> u.prompt]

FiledAsOpening(o) ==
    /\ o.step = "opening"
    /\ o.run = Example /\ o.key = OpeningKey
    /\ o.request = OpeningRequest

FiledAsChat(o) ==
    /\ o.step = "chat"
    /\ o.request.message \in Text
    /\ Between(o.request.message, 1, 20000)
    /\ \E u \in used :
          /\ u.run = o.run
          /\ o.key = ChatKey(u.run, u.model)
          /\ o.request = ChatRequest(o.request.message, None, u.model)
          /\ WizardDone(u.run, u.prompt, o.request.message)

FiledAsFollowUp(o) ==
    /\ o.step = "chat"
    /\ o.run = Example /\ o.key = FollowUpKey
    /\ o.request.chat_id \in Text
    /\ o.request = ChatRequest(<<"follow_up_message">>, o.request.chat_id, None)
    /\ OpeningDone(o.request.chat_id)

FiledAsEvaluation(o) ==
    /\ o.step = "evaluation"
    /\ o.key = EvaluationKey(o.run, o.request.model_response_id)
    /\ \E u \in used : /\ u.run = o.run
                       /\ Answered(ChatKey(u.run, u.model), o.request)

FiledAsTurnEvaluation(o) ==
    /\ o.step = "evaluation"
    /\ o.run = Example /\ o.key = TurnEvaluationKey
    /\ Answered(FollowUpKey, o.request)

FiledAsExternal(o) ==
    /\ o.step = "external"
    /\ o.run = Example /\ o.key = ExternalKey
    /\ o.request = ExternalRequest

Filing(o) ==
    \/ FiledAsWizard(o) \/ FiledAsOpening(o) \/ FiledAsChat(o) \/ FiledAsFollowUp(o)
    \/ FiledAsEvaluation(o) \/ FiledAsTurnEvaluation(o) \/ FiledAsExternal(o)

(* What the server makes of an operation. *)
TurnOf(i) ==
    ops[i].turn # None =>
        /\ ops[i].request.route = "chat"
        /\ ops[i].status \in Terminal
        /\ \E outcome \in ChatOutcomes[i] :
              ops[i].turn =
                 [chat_id |-> ChatIdOf(i),
                  content |-> [turn_id |-> outcome.turnId, user_message |-> ops[i].request.message,
                               model_answer |-> outcome.answer,
                               model_response_id |-> outcome.responseId,
                               model_response_ids |-> <<outcome.responseId>>]]

PayloadOf(i) ==
    /\ ops[i].payload # None => ops[i].status = "succeeded"
    /\ ops[i].payload # None /\ ops[i].request.route = "input_wizard" =>
          \E shape \in Shapes["input_wizard"], prompt \in Optimized :
              ops[i].payload = LaidOut(shape, "input_wizard", [optimized_prompt |-> prompt])
    /\ ops[i].payload # None /\ ops[i].request.route = "chat" =>
          /\ ops[i].turn # None
          /\ \E shape \in Shapes["chat"], named \in {"id", "ids", "none"} :
                ops[i].payload = LaidOut(shape, "chat",
                    ChatFields(named, ops[i].turn.chat_id, ops[i].turn.content))
    /\ ops[i].payload # None /\ ops[i].request.route = "evaluate" =>
          \E shape \in Shapes["evaluate"] :
              ops[i].payload = LaidOut(shape, "evaluation", [evaluation_id |-> EvaluationIds[i]])

(* An operation has these fields and no other. *)
Fields(i) ==
    /\ DOMAIN ops[i] = {"run", "step", "key", "request", "status", "payload", "turn"}
    /\ ops[i].status \in Statuses

OpsInv ==
    /\ ops \in Seq(Range(ops))
    /\ Len(ops) <= MaxOperations
    /\ \A i \in DOMAIN ops : Fields(i) /\ Filing(ops[i]) /\ TurnOf(i) /\ PayloadOf(i)
    /\ \A i, j \in DOMAIN ops : ops[i].key = ops[j].key => i = j

UsedInv ==
    \A u \in used : /\ u = [run |-> u.run, prompt |-> u.prompt, model |-> u.model]
                    /\ u.run \in Runs /\ u.prompt \in Prompts /\ u.model \in Models
                    /\ Between(u.model, 1, 140)

-----------------------------------------------------------------------------
(* What programs know. *)

ChatKeyOf(p) ==
    IF p.script = "chat_turn" THEN ExampleKey(p.run, "chat-eval-follow-up")
                              ELSE ChatKey(p.run, p.model)

(* The key and the request of the step a program is at.                    *)
KeyOf(p) ==
    CASE p.step = "wizard"     -> WizardKey(p.run)
      [] p.step = "opening"    -> ExampleKey(p.run, "chat-eval-first-turn")
      [] p.step = "chat"       -> ChatKeyOf(p)
      [] p.step = "evaluation" -> IF p.script = "chat_turn"
                                  THEN ExampleKey(p.run, "evaluation-chat-turn")
                                  ELSE EvaluationKey(p.run, p.response)
      [] p.step = "external"   -> ExampleKey(p.run, "evaluation-external")

RequestOf(p) ==
    CASE p.step = "wizard"     -> [route |-> "input_wizard", prompt |-> p.prompt]
      [] p.step = "opening"    -> OpeningRequest
      [] p.step = "chat"       ->
            IF p.script = "chat_turn"
            THEN ChatRequest(<<"follow_up_message">>, p.chatId, None)
            ELSE ChatRequest(p.message, None, p.model)
      [] p.step = "evaluation" ->
            [route |-> "evaluate", user_message |-> p.turn.user_message,
             ai_answer |-> p.turn.model_answer, external_id |-> None,
             chat_id |-> p.chatId, model_response_id |-> p.response, turn_id |-> p.turn.turn_id]
      [] p.step = "external"   -> ExternalRequest

(* Which steps a program takes, and what it starts with. *)
Course(p) ==
    /\ p.pc = "idle" => p = Absent
    /\ p.pc # "done" => p.outcome = "pending"
    /\ p.script = None => p.pc = "idle"
    /\ p.script = "end_to_end" =>
          /\ p.run \in Runs /\ p.prompt \in Prompts
          /\ p.step \in {None, "wizard", "chat", "evaluation"}
          /\ p.step = None => p.pc \in {"start", "done"}
    /\ p.script = "chat_turn" =>
          /\ p.run = Example /\ p.prompt = None /\ p.model = None /\ p.message = None
          /\ p.step \in {"opening", "chat", "evaluation"}
    /\ p.script = "external" =>
          /\ p.run = Example /\ p.prompt = None /\ p.message = None
          /\ p.step = "external" /\ p.turn = None /\ p.response = None
    /\ p.pc = "start" => p.script = "end_to_end" /\ p.step = None /\ p.chatOp = 0
    /\ p.pc = "messages" => p.step = "chat" /\ p.chatOp # 0
    /\ p.pc = "detail" => p.step = "evaluation" /\ p.script = "end_to_end"
    /\ p.step = "evaluation" => p.chatOp # 0
    /\ p.step = "opening" => p.chatOp = 0
    /\ p.outcome = "reported" => p.step \in {"evaluation", "external"}

(* A program works with what is on record for it. *)
OnRecord(p) ==
    p.script = "end_to_end" /\ p.step # None =>
        [run |-> p.run, prompt |-> p.prompt, model |-> p.model] \in used

(* What the chat is made of. *)
Source(p) ==
    p.step \in {"chat", "evaluation"} =>
        /\ p.script = "end_to_end" => p.message \in Text /\ WizardDone(p.run, p.prompt, p.message)
        /\ p.script = "chat_turn"  => /\ p.chatId \in Text /\ PublicId(p.chatId, "chat_")
                                      /\ OpeningDone(p.chatId)

(* The turn a program has in hand is the one its chat operation made.      *)
ChatKnown(p) ==
    p.chatOp # 0 =>
        /\ p.chatOp \in DOMAIN ops
        /\ ops[p.chatOp].key = ChatKeyOf(p)
        /\ ops[p.chatOp].request.model = p.model
        /\ ops[p.chatOp].turn # None
        /\ p.chatId = ops[p.chatOp].turn.chat_id
        /\ p.turnId = ops[p.chatOp].turn.content.turn_id
        /\ p.response \in {None, <<>>, ops[p.chatOp].turn.content.model_response_id}
        /\ Length(p.turnId) <= 140

TurnKnown(p) ==
    p.step = "evaluation" =>
        /\ p.turn = ops[p.chatOp].turn.content /\ p.turn # None
        /\ p.response = ops[p.chatOp].turn.content.model_response_id
        /\ Between(p.response, 1, 140)
        /\ PublicId(p.chatId, "chat_")

(* A program waits for, or reports, the operation of its step.             *)
Waiting(p) ==
    p.pc \in {"wait", "detail"} \/ p.outcome = "reported" =>
        /\ p.op \in DOMAIN ops
        /\ ops[p.op].key = KeyOf(p)
        /\ ops[p.op].request = RequestOf(p)

Evaluated(p) ==
    p.script = "end_to_end" /\ (p.pc = "detail" \/ p.outcome = "reported") =>
        p.evaluationId = EvaluationIds[p.op]

(* LocalErrorsHaveCause, of one program *)
ErrorHasCause(p) ==
    /\ p.outcome = "IdempotencyKeyError" => Length(p.run) > 100
    /\ p.outcome = "ValidationError" =>
          \/ p.prompt # None /\ ~Between(p.prompt, 1, 20000)
          \/ p.message # None /\ ~Between(p.message, 1, 20000)
          \/ p.turn # None /\ ~Between(p.turn.model_answer, 1, 40000)
          \/ p.turn # None /\ p.turn.turn_id = <<>>
          \/ p.response # None /\ RawOptionalId(p.response, "response_") = <<>>

ConflictHasCause(p) == KeysApart /\ p.outcome = "Conflict" => ~Undisturbed(p.run)

Known(p) ==
    /\ p \in Locals
    /\ Course(p)
    /\ OnRecord(p)
    /\ Source(p)
    /\ ChatKnown(p)
    /\ TurnKnown(p)
    /\ Evaluated(p)
    /\ ErrorHasCause(p)
    /\ ConflictHasCause(p)

ProgramInv(p) == Known(p) /\ Waiting(p)

(* The inductive invariant *)
Inv ==
    /\ runner \in [Runners -> Locals]
    /\ starts \in 0 .. MaxStarts
    /\ OpsInv
    /\ UsedInv
    /\ \A r \in Runners : ProgramInv(runner[r])

-----------------------------------------------------------------------------
(* Keys *)

(* The words of the examples are normalised to themselves.                 *)
LEMMA WordsOfKeys ==
    ASSUME NEW word \in KeyWords
    PROVE  /\ <<word>> \in Text /\ Length(<<word>>) <= 20 /\ Length(<<word>>) \in Nat
           /\ Normalized(<<word>>) = <<word>> /\ Normalized(<<word>>) # <<>>
<1>1. word \in Safe /\ word \in Symbols /\ LowerCase[word] = word /\ Width[word] <= 20
      /\ Width[word] \in Nat
  BY WordsAssumption, SymbolsAssumption
<1>2. word # "-"
  BY DEF KeyWords
<1>3. Normalized(<<word>>) = <<word>>
  BY <1>1, <1>2, NormalizedWord
<1>4. <<word>> # <<>>
  OBVIOUS
<1>5. <<word>> \in Text /\ Length(<<word>>) = Width[word]
  BY <1>1, LengthOfSymbol
<1> QED
  BY <1>1, <1>3, <1>4, <1>5

LEMMA LengthsOfWords ==
    /\ V1 \in Text /\ Length(V1) = 2
    /\ Length(<<"chat">>) = 4 /\ Length(<<"evaluation">>) = 10
<1>1. "v1" \in KeyWords /\ "chat" \in KeyWords /\ "evaluation" \in KeyWords
  BY DEF KeyWords
<1>2. "v1" \in Symbols /\ "chat" \in Symbols /\ "evaluation" \in Symbols
  BY <1>1, WordsAssumption, SymbolsAssumption
<1> QED
  BY <1>2, WordsAssumption, LengthOfSymbol DEF V1

(* Whose wizard's key it is shows in the key.                              *)
LEMMA WizardKeyNamesRun ==
    ASSUME NEW a \in Text, NEW b \in Text, WizardKey(a) = WizardKey(b)
    PROVE  Normalized(a) = Normalized(b)
<1>1. "v1" \in KeyWords /\ "input-wizard" \in KeyWords
  BY DEF KeyWords
<1>2. /\ V1 \in Text /\ Normalized(V1) # <<>>
      /\ <<"input-wizard">> \in Text /\ Normalized(<<"input-wizard">>) # <<>>
  BY <1>1, WordsOfKeys DEF V1
<1> QED
  BY <1>2, SameKeySamePart DEF WizardKey

(* A run id of at most 100 characters makes valid keys with any model or   *)
(* response id the SDK takes: 100 + 1 + 10 + 1 + 140 + 1 + 2 = 255.        *)
LEMMA KeysFit ==
    ASSUME NEW run \in Text, Length(run) <= 100
    PROVE  /\ ValidKey(WizardKey(run))
           /\ \A id \in Text : Length(id) <= 140 =>
                 ValidKey(ChatKey(run, id)) /\ ValidKey(EvaluationKey(run, id))
           /\ \A name \in KeyWords : ValidKey(ExampleKey(run, name))
<1>1. /\ V1 \in Text /\ Length(V1) = 2
      /\ Length(<<"chat">>) = 4 /\ Length(<<"evaluation">>) = 10
  BY LengthsOfWords
<1>2. "v1" \in KeyWords /\ "input-wizard" \in KeyWords /\ "chat" \in KeyWords
      /\ "evaluation" \in KeyWords
  BY DEF KeyWords
<1>3. Normalized(V1) # <<>>
  BY <1>2, WordsOfKeys DEF V1
<1>4. Length(run) \in Nat
  BY LengthOfText
<1>5. ASSUME NEW name \in KeyWords PROVE ValidKey(Joined(<<run, <<name>>, V1>>))
  <2>1. <<name>> \in Text /\ Length(<<name>>) <= 20 /\ Length(<<name>>) \in Nat
    BY WordsOfKeys
  <2>2. Length(run) + Length(<<name>>) + Length(V1) + 2 <= 255
    BY <1>1, <1>4, <2>1
  <2> QED
    BY <1>1, <1>3, <2>1, <2>2, ShortKeysAreValid
<1>6. ASSUME NEW id \in Text, Length(id) <= 140
      PROVE  ValidKey(ChatKey(run, id)) /\ ValidKey(EvaluationKey(run, id))
  <2>1. Length(id) \in Nat
    BY LengthOfText
  <2>2. <<"chat">> \in Text /\ <<"evaluation">> \in Text
    BY <1>2, WordsOfKeys
  <2>3. /\ Length(run) + Length(<<"chat">>) + Length(id) + Length(V1) + 3 <= 255
        /\ Length(run) + Length(<<"evaluation">>) + Length(id) + Length(V1) + 3 <= 255
    BY <1>1, <1>4, <1>6, <2>1
  <2> QED
    BY <1>1, <1>3, <2>2, <2>3, ShortFourPartKeys DEF ChatKey, EvaluationKey
<1> QED
  BY <1>2, <1>5, <1>6 DEF WizardKey, ExampleKey

-----------------------------------------------------------------------------
(* Results *)

(* A result that the SDK accepts has what the server put into it, however  *)
(* it is laid out (_contract/models.py:124-136).                           *)
LEMMA ResultRead ==
    ASSUME NEW shape \in {"nested", "flat", "untyped"},
           NEW type \in {"input_wizard", "chat", "evaluation"},
           NEW fields, fields = [x \in DOMAIN fields |-> fields[x]],
           \A name \in {"chat", "evaluation", "input_wizard", "result_type"} :
               name \notin DOMAIN fields,
           ResultOK(Projection(LaidOut(shape, type, fields)))
    PROVE  /\ \A name : name # "result_type" =>
                 Get(Projection(LaidOut(shape, type, fields)), name) = Get(fields, name)
           /\ ResponseIds(Projection(LaidOut(shape, type, fields))) = ResponseIds(fields)
<1> DEFINE payload == LaidOut(shape, type, fields)
           typed   == Typed(fields, type)
<1>1. None \notin ResultTypes
  BY FlowAssumption
<1>2. Get(Projection(payload), "result_type") # None
  BY <1>1 DEF ResultOK
<1>3. Get(fields, "result_type") = None
  BY DEF Get
<1>4. /\ DOMAIN typed = DOMAIN fields \cup {"result_type"}
      /\ \A x \in DOMAIN fields : typed[x] = fields[x]
  BY DEF Typed
<1>5. Projection(payload) = typed
  <2>1. CASE shape = "nested"
    <3>1. payload = [x \in {type} |-> fields]
      BY <2>1 DEF LaidOut
    <3>2. DOMAIN payload = {type} /\ payload[type] = fields
      BY <3>1
    <3> HIDE DEF payload
    <3>3. Projection(payload) = payload \/ Projection(payload) = Nested(payload, type)
      BY <3>2 DEF Projection, Get
    <3>4. Projection(payload) # payload
      BY <1>2, <3>2 DEF Get
    <3> QED
      BY <3>2, <3>3, <3>4 DEF Nested
  <2>2. CASE shape = "flat"
    <3>1. payload = typed
      BY <2>2 DEF LaidOut
    <3> HIDE DEF payload, typed
    <3>2. \A name \in {"chat", "evaluation", "input_wizard"} : name \notin DOMAIN payload
      BY <1>4, <3>1
    <3> QED
      BY <3>1, <3>2 DEF Projection, Get
  <2>3. CASE shape = "untyped"
    <3>1. payload = fields
      BY <2>3 DEF LaidOut
    <3> HIDE DEF payload
    <3>2. Projection(payload) = fields
      BY <3>1 DEF Projection, Get
    <3> QED
      BY <1>2, <1>3, <3>2
  <2> QED
    BY <2>1, <2>2, <2>3
<1> HIDE DEF typed, payload
<1>6. \A name : name # "result_type" => Get(typed, name) = Get(fields, name)
  BY <1>4 DEF Get
<1>7. ResponseIds(typed) = ResponseIds(fields)
  BY <1>4 DEF ResponseIds
<1> QED
  BY <1>5, <1>6, <1>7 DEF payload

-----------------------------------------------------------------------------
(* How the server's operations change *)

LEMMA Appending ==
    ASSUME NEW s, s \in Seq(Range(s)), NEW e
    PROVE  LET t == Append(s, e)
           IN  /\ t \in Seq(Range(t)) /\ Len(s) \in Nat /\ Len(t) = Len(s) + 1
               /\ DOMAIN s = 1 .. Len(s) /\ DOMAIN t = 1 .. Len(s) + 1
               /\ t[Len(s) + 1] = e
               /\ \A i \in DOMAIN s : t[i] = s[i]
<1> DEFINE t == Append(s, e)
           S == Range(s) \cup {e}
<1>1. s \in Seq(S)
  BY SeqDef
<1>2. /\ Len(t) = Len(s) + 1 /\ Len(s) \in Nat
      /\ DOMAIN s = 1 .. Len(s) /\ DOMAIN t = 1 .. Len(s) + 1
      /\ t[Len(s) + 1] = e
      /\ \A i \in DOMAIN s : t[i] = s[i]
      /\ t \in Seq(S)
  BY <1>1
<1> HIDE DEF t
<1>3. \A i \in 1 .. Len(t) : t[i] \in Range(t)
  BY <1>2 DEF Range
<1>4. t \in Seq(Range(t))
  BY <1>2, <1>3
<1> QED
  BY <1>2, <1>4 DEF t

LEMMA Replacing ==
    ASSUME NEW s, s \in Seq(Range(s)), NEW i \in DOMAIN s, NEW e
    PROVE  LET t == [s EXCEPT ![i] = e]
           IN  /\ t \in Seq(Range(t)) /\ Len(t) = Len(s) /\ DOMAIN t = DOMAIN s
               /\ t[i] = e
               /\ \A j \in DOMAIN s \ {i} : t[j] = s[j]
<1> DEFINE t == [s EXCEPT ![i] = e]
           S == Range(s) \cup {e}
<1>1. s \in Seq(S)
  BY SeqDef
<1>2. /\ Len(t) = Len(s) /\ Len(s) \in Nat
      /\ DOMAIN t = 1 .. Len(s) /\ DOMAIN s = 1 .. Len(s)
      /\ t[i] = e /\ \A j \in DOMAIN s \ {i} : t[j] = s[j]
  BY <1>1
<1>3. t \in Seq(S)
  BY <1>1
<1> HIDE DEF t
<1>4. \A j \in 1 .. Len(t) : t[j] \in Range(t)
  BY <1>2 DEF Range
<1>5. t \in Seq(Range(t))
  BY <1>2, <1>3, <1>4
<1> QED
  BY <1>2, <1>5 DEF t

(* What an operation keeps in a step, whatever the step is. *)
Kept(i) ==
    /\ ops'[i].run = ops[i].run /\ ops'[i].step = ops[i].step
    /\ ops'[i].key = ops[i].key /\ ops'[i].request = ops[i].request
    /\ ops[i].turn # None => ops'[i].turn = ops[i].turn
    /\ ops[i].status \in Terminal => ops'[i].status \in Terminal
    /\ ops[i].status = "expired" => ops'[i].status = "expired"
    /\ ops[i].status \in Terminal /\ ops'[i].status # "expired" =>
          ops'[i].payload = ops[i].payload

Grows ==
    /\ DOMAIN ops \subseteq DOMAIN ops'
    /\ \A i \in DOMAIN ops : Kept(i)
    /\ used \subseteq used'

LEMMA NothingMoves ==
    ASSUME UNCHANGED ops, used \subseteq used'
    PROVE  Grows
BY DEF Grows, Kept

LEMMA WizardStaysDone ==
    ASSUME Grows, NEW run, NEW prompt, NEW message, WizardDone(run, prompt, message)
    PROVE  WizardDone(run, prompt, message)'
<1>1. PICK w \in DOMAIN ops :
        /\ ops[w].key = WizardKey(run)
        /\ ops[w].request = [route |-> "input_wizard", prompt |-> prompt]
        /\ ops[w].status \in Terminal
        /\ ops[w].status # "expired" => message = MessageOf(ops[w].payload, prompt)
  BY DEF WizardDone
<1>2. Kept(w) /\ w \in DOMAIN ops'
  BY DEF Grows
<1>3. ops'[w].status # "expired" => message = MessageOf(ops'[w].payload, prompt)
  BY <1>1, <1>2 DEF Kept
<1>4. /\ ops'[w].key = WizardKey(run)
      /\ ops'[w].request = [route |-> "input_wizard", prompt |-> prompt]
      /\ ops'[w].status \in Terminal
  BY <1>1, <1>2 DEF Kept
<1> QED
  BY <1>2, <1>3, <1>4 DEF WizardDone

LEMMA OpeningStaysDone ==
    ASSUME Grows, NEW chatId, OpeningDone(chatId)
    PROVE  OpeningDone(chatId)'
BY DEF Grows, Kept, OpeningDone

LEMMA StaysAnswered ==
    ASSUME Grows, NEW key, NEW request, Answered(key, request)
    PROVE  Answered(key, request)'
BY DEF Grows, Kept, Answered, RequestAbout

(* Whoever files an operation does so once and for all. *)
LEMMA FilingStays ==
    ASSUME Grows, NEW o, NEW n,
           n.run = o.run, n.step = o.step, n.key = o.key, n.request = o.request,
           Filing(o)
    PROVE  Filing(n)'
<1>1. CASE FiledAsWizard(o)
  BY <1>1 DEF Filing, FiledAsWizard, Grows
<1>2. CASE FiledAsOpening(o)
  BY <1>2 DEF Filing, FiledAsOpening
<1>3. CASE FiledAsChat(o)
  <2>1. PICK u \in used : /\ u.run = o.run
                          /\ o.key = ChatKey(u.run, u.model)
                          /\ o.request = ChatRequest(o.request.message, None, u.model)
                          /\ WizardDone(u.run, u.prompt, o.request.message)
    BY <1>3 DEF FiledAsChat
  <2>2. WizardDone(u.run, u.prompt, o.request.message)' /\ u \in used'
    BY <2>1, WizardStaysDone DEF Grows
  <2> QED
    BY <1>3, <2>1, <2>2 DEF Filing, FiledAsChat
<1>4. CASE FiledAsFollowUp(o)
  BY <1>4, OpeningStaysDone DEF Filing, FiledAsFollowUp
<1>5. CASE FiledAsEvaluation(o)
  <2>1. PICK u \in used : u.run = o.run /\ Answered(ChatKey(u.run, u.model), o.request)
    BY <1>5 DEF FiledAsEvaluation
  <2>2. Answered(ChatKey(u.run, u.model), o.request)' /\ u \in used'
    BY <2>1, StaysAnswered DEF Grows
  <2> QED
    BY <1>5, <2>1, <2>2 DEF Filing, FiledAsEvaluation
<1>6. CASE FiledAsTurnEvaluation(o)
  BY <1>6, StaysAnswered DEF Filing, FiledAsTurnEvaluation
<1>7. CASE FiledAsExternal(o)
  BY <1>7 DEF Filing, FiledAsExternal
<1> QED
  BY <1>1, <1>2, <1>3, <1>4, <1>5, <1>6, <1>7 DEF Filing

(* What has been disturbed stays so. *)
LEMMA StaysDisturbed ==
    ASSUME Grows, NEW run, ~Undisturbed(run)
    PROVE  ~Undisturbed(run)'
BY DEF Grows, Kept, Undisturbed, SameRun

-----------------------------------------------------------------------------
(* What keys say *)

LEMMA ConstantsApart ==
    /\ None \notin Text
    /\ Example \in Text
    /\ \A p \in Prompts \cup Runs \cup Models \cup Responses : p \in Text /\ p # None
<1>1. None \notin Text
  BY FlowAssumption
<1>2. Example \in Text
  BY WordsOfKeys DEF Example, KeyWords
<1>3. Prompts \subseteq Text
  BY FlowAssumption
<1>4. Runs \subseteq Text
  BY FlowAssumption DEF Runs, Range
<1>5. Models \subseteq Text
  <2> SUFFICES ASSUME NEW models \in ModelLists, NEW i \in DOMAIN models
               PROVE  models[i].id \in Text
    BY DEF Models
  <2> DEFINE Entries == [id: Text, is_available: BOOLEAN]
  <2>1. models \in Seq(Entries)
    BY FlowAssumption
  <2>2. \A m \in Entries : m.id \in Text
    OBVIOUS
  <2> HIDE DEF Entries
  <2> QED
    BY <2>1, <2>2
<1>6. Responses \subseteq Text
  <2> SUFFICES ASSUME NEW i \in 1 .. MaxOperations, NEW outcome \in ChatOutcomes[i]
               PROVE  outcome.responseId \in Text
    BY DEF Responses
  <2>1. outcome \in [answer: Text, turnId: Text, responseId: Text, named: {"id", "ids", "none"}]
    BY FlowAssumption
  <2> QED
    BY <2>1
<1> QED
  BY <1>1, <1>2, <1>3, <1>4, <1>5, <1>6

LEMMA TurnsMade ==
    ASSUME OpsInv, NEW i \in DOMAIN ops, ops[i].turn # None
    PROVE  /\ i \in 1 .. MaxOperations
           /\ ops[i].request.route = "chat"
           /\ ops[i].turn.chat_id = ChatIdOf(i)
           /\ ops[i].turn.content.user_message = ops[i].request.message
           /\ \E outcome \in ChatOutcomes[i] :
                 /\ outcome.turnId = ops[i].turn.content.turn_id
                 /\ outcome.responseId = ops[i].turn.content.model_response_id
           /\ ops[i].turn.content.turn_id \in Text
           /\ ops[i].turn.content.model_answer \in Text
           /\ ops[i].turn.content.model_response_id \in Responses
           /\ ops[i].turn.content.model_response_ids = <<ops[i].turn.content.model_response_id>>
           /\ ops[i].turn.content =
                 [turn_id |-> ops[i].turn.content.turn_id,
                  user_message |-> ops[i].request.message,
                  model_answer |-> ops[i].turn.content.model_answer,
                  model_response_id |-> ops[i].turn.content.model_response_id,
                  model_response_ids |-> <<ops[i].turn.content.model_response_id>>]
<1>1. i \in 1 .. MaxOperations
  BY FlowAssumption DEF OpsInv
<1>2. TurnOf(i)
  BY DEF OpsInv
<1>3. PICK outcome \in ChatOutcomes[i] :
        ops[i].turn =
           [chat_id |-> ChatIdOf(i),
            content |-> [turn_id |-> outcome.turnId, user_message |-> ops[i].request.message,
                         model_answer |-> outcome.answer,
                         model_response_id |-> outcome.responseId,
                         model_response_ids |-> <<outcome.responseId>>]]
  BY <1>2 DEF TurnOf
<1>4. outcome \in [answer: Text, turnId: Text, responseId: Text, named: {"id", "ids", "none"}]
  BY <1>1, FlowAssumption
<1>5. outcome.responseId \in Responses
  BY <1>1 DEF Responses
<1> QED
  BY <1>1, <1>2, <1>3, <1>4, <1>5 DEF TurnOf

(* Everything that is filed has a key of the space, and is filed for the   *)
(* examples or for a run that has been worked with.                        *)
LEMMA FiledInKeySpace ==
    ASSUME OpsInv, UsedInv, NEW o, Filing(o)
    PROVE  /\ Entry(o.step, o.run, o.key) \in KeySpace
           /\ \/ o.run = Example
              \/ o.run \in Runs /\ \E u \in used : u.run = o.run
<1> DEFINE Goal == /\ Entry(o.step, o.run, o.key) \in KeySpace
                   /\ \/ o.run = Example
                      \/ o.run \in Runs /\ \E u \in used : u.run = o.run
<1>1. CASE FiledAsWizard(o)
  BY <1>1 DEF FiledAsWizard, UsedInv, KeySpace
<1>2. CASE FiledAsOpening(o)
  BY <1>2 DEF FiledAsOpening, KeySpace, ExampleKeys, OpeningKey
<1>3. CASE FiledAsChat(o)
  BY <1>3 DEF FiledAsChat, UsedInv, KeySpace
<1>4. CASE FiledAsFollowUp(o)
  BY <1>4 DEF FiledAsFollowUp, KeySpace, ExampleKeys, FollowUpKey
<1>5. CASE FiledAsEvaluation(o)
  <2>1. PICK u \in used : u.run = o.run /\ Answered(ChatKey(u.run, u.model), o.request)
    BY <1>5 DEF FiledAsEvaluation
  <2>2. PICK c \in DOMAIN ops : ops[c].turn # None /\ o.request = RequestAbout(c)
    BY <2>1 DEF Answered
  <2>3. o.request.model_response_id \in Responses
    <3>1. ops[c].turn.content.model_response_id \in Responses
      BY <2>2, TurnsMade
    <3>2. o.request.model_response_id = ops[c].turn.content.model_response_id
      BY <2>2 DEF RequestAbout
    <3> QED
      BY <3>1, <3>2
  <2>4. o.run \in Runs
    BY <2>1 DEF UsedInv
  <2>5. Entry("evaluation", o.run, EvaluationKey(o.run, o.request.model_response_id)) \in KeySpace
    BY <2>3, <2>4 DEF KeySpace
  <2> QED
    BY <1>5, <2>1, <2>4, <2>5 DEF FiledAsEvaluation
<1>6. CASE FiledAsTurnEvaluation(o)
  BY <1>6 DEF FiledAsTurnEvaluation, KeySpace, ExampleKeys, TurnEvaluationKey
<1>7. CASE FiledAsExternal(o)
  BY <1>7 DEF FiledAsExternal, KeySpace, ExampleKeys, ExternalKey
<1> QED
  BY <1>1, <1>2, <1>3, <1>4, <1>5, <1>6, <1>7 DEF Filing

(* Where keys are apart, one key is for one step of one run.               *)
LEMMA SameKeySameRun ==
    ASSUME OpsInv, UsedInv, KeysApart, NEW o, NEW n, Filing(o), Filing(n),
           o.key = n.key, Undisturbed(n.run)
    PROVE  o.step = n.step /\ o.run = n.run
<1>1. /\ Entry(o.step, o.run, o.key) \in KeySpace
      /\ Entry(n.step, n.run, n.key) \in KeySpace
  BY FiledInKeySpace
<1>2. o.step = n.step /\ Normalized(o.run) = Normalized(n.run)
  BY <1>1 DEF KeysApart, Entry
<1>3. /\ o.run = Example \/ (o.run \in Runs /\ \E u \in used : u.run = o.run)
      /\ n.run = Example \/ n.run \in Runs
  BY FiledInKeySpace
<1>4. CASE o.run = Example
  BY <1>2, <1>3, <1>4 DEF KeysApart
<1>5. CASE o.run # Example
  <2>1. PICK u \in used : u.run = o.run
    BY <1>3, <1>5
  <2>2. u.run = n.run
    BY <1>2, <2>1 DEF Undisturbed, SameRun
  <2> QED
    BY <1>2, <2>1, <2>2
<1> QED
  BY <1>4, <1>5

LEMMA StepsFiled ==
    ASSUME NEW o
    PROVE  /\ FiledAsWizard(o) => o.step = "wizard"
           /\ FiledAsOpening(o) => o.step = "opening" /\ o.run = Example
           /\ FiledAsChat(o) => o.step = "chat"
           /\ FiledAsFollowUp(o) => o.step = "chat" /\ o.run = Example
           /\ FiledAsEvaluation(o) => o.step = "evaluation"
           /\ FiledAsTurnEvaluation(o) => o.step = "evaluation" /\ o.run = Example
           /\ FiledAsExternal(o) => o.step = "external" /\ o.run = Example
BY DEF FiledAsWizard, FiledAsOpening, FiledAsChat, FiledAsFollowUp, FiledAsEvaluation,
       FiledAsTurnEvaluation, FiledAsExternal

(* No run has the id that the examples use. *)
LEMMA RunsFiled ==
    ASSUME UsedInv, KeysApart, NEW o,
           FiledAsWizard(o) \/ FiledAsChat(o) \/ FiledAsEvaluation(o)
    PROVE  Normalized(o.run) # Normalized(Example)
<1>1. \E u \in used : u.run = o.run
  <2>1. CASE FiledAsWizard(o)
    BY <2>1 DEF FiledAsWizard
  <2>2. CASE FiledAsChat(o)
    BY <2>2 DEF FiledAsChat
  <2>3. CASE FiledAsEvaluation(o)
    BY <2>3 DEF FiledAsEvaluation
  <2> QED
    BY <2>1, <2>2, <2>3
<1> QED
  BY <1>1 DEF UsedInv, KeysApart

(* What is filed for the same step of the same run is filed the same way.  *)
LEMMA SameWay ==
    ASSUME UsedInv, KeysApart, NEW o, NEW n, Filing(o), Filing(n),
           o.step = n.step, Normalized(o.run) = Normalized(n.run)
    PROVE  /\ FiledAsWizard(n) => FiledAsWizard(o)
           /\ FiledAsOpening(n) => FiledAsOpening(o)
           /\ FiledAsChat(n) => FiledAsChat(o)
           /\ FiledAsFollowUp(n) => FiledAsFollowUp(o)
           /\ FiledAsEvaluation(n) => FiledAsEvaluation(o)
           /\ FiledAsTurnEvaluation(n) => FiledAsTurnEvaluation(o)
           /\ FiledAsExternal(n) => FiledAsExternal(o)
BY StepsFiled, RunsFiled DEF Filing

(* Two wizards of an undisturbed run that were both asked for the prompt   *)
(* are one, and it has one answer.                                         *)
LEMMA OneMessage ==
    ASSUME OpsInv, UsedInv, KeysApart, NEW run, Undisturbed(run), NEW prompt, NEW a, NEW b,
           \E u \in used : u.run = run,
           WizardDone(run, prompt, a), WizardDone(run, prompt, b)
    PROVE  a = b
<1>1. PICK v \in DOMAIN ops :
        /\ ops[v].key = WizardKey(run) /\ ops[v].request = [route |-> "input_wizard", prompt |-> prompt]
        /\ ops[v].status # "expired" => a = MessageOf(ops[v].payload, prompt)
  BY DEF WizardDone
<1>2. PICK w \in DOMAIN ops :
        /\ ops[w].key = WizardKey(run)
        /\ ops[w].status # "expired" => b = MessageOf(ops[w].payload, prompt)
  BY DEF WizardDone
<1>3. v = w
  BY <1>1, <1>2 DEF OpsInv
<1>4. PICK u \in used : u.run = run
  OBVIOUS
<1>5. Filing(ops[w])
  BY DEF OpsInv
<1> DEFINE n == [run |-> run, step |-> "wizard", key |-> WizardKey(run),
                 request |-> [route |-> "input_wizard", prompt |-> u.prompt]]
<1>6. Filing(n) /\ n.run = run /\ n.key = WizardKey(run)
  BY <1>4 DEF Filing, FiledAsWizard
<1> HIDE DEF n
<1>7. ops[w].run = run
  BY <1>2, <1>5, <1>6, SameKeySameRun
<1>8. ops[w].status # "expired"
  BY <1>7 DEF Undisturbed
<1> QED
  BY <1>1, <1>2, <1>3, <1>8

(* Where keys are apart and nothing was disturbed, a key is used for one   *)
(* request only.                                                           *)
LEMMA SameKeySameRequest ==
    ASSUME OpsInv, UsedInv, KeysApart, NEW o, NEW n, Filing(o), Filing(n),
           o.key = n.key, Undisturbed(n.run)
    PROVE  o.request = n.request
<1>1. o.step = n.step /\ o.run = n.run
  BY SameKeySameRun
<1>2. \A u, v \in used : u.run = n.run /\ v.run = n.run => u = v
  BY DEF Undisturbed
<1>3. CASE FiledAsWizard(n)
  <2>1. FiledAsWizard(o)
    BY <1>1, <1>3, SameWay
  <2> QED
    BY <1>1, <1>2, <1>3, <2>1 DEF FiledAsWizard
<1>4. CASE FiledAsChat(n)
  <2>1. FiledAsChat(o)
    BY <1>1, <1>4, SameWay
  <2>2. PICK u \in used :
          /\ u.run = n.run
          /\ n.request = ChatRequest(n.request.message, None, u.model)
          /\ WizardDone(u.run, u.prompt, n.request.message)
    BY <1>4 DEF FiledAsChat
  <2>3. PICK v \in used :
          /\ v.run = o.run
          /\ o.request = ChatRequest(o.request.message, None, v.model)
          /\ WizardDone(v.run, v.prompt, o.request.message)
    BY <2>1 DEF FiledAsChat
  <2>4. u = v
    BY <1>1, <1>2, <2>2, <2>3
  <2>5. o.request.message = n.request.message
    BY <2>2, <2>3, <2>4, OneMessage
  <2> QED
    BY <2>2, <2>3, <2>4, <2>5
<1>5. CASE FiledAsEvaluation(n)
  <2>1. FiledAsEvaluation(o)
    BY <1>1, <1>5, SameWay
  <2>2. PICK u \in used : u.run = n.run /\ Answered(ChatKey(u.run, u.model), n.request)
    BY <1>5 DEF FiledAsEvaluation
  <2>3. PICK v \in used : v.run = o.run /\ Answered(ChatKey(v.run, v.model), o.request)
    BY <2>1 DEF FiledAsEvaluation
  <2>4. u = v
    BY <1>1, <1>2, <2>2, <2>3
  <2> QED
    BY <2>2, <2>3, <2>4 DEF Answered, OpsInv
<1>6. CASE FiledAsOpening(n)
  <2>1. FiledAsOpening(o)
    BY <1>1, <1>6, SameWay
  <2> QED
    BY <1>6, <2>1 DEF FiledAsOpening
<1>7. CASE FiledAsFollowUp(n)
  <2>1. FiledAsFollowUp(o)
    BY <1>1, <1>7, SameWay
  <2>2. o.request.chat_id = n.request.chat_id
    BY <1>7, <2>1 DEF FiledAsFollowUp, OpeningDone, OpsInv
  <2> QED
    BY <1>7, <2>1, <2>2 DEF FiledAsFollowUp
<1>8. CASE FiledAsTurnEvaluation(n)
  <2>1. FiledAsTurnEvaluation(o)
    BY <1>1, <1>8, SameWay
  <2> QED
    BY <1>8, <2>1 DEF FiledAsTurnEvaluation, Answered, OpsInv
<1>9. CASE FiledAsExternal(n)
  <2>1. FiledAsExternal(o)
    BY <1>1, <1>9, SameWay
  <2> QED
    BY <1>9, <2>1 DEF FiledAsExternal
<1> QED
  BY <1>3, <1>4, <1>5, <1>6, <1>7, <1>8, <1>9 DEF Filing

(* Ids that make one run make the same keys. *)
LEMMA SameRunSameKeys ==
    ASSUME NEW a \in Text, NEW b \in Text, SameRun(a, b)
    PROVE  /\ WizardKey(a) = WizardKey(b)
           /\ \A id \in Text : /\ ChatKey(a, id) = ChatKey(b, id)
                              /\ EvaluationKey(a, id) = EvaluationKey(b, id)
<1>1. "v1" \in KeyWords /\ "input-wizard" \in KeyWords /\ "chat" \in KeyWords
      /\ "evaluation" \in KeyWords
  BY DEF KeyWords
<1>2. V1 \in Text /\ <<"input-wizard">> \in Text /\ <<"chat">> \in Text
      /\ <<"evaluation">> \in Text
  BY <1>1, WordsOfKeys DEF V1
<1>3. Normalized(a) = Normalized(b)
  BY DEF SameRun
<1>4. WizardKey(a) = WizardKey(b)
  BY <1>2, <1>3, JoinedThree DEF WizardKey
<1>5. ASSUME NEW id \in Text PROVE ChatKey(a, id) = ChatKey(b, id)
  BY <1>2, <1>3, JoinedFour DEF ChatKey
<1>6. ASSUME NEW id \in Text PROVE EvaluationKey(a, id) = EvaluationKey(b, id)
  BY <1>2, <1>3, JoinedFour DEF EvaluationKey
<1> QED
  BY <1>4, <1>5, <1>6

(* A run that has kept to one model pays once for a step. *)
LEMMA OncePerStep ==
    ASSUME OpsInv, UsedInv, KeysApart, NEW run, OneModel(run),
           NEW i \in DOMAIN ops, NEW j \in DOMAIN ops,
           SameRun(ops[i].run, run), SameRun(ops[j].run, run), ops[i].step = ops[j].step
    PROVE  i = j
<1>1. Filing(ops[i]) /\ Filing(ops[j])
  BY DEF OpsInv
<1>2. \A u, v \in used :
         SameRun(u.run, ops[i].run) /\ SameRun(v.run, ops[j].run) => u.model = v.model
  BY DEF OneModel, SameRun
<1>3. Normalized(ops[i].run) = Normalized(ops[j].run) /\ SameRun(ops[i].run, ops[j].run)
  BY DEF SameRun
<1>4. \A run1 : SameRun(run1, run1)
  BY DEF SameRun
<1>5. \A u \in used : u.run \in Text /\ u.model \in Text
  BY ConstantsApart DEF UsedInv
<1> SUFFICES ops[i].key = ops[j].key
  BY DEF OpsInv
<1>6. CASE FiledAsWizard(ops[i])
  <2>1. FiledAsWizard(ops[j])
    BY <1>1, <1>3, <1>6, SameWay
  <2>2. ops[i].run \in Text /\ ops[j].run \in Text
    BY <1>5, <1>6, <2>1 DEF FiledAsWizard
  <2> QED
    BY <1>3, <1>6, <2>1, <2>2, SameRunSameKeys DEF FiledAsWizard
<1>7. CASE FiledAsChat(ops[i])
  <2>1. FiledAsChat(ops[j])
    BY <1>1, <1>3, <1>7, SameWay
  <2>2. PICK u \in used : u.run = ops[i].run /\ ops[i].key = ChatKey(u.run, u.model)
    BY <1>7 DEF FiledAsChat
  <2>3. PICK v \in used : v.run = ops[j].run /\ ops[j].key = ChatKey(v.run, v.model)
    BY <2>1 DEF FiledAsChat
  <2>4. u.model = v.model
    BY <1>2, <1>4, <2>2, <2>3
  <2> QED
    BY <1>3, <1>5, <2>2, <2>3, <2>4, SameRunSameKeys
<1>8. CASE FiledAsEvaluation(ops[i])
  <2>1. FiledAsEvaluation(ops[j])
    BY <1>1, <1>3, <1>8, SameWay
  <2>2. PICK u \in used : u.run = ops[i].run /\ Answered(ChatKey(u.run, u.model), ops[i].request)
    BY <1>8 DEF FiledAsEvaluation
  <2>3. PICK v \in used : v.run = ops[j].run /\ Answered(ChatKey(v.run, v.model), ops[j].request)
    BY <2>1 DEF FiledAsEvaluation
  <2>4. u.model = v.model
    BY <1>2, <1>4, <2>2, <2>3
  <2>5. ChatKey(u.run, u.model) = ChatKey(v.run, v.model)
    BY <1>3, <1>5, <2>2, <2>3, <2>4, SameRunSameKeys
  <2>6. PICK c \in DOMAIN ops : ops[c].turn # None /\ ops[i].request = RequestAbout(c)
                               /\ ops[j].request = RequestAbout(c)
    BY <2>2, <2>3, <2>5 DEF Answered, OpsInv
  <2>7. ops[i].request.model_response_id \in Text
    <3>1. ops[c].turn.content.model_response_id \in Text
      BY <2>6, TurnsMade, ConstantsApart
    <3> QED
      BY <2>6, <3>1 DEF RequestAbout
  <2> QED
    BY <1>3, <1>5, <1>8, <2>1, <2>2, <2>3, <2>6, <2>7, SameRunSameKeys DEF FiledAsEvaluation
<1>9. CASE FiledAsOpening(ops[i])
  <2>1. FiledAsOpening(ops[j])
    BY <1>1, <1>3, <1>9, SameWay
  <2> QED
    BY <1>9, <2>1 DEF FiledAsOpening
<1>10. CASE FiledAsFollowUp(ops[i])
  <2>1. FiledAsFollowUp(ops[j])
    BY <1>1, <1>3, <1>10, SameWay
  <2> QED
    BY <1>10, <2>1 DEF FiledAsFollowUp
<1>11. CASE FiledAsTurnEvaluation(ops[i])
  <2>1. FiledAsTurnEvaluation(ops[j])
    BY <1>1, <1>3, <1>11, SameWay
  <2> QED
    BY <1>11, <2>1 DEF FiledAsTurnEvaluation
<1>12. CASE FiledAsExternal(ops[i])
  <2>1. FiledAsExternal(ops[j])
    BY <1>1, <1>3, <1>12, SameWay
  <2> QED
    BY <1>12, <2>1 DEF FiledAsExternal
<1> QED
  BY <1>1, <1>6, <1>7, <1>8, <1>9, <1>10, <1>11, <1>12 DEF Filing

LEMMA RoutesFiled ==
    ASSUME NEW o
    PROVE  /\ FiledAsWizard(o) => o.request.route = "input_wizard"
           /\ FiledAsOpening(o) \/ FiledAsChat(o) \/ FiledAsFollowUp(o) =>
                 o.request.route = "chat"
           /\ FiledAsEvaluation(o) \/ FiledAsTurnEvaluation(o) \/ FiledAsExternal(o) =>
                 o.request.route = "evaluate"
           /\ FiledAsEvaluation(o) \/ FiledAsTurnEvaluation(o) =>
                 \E c \in DOMAIN ops :
                     /\ ops[c].turn # None
                     /\ ops[c].turn.content.model_response_id = o.request.model_response_id
<1>1. ASSUME NEW key, Answered(key, o.request)
      PROVE  /\ o.request.route = "evaluate"
             /\ \E c \in DOMAIN ops :
                   /\ ops[c].turn # None
                   /\ ops[c].turn.content.model_response_id = o.request.model_response_id
  <2>1. PICK c \in DOMAIN ops : ops[c].turn # None /\ o.request = RequestAbout(c)
    BY <1>1 DEF Answered
  <2>2. /\ RequestAbout(c).route = "evaluate"
        /\ RequestAbout(c).model_response_id = ops[c].turn.content.model_response_id
    BY DEF RequestAbout
  <2> QED
    BY <2>1, <2>2
<1>2. ASSUME FiledAsWizard(o) PROVE o.request.route = "input_wizard"
  BY <1>2 DEF FiledAsWizard
<1>3. ASSUME FiledAsOpening(o) PROVE o.request.route = "chat"
  BY <1>3 DEF FiledAsOpening, OpeningRequest, ChatRequest
<1>4. ASSUME FiledAsChat(o) PROVE o.request.route = "chat"
  BY <1>4 DEF FiledAsChat, ChatRequest
<1>5. ASSUME FiledAsFollowUp(o) PROVE o.request.route = "chat"
  BY <1>5 DEF FiledAsFollowUp, ChatRequest
<1>6. ASSUME FiledAsExternal(o) PROVE o.request.route = "evaluate"
  BY <1>6 DEF FiledAsExternal, ExternalRequest
<1>7. ASSUME FiledAsEvaluation(o) PROVE \E key : Answered(key, o.request)
  BY <1>7 DEF FiledAsEvaluation
<1>8. ASSUME FiledAsTurnEvaluation(o) PROVE \E key : Answered(key, o.request)
  BY <1>8 DEF FiledAsTurnEvaluation
<1> QED
  BY <1>1, <1>2, <1>3, <1>4, <1>5, <1>6, <1>7, <1>8

(* Nothing is filed ahead of what it is made of. *)
LEMMA FiledInOrder ==
    ASSUME OpsInv, UsedInv, NEW o, Filing(o)
    PROVE  /\ o.step = "chat" =>
                 \E j \in DOMAIN ops :
                     /\ ops[j].step \in {"wizard", "opening"} /\ ops[j].status \in Terminal
                     /\ Normalized(ops[j].run) = Normalized(o.run)
           /\ o.step = "evaluation" =>
                 \E j \in DOMAIN ops :
                     /\ ops[j].turn # None
                     /\ ops[j].turn.content.model_response_id = o.request.model_response_id
<1>1. CASE FiledAsChat(o)
  <2>1. PICK u \in used : u.run = o.run /\ WizardDone(u.run, u.prompt, o.request.message)
    BY <1>1 DEF FiledAsChat
  <2>2. PICK w \in DOMAIN ops :
          /\ ops[w].key = WizardKey(o.run)
          /\ ops[w].request = [route |-> "input_wizard", prompt |-> u.prompt]
          /\ ops[w].status \in Terminal
    BY <2>1 DEF WizardDone
  <2>3. ops[w].request.route = "input_wizard"
    BY <2>2
  <2>4. Filing(ops[w])
    BY DEF OpsInv
  <2>5. FiledAsWizard(ops[w])
    BY <2>3, <2>4, RoutesFiled DEF Filing
  <2>6. ops[w].run \in Text /\ o.run \in Text /\ WizardKey(ops[w].run) = WizardKey(o.run)
    BY <2>1, <2>2, <2>5, ConstantsApart DEF FiledAsWizard, UsedInv
  <2>7. Normalized(ops[w].run) = Normalized(o.run)
    BY <2>6, WizardKeyNamesRun
  <2> QED
    BY <1>1, <2>2, <2>5, <2>7 DEF FiledAsChat, FiledAsWizard
<1>2. CASE FiledAsFollowUp(o)
  <2>1. PICK w \in DOMAIN ops :
          /\ ops[w].request = OpeningRequest
          /\ ops[w].status \in Terminal
    BY <1>2 DEF FiledAsFollowUp, OpeningDone
  <2>2. ops[w].request.route = "chat" /\ ops[w].request.model = None /\ ops[w].request.chat_id = None
    BY <2>1 DEF OpeningRequest, ChatRequest
  <2>3. Filing(ops[w])
    BY DEF OpsInv
  <2>4. ~FiledAsChat(ops[w])
    <3> SUFFICES ASSUME FiledAsChat(ops[w]) PROVE FALSE
      OBVIOUS
    <3>1. PICK u \in used : ops[w].request = ChatRequest(ops[w].request.message, None, u.model)
      BY DEF FiledAsChat
    <3>2. u.model = None
      BY <2>2, <3>1 DEF ChatRequest
    <3> QED
      BY <3>2, ConstantsApart DEF UsedInv
  <2>5. ~FiledAsFollowUp(ops[w])
    BY <2>2, ConstantsApart DEF FiledAsFollowUp
  <2>6. FiledAsOpening(ops[w])
    BY <2>2, <2>3, <2>4, <2>5, RoutesFiled DEF Filing
  <2> QED
    BY <1>2, <2>1, <2>6 DEF FiledAsFollowUp, FiledAsOpening
<1>3. CASE FiledAsEvaluation(o) \/ FiledAsTurnEvaluation(o)
  BY <1>3, RoutesFiled, StepsFiled
<1>4. CASE FiledAsWizard(o) \/ FiledAsOpening(o) \/ FiledAsExternal(o)
  BY <1>4, StepsFiled
<1> QED
  BY <1>1, <1>2, <1>3, <1>4 DEF Filing

-----------------------------------------------------------------------------
(* What programs know stays true, whatever the server and others do. *)

LEMMA KnownStays ==
    ASSUME Grows, NEW p, Known(p)
    PROVE  Known(p)'
<1>1. p \in Locals /\ Course(p) /\ Evaluated(p) /\ ErrorHasCause(p)
  BY DEF Known
<1>2. OnRecord(p)'
  BY DEF Known, OnRecord, Grows
<1>3. Source(p)'
  BY WizardStaysDone, OpeningStaysDone DEF Known, Source
<1>4. ChatKnown(p)'
  BY DEF Known, ChatKnown, Grows, Kept
<1>5. TurnKnown(p)'
  BY DEF Known, Course, ChatKnown, TurnKnown, Grows, Kept
<1>6. ConflictHasCause(p)'
  BY StaysDisturbed DEF Known, ConflictHasCause
<1> QED
  BY <1>1, <1>2, <1>3, <1>4, <1>5, <1>6 DEF Known

LEMMA ProgramStays ==
    ASSUME Grows, NEW p, ProgramInv(p)
    PROVE  ProgramInv(p)'
BY KnownStays DEF ProgramInv, Waiting, Grows, Kept

LEMMA OpsStay ==
    ASSUME OpsInv, UNCHANGED ops, used \subseteq used'
    PROVE  OpsInv'
<1>1. Grows
  BY NothingMoves
<1>2. ASSUME NEW i \in DOMAIN ops
      PROVE  Fields(i)' /\ Filing(ops[i])' /\ TurnOf(i)' /\ PayloadOf(i)'
  <2>1. Fields(i) /\ Filing(ops[i]) /\ TurnOf(i) /\ PayloadOf(i)
    BY DEF OpsInv
  <2>2. Filing(ops[i])'
    BY <1>1, <2>1, FilingStays
  <2> QED
    BY <2>1, <2>2 DEF Fields, TurnOf, PayloadOf, ChatIdOf
<1> QED
  BY <1>2 DEF OpsInv

(* A step of one program. *)
LEMMA OneMoves ==
    ASSUME Inv, NEW r \in Runners, NEW q, runner' = [runner EXCEPT ![r] = q],
           Grows, OpsInv', UsedInv', starts' \in 0 .. MaxStarts, ProgramInv(q)'
    PROVE  Inv'
<1>1. runner \in [Runners -> Locals]
  BY DEF Inv
<1>2. q \in Locals
  BY DEF ProgramInv, Known
<1>3. runner' \in [Runners -> Locals]
  BY <1>1, <1>2
<1>4. ASSUME NEW s \in Runners PROVE ProgramInv(runner[s])'
  <2>1. CASE s = r
    <3>1. runner'[s] = q
      BY <1>1, <2>1
    <3> QED
      BY <3>1
  <2>2. CASE s # r
    <3>1. runner'[s] = runner[s]
      BY <1>1, <2>2
    <3>2. ProgramInv(runner[s])
      BY DEF Inv
    <3>3. \A p : p = runner[s] => ProgramInv(p)'
      BY <3>2, ProgramStays
    <3> QED
      BY <3>1, <3>3
  <2> QED
    BY <2>1, <2>2
<1> QED
  BY <1>3, <1>4 DEF Inv

(* A step that the server does not see. *)
LEMMA OneMovesAlone ==
    ASSUME Inv, NEW r \in Runners, NEW q, runner' = [runner EXCEPT ![r] = q],
           UNCHANGED <<ops, used>>, starts' \in 0 .. MaxStarts, ProgramInv(q)
    PROVE  Inv'
<1>1. Grows
  BY NothingMoves
<1>2. OpsInv' /\ UsedInv'
  BY OpsStay DEF Inv, UsedInv
<1>3. ProgramInv(q)'
  BY <1>1, ProgramStays
<1> QED
  BY <1>1, <1>2, <1>3, OneMoves

(* A step of the server. *)
LEMMA ServerMoves ==
    ASSUME Inv, Grows, OpsInv', UNCHANGED <<runner, starts, used>>
    PROVE  Inv'
<1>1. UsedInv'
  BY DEF Inv, UsedInv
<1>2. ASSUME NEW s \in Runners PROVE ProgramInv(runner[s])'
  <2>1. ProgramInv(runner[s]) /\ runner'[s] = runner[s]
    BY DEF Inv
  <2>2. \A p : p = runner[s] => ProgramInv(p)'
    BY <2>1, ProgramStays
  <2> QED
    BY <2>1, <2>2
<1> QED
  BY <1>1, <1>2 DEF Inv

-----------------------------------------------------------------------------
(* The steps of a program, one by one *)

LEMMA NoneIsNoWord ==
    /\ "pending" \in Outcomes /\ "reported" \in Outcomes
    /\ None \notin Steps
    /\ None \notin {"end_to_end", "chat_turn", "external"}
BY FlowAssumption DEF Steps, ResultTypes, Outcomes

(* A program begins with nothing. *)
LEMMA BeginsEndToEnd ==
    ASSUME NEW run \in Runs, NEW prompt \in Prompts, "end_to_end" \in Scripts
    PROVE  ProgramInv(Fresh("end_to_end", run, prompt))
<1> DEFINE q == Fresh("end_to_end", run, prompt)
<1>1. run \in Text /\ prompt \in Text
  BY ConstantsApart
<1>2. /\ q \in Locals
      /\ q.script = "end_to_end" /\ q.run = run /\ q.prompt = prompt /\ q.pc = "start"
      /\ q.step = None /\ q.chatOp = 0 /\ q.outcome = "pending"
  BY <1>1 DEF Fresh, Locals, Outcomes
<1> HIDE DEF q
<1>3. Course(q)
  BY <1>2, NoneIsNoWord DEF Course, Steps
<1>4. Known(q)
  BY <1>2, <1>3, NoneIsNoWord
     DEF Known, OnRecord, Source, ChatKnown, TurnKnown, Evaluated, ErrorHasCause,
         ConflictHasCause, Steps
<1> QED
  BY <1>2, <1>4 DEF ProgramInv, Waiting, q

LEMMA BeginsExample ==
    ASSUME NEW script \in Scripts \cap {"chat_turn", "external"}
    PROVE  ProgramInv([Fresh(script, Example, None) EXCEPT
                          !.pc = "create",
                          !.step = IF script = "chat_turn" THEN "opening" ELSE "external"])
<1> DEFINE q == [Fresh(script, Example, None) EXCEPT
                    !.pc = "create",
                    !.step = IF script = "chat_turn" THEN "opening" ELSE "external"]
<1>1. Example \in Text
  BY ConstantsApart
<1>2. /\ q \in Locals
      /\ q.script = script /\ q.run = Example /\ q.prompt = None /\ q.pc = "create"
      /\ q.step = (IF script = "chat_turn" THEN "opening" ELSE "external")
      /\ q.model = None /\ q.message = None /\ q.turn = None /\ q.response = None
      /\ q.chatOp = 0 /\ q.outcome = "pending"
  BY <1>1 DEF Fresh, Locals, Outcomes, Steps
<1> HIDE DEF q
<1>3. Course(q)
  BY <1>2, NoneIsNoWord DEF Course, Steps
<1>4. Known(q)
  BY <1>2, <1>3, NoneIsNoWord
     DEF Known, OnRecord, Source, ChatKnown, TurnKnown, Evaluated, ErrorHasCause,
         ConflictHasCause, Steps
<1> QED
  BY <1>2, <1>4 DEF ProgramInv, Waiting, q

LEMMA IsInterrupted == ProgramInv(Absent)
<1> DEFINE q == Absent
<1>1. /\ q \in Locals
      /\ q.script = None /\ q.pc = "idle" /\ q.step = None /\ q.chatOp = 0
      /\ q.outcome = "pending"
  <2>1. <<>> \in Text
    BY DEF Text
  <2> QED
    BY <2>1, NoneIsNoWord DEF Absent, Fresh, Locals
<1>2. Course(q)
  <2>1. q = Absent
    OBVIOUS
  <2> HIDE DEF q
  <2> QED
    BY <1>1, <2>1, NoneIsNoWord DEF Course, Steps
<1> HIDE DEF q
<1>3. Known(q)
  BY <1>1, <1>2, NoneIsNoWord
     DEF Known, OnRecord, Source, ChatKnown, TurnKnown, Evaluated, ErrorHasCause,
         ConflictHasCause, Steps
<1> QED
  BY <1>1, <1>3 DEF ProgramInv, Waiting, q

AtEnd(p, outcome) == [p EXCEPT !.pc = "done", !.outcome = outcome]

LEMMA LocalsAtEnd ==
    ASSUME NEW p \in Locals, NEW outcome \in Outcomes,
           NEW q, q = AtEnd(p, outcome)
    PROVE  /\ q \in Locals
           /\ q.script = p.script /\ q.run = p.run /\ q.prompt = p.prompt
           /\ q.step = p.step /\ q.op = p.op /\ q.model = p.model
           /\ q.message = p.message /\ q.chatId = p.chatId /\ q.turnId = p.turnId
           /\ q.chatOp = p.chatOp /\ q.turn = p.turn /\ q.response = p.response
           /\ q.evaluationId = p.evaluationId /\ q.pc = "done" /\ q.outcome = outcome
<1>1. q \in Locals
  BY DEF Locals, AtEnd
<1>2. /\ q.script = p.script /\ q.run = p.run /\ q.prompt = p.prompt
      /\ q.step = p.step /\ q.op = p.op /\ q.model = p.model
      /\ q.message = p.message /\ q.chatId = p.chatId /\ q.turnId = p.turnId
      /\ q.chatOp = p.chatOp /\ q.turn = p.turn /\ q.response = p.response
      /\ q.evaluationId = p.evaluationId /\ q.pc = "done" /\ q.outcome = outcome
  BY DEF Locals, AtEnd
<1> QED
  BY <1>1, <1>2

(* A program ends with an error, for a reason if it is one of its own.     *)
LEMMA Ends ==
    ASSUME NEW p, ProgramInv(p), p.pc \notin {"idle", "done"},
           NEW outcome \in {"RuntimeError", "IdempotencyKeyError", "ValidationError",
                            "ResponseError", "Conflict"},
           ErrorHasCause(AtEnd(p, outcome)),
           outcome = "Conflict" => (KeysApart => ~Undisturbed(p.run))
    PROVE  ProgramInv(AtEnd(p, outcome))
<1> DEFINE q == AtEnd(p, outcome)
<1>1. /\ q \in Locals
      /\ q.script = p.script /\ q.run = p.run /\ q.prompt = p.prompt /\ q.step = p.step
      /\ q.model = p.model /\ q.message = p.message /\ q.chatId = p.chatId
      /\ q.turnId = p.turnId /\ q.chatOp = p.chatOp /\ q.turn = p.turn
      /\ q.response = p.response /\ q.pc = "done" /\ q.outcome = outcome
  <2>1. p \in Locals
    BY DEF ProgramInv, Known
  <2>2. outcome \in Outcomes
    BY DEF Outcomes
  <2>3. q = AtEnd(p, outcome)
    OBVIOUS
  <2> HIDE DEF q
  <2> QED
    BY <2>1, <2>2, <2>3, LocalsAtEnd
<1>2. ErrorHasCause(q)
  OBVIOUS
<1> HIDE DEF q
<1>3. Course(p) /\ OnRecord(p) /\ Source(p) /\ ChatKnown(p) /\ TurnKnown(p)
  BY DEF ProgramInv, Known
<1>4. Course(q)
  BY <1>1, <1>3 DEF Course
<1>5. OnRecord(q) /\ Source(q) /\ TurnKnown(q) /\ Evaluated(q)
  BY <1>1, <1>3 DEF OnRecord, Source, TurnKnown, Evaluated
<1>6. ChatKnown(q)
  BY <1>1, <1>3 DEF ChatKnown, ChatKeyOf
<1>7. ConflictHasCause(q)
  BY <1>1 DEF ConflictHasCause
<1>8. Waiting(q)
  BY <1>1 DEF Waiting
<1> QED
  BY <1>1, <1>2, <1>4, <1>5, <1>6, <1>7, <1>8 DEF ProgramInv, Known, q

(* An error of the server's making or of the example's own. *)
LEMMA EndsOtherwise ==
    ASSUME NEW p, ProgramInv(p), p.pc \notin {"idle", "done"},
           NEW outcome \in {"RuntimeError", "ResponseError"}
    PROVE  ProgramInv(AtEnd(p, outcome))
<1>1. AtEnd(p, outcome).outcome = outcome
  BY LocalsAtEnd DEF ProgramInv, Known, Outcomes
<1>2. ErrorHasCause(AtEnd(p, outcome))
  BY <1>1 DEF ErrorHasCause
<1> QED
  BY <1>2, Ends

(* What programs know after each step. *)

AtWizard(p, model) == [p EXCEPT !.pc = "create", !.step = "wizard", !.model = model]
AtWait(p, i) == [p EXCEPT !.pc = "wait", !.op = i]
AtChat(p, message) == [p EXCEPT !.pc = "create", !.step = "chat", !.message = message]
AtFollowUp(p, chatId) == [p EXCEPT !.pc = "create", !.step = "chat", !.chatId = chatId]
AtMessages(p, chatId, turnId, response) ==
    [p EXCEPT !.pc = "messages",
              !.chatOp = p.op,
              !.chatId = chatId,
              !.turnId = turnId,
              !.response = response]
AtEvaluation(p, turn, response) ==
    [p EXCEPT !.pc = "create", !.step = "evaluation", !.turn = turn, !.response = response]
AtDetail(p, id) == [p EXCEPT !.pc = "detail", !.evaluationId = id]
AtReport(p, id) == [p EXCEPT !.pc = "done", !.outcome = "reported", !.evaluationId = id]

LEMMA LocalsAtWizard ==
    ASSUME NEW p \in Locals, NEW model \in Text,
           NEW q, q = AtWizard(p, model)
    PROVE  /\ q \in Locals
           /\ q.script = p.script /\ q.run = p.run /\ q.prompt = p.prompt /\ q.pc = "create"
           /\ q.step = "wizard" /\ q.op = p.op /\ q.model = model /\ q.message = p.message
           /\ q.chatId = p.chatId /\ q.turnId = p.turnId /\ q.chatOp = p.chatOp
           /\ q.turn = p.turn /\ q.response = p.response /\ q.evaluationId = p.evaluationId
           /\ q.outcome = p.outcome
<1>1. q \in Locals
  BY DEF Locals, AtWizard, Steps
<1>2. /\ q.script = p.script /\ q.run = p.run /\ q.prompt = p.prompt /\ q.pc = "create"
      /\ q.step = "wizard" /\ q.op = p.op /\ q.model = model /\ q.message = p.message
      /\ q.chatId = p.chatId /\ q.turnId = p.turnId /\ q.chatOp = p.chatOp
      /\ q.turn = p.turn /\ q.response = p.response /\ q.evaluationId = p.evaluationId
      /\ q.outcome = p.outcome
  BY DEF Locals, AtWizard
<1> QED
  BY <1>1, <1>2

LEMMA LocalsAtWait ==
    ASSUME NEW p \in Locals, NEW i \in Nat,
           NEW q, q = AtWait(p, i)
    PROVE  /\ q \in Locals
           /\ q.script = p.script /\ q.run = p.run /\ q.prompt = p.prompt /\ q.pc = "wait"
           /\ q.step = p.step /\ q.op = i /\ q.model = p.model /\ q.message = p.message
           /\ q.chatId = p.chatId /\ q.turnId = p.turnId /\ q.chatOp = p.chatOp
           /\ q.turn = p.turn /\ q.response = p.response /\ q.evaluationId = p.evaluationId
           /\ q.outcome = p.outcome
<1>1. q \in Locals
  BY DEF Locals, AtWait, Steps
<1>2. /\ q.script = p.script /\ q.run = p.run /\ q.prompt = p.prompt /\ q.pc = "wait"
      /\ q.step = p.step /\ q.op = i /\ q.model = p.model /\ q.message = p.message
      /\ q.chatId = p.chatId /\ q.turnId = p.turnId /\ q.chatOp = p.chatOp
      /\ q.turn = p.turn /\ q.response = p.response /\ q.evaluationId = p.evaluationId
      /\ q.outcome = p.outcome
  BY DEF Locals, AtWait
<1> QED
  BY <1>1, <1>2

LEMMA LocalsAtChat ==
    ASSUME NEW p \in Locals, NEW message \in Text,
           NEW q, q = AtChat(p, message)
    PROVE  /\ q \in Locals
           /\ q.script = p.script /\ q.run = p.run /\ q.prompt = p.prompt /\ q.pc = "create"
           /\ q.step = "chat" /\ q.op = p.op /\ q.model = p.model /\ q.message = message
           /\ q.chatId = p.chatId /\ q.turnId = p.turnId /\ q.chatOp = p.chatOp
           /\ q.turn = p.turn /\ q.response = p.response /\ q.evaluationId = p.evaluationId
           /\ q.outcome = p.outcome
<1>1. q \in Locals
  BY DEF Locals, AtChat, Steps
<1>2. /\ q.script = p.script /\ q.run = p.run /\ q.prompt = p.prompt /\ q.pc = "create"
      /\ q.step = "chat" /\ q.op = p.op /\ q.model = p.model /\ q.message = message
      /\ q.chatId = p.chatId /\ q.turnId = p.turnId /\ q.chatOp = p.chatOp
      /\ q.turn = p.turn /\ q.response = p.response /\ q.evaluationId = p.evaluationId
      /\ q.outcome = p.outcome
  BY DEF Locals, AtChat
<1> QED
  BY <1>1, <1>2

LEMMA LocalsAtFollowUp ==
    ASSUME NEW p \in Locals, NEW chatId \in Text,
           NEW q, q = AtFollowUp(p, chatId)
    PROVE  /\ q \in Locals
           /\ q.script = p.script /\ q.run = p.run /\ q.prompt = p.prompt /\ q.pc = "create"
           /\ q.step = "chat" /\ q.op = p.op /\ q.model = p.model /\ q.message = p.message
           /\ q.chatId = chatId /\ q.turnId = p.turnId /\ q.chatOp = p.chatOp
           /\ q.turn = p.turn /\ q.response = p.response /\ q.evaluationId = p.evaluationId
           /\ q.outcome = p.outcome
<1>1. q \in Locals
  BY DEF Locals, AtFollowUp, Steps
<1>2. /\ q.script = p.script /\ q.run = p.run /\ q.prompt = p.prompt /\ q.pc = "create"
      /\ q.step = "chat" /\ q.op = p.op /\ q.model = p.model /\ q.message = p.message
      /\ q.chatId = chatId /\ q.turnId = p.turnId /\ q.chatOp = p.chatOp
      /\ q.turn = p.turn /\ q.response = p.response /\ q.evaluationId = p.evaluationId
      /\ q.outcome = p.outcome
  BY DEF Locals, AtFollowUp
<1> QED
  BY <1>1, <1>2

LEMMA LocalsAtMessages ==
    ASSUME NEW p \in Locals, NEW chatId \in Text, NEW turnId \in Text,
           NEW response \in Text \cup {None},
           NEW q, q = AtMessages(p, chatId, turnId, response)
    PROVE  /\ q \in Locals
           /\ q.script = p.script /\ q.run = p.run /\ q.prompt = p.prompt /\ q.pc = "messages"
           /\ q.step = p.step /\ q.op = p.op /\ q.model = p.model /\ q.message = p.message
           /\ q.chatId = chatId /\ q.turnId = turnId /\ q.chatOp = p.op /\ q.turn = p.turn
           /\ q.response = response /\ q.evaluationId = p.evaluationId
           /\ q.outcome = p.outcome
<1>1. q \in Locals
  BY DEF Locals, AtMessages, Steps
<1>2. /\ q.script = p.script /\ q.run = p.run /\ q.prompt = p.prompt /\ q.pc = "messages"
      /\ q.step = p.step /\ q.op = p.op /\ q.model = p.model /\ q.message = p.message
      /\ q.chatId = chatId /\ q.turnId = turnId /\ q.chatOp = p.op /\ q.turn = p.turn
      /\ q.response = response /\ q.evaluationId = p.evaluationId
      /\ q.outcome = p.outcome
  BY DEF Locals, AtMessages
<1> QED
  BY <1>1, <1>2

LEMMA LocalsAtEvaluation ==
    ASSUME NEW p \in Locals, NEW turn \in ChatTurn, NEW response \in Text,
           NEW q, q = AtEvaluation(p, turn, response)
    PROVE  /\ q \in Locals
           /\ q.script = p.script /\ q.run = p.run /\ q.prompt = p.prompt /\ q.pc = "create"
           /\ q.step = "evaluation" /\ q.op = p.op /\ q.model = p.model
           /\ q.message = p.message /\ q.chatId = p.chatId /\ q.turnId = p.turnId
           /\ q.chatOp = p.chatOp /\ q.turn = turn /\ q.response = response
           /\ q.evaluationId = p.evaluationId /\ q.outcome = p.outcome
<1>1. q \in Locals
  BY DEF Locals, AtEvaluation, Steps
<1>2. /\ q.script = p.script /\ q.run = p.run /\ q.prompt = p.prompt /\ q.pc = "create"
      /\ q.step = "evaluation" /\ q.op = p.op /\ q.model = p.model
      /\ q.message = p.message /\ q.chatId = p.chatId /\ q.turnId = p.turnId
      /\ q.chatOp = p.chatOp /\ q.turn = turn /\ q.response = response
      /\ q.evaluationId = p.evaluationId /\ q.outcome = p.outcome
  BY DEF Locals, AtEvaluation
<1> QED
  BY <1>1, <1>2

LEMMA LocalsAtDetail ==
    ASSUME NEW p \in Locals, NEW id \in Text,
           NEW q, q = AtDetail(p, id)
    PROVE  /\ q \in Locals
           /\ q.script = p.script /\ q.run = p.run /\ q.prompt = p.prompt /\ q.pc = "detail"
           /\ q.step = p.step /\ q.op = p.op /\ q.model = p.model /\ q.message = p.message
           /\ q.chatId = p.chatId /\ q.turnId = p.turnId /\ q.chatOp = p.chatOp
           /\ q.turn = p.turn /\ q.response = p.response /\ q.evaluationId = id
           /\ q.outcome = p.outcome
<1>1. q \in Locals
  BY DEF Locals, AtDetail, Steps
<1>2. /\ q.script = p.script /\ q.run = p.run /\ q.prompt = p.prompt /\ q.pc = "detail"
      /\ q.step = p.step /\ q.op = p.op /\ q.model = p.model /\ q.message = p.message
      /\ q.chatId = p.chatId /\ q.turnId = p.turnId /\ q.chatOp = p.chatOp
      /\ q.turn = p.turn /\ q.response = p.response /\ q.evaluationId = id
      /\ q.outcome = p.outcome
  BY DEF Locals, AtDetail
<1> QED
  BY <1>1, <1>2

LEMMA LocalsAtReport ==
    ASSUME NEW p \in Locals, NEW id \in Text \cup {None},
           NEW q, q = AtReport(p, id)
    PROVE  /\ q \in Locals
           /\ q.script = p.script /\ q.run = p.run /\ q.prompt = p.prompt /\ q.pc = "done"
           /\ q.step = p.step /\ q.op = p.op /\ q.model = p.model /\ q.message = p.message
           /\ q.chatId = p.chatId /\ q.turnId = p.turnId /\ q.chatOp = p.chatOp
           /\ q.turn = p.turn /\ q.response = p.response /\ q.evaluationId = id
           /\ q.outcome = "reported"
<1>1. q \in Locals
  BY NoneIsNoWord DEF Locals, AtReport, Steps
<1>2. /\ q.script = p.script /\ q.run = p.run /\ q.prompt = p.prompt /\ q.pc = "done"
      /\ q.step = p.step /\ q.op = p.op /\ q.model = p.model /\ q.message = p.message
      /\ q.chatId = p.chatId /\ q.turnId = p.turnId /\ q.chatOp = p.chatOp
      /\ q.turn = p.turn /\ q.response = p.response /\ q.evaluationId = id
      /\ q.outcome = "reported"
  BY DEF Locals, AtReport
<1> QED
  BY <1>1, <1>2

-----------------------------------------------------------------------------
(* What results say *)

LEMMA WizardResult ==
    ASSUME OpsInv, NEW i \in DOMAIN ops, ops[i].request.route = "input_wizard",
           ops[i].payload # None, ResultOK(Projection(ops[i].payload))
    PROVE  Get(Projection(ops[i].payload), "optimized_prompt") \in Text \cup {None}
<1>1. PICK shape \in Shapes["input_wizard"], prompt \in Optimized :
        ops[i].payload = LaidOut(shape, "input_wizard", [optimized_prompt |-> prompt])
  BY DEF OpsInv, PayloadOf
<1> DEFINE fields == [optimized_prompt |-> prompt]
<1>2. shape \in {"nested", "flat", "untyped"} /\ prompt \in Text \cup {None}
  BY FlowAssumption
<1>3. /\ fields = [x \in DOMAIN fields |-> fields[x]]
      /\ \A name \in {"chat", "evaluation", "input_wizard", "result_type"} :
            name \notin DOMAIN fields
      /\ Get(fields, "optimized_prompt") = prompt
  BY DEF Get
<1>4. ops[i].payload = LaidOut(shape, "input_wizard", fields)
  BY <1>1
<1> HIDE DEF fields
<1>5. Get(Projection(LaidOut(shape, "input_wizard", fields)), "optimized_prompt")
        = Get(fields, "optimized_prompt")
  BY <1>2, <1>3, <1>4, ResultRead
<1> QED
  BY <1>2, <1>3, <1>4, <1>5

LEMMA ChatResult ==
    ASSUME OpsInv, NEW i \in DOMAIN ops, ops[i].request.route = "chat",
           ops[i].payload # None, ResultOK(Projection(ops[i].payload))
    PROVE  LET result  == Projection(ops[i].payload)
               content == ops[i].turn.content
           IN  /\ ops[i].turn # None
               /\ Get(result, "chat_id") = ops[i].turn.chat_id
               /\ Get(result, "turn_id") = content.turn_id
               /\ Get(result, "model_response_id") \in {None, content.model_response_id}
               /\ ResponseIds(result) \in {<<>>, content.model_response_ids}
               /\ Length(content.turn_id) <= 140
<1> DEFINE content == ops[i].turn.content
<1>1. ops[i].turn # None
  BY DEF OpsInv, PayloadOf
<1>2. PICK shape \in Shapes["chat"], named \in {"id", "ids", "none"} :
        ops[i].payload = LaidOut(shape, "chat", ChatFields(named, ops[i].turn.chat_id, content))
  BY DEF OpsInv, PayloadOf
<1>3. shape \in {"nested", "flat", "untyped"}
  BY FlowAssumption
<1> DEFINE fields == ChatFields(named, ops[i].turn.chat_id, content)
<1>4. /\ DOMAIN fields = {"chat_id", "turn_id", "model_response_id", "model_response_ids"}
      /\ fields = [x \in DOMAIN fields |-> fields[x]]
      /\ fields.chat_id = ops[i].turn.chat_id /\ fields.turn_id = content.turn_id
      /\ fields.model_response_id \in {None, content.model_response_id}
      /\ fields.model_response_ids \in {<<>>, content.model_response_ids}
  BY DEF ChatFields
<1> HIDE DEF fields
<1>5. /\ \A name \in {"chat", "evaluation", "input_wizard", "result_type"} :
            name \notin DOMAIN fields
      /\ Get(fields, "chat_id") = ops[i].turn.chat_id
      /\ Get(fields, "turn_id") = content.turn_id
      /\ Get(fields, "model_response_id") \in {None, content.model_response_id}
      /\ ResponseIds(fields) \in {<<>>, content.model_response_ids}
  BY <1>4 DEF Get, ResponseIds
<1>6. ops[i].payload = LaidOut(shape, "chat", fields)
  BY <1>2 DEF fields
<1>7. /\ \A name : name # "result_type" =>
            Get(Projection(LaidOut(shape, "chat", fields)), name) = Get(fields, name)
      /\ ResponseIds(Projection(LaidOut(shape, "chat", fields))) = ResponseIds(fields)
  BY <1>3, <1>4, <1>5, <1>6, ResultRead
<1>8. content.turn_id \in Text
  BY <1>1, TurnsMade
<1>9. Optional(Get(Projection(ops[i].payload), "turn_id"), 0, 140)
  BY DEF ResultOK
<1>10. Length(content.turn_id) \in 0 .. 140
  <2>1. Get(Projection(ops[i].payload), "turn_id") = content.turn_id
    BY <1>5, <1>6, <1>7
  <2>2. content.turn_id # None
    BY <1>8, ConstantsApart
  <2> QED
    BY <1>9, <2>1, <2>2 DEF Optional, Between
<1>11. /\ Get(Projection(ops[i].payload), "chat_id") = ops[i].turn.chat_id
       /\ Get(Projection(ops[i].payload), "turn_id") = content.turn_id
       /\ Get(Projection(ops[i].payload), "model_response_id") \in {None, content.model_response_id}
  BY <1>5, <1>6, <1>7
<1>12. ResponseIds(Projection(ops[i].payload)) \in {<<>>, content.model_response_ids}
  BY <1>5, <1>6, <1>7
<1>13. Length(content.turn_id) <= 140
  BY <1>10
<1> HIDE DEF content
<1> QED
  BY <1>1, <1>11, <1>12, <1>13 DEF content

LEMMA EvaluationResult ==
    ASSUME OpsInv, NEW i \in DOMAIN ops, ops[i].request.route = "evaluate",
           ops[i].payload # None, ResultOK(Projection(ops[i].payload))
    PROVE  /\ Get(Projection(ops[i].payload), "evaluation_id") = EvaluationIds[i]
           /\ EvaluationIds[i] \in Text
<1>1. PICK shape \in Shapes["evaluate"] :
        ops[i].payload = LaidOut(shape, "evaluation", [evaluation_id |-> EvaluationIds[i]])
  BY DEF OpsInv, PayloadOf
<1> DEFINE fields == [evaluation_id |-> EvaluationIds[i]]
<1>2. shape \in {"nested", "flat", "untyped"}
  BY FlowAssumption
<1>3. /\ fields = [x \in DOMAIN fields |-> fields[x]]
      /\ \A name \in {"chat", "evaluation", "input_wizard", "result_type"} :
            name \notin DOMAIN fields
      /\ Get(fields, "evaluation_id") = EvaluationIds[i]
  BY DEF Get
<1>4. ops[i].payload = LaidOut(shape, "evaluation", fields)
  BY <1>1
<1> HIDE DEF fields
<1>5. Get(Projection(LaidOut(shape, "evaluation", fields)), "evaluation_id")
        = Get(fields, "evaluation_id")
  BY <1>2, <1>3, <1>4, ResultRead
<1>6. i \in 1 .. MaxOperations
  BY FlowAssumption DEF OpsInv
<1> QED
  BY <1>3, <1>4, <1>5, <1>6, FlowAssumption

(* Chats are named by the server. *)
LEMMA ChatsAreNamed ==
    ASSUME OpsInv, NEW i \in DOMAIN ops, ops[i].request.route = "chat"
    PROVE  /\ i \in 1 .. MaxOperations
           /\ ChatIdOf(i) \in Text
           /\ ops[i].request.chat_id # None => ChatIdOf(i) = ops[i].request.chat_id
<1>1. i \in 1 .. MaxOperations
  BY FlowAssumption DEF OpsInv
<1>2. ops[i].request.chat_id = None \/ ops[i].request.chat_id \in Text
  <2>1. Filing(ops[i])
    BY DEF OpsInv
  <2>2. FiledAsOpening(ops[i]) \/ FiledAsChat(ops[i]) \/ FiledAsFollowUp(ops[i])
    BY <2>1, RoutesFiled DEF Filing
  <2>3. CASE FiledAsOpening(ops[i])
    BY <2>3 DEF FiledAsOpening, OpeningRequest, ChatRequest
  <2>4. CASE FiledAsChat(ops[i])
    <3>1. PICK u \in used : ops[i].request = ChatRequest(ops[i].request.message, None, u.model)
      BY <2>4 DEF FiledAsChat
    <3> QED
      BY <3>1 DEF ChatRequest
  <2>5. CASE FiledAsFollowUp(ops[i])
    BY <2>5 DEF FiledAsFollowUp
  <2> QED
    BY <2>2, <2>3, <2>4, <2>5
<1>3. ChatIds[i] \in Text
  BY <1>1, FlowAssumption
<1> QED
  BY <1>1, <1>2, <1>3 DEF ChatIdOf

LEMMA ChatsNamed ==
    ASSUME OpsInv, NEW i \in DOMAIN ops, ops[i].turn # None
    PROVE  /\ ops[i].turn.chat_id \in Text
           /\ ops[i].request.chat_id # None => ops[i].turn.chat_id = ops[i].request.chat_id
BY TurnsMade, ChatsAreNamed

-----------------------------------------------------------------------------
(* What programs do with results *)

LEMMA ScriptsOf ==
    ASSUME NEW p, p \in Locals, p.script # None
    PROVE  p.script \in {"end_to_end", "chat_turn", "external"}
BY FlowAssumption DEF Locals

(* A program that waits, or goes on to the evaluation's details, works for *)
(* one of the four steps, under its script.                                *)
LEMMA StepsOf ==
    ASSUME NEW p, Known(p), p.pc \notin {"idle", "start", "done"}
    PROVE  /\ p.outcome = "pending"
           /\ p.script \in {"end_to_end", "chat_turn", "external"}
           /\ p.step \in Steps
           /\ p.step = "wizard" => p.script = "end_to_end"
           /\ p.step = "opening" => p.script = "chat_turn"
           /\ p.step \in {"chat", "evaluation"} => p.script \in {"end_to_end", "chat_turn"}
           /\ p.step = "external" => p.script = "external"
           /\ p.script = "chat_turn" => p.run = Example
           /\ p.script = "external" => p.run = Example
           /\ p.script = "end_to_end" =>
                 [run |-> p.run, prompt |-> p.prompt, model |-> p.model] \in used
<1>1. p \in Locals /\ Course(p) /\ OnRecord(p)
  BY DEF Known
<1>2. p.script # None /\ p.outcome = "pending"
  BY <1>1 DEF Course
<1>3. p.script \in {"end_to_end", "chat_turn", "external"}
  BY <1>1, <1>2, ScriptsOf
<1> QED
  BY <1>1, <1>2, <1>3, NoneIsNoWord DEF Course, OnRecord, Steps

LEMMA WizardReturned ==
    ASSUME OpsInv, NEW p, ProgramInv(p), p.pc = "wait", p.step = "wizard",
           ops[p.op].status \in Terminal,
           ops[p.op].payload # None => ResultOK(Projection(ops[p.op].payload)),
           NEW message, message = MessageOf(ops[p.op].payload, p.prompt)
    PROVE  ProgramInv(AtChat(p, message))
<1>1. /\ p \in Locals /\ Course(p) /\ OnRecord(p) /\ ChatKnown(p) /\ Known(p)
      /\ Waiting(p)
  BY DEF ProgramInv, Known
<1>2. /\ p.script = "end_to_end" /\ p.outcome = "pending"
      /\ [run |-> p.run, prompt |-> p.prompt, model |-> p.model] \in used
  BY <1>1, StepsOf
<1>3. /\ p.op \in DOMAIN ops /\ ops[p.op].key = WizardKey(p.run)
      /\ ops[p.op].request = [route |-> "input_wizard", prompt |-> p.prompt]
  BY <1>1 DEF Waiting, KeyOf, RequestOf
<1>4. p.prompt \in Text
  BY <1>1, <1>2, ConstantsApart DEF Course
<1>5. message \in Text
  <2>1. ops[p.op].request.route = "input_wizard"
    BY <1>3
  <2> QED
    BY <1>3, <1>4, <2>1, WizardResult DEF MessageOf, Falsy
<1>6. WizardDone(p.run, p.prompt, message)
  BY <1>3 DEF WizardDone
<1> DEFINE q == AtChat(p, message)
<1>7. /\ q \in Locals
      /\ q.script = p.script /\ q.run = p.run /\ q.prompt = p.prompt /\ q.pc = "create"
      /\ q.step = "chat" /\ q.op = p.op /\ q.model = p.model /\ q.message = message
      /\ q.chatId = p.chatId /\ q.turnId = p.turnId /\ q.chatOp = p.chatOp
      /\ q.turn = p.turn /\ q.response = p.response /\ q.outcome = p.outcome
  BY <1>1, <1>5, LocalsAtChat
<1> HIDE DEF q
<1>8. Course(q)
  BY <1>1, <1>2, <1>7, NoneIsNoWord DEF Course, Steps
<1>9. OnRecord(q) /\ Source(q) /\ TurnKnown(q)
  BY <1>2, <1>5, <1>6, <1>7 DEF OnRecord, Source, TurnKnown
<1>10. ChatKnown(q)
  BY <1>1, <1>7 DEF ChatKnown, ChatKeyOf
<1>11. Evaluated(q) /\ ErrorHasCause(q) /\ ConflictHasCause(q) /\ Waiting(q)
  BY <1>2, <1>7 DEF Evaluated, ErrorHasCause, ConflictHasCause, Waiting
<1> QED
  BY <1>7, <1>8, <1>9, <1>10, <1>11 DEF ProgramInv, Known, q

LEMMA OpeningReturned ==
    ASSUME OpsInv, NEW p, ProgramInv(p), p.pc = "wait", p.step = "opening",
           ops[p.op].status \in Terminal, ops[p.op].payload # None,
           ResultOK(Projection(ops[p.op].payload)),
           NEW chatId, chatId = Get(Projection(ops[p.op].payload), "chat_id")
    PROVE  ProgramInv(AtFollowUp(p, chatId))
<1>1. /\ p \in Locals /\ Course(p) /\ Known(p) /\ Waiting(p)
  BY DEF ProgramInv, Known
<1>2. p.script = "chat_turn" /\ p.outcome = "pending" /\ p.run = Example /\ p.chatOp = 0
  BY <1>1, StepsOf DEF Course
<1>3. /\ p.op \in DOMAIN ops /\ ops[p.op].key = OpeningKey
      /\ ops[p.op].request = OpeningRequest
  BY <1>1, <1>2 DEF Waiting, KeyOf, RequestOf, OpeningKey
<1>4. ops[p.op].request.route = "chat"
  BY <1>3 DEF OpeningRequest, ChatRequest
<1>5. ops[p.op].turn # None /\ chatId = ops[p.op].turn.chat_id
  BY <1>3, <1>4, ChatResult
<1>6. chatId \in Text
  BY <1>3, <1>5, ChatsNamed
<1>7. PublicId(chatId, "chat_")
  <2>1. chatId # None
    BY <1>6, ConstantsApart
  <2>2. Projection(ops[p.op].payload).chat_id = chatId
    BY <2>1 DEF Get
  <2> QED
    BY <2>1, <2>2 DEF ResultOK
<1>8. OpeningDone(chatId)
  BY <1>3, <1>5 DEF OpeningDone
<1> DEFINE q == AtFollowUp(p, chatId)
<1>9. /\ q \in Locals
      /\ q.script = p.script /\ q.run = p.run /\ q.prompt = p.prompt /\ q.pc = "create"
      /\ q.step = "chat" /\ q.op = p.op /\ q.model = p.model /\ q.message = p.message
      /\ q.chatId = chatId /\ q.turnId = p.turnId /\ q.chatOp = p.chatOp
      /\ q.turn = p.turn /\ q.response = p.response /\ q.outcome = p.outcome
  BY <1>1, <1>6, LocalsAtFollowUp
<1> HIDE DEF q
<1>10. Course(q)
  BY <1>1, <1>2, <1>9 DEF Course
<1>11. OnRecord(q) /\ Source(q) /\ TurnKnown(q) /\ ChatKnown(q)
  BY <1>2, <1>6, <1>7, <1>8, <1>9 DEF OnRecord, Source, TurnKnown, ChatKnown
<1>12. Evaluated(q) /\ ErrorHasCause(q) /\ ConflictHasCause(q) /\ Waiting(q)
  BY <1>2, <1>9 DEF Evaluated, ErrorHasCause, ConflictHasCause, Waiting
<1> QED
  BY <1>9, <1>10, <1>11, <1>12 DEF ProgramInv, Known, q

(* The chat's result names the turn, and the answer or nothing. *)
LEMMA ChatReturned ==
    ASSUME OpsInv, NEW p, ProgramInv(p), p.pc = "wait", p.step = "chat",
           ops[p.op].payload # None, ResultOK(Projection(ops[p.op].payload)),
           NEW chatId, NEW turnId, NEW response,
           p.script = "chat_turn" => chatId = p.chatId,
           p.script # "chat_turn" => chatId = Get(Projection(ops[p.op].payload), "chat_id"),
           turnId = Get(Projection(ops[p.op].payload), "turn_id"),
           \/ response = None
           \/ response = Get(Projection(ops[p.op].payload), "model_response_id")
           \/ /\ ResponseIds(Projection(ops[p.op].payload)) # <<>>
              /\ response = Head(ResponseIds(Projection(ops[p.op].payload)))
    PROVE  ProgramInv(AtMessages(p, chatId, turnId, response))
<1> DEFINE content == ops[p.op].turn.content
<1>1. /\ p \in Locals /\ Course(p) /\ OnRecord(p) /\ Source(p) /\ Known(p) /\ Waiting(p)
  BY DEF ProgramInv, Known
<1>2. p.script \in {"end_to_end", "chat_turn"} /\ p.outcome = "pending"
  BY <1>1, StepsOf
<1>3. /\ p.op \in DOMAIN ops /\ ops[p.op].key = ChatKeyOf(p)
      /\ ops[p.op].request = IF p.script = "chat_turn"
                             THEN ChatRequest(<<"follow_up_message">>, p.chatId, None)
                             ELSE ChatRequest(p.message, None, p.model)
  BY <1>1 DEF Waiting, KeyOf, RequestOf
<1>4. /\ ops[p.op].request.route = "chat"
      /\ ops[p.op].request.model = p.model
      /\ p.script = "chat_turn" => ops[p.op].request.chat_id = p.chatId
  BY <1>1, <1>2, <1>3 DEF ChatRequest, Course
<1>5. /\ ops[p.op].turn # None
      /\ turnId = content.turn_id /\ Length(turnId) <= 140
      /\ Get(Projection(ops[p.op].payload), "chat_id") = ops[p.op].turn.chat_id
      /\ Get(Projection(ops[p.op].payload), "model_response_id")
           \in {None, content.model_response_id}
      /\ ResponseIds(Projection(ops[p.op].payload)) \in {<<>>, content.model_response_ids}
  BY <1>3, <1>4, ChatResult
<1>6. /\ content.turn_id \in Text
      /\ content.model_response_id \in Text
      /\ content.model_response_ids = <<content.model_response_id>>
  BY <1>3, <1>5, TurnsMade, ConstantsApart
<1>7. response \in {None, content.model_response_id}
  <2>1. Head(content.model_response_ids) = content.model_response_id
    BY <1>6
  <2> QED
    BY <1>5, <2>1
<1>8. chatId = ops[p.op].turn.chat_id /\ chatId \in Text
  <2>1. /\ ops[p.op].turn.chat_id \in Text
        /\ ops[p.op].request.chat_id # None =>
              ops[p.op].turn.chat_id = ops[p.op].request.chat_id
    BY <1>3, <1>5, ChatsNamed
  <2>2. p.script = "chat_turn" => p.chatId # None
    BY <1>1, ConstantsApart DEF Source
  <2> QED
    BY <1>2, <1>4, <1>5, <2>1, <2>2
<1> DEFINE q == AtMessages(p, chatId, turnId, response)
<1>9. /\ q \in Locals
      /\ q.script = p.script /\ q.run = p.run /\ q.prompt = p.prompt /\ q.pc = "messages"
      /\ q.step = p.step /\ q.op = p.op /\ q.model = p.model /\ q.message = p.message
      /\ q.chatId = chatId /\ q.turnId = turnId /\ q.chatOp = p.op /\ q.turn = p.turn
      /\ q.response = response /\ q.outcome = p.outcome
  <2>1. turnId \in Text /\ response \in Text \cup {None}
    BY <1>5, <1>6, <1>7
  <2>2. q = AtMessages(p, chatId, turnId, response)
    OBVIOUS
  <2>3. p \in Locals /\ chatId \in Text
    BY <1>1, <1>8
  <2> HIDE DEF q, content
  <2> QED
    BY <2>1, <2>2, <2>3, LocalsAtMessages
<1> HIDE DEF q
<1>10. Course(q)
  <2>1. p.op # 0
    BY <1>3 DEF OpsInv
  <2> QED
    BY <1>1, <1>2, <1>9, <2>1 DEF Course
<1>11. OnRecord(q) /\ Source(q) /\ TurnKnown(q)
  BY <1>1, <1>9 DEF OnRecord, Source, TurnKnown
<1>12. ChatKnown(q)
  BY <1>3, <1>4, <1>5, <1>7, <1>8, <1>9 DEF ChatKnown, ChatKeyOf
<1>13. Evaluated(q) /\ ErrorHasCause(q) /\ ConflictHasCause(q) /\ Waiting(q)
  BY <1>2, <1>9 DEF Evaluated, ErrorHasCause, ConflictHasCause, Waiting
<1> QED
  BY <1>9, <1>10, <1>11, <1>12, <1>13 DEF ProgramInv, Known, q

-----------------------------------------------------------------------------
(* The turn on a page *)

LEMMA WithinBound ==
    ASSUME NEW text, NEW m \in Nat, Length(text) \in Nat, Length(text) > 0, Length(text) <= m
    PROVE  Between(text, 1, m)
  BY DEF Between

LEMMA SentWords ==
    ASSUME NEW word \in {"first_message", "follow_up_message", "question", "reply"}
    PROVE  <<word>> \in Text /\ Between(<<word>>, 1, 20000)
<1>1. word \in Symbols /\ Width[word] <= 20000
  BY WordsAssumption
<1>2. Width[word] \in Nat \ {0}
  BY <1>1, SymbolsAssumption
<1>3. <<word>> \in Text /\ Length(<<word>>) = Width[word]
  BY <1>1, LengthOfSymbol
<1> DEFINE text == <<word>>
<1>4. Length(text) \in Nat /\ Length(text) > 0 /\ Length(text) <= 20000
  BY <1>1, <1>2, <1>3
<1> HIDE DEF text
<1>5. Between(text, 1, 20000)
  BY <1>4, WithinBound
<1> QED
  BY <1>3, <1>5 DEF text

LEMMA FirstPagesShow ==
    ASSUME OpsInv, NEW chatId, NEW page \in FirstPages(chatId)
    PROVE  /\ Len(page) \in Nat /\ DOMAIN page = 1 .. Len(page)
           /\ \A k \in 1 .. Len(page) :
                 \E j \in DOMAIN ops : ops[j].turn # None /\ page[k] = ops[j].turn.content
<1> DEFINE size == Min({PageLimit, Cardinality(Turns(chatId))})
           S == {ops[j].turn.content : j \in Turns(chatId)}
<1>1. Cardinality(Turns(chatId)) \in Nat
  <2>1. Len(ops) \in Nat /\ DOMAIN ops = 1 .. Len(ops)
    BY DEF OpsInv
  <2>2. IsFiniteSet(1 .. Len(ops))
    BY <2>1, FS_Interval
  <2>3. Turns(chatId) \subseteq 1 .. Len(ops)
    BY <2>1 DEF Turns
  <2>4. IsFiniteSet(Turns(chatId))
    BY <2>2, <2>3, FS_Subset
  <2> QED
    BY <2>4, FS_CardinalityType
<1>2. size \in Nat
  <2>1. {PageLimit, Cardinality(Turns(chatId))} \subseteq Nat
    BY <1>1, FlowAssumption
  <2> QED
    BY <2>1, LeastNumber
<1>3. PICK p \in [1 .. size -> Turns(chatId)] :
        page = [k \in 1 .. size |-> ops[p[k]].turn.content]
  BY DEF FirstPages
<1> HIDE DEF size
<1>4. \A k \in 1 .. size : p[k] \in Turns(chatId) /\ page[k] = ops[p[k]].turn.content
  BY <1>3
<1>5. page \in [1 .. size -> S]
  BY <1>3
<1> HIDE DEF S
<1>6. page \in Seq(S) /\ Len(page) = size /\ DOMAIN page = 1 .. size
  BY <1>2, <1>5
<1> QED
  BY <1>2, <1>4, <1>6 DEF Turns

LEMMA MessagesSent ==
    ASSUME OpsInv, NEW i \in DOMAIN ops, ops[i].request.route = "chat"
    PROVE  ops[i].request.message \in Text /\ Between(ops[i].request.message, 1, 20000)
<1>1. Filing(ops[i])
  BY DEF OpsInv
<1>2. FiledAsOpening(ops[i]) \/ FiledAsChat(ops[i]) \/ FiledAsFollowUp(ops[i])
  BY <1>1, RoutesFiled DEF Filing
<1>3. ASSUME NEW word \in {"first_message", "follow_up_message"}
      PROVE  <<word>> \in Text /\ Between(<<word>>, 1, 20000)
  BY SentWords
<1>4. CASE FiledAsOpening(ops[i])
  BY <1>3, <1>4 DEF FiledAsOpening, OpeningRequest, ChatRequest
<1>5. CASE FiledAsChat(ops[i])
  BY <1>5 DEF FiledAsChat
<1>6. CASE FiledAsFollowUp(ops[i])
  <2>1. ops[i].request.message = <<"follow_up_message">>
    BY <1>6 DEF FiledAsFollowUp, ChatRequest
  <2> QED
    BY <1>3, <2>1
<1> QED
  BY <1>2, <1>4, <1>5, <1>6

(* The turn that is found is the one the id names (main, line 49). *)
LEMMA TurnFound ==
    ASSUME OpsInv, NEW chatId, NEW page \in FirstPages(chatId), NEW turnId,
           NEW c \in DOMAIN ops, ops[c].turn # None, turnId = ops[c].turn.content.turn_id,
           FindTurn(page, turnId) # None
    PROVE  /\ FindTurn(page, turnId) = ops[c].turn.content
           /\ \E k \in DOMAIN page : FindTurn(page, turnId) = page[k]
<1> DEFINE found == SelectInSeq(page, LAMBDA turn : turn.turn_id = turnId)
           I     == {k \in 1 .. Len(page) : page[k].turn_id = turnId}
<1>1. found # 0 /\ FindTurn(page, turnId) = page[found]
  BY DEF FindTurn
<1>2. found \in 1 .. Len(page) /\ page[found].turn_id = turnId
  <2>1. found = IF I # {} THEN Min(I) ELSE 0
    BY DEF SelectInSeq
  <2>2. Len(page) \in Nat
    BY FirstPagesShow
  <2>3. I \subseteq Nat
    BY <2>2
  <2> HIDE DEF found
  <2>4. found \in I
    BY <1>1, <2>1, <2>3, LeastNumber
  <2> QED
    BY <2>4
<1> HIDE DEF found
<1>3. PICK j \in DOMAIN ops : ops[j].turn # None /\ page[found] = ops[j].turn.content
  BY <1>2, FirstPagesShow
<1>4. PICK a \in ChatOutcomes[j] : a.turnId = ops[j].turn.content.turn_id
  BY <1>3, TurnsMade
<1>5. PICK b \in ChatOutcomes[c] : b.turnId = ops[c].turn.content.turn_id
  BY TurnsMade
<1>6. j \in 1 .. MaxOperations /\ c \in 1 .. MaxOperations
  BY <1>3, TurnsMade
<1>7. j = c
  BY <1>2, <1>3, <1>4, <1>5, <1>6, TurnIdsAssumption
<1>8. DOMAIN page = 1 .. Len(page)
  BY FirstPagesShow
<1> QED
  BY <1>1, <1>2, <1>3, <1>7, <1>8

(* The turn and its answer, once found, are what is evaluated. *)
LEMMA MessagesRead ==
    ASSUME OpsInv, NEW p, ProgramInv(p), p.pc = "messages",
           NEW page \in FirstPages(p.chatId), MessagesOK(p.chatId, page),
           NEW turn, turn = FindTurn(page, p.turnId), turn # None,
           NEW response, response \notin Falsy,
           response = IF p.response \notin Falsy THEN p.response ELSE turn.model_response_id
    PROVE  ProgramInv(AtEvaluation(p, turn, response))
<1> DEFINE content == ops[p.chatOp].turn.content
<1>1. /\ p \in Locals /\ Course(p) /\ OnRecord(p) /\ Source(p) /\ ChatKnown(p) /\ Known(p)
  BY DEF ProgramInv, Known
<1>2. /\ p.script \in {"end_to_end", "chat_turn"} /\ p.outcome = "pending"
      /\ p.step = "chat" /\ p.chatOp # 0
  BY <1>1, StepsOf DEF Course
<1>3. /\ p.chatOp \in DOMAIN ops /\ ops[p.chatOp].turn # None
      /\ ops[p.chatOp].key = ChatKeyOf(p) /\ ops[p.chatOp].request.model = p.model
      /\ p.chatId = ops[p.chatOp].turn.chat_id
      /\ p.turnId = content.turn_id /\ Length(p.turnId) <= 140
      /\ p.response \in {None, <<>>, content.model_response_id}
  BY <1>1, <1>2 DEF ChatKnown
<1>4. turn = content /\ \E k \in DOMAIN page : turn = page[k]
  BY <1>3, TurnFound
<1>5. response = content.model_response_id
  <2>1. turn.model_response_id = content.model_response_id
    BY <1>4, Zenon
  <2>2. p.response \in Falsy \/ p.response = content.model_response_id
    BY <1>3, Zenon DEF Falsy
  <2> HIDE DEF content
  <2> QED
    BY <2>1, <2>2
<1>6. /\ content.turn_id \in Text /\ content.model_answer \in Text
      /\ content.model_response_id \in Text
      /\ content.user_message = ops[p.chatOp].request.message
      /\ content.model_response_ids = <<content.model_response_id>>
      /\ content = [turn_id |-> content.turn_id,
                    user_message |-> ops[p.chatOp].request.message,
                    model_answer |-> content.model_answer,
                    model_response_id |-> content.model_response_id,
                    model_response_ids |-> <<content.model_response_id>>]
  <2>1. content.model_response_id \in Responses
    BY <1>3, TurnsMade
  <2> QED
    BY <1>3, <2>1, TurnsMade, ConstantsApart
<1>7. ops[p.chatOp].request.message \in Text
  <2>1. ops[p.chatOp].request.route = "chat"
    BY <1>3, TurnsMade
  <2> QED
    BY <1>3, <2>1, MessagesSent
<1>8. content \in ChatTurn
  <2>1. <<content.model_response_id>> \in Seq(Text)
    BY <1>6
  <2> DEFINE written ==
               [turn_id |-> content.turn_id, user_message |-> ops[p.chatOp].request.message,
                model_answer |-> content.model_answer,
                model_response_id |-> content.model_response_id,
                model_response_ids |-> <<content.model_response_id>>]
  <2>2. written \in ChatTurn
    <3> HIDE DEF content
    <3> QED
      BY <1>6, <1>7, <2>1 DEF ChatTurn
  <2>3. content = written
    BY <1>6
  <2> HIDE DEF written, content
  <2> QED
    BY <2>2, <2>3
<1>9. PublicId(p.chatId, "chat_") /\ Between(response, 1, 140)
  <2>1. PublicId(p.chatId, "chat_") /\ ChatTurnOK(content)
    BY <1>4 DEF MessagesOK
  <2>2. Optional(content.model_response_id, 0, 140) /\ content.model_response_id # None
    <3>1. Optional(content.model_response_id, 0, 140)
      BY <2>1, Zenon DEF ChatTurnOK
    <3>2. content.model_response_id \in Text
      BY <1>6, Zenon
    <3>3. content.model_response_id # None
      BY <3>2, ConstantsApart, Zenon
    <3> QED
      BY <3>1, <3>3, Zenon
  <2>3. Length(response) \in 0 .. 140
    BY <1>5, <2>2 DEF Optional, Between
  <2>4. Length(response) > 0
    BY <1>5, <1>6, LengthOfText DEF Falsy
  <2> QED
    BY <2>1, <2>3, <2>4 DEF Between
<1> DEFINE q == AtEvaluation(p, turn, response)
<1>10. /\ q \in Locals
       /\ q.script = p.script /\ q.run = p.run /\ q.prompt = p.prompt /\ q.pc = "create"
       /\ q.step = "evaluation" /\ q.op = p.op /\ q.model = p.model /\ q.message = p.message
       /\ q.chatId = p.chatId /\ q.turnId = p.turnId /\ q.chatOp = p.chatOp /\ q.turn = turn
       /\ q.response = response /\ q.outcome = p.outcome
  <2>1. turn \in ChatTurn /\ response \in Text
    BY <1>4, <1>5, <1>6, <1>8
  <2>2. q = AtEvaluation(p, turn, response)
    OBVIOUS
  <2> HIDE DEF q, content
  <2> QED
    BY <1>1, <2>1, <2>2, LocalsAtEvaluation
<1> HIDE DEF q
<1>11. Course(q)
  BY <1>1, <1>2, <1>10, NoneIsNoWord DEF Course, Steps
<1>12. OnRecord(q)
  BY <1>1, <1>2, <1>10, NoneIsNoWord DEF OnRecord, Steps
<1>13. Source(q)
  BY <1>1, <1>2, <1>10 DEF Source
<1>14. ChatKnown(q)
  BY <1>3, <1>5, <1>10 DEF ChatKnown, ChatKeyOf
<1>15. TurnKnown(q)
  BY <1>4, <1>5, <1>9, <1>10 DEF TurnKnown
<1>16. Evaluated(q) /\ ErrorHasCause(q) /\ ConflictHasCause(q) /\ Waiting(q)
  BY <1>2, <1>10 DEF Evaluated, ErrorHasCause, ConflictHasCause, Waiting
<1> QED
  BY <1>10, <1>11, <1>12, <1>13, <1>14, <1>15, <1>16 DEF ProgramInv, Known, q

-----------------------------------------------------------------------------
(* The end of a program, and the beginning of its work *)

LEMMA SameKeyAndRequest ==
    ASSUME NEW p, NEW q, q.script = p.script, q.run = p.run, q.prompt = p.prompt,
           q.step = p.step, q.model = p.model, q.message = p.message, q.chatId = p.chatId,
           q.turn = p.turn, q.response = p.response
    PROVE  KeyOf(q) = KeyOf(p) /\ RequestOf(q) = RequestOf(p)
BY DEF KeyOf, ChatKeyOf, RequestOf

LEMMA EvaluationAsked ==
    ASSUME NEW p, Known(p), p.pc = "wait", Waiting(p), p.step \in {"evaluation", "external"}
    PROVE  p.op \in DOMAIN ops /\ ops[p.op].request.route = "evaluate"
<1>1. p.op \in DOMAIN ops /\ ops[p.op].request = RequestOf(p)
  BY DEF Waiting
<1>2. RequestOf(p).route = "evaluate"
  <2>1. CASE p.step = "external"
    <3>1. RequestOf(p) = ExternalRequest
      BY <2>1 DEF RequestOf
    <3> QED
      BY <3>1 DEF ExternalRequest
  <2>2. CASE p.step = "evaluation"
    <3>1. RequestOf(p) =
              [route |-> "evaluate", user_message |-> p.turn.user_message,
               ai_answer |-> p.turn.model_answer, external_id |-> None,
               chat_id |-> p.chatId, model_response_id |-> p.response,
               turn_id |-> p.turn.turn_id]
      BY <2>2, SMTT(20) DEF RequestOf
    <3> QED
      BY <3>1
  <2> QED
    BY <2>1, <2>2
<1> QED
  BY <1>1, <1>2

(* The examples print whatever came out, ... *)
LEMMA ExampleReported ==
    ASSUME OpsInv, NEW p, ProgramInv(p), p.pc = "wait", p.step \in {"evaluation", "external"},
           p.script # "end_to_end",
           ops[p.op].payload # None => ResultOK(Projection(ops[p.op].payload)),
           NEW id,
           id = IF ops[p.op].payload = None THEN None
                ELSE Get(Projection(ops[p.op].payload), "evaluation_id")
    PROVE  ProgramInv(AtReport(p, id))
<1>1. /\ p \in Locals /\ Course(p) /\ OnRecord(p) /\ Source(p) /\ ChatKnown(p) /\ TurnKnown(p)
      /\ Known(p) /\ Waiting(p)
  BY DEF ProgramInv, Known
<1>2. p.op \in DOMAIN ops /\ ops[p.op].request.route = "evaluate"
  BY <1>1, EvaluationAsked
<1>3. id \in Text \cup {None}
  BY <1>2, EvaluationResult
<1> DEFINE q == AtReport(p, id)
<1>4. /\ q \in Locals
      /\ q.script = p.script /\ q.run = p.run /\ q.prompt = p.prompt /\ q.pc = "done"
      /\ q.step = p.step /\ q.op = p.op /\ q.model = p.model /\ q.message = p.message
      /\ q.chatId = p.chatId /\ q.turnId = p.turnId /\ q.chatOp = p.chatOp
      /\ q.turn = p.turn /\ q.response = p.response /\ q.outcome = "reported"
  BY <1>1, <1>3, LocalsAtReport
<1> HIDE DEF q
<1>5. Course(q)
  BY <1>1, <1>4 DEF Course
<1>6. OnRecord(q) /\ Source(q) /\ TurnKnown(q)
  BY <1>1, <1>4 DEF OnRecord, Source, TurnKnown
<1>7. ChatKnown(q)
  BY <1>1, <1>4 DEF ChatKnown, ChatKeyOf
<1>8. Evaluated(q) /\ ErrorHasCause(q) /\ ConflictHasCause(q)
  BY <1>4 DEF Evaluated, ErrorHasCause, ConflictHasCause
<1>9. Waiting(q)
  <2>1. KeyOf(q) = KeyOf(p) /\ RequestOf(q) = RequestOf(p)
    BY <1>4, SameKeyAndRequest
  <2> QED
    BY <1>1, <1>4, <2>1 DEF Waiting
<1> QED
  BY <1>4, <1>5, <1>6, <1>7, <1>8, <1>9 DEF ProgramInv, Known, q

(* ... the program of this module looks it up first, ... *)
LEMMA EvaluationReturned ==
    ASSUME OpsInv, NEW p, ProgramInv(p), p.pc = "wait", p.step \in {"evaluation", "external"},
           p.script = "end_to_end",
           ops[p.op].payload # None, ResultOK(Projection(ops[p.op].payload)),
           NEW id, id = Get(Projection(ops[p.op].payload), "evaluation_id")
    PROVE  ProgramInv(AtDetail(p, id))
<1>1. /\ p \in Locals /\ Course(p) /\ OnRecord(p) /\ Source(p) /\ ChatKnown(p) /\ TurnKnown(p)
      /\ Known(p) /\ Waiting(p)
  BY DEF ProgramInv, Known
<1>2. p.op \in DOMAIN ops /\ ops[p.op].request.route = "evaluate"
  BY <1>1, EvaluationAsked
<1>3. id = EvaluationIds[p.op] /\ id \in Text
  BY <1>2, EvaluationResult
<1>4. p.step = "evaluation" /\ p.outcome = "pending"
  BY <1>1, StepsOf
<1> DEFINE q == AtDetail(p, id)
<1>5. /\ q \in Locals
      /\ q.script = p.script /\ q.run = p.run /\ q.prompt = p.prompt /\ q.pc = "detail"
      /\ q.step = p.step /\ q.op = p.op /\ q.model = p.model /\ q.message = p.message
      /\ q.chatId = p.chatId /\ q.turnId = p.turnId /\ q.chatOp = p.chatOp
      /\ q.turn = p.turn /\ q.response = p.response /\ q.evaluationId = id
      /\ q.outcome = p.outcome
  BY <1>1, <1>3, LocalsAtDetail
<1> HIDE DEF q
<1>6. Course(q)
  BY <1>1, <1>4, <1>5 DEF Course
<1>7. OnRecord(q) /\ Source(q) /\ TurnKnown(q)
  BY <1>1, <1>5 DEF OnRecord, Source, TurnKnown
<1>8. ChatKnown(q)
  BY <1>1, <1>5 DEF ChatKnown, ChatKeyOf
<1>9. Evaluated(q) /\ ErrorHasCause(q) /\ ConflictHasCause(q)
  BY <1>3, <1>4, <1>5 DEF Evaluated, ErrorHasCause, ConflictHasCause
<1>10. Waiting(q)
  <2>1. KeyOf(q) = KeyOf(p) /\ RequestOf(q) = RequestOf(p)
    BY <1>5, SameKeyAndRequest
  <2> QED
    BY <1>1, <1>5, <2>1 DEF Waiting
<1> QED
  BY <1>5, <1>6, <1>7, <1>8, <1>9, <1>10 DEF ProgramInv, Known, q

(* ... and reports then. *)
LEMMA DetailReported ==
    ASSUME NEW p, ProgramInv(p), p.pc = "detail"
    PROVE  ProgramInv(AtEnd(p, "reported"))
<1>1. /\ p \in Locals /\ Course(p) /\ OnRecord(p) /\ Source(p) /\ ChatKnown(p) /\ TurnKnown(p)
      /\ Evaluated(p) /\ Waiting(p)
  BY DEF ProgramInv, Known
<1> DEFINE q == AtEnd(p, "reported")
<1>2. /\ q \in Locals
      /\ q.script = p.script /\ q.run = p.run /\ q.prompt = p.prompt
      /\ q.step = p.step /\ q.op = p.op /\ q.model = p.model
      /\ q.message = p.message /\ q.chatId = p.chatId /\ q.turnId = p.turnId
      /\ q.chatOp = p.chatOp /\ q.turn = p.turn /\ q.response = p.response
      /\ q.evaluationId = p.evaluationId /\ q.pc = "done" /\ q.outcome = "reported"
  BY <1>1, LocalsAtEnd, NoneIsNoWord
<1> HIDE DEF q
<1>3. Course(q)
  BY <1>1, <1>2 DEF Course
<1>4. OnRecord(q) /\ Source(q) /\ TurnKnown(q) /\ Evaluated(q)
  BY <1>1, <1>2 DEF OnRecord, Source, TurnKnown, Evaluated
<1>5. ChatKnown(q)
  BY <1>1, <1>2 DEF ChatKnown, ChatKeyOf
<1>6. ErrorHasCause(q) /\ ConflictHasCause(q)
  BY <1>2 DEF ErrorHasCause, ConflictHasCause
<1>7. Waiting(q)
  <2>1. KeyOf(q) = KeyOf(p) /\ RequestOf(q) = RequestOf(p)
    BY <1>2, SameKeyAndRequest
  <2> QED
    BY <1>1, <1>2, <2>1 DEF Waiting
<1> QED
  BY <1>2, <1>3, <1>4, <1>5, <1>6, <1>7 DEF ProgramInv, Known, q

(* A program is put on record with the model it works with. *)
LEMMA ModelSelected ==
    ASSUME NEW p, ProgramInv(p), p.pc = "start", NEW model \in Text,
           [run |-> p.run, prompt |-> p.prompt, model |-> model] \in used'
    PROVE  ProgramInv(AtWizard(p, model))'
<1>1. p \in Locals /\ Course(p)
  BY DEF ProgramInv, Known
<1>2. /\ p.script = "end_to_end" /\ p.chatOp = 0 /\ p.outcome = "pending"
  BY <1>1 DEF Course
<1> DEFINE q == AtWizard(p, model)
<1>3. /\ q \in Locals
      /\ q.script = p.script /\ q.run = p.run /\ q.prompt = p.prompt /\ q.pc = "create"
      /\ q.step = "wizard" /\ q.model = model /\ q.chatOp = p.chatOp
      /\ q.outcome = p.outcome
  BY <1>1, LocalsAtWizard
<1> HIDE DEF q
<1>4. Course(q)
  BY <1>1, <1>2, <1>3, NoneIsNoWord DEF Course, Steps
<1>5. OnRecord(q)'
  BY <1>2, <1>3 DEF OnRecord
<1>6. Source(q)' /\ TurnKnown(q)' /\ ChatKnown(q)'
  BY <1>2, <1>3 DEF Source, TurnKnown, ChatKnown
<1>7. Evaluated(q)' /\ ErrorHasCause(q)' /\ ConflictHasCause(q)' /\ Waiting(q)'
  BY <1>2, <1>3 DEF Evaluated, ErrorHasCause, ConflictHasCause, Waiting
<1> QED
  BY <1>3, <1>4, <1>5, <1>6, <1>7 DEF ProgramInv, Known, q

-----------------------------------------------------------------------------
(* Local errors *)

(* chat_ and 3 to 128 characters more. *)
LEMMA PublicIdFits ==
    ASSUME NEW s \in Text, PublicId(s, "chat_")
    PROVE  Between(s, 8, 140)
<1>1. /\ s # <<>> /\ Head(s) = "chat_" /\ Between(Tail(s), 3, 128)
  BY DEF PublicId
<1>2. s = <<Head(s)>> \o Tail(s) /\ Tail(s) \in Text
  BY <1>1 DEF Text
<1>3. "chat_" \in Symbols /\ Width["chat_"] = 5
  BY WordsAssumption
<1>4. <<"chat_">> \in Text /\ Length(<<"chat_">>) = 5
  BY <1>3, LengthOfSymbol
<1>5. Length(s) = 5 + Length(Tail(s))
  <2> DEFINE head == <<"chat_">>
             rest == Tail(s)
  <2>1. s = head \o rest /\ rest \in Text /\ head \in Text /\ Length(head) = 5
    BY <1>1, <1>2, <1>4
  <2> HIDE DEF head, rest
  <2>2. Length(head \o rest) = Length(head) + Length(rest)
    BY <2>1, LengthOfConcat
  <2> QED
    BY <2>1, <2>2 DEF rest
<1> DEFINE n == Length(Tail(s))
<1>6. n \in 3 .. 128
  BY <1>1 DEF Between
<1> HIDE DEF n
<1>7. 5 + n \in 8 .. 140
  BY <1>6
<1> QED
  BY <1>5, <1>7 DEF Between, n

(* What fits the bounds of a message fits those of an evaluation.          *)
LEMMA FitsMore ==
    ASSUME NEW s, NEW m \in Nat, NEW n \in Nat, m <= n, Between(s, 1, m)
    PROVE  Between(s, 1, n)
<1>1. \A k \in 1 .. m : k \in 1 .. n
  OBVIOUS
<1>2. Length(s) \in 1 .. m
  BY DEF Between
<1>3. Length(s) \in 1 .. n
  BY <1>1, <1>2, Zenon
<1> QED
  BY <1>3 DEF Between

LEMMA MessageFits ==
    ASSUME NEW s, Between(s, 1, 20000)
    PROVE  Between(s, 1, 40000)
BY FitsMore

(* No run id of at most 100 characters makes a key that is not valid.      *)
LEMMA KeyErrorHasCause ==
    ASSUME OpsInv, UsedInv, NEW p, Known(p), p.pc = "create", ~ValidKey(KeyOf(p))
    PROVE  Length(p.run) > 100
<1>1. p \in Locals /\ Course(p) /\ OnRecord(p) /\ ChatKnown(p) /\ TurnKnown(p)
  BY DEF Known
<1>2. p.run \in Text /\ Length(p.run) \in Nat
  <2>1. p.run \in Text
    BY <1>1 DEF Locals
  <2> QED
    BY <2>1, LengthOfText
<1> SUFFICES ASSUME Length(p.run) <= 100 PROVE FALSE
  BY <1>2
<1>3. /\ ValidKey(WizardKey(p.run))
      /\ \A id \in Text : Length(id) <= 140 =>
            ValidKey(ChatKey(p.run, id)) /\ ValidKey(EvaluationKey(p.run, id))
      /\ \A name \in KeyWords : ValidKey(ExampleKey(p.run, name))
  BY <1>2, KeysFit
<1>4. /\ "chat-eval-first-turn" \in KeyWords /\ "chat-eval-follow-up" \in KeyWords
      /\ "evaluation-chat-turn" \in KeyWords /\ "evaluation-external" \in KeyWords
  BY DEF KeyWords
<1>5. /\ p.step \in Steps
      /\ p.step \in {"chat", "evaluation"} => p.script \in {"end_to_end", "chat_turn"}
      /\ p.script = "end_to_end" =>
            [run |-> p.run, prompt |-> p.prompt, model |-> p.model] \in used
  BY StepsOf
<1>6. CASE p.step \in {"wizard", "opening", "external"}
  BY <1>3, <1>4, <1>6 DEF KeyOf
<1>7. CASE p.step \in {"chat", "evaluation"} /\ p.script = "chat_turn"
  BY <1>3, <1>4, <1>7 DEF KeyOf, ChatKeyOf
<1>8. CASE p.step = "chat" /\ p.script = "end_to_end"
  <2>1. p.model \in Models /\ Between(p.model, 1, 140)
    BY <1>5, <1>8 DEF UsedInv
  <2>2. p.model \in Text /\ Length(p.model) <= 140
    BY <2>1, ConstantsApart DEF Between
  <2> QED
    BY <1>3, <1>8, <2>2 DEF KeyOf, ChatKeyOf
<1>9. CASE p.step = "evaluation" /\ p.script = "end_to_end"
  <2>1. Between(p.response, 1, 140)
    BY <1>1, <1>9 DEF TurnKnown
  <2>2. p.response \in Text
    <3>1. p.chatOp \in DOMAIN ops /\ ops[p.chatOp].turn # None
      BY <1>1, <1>9 DEF Course, ChatKnown
    <3>2. ops[p.chatOp].turn.content.model_response_id \in Responses
      BY <3>1, TurnsMade
    <3> QED
      BY <1>1, <1>9, <3>2, ConstantsApart DEF TurnKnown
  <2>3. Length(p.response) <= 140
    BY <2>1 DEF Between
  <2> QED
    BY <1>3, <1>9, <2>2, <2>3 DEF KeyOf
<1> QED
  BY <1>5, <1>6, <1>7, <1>8, <1>9 DEF Steps

LEMMA PromptRejected ==
    ASSUME NEW p, Known(p), p.pc = "create", p.step = "wizard",
           ~InputWizardRequestOK(RequestOf(p))
    PROVE  ErrorHasCause(AtEnd(p, "ValidationError"))
<1>1. p \in Locals /\ Course(p) /\ p.script = "end_to_end"
  BY StepsOf DEF Known
<1>2. p.prompt # None
  BY <1>1, ConstantsApart DEF Course
<1>3. ~Between(p.prompt, 1, 20000)
  BY DEF InputWizardRequestOK, RequestOf
<1> DEFINE q == AtEnd(p, "ValidationError")
<1>4. q.prompt = p.prompt /\ q.outcome = "ValidationError"
  BY <1>1, LocalsAtEnd DEF Outcomes
<1> HIDE DEF q
<1> QED
  BY <1>2, <1>3, <1>4 DEF ErrorHasCause, q

LEMMA OpeningAccepted == ChatRequestOK(OpeningRequest)
<1>1. Between(<<"first_message">>, 1, 20000)
  BY SentWords
<1> QED
  BY <1>1 DEF ChatRequestOK, OpeningRequest, ChatRequest, OptionalChatId, Optional, ModelModeOK

(* A chat request fails for its message only. *)
LEMMA ChatRejected ==
    ASSUME UsedInv, NEW p, Known(p), p.pc = "create", p.step = "chat",
           ~ChatRequestOK(RequestOf(p))
    PROVE  /\ p.script # "chat_turn" /\ ~Between(p.message, 1, 20000)
           /\ ErrorHasCause(AtEnd(p, "ValidationError"))
<1>1. p \in Locals /\ Source(p)
  BY DEF Known
<1>2. /\ p.script \in {"end_to_end", "chat_turn"}
      /\ p.script = "end_to_end" =>
            [run |-> p.run, prompt |-> p.prompt, model |-> p.model] \in used
  BY StepsOf
<1>3. p.script # "chat_turn"
  <2> SUFFICES ASSUME p.script = "chat_turn" PROVE FALSE
    OBVIOUS
  <2>1. Between(p.chatId, 8, 140)
    BY <1>1, PublicIdFits DEF Source
  <2>2. Between(<<"follow_up_message">>, 1, 20000)
    BY SentWords
  <2>3. ChatRequestOK(ChatRequest(<<"follow_up_message">>, p.chatId, None))
    BY <2>1, <2>2 DEF ChatRequestOK, ChatRequest, OptionalChatId, Optional, ModelModeOK
  <2> QED
    BY <2>3 DEF RequestOf
<1>4. p.message \in Text
  BY <1>1, <1>2, <1>3 DEF Source
<1>5. ~Between(p.message, 1, 20000)
  <2> SUFFICES ASSUME Between(p.message, 1, 20000) PROVE FALSE
    OBVIOUS
  <2>1. Between(p.model, 1, 140)
    BY <1>2, <1>3 DEF UsedInv
  <2>2. ChatRequestOK(ChatRequest(p.message, None, p.model))
    BY <2>1 DEF ChatRequestOK, ChatRequest, OptionalChatId, Optional, ModelModeOK
  <2> QED
    BY <1>3, <2>2 DEF RequestOf
<1> DEFINE q == AtEnd(p, "ValidationError")
<1>6. q.message = p.message /\ q.outcome = "ValidationError"
  BY <1>1, LocalsAtEnd DEF Outcomes
<1>7. p.message # None
  BY <1>4, ConstantsApart
<1> HIDE DEF q
<1> QED
  BY <1>3, <1>5, <1>6, <1>7 DEF ErrorHasCause, q

LEMMA ExternalAccepted == EvaluateRequestOK(ExternalRequest)
<1>1. Between(<<"question">>, 1, 20000) /\ Between(<<"reply">>, 1, 20000)
  BY SentWords
<1>2. Between(<<"question">>, 1, 40000) /\ Between(<<"reply">>, 1, 40000)
  BY <1>1, MessageFits
<1>3. Between(<<"example-external-answer-v1">>, 1, 255)
  <2> DEFINE w == Width["example-external-answer-v1"]
  <2>1. "example-external-answer-v1" \in Symbols /\ w <= 255
    BY WordsAssumption
  <2>2. w \in Nat \ {0} /\ Length(<<"example-external-answer-v1">>) = w
    BY <2>1, SymbolsAssumption, LengthOfSymbol
  <2> HIDE DEF w
  <2>3. w \in 1 .. 255
    BY <2>1, <2>2
  <2> QED
    BY <2>2, <2>3 DEF Between
<1> QED
  BY <1>2, <1>3 DEF EvaluateRequestOK, ExternalRequest, OptionalChatId, Optional,
                    EvaluationTargetOK

(* An evaluation fails for what the server answered only. *)
LEMMA EvaluationRejected ==
    ASSUME OpsInv, NEW p, Known(p), p.pc = "create", p.step = "evaluation",
           ~EvaluateRequestOK(RequestOf(p))
    PROVE  ErrorHasCause(AtEnd(p, "ValidationError"))
<1> DEFINE content == ops[p.chatOp].turn.content
<1>1. p \in Locals /\ Course(p) /\ Source(p) /\ ChatKnown(p) /\ TurnKnown(p)
  BY DEF Known
<1>2. /\ p.chatOp # 0 /\ p.chatOp \in DOMAIN ops /\ ops[p.chatOp].turn # None
      /\ p.chatId = ops[p.chatOp].turn.chat_id
      /\ p.turnId = content.turn_id /\ Length(p.turnId) <= 140
      /\ p.turn = content /\ p.response = content.model_response_id
      /\ Between(p.response, 1, 140) /\ PublicId(p.chatId, "chat_")
  BY <1>1 DEF Course, ChatKnown, TurnKnown
<1>3. /\ content.turn_id \in Text /\ content.model_answer \in Text
      /\ content.model_response_id \in Text
      /\ content.user_message = ops[p.chatOp].request.message
      /\ ops[p.chatOp].request.route = "chat"
  <2>1. content.model_response_id \in Responses
    BY <1>2, TurnsMade
  <2> QED
    BY <1>2, <2>1, TurnsMade, ConstantsApart
<1>4. Between(p.turn.user_message, 1, 40000)
  <2>1. Between(ops[p.chatOp].request.message, 1, 20000)
    BY <1>2, <1>3, MessagesSent
  <2> QED
    BY <1>2, <1>3, <2>1, MessageFits
<1>5. Between(p.chatId, 8, 140)
  <2> DEFINE c == p.chatOp
             id == p.chatId
  <2>1. id \in Text
    <3>1. c \in DOMAIN ops /\ ops[c].turn # None /\ id = ops[c].turn.chat_id
      BY <1>2
    <3> HIDE DEF c, id
    <3>2. ops[c].turn.chat_id \in Text
      BY <3>1, ChatsNamed
    <3> QED
      BY <3>1, <3>2, Zenon
  <2>2. PublicId(p.chatId, "chat_")
    BY <1>2, Zenon
  <2> QED
    BY <2>1, <2>2, PublicIdFits
<1>6. p.turn.turn_id # <<>> => Between(p.turn.turn_id, 1, 140)
  <2> DEFINE n == Length(content.turn_id)
  <2>1. n \in Nat /\ (content.turn_id # <<>> => n > 0) /\ n <= 140
    BY <1>2, <1>3, LengthOfText
  <2> HIDE DEF n
  <2>2. content.turn_id # <<>> => n \in 1 .. 140
    BY <2>1
  <2> QED
    BY <1>2, <2>2 DEF Between, n
<1>7. p.turn # None
  BY <1>1 DEF TurnKnown
<1>8. p.response # None
  BY <1>2, <1>3, ConstantsApart
<1>9. \/ ~Between(p.turn.model_answer, 1, 40000)
      \/ p.turn.turn_id = <<>>
      \/ RawOptionalId(p.response, "response_") = <<>>
  <2> SUFFICES ASSUME Between(p.turn.model_answer, 1, 40000), p.turn.turn_id # <<>>,
                      RawOptionalId(p.response, "response_") # <<>>
               PROVE  FALSE
    OBVIOUS
  <2> HIDE DEF content
  <2>1. EvaluateRequestOK(
          [route |-> "evaluate", user_message |-> p.turn.user_message,
           ai_answer |-> p.turn.model_answer, external_id |-> None,
           chat_id |-> p.chatId, model_response_id |-> p.response, turn_id |-> p.turn.turn_id])
    BY <1>2, <1>4, <1>5, <1>6, <1>8
       DEF EvaluateRequestOK, EvaluationTargetOK, OptionalChatId, Optional
  <2> QED
    BY <2>1 DEF RequestOf
<1> DEFINE q == AtEnd(p, "ValidationError")
<1>10. q.turn = p.turn /\ q.response = p.response /\ q.outcome = "ValidationError"
  BY <1>1, LocalsAtEnd DEF Outcomes
<1> HIDE DEF q
<1> QED
  BY <1>7, <1>8, <1>9, <1>10 DEF ErrorHasCause, q

-----------------------------------------------------------------------------
(* Filing *)

(* What the server files when a program asks for it. *)
NewOperation(p) ==
    [run |-> p.run, step |-> p.step, key |-> KeyOf(p), request |-> RequestOf(p),
     status |-> "queued", payload |-> None, turn |-> None]

(* A program files what its step is to be filed as. *)
LEMMA Files ==
    ASSUME OpsInv, UsedInv, NEW p, Known(p), p.pc = "create",
           p.step = "chat" /\ p.script # "chat_turn" => Between(p.message, 1, 20000)
    PROVE  Filing(NewOperation(p))
<1> DEFINE o == NewOperation(p)
           u == [run |-> p.run, prompt |-> p.prompt, model |-> p.model]
<1>1. p \in Locals /\ Course(p) /\ Source(p) /\ ChatKnown(p) /\ TurnKnown(p)
  BY DEF Known
<1>2. /\ p.step \in Steps
      /\ p.step = "wizard" => p.script = "end_to_end"
      /\ p.step = "opening" => p.script = "chat_turn"
      /\ p.step \in {"chat", "evaluation"} => p.script \in {"end_to_end", "chat_turn"}
      /\ p.step = "external" => p.script = "external"
      /\ p.script \in {"chat_turn", "external"} => p.run = Example
      /\ p.script = "end_to_end" => u \in used
  BY StepsOf
<1>3. o.run = p.run /\ o.step = p.step /\ o.key = KeyOf(p) /\ o.request = RequestOf(p)
  BY DEF NewOperation
<1>4. u.run = p.run /\ u.prompt = p.prompt /\ u.model = p.model
  OBVIOUS
<1> HIDE DEF o, u
<1>5. CASE p.step = "wizard"
  <2>1. o.key = WizardKey(p.run) /\ o.request = [route |-> "input_wizard", prompt |-> p.prompt]
    BY <1>3, <1>5 DEF KeyOf, RequestOf
  <2>2. FiledAsWizard(o)
    BY <1>2, <1>3, <1>4, <1>5, <2>1 DEF FiledAsWizard
  <2> QED
    BY <2>2 DEF Filing, o
<1>6. CASE p.step = "opening"
  <2>1. o.key = OpeningKey /\ o.request = OpeningRequest
    BY <1>2, <1>3, <1>6 DEF KeyOf, RequestOf, OpeningKey
  <2>2. FiledAsOpening(o)
    BY <1>2, <1>3, <1>6, <2>1 DEF FiledAsOpening
  <2> QED
    BY <2>2 DEF Filing, o
<1>7. CASE p.step = "chat" /\ p.script # "chat_turn"
  <2>1. o.key = ChatKey(p.run, p.model) /\ o.request = ChatRequest(p.message, None, p.model)
    BY <1>3, <1>7 DEF KeyOf, ChatKeyOf, RequestOf
  <2>2. o.request.message = p.message
    BY <2>1 DEF ChatRequest
  <2>3. p.message \in Text /\ WizardDone(p.run, p.prompt, p.message)
    BY <1>1, <1>2, <1>7 DEF Source
  <2>4. FiledAsChat(o)
    BY <1>2, <1>3, <1>4, <1>7, <2>1, <2>2, <2>3 DEF FiledAsChat
  <2> QED
    BY <2>4 DEF Filing, o
<1>8. CASE p.step = "chat" /\ p.script = "chat_turn"
  <2>1. o.key = FollowUpKey /\ o.request = ChatRequest(<<"follow_up_message">>, p.chatId, None)
    BY <1>2, <1>3, <1>8 DEF KeyOf, ChatKeyOf, RequestOf, FollowUpKey
  <2>2. o.request.chat_id = p.chatId
    BY <2>1 DEF ChatRequest
  <2>3. p.chatId \in Text /\ OpeningDone(p.chatId)
    BY <1>1, <1>8 DEF Source
  <2>4. FiledAsFollowUp(o)
    BY <1>2, <1>3, <1>8, <2>1, <2>2, <2>3 DEF FiledAsFollowUp
  <2> QED
    BY <2>4 DEF Filing, o
<1>9. CASE p.step = "evaluation"
  <2> DEFINE c == p.chatOp
  <2>1. /\ c \in DOMAIN ops /\ ops[c].key = ChatKeyOf(p) /\ ops[c].turn # None
        /\ p.chatId = ops[c].turn.chat_id /\ p.turn = ops[c].turn.content
        /\ p.response = ops[c].turn.content.model_response_id
    BY <1>1, <1>9 DEF Course, ChatKnown, TurnKnown
  <2> HIDE DEF c
  <2>2. o.request = RequestAbout(c) /\ o.request.model_response_id = p.response
    BY <1>3, <1>9, <2>1 DEF RequestOf, RequestAbout
  <2>3. Answered(ChatKeyOf(p), o.request)
    BY <2>1, <2>2 DEF Answered
  <2>4. CASE p.script = "chat_turn"
    <3>1. o.key = TurnEvaluationKey /\ ChatKeyOf(p) = FollowUpKey
      BY <1>2, <1>3, <1>9, <2>4 DEF KeyOf, ChatKeyOf, TurnEvaluationKey, FollowUpKey
    <3>2. FiledAsTurnEvaluation(o)
      BY <1>2, <1>3, <1>9, <2>3, <2>4, <3>1 DEF FiledAsTurnEvaluation
    <3> QED
      BY <3>2 DEF Filing, o
  <2>5. CASE p.script = "end_to_end"
    <3>1. o.key = EvaluationKey(p.run, p.response) /\ ChatKeyOf(p) = ChatKey(p.run, p.model)
      BY <1>3, <1>9, <2>5 DEF KeyOf, ChatKeyOf
    <3>2. FiledAsEvaluation(o)
      BY <1>2, <1>3, <1>4, <1>9, <2>2, <2>3, <2>5, <3>1 DEF FiledAsEvaluation
    <3> QED
      BY <3>2 DEF Filing, o
  <2> QED
    BY <1>2, <1>9, <2>4, <2>5
<1>10. CASE p.step = "external"
  <2>1. o.key = ExternalKey /\ o.request = ExternalRequest
    BY <1>2, <1>3, <1>10 DEF KeyOf, RequestOf, ExternalKey
  <2>2. FiledAsExternal(o)
    BY <1>2, <1>3, <1>10, <2>1 DEF FiledAsExternal
  <2> QED
    BY <2>2 DEF Filing, o
<1> QED
  BY <1>2, <1>5, <1>6, <1>7, <1>8, <1>9, <1>10 DEF Steps

(* A program that waits for the operation of its step knows no more than   *)
(* before.                                                                 *)
LEMMA WaitsKnowing ==
    ASSUME NEW p, Known(p), p.pc = "create", NEW i \in Nat
    PROVE  /\ Known(AtWait(p, i))
           /\ AtWait(p, i).pc = "wait" /\ AtWait(p, i).op = i
           /\ KeyOf(AtWait(p, i)) = KeyOf(p) /\ RequestOf(AtWait(p, i)) = RequestOf(p)
<1>1. /\ p \in Locals /\ Course(p) /\ OnRecord(p) /\ Source(p) /\ ChatKnown(p) /\ TurnKnown(p)
      /\ ErrorHasCause(p) /\ ConflictHasCause(p)
  BY DEF Known
<1>2. p.outcome = "pending" /\ p.script \in {"end_to_end", "chat_turn", "external"}
      /\ p.step \in Steps
  BY StepsOf
<1> DEFINE q == AtWait(p, i)
<1>3. /\ q \in Locals
      /\ q.script = p.script /\ q.run = p.run /\ q.prompt = p.prompt /\ q.pc = "wait"
      /\ q.step = p.step /\ q.op = i /\ q.model = p.model /\ q.message = p.message
      /\ q.chatId = p.chatId /\ q.turnId = p.turnId /\ q.chatOp = p.chatOp
      /\ q.turn = p.turn /\ q.response = p.response /\ q.outcome = p.outcome
  BY <1>1, LocalsAtWait
<1> HIDE DEF q
<1>4. Course(q)
  BY <1>1, <1>2, <1>3, NoneIsNoWord DEF Course, Steps
<1>5. OnRecord(q) /\ Source(q) /\ TurnKnown(q)
  BY <1>1, <1>3 DEF OnRecord, Source, TurnKnown
<1>6. ChatKnown(q)
  BY <1>1, <1>3 DEF ChatKnown, ChatKeyOf
<1>7. Evaluated(q) /\ ErrorHasCause(q) /\ ConflictHasCause(q)
  BY <1>2, <1>3 DEF Evaluated, ErrorHasCause, ConflictHasCause
<1>8. Known(q)
  BY <1>3, <1>4, <1>5, <1>6, <1>7 DEF Known
<1>9. KeyOf(q) = KeyOf(p) /\ RequestOf(q) = RequestOf(p)
  BY <1>3, SameKeyAndRequest
<1> QED
  BY <1>3, <1>8, <1>9 DEF q

(* The server files a new operation. *)
LEMMA OpsAppended ==
    ASSUME OpsInv, NEW o, ops' = Append(ops, o), Len(ops) < MaxOperations, used' = used,
           o = [run |-> o.run, step |-> o.step, key |-> o.key, request |-> o.request,
                status |-> "queued", payload |-> None, turn |-> None],
           Filing(o), Filed(o.key) = {}
    PROVE  /\ OpsInv' /\ Grows
           /\ Len(ops') = Len(ops) + 1 /\ Len(ops') \in DOMAIN ops' /\ ops'[Len(ops')] = o
<1> PICK n : n = Len(ops) + 1
  OBVIOUS
<1>1. /\ ops' \in Seq(Range(ops')) /\ Len(ops) \in Nat /\ Len(ops') = n
      /\ DOMAIN ops = 1 .. Len(ops) /\ DOMAIN ops' = 1 .. n
      /\ ops'[n] = o
      /\ \A i \in DOMAIN ops : ops'[i] = ops[i]
  BY Appending DEF OpsInv
<1>2. n \in Nat /\ n \in DOMAIN ops' /\ \A i \in DOMAIN ops' : i = n \/ i \in DOMAIN ops
  BY <1>1
<1>3. n <= MaxOperations
  BY <1>1, FlowAssumption
<1>4. Grows
  BY <1>1, <1>2 DEF Grows, Kept
<1>5. ASSUME NEW i \in DOMAIN ops
      PROVE  Fields(i)' /\ Filing(ops[i])' /\ TurnOf(i)' /\ PayloadOf(i)'
  <2>1. Fields(i) /\ Filing(ops[i]) /\ TurnOf(i) /\ PayloadOf(i) /\ ops'[i] = ops[i]
    BY <1>1 DEF OpsInv
  <2>2. Filing(ops[i])'
    BY <1>4, <2>1, FilingStays
  <2>3. Fields(i)' /\ TurnOf(i)'
    BY <2>1 DEF Fields, TurnOf, ChatIdOf
  <2>4. PayloadOf(i)'
    BY <2>1 DEF PayloadOf
  <2> QED
    BY <2>2, <2>3, <2>4
<1>6. Fields(n)' /\ Filing(ops[n])' /\ TurnOf(n)' /\ PayloadOf(n)'
  <2>1. o.status = "queued" /\ o.payload = None /\ o.turn = None
    OBVIOUS
  <2>2. Fields(n)'
    BY <1>1, <2>1 DEF Fields, Statuses
  <2>3. Filing(o)'
    BY <1>4, FilingStays
  <2>4. TurnOf(n)' /\ PayloadOf(n)'
    BY <1>1, <2>1 DEF TurnOf, PayloadOf
  <2> QED
    BY <1>1, <2>2, <2>3, <2>4
<1>7. ASSUME NEW i \in DOMAIN ops', NEW j \in DOMAIN ops', ops'[i].key = ops'[j].key
      PROVE  i = j
  <2>1. \A k \in DOMAIN ops : ops[k].key # o.key
    BY DEF Filed
  <2>2. CASE i = n \/ j = n
    BY <1>1, <1>2, <1>7, <2>1, <2>2
  <2>3. CASE i # n /\ j # n
    BY <1>1, <1>2, <1>7, <2>3 DEF OpsInv
  <2> QED
    BY <2>2, <2>3
<1>8. OpsInv'
  BY <1>1, <1>2, <1>3, <1>5, <1>6, <1>7 DEF OpsInv
<1> QED
  BY <1>1, <1>2, <1>4, <1>8

(* What a step bills is filed as it should be. *)
Billed == Len(ops') > Len(ops) => Filing(ops'[Len(ops')])

LEMMA NothingBilled ==
    ASSUME OpsInv, UNCHANGED ops
    PROVE  Billed
<1>1. Len(ops) \in Nat
  BY DEF OpsInv
<1> QED
  BY <1>1 DEF Billed

(* A program stops. *)
LEMMA Stops ==
    ASSUME Inv, NEW r \in Runners, NEW p, p = runner[r], NEW outcome, End(r, outcome),
           UNCHANGED <<ops, starts, used>>, ProgramInv(AtEnd(p, outcome))
    PROVE  Inv' /\ Billed
<1>1. runner \in [Runners -> Locals] /\ starts \in 0 .. MaxStarts /\ OpsInv
  BY DEF Inv
<1>2. runner' = [runner EXCEPT ![r] = AtEnd(p, outcome)]
  BY <1>1 DEF End, AtEnd
<1>3. Inv'
  BY <1>1, <1>2, OneMovesAlone
<1> QED
  BY <1>1, <1>3, NothingBilled

LEMMA StopsOtherwise ==
    ASSUME Inv, NEW r \in Runners, runner[r].pc \notin {"idle", "done"},
           NEW outcome \in {"RuntimeError", "ResponseError"}, End(r, outcome),
           UNCHANGED <<ops, starts, used>>
    PROVE  Inv' /\ Billed
<1> PICK p : p = runner[r]
  OBVIOUS
<1>1. ProgramInv(p)
  BY DEF Inv
<1>2. ProgramInv(AtEnd(p, outcome))
  BY <1>1, EndsOtherwise
<1> QED
  BY <1>2, Stops

LEMMA KeyRefused ==
    ASSUME Inv, NEW r \in Runners, NEW p, p = runner[r], p.pc = "create",
           ~ValidKey(KeyOf(p)), End(r, "IdempotencyKeyError"), UNCHANGED <<ops, starts, used>>
    PROVE  Inv' /\ Billed
<1>1. ProgramInv(p) /\ Known(p) /\ p \in Locals /\ OpsInv /\ UsedInv
  BY DEF Inv, ProgramInv, Known
<1>2. Length(p.run) > 100
  BY <1>1, KeyErrorHasCause
<1> DEFINE q == AtEnd(p, "IdempotencyKeyError")
<1>3. q.run = p.run /\ q.outcome = "IdempotencyKeyError"
  BY <1>1, LocalsAtEnd DEF Outcomes
<1> HIDE DEF q
<1>4. ErrorHasCause(q)
  BY <1>2, <1>3 DEF ErrorHasCause
<1>5. ProgramInv(AtEnd(p, "IdempotencyKeyError"))
  BY <1>1, <1>4, Ends DEF q
<1> QED
  BY <1>5, Stops

LEMMA RequestRefused ==
    ASSUME Inv, NEW r \in Runners, NEW p, p = runner[r], p.pc = "create",
           ErrorHasCause(AtEnd(p, "ValidationError")), End(r, "ValidationError"),
           UNCHANGED <<ops, starts, used>>
    PROVE  Inv' /\ Billed
<1>1. ProgramInv(p)
  BY DEF Inv
<1>2. ProgramInv(AtEnd(p, "ValidationError"))
  BY <1>1, Ends
<1> QED
  BY <1>2, Stops

(* A program begins to wait. *)
Await(r, i) == runner' = [runner EXCEPT ![r].pc = "wait", ![r].op = i]

LEMMA BeginsToWait ==
    ASSUME Inv, NEW r \in Runners, NEW p, p = runner[r], NEW i,
           Await(r, i), UNCHANGED <<starts, used>>, Grows, OpsInv', ProgramInv(AtWait(p, i))'
    PROVE  Inv'
<1>1. runner \in [Runners -> Locals] /\ starts \in 0 .. MaxStarts /\ UsedInv
  BY DEF Inv
<1>2. runner' = [runner EXCEPT ![r] = AtWait(p, i)]
  BY <1>1 DEF Await, AtWait
<1>3. starts' \in 0 .. MaxStarts /\ UsedInv'
  BY <1>1 DEF UsedInv
<1> QED
  BY <1>2, <1>3, OneMoves

(* A request that is sent is filed, answered with the operation it has     *)
(* made before, or refused.                                                *)
LEMMA Submitted ==
    ASSUME Inv, NEW r \in Runners, NEW p, p = runner[r], p.pc = "create",
           p.step = "chat" /\ p.script # "chat_turn" => Between(p.message, 1, 20000),
           Submit(r, KeyOf(p), RequestOf(p)), UNCHANGED <<starts, used>>
    PROVE  Inv' /\ Billed
<1>1. /\ runner \in [Runners -> Locals] /\ starts \in 0 .. MaxStarts
      /\ OpsInv /\ UsedInv /\ ProgramInv(p) /\ Known(p) /\ p \in Locals
  BY DEF Inv, ProgramInv, Known
<1> PICK o : o = NewOperation(p)
  OBVIOUS
<1>2. /\ o.run = p.run /\ o.step = p.step /\ o.key = KeyOf(p) /\ o.request = RequestOf(p)
      /\ o = [run |-> o.run, step |-> o.step, key |-> o.key, request |-> o.request,
              status |-> "queued", payload |-> None, turn |-> None]
  BY DEF NewOperation
<1>3. Filing(o)
  BY <1>1, Files
<1>4. CASE /\ Filed(KeyOf(p)) = {}
           /\ Len(ops) < MaxOperations
           /\ ops' = Append(ops, o)
           /\ Await(r, Len(ops'))
  <2>1. /\ OpsInv' /\ Grows
        /\ Len(ops') = Len(ops) + 1 /\ Len(ops') \in DOMAIN ops' /\ ops'[Len(ops')] = o
    BY <1>1, <1>2, <1>3, <1>4, OpsAppended
  <2> PICK i : i = Len(ops) + 1
    OBVIOUS
  <2>2. i \in Nat /\ i = Len(ops')
    BY <1>1, <2>1 DEF OpsInv
  <2>3. /\ Known(AtWait(p, i)) /\ AtWait(p, i).op = i
        /\ KeyOf(AtWait(p, i)) = KeyOf(p) /\ RequestOf(AtWait(p, i)) = RequestOf(p)
    BY <1>1, <2>2, WaitsKnowing
  <2>4. Known(AtWait(p, i))'
    BY <2>1, <2>3, KnownStays
  <2>5. Waiting(AtWait(p, i))'
    BY <1>2, <2>1, <2>3 DEF Waiting
  <2>6. ProgramInv(AtWait(p, i))'
    BY <2>4, <2>5 DEF ProgramInv
  <2>7. Inv'
    BY <1>4, <2>1, <2>2, <2>6, BeginsToWait
  <2> QED
    BY <1>3, <2>1, <2>7 DEF Billed
<1>5. ASSUME NEW i \in Filed(KeyOf(p)), ops[i].request = RequestOf(p),
             Await(r, i), UNCHANGED ops
      PROVE  Inv' /\ Billed
  <2>1. i \in DOMAIN ops /\ i \in Nat /\ ops[i].key = KeyOf(p)
    BY <1>1 DEF Filed, OpsInv
  <2>2. /\ Known(AtWait(p, i)) /\ AtWait(p, i).op = i
        /\ KeyOf(AtWait(p, i)) = KeyOf(p) /\ RequestOf(AtWait(p, i)) = RequestOf(p)
    BY <1>1, <2>1, WaitsKnowing
  <2>3. ProgramInv(AtWait(p, i))
    BY <1>5, <2>1, <2>2 DEF ProgramInv, Waiting
  <2>4. OpsInv' /\ Grows
    BY <1>1, <1>5, NothingMoves, OpsStay
  <2>5. ProgramInv(AtWait(p, i))'
    BY <2>3, <2>4, ProgramStays
  <2>6. Inv'
    BY <1>5, <2>4, <2>5, BeginsToWait
  <2> QED
    BY <1>1, <1>5, <2>6, NothingBilled
<1>6. ASSUME NEW i \in Filed(KeyOf(p)), ops[i].request # RequestOf(p),
             End(r, "Conflict"), UNCHANGED ops
      PROVE  Inv' /\ Billed
  <2>1. i \in DOMAIN ops /\ ops[i].key = KeyOf(p) /\ Filing(ops[i])
    BY <1>1 DEF Filed, OpsInv
  <2>2. KeysApart => ~Undisturbed(p.run)
    BY <1>1, <1>2, <1>3, <1>6, <2>1, SameKeySameRequest
  <2>3. ErrorHasCause(AtEnd(p, "Conflict"))
    <3>1. AtEnd(p, "Conflict").outcome = "Conflict"
      BY <1>1, LocalsAtEnd DEF Outcomes
    <3> QED
      BY <3>1 DEF ErrorHasCause
  <2>4. ProgramInv(AtEnd(p, "Conflict"))
    BY <1>1, <2>2, <2>3, Ends
  <2> QED
    BY <1>6, <2>4, Stops
<1>7. o = [run |-> runner[r].run, step |-> runner[r].step, key |-> KeyOf(p),
           request |-> RequestOf(p), status |-> "queued", payload |-> None, turn |-> None]
  BY DEF NewOperation
<1> QED
  BY <1>4, <1>5, <1>6, <1>7 DEF Submit, Await

-----------------------------------------------------------------------------
(* The actions, one by one *)

(* An id given or made up is the id of a run. *)
LEMMA RunsAreNamed ==
    ASSUME NEW id \in RunIds, starts \in Nat, starts < MaxStarts
    PROVE  RunId(id) \in Runs
<1>1. CASE id # <<>>
  BY <1>1 DEF RunId, Runs
<1>2. CASE id = <<>>
  <2>1. /\ MaxStarts \in Nat /\ FreshIds \in Seq(Text) /\ Len(FreshIds) >= MaxStarts
    BY FlowAssumption
  <2>2. starts + 1 \in DOMAIN FreshIds
    BY <2>1
  <2>3. FreshIds[starts + 1] \in Range(FreshIds)
    BY <2>2 DEF Range
  <2> QED
    BY <1>2, <2>3 DEF RunId, Runs
<1> QED
  BY <1>1, <1>2

LEMMA MayStart ==
    ASSUME Inv, NEW r, CanStart(r), starts' = starts + 1
    PROVE  starts \in Nat /\ starts < MaxStarts /\ starts' \in 0 .. MaxStarts
BY FlowAssumption DEF Inv, CanStart

LEMMA StartsEndToEnd ==
    ASSUME Inv, NEW r \in Runners, StartEndToEnd(r)
    PROVE  Inv' /\ Billed
<1>1. starts \in Nat /\ starts < MaxStarts /\ starts' \in 0 .. MaxStarts /\ UNCHANGED <<ops, used>>
  BY MayStart DEF StartEndToEnd
<1>2. PICK id \in RunIds, prompt \in Prompts :
        /\ "end_to_end" \in Scripts
        /\ runner' = [runner EXCEPT ![r] = Fresh("end_to_end", RunId(id), prompt)]
  BY DEF StartEndToEnd
<1>3. RunId(id) \in Runs
  BY <1>1, RunsAreNamed
<1>4. ProgramInv(Fresh("end_to_end", RunId(id), prompt))
  BY <1>2, <1>3, BeginsEndToEnd
<1>5. Inv'
  BY <1>1, <1>2, <1>4, OneMovesAlone
<1> QED
  BY <1>1, <1>5, NothingBilled DEF Inv

LEMMA StartsExample ==
    ASSUME Inv, NEW r \in Runners, StartExample(r)
    PROVE  Inv' /\ Billed
<1>1. starts' \in 0 .. MaxStarts /\ UNCHANGED <<ops, used>>
  BY MayStart DEF StartExample
<1>2. PICK script \in Scripts \cap {"chat_turn", "external"} :
        runner' = [runner EXCEPT ![r] =
                     [Fresh(script, Example, None) EXCEPT
                        !.pc = "create",
                        !.step = IF script = "chat_turn" THEN "opening" ELSE "external"]]
  BY DEF StartExample
<1> PICK q : q = [Fresh(script, Example, None) EXCEPT
                    !.pc = "create",
                    !.step = IF script = "chat_turn" THEN "opening" ELSE "external"]
  OBVIOUS
<1>3. ProgramInv(q)
  BY BeginsExample
<1>4. runner' = [runner EXCEPT ![r] = q]
  BY <1>2
<1>5. Inv'
  BY <1>1, <1>3, <1>4, OneMovesAlone
<1> QED
  BY <1>1, <1>5, NothingBilled DEF Inv

LEMMA Interrupts ==
    ASSUME Inv, NEW r \in Runners, Interrupt(r)
    PROVE  Inv' /\ Billed
<1>1. runner' = [runner EXCEPT ![r] = Absent] /\ UNCHANGED <<ops, starts, used>>
  BY DEF Interrupt
<1>2. Inv'
  BY <1>1, IsInterrupted, OneMovesAlone DEF Inv
<1> QED
  BY <1>1, <1>2, NothingBilled DEF Inv

(* The model that is selected is one of the list, and its id fits.         *)
LEMMA SelectedModel ==
    ASSUME NEW models \in ModelLists, models # <<>>, \A i \in DOMAIN models : ModelOK(models[i])
    PROVE  Selected(models) \in Models /\ Between(Selected(models), 1, 140)
<1> DEFINE available  == {i \in DOMAIN models : models[i].is_available}
           candidates == IF available = {} THEN DOMAIN models ELSE available
           haikus     == {i \in candidates : "haiku" \in Range(Lower(models[i].id))}
           T          == IF haikus = {} THEN candidates ELSE haikus
<1>1. DOMAIN models \subseteq Nat /\ DOMAIN models # {}
  <2> DEFINE Entries == [id: Text, is_available: BOOLEAN]
  <2>1. models \in Seq(Entries)
    BY FlowAssumption
  <2> HIDE DEF Entries
  <2> QED
    BY <2>1
<1>2. T \subseteq DOMAIN models /\ T # {}
  BY <1>1
<1>3. Selected(models) = models[Min(T)].id
  BY DEF Selected
<1> HIDE DEF T
<1>4. Min(T) \in DOMAIN models
  BY <1>1, <1>2, LeastNumber
<1> QED
  BY <1>3, <1>4 DEF Models, ModelOK

LEMMA SelectsModel ==
    ASSUME Inv, NEW r \in Runners, SelectModel(r)
    PROVE  Inv' /\ Billed
<1>1. runner[r].pc = "start" /\ UNCHANGED <<ops, starts>>
  BY DEF SelectModel
<1>2. /\ runner \in [Runners -> Locals] /\ starts \in 0 .. MaxStarts
      /\ OpsInv /\ UsedInv /\ ProgramInv(runner[r])
  BY DEF Inv
<1>3. ASSUME NEW outcome \in {"RuntimeError", "ResponseError"}, End(r, outcome), UNCHANGED used
      PROVE  Inv' /\ Billed
  BY <1>1, <1>3, StopsOtherwise
<1>4. ASSUME NEW models \in ModelLists,
             models # <<>>, \A i \in DOMAIN models : ModelOK(models[i]),
             runner' = [runner EXCEPT ![r].pc = "create", ![r].step = "wizard",
                                      ![r].model = Selected(models)],
             used' = used \cup {[run |-> runner[r].run, prompt |-> runner[r].prompt,
                                 model |-> Selected(models)]}
      PROVE  Inv' /\ Billed
  <2> PICK p : p = runner[r]
    OBVIOUS
  <2> PICK model : model = Selected(models)
    OBVIOUS
  <2> PICK u : u = [run |-> p.run, prompt |-> p.prompt, model |-> model]
    OBVIOUS
  <2>1. model \in Models /\ Between(model, 1, 140)
    BY <1>4, SelectedModel
  <2>2. model \in Text
    BY <2>1, ConstantsApart
  <2>3. p.run \in Runs /\ p.prompt \in Prompts
    BY <1>1, <1>2 DEF ProgramInv, Known, Course
  <2>4. used' = used \cup {u}
    BY <1>4
  <2>5. Grows /\ OpsInv'
    BY <1>1, <1>2, <2>4, NothingMoves, OpsStay
  <2>6. UsedInv'
    <3>1. /\ u = [run |-> u.run, prompt |-> u.prompt, model |-> u.model]
          /\ u.run \in Runs /\ u.prompt \in Prompts /\ u.model \in Models
          /\ Between(u.model, 1, 140)
      BY <2>1, <2>3
    <3> QED
      BY <1>2, <2>4, <3>1 DEF UsedInv
  <2>7. ProgramInv(AtWizard(p, model))'
    BY <1>1, <1>2, <2>2, <2>4, ModelSelected
  <2>8. runner' = [runner EXCEPT ![r] = AtWizard(p, model)]
    BY <1>2, <1>4 DEF AtWizard
  <2>9. Inv'
    BY <1>1, <1>2, <2>5, <2>6, <2>7, <2>8, OneMoves
  <2> QED
    BY <1>1, <1>2, <2>9, NothingBilled
<1> QED
  BY <1>3, <1>4 DEF SelectModel

LEMMA CreatesWizard ==
    ASSUME Inv, NEW r \in Runners, CreateWizard(r)
    PROVE  Inv' /\ Billed
<1> PICK p : p = runner[r]
  OBVIOUS
<1>1. /\ p.pc = "create" /\ p.step = "wizard" /\ UNCHANGED <<starts, used>> /\ Known(p)
  BY DEF CreateWizard, Create, At, Inv, ProgramInv
<1>2. KeyOf(p) = WizardKey(runner[r].run) /\ RequestOf(p) = WizardRequest(r)
  BY <1>1 DEF KeyOf, RequestOf, WizardRequest
<1>3. \/ /\ ~ValidKey(KeyOf(p))
         /\ End(r, "IdempotencyKeyError") /\ UNCHANGED ops
      \/ /\ ~InputWizardRequestOK(RequestOf(p))
         /\ End(r, "ValidationError") /\ UNCHANGED ops
      \/ Submit(r, KeyOf(p), RequestOf(p))
  BY <1>2 DEF CreateWizard, Create
<1>4. CASE ~ValidKey(KeyOf(p)) /\ End(r, "IdempotencyKeyError") /\ UNCHANGED ops
  BY <1>1, <1>4, KeyRefused
<1>5. CASE ~InputWizardRequestOK(RequestOf(p)) /\ End(r, "ValidationError") /\ UNCHANGED ops
  <2>1. ErrorHasCause(AtEnd(p, "ValidationError"))
    BY <1>1, <1>5, PromptRejected
  <2> QED
    BY <1>1, <1>5, <2>1, RequestRefused
<1>6. CASE Submit(r, KeyOf(p), RequestOf(p))
  BY <1>1, <1>6, Submitted
<1> QED
  BY <1>3, <1>4, <1>5, <1>6

LEMMA CreatesOpening ==
    ASSUME Inv, NEW r \in Runners, CreateOpening(r)
    PROVE  Inv' /\ Billed
<1> PICK p : p = runner[r]
  OBVIOUS
<1>1. /\ p.pc = "create" /\ p.step = "opening" /\ UNCHANGED <<starts, used>>
  BY DEF CreateOpening, Create, At
<1>2. /\ KeyOf(p) = ExampleKey(runner[r].run, "chat-eval-first-turn")
      /\ RequestOf(p) = OpeningRequest
  BY <1>1 DEF KeyOf, RequestOf
<1>3. \/ /\ ~ValidKey(KeyOf(p))
         /\ End(r, "IdempotencyKeyError") /\ UNCHANGED ops
      \/ Submit(r, KeyOf(p), RequestOf(p))
  BY <1>2, OpeningAccepted DEF CreateOpening, Create
<1>4. CASE ~ValidKey(KeyOf(p)) /\ End(r, "IdempotencyKeyError") /\ UNCHANGED ops
  BY <1>1, <1>4, KeyRefused
<1>5. CASE Submit(r, KeyOf(p), RequestOf(p))
  BY <1>1, <1>5, Submitted
<1> QED
  BY <1>3, <1>4, <1>5

LEMMA CreatesChat ==
    ASSUME Inv, NEW r \in Runners, CreateChat(r)
    PROVE  Inv' /\ Billed
<1> PICK p : p = runner[r]
  OBVIOUS
<1>1. /\ p.pc = "create" /\ p.step = "chat" /\ UNCHANGED <<starts, used>> /\ Known(p) /\ UsedInv
  BY DEF CreateChat, Create, At, Inv, ProgramInv
<1>2. \/ /\ ~ValidKey(KeyOf(p))
         /\ End(r, "IdempotencyKeyError") /\ UNCHANGED ops
      \/ /\ ~ChatRequestOK(RequestOf(p))
         /\ End(r, "ValidationError") /\ UNCHANGED ops
      \/ /\ ChatRequestOK(RequestOf(p))
         /\ Submit(r, KeyOf(p), RequestOf(p))
  <2>1. CASE p.script = "chat_turn"
    <3>1. /\ KeyOf(p) = ExampleKey(runner[r].run, "chat-eval-follow-up")
          /\ RequestOf(p) = ChatRequest(<<"follow_up_message">>, runner[r].chatId, None)
      BY <1>1, <2>1 DEF KeyOf, ChatKeyOf, RequestOf
    <3> QED
      BY <2>1, <3>1 DEF CreateChat, Create
  <2>2. CASE p.script # "chat_turn"
    <3>1. /\ KeyOf(p) = ChatKey(runner[r].run, runner[r].model)
          /\ RequestOf(p) = ChatRequest(runner[r].message, None, runner[r].model)
      BY <1>1, <2>2 DEF KeyOf, ChatKeyOf, RequestOf
    <3> QED
      BY <2>2, <3>1 DEF CreateChat, Create
  <2> QED
    BY <2>1, <2>2
<1>3. CASE ~ValidKey(KeyOf(p)) /\ End(r, "IdempotencyKeyError") /\ UNCHANGED ops
  BY <1>1, <1>3, KeyRefused
<1>4. CASE ~ChatRequestOK(RequestOf(p)) /\ End(r, "ValidationError") /\ UNCHANGED ops
  <2>1. ErrorHasCause(AtEnd(p, "ValidationError"))
    BY <1>1, <1>4, ChatRejected
  <2> QED
    BY <1>1, <1>4, <2>1, RequestRefused
<1>5. CASE ChatRequestOK(RequestOf(p)) /\ Submit(r, KeyOf(p), RequestOf(p))
  <2>1. p.script # "chat_turn" => Between(p.message, 1, 20000)
    BY <1>1, <1>5 DEF RequestOf, ChatRequest, ChatRequestOK
  <2> QED
    BY <1>1, <1>5, <2>1, Submitted
<1> QED
  BY <1>2, <1>3, <1>4, <1>5

LEMMA CreatesEvaluation ==
    ASSUME Inv, NEW r \in Runners, CreateEvaluation(r)
    PROVE  Inv' /\ Billed
<1> PICK p : p = runner[r]
  OBVIOUS
<1>1. /\ p.pc = "create" /\ p.step = "evaluation" /\ UNCHANGED <<starts, used>> /\ Known(p)
      /\ OpsInv
  BY DEF CreateEvaluation, Create, At, Inv, ProgramInv
<1>2. /\ KeyOf(p) = IF runner[r].script = "chat_turn"
                    THEN ExampleKey(runner[r].run, "evaluation-chat-turn")
                    ELSE EvaluationKey(runner[r].run, runner[r].response)
      /\ RequestOf(p) = EvaluateRequest(r)
  BY <1>1 DEF KeyOf, RequestOf, EvaluateRequest
<1>3. \/ /\ ~ValidKey(KeyOf(p))
         /\ End(r, "IdempotencyKeyError") /\ UNCHANGED ops
      \/ /\ ~EvaluateRequestOK(RequestOf(p))
         /\ End(r, "ValidationError") /\ UNCHANGED ops
      \/ Submit(r, KeyOf(p), RequestOf(p))
  BY <1>2 DEF CreateEvaluation, Create
<1>4. CASE ~ValidKey(KeyOf(p)) /\ End(r, "IdempotencyKeyError") /\ UNCHANGED ops
  BY <1>1, <1>4, KeyRefused
<1>5. CASE ~EvaluateRequestOK(RequestOf(p)) /\ End(r, "ValidationError") /\ UNCHANGED ops
  <2>1. ErrorHasCause(AtEnd(p, "ValidationError"))
    BY <1>1, <1>5, EvaluationRejected
  <2> QED
    BY <1>1, <1>5, <2>1, RequestRefused
<1>6. CASE Submit(r, KeyOf(p), RequestOf(p))
  BY <1>1, <1>6, Submitted
<1> QED
  BY <1>3, <1>4, <1>5, <1>6

LEMMA CreatesExternal ==
    ASSUME Inv, NEW r \in Runners, CreateExternal(r)
    PROVE  Inv' /\ Billed
<1> PICK p : p = runner[r]
  OBVIOUS
<1>1. /\ p.pc = "create" /\ p.step = "external" /\ UNCHANGED <<starts, used>>
  BY DEF CreateExternal, Create, At
<1>2. /\ KeyOf(p) = ExampleKey(runner[r].run, "evaluation-external")
      /\ RequestOf(p) = ExternalRequest
  BY <1>1 DEF KeyOf, RequestOf
<1>3. \/ /\ ~ValidKey(KeyOf(p))
         /\ End(r, "IdempotencyKeyError") /\ UNCHANGED ops
      \/ Submit(r, KeyOf(p), RequestOf(p))
  BY <1>2, ExternalAccepted DEF CreateExternal, Create
<1>4. CASE ~ValidKey(KeyOf(p)) /\ End(r, "IdempotencyKeyError") /\ UNCHANGED ops
  BY <1>1, <1>4, KeyRefused
<1>5. CASE Submit(r, KeyOf(p), RequestOf(p))
  BY <1>1, <1>5, Submitted
<1> QED
  BY <1>3, <1>4, <1>5

-----------------------------------------------------------------------------
(* The steps from one helper to the next. *)

(* What a program that returns from a helper has before it. *)
LEMMA Returns ==
    ASSUME Inv, NEW r \in Runners, NEW step, Returned(r, step), NEW p, p = runner[r]
    PROVE  /\ p.pc = "wait" /\ p.step = step /\ ops[p.op].status \in Terminal
           /\ ops[p.op].payload # None => ResultOK(Projection(ops[p.op].payload))
           /\ ProgramInv(p) /\ OpsInv /\ runner \in [Runners -> Locals]
           /\ starts \in 0 .. MaxStarts
BY DEF Inv, Returned, Waits, At, Readable, Payload

LEMMA RejectsResult ==
    ASSUME Inv, NEW r \in Runners, ResultRejected(r)
    PROVE  Inv' /\ Billed
BY StopsOtherwise DEF ResultRejected, Waits, At

LEMMA ReturnsFromWizard ==
    ASSUME Inv, NEW r \in Runners, WizardReturns(r)
    PROVE  Inv' /\ Billed
<1> PICK p : p = runner[r]
  OBVIOUS
<1>1. Returned(r, "wizard") /\ UNCHANGED <<ops, starts, used>>
  BY DEF WizardReturns
<1>2. /\ p.pc = "wait" /\ p.step = "wizard" /\ ops[p.op].status \in Terminal
      /\ ops[p.op].payload # None => ResultOK(Projection(ops[p.op].payload))
      /\ ProgramInv(p) /\ OpsInv /\ runner \in [Runners -> Locals] /\ starts \in 0 .. MaxStarts
  BY <1>1, Returns
<1> PICK message : message = OptimizedPrompt(r)
  OBVIOUS
<1>3. message = MessageOf(ops[p.op].payload, p.prompt)
  BY DEF OptimizedPrompt, MessageOf, Result, Payload
<1>4. ProgramInv(AtChat(p, message))
  BY <1>2, <1>3, WizardReturned
<1>5. runner' = [runner EXCEPT ![r] = AtChat(p, message)]
  BY <1>2 DEF WizardReturns, AtChat
<1>6. Inv'
  BY <1>1, <1>2, <1>4, <1>5, OneMovesAlone
<1> QED
  BY <1>1, <1>2, <1>6, NothingBilled

LEMMA ReturnsFromOpening ==
    ASSUME Inv, NEW r \in Runners, OpeningReturns(r)
    PROVE  Inv' /\ Billed
<1> PICK p : p = runner[r]
  OBVIOUS
<1>1. Returned(r, "opening") /\ UNCHANGED <<ops, starts, used>>
  BY DEF OpeningReturns
<1>2. /\ p.pc = "wait" /\ p.step = "opening" /\ ops[p.op].status \in Terminal
      /\ ops[p.op].payload # None => ResultOK(Projection(ops[p.op].payload))
      /\ ProgramInv(p) /\ OpsInv /\ runner \in [Runners -> Locals] /\ starts \in 0 .. MaxStarts
  BY <1>1, Returns
<1>3. CASE End(r, "RuntimeError")
  BY <1>1, <1>2, <1>3, StopsOtherwise
<1>4. ASSUME Result(r, "chat_id") # None,
             runner' = [runner EXCEPT ![r].pc = "create", ![r].step = "chat",
                                      ![r].chatId = Result(r, "chat_id")]
      PROVE  Inv' /\ Billed
  <2> PICK chatId : chatId = Result(r, "chat_id")
    OBVIOUS
  <2>1. /\ ops[p.op].payload # None
        /\ chatId = Get(Projection(ops[p.op].payload), "chat_id")
    BY <1>4 DEF Result, Payload
  <2>2. ProgramInv(AtFollowUp(p, chatId))
    BY <1>2, <2>1, OpeningReturned
  <2>3. runner' = [runner EXCEPT ![r] = AtFollowUp(p, chatId)]
    BY <1>2, <1>4 DEF AtFollowUp
  <2>4. Inv'
    BY <1>1, <1>2, <2>2, <2>3, OneMovesAlone
  <2> QED
    BY <1>1, <1>2, <2>4, NothingBilled
<1> QED
  BY <1>3, <1>4 DEF OpeningReturns

LEMMA ReturnsFromChat ==
    ASSUME Inv, NEW r \in Runners, ChatReturns(r)
    PROVE  Inv' /\ Billed
<1> PICK p : p = runner[r]
  OBVIOUS
<1> PICK chatId : chatId = IF p.script = "chat_turn" THEN p.chatId ELSE Result(r, "chat_id")
  OBVIOUS
<1> PICK turnId : turnId = Result(r, "turn_id")
  OBVIOUS
<1> PICK response : response = IF p.script = "chat_turn" THEN FirstResponseId(r)
                                                         ELSE Result(r, "model_response_id")
  OBVIOUS
<1>1. Returned(r, "chat") /\ UNCHANGED <<ops, starts, used>>
  BY DEF ChatReturns
<1>2. /\ p.pc = "wait" /\ p.step = "chat" /\ ops[p.op].status \in Terminal
      /\ ops[p.op].payload # None => ResultOK(Projection(ops[p.op].payload))
      /\ ProgramInv(p) /\ OpsInv /\ runner \in [Runners -> Locals] /\ starts \in 0 .. MaxStarts
  BY <1>1, Returns
<1>3. CASE End(r, "RuntimeError")
  BY <1>1, <1>2, <1>3, StopsOtherwise
<1>4. ASSUME turnId # None,
             runner' = [runner EXCEPT ![r].pc = "messages", ![r].chatOp = runner[r].op,
                           ![r].chatId = chatId, ![r].turnId = turnId, ![r].response = response]
      PROVE  Inv' /\ Billed
  <2> PICK payload : payload = ops[p.op].payload
    OBVIOUS
  <2>1. payload # None /\ turnId = Get(Projection(payload), "turn_id")
    BY <1>4 DEF Result, Payload
  <2>2. p.script # "chat_turn" => chatId = Get(Projection(payload), "chat_id")
    BY <2>1 DEF Result, Payload
  <2>3. \/ response = None
        \/ response = Get(Projection(payload), "model_response_id")
        \/ /\ ResponseIds(Projection(payload)) # <<>>
           /\ response = Head(ResponseIds(Projection(payload)))
    BY <2>1 DEF Result, Payload, FirstResponseId
  <2>4. ProgramInv(AtMessages(p, chatId, turnId, response))
    BY <1>2, <2>1, <2>2, <2>3, ChatReturned
  <2>5. runner' = [runner EXCEPT ![r] = AtMessages(p, chatId, turnId, response)]
    BY <1>2, <1>4 DEF AtMessages
  <2>6. Inv'
    BY <1>1, <1>2, <2>4, <2>5, OneMovesAlone
  <2> QED
    BY <1>1, <1>2, <2>6, NothingBilled
<1> QED
  BY <1>3, <1>4 DEF ChatReturns

LEMMA ReadsMessages ==
    ASSUME Inv, NEW r \in Runners, Messages(r)
    PROVE  Inv' /\ Billed
<1> PICK p : p = runner[r]
  OBVIOUS
<1>1. p.pc = "messages" /\ UNCHANGED <<ops, starts, used>>
  BY DEF Messages
<1>2. ProgramInv(p) /\ OpsInv /\ runner \in [Runners -> Locals] /\ starts \in 0 .. MaxStarts
  BY DEF Inv
<1>3. PICK page \in FirstPages(p.chatId) :
        LET turn     == FindTurn(page, p.turnId)
            response == IF p.response \notin Falsy \/ turn = None THEN p.response
                                                                ELSE turn.model_response_id
        IN  \/ End(r, "ResponseError")
            \/ End(r, "RuntimeError")
            \/ /\ MessagesOK(p.chatId, page)
               /\ turn # None /\ response \notin Falsy
               /\ runner' = [runner EXCEPT ![r].pc = "create", ![r].step = "evaluation",
                                           ![r].turn = turn, ![r].response = response]
  BY DEF Messages
<1> PICK turn : turn = FindTurn(page, p.turnId)
  OBVIOUS
<1> PICK response : response = IF p.response \notin Falsy \/ turn = None
                               THEN p.response ELSE turn.model_response_id
  OBVIOUS
<1>4. ASSUME NEW outcome \in {"ResponseError", "RuntimeError"}, End(r, outcome)
      PROVE  Inv' /\ Billed
  BY <1>1, <1>4, StopsOtherwise
<1>5. ASSUME MessagesOK(p.chatId, page), turn # None, response \notin Falsy,
             runner' = [runner EXCEPT ![r].pc = "create", ![r].step = "evaluation",
                                      ![r].turn = turn, ![r].response = response]
      PROVE  Inv' /\ Billed
  <2>1. ProgramInv(AtEvaluation(p, turn, response))
    BY <1>1, <1>2, <1>5, MessagesRead
  <2>2. runner' = [runner EXCEPT ![r] = AtEvaluation(p, turn, response)]
    BY <1>2, <1>5 DEF AtEvaluation
  <2>3. Inv'
    BY <1>1, <1>2, <2>1, <2>2, OneMovesAlone
  <2> QED
    BY <1>1, <1>2, <2>3, NothingBilled
<1> QED
  BY <1>3, <1>4, <1>5

LEMMA ReturnsFromEvaluation ==
    ASSUME Inv, NEW r \in Runners, EvaluationReturns(r)
    PROVE  Inv' /\ Billed
<1> PICK p : p = runner[r]
  OBVIOUS
<1> PICK id : id = Result(r, "evaluation_id")
  OBVIOUS
<1>1. PICK step \in {"evaluation", "external"} : Returned(r, step)
  BY DEF EvaluationReturns
<1>2. UNCHANGED <<ops, starts, used>>
  BY DEF EvaluationReturns
<1>3. /\ p.pc = "wait" /\ p.step = step
      /\ ops[p.op].payload # None => ResultOK(Projection(ops[p.op].payload))
      /\ ProgramInv(p) /\ OpsInv /\ runner \in [Runners -> Locals] /\ starts \in 0 .. MaxStarts
  BY <1>1, Returns
<1>4. id = IF ops[p.op].payload = None THEN None
           ELSE Get(Projection(ops[p.op].payload), "evaluation_id")
  BY DEF Result, Payload
<1>5. CASE End(r, "RuntimeError")
  BY <1>2, <1>3, <1>5, StopsOtherwise
<1>6. ASSUME p.script # "end_to_end",
             runner' = [runner EXCEPT ![r].pc = "done", ![r].outcome = "reported",
                                      ![r].evaluationId = id]
      PROVE  Inv' /\ Billed
  <2>1. ProgramInv(AtReport(p, id))
    BY <1>3, <1>4, <1>6, ExampleReported
  <2>2. runner' = [runner EXCEPT ![r] = AtReport(p, id)]
    BY <1>3, <1>6 DEF AtReport
  <2>3. Inv'
    BY <1>2, <1>3, <2>1, <2>2, OneMovesAlone
  <2> QED
    BY <1>2, <1>3, <2>3, NothingBilled
<1>7. ASSUME p.script = "end_to_end", id # None,
             runner' = [runner EXCEPT ![r].pc = "detail", ![r].evaluationId = id]
      PROVE  Inv' /\ Billed
  <2>1. ProgramInv(AtDetail(p, id))
    BY <1>3, <1>4, <1>7, EvaluationReturned
  <2>2. runner' = [runner EXCEPT ![r] = AtDetail(p, id)]
    BY <1>3, <1>7 DEF AtDetail
  <2>3. Inv'
    BY <1>2, <1>3, <2>1, <2>2, OneMovesAlone
  <2> QED
    BY <1>2, <1>3, <2>3, NothingBilled
<1> QED
  BY <1>5, <1>6, <1>7 DEF EvaluationReturns

LEMMA ReadsDetail ==
    ASSUME Inv, NEW r \in Runners, Detail(r)
    PROVE  Inv' /\ Billed
<1> PICK p : p = runner[r]
  OBVIOUS
<1>1. ProgramInv(p) /\ p.pc = "detail" /\ End(r, "reported") /\ UNCHANGED <<ops, starts, used>>
  BY DEF Inv, Detail
<1>2. ProgramInv(AtEnd(p, "reported"))
  BY <1>1, DetailReported
<1> QED
  BY <1>1, <1>2, Stops

-----------------------------------------------------------------------------
(* The server's steps. *)

Replaced(i, o) == ops' = [ops EXCEPT ![i] = o]

(* The server changes what has become of an operation, and nothing else.   *)
LEMMA OpsReplaced ==
    ASSUME OpsInv, used' = used, NEW i \in DOMAIN ops, NEW o, Replaced(i, o),
           DOMAIN o = DOMAIN ops[i],
           o.run = ops[i].run, o.step = ops[i].step, o.key = ops[i].key,
           o.request = ops[i].request, o.status \in Statuses,
           ops[i].turn # None => o.turn = ops[i].turn,
           ops[i].status \in Terminal => o.status \in Terminal,
           ops[i].status = "expired" => o.status = "expired",
           ops[i].status \in Terminal /\ o.status # "expired" => o.payload = ops[i].payload,
           ops'[i] = o => TurnOf(i)' /\ PayloadOf(i)'
    PROVE  OpsInv' /\ Grows /\ Len(ops') = Len(ops)
<1>1. /\ ops' \in Seq(Range(ops')) /\ Len(ops') = Len(ops) /\ DOMAIN ops' = DOMAIN ops
      /\ ops'[i] = o
      /\ \A j \in DOMAIN ops \ {i} : ops'[j] = ops[j]
  <2>1. ops \in Seq(Range(ops)) /\ ops' = [ops EXCEPT ![i] = o]
    BY DEF OpsInv, Replaced
  <2> QED
    BY ONLY <2>1, i \in DOMAIN ops, Replacing
<1>2. /\ o.run = ops[i].run /\ o.step = ops[i].step /\ o.key = ops[i].key
      /\ o.request = ops[i].request
  OBVIOUS
<1>3. ASSUME NEW j \in DOMAIN ops PROVE Kept(j)
  <2>1. CASE j = i
    BY <1>1, <1>2, <2>1 DEF Kept
  <2>2. CASE j # i
    BY <1>1, <2>2 DEF Kept
  <2> QED
    BY <2>1, <2>2
<1>4. Grows
  BY <1>1, <1>3 DEF Grows
<1>5. ASSUME NEW j \in DOMAIN ops
      PROVE  Fields(j)' /\ Filing(ops[j])' /\ TurnOf(j)' /\ PayloadOf(j)'
  <2>1. Fields(j) /\ Filing(ops[j]) /\ TurnOf(j) /\ PayloadOf(j) /\ Kept(j)
    BY <1>3 DEF OpsInv
  <2>2. Filing(ops[j])'
    BY <1>4, <2>1, FilingStays DEF Kept
  <2>3. CASE j = i
    <3>1. TurnOf(j)' /\ PayloadOf(j)'
      BY <1>1, <2>3
    <3>2. DOMAIN ops[j] = {"run", "step", "key", "request", "status", "payload", "turn"}
      BY <2>1 DEF Fields
    <3>3. DOMAIN o = DOMAIN ops[j] /\ o.status \in Statuses /\ ops'[j] = o
      BY <1>1, <2>3
    <3>4. Fields(j)'
      BY <3>2, <3>3 DEF Fields
    <3> QED
      BY <2>2, <3>1, <3>4
  <2>4. CASE j # i
    <3>1. ops'[j] = ops[j]
      BY <1>1, <2>4
    <3>2. Fields(j)' /\ TurnOf(j)'
      BY <2>1, <3>1 DEF Fields, TurnOf, ChatIdOf
    <3>3. PayloadOf(j)'
      BY <2>1, <3>1 DEF PayloadOf
    <3> QED
      BY <2>2, <3>2, <3>3
  <2> QED
    BY <2>3, <2>4
<1>6. ASSUME NEW j \in DOMAIN ops', NEW k \in DOMAIN ops', ops'[j].key = ops'[k].key
      PROVE  j = k
  BY <1>1, <1>3, <1>6 DEF OpsInv, Kept
<1>7. OpsInv'
  BY <1>1, <1>5, <1>6 DEF OpsInv
<1> QED
  BY <1>1, <1>4, <1>7

(* An operation that is under way has neither a result nor a turn. *)
LEMMA Queued ==
    ASSUME OpsInv, NEW i \in DOMAIN ops, ops[i].status = "queued"
    PROVE  ops[i].turn = None /\ ops[i].payload = None
BY DEF OpsInv, TurnOf, PayloadOf, Terminal

Succeeded(i, payload, turn) ==
    [ops[i] EXCEPT !.status = "succeeded", !.payload = payload, !.turn = turn]

LEMMA FieldsOfSucceeded ==
    ASSUME OpsInv, NEW i \in DOMAIN ops, NEW payload, NEW turn,
           NEW o, o = Succeeded(i, payload, turn)
    PROVE  /\ DOMAIN o = DOMAIN ops[i]
           /\ o.run = ops[i].run /\ o.step = ops[i].step /\ o.key = ops[i].key
           /\ o.request = ops[i].request
           /\ o.status = "succeeded" /\ o.payload = payload /\ o.turn = turn
<1>1. DOMAIN ops[i] = {"run", "step", "key", "request", "status", "payload", "turn"}
  BY DEF OpsInv, Fields
<1> QED
  BY <1>1 DEF Succeeded

LEMMA Succeeds ==
    ASSUME Inv, NEW i \in DOMAIN ops, ops[i].status = "queued", NEW payload, NEW turn,
           Succeed(i, payload, turn), UNCHANGED <<runner, starts, used>>,
           NEW o, o = Succeeded(i, payload, turn),
           ops'[i] = o => TurnOf(i)' /\ PayloadOf(i)'
    PROVE  Inv' /\ Billed
<1>1. OpsInv /\ Fields(i) /\ ops \in Seq(Range(ops)) /\ Len(ops) \in Nat
  BY DEF Inv, OpsInv
<1>2. Replaced(i, o)
  BY DEF Succeed, Succeeded, Replaced
<1>3. /\ DOMAIN o = DOMAIN ops[i]
      /\ o.run = ops[i].run /\ o.step = ops[i].step /\ o.key = ops[i].key
      /\ o.request = ops[i].request /\ o.status = "succeeded"
  BY <1>1, FieldsOfSucceeded
<1>4. ops[i].turn = None
  BY <1>1, Queued
<1>5. o.status \in Statuses /\ ops[i].status \notin Terminal /\ ops[i].status # "expired"
  BY <1>3 DEF Statuses, Terminal
<1>6. OpsInv' /\ Grows /\ Len(ops') = Len(ops)
  BY <1>1, <1>2, <1>3, <1>4, <1>5, OpsReplaced
<1>7. Inv'
  BY <1>6, ServerMoves
<1> QED
  BY <1>1, <1>6, <1>7 DEF Billed

LEMMA WorksWizard ==
    ASSUME Inv, NEW i \in DOMAIN ops, ops[i].status = "queued", FinishWizard(i),
           UNCHANGED <<runner, starts, used>>
    PROVE  Inv' /\ Billed
<1>1. PICK shape \in Shapes["input_wizard"], prompt \in Optimized :
        /\ ops[i].request.route = "input_wizard"
        /\ Succeed(i, LaidOut(shape, "input_wizard", [optimized_prompt |-> prompt]), None)
  BY DEF FinishWizard
<1> PICK payload : payload = LaidOut(shape, "input_wizard", [optimized_prompt |-> prompt])
  OBVIOUS
<1> PICK o : o = Succeeded(i, payload, None)
  OBVIOUS
<1>2. /\ o.request.route = "input_wizard" /\ o.status = "succeeded"
      /\ o.payload = payload /\ o.turn = None
  BY <1>1, FieldsOfSucceeded DEF Inv
<1>3. ASSUME ops'[i] = o PROVE TurnOf(i)' /\ PayloadOf(i)'
  BY <1>2, <1>3 DEF TurnOf, PayloadOf
<1> QED
  BY <1>1, <1>3, Succeeds

LEMMA WorksChat ==
    ASSUME Inv, NEW i \in DOMAIN ops, ops[i].status = "queued", FinishChat(i),
           UNCHANGED <<runner, starts, used>>
    PROVE  Inv' /\ Billed
<1>1. OpsInv /\ ops[i].request.route = "chat"
  BY DEF Inv, FinishChat
<1>2. PICK shape \in Shapes["chat"], outcome \in ChatOutcomes[i] :
        LET turn == [turn_id |-> outcome.turnId, user_message |-> ops[i].request.message,
                     model_answer |-> outcome.answer, model_response_id |-> outcome.responseId,
                     model_response_ids |-> <<outcome.responseId>>]
        IN  Succeed(i, LaidOut(shape, "chat", ChatFields(outcome.named, ChatIdOf(i), turn)),
                    [chat_id |-> ChatIdOf(i), content |-> turn])
  BY DEF FinishChat
<1> PICK content :
      content = [turn_id |-> outcome.turnId, user_message |-> ops[i].request.message,
                 model_answer |-> outcome.answer, model_response_id |-> outcome.responseId,
                 model_response_ids |-> <<outcome.responseId>>]
  OBVIOUS
<1> PICK turn : turn = [chat_id |-> ChatIdOf(i), content |-> content]
  OBVIOUS
<1> PICK payload :
      payload = LaidOut(shape, "chat", ChatFields(outcome.named, ChatIdOf(i), content))
  OBVIOUS
<1> PICK o : o = Succeeded(i, payload, turn)
  OBVIOUS
<1>3. i \in 1 .. MaxOperations /\ ChatIdOf(i) \in Text /\ ops[i].request.message \in Text
  BY <1>1, ChatsAreNamed, MessagesSent
<1>4. outcome \in [answer: Text, turnId: Text, responseId: Text, named: {"id", "ids", "none"}]
  BY <1>3, FlowAssumption
<1>5. turn # None
  <2>1. /\ outcome.turnId \in Text /\ outcome.answer \in Text /\ outcome.responseId \in Text
        /\ <<outcome.responseId>> \in Seq(Text)
    BY <1>4
  <2>2. content \in ChatTurn
    BY <1>3, <2>1 DEF ChatTurn
  <2>3. turn \in KeptTurn
    BY <1>3, <2>2 DEF KeptTurn
  <2> QED
    BY <2>3, FlowAssumption
<1>6. /\ o.request = ops[i].request /\ o.status = "succeeded"
      /\ o.payload = payload /\ o.turn = turn
      /\ o.turn.chat_id = ChatIdOf(i) /\ o.turn.content = content
  BY <1>1, FieldsOfSucceeded
<1>7. ASSUME ops'[i] = o PROVE TurnOf(i)' /\ PayloadOf(i)'
  <2>1. ChatIdOf(i)' = ChatIdOf(i)
    BY <1>6, <1>7 DEF ChatIdOf
  <2>2. TurnOf(i)'
    BY <1>1, <1>6, <1>7, <2>1 DEF TurnOf, Terminal
  <2>3. outcome.named \in {"id", "ids", "none"}
    BY <1>4
  <2>4. PayloadOf(i)'
    BY <1>1, <1>5, <1>6, <1>7, <2>3 DEF PayloadOf
  <2> QED
    BY <2>2, <2>4
<1>8. Succeed(i, payload, turn)
  BY <1>2
<1> QED
  BY <1>7, <1>8, Succeeds

LEMMA WorksEvaluation ==
    ASSUME Inv, NEW i \in DOMAIN ops, ops[i].status = "queued", FinishEvaluation(i),
           UNCHANGED <<runner, starts, used>>
    PROVE  Inv' /\ Billed
<1>1. PICK shape \in Shapes["evaluate"] :
        /\ ops[i].request.route = "evaluate"
        /\ Succeed(i, LaidOut(shape, "evaluation", [evaluation_id |-> EvaluationIds[i]]), None)
  BY DEF FinishEvaluation
<1> PICK payload :
      payload = LaidOut(shape, "evaluation", [evaluation_id |-> EvaluationIds[i]])
  OBVIOUS
<1> PICK o : o = Succeeded(i, payload, None)
  OBVIOUS
<1>2. /\ o.request.route = "evaluate" /\ o.status = "succeeded"
      /\ o.payload = payload /\ o.turn = None
  BY <1>1, FieldsOfSucceeded DEF Inv
<1>3. ASSUME ops'[i] = o PROVE TurnOf(i)' /\ PayloadOf(i)'
  BY <1>2, <1>3 DEF TurnOf, PayloadOf
<1> QED
  BY <1>1, <1>3, Succeeds

LEMMA Works ==
    ASSUME Inv, NEW i \in DOMAIN ops, Work(i)
    PROVE  Inv' /\ Billed
<1>1. ops[i].status = "queued" /\ UNCHANGED <<runner, starts, used>>
  BY DEF Work
<1>2. CASE FinishWizard(i) \/ FinishChat(i) \/ FinishEvaluation(i)
  BY <1>1, <1>2, WorksWizard, WorksChat, WorksEvaluation
<1>3. CASE ops' = [ops EXCEPT ![i].status = "failed"]
  <2>1. OpsInv /\ Fields(i) /\ ops \in Seq(Range(ops)) /\ Len(ops) \in Nat
    BY DEF Inv, OpsInv
  <2> PICK o : o = [ops[i] EXCEPT !.status = "failed"]
    OBVIOUS
  <2>2. Replaced(i, o)
    BY <1>3 DEF Replaced
  <2>3. ops[i].turn = None /\ ops[i].payload = None
    BY <1>1, <2>1, Queued
  <2>4. /\ DOMAIN o = DOMAIN ops[i]
        /\ o.run = ops[i].run /\ o.step = ops[i].step /\ o.key = ops[i].key
        /\ o.request = ops[i].request
        /\ o.status = "failed" /\ o.turn = ops[i].turn /\ o.payload = ops[i].payload
    BY <2>1 DEF Fields
  <2>5. /\ o.turn = None /\ o.payload = None
        /\ o.status \in Statuses /\ ops[i].status \notin Terminal /\ ops[i].status # "expired"
    BY <1>1, <2>3, <2>4 DEF Statuses, Terminal
  <2>6. ASSUME ops'[i] = o PROVE TurnOf(i)' /\ PayloadOf(i)'
    BY <2>5, <2>6 DEF TurnOf, PayloadOf
  <2>7. OpsInv' /\ Grows /\ Len(ops') = Len(ops)
    BY <1>1, <2>1, <2>2, <2>3, <2>4, <2>5, <2>6, OpsReplaced
  <2>8. Inv'
    BY <1>1, <2>7, ServerMoves
  <2> QED
    BY <2>1, <2>7, <2>8 DEF Billed
<1> QED
  BY <1>2, <1>3 DEF Work

LEMMA Expires ==
    ASSUME Inv, NEW i \in DOMAIN ops, Expire(i)
    PROVE  Inv' /\ Billed
<1>1. /\ ops[i].status = "succeeded" /\ UNCHANGED <<runner, starts, used>>
      /\ ops' = [ops EXCEPT ![i].status = "expired", ![i].payload = None]
  BY DEF Expire
<1>2. /\ OpsInv /\ Fields(i) /\ TurnOf(i) /\ ops \in Seq(Range(ops)) /\ Len(ops) \in Nat
  BY DEF Inv, OpsInv
<1> PICK o : o = [ops[i] EXCEPT !.status = "expired", !.payload = None]
  OBVIOUS
<1>3. Replaced(i, o)
  BY <1>1 DEF Replaced
<1>4. /\ DOMAIN o = DOMAIN ops[i]
      /\ o.run = ops[i].run /\ o.step = ops[i].step /\ o.key = ops[i].key
      /\ o.request = ops[i].request
      /\ o.status = "expired" /\ o.turn = ops[i].turn /\ o.payload = None
  BY <1>2 DEF Fields
<1>5. /\ o.status \in Statuses /\ o.status \in Terminal /\ ops[i].status # "expired"
  BY <1>1, <1>4 DEF Statuses, Terminal
<1>6. ASSUME ops'[i] = o PROVE TurnOf(i)' /\ PayloadOf(i)'
  <2>1. ChatIdOf(i)' = ChatIdOf(i)
    BY <1>4, <1>6 DEF ChatIdOf
  <2>2. /\ ops'[i].turn = ops[i].turn /\ ops'[i].request = ops[i].request
        /\ ops'[i].status \in Terminal
    BY <1>4, <1>5, <1>6
  <2>3. TurnOf(i)'
    BY <1>2, <2>1, <2>2 DEF TurnOf
  <2>4. PayloadOf(i)'
    BY <1>4, <1>6 DEF PayloadOf
  <2> QED
    BY <2>3, <2>4
<1>7. OpsInv' /\ Grows /\ Len(ops') = Len(ops)
  BY <1>1, <1>2, <1>3, <1>4, <1>5, <1>6, OpsReplaced
<1>8. Inv'
  BY <1>1, <1>7, ServerMoves
<1> QED
  BY <1>2, <1>7, <1>8 DEF Billed

-----------------------------------------------------------------------------
(* The inductive invariant holds. *)

LEMMA Initially == Init => Inv
<1> SUFFICES ASSUME Init PROVE Inv
  OBVIOUS
<1>1. ops = <<>> /\ used = {} /\ starts = 0 /\ \A r \in Runners : runner[r] = Absent
  BY DEF Init
<1>2. starts \in 0 .. MaxStarts
  BY <1>1, FlowAssumption
<1>3. OpsInv
  <2>1. MaxOperations >= 0 /\ Len(<<>>) = 0 /\ DOMAIN <<>> = {}
    BY FlowAssumption
  <2>2. <<>> \in Seq(Range(<<>>))
    OBVIOUS
  <2> QED
    BY <1>1, <2>1, <2>2 DEF OpsInv
<1>4. UsedInv
  BY <1>1 DEF UsedInv
<1>5. \A r \in Runners : ProgramInv(runner[r])
  BY <1>1, IsInterrupted
<1>6. runner \in [Runners -> Locals]
  BY IsInterrupted DEF Init, ProgramInv, Known
<1> QED
  BY <1>2, <1>3, <1>4, <1>5, <1>6 DEF Inv

LEMMA Inductive == Inv /\ [Next]_vars => Inv' /\ Billed
<1> SUFFICES ASSUME Inv, [Next]_vars PROVE Inv' /\ Billed
  OBVIOUS
<1>1. ASSUME NEW r \in Runners, StartEndToEnd(r) PROVE Inv' /\ Billed
  BY <1>1, StartsEndToEnd
<1>2. ASSUME NEW r \in Runners, StartExample(r) PROVE Inv' /\ Billed
  BY <1>2, StartsExample
<1>3. ASSUME NEW r \in Runners, RunnerStep(r) PROVE Inv' /\ Billed
  BY <1>3, SelectsModel, CreatesWizard, CreatesOpening, CreatesChat, CreatesEvaluation,
     CreatesExternal, RejectsResult, ReturnsFromWizard, ReturnsFromOpening, ReturnsFromChat,
     ReturnsFromEvaluation, ReadsMessages, ReadsDetail
     DEF RunnerStep
<1>4. ASSUME NEW r \in Runners, Interrupt(r) PROVE Inv' /\ Billed
  BY <1>4, Interrupts
<1>5. ASSUME NEW i \in DOMAIN ops, Work(i) PROVE Inv' /\ Billed
  BY <1>5, Works
<1>6. ASSUME NEW i \in DOMAIN ops, Expire(i) PROVE Inv' /\ Billed
  BY <1>6, Expires
<1>7. ASSUME UNCHANGED vars PROVE Inv' /\ Billed
  <2>1. UNCHANGED ops /\ UNCHANGED <<runner, starts, used>>
    BY <1>7 DEF vars
  <2>2. OpsInv' /\ Grows
    BY <2>1, OpsStay, NothingMoves DEF Inv
  <2> QED
    BY <2>1, <2>2, ServerMoves, NothingBilled DEF Inv
<1> QED
  BY <1>1, <1>2, <1>3, <1>4, <1>5, <1>6, <1>7 DEF Next, Done

LEMMA AlwaysInv == Spec => []Inv
BY Initially, Inductive, PTL DEF Spec

-----------------------------------------------------------------------------
(* What EvaluationFlow promises *)

(* Every local of a program, and every operation, is what it should be: a  *)
(* program that waits for an operation, or goes on to the next step, has   *)
(* what that step's request is made of.                                    *)
LEMMA TypeOfProgram ==
    ASSUME OpsInv, NEW p, ProgramInv(p)
    PROVE  /\ p.pc = "wait" => p.op \in DOMAIN ops
           /\ p.pc = "messages" => p.chatId # None /\ p.turnId # None
           /\ p.step = "chat" /\ p.script = "end_to_end" => p.message # None
           /\ p.step = "evaluation" => p.response \notin {None, <<>>}
<1>1. /\ p \in Locals /\ Course(p) /\ Source(p) /\ ChatKnown(p) /\ TurnKnown(p) /\ Waiting(p)
  BY DEF ProgramInv, Known
<1>2. p.pc = "wait" => p.op \in DOMAIN ops
  BY <1>1 DEF Waiting
<1>3. ASSUME p.pc = "messages" PROVE p.chatId # None /\ p.turnId # None
  <2>1. p.chatOp \in DOMAIN ops /\ ops[p.chatOp].turn # None
        /\ p.chatId = ops[p.chatOp].turn.chat_id
        /\ p.turnId = ops[p.chatOp].turn.content.turn_id
    BY <1>1, <1>3 DEF Course, ChatKnown
  <2>2. p.chatId \in Text
    BY <2>1, ChatsNamed
  <2>3. p.turnId \in Text
    BY <2>1, TurnsMade
  <2> QED
    BY <2>2, <2>3, ConstantsApart
<1>4. p.step = "chat" /\ p.script = "end_to_end" => p.message # None
  BY <1>1, ConstantsApart DEF Source
<1>5. ASSUME p.step = "evaluation" PROVE p.response \notin {None, <<>>}
  <2>1. Between(p.response, 1, 140) /\ p.chatOp \in DOMAIN ops /\ ops[p.chatOp].turn # None
        /\ p.response = ops[p.chatOp].turn.content.model_response_id
    BY <1>1, <1>5 DEF Course, ChatKnown, TurnKnown
  <2>2. p.response \in Text
    BY <2>1, TurnsMade, ConstantsApart
  <2>3. Length(p.response) # 0
    BY <2>1 DEF Between
  <2>4. p.response # <<>>
    BY <2>2, <2>3, LengthOfText
  <2> QED
    BY <2>2, <2>4, ConstantsApart
<1> QED
  BY <1>2, <1>3, <1>4, <1>5

LEMMA TypesHold == Inv => TypeOK
<1> SUFFICES ASSUME Inv PROVE TypeOK
  OBVIOUS
<1>1. ASSUME NEW r \in Runners
      PROVE  /\ runner[r].pc = "wait" => runner[r].op \in DOMAIN ops
             /\ runner[r].pc = "messages" => runner[r].chatId # None /\ runner[r].turnId # None
             /\ runner[r].step = "chat" /\ runner[r].script = "end_to_end" =>
                   runner[r].message # None
             /\ runner[r].step = "evaluation" => runner[r].response \notin {None, <<>>}
  <2>1. OpsInv /\ ProgramInv(runner[r])
    BY DEF Inv
  <2> QED
    BY <2>1, TypeOfProgram
<1>2. ASSUME NEW i \in DOMAIN ops
      PROVE  /\ ops[i].status \in Statuses
             /\ ops[i].step \in Steps
             /\ ops[i].payload # None => ops[i].status = "succeeded"
  <2>1. Fields(i) /\ Filing(ops[i]) /\ PayloadOf(i)
    BY DEF Inv, OpsInv
  <2>2. ops[i].step \in Steps
    BY <2>1, StepsFiled DEF Filing, Steps
  <2> QED
    BY <2>1, <2>2 DEF Fields, PayloadOf
<1> QED
  BY <1>1, <1>2 DEF TypeOK, Inv

(* Whatever programs run, are run again, interrupted and answered, they    *)
(* know what the next step's request is made of.                           *)
THEOREM ProgramsAreWellTyped == Spec => []TypeOK
BY AlwaysInv, TypesHold, PTL

LEMMA Coherent == Inv => ReportIsCoherent
<1> SUFFICES ASSUME Inv, NEW r \in Runners, runner[r].outcome = "reported",
                    runner[r].script # "external"
             PROVE  LET chat       == ops[runner[r].chatOp]
                        evaluation == ops[runner[r].op]
                    IN  /\ chat.request.model = runner[r].model
                        /\ evaluation.request.chat_id = chat.turn.chat_id
                        /\ evaluation.request.turn_id = chat.turn.content.turn_id
                        /\ evaluation.request.model_response_id
                              = chat.turn.content.model_response_id
                        /\ evaluation.request.user_message = chat.request.message
                        /\ evaluation.request.ai_answer = chat.turn.content.model_answer
                        /\ runner[r].script = "end_to_end" =>
                              runner[r].evaluationId = EvaluationIds[runner[r].op]
  BY DEF ReportIsCoherent
<1> PICK p : p = runner[r]
  OBVIOUS
<1>1. /\ p \in Locals /\ Course(p) /\ ChatKnown(p) /\ TurnKnown(p) /\ Evaluated(p) /\ Waiting(p)
      /\ OpsInv /\ p.outcome = "reported" /\ p.script # "external"
  BY DEF Inv, ProgramInv, Known
<1>2. p.step = "evaluation" /\ p.chatOp # 0
  <2>1. p.script # None
    <3>1. Absent.outcome = "pending"
      BY DEF Absent, Fresh
    <3> QED
      BY <1>1, <3>1 DEF Course
  <2>2. p.script \in {"end_to_end", "chat_turn"}
    BY <1>1, <2>1, ScriptsOf
  <2> QED
    BY <1>1, <2>2, NoneIsNoWord DEF Course
<1>3. /\ p.chatOp \in DOMAIN ops /\ ops[p.chatOp].turn # None
      /\ ops[p.chatOp].request.model = p.model
      /\ p.chatId = ops[p.chatOp].turn.chat_id
  BY <1>1, <1>2 DEF ChatKnown
<1>4. /\ p.turn = ops[p.chatOp].turn.content
      /\ p.response = ops[p.chatOp].turn.content.model_response_id
  BY <1>1, <1>2 DEF TurnKnown
<1>5. ops[p.chatOp].turn.content.user_message = ops[p.chatOp].request.message
  BY <1>1, <1>3, TurnsMade
<1>6. ops[p.op].request =
         [route |-> "evaluate", user_message |-> p.turn.user_message,
          ai_answer |-> p.turn.model_answer, external_id |-> None,
          chat_id |-> p.chatId, model_response_id |-> p.response, turn_id |-> p.turn.turn_id]
  BY <1>1, <1>2 DEF Waiting, RequestOf
<1>7. /\ ops[p.op].request.user_message = p.turn.user_message
      /\ ops[p.op].request.ai_answer = p.turn.model_answer
      /\ ops[p.op].request.chat_id = p.chatId
      /\ ops[p.op].request.model_response_id = p.response
      /\ ops[p.op].request.turn_id = p.turn.turn_id
  BY <1>6
<1>8. p.script = "end_to_end" => p.evaluationId = EvaluationIds[p.op]
  BY <1>1 DEF Evaluated
<1> QED
  BY <1>3, <1>4, <1>5, <1>7, <1>8

(* However often programs are started over, under the same keys or under   *)
(* keys others have used, a report never mixes two conversations.          *)
THEOREM ReportsAreCoherent == Spec => []ReportIsCoherent
BY AlwaysInv, Coherent, PTL

LEMMA ErrorsHaveCause == Inv => LocalErrorsHaveCause
BY DEF Inv, ProgramInv, Known, ErrorHasCause, LocalErrorsHaveCause

(* The keys and requests the SDK makes of what it has handed out are ones  *)
(* it takes, whatever models, chats, turns and answers the server names.   *)
THEOREM NoErrorWithoutCause == Spec => []LocalErrorsHaveCause
BY AlwaysInv, ErrorsHaveCause, PTL

LEMMA BilledInOrder ==
    ASSUME Inv, [Next]_vars
    PROVE  Len(ops') > Len(ops) =>
              LET new == ops'[Len(ops')]
              IN  /\ new.step = "chat" =>
                        \E j \in DOMAIN ops :
                            /\ ops[j].step \in {"wizard", "opening"} /\ ops[j].status \in Terminal
                            /\ Normalized(ops[j].run) = Normalized(new.run)
                  /\ new.step = "evaluation" =>
                        \E j \in DOMAIN ops :
                            /\ ops[j].turn # None
                            /\ ops[j].turn.content.model_response_id
                                  = new.request.model_response_id
<1> SUFFICES ASSUME Len(ops') > Len(ops), NEW new, new = ops'[Len(ops')]
             PROVE  /\ new.step = "chat" =>
                           \E j \in DOMAIN ops :
                               /\ ops[j].step \in {"wizard", "opening"}
                               /\ ops[j].status \in Terminal
                               /\ Normalized(ops[j].run) = Normalized(new.run)
                    /\ new.step = "evaluation" =>
                           \E j \in DOMAIN ops :
                               /\ ops[j].turn # None
                               /\ ops[j].turn.content.model_response_id
                                     = new.request.model_response_id
  OBVIOUS
<1>1. Filing(new)
  BY Inductive DEF Billed
<1>2. OpsInv /\ UsedInv
  BY DEF Inv
<1> QED
  BY <1>1, <1>2, FiledInOrder

(* No step of any program has the server file a chat before the wizard or  *)
(* the opening turn of the same run is over, or an evaluation before there *)
(* is the answer it names.                                                 *)
THEOREM BillsInOrder == Spec => NothingBilledAhead
BY AlwaysInv, BilledInOrder, PTL DEF Spec, NothingBilledAhead

LEMMA FreeRerun ==
    ASSUME KeysApart, Inv
    PROVE  RerunIsFree
<1>1. OpsInv /\ UsedInv
  BY DEF Inv
<1>2. ASSUME NEW i \in DOMAIN ops, NEW j \in DOMAIN ops, ops[i].step = ops[j].step,
             SameRun(ops[i].run, ops[j].run), OneModel(ops[i].run)
      PROVE  i = j
  <2>1. SameRun(ops[i].run, ops[i].run) /\ SameRun(ops[j].run, ops[i].run)
    BY <1>2 DEF SameRun
  <2> QED
    BY <1>1, <1>2, <2>1, OncePerStep
<1>3. ASSUME NEW r \in Runners, runner[r].outcome = "Conflict"
      PROVE  ~Undisturbed(runner[r].run)
  <2>1. ConflictHasCause(runner[r])
    BY DEF Inv, ProgramInv, Known
  <2> QED
    BY <1>3, <2>1 DEF ConflictHasCause
<1> QED
  BY <1>2, <1>3 DEF RerunIsFree

(* Where whoever picks the run ids keeps the keys apart, running a program *)
(* again under its run id, over and over and in many places at once, is    *)
(* billed once for every step as long as the same model is chosen, whatever*)
(* else has changed, and ends in a conflict only if the prompt or the      *)
(* model has, a result is no longer kept, or another id makes the run.     *)
THEOREM RerunsAreFree == KeysApart => (Spec => []RerunIsFree)
<1> SUFFICES ASSUME KeysApart PROVE Spec => []RerunIsFree
  OBVIOUS
<1>1. Inv => RerunIsFree
  BY FreeRerun
<1> QED
  BY <1>1, AlwaysInv, PTL
===============================================================================
