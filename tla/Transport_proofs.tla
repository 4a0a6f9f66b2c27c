--------------------------- MODULE Transport_proofs ---------------------------
(***************************************************************************)
(* Proofs about the retry loop of Transport, for every set of answers and  *)
(* every retry configuration, and about what ResponseParsing reads from    *)
(* the headers the loop is told by.                                        *)
(***************************************************************************)
EXTENDS Transport, ResponseParsing, FiniteSetTheorems, TLAPS

(* 2^n is a natural number, that of the sets of n numbers.                 *)
LEMMA PowerOfTwo ==
    ASSUME NEW n \in Nat
    PROVE  2^n \in Nat
<1>1. IsFiniteSet(1 .. n) /\ Cardinality(1 .. n) = n
  BY FS_Interval
<1>2. IsFiniteSet(SUBSET (1 .. n)) /\ Cardinality(SUBSET (1 .. n)) = 2^n
  BY <1>1, FS_SUBSET
<1> QED
  BY <1>2, FS_CardinalityType

(* A computed delay is a duration within the cap.                          *)
LEMMA RetryDelayBounded ==
    ASSUME NEW r \in Nat \cup {NoHeader}, NEW k \in 1 .. MaxAttempts
    PROVE  /\ RetryDelay(r, k, InitialBackoff, MaxBackoff) \in Nat
           /\ RetryDelay(r, k, InitialBackoff, MaxBackoff) <= MaxBackoff
<1> DEFINE d == 2^(k - 1)
<1>1. d \in Nat
  BY PowerOfTwo, ConfigAssumption DEF MaxAttempts
<1>2. InitialBackoff * d \in Nat
  BY <1>1, ConfigAssumption
<1>3. Backoff(k, InitialBackoff, MaxBackoff) \in Nat
      /\ Backoff(k, InitialBackoff, MaxBackoff) <= MaxBackoff
  BY <1>2, ConfigAssumption DEF Backoff, AtMost
<1> QED
  BY <1>3, ConfigAssumption DEF RetryDelay, AtMost, NoHeader

(* The invariant that the safety theorems below follow from.               *)
Inv == TypeOK /\ IndInv

LEMMA InvInit == Init => Inv
  BY ConfigAssumption
     DEF Init, Inv, TypeOK, IndInv, ControlInv, EffectInv, AnswerInv, DelayInv,
         BackoffBudget, Heard, Idle, MaxAttempts, Outcomes

(* Types and the loop's control, one step per action.                      *)
LEMMA StepTypeOK == Inv /\ [Next]_vars => TypeOK'
<1> SUFFICES ASSUME Inv, [Next]_vars PROVE TypeOK'
  OBVIOUS
<1> USE DEF Inv, TypeOK, callVars, clientVars, netVars, Outcomes, Finish
<1>1. CASE Send
  BY <1>1 DEF Send
<1>2. CASE Receive
  BY <1>2 DEF Receive
<1>3. CASE CatchHTTPError
  <2>1. RetryDelay(NoHeader, attempt, InitialBackoff, MaxBackoff) \in Nat
    BY RetryDelayBounded
  <2> QED
    BY <1>3, <2>1 DEF CatchHTTPError
<1>4. CASE ReturnResponse
  BY <1>4 DEF ReturnResponse
<1>5. CASE RejectErrorBody
  BY <1>5 DEF RejectErrorBody
<1>6. CASE RetryErrorResponse
  <2>1. answer \in Answer
    BY <1>6, AnswersAssumption DEF RetryErrorResponse, ErrorObject, IndInv, ControlInv
  <2>2. RetryDelay(answer.retryAfter, attempt, InitialBackoff, MaxBackoff) \in Nat
    BY <2>1, RetryDelayBounded DEF Answer
  <2> QED
    BY <1>6, <2>2 DEF RetryErrorResponse
<1>7. CASE RaiseErrorResponse
  BY <1>7 DEF RaiseErrorResponse
<1>8. CASE Wake
  BY <1>8, ConfigAssumption DEF Wake, IndInv, ControlInv, MaxAttempts
<1>9. CASE Environment
  BY <1>9 DEF Environment, Lose, Handle, Effect
<1>10. CASE UNCHANGED vars
  BY <1>10 DEF vars
<1> QED
  BY <1>1, <1>2, <1>3, <1>4, <1>5, <1>6, <1>7, <1>8, <1>9, <1>10
     DEF Next, ClientStep, Done

LEMMA StepControl == Inv /\ [Next]_vars => ControlInv'
<1> SUFFICES ASSUME Inv, [Next]_vars PROVE ControlInv'
  OBVIOUS
<1> USE DEF Inv, TypeOK, IndInv, ControlInv, Idle, callVars, clientVars, netVars, Finish
<1>1. CASE Send
  BY <1>1 DEF Send
<1>2. CASE Receive
  BY <1>2 DEF Receive
<1>3. CASE CatchHTTPError
  BY <1>3, ConfigAssumption DEF CatchHTTPError, RetryAfterException, ShouldRetry, MaxAttempts
<1>4. CASE ReturnResponse
  BY <1>4 DEF ReturnResponse, ParseResponse
<1>5. CASE RejectErrorBody
  BY <1>5 DEF RejectErrorBody
<1>6. CASE RetryErrorResponse
  BY <1>6, ConfigAssumption DEF RetryErrorResponse, ErrorObject, RetryAfterAnswer, ShouldRetry, MaxAttempts
<1>7. CASE RaiseErrorResponse
  BY <1>7 DEF RaiseErrorResponse
<1>8. CASE Wake
  BY <1>8, ConfigAssumption DEF Wake, MaxAttempts
<1>9. CASE Environment
  <2>1. ASSUME NEW i \in 1 .. MaxAttempts, wire[i] = "travelling", UNCHANGED <<callVars, clientVars>>,
               NEW s \in {"delivered", "lost"}, wire' = [wire EXCEPT ![i] = s]
        PROVE  ControlInv'
    BY <2>1
  <2> QED
    BY <1>9, <2>1 DEF Environment, Lose, Handle
<1>10. CASE UNCHANGED vars
  BY <1>10 DEF vars
<1> QED
  BY <1>1, <1>2, <1>3, <1>4, <1>5, <1>6, <1>7, <1>8, <1>9, <1>10
     DEF Next, ClientStep, Done

(* A keyless mutation has sent nothing but its first request, so a request *)
(* that reaches the server performs the mutation for the first time, or is *)
(* recognised by its key.                                                  *)
LEMMA StepEffect == Inv /\ [Next]_vars => EffectInv'
<1> SUFFICES ASSUME Inv, [Next]_vars PROVE EffectInv'
  OBVIOUS
<1> USE DEF Inv, TypeOK, IndInv, EffectInv, callVars, clientVars, netVars, Finish, Mutating
<1>1. 1 \in 1 .. MaxAttempts
  BY ConfigAssumption DEF MaxAttempts
<1>2. CASE Send
  <2>1. Mutating /\ ~hasKey => attempt = 1 /\ wire[1] = "unsent"
    BY <1>1, <1>2 DEF Send, ControlInv, Repeatable, Idle
  <2> QED
    BY <1>1, <1>2, <2>1 DEF Send
<1>3. CASE \E i \in 1 .. MaxAttempts : Lose(i)
  BY <1>1, <1>3 DEF Lose
<1>4. ASSUME NEW i \in 1 .. MaxAttempts, NEW a \in Answers, Handle(i, a)
      PROVE  EffectInv'
  <2>1. Mutating /\ ~hasKey => i = 1
    BY <1>1, <1>4, ConfigAssumption DEF Handle, ControlInv, Repeatable, Idle, MaxAttempts
  <2> QED
    BY <1>1, <1>4, <2>1 DEF Handle, Effect
<1>5. CASE UNCHANGED <<callVars, wire, effects>>
  BY <1>5
<1> QED
  BY <1>2, <1>3, <1>4, <1>5
     DEF Next, ClientStep, Environment, Done, vars, Receive, CatchHTTPError, ReturnResponse,
         RejectErrorBody, RetryErrorResponse, RaiseErrorResponse, Wake

(* What has been heard of an attempt stays true: the effects of a keyless  *)
(* mutation are settled once its only request is delivered, and those of a *)
(* keyed one once they are 1.                                              *)
LEMMA HeardStable ==
    ASSUME Inv, EffectInv', [Next]_vars, NEW a \in Answers, Heard(a), UNCHANGED attempt
    PROVE  Heard(a)'
<1> USE DEF Inv, TypeOK, IndInv, Heard, Truthful, Mutating, callVars, clientVars, netVars
<1>1. a # NoAnswer
  BY AnswersAssumption
<1>2. CASE UNCHANGED <<callVars, wire, effects>>
  BY <1>2
<1>3. CASE Send
  BY <1>1, <1>3 DEF Send, ControlInv, Idle
<1>4. CASE \E i \in 1 .. MaxAttempts : Lose(i)
  BY <1>1, <1>4 DEF Lose
<1>5. ASSUME NEW i \in 1 .. MaxAttempts, NEW b \in Answers, Handle(i, b)
      PROVE  Heard(a)'
  <2>1. wire'[attempt] = "delivered"
    BY <1>1, <1>5 DEF Handle
  <2>2. Mutating /\ ~hasKey => FALSE
    BY <1>1, <1>5 DEF Handle, ControlInv, Repeatable, Idle
  <2>3. Mutating /\ a.status < 300 => effects' = 1
    BY <1>1, <1>5, <2>2 DEF Handle, Effect
  <2> QED
    BY <1>5, <2>1, <2>2, <2>3 DEF Handle
<1> QED
  BY <1>2, <1>3, <1>4, <1>5
     DEF Next, ClientStep, Environment, Done, vars, Receive, CatchHTTPError, ReturnResponse,
         RejectErrorBody, RetryErrorResponse, RaiseErrorResponse, Wake, Finish

LEMMA StepAnswer == Inv /\ EffectInv' /\ [Next]_vars => AnswerInv'
<1> SUFFICES ASSUME Inv, EffectInv', [Next]_vars PROVE AnswerInv'
  OBVIOUS
<1> USE DEF Inv, TypeOK, IndInv, AnswerInv, callVars, clientVars, netVars, Finish
<1>1. CASE Send
  BY <1>1 DEF Send, Heard
<1>2. CASE Receive
  BY <1>2, HeardStable DEF Receive, Heard, Truthful, Mutating
<1>3. CASE CatchHTTPError
  BY <1>3 DEF CatchHTTPError, Heard, Truthful, Mutating
<1>4. CASE UNCHANGED <<callVars, attempt, answer, netVars>> /\ pc = "received"
  BY <1>4 DEF Heard, Truthful, Mutating
<1>5. CASE Wake
  BY <1>5 DEF Wake, Heard
<1>6. CASE \E i \in 1 .. MaxAttempts : Lose(i)
  BY <1>6, HeardStable DEF Lose, Heard
<1>7. ASSUME NEW i \in 1 .. MaxAttempts, NEW a \in Answers, Handle(i, a)
      PROVE  AnswerInv'
  <2>1. pc \in {"wait", "received", "sleep", "done"} => Heard(answer)'
    BY <1>7, HeardStable DEF Handle, Heard
  <2>2. CASE pc = "wait" /\ attempt = i
    <3>1. wire'[attempt] = "delivered"
      BY <1>7, <2>2 DEF Handle
    <3>2. Mutating /\ ~hasKey => effects = 0
      BY <1>7, <2>2, ConfigAssumption
         DEF Handle, EffectInv, ControlInv, Repeatable, Mutating, MaxAttempts
    <3>3. Truthful(a)'
      BY <1>7, <3>2, AnswersAssumption
         DEF Handle, Truthful, Effect, EffectInv, Mutating, Answer
    <3> QED
      BY <1>7, <2>1, <2>2, <3>1, <3>3 DEF Handle, Heard
  <2>3. CASE ~(pc = "wait" /\ attempt = i)
    BY <1>7, <2>1, <2>3, HeardStable DEF Handle, Heard
  <2> QED
    BY <2>2, <2>3
<1>8. CASE UNCHANGED vars
  BY <1>8 DEF vars, Heard, Truthful, Mutating
<1> QED
  BY <1>1, <1>2, <1>3, <1>4, <1>5, <1>6, <1>7, <1>8
     DEF Next, ClientStep, Environment, Done, ReturnResponse, RejectErrorBody,
         RetryErrorResponse, RaiseErrorResponse, ErrorObject

LEMMA StepBudget == Inv /\ [Next]_vars => DelayInv' /\ BackoffBudget'
<1> SUFFICES ASSUME Inv, [Next]_vars PROVE DelayInv' /\ BackoffBudget'
  OBVIOUS
<1> USE DEF Inv, TypeOK, IndInv, DelayInv, BackoffBudget, callVars, clientVars, netVars, Finish
<1>1. CASE CatchHTTPError
  BY <1>1, RetryDelayBounded DEF CatchHTTPError
<1>2. CASE RetryErrorResponse
  <2>1. answer \in Answer
    BY <1>2, AnswersAssumption DEF RetryErrorResponse, ErrorObject, ControlInv
  <2> QED
    BY <1>2, <2>1, RetryDelayBounded DEF RetryErrorResponse, Answer
<1>3. CASE Wake
  <2>1. slept' <= (attempt - 1) * MaxBackoff + MaxBackoff
    BY <1>3, ConfigAssumption DEF Wake, MaxAttempts
  <2>2. (attempt - 1) * MaxBackoff + MaxBackoff = (attempt' - 1) * MaxBackoff
    BY <1>3, ConfigAssumption DEF Wake, MaxAttempts
  <2> QED
    BY <1>3, <2>1, <2>2 DEF Wake
<1>4. CASE UNCHANGED <<attempt, delay, slept>> /\ pc' # "sleep"
  BY <1>4
<1>5. CASE UNCHANGED clientVars
  BY <1>5
<1> QED
  BY <1>1, <1>2, <1>3, <1>4, <1>5
     DEF Next, ClientStep, Environment, Lose, Handle, Done, vars, Send, Receive,
         ReturnResponse, RejectErrorBody, RaiseErrorResponse

LEMMA InvStep == Inv /\ [Next]_vars => Inv'
  BY StepTypeOK, StepControl, StepEffect, StepAnswer, StepBudget DEF Inv, IndInv

(* Every reachable state is well typed and satisfies the invariant.        *)
LEMMA Invariance == Spec => []Inv
  BY InvInit, InvStep, PTL DEF Spec

(* Every variable keeps its type.                                          *)
THEOREM TypeCorrect == Spec => []TypeOK
<1>1. Inv => TypeOK
  BY DEF Inv
<1> QED
  BY <1>1, Invariance, PTL

(* The server performs a mutation at most once, whatever is lost, delayed  *)
(* or answered by a failing gateway, for every retry configuration.        *)
THEOREM MutatesAtMostOnce == Spec => []AtMostOneEffect
<1>1. Inv => AtMostOneEffect
  BY DEF Inv, TypeOK, IndInv, EffectInv, AtMostOneEffect
<1> QED
  BY <1>1, Invariance, PTL

(* What is handed back as the result of a mutation, out of everything that *)
(* the loop lets through, means the server has performed it once.          *)
THEOREM ReturnedMeansDone == Spec => []SuccessIsReal
<1>1. ASSUME Inv, outcome = "returned", Mutating
      PROVE  effects = 1
  <2>1. answer \in Answers /\ answer # NoAnswer /\ answer.status \in 200 .. 299
    BY <1>1, AnswersAssumption DEF Inv, IndInv, ControlInv
  <2>2. pc = "done"
    BY <1>1 DEF Inv, IndInv, ControlInv
  <2> QED
    BY <1>1, <2>1, <2>2 DEF Inv, IndInv, AnswerInv, Heard, Truthful
<1>2. Inv => SuccessIsReal
  BY <1>1 DEF SuccessIsReal
<1> QED
  BY <1>2, Invariance, PTL

(* A keyless mutation that ends in a refusal has not been performed.       *)
THEOREM RefusedMeansUndone == Spec => []RefusalIsClean
<1>1. Inv => RefusalIsClean
  BY DEF Inv, IndInv, AnswerInv, Heard, Truthful, RefusalIsClean
<1> QED
  BY <1>1, Invariance, PTL

(* A call sleeps at most max_retry_backoff before each of its retries.     *)
THEOREM SleepsWithinBudget == Spec => []BackoffBudget
<1>1. Inv => BackoffBudget
  BY DEF Inv, IndInv
<1> QED
  BY <1>1, Invariance, PTL

-----------------------------------------------------------------------------
(* Giving up, and the delays between attempts. *)

LEMMA StepGivesUp == Inv /\ GivesUpLast /\ [Next]_vars => GivesUpLast'
<1> SUFFICES ASSUME Inv, GivesUpLast, [Next]_vars PROVE GivesUpLast'
  OBVIOUS
<1> USE DEF GivesUpLast, callVars, clientVars, netVars, Finish
<1>1. attempt \in 1 .. MaxAttempts /\ MaxAttempts \in Nat
  BY ConfigAssumption DEF Inv, TypeOK, MaxAttempts
<1>2. pc = "received" => answer # NoAnswer
  BY AnswersAssumption DEF Inv, IndInv, ControlInv
<1>3. CASE UNCHANGED outcome /\ pc # "done"
  BY <1>3 DEF Inv, IndInv, ControlInv
<1>4. CASE UNCHANGED <<callVars, clientVars>>
  BY <1>4 DEF TransientFailure
<1>5. CASE CatchHTTPError /\ ~RetryAfterException
  <2>1. Transient(503, "dependency_unavailable")
    BY DEF Transient, RetryableStatus, RetryableCodes, NonRetryableCodes
  <2>2. Repeatable(method, hasKey) => attempt = MaxAttempts
    BY <1>1, <1>5, <2>1 DEF RetryAfterException, ShouldRetry
  <2> QED
    BY <1>5, <2>2 DEF CatchHTTPError
<1>6. CASE ReturnResponse
  <2>1. answer \in Answer /\ answer # NoAnswer /\ answer.status < 400
    BY <1>2, <1>6, AnswersAssumption DEF ReturnResponse, Inv, IndInv, ControlInv
  <2>2. ~(answer.status >= 400)
    BY <2>1 DEF Answer
  <2> QED
    BY <1>6, <2>1, <2>2 DEF ReturnResponse
<1>7. CASE RejectErrorBody
  BY <1>2, <1>7 DEF RejectErrorBody, TransientFailure
<1>8. CASE RaiseErrorResponse
  BY <1>1, <1>2, <1>8
     DEF RaiseErrorResponse, ErrorObject, RetryAfterAnswer, ShouldRetry, TransientFailure
<1> QED
  BY <1>3, <1>4, <1>5, <1>6, <1>7, <1>8
     DEF Next, ClientStep, Environment, Lose, Handle, Done, vars, Send, Receive, CatchHTTPError,
         RetryErrorResponse, ErrorObject, Wake

(* A repeatable call that ends with a transient failure has used all its   *)
(* attempts, for every retry configuration.                                *)
THEOREM UsesAllAttempts == Spec => []GivesUpLast
<1>1. Init => GivesUpLast
  BY DEF Init, GivesUpLast
<1> QED
  BY <1>1, StepGivesUp, Invariance, PTL DEF Spec

(* While it waits for a response a call holds none, and the delay before   *)
(* its next attempt is no shorter than the server has asked for.           *)
HeaderInv ==
    /\ pc = "wait" => answer = NoAnswer
    /\ pc = "sleep" /\ answer # NoAnswer /\ answer.retryAfter # NoHeader =>
          delay >= AtMost(answer.retryAfter, MaxBackoff)

LEMMA StepHeader == Inv /\ HeaderInv /\ [Next]_vars => HeaderInv'
<1> SUFFICES ASSUME Inv, HeaderInv, [Next]_vars PROVE HeaderInv'
  OBVIOUS
<1> USE DEF HeaderInv, callVars, clientVars, netVars, Finish
<1>1. CASE RetryErrorResponse
  <2>1. answer.retryAfter \in Nat \cup {NoHeader}
    BY <1>1, AnswersAssumption
       DEF Inv, IndInv, ControlInv, RetryErrorResponse, ErrorObject, Answer
  <2>2. answer.retryAfter # NoHeader =>
           RetryDelay(answer.retryAfter, attempt, InitialBackoff, MaxBackoff)
              >= AtMost(answer.retryAfter, MaxBackoff)
    BY <2>1, ConfigAssumption DEF RetryDelay, AtMost
  <2> QED
    BY <1>1, <2>2 DEF RetryErrorResponse
<1>2. CASE CatchHTTPError
  BY <1>2 DEF CatchHTTPError
<1>3. CASE UNCHANGED clientVars
  BY <1>3
<1>4. CASE Send
  BY <1>4 DEF Send
<1>5. CASE pc' \notin {"wait", "sleep"}
  BY <1>5
<1> QED
  BY <1>1, <1>2, <1>3, <1>4, <1>5
     DEF Next, ClientStep, Environment, Lose, Handle, Done, vars, Receive, ReturnResponse,
         RejectErrorBody, RaiseErrorResponse, Wake

(* No attempt leaves before the Retry-After of the last answer has passed, *)
(* as far as the cap allows.                                               *)
THEOREM WaitsAsAsked == Spec => HonoursRetryAfter
<1>1. Init => HeaderInv
  BY DEF Init, HeaderInv
<1>2. Inv /\ HeaderInv /\ [Next]_vars =>
         (attempt' # attempt /\ answer # NoAnswer /\ answer.retryAfter # NoHeader =>
            slept' - slept >= AtMost(answer.retryAfter, MaxBackoff))
  <2> SUFFICES ASSUME Inv, HeaderInv, [Next]_vars, attempt' # attempt,
                      answer # NoAnswer, answer.retryAfter # NoHeader
               PROVE  slept' - slept >= AtMost(answer.retryAfter, MaxBackoff)
    OBVIOUS
  <2>1. Wake
    BY DEF Next, ClientStep, CatchHTTPError, Environment, Lose, Handle, Done, vars, Send, Receive,
           ReturnResponse, RejectErrorBody, RetryErrorResponse, RaiseErrorResponse, clientVars
  <2>2. slept' - slept = delay
    BY <2>1 DEF Wake, Inv, TypeOK
  <2> QED
    BY <2>1, <2>2 DEF Wake, HeaderInv
<1> QED
  BY <1>1, <1>2, StepHeader, Invariance, PTL DEF Spec, HonoursRetryAfter

-----------------------------------------------------------------------------
(* Every step of the call is a step of the request contract, or changes    *)
(* nothing the contract speaks of.                                         *)
LEMMA ContractInit == Init => Contract!Init
  BY DEF Init, Contract!Init, Result, Mutating

LEMMA ContractStep == Inv /\ Inv' /\ [Next]_vars => [Contract!Next]_Contract!vars
<1> SUFFICES ASSUME Inv, Inv', [Next]_vars
             PROVE  Contract!Next \/ UNCHANGED Contract!vars
  OBVIOUS
<1> USE DEF Inv, TypeOK, callVars, clientVars, netVars, Finish, Mutating,
            Contract!Next, Contract!vars, Result
<1>1. CASE UNCHANGED <<callVars, outcome, effects>> /\ pc # "done" /\ pc' # "done"
  BY <1>1 DEF IndInv, ControlInv
<1>2. CASE pc # "done" /\ pc' = "done" /\ UNCHANGED <<callVars, effects>>
  <2>1. outcome = "pending" /\ outcome' # "pending"
    BY <1>2 DEF IndInv, ControlInv
  <2>2. CASE Result' = "success"
    <3>1. answer' \in Answers /\ answer'.body = "model"
      BY <2>1, <2>2 DEF IndInv, ControlInv
    <3>2. answer' # NoAnswer /\ answer'.status \in 200 .. 299
      BY <3>1, AnswersAssumption
    <3>3. answer'.status < 300
      <4>1. \A n \in 200 .. 299 : n < 300
        OBVIOUS
      <4> QED
        BY <3>2, <4>1
    <3>4. Truthful(answer)'
      BY <1>2, <3>2 DEF IndInv, AnswerInv, Heard
    <3>5. Mutating => effects' = 1
      BY <1>2, <3>3, <3>4 DEF Truthful
    <3> QED
      BY <1>2, <2>1, <2>2, <3>5 DEF Contract!Succeed
  <2>3. CASE Result' = "failure"
    BY <1>2, <2>1, <2>3 DEF Contract!Fail
  <2> QED
    BY <2>1, <2>2, <2>3
<1>3. CASE UNCHANGED <<callVars, clientVars>> /\ effects' = effects + 1
  BY <1>3 DEF IndInv, EffectInv, Contract!Perform
<1>4. CASE UNCHANGED <<callVars, clientVars, effects>>
  BY <1>4
<1> HIDE DEF Result, Contract!Next, Contract!vars
<1>5. CASE Send \/ Receive \/ RetryErrorResponse \/ Wake
  BY <1>1, <1>5 DEF Send, Receive, RetryErrorResponse, ErrorObject, Wake
<1>6. CASE ReturnResponse \/ RejectErrorBody \/ RaiseErrorResponse
  BY <1>2, <1>6 DEF ReturnResponse, RejectErrorBody, RaiseErrorResponse, ErrorObject
<1>7. CASE CatchHTTPError
  BY <1>1, <1>2, <1>7 DEF CatchHTTPError
<1>8. CASE Environment
  BY <1>3, <1>4, <1>8 DEF Environment, Lose, Handle, Effect
<1>9. CASE UNCHANGED vars
  BY <1>4, <1>9 DEF vars
<1> QED
  BY <1>5, <1>6, <1>7, <1>8, <1>9 DEF Next, ClientStep, Done

(* The retry loop implements the safety part of the request contract.      *)
THEOREM RefinesContract == Spec => Contract!Init /\ [][Contract!Next]_Contract!vars
  BY Invariance, ContractInit, ContractStep, PTL DEF Spec

-----------------------------------------------------------------------------
(* The readers of response headers agree where a caller may compare them.  *)

(* What the retry loop reads is a duration, or nothing.                      *)
LEMMA RetryAfterIsRead ==
    ASSUME NEW header \in HeaderText, NEW now \in Int, NEW cap \in Nat
    PROVE  RetryAfterHeader(header, now, cap) \in Nat \cup {NoHeader}
  <1>1. ParseRetryAfter(header, now) \in Nat \cup {NoHeader, Infinite}
    BY DEF ParseRetryAfter, HeaderText, AtLeastZero, NoHeader, Infinite
  <1> QED
    BY <1>1 DEF RetryAfterHeader, NoHeader, Infinite

(* Whatever text a server sends as Retry-After (negative, infinite, nan, a   *)
(* past date), the retry loop sleeps between 0 and max_retry_backoff: no     *)
(* ValueError of time.sleep, no endless sleep.                               *)
THEOREM AnyHeaderIsBounded ==
    ASSUME NEW header \in HeaderText, NEW now \in Int,
           NEW initial \in Nat, NEW cap \in Nat,
           NEW k \in Nat \ {0}
    PROVE  RetryDelay(RetryAfterHeader(header, now, cap), k, initial, cap) \in 0 .. cap
  <1> DEFINE read == RetryAfterHeader(header, now, cap)
  <1>1. read \in Nat \cup {NoHeader}
    BY RetryAfterIsRead
  <1>2. CASE read = NoHeader
    <2>1. 2^(k - 1) \in Nat
      BY PowerOfTwo
    <2>2. initial * 2^(k - 1) \in Nat
      BY <2>1
    <2> QED
      BY <1>2, <2>2 DEF RetryDelay, Backoff, AtMost
  <1>3. CASE read # NoHeader
    BY <1>1, <1>3 DEF RetryDelay, AtMost
  <1> QED
    BY <1>2, <1>3

(* Two readers, one header: when the exception tells its caller a finite     *)
(* retry_after, a retry of the same response would have waited exactly that  *)
(* long, up to the cap.  The converse fails: the loop also understands dates *)
(* and negative numbers, about which the exception says nothing.             *)
THEOREM ShownIsWaited ==
    ASSUME NEW header \in HeaderText, NEW now \in Int, NEW cap \in Nat,
           NEW k, NEW initial, NEW status, NEW code,
           ErrorFromResponse(status, code, header).retry_after \in Nat
    PROVE  RetryDelay(RetryAfterHeader(header, now, cap), k, initial, cap)
             = AtMost(ErrorFromResponse(status, code, header).retry_after, cap)
  <1>1. ParseNonNegativeFloat(header) \in Nat
    BY DEF ErrorFromResponse
  <1>2. header.kind = "number" /\ header.value >= 0 /\ ParseNonNegativeFloat(header) = header.value
    BY <1>1 DEF ParseNonNegativeFloat, HeaderText, NoHeader, Infinite, NaN
  <1>3. ParseRetryAfter(header, now) = header.value
    BY <1>2 DEF ParseRetryAfter, AtLeastZero, HeaderText
  <1>4. RetryAfterHeader(header, now, cap) = header.value /\ header.value # NoHeader
    BY <1>2, <1>3 DEF RetryAfterHeader, NoHeader, Infinite, HeaderText
  <1> QED
    BY <1>2, <1>4 DEF RetryDelay, ErrorFromResponse

(* The retry policy and the exceptions name the same codes but one: the      *)
(* policy has no opinion of insufficient_credits and decides by the status.  *)
THEOREM PolicyKnowsTheCodes ==
    RetryableCodes \cup NonRetryableCodes = DOMAIN ErrorTypes \ {"insufficient_credits"}
  BY DEF RetryableCodes, NonRetryableCodes, ErrorTypes
===============================================================================
