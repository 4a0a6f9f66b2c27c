--------------------------- MODULE AsyncClient_proofs ---------------------------
(***************************************************************************)
(* Proofs about AsyncClient, for any number of tasks, clients and httpx    *)
(* clients, however they share them.                                       *)
(***************************************************************************)
EXTENDS AsyncClient, TLAPS

(* Only a repeatable request gets past its first attempt, only attempts    *)
(* that have begun are on the wire, and an idle task has done nothing.     *)
ControlInv(t) ==
    /\ outcome[t] = "pending" <=> pc[t] # "done"
    /\ pc[t] = "sleeping" => attempt[t] < MaxAttempts
    /\ pc[t] = "sleeping" \/ attempt[t] > 1 => Repeatable(Method[t], HasKey[t])
    /\ \A n \in 1 .. MaxAttempts : <<t, n>> \in wire => n <= attempt[t] /\ pc[t] # "idle"
    /\ pc[t] = "idle" => attempt[t] = 1

(* A keyless mutation has no effect before its only request is handled.    *)
EffectInv(t) ==
    /\ effects[t] <= 1
    /\ effects[t] = 1 => Mutating(t) /\ pc[t] # "idle"
    /\ effects[t] = 1 /\ ~HasKey[t] => \A n \in 1 .. MaxAttempts : <<t, n>> \notin wire

(* An answer of success tells the truth, and keeps doing so.               *)
AnswerInv(t) == reply[t] = "success" /\ Mutating(t) => effects[t] = 1

(* A client that has been closed does not hold on to its httpx client.     *)
ClosedInv == \A c \in closed \cap Owned : ~open[HttpOf[c]]

TaskInv(t) == ControlInv(t) /\ EffectInv(t) /\ AnswerInv(t)

Inv == TypeOK /\ ClosedInv /\ \A t \in Tasks : TaskInv(t)

-----------------------------------------------------------------------------
LEMMA InitInv == Init => Inv
  BY CallsAssumption
     DEF Init, Inv, TypeOK, ClosedInv, TaskInv, ControlInv, EffectInv, AnswerInv, MaxAttempts

(* Both retries need a further attempt and a repeatable request. *)
LEMMA RetryIsAllowed ==
  ASSUME NEW t \in Tasks, WorthARetry(t)
  PROVE  attempt[t] < MaxAttempts /\ Repeatable(Method[t], HasKey[t])
  BY DEF WorthARetry, ShouldRetry

LEMMA StepTypeOK == Inv /\ [Next]_vars => TypeOK'
<1> SUFFICES ASSUME Inv, [Next]_vars
             PROVE  TypeOK'
  OBVIOUS
<1> USE CallsAssumption DEF Inv, TypeOK, taskVars, netVars
<1>1. ASSUME NEW t \in Tasks, NEW n \in 1 .. MaxAttempts, Request(t, n),
             UNCHANGED <<open, closed, effects>>
      PROVE  TypeOK'
  BY <1>1 DEF Request, Finish
<1>2. ASSUME NEW t \in Tasks, TaskStep(t) \/ Broken(t)
      PROVE  TypeOK'
  <2>1. CASE Call(t)
    BY <2>1, <1>1 DEF Call, MaxAttempts
  <2>2. CASE WakeUp(t)
    <3>1. attempt[t] + 1 \in 1 .. MaxAttempts
      BY <2>2 DEF WakeUp, TaskInv, ControlInv, MaxAttempts
    <3> QED
      BY <2>2, <3>1, <1>1 DEF WakeUp
  <2>3. ASSUME WorthARetry(t), Retry(t), UNCHANGED <<open, closed, effects>>
        PROVE  TypeOK'
    <3>1. attempt[t] + 1 \in 1 .. MaxAttempts
      BY <2>3, RetryIsAllowed DEF MaxAttempts
    <3> QED
      BY <2>3, <3>1, <1>1 DEF Retry
  <2>4. CASE Answered(t)
    BY <2>4, <2>3 DEF Answered, Finish
  <2>5. CASE Broken(t)
    BY <2>5, <2>3 DEF Broken, Finish
  <2> QED
    BY <1>2, <2>1, <2>2, <2>4, <2>5 DEF TaskStep
<1>3. ASSUME NEW t \in Tasks, Cancel(t)
      PROVE  TypeOK'
  BY <1>3 DEF Cancel, Finish
<1>4. ASSUME NEW c \in Clients, Aclose(c)
      PROVE  TypeOK'
  BY <1>4 DEF Aclose
<1>5. ASSUME NEW h \in Https, CloseShared(h)
      PROVE  TypeOK'
  BY <1>5 DEF CloseShared
<1>6. ASSUME NEW t \in Tasks, NEW n \in 1 .. MaxAttempts, Lose(t, n)
      PROVE  TypeOK'
  BY <1>6 DEF Lose
<1>7. ASSUME NEW t \in Tasks, NEW n \in 1 .. MaxAttempts, NEW a \in Answers, Handle(t, n, a)
      PROVE  TypeOK'
  BY <1>7 DEF Handle, Effect
<1>8. CASE UNCHANGED vars
  BY <1>8 DEF vars
<1> QED
  BY <1>2, <1>3, <1>4, <1>5, <1>6, <1>7, <1>8 DEF Next, Done

LEMMA StepClosed == Inv /\ [Next]_vars => ClosedInv'
<1> SUFFICES ASSUME Inv, [Next]_vars
             PROVE  ClosedInv'
  OBVIOUS
<1> USE ClientsAssumption DEF Inv, TypeOK, ClosedInv
<1>1. ASSUME NEW c \in Clients, Aclose(c)
      PROVE  ClosedInv'
  BY <1>1 DEF Aclose
<1>2. ASSUME NEW h \in Https, CloseShared(h)
      PROVE  ClosedInv'
  BY <1>2 DEF CloseShared
<1>3. CASE UNCHANGED <<open, closed>>
  BY <1>3
<1>4. ASSUME NEW t \in Tasks, TaskStep(t) \/ Broken(t) \/ Cancel(t)
      PROVE  UNCHANGED <<open, closed>>
  BY <1>4 DEF TaskStep, Call, Answered, WakeUp, Broken, Cancel
<1>5. ASSUME NEW t \in Tasks, NEW n \in 1 .. MaxAttempts,
             Lose(t, n) \/ \E a \in Answers : Handle(t, n, a)
      PROVE  UNCHANGED <<open, closed>>
  BY <1>5 DEF Lose, Handle
<1> QED
  BY <1>1, <1>2, <1>3, <1>4, <1>5 DEF Next, Done, vars

(* One step of the tasks or of their surroundings, for each part of the    *)
(* invariant of one task.  What the other tasks do does not matter to it.  *)
LEMMA StepTask ==
  ASSUME Inv, TypeOK', [Next]_vars, NEW t \in Tasks
  PROVE  TaskInv(t)'
<1> USE CallsAssumption DEF Inv, TypeOK, taskVars, netVars, TaskInv, ControlInv, EffectInv, AnswerInv,
                            Mutating
<1> DEFINE Untouched == /\ pc'[t] = pc[t] /\ attempt'[t] = attempt[t] /\ outcome'[t] = outcome[t]
                        /\ reply'[t] = reply[t] /\ effects'[t] = effects[t]
                        /\ \A n \in 1 .. MaxAttempts : <<t, n>> \in wire' => <<t, n>> \in wire
<1>1. ASSUME Untouched
      PROVE  TaskInv(t)'
  BY <1>1
<1>2. ASSUME NEW n \in 1 .. MaxAttempts, Request(t, n), UNCHANGED effects, pc[t] # "done",
             n > attempt[t], Repeatable(Method[t], HasKey[t])
      PROVE  TaskInv(t)'
  BY <1>2 DEF Request, Finish, Repeatable
<1>3. ASSUME NEW result, result # "pending", Finish(t, result), pc[t] # "idle",
             UNCHANGED <<attempt, wire, reply, effects>>
      PROVE  TaskInv(t)'
  BY <1>3 DEF Finish
<1>4. ASSUME WorthARetry(t), Retry(t), pc[t] = "requesting", UNCHANGED effects
      PROVE  TaskInv(t)'
  <2>1. attempt[t] + 1 \in 1 .. MaxAttempts /\ Repeatable(Method[t], HasKey[t])
    BY <1>4, RetryIsAllowed DEF MaxAttempts
  <2>2. CASE Request(t, attempt[t] + 1)
    BY <1>4, <1>2, <2>1, <2>2
  <2>3. CASE ~Request(t, attempt[t] + 1)
    BY <1>4, <2>1, <2>3, RetryIsAllowed DEF Retry
  <2> QED
    BY <2>2, <2>3
<1>5. ASSUME TaskStep(t) \/ Broken(t) \/ Cancel(t)
      PROVE  TaskInv(t)'
  <2>1. CASE Call(t)
    BY <2>1 DEF Call, Request, Finish, MaxAttempts
  <2>2. CASE WakeUp(t)
    <3>1. attempt[t] + 1 \in 1 .. MaxAttempts
      BY <2>2 DEF WakeUp, MaxAttempts
    <3> QED
      BY <2>2, <3>1, <1>2 DEF WakeUp
  <2>3. CASE Answered(t)
    BY <2>3, <1>3, <1>4 DEF Answered
  <2>4. CASE Broken(t)
    BY <2>4, <1>3, <1>4 DEF Broken
  <2>5. CASE Cancel(t)
    BY <2>5, <1>3 DEF Cancel
  <2> QED
    BY <1>5, <2>1, <2>2, <2>3, <2>4, <2>5 DEF TaskStep
<1>6. ASSUME NEW u \in Tasks, u # t, TaskStep(u) \/ Broken(u) \/ Cancel(u)
      PROVE  Untouched
  BY <1>6 DEF TaskStep, Call, Answered, WakeUp, Broken, Cancel, Retry, Request, Finish
<1>7. ASSUME NEW c \in Clients, Aclose(c)
      PROVE  Untouched
  BY <1>7 DEF Aclose
<1>8. ASSUME NEW h \in Https, CloseShared(h)
      PROVE  Untouched
  BY <1>8 DEF CloseShared
<1>9. ASSUME NEW u \in Tasks, NEW n \in 1 .. MaxAttempts, Lose(u, n)
      PROVE  Untouched
  BY <1>9 DEF Lose
<1>10. ASSUME NEW u \in Tasks, NEW n \in 1 .. MaxAttempts, NEW a \in Answers, Handle(u, n, a)
      PROVE  TaskInv(t)'
  <2>1. CASE u # t
    BY <1>1, <1>10, <2>1 DEF Handle, Effect
  <2>2. CASE u = t
    BY <1>10, <2>2 DEF Handle, Effect, Answers, Repeatable
  <2> QED
    BY <2>1, <2>2
<1>11. CASE UNCHANGED vars
  BY <1>1, <1>11 DEF vars
<1> QED
  BY <1>1, <1>5, <1>6, <1>7, <1>8, <1>9, <1>10, <1>11 DEF Next, Done

LEMMA Invariance == Spec => []Inv
<1>1. Inv /\ [Next]_vars => Inv'
  BY StepTypeOK, StepClosed, StepTask DEF Inv
<1> QED
  BY InitInv, <1>1, PTL DEF Spec

-----------------------------------------------------------------------------
(* Type correctness: attempts in particular stay within the budget.        *)
THEOREM TypeCorrect == Spec => []TypeOK
<1>1. Inv => TypeOK
  BY DEF Inv
<1> QED
  BY <1>1, Invariance, PTL

(* No task of a client that was closed and owns its httpx client puts a    *)
(* request on the wire, in any interleaving of closing, retrying and       *)
(* waking up (_transport/async_.py:116-126, 196-198).                      *)
THEOREM ClosedClientsAreQuiet == Spec => ClosedIsQuiet
<1> DEFINE Quiet == \A t \in Tasks, n \in 1 .. MaxAttempts :
                       <<t, n>> \in wire' \ wire => ~(ClientOf[t] \in closed \cap Owned)
<1>1. Inv /\ [Next]_vars => Quiet
  <2> SUFFICES ASSUME Inv, [Next]_vars, NEW t \in Tasks, NEW n \in 1 .. MaxAttempts,
                      <<t, n>> \in wire' \ wire
               PROVE  ~(ClientOf[t] \in closed \cap Owned)
    OBVIOUS
  <2>1. ASSUME NEW u \in Tasks, NEW m, Request(u, m)
        PROVE  u = t /\ open[Http(t)]
    BY <2>1 DEF Request
  <2>2. ASSUME NEW u \in Tasks, TaskStep(u) \/ Broken(u) \/ Cancel(u)
        PROVE  open[Http(t)]
    <3>1. (\E m \in {1, attempt[u] + 1} : Request(u, m)) \/ UNCHANGED wire
      BY <2>2 DEF TaskStep, Call, Answered, WakeUp, Broken, Cancel, Retry, netVars
    <3> QED
      BY <2>1, <3>1
  <2>3. \E u \in Tasks : TaskStep(u) \/ Broken(u) \/ Cancel(u)
    BY DEF Next, Done, vars, Aclose, CloseShared, Lose, Handle, netVars
  <2> QED
    BY <2>2, <2>3, ClientsAssumption DEF Inv, ClosedInv, Http
<1> QED
  BY <1>1, Invariance, PTL DEF Spec, ClosedIsQuiet

(* Closing a client leaves the httpx clients of all others open, those it  *)
(* shares with them included (_transport/async_.py:197).                   *)
THEOREM ClosingIsLocal == Spec => CloseIsLocal
<1> DEFINE Local == closed' # closed =>
              \A t \in Tasks : ClientOf[t] \notin closed' /\ open[Http(t)] => open'[Http(t)]
<1>1. Inv /\ [Next]_vars => Local
  <2> SUFFICES ASSUME Inv, [Next]_vars, closed' # closed, NEW t \in Tasks,
                      ClientOf[t] \notin closed', open[Http(t)]
               PROVE  open'[Http(t)]
    OBVIOUS
  <2>1. PICK c \in Clients : Aclose(c)
    BY DEF Next, Done, vars, TaskStep, Call, Answered, WakeUp, Broken, Cancel, CloseShared, Lose,
           Handle
  <2>2. ClientOf[t] # c /\ ClientOf[t] \in Clients
    BY <2>1, ClientsAssumption DEF Aclose
  <2> QED
    BY <2>1, <2>2, ClientsAssumption DEF Aclose, Http
<1> QED
  BY <1>1, Invariance, PTL DEF Spec, CloseIsLocal

-----------------------------------------------------------------------------
(* Every step of a task, and every step around it, is a step of its        *)
(* contract, or changes nothing the contract speaks of.                    *)
LEMMA ContractsInit == Init => \A t \in Tasks : Contract(t)!Init
  BY DEF Init, Contract!Init, Result, Mutating

LEMMA ContractsStep ==
  ASSUME Inv, Inv', [Next]_vars, NEW t \in Tasks
  PROVE  Contract(t)!Next \/ UNCHANGED Contract(t)!vars
<1> USE DEF Inv, TypeOK, TaskInv, ControlInv, EffectInv, taskVars, netVars, Mutating, Result,
            Contract!Next, Contract!vars
<1>1. CASE outcome'[t] = outcome[t] /\ effects'[t] = effects[t]
  BY <1>1
<1>2. CASE outcome'[t] = outcome[t] /\ effects'[t] # effects[t]
  <2>1. PICK u \in Tasks, n \in 1 .. MaxAttempts, a \in Answers : Handle(u, n, a)
    BY <1>2 DEF Next, Done, vars, TaskStep, Call, Answered, WakeUp, Broken, Cancel, Aclose,
                CloseShared, Lose
  <2>2. effects'[t] = effects[t] + 1
    BY <1>2, <2>1 DEF Handle, Effect
  <2>3. effects[t] = 0 /\ effects'[t] = 1
    BY <2>2
  <2> QED
    BY <1>2, <2>3 DEF Contract!Perform
<1>3. CASE outcome'[t] # outcome[t]
  <2>1. PICK u \in Tasks : TaskStep(u) \/ Broken(u) \/ Cancel(u)
    BY <1>3 DEF Next, Done, vars, Aclose, CloseShared, Lose, Handle
  <2>2. outcome[t] = "pending" /\ UNCHANGED effects
    BY <1>3, <2>1 DEF TaskStep, Call, Answered, WakeUp, Broken, Cancel, Retry, Request, Finish
  <2>3. outcome'[t] = "returned" => reply[t] = "success"
    BY <1>3, <2>1 DEF TaskStep, Call, Answered, WakeUp, Broken, Cancel, Retry, Request, Finish
  <2>4. CASE outcome'[t] = "returned"
    BY <2>2, <2>3, <2>4 DEF AnswerInv, Contract!Succeed
  <2>5. CASE outcome'[t] # "returned"
    BY <1>3, <2>2, <2>5 DEF Contract!Fail
  <2> QED
    BY <2>4, <2>5
<1> QED
  BY <1>1, <1>2, <1>3

(* Whatever happens to clients and to other tasks, each task implements    *)
(* the safety part of the request contract.                                *)
THEOREM EveryTaskKeepsItsContract == Spec => ImplementsContracts
<1>1. Inv /\ Inv' /\ [Next]_vars => \A t \in Tasks : Contract(t)!Next \/ UNCHANGED Contract(t)!vars
  BY ContractsStep
<1> QED
  BY <1>1, Invariance, ContractsInit, PTL DEF Spec, ImplementsContracts
================================================================================
