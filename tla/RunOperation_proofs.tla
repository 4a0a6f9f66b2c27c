--------------------------- MODULE RunOperation_proofs ---------------------------
(***************************************************************************)
(* Proofs about RunOperation, for any number of callers, jobs, keys and    *)
(* failures, whichever jobs share a key.                                   *)
(***************************************************************************)
EXTENDS RunOperation, TLAPS

(* An operation is filed under the key of its job, and alone there.        *)
OpsInv ==
    /\ \A i \in OpId : ops[i].key = KeyOf[ops[i].job]
    /\ \A i, j \in OpId : ops[i].key = ops[j].key => i = j

(* A request says what its sender wants, however long it travels.          *)
RequestsInv == \A m \in requests : m = CreateRequest(m.caller)

Own(c, i) == i \in OpId /\ ops[i].job = JobOf[c]

Ended(i, status) == ops[i].status = status /\ status \in Terminal

(* Another job has the key of c's job, which therefore never gets it.      *)
Taken(c) ==
    /\ \E i \in OpId : ops[i].key = KeyOf[JobOf[c]]
    /\ \A i \in OpId : ops[i].job # JobOf[c]

(* An answer in flight, or in hand, tells the truth and keeps doing so.    *)
ReplyInv(c) ==
    reply[c] # None =>
        IF reply[c].op = None
        THEN Taken(c)
        ELSE /\ Own(c, reply[c].op)
             /\ reply[c].status \in Terminal => Ended(reply[c].op, reply[c].status)

(* What a caller knows of an operation is about its own.                   *)
CallerInv(c) ==
    /\ caller[c].pc # "done" => caller[c].outcome = "pending"
    /\ caller[c].pc \in {"waiting", "detail"} => Own(c, caller[c].op)
    /\ caller[c].pc = "detail" => Ended(caller[c].op, caller[c].status)
    /\ caller[c].outcome = "returned" =>
          Own(c, caller[c].op) /\ Ended(caller[c].op, caller[c].status)
    /\ caller[c].outcome \in {"Timeout", "Stopped"} =>
          /\ Own(c, caller[c].excOp)
          /\ caller[c].mode = "run" => caller[c].excKey = KeyOf[JobOf[c]]
    /\ caller[c].outcome = "Conflict" => Taken(c)

Inv == TypeOK /\ OpsInv /\ RequestsInv /\ \A c \in Callers : ReplyInv(c) /\ CallerInv(c)

-----------------------------------------------------------------------------
LEMMA Appended ==
  ASSUME NEW S, NEW s \in Seq(S), NEW e \in S
  PROVE  /\ DOMAIN Append(s, e) = DOMAIN s \cup {Len(s) + 1}
         /\ Len(s) + 1 \notin DOMAIN s
         /\ Append(s, e)[Len(s) + 1] = e
         /\ \A i \in DOMAIN s : Append(s, e)[i] = s[i]
<1>1. DOMAIN s = 1 .. Len(s) /\ Len(s) \in Nat
  OBVIOUS
<1>2. Append(s, e) \in Seq(S) /\ Len(Append(s, e)) = Len(s) + 1
  OBVIOUS
<1>3. DOMAIN Append(s, e) = 1 .. Len(s) + 1
  BY <1>2
<1>4. Append(s, e)[Len(s) + 1] = e
  OBVIOUS
<1>5. \A i \in DOMAIN s : Append(s, e)[i] = s[i]
  OBVIOUS
<1> QED
  BY <1>1, <1>3, <1>4, <1>5

LEMMA InitInv == Init => Inv
  BY CallersAssumption
     DEF Init, Inv, TypeOK, OpsInv, RequestsInv, ReplyInv, CallerInv, Fresh, OpId, Statuses,
         Terminal, Operation, Request

(* Only the server adds operations, under a key that has none, and only    *)
(* ends those that have not ended.                                         *)
LEMMA OperationsStay ==
  ASSUME Inv, [Next]_vars
  PROVE  /\ ops' \in Seq(Operation)
         /\ \A i \in OpId :
               /\ i \in OpId'
               /\ ops'[i].key = ops[i].key /\ ops'[i].job = ops[i].job
               /\ ops[i].status \in Terminal => ops'[i].status = ops[i].status
         /\ \A i \in OpId' \ OpId :
               /\ i = Len(ops) + 1
               /\ ops'[i].key = KeyOf[ops'[i].job]
               /\ \A j \in OpId : ops[j].key # ops'[i].key
<1> USE CallersAssumption DEF Inv, TypeOK, OpId, Operation
<1>1. CASE UNCHANGED ops
  BY <1>1
<1>2. ASSUME NEW m \in requests, HandleCreate(m), ops' # ops
      PROVE  /\ WithKey(m.key) = {}
             /\ ops' = Append(ops, [key |-> m.key, job |-> m.job, status |-> "queued"])
             /\ m.key \in Keys /\ m.job \in Jobs /\ m.key = KeyOf[m.job]
  BY <1>2 DEF HandleCreate, RequestsInv, CreateRequest, Request
<1>3. ASSUME NEW m \in requests, HandleCreate(m), ops' # ops
      PROVE  /\ DOMAIN ops' = DOMAIN ops \cup {Len(ops) + 1}
             /\ \A i \in DOMAIN ops : ops'[i] = ops[i]
             /\ ops'[Len(ops) + 1] = [key |-> m.key, job |-> m.job, status |-> "queued"]
             /\ ops' \in Seq(Operation)
  <2> DEFINE new == [key |-> m.key, job |-> m.job, status |-> "queued"]
  <2>1. new \in Operation /\ ops' = Append(ops, new)
    BY <1>2, <1>3 DEF Statuses
  <2> HIDE DEF new
  <2>2. ops \in Seq(Operation)
    OBVIOUS
  <2> HIDE DEF Operation, Inv
  <2>3. /\ DOMAIN ops' = DOMAIN ops \cup {Len(ops) + 1}
        /\ \A i \in DOMAIN ops : ops'[i] = ops[i]
        /\ ops'[Len(ops) + 1] = new
    BY <2>1, <2>2, Appended
  <2>4. ops' \in Seq(Operation)
    BY <2>1, <2>2
  <2> QED
    BY <2>3, <2>4 DEF new
<1>4. CASE \E m \in requests : HandleCreate(m) /\ ops' # ops
  <2>1. PICK m \in requests : HandleCreate(m) /\ ops' # ops
    BY <1>4
  <2>2. \A i \in OpId : ops'[i] = ops[i] /\ i \in OpId' /\ ops[i].key # m.key
    BY <2>1, <1>2, <1>3 DEF WithKey
  <2>3. \A i \in OpId' \ OpId : i = Len(ops) + 1
    BY <2>1, <1>3
  <2>4. ops'[Len(ops) + 1] = [key |-> m.key, job |-> m.job, status |-> "queued"]
    BY <2>1, <1>3
  <2>5. m.key = KeyOf[m.job]
    BY <2>1, <1>2
  <2>6. ops' \in Seq(Operation)
    BY <2>1, <1>3
  <2> QED
    BY <2>2, <2>3, <2>4, <2>5, <2>6
<1>5. CASE \E i \in OpId : Work(i)
  <2>1. PICK i \in OpId, s \in Terminal : ops' = [ops EXCEPT ![i].status = s]
                                          /\ ops[i].status \notin Terminal
    BY <1>5 DEF Work
  <2>2. ops \in Seq(Operation) /\ i \in DOMAIN ops /\ s \in Statuses
    BY DEF Statuses
  <2> DEFINE worked == [ops[i] EXCEPT !.status = s]
  <2>3. worked \in Operation /\ worked.key = ops[i].key /\ worked.job = ops[i].job
    <3>1. ASSUME NEW o \in Operation
          PROVE  LET w == [o EXCEPT !.status = s]
                 IN  w \in Operation /\ w.key = o.key /\ w.job = o.job
      BY <2>2
    <3> HIDE DEF Operation, Inv
    <3>2. ops[i] \in Operation
      BY <2>2
    <3> QED
      BY <3>1, <3>2
  <2>4. ops' = [ops EXCEPT ![i] = worked]
    BY <2>1
  <2> HIDE DEF worked
  <2> HIDE DEF Operation, Inv
  <2>5. ops' \in Seq(Operation) /\ DOMAIN ops' = DOMAIN ops
    BY <2>2, <2>3, <2>4
  <2>6. \A k \in DOMAIN ops : ops'[k] = IF k = i THEN worked ELSE ops[k]
    BY <2>4
  <2> QED
    BY <2>1, <2>3, <2>5, <2>6
<1>6. ASSUME Next, ops' # ops, ~ \E i \in OpId : Work(i)
      PROVE  \E m \in requests : HandleCreate(m)
  BY <1>6 DEF Next, CallerStep, Trouble, Recover, Done, vars, Run, Resend, Created, CreateConflicts,
              WaitReturns, DetailReturns, CreateFails, WaitRejects, WaitFails, DetailFails, Crash,
              WaitEnds, RunAgain, Resume, Lose
<1> QED
  BY <1>1, <1>4, <1>5, <1>6 DEF vars

(* So what is known of operations stays true. *)
LEMMA KnowledgeStays ==
  ASSUME Inv, [Next]_vars
  PROVE  /\ \A c \in Callers, i \in Nat : Own(c, i) => Own(c, i)'
         /\ \A i \in OpId, s \in Statuses : Ended(i, s) => Ended(i, s)'
         /\ \A c \in Callers : Taken(c) => Taken(c)'
<1>1. \A c \in Callers, i \in Nat : Own(c, i) => Own(c, i)'
  BY OperationsStay DEF Own
<1>2. \A i \in OpId, s \in Statuses : Ended(i, s) => Ended(i, s)'
  BY OperationsStay DEF Ended
<1>3. ASSUME NEW c \in Callers, Taken(c)
      PROVE  Taken(c)'
  <2>1. PICK k \in OpId : ops[k].key = KeyOf[JobOf[c]]
    BY <1>3 DEF Taken
  <2>2. ASSUME NEW i \in OpId'
        PROVE  ops'[i].job # JobOf[c]
    <3>1. CASE i \in OpId
      BY <1>3, <3>1, OperationsStay DEF Taken
    <3>2. CASE i \notin OpId
      BY <2>1, <3>2, OperationsStay
    <3> QED
      BY <3>1, <3>2
  <2>3. k \in OpId' /\ ops'[k].key = KeyOf[JobOf[c]]
    BY <2>1, OperationsStay
  <2> QED
    BY <2>2, <2>3 DEF Taken
<1> QED
  BY <1>1, <1>2, <1>3

LEMMA StepOps == Inv /\ [Next]_vars => OpsInv'
<1> SUFFICES ASSUME Inv, [Next]_vars
             PROVE  OpsInv'
  OBVIOUS
<1>1. \A i \in OpId' : ops'[i].key = KeyOf[ops'[i].job]
  BY OperationsStay DEF Inv, OpsInv
<1>2. ASSUME NEW i \in OpId', NEW j \in OpId', ops'[i].key = ops'[j].key
      PROVE  i = j
  BY <1>2, OperationsStay DEF Inv, OpsInv
<1> QED
  BY <1>1, <1>2 DEF OpsInv

LEMMA StepRequests == Inv /\ [Next]_vars => RequestsInv' /\ requests' \subseteq Request
<1> SUFFICES ASSUME Inv, [Next]_vars
             PROVE  RequestsInv' /\ requests' \subseteq Request
  OBVIOUS
<1>1. \A c \in Callers : CreateRequest(c) \in Request /\ CreateRequest(c).caller = c
  BY CallersAssumption DEF CreateRequest, Request
<1>2. \A m \in requests' \ requests : \E c \in Callers : m = CreateRequest(c)
  BY DEF Next, CallerStep, Trouble, Recover, Done, vars, Run, Resend, Created, CreateConflicts,
         WaitReturns, DetailReturns, CreateFails, WaitRejects, WaitFails, DetailFails, Crash,
         WaitEnds, RunAgain, Resume, Lose, HandleCreate, Work
<1> QED
  BY <1>1, <1>2 DEF Inv, TypeOK, RequestsInv, CreateRequest

CallerRecord ==
    [pc: {"idle", "creating", "waiting", "detail", "done"},
     mode: {"run", "resume"},
     op: Nat \cup {None},
     outcome: {"pending", "returned", "Conflict", "Timeout", "Stopped", "Error"},
     status: Statuses,
     content: {"present", "absent", None},
     excOp: Nat \cup {None},
     excKey: Keys \cup {None}]

ReplyRecord == [op: Nat \cup {None}, status: Statuses]

LEMMA Types ==
  ASSUME Inv
  PROVE  /\ caller \in [Callers -> CallerRecord]
         /\ reply \in [Callers -> {None} \cup ReplyRecord]
         /\ Fresh \in CallerRecord
         /\ OpId \subseteq Nat
         /\ \A i \in OpId : ops[i] \in Operation /\ ops[i].status \in Statuses
<1>1. caller \in [Callers -> CallerRecord] /\ reply \in [Callers -> {None} \cup ReplyRecord]
  BY DEF Inv, TypeOK, CallerRecord, ReplyRecord
<1>2. Fresh \in CallerRecord
  BY DEF CallerRecord, Fresh, Statuses
<1>3. OpId \subseteq Nat /\ \A i \in OpId : ops[i] \in Operation
  <2>1. ops \in Seq(Operation)
    BY DEF Inv, TypeOK
  <2> QED
    BY <2>1 DEF OpId
<1>4. \A o \in Operation : o.status \in Statuses
  BY DEF Operation
<1> QED
  BY <1>1, <1>2, <1>3, <1>4

LEMMA StepReplyType == Inv /\ [Next]_vars => reply' \in [Callers -> {None} \cup ReplyRecord]
<1> SUFFICES ASSUME Inv, [Next]_vars
             PROVE  reply' \in [Callers -> {None} \cup ReplyRecord]
  OBVIOUS
<1>1. ASSUME NEW m \in requests, HandleCreate(m)
      PROVE  reply' \in [Callers -> {None} \cup ReplyRecord]
  <2>1. ASSUME NEW op \in Nat \cup {None}, NEW status \in Statuses, Answer(m, op, status)
        PROVE  reply' \in [Callers -> {None} \cup ReplyRecord]
    <3>1. [op |-> op, status |-> status] \in ReplyRecord
      BY DEF ReplyRecord
    <3> QED
      BY <2>1, <3>1, Types DEF Answer
  <2>2. "queued" \in Statuses
    BY DEF Statuses
  <2>3. Len(ops') \in Nat
    BY OperationsStay
  <2>4. \A i \in WithKey(m.key) : i \in Nat /\ ops[i].status \in Statuses
    BY Types DEF WithKey
  <2> QED
    BY <1>1, <2>1, <2>2, <2>3, <2>4 DEF HandleCreate
<1>2. CASE UNCHANGED reply
  BY <1>2, Types
<1>3. CASE \E c \in Callers : Run(c)
  BY <1>3, Types DEF Run
<1> QED
  BY <1>1, <1>2, <1>3
     DEF Next, CallerStep, Trouble, Recover, Done, vars, Resend, Created, CreateConflicts,
         WaitReturns, DetailReturns, CreateFails, WaitRejects, WaitFails, DetailFails, Crash,
         WaitEnds, RunAgain, Resume, Lose, Work

Typed ==
    /\ caller \in [Callers -> CallerRecord]
    /\ \A c \in Callers : caller[c].pc \in {"waiting", "detail"} => caller[c].op \in OpId

(* The locals of a caller after each of its steps. *)
LEMMA Locals ==
  ASSUME Inv, NEW c \in Callers
  PROVE  /\ Run(c) => caller' = [caller EXCEPT ![c] = [caller[c] EXCEPT !.pc = "creating"]]
         /\ Created(c) =>
               \/ /\ reply[c].status \in Terminal
                  /\ caller' = [caller EXCEPT ![c] =
                       [caller[c] EXCEPT !.pc = "done", !.outcome = "returned",
                                         !.op = reply[c].op, !.status = reply[c].status]]
               \/ caller' = [caller EXCEPT ![c] =
                     [caller[c] EXCEPT !.pc = "waiting", !.op = reply[c].op]]
         /\ WaitReturns(c) =>
               \/ caller' = [caller EXCEPT ![c] =
                     [caller[c] EXCEPT !.pc = "detail", !.status = ops[caller[c].op].status]]
               \/ caller' = [caller EXCEPT ![c] =
                     [caller[c] EXCEPT !.pc = "done", !.outcome = "returned",
                                       !.status = ops[caller[c].op].status]]
         /\ DetailReturns(c) =>
               \E content \in {"present", "absent"} :
                  caller' = [caller EXCEPT ![c] =
                     [caller[c] EXCEPT !.pc = "done", !.outcome = "returned", !.content = content]]
         /\ \A outcome \in {"Conflict", "Error"} : End(c, outcome) =>
               caller' = [caller EXCEPT ![c] =
                  [caller[c] EXCEPT !.pc = "done", !.outcome = outcome]]
         /\ Crash(c) \/ RunAgain(c) => caller' = [caller EXCEPT ![c] = Fresh]
         /\ Resume(c) => caller' = [caller EXCEPT ![c] =
               [Fresh EXCEPT !.pc = "waiting", !.mode = "resume", !.op = caller[c].excOp]]
<1>0. caller \in [Callers -> CallerRecord]
  BY Types
<1> QED
  BY <1>0 DEF Run, Created, WaitReturns, DetailReturns, End, Crash, RunAgain, Resume

LEMMA WaitEndsLocals ==
  ASSUME Inv, NEW c \in Callers, NEW outcome, WaitEnds(c, outcome)
  PROVE  \E key \in Keys \cup {None} :
            /\ caller' = [caller EXCEPT ![c] =
                 [caller[c] EXCEPT !.pc = "done", !.outcome = outcome,
                                   !.excOp = caller[c].op, !.excKey = key]]
            /\ caller[c].mode = "run" => key = KeyOf[JobOf[c]]
<1> DEFINE key == IF caller[c].mode = "run" THEN KeyOf[JobOf[c]] ELSE None
<1>1. caller \in [Callers -> CallerRecord] /\ key \in Keys \cup {None}
  BY Types, CallersAssumption
<1>2. caller' = [caller EXCEPT ![c] =
         [caller[c] EXCEPT !.pc = "done", !.outcome = outcome,
                           !.excOp = caller[c].op, !.excKey = key]]
  BY <1>1 DEF WaitEnds
<1> QED
  BY <1>1, <1>2

LEMMA StepCallerType == Inv /\ [Next]_vars => Typed'
<1> SUFFICES ASSUME Inv, [Next]_vars
             PROVE  Typed'
  OBVIOUS
<1>0. /\ Typed
      /\ OpId \subseteq Nat
      /\ OpId \subseteq OpId'
  BY Types, OperationsStay DEF Inv, TypeOK, Typed
<1>1. CASE UNCHANGED caller
  BY <1>0, <1>1 DEF Typed
<1>2. ASSUME NEW c \in Callers, NEW r \in CallerRecord, caller' = [caller EXCEPT ![c] = r],
             r.pc \in {"waiting", "detail"} => r.op \in OpId
      PROVE  Typed'
  BY <1>0, <1>2 DEF Typed
<1>3. ASSUME NEW c \in Callers
      PROVE  caller[c] \in CallerRecord
  BY <1>3, <1>0 DEF Typed
<1>4. ASSUME NEW c \in Callers, Run(c)
      PROVE  Typed'
  <2> DEFINE r == [caller[c] EXCEPT !.pc = "creating"]
  <2>1. r \in CallerRecord /\ r.pc = "creating"
    BY <1>3 DEF CallerRecord
  <2> QED
    BY <1>2, <1>4, <2>1, Locals
<1>5. ASSUME NEW c \in Callers, Created(c)
      PROVE  Typed'
  <2> DEFINE r == [caller[c] EXCEPT !.pc = "done", !.outcome = "returned",
                                    !.op = reply[c].op, !.status = reply[c].status]
             w == [caller[c] EXCEPT !.pc = "waiting", !.op = reply[c].op]
  <2>1. reply[c].op \in OpId
    BY <1>5 DEF Created, Inv, ReplyInv, Own
  <2>2. reply[c].status \in Statuses
    BY <1>5, Types DEF Created, ReplyRecord
  <2>3. r \in CallerRecord /\ r.pc = "done"
    BY <1>0, <1>3, <2>1, <2>2 DEF CallerRecord
  <2>4. w \in CallerRecord /\ w.op = reply[c].op
    BY <1>0, <1>3, <2>1 DEF CallerRecord
  <2>5. caller' = [caller EXCEPT ![c] = r] \/ caller' = [caller EXCEPT ![c] = w]
    BY <1>5, Locals
  <2> HIDE DEF r, w
  <2> QED
    BY <1>2, <2>1, <2>3, <2>4, <2>5
<1>6. ASSUME NEW c \in Callers, WaitReturns(c)
      PROVE  Typed'
  <2> DEFINE s == ops[caller[c].op].status
             d == [caller[c] EXCEPT !.pc = "detail", !.status = s]
             r == [caller[c] EXCEPT !.pc = "done", !.outcome = "returned", !.status = s]
  <2>1. caller[c].op \in OpId /\ s \in Statuses
    BY <1>0, <1>6, Types DEF Typed, WaitReturns, Polls, At
  <2> HIDE DEF s
  <2>2. r \in CallerRecord /\ r.pc = "done"
    BY <1>3, <2>1 DEF CallerRecord
  <2>3. d \in CallerRecord /\ d.op = caller[c].op
    BY <1>3, <2>1 DEF CallerRecord
  <2>4. caller' = [caller EXCEPT ![c] = d] \/ caller' = [caller EXCEPT ![c] = r]
    BY <1>6, Locals DEF s
  <2> HIDE DEF d, r
  <2> QED
    BY <1>2, <2>1, <2>2, <2>3, <2>4
<1>7. ASSUME NEW c \in Callers, DetailReturns(c)
      PROVE  Typed'
  <2>1. ASSUME NEW content \in {"present", "absent"}
        PROVE  LET r == [caller[c] EXCEPT !.pc = "done", !.outcome = "returned",
                                          !.content = content]
               IN  r \in CallerRecord /\ r.pc = "done"
    BY <1>3 DEF CallerRecord
  <2>2. PICK content \in {"present", "absent"} :
           caller' = [caller EXCEPT ![c] = [caller[c] EXCEPT !.pc = "done",
                                               !.outcome = "returned", !.content = content]]
    BY <1>7, Locals
  <2> DEFINE r == [caller[c] EXCEPT !.pc = "done", !.outcome = "returned", !.content = content]
  <2>3. r \in CallerRecord /\ r.pc = "done" /\ caller' = [caller EXCEPT ![c] = r]
    BY <2>1, <2>2
  <2> HIDE DEF r
  <2> QED
    BY <1>2, <2>3
<1>8. ASSUME NEW c \in Callers, NEW outcome \in {"Timeout", "Stopped"}, WaitEnds(c, outcome)
      PROVE  Typed'
  <2>1. PICK key \in Keys \cup {None} :
           caller' = [caller EXCEPT ![c] = [caller[c] EXCEPT !.pc = "done", !.outcome = outcome,
                                               !.excOp = caller[c].op, !.excKey = key]]
    BY <1>8, WaitEndsLocals
  <2> DEFINE r == [caller[c] EXCEPT !.pc = "done", !.outcome = outcome,
                                    !.excOp = caller[c].op, !.excKey = key]
  <2>2. \A l \in CallerRecord : l.op \in Nat \cup {None}
    BY DEF CallerRecord
  <2>3. r \in CallerRecord /\ r.pc = "done"
    BY <1>3, <2>2 DEF CallerRecord
  <2> HIDE DEF r
  <2> QED
    BY <1>2, <2>1, <2>3 DEF r
<1>9. ASSUME NEW c \in Callers, NEW outcome \in {"Conflict", "Error"}, End(c, outcome)
      PROVE  Typed'
  <2> DEFINE r == [caller[c] EXCEPT !.pc = "done", !.outcome = outcome]
  <2>1. r \in CallerRecord /\ r.pc = "done"
    BY <1>3 DEF CallerRecord
  <2> QED
    BY <1>2, <1>9, <2>1, Locals
<1>10. ASSUME NEW c \in Callers, Crash(c) \/ RunAgain(c)
       PROVE  Typed'
  <2>1. Fresh \in CallerRecord /\ Fresh.pc = "idle"
    BY Types DEF Fresh
  <2> QED
    BY <1>2, <1>10, <2>1, Locals
<1>11. ASSUME NEW c \in Callers, Resume(c)
       PROVE  Typed'
  <2> DEFINE r == [Fresh EXCEPT !.pc = "waiting", !.mode = "resume", !.op = caller[c].excOp]
  <2>1. caller[c].excOp \in OpId
    BY <1>11 DEF Resume, Inv, CallerInv, Own
  <2>2. r \in CallerRecord /\ r.op = caller[c].excOp
    BY <1>0, <2>1, Types DEF CallerRecord, Fresh
  <2> QED
    BY <1>2, <1>11, <2>1, <2>2, Locals
<1> QED
  BY <1>1, <1>4, <1>5, <1>6, <1>7, <1>8, <1>9, <1>10, <1>11
     DEF Next, CallerStep, Trouble, Recover, Done, vars, Resend, CreateConflicts, CreateFails,
         WaitRejects, WaitFails, DetailFails, Lose, HandleCreate, Work

LEMMA StepTypeOK == Inv /\ [Next]_vars => TypeOK'
<1> SUFFICES ASSUME Inv, [Next]_vars
             PROVE  TypeOK'
  OBVIOUS
<1>1. failures' \in 0 .. MaxFailures
  <2>1. UNCHANGED failures \/ Fail
    BY DEF Next, CallerStep, Trouble, Recover, Done, vars, Run, Resend, Created, CreateConflicts,
           WaitReturns, DetailReturns, CreateFails, WaitRejects, WaitFails, DetailFails, Crash,
           WaitEnds, RunAgain, Resume, Lose, HandleCreate, Work
  <2>2. failures \in 0 .. MaxFailures
    BY DEF Inv, TypeOK
  <2> QED
    BY <2>1, <2>2, CallersAssumption DEF Fail
<1> QED
  BY <1>1, StepReplyType, StepCallerType, StepRequests, OperationsStay
     DEF TypeOK, Typed, CallerRecord, ReplyRecord

LEMMA StepReply ==
  ASSUME Inv, [Next]_vars, NEW c \in Callers
  PROVE  ReplyInv(c)'
<1>0. reply \in [Callers -> {None} \cup ReplyRecord] /\ ReplyInv(c)
  BY Types DEF Inv
<1>1. CASE reply'[c] = reply[c]
  <2>1. CASE reply[c] = None
    BY <1>1, <2>1 DEF ReplyInv
  <2>2. CASE reply[c] # None /\ reply[c].op = None
    BY <1>0, <1>1, <2>2, KnowledgeStays DEF ReplyInv
  <2>3. CASE reply[c] # None /\ reply[c].op # None
    <3>1. Own(c, reply[c].op) /\ reply[c].op \in Nat
      BY <1>0, <2>3, Types DEF ReplyInv, Own
    <3>2. Own(c, reply[c].op)'
      BY <1>1, <3>1, KnowledgeStays DEF Own
    <3>3. reply[c].status \in Terminal => Ended(reply[c].op, reply[c].status)'
      BY <1>0, <1>1, <2>3, <3>1, KnowledgeStays DEF ReplyInv, Own, Ended, Statuses
    <3> QED
      BY <1>1, <2>3, <3>2, <3>3 DEF ReplyInv
  <2> QED
    BY <2>1, <2>2, <2>3
<1>2. ASSUME NEW m \in requests, HandleCreate(m), reply'[c] # reply[c]
      PROVE  ReplyInv(c)'
  <2>1. m.key = KeyOf[JobOf[c]] /\ m.job = JobOf[c]
    <3>1. m.caller = c
      BY <1>0, <1>2, Types DEF HandleCreate, Answer
    <3> QED
      BY <3>1 DEF Inv, RequestsInv, CreateRequest
  <2>2. \A op, status : Answer(m, op, status) => reply'[c] = [op |-> op, status |-> status]
    BY <1>0, <1>2 DEF Answer
  <2>3. None \notin Nat /\ "queued" \notin Terminal
    BY CallersAssumption DEF Terminal
  <2>4. ASSUME WithKey(m.key) = {},
               ops' = Append(ops, [key |-> m.key, job |-> m.job, status |-> "queued"]),
               Answer(m, Len(ops'), "queued")
        PROVE  ReplyInv(c)'
    <3>1. /\ Len(ops') \in Nat /\ Len(ops') \in DOMAIN ops'
          /\ ops'[Len(ops')] = [key |-> m.key, job |-> m.job, status |-> "queued"]
      <4>1. ops \in Seq(Operation)
        BY DEF Inv, TypeOK
      <4>2. ops' \in Seq(Operation)
        BY OperationsStay
      <4> HIDE DEF Operation
      <4> QED
        BY <2>4, <4>1, <4>2
    <3>2. reply'[c] = [op |-> Len(ops'), status |-> "queued"]
      BY <2>2, <2>4
    <3>3. Len(ops') # None /\ ops'[Len(ops')].job = JobOf[c]
      BY <2>1, <2>3, <3>1
    <3> QED
      BY <2>3, <3>1, <3>2, <3>3 DEF ReplyInv, Own, OpId
  <2>5. ASSUME NEW i \in WithKey(m.key), UNCHANGED ops, ops[i].job = m.job,
               Answer(m, i, ops[i].status)
        PROVE  ReplyInv(c)'
    <3>1. i \in OpId /\ i \in Nat
      BY Types DEF WithKey
    <3>2. reply'[c] = [op |-> i, status |-> ops[i].status]
      BY <2>2, <2>5
    <3>3. i # None /\ ops'[i].job = JobOf[c] /\ i \in DOMAIN ops' /\ ops' = ops
      BY <2>1, <2>3, <2>5, <3>1 DEF OpId
    <3> QED
      BY <3>2, <3>3 DEF ReplyInv, Own, OpId, Ended
  <2>6. ASSUME NEW i \in WithKey(m.key), UNCHANGED ops, ops[i].job # m.job,
               Answer(m, None, "queued")
        PROVE  ReplyInv(c)'
    <3>1. i \in OpId /\ ops[i].key = KeyOf[JobOf[c]]
      BY <2>1 DEF WithKey
    <3>2. \A k \in OpId : ops[k].job # JobOf[c]
      BY <2>1, <2>6, <3>1 DEF Inv, OpsInv
    <3>3. Taken(c)'
      BY <2>6, <3>1, <3>2 DEF Taken, OpId
    <3>4. reply'[c] = [op |-> None, status |-> "queued"]
      BY <2>2, <2>6
    <3> QED
      BY <3>3, <3>4 DEF ReplyInv
  <2> QED
    BY <1>2, <2>4, <2>5, <2>6 DEF HandleCreate
<1>3. CASE Run(c)
  BY <1>0, <1>3 DEF Run, ReplyInv
<1>4. ASSUME NEW d \in Callers, d # c, Run(d)
      PROVE  reply'[c] = reply[c]
  BY <1>0, <1>4 DEF Run
<1> QED
  BY <1>1, <1>2, <1>3, <1>4
     DEF Next, CallerStep, Trouble, Recover, Done, vars, Resend, Created, CreateConflicts,
         WaitReturns, DetailReturns, CreateFails, WaitRejects, WaitFails, DetailFails, Crash,
         WaitEnds, RunAgain, Resume, Lose, Work

(* The steps of a caller change no operation and no other caller. *)
Moves(c) == CallerStep(c) \/ Trouble(c) \/ Recover(c)

LEMMA StepMoved ==
  ASSUME Inv, NEW c \in Callers, Moves(c)
  PROVE  CallerInv(c)'
<1>0. /\ caller \in [Callers -> CallerRecord] /\ caller[c] \in CallerRecord
      /\ CallerInv(c) /\ ReplyInv(c)
  BY Types DEF Inv
<1>1. UNCHANGED ops
  BY DEF Moves, CallerStep, Trouble, Recover, Run, Resend, Created, CreateConflicts, WaitReturns,
         DetailReturns, CreateFails, WaitRejects, WaitFails, DetailFails, Crash, WaitEnds,
         RunAgain, Resume
<1>2. /\ \A i : Own(c, i) => i \in OpId' /\ ops'[i].job = JobOf[c]
      /\ \A i, s : Ended(i, s) => ops'[i].status = s /\ s \in Terminal
      /\ Taken(c) => Taken(c)'
  BY <1>1 DEF Own, Ended, Taken, OpId
<1>3. CASE UNCHANGED caller
  BY <1>0, <1>1, <1>3 DEF CallerInv, Own, Ended, Taken, OpId
<1>4. ASSUME NEW r \in CallerRecord, caller' = [caller EXCEPT ![c] = r]
      PROVE  caller'[c] = r
  BY <1>0, <1>4
<1>5. ASSUME Run(c)
      PROVE  CallerInv(c)'
  <2> DEFINE r == [caller[c] EXCEPT !.pc = "creating"]
  <2>1. r \in CallerRecord /\ r.pc = "creating" /\ r.outcome = caller[c].outcome
    BY <1>0 DEF CallerRecord
  <2>2. caller'[c] = r
    BY <1>4, <1>5, <2>1, Locals
  <2>3. caller[c].outcome = "pending"
    BY <1>0, <1>5 DEF Run, At, CallerInv
  <2> HIDE DEF r
  <2> QED
    BY <2>1, <2>2, <2>3 DEF CallerInv
<1>6. ASSUME Created(c)
      PROVE  CallerInv(c)'
  <2> DEFINE r == [caller[c] EXCEPT !.pc = "done", !.outcome = "returned",
                                    !.op = reply[c].op, !.status = reply[c].status]
             w == [caller[c] EXCEPT !.pc = "waiting", !.op = reply[c].op]
  <2>1. /\ Own(c, reply[c].op) /\ caller[c].outcome = "pending"
        /\ reply[c].status \in Terminal => Ended(reply[c].op, reply[c].status)
    BY <1>0, <1>6 DEF Created, At, ReplyInv, CallerInv
  <2>2. (caller'[c] = r /\ reply[c].status \in Terminal) \/ caller'[c] = w
    BY <1>0, <1>6, Locals
  <2>3. /\ r.pc = "done" /\ r.outcome = "returned"
        /\ r.op = reply[c].op /\ r.status = reply[c].status
    BY <1>0 DEF CallerRecord
  <2>4. w.pc = "waiting" /\ w.outcome = caller[c].outcome /\ w.op = reply[c].op
    BY <1>0 DEF CallerRecord
  <2> HIDE DEF r, w
  <2>5. CASE caller'[c] = r /\ reply[c].status \in Terminal
    BY <1>2, <2>1, <2>3, <2>5 DEF CallerInv, Own, Ended
  <2>6. CASE caller'[c] = w
    BY <1>2, <2>1, <2>4, <2>6 DEF CallerInv, Own
  <2> QED
    BY <2>2, <2>5, <2>6
<1>7. ASSUME WaitReturns(c)
      PROVE  CallerInv(c)'
  <2> DEFINE s == ops[caller[c].op].status
             d == [caller[c] EXCEPT !.pc = "detail", !.status = s]
             r == [caller[c] EXCEPT !.pc = "done", !.outcome = "returned", !.status = s]
  <2>1. Own(c, caller[c].op) /\ Ended(caller[c].op, s) /\ caller[c].outcome = "pending"
    BY <1>0, <1>7 DEF WaitReturns, Polls, At, CallerInv, Ended
  <2>2. caller'[c] = d \/ caller'[c] = r
    BY <1>0, <1>7, Locals
  <2> HIDE DEF s
  <2>3. /\ d.pc = "detail" /\ d.outcome = caller[c].outcome
        /\ d.op = caller[c].op /\ d.status = s
    BY <1>0 DEF CallerRecord
  <2>4. r.pc = "done" /\ r.outcome = "returned" /\ r.op = caller[c].op /\ r.status = s
    BY <1>0 DEF CallerRecord
  <2> HIDE DEF d, r
  <2>5. CASE caller'[c] = d
    BY <1>2, <2>1, <2>3, <2>5 DEF CallerInv, Own, Ended
  <2>6. CASE caller'[c] = r
    BY <1>2, <2>1, <2>4, <2>6 DEF CallerInv, Own, Ended
  <2> QED
    BY <2>2, <2>5, <2>6
<1>8. ASSUME DetailReturns(c)
      PROVE  CallerInv(c)'
  <2>1. PICK content \in {"present", "absent"} :
           caller' = [caller EXCEPT ![c] = [caller[c] EXCEPT !.pc = "done",
                                               !.outcome = "returned", !.content = content]]
    BY <1>8, Locals
  <2> DEFINE r == [caller[c] EXCEPT !.pc = "done", !.outcome = "returned", !.content = content]
  <2>2. caller'[c] = r
    BY <1>0, <2>1
  <2>3. /\ r.pc = "done" /\ r.outcome = "returned"
        /\ r.op = caller[c].op /\ r.status = caller[c].status
    BY <1>0 DEF CallerRecord
  <2>4. Own(c, caller[c].op) /\ Ended(caller[c].op, caller[c].status)
    BY <1>0, <1>8 DEF DetailReturns, At, CallerInv
  <2> HIDE DEF r
  <2> QED
    BY <1>2, <2>2, <2>3, <2>4 DEF CallerInv, Own, Ended
<1>9. ASSUME NEW outcome \in {"Timeout", "Stopped"}, WaitEnds(c, outcome)
      PROVE  CallerInv(c)'
  <2>1. PICK key \in Keys \cup {None} :
           /\ caller' = [caller EXCEPT ![c] =
                [caller[c] EXCEPT !.pc = "done", !.outcome = outcome,
                                  !.excOp = caller[c].op, !.excKey = key]]
           /\ caller[c].mode = "run" => key = KeyOf[JobOf[c]]
    BY <1>9, WaitEndsLocals
  <2> DEFINE r == [caller[c] EXCEPT !.pc = "done", !.outcome = outcome,
                                    !.excOp = caller[c].op, !.excKey = key]
  <2>2. caller'[c] = r
    BY <1>0, <2>1
  <2>3. /\ r.pc = "done" /\ r.outcome = outcome /\ r.mode = caller[c].mode
        /\ r.excOp = caller[c].op /\ r.excKey = key
    BY <1>0 DEF CallerRecord
  <2>4. Own(c, caller[c].op)
    BY <1>0, <1>9 DEF WaitEnds, Polls, At, CallerInv
  <2> HIDE DEF r
  <2> QED
    BY <1>2, <2>1, <2>2, <2>3, <2>4 DEF CallerInv, Own
<1>10. ASSUME NEW outcome \in {"Conflict", "Error"}, End(c, outcome),
              outcome = "Conflict" => Taken(c)
       PROVE  CallerInv(c)'
  <2> DEFINE r == [caller[c] EXCEPT !.pc = "done", !.outcome = outcome]
  <2>1. r.pc = "done" /\ r.outcome = outcome
    BY <1>0 DEF CallerRecord
  <2>2. caller'[c] = r
    BY <1>0, <1>10 DEF End
  <2> HIDE DEF r
  <2> QED
    BY <1>2, <1>10, <2>1, <2>2 DEF CallerInv
<1>11. ASSUME CreateConflicts(c)
       PROVE  CallerInv(c)'
  <2>1. End(c, "Conflict") /\ Taken(c)
    BY <1>0, <1>11 DEF CreateConflicts, ReplyInv
  <2> QED
    BY <1>10, <2>1
<1>12. ASSUME Crash(c) \/ RunAgain(c)
       PROVE  CallerInv(c)'
  <2>1. caller'[c] = Fresh
    BY <1>0, <1>12, Locals
  <2> QED
    BY <2>1 DEF CallerInv, Fresh
<1>13. ASSUME Resume(c)
       PROVE  CallerInv(c)'
  <2> DEFINE r == [Fresh EXCEPT !.pc = "waiting", !.mode = "resume", !.op = caller[c].excOp]
  <2>1. r.pc = "waiting" /\ r.op = caller[c].excOp /\ r.outcome = "pending"
    BY DEF Fresh
  <2>2. caller'[c] = r
    BY <1>0, <1>13, Locals
  <2>3. Own(c, caller[c].excOp)
    BY <1>0, <1>13 DEF Resume, CallerInv
  <2> HIDE DEF r
  <2> QED
    BY <1>2, <2>1, <2>2, <2>3 DEF CallerInv, Own
<1>14. Moves(c) =>
          \/ UNCHANGED caller
          \/ Run(c) \/ Created(c) \/ CreateConflicts(c) \/ WaitReturns(c) \/ DetailReturns(c)
          \/ End(c, "Error")
          \/ WaitEnds(c, "Timeout") \/ WaitEnds(c, "Stopped")
          \/ Crash(c) \/ RunAgain(c) \/ Resume(c)
  BY DEF Moves, CallerStep, Trouble, Recover, Resend, CreateFails, WaitRejects, WaitFails,
         DetailFails
<1> QED
  BY <1>3, <1>5, <1>6, <1>7, <1>8, <1>9, <1>10, <1>11, <1>12, <1>13, <1>14

LEMMA StepCaller ==
  ASSUME Inv, [Next]_vars, NEW c \in Callers
  PROVE  CallerInv(c)'
<1>0. /\ caller \in [Callers -> CallerRecord] /\ caller[c] \in CallerRecord
      /\ CallerInv(c)
  BY Types DEF Inv
<1>1. CASE caller'[c] = caller[c]
  <2>1. ASSUME NEW i \in Nat, Own(c, i)
        PROVE  i \in OpId' /\ ops'[i].job = JobOf[c]
    BY <2>1, KnowledgeStays DEF Own
  <2>2. ASSUME NEW i \in OpId, NEW s \in Statuses, Ended(i, s)
        PROVE  ops'[i].status = s /\ s \in Terminal
    BY <2>2, KnowledgeStays DEF Ended
  <2>3. Taken(c) => Taken(c)'
    BY KnowledgeStays
  <2>4. OpId \subseteq Nat /\ caller[c].status \in Statuses
    BY <1>0, Types DEF CallerRecord
  <2> QED
    BY <1>0, <1>1, <2>1, <2>2, <2>3, <2>4 DEF CallerInv, Own, Ended
<1>2. CASE Moves(c)
  BY <1>2, StepMoved
<1>3. ASSUME NEW d \in Callers, d # c, Moves(d)
      PROVE  caller'[c] = caller[c]
  BY <1>0, <1>3
     DEF Moves, CallerStep, Trouble, Recover, Run, Resend, Created, CreateConflicts, WaitReturns,
         DetailReturns, CreateFails, WaitRejects, WaitFails, DetailFails, Crash, WaitEnds,
         RunAgain, Resume, End
<1>4. (\E d \in Callers : Moves(d)) \/ UNCHANGED caller
  BY DEF Next, Moves, Done, vars, HandleCreate, Lose, Work
<1> QED
  BY <1>1, <1>2, <1>3, <1>4

LEMMA Invariance == Spec => []Inv
<1>1. Inv /\ [Next]_vars => Inv'
  BY StepTypeOK, StepOps, StepRequests, StepReply, StepCaller DEF Inv
<1> QED
  BY <1>1, InitInv, PTL DEF Spec

-----------------------------------------------------------------------------
(* All that callers, server and network hold is what it is meant to be.    *)
THEOREM TypeCorrect == Spec => []TypeOK
<1>1. Inv => TypeOK
  BY DEF Inv
<1> QED
  BY <1>1, Invariance, PTL

(* However many callers run for a job, however often they fail and try     *)
(* again, it is billed once: its key leads all of them to one operation.   *)
THEOREM BillsEachJobOnce == Spec => []OneOperationPerJob
<1>1. Inv => OneOperationPerJob
  BY DEF Inv, OpsInv, OneOperationPerJob
<1> QED
  BY <1>1, Invariance, PTL

(* A caller is handed the outcome of its own job, whichever jobs share its *)
(* key.                                                                    *)
THEOREM ReturnsOwnResults == Spec => []ResultIsOwn
<1>1. Inv => ResultIsOwn
  BY DEF Inv, CallerInv, Own, Ended, ResultIsOwn
<1> QED
  BY <1>1, Invariance, PTL

(* A timeout or a stop names the operation of the caller's own job, and    *)
(* the key it is filed under.                                              *)
THEOREM PollingErrorsLeadBack == Spec => []PollingErrorLeadsBack
<1>1. Inv => PollingErrorLeadsBack
  BY DEF Inv, OpsInv, CallerInv, Own, PollingErrorLeadsBack
<1> QED
  BY <1>1, Invariance, PTL

(* A conflict means that the job has not been billed, and never will be.   *)
THEOREM ConflictsAreClean == Spec => []ConflictIsClean
<1>1. Inv => ConflictIsClean
  BY DEF Inv, CallerInv, Taken, ConflictIsClean
<1> QED
  BY <1>1, Invariance, PTL

-----------------------------------------------------------------------------
(* The jobs as they look from outside. *)
LEMMA StateIs ==
  ASSUME Inv, NEW j, NEW i \in OpId, ops[i].job = j
  PROVE  StateOf(j) = IF ops[i].status \in Terminal THEN ops[i].status ELSE "started"
<1>1. OpsOf(j) = {i}
  BY DEF OpsOf, Inv, OpsInv
<1> QED
  BY <1>1 DEF StateOf

LEMMA StateIsPrimed ==
  ASSUME Inv', NEW j, NEW i \in OpId', ops'[i].job = j
  PROVE  StateOf(j)' = IF ops'[i].status \in Terminal THEN ops'[i].status ELSE "started"
<1>1. OpsOf(j)' = {i}
  BY DEF OpsOf, Inv, OpsInv
<1> QED
  BY <1>1 DEF StateOf

LEMMA StateIsNone ==
  ASSUME NEW j, \A i \in OpId : ops[i].job # j
  PROVE  StateOf(j) = "none"
  BY DEF StateOf, OpsOf

LEMMA StateStays ==
  ASSUME Inv, Inv', NEW j, OpId \subseteq OpId',
         \A i \in OpId : ops[i].job = j => ops'[i] = ops[i],
         \A i \in OpId : ops[i].job # j => ops'[i].job # j,
         \A i \in OpId' \ OpId : ops'[i].job # j
  PROVE  StateOf(j)' = StateOf(j)
<1>1. CASE \E i \in OpId : ops[i].job = j
  BY <1>1, StateIs, StateIsPrimed
<1>2. CASE \A i \in OpId : ops[i].job # j
  <2>1. \A i \in OpId' : ops'[i].job # j
    BY <1>2
  <2>2. StateOf(j)' = "none"
    BY <2>1 DEF StateOf, OpsOf
  <2> QED
    BY <1>2, <2>2, StateIsNone
<1> QED
  BY <1>1, <1>2

LEMMA ContractInit == Init => Contract!Init
  BY DEF Init, Contract!Init, StateOf, OpsOf, OpId, KnownTo, Settled, At, Fresh

(* Callers, settled ones included, learn what has become of their jobs. *)
LEMMA MovesAreTold ==
  ASSUME Inv, Inv', NEW c \in Callers, Moves(c)
  PROVE  [Contract!Next]_(Contract!vars)
<1>1. UNCHANGED ops /\ \A d \in Callers \ {c} : caller'[d] = caller[d]
  BY Types
     DEF Moves, CallerStep, Trouble, Recover, Run, Resend, Created, CreateConflicts, WaitReturns,
         DetailReturns, CreateFails, WaitRejects, WaitFails, DetailFails, Crash, WaitEnds,
         RunAgain, Resume, End
<1>2. \A j \in Jobs : StateOf(j)' = StateOf(j)
  BY <1>1 DEF StateOf, OpsOf, OpId
<1>3. \A d \in Callers \ {c} : KnownTo(d)' = KnownTo(d)
  BY <1>1 DEF KnownTo, Settled, At
<1>4. ~Settled(c) \/ UNCHANGED caller
  BY DEF Settled, At, Polls, Moves, CallerStep, Trouble, Recover, Run, Resend, Created,
         CreateConflicts,
         WaitReturns, DetailReturns, CreateFails, WaitRejects, WaitFails, DetailFails, Crash,
         WaitEnds, RunAgain, Resume, Failed
<1>5. CASE KnownTo(c)' = KnownTo(c)
  BY <1>2, <1>3, <1>5 DEF Contract!vars
<1>6. CASE KnownTo(c)' # KnownTo(c)
  <2>1. KnownTo(c) = "nothing" /\ Settled(c)'
    BY <1>4, <1>6 DEF KnownTo, Settled, At
  <2> DEFINE work == [j \in Jobs |-> StateOf(j)]
             told == [d \in Callers |-> KnownTo(d)]
  <2>2. /\ work' = work /\ told[c] = "nothing" /\ JobOf[c] \in Jobs
        /\ told' = [told EXCEPT ![c] = KnownTo(c)']
        /\ work[JobOf[c]] = StateOf(JobOf[c])
    BY <1>2, <1>3, <2>1, CallersAssumption
  <2>3. CASE caller'[c].outcome = "Conflict"
    <3>1. KnownTo(c)' = "refused"
      BY <2>1, <2>3 DEF KnownTo
    <3>2. Taken(c)'
      BY <2>3 DEF Inv, CallerInv
    <3>3. StateOf(JobOf[c]) = "none"
      BY <1>1, <3>2, StateIsNone DEF Taken, OpId
    <3>4. Contract!Refuse(c)
      BY <2>2, <3>1, <3>3 DEF Contract!Refuse
    <3> QED
      BY <3>4 DEF Contract!Next
  <2>4. CASE caller'[c].outcome # "Conflict"
    <3>1. KnownTo(c)' = caller'[c].status /\ caller'[c].outcome = "returned"
      BY <2>1, <2>4 DEF KnownTo, Settled
    <3>2. Own(c, caller[c].op)' /\ Ended(caller[c].op, caller[c].status)'
      BY <3>1 DEF Inv, CallerInv
    <3>3. StateOf(JobOf[c]) = caller'[c].status /\ caller'[c].status \in Terminal
      BY <1>1, <3>2, StateIs DEF Own, Ended, OpId
    <3>4. Contract!Tell(c)
      BY <2>2, <3>1, <3>3 DEF Contract!Tell
    <3> QED
      BY <3>4 DEF Contract!Next
  <2> QED
    BY <2>3, <2>4
<1> QED
  BY <1>5, <1>6

(* A job starts when its operation is filed, never after a refusal. *)
LEMMA FilingIsAStart ==
  ASSUME Inv, Inv', [Next]_vars, NEW m \in requests, HandleCreate(m), ops' # ops
  PROVE  Contract!Next
<1>1. /\ m.job \in Jobs /\ m.key = KeyOf[m.job] /\ UNCHANGED caller
      /\ WithKey(m.key) = {}
      /\ ops' = Append(ops, [key |-> m.key, job |-> m.job, status |-> "queued"])
  BY DEF HandleCreate, Inv, TypeOK, RequestsInv, CreateRequest, Request
<1> DEFINE n == Len(ops) + 1
<1>2. /\ OpId' = OpId \cup {n} /\ n \notin OpId
      /\ \A i \in OpId : ops'[i] = ops[i]
      /\ ops'[n] = [key |-> m.key, job |-> m.job, status |-> "queued"]
  <2> DEFINE new == [key |-> m.key, job |-> m.job, status |-> "queued"]
  <2>1. ops \in Seq(Operation) /\ new \in Operation /\ ops' = Append(ops, new)
    BY <1>1 DEF Inv, TypeOK, RequestsInv, Request, Operation, Statuses
  <2> HIDE DEF new
  <2>2. /\ DOMAIN ops' = DOMAIN ops \cup {n} /\ n \notin DOMAIN ops
        /\ ops'[n] = new /\ \A i \in DOMAIN ops : ops'[i] = ops[i]
    BY <2>1, Appended
  <2> QED
    BY <2>2 DEF OpId, new
<1>3. \A i \in OpId : ops[i].key # m.key /\ ops[i].job # m.job
  BY <1>1 DEF WithKey, Inv, OpsInv
<1>4. StateOf(m.job) = "none"
  BY <1>3, StateIsNone
<1>5. StateOf(m.job)' = "started"
  BY <1>2, StateIsPrimed DEF Terminal
<1>6. ASSUME NEW j \in Jobs, j # m.job
      PROVE  StateOf(j)' = StateOf(j)
  <2>1. OpId' = OpId \cup {n} /\ ops'[n].job # j
    BY <1>2, <1>6
  <2> HIDE DEF n
  <2> QED
    BY <1>2, <2>1, StateStays
<1>7. \A c \in Callers : JobOf[c] = m.job => KnownTo(c) # "refused"
  <2>1. ASSUME NEW c \in Callers, JobOf[c] = m.job, KnownTo(c) = "refused"
        PROVE  FALSE
    <3>1. caller[c].outcome = "Conflict"
      BY <2>1 DEF KnownTo, Settled, Inv, CallerInv, Ended, Terminal
    <3>2. Taken(c)
      BY <3>1 DEF Inv, CallerInv
    <3> QED
      BY <1>1, <1>3, <2>1, <3>2 DEF Taken
  <2> QED
    BY <2>1
<1>8. \A c \in Callers : KnownTo(c)' = KnownTo(c)
  BY <1>1 DEF KnownTo, Settled, At
<1>9. Contract!Start(m.job)
  BY <1>1, <1>4, <1>5, <1>6, <1>7, <1>8 DEF Contract!Start
<1> QED
  BY <1>1, <1>9 DEF Contract!Next

LEMMA WorkFinishes ==
  ASSUME Inv, Inv', [Next]_vars, NEW i \in OpId, Work(i)
  PROVE  Contract!Next
<1>1. PICK s \in Terminal : ops' = [ops EXCEPT ![i].status = s]
  BY DEF Work
<1>0. PICK j \in Jobs : ops[i].job = j
  <2>1. ops[i] \in Operation
    BY Types
  <2> QED
    BY <2>1 DEF Operation
<1>2. /\ ops[i].status \notin Terminal /\ UNCHANGED caller
      /\ OpId' = OpId
      /\ \A k \in OpId \ {i} : ops'[k] = ops[k]
      /\ ops'[i].status = s /\ ops'[i].job = j
  <2>1. ops \in Seq(Operation) /\ ops[i] \in Operation
    BY Types DEF Inv, TypeOK
  <2>2. ASSUME NEW o \in Operation
        PROVE  /\ [o EXCEPT !.status = s].status = s
               /\ [o EXCEPT !.status = s].job = o.job
    BY DEF Operation
  <2>3. ops' = [ops EXCEPT ![i] = [ops[i] EXCEPT !.status = s]]
    BY <1>1
  <2>4. /\ DOMAIN ops' = DOMAIN ops
        /\ \A k \in DOMAIN ops \ {i} : ops'[k] = ops[k]
        /\ ops'[i] = [ops[i] EXCEPT !.status = s]
    BY <2>1, <2>3 DEF OpId
  <2>5. ops[i].status \notin Terminal /\ UNCHANGED caller
    BY DEF Work
  <2> QED
    BY <1>0, <2>1, <2>2, <2>4, <2>5 DEF OpId
<1>3. StateOf(j) = "started" /\ StateOf(j)' = s
  BY <1>1, <1>2, StateIs, StateIsPrimed, <1>0
<1>4. ASSUME NEW k \in Jobs, k # j
      PROVE  StateOf(k)' = StateOf(k)
  <2>1. \A l \in OpId : ops[l].job = k => l # i
    BY <1>0, <1>4
  <2>2. \A l \in OpId : ops[l].job # k => ops'[l].job # k
    BY <1>2, <1>4
  <2> QED
    BY <1>2, <2>1, <2>2, StateStays
<1>5. \A c \in Callers : KnownTo(c)' = KnownTo(c)
  BY <1>2 DEF KnownTo, Settled, At
<1> DEFINE work == [k \in Jobs |-> StateOf(k)]
           told == [c \in Callers |-> KnownTo(c)]
<1>6. /\ work[j] = "started"
      /\ work' = [work EXCEPT ![j] = s]
      /\ UNCHANGED told
  <2>1. work[j] = "started"
    BY <1>3
  <2>2. \A k \in Jobs : StateOf(k)' = IF k = j THEN s ELSE StateOf(k)
    BY <1>3, <1>4
  <2>3. work' = [work EXCEPT ![j] = s]
    BY <2>2
  <2> QED
    BY <1>5, <2>1, <2>3
<1>7. Contract!Finish(j)
  BY <1>6 DEF Contract!Finish
<1> QED
  BY <1>2, <1>7 DEF Contract!Next

LEMMA ContractStep ==
  ASSUME Inv, Inv', [Next]_vars
  PROVE  [Contract!Next]_(Contract!vars)
<1>1. CASE UNCHANGED <<caller, ops>>
  BY <1>1 DEF Contract!vars, StateOf, OpsOf, OpId, KnownTo, Settled, At
<1>2. CASE \E c \in Callers : Moves(c)
  BY <1>2, MovesAreTold
<1>3. CASE \E m \in requests : HandleCreate(m) /\ ops' # ops
  BY <1>3, FilingIsAStart
<1>4. CASE \E i \in OpId : Work(i)
  BY <1>4, WorkFinishes
<1> QED
  BY <1>1, <1>2, <1>3, <1>4 DEF Next, Moves, Done, vars, HandleCreate, Lose

(* The run helpers keep the safety part of their contract: what happens to *)
(* a job, and what its callers are told of it, fit together.               *)
THEOREM RunsKeepTheContract == Spec => Contract!Init /\ [][Contract!Next]_(Contract!vars)
<1>1. Inv /\ Inv' /\ [Next]_vars => [Contract!Next]_(Contract!vars)
  BY ContractStep
<1> QED
  BY <1>1, Invariance, ContractInit, PTL DEF Spec
==============================================================================
