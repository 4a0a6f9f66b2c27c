---------------------------- MODULE Polling_proofs ----------------------------
(***************************************************************************)
(* Proofs about the wait loop of Polling, for every configuration and all  *)
(* bounds on how long a GET takes and how late a sleeper wakes.            *)
(***************************************************************************)
EXTENDS Polling, FiniteSetTheorems, TLAPS

Running == pc \notin {"start", "done"}

(* The call has a valid configuration, a deadline and an interval between  *)
(* initial and max for as long as its loop runs.                           *)
LoopInv ==
    /\ outcome = "pending" <=> pc # "done"
    /\ deadline # Never => Valid(config)
    /\ pc = "start" => polls = 0 /\ deadline = Never
    /\ Running => deadline \in Nat /\ interval \in config.initial .. config.max

(* The last GET took no longer than MaxGet. *)
Answered ==
    /\ started \in Nat /\ heard \in Nat
    /\ started < deadline /\ started <= heard /\ heard <= started + MaxGet

(* The loop is on its way from the call of the callback to the budget test.*)
Asking == pc \in {"check", "asking", "budget"}

(* Where the clock stands, relative to the last GET, the last call of the  *)
(* callback and the deadline, at each point of the loop.                   *)
ClockInv ==
    /\ pc \in {"get", "answering"} =>
          /\ polls > 0
          /\ started \in Nat /\ started < deadline
          /\ started <= now /\ now <= started + MaxGet
    /\ pc = "judge" => polls > 0 /\ Answered /\ heard = now
    /\ pc = "sleep" =>
          /\ polls > 0 /\ Answered
          /\ heard < deadline /\ heard <= now
          /\ wakeAt = heard + Shorter(interval, deadline - heard)
          /\ now <= wakeAt + MaxOversleep
    /\ Asking =>
          /\ asked \in Nat /\ asked <= now /\ now <= asked + MaxCallback
          /\ asked <= deadline + MaxOversleep
    /\ Asking /\ polls > 0 =>
          /\ Answered
          /\ heard <= asked /\ asked <= heard + config.max + MaxOversleep
          /\ asked >= deadline \/ asked >= heard + config.initial
    /\ Asking /\ polls = 0 => deadline = asked + config.timeout
    /\ OverrunBounded

(* A stop request is younger than the last time the callback was asked in  *)
(* vain, and that was at most MaxCallback before the GET after it.         *)
StopInv ==
    /\ stop <=> stopAt # Never
    /\ stop => stopAt <= now
    /\ stop /\ pc = "start" => stopAt = now
    /\ told /\ pc = "asking" => stop
    /\ pc = "budget" => ~told
    /\ stop /\ pc \in {"asking", "budget"} /\ ~told => stopAt >= asked
    /\ stop /\ pc \in {"check", "asking"} =>
          IF polls = 0 THEN stopAt >= asked ELSE stopAt + MaxCallback >= started
    /\ stop /\ pc \in {"get", "answering", "judge", "sleep"} => stopAt + MaxCallback >= started
    /\ StopIsPrompt

(* The operation was not over when the last GET began, unless that GET     *)
(* brought the news.                                                       *)
NewsInv ==
    /\ status \in Terminal <=> finishedAt # Never
    /\ seen \in Terminal => status = seen /\ pc \in {"answering", "judge", "cancelling", "done"}
    /\ (Asking \/ pc \in {"answering", "judge", "sleep"}) /\ polls > 0
       /\ seen \notin Terminal /\ finishedAt # Never => finishedAt >= started
    /\ ReturnsFinalStatus
    /\ TimeoutIsHonest
    /\ NoMissedResult

(* From the cancellation of the task to its end is one step.               *)
CancelInv ==
    cancelled => pc = "cancelling" \/ (pc = "done" /\ outcome = "Cancelled")

Inv == TypeOK /\ LoopInv /\ ClockInv /\ StopInv /\ NewsInv /\ CancelInv

LEMMA InvInit == Init => Inv
<1> SUFFICES ASSUME Init PROVE Inv
  OBVIOUS
<1> USE ConfigsAssumption, TimingAssumption DEF Init
<1>1. TypeOK
  BY DEF TypeOK, Time, Outcomes, Statuses, Active, Terminal
<1>2. LoopInv /\ ClockInv /\ CancelInv
  BY DEF LoopInv, ClockInv, CancelInv, Asking, Running, OverrunBounded
<1>3. StopInv
  BY DEF StopInv, StopIsPrompt
<1>4. NewsInv
  BY DEF NewsInv, Terminal, ReturnsFinalStatus, TimeoutIsHonest, NoMissedResult
<1> QED
  BY <1>1, <1>2, <1>3, <1>4 DEF Inv

(* What the actions need to know of the numbers they compute with.         *)
LEMMA ConfigFacts ==
    ASSUME Inv
    PROVE  /\ config.timeout \in Int /\ config.initial \in Int /\ config.max \in Int
           /\ MaxGet \in Nat /\ MaxOversleep \in Nat
           /\ Running => /\ config.timeout > 0 /\ config.initial > 0
                         /\ config.initial <= interval /\ interval <= config.max
  BY ConfigsAssumption, TimingAssumption DEF Inv, TypeOK, Config, LoopInv, Running, Valid

LEMMA LoopIsValid ==
    ASSUME Inv, Running
    PROVE  Valid(config)
  BY TimingAssumption DEF Inv, LoopInv, Running

(* The steps with which the loop ends, or does not. *)
Ending ==
    CheckStop \/ FailCallback \/ OutOfTime \/ FailGet \/ ReturnOperation \/ DeliverCancel

LEMMA StepTypeOK == Inv /\ [Next]_vars => TypeOK'
<1> SUFFICES ASSUME Inv, [Next]_vars PROVE TypeOK'
  OBVIOUS
<1> USE ConfigFacts, TimingAssumption
    DEF TypeOK, Time, Outcomes, Finish, getVars, askVars, outside
<1>1. CASE Validate
  BY <1>1 DEF Inv, Validate, Valid
<1>2. CASE Ending \/ Cancel
  BY <1>2 DEF Inv, Ending, CheckStop, FailCallback, OutOfTime, FailGet, ReturnOperation,
              DeliverCancel, Cancel
<1>3. CASE StartGet \/ FinishGet
  BY <1>3 DEF Inv, StartGet, FinishGet
<1>4. CASE Sleep
  <2>1. RemainingTimeout \in Nat
    BY <1>4 DEF Inv, LoopInv, Running, Sleep, RemainingTimeout
  <2>2. now + Shorter(interval, RemainingTimeout) \in Nat
    BY <2>1 DEF Inv, Shorter
  <2> QED
    BY <1>4, <2>2 DEF Inv, Sleep
<1>5. CASE Wake
  <2>1. NextPollInterval(interval, config.max) \in Nat
    BY <1>5 DEF Inv, Wake, Running, NextPollInterval
  <2> QED
    BY <1>5, <2>1 DEF Inv, Wake
<1>6. CASE Tick
  BY <1>6 DEF Inv, Tick, loopVars
<1>7. CASE Consult \/ Serve
  BY <1>7 DEF Inv, Consult, Serve
<1>8. CASE Progress
  BY <1>8 DEF Inv, Progress, loopVars
<1>9. CASE RequestStop
  BY <1>9 DEF Inv, RequestStop, loopVars
<1>10. CASE UNCHANGED vars
  BY <1>10 DEF Inv, vars
<1> QED
  BY <1>1, <1>2, <1>3, <1>4, <1>5, <1>6, <1>7, <1>8, <1>9, <1>10
     DEF Next, LoopStep, Ending, Done

LEMMA StepLoop == Inv /\ [Next]_vars => LoopInv'
<1> SUFFICES ASSUME Inv, [Next]_vars PROVE LoopInv'
  OBVIOUS
<1> USE ConfigFacts, TimingAssumption DEF LoopInv, Running, Finish, getVars, askVars, outside
<1>1. CASE Validate
  BY <1>1 DEF Inv, TypeOK, Validate, Valid
<1>2. CASE Ending \/ Cancel
  BY <1>2 DEF Inv, Valid, Ending, CheckStop, FailCallback, OutOfTime, FailGet, ReturnOperation,
              DeliverCancel, Cancel
<1>3. CASE StartGet \/ FinishGet \/ Sleep \/ Consult \/ Serve
  BY <1>3 DEF Inv, Valid, StartGet, FinishGet, Sleep, Consult, Serve
<1>4. CASE Wake
  <2>1. NextPollInterval(interval, config.max) \in config.initial .. config.max
    BY <1>4 DEF Inv, TypeOK, Wake, NextPollInterval
  <2> QED
    BY <1>4, <2>1 DEF Inv, Valid, Wake
<1>5. CASE Tick \/ Progress \/ RequestStop \/ UNCHANGED vars
  BY <1>5 DEF Inv, Valid, Tick, Progress, RequestStop, loopVars, vars
<1> QED
  BY <1>1, <1>2, <1>3, <1>4, <1>5 DEF Next, LoopStep, Ending, Done

LEMMA StepClock == Inv /\ [Next]_vars => ClockInv'
<1> SUFFICES ASSUME Inv, [Next]_vars PROVE ClockInv'
  OBVIOUS
<1> USE ConfigFacts, TimingAssumption
    DEF ClockInv, Answered, Asking, OverrunBounded, Longer, Running, Finish, Inv, TypeOK, LoopInv,
        getVars, askVars, outside
<1>1. CASE Validate
  BY <1>1 DEF Validate, Valid
<1>2. CASE CheckStop
  BY <1>2 DEF CheckStop
<1>3. CASE FailCallback \/ OutOfTime \/ FailGet \/ ReturnOperation \/ DeliverCancel \/ Cancel
  BY <1>3 DEF FailCallback, OutOfTime, FailGet, ReturnOperation, DeliverCancel, Cancel
<1>4. CASE StartGet
  BY <1>4 DEF StartGet, RemainingTimeout
<1>5. CASE FinishGet
  BY <1>5 DEF FinishGet
<1>6. CASE Sleep
  BY <1>6 DEF Sleep, RemainingTimeout, Shorter
<1>7. CASE Wake
  BY <1>7 DEF Wake, Shorter
<1>8. CASE Tick
  BY <1>8 DEF Tick, loopVars, Shorter
<1>9. CASE Consult \/ Serve
  BY <1>9 DEF Consult, Serve
<1>10. CASE Progress \/ RequestStop \/ UNCHANGED vars
  BY <1>10 DEF Progress, RequestStop, loopVars, vars
<1> QED
  BY <1>1, <1>2, <1>3, <1>4, <1>5, <1>6, <1>7, <1>8, <1>9, <1>10 DEF Next, LoopStep, Done

LEMMA StepStop == Inv /\ [Next]_vars => StopInv'
<1> SUFFICES ASSUME Inv, [Next]_vars PROVE StopInv'
  OBVIOUS
<1> USE ConfigFacts, TimingAssumption
    DEF StopInv, StopIsPrompt, Asking, Running, Finish, Inv, TypeOK, Time, getVars, askVars, outside
<1>1. CASE Validate
  BY <1>1 DEF Validate, LoopInv
<1>2. CASE CheckStop
  BY <1>2 DEF CheckStop
<1>3. CASE FailCallback \/ OutOfTime \/ FailGet \/ ReturnOperation \/ DeliverCancel \/ Cancel
  BY <1>3 DEF FailCallback, OutOfTime, FailGet, ReturnOperation, DeliverCancel, Cancel
<1>4. CASE StartGet
  BY <1>4 DEF StartGet, ClockInv
<1>5. CASE FinishGet \/ Sleep \/ Consult \/ Serve
  BY <1>5 DEF FinishGet, Sleep, Consult, Serve, ClockInv
<1>6. CASE Wake
  BY <1>6 DEF Wake, ClockInv
<1>7. CASE Tick
  BY <1>7 DEF Tick, loopVars, ClockInv, Answered, Shorter, LoopInv
<1>8. CASE RequestStop
  BY <1>8 DEF RequestStop, loopVars, ClockInv, Answered, LoopInv
<1>9. CASE Progress \/ UNCHANGED vars
  BY <1>9 DEF Progress, loopVars, vars
<1> QED
  BY <1>1, <1>2, <1>3, <1>4, <1>5, <1>6, <1>7, <1>8, <1>9 DEF Next, LoopStep, Done

LEMMA StepNews == Inv /\ [Next]_vars => NewsInv'
<1> SUFFICES ASSUME Inv, [Next]_vars PROVE NewsInv'
  OBVIOUS
<1> USE ConfigFacts, TimingAssumption
    DEF NewsInv, ReturnsFinalStatus, TimeoutIsHonest, NoMissedResult, Asking, Finish, Inv, TypeOK,
        Time, getVars, askVars, outside
<1>1. CASE Validate
  BY <1>1 DEF Validate, LoopInv
<1>2. CASE CheckStop \/ FailCallback \/ FailGet \/ DeliverCancel \/ Cancel
  BY <1>2 DEF CheckStop, FailCallback, FailGet, DeliverCancel, Cancel, LoopInv
<1>3. CASE OutOfTime
  <2>1. deadline \in Nat /\ now >= deadline
    BY <1>3 DEF OutOfTime, RemainingTimeout, LoopInv, Running
  <2>2. polls = 0 => config.timeout <= MaxCallback
    BY <1>3, <2>1 DEF OutOfTime, ClockInv, Running
  <2>3. polls > 0 =>
          started \in Nat /\ now <= started + MaxGet + config.max + MaxOversleep + MaxCallback
    BY <1>3, <2>1 DEF OutOfTime, ClockInv, Answered, Running
  <2>4. seen \notin Terminal /\ (polls > 0 /\ finishedAt # Never => finishedAt >= started)
    BY <1>3 DEF OutOfTime
  <2> QED
    BY <1>3, <2>1, <2>2, <2>3, <2>4 DEF OutOfTime
<1>4. CASE ReturnOperation
  BY <1>4 DEF ReturnOperation
<1>5. CASE StartGet \/ FinishGet \/ Sleep \/ Wake
  BY <1>5 DEF StartGet, FinishGet, Sleep, Wake, LoopInv
<1>6. CASE Tick
  BY <1>6 DEF Tick, loopVars, LoopInv
<1>7. CASE Consult \/ Serve
  BY <1>7 DEF Consult, Serve, LoopInv
<1>8. CASE Progress
  BY <1>8 DEF Progress, loopVars, LoopInv, ClockInv, Answered, Active, Terminal, Statuses
<1>9. CASE RequestStop \/ UNCHANGED vars
  BY <1>9 DEF RequestStop, loopVars, vars
<1> QED
  BY <1>1, <1>2, <1>3, <1>4, <1>5, <1>6, <1>7, <1>8, <1>9 DEF Next, LoopStep, Done

LEMMA StepCancel == Inv /\ [Next]_vars => CancelInv'
<1> SUFFICES ASSUME Inv, [Next]_vars PROVE CancelInv'
  OBVIOUS
<1> USE DEF Inv, CancelInv, Finish, getVars, askVars, outside
<1>1. CASE Cancel
  BY <1>1 DEF Cancel
<1>2. CASE DeliverCancel
  BY <1>2 DEF DeliverCancel
<1>3. CASE Validate \/ StartGet \/ FinishGet \/ Sleep \/ Wake \/ Consult \/ Serve
  BY <1>3 DEF Validate, StartGet, FinishGet, Sleep, Wake, Consult, Serve
<1>4. CASE CheckStop \/ FailCallback \/ OutOfTime \/ FailGet \/ ReturnOperation
  BY <1>4 DEF CheckStop, FailCallback, OutOfTime, FailGet, ReturnOperation
<1>5. CASE Tick \/ Progress \/ RequestStop \/ UNCHANGED vars
  BY <1>5 DEF Tick, Progress, RequestStop, loopVars, vars
<1> QED
  BY <1>1, <1>2, <1>3, <1>4, <1>5 DEF Next, LoopStep, Done

LEMMA InvStep == Inv /\ [Next]_vars => Inv'
  BY StepTypeOK, StepLoop, StepClock, StepStop, StepNews, StepCancel DEF Inv

(* Every reachable state is well typed and satisfies the invariant.        *)
LEMMA Invariance == Spec => []Inv
  BY InvInit, InvStep, PTL DEF Spec

-----------------------------------------------------------------------------
(* Every variable keeps its type.                                          *)
THEOREM TypeCorrect == Spec => []TypeOK
<1>1. Inv => TypeOK
  BY DEF Inv
<1> QED
  BY <1>1, Invariance, PTL

(* A returned operation is terminal, and still what the server holds.      *)
THEOREM ReturnsTheFinalStatus == Spec => []ReturnsFinalStatus
<1>1. Inv => ReturnsFinalStatus
  BY DEF Inv, NewsInv
<1> QED
  BY <1>1, Invariance, PTL

(* A timeout is raised only with the budget spent, and without any GET     *)
(* only if one run of the callback can spend it.                           *)
THEOREM TimesOutHonestly == Spec => []TimeoutIsHonest
<1>1. Inv => TimeoutIsHonest
  BY DEF Inv, NewsInv
<1> QED
  BY <1>1, Invariance, PTL

(* The deadline costs the caller the news of the last interval at most.    *)
THEOREM MissesNoEarlyResult == Spec => []NoMissedResult
<1>1. Inv => NoMissedResult
  BY DEF Inv, NewsInv
<1> QED
  BY <1>1, Invariance, PTL

(* The call outlives its deadline by one GET, or by one late wake-up and   *)
(* the callback after it, at most.                                         *)
THEOREM OverrunsWithinBound == Spec => []OverrunBounded
<1>1. Inv => OverrunBounded
  BY DEF Inv, ClockInv
<1> QED
  BY <1>1, Invariance, PTL

(* A stop request ends the call within one GET, one interval and two runs  *)
(* of the callback.                                                        *)
THEOREM StopsPromptly == Spec => []StopIsPrompt
<1>1. Inv => StopIsPrompt
  BY DEF Inv, StopInv
<1> QED
  BY <1>1, Invariance, PTL

(* Only StartGet starts a GET. *)
LEMMA OnlyGetsPoll ==
    ASSUME Inv, [Next]_vars, polls' > polls
    PROVE  StartGet
<1>1. polls' # polls
  BY DEF Inv, TypeOK
<1> QED
  BY <1>1 DEF Next, LoopStep, Validate, CheckStop, FailCallback, OutOfTime, FinishGet, FailGet,
              ReturnOperation, Sleep, Wake, DeliverCancel, Tick, Consult, Serve, Progress,
              RequestStop, Cancel, Done, getVars, outside, loopVars, vars

(* A second GET comes at least initial after the last answer. *)
LEMMA PollsApart ==
    Inv /\ [Next]_vars => (polls' > polls /\ polls > 0 => now - heard >= config.initial)
<1> SUFFICES ASSUME Inv, [Next]_vars, polls' > polls, polls > 0
             PROVE  now - heard >= config.initial
  OBVIOUS
<1>1. StartGet
  BY OnlyGetsPoll
<1>2. Running /\ deadline \in Nat /\ now < deadline
  BY <1>1 DEF StartGet, RemainingTimeout, Inv, TypeOK, LoopInv, Running
<1> QED
  BY <1>1, <1>2, ConfigFacts DEF StartGet, Inv, TypeOK, ClockInv, Answered, Asking

(* A stop request made during the last sleep, or before it, lets no        *)
(* further GET start.                                                      *)
THEOREM StopsPolling == Spec => StopEndsPolling
<1>1. ASSUME Inv, [Next]_vars, polls' > polls, stop, polls > 0
      PROVE  stopAt >= heard + config.initial
  <2>1. StartGet
    BY <1>1, OnlyGetsPoll
  <2>2. pc = "budget" /\ Running /\ deadline \in Nat /\ now < deadline
    BY <1>1, <2>1, TimingAssumption DEF StartGet, RemainingTimeout, Inv, TypeOK, LoopInv, Running
  <2>3. stopAt >= asked
    BY <1>1, <2>2 DEF Inv, StopInv
  <2>4. asked >= heard + config.initial /\ heard \in Nat /\ asked \in Nat
    BY <1>1, <2>2 DEF Inv, TypeOK, ClockInv, Answered, Asking
  <2> QED
    BY <1>1, <2>3, <2>4, ConfigFacts DEF Inv, TypeOK, StopInv, Time
<1>2. Inv /\ [Next]_vars =>
        [polls' > polls /\ stop /\ polls > 0 => stopAt >= heard + config.initial]_vars
  BY <1>1
<1> QED
  BY <1>2, Invariance, PTL DEF Spec, StopEndsPolling

-----------------------------------------------------------------------------
(* The cadence *)

(* What the powers of two are: 2^n is the number of sets of n numbers, and *)
(* every one of these goes with and without the next number.               *)
LEMMA PowersOfTwo ==
    ASSUME NEW n \in Nat
    PROVE  2^n \in Nat /\ 2^(n + 1) = 2 * 2^n
<1> DEFINE S == 1 .. n
           Without == SUBSET S
           With    == {A \cup {n + 1} : A \in Without}
           f == [A \in Without |-> A \cup {n + 1}]
<1>1. /\ IsFiniteSet(S) /\ Cardinality(S) = n
      /\ IsFiniteSet(1 .. n + 1) /\ Cardinality(1 .. n + 1) = n + 1
  BY FS_Interval
<1>2. /\ IsFiniteSet(Without) /\ Cardinality(Without) = 2^n
      /\ Cardinality(SUBSET (1 .. n + 1)) = 2^(n + 1)
  BY <1>1, FS_SUBSET
<1>3. n + 1 \notin S /\ 1 .. n + 1 = S \cup {n + 1}
  OBVIOUS
<1>4. SUBSET (1 .. n + 1) = Without \cup With
  <2>1. ASSUME NEW A \in SUBSET (S \cup {n + 1}) PROVE A \in Without \cup With
    <3>1. CASE n + 1 \in A
      <4>1. A \ {n + 1} \in Without /\ A = (A \ {n + 1}) \cup {n + 1}
        BY <3>1
      <4> QED
        BY <4>1
    <3>2. CASE n + 1 \notin A
      BY <3>2
    <3> QED
      BY <3>1, <3>2
  <2>2. Without \cup With \subseteq SUBSET (S \cup {n + 1})
    OBVIOUS
  <2> QED
    BY <1>3, <2>1, <2>2
<1>5. Without \cap With = {}
  BY <1>3
<1>6. f \in Bijection(Without, With)
  <2>1. f \in [Without -> With] /\ \A B \in With : \E A \in Without : f[A] = B
    OBVIOUS
  <2>2. ASSUME NEW A \in Without, NEW B \in Without, f[A] = f[B] PROVE A = B
    <3>1. n + 1 \notin A /\ n + 1 \notin B
      BY <1>3
    <3>2. A \cup {n + 1} = B \cup {n + 1}
      BY <2>2
    <3> QED
      BY <3>1, <3>2
  <2> HIDE DEF f
  <2> QED
    BY <2>1, <2>2 DEF Bijection, Injection, Surjection, IsInjective
<1>7. IsFiniteSet(With) /\ Cardinality(With) = 2^n
  <2>1. ExistsBijection(Without, With)
    BY <1>6 DEF ExistsBijection
  <2> HIDE DEF Without, With
  <2> QED
    BY <1>2, <2>1, FS_Bijection
<1>8. 2^n \in Nat
  BY <1>2, FS_CardinalityType
<1>9. Cardinality(Without \cup With) = 2^n + 2^n - Cardinality({})
  <2> HIDE DEF Without, With
  <2> QED
    BY <1>2, <1>5, <1>7, FS_Union
<1>10. 2^(n + 1) = 2^n + 2^n - 0
  BY <1>2, <1>4, <1>9, FS_EmptySet
<1> QED
  BY <1>8, <1>10

(* While a poll is under way the interval is the wait that follows it, and *)
(* after this wait the one that follows the next poll.                     *)
CadenceInv ==
    /\ pc \in {"get", "answering", "judge", "sleep"} => interval = Cadence(polls)
    /\ Asking => interval = Cadence(polls + 1)
    /\ Asking /\ polls > 0 => asked >= deadline \/ asked >= heard + Cadence(polls)

(* One wait is twice the wait before it, up to the longest. *)
LEMMA CadenceDoubles ==
    ASSUME Inv, Running, NEW k \in Nat
    PROVE  /\ Cadence(1) = config.initial
           /\ Cadence(k + 1) \in Nat
           /\ Cadence(k + 2) = NextPollInterval(Cadence(k + 1), config.max)
<1>1. /\ config.initial \in Int /\ config.max \in Int
      /\ config.initial > 0 /\ config.initial <= config.max
  BY ConfigFacts, LoopIsValid DEF Valid
<1>2. 2^k \in Nat /\ 2^(k + 1) = 2 * 2^k
  BY PowersOfTwo
<1>3. (k + 1) - 1 = k /\ (k + 2) - 1 = k + 1 /\ 1 - 1 = 0 /\ 2^0 = 1
  OBVIOUS
<1> DEFINE wait == config.initial * 2^k
<1>4. wait \in Nat /\ config.initial * 2^(k + 1) = 2 * wait
  BY <1>1, <1>2
<1>5. Cadence(k + 1) = Shorter(wait, config.max)
  BY <1>3 DEF Cadence
<1>6. Cadence(k + 2) = Shorter(2 * wait, config.max)
  BY <1>3, <1>4 DEF Cadence
<1>7. Cadence(1) = Shorter(config.initial * 1, config.max)
  BY <1>3 DEF Cadence
<1> HIDE DEF wait
<1>8. Cadence(1) = config.initial
  BY <1>1, <1>7 DEF Shorter
<1>9. Shorter(2 * wait, config.max) = NextPollInterval(Shorter(wait, config.max), config.max)
  BY <1>1, <1>4 DEF Shorter, NextPollInterval
<1>10. Shorter(wait, config.max) \in Nat
  BY <1>1, <1>4 DEF Shorter
<1> QED
  BY <1>5, <1>6, <1>8, <1>9, <1>10

(* A step of the loop takes the interval to the next wait of the cadence.  *)
LEMMA StepCadence == Inv /\ CadenceInv /\ [Next]_vars => CadenceInv'
<1> SUFFICES ASSUME Inv, CadenceInv, [Next]_vars PROVE CadenceInv'
  OBVIOUS
<1>1. ASSUME UNCHANGED <<config, polls>>
      PROVE  \A k \in {polls, polls + 1} : Cadence(k)' = Cadence(k)
  BY <1>1 DEF Cadence
<1>2. now \in Nat /\ polls \in Nat /\ config.initial \in Int
  BY ConfigFacts DEF Inv, TypeOK
<1>3. CASE Validate
  <2>1. CASE Valid(config)
    <3>1. /\ pc' = "check" /\ interval' = config.initial /\ polls = 0 /\ config' = config
          /\ polls' = polls
      BY <1>3, <2>1 DEF Validate, Finish, Inv, LoopInv, getVars
    <3>2. Cadence(1)' = config.initial
      <4>1. Cadence(1) = Shorter(config.initial * 2^(1 - 1), config.max)
        BY DEF Cadence
      <4>2. 1 - 1 = 0 /\ 2^0 = 1 /\ config.max \in Int
        BY ConfigFacts
      <4>3. config.initial * 1 = config.initial /\ config.initial <= config.max
        BY <1>2, <2>1, <4>2 DEF Valid
      <4>4. Cadence(1) = config.initial
        BY <1>2, <4>1, <4>2, <4>3 DEF Shorter
      <4> QED
        BY <3>1, <4>4 DEF Cadence
    <3> QED
      BY <3>1, <3>2 DEF CadenceInv, Asking
  <2>2. CASE ~Valid(config)
    BY <1>3, <2>2 DEF Validate, Finish, CadenceInv, Asking
  <2> QED
    BY <2>1, <2>2
<1>4. CASE FailCallback \/ OutOfTime \/ FailGet \/ ReturnOperation \/ Cancel \/ DeliverCancel
  BY <1>4 DEF FailCallback, OutOfTime, FailGet, ReturnOperation, Cancel, DeliverCancel, Finish,
              CadenceInv, Asking
<1>5. CASE CheckStop
  BY <1>5 DEF CheckStop, Finish, CadenceInv, Asking, Cadence, getVars, askVars
<1>6. CASE StartGet
  BY <1>6 DEF StartGet, CadenceInv, Asking, Cadence
<1>7. CASE FinishGet \/ Sleep \/ Consult \/ Serve
  BY <1>7 DEF FinishGet, Sleep, Consult, Serve, CadenceInv, Asking, Cadence, getVars, askVars
<1>8. CASE Wake
  <2>1. /\ pc = "sleep" /\ now >= wakeAt /\ pc' = "check"
        /\ interval' = NextPollInterval(interval, config.max)
        /\ asked' = now /\ UNCHANGED <<config, now, deadline, polls, heard>>
    BY <1>8 DEF Wake, getVars, outside
  <2>2. interval = Cadence(polls) /\ Running
    BY <2>1 DEF CadenceInv, Asking, Running
  <2>3. /\ polls > 0 /\ heard \in Nat /\ deadline \in Nat /\ interval \in Nat
        /\ wakeAt = heard + Shorter(interval, deadline - heard)
    BY <2>1, <2>2 DEF Inv, TypeOK, LoopInv, ClockInv, Answered
  <2>4. now >= deadline \/ now >= heard + interval
    BY <1>2, <2>1, <2>3 DEF Shorter
  <2>5. Cadence(polls + 1) = NextPollInterval(Cadence(polls), config.max)
    <3>1. polls - 1 \in Nat /\ (polls - 1) + 1 = polls /\ (polls - 1) + 2 = polls + 1
      BY <1>2, <2>3
    <3>2. Cadence((polls - 1) + 2) = NextPollInterval(Cadence((polls - 1) + 1), config.max)
      BY <2>2, <3>1, CadenceDoubles
    <3> QED
      BY <3>1, <3>2
  <2> QED
    BY <1>1, <2>1, <2>2, <2>4, <2>5 DEF CadenceInv, Asking
<1>9. CASE Tick
  <2>1. UNCHANGED <<pc, config, deadline, interval, polls, heard, asked>>
    BY <1>9 DEF Tick, loopVars, getVars, askVars
  <2> QED
    BY <2>1 DEF CadenceInv, Asking, Cadence
<1>10. CASE Progress \/ RequestStop \/ UNCHANGED vars
  BY <1>10 DEF Progress, RequestStop, loopVars, vars, getVars, askVars, CadenceInv, Asking, Cadence
<1> QED
  BY <1>3, <1>4, <1>5, <1>6, <1>7, <1>8, <1>9, <1>10 DEF Next, LoopStep, Done

LEMMA PollsInCadence ==
    Inv /\ CadenceInv /\ [Next]_vars =>
       (polls' > polls /\ polls > 0 => now - heard >= Cadence(polls))
<1> SUFFICES ASSUME Inv, CadenceInv, [Next]_vars, polls' > polls, polls > 0
             PROVE  now - heard >= Cadence(polls)
  OBVIOUS
<1>1. StartGet
  BY OnlyGetsPoll
<1>2. /\ pc = "budget" /\ Running /\ deadline \in Nat /\ now < deadline
      /\ now \in Nat /\ heard \in Nat /\ polls - 1 \in Nat /\ (polls - 1) + 1 = polls
  BY <1>1, TimingAssumption
     DEF StartGet, RemainingTimeout, Inv, TypeOK, LoopInv, Running, ClockInv, Answered, Asking
<1>3. now >= heard + Cadence(polls)
  <2>1. Asking /\ asked <= now /\ asked \in Nat
    BY <1>2 DEF Asking, Inv, ClockInv
  <2>2. asked >= heard + Cadence(polls)
    BY <1>2, <2>1 DEF CadenceInv
  <2>3. Cadence((polls - 1) + 1) \in Nat
    BY <1>2, CadenceDoubles
  <2> QED
    BY <1>2, <2>1, <2>2, <2>3
<1>4. Cadence((polls - 1) + 1) \in Nat
  BY <1>2, CadenceDoubles
<1> QED
  BY <1>2, <1>3, <1>4

(* The k-th wait of a call is at least initial_interval * 2^(k-1), capped  *)
(* at max_interval, for every configuration and however long the call      *)
(* goes on: the documented back-off of polling.                            *)
THEOREM KeepsTheCadence == Spec => PollCadence
<1>1. Init => CadenceInv
  BY DEF Init, CadenceInv, Asking
<1>2. Inv /\ CadenceInv /\ [Next]_vars =>
         [polls' > polls /\ polls > 0 => now - heard >= Cadence(polls)]_vars
  BY PollsInCadence
<1> QED
  BY <1>1, <1>2, StepCadence, Invariance, PTL DEF Spec, PollCadence
-----------------------------------------------------------------------------
(* A cancelled task sends no further GET, and its call ends with the       *)
(* cancellation and nothing else.                                          *)
THEOREM CancelsAtOnce == Spec => CancelEndsTheCall
<1>1. ASSUME Inv, [Next]_vars, cancelled
      PROVE  polls' = polls /\ outcome' \in {"pending", "Cancelled"}
  <2>1. \/ pc = "cancelling" /\ outcome = "pending"
        \/ pc = "done" /\ outcome = "Cancelled"
    BY <1>1 DEF Inv, TypeOK, LoopInv, CancelInv
  <2> QED
    BY <1>1, <2>1
       DEF Next, LoopStep, Validate, CheckStop, FailCallback, OutOfTime, StartGet, FinishGet,
           FailGet, ReturnOperation, Sleep, Wake, DeliverCancel, Tick, Consult, Serve, Progress,
           RequestStop, Cancel, Done, Finish, getVars, outside, loopVars, vars
<1>2. Inv /\ [Next]_vars =>
         [cancelled => polls' = polls /\ outcome' \in {"pending", "Cancelled"}]_vars
  BY <1>1
<1> QED
  BY <1>2, Invariance, PTL DEF Spec, CancelEndsTheCall
===============================================================================
