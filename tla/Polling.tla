------------------------------- MODULE Polling -------------------------------
(***************************************************************************)
(* One call of OperationsResource.wait: poll an operation until it is      *)
(* terminal, the local time budget is spent, or the caller's stop callback *)
(* says so (_resources/operations.py over polling.py).  AsyncOperations-   *)
(* Resource.wait is the same loop on a task that may be cancelled.         *)
(*                                                                         *)
(* Time is a clock of whole units.  It runs while a GET is under way, for  *)
(* at most MaxGet (the transport's own retries and timeouts included),     *)
(* while the loop sleeps, which may overshoot by MaxOversleep, and from    *)
(* the call of the stop callback to the reading of the clock after it, for *)
(* at most MaxCallback: the callback is the caller's, and its first run    *)
(* comes after the deadline is fixed and before the first GET.             *)
(***************************************************************************)
EXTENDS Integers

CONSTANTS
    Configs,        \* the (timeout, initial_interval, max_interval) a caller may ask for
    MaxGet,         \* the longest a GET takes, from the budget test before it to the one after
    MaxOversleep,   \* the longest a sleep exceeds what was asked for
    MaxCallback,    \* the longest from the call of the stop callback to the budget test after it
    Async,          \* the loop runs as an asyncio task
    Never           \* no time at all

Active == {"queued", "running"}

(* _TERMINAL_STATUSES *)
Terminal == {"succeeded", "failed", "cancelled", "expired"}

Statuses == Active \cup Terminal

Config == [timeout: Int, initial: Int, max: Int]

ASSUME ConfigsAssumption == Configs \subseteq Config

ASSUME TimingAssumption ==
    /\ MaxGet \in Nat
    /\ MaxOversleep \in Nat
    /\ MaxCallback \in Nat
    /\ Async \in BOOLEAN
    /\ Never \notin Int

VARIABLES
    config,      \* the arguments of the call
    pc,          \* where the loop is
    now,         \* time.monotonic()
    deadline,
    interval,    \* the next poll interval
    wakeAt,      \* when the current sleep is over
    seen,        \* the status in the last answer
    outcome,     \* how the call ended
    stop,        \* the caller wants the call to stop
    asked,       \* when the stop callback was last called
    told,        \* what it read: whether the call shall stop
    cancelled,   \* history: the task has been cancelled
    status,      \* the operation's status at the server
    polls,       \* number of GETs started
    started,     \* when the last GET started
    heard,       \* when the last answer arrived
    stopAt,      \* when stop became true
    finishedAt   \* when the operation became terminal

getVars  == <<seen, polls, started, heard>>
askVars  == <<asked, told>>
outside  == <<now, stop, stopAt, status, finishedAt>>
loopVars == <<config, pc, deadline, interval, wakeAt, outcome, cancelled, getVars, askVars>>
vars     == <<config, pc, now, deadline, interval, wakeAt, seen, outcome, stop, asked, told,
              cancelled, status, polls, started, heard, stopAt, finishedAt>>

Time     == Nat \cup {Never}
Outcomes == {"pending", "returned", "Timeout", "Stopped", "ValidationError", "RequestError",
             "CallbackError", "Cancelled"}

TypeOK ==
    /\ config \in Configs
    /\ pc \in {"start", "check", "asking", "budget", "get", "answering", "judge", "sleep",
               "cancelling", "done"}
    /\ now \in Nat
    /\ deadline \in Time
    /\ interval \in Nat
    /\ wakeAt \in Time
    /\ seen \in Statuses
    /\ outcome \in Outcomes
    /\ stop \in BOOLEAN
    /\ asked \in Time
    /\ told \in BOOLEAN
    /\ cancelled \in BOOLEAN
    /\ status \in Statuses
    /\ polls \in Nat
    /\ started \in Time
    /\ heard \in Time
    /\ stopAt \in Time
    /\ finishedAt \in Time

(* Mutated form: a negative interval passes. *)
ValidAnyInterval(c) == c.timeout > 0 /\ c.max >= c.initial

(* PollingConfig._validate_intervals *)
Valid(c) == c.timeout > 0 /\ c.initial > 0 /\ c.max >= c.initial

Init ==
    /\ config \in Configs
    /\ pc = "start"
    /\ now = 0
    /\ deadline = Never /\ wakeAt = Never
    /\ interval = 0
    /\ seen = "queued"
    /\ outcome = "pending"
    /\ stop = FALSE /\ stopAt = Never
    /\ asked = Never /\ told = FALSE
    /\ cancelled = FALSE
    /\ status \in Statuses
    /\ finishedAt = IF status \in Terminal THEN 0 ELSE Never
    /\ polls = 0
    /\ started = Never /\ heard = Never

-----------------------------------------------------------------------------
(* The polling primitives. *)

(* Mutated form: the interval does not grow. *)
SamePollInterval(current, max) == current

NextPollInterval(current, max) == IF 2 * current > max THEN max ELSE 2 * current

(* Mutated form: the remaining time is rounded away from the deadline. *)
RemainingTimeoutHalved == IF deadline - now <= 0 THEN 0 ELSE (deadline - now) \div 2

RemainingTimeout == IF deadline - now <= 0 THEN 0 ELSE deadline - now

Shorter(a, b) == IF a < b THEN a ELSE b

-----------------------------------------------------------------------------
(* The loop. *)

Finish(result) ==
    /\ pc' = "done"
    /\ outcome' = result

Validate ==
    /\ pc = "start"
    /\ \/ /\ Valid(config)
          /\ pc' = "check"
          /\ deadline' = now + config.timeout
          /\ interval' = config.initial
          /\ asked' = now
          /\ UNCHANGED outcome
       \/ /\ ~Valid(config)
          /\ Finish("ValidationError")
          /\ UNCHANGED <<deadline, interval, asked>>
    /\ UNCHANGED <<config, wakeAt, told, cancelled, getVars, outside>>

(* Mutated forms: the callback is heard only before the first GET; a stop  *)
(* request keeps the loop asking.                                          *)
CheckStopOnce ==
    /\ pc = "asking"
    /\ IF told /\ polls = 0 THEN Finish("Stopped") ELSE pc' = "budget" /\ UNCHANGED outcome
    /\ UNCHANGED <<config, deadline, interval, wakeAt, cancelled, askVars, getVars, outside>>

CheckStopSpinning ==
    /\ pc = "asking"
    /\ pc' = IF told THEN "check" ELSE "budget"
    /\ UNCHANGED <<config, deadline, interval, wakeAt, outcome, cancelled, askVars, getVars,
                   outside>>

(* if should_stop_polling(stop): raise ZenturePollingStoppedError          *)
CheckStop ==
    /\ pc = "asking"
    /\ IF told THEN Finish("Stopped") ELSE pc' = "budget" /\ UNCHANGED outcome
    /\ UNCHANGED <<config, deadline, interval, wakeAt, cancelled, askVars, getVars, outside>>

(* What the callback raises leaves the loop as it is. *)
FailCallback ==
    /\ pc \in {"check", "asking"}
    /\ Finish("CallbackError")
    /\ UNCHANGED <<config, deadline, interval, wakeAt, cancelled, askVars, getVars, outside>>

OutOfTime ==
    /\ pc \in {"budget", "judge"}
    /\ pc = "judge" => seen \notin Terminal
    /\ RemainingTimeout <= 0
    /\ Finish("Timeout")
    /\ UNCHANGED <<config, deadline, interval, wakeAt, cancelled, askVars, getVars, outside>>

StartGet ==
    /\ pc = "budget" /\ RemainingTimeout > 0
    /\ pc' = "get"
    /\ polls' = polls + 1
    /\ started' = now
    /\ UNCHANGED <<config, deadline, interval, wakeAt, outcome, cancelled, seen, heard, askVars,
                   outside>>

(* The answer is back. *)
FinishGet ==
    /\ pc = "answering"
    /\ pc' = "judge"
    /\ heard' = now
    /\ UNCHANGED <<config, deadline, interval, wakeAt, outcome, cancelled, seen, polls, started,
                   askVars, outside>>

(* Any error of the GET leaves the loop as it is: typed API errors,        *)
(* transport errors, answers that do not parse.                            *)
FailGet ==
    /\ pc \in {"get", "answering"}
    /\ Finish("RequestError")
    /\ UNCHANGED <<config, deadline, interval, wakeAt, cancelled, askVars, getVars, outside>>

ReturnOperation ==
    /\ pc = "judge" /\ seen \in Terminal
    /\ Finish("returned")
    /\ UNCHANGED <<config, deadline, interval, wakeAt, cancelled, askVars, getVars, outside>>

(* Mutated forms: the sleep ignores the deadline; it ignores the interval. *)
SleepInterval ==
    /\ pc = "judge" /\ seen \notin Terminal /\ RemainingTimeout > 0
    /\ pc' = "sleep"
    /\ wakeAt' = now + interval
    /\ UNCHANGED <<config, deadline, interval, outcome, cancelled, askVars, getVars, outside>>

SleepRemaining ==
    /\ pc = "judge" /\ seen \notin Terminal /\ RemainingTimeout > 0
    /\ pc' = "sleep"
    /\ wakeAt' = now + RemainingTimeout
    /\ UNCHANGED <<config, deadline, interval, outcome, cancelled, askVars, getVars, outside>>

(* sleep_for_polling(min(interval, remaining)) *)
Sleep ==
    /\ pc = "judge" /\ seen \notin Terminal /\ RemainingTimeout > 0
    /\ pc' = "sleep"
    /\ wakeAt' = now + Shorter(interval, RemainingTimeout)
    /\ UNCHANGED <<config, deadline, interval, outcome, cancelled, askVars, getVars, outside>>

(* The interval grows, and the loop calls the callback again.              *)
Wake ==
    /\ pc = "sleep" /\ now >= wakeAt
    /\ pc' = "check"
    /\ interval' = NextPollInterval(interval, config.max)
    /\ asked' = now
    /\ UNCHANGED <<config, deadline, wakeAt, outcome, cancelled, told, getVars, outside>>

(* Mutated form: an except clause around the await takes the cancellation  *)
(* for an error of this poll.                                              *)
SwallowCancel ==
    /\ pc = "cancelling"
    /\ pc' = "check"
    /\ asked' = now
    /\ UNCHANGED <<config, deadline, interval, wakeAt, outcome, cancelled, told, getVars, outside>>

(* asyncio.CancelledError is raised by the await and passes every except   *)
(* clause on its way (errors of the wait loop and of the transport only).  *)
DeliverCancel ==
    /\ pc = "cancelling"
    /\ Finish("Cancelled")
    /\ UNCHANGED <<config, deadline, interval, wakeAt, cancelled, askVars, getVars, outside>>

LoopStep ==
    \/ Validate
    \/ CheckStop
    \/ FailCallback
    \/ OutOfTime
    \/ StartGet
    \/ FinishGet
    \/ FailGet
    \/ ReturnOperation
    \/ Sleep
    \/ Wake
    \/ DeliverCancel

-----------------------------------------------------------------------------
(* The surroundings (external): the clock, the server, the caller.         *)

Tick ==
    /\ \/ pc \in {"check", "asking", "budget"} /\ now < asked + MaxCallback
       \/ pc \in {"get", "answering"} /\ now < started + MaxGet
       \/ pc = "sleep" /\ now < wakeAt + MaxOversleep
    /\ now' = now + 1
    /\ UNCHANGED <<loopVars, stop, status, stopAt, finishedAt>>

(* The callback reads what the caller wants, some time before it returns.  *)
Consult ==
    /\ pc = "check"
    /\ pc' = "asking"
    /\ told' = stop
    /\ UNCHANGED <<config, deadline, interval, wakeAt, outcome, cancelled, asked, getVars, outside>>

(* The server reads the operation's status for the GET under way.          *)
Serve ==
    /\ pc = "get"
    /\ pc' = "answering"
    /\ seen' = status
    /\ UNCHANGED <<config, deadline, interval, wakeAt, outcome, cancelled, polls, started, heard,
                   askVars, outside>>

(* An operation moves on until it is terminal, and then no more.           *)
Progress ==
    /\ status \in Active /\ pc # "done"
    /\ status' \in Statuses \ {"queued"} /\ status' # status
    /\ finishedAt' = IF status' \in Terminal THEN now ELSE Never
    /\ UNCHANGED <<loopVars, now, stop, stopAt>>

RequestStop ==
    /\ ~stop /\ pc # "done"
    /\ stop' = TRUE
    /\ stopAt' = now
    /\ UNCHANGED <<loopVars, now, status, finishedAt>>

(* task.cancel(), while the task awaits the GET or the sleep.              *)
Cancel ==
    /\ Async /\ pc \in {"get", "answering", "sleep"}
    /\ pc' = "cancelling"
    /\ cancelled' = TRUE
    /\ UNCHANGED <<config, deadline, interval, wakeAt, outcome, askVars, getVars, outside>>

-----------------------------------------------------------------------------
Done == pc = "done" /\ UNCHANGED vars

Next ==
    \/ LoopStep
    \/ Tick \/ Consult \/ Serve \/ Progress
    \/ RequestStop \/ Cancel
    \/ Done

(* The loop runs, the clock runs, every GET is served or fails and every   *)
(* run of the callback returns or raises; the operation need not finish    *)
(* and nobody need ask for a stop.                                         *)
Fairness == WF_vars(LoopStep) /\ WF_vars(Tick)

Spec     == Init /\ [][Next]_vars
FairSpec == Spec /\ Fairness
-----------------------------------------------------------------------------
(* Safety. *)

Longer(a, b) == IF a < b THEN b ELSE a

(* From one answer to the next GET passes the wait of the cadence: the     *)
(* k-th is initial_interval * 2^(k-1), capped at max_interval              *)
(* (docs/async-operations.md:57-61).  In particular the last sleep, cut    *)
(* short by the deadline, is never followed by a GET.                      *)
Cadence(k) == Shorter(config.initial * 2^(k - 1), config.max)

PollCadence == [][polls' > polls /\ polls > 0 => now - heard >= Cadence(polls)]_vars

(* A returned operation is terminal, and still what the server holds.      *)
ReturnsFinalStatus == outcome = "returned" => status = seen /\ seen \in Terminal

(* A timeout means that the budget is spent.  It is told without a single  *)
(* GET only if one run of the stop callback can use the budget up, before  *)
(* the first GET (operations.py:69-78); every larger budget is good for a  *)
(* look at the operation at least.                                         *)
TimeoutIsHonest ==
    outcome = "Timeout" => now >= deadline /\ (polls = 0 => config.timeout <= MaxCallback)

(* An operation that was terminal one GET, one max_interval, one late      *)
(* wake-up and one callback before the deadline is not reported as a       *)
(* timeout once it is polled: the deadline costs the caller the news of    *)
(* the last interval at most.                                              *)
NoMissedResult ==
    outcome = "Timeout" /\ polls > 0 /\ finishedAt # Never =>
        finishedAt + MaxGet + config.max + MaxOversleep + MaxCallback >= deadline

(* The call outlives its deadline by one GET, or by one late wake-up and   *)
(* the callback after it, not more.                                        *)
OverrunBounded ==
    deadline # Never => now <= deadline + Longer(MaxGet, MaxOversleep + MaxCallback)

(* A stop request ends the call within one GET, one interval and two runs  *)
(* of the callback: the one that has just missed it, and the next.         *)
StopIsPrompt ==
    stopAt # Never => now <= stopAt + MaxGet + config.max + MaxOversleep + 2 * MaxCallback

(* A request made while the loop sleeps lets no further GET start: only    *)
(* one made after the sleep, past the callback's look, comes too late.     *)
StopEndsPolling ==
    [][polls' > polls /\ stop /\ polls > 0 => stopAt >= heard + config.initial]_vars

(* A cancelled call is over: it sends no further GET, and ends with the    *)
(* cancellation, not with a result or an error of its own.                 *)
CancelEndsTheCall ==
    [][cancelled => polls' = polls /\ outcome' \in {"pending", "Cancelled"}]_vars

(* Liveness: every call ends, even if the operation never does.            *)
Termination == <>(pc = "done")
==============================================================================
