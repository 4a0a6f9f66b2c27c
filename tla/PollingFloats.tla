----------------------------- MODULE PollingFloats -----------------------------
(***************************************************************************)
(* The wait loop of Polling over all that its three float parameters may   *)
(* hold: whole seconds, infinity, and NaN, with which every comparison is  *)
(* false.  pydantic lets both of them through, and PollingConfig looks for *)
(* what is wrong, not for what is right.  Polling has the interleavings;   *)
(* here only the loop and the time it spends matter, so time is kept as    *)
(* what is left of the budget (deadline - time.monotonic()).               *)
(***************************************************************************)
EXTENDS Integers

CONSTANTS
    Configs,   \* the (timeout, initial_interval, max_interval) a caller may pass, each a Float
    MaxGet,    \* the longest a GET takes
    NaN, Inf   \* two values that are no integers

Float == Int \cup {NaN, Inf}

(* a < b and a <= b *)
Less(a, b) == NaN \notin {a, b} /\ a # Inf /\ (b = Inf \/ a < b)
AtMost(a, b) == Less(a, b) \/ (a = b /\ a # NaN)

(* a - seconds and a * 2.0 *)
Minus(a, seconds) == IF a \in {NaN, Inf} THEN a ELSE a - seconds
Doubled(a) == IF a \in {NaN, Inf} THEN a ELSE 2 * a

(* min(a, b) of Python: b only if it is smaller *)
FirstMin(a, b) == IF Less(b, a) THEN b ELSE a

VARIABLES
    config,     \* the arguments of the call
    pc,         \* where the loop is
    left,       \* deadline - time.monotonic()
    interval,   \* the next poll interval
    outcome     \* how the call ended

vars == <<config, pc, left, interval, outcome>>

(* PollingConfig._validate_intervals raises nothing *)
Accepted(c) ==
    ~ AtMost(c.timeout, 0) /\ ~ AtMost(c.initial, 0) /\ ~ Less(c.max, c.initial)

NextPollInterval(current, max) == IF Less(max, Doubled(current)) THEN max ELSE Doubled(current)

RemainingTimeout == IF AtMost(left, 0) THEN 0 ELSE left

Init ==
    /\ config \in Configs
    /\ pc = "start"
    /\ left = 0 /\ interval = 0
    /\ outcome = "pending"

Finish(result) == pc' = "done" /\ outcome' = result

Validate ==
    /\ pc = "start"
    /\ \/ /\ ~ Accepted(config)
          /\ Finish("ValidationError")
          /\ UNCHANGED <<left, interval>>
       \/ /\ Accepted(config)
          /\ pc' = "budget"
          /\ left' = config.timeout
          /\ interval' = config.initial
          /\ UNCHANGED outcome
    /\ UNCHANGED config

OutOfTime ==
    /\ pc \in {"budget", "judge"}
    /\ AtMost(RemainingTimeout, 0)
    /\ Finish("Timeout")
    /\ UNCHANGED <<config, left, interval>>

(* The GET, and an answer of either kind: the operation need not finish.   *)
Get ==
    /\ pc = "budget" /\ ~ AtMost(RemainingTimeout, 0)
    /\ \E seconds \in 0 .. MaxGet : left' = Minus(left, seconds)
    /\ \/ Finish("returned")
       \/ pc' = "judge" /\ UNCHANGED outcome
    /\ UNCHANGED <<config, interval>>

(* time.sleep(min(interval, remaining)), which refuses NaN and infinity    *)
Sleep ==
    /\ pc = "judge" /\ ~ AtMost(RemainingTimeout, 0)
    /\ LET nap == FirstMin(interval, RemainingTimeout)
       IN  \/ /\ nap \in {NaN, Inf}
              /\ Finish("SleepError")
              /\ UNCHANGED <<left, interval>>
           \/ /\ nap \notin {NaN, Inf}
              /\ pc' = "budget"
              /\ left' = Minus(left, nap)
              /\ interval' = NextPollInterval(interval, config.max)
              /\ UNCHANGED outcome
    /\ UNCHANGED config

Next == Validate \/ OutOfTime \/ Get \/ Sleep \/ (pc = "done" /\ UNCHANGED vars)

(* The loop runs. *)
Spec == Init /\ [][Next]_vars /\ WF_vars(Next)
-----------------------------------------------------------------------------
(* docs/async-operations.md:48: a call that is not told to wait for ever   *)
(* has a total local polling budget, so it ends, whatever the operation    *)
(* does.  A NaN is accepted by polling.py:43-48, and no deadline that is   *)
(* NaN is ever reached.                                                    *)
BudgetEndsTheWait == config.timeout # Inf => <>(pc = "done")
==============================================================================
