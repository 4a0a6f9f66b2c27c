----------------------------- MODULE RetryPolicy -----------------------------
(***************************************************************************)
(* The retry policy of the SDK as pure operators: which failures of a      *)
(* request may be sent again (retries.py) and how long the transport waits *)
(* before it does (_transport/base.py).  An absent or unreadable code or   *)
(* header is a value of its own, NoCode and NoHeader.  Durations are whole *)
(* numbers of one unit of time.                                            *)
(***************************************************************************)
EXTENDS Integers

NoCode   == "no_code"   \* extract_error_code returned None
NoHeader == -1          \* no Retry-After, or one that cannot be read

SafeMethods == {"GET", "HEAD", "OPTIONS"}

RetryableStatus == {429, 500, 502, 503, 504}

RetryableCodes ==
    {"rate_limited", "dependency_unavailable", "capacity_unavailable", "internal_error"}

NonRetryableCodes ==
    {"unauthorized", "forbidden", "validation_failed", "missing_idempotency_key",
     "idempotency_conflict", "operation_expired"}

(* A request may be repeated without asking the server to do it twice. *)
Repeatable(method, hasKey) == method \in SafeMethods \/ hasKey

(* The failure is one the policy considers transient. *)
Transient(status, code) ==
    /\ code \notin NonRetryableCodes
    /\ status \in RetryableStatus \/ code \in RetryableCodes

(* Mutated forms: the key is not asked for; the budget is off by one,      *)
(* either way.                                                             *)
ShouldRetryUnkeyed(method, status, code, hasKey, attempt, maxAttempts) ==
    attempt < maxAttempts /\ Transient(status, code)

ShouldRetryOnceMore(method, status, code, hasKey, attempt, maxAttempts) ==
    /\ attempt <= maxAttempts
    /\ Transient(status, code)
    /\ Repeatable(method, hasKey)

ShouldRetryOnceLess(method, status, code, hasKey, attempt, maxAttempts) ==
    /\ attempt + 1 < maxAttempts
    /\ Transient(status, code)
    /\ Repeatable(method, hasKey)

ShouldRetry(method, status, code, hasKey, attempt, maxAttempts) ==
    /\ attempt < maxAttempts
    /\ Transient(status, code)
    /\ Repeatable(method, hasKey)

AtMost(d, cap) == IF d > cap THEN cap ELSE d

Backoff(attempt, initial, cap) ==
    IF initial <= 0 \/ cap <= 0 THEN 0 ELSE AtMost(initial * 2^(attempt - 1), cap)

(* Mutated forms: Retry-After escapes the cap; Retry-After is not read.    *)
RetryDelayUncapped(retryAfter, attempt, initial, cap) ==
    IF retryAfter # NoHeader THEN retryAfter ELSE Backoff(attempt, initial, cap)

RetryDelayDeaf(retryAfter, attempt, initial, cap) == Backoff(attempt, initial, cap)

RetryDelay(retryAfter, attempt, initial, cap) ==
    IF retryAfter # NoHeader THEN AtMost(retryAfter, cap)
                             ELSE Backoff(attempt, initial, cap)
==============================================================================
