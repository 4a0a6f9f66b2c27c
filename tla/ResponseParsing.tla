--------------------------- MODULE ResponseParsing ---------------------------
(***************************************************************************)
(* What the SDK reads from a response besides its body: three readers of   *)
(* Retry-After and of the rate-limit headers (_transport/base.py for the   *)
(* retry loop, errors.py for the exception, rate_limits.py for metadata),  *)
(* and the class of the exception.  A header text is one of the kinds that *)
(* float and parsedate_to_datetime tell apart, with the number or the time *)
(* it stands for in units of time; a negative infinity is a negative       *)
(* number.  What is read is a natural number or one of the values below.   *)
(***************************************************************************)
EXTENDS RetryPolicy

CONSTANT Second   \* units of time in a second

ASSUME SecondAssumption == Second \in Nat \ {0}

Infinite == -2
NaN      == -3

HeaderText ==
    [kind: {"absent", "empty", "number", "infinite", "nan", "date", "other"}, value: Int]

AtLeastZero(n) == IF n > 0 THEN n ELSE 0

-----------------------------------------------------------------------------
(* Readers. *)

(* The retry loop reads numbers and dates; max(0.0, nan) is 0.0.           *)
ParseRetryAfter(header, now) ==
    CASE header.kind = "number"   -> AtLeastZero(header.value)
      [] header.kind = "infinite" -> Infinite
      [] header.kind = "nan"      -> 0
      [] header.kind = "date"     -> AtLeastZero(header.value - now)
      [] OTHER                    -> NoHeader

(* The same as RetryDelay takes it, which compares it with the cap only.   *)
RetryAfterHeader(header, now, cap) ==
    LET parsed == ParseRetryAfter(header, now)
    IN  IF parsed = Infinite THEN cap ELSE parsed

(* errors.py and rate_limits.py read numbers only, and no negative ones;   *)
(* nan < 0 is false.                                                       *)
ParseNonNegativeFloat(header) ==
    CASE header.kind = "number" /\ header.value >= 0 -> header.value
      [] header.kind = "infinite"                    -> Infinite
      [] header.kind = "nan"                         -> NaN
      [] OTHER                                       -> NoHeader

ParseNonNegativeInt(header) ==
    LET parsed == ParseNonNegativeFloat(header)
    IN  IF parsed \in Nat /\ parsed % Second = 0 THEN parsed \div Second ELSE NoHeader

(* normalized.get(standard) or normalized.get(legacy)                      *)
Preferred(standard, legacy) ==
    IF standard.kind \notin {"absent", "empty"} THEN standard ELSE legacy

(* headers: from lower-case names to texts.                                *)
ParseRateLimitHeaders(headers) ==
    [limit       |-> ParseNonNegativeInt(
                         Preferred(headers["ratelimit-limit"], headers["x-ratelimit-limit"])),
     remaining   |-> ParseNonNegativeInt(
                         Preferred(headers["ratelimit-remaining"], headers["x-ratelimit-remaining"])),
     reset_after |-> ParseNonNegativeFloat(
                         Preferred(headers["ratelimit-reset"], headers["x-ratelimit-reset"])),
     retry_after |-> ParseNonNegativeFloat(headers["retry-after"])]

-----------------------------------------------------------------------------
(* The exception for a public error envelope. *)

ErrorTypes ==
    [unauthorized            |-> "ZentureAuthenticationError",
     forbidden               |-> "ZenturePermissionError",
     validation_failed       |-> "ZentureValidationError",
     missing_idempotency_key |-> "ZentureMissingIdempotencyKeyError",
     idempotency_conflict    |-> "ZentureIdempotencyConflictError",
     insufficient_credits    |-> "ZentureInsufficientCreditsError",
     rate_limited            |-> "ZentureRateLimitError",
     capacity_unavailable    |-> "ZentureCapacityError",
     dependency_unavailable  |-> "ZentureDependencyUnavailableError",
     internal_error          |-> "ZentureInternalServerError",
     operation_expired       |-> "ZentureOperationExpiredError"]

(* The status does not choose the class: a 429 with a new code is a plain  *)
(* ZentureAPIError.                                                        *)
ErrorFromResponse(status, code, retryAfter) ==
    [type        |-> IF code \in DOMAIN ErrorTypes THEN ErrorTypes[code] ELSE "ZentureAPIError",
     error_code  |-> code,
     status_code |-> status,
     retry_after |-> ParseNonNegativeFloat(retryAfter)]
==============================================================================
