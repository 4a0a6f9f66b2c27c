----------------------------- MODULE MCTransport -----------------------------
(* Instances of Transport for TLC: the answers differ in everything the     *)
(* retry loop looks at (status, body, code, Retry-After).                   *)
EXTENDS Transport, ResponseParsing

Now == 7   \* the time at which a Retry-After date is read

Header(kind, value) == [kind |-> kind, value |-> value]
Absent == Header("absent", 0)

Reply(status, body, code, header) ==
    [status |-> status, body |-> body, code |-> code,
     retryAfter |-> RetryAfterHeader(header, Now, MaxBackoff)]

MCSuccesses ==
    {Reply(202, "model", NoCode, Absent),
     Reply(200, "object", NoCode, Absent),
     Reply(200, "text", NoCode, Absent),
     Reply(302, "object", NoCode, Absent)}

(* Error envelopes: codes the policy knows and one it does not, statuses in *)
(* and out of the retryable set, Retry-After absent, unreadable, a number   *)
(* above the cap, a date gone by and one to come, nan.  Below: infinite.    *)
MCEnvelopes ==
    {Reply(422, "envelope", "validation_failed", Absent),
     Reply(402, "envelope", "insufficient_credits", Absent),
     Reply(429, "envelope", "rate_limited", Header("number", 5)),
     Reply(429, "envelope", "rate_limited", Header("date", Now - 1)),
     Reply(503, "envelope", "operation_expired", Absent),
     Reply(503, "envelope", "some_new_code", Header("date", Now + 2)),
     Reply(409, "envelope", "capacity_unavailable", Header("nan", 0)),
     Reply(500, "envelope", "internal_error", Header("other", 0))}

MCOther ==
    {Reply(502, "text", NoCode, Absent),
     Reply(503, "null", NoCode, Absent),
     Reply(500, "array", NoCode, Absent),
     Reply(503, "object", NoCode, Header("infinite", 0)),
     Reply(404, "object", NoCode, Absent)}

MCAnswers == MCSuccesses \cup MCEnvelopes \cup MCOther
==============================================================================
