----------------------------- MODULE MCAsyncClient -----------------------------
(* An instance of AsyncClient for TLC: a client that owns its httpx client,  *)
(* with a task that repeats a keyed mutation, and two clients that wrap one  *)
(* httpx client, one of them with a task that makes a keyless mutation.      *)
EXTENDS AsyncClient

CONSTANTS t1, t2, c1, c2, c3, h1, h2

MCClientOf == [t \in Tasks |-> IF t = t1 THEN c1 ELSE c2]
MCHttpOf   == [c \in Clients |-> IF c = c1 THEN h1 ELSE h2]
MCOwned    == {c1}
MCMethod   == [t \in Tasks |-> "POST"]
MCHasKey   == [t \in Tasks |-> t = t1]
================================================================================
