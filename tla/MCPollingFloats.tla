---------------------------- MODULE MCPollingFloats ----------------------------
(* An instance of PollingFloats for TLC.                                     *)
EXTENDS PollingFloats

Ask(timeout, initial, max) == [timeout |-> timeout, initial |-> initial, max |-> max]

(* Common arguments, and each of them infinite or not a number.              *)
MCConfigs ==
    {Ask(5, 1, 2), Ask(Inf, 1, 2), Ask(5, Inf, Inf), Ask(5, 1, Inf),
     Ask(NaN, 1, 2), Ask(5, NaN, 2), Ask(5, 1, NaN), Ask(0, 1, 2)}
==============================================================================
