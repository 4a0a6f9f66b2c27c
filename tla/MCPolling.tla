------------------------------ MODULE MCPolling ------------------------------
(* Instances of Polling for TLC.                                            *)
EXTENDS Polling

Ask(timeout, initial, max) == [timeout |-> timeout, initial |-> initial, max |-> max]

(* Budgets that end inside the doubling phase, inside the capped phase and  *)
(* before the first sleep is over, an interval that is no power of two, and *)
(* one configuration for each reason PollingConfig rejects.  A budget of 1  *)
(* is as short as one run of the callback.                                  *)
MCConfigs ==
    {Ask(10, 1, 4), Ask(7, 1, 3), Ask(2, 3, 3), Ask(1, 1, 1),
     Ask(0, 1, 4), Ask(5, 0, 4), Ask(5, -1, 4), Ask(5, 3, 2)}
==============================================================================
