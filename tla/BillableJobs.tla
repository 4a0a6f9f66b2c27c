----------------------------- MODULE BillableJobs -----------------------------
(***************************************************************************)
(* What the run helpers promise together, seen from outside: a job is      *)
(* started, and billed, at most once, however many callers ask for it and  *)
(* however often; every caller that is served is in the end told how the   *)
(* job ended, or that it is refused, and a refused job is never started.   *)
(***************************************************************************)
CONSTANTS Callers, Jobs, JobOf, Endings, Served

VARIABLES
    work,   \* what has become of each job
    told    \* what each caller knows of its job

vars == <<work, told>>

Init ==
    /\ work = [j \in Jobs |-> "none"]
    /\ told = [c \in Callers |-> "nothing"]

Start(j) ==
    /\ work[j] = "none"
    /\ \A c \in Callers : JobOf[c] = j => told[c] # "refused"
    /\ work' = [work EXCEPT ![j] = "started"]
    /\ UNCHANGED told

Finish(j) ==
    /\ work[j] = "started"
    /\ \E e \in Endings : work' = [work EXCEPT ![j] = e]
    /\ UNCHANGED told

Tell(c) ==
    /\ told[c] = "nothing"
    /\ work[JobOf[c]] \in Endings
    /\ told' = [told EXCEPT ![c] = work[JobOf[c]]]
    /\ UNCHANGED work

Refuse(c) ==
    /\ told[c] = "nothing"
    /\ work[JobOf[c]] = "none"
    /\ told' = [told EXCEPT ![c] = "refused"]
    /\ UNCHANGED work

Next == (\E j \in Jobs : Start(j) \/ Finish(j)) \/ (\E c \in Callers : Tell(c) \/ Refuse(c))

Spec == Init /\ [][Next]_vars /\ \A c \in Served : <>(told[c] # "nothing")
==============================================================================
