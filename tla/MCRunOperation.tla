---------------------------- MODULE MCRunOperation ----------------------------
(* Instances of RunOperation for TLC.                                        *)
EXTENDS RunOperation

CONSTANTS w1, w2, w3, j1, j2, k1, k2

(* Two callers about one job, and a third whose key collides with theirs.    *)
MCJobOf == [c \in Callers |-> IF c = w3 THEN j2 ELSE j1]
MCSameKey == [j \in Jobs |-> k1]

MCChatAndWizard == [c \in Callers |-> IF c = w3 THEN "input_wizard" ELSE "chat"]
===============================================================================
