---------------------------- MODULE MCRunExecutor ----------------------------
(* Instances of RunExecutor for TLC. *)
EXTENDS RunExecutor, TLC

CONSTANTS p1, p2, p3, k1, k2

\* p3 is p1's company under another name.
Keys == [p \in Prospect |-> IF p = p2 THEN k2 ELSE k1]
Reaches == [p \in Prospect |-> CASE p = p1 -> "both" [] p = p2 -> "nobody" [] p = p3 -> "email"]

\* One retry, of the step that leaves something behind when it fails.
OneRetry ==
    [s \in StepName |-> IF s = "personalize" THEN 1 ELSE 0]
==============================================================================
