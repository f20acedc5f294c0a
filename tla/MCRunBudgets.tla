----------------------------- MODULE MCRunBudgets -----------------------------
(* Instances of RunBudgets for TLC. *)
EXTENDS RunBudgets, TLC

CONSTANTS p1, p2

Caps == [k \in Metered |-> 1]
OnePermit == [q \in Pool |-> 1]
Transport == [q \in Pool |-> IF q = "enrich" THEN 0 ELSE 1]
Steps == [s \in StepName |-> IF s = "research" THEN 1 ELSE 0]
==============================================================================
