---------------------------- MODULE MCActionGate ----------------------------
(* Instances of ActionGate for TLC. *)
EXTENDS ActionGate, TLC

CONSTANTS d, e, a, g, h, q, r, x, y, f1, f2

\* Every draft goes to one address.
OneAddress == [i \in Draft |-> a]

\* Calls of a kind, OAuth flows and accounts are interchangeable.
Interchangeable ==
    Permutations(Propose) \union Permutations(Execute) \union Permutations(Flow)
        \union Permutations(Account)
=============================================================================
