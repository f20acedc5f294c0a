----------------------------- MODULE MCLiveSend -----------------------------
(* Instances of LiveSend for TLC. *)
EXTENDS LiveSend, TLC

CONSTANTS p1, p2, rcpt1, rcpt2, a, b, c

\* Two proposals for one person: a and b execute the first, c the second.
OneRecipient == [p \in Proposal |-> rcpt1]
TwoAndOne == [r \in Request |-> IF r = c THEN p2 ELSE p1]

\* One request per proposal.
OneEach == [r \in Request |-> IF r = a THEN p1 ELSE p2]
==============================================================================
