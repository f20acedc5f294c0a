------------------------ MODULE MCContactChannels ------------------------
(* Instances of ContactChannels for TLC. *)
EXTENDS ContactChannels

CONSTANTS p, q, a, b

\* One mailbox for everybody, verified or not, or another, unverified one; a
\* LinkedIn profile that matches or belongs to another company; a rejected and a
\* malformed LinkedIn URL; nothing found.
SharedMailbox ==
    {[Blank EXCEPT !.address = a, !.verified = TRUE],
     [address |-> a, verified |-> FALSE, profile |-> "accepted",
      person |-> "PERSON_MATCH", company |-> "COMPANY_MATCH"],
     [Blank EXCEPT !.profile = "accepted", !.company = "COMPANY_CONFLICT"],
     [Blank EXCEPT !.address = b, !.profile = "rejected"],
     [Blank EXCEPT !.profile = "malformed"],
     Blank}
=============================================================================
