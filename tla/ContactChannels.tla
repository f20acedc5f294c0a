-------------------------- MODULE ContactChannels --------------------------
(***************************************************************************)
(* What is known of a prospect's contact channels, and who may never be     *)
(* written to: the contact_enrichment step of every prospect, with its      *)
(* timeout and retries, the three transactions that record a provider's     *)
(* answer in contact_channels, the table of globally suppressed addresses   *)
(* that all prospects of all runs share, and the review that reads what the *)
(* step hands on in memory.                                                 *)
(*                                                                          *)
(* A channel without a row and a row without a state behave alike, and are  *)
(* one value here (discovery "NONE").                                       *)
(***************************************************************************)
EXTENDS Naturals

CONSTANTS
    Prospect,
    Address,        \* canonical e-mail identities
    Nil,            \* no identifier
    Observation,    \* the observations the provider may report
    MaxRetries      \* contact_enrichment_max_retries

Profile == {"accepted", "rejected", "malformed"}
PersonMatch == {"PERSON_UNKNOWN", "PERSON_MATCH", "PERSON_CONFLICT"}
CompanyMatch == {"COMPANY_UNKNOWN", "COMPANY_MATCH", "COMPANY_CONFLICT"}

\* What one successful call reports: an address and whether its status maps to
\* VERIFIED; a LinkedIn URL, by how the grammar of its origin judges it, and how
\* the asserted name and company compare with the grounded ones.
ObservationType ==
    [address : Address \union {Nil}, verified : BOOLEAN,
     profile : Profile \union {Nil}, person : PersonMatch, company : CompanyMatch]

ASSUME NilAssumption == Nil \notin Address /\ Nil \notin Profile
ASSUME ObservationAssumption == Observation \subseteq ObservationType
ASSUME RetryAssumption == MaxRetries \in Nat

VARIABLES
    pc,             \* where the step of a prospect is
    attempt,        \* the attempt it is in
    observation,    \* the observation a successful call returned
    error,          \* the exception the call raised: may the step retry it?
    sawBarred,      \* did the restriction's transaction find its address in barred?
    email,          \* the EMAIL row of contact_channels
    linkedin,       \* the LINKEDIN row
    suppressed,     \* the prospects whose EMAIL row has send_suppressed_at
    barred,         \* email_suppressions: an address is its primary key
    context,        \* ctx.contact_channels: what the later steps read
    verdict,        \* the review verdict
    known,          \* history: the last committed observation with an address, with a URL
    restrictions    \* history: restrictions that took effect: prospect, address on record

stepVars == <<pc, attempt, observation, error, sawBarred>>
rowVars == <<email, linkedin, suppressed, barred>>
history == <<known, restrictions>>
vars == <<stepVars, rowVars, context, verdict, history>>

-----------------------------------------------------------------------------
(* Deriving channel states from one observation.                           *)

Blank == [address |-> Nil, verified |-> FALSE, profile |-> Nil,
          person |-> "PERSON_UNKNOWN", company |-> "COMPANY_UNKNOWN"]

\* A contradiction on either axis wins; only two matches are strong.
CombineIdentity(person, company) ==
    CASE person = "PERSON_CONFLICT" \/ company = "COMPANY_CONFLICT" -> "MISMATCH"
      [] person = "PERSON_MATCH" /\ company = "COMPANY_MATCH" -> "STRONG_MATCH"
      [] person = "PERSON_UNKNOWN" /\ company = "COMPANY_UNKNOWN" -> "UNKNOWN"
      [] OTHER -> "WEAK_MATCH"

DeriveEmail(o) ==
    [identifier |-> o.address,
     discovery |-> IF o.address = Nil THEN "NOT_FOUND" ELSE "FOUND",
     verification |-> IF o.address # Nil /\ o.verified THEN "VERIFIED" ELSE "UNVERIFIED"]

\* A rejected URL is stored, but never resolves the channel.
DeriveLinkedIn(o) ==
    [identifier |-> o.profile,
     discovery |-> IF o.profile = "accepted" THEN "RESOLVED" ELSE "NOT_FOUND",
     match |-> IF o.profile = "accepted" THEN CombineIdentity(o.person, o.company) ELSE "UNKNOWN"]

NoEmail == [identifier |-> Nil, discovery |-> "NONE", verification |-> "NONE"]
NoLinkedIn == [identifier |-> Nil, discovery |-> "NONE", match |-> "NONE"]

EmailType ==
    [identifier : Address \union {Nil},
     discovery : {"NONE", "PROVIDER_ERROR", "NOT_FOUND", "FOUND"},
     verification : {"NONE", "UNVERIFIED", "VERIFIED"}]
LinkedInType ==
    [identifier : Profile \union {Nil},
     discovery : {"NONE", "PROVIDER_ERROR", "NOT_FOUND", "RESOLVED"},
     match : {"NONE", "UNKNOWN", "WEAK_MATCH", "STRONG_MATCH", "MISMATCH"}]

\* A successful call replaces the row, unless it found nothing and the row has
\* an identifier: the last known good survives.
AfterSuccess(row, derived) ==
    IF derived.identifier = Nil /\ row.identifier # Nil THEN row ELSE derived

\* Mutant: a failed call always takes the state to PROVIDER_ERROR.
AfterFailureAlways(row) == [row EXCEPT !.discovery = "PROVIDER_ERROR"]

\* A failed call leaves a provider-backed state alone.
AfterFailure(row) ==
    IF row.discovery = "NONE"
      THEN [row EXCEPT !.discovery = "PROVIDER_ERROR", !.identifier = Nil]
      ELSE row

-----------------------------------------------------------------------------
(* The step: attempts, timeouts and retries.                               *)

Init ==
    /\ pc = [p \in Prospect |-> "call"]
    /\ attempt = [p \in Prospect |-> 1]
    /\ observation = [p \in Prospect |-> Blank]
    /\ error = [p \in Prospect |-> "NONE"]
    /\ sawBarred = [p \in Prospect |-> FALSE]
    /\ email = [p \in Prospect |-> NoEmail]
    /\ linkedin = [p \in Prospect |-> NoLinkedIn]
    /\ suppressed = {}
    /\ barred = {}
    /\ context = [p \in Prospect |-> [email |-> NoEmail, linkedin |-> NoLinkedIn]]
    /\ verdict = [p \in Prospect |-> "NONE"]
    /\ known = [p \in Prospect |-> [email |-> Blank, linkedin |-> Blank]]
    /\ restrictions = {}

Goto(p, label) == pc' = [pc EXCEPT ![p] = label]

\* The exception reaches Step.execute: one more attempt, or the step degrades
\* and the pipeline goes on without it.
RetryOrDegrade(p, retryable) ==
    IF retryable /\ attempt[p] <= MaxRetries
      THEN Goto(p, "call") /\ attempt' = [attempt EXCEPT ![p] = @ + 1]
      ELSE Goto(p, "review") /\ UNCHANGED attempt

\* No named person, a disqualified prospect, or no provider.
NotAttempted(p) ==
    /\ pc[p] = "call" /\ attempt[p] = 1
    /\ Goto(p, "review")
    /\ UNCHANGED <<attempt, observation, error, sawBarred, rowVars, context, verdict, history>>

\* The provider answers: an observation, a failure, or a legal restriction.
ProviderObserves(p, o) ==
    /\ pc[p] = "call"
    /\ Goto(p, "observed")
    /\ observation' = [observation EXCEPT ![p] = o]
    /\ error' = [error EXCEPT ![p] = "NONE"]
    /\ UNCHANGED <<attempt, sawBarred, rowVars, context, verdict, history>>

ProviderRaises(p, label, kind) ==
    /\ pc[p] = "call"
    /\ Goto(p, label)
    /\ error' = [error EXCEPT ![p] = kind]
    /\ UNCHANGED <<attempt, observation, sawBarred, rowVars, context, verdict, history>>

ProviderFails(p) ==
    \E kind \in {"TRANSIENT", "PERMANENT"} : ProviderRaises(p, "failed", kind)

ProviderRestricts(p) == ProviderRaises(p, "restricted", "PERMANENT")

\* wait_for cancels the attempt at whatever await it is in.  A transaction that
\* was not committed leaves nothing; one that was has outrun the assignment of
\* its result to ctx.contact_channels.
TimeOut(p) ==
    /\ pc[p] \in {"call", "observed", "failed", "restricted", "suppressing", "recorded"}
    /\ RetryOrDegrade(p, TRUE)
    /\ UNCHANGED <<observation, error, sawBarred, rowVars, context, verdict, history>>

\* The transaction raises: a database error, or a URL the second grammar check
\* refuses.  Neither is retried.
RecordRaises(p) ==
    /\ pc[p] \in {"observed", "failed", "restricted", "suppressing"}
    /\ Goto(p, "review")
    /\ UNCHANGED <<attempt, observation, error, sawBarred, rowVars, context, verdict, history>>

\* The transaction's rows reach the context; then the step returns, or raises
\* what the call raised.
Deliver(p) ==
    /\ pc[p] = "recorded"
    /\ context' = [context EXCEPT ![p] = [email |-> email[p], linkedin |-> linkedin[p]]]
    /\ IF error[p] = "NONE"
         THEN Goto(p, "review") /\ UNCHANGED attempt
         ELSE RetryOrDegrade(p, error[p] = "TRANSIENT")
    /\ UNCHANGED <<observation, error, sawBarred, rowVars, verdict, history>>

-----------------------------------------------------------------------------
(* The three transactions.                                                 *)

RecordSuccess(p) ==
    LET o == observation[p] IN
    /\ pc[p] = "observed"
    /\ o.profile # "malformed"
    /\ email' = [email EXCEPT ![p] = AfterSuccess(@, DeriveEmail(o))]
    /\ linkedin' = [linkedin EXCEPT ![p] = AfterSuccess(@, DeriveLinkedIn(o))]
    /\ known' = [known EXCEPT
           ![p].email = IF o.address # Nil THEN o ELSE @,
           ![p].linkedin = IF o.profile # Nil THEN o ELSE @]
    /\ Goto(p, "recorded")
    /\ UNCHANGED <<attempt, observation, error, sawBarred, suppressed, barred, context,
                   verdict, restrictions>>

RecordFailure(p) ==
    /\ pc[p] = "failed"
    /\ email' = [email EXCEPT ![p] = AfterFailure(@)]
    /\ linkedin' = [linkedin EXCEPT ![p] = AfterFailure(@)]
    /\ Goto(p, "recorded")
    /\ UNCHANGED <<attempt, observation, error, sawBarred, suppressed, barred, context,
                   verdict, history>>

\* The transaction of a restriction looks for the address on record in
\* email_suppressions before it decides between an UPDATE and an INSERT.
CheckSuppression(p) ==
    /\ pc[p] = "restricted"
    /\ sawBarred' = [sawBarred EXCEPT ![p] = email[p].identifier \in barred]
    /\ Goto(p, "suppressing")
    /\ UNCHANGED <<attempt, observation, error, rowVars, context, verdict, history>>

\* Another prospect's restriction inserted the row in between.
Collides(p) == ~sawBarred[p] /\ email[p].identifier \in barred

\* The e-mail row is suppressed and otherwise untouched, the LinkedIn row is
\* treated as after any failure, an address on record is barred for everyone.
RecordRestriction(p) ==
    /\ pc[p] = "suppressing"
    /\ ~Collides(p)
    /\ suppressed' = suppressed \union {p}
    /\ linkedin' = [linkedin EXCEPT ![p] = AfterFailure(@)]
    /\ barred' = IF email[p].identifier = Nil THEN barred
                 ELSE barred \union {email[p].identifier}
    /\ restrictions' = restrictions \union {<<p, email[p].identifier>>}
    /\ Goto(p, "recorded")
    /\ UNCHANGED <<attempt, observation, error, sawBarred, email, context, verdict, known>>

\* The INSERT violates the primary key: the whole transaction is rolled back,
\* the suppression of this prospect's own row with it, and nothing retries it.
RestrictionCollides(p) ==
    /\ pc[p] = "suppressing"
    /\ Collides(p)
    /\ restrictions' = restrictions \union {<<p, email[p].identifier>>}
    /\ Goto(p, "review")
    /\ UNCHANGED <<attempt, observation, error, sawBarred, rowVars, context, verdict, known>>

-----------------------------------------------------------------------------
(* What reads it: the review, and the clauses of the action policy.        *)

\* review.py: a LinkedIn identity known to be another person's fails; every
\* other check is about drafts and evidence and may go either way.
ReviewProspect(p, v) ==
    /\ pc[p] = "review"
    /\ v = "PASS" => context[p].linkedin.match # "MISMATCH"
    /\ verdict' = [verdict EXCEPT ![p] = v]
    /\ Goto(p, "done")
    /\ UNCHANGED <<attempt, observation, error, sawBarred, rowVars, context, history>>

\* Mutant: clause 15 looks at the prospect's own row only.
SuppressedLocally(p) == p \in suppressed

\* Clause 15 of the policy: the prospect's own row, or its address anywhere.
Suppressed(p) == p \in suppressed \/ email[p].identifier \in barred

\* Clauses 1, 3, 4, 7 and 15 for a proposal to the address on record.
Sendable(p) ==
    /\ verdict[p] = "PASS"
    /\ email[p].discovery = "FOUND"
    /\ email[p].verification = "VERIFIED"
    /\ email[p].identifier # Nil
    /\ ~Suppressed(p)

Step(p) ==
    \/ NotAttempted(p)
    \/ \E o \in Observation : ProviderObserves(p, o)
    \/ ProviderFails(p) \/ ProviderRestricts(p)
    \/ TimeOut(p) \/ RecordRaises(p) \/ Deliver(p)
    \/ RecordSuccess(p) \/ RecordFailure(p)
    \/ CheckSuppression(p) \/ RecordRestriction(p) \/ RestrictionCollides(p)
    \/ \E v \in {"PASS", "FAIL"} : ReviewProspect(p, v)

Next == \E p \in Prospect : Step(p)

Spec == Init /\ [][Next]_vars

-----------------------------------------------------------------------------
(* Properties.                                                             *)

Calling == {"call", "observed", "failed", "restricted", "suppressing", "recorded"}

\* Every variable has its type, and a step makes at most MaxRetries + 1 attempts.
TypeOK ==
    /\ pc \in [Prospect -> Calling \union {"review", "done"}]
    /\ attempt \in [Prospect -> 1 .. MaxRetries + 1]
    /\ observation \in [Prospect -> ObservationType]
    /\ error \in [Prospect -> {"NONE", "TRANSIENT", "PERMANENT"}]
    /\ sawBarred \in [Prospect -> BOOLEAN]
    /\ email \in [Prospect -> EmailType]
    /\ linkedin \in [Prospect -> LinkedInType]
    /\ suppressed \subseteq Prospect
    /\ barred \subseteq Address
    /\ context \in [Prospect -> [email : EmailType, linkedin : LinkedInType]]
    /\ verdict \in [Prospect -> {"NONE", "PASS", "FAIL"}]
    /\ known \in [Prospect -> [email : ObservationType, linkedin : ObservationType]]
    /\ restrictions \subseteq Prospect \X (Address \union {Nil})

Reflects(row, derived, found) ==
    IF found
      THEN row = derived
      ELSE row.identifier = Nil /\ row.discovery \notin {"FOUND", "RESOLVED"}

\* A row is what the last observation with an identifier says, in all its
\* columns together, whatever failed, empty or restricted calls came after it
\* and wherever an attempt was cut off; without such an observation it has no
\* identifier (contact_enrichment.py:10-34, the last known good).
LastKnownGood ==
    \A p \in Prospect :
        /\ Reflects(email[p], DeriveEmail(known[p].email),
                    known[p].email.address # Nil)
        /\ Reflects(linkedin[p], DeriveLinkedIn(known[p].linkedin),
                    known[p].linkedin.profile # Nil)

\* Once a legal restriction has taken effect, its prospect is never sendable
\* again, and neither is anybody with the address it had on record: whatever
\* later calls observe, and also for the prospect whose own transaction lost
\* the race for the global row (contact_enrichment.py:259-274, :352-382).
RestrictionBars ==
    \A r \in restrictions :
        /\ ~Sendable(r[1])
        /\ \A p \in Prospect : r[2] # Nil /\ email[p].identifier = r[2] => ~Sendable(p)

\* The inductive invariant behind RestrictionBars.
RestrictionHeld ==
    \A r \in restrictions :
        /\ r[2] # Nil => r[2] \in barred
        /\ \/ r[1] \in suppressed
           \/ pc[r[1]] \in {"review", "done"} /\ email[r[1]].identifier = r[2] /\ r[2] # Nil
IInv == TypeOK /\ LastKnownGood /\ RestrictionHeld
=============================================================================
