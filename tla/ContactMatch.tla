----------------------------- MODULE ContactMatch -----------------------------
(***************************************************************************)
(* What one answer of a contact provider says of a prospect: the adapter maps *)
(* the answer to an observation, the domain derives the states of the two       *)
(* channels from it.  A name is a sequence of tokens, a token the sequence of    *)
(* its letters; a profile's address a record of what the grammar looks at.        *)
(*                                                                          *)
(* An answer is what the provider sent: `first' and `last' names, `company' and  *)
(* `domain' (that of the organization at Apollo, the query's own repeated at     *)
(* Hunter), `url', and the `word' its verification is given in, with or without  *)
(* an `address'.                                                              *)
(***************************************************************************)
EXTENDS Integers, Sequences, FiniteSets, SequencesExt

CONSTANTS
    Honorific,  \* tokens that are no part of a name
    Suffix,     \* tokens that end the name of a company and are no part of it
    None,       \* what was not given
    Letter,     \* of which tokens are made
    Contacts    \* who may be grounded, who asked, and what answered

VARIABLE compared  \* the contact that was compared, if any

\* A name not given has no token; one of no letters has the empty token only, which
\* a person's name drops and a company's keeps.
Tokens(name) == IF name = None THEN <<>> ELSE name
\* Where the tokens of a person's name stand.
PersonTokens(name) ==
    {i \in DOMAIN Tokens(name) : Tokens(name)[i] # <<>> /\ Tokens(name)[i] \notin Honorific}
IsFull(name) == \E i, j \in PersonTokens(name) : i # j
GivenName(name) == name[CHOOSE i \in PersonTokens(name) : \A j \in PersonTokens(name) : i <= j]
Surname(name) == name[CHOOSE i \in PersonTokens(name) : \A j \in PersonTokens(name) : j <= i]

IsInitialMatch(a, b) == \/ Len(a) = 1 /\ IsPrefix(a, b)
                        \/ Len(a) # 1 /\ Len(b) = 1 /\ IsPrefix(b, a)

\* What stands between the given name and the surname is not compared.
MatchPerson(a, b) ==
    CASE ~(IsFull(a) /\ IsFull(b)) -> "PERSON_UNKNOWN"
      [] /\ IsFull(a) /\ IsFull(b) /\ Surname(a) = Surname(b)
         /\ GivenName(a) = GivenName(b) \/ IsInitialMatch(GivenName(a), GivenName(b)) -> "PERSON_MATCH"
      [] OTHER -> "PERSON_CONFLICT"

\* The name up to its last token that is no suffix.
StripSuffixes(name) ==
    Restrict(name, {i \in DOMAIN name : \E j \in DOMAIN name : i <= j /\ name[j] \notin Suffix})

MatchNames(a, b) ==
    LET s == StripSuffixes(Tokens(a))
        t == StripSuffixes(Tokens(b))
    IN IF DOMAIN s = {} \/ DOMAIN t = {} THEN "COMPANY_UNKNOWN"
       ELSE IF s = t THEN "COMPANY_MATCH" ELSE "COMPANY_CONFLICT"

\* Domains decide as soon as both are given, names otherwise.
MatchCompany(a, b) ==
    IF a.domain # None /\ b.domain # None
    THEN IF a.domain = b.domain THEN "COMPANY_MATCH" ELSE "COMPANY_CONFLICT"
    ELSE MatchNames(a.company, b.company)

CombineIdentity(person, company) ==
    CASE person = "PERSON_CONFLICT" \/ company = "COMPANY_CONFLICT" -> "MISMATCH"
      [] person = "PERSON_MATCH" /\ company = "COMPANY_MATCH" -> "STRONG_MATCH"
      [] person = "PERSON_MATCH" /\ company = "COMPANY_UNKNOWN" -> "WEAK_MATCH"
      [] person = "PERSON_UNKNOWN" /\ company = "COMPANY_MATCH" -> "WEAK_MATCH"
      [] OTHER -> "UNKNOWN"

\* The grammar of a profile's address, by who observed it: `plain' has no credentials,
\* port or fragment.
IsProfile(url, origin) ==
    IF origin = "DEMO_FIXTURE" THEN url.scheme = "demo"
    ELSE url.scheme = "https" /\ url.plain /\ url.host = "linkedin.com" /\ url.path = "in"

DeriveLinkedin(obs, origin, grounded) ==
    IF obs.url = None \/ ~IsProfile(obs.url, origin) THEN <<"NOT_FOUND", "UNKNOWN">>
    ELSE <<"RESOLVED", CombineIdentity(MatchPerson(grounded.name, obs.name), MatchCompany(grounded, obs))>>

DeriveEmail(obs, statusMap) ==
    IF ~obs.address THEN <<"NOT_FOUND", "UNVERIFIED">>
    ELSE <<"FOUND", IF obs.word \in DOMAIN statusMap THEN statusMap[obs.word] ELSE "UNVERIFIED">>

-----------------------------------------------------------------------------
(* The adapters: what each provider's answer is taken to assert.           *)

HunterWords == [valid |-> "VERIFIED", accept_all |-> "RISKY", unknown |-> "UNVERIFIED"]
ApolloWords == [verified |-> "VERIFIED", extrapolated |-> "RISKY"]
StatusMap(provider) == IF provider = "hunter" THEN HunterWords ELSE ApolloWords

FullName(answer) ==
    IF answer.first = None /\ answer.last = None THEN None
    ELSE Tokens(answer.first) \o Tokens(answer.last)

\* Mutant: the repeated domain is taken for the provider's word.
HunterObservationEchoing(answer) ==
    [name |-> FullName(answer), company |-> answer.company, domain |-> answer.domain,
     url |-> answer.url, word |-> answer.word, address |-> answer.address, matched |-> answer.address]

\* Hunter repeats the domain it was asked about: it asserts none.
HunterObservation(answer) ==
    [name |-> FullName(answer), company |-> answer.company, domain |-> None,
     url |-> answer.url, word |-> answer.word, address |-> answer.address, matched |-> answer.address]

ApolloObservation(answer) ==
    [name |-> FullName(answer), company |-> answer.company, domain |-> answer.domain,
     url |-> answer.url, word |-> answer.word, address |-> answer.address, matched |-> TRUE]

Observe(provider, answer) ==
    IF provider = "hunter" THEN HunterObservation(answer) ELSE ApolloObservation(answer)

\* The states of the two channels of a grounded contact, after an answer.
Channels(provider, grounded, answer) ==
    LET obs == Observe(provider, answer)
    IN [linkedin |-> DeriveLinkedin(obs, "LIVE_PROVIDER", grounded), email |-> DeriveEmail(obs, StatusMap(provider))]

\* A case: who was grounded, who was asked, and what was answered.
Name == Seq(Seq(Letter)) \cup {None}
IsAnswered(case) ==
    /\ {case.grounded.name, case.grounded.company} \subseteq Name
    /\ case.grounded = [name |-> case.grounded.name, company |-> case.grounded.company, domain |-> case.grounded.domain]
    /\ {case.answer.first, case.answer.last, case.answer.company} \subseteq Name
    /\ case.answer = [ first |-> case.answer.first, last |-> case.answer.last, company |-> case.answer.company,
                       domain |-> case.answer.domain, url |-> case.answer.url, word |-> case.answer.word,
                       address |-> case.answer.address ]

ASSUME ContactsAssumption ==
    /\ None \notin Seq(Seq(Letter))
    /\ Honorific \cup Suffix \subseteq Seq(Letter) /\ IsFiniteSet(Honorific) /\ IsFiniteSet(Suffix)
    /\ \A case \in Contacts : IsAnswered(case)

ContactInit == compared = {}
Compare == compared = {} /\ \E case \in Contacts : compared' = {case}
ContactSpec == ContactInit /\ [][Compare]_compared

-----------------------------------------------------------------------------
(* Properties.                                                             *)

\* What the query said is no evidence of the answer: at Hunter, which repeats the
\* domain it was asked about, it changes nothing which domain that was.
Domains == {case.answer.domain : case \in Contacts}
EchoIsNoEvidence(case) ==
    case.provider = "hunter" =>
        \A d \in Domains : Channels("hunter", case.grounded, [case.answer EXCEPT !.domain = d])
                             = Channels("hunter", case.grounded, case.answer)

\* An answer about somebody of another name, or of another company, is never
\* called a match; and nothing is said of a profile whose address was refused.
ContradictionIsMismatch(case) ==
    LET obs == Observe(case.provider, case.answer)
        linkedin == Channels(case.provider, case.grounded, case.answer).linkedin
        named == IsFull(obs.name) /\ IsFull(case.grounded.name)
    IN /\ linkedin[1] = "RESOLVED" /\ named /\ Surname(obs.name) # Surname(case.grounded.name) => linkedin[2] = "MISMATCH"
       /\ linkedin[1] = "RESOLVED" /\ None \notin {obs.domain, case.grounded.domain} /\ obs.domain # case.grounded.domain
            => linkedin[2] = "MISMATCH"
       /\ linkedin[2] = "STRONG_MATCH" => named /\ (obs.company # None \/ obs.domain # None)
       /\ linkedin[1] = "NOT_FOUND" => linkedin[2] = "UNKNOWN"

\* It does not matter which side of a comparison was grounded and which observed,
\* nor what titles and suffixes either name carries.
MatchIsSymmetric(case) ==
    LET obs == Observe(case.provider, case.answer)
        titled(name) == IF name = None THEN None ELSE name \o SetToSeq(Honorific)
        registered(c) == [c EXCEPT !.company = IF @ = None THEN None ELSE @ \o SetToSeq(Suffix)]
    IN /\ MatchPerson(case.grounded.name, obs.name) = MatchPerson(obs.name, case.grounded.name)
       /\ MatchCompany(case.grounded, obs) = MatchCompany(obs, case.grounded)
       /\ MatchPerson(titled(case.grounded.name), obs.name) = MatchPerson(case.grounded.name, obs.name)
       /\ MatchCompany(registered(case.grounded), obs) = MatchCompany(case.grounded, obs)

\* A contact is only ever told apart, or recognised, by what the provider said of
\* it, and the same way round whoever is asked about whom.
MatchIsEvidence ==
    \A case \in compared : EchoIsNoEvidence(case) /\ ContradictionIsMismatch(case) /\ MatchIsSymmetric(case)
=============================================================================
