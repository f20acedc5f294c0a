---------------------------- MODULE LiveDiscovery ----------------------------
(***************************************************************************)
(* discover_live: from the answers of a search provider and of a language    *)
(* model to the companies of a run.  Names come from the model, domains from  *)
(* the search only, and both are checked against what the search served.     *)
(*                                                                          *)
(* A hit is [ref, text], text the set of its tokens.  A proposal is [name,    *)
(* tokens, refs].  A candidate is [ref, url], a URL [safe, domain].  A query   *)
(* that failed, timed out or had no budget has no results.                   *)
(***************************************************************************)
EXTENDS Integers, Sequences, FiniteSets, SequencesExt

CONSTANTS
    Answer,         \* what a discovery query may serve: sequences of hits
    Proposal,       \* what the model may propose
    Extraction,     \* its possible answers: sequences of proposals
    Candidate,      \* what a search for a domain may find
    Candidates,     \* its possible results: sequences of candidates
    LabelMatches,   \* the pairs of a domain and a name whose labels match
    MaxPlanQueries, \* cap on the queries for companies
    MaxResults,     \* cap on the results of each
    MaxCompanies,   \* cap on the companies of a run
    MaxResolutions  \* cap on the queries for domains

ASSUME DiscoveryAssumption ==
    /\ Extraction \subseteq Seq(Proposal) /\ \A p \in Proposal : IsFiniteSet(p.tokens)
    /\ Candidates \subseteq Seq(Candidate) /\ \A c \in Candidate : c.url.safe \in BOOLEAN
    /\ MaxCompanies \in Nat /\ MaxResolutions \in Nat

VARIABLES
    phase,      \* "search", "extract", "filter", "resolve" or "done"
    rawHits,    \* what the search served
    proposed,   \* what the model proposed
    valid,      \* the names among it that are supported, once each
    turn,       \* whose turn it is, of those proposed and then of those valid
    lookups,    \* the names a domain was searched for, each with what was served
    resolved,   \* the companies, in the order they were found
    rejections  \* the events that say why a name is none of them

discoveryVars == <<phase, rawHits, proposed, valid, turn, lookups, resolved, rejections>>

LegalSuffix == {"inc", "ltd"}
Aggregator == {"linkedin.com"}
PlanSize == 4

First(s, n) == SubSeq(s, 1, IF n < Len(s) THEN n ELSE Len(s))

DiscoveryInit ==
    /\ phase = "search" /\ rawHits = {} /\ proposed = <<>> /\ valid = <<>> /\ turn = 1
    /\ lookups = <<>> /\ resolved = <<>> /\ rejections = {}

-----------------------------------------------------------------------------
(* Stages A and B: hits, and the names they support.                       *)

\* One query after the other; with no hits at all there is nothing to discover.
RawDiscover ==
    /\ phase = "search"
    /\ \E answers \in [1..(IF MaxPlanQueries < PlanSize THEN MaxPlanQueries ELSE PlanSize) -> Answer] :
           rawHits' = UNION {ToSet(First(answers[q], MaxResults)) : q \in DOMAIN answers}
    /\ phase' = IF rawHits' = {} THEN "done" ELSE "extract"
    /\ UNCHANGED <<proposed, valid, turn, lookups, resolved, rejections>>

Extract ==
    /\ phase = "extract"
    /\ \/ \E answer \in Extraction : proposed' = answer /\ phase' = "filter" /\ UNCHANGED rejections
       \/ /\ rejections' = {<<"none", "discovery_extraction_unavailable">>} /\ phase' = "done"
          /\ UNCHANGED proposed
    /\ UNCHANGED <<rawHits, valid, turn, lookups, resolved>>

\* What identifies a company in its name: legal suffixes do, if there is nothing else.
Core(tokens) == IF tokens \subseteq LegalSuffix THEN tokens ELSE tokens \ LegalSuffix

\* Four fifths of it occur in what the proposal cites.
Supported(tokens, texts) ==
    /\ texts # {} /\ Core(tokens) # {}
    /\ 5 * Cardinality(Core(tokens) \cap UNION texts) >= 4 * Cardinality(Core(tokens))

\* The texts of the served refs a proposal cites.
CitedTexts(proposal, hits) == {h.text : h \in {g \in hits : g.ref \in proposal.refs}}

\* Mutant: a name may be supported by a text it does not cite.
VerdictOnNameAnywhere(proposal, hits) ==
    IF CitedTexts(proposal, hits) = {} THEN "unsupported_refs"
    ELSE IF Supported(proposal.tokens, {h.text : h \in hits}) THEN "ok"
    ELSE "name_not_supported"

VerdictOnName(proposal, hits) ==
    IF CitedTexts(proposal, hits) = {} THEN "unsupported_refs"
    ELSE IF Supported(proposal.tokens, CitedTexts(proposal, hits)) THEN "ok"
    ELSE "name_not_supported"

Reject(name, reason) == rejections' = rejections \cup {<<name, reason>>}

\* The post-filter: a name that is not supported has an event, one that is counts once.
JudgeName ==
    /\ phase = "filter" /\ turn <= Len(proposed)
    /\ LET p == proposed[turn]
           verdict == VerdictOnName(p, rawHits)
       IN IF verdict # "ok" THEN Reject(p.name, verdict) /\ UNCHANGED valid
          ELSE /\ valid' = IF \E i \in DOMAIN valid : valid[i] = p.name THEN valid ELSE Append(valid, p.name)
               /\ UNCHANGED rejections
    /\ turn' = turn + 1
    /\ UNCHANGED <<phase, rawHits, proposed, lookups, resolved>>

EndFilter ==
    /\ phase = "filter" /\ turn > Len(proposed)
    /\ phase' = "resolve" /\ turn' = 1
    /\ UNCHANGED <<rawHits, proposed, valid, lookups, resolved, rejections>>

-----------------------------------------------------------------------------
(* Stages C and D: a domain for each name.                                 *)

\* Which gate a URL fails, for the event, and the gates themselves.
ClassifyCandidate(url, served) ==
    IF ~url.safe THEN "unsafe_url"
    ELSE IF url.domain = "none" THEN "unresolvable_domain"
    ELSE IF url.domain \in Aggregator THEN "aggregator"
    ELSE IF url.domain \notin served THEN "not_served" ELSE "ok"

ResolveCandidate(url, served) ==
    IF url.safe /\ url.domain \notin {"none"} \cup Aggregator /\ url.domain \in served
    THEN url.domain ELSE "none"

ServedDomains(candidates) == {candidates[i].url.domain : i \in DOMAIN candidates} \ {"none"}
SafeCandidates(candidates) ==
    {i \in DOMAIN candidates : ResolveCandidate(candidates[i].url, ServedDomains(candidates)) # "none"}

\* The one candidate of that label is taken as it is; otherwise the model chooses
\* among the safe ones, by ref.
Selected(name, candidates, picked) ==
    LET safe == SafeCandidates(candidates)
        matched == {i \in safe : <<candidates[i].url.domain, name>> \in LabelMatches}
        chosen == {i \in safe : candidates[i].ref = picked}
    IN IF \E i \in safe : matched = {i} THEN matched ELSE {i \in chosen : \A j \in chosen : i <= j}

\* The most informative reason of a round without any safe candidate.
ReasonOf(reasons) ==
    IF "aggregator" \in reasons THEN "aggregator"
    ELSE IF "unsafe_url" \in reasons THEN "unsafe_url"
    ELSE IF "unresolvable_domain" \in reasons THEN "unresolvable_domain"
    ELSE IF "not_served" \in reasons THEN "not_served" ELSE "unresolved_domain"
Refusal(candidates) ==
    IF candidates = <<>> THEN "no_domain_candidates_served"
    ELSE IF SafeCandidates(candidates) # {} THEN "domain_selection_null"
    ELSE ReasonOf({ClassifyCandidate(candidates[i].url, ServedDomains(candidates)) : i \in DOMAIN candidates})

\* The next name, while there is room for a company and budget for a query.
ResolveName ==
    /\ phase = "resolve" /\ turn <= Len(valid)
    /\ Len(resolved) < MaxCompanies /\ Len(lookups) < MaxResolutions
    /\ \E candidates \in Candidates :
         \E picked \in {candidates[i].ref : i \in SafeCandidates(candidates)} \cup {"none"} :
           LET name == valid[turn] IN
           /\ lookups' = Append(lookups, [name |-> name, candidates |-> candidates])
           /\ \/ Selected(name, candidates, picked) = {} /\ Reject(name, Refusal(candidates)) /\ UNCHANGED resolved
              \/ \E i \in Selected(name, candidates, picked) :
                    LET domain == candidates[i].url.domain IN
                    IF \E j \in DOMAIN resolved : resolved[j].domain = domain
                    THEN Reject(name, "duplicate_domain") /\ UNCHANGED resolved
                    ELSE resolved' = Append(resolved, [name |-> name, domain |-> domain]) /\ UNCHANGED rejections
    /\ turn' = turn + 1
    /\ UNCHANGED <<phase, rawHits, proposed, valid>>

RunOutOfQueries ==
    /\ phase = "resolve" /\ turn <= Len(valid)
    /\ Len(resolved) < MaxCompanies /\ ~(Len(lookups) < MaxResolutions)
    /\ Reject(valid[turn], "domain_resolution_budget_exhausted")
    /\ phase' = "done"
    /\ UNCHANGED <<rawHits, proposed, valid, turn, lookups, resolved>>

EndDiscovery ==
    /\ phase = "resolve" /\ (turn > Len(valid) \/ ~(Len(resolved) < MaxCompanies))
    /\ phase' = "done"
    /\ UNCHANGED <<rawHits, proposed, valid, turn, lookups, resolved, rejections>>

DiscoveryNext ==
    \/ RawDiscover \/ Extract \/ JudgeName \/ EndFilter
    \/ ResolveName \/ RunOutOfQueries \/ EndDiscovery

DiscoverySpec == DiscoveryInit /\ [][DiscoveryNext]_discoveryVars

-----------------------------------------------------------------------------
(* Deduplication, as the run does it with what it discovered.              *)

DedupeKey(seed) == IF seed.domain # "none" THEN <<"domain", seed.domain>> ELSE <<"name", seed.name>>

\* Each seed and whether it is a DUPLICATE of an earlier one.
Dedupe(seeds) ==
    [i \in DOMAIN seeds |-> \E j \in 1..(i - 1) : DedupeKey(seeds[j]) = DedupeKey(seeds[i])]

-----------------------------------------------------------------------------
(* What a careful reader expects of it.                                    *)

\* A company of the run was named by a proposal that cites a text which was
\* served and says something of what identifies it, and its domain is that of a
\* safe URL the search gave for this very name; no two share a domain, none is a
\* DUPLICATE, and the bounds hold.
IsNamed(name) ==
    \E k \in DOMAIN proposed :
        /\ proposed[k].name = name
        /\ \E t \in Core(proposed[k].tokens), h \in rawHits : h.ref \in proposed[k].refs /\ t \in h.text
IsServed(seed) ==
    \E l \in DOMAIN lookups :
        /\ lookups[l].name = seed.name
        /\ \E i \in DOMAIN lookups[l].candidates :
               /\ lookups[l].candidates[i].url.safe /\ lookups[l].candidates[i].url.domain = seed.domain
               /\ seed.domain \notin {"none"} \cup Aggregator
SeedsAreGrounded ==
    /\ \A i \in DOMAIN resolved : IsNamed(resolved[i].name) /\ IsServed(resolved[i])
    /\ \A i, j \in DOMAIN resolved : resolved[i].domain = resolved[j].domain => i = j
    /\ \A i \in DOMAIN resolved : ~Dedupe(resolved)[i]
    /\ Len(resolved) <= MaxCompanies /\ Len(lookups) <= MaxResolutions

\* A name that was proposed and is no company of the run has an event that says
\* why, unless the loop ended at one of its caps before its turn.
Proposed == {proposed[k].name : k \in DOMAIN proposed}
Told == {r[1] : r \in rejections}
Kept == {valid[i] : i \in DOMAIN valid}
Seeded == {resolved[i].name : i \in DOMAIN resolved}
Waiting == {valid[i] : i \in turn..Len(valid)}
RefusalsAreReported ==
    \/ phase # "done" \/ rawHits = {} \/ <<"none", "discovery_extraction_unavailable">> \in rejections
    \/ /\ Proposed = Told \cup Seeded \cup Waiting
       /\ Waiting # {} => Len(resolved) = MaxCompanies \/ Len(lookups) = MaxResolutions

\* "This function must always agree with it": the diagnosis and the decision
\* are two pieces of code.
DiagnosisAgrees(url, served) ==
    ClassifyCandidate(url, served) = "ok" <=> ResolveCandidate(url, served) # "none"

DiscoveryIsGrounded ==
    /\ SeedsAreGrounded /\ RefusalsAreReported
    /\ \A l \in DOMAIN lookups : \A i \in DOMAIN lookups[l].candidates :
           DiagnosisAgrees(lookups[l].candidates[i].url, ServedDomains(lookups[l].candidates))

-----------------------------------------------------------------------------
(* What keeps it so, step by step.                                         *)

ProposedName == {p.name : p \in Proposal}
DiscoveryTypeOK ==
    /\ phase \in {"search", "extract", "filter", "resolve", "done"}
    /\ proposed \in Seq(Proposal) /\ valid \in Seq(ProposedName) /\ turn \in Nat \ {0}
    /\ lookups \in Seq([name : ProposedName, candidates : Candidates])
    /\ resolved \in Seq([name : ProposedName, domain : {c.url.domain : c \in Candidate}])

\* Who was judged, or looked up, is told or kept; who is to come has done nothing yet.
NothingYet == proposed = <<>> /\ valid = <<>> /\ turn = 1 /\ rejections = {}
JudgedAreKept == \A k \in DOMAIN proposed : k < turn => proposed[k].name \in Told \cup Kept
LookedUpAreKept == \A i \in DOMAIN valid : i < turn => valid[i] \in Told \cup Seeded
ByPhase ==
    /\ phase \in {"search", "extract"} => NothingYet
    /\ phase \in {"search", "extract", "filter"} => lookups = <<>> /\ resolved = <<>>
    /\ phase = "filter" => JudgedAreKept
    /\ phase = "resolve" => Proposed \subseteq Told \cup Kept /\ LookedUpAreKept
ToldWereProposed ==
    <<"none", "discovery_extraction_unavailable">> \notin rejections => Told \subseteq Proposed
ValidAreNamed == \A i \in DOMAIN valid : IsNamed(valid[i])
ResolvedAreValid == Seeded \subseteq Kept

DiscoveryIInv ==
    /\ DiscoveryTypeOK /\ ByPhase /\ ToldWereProposed /\ ValidAreNamed /\ ResolvedAreValid
    /\ DiscoveryIsGrounded
==============================================================================
