------------------------------- MODULE Verdicts -------------------------------
(***************************************************************************)
(* From what the model extracted of the evidence to the status of a           *)
(* prospect: the citation and grounding of every fact, the rubric, the        *)
(* exclusion policy, the seven review checks and the final precedence.        *)
(*                                                                          *)
(* A fact is [ref, ids, claim] and its own fields: ref the source it cites,   *)
(* ids the evidence ids, claim a set of tokens.  Evidence is a function from   *)
(* ids to [text, numbers, dates, live, confidence]; the id of a source is its  *)
(* ref.  Raw scores, weights and confidences are in percent, times in units    *)
(* lives of 90 days, both rounded down.  0 stands for no count, "none" for no   *)
(* name or category, an age of -1 for no date and of -2 for one that lies ahead. *)
(* A list from which facts are dropped keeps the positions of the others.       *)
(***************************************************************************)
EXTENDS Integers, Sequences, FiniteSets, SequencesExt

CONSTANT Cases  \* what may be extracted from what, for which Play, and what drafted

VARIABLE decided  \* the case that was decided, if any

-----------------------------------------------------------------------------
(* Grounding: research cites, signals verifies.                            *)

\* research links a fact to the evidence of the source it names; a ref that was
\* not served leaves whatever ids the model wrote.
Cite(fact, evidence) ==
    IF fact.ref \in DOMAIN evidence THEN [fact EXCEPT !.ids = <<fact.ref>>] ELSE fact

\* At least half of the tokens of the claim occur in the text.
IsGrounded(claim, text) == claim # {} /\ 2 * Cardinality(claim \cap text) >= Cardinality(claim)

Backed(fact, evidence) ==
    /\ fact.ids # <<>>
    /\ fact.ids[1] \in DOMAIN evidence
    /\ IsGrounded(fact.claim, evidence[fact.ids[1]].text)

Demote(fact) == [fact EXCEPT !.ids = <<>>]

\* Mutant: a fact is taken at its word.
GroundItemTrusting(fact, evidence) == Cite(fact, evidence)

GroundItem(fact, evidence) ==
    LET cited == Cite(fact, evidence) IN IF Backed(cited, evidence) THEN cited ELSE Demote(cited)

\* The date of a round must be spelled out in live evidence, and not lie ahead.
DateSupported(age, e) == e.live => age # -2 /\ age \in e.dates

GroundFunding(fact, evidence) ==
    LET cited == Cite(fact, evidence) ground == GroundItem(fact, evidence)
    IN IF /\ cited.ids # <<>> /\ cited.ids[1] \in DOMAIN evidence
          /\ ~DateSupported(cited.age, evidence[cited.ids[1]])
       THEN [ground EXCEPT !.age = -1] ELSE ground

\* adjacent is a function from categories to the categories next to them.
AdjacentValues(spec) == UNION {spec.adjacent[k] : k \in DOMAIN spec.adjacent}
AllowedCategories(spec) ==
    spec.target \cup spec.excluded \cup DOMAIN spec.adjacent \cup AdjacentValues(spec) \cup {"OTHER"}

\* The industry and the head count stand on their own evidence each.
GroundIndustry(fact, evidence, spec) ==
    LET cited == Cite(fact, evidence)
    IN IF Backed(cited, evidence) /\ cited.category \in AllowedCategories(spec)
       THEN cited ELSE [Demote(cited) EXCEPT !.category = "none"]

GroundCount(fact, evidence) ==
    LET cited == Cite(fact, evidence)
        claimed == cited.ids # <<>> /\ cited.count # 0
        written == claimed /\ cited.ids[1] \in DOMAIN evidence
                           /\ cited.count \in evidence[cited.ids[1]].numbers
    IN CASE written              -> cited
         [] claimed /\ ~written  -> [Demote(cited) EXCEPT !.count = 0]
         [] ~claimed             -> Demote(cited)

GroundRounds(rounds, evidence) == [i \in DOMAIN rounds |-> GroundFunding(rounds[i], evidence)]
GroundItems(facts, evidence) == [i \in DOMAIN facts |-> GroundItem(facts[i], evidence)]

Ground(facts, evidence, spec) ==
    [ industry |-> GroundIndustry(facts.industry, evidence, spec),
      count    |-> GroundCount(facts.count, evidence),
      funding  |-> GroundRounds(facts.funding, evidence),
      hiring   |-> GroundItems(facts.hiring, evidence),
      tech     |-> GroundItems(facts.tech, evidence),
      leaders  |-> GroundItems(facts.leaders, evidence) ]

\* What is left of a list for one who asks for evidence.  Each reader below asks for
\* itself.
Grounded(facts) == Restrict(facts, {i \in DOMAIN facts : facts[i].ids # <<>>})

\* The persona is the Play's: what the model says of a match is not read.
ResolveContact(candidates, spec) ==
    LET leaders == Grounded(candidates)
        matches == {i \in DOMAIN leaders : leaders[i].title \in spec.personas}
        first == CHOOSE i \in matches : \A j \in matches : i <= j
    IN CASE matches = {}                                        -> "UNAVAILABLE"
         [] matches # {} /\ leaders[first].name # "none"        -> "VERIFIED"
         [] OTHER                                               -> "PERSONA_ONLY"

-----------------------------------------------------------------------------
(* The rubric.                                                             *)

Weights == [ industry |-> 20, size |-> 15, funding |-> 15, hiring |-> 15, tech |-> 10,
             persona |-> 10, freshness |-> 10, evidence |-> 5 ]
Dimension == DOMAIN Weights

\* exp(-n) in percent.
Decay(n) == CASE n = 0 -> 100 [] n = 1 -> 37 [] n = 2 -> 14 [] n = 3 -> 5 [] n = 4 -> 2 [] OTHER -> 0
Recency(age, scale) == IF age = -1 THEN 0 ELSE Decay((IF age < 0 THEN 0 ELSE age) \div scale)

\* The newest, the first of them on a tie; a missing date is the oldest of all.
Older(a, b) == b.age # -1 /\ (a.age = -1 \/ a.age > b.age)
Newest(items) ==
    items[CHOOSE i \in DOMAIN items :
              /\ \A j \in DOMAIN items : ~Older(items[i], items[j])
              /\ \A j \in DOMAIN items : j < i => Older(items[j], items[i])]

Best(S) == CHOOSE x \in S : \A y \in S : y <= x
Least(a, b) == IF a < b THEN a ELSE b

StageOrder == <<"pre_seed", "seed", "series_a", "series_b", "series_c", "growth">>
Adjacent(s, t) ==
    \E i, j \in DOMAIN StageOrder : StageOrder[i] = s /\ StageOrder[j] = t /\ (i = j + 1 \/ j = i + 1)
StageMatch(stage, targets) ==
    CASE stage \in targets -> 100
      [] stage \notin targets /\ (\E t \in targets : Adjacent(stage, t)) -> 50
      [] OTHER -> 0

IndustryFit(fact, spec) ==
    CASE fact.category \in spec.target -> 100
      [] OTHER ->
            IF \/ fact.category \in AdjacentValues(spec)
               \/ fact.category \in DOMAIN spec.adjacent
                      /\ spec.adjacent[fact.category] \cap spec.target # {}
            THEN 60 ELSE 0
SizeFit(fact, spec) ==
    LET width == Best({spec.sizeMax - spec.sizeMin, 1})
        distance == Best({spec.sizeMin - fact.count, fact.count - spec.sizeMax, 0})
    IN Best({0, 100 - (100 * distance) \div width})
FundingSignal(rounds, spec) ==
    LET newest == Newest(Grounded(rounds))
    IN (StageMatch(newest.stage, spec.stages) * Recency(newest.age, 2)) \div 100
HiringSignal(roles) == (Least(3, Cardinality(DOMAIN roles)) * Recency(Newest(roles).age, 2)) \div 3
TechFit(mentions, spec) ==
    LET detected == {t.name : t \in Range(Grounded(mentions))}
    IN (100 * Cardinality(detected \cap spec.tech)) \div Cardinality(detected \cup spec.tech)
Persona(contact) == CASE contact = "VERIFIED" -> 100 [] contact = "PERSONA_ONLY" -> 50 [] OTHER -> 0
Freshness(ages) == Recency(CHOOSE a \in ages : \A b \in ages : a <= b, 1)
EvidenceConfidence(evidence) ==
    MapThenSumSet(LAMBDA id : evidence[id].confidence, DOMAIN evidence)
        \div Cardinality(DOMAIN evidence)

\* UNKNOWN is not a pass: the policy could not be evaluated.
Exclusion(industry, spec) ==
    CASE industry.ids = <<>> \/ industry.category = "none" -> "UNKNOWN"
      [] industry.ids # <<>> /\ industry.category \in spec.excluded -> "EXCLUDED"
      [] OTHER -> "NOT_EXCLUDED"

GTM(roles) == Restrict(roles, {i \in DOMAIN roles : roles[i].gtm})
RelevantRoles(facts) == GTM(Grounded(facts.hiring))

\* Mutant: the freshness is read before the evidence is asked for.
DatedUnread(facts) == {f.age : f \in Range(facts.funding) \cup Range(facts.hiring)} \ {-1}

Dated(facts) == {f.age : f \in Range(Grounded(facts.funding)) \cup Range(Grounded(facts.hiring))} \ {-1}

\* What a dimension rests on; those that rest on nothing have no points.
Rests(facts, evidence, spec) ==
    [ industry  |-> facts.industry.ids # <<>> /\ facts.industry.category # "none",
      size      |-> facts.count.ids # <<>> /\ facts.count.count # 0,
      funding   |-> DOMAIN Grounded(facts.funding) # {},
      hiring    |-> DOMAIN RelevantRoles(facts) # {},
      tech      |-> DOMAIN Grounded(facts.tech) # {},
      persona   |-> ResolveContact(facts.leaders, spec) # "UNAVAILABLE",
      freshness |-> Dated(facts) # {},
      evidence  |-> DOMAIN evidence # {} ]
Supports(facts, evidence, spec) == {d \in Dimension : Rests(facts, evidence, spec)[d]}

Raw(d, facts, evidence, spec) ==
    CASE d = "industry"  -> IndustryFit(facts.industry, spec)
      [] d = "size"      -> SizeFit(facts.count, spec)
      [] d = "funding"   -> FundingSignal(facts.funding, spec)
      [] d = "hiring"    -> HiringSignal(RelevantRoles(facts))
      [] d = "tech"      -> TechFit(facts.tech, spec)
      [] d = "persona"   -> Persona(ResolveContact(facts.leaders, spec))
      [] d = "freshness" -> Freshness(Dated(facts))
      [] d = "evidence"  -> EvidenceConfidence(evidence)

Raws(facts, evidence, spec) == [d \in Supports(facts, evidence, spec) |-> Raw(d, facts, evidence, spec)]
Base(raws) == MapThenSumSet(LAMBDA d : Weights[d] * raws[d], DOMAIN raws) \div 100

\* It is UNKNOWN when it was never established, and UNSUPPORTED when it was looked for:
\* the confidence is the supported share of those that are not UNKNOWN.
Unknown(facts, evidence, spec) == {"industry", "size"} \ Supports(facts, evidence, spec)
Confidence(facts, evidence, spec) ==
    (100 * Cardinality(Supports(facts, evidence, spec)))
        \div Cardinality(Dimension \ Unknown(facts, evidence, spec))

Score(facts, evidence, spec) ==
    LET base == Base(Raws(facts, evidence, spec))
        exclusion == Exclusion(facts.industry, spec)
    IN [ overall     |-> IF exclusion = "EXCLUDED" THEN Least(base, 25) ELSE base,
         exclusion   |-> exclusion,
         disqualified |-> exclusion = "EXCLUDED",
         modifiers   |-> CASE exclusion = "EXCLUDED" -> {"hard_disqualifier"}
                           [] exclusion = "UNKNOWN"  -> {"exclusion_not_evaluable"}
                           [] OTHER                  -> {},
         contact     |-> ResolveContact(facts.leaders, spec),
         unsupported |-> Cardinality(Dimension \ Supports(facts, evidence, spec)),
         confidence  |-> Confidence(facts, evidence, spec) ]

\* What a restarted process reads back from the stored score.
ExclusionFromPersisted(disqualified, modifiers) ==
    CASE disqualified -> "EXCLUDED"
      [] ~disqualified /\ "exclusion_not_evaluable" \in modifiers -> "UNKNOWN"
      [] OTHER -> "NOT_EXCLUDED"

-----------------------------------------------------------------------------
(* Review and the final status.                                            *)

\* A draft: its claims [ids, claim], the identifiers and the other companies it
\* mentions, and whether it is complete.
ClaimGrounding(drafts, evidence) ==
    \A d \in drafts : \A c \in d.claims :
        /\ c.ids # <<>>
        /\ \A i \in DOMAIN c.ids :
               c.ids[i] \in DOMAIN evidence /\ IsGrounded(c.claim, evidence[c.ids[i]].text)
NoFabricatedContact(drafts, channels) ==
    /\ \A c \in channels : (c.identifier # "none" => c.observed) /\ c.match # "MISMATCH"
    /\ \A d \in drafts : d.identifiers \subseteq {c.identifier : c \in channels}
CrossProspectLeak(drafts, others) == \A d \in drafts : d.mentions \cap others = {}
NoPlaceholders(drafts) == \A d \in drafts : d.complete
ScoreSupport(score) == score.unsupported <= 2

\* Five hard checks and two soft ones.
Hard(drafts, evidence, channels, others, duplicate) ==
    /\ ClaimGrounding(drafts, evidence) /\ NoFabricatedContact(drafts, channels)
    /\ CrossProspectLeak(drafts, others) /\ NoPlaceholders(drafts) /\ ~duplicate
Soft(score, spec) == ScoreSupport(score) /\ score.confidence >= spec.minConfidence

Review(drafts, evidence, channels, others, duplicate, score, spec) ==
    IF ~Hard(drafts, evidence, channels, others, duplicate) THEN "FAIL"
    ELSE IF ~Soft(score, spec) THEN "NEEDS_REVIEW" ELSE "PASS"

FinalStatus(score, verdict, spec) ==
    IF score.disqualified \/ verdict = "FAIL" THEN "REJECTED"
    ELSE IF verdict = "NEEDS_REVIEW" \/ score.exclusion = "UNKNOWN" THEN "NEEDS_REVIEW"
    ELSE IF score.overall < spec.minScore THEN "NOT_QUALIFIED" ELSE "PASS"

\* A case: what was extracted from what, for which Play, and what was drafted.
Outcome(case) ==
    LET facts == Ground(case.facts, case.evidence, case.spec)
        score == Score(facts, case.evidence, case.spec)
        verdict == Review(case.drafts, case.evidence, case.channels, case.others, case.duplicate,
                          score, case.spec)
    IN [score |-> score, verdict |-> verdict, status |-> FinalStatus(score, verdict, case.spec)]

\* What research extracts.
IndustryProfileFact == [ref : STRING, ids : Seq(STRING), claim : SUBSET STRING, category : STRING]
EmployeeCountProfileFact == [ref : STRING, ids : Seq(STRING), claim : SUBSET STRING, count : Nat]
FundingEvent == [ref : STRING, ids : Seq(STRING), claim : SUBSET STRING, stage : STRING, age : Int]
HiringRole == [ref : STRING, ids : Seq(STRING), claim : SUBSET STRING, gtm : BOOLEAN, age : Int]
TechMention == [ref : STRING, ids : Seq(STRING), claim : SUBSET STRING, name : STRING]
LeadershipCandidate == [ref : STRING, ids : Seq(STRING), claim : SUBSET STRING, title : STRING, name : STRING]
ResearchFacts ==
    [ industry : IndustryProfileFact, count : EmployeeCountProfileFact, funding : Seq(FundingEvent),
      hiring : Seq(HiringRole), tech : Seq(TechMention), leaders : Seq(LeadershipCandidate) ]
\* No source is called "none".
IsCase(case) ==
    /\ case.facts \in ResearchFacts
    /\ "none" \notin DOMAIN case.evidence
    /\ case = [ facts |-> case.facts, evidence |-> case.evidence, spec |-> case.spec, drafts |-> case.drafts,
                channels |-> case.channels, others |-> case.others, duplicate |-> case.duplicate ]

ASSUME CasesAssumption == \A case \in Cases : IsCase(case)

VerdictsInit == decided = {}
Decide == decided = {} /\ \E case \in Cases : decided' = {case}
VerdictsSpec == VerdictsInit /\ [][Decide]_decided

-----------------------------------------------------------------------------
(* What a careful reader expects of them.                                  *)

\* What was not said.
Unsaid == [ref |-> "none", ids |-> <<>>, claim |-> {}, category |-> "none", count |-> 0]

\* The facts of a case without those that their own evidence does not bear out.
Stripped(case) ==
    LET facts == case.facts
        borne(f) == Backed(Cite(f, case.evidence), case.evidence)
        kept(list) == Restrict(list, {i \in DOMAIN list : borne(list[i])})
    IN [case EXCEPT !.facts =
          [ industry |-> IF borne(facts.industry) THEN facts.industry ELSE Unsaid,
            count    |-> IF GroundCount(facts.count, case.evidence).ids # <<>> THEN facts.count ELSE Unsaid,
            funding  |-> kept(facts.funding), hiring |-> kept(facts.hiring),
            tech     |-> kept(facts.tech),    leaders |-> kept(facts.leaders) ]]

Withheld(case) == [case EXCEPT !.facts.industry = Unsaid]

\* What is not borne out by the evidence changes nothing at all, whoever reads it; a company on
\* the exclude list gains nothing when its industry is withheld; a restarted
\* process reads the exclusion that was computed; and what passes is in a
\* category that was established and is wanted nowhere on the exclude list.
IsSound(case) ==
    LET outcome == Outcome(case) IN
    /\ outcome = Outcome(Stripped(case))
    /\ outcome.score.exclusion = "EXCLUDED" =>
           Outcome(Withheld(case)).status \in {"REJECTED", "NEEDS_REVIEW"}
    /\ outcome.score.exclusion = ExclusionFromPersisted(outcome.score.disqualified, outcome.score.modifiers)
    /\ outcome.status = "PASS" =>
           /\ GroundIndustry(case.facts.industry, case.evidence, case.spec).category \notin
                  case.spec.excluded \cup {"none"}
           /\ ~(outcome.score.overall < case.spec.minScore)
           /\ outcome.verdict = "PASS"

VerdictIsSound == \A case \in decided : IsSound(case)
==============================================================================
