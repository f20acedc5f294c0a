----------------------------- MODULE MCLiveParts -----------------------------
(***************************************************************************)
(* The parts of Live mode that share no state, each by itself: the subject is *)
(* chosen at the start, and then its own next-state relation is taken (Init,    *)
(* Next and vars are SendAllowance's).                                        *)
(***************************************************************************)
EXTENDS ProviderAnswers, RunIntake, RunMetrics, SendAllowance, LiveDiscovery, SourceSelection,
    Verdicts, ContactMatch, TLC

VARIABLE subject    \* the part under consideration

deciding == <<decided, compared>>

-----------------------------------------------------------------------------
(* Discovery: proposals that cite a text, another's text or none at all;      *)
(* candidate domains that are safe, unsafe, an aggregator's or another's.      *)

Text(ref, words) == [ref |-> ref, text |-> words]
Texts == {<<>>, <<Text("r1", {"acme", "funding"})>>, <<Text("r2", {"beta", "labs", "inc"}), Text("r3", {"acme"})>>}
Names ==
    [name : {"Acme Inc"}, tokens : {{"acme", "inc"}}, refs : {{"r1"}, {"r2"}, {"bogus"}, {"r2", "r3"}}]
    \cup [name : {"Beta Labs"}, tokens : {{"beta", "labs"}}, refs : {{"r2"}, {"r1"}}]
    \cup [name : {"Inc"}, tokens : {{"inc"}}, refs : {{"r1", "r2"}}]
ThreeNames == {<<>>} \cup [1..3 -> Names]
Safe(domain) == [safe |-> TRUE, domain |-> domain]
Urls == {Safe("acme.com"), Safe("beta.com"), Safe("linkedin.com"), Safe("none"), [safe |-> FALSE, domain |-> "acme.com"]}
Places == [ref : {"c1", "c2"}, url : Urls]
TwoPlaces ==
    {<<>>} \cup {<<[ref |-> "c1", url |-> u]>> : u \in Urls}
    \cup {<<[ref |-> "c1", url |-> u], [ref |-> "c2", url |-> Safe("beta.com")]>> : u \in Urls}
SameLabels == {<<"acme.com", "Acme Inc">>, <<"beta.com", "Beta Labs">>}

-----------------------------------------------------------------------------
(* Sources: two categories, each with up to two results: two pages of the     *)
(* company, one of them under two digests, and one without a canonical URL, the *)
(* same text under two addresses and one id, and a page of another site.       *)

TwoQueries == SourceQueries({}, 2)

Hit(raw, url, sha, len, id) ==
    [ raw |-> raw, own |-> TRUE, url |-> url, sha |-> sha, len |-> len, dated |-> FALSE, relevance |-> 0, id |-> id ]
Pages ==
    { Hit("u1", "u1", "h1", 1, 7), Hit("u1", "u1", "h2", 2, 0), Hit("u2", "u2", "h1", 1, 7),
      Hit("u3", "none", "h2", 2, 0),
      [Hit("x", "x", "h1", 1, 0) EXCEPT !.own = FALSE] }
Replies ==
    { [kind |-> "read", sha |-> "h3", len |-> 1], [kind |-> "failed", sha |-> "none", len |-> 0],
      [kind |-> "missing", sha |-> "none", len |-> 0] }

-----------------------------------------------------------------------------
(* Verdicts: facts that their evidence bears out, that other evidence does,    *)
(* or none; a Play that excludes another category, this one, or nothing.       *)


Fact(ref, ids, claim) == [ref |-> ref, ids |-> ids, claim |-> claim]
Evidence ==
    { ("e1" :> [text |-> {"raised", "seed", "robotics", "acme"}, numbers |-> {50}, dates |-> {2}, live |-> l, confidence |-> 80])
      @@ ("e2" :> [text |-> {"vp", "sales", "crm", "hiring"}, numbers |-> {500}, dates |-> {}, live |-> TRUE, confidence |-> 60])
      : l \in BOOLEAN }
Round(age) == Fact("e1", <<"e2">>, {"raised", "seed", "x"}) @@ [stage |-> "seed", age |-> age]
Unserved == Fact("e3", <<>>, {"raised"}) @@ [stage |-> "series_a", age |-> 0]
Mention(ref, name) == Fact(ref, <<>>, {name}) @@ [name |-> name]
Facts ==
    [ industry : [ref : {"e1", "e2"}, ids : {<<>>}, claim : {{"robotics"}}, category : {"robotics", "gaming", "none"}],
      count : [ref : {"e1"}, ids : {<<>>}, claim : {{}}, count : {0, 50, 500}],
      funding : {<<>>, <<Unserved>>, <<Unserved, Round(2)>>} \cup {<<Round(age)>> : age \in {-2, 2, 4}},
      hiring : {<<>>} \cup {<<Fact(ref, <<>>, {"hiring"}) @@ [gtm |-> TRUE, age |-> 2]>> : ref \in {"e1", "e2"}},
      tech : {<<Mention("e1", "crm")>>, <<Mention("e1", "erp"), Mention("e2", "crm")>>},
      leaders : {<<>>} \cup {<<Fact(ref, <<>>, {"vp", "sales"}) @@ [title |-> "vp", name |-> "n"]>> : ref \in {"e1", "e2"}} ]
Plays ==
    [ target : {{"robotics"}}, excluded : {{}, {"gaming"}, {"robotics"}}, adjacent : {"saas" :> {"gaming"}},
      personas : {{"vp"}}, sizeMin : {10}, sizeMax : {100}, stages : {{"series_a"}}, tech : {{"crm"}},
      minConfidence : {50}, minScore : {0, 60} ]
Draft ==
    [ claims : {{[ids |-> <<"e1">>, claim |-> {"raised"}]}, {[ids |-> <<"e2">>, claim |-> {"raised"}]}},
      identifiers : {{}}, mentions : {{}}, complete : {TRUE} ]
VerdictSamples ==
    [ facts : Facts, evidence : Evidence, spec : Plays, drafts : {{d} : d \in Draft}, channels : {{}},
      others : {{}}, duplicate : {FALSE} ]

-----------------------------------------------------------------------------
(* Contacts: names with initials, titles and other first names; companies     *)
(* with and without a suffix, a domain, or any letter.                         *)

Alphabet == {"a", "b", "c", "d", "e", "h", "i", "j", "l", "n", "o", "r", "v"}
Jon == <<"j", "o", "n">>
John == <<"j", "o", "h", "n">>
Rao == <<"r", "a", "o">>
Lee == <<"l", "e", "e">>
V == <<"v">>
Dr == <<"d", "r">>
Inc == <<"i", "n", "c">>
Acme == <<"a">>
Beta == <<"b">>
Titles == {Dr, V}
Ends == {Inc}

Company == {Nil, <<Acme>>, <<Beta, Inc>>, <<Inc>>, <<<<>>>>}
Sites == {Nil, "acme.com", "beta.com"}
Profile == [scheme |-> "https", plain |-> TRUE, host |-> "linkedin.com", path |-> "in"]
ContactSamples ==
    [ provider : {"hunter", "apollo"},
      grounded : [name : {<<Jon>>, <<Jon, Rao>>, <<Dr, John, Lee, Rao>>, <<V, Rao>>}, company : Company, domain : Sites],
      answer : [first : {Nil, <<Jon>>, <<<<"j">>>>, <<V>>}, last : {Nil, <<Rao>>, <<Lee>>}, company : Company, domain : Sites,
                url : {Nil, Profile, [Profile EXCEPT !.scheme = "demo"], [Profile EXCEPT !.path = "company"]},
                word : {"valid"}, address : {TRUE}] ]

-----------------------------------------------------------------------------
(* A run's evaluation: a prospect that is enriched, one that fails after a    *)
(* second attempt, the calls and attempts of one step, and a duplicate.        *)

Created == [kind |-> "created", status |-> "RUNNING"]
Final(s) == [kind |-> "status", status |-> s]
Documented ==
    [ kind |-> "documents",
      docs |-> << [winner |-> TRUE, id |-> "e1"], [winner |-> TRUE, id |-> "e2"], [winner |-> TRUE, id |-> "e3"],
                  [winner |-> FALSE, id |-> "none"] >> ]
Enriched(called, ok, email) ==
    [ kind |-> "enrichment", called |-> called, ok |-> ok, matched |-> email # "none", email |-> email,
      profile |-> IF email = "none" THEN "none" ELSE "resolved" ]
Tried(status) == [kind |-> "task", step |-> "personalize", status |-> status]
Called(attempts, cost) == [kind |-> "llm", attempts |-> attempts, cost |-> cost]
Persisted(status) ==
    << [kind |-> "evidence", ids |-> {"e1", "e2", "e3"}],
       [kind |-> "score", dimensions |-> <<TRUE, FALSE, TRUE>>, industry |-> TRUE, undecided |-> FALSE],
       [kind |-> "drafts", claims |-> <<[ids |-> {"e1"}, backed |-> TRUE], [ids |-> {"e2"}, backed |-> FALSE]>>],
       [kind |-> "review", checks |-> <<[id |-> "grounding", passed |-> FALSE], [id |-> "length", passed |-> TRUE]>>],
       Final(status) >>
ProspectLives ==
    { <<Created, Documented, Enriched(TRUE, TRUE, "verified")>> \o Persisted("PASS"),
      <<Created, Enriched(TRUE, FALSE, "none"), Enriched(TRUE, TRUE, "found"), Enriched(TRUE, TRUE, "none"),
        Final("FAILED")>>,
      <<Created, Called(2, 3), Tried("RETRY"), Called(1, Unpriced), Tried("OK"), Final("PASS")>>,
      <<[Created EXCEPT !.status = "DUPLICATE"], Final("DUPLICATE")>> }

-----------------------------------------------------------------------------
OneSeed == {<<"a", "a">>}
\* Requests are interchangeable.
Interchangeable == Permutations(Request)

MCInit ==
    /\ AnswersInit /\ IntakeInit /\ MetricsInit /\ Init /\ DiscoveryInit /\ SourcesInit /\ VerdictsInit /\ ContactInit
    /\ subject \in {"answers", "intake", "metrics", "allowance", "discovery", "sources", "verdict", "contact"}
    /\ subject # "allowance" => seeded
    /\ subject # "answers" => provider = "openai"
    /\ subject # "metrics" => \A p \in Prospect : Len(life[p]) = 2 /\ life[p][2].status = "DUPLICATE"

MCNext ==
    \/ /\ subject = "answers" /\ AnswersNext
       /\ UNCHANGED <<subject, deciding, intakeVars, metricsVars, vars, discoveryVars, sourceVars>>
    \/ /\ subject = "intake" /\ IntakeNext
       /\ UNCHANGED <<subject, deciding, answerVars, metricsVars, vars, discoveryVars, sourceVars>>
    \/ /\ subject = "metrics" /\ MetricsNext
       /\ UNCHANGED <<subject, deciding, answerVars, intakeVars, vars, discoveryVars, sourceVars>>
    \/ /\ subject = "allowance" /\ Next
       /\ UNCHANGED <<subject, deciding, answerVars, intakeVars, metricsVars, discoveryVars, sourceVars>>
    \/ /\ subject = "discovery" /\ DiscoveryNext
       /\ UNCHANGED <<subject, deciding, answerVars, intakeVars, metricsVars, vars, sourceVars>>
    \/ /\ subject = "sources" /\ SourcesNext
       /\ UNCHANGED <<subject, deciding, answerVars, intakeVars, metricsVars, vars, discoveryVars>>
    \/ /\ subject = "verdict" /\ Decide
       /\ UNCHANGED <<subject, compared, answerVars, intakeVars, metricsVars, vars, discoveryVars, sourceVars>>
    \/ /\ subject = "contact" /\ Compare
       /\ UNCHANGED <<subject, decided, answerVars, intakeVars, metricsVars, vars, discoveryVars, sourceVars>>

MCSpec ==
    MCInit /\ [][MCNext]_<<subject, deciding, answerVars, intakeVars, metricsVars, vars, discoveryVars, sourceVars>>
=============================================================================
