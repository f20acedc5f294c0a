------------------------------ MODULE RunMetrics ------------------------------
(***************************************************************************)
(* The evaluation of a run is computed from its tables while the run may     *)
(* still be writing them: one table is read after the other, and every read   *)
(* sees what is committed then.  What the engine writes of a prospect is a     *)
(* sequence of transactions, so what a table shows of it is a prefix of it.    *)
(*                                                                          *)
(* A transaction is a record with its kind:                                  *)
(*   created    [status]          RUNNING, or DUPLICATE                      *)
(*   documents  [docs]            occurrences: a winner or not, its evidence  *)
(*   enrichment [called, ok, matched, email, profile]  a group of calls and    *)
(*                                what it found                             *)
(*   evidence   [ids]             score [dimensions, industry, undecided]     *)
(*   drafts     [claims]          review [checks]                           *)
(*   status     [status]          task [step, status]  an attempt of a step   *)
(*   llm        [attempts, cost]  a logical call of the model                 *)
(***************************************************************************)
EXTENDS Integers, Sequences, FiniteSets, SequencesExt

CONSTANTS
    Prospect,
    Lives       \* what the engine may write of a prospect when nothing cuts it short

Unpriced == -1

\* What the engine commits of a prospect, one transaction at a time.
Standing ==
    [ kind : {"created", "status"},
      status : {"RUNNING", "DUPLICATE", "PASS", "NEEDS_REVIEW", "REJECTED", "NOT_QUALIFIED", "FAILED",
                "TIMED_OUT"} ]
Task == [kind : {"task"}, step : STRING, status : {"OK", "RETRY", "TIMEOUT", "FAILED"}]
LLMCall == [kind : {"llm"}, attempts : Nat \ {0}, cost : Nat \cup {Unpriced}]
SourceDocuments == [kind : {"documents"}, docs : Seq([winner : BOOLEAN, id : STRING])]
\* Only a call that was made answers, and only an answer matches.
Enrichment ==
    { e \in [ kind : {"enrichment"}, called : BOOLEAN, ok : BOOLEAN, matched : BOOLEAN,
              email : {"none", "found", "verified"}, profile : {"none", "rejected", "resolved"} ] :
        (e.ok => e.called) /\ (e.matched => e.ok) }
EvidenceRows == [kind : {"evidence"}, ids : SUBSET STRING]
\* Of each dimension, whether it is supported.
ICPScore == [kind : {"score"}, dimensions : Seq(BOOLEAN), industry : BOOLEAN, undecided : BOOLEAN]
OutreachDrafts == [kind : {"drafts"}, claims : Seq([ids : SUBSET STRING, backed : BOOLEAN])]
ReviewResult == [kind : {"review"}, checks : Seq([id : STRING, passed : BOOLEAN])]
Transaction ==
    Standing \cup Task \cup LLMCall \cup SourceDocuments \cup Enrichment \cup EvidenceRows \cup ICPScore
    \cup OutreachDrafts \cup ReviewResult

ASSUME MetricsAssumption ==
    /\ IsFiniteSet(Prospect)
    /\ Lives \subseteq Seq(Transaction)

VARIABLES
    life,       \* the transactions the engine makes of each prospect
    committed,  \* how many of them are committed
    reading,    \* the place of the next read, 0 when nobody asks
    seen        \* how many transactions of each prospect each table showed

metricsVars == <<life, committed, reading, seen>>

\* Mutant: the calls are read before what they found.
ReadOrderCallsFirst ==
    <<"prospects", "enrichment_calls", "evidence", "scores", "drafts", "reviews", "tasks",
      "llm_calls", "documents", "evidence_again", "channels", "enrichments">>

\* The order of compute_run_evaluation and of the parts it calls.
ReadOrder ==
    <<"prospects", "evidence", "scores", "drafts", "reviews", "tasks", "llm_calls", "documents",
      "evidence_again", "channels", "enrichments", "enrichment_calls">>
Tables == ToSet(ReadOrder)

\* The wall clock of the run may cut a prospect short after any transaction.
CutShort(l, n) == Append(SubSeq(l, 1, n), [kind |-> "status", status |-> "TIMED_OUT"])
LifeOf(l) == {l} \cup {CutShort(l, n) : n \in 1..(Len(l) - 1)}

MetricsInit ==
    /\ life \in [Prospect -> UNION {LifeOf(l) : l \in Lives}]
    /\ committed = [p \in Prospect |-> 0]
    /\ reading = 0
    /\ seen = [t \in Tables |-> committed]

Commit(p) ==
    /\ committed[p] < Len(life[p])
    /\ committed' = [committed EXCEPT ![p] = @ + 1]
    /\ UNCHANGED <<life, reading, seen>>

AskForReport ==
    /\ reading = 0
    /\ reading' = 1
    /\ UNCHANGED <<life, committed, seen>>

Read ==
    /\ reading \in DOMAIN ReadOrder
    /\ seen' = [seen EXCEPT ![ReadOrder[reading]] = committed]
    /\ reading' = reading + 1
    /\ UNCHANGED <<life, committed>>

Reported == reading = Len(ReadOrder) + 1

MetricsNext == (\E p \in Prospect : Commit(p)) \/ AskForReport \/ Read

MetricsSpec == MetricsInit /\ [][MetricsNext]_metricsVars

-----------------------------------------------------------------------------
(* The report, from what each table showed of each prospect: a function of    *)
(* the table and the prospect.                                             *)

\* What the tables show of the prospects in S when they are read at these points.
Shown(S, at) == [t \in Tables |-> [p \in S |-> SubSeq(life[p], 1, at[t][p])]]

Asked(tables) == DOMAIN tables["prospects"]

\* A row is the place <<p, i>> of its transaction, an entry of a list that a row
\* holds the row and its place in the list: what is counted is a set of these.
Rows(tables, t, kind) ==
    UNION {{p} \X {i \in DOMAIN tables[t][p] : tables[t][p][i].kind = kind} : p \in Asked(tables)}
RowOf(tables, t, row) == tables[t][row[1]][row[2]]
Entries(list) == UNION {{row} \X DOMAIN list[row] : row \in DOMAIN list}
TotalOver(S, Amount(_)) == FoldSet(LAMBDA x, n : n + Amount(x), 0, S)

StatusOf(tables, p) ==
    LET shown == SelectSeq(tables["prospects"][p], LAMBDA w : w.kind \in {"created", "status"})
    IN IF shown = <<>> THEN "absent" ELSE Last(shown).status
Found(tables) == {p \in Asked(tables) : StatusOf(tables, p) # "absent"}

EvidenceShown(tables, t, p) ==
    UNION {RowOf(tables, t, row).ids : row \in {r \in Rows(tables, t, "evidence") : r[1] = p}}

NotDuplicate(tables) == {p \in Found(tables) : StatusOf(tables, p) # "DUPLICATE"}
\* The prospects with at least n rows of evidence.
Sourced(tables, n) == {p \in NotDuplicate(tables) : Cardinality(EvidenceShown(tables, "evidence", p)) >= n}

Volume(tables) ==
    LET with(statuses) == Cardinality({p \in Found(tables) : StatusOf(tables, p) \in statuses})
    IN [ discovered |-> Cardinality(Found(tables)),
         duplicated |-> with({"DUPLICATE"}),
         researched |-> Cardinality(Sourced(tables, 1)),
         qualified  |-> with({"PASS"}),
         failed     |-> with({"FAILED", "TIMED_OUT"}) ]

\* Every rate below is the pair of what is counted above its line and below it: the
\* code divides the numbers, or gives None when there is nothing below the line.

Claims(tables) ==
    Entries([row \in Rows(tables, "drafts", "drafts") |-> RowOf(tables, "drafts", row).claims])
\* A claim is grounded when it cites something, all of which is a row the report
\* has read and holds what the claim says.
GroundedClaims(tables) ==
    {e \in Claims(tables) :
        LET claim == RowOf(tables, "drafts", e[1]).claims[e[2]]
        IN /\ claim.ids # {} /\ claim.ids \subseteq EvidenceShown(tables, "evidence", e[1][1])
           /\ claim.backed}

Dimensions(tables) ==
    Entries([row \in Rows(tables, "scores", "score") |-> RowOf(tables, "scores", row).dimensions])

Quality(tables) ==
    [ coverage   |-> <<Sourced(tables, 3), NotDuplicate(tables)>>,
      claims     |-> <<GroundedClaims(tables), Claims(tables)>>,
      dimensions |-> <<{e \in Dimensions(tables) : RowOf(tables, "scores", e[1]).dimensions[e[2]]},
                       Dimensions(tables)>> ]

\* A step has succeeded for a prospect when any attempt has: the prospects of a
\* step are counted, not its attempts.
StepRates(tables) ==
    LET attempts == Rows(tables, "tasks", "task")
        task(row) == RowOf(tables, "tasks", row)
        tried(step) == {row \in attempts : task(row).step = step}
    IN [step \in {task(row).step : row \in attempts} |->
            <<{row[1] : row \in {r \in tried(step) : task(r).status = "OK"}}, {row[1] : row \in tried(step)}>>]

Checks(tables) ==
    Entries([row \in Rows(tables, "reviews", "review") |-> RowOf(tables, "reviews", row).checks])
\* Of each check, the reviews that passed it and those that made it.
Guardrails(tables) ==
    LET checks == Checks(tables)
        check(e) == RowOf(tables, "reviews", e[1]).checks[e[2]]
        made(id) == {e \in checks : check(e).id = id}
    IN [id \in {check(e).id : e \in checks} |-> <<{e \in made(id) : check(e).passed}, made(id)>>]

\* One call without a price, and there is no sum: none is better than part of one.
LLMUsage(tables) ==
    LET calls == Rows(tables, "llm_calls", "llm")
        call(row) == RowOf(tables, "llm_calls", row)
    IN [ logical  |-> Cardinality(calls),
         attempts |-> TotalOver(calls, LAMBDA row : call(row).attempts),
         cost     |-> IF calls # {} /\ \A row \in calls : call(row).cost # Unpriced
                      THEN TotalOver(calls, LAMBDA row : call(row).cost) ELSE Unpriced ]

Documents(tables) ==
    Entries([row \in Rows(tables, "documents", "documents") |-> RowOf(tables, "documents", row).docs])
\* The evidence is read again, after the documents; the scores are those read before.
SearchQuality(tables) ==
    LET docs == Documents(tables)
        doc(e) == RowOf(tables, "documents", e[1]).docs[e[2]]
        winners == {e \in docs : doc(e).winner}
        used == {e \in winners : doc(e).id \in EvidenceShown(tables, "evidence_again", e[1][1])}
    IN [utilization |-> <<used, winners>>, unique |-> <<winners, docs>>]

\* Of the scores, those that rest on a grounded industry (the size has the same figure),
\* and those that could not decide an exclusion.
ScoreQuality(tables) ==
    LET scores == Rows(tables, "scores", "score")
    IN [ industry  |-> <<{row \in scores : RowOf(tables, "scores", row).industry}, scores>>,
         undecided |-> <<{row \in scores : RowOf(tables, "scores", row).undecided}, scores>> ]

\* A channel holds what the last answer that named an address or profile said of it, for
\* an empty answer replaces nothing: the prospects whose channel is so.
Current(tables, Named(_), IsSo(_)) ==
    LET named(p) == {i \in DOMAIN tables["channels"][p] :
                        LET w == tables["channels"][p][i]
                        IN w.kind = "enrichment" /\ w.ok /\ Named(w)}
    IN {p \in Found(tables) :
           \E i \in named(p) : (\A j \in named(p) : j <= i) /\ IsSo(tables["channels"][p][i])}

\* A call refused for its budget was not attempted.
Attempted(tables) ==
    {row \in Rows(tables, "enrichment_calls", "enrichment") : RowOf(tables, "enrichment_calls", row).called}

\* Channels and enrichments are read for the prospects the report began with, calls
\* for the whole run.
EnrichmentMetrics(tables) ==
    LET attempted == Attempted(tables)
        matched == {row \in Rows(tables, "enrichments", "enrichment") :
                       row[1] \in Found(tables) /\ RowOf(tables, "enrichments", row).matched}
        emails(states) == Current(tables, LAMBDA w : w.email # "none", LAMBDA w : w.email \in states)
        resolved == Current(tables, LAMBDA w : w.profile # "none", LAMBDA w : w.profile = "resolved")
    IN [ matched    |-> <<matched, attempted>>,
         emailFound |-> <<emails({"found", "verified"}), attempted>>,
         verified   |-> <<emails({"verified"}), emails({"found", "verified"})>>,
         resolved   |-> <<resolved, attempted>> ]

Rates(tables) ==
    <<Quality(tables), StepRates(tables), Guardrails(tables), SearchQuality(tables), ScoreQuality(tables),
      EnrichmentMetrics(tables)>>

Report(tables) == [volume |-> Volume(tables), rates |-> Rates(tables), llm |-> LLMUsage(tables)]

-----------------------------------------------------------------------------
(* Properties.                                                             *)

\* Whatever is written between the reads, no rate of a report exceeds 1: what is
\* counted above the line was committed with, or after, what is counted below.
RatesAreFractions ==
    LET rates == Rates(Shown(Prospect, seen))
    IN Reported => \A i \in DOMAIN rates : \A r \in DOMAIN rates[i] :
                       Cardinality(rates[i][r][1]) <= Cardinality(rates[i][r][2])

\* What a report says of the prospects that were final when it was begun is what
\* it would say of them had the run been over: torn reads concern the others only.
Settled == {p \in Prospect : seen["prospects"][p] = Len(life[p])}
Whole == [t \in Tables |-> [p \in Prospect |-> Len(life[p])]]
SettledIsExact == Reported => Report(Shown(Settled, seen)) = Report(Shown(Settled, Whole))

\* A report that was read while the run was writing is torn, but within these bounds.
ReportIsFaithful == RatesAreFractions /\ SettledIsExact

-----------------------------------------------------------------------------
(* What keeps a report within these bounds: of two tables, the one read later  *)
(* shows no less of a prospect, and none shows what is not committed.          *)

MetricsTypeOK ==
    /\ life \in [Prospect -> Seq(Transaction)]
    /\ committed \in [Prospect -> Nat]
    /\ reading \in 0..(Len(ReadOrder) + 1)
    /\ seen \in [Tables -> [Prospect -> Nat]]

NoneIsAhead == \A p \in Prospect : committed[p] <= Len(life[p])

ReadsAreOrdered ==
    \A j, k \in DOMAIN ReadOrder :
        j <= k /\ k < reading =>
            \A p \in Prospect : /\ seen[ReadOrder[j]][p] <= seen[ReadOrder[k]][p]
                               /\ seen[ReadOrder[k]][p] <= committed[p]

MetricsIInv == MetricsTypeOK /\ NoneIsAhead /\ ReadsAreOrdered
=============================================================================
