---------------------------- MODULE SourceSelection ----------------------------
(***************************************************************************)
(* From the queries of one company to its evidence: what fetch_sources keeps  *)
(* of their answers, the pages it sends to extraction, and the documents that  *)
(* research makes evidence of.  Two loops of the code are each met twice:      *)
(* the round-robin over the categories, which rations what was found and then  *)
(* what is extracted, and the union-find that groups documents by their        *)
(* source, before the extraction and, when it has changed them, after it.      *)
(*                                                                          *)
(* A page is a record: raw (its URL), own (the URL is on the company's        *)
(* domain), url (the canonical URL or "none"), sha (a digest of its text, or   *)
(* "none"), len, dated, relevance and id (the provider's, 0 when it gives      *)
(* none).  A document is a page with a unique ref, the category that found it,  *)
(* its rank in it, and ok unless it could not be extracted.                    *)
(***************************************************************************)
EXTENDS Integers, Sequences, FiniteSets

CONSTANTS
    Order,        \* the categories of the company's queries
    Page,         \* what a search may find
    Refs,         \* the identifiers of documents: fresh ones, in no order
    MaxHits,      \* results of a query
    Ceiling,      \* max_result_occurrences_per_prospect
    MaxSources,   \* max_sources_per_prospect
    Extracted     \* what the extraction may say of a page

ASSUME SourcesAssumption ==
    /\ Order \in Seq(STRING)
    /\ \A i, j \in DOMAIN Order : Order[i] = Order[j] => i = j
    /\ Page \subseteq [ raw : STRING, own : BOOLEAN, url : STRING, sha : STRING, len : Nat,
                        dated : BOOLEAN, relevance : Int, id : Int ]
    /\ Refs \subseteq Int
    /\ MaxHits \in Nat /\ Ceiling \in Nat /\ MaxSources \in Nat
    /\ Extracted \subseteq [kind : {"read", "empty", "failed", "missing"}, sha : STRING, len : Nat]

VARIABLES
    stage,        \* search, allocate, group, place, rank, extract, regroup or done
    at,           \* the place of the loop of this stage
    taken,        \* results of the current query
    rows,         \* of each category, what the round-robin draws from
    cursor,       \* of each category, how many were drawn
    progressed,   \* this pass of the round-robin has drawn something
    drawn,        \* what it has drawn
    occurrences,  \* the documents that were kept
    root,         \* of each identity, the one that stands for its group
    sources       \* what research makes evidence of: the places of the winners

drawing == <<rows, cursor, progressed, drawn>>
sourceVars == <<stage, at, taken, drawing, occurrences, root, sources>>

\* The category queries of a company: three always, two for what the Play targets.
SourceQueries(targets, max) ==
    LET plan == SelectSeq(<<"funding", "careers", "size", "persona", "technology">>,
                          LAMBDA c : c \in {"funding", "careers", "size"} \cup targets)
    IN SubSeq(plan, 1, IF max < Len(plan) THEN max ELSE Len(plan))

Categories == {Order[i] : i \in DOMAIN Order}
AtEnd(s) == at = Len(s) + 1

SourcesInit ==
    /\ stage = "search" /\ at = 1 /\ taken = 0
    /\ rows = [c \in Categories |-> <<>>]
    /\ cursor = [c \in Categories |-> 0]
    /\ progressed = FALSE
    /\ drawn = <<>> /\ occurrences = <<>>
    /\ root = <<>>
    /\ sources = {}

-----------------------------------------------------------------------------
(* Searching: every query is issued, whatever the others have found.          *)

ToSourceDocument(page, ref, category, rank) ==
    [ ref |-> ref, cat |-> category, raw |-> page.raw, url |-> page.url, sha |-> page.sha, ok |-> TRUE,
      len |-> page.len, dated |-> page.dated, relevance |-> page.relevance, rank |-> rank, id |-> page.id ]

Fresh == Refs \ UNION {{rows[c][i].ref : i \in DOMAIN rows[c]} : c \in Categories}

\* A result off the company's domain never becomes a document; the rank of the
\* others is their place among those that stay.
SearchResult(page) ==
    /\ stage = "search" /\ at \in DOMAIN Order /\ taken < MaxHits
    /\ taken' = taken + 1
    /\ IF page.own
         THEN \E ref \in Fresh :
                 rows' = [rows EXCEPT ![Order[at]] =
                             Append(@, ToSourceDocument(page, ref, Order[at], Len(@)))]
         ELSE UNCHANGED rows
    /\ UNCHANGED <<stage, at, cursor, progressed, drawn, occurrences, root, sources>>

\* The answer has no more results; a query that failed or was refused for its
\* budget has none at all.
NextQuery ==
    /\ stage = "search" /\ at \in DOMAIN Order
    /\ at' = at + 1 /\ taken' = 0
    /\ UNCHANGED <<stage, drawing, occurrences, root, sources>>

StartAllocation ==
    /\ stage = "search" /\ AtEnd(Order)
    /\ stage' = "allocate" /\ at' = 1
    /\ UNCHANGED <<taken, drawing, occurrences, root, sources>>

-----------------------------------------------------------------------------
(* The round-robin.  The order of extraction is cut to MaxSources when it is   *)
(* complete, which is to stop once it is that long.                           *)

LimitOf(s) == IF s \in {"allocate", "group"} THEN Ceiling ELSE MaxSources

\* Mutant: a category is drained before the next has its turn.
DrawInTurn ==
    /\ stage \in {"allocate", "rank"} /\ Len(drawn) < LimitOf(stage) /\ at \in DOMAIN Order
    /\ LET c == Order[at] IN
       IF cursor[c] < Len(rows[c])
         THEN /\ drawn' = Append(drawn, rows[c][cursor[c] + 1])
              /\ cursor' = [cursor EXCEPT ![c] = @ + 1]
              /\ progressed' = TRUE
              /\ UNCHANGED at
         ELSE at' = at + 1 /\ UNCHANGED <<drawn, cursor, progressed>>
    /\ UNCHANGED <<stage, taken, rows, occurrences, root, sources>>

\* The turn of one category.
Draw ==
    /\ stage \in {"allocate", "rank"} /\ Len(drawn) < LimitOf(stage) /\ at \in DOMAIN Order
    /\ LET c == Order[at] IN
       IF cursor[c] < Len(rows[c])
         THEN /\ drawn' = Append(drawn, rows[c][cursor[c] + 1])
              /\ cursor' = [cursor EXCEPT ![c] = @ + 1]
              /\ progressed' = TRUE
         ELSE UNCHANGED <<drawn, cursor, progressed>>
    /\ at' = at + 1
    /\ UNCHANGED <<stage, taken, rows, occurrences, root, sources>>

NextPass ==
    /\ stage \in {"allocate", "rank"} /\ Len(drawn) < LimitOf(stage) /\ AtEnd(Order) /\ progressed
    /\ at' = 1 /\ progressed' = FALSE
    /\ UNCHANGED <<stage, taken, rows, cursor, drawn, occurrences, root, sources>>

\* As much as was asked for, or a pass that found nothing.
AllDrawn == Len(drawn) >= LimitOf(stage) \/ (AtEnd(Order) /\ ~progressed)

-----------------------------------------------------------------------------
(* Grouping: documents with one identity or one digest are one source, and so  *)
(* is what they have in common with others.                                  *)

Identity(d) == IF d.url # "none" THEN <<"url", d.url>> ELSE <<"ref", d.ref>>
Identities(docs) == {Identity(docs[i]) : i \in DOMAIN docs}

StartGrouping(next, docs) ==
    /\ stage' = next /\ at' = 1
    /\ occurrences' = docs
    /\ root' = [k \in Identities(docs) |-> k]

EndAllocation ==
    /\ stage = "allocate" /\ AllDrawn
    /\ StartGrouping("group", drawn)
    /\ UNCHANGED <<taken, drawing, sources>>

\* The documents before this one that have its digest.
SameText == {j \in 1..(at - 1) : occurrences[j].sha = occurrences[at].sha /\ occurrences[at].sha # "none"}

\* Mutant: the digests are left out of it.
IgnoreText ==
    /\ stage \in {"group", "regroup"} /\ at \in DOMAIN occurrences
    /\ at' = at + 1
    /\ UNCHANGED <<stage, taken, drawing, occurrences, root, sources>>

\* The group of a document is put under the one of the first that has its digest.
Unite ==
    /\ stage \in {"group", "regroup"} /\ at \in DOMAIN occurrences
    /\ LET first == CHOOSE j \in SameText : \A k \in SameText : j <= k
           new == root[Identity(occurrences[at])]
           old == root[Identity(occurrences[first])]
       IN root' = IF SameText = {} THEN root
                  ELSE [k \in DOMAIN root |-> IF root[k] = new THEN old ELSE root[k]]
    /\ at' = at + 1
    /\ UNCHANGED <<stage, taken, drawing, occurrences, sources>>

RootOf(i) == root[Identity(occurrences[i])]
Group(i) == {j \in DOMAIN occurrences : RootOf(j) = RootOf(i)}

\* Extracted before not, longer before shorter, dated before not, then relevance,
\* rank and the provider's id or, without one, the ref.
SortKey(d) ==
    << IF d.ok THEN 0 ELSE 1, -d.len, IF d.dated THEN 0 ELSE 1, -d.relevance, d.rank,
       IF d.id # 0 THEN d.id ELSE d.ref >>
Precedes(d, e) ==
    \E i \in 1..6 : SortKey(d)[i] < SortKey(e)[i] /\ \A j \in 1..(i - 1) : SortKey(d)[j] = SortKey(e)[j]

\* Of those that no other precedes, the first.
Comes(docs, i, j) == Precedes(docs[i], docs[j]) \/ (i < j /\ ~Precedes(docs[j], docs[i]))
Foremost(docs, places) == CHOOSE i \in places : \A j \in places \ {i} : Comes(docs, i, j)
Winner(i) == Foremost(occurrences, Group(i))

-----------------------------------------------------------------------------
(* Extraction: the winners go back to the category that found them.           *)

EndGrouping ==
    /\ stage = "group" /\ AtEnd(occurrences)
    /\ stage' = "place" /\ at' = 1
    /\ rows' = [c \in Categories |-> <<>>]
    /\ cursor' = [c \in Categories |-> 0]
    /\ drawn' = <<>>
    /\ UNCHANGED <<taken, progressed, occurrences, root, sources>>

\* Groups come in the order of the first document of each.
Place ==
    /\ stage = "place" /\ at \in DOMAIN occurrences
    /\ LET winner == occurrences[Winner(at)] IN
       rows' = IF \A j \in Group(at) : at <= j THEN [rows EXCEPT ![winner.cat] = Append(@, winner)] ELSE rows
    /\ at' = at + 1
    /\ UNCHANGED <<stage, taken, cursor, progressed, drawn, occurrences, root, sources>>

StartRanking ==
    /\ stage = "place" /\ AtEnd(occurrences)
    /\ stage' = "rank" /\ at' = 1 /\ progressed' = FALSE
    /\ UNCHANGED <<taken, rows, cursor, drawn, occurrences, root, sources>>

EndRanking ==
    /\ stage = "rank" /\ AllDrawn
    /\ stage' = "extract"
    /\ UNCHANGED <<at, taken, drawing, occurrences, root, sources>>

\* A page that was read has a new text and digest, an empty one keeps its snippet,
\* and so does one that failed, which is marked.
ApplyAnswer(d, answer) ==
    CASE answer.kind = "read"   -> [d EXCEPT !.ok = TRUE, !.sha = answer.sha, !.len = answer.len]
      [] answer.kind = "empty"  -> [d EXCEPT !.ok = TRUE]
      [] answer.kind = "failed" -> [d EXCEPT !.ok = FALSE]
      [] OTHER                  -> d

\* The documents that were asked for are changed in place, among the occurrences.
ExtractWinners ==
    /\ stage = "extract" /\ drawn # <<>>
    /\ \E answers \in [{page.raw : page \in Page} -> Extracted] :
          StartGrouping("regroup",
              [i \in DOMAIN occurrences |->
                  IF \E k \in DOMAIN drawn : drawn[k] = occurrences[i]
                    THEN ApplyAnswer(occurrences[i], answers[occurrences[i].raw])
                    ELSE occurrences[i]])
    /\ UNCHANGED <<taken, drawing, sources>>

\* Nothing to ask for, no budget for it, or no answer.
NotExtracted ==
    /\ stage = "extract"
    /\ StartGrouping("regroup", occurrences)
    /\ UNCHANGED <<taken, drawing, sources>>

\* One row of evidence per winner, under an id derived from its identity.
Research ==
    /\ stage = "regroup" /\ AtEnd(occurrences)
    /\ stage' = "done"
    /\ sources' = {Winner(i) : i \in DOMAIN occurrences}
    /\ UNCHANGED <<at, taken, drawing, occurrences, root>>

SourcesNext ==
    \/ \E page \in Page : SearchResult(page)
    \/ NextQuery \/ StartAllocation
    \/ Draw \/ NextPass \/ EndAllocation
    \/ Unite \/ EndGrouping \/ Place \/ StartRanking \/ EndRanking
    \/ ExtractWinners \/ NotExtracted \/ Research

SourcesSpec == SourcesInit /\ [][SourcesNext]_sourceVars

-----------------------------------------------------------------------------
(* Properties.                                                             *)

\* How many of the places were given to a category.
Got(c) == Cardinality({i \in DOMAIN drawn : drawn[i].cat = c})

\* No category gets a second place before another that has more to give got its
\* first, neither in what is kept nor in what is extracted; and no place is left
\* empty, and none is added, while there is something to put there.
SourcesAreShared ==
    /\ stage \in {"allocate", "group", "rank", "extract"} =>
          /\ Len(drawn) <= LimitOf(stage)
          /\ \A c, d \in Categories : Got(c) + 1 < Got(d) => Got(c) = Len(rows[c])
    /\ stage \in {"group", "extract"} =>
          Len(drawn) = LimitOf(stage) \/ \A c \in Categories : Got(c) = Len(rows[c])

\* What the grouping stands for: documents are the same source when nothing that
\* respects identities and digests tells them apart.
SameSource(d, e) == Identity(d) = Identity(e) \/ (d.sha # "none" /\ d.sha = e.sha)
Respects(docs, S) == \A i \in S, j \in DOMAIN docs : SameSource(docs[i], docs[j]) => j \in S
SourceOf(docs, i) ==
    {j \in DOMAIN docs : \A S \in SUBSET DOMAIN docs : i \in S /\ Respects(docs, S) => j \in S}

\* The best document of each source, and no other, stands for it: in what is
\* offered for extraction, and in the evidence, where no two rows have one id.
OneWinnerPerSource ==
    /\ stage \in {"rank", "extract"} =>
          \A i \in DOMAIN occurrences :
              LET source == SourceOf(occurrences, i)
                  offered == UNION {{c} \X {k \in DOMAIN rows[c] : \E j \in source : rows[c][k] = occurrences[j]} :
                                      c \in Categories}
              IN \E p \in offered :
                     /\ offered = {p}
                     /\ rows[p[1]][p[2]] = occurrences[Foremost(occurrences, source)]
    /\ stage = "done" =>
          /\ \A i \in DOMAIN occurrences :
                 LET source == SourceOf(occurrences, i)
                 IN sources \cap source = {Foremost(occurrences, source)}
          /\ \A v, w \in sources : Identity(occurrences[v]) = Identity(occurrences[w]) => v = w

-----------------------------------------------------------------------------
(* The inductive invariant: a conjunct for each loop.                       *)

Docs ==
    [ ref : Refs, cat : Categories, raw : {page.raw : page \in Page}, url : STRING, sha : STRING, ok : BOOLEAN,
      len : Nat, dated : BOOLEAN, relevance : Int, rank : Nat, id : Int ]

SourcesTypeOK ==
    /\ stage \in {"search", "allocate", "group", "place", "rank", "extract", "regroup", "done"}
    /\ at \in Nat \ {0} /\ taken \in Nat
    /\ stage \in {"search", "allocate", "rank"} => at <= Len(Order) + 1
    /\ stage \in {"group", "place", "regroup"} => at <= Len(occurrences) + 1
    /\ rows \in [Categories -> Seq(Docs)]
    /\ cursor \in [Categories -> Nat]
    /\ progressed \in BOOLEAN
    /\ drawn \in Seq(Docs) /\ occurrences \in Seq(Docs)
    /\ root \in [Identities(occurrences) -> Identities(occurrences)]
    /\ sources \subseteq DOMAIN occurrences

\* No document is in two places of a table, nor are two of its documents called the same.
RefsAreUnique ==
    /\ \A c, d \in Categories : \A i \in DOMAIN rows[c], j \in DOMAIN rows[d] :
           rows[c][i].ref = rows[d][j].ref => c = d /\ i = j
    /\ \A i, j \in DOMAIN occurrences : occurrences[i].ref = occurrences[j].ref => i = j

\* The cursors count what was drawn, and it is what they have passed.
DrawnByCursor ==
    /\ \A c \in Categories : Got(c) = cursor[c] /\ cursor[c] <= Len(rows[c])
    /\ \A c \in Categories : \A i \in DOMAIN rows[c] : rows[c][i].cat = c
    /\ stage \in {"search", "allocate"} =>
          /\ \A k \in DOMAIN drawn : \E i \in 1..cursor[drawn[k].cat] : drawn[k] = rows[drawn[k].cat][i]
          /\ \A k, l \in DOMAIN drawn : drawn[k].ref = drawn[l].ref => k = l
    /\ stage \in {"search", "place"} => drawn = <<>>
    /\ Len(drawn) <= LimitOf(stage) \/ stage \in {"place", "regroup", "done"}

\* In pass n, the first k - 1 categories have had their turn: they are one place
\* ahead of the others, unless they have no more.
Turns(n, k) ==
    \A i \in DOMAIN Order :
        LET turns == IF i < k THEN n + 1 ELSE n
            found == Len(rows[Order[i]])
        IN cursor[Order[i]] = IF turns <= found THEN turns ELSE found

PassesInTurn ==
    /\ stage = "search" => ~progressed
    /\ stage \in {"allocate", "rank"} =>
          \E n \in Nat : /\ Turns(n, at)
                         /\ progressed <=> \E i \in DOMAIN Order : i < at /\ n < Len(rows[Order[i]])
    /\ stage \in {"group", "extract"} =>
          /\ \E n, k \in Nat : Turns(n, k)
          /\ Len(drawn) = LimitOf(stage) \/ \A c \in Categories : cursor[c] = Len(rows[c])

\* What no set that respects identities and digests can separate.
Linked(i, j) ==
    \A S \in SUBSET DOMAIN occurrences : Respects(occurrences, S) => (i \in S <=> j \in S)

\* The groups join nothing else, and have joined the equal digests so far.
GroupsAreSources ==
    /\ \A i, j \in DOMAIN occurrences : RootOf(i) = RootOf(j) => Linked(i, j)
    /\ stage \notin {"search", "allocate"} =>
          \A i, j \in DOMAIN occurrences :
              /\ stage \in {"group", "regroup"} => i < at /\ j < at
              /\ occurrences[i].sha # "none" /\ occurrences[i].sha = occurrences[j].sha
              => RootOf(i) = RootOf(j)

\* The first of each group.
IsHead(h) == h \in DOMAIN occurrences /\ \A j \in Group(h) : h <= j

WinnersArePlaced ==
    stage \in {"place", "rank", "extract"} =>
        LET placed == {h \in DOMAIN occurrences : IsHead(h) /\ (stage = "place" => h < at)}
        IN /\ \A h \in placed : \E k \in DOMAIN rows[occurrences[Winner(h)].cat] :
                  rows[occurrences[Winner(h)].cat][k] = occurrences[Winner(h)]
           /\ \A c \in Categories : \A k \in DOMAIN rows[c] :
                  \E h \in placed : rows[c][k] = occurrences[Winner(h)]

WinnersAreEvidence ==
    sources = IF stage = "done" THEN {Winner(i) : i \in DOMAIN occurrences} ELSE {}

SourcesIInv ==
    /\ SourcesTypeOK
    /\ RefsAreUnique
    /\ DrawnByCursor
    /\ PassesInTurn
    /\ GroupsAreSources
    /\ WinnersArePlaced
    /\ WinnersAreEvidence

=============================================================================
