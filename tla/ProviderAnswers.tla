---------------------------- MODULE ProviderAnswers ----------------------------
(***************************************************************************)
(* What a step does with the answers of a provider: each answer becomes a    *)
(* status, a status a retry, a repair, a value or a typed error, and a typed  *)
(* error a retry of the whole step or its end.  The four clients classify     *)
(* the same HTTP codes differently, on purpose.                              *)
(***************************************************************************)
EXTENDS Naturals

CONSTANTS
    MaxTransport,       \* max_transport_retries of the client
    MaxTries            \* max_retries of the step that calls it

ASSUME AnswersAssumption == MaxTransport \in Nat /\ MaxTries \in Nat

Provider == {"openai", "tavily", "hunter", "apollo"}

\* What can come back: no response, an HTTP code, or the body of a 200.
NoResponse == {"timeout", "unreachable"}
Refusing == {"3xx", "400", "401", "403", "404", "422", "429", "451", "5xx"}
BodyOf == [ openai |-> {"quota", "filtered", "truncated", "failed", "silent", "refusal",
                        "garbled", "misshapen", "good"},
            tavily |-> {"list", "misshapen", "empty", "some failed", "good"},
            hunter |-> {"garbled", "list", "misshapen", "empty", "good"},
            apollo |-> {"garbled", "list", "misshapen", "good"} ]
AnswerOf(p) == NoResponse \cup Refusing \cup BodyOf[p]

\* "quota" is a 429 whose body names an exhausted balance.
OpenAIStatus(a) ==
    CASE a = "401"                      -> "AUTH_ERROR"
      [] a = "quota"                    -> "QUOTA_EXHAUSTED"
      [] a = "429"                      -> "RATE_LIMITED"
      [] a = "timeout"                  -> "TIMEOUT"
      [] a = "filtered"                 -> "CONTENT_FILTERED"
      [] a = "truncated"                -> "TRUNCATED"
      [] a = "silent"                   -> "NO_OUTPUT"
      [] a = "refusal"                  -> "REFUSED"
      [] a = "garbled"                  -> "INVALID_JSON"
      [] a = "misshapen"                -> "SCHEMA_MISMATCH"
      [] a = "good"                     -> "OK"
      [] OTHER                          -> "PROVIDER_ERROR"

TavilyStatus(a) ==
    CASE a = "timeout"                  -> "TIMEOUT"
      [] a \in {"401", "403"}           -> "AUTH_ERROR"
      [] a \in {"400", "list", "misshapen"} -> "INVALID_RESPONSE"
      [] a = "429"                      -> "RATE_LIMITED"
      [] a = "empty"                    -> "EMPTY_RESULT"
      [] a = "some failed"              -> "PARTIAL_EXTRACTION"
      [] a = "good"                     -> "OK"
      [] OTHER                          -> "PROVIDER_ERROR"

\* Mutant: the table of the other enrichment provider.
HunterStatusLikeApollo(a) ==
    CASE a = "timeout"                  -> "TIMEOUT"
      [] a \in {"unreachable", "5xx"}   -> "PROVIDER_ERROR"
      [] a \in {"401", "403"}           -> "AUTH_ERROR"
      [] a = "429"                      -> "RATE_LIMITED"
      [] a \in {"good", "empty"}        -> "OK"
      [] OTHER                          -> "INVALID_RESPONSE"

\* A 403 is Hunter's throttling and a 429 its quota; no e-mail is an answer.
HunterStatus(a) ==
    CASE a = "timeout"                  -> "TIMEOUT"
      [] a \in {"unreachable", "5xx"}   -> "PROVIDER_ERROR"
      [] a = "401"                      -> "AUTH_ERROR"
      [] a = "403"                      -> "RATE_LIMITED"
      [] a = "451"                      -> "LEGAL_RESTRICTION"
      [] a = "429"                      -> "QUOTA_EXHAUSTED"
      [] a \in {"good", "empty"}        -> "OK"
      [] OTHER                          -> "INVALID_RESPONSE"

ApolloStatus(a) ==
    CASE a = "timeout"                  -> "TIMEOUT"
      [] a \in {"unreachable", "5xx"}   -> "PROVIDER_ERROR"
      [] a \in {"401", "403"}           -> "AUTH_ERROR"
      [] a = "429"                      -> "RATE_LIMITED"
      [] a = "good"                     -> "OK"
      [] OTHER                          -> "INVALID_RESPONSE"

Status(p, a) == CASE p = "openai" -> OpenAIStatus(a)
                  [] p = "tavily" -> TavilyStatus(a)
                  [] p = "hunter" -> HunterStatus(a)
                  [] p = "apollo" -> ApolloStatus(a)

Usable(p) == {"OK"} \cup IF p = "tavily" THEN {"EMPTY_RESULT", "PARTIAL_EXTRACTION"} ELSE {}
Transient == {"TIMEOUT", "RATE_LIMITED", "PROVIDER_ERROR"}
Repairable == {"INVALID_JSON", "SCHEMA_MISMATCH", "NO_OUTPUT"}

\* STEP_RETRYABLE and ENRICHMENT_STEP_RETRYABLE; the errors of a search are
\* swallowed by fetch_sources.
StepRetryable(p, status) == p # "tavily" /\ status \in Transient

VARIABLES
    provider,   \* the client the step calls
    requests,   \* requests the step has made
    retries,    \* transport retries of the current call
    repaired,   \* the repair of the current call is used
    tries,      \* retries of the step
    last,       \* the last answer
    outcome     \* "asking", "value", or the status of the error the step ends with

callVars == <<retries, repaired>>
answerVars == <<provider, requests, retries, repaired, tries, last, outcome>>

AnswersInit ==
    /\ provider \in Provider
    /\ requests = 0 /\ retries = 0 /\ tries = 0
    /\ repaired = FALSE
    /\ last = "none"
    /\ outcome = "asking"

\* The typed error of a status leaves the call: Step.execute may start it anew.
Raise(status) ==
    IF StepRetryable(provider, status) /\ tries < MaxTries
    THEN /\ tries' = tries + 1
         /\ retries' = 0 /\ repaired' = FALSE
         /\ UNCHANGED outcome
    ELSE /\ outcome' = status
         /\ UNCHANGED <<callVars, tries>>

GiveValue ==
    /\ outcome' = "value"
    /\ UNCHANGED <<callVars, tries>>

RepairOnce(status) ==
    IF ~repaired
    THEN /\ repaired' = TRUE
         /\ UNCHANGED <<retries, tries, outcome>>
    ELSE Raise("SCHEMA_VIOLATION")

RetryOrRaise(status) ==
    IF retries < MaxTransport
    THEN /\ retries' = retries + 1
         /\ UNCHANGED <<repaired, tries, outcome>>
    ELSE Raise(status)

\* One request and what the loop of the client makes of its answer.
Ask(a) ==
    LET status == Status(provider, a) IN
    /\ outcome = "asking"
    /\ requests' = requests + 1
    /\ last' = a
    /\ CASE status \in Usable(provider) -> GiveValue
         [] status \in Repairable       -> RepairOnce(status)
         [] status \in Transient        -> RetryOrRaise(status)
         [] OTHER                       -> Raise(status)
    /\ UNCHANGED provider

AnswersNext == \E a \in AnswerOf(provider) : Ask(a)

AnswersSpec == AnswersInit /\ [][AnswersNext]_answerVars

-----------------------------------------------------------------------------
(* Properties.                                                             *)

\* What a provider means by "do not ask again": the credentials are refused,
\* the balance is spent, the law forbids it, or the request itself is refused.
Firm(p) ==
    CASE p = "openai" -> {"401", "quota", "filtered", "truncated", "refusal"}
      [] p = "tavily" -> {"400", "401", "403"}
      [] p = "hunter" -> {"3xx", "400", "401", "404", "422", "429", "451"}
      [] p = "apollo" -> {"3xx", "400", "401", "403", "404", "422", "451"}

\* The requests of one call: a first one, its retries, and for the LLM a repair.
PerCall == 1 + MaxTransport + IF provider = "openai" THEN 1 ELSE 0

\* No loop, of a call or of its step, asks again after a firm answer; a step
\* makes no more requests than its two loops and one repair per call allow;
\* a value comes of a usable answer only; and it is for a 451 of Hunter, and
\* for nothing else, that an identity is suppressed.
AnswersAreRespected ==
    /\ last # "none" /\ last \in Firm(provider) => outcome \notin {"asking", "value"}
    /\ requests <= (1 + MaxTries) * PerCall
    /\ outcome = "value" => last \in {"good", "empty", "some failed"}
    /\ outcome = "LEGAL_RESTRICTION" <=> provider = "hunter" /\ last = "451"

-----------------------------------------------------------------------------
(* The inductive invariant behind them.                                    *)

\* Of the requests made, those the retries of the step pay for, those the
\* current call has paid for, and after the end the one that ended it.
Spent == retries + IF repaired THEN 1 ELSE 0
Closing == IF outcome = "asking" THEN 0 ELSE 1

RequestsArePaidFor ==
    /\ requests \in Nat
    /\ retries \in 0..MaxTransport
    /\ tries \in 0..MaxTries
    /\ repaired \in BOOLEAN
    /\ repaired => provider = "openai"
    /\ requests <= tries * PerCall + Spent + Closing

\* The outcome is what the last answer allows.
OutcomeFollowsAnswer ==
    /\ outcome \in {"asking", "value"} => last \notin Firm(provider)
    /\ outcome = "value" => last \in {"good", "empty", "some failed"}
    /\ outcome = "LEGAL_RESTRICTION" <=> provider = "hunter" /\ last = "451"

AnswersIInv == provider \in Provider /\ RequestsArePaidFor /\ OutcomeFollowsAnswer
==============================================================================
