------------------------------ MODULE RunIntake ------------------------------
(***************************************************************************)
(* How runs come into being: the operator's session, the gate of Live mode,  *)
(* the two caps counted from the runs table, the creation of the run, and     *)
(* the companies and prospects its discovery stores.  Every await is a step:  *)
(* what a request has counted, or a run has looked up, may be stale when it   *)
(* writes.                                                                 *)
(***************************************************************************)
EXTENDS Integers, Sequences, FiniteSets

CONSTANTS
    Request,            \* requests the server works on at the same time
    Seeds,              \* what a discovery may find: sequences of domains
    MaxActive,          \* live_max_active_runs
    Allowance,          \* live_daily_run_allowance
    Day,                \* 24 hours, in ticks
    Lifetime,           \* session_max_age_s
    LoginAttempts,      \* operator_login_rate_limit_attempts
    LoginWindow,        \* operator_login_rate_limit_window_s
    MaxNow, MaxRuns, MaxDemo, MaxStarts    \* bounds: ticks, runs, last Demo run, process starts

Mode == {"demo", "live"}
Domain == UNION {{s[i] : i \in DOMAIN s} : s \in Seeds}
NoCookie == [key |-> 0, issued |-> 0]

ASSUME IntakeAssumption ==
    /\ IsFiniteSet(Request) /\ Request # {}
    /\ Seeds \subseteq Seq(Domain)
    /\ {MaxActive, Allowance, Lifetime, LoginAttempts, LoginWindow} \subseteq Nat
    /\ {Day, MaxNow, MaxRuns, MaxDemo, MaxStarts} \subseteq Nat

VARIABLES
    now,
    started,    \* process starts so far: each has the signing key of its number
    failures,   \* times of the failed logins the limiter remembers
    cookie,     \* the browser's session cookie
    request,    \* [pc, mode, gate, age] of each request
    runs,       \* the runs table with the prospects of each run, and what its
                \* executor holds in memory
    companies   \* the companies table: the domains

session == <<now, started, failures, cookie>>
tables == <<runs, companies>>
intakeVars == <<session, request, tables>>

Idle == [pc |-> "idle", mode |-> "demo", gate |-> 0, age |-> 0]

IntakeInit ==
    /\ now = 0 /\ started = 1
    /\ failures = <<>> /\ cookie = NoCookie
    /\ request = [r \in Request |-> Idle]
    /\ runs = <<>> /\ companies = {}

-----------------------------------------------------------------------------
(* Sessions.                                                               *)

TimePasses ==
    /\ now < MaxNow
    /\ now' = now + 1
    /\ UNCHANGED <<started, failures, cookie, request, tables>>

\* The sliding window of the limiter.
Prune(hits) == SelectSeq(hits, LAMBDA t : now - t <= LoginWindow)
IsBlocked(hits) == Len(Prune(hits)) >= LoginAttempts

Login ==
    /\ ~IsBlocked(failures)
    /\ failures' = <<>>
    /\ cookie' = [key |-> started, issued |-> now]
    /\ UNCHANGED <<now, started, request, tables>>

WrongPassphrase ==
    /\ ~IsBlocked(failures)
    /\ failures' = Append(Prune(failures), now)
    /\ UNCHANGED <<now, started, cookie, request, tables>>

Logout ==
    /\ cookie # NoCookie
    /\ cookie' = NoCookie
    /\ UNCHANGED <<now, started, failures, request, tables>>

\* A new process, with a new signing key and the one before it as the old key:
\* requests and the limiter's memory are gone, the tables are not.
Restart ==
    /\ started < MaxStarts
    /\ started' = started + 1
    /\ failures' = <<>>
    /\ request' = [r \in Request |-> Idle]
    /\ UNCHANGED <<now, cookie, tables>>

\* Mutant: the age of the cookie is left to the browser.
SessionSigned ==
    /\ cookie # NoCookie
    /\ cookie.key >= started - 1

\* The current key, then the old one; never past its age.
SessionValid ==
    /\ cookie # NoCookie
    /\ cookie.key >= started - 1
    /\ now - cookie.issued <= Lifetime

-----------------------------------------------------------------------------
(* start_run.                                                              *)

Move(r, pc) == request' = [request EXCEPT ![r].pc = pc]
Leave(r) == request' = [request EXCEPT ![r] = Idle]

\* The bounds of the model: Demo runs are among the first MaxDemo.
Room(mode) == Len(runs) < IF mode = "demo" THEN MaxDemo ELSE MaxRuns

\* Mutant: the gate looks at the mode of the play, not at that of the request.
EnterByPlayMode(r, play, body) ==
    /\ request[r].pc = "idle" /\ Room(body)
    /\ play = "live" => SessionValid
    /\ request' = [request EXCEPT ![r] =
            [pc |-> IF body = "live" THEN "count active" ELSE "create", mode |-> body,
             gate |-> IF body = "live" /\ SessionValid THEN cookie.key ELSE 0,
             age |-> IF body = "live" /\ SessionValid THEN now - cookie.issued ELSE 0]]
    /\ UNCHANGED <<session, tables>>

\* The mode of the request, if it has one, overrides that of its play.  The
\* key and the age of the session the gate saw are kept for the properties.
Enter(r, play, body) ==
    LET mode == IF body = "none" THEN play ELSE body IN
    /\ request[r].pc = "idle" /\ Room(mode)
    /\ mode = "live" => SessionValid
    /\ request' = [request EXCEPT ![r] =
            [pc |-> IF mode = "live" THEN "count active" ELSE "create", mode |-> mode,
             gate |-> IF mode = "live" THEN cookie.key ELSE 0,
             age |-> IF mode = "live" THEN now - cookie.issued ELSE 0]]
    /\ UNCHANGED <<session, tables>>

Live(i) == runs[i].mode = "live"
Active == {i \in DOMAIN runs : Live(i) /\ runs[i].status = "RUNNING"}
Recent == {i \in DOMAIN runs : Live(i) /\ runs[i].begun >= now - Day}

CountActive(r) ==
    /\ request[r].pc = "count active"
    /\ IF Cardinality(Active) >= MaxActive THEN Leave(r) ELSE Move(r, "count recent")
    /\ UNCHANGED <<session, tables>>

CountRecent(r) ==
    /\ request[r].pc = "count recent"
    /\ IF Cardinality(Recent) >= Allowance THEN Leave(r) ELSE Move(r, "create")
    /\ UNCHANGED <<session, tables>>

\* The run is stored as RUNNING and its executor launched.
Create(r, seeds) ==
    /\ request[r].pc = "create" /\ Room(request[r].mode)
    /\ runs' = Append(runs, [mode |-> request[r].mode, gate |-> request[r].gate,
                             age |-> request[r].age, begun |-> now, process |-> started, status |-> "RUNNING",
                             todo |-> seeds, looked |-> "no", lost |-> FALSE, prospects |-> <<>>])
    /\ Leave(r)
    /\ UNCHANGED <<session, companies>>

-----------------------------------------------------------------------------
(* discover_and_dedupe: one company after the other.                       *)

Driving(i) == runs[i].status = "RUNNING" /\ runs[i].process = started
Next1(i) == Head(runs[i].todo)

\* get_or_create reads ...
LookUp(i) ==
    /\ Driving(i) /\ runs[i].todo # <<>> /\ runs[i].looked = "no"
    /\ runs' = [runs EXCEPT ![i].looked = IF Next1(i) \in companies THEN "stored" ELSE "absent"]
    /\ UNCHANGED <<session, request, companies>>

\* ... and inserts; the unique index refuses a domain that came in between, and
\* the error ends the run.
Insert(i) ==
    /\ Driving(i) /\ runs[i].looked = "absent"
    /\ IF Next1(i) \in companies
       THEN /\ runs' = [runs EXCEPT ![i].status = "FAILED", ![i].lost = TRUE]
            /\ UNCHANGED companies
       ELSE /\ runs' = [runs EXCEPT ![i].looked = "added"]
            /\ companies' = companies \cup {Next1(i)}
    /\ UNCHANGED <<session, request>>

Seen(i, domain) == \E n \in DOMAIN runs[i].prospects : runs[i].prospects[n].domain = domain

Store(i, duplicate) ==
    /\ Driving(i) /\ runs[i].looked \in {"stored", "added"}
    /\ runs' = [runs EXCEPT ![i].prospects = Append(@, [domain |-> Next1(i), duplicate |-> duplicate]),
                            ![i].todo = Tail(@), ![i].looked = "no"]
    /\ UNCHANGED <<session, request, companies>>

\* Mutant: a company that was there already makes a DUPLICATE.
AddProspectOfKnown(i) == Store(i, runs[i].looked = "stored")

\* The first prospect of a key runs, every later one of the run is a DUPLICATE.
AddProspect(i) == Store(i, Seen(i, Next1(i)))

\* The rest of the run, whatever it makes of its prospects.
Finish(i) ==
    /\ Driving(i) /\ runs[i].todo = <<>>
    /\ runs' = [runs EXCEPT ![i].status = "COMPLETED"]
    /\ UNCHANGED <<session, request, companies>>

\* A run of a process that is gone is RUNNING until the reaper ends it.
Reap(i) ==
    /\ runs[i].status = "RUNNING" /\ runs[i].process # started
    /\ runs' = [runs EXCEPT ![i].status = "INTERRUPTED"]
    /\ UNCHANGED <<session, request, companies>>

-----------------------------------------------------------------------------
Serve(r) ==
    \/ \E play \in Mode, body \in Mode \cup {"none"} : Enter(r, play, body)
    \/ CountActive(r) \/ CountRecent(r)
    \/ \E seeds \in Seeds : Create(r, seeds)
Drive(i) == LookUp(i) \/ Insert(i) \/ AddProspect(i) \/ Finish(i) \/ Reap(i)

IntakeNext ==
    \/ TimePasses \/ Login \/ WrongPassphrase \/ Logout \/ Restart
    \/ \E r \in Request : Serve(r)
    \/ \E i \in DOMAIN runs : Drive(i)

IntakeSpec == IntakeInit /\ [][IntakeNext]_intakeVars

-----------------------------------------------------------------------------
(* Properties.                                                             *)

\* The Live runs of a window of the length of a day.
BegunFrom(t) == {i \in DOMAIN runs : Live(i) /\ runs[i].begun \in t..(t + Day)}

\* Every Live run was let in by a session that was signed by the current or the
\* previous process and had not expired then, whatever the play says; and as the two
\* caps are counted before the run is stored, requests served together may
\* exceed them by one less than their number, and by no more.
AdmissionHolds ==
    LET slack == Cardinality(Request) - 1 IN
    /\ \A i \in DOMAIN runs : Live(i) =>
           runs[i].gate # 0 /\ runs[i].gate >= runs[i].process - 1 /\ runs[i].age <= Lifetime
    /\ Cardinality(Active) <= MaxActive + slack
    /\ \A t \in 0..now :
           Cardinality(BegunFrom(t)) <= Allowance + slack

\* However the discoveries of several runs interleave: a run is ended by a
\* collision only over a company that another run has stored meanwhile; a
\* prospect always has its company; it is a DUPLICATE if and only if its own run
\* has an earlier one of that domain; and a run that completes has one prospect
\* for each company it found.
OneAccountPerDomain ==
    \A i \in DOMAIN runs :
        LET mine == runs[i].prospects IN
        /\ runs[i].lost => Next1(i) \in companies /\ ~Seen(i, Next1(i))
        /\ \A n \in DOMAIN mine : mine[n].domain \in companies
        /\ \A n \in DOMAIN mine :
               mine[n].duplicate <=> \E m \in 1..(n - 1) : mine[m].domain = mine[n].domain
        /\ runs[i].status = "COMPLETED" =>
               [n \in DOMAIN mine |-> mine[n].domain] \in Seeds

-----------------------------------------------------------------------------
(* The inductive invariant behind them.                                    *)

RunRow == [mode : Mode, gate : Nat, age : Nat, begun : Nat, process : Nat,
           status : {"RUNNING", "COMPLETED", "FAILED", "INTERRUPTED"}, todo : Seq(Domain),
           looked : {"no", "stored", "absent", "added"}, lost : BOOLEAN,
           prospects : Seq([domain : Domain, duplicate : BOOLEAN])]

IntakeTypeOK ==
    /\ now \in Nat /\ started \in Nat \ {0}
    /\ cookie \in [key : Nat, issued : Nat]
    /\ request \in [Request -> [pc : {"idle", "count active", "count recent", "create"},
                               mode : Mode, gate : Nat, age : Nat]]
    /\ runs \in Seq(RunRow)
    /\ companies \subseteq Domain

\* The browser's key is one of a process that has started, and was not issued later.
KeyIsKnown ==
    /\ cookie = NoCookie \/ cookie.key \in 1..started
    /\ cookie.issued <= now

\* A Live request, then its run, keeps the session that let it in.
RequestsAreLetIn ==
    \A r \in Request :
        /\ request[r].pc \in {"count active", "count recent"} => request[r].mode = "live"
        /\ request[r].pc # "idle" /\ request[r].mode = "live" =>
              request[r].gate # 0 /\ request[r].gate >= started - 1 /\ request[r].age <= Lifetime

RunsAreLetIn ==
    \A i \in DOMAIN runs :
        /\ runs[i].begun <= now
        /\ Live(i) =>
              runs[i].gate # 0 /\ runs[i].gate >= runs[i].process - 1 /\ runs[i].age <= Lifetime

SessionsLetIn == KeyIsKnown /\ RequestsAreLetIn /\ RunsAreLetIn

\* The Live requests that have passed the first cap, and those that have passed both.
PastActive == {r \in Request : request[r].mode = "live" /\ request[r].pc \in {"count recent", "create"}}
PastRecent == {r \in Request : request[r].mode = "live" /\ request[r].pc = "create"}
\* The runs there are and those about to be stored: a request that has just counted
\* saw fewer than the cap, so what comes on top is at most the other requests.
CapsCountWhoIsPast ==
    /\ Cardinality(Active) + Cardinality(PastActive) <= MaxActive + Cardinality(Request) - 1
    /\ \A t \in 0..now :
          Cardinality(BegunFrom(t)) + (IF now <= t + Day THEN Cardinality(PastRecent) ELSE 0)
              <= Allowance + Cardinality(Request) - 1

\* Where a discovery is in the sequence of domains it found, and what it knows of
\* the next one.
DiscoveryInOrder ==
    \A i \in DOMAIN runs :
        LET mine == runs[i].prospects
            todo == runs[i].todo
        IN /\ \E s \in Seeds :
                 /\ Len(s) = Len(mine) + Len(todo)
                 /\ \A n \in 1..Len(mine) : mine[n].domain = s[n]
                 /\ \A n \in 1..Len(todo) : todo[n] = s[Len(mine) + n]
           /\ \A n \in 1..Len(mine) :
                 /\ mine[n].domain \in companies
                 /\ mine[n].duplicate <=> \E m \in 1..(n - 1) : mine[m].domain = mine[n].domain
           /\ runs[i].looked # "no" => todo # <<>>
           /\ runs[i].looked \in {"stored", "added"} => Next1(i) \in companies
           /\ runs[i].looked = "absent" => ~Seen(i, Next1(i))
           /\ runs[i].lost =>
                 runs[i].status = "FAILED" /\ Next1(i) \in companies /\ ~Seen(i, Next1(i))
           /\ runs[i].status = "COMPLETED" => todo = <<>>

IntakeIInv == IntakeTypeOK /\ SessionsLetIn /\ CapsCountWhoIsPast /\ DiscoveryInOrder
==============================================================================
