--------------------------- MODULE SendAllowance ---------------------------
(***************************************************************************)
(* How many live e-mails may leave in a rolling day: the reservation        *)
(* transaction every execution runs between its claim and its dispatch, on  *)
(* one guard row that serializes all processes.  A reservation carries the  *)
(* time of the claim, which the checkpoint, other transactions and retries  *)
(* may have left behind, so reservations commit in any order of their       *)
(* times.  LiveSend has this transaction as ReserveGranted.                 *)
(***************************************************************************)
EXTENDS Integers, FiniteSets

CONSTANTS
    Execution,      \* execution rows that were won
    Nil,            \* nobody
    Limit,          \* LIVE_MAX_SENDS_PER_DAY
    Window,         \* allowance_window_s
    MaxAttempts,    \* allowance_lock_max_attempts
    MaxTime         \* bound: the clock

ASSUME NilAssumption == Nil \notin Execution
ASSUME CapAssumption ==
    Limit \in Nat /\ Window \in Nat /\ MaxAttempts \in Nat \ {0} /\ MaxTime \in Nat

VARIABLES
    clock,
    pc,             \* where an execution is between claim and dispatch
    claimedAt,      \* the `now` of dispatch_live_email_send, also reserved_at
    attempt,        \* the attempt at the transaction it is in
    seeded,         \* does the guard row exist?
    guard,          \* whose open transaction has updated the guard row
    reservations,   \* live_send_reservations
    dispatches      \* messages sent, with dispatched_at

vars == <<clock, pc, claimedAt, attempt, seeded, guard, reservations, dispatches>>

Stamped == [execution : Execution, at : Nat]

Init ==
    /\ clock = 0
    /\ pc = [x \in Execution |-> "idle"]
    /\ claimedAt = [x \in Execution |-> 0]
    /\ attempt = [x \in Execution |-> 1]
    /\ seeded \in BOOLEAN
    /\ guard = Nil
    /\ reservations = {}
    /\ dispatches = {}

Goto(x, label) == pc' = [pc EXCEPT ![x] = label]

\* ensure_singleton_seeded, when a process creates or migrates the schema.
Seed ==
    /\ ~seeded
    /\ seeded' = TRUE
    /\ UNCHANGED <<clock, pc, claimedAt, attempt, guard, reservations, dispatches>>

Tick ==
    /\ clock < MaxTime
    /\ clock' = clock + 1
    /\ UNCHANGED <<pc, claimedAt, attempt, seeded, guard, reservations, dispatches>>

\* The row is won; its claimed_at is read before, and kept for the reservation.
Claim(x) ==
    /\ pc[x] = "idle"
    /\ claimedAt' = [claimedAt EXCEPT ![x] = clock]
    /\ Goto(x, "reserve")
    /\ UNCHANGED <<clock, attempt, seeded, guard, reservations, dispatches>>

\* Mutant: the transaction only reads the guard row, and waits for nobody.
UpdateGuardShared(x) ==
    /\ pc[x] = "reserve"
    /\ seeded
    /\ guard' = x
    /\ Goto(x, "count")
    /\ UNCHANGED <<clock, claimedAt, attempt, seeded, reservations, dispatches>>

\* The guarded UPDATE takes the write lock until the transaction ends.
UpdateGuard(x) ==
    /\ pc[x] = "reserve"
    /\ seeded
    /\ guard = Nil
    /\ guard' = x
    /\ Goto(x, "count")
    /\ UNCHANGED <<clock, claimedAt, attempt, seeded, reservations, dispatches>>

\* DENIED_GUARD_MISSING.
GuardMissing(x) ==
    /\ pc[x] = "reserve"
    /\ ~seeded
    /\ Goto(x, "denied")
    /\ UNCHANGED <<clock, claimedAt, attempt, seeded, guard, reservations, dispatches>>

\* "database is locked": a new transaction, with the same `now`, or
\* DENIED_LOCK_CONTENTION.
LockContended(x) ==
    /\ pc[x] = "reserve"
    /\ guard # Nil
    /\ IF attempt[x] < MaxAttempts
         THEN attempt' = [attempt EXCEPT ![x] = @ + 1] /\ UNCHANGED pc
         ELSE Goto(x, "denied") /\ UNCHANGED attempt
    /\ UNCHANGED <<clock, claimedAt, seeded, guard, reservations, dispatches>>

\* Mutant: counts the day up to `now` only.
CountedUpToNow(t) == {r \in reservations : r.at >= t - Window /\ r.at <= t}

\* The rows with reserved_at >= now - window, later ones included.
Counted(t) == {r \in reservations : r.at >= t - Window}

\* DENIED_LIMIT_REACHED and a rollback, or on to the INSERT.
CountReservations(x) ==
    /\ pc[x] = "count"
    /\ IF Cardinality(Counted(claimedAt[x])) >= Limit
         THEN Goto(x, "denied") /\ guard' = Nil
         ELSE Goto(x, "insert") /\ UNCHANGED guard
    /\ UNCHANGED <<clock, claimedAt, attempt, seeded, reservations, dispatches>>

InsertReservation(x) ==
    /\ pc[x] = "insert"
    /\ reservations' = reservations \union {[execution |-> x, at |-> claimedAt[x]]}
    /\ guard' = Nil
    /\ Goto(x, "reserved")
    /\ UNCHANGED <<clock, claimedAt, attempt, seeded, dispatches>>

\* IN_FLIGHT, and the message leaves.
Dispatch(x) ==
    /\ pc[x] = "reserved"
    /\ dispatches' = dispatches \union {[execution |-> x, at |-> clock]}
    /\ Goto(x, "sent")
    /\ UNCHANGED <<clock, claimedAt, attempt, seeded, guard, reservations>>

\* No checkpoint, a row that recovery has settled, an exception, the end of the
\* process: an open transaction rolls back, a reservation stays.
GiveUp(x) ==
    /\ pc[x] \in {"reserve", "count", "insert", "reserved"}
    /\ guard' = IF pc[x] \in {"count", "insert"} THEN Nil ELSE guard
    /\ Goto(x, "gone")
    /\ UNCHANGED <<clock, claimedAt, attempt, seeded, reservations, dispatches>>

Next ==
    \/ Seed \/ Tick
    \/ \E x \in Execution :
           \/ Claim(x) \/ UpdateGuard(x) \/ GuardMissing(x) \/ LockContended(x)
           \/ CountReservations(x) \/ InsertReservation(x) \/ Dispatch(x) \/ GiveUp(x)

Spec == Init /\ [][Next]_vars

-----------------------------------------------------------------------------
(* Properties.                                                             *)

\* Every variable has its type.
TypeOK ==
    /\ clock \in 0 .. MaxTime
    /\ pc \in [Execution -> {"idle", "reserve", "count", "insert", "reserved", "sent",
                             "denied", "gone"}]
    /\ claimedAt \in [Execution -> 0 .. MaxTime]
    /\ attempt \in [Execution -> 1 .. MaxAttempts]
    /\ seeded \in BOOLEAN
    /\ guard \in Execution \union {Nil}
    /\ reservations \in SUBSET Stamped
    /\ dispatches \in SUBSET Stamped

Within(stamps, first, last) == {r \in stamps : r.at >= first /\ r.at <= last}

\* No window of the configured length, wherever it starts, holds more
\* reservations than the cap, although they are dated with their claims and
\* commit in another order (live_send_allowance.py:104-129).
WindowWithinCap ==
    \A first \in 0 .. MaxTime :
        Cardinality(Within(reservations, first, first + Window)) <= Limit

\* Dispatches follow their reservations by whatever the claim's other steps take.
\* Those that take no longer than a window are, in any window, at most twice the
\* cap: the reservation's date lets a window overlap two reserved ones, never
\* more (live_send_orchestration.py:72, :129-143).
Prompt == {s \in dispatches : s.at <= claimedAt[s.execution] + Window}
PromptWithinTwiceCap ==
    \A first \in 0 .. MaxTime :
        Cardinality(Within(Prompt, first, first + Window)) <= 2 * Limit

\* A transaction past the UPDATE has the guard; what one may still insert fits
\* under the cap together with every row it could share a window with; a
\* dispatch has its own reservation, dated with the claim
\* (live_send_allowance.py:104-129).
GuardIsExclusive == \A x \in Execution : pc[x] \in {"count", "insert"} => guard = x
CountStillHolds ==
    \A x \in Execution : pc[x] = "insert" => Cardinality(Counted(claimedAt[x])) < Limit
StampsMatch ==
    /\ \A r \in reservations :
           r.at = claimedAt[r.execution] /\ pc[r.execution] \in {"reserved", "sent", "gone"}
    /\ \A s \in dispatches :
           /\ pc[s.execution] = "sent"
           /\ [execution |-> s.execution, at |-> claimedAt[s.execution]] \in reservations
           /\ claimedAt[s.execution] <= s.at
           /\ s.at <= clock
    /\ \A x \in Execution :
           /\ claimedAt[x] <= clock
           /\ pc[x] = "reserved" => [execution |-> x, at |-> claimedAt[x]] \in reservations
    /\ \A s, t \in dispatches : s.execution = t.execution => s = t
IInv ==
    /\ TypeOK
    /\ IsFiniteSet(reservations)
    /\ GuardIsExclusive
    /\ CountStillHolds
    /\ StampsMatch
    /\ WindowWithinCap
=============================================================================
