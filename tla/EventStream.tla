----------------------------- MODULE EventStream -----------------------------
(***************************************************************************)
(* The live view of a run: the generator behind GET /runs/{id}/events,      *)
(* which polls run_events and runs.status in turn, the connection, which    *)
(* may break at any time, and the board's useRunStream hook, which          *)
(* reconnects from the last sequence number it has seen and learns the      *)
(* run's status from three sources that may answer late: the events, the    *)
(* GET issued on a reconnect, and polling once the stream is given up.      *)
(*                                                                          *)
(* The run itself is RunLog: whatever its steps, in any order it allows.    *)
(***************************************************************************)
EXTENDS RunLog

CONSTANTS
    Watched,        \* the run a board shows
    MaxReconnects,  \* MAX_RECONNECT_ATTEMPTS
    MaxLog          \* bound: rows of one run

ASSUME WatchAssumption ==
    /\ Watched \in Run
    /\ MaxReconnects \in Nat
    /\ MaxLog \in Nat

VARIABLES
    conn,           \* what the generator of the open connection does next
    cursor,         \* its last_seq: the last frame it yielded
    batch,          \* the last row its last read of run_events returned
    got,            \* the last frame of this connection the board consumed
    board,          \* state of the hook
    lastSeq,        \* lastSeqRef
    applied,        \* the sequence numbers dispatched to the reducer, in order
    known,          \* runStatusRef ("NULL" at first)
    failures,       \* reconnectAttempt
    refreshing      \* statuses read by GET /runs/{id} calls still under way

serverVars == <<conn, cursor, batch>>
boardVars == <<board, lastSeq, applied, known, failures, refreshing>>
vars == <<logVars, serverVars, got, boardVars>>

Row(i) == log[Watched][i]
Rows == Len(log[Watched])

\* KNOWN_EVENT_TYPES.
Listed(type) == type # "unlisted"

Connecting == {"connecting", "reconnecting"}
Following == Connecting \union {"live", "waiting"}

Init ==
    /\ InitLog
    /\ conn = "none" /\ cursor = 0 /\ batch = 0 /\ got = 0
    /\ board = "loading"
    /\ lastSeq = 0
    /\ applied = <<>>
    /\ known = "NULL"
    /\ failures = 0
    /\ refreshing = {}

\* The run goes on, whoever watches.
RunStep ==
    /\ NextLog
    /\ \A r \in Run : Len(log'[r]) <= MaxLog
    /\ UNCHANGED <<serverVars, got, boardVars>>

-----------------------------------------------------------------------------
(* The generator _event_stream.                                            *)

\* SELECT ... WHERE seq > last_seq.
Poll ==
    /\ conn = "poll"
    /\ batch' = Rows
    /\ conn' = IF Rows > cursor THEN "send" ELSE "check"
    /\ UNCHANGED <<logVars, cursor, got, boardVars>>

\* One frame is yielded; after the last one the rows are read again.
Send ==
    /\ conn = "send"
    /\ cursor' = cursor + 1
    /\ conn' = IF cursor + 1 = batch THEN "poll" ELSE "send"
    /\ UNCHANGED <<logVars, batch, got, boardVars>>

\* Nothing new: return if the run is over, else sleep and read again.
CheckStatus ==
    /\ conn = "check"
    /\ conn' = IF status[Watched] \in Terminal THEN "returned" ELSE "poll"
    /\ UNCHANGED <<logVars, cursor, batch, got, boardVars>>

-----------------------------------------------------------------------------
(* The hook useRunStream.                                                  *)

\* GET /runs/{id} is sent; what it reads now may arrive at any later time.
Refresh == refreshing' = refreshing \union {status[Watched]}

\* bootstrap: the run is read, then the stream opened.
Bootstrap ==
    /\ board = "loading"
    /\ status[Watched] # "NONE"
    /\ known' = status[Watched]
    /\ board' = "connecting"
    /\ UNCHANGED <<logVars, serverVars, got, lastSeq, applied, failures, refreshing>>

BootstrapFails ==
    /\ board = "loading"
    /\ board' = "load_failed"
    /\ UNCHANGED <<logVars, serverVars, got, lastSeq, applied, known, failures, refreshing>>

\* retry: the page offers it only after a failed load.
Retry ==
    /\ board = "load_failed"
    /\ board' = "loading"
    /\ UNCHANGED <<logVars, serverVars, got, lastSeq, applied, known, failures, refreshing>>

\* Mutant: after_seq taken as the first event wanted.
OpenAtNext ==
    /\ board \in Connecting
    /\ conn' = "poll"
    /\ cursor' = lastSeq + 1 /\ batch' = lastSeq + 1 /\ got' = lastSeq + 1
    /\ board' = "live"
    /\ failures' = 0
    /\ IF board = "reconnecting" THEN Refresh ELSE UNCHANGED refreshing
    /\ UNCHANGED <<logVars, lastSeq, applied, known>>

\* Mutant: the run is not read again on a reconnect.
OpenWithoutRefresh ==
    /\ board \in Connecting
    /\ conn' = "poll"
    /\ cursor' = lastSeq /\ batch' = lastSeq /\ got' = lastSeq
    /\ board' = "live"
    /\ failures' = 0
    /\ UNCHANGED <<logVars, lastSeq, applied, known, refreshing>>

\* onopen.  The connection starts after the last sequence number seen.
Open ==
    /\ board \in Connecting
    /\ conn' = "poll"
    /\ cursor' = lastSeq
    /\ batch' = lastSeq
    /\ got' = lastSeq
    /\ board' = "live"
    /\ failures' = 0
    /\ IF board = "reconnecting" THEN Refresh ELSE UNCHANGED refreshing
    /\ UNCHANGED <<logVars, lastSeq, applied, known>>

\* A frame reaches the board.  A type nobody listens to does not move lastSeq.
Receive ==
    /\ board = "live"
    /\ got < cursor
    /\ got' = got + 1
    /\ IF Listed(Row(got + 1)) /\ got + 1 > lastSeq
         THEN /\ lastSeq' = got + 1
              /\ applied' = Append(applied, got + 1)
              /\ CASE Row(got + 1) = "run.completed" -> known' \in {"COMPLETED", "PARTIAL"}
                   [] Row(got + 1) = "run.failed" -> known' = "PARTIAL"
                   [] OTHER -> UNCHANGED known
              /\ IF Row(got + 1) \in Final \union {"run.started"}
                   THEN Refresh ELSE UNCHANGED refreshing
         ELSE UNCHANGED <<lastSeq, applied, known, refreshing>>
    /\ UNCHANGED <<logVars, serverVars, board, failures>>

\* Mutant: the end of the stream is taken for the end of the run.
OnErrorEndsRun ==
    /\ conn' = "none"
    /\ IF known # "NULL"
         THEN board' = "closed" /\ UNCHANGED failures
         ELSE board' = "waiting" /\ failures' = failures + 1
    /\ UNCHANGED <<logVars, cursor, batch, got, lastSeq, applied, known, refreshing>>

\* onerror: the socket is closed for good; frames still on their way are lost.
OnError ==
    /\ conn' = "none"
    /\ IF known \in Terminal
         THEN board' = "closed" /\ UNCHANGED failures
         ELSE IF failures = MaxReconnects
         THEN board' = "degraded" /\ UNCHANGED failures
         ELSE board' = "waiting" /\ failures' = failures + 1
    /\ UNCHANGED <<logVars, cursor, batch, got, lastSeq, applied, known, refreshing>>

EndOfStream == board = "live" /\ conn = "returned" /\ got = cursor /\ OnError

\* The connection is refused, breaks or is cut by a proxy.
Break == board \in Connecting \union {"live"} /\ OnError

\* The backoff timer fires.
Reconnect ==
    /\ board = "waiting"
    /\ board' = "reconnecting"
    /\ UNCHANGED <<logVars, serverVars, got, lastSeq, applied, known, failures, refreshing>>

RefreshArrives(s) ==
    /\ s \in refreshing
    /\ known' = s
    /\ refreshing' = refreshing \ {s}
    /\ UNCHANGED <<logVars, serverVars, got, board, lastSeq, applied, failures>>

\* The request fails, or the server reads the row later than assumed.
RefreshFails(s) ==
    /\ s \in refreshing
    /\ refreshing' = refreshing \ {s}
    /\ UNCHANGED <<logVars, serverVars, got, board, lastSeq, applied, known, failures>>

RefreshReadsLater(s) ==
    /\ s \in refreshing
    /\ refreshing' = (refreshing \ {s}) \union {status[Watched]}
    /\ UNCHANGED <<logVars, serverVars, got, board, lastSeq, applied, known, failures>>

\* The stream is given up: poll until the status is known to be terminal.
DegradedPoll ==
    /\ board = "degraded"
    /\ IF known \in Terminal
         THEN board' = "polled_out" /\ UNCHANGED refreshing
         ELSE Refresh /\ UNCHANGED board
    /\ UNCHANGED <<logVars, serverVars, got, lastSeq, applied, known, failures>>

-----------------------------------------------------------------------------
Server == Poll \/ Send \/ CheckStatus

Hook ==
    \/ Bootstrap \/ BootstrapFails \/ Retry
    \/ Open \/ Receive \/ EndOfStream \/ Break \/ Reconnect \/ DegradedPoll
    \/ \E s \in RunStatus : RefreshArrives(s) \/ RefreshFails(s) \/ RefreshReadsLater(s)

Next == RunStep \/ Server \/ Hook

Spec == Init /\ [][Next]_vars

-----------------------------------------------------------------------------
(* Properties.                                                             *)

\* The variables have their types.
TypeOK ==
    /\ status \in [Run -> RunStatus \union {"NONE"}]
    /\ log \in [Run -> Seq(EventType)]
    /\ conn \in {"none", "poll", "send", "check", "returned"}
    /\ cursor \in Nat /\ batch \in Nat /\ got \in Nat /\ lastSeq \in Nat
    /\ board \in Following \union {"loading", "load_failed", "closed", "degraded", "polled_out"}
    /\ applied \in Seq(Nat)
    /\ known \in RunStatus \union {"NULL"}
    /\ failures \in 0..MaxReconnects
    /\ refreshing \subseteq RunStatus

\* Over any number of breaks, reconnects and replays the board has applied
\* every event it listens to, up to the last one seen, in order and once.
ViewIsExact ==
    /\ \A i, j \in DOMAIN applied : i < j => applied[i] < applied[j]
    /\ {applied[i] : i \in DOMAIN applied} = {n \in 1..lastSeq : Listed(Row(n))}

\* However late the answers to its reads, the board never stops following a
\* run that is still going on.
NoEarlyClose == board \in {"closed", "polled_out"} => status[Watched] \in Terminal

-----------------------------------------------------------------------------
(* The inductive invariant behind the safety properties.                   *)

\* A connection is ahead of the board by frames the run has logged, and
\* behind it only by events nobody listens to.
FramesAreRows ==
    /\ lastSeq <= Rows /\ batch <= Rows
    /\ got <= cursor /\ cursor <= batch
    /\ conn = "send" => cursor < batch
    /\ board = "live" =>
          lastSeq <= got /\ \A n \in lastSeq + 1..got : ~Listed(Row(n))

\* A board only follows, and asks again for, a run it has found once.
HeardOfRun ==
    status[Watched] = "NONE" => board \in {"loading", "load_failed"} /\ refreshing = {}

\* Nobody hears of the end of a run before its row has ended.
NewsIsTrue ==
    \/ status[Watched] \in Terminal
    \/ /\ known \notin Terminal
       /\ refreshing \intersect Terminal = {}
       /\ ~Closed(Watched)

\* Every part of the argument that the board shows the run as it is.
IInv ==
    /\ TypeOK
    /\ ViewIsExact
    /\ NoEarlyClose
    /\ FramesAreRows
    /\ HeardOfRun
    /\ NewsIsTrue

-----------------------------------------------------------------------------
\* The loops of server and hook go on; a poll for the final status does not
\* fail for ever.  Nothing is assumed of the connection or of the run.
FairSpec ==
    /\ Spec
    /\ WF_vars(Poll) /\ WF_vars(Send) /\ WF_vars(CheckStatus)
    /\ WF_vars(Open) /\ WF_vars(Receive) /\ WF_vars(EndOfStream)
    /\ WF_vars(Reconnect) /\ WF_vars(DegradedPoll)
    /\ WF_vars(RefreshArrives("RUNNING"))
    /\ \A s \in Terminal : SF_vars(RefreshArrives(s))

\* A board that follows a run which has ended stops following it: even one
\* that was interrupted and so never logs its end.
FollowingEnds ==
    status[Watched] \in Terminal /\ board \in Following \union {"degraded"}
        ~> board \in {"closed", "polled_out"}
==============================================================================
