-------------------------- MODULE EventStreamProofs --------------------------
(***************************************************************************)
(* Proofs about EventStream, for every set of runs, every length of a log   *)
(* and every number of reconnects.                                          *)
(***************************************************************************)
EXTENDS EventStream, TLAPS

USE WatchAssumption
    DEF Connecting, Following, Terminal, RunStatus, Pipeline, Final, EventType

-----------------------------------------------------------------------------
(* What a step of the run does to its log and its status.                  *)

LEMMA AppendFacts ==
    ASSUME NEW r \in Run, NEW type \in EventType,
           log \in [Run -> Seq(EventType)], AppendEvent(r, type)
    PROVE  /\ log' \in [Run -> Seq(EventType)]
           /\ \A q \in Run : /\ Len(log[q]) <= Len(log'[q])
                             /\ \A n \in 1..Len(log[q]) : log'[q][n] = log[q][n]
           /\ \A q \in Run : Closed(q)' => Closed(q) \/ (q = r /\ type \in Final)
<1>1. log'[r] = Append(log[r], type) /\ log[r] \in Seq(EventType)
  BY DEF AppendEvent
<1>2. /\ Len(log'[r]) = Len(log[r]) + 1
      /\ \A n \in 1..Len(log[r]) : log'[r][n] = log[r][n]
      /\ log'[r][Len(log[r]) + 1] = type
  BY <1>1
<1>3. \A q \in Run : q # r => log'[q] = log[q]
  BY DEF AppendEvent
<1>4. log' \in [Run -> Seq(EventType)]
  BY <1>1 DEF AppendEvent
<1>5. Closed(r)' => Closed(r) \/ type \in Final
  <2>1. \A n : n \in 1..Len(log'[r]) => n \in 1..Len(log[r]) \/ n = Len(log[r]) + 1
    BY <1>1, <1>2
  <2> QED
    BY <1>2, <2>1 DEF Closed
<1>6. ASSUME NEW q \in Run PROVE Len(log[q]) \in Nat
  OBVIOUS
<1>7. ASSUME NEW q \in Run
      PROVE  /\ Len(log[q]) <= Len(log'[q])
             /\ \A n \in 1..Len(log[q]) : log'[q][n] = log[q][n]
             /\ Closed(q)' => Closed(q) \/ (q = r /\ type \in Final)
  <2>1. CASE q = r
    BY <1>2, <1>5, <1>6, <2>1
  <2>2. CASE q # r
    BY <1>3, <1>6, <2>2 DEF Closed
  <2> QED
    BY <2>1, <2>2
<1> QED
  BY <1>4, <1>7

\* Rows are only ever appended, a run that has ended stays so, and its last
\* event comes after its end.
LEMMA LogOnlyGrows ==
    ASSUME NEW r \in Run, NextLog,
           status \in [Run -> RunStatus \union {"NONE"}], log \in [Run -> Seq(EventType)]
    PROVE  /\ log' \in [Run -> Seq(EventType)]
           /\ status' \in [Run -> RunStatus \union {"NONE"}]
           /\ Len(log[r]) <= Len(log'[r])
           /\ \A n \in 1..Len(log[r]) : log'[r][n] = log[r][n]
           /\ status[r] # "NONE" => status'[r] # "NONE"
           /\ status[r] \in Terminal => status'[r] \in Terminal
           /\ Closed(r)' => Closed(r) \/ status'[r] \in Terminal
<1> DEFINE Kept ==
      /\ log' \in [Run -> Seq(EventType)]
      /\ status' \in [Run -> RunStatus \union {"NONE"}]
      /\ Len(log[r]) <= Len(log'[r])
      /\ \A n \in 1..Len(log[r]) : log'[r][n] = log[r][n]
      /\ status[r] # "NONE" => status'[r] # "NONE"
      /\ status[r] \in Terminal => status'[r] \in Terminal
      /\ Closed(r)' => Closed(r) \/ status'[r] \in Terminal
<1>1. ASSUME NEW q \in Run, Begin(q) PROVE Kept
  BY <1>1 DEF Begin, Created, Closed
<1>2. ASSUME NEW q \in Run, Emit(q) PROVE Kept
  <2>1. UNCHANGED status /\ \E type \in EventType \ Final : AppendEvent(q, type)
    BY <1>2 DEF Emit
  <2> QED
    BY <2>1, AppendFacts
<1>3. ASSUME NEW q \in Run, Close(q) PROVE Kept
  <2>1. UNCHANGED status /\ status[q] \in Terminal /\ \E type \in EventType : AppendEvent(q, type)
    BY <1>3 DEF Close
  <2> QED
    BY <2>1, AppendFacts
<1>4. ASSUME NEW rows \in SUBSET Run, End(rows) PROVE Kept
  BY <1>4 DEF End, Closed
<1> QED
  BY <1>1, <1>2, <1>3, <1>4 DEF NextLog

-----------------------------------------------------------------------------
(* The inductive invariant.                                                *)

LEMMA InitIInv == Init => IInv
BY DEF Init, InitLog, IInv, TypeOK, ViewIsExact, NoEarlyClose, FramesAreRows, HeardOfRun,
   NewsIsTrue, Rows, Row, Closed

LEMMA RunStepKeepsIInv ==
    ASSUME IInv, RunStep
    PROVE  IInv'
<1>1. UNCHANGED <<serverVars, got, boardVars>>
  BY DEF RunStep
<1>2. /\ log' \in [Run -> Seq(EventType)]
      /\ status' \in [Run -> RunStatus \union {"NONE"}]
      /\ Rows <= Rows'
      /\ \A n \in 1..Rows : Row(n)' = Row(n)
      /\ status[Watched] # "NONE" => status'[Watched] # "NONE"
      /\ status[Watched] \in Terminal => status'[Watched] \in Terminal
      /\ Closed(Watched)' => Closed(Watched) \/ status'[Watched] \in Terminal
  BY LogOnlyGrows DEF IInv, TypeOK, RunStep, Rows, Row
<1>3. Rows \in Nat /\ Rows' \in Nat
  BY <1>2 DEF IInv, TypeOK, Rows
<1>4. TypeOK'
  BY <1>1, <1>2 DEF IInv, TypeOK, serverVars, boardVars
<1>5. ViewIsExact'
  <2>1. {n \in 1..lastSeq : Listed(Row(n))}' = {n \in 1..lastSeq : Listed(Row(n))}
    BY <1>1, <1>2, <1>3 DEF IInv, TypeOK, FramesAreRows, Listed, boardVars
  <2> QED
    BY <1>1, <2>1 DEF IInv, ViewIsExact, boardVars
<1>6. FramesAreRows'
  BY <1>1, <1>2, <1>3 DEF IInv, TypeOK, FramesAreRows, Listed, serverVars, boardVars
<1>7. NoEarlyClose' /\ NewsIsTrue' /\ HeardOfRun'
  BY <1>1, <1>2 DEF IInv, HeardOfRun, NoEarlyClose, NewsIsTrue, boardVars
<1> QED
  BY <1>4, <1>5, <1>6, <1>7 DEF IInv

\* The generator only moves along the rows it has read.
LEMMA ServerKeepsIInv ==
    ASSUME IInv, Server
    PROVE  IInv'
<1>1. UNCHANGED <<logVars, got, boardVars>>
  BY DEF Server, Poll, Send, CheckStatus
<1>2. Rows \in Nat
  BY DEF IInv, TypeOK, Rows
<1>3. TypeOK'
  BY <1>1, <1>2 DEF IInv, TypeOK, Server, Poll, Send, CheckStatus, logVars, boardVars
<1>4. FramesAreRows'
  BY <1>1, <1>2 DEF IInv, TypeOK, FramesAreRows, Server, Poll, Send, CheckStatus, Rows, Row,
     logVars, boardVars
<1>5. ViewIsExact' /\ NoEarlyClose' /\ NewsIsTrue' /\ HeardOfRun'
  BY <1>1 DEF IInv, HeardOfRun, ViewIsExact, NoEarlyClose, NewsIsTrue, Row, Closed, logVars, boardVars
<1> QED
  BY <1>3, <1>4, <1>5 DEF IInv

\* A frame: applied if it is news and listened to, skipped otherwise.
LEMMA ReceiveKeepsIInv ==
    ASSUME IInv, Receive
    PROVE  IInv'
<1> DEFINE n == got + 1
           heard == Listed(Row(n)) /\ n > lastSeq
<1>1. UNCHANGED <<logVars, serverVars, board, failures>> /\ board = "live"
  BY DEF Receive
<1>2. /\ got' = n /\ got \in Nat /\ n \in Nat /\ n \in 1..Rows /\ Rows \in Nat /\ n <= cursor
      /\ lastSeq \in Nat /\ lastSeq <= got
      /\ \A m \in lastSeq + 1..got : ~Listed(Row(m))
  BY DEF Receive, IInv, TypeOK, FramesAreRows, Rows
<1>3. CASE heard
  <2>1. lastSeq' = n /\ applied' = Append(applied, n)
    BY <1>3 DEF Receive
  <2>2. Row(n) \in Final => status[Watched] \in Terminal
    BY <1>2 DEF IInv, NewsIsTrue, Closed, Row, Rows
  <2>3. /\ known' = known \/ (known' \in Terminal /\ Row(n) \in Final)
        /\ refreshing' = refreshing \/ refreshing' = refreshing \union {status[Watched]}
    BY <1>3 DEF Receive, Refresh
  <2>4. status[Watched] \in RunStatus
    BY <1>1 DEF IInv, TypeOK, HeardOfRun
  <2>5. TypeOK'
    <3>1. applied' \in Seq(Nat)
      BY <1>2, <2>1 DEF IInv, TypeOK
    <3>2. known' \in RunStatus \union {"NULL"} /\ refreshing' \subseteq RunStatus
      BY <2>3, <2>4 DEF IInv, TypeOK
    <3> QED
      BY <1>1, <1>2, <2>1, <3>1, <3>2 DEF IInv, TypeOK, logVars, serverVars
  <2>6. ViewIsExact'
    <3> DEFINE seen == {applied[i] : i \in DOMAIN applied}
    <3>1. applied \in Seq(Nat) /\ DOMAIN applied = 1..Len(applied) /\ Len(applied) \in Nat
      BY DEF IInv, TypeOK
    <3>2. /\ DOMAIN applied' = 1..Len(applied) + 1
          /\ \A i \in DOMAIN applied : applied'[i] = applied[i]
          /\ applied'[Len(applied) + 1] = n
      BY <2>1, <3>1, <1>2
    <3>3. \A i \in DOMAIN applied : applied[i] \in 1..lastSeq
      BY DEF IInv, ViewIsExact
    <3>4. \A i, j \in DOMAIN applied' : i < j => applied'[i] < applied'[j]
      <4> SUFFICES ASSUME NEW i \in DOMAIN applied', NEW j \in DOMAIN applied', i < j
                   PROVE  applied'[i] < applied'[j]
        OBVIOUS
      <4>1. i \in DOMAIN applied
        BY <3>1, <3>2
      <4>2. CASE j \in DOMAIN applied
        BY <3>2, <4>1, <4>2 DEF IInv, ViewIsExact
      <4>3. CASE j = Len(applied) + 1
        <5>1. applied[i] \in 1..lastSeq
          BY <3>3, <4>1
        <5> QED
          BY <1>2, <1>3, <3>2, <4>1, <4>3, <5>1
      <4> QED
        BY <3>1, <3>2, <4>2, <4>3
    <3>5. {applied'[i] : i \in DOMAIN applied'} = seen \union {n}
      BY <3>1, <3>2
    <3>6. {m \in 1..n : Listed(Row(m))} = {m \in 1..lastSeq : Listed(Row(m))} \union {n}
      <4>1. \A m : m \in 1..n <=> m \in 1..lastSeq \/ m \in lastSeq + 1..got \/ m = n
        BY <1>2
      <4>2. Listed(Row(n))
        BY <1>3
      <4> QED
        BY <1>2, <4>1, <4>2
    <3>7. \A m : Row(m)' = Row(m)
      BY <1>1 DEF Row, logVars
    <3> QED
      BY <2>1, <3>4, <3>5, <3>6, <3>7 DEF IInv, ViewIsExact
  <2>7. FramesAreRows'
    BY <1>1, <1>2, <2>1 DEF IInv, TypeOK, FramesAreRows, Rows, Row, logVars, serverVars
  <2>8. NoEarlyClose' /\ NewsIsTrue' /\ HeardOfRun'
    BY <1>1, <2>2, <2>3 DEF IInv, HeardOfRun, NoEarlyClose, NewsIsTrue, Closed, logVars
  <2> QED
    BY <2>5, <2>6, <2>7, <2>8 DEF IInv
<1>4. CASE ~heard
  <2>1. UNCHANGED <<lastSeq, applied, known, refreshing>>
    BY <1>4 DEF Receive
  <2>2. ~Listed(Row(n))
    BY <1>2, <1>4 DEF Listed
  <2>3. TypeOK'
    BY <1>1, <1>2, <2>1 DEF IInv, TypeOK, logVars, serverVars
  <2>4. FramesAreRows'
    BY <1>1, <1>2, <2>1, <2>2 DEF IInv, TypeOK, FramesAreRows, Rows, Row, logVars, serverVars
  <2>5. ViewIsExact' /\ NoEarlyClose' /\ NewsIsTrue' /\ HeardOfRun'
    BY <1>1, <2>1 DEF IInv, HeardOfRun, ViewIsExact, NoEarlyClose, NewsIsTrue, Row, Closed, logVars
  <2> QED
    BY <2>3, <2>4, <2>5 DEF IInv
<1> QED
  BY <1>3, <1>4

\* Opening or losing the connection.
LEMMA ConnectionKeepsIInv ==
    ASSUME IInv, Open \/ EndOfStream \/ Break
    PROVE  IInv'
<1>1. UNCHANGED <<logVars, lastSeq, applied, known>>
  BY DEF Open, EndOfStream, Break, OnError
<1>2. /\ refreshing' = refreshing \/ refreshing' = refreshing \union {status[Watched]}
      /\ status[Watched] # "NONE"
  BY DEF Open, EndOfStream, Break, OnError, Refresh, IInv, HeardOfRun, NoEarlyClose
<1>3. TypeOK'
  <2>1. failures' \in 0..MaxReconnects
    BY DEF Open, EndOfStream, Break, OnError, IInv, TypeOK
  <2>2. /\ conn' \in {"none", "poll"}
        /\ board' \in Following \union {"closed", "degraded"}
        /\ cursor' \in Nat /\ batch' \in Nat /\ got' \in Nat
    BY DEF Open, EndOfStream, Break, OnError, IInv, TypeOK
  <2> QED
    BY <1>1, <1>2, <2>1, <2>2 DEF IInv, TypeOK, logVars
<1>4. FramesAreRows'
  BY <1>1 DEF Open, EndOfStream, Break, OnError, IInv, TypeOK, FramesAreRows, Rows, Row, logVars
<1>5. ViewIsExact'
  BY <1>1 DEF IInv, ViewIsExact, Row, logVars
<1>6. NoEarlyClose'
  BY <1>1 DEF Open, EndOfStream, Break, OnError, IInv, NoEarlyClose, NewsIsTrue, logVars
<1>7. NewsIsTrue' /\ HeardOfRun'
  BY <1>1, <1>2 DEF IInv, NewsIsTrue, HeardOfRun, Closed, logVars
<1> QED
  BY <1>3, <1>4, <1>5, <1>6, <1>7 DEF IInv

\* The reads of the run: at first, on a reconnect, when polling.
LEMMA ReadKeepsIInv ==
    ASSUME IInv, NEW s \in RunStatus,
           \/ Bootstrap \/ BootstrapFails \/ Retry \/ Reconnect \/ DegradedPoll
           \/ RefreshArrives(s) \/ RefreshFails(s) \/ RefreshReadsLater(s)
    PROVE  IInv'
<1>1. UNCHANGED <<logVars, serverVars, got, lastSeq, applied, failures>>
  BY DEF Bootstrap, BootstrapFails, Retry, Reconnect, DegradedPoll, RefreshArrives,
     RefreshFails, RefreshReadsLater
<1>2. /\ known' = known \/ known' = status[Watched] \/ known' \in refreshing
      /\ refreshing' \subseteq refreshing \union {status[Watched]}
  BY DEF Bootstrap, BootstrapFails, Retry, Reconnect, DegradedPoll, Refresh, RefreshArrives,
     RefreshFails, RefreshReadsLater
<1>3. status[Watched] \in RunStatus \/ UNCHANGED <<known, refreshing>>
  BY DEF Bootstrap, BootstrapFails, Retry, Reconnect, DegradedPoll, RefreshArrives,
     RefreshFails, RefreshReadsLater, IInv, TypeOK, HeardOfRun
<1>4. \/ UNCHANGED board
      \/ board' \in {"connecting", "reconnecting", "load_failed", "loading"}
      \/ board' = "polled_out" /\ known \in Terminal /\ UNCHANGED known
  BY DEF Bootstrap, BootstrapFails, Retry, Reconnect, DegradedPoll, RefreshArrives,
     RefreshFails, RefreshReadsLater
<1>5. TypeOK'
  BY <1>1, <1>2, <1>3, <1>4 DEF IInv, TypeOK, logVars, serverVars
<1>6. FramesAreRows'
  BY <1>1, <1>4 DEF IInv, FramesAreRows, Rows, Row, logVars, serverVars
<1>7. ViewIsExact'
  BY <1>1 DEF IInv, ViewIsExact, Row, logVars
<1>8. NoEarlyClose' /\ NewsIsTrue'
  BY <1>1, <1>2, <1>4 DEF IInv, NoEarlyClose, NewsIsTrue, Closed, logVars
<1>9. HeardOfRun'
  BY <1>1 DEF Bootstrap, BootstrapFails, Retry, Reconnect, DegradedPoll, RefreshArrives,
     RefreshFails, RefreshReadsLater, IInv, HeardOfRun, logVars
<1> QED
  BY <1>5, <1>6, <1>7, <1>8, <1>9 DEF IInv

\* The strengthened invariant holds of every reachable state.
THEOREM Inductive == Spec => []IInv
<1>1. IInv /\ [Next]_vars => IInv'
  <2>1. CASE UNCHANGED vars
    BY <2>1 DEF vars, logVars, serverVars, boardVars, IInv, TypeOK, ViewIsExact, NoEarlyClose,
       FramesAreRows, HeardOfRun, NewsIsTrue, Rows, Row, Closed
  <2>2. "RUNNING" \in RunStatus
    OBVIOUS
  <2> QED
    BY <2>1, <2>2, RunStepKeepsIInv, ServerKeepsIInv, ReceiveKeepsIInv, ConnectionKeepsIInv,
       ReadKeepsIInv DEF Next, Hook
<1> QED
  BY <1>1, InitIInv, PTL DEF Spec

\* Every variable keeps its type.
THEOREM TypeCorrect == Spec => []TypeOK
BY Inductive, PTL DEF IInv

\* The board has applied every event it listens to, in order and once, over any
\* number of breaks and replays.
THEOREM ViewIsExactHolds == Spec => []ViewIsExact
BY Inductive, PTL DEF IInv

\* No board stops following a run that goes on, however late its reads answer.
THEOREM NoEarlyCloseHolds == Spec => []NoEarlyClose
BY Inductive, PTL DEF IInv
==============================================================================
