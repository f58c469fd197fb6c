------------------------ MODULE ProgressDetailTheorems ------------------------
(***************************************************************************)
(* Facts about the ledger merge rule of ProgressDetail, cited by the       *)
(* proofs of the handlers that use it.                                     *)
(***************************************************************************)
EXTENDS ProgressDetail, TLAPS

\* A fresh detail is a row.
LEMMA NewDetailType ==
    ASSUME NEW M, NEW s \in ProgressStatus, NEW m \in M
    PROVE  NewDetail(s, m) \in Row(M)
BY DEF NewDetail, Row

\* Stamping the times keeps a row a row and its status and message.
LEMMA UpdateTimeType ==
    ASSUME NEW M, NEW r \in Row(M)
    PROVE  /\ updateProgressDetailTime(r) \in Row(M)
           /\ updateProgressDetailTime(r).status = r.status
           /\ updateProgressDetailTime(r).msg = r.msg
BY DEF updateProgressDetailTime, Row

\* setComponentStatusProgressDetail stores a row.
LEMMA MergeRowType ==
    ASSUME NEW M, NEW d, NEW k, NEW nd \in Row(M),
           k \in DOMAIN d => d[k] \in Row(M)
    PROVE  MergeRow(d, k, nd) \in Row(M)
<1>1. CASE k \notin DOMAIN d
  BY <1>1, UpdateTimeType DEF MergeRow
<1>2. CASE k \in DOMAIN d /\ Ignored(d[k], nd)
  BY <1>2 DEF MergeRow
<1>3. CASE k \in DOMAIN d /\ ~Ignored(d[k], nd)
  <2>1. [d[k] EXCEPT !.status = nd.status, !.msg = nd.msg] \in Row(M)
    BY <1>3 DEF Row
  <2>2. QED
    BY <1>3, <2>1, UpdateTimeType DEF MergeRow
<1>4. QED
  BY <1>1, <1>2, <1>3

\* What setComponentStatusProgressDetail stores for a fresh detail nd:
\* the old row when an early return fires, otherwise a row with the new
\* status whose times are the old ones and those the new status stamps.
LEMMA MergeRowShape ==
    ASSUME NEW M, NEW d, NEW k, NEW nd \in Row(M), ~nd.started, ~nd.ended,
           k \in DOMAIN d => d[k] \in Row(M)
    PROVE  \/ /\ k \in DOMAIN d /\ Ignored(d[k], nd)
              /\ MergeRow(d, k, nd) = d[k]
           \/ /\ k \in DOMAIN d => ~Ignored(d[k], nd)
              /\ MergeRow(d, k, nd).status = nd.status
              /\ MergeRow(d, k, nd).started =
                   ((k \in DOMAIN d /\ d[k].started) \/ nd.status = Processing)
              /\ MergeRow(d, k, nd).ended =
                   ((k \in DOMAIN d /\ d[k].ended)
                    \/ isCompletedProgressStatus(nd.status))
<1>1. CASE k \notin DOMAIN d
  BY <1>1 DEF MergeRow, updateProgressDetailTime, Row
<1>2. CASE k \in DOMAIN d /\ Ignored(d[k], nd)
  BY <1>2 DEF MergeRow
<1>3. CASE k \in DOMAIN d /\ ~Ignored(d[k], nd)
  BY <1>3 DEF MergeRow, updateProgressDetailTime, Row
<1>4. QED
  BY <1>1, <1>2, <1>3

\* A completed status survives the merge: setComponentStatusProgressDetail
\* with a Succeed or Failed detail leaves a Succeed or Failed row, whether
\* it appends, returns early (same status, or a Failed row kept) or
\* overwrites.
LEMMA MergeRowCompleted ==
    ASSUME NEW M, NEW d, NEW k, NEW nd \in Row(M),
           isCompletedProgressStatus(nd.status),
           k \in DOMAIN d => d[k] \in Row(M)
    PROVE  isCompletedProgressStatus(MergeRow(d, k, nd).status)
<1>1. CASE k \notin DOMAIN d
  BY <1>1, UpdateTimeType DEF MergeRow
<1>2. CASE k \in DOMAIN d /\ Ignored(d[k], nd)
  BY <1>2 DEF MergeRow, Ignored, isCompletedProgressStatus
<1>3. CASE k \in DOMAIN d /\ ~Ignored(d[k], nd)
  <2> DEFINE r == [d[k] EXCEPT !.status = nd.status, !.msg = nd.msg]
  <2>1. r \in Row(M) /\ r.status = nd.status
    BY <1>3 DEF Row
  <2>2. updateProgressDetailTime(r).status = nd.status
    BY <2>1, UpdateTimeType
  <2> QED
    BY <1>3, <2>2 DEF MergeRow
<1> QED
  BY <1>1, <1>2, <1>3

\* A pass of setComponentStatusProgressDetail calls extends the domain by
\* the updated keys and stores rows.
LEMMA SetDetailsType ==
    ASSUME NEW M, NEW d, NEW u,
           \A x \in DOMAIN d : d[x] \in Row(M),
           \A x \in DOMAIN u : u[x] \in Row(M)
    PROVE  /\ DOMAIN SetDetails(d, u) = DOMAIN d \cup DOMAIN u
           /\ SetDetails(d, u) \in [DOMAIN SetDetails(d, u) -> Row(M)]
<1>1. \A x \in DOMAIN d \cup DOMAIN u :
         (IF x \in DOMAIN u THEN MergeRow(d, x, u[x]) ELSE d[x]) \in Row(M)
  BY MergeRowType
<1>2. QED
  BY <1>1 DEF SetDetails

\* The events sent by a pass are events.
LEMMA SendEventsType ==
    ASSUME NEW M, NEW K, NEW e \in [K -> Event(M) \cup {NoEvent}],
           NEW d, NEW u, \A x \in DOMAIN u : u[x] \in Row(M)
    PROVE  SendEvents(e, d, u) \in [K -> Event(M) \cup {NoEvent}]
<1>1. ASSUME NEW x \in K, x \in DOMAIN u, EventSent(d, x, u[x])
      PROVE  [status |-> u[x].status, msg |-> u[x].msg] \in Event(M)
  BY <1>1 DEF EventSent, Event, Row
<1>2. QED
  BY <1>1 DEF SendEvents

\* updateProgressDetailTime's promise for one row: a completed row has an
\* EndTime and a Processing row a StartTime.
Stamped(r) ==
    /\ isCompletedProgressStatus(r.status) => r.ended
    /\ r.status = Processing => r.started

\* A pass of setComponentStatusProgressDetail calls keeps every row
\* stamped: an appended or overwritten row is stamped by
\* updateProgressDetailTime, and an early return keeps a stamped row.
LEMMA SetDetailsStamped ==
    ASSUME NEW M, NEW d, NEW u,
           \A x \in DOMAIN d : d[x] \in Row(M) /\ Stamped(d[x]),
           \A x \in DOMAIN u : u[x] \in Row(M)
    PROVE  \A x \in DOMAIN SetDetails(d, u) : Stamped(SetDetails(d, u)[x])
<1> SUFFICES ASSUME NEW x \in DOMAIN SetDetails(d, u)
             PROVE  Stamped(SetDetails(d, u)[x])
  OBVIOUS
<1>1. CASE x \notin DOMAIN u
  BY <1>1 DEF SetDetails
<1>2. CASE x \in DOMAIN u /\ x \notin DOMAIN d
  BY <1>2 DEF SetDetails, MergeRow, updateProgressDetailTime, Stamped, Row
<1>3. CASE x \in DOMAIN u /\ x \in DOMAIN d /\ Ignored(d[x], u[x])
  BY <1>3 DEF SetDetails, MergeRow
<1>4. CASE x \in DOMAIN u /\ x \in DOMAIN d /\ ~Ignored(d[x], u[x])
  BY <1>4 DEF SetDetails, MergeRow, updateProgressDetailTime, Stamped, Row
<1> QED
  BY <1>1, <1>2, <1>3, <1>4

\* The last event sent for key k announces its row, unless the row is
\* Pending (sendProgressDetailEvent drops Pending).
Announces(d, e, k) ==
    d[k].status # Pending => e[k] = [status |-> d[k].status, msg |-> d[k].msg]

\* A pass keeps every row announced by the last event of its key: the
\* calls that append or overwrite a row send its event, and an early
\* return changes neither the row nor the event.
LEMMA SetDetailsAnnounced ==
    ASSUME NEW M, NEW d, NEW u, NEW e,
           \A x \in DOMAIN d : d[x] \in Row(M) /\ Announces(d, e, x),
           \A x \in DOMAIN u : u[x] \in Row(M),
           DOMAIN d \cup DOMAIN u \subseteq DOMAIN e
    PROVE  \A x \in DOMAIN SetDetails(d, u) :
              Announces(SetDetails(d, u), SendEvents(e, d, u), x)
<1> SUFFICES ASSUME NEW x \in DOMAIN SetDetails(d, u)
             PROVE  Announces(SetDetails(d, u), SendEvents(e, d, u), x)
  OBVIOUS
<1>1. x \in DOMAIN e
  BY DEF SetDetails
<1>2. CASE x \notin DOMAIN u
  BY <1>1, <1>2 DEF SetDetails, SendEvents, Announces
<1>3. CASE x \in DOMAIN u /\ x \notin DOMAIN d
  BY <1>1, <1>3 DEF SetDetails, SendEvents, Announces, MergeRow, EventSent,
     updateProgressDetailTime, Row
<1>4. CASE x \in DOMAIN u /\ x \in DOMAIN d /\ Ignored(d[x], u[x])
  BY <1>1, <1>4 DEF SetDetails, SendEvents, Announces, MergeRow, EventSent
<1>5. CASE x \in DOMAIN u /\ x \in DOMAIN d /\ ~Ignored(d[x], u[x])
  BY <1>1, <1>5 DEF SetDetails, SendEvents, Announces, MergeRow, EventSent,
     updateProgressDetailTime, Row
<1> QED
  BY <1>2, <1>3, <1>4, <1>5

=============================================================================
