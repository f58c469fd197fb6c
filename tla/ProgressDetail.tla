--------------------------- MODULE ProgressDetail ---------------------------
(***************************************************************************)
(* The progress ledger of an OpsRequest component status                   *)
(* (pkg/operations/ops_progress_util.go): one ProgressStatusDetail row per *)
(* tracked object and the merge rule setComponentStatusProgressDetail that *)
(* every progress handler goes through.                                    *)
(*                                                                         *)
(* The Go slice compStatus.ProgressDetails is searched by ObjectKey and    *)
(* appended to only when the search fails, so its keys are unique; it is   *)
(* modelled as a function from ObjectKey to row.  A row keeps the status,  *)
(* the message (abstracted to a small value), and whether StartTime and   *)
(* EndTime are set.  Events are abstracted to the last event sent for each *)
(* key.  This module has no variables: the handlers that use it own them.  *)
(***************************************************************************)
EXTENDS Naturals, FiniteSets

\* opsv1alpha1.ProgressStatus
Pending    == "Pending"
Processing == "Processing"
Succeed    == "Succeed"
Failed     == "Failed"
ProgressStatus == {Pending, Processing, Succeed, Failed}

\* The value of lastEvent[k] before any event was sent for k.
NoEvent == [status |-> "NoEvent", msg |-> "none"]

\* A ProgressStatusDetail row whose Message ranges over Msgs.
Row(Msgs) == [status : ProgressStatus, msg : Msgs,
              started : BOOLEAN, ended : BOOLEAN]

\* An event of sendProgressDetailEvent: its reason is the status and its
\* text the message (Pending is never sent).
Event(Msgs) == [status : ProgressStatus \ {Pending}, msg : Msgs]

\* A fresh ProgressStatusDetail{ObjectKey: k} after SetStatusAndMessage:
\* StartTime and EndTime are zero.
NewDetail(status, msg) ==
    [status |-> status, msg |-> msg, started |-> FALSE, ended |-> FALSE]

\* isCompletedProgressStatus
isCompletedProgressStatus(s) == s \in {Succeed, Failed}

\* updateProgressDetailTime: StartTime is stamped on Processing and EndTime
\* on a completed status, each only if still zero.
updateProgressDetailTime(r) ==
    [r EXCEPT !.started = @ \/ r.status = Processing,
              !.ended   = @ \/ isCompletedProgressStatus(r.status)]

\* Mutant: the Failed early return dropped.
IgnoredWithoutFailedGuard(old, nd) == old.status = nd.status /\ old.msg = nd.msg

\* The two early returns of setComponentStatusProgressDetail for an
\* existing row old and a new detail nd: nothing changed, or old is Failed
\* and nd is not Succeed.
Ignored(old, nd) ==
    \/ old.status = nd.status /\ old.msg = nd.msg
    \/ old.status = Failed /\ nd.status # Succeed

\* Mutant: the overwrite path forgets updateProgressDetailTime.
MergeRowWithoutTime(details, k, nd) ==
    IF k \notin DOMAIN details THEN updateProgressDetailTime(nd)
    ELSE IF Ignored(details[k], nd) THEN details[k]
    ELSE [details[k] EXCEPT !.status = nd.status, !.msg = nd.msg]

\* Mutant: the overwrite path stores the new detail, times and all.
MergeRowReplacing(details, k, nd) ==
    IF k \notin DOMAIN details THEN updateProgressDetailTime(nd)
    ELSE IF Ignored(details[k], nd) THEN details[k]
    ELSE updateProgressDetailTime(nd)

\* The row stored under key k after setComponentStatusProgressDetail(k, nd).
MergeRow(details, k, nd) ==
    IF k \notin DOMAIN details THEN updateProgressDetailTime(nd)
    ELSE IF Ignored(details[k], nd) THEN details[k]
    ELSE updateProgressDetailTime([details[k] EXCEPT !.status = nd.status,
                                                     !.msg = nd.msg])

\* Mutant: the event is sent before the Failed early return.
EventSentBeforeFailedCheck(details, k, nd) ==
    /\ \/ k \notin DOMAIN details
       \/ details[k].status # nd.status \/ details[k].msg # nd.msg
    /\ nd.status # Pending

\* Mutant: the overwrite path forgets sendProgressDetailEvent.
EventSentOnlyOnAppend(details, k, nd) ==
    k \notin DOMAIN details /\ nd.status # Pending

\* Whether setComponentStatusProgressDetail(k, nd) sends an event: on append
\* and on overwrite, and sendProgressDetailEvent drops Pending.
EventSent(details, k, nd) ==
    /\ k \notin DOMAIN details \/ ~Ignored(details[k], nd)
    /\ nd.status # Pending

\* One reconcile pass calls setComponentStatusProgressDetail once for each
\* key of DOMAIN updates.  The keys are distinct, so the calls touch
\* distinct rows and their order does not matter: the ledger after the pass.
SetDetails(details, updates) ==
    [k \in DOMAIN details \cup DOMAIN updates |->
        IF k \in DOMAIN updates THEN MergeRow(details, k, updates[k])
                                ELSE details[k]]

\* The last event of each key after the same pass.
SendEvents(lastEvent, details, updates) ==
    [k \in DOMAIN lastEvent |->
        IF k \in DOMAIN updates /\ EventSent(details, k, updates[k])
        THEN [status |-> updates[k].status, msg |-> updates[k].msg]
        ELSE lastEvent[k]]

=============================================================================
