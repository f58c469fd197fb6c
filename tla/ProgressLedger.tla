--------------------------- MODULE ProgressLedger ---------------------------
(***************************************************************************)
(* What the progress ledger of an OpsRequest component status promises to  *)
(* whoever reads it, whatever handler writes it: rows appear, change and   *)
(* disappear in steps in which only a Pending row may be dropped, a Failed *)
(* row changes only to Succeed, and a StartTime or EndTime once set stays  *)
(* set.  setComponentStatusProgressDetail (ProgressDetail) is what the     *)
(* handlers rely on for this; the handler modules implement this module   *)
(* with their ledger as the ledger here.                                   *)
(***************************************************************************)
EXTENDS ProgressDetail

CONSTANTS
    Keys,   \* the ObjectKeys a row may have
    Msgs    \* the messages a row may carry

VARIABLE ledger     \* compStatus.ProgressDetails, keyed by ObjectKey

\* The ledger of a component status is a function from keys to rows.
LedgerTypeOK ==
    /\ DOMAIN ledger \subseteq Keys
    /\ ledger \in [DOMAIN ledger -> Row(Msgs)]

\* A new OpsRequest has no progress rows.
Init == DOMAIN ledger = {}

\* How a row that survives a step may change.
Kept(old, new) ==
    /\ old.status = Failed => new = old \/ new.status = Succeed
    /\ old.started => new.started
    /\ old.ended => new.ended

\* One write of the ledger: any rows added, changed or dropped within the
\* rules.
Write ==
    /\ DOMAIN ledger' \subseteq Keys
    /\ ledger' \in [DOMAIN ledger' -> Row(Msgs)]
    /\ \A k \in DOMAIN ledger \ DOMAIN ledger' : ledger[k].status = Pending
    /\ \A k \in DOMAIN ledger \cap DOMAIN ledger' : Kept(ledger[k], ledger'[k])

Spec == Init /\ [][Write]_ledger

=============================================================================
