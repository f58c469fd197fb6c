----------------------- MODULE MCReconfigureController -----------------------
(* Two reload tasks and two edits of the ConfigMap, for TLC.               *)
EXTENDS ReconfigureController, TLC

\* The outcomes of ExecReload: success, the three documented failures and a
\* status the controller does not know.
MCOutcomes ==
    { Reloaded,
      [status |-> ESRetry, err |-> FALSE],
      [status |-> ESFailedAndRetry, err |-> TRUE],
      [status |-> ESFailed, err |-> TRUE],
      [status |-> ESUnknown, err |-> FALSE] }

=============================================================================
