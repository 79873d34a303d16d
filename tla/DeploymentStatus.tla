-------------------------- MODULE DeploymentStatus --------------------------
(***************************************************************************)
(* The status column of a deployment run and the static transition table  *)
(* every status write is checked against (packages/shared,                 *)
(* deployment-transitions.ts).                                             *)
(***************************************************************************)

Statuses ==
  {"QUEUED", "CHECKING_ELIGIBILITY", "PREPARING", "SIMULATING", "PREPARED",
   "FUNDING", "BROADCASTING", "CONFIRMING", "VERIFYING", "COMPLETED",
   "FAILED", "RECONCILIATION_REQUIRED", "CANCELLED"}

\* ALLOWED_DEPLOYMENT_TRANSITIONS.
AllowedTransitions ==
  [QUEUED               |-> {"CHECKING_ELIGIBILITY", "FAILED", "CANCELLED"},
   CHECKING_ELIGIBILITY |-> {"PREPARING", "FAILED", "CANCELLED"},
   PREPARING            |-> {"SIMULATING", "FAILED", "CANCELLED"},
   SIMULATING           |-> {"PREPARED", "FAILED", "CANCELLED"},
   PREPARED             |-> {"FUNDING", "FAILED", "CANCELLED"},
   FUNDING              |-> {"BROADCASTING", "FAILED", "RECONCILIATION_REQUIRED"},
   BROADCASTING         |-> {"CONFIRMING", "FAILED", "RECONCILIATION_REQUIRED"},
   CONFIRMING           |-> {"VERIFYING", "FAILED", "RECONCILIATION_REQUIRED"},
   VERIFYING            |-> {"COMPLETED", "FAILED", "RECONCILIATION_REQUIRED"},
   COMPLETED            |-> {},
   FAILED               |-> {},
   RECONCILIATION_REQUIRED |->
     {"CONFIRMING", "VERIFYING", "COMPLETED", "FAILED"},
   CANCELLED            |-> {}]

\* assertDeploymentTransition: whether a write from -> to is accepted.  Only
\* the status the caller supplies is looked at, never the row's.
Allowed(from, to) == to \in AllowedTransitions[from]

\* The statuses the handlers treat as "the script may have sent something".
PastBroadcast ==
  {"BROADCASTING", "CONFIRMING", "VERIFYING", "RECONCILIATION_REQUIRED"}

\* The statuses before the irreversible boundary.
PreBroadcast ==
  {"QUEUED", "CHECKING_ELIGIBILITY", "PREPARING", "SIMULATING", "PREPARED",
   "FUNDING"}
=============================================================================
