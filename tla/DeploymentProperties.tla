------------------------ MODULE DeploymentProperties ------------------------
(***************************************************************************)
(* What the deployment component promises, stated over the state of        *)
(* Deployment.  The first group holds for any fleet of workers under every *)
(* failure the model knows; the second needs the staging topology: one     *)
(* worker process that renews its locks, and a database that answers every *)
(* write it commits.  The third is what the repository says of itself and  *)
(* the code does not keep.                                                 *)
(***************************************************************************)
EXTENDS Deployment

(* Any fleet.                                                              *)

\* A key a worker is about to start a script with has never been used by a
\* script: storeCredential, the finally block of the broadcast handler and
\* the loss of the in-memory map on a crash together make keys single-use.
FreshKeyAtLaunch ==
  \A w \in Workers : At(w, "toBroadcasting") => creds[w] \in Creds \ launched

\* No script is started before a client confirmed the prepared run, whatever
\* the queue redelivers and whichever handler runs.
ConfirmedBeforeLaunch == launched # {} => confirmed

\* The database never holds a hash nobody handed to the network, and never
\* calls a transaction confirmed or reverted against the network's answer.
RowsReflectNetwork ==
  \A t \in Recorded :
    /\ net[t] # "absent"
    /\ txRows[t] = "CONFIRMED" => net[t] = "good"
    /\ txRows[t] = "REVERTED" => net[t] = "bad"

-----------------------------------------------------------------------------
(* One worker process that keeps its locks, every commit answered.         *)

\* BROADCASTING is the irreversible boundary: once a transaction has been
\* handed to the proxy the row never shows an earlier status again, so no
\* handler can start over.
BoundaryIsIrreversible == Journaled # {} => status \notin PreBroadcast

\* While a script may be sending, the address in the row is the one of the
\* key it sends with; reconciliation checks that address.
DeployerIsTheKeyInUse ==
  \A w \in Workers :
    worker[w].pc \in {"toBroadcasting"} \cup ScriptTry => deployer = creds[w]

\* A run is marked COMPLETED only if it recorded transactions and every one
\* of them was mined successfully.
CompletedMeansMined ==
  [][status' = "COMPLETED" /\ status # "COMPLETED"
       => Recorded # {} /\ \A t \in Recorded : net[t] = "good"]_vars

\* A run that handed a transaction to the network is marked FAILED only by
\* the post-deploy checks; every other failure after that point must end in
\* RECONCILIATION_REQUIRED.
SentIsNotSimplyFailed ==
  [][status' = "FAILED" /\ status # "FAILED" /\ Journaled # {}
       => \E w \in Workers : At(w, "toFailed")]_vars

\* The run behaves as one confirmed broadcast.
Once == INSTANCE BroadcastOnce WITH
  Keys <- Creds, Txs <- Own, confirmed <- confirmed, started <- launched, sent <- Journaled
ImplementsBroadcastOnce == Once!Spec

\* With at most one crash, a run that is being prepared or funded leaves those
\* statuses, and one with recorded hashes reaches a verdict or is handed to an
\* operator.
PreparationSettles ==
  status \in {"CHECKING_ELIGIBILITY", "PREPARING", "SIMULATING", "FUNDING"}
    ~> status \notin {"CHECKING_ELIGIBILITY", "PREPARING", "SIMULATING", "FUNDING"}

BroadcastSettles ==
  status \in {"BROADCASTING", "CONFIRMING", "VERIFYING"} /\ Recorded # {}
    ~> status \in {"COMPLETED", "FAILED", "RECONCILIATION_REQUIRED"}

\* Nothing that the worker has begun is left in between, before or after the boundary.
RunSettles == PreparationSettles /\ BroadcastSettles

-----------------------------------------------------------------------------
(* What the repository says and the code does not keep.                    *)

\* PREPARED means that no deployment transaction has been sent.
PreparedSentNothing == status = "PREPARED" => Journaled = {}

\* deployment-service.ts cancels "before broadcast": a cancelled run sent
\* nothing.
CancelledSentNothing == status = "CANCELLED" => Journaled = {}

\* The transition table has no way out of COMPLETED.
CompletedIsFinal == [][status = "COMPLETED" => status' = "COMPLETED"]_vars

\* Recovery inspects the hashes the proxy journaled: of a run that was handed
\* to an operator, and that no handler works on, every one is in the database.
RecoveryKnowsJournal ==
  status = "RECONCILIATION_REQUIRED" /\ (\A w \in Workers : At(w, "idle"))
    => Journaled \subseteq Recorded
=============================================================================
