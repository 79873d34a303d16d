------------------------- MODULE ReleaseProperties --------------------------
(* What holds from the review of a change set to its deployment.           *)
EXTENDS Release

Trees    == Contents \cup {"git"}
AnyPlan  == Plans \cup Others
Rows     == Strangers \cup [revision : Revisions, script : Detected]
Names    == {None} \cup Rows
RunKeys  == [revision : Revisions, candidate : Names]
RunStatuses == {"QUEUED", "PREPARING", "PREPARED", "FUNDING", "BROADCASTING", "COMPLETED",
                "FAILED", "CANCELLED"}

\* Every row, job and handler stays within its type.
TypeOK ==
  /\ plan \in Plans
  /\ set \in [status : SetStatuses, completeness : {None} \cup Complete]
  /\ generated \in {None} \cup [hash : Trees, completeness : Complete]
  /\ artifact \in {None} \cup Trees
  /\ finalizer \in [pc : {"idle", "snapshot", "create", "complete"},
                    completeness : {None} \cup Complete]
  /\ underway \subseteq DOMAIN runs
  /\ validations \in [Revisions -> {None} \cup
       [status : {"QUEUED", "RUNNING", "COMPLETED", "FAILED"},
        outcome : {None, "PASSED", "FAILED"}, tested : {None} \cup Trees]]
  /\ candidates \subseteq Rows
  /\ runs \in Seq([key : RunKeys, revision : Revisions, candidate : Names, plan : AnyPlan,
                   status : RunStatuses])
  /\ client \in [Clients -> [pc : {"idle", "look", "create", "enqueue"},
                             revision : Revisions, candidate : {Unnamed} \cup Names,
                             plan : {None} \cup AnyPlan]]
  /\ \A c \in Clients : client[c].pc \in {"create", "enqueue"} => client[c].candidate \in Names
  /\ jobs \subseteq {"prepare", "broadcast"} \X (DOMAIN runs)
  /\ worker \in [pc : {"idle", "detect", "simulate", "launch", "confirm"},
                 run : {0} \cup DOMAIN runs]
  /\ worker.pc # "idle" => worker.run # 0
  /\ keys \subseteq DOMAIN runs

\* What a script is started on has been validated: the very files passed, they are what the
\* revision's hash says, and with them the review was complete.  A finalization that is repeated
\* replaces the stored files and not the hash, and everything that is read of the change set and
\* the validations was read long before (evaluateEligibility, hashRepositoryTree).
DeployedIsValidated ==
  \A l \in {x \in launched : runs[x.run].plan = plan} :
    LET r == runs[l.run].revision
        v == validations[r]
    IN /\ v.outcome = "PASSED" /\ v.tested = l.content
       /\ l.content = contentHash(r)
       /\ r = "GENERATED" => generated.completeness = "COMPLETE"

\* After a rollback nothing of the generated revision is started but what had left the queue:
\* a run that was waiting then, or whose request had found the change set FINALIZED before, is
\* refused by the worker, which reads everything again.
RollbackStopsWhatWaits ==
  set.status = "ROLLED_BACK" =>
    \A l \in launched :
      (runs[l.run].revision = "GENERATED" /\ runs[l.run].plan.safe > 0) => l.run \in underway

\* The key of a run names a candidate of another revision.
Misnamed(i) == runs[i].key.candidate # None /\ runs[i].key.candidate.revision # runs[i].revision

\* Requests that race, are repeated or die leave two runs of a revision for one script only when
\* just one of them was asked for before the scripts were listed, or when one was asked for with a
\* candidate of another revision, which no request is refused for and the worker replaces.
DoubledByNameOnly ==
  \A i, j \in DOMAIN runs :
    (/\ i # j /\ runs[i].revision = runs[j].revision /\ runs[i].candidate = runs[j].candidate
     /\ ~ Misnamed(i) /\ ~ Misnamed(j))
      => (runs[i].key.candidate = None) # (runs[j].key.candidate = None)

-----------------------------------------------------------------------------
(* What the repository says and the code does not keep.                    *)

\* "Repeating the prepare API does not rebroadcast a successful run." (docs/DEPLOYMENT_ENGINE.md:13)
CompletedOnce ==
  \A i, j \in DOMAIN runs :
    (/\ runs[i].status = "COMPLETED" /\ runs[j].status = "COMPLETED"
     /\ runs[i].revision = runs[j].revision /\ runs[i].candidate = runs[j].candidate)
      => i = j

\* "If safe changes existed, the ChangeSet is FINALIZED and COMPLETE" (docs/DEPLOYMENT_ENGINE.md:21),
\* whichever plan the request named.
DeployedIsFinalized ==
  \A l \in launched :
    (runs[l.run].revision = "GENERATED" /\ plan.safe > 0)
      => set.status \in {"FINALIZED", "ROLLED_BACK"} /\ set.completeness = "COMPLETE"
=============================================================================
