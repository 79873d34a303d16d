------------------------- MODULE ChangeSetProperties -------------------------
(* What a change set promises.                                             *)
EXTENDS ChangeSet

WorkerPcs == {"idle", "materialize"} \cup DatabaseCalls
ClientPcs == {"idle", "enqueue", "decide", "acceptAll", "tally", "counts",
              "reselect", "withdraw"}

Completeness == {"COMPLETE", "PARTIAL"}
Revisions == [hash : SUBSET Changes, completeness : Completeness]
Jobs      == [state : {"none", "waiting", "active", "done"},
              attempts : 0 .. MaxAttempts - 1, stalls : 0 .. MaxStalls]
Workers   == [job : JobNames \cup {"none"}, pc : WorkerPcs,
              seen : Statuses \cup {"NONE"}, applied : SUBSET Changes, tally : Counts,
              complete : {"NONE"} \cup Completeness, outcome : {"none", "retry", "stop"}]
Handlers  == [pc : ClientPcs, change : Changes \cup {None},
              wish : JobNames \cup {"none", "ACCEPTED", "REJECTED"}, tally : Counts]

\* Every column, job and handler stays within its type, and a handler knows
\* what it is to write.
TypeOK ==
  /\ status \in Statuses
  /\ rows \in [Changes -> RowStatuses]
  /\ counts \in Counts
  /\ completeness \in {"NONE"} \cup Completeness
  /\ revision \in {None} \cup Revisions
  /\ artifact \in SUBSET Changes
  /\ active \in {"original", "generated"}
  /\ jobs \in [JobNames -> Jobs]
  /\ worker \in Workers
  /\ worker.pc = "idle" <=> worker.job = "none"
  /\ worker.pc \in {"create", "complete"} => worker.complete \in Completeness
  /\ client \in [Clients -> Handlers]
  /\ \A c \in Clients :
       /\ client[c].pc = "enqueue" => client[c].wish \in JobNames
       /\ client[c].pc = "decide" => client[c].change \in Changes
       /\ client[c].pc = "decide" => client[c].wish \in {"ACCEPTED", "REJECTED"}
  /\ late \in BOOLEAN /\ accepted \in SUBSET Changes
  /\ faults \in 0 .. MaxFaults

\* A finalized change set ships exactly the changes its rows say were
\* accepted, whatever was retried, redelivered or generated again on the way,
\* unless a decision was written after finalization collected them.
RevisionIsTheReview ==
  status = "FINALIZED" /\ ~ late => artifact = With("ACCEPTED")

\* COMPLETE is written exactly when every generated change was accepted
\* (changeset-processor.ts:329), with the same reservation.
CompleteMeansAllAccepted ==
  status = "FINALIZED" /\ ~ late
    => (completeness = "COMPLETE" <=> With("ACCEPTED") = Changes)

\* However late a decision is, nothing ships that no decision accepted since
\* it was generated.
NothingShipsUnaccepted == status = "FINALIZED" => artifact \subseteq accepted

\* ROLLED_BACK means that the original revision is selected: the worker is
\* done selecting the generated one before a rollback can begin.
RolledBackSelectsOriginal == status = "ROLLED_BACK" => active = "original"

Sealed == status \in {"FINALIZED", "ROLLED_BACK"}

\* What was finalized stays as it is: files, hash, completeness and verdict.
FinalizedIsKept ==
  [][Sealed => /\ UNCHANGED <<artifact, revision, completeness>>
               /\ status' \in {status, "ROLLED_BACK"}]_vars

\* "A finalized ChangeSet is immutable. Historical rows are never rewritten or
\* deleted." (docs/CHANGESET_ENGINE.md:26)
DecisionsAreKept == [][Sealed => UNCHANGED rows]_vars

\* A generation that began ends in review or in a failure, over one crash,
\* unless a database call fails: on the last attempt nobody takes it up.
GenerationSettles ==
  status \in {"MATERIALIZING", "GENERATING"}
    ~> status \in {"READY_FOR_REVIEW", "FAILED"}

\* The same of a finalization.
FinalizationSettles ==
  status = "FINALIZING" ~> status \in {"FINALIZED", "FAILED"}

\* No change set is left in the middle of what a handler began.
ChangeSetSettles == GenerationSettles /\ FinalizationSettles

=============================================================================
