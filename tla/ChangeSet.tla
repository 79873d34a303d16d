----------------------------- MODULE ChangeSet -----------------------------
(***************************************************************************)
(* One change set: the worker generates proposed changes from a plan, a    *)
(* developer decides each of them, the worker builds a revision out of the *)
(* accepted ones, and the developer may select the original again.         *)
(*                                                                         *)
(* The actors are the API handlers (changeset-service.ts), one worker      *)
(* process whose handler runs the generate and the finalize job of the     *)
(* change set in turn (changeset-processor.ts), and the queue.  They share *)
(* the rows of changeset-repository.ts and the artifact directory of the   *)
(* generated revision; a database call is a step of its own.               *)
(***************************************************************************)
EXTENDS Naturals, FiniteSets

CONSTANTS
  Clients,        \* requests being handled at a time
  Changes,        \* the plan's SAFE_AUTOMATIC actions, a change row for each
  None,
  MaxFaults,      \* bound on crashes, failing calls and failing patches
  Unanswered      \* whether a failed call may have been committed

ASSUME ChangeSetConstants ==
  /\ IsFiniteSet(Changes)
  /\ None \notin Clients \cup Changes
  /\ MaxFaults \in Nat
  /\ Unanswered \in BOOLEAN

VARIABLES
  \* the change set, its change rows and the revisions of its project
  status,
  rows,           \* the status of each change row
  counts,         \* the rejectedCount and skippedCount columns
  completeness,   \* the completeness column
  revision,       \* the GENERATED revision row: the changes its hash covers
  artifact,       \* the changes applied to the files in its directory
  active,         \* the project's activeRevisionId
  \* BullMQ, the worker and the API
  jobs, worker, client,
  \* history
  late,           \* a decision was written after finalization collected them
  accepted,       \* changes some decision accepted since they were generated
  faults          \* crashes and failures so far

dbVars   == <<status, rows, counts, completeness, revision, artifact, active>>
histVars == <<late, accepted, faults>>
vars     == <<dbVars, jobs, worker, client, histVars>>

-----------------------------------------------------------------------------
Statuses == {"QUEUED", "MATERIALIZING", "GENERATING", "READY_FOR_REVIEW",
             "FINALIZING", "FINALIZED", "FAILED", "ROLLED_BACK"}

ALLOWED_CHANGESET_TRANSITIONS ==
  [s \in Statuses |->
    CASE s = "QUEUED"           -> {"MATERIALIZING", "FAILED"}
      [] s = "MATERIALIZING"    -> {"GENERATING", "FAILED"}
      [] s = "GENERATING"       -> {"READY_FOR_REVIEW", "FAILED"}
      [] s = "READY_FOR_REVIEW" -> {"FINALIZING", "FAILED"}
      [] s = "FINALIZING"       -> {"FINALIZED", "FAILED"}
      [] s = "FINALIZED"        -> {"ROLLED_BACK"}
      [] s = "FAILED"           -> {"QUEUED"}
      [] s = "ROLLED_BACK"      -> {}]

RowStatuses == {"ABSENT", "PROPOSED", "ACCEPTED", "REJECTED", "SKIPPED"}

With(s) == {c \in Changes : rows[c] = s}

\* groupBy of refreshCounts, for the two counts that anything depends on.
CountsOf(r) == [rejected |-> Cardinality({c \in Changes : r[c] = "REJECTED"}),
                skipped  |-> Cardinality({c \in Changes : r[c] = "SKIPPED"})]
NoCounts == [rejected |-> 0, skipped |-> 0]
Counts   == [rejected : 0 .. Cardinality(Changes), skipped : 0 .. Cardinality(Changes)]

JobNames == {"generate", "finalize"}
NewJob   == [state |-> "none", attempts |-> 0, stalls |-> 0]
Idle     == [job |-> "none", pc |-> "idle", seen |-> "NONE", applied |-> {},
             tally |-> NoCounts, complete |-> "NONE", outcome |-> "none"]
Free     == [pc |-> "idle", change |-> None, wish |-> "none", tally |-> NoCounts]

Init ==
  /\ status = "QUEUED"
  /\ rows = [c \in Changes |-> "ABSENT"]
  /\ counts = NoCounts
  /\ completeness = "NONE" /\ revision = None /\ artifact = {}
  /\ active = "original"
  /\ jobs = [j \in JobNames |-> NewJob]
  /\ worker = Idle
  /\ client = [c \in Clients |-> Free]
  /\ late = FALSE /\ accepted = {} /\ faults = 0

\* What may go wrong does so at most MaxFaults times.
Fault == faults < MaxFaults /\ faults' = faults + 1

-----------------------------------------------------------------------------
(* The queue: one handler at a time, three attempts, one redelivery of a   *)
(* stalled job, and an id that is known is not added again.                *)

MaxAttempts == 3
MaxStalls   == 1

Add(j) == jobs' = IF jobs[j].state = "none" THEN [jobs EXCEPT ![j].state = "waiting"]
                                            ELSE jobs

Take(j) ==
  /\ worker = Idle
  /\ jobs[j].state = "waiting"
  /\ jobs' = [jobs EXCEPT ![j].state = "active"]
  /\ worker' = [Idle EXCEPT !.job = j, !.pc = "read"]
  /\ UNCHANGED <<dbVars, client, histVars>>

\* Mutant of Stalled: a stalled job is failed at once.
StalledFails(j) ==
  /\ jobs[j].state = "active" /\ worker.job # j
  /\ jobs' = [jobs EXCEPT ![j] = [NewJob EXCEPT !.state = "done"]]
  /\ UNCHANGED <<dbVars, worker, client, histVars>>

Stalled(j) ==
  /\ jobs[j].state = "active" /\ worker.job # j
  /\ jobs' = IF jobs[j].stalls < MaxStalls
             THEN [jobs EXCEPT ![j] = [@ EXCEPT !.state = "waiting",
                                                !.stalls = jobs[j].stalls + 1]]
             ELSE [jobs EXCEPT ![j] = [NewJob EXCEPT !.state = "done"]]
  /\ UNCHANGED <<dbVars, worker, client, histVars>>

\* removeOnComplete and removeOnFail: a finished job is forgotten once a
\* hundred others have finished after it.
Evict(j) ==
  /\ jobs[j].state = "done"
  /\ jobs' = [jobs EXCEPT ![j] = NewJob]
  /\ UNCHANGED <<dbVars, worker, client, histVars>>

\* The handler of the job in hand ends: it returned, threw an error that is
\* retried, or an UnrecoverableError.  Of a finished job only the id matters.
Settle(outcome) ==
  LET j == worker.job IN
  /\ worker' = Idle
  /\ jobs' = IF outcome = "retry" /\ jobs[j].attempts + 1 < MaxAttempts
             THEN [jobs EXCEPT ![j] = [@ EXCEPT !.state = "waiting",
                                                !.attempts = jobs[j].attempts + 1]]
             ELSE [jobs EXCEPT ![j] = [NewJob EXCEPT !.state = "done"]]

Crash ==
  /\ worker # Idle
  /\ Fault
  /\ worker' = Idle
  /\ UNCHANGED <<dbVars, jobs, client, late, accepted>>

-----------------------------------------------------------------------------
(* The worker's handler.  A program counter value is the next call.        *)

At(job, pc) == worker.job = job /\ worker.pc = pc

Goto(w) == worker' = w /\ UNCHANGED <<jobs, faults>>
To(pc)  == Goto([worker EXCEPT !.pc = pc])
Enter(pc) == Goto([Idle EXCEPT !.job = worker.job, !.pc = pc])

Guarded == {"materialize", "current", "generating", "persist", "ready", "list",
            "snapshot", "tally", "create", "complete", "activate", "finish"}
DatabaseCalls == {"read", "check", "mismatch", "requeue", "latest", "start", "current",
                  "generating", "persist", "ready", "skip", "skipTally",
                  "skipCounts", "begin", "list", "snapshot", "tally", "create",
                  "complete", "activate", "finish", "catch", "fail"}

\* An error inside the try block is caught; elsewhere it ends the handler.
Throw(outcome) ==
  IF worker.pc \in Guarded
  THEN worker' = [Idle EXCEPT !.job = worker.job, !.pc = "catch", !.outcome = outcome]
       /\ UNCHANGED jobs
  ELSE Settle(outcome)

\* A write, which may be committed and then reported as failed.
Written(pc) ==
  \/ To(pc)
  \/ Unanswered /\ Fault /\ Throw("retry")

\* A write that is the last of its handler.
WrittenLast(outcome) ==
  \/ Settle(outcome) /\ UNCHANGED faults
  \/ Unanswered /\ Fault /\ Throw("retry")

\* The call at the program counter fails and changes nothing.
Refused ==
  /\ worker.pc \in DatabaseCalls
  /\ Fault /\ Throw("retry")
  /\ UNCHANGED <<dbVars, client, late, accepted>>

OnlyStatus == UNCHANGED <<rows, counts, completeness, revision, artifact, active,
                          client, late, accepted>>
OnlyWorker == UNCHANGED <<dbVars, client, late, accepted>>

\* transition() compares the caller's idea of the old status with the table
\* and then writes unconditionally.
Transition(from, to) ==
  /\ to \in ALLOWED_CHANGESET_TRANSITIONS[from]
  /\ status' = to

\* Mutant of NothingToDo: a generation is repeated although it was reviewed.
NothingToDoEver ==
  worker.job = "finalize" /\ status \in {"FINALIZED", "ROLLED_BACK"}

\* The statuses in which a handler returns at once.
NothingToDo ==
  \/ status \in {"FINALIZED", "ROLLED_BACK"}
  \/ worker.job = "generate" /\ status \in {"READY_FOR_REVIEW", "FINALIZING"}

Eligible == worker.job = "finalize" => status \in {"READY_FOR_REVIEW", "FINALIZING"}

Read ==
  /\ worker.pc = "read"
  /\ \/ NothingToDo /\ Settle("ok") /\ UNCHANGED faults
     \/ ~ NothingToDo /\ ~ Eligible /\ Settle("stop") /\ UNCHANGED faults
     \/ /\ ~ NothingToDo /\ Eligible
        /\ Goto([worker EXCEPT !.pc = "check", !.seen = status])
  /\ OnlyWorker

\* The repository row may have moved to another commit since the plan.
Check ==
  /\ worker.pc = "check"
  /\ \/ Fault /\ worker' = [worker EXCEPT !.pc = "mismatch"] /\ UNCHANGED jobs
     \/ /\ worker.job = "generate"
        /\ Enter(IF worker.seen = "FAILED" THEN "requeue" ELSE "latest")
     \/ /\ worker.job = "finalize"
        /\ Enter(IF worker.seen = "READY_FOR_REVIEW" THEN "skip" ELSE "materialize")
  /\ OnlyWorker

\* FAILED -> FAILED is not in the table: the transition throws, and its error
\* is not the UnrecoverableError that follows it.
Mismatch ==
  /\ worker.pc = "mismatch"
  /\ \/ Transition(worker.seen, "FAILED") /\ WrittenLast("stop")
     \/ /\ "FAILED" \notin ALLOWED_CHANGESET_TRANSITIONS[worker.seen]
        /\ Settle("retry") /\ UNCHANGED <<status, faults>>
  /\ OnlyStatus

\* The workspace is allocated before the try block, the commit is checked out
\* in it, and for a generation the checkout is compared with the plan again.
Materialize ==
  /\ worker.pc = "materialize"
  /\ \/ To(IF worker.job = "generate" THEN "current" ELSE "list")
     \/ Fault /\ Settle("retry")
     \/ Fault /\ Throw("retry")
     \/ worker.job = "generate" /\ Fault /\ Throw("stop")
  /\ OnlyWorker

-----------------------------------------------------------------------------
(* processGenerateChangeSet                                                *)

Requeue ==
  /\ At("generate", "requeue")
  /\ Transition("FAILED", "QUEUED")
  /\ Written("latest")
  /\ OnlyStatus

Latest ==
  /\ At("generate", "latest")
  /\ To(IF status = "QUEUED" THEN "start" ELSE "materialize")
  /\ OnlyWorker

Start ==
  /\ At("generate", "start")
  /\ Transition("QUEUED", "MATERIALIZING")
  /\ Written("materialize")
  /\ OnlyStatus

Current ==
  /\ At("generate", "current")
  /\ To(IF status = "MATERIALIZING" THEN "generating" ELSE "persist")
  /\ OnlyWorker

Generating ==
  /\ At("generate", "generating")
  /\ Transition("MATERIALIZING", "GENERATING")
  /\ Written("persist")
  /\ OnlyStatus

\* The rows get new ids, so a decision that has looked up an old one ends in
\* an error when it comes to write.
WithoutDecisions == [c \in Clients |-> IF client[c].pc = "decide" THEN Free ELSE client[c]]

\* Each SAFE_AUTOMATIC action becomes a proposed change or, when a
\* precondition of its patcher fails, a skipped one.
PersistGenerated ==
  /\ At("generate", "persist")
  /\ \E skipped \in SUBSET Changes :
       LET new == [c \in Changes |-> IF c \in skipped THEN "SKIPPED" ELSE "PROPOSED"]
       IN  rows' = new /\ counts' = CountsOf(new)
  /\ client' = WithoutDecisions
  /\ late' = FALSE /\ accepted' = {}
  /\ Written("ready")
  /\ UNCHANGED <<status, completeness, revision, artifact, active>>

Ready ==
  /\ At("generate", "ready")
  /\ Transition("GENERATING", "READY_FOR_REVIEW")
  /\ WrittenLast("ok")
  /\ OnlyStatus

-----------------------------------------------------------------------------
(* processFinalizeChangeSet                                                *)

\* Mutant of SkipRemainingProposed: what was not decided counts as accepted.
SkipAccepts ==
  /\ At("finalize", "skip")
  /\ rows' = [c \in Changes |-> IF rows[c] = "PROPOSED" THEN "ACCEPTED" ELSE rows[c]]
  /\ Written("skipTally")
  /\ UNCHANGED <<status, counts, completeness, revision, artifact, active, client,
                 late, accepted>>

SkipRemainingProposed ==
  /\ At("finalize", "skip")
  /\ rows' = [c \in Changes |-> IF rows[c] = "PROPOSED" THEN "SKIPPED" ELSE rows[c]]
  /\ Written("skipTally")
  /\ UNCHANGED <<status, counts, completeness, revision, artifact, active, client,
                 late, accepted>>

\* refreshCounts reads the rows and writes the change set, in two steps.
SkipTally ==
  /\ At("finalize", "skipTally")
  /\ Goto([worker EXCEPT !.pc = "skipCounts", !.tally = CountsOf(rows)])
  /\ OnlyWorker

SkipCounts ==
  /\ At("finalize", "skipCounts")
  /\ counts' = worker.tally
  /\ \/ Goto([worker EXCEPT !.pc = "begin", !.tally = NoCounts])
     \/ Unanswered /\ Fault /\ Throw("retry")
  /\ UNCHANGED <<status, rows, completeness, revision, artifact, active, client,
                 late, accepted>>

Begin ==
  /\ At("finalize", "begin")
  /\ Transition("READY_FOR_REVIEW", "FINALIZING")
  /\ Written("materialize")
  /\ OnlyStatus

\* The accepted changes are read, then applied to the fresh checkout.  Two
\* of them may not apply one after the other.
ListAccepted ==
  /\ At("finalize", "list")
  /\ \/ Goto([worker EXCEPT !.pc = "snapshot", !.applied = With("ACCEPTED")])
     \/ Cardinality(With("ACCEPTED")) > 0 /\ Fault /\ Throw("retry")
  /\ OnlyWorker

\* Mutant of Snapshot: an existing artifact is kept.
SnapshotOnce ==
  /\ At("finalize", "snapshot")
  /\ To("tally")
  /\ OnlyWorker

\* The files go to the directory of the revision the change set has, or of a
\* new id nobody knows yet, and their hash is computed.
Snapshot ==
  /\ At("finalize", "snapshot")
  /\ To("tally")
  /\ artifact' = IF revision # None THEN worker.applied ELSE artifact
  /\ UNCHANGED <<status, rows, counts, completeness, revision, active, client,
                 late, accepted>>

\* Mutant of Tally: skipped changes do not make the revision partial.
TallyIgnoresSkipped ==
  /\ At("finalize", "tally")
  /\ Goto([worker EXCEPT
       !.complete = IF counts.rejected = 0 THEN "COMPLETE" ELSE "PARTIAL",
       !.pc = IF revision = None THEN "create" ELSE "complete"])
  /\ OnlyWorker

Tally ==
  /\ At("finalize", "tally")
  /\ Goto([worker EXCEPT
       !.complete = IF counts = NoCounts THEN "COMPLETE" ELSE "PARTIAL",
       !.pc = IF revision = None THEN "create" ELSE "complete"])
  /\ OnlyWorker

\* Mutant of CreateGeneratedRevision: it copies the change set's completeness,
\* which is written after it.
CreateFromColumn ==
  /\ At("finalize", "create")
  /\ revision' = [hash |-> worker.applied, completeness |-> completeness]
  /\ artifact' = worker.applied
  /\ Written("complete")
  /\ UNCHANGED <<status, rows, counts, completeness, active, client, late, accepted>>

CreateGeneratedRevision ==
  /\ At("finalize", "create")
  /\ revision' = [hash |-> worker.applied, completeness |-> worker.complete]
  /\ artifact' = worker.applied
  /\ Written("complete")
  /\ UNCHANGED <<status, rows, counts, completeness, active, client, late,
                 accepted>>

SetCompleteness ==
  /\ At("finalize", "complete")
  /\ completeness' = worker.complete
  /\ Written("activate")
  /\ UNCHANGED <<status, rows, counts, revision, artifact, active, client, late,
                 accepted>>

SetActiveRevision ==
  /\ At("finalize", "activate")
  /\ active' = "generated"
  /\ Written("finish")
  /\ UNCHANGED <<status, rows, counts, completeness, revision, artifact, client,
                 late, accepted>>

Finish ==
  /\ At("finalize", "finish")
  /\ Transition("FINALIZING", "FINALIZED")
  /\ WrittenLast("ok")
  /\ OnlyStatus

-----------------------------------------------------------------------------
(* The catch blocks                                                        *)

Reported ==
  IF worker.job = "generate" THEN status \in {"QUEUED", "MATERIALIZING", "GENERATING"}
                             ELSE status \notin {"FAILED", "FINALIZED"}

Catch ==
  /\ worker.pc = "catch"
  /\ IF Reported THEN Goto([worker EXCEPT !.pc = "fail", !.seen = status])
                 ELSE Settle(worker.outcome) /\ UNCHANGED faults
  /\ OnlyWorker

Fail ==
  /\ worker.pc = "fail"
  /\ \/ Transition(worker.seen, "FAILED") /\ WrittenLast(worker.outcome)
     \/ /\ "FAILED" \notin ALLOWED_CHANGESET_TRANSITIONS[worker.seen]
        /\ Settle("retry") /\ UNCHANGED <<status, faults>>
  /\ OnlyStatus

Handler ==
  \/ Read \/ Check \/ Mismatch \/ Materialize
  \/ Requeue \/ Latest \/ Start \/ Current \/ Generating \/ PersistGenerated \/ Ready
  \/ SkipRemainingProposed \/ SkipTally \/ SkipCounts \/ Begin \/ ListAccepted
  \/ Snapshot \/ Tally \/ CreateGeneratedRevision \/ SetCompleteness
  \/ SetActiveRevision \/ Finish \/ Catch \/ Fail

-----------------------------------------------------------------------------
(* The API handlers.  A handler reads, and acts on what it read in a later *)
(* step.                                                                   *)

OnlyClient == UNCHANGED <<dbVars, jobs, worker, histVars>>

\* Finalization has taken the decisions as they are.
Collected ==
  \/ status \in {"FINALIZING", "FINALIZED", "ROLLED_BACK"}
  \/ worker.job = "finalize" /\ worker.pc \in {"skipTally", "skipCounts", "begin"}

\* createForPlan of a change set that exists, which enqueues an unfinished one,
\* and finalize.
Request(c, j) ==
  /\ client[c] = Free
  /\ status \in IF j = "generate" THEN {"QUEUED", "FAILED"} ELSE {"READY_FOR_REVIEW"}
  /\ client' = [client EXCEPT ![c] = [@ EXCEPT !.pc = "enqueue", !.wish = j]]
  /\ OnlyClient

EnqueueJob(c) ==
  /\ client[c].pc = "enqueue"
  /\ Add(client[c].wish)
  /\ client' = [client EXCEPT ![c] = Free]
  /\ UNCHANGED <<dbVars, worker, histVars>>

\* accept and reject.  The change set is found in review, and the change after
\* that PROPOSED; a change does not become PROPOSED again, so it was when the
\* change set was read, and the two reads are one.
Decide(c, ch, verdict) ==
  /\ client[c] = Free
  /\ status = "READY_FOR_REVIEW" /\ rows[ch] = "PROPOSED"
  /\ client' = [client EXCEPT ![c] = [@ EXCEPT !.pc = "decide", !.change = ch,
                                               !.wish = verdict]]
  /\ OnlyClient

SetChangeStatus(c) ==
  /\ client[c].pc = "decide"
  /\ rows' = [rows EXCEPT ![client[c].change] = client[c].wish]
  /\ accepted' = IF client[c].wish = "ACCEPTED" THEN accepted \cup {client[c].change}
                                                ELSE accepted
  /\ late' = (late \/ Collected)
  /\ client' = [client EXCEPT ![c] = [Free EXCEPT !.pc = "tally"]]
  /\ UNCHANGED <<status, counts, completeness, revision, artifact, active, jobs,
                 worker, faults>>

AcceptAll(c) ==
  /\ client[c] = Free
  /\ status = "READY_FOR_REVIEW"
  /\ client' = [client EXCEPT ![c] = [@ EXCEPT !.pc = "acceptAll"]]
  /\ OnlyClient

AcceptAllProposed(c) ==
  /\ client[c].pc = "acceptAll"
  /\ rows' = [ch \in Changes |-> IF rows[ch] = "PROPOSED" THEN "ACCEPTED" ELSE rows[ch]]
  /\ accepted' = accepted \cup With("PROPOSED")
  /\ late' = (late \/ (Collected /\ With("PROPOSED") # {}))
  /\ client' = [client EXCEPT ![c] = [Free EXCEPT !.pc = "tally"]]
  /\ UNCHANGED <<status, counts, completeness, revision, artifact, active, jobs,
                 worker, faults>>

\* refreshCounts, as above.
ReadCounts(c) ==
  /\ client[c].pc = "tally"
  /\ client' = [client EXCEPT ![c] = [@ EXCEPT !.pc = "counts", !.tally = CountsOf(rows)]]
  /\ OnlyClient

WriteCounts(c) ==
  /\ client[c].pc = "counts"
  /\ counts' = client[c].tally
  /\ late' = (late \/ (Collected /\ counts' # CountsOf(rows)))
  /\ client' = [client EXCEPT ![c] = Free]
  /\ UNCHANGED <<status, rows, completeness, revision, artifact, active, jobs,
                 worker, accepted, faults>>

Rollback(c) ==
  /\ client[c] = Free
  /\ status = "FINALIZED"
  /\ client' = [client EXCEPT ![c] = [@ EXCEPT !.pc = "reselect"]]
  /\ OnlyClient

\* Mutant of Reselect: the original is not selected.
ReselectNothing(c) ==
  /\ client[c].pc = "reselect"
  /\ client' = [client EXCEPT ![c] = [@ EXCEPT !.pc = "withdraw"]]
  /\ OnlyClient

Reselect(c) ==
  /\ client[c].pc = "reselect"
  /\ active' = "original"
  /\ client' = [client EXCEPT ![c] = [@ EXCEPT !.pc = "withdraw"]]
  /\ UNCHANGED <<status, rows, counts, completeness, revision, artifact, jobs,
                 worker, histVars>>

Withdraw(c) ==
  /\ client[c].pc = "withdraw"
  /\ Transition("FINALIZED", "ROLLED_BACK")
  /\ client' = [client EXCEPT ![c] = Free]
  /\ UNCHANGED <<rows, counts, completeness, revision, artifact, active, jobs,
                 worker, histVars>>

\* A call of the handler fails, or the API process dies.
Abandon(c) ==
  /\ client[c] # Free /\ Fault
  /\ client' = [client EXCEPT ![c] = Free]
  /\ UNCHANGED <<dbVars, jobs, worker, late, accepted>>

Client(c) ==
  \/ \E j \in JobNames : Request(c, j)
  \/ EnqueueJob(c)
  \/ \E ch \in Changes, verdict \in {"ACCEPTED", "REJECTED"} : Decide(c, ch, verdict)
  \/ SetChangeStatus(c) \/ AcceptAll(c) \/ AcceptAllProposed(c)
  \/ ReadCounts(c) \/ WriteCounts(c)
  \/ Rollback(c) \/ Reselect(c) \/ Withdraw(c)
  \/ Abandon(c)

Next ==
  \/ \E j \in JobNames : Take(j) \/ Stalled(j) \/ Evict(j)
  \/ Crash \/ Refused \/ Handler
  \/ \E c \in Clients : Client(c)

\* The worker's event loop goes on, the queue hands out what waits although
\* its two jobs exclude each other, and its stalled check is periodic.
Fairness ==
  /\ WF_vars(Handler)
  /\ \A j \in JobNames : SF_vars(Take(j)) /\ WF_vars(Stalled(j))

Spec     == Init /\ [][Next]_vars
FairSpec == Spec /\ Fairness

=============================================================================
