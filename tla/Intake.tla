------------------------------- MODULE Intake -------------------------------
(***************************************************************************)
(* The repository of one project: it is cloned by ingest jobs, one for     *)
(* each pair of chains the project was submitted for, and a cloned commit  *)
(* is analysed once.                                                       *)
(*                                                                         *)
(* The actors are the API handlers (projects-service.ts and                *)
(* analysis-service.ts), worker processes that each run one ingest and one *)
(* analysis handler at a time (ingest-processor.ts,                        *)
(* analysis-processor.ts), and the queues.  They share the job rows, the   *)
(* analysis rows and the one row of the repository; a database call is a   *)
(* step of its own.                                                        *)
(***************************************************************************)
EXTENDS Naturals, Sequences, FiniteSets

CONSTANTS
  Workers,        \* worker processes
  Clients,        \* requests being handled at a time
  Jobs,           \* the chain pairs, an ingest job for each
  Commits,        \* what the default branch may point to
  None,
  MaxAttempts,    \* attempts of jobOptions, and the max_attempts column
  MaxFaults       \* bound on crashes and failing database calls

ASSUME IntakeConstants ==
  /\ IsFiniteSet(Jobs) /\ IsFiniteSet(Clients)
  /\ Jobs \cap Commits = {}
  /\ None \notin Jobs \cup Commits
  /\ MaxAttempts \in Nat \ {0}
  /\ MaxFaults \in Nat

VARIABLES
  job,            \* the migration job rows
  created,        \* the jobs in the order of their createdAt
  repository,     \* the repository row
  analysis,       \* the analysis row of each commit
  entry,          \* BullMQ: the jobs of both queues
  handler,        \* the worker's handlers
  client,
  faults,         \* crashes and failed database calls so far
  lost            \* a call a handler relies on failed, or its answer was lost

dbVars == <<job, created, repository, analysis>>
vars   == <<dbVars, entry, handler, client, faults, lost>>

-----------------------------------------------------------------------------
JobStatuses      == {"ABSENT", "QUEUED", "INGESTING", "COMPLETED", "FAILED"}
AnalysisStatuses == {"ABSENT", "QUEUED", "MATERIALIZING", "INVENTORYING",
                     "ANALYZING", "COMPLETED", "FAILED"}
CloneStatuses    == {"PENDING", "CLONING", "READY", "FAILED"}

\* The part of the table that a migration job uses before Phase 3.
ALLOWED_JOB_TRANSITIONS ==
  [s \in JobStatuses |->
    CASE s = "QUEUED"    -> {"INGESTING", "FAILED"}
      [] s = "INGESTING" -> {"COMPLETED", "FAILED"}
      [] s = "FAILED"    -> {"QUEUED"}
      [] OTHER           -> {}]

ALLOWED_ANALYSIS_TRANSITIONS ==
  [s \in AnalysisStatuses |->
    CASE s = "QUEUED"        -> {"MATERIALIZING", "FAILED"}
      [] s = "MATERIALIZING" -> {"INVENTORYING", "FAILED"}
      [] s = "INVENTORYING"  -> {"ANALYZING", "FAILED"}
      [] s = "ANALYZING"     -> {"COMPLETED", "FAILED"}
      [] s = "FAILED"        -> {"QUEUED"}
      [] OTHER               -> {}]

\* An attempt that is none too many is told from one that is, and no further:
\* a request that read the QUEUED of a retry may add the job once more.
Another(attempt) == IF attempt < MaxAttempts THEN attempt + 1 ELSE attempt

\* CLONE_TIMEOUT and CLONE_FAILED may be retried, the others may not.
Codes == {"none", "retryable", "deterministic"}

canRetryJob(status, attempt) == status = "FAILED" /\ attempt < MaxAttempts

Ids      == Jobs \cup Commits
Queues   == {"ingest", "analysis"}
Handlers == Workers \X Queues
QueueIds(q) == IF q = "ingest" THEN Jobs ELSE Commits

NoJob    == [status |-> "ABSENT", attempt |-> 0, code |-> "none", sha |-> None]
NewEntry == [state |-> "none", attempts |-> 0, stalls |-> 0]
Idle     == [id |-> None, pc |-> "idle", seen |-> "ABSENT", attempt |-> 0,
             code |-> "none", sha |-> None]
Free     == [pc |-> "idle", id |-> None]

Init ==
  /\ job = [j \in Jobs |-> NoJob]
  /\ created = <<>>
  /\ repository = [clone |-> "PENDING", sha |-> None]
  /\ analysis = [s \in Commits |-> [status |-> "ABSENT", results |-> 0]]
  /\ entry = [i \in Ids |-> NewEntry]
  /\ handler = [h \in Handlers |-> Idle]
  /\ client = [c \in Clients |-> Free]
  /\ faults = 0 /\ lost = FALSE

\* What may go wrong does so at most MaxFaults times.
Fault         == faults < MaxFaults /\ faults' = faults + 1
CallFault == Fault /\ lost' = TRUE
NoFault       == UNCHANGED <<faults, lost>>

-----------------------------------------------------------------------------
(* The queues: a failed handler is repeated up to MaxAttempts times, and   *)
(* the job of a dead worker is handed out once more.                       *)

MaxStalls == 1

Take(h, i) ==
  /\ handler[h] = Idle
  /\ i \in QueueIds(h[2])
  /\ entry[i].state = "waiting"
  /\ entry' = [entry EXCEPT ![i].state = "active"]
  /\ handler' = [handler EXCEPT ![h] = [Idle EXCEPT !.id = i, !.pc = "read"]]
  /\ UNCHANGED <<dbVars, client>> /\ NoFault

Abandoned(i) == entry[i].state = "active" /\ \A h \in Handlers : handler[h].id # i

\* Mutant of Stalled: the job of a dead worker is failed at once.
StalledFails(i) ==
  /\ Abandoned(i)
  /\ entry' = [entry EXCEPT ![i] = [NewEntry EXCEPT !.state = "done"]]
  /\ UNCHANGED <<dbVars, handler, client>> /\ NoFault

Stalled(i) ==
  /\ Abandoned(i)
  /\ entry' = IF entry[i].stalls < MaxStalls
              THEN [entry EXCEPT ![i] = [@ EXCEPT !.state = "waiting",
                                                  !.stalls = entry[i].stalls + 1]]
              ELSE [entry EXCEPT ![i] = [NewEntry EXCEPT !.state = "done"]]
  /\ UNCHANGED <<dbVars, handler, client>> /\ NoFault

\* A handler returned, threw an error that is retried, or threw an
\* UnrecoverableError.
Settle(h, outcome) ==
  LET i == handler[h].id IN
  /\ handler' = [handler EXCEPT ![h] = Idle]
  /\ entry' = IF outcome = "retry" /\ entry[i].attempts + 1 < MaxAttempts
              THEN [entry EXCEPT ![i] = [@ EXCEPT !.state = "waiting",
                                                  !.attempts = entry[i].attempts + 1]]
              ELSE [entry EXCEPT ![i] = [NewEntry EXCEPT !.state = "done"]]

\* A worker process dies with both of its handlers.
Die(w) ==
  /\ Fault
  /\ handler' = [h \in Handlers |-> IF h[1] = w THEN Idle ELSE handler[h]]
  /\ UNCHANGED <<entry, lost>>

Crash(w) ==
  /\ \E q \in Queues : handler[<<w, q>>] # Idle
  /\ Die(w)
  /\ UNCHANGED <<dbVars, client>>

-----------------------------------------------------------------------------
(* A handler's program counter is its next call.                           *)

At(h, q, pc) == h[2] = q /\ handler[h].pc = pc

Goto(h, r)  == handler' = [handler EXCEPT ![h] = r] /\ UNCHANGED entry
To(h, pc)   == Goto(h, [handler[h] EXCEPT !.pc = pc])
Enter(h, pc) == Goto(h, [Idle EXCEPT !.id = handler[h].id, !.pc = pc])

DatabaseCalls == {"read", "requeue", "start", "cloning", "ready", "complete",
                  "markFailed", "reread", "fail", "repository", "mismatch",
                  "inventory", "analyzing", "persist", "catch"}

Guarded(q) == IF q = "ingest" THEN {"clone", "ready", "complete"}
              ELSE {"materialize", "inventory", "analyzing", "persist", "complete"}

\* An error inside the try block is caught, and an ingest takes one that is
\* not its own for CLONE_FAILED; elsewhere it ends the handler.
Throw(h) ==
  IF handler[h].pc \notin Guarded(h[2]) THEN Settle(h, "retry")
  ELSE IF h[2] = "ingest"
  THEN Goto(h, [handler[h] EXCEPT !.pc = "markFailed", !.code = "retryable", !.sha = None])
  ELSE To(h, "catch")

\* A write, which may be committed and then reported as failed.
Written(h, pc) ==
  \/ To(h, pc) /\ NoFault
  \/ CallFault /\ Throw(h)

\* A write that is the last of its handler.  The worker may die before the
\* queue hears of it.
WrittenLast(h, outcome) ==
  \/ Settle(h, outcome) /\ NoFault
  \/ CallFault /\ Throw(h)
  \/ Die(h[1])

\* The call at the program counter fails and changes nothing.
Refused(h) ==
  /\ handler[h].pc \in DatabaseCalls
  /\ CallFault /\ Throw(h)
  /\ UNCHANGED <<dbVars, client>>

OnlyHandler    == UNCHANGED <<dbVars, client>>
OnlyJob        == UNCHANGED <<created, repository, analysis, client>>
OnlyRepository == UNCHANGED <<job, created, analysis, client>>
OnlyAnalysis   == UNCHANGED <<job, created, repository, client>>

-----------------------------------------------------------------------------
(* processIngestJob                                                        *)

\* transitionJob() compares the caller's idea of the old status with the
\* table and then writes unconditionally.
TransitionJob(j, from, row) ==
  /\ row.status \in ALLOWED_JOB_TRANSITIONS[from]
  /\ job' = [job EXCEPT ![j] = row]

\* Where a handler that found the job in this status goes on.
ensureIngesting(status) ==
  CASE status = "FAILED" -> "requeue" [] status = "QUEUED" -> "start"
    [] status = "INGESTING" -> "cloning"

ReadJob(h) ==
  LET r == job[handler[h].id] IN
  /\ At(h, "ingest", "read")
  /\ IF r.status = "COMPLETED" THEN Settle(h, "ok")
     ELSE Goto(h, [handler[h] EXCEPT !.pc = ensureIngesting(r.status),
                                     !.attempt = r.attempt])
  /\ NoFault /\ OnlyHandler

RequeueJob(h) ==
  /\ At(h, "ingest", "requeue")
  /\ LET j == handler[h].id IN TransitionJob(j, "FAILED", [job[j] EXCEPT !.status = "QUEUED"])
  /\ Written(h, "start")
  /\ OnlyJob

StartIngest(h) ==
  /\ At(h, "ingest", "start")
  /\ LET j == handler[h].id IN
     TransitionJob(j, "QUEUED", [job[j] EXCEPT !.status = "INGESTING",
                                               !.attempt = Another(handler[h].attempt)])
  /\ Written(h, "cloning")
  /\ OnlyJob

markRepositoryCloning(h) ==
  /\ At(h, "ingest", "cloning")
  /\ repository' = [repository EXCEPT !.clone = "CLONING"]
  /\ Written(h, "clone")
  /\ OnlyRepository

\* The workspace is allocated before the try block.  The clone is of the
\* commit the default branch points to, or fails.
Clone(h) ==
  /\ At(h, "ingest", "clone")
  /\ \/ \E s \in Commits :
          Goto(h, [handler[h] EXCEPT !.pc = "ready", !.sha = s]) /\ NoFault
     \/ \E code \in Codes \ {"none"} :
          Goto(h, [handler[h] EXCEPT !.pc = "markFailed", !.code = code]) /\ NoFault
     \/ CallFault /\ Settle(h, "retry")
  /\ OnlyHandler

\* Mutant of markRepositoryReady: a commit that is stored is not stored again.
ReadyIfMoved(h) ==
  /\ At(h, "ingest", "ready")
  /\ repository' = IF repository.sha = handler[h].sha THEN repository
                   ELSE [clone |-> "READY", sha |-> handler[h].sha]
  /\ Written(h, "complete")
  /\ OnlyRepository

markRepositoryReady(h) ==
  /\ At(h, "ingest", "ready")
  /\ repository' = [clone |-> "READY", sha |-> handler[h].sha]
  /\ Written(h, "complete")
  /\ OnlyRepository

CompleteJob(h) ==
  /\ At(h, "ingest", "complete")
  /\ LET j == handler[h].id IN
     TransitionJob(j, "INGESTING", [job[j] EXCEPT !.status = "COMPLETED", !.code = "none",
                                                  !.sha = handler[h].sha])
  /\ WrittenLast(h, "ok")
  /\ OnlyJob

markRepositoryFailed(h) ==
  /\ At(h, "ingest", "markFailed")
  /\ repository' = [repository EXCEPT !.clone = "FAILED"]
  /\ Written(h, "reread")
  /\ OnlyRepository

RereadJob(h) ==
  /\ At(h, "ingest", "reread")
  /\ Goto(h, [handler[h] EXCEPT !.pc = "fail", !.attempt = job[handler[h].id].attempt])
  /\ NoFault /\ OnlyHandler

FailJob(h) ==
  /\ At(h, "ingest", "fail")
  /\ LET j == handler[h].id
         retryable == handler[h].code = "retryable"
                      /\ canRetryJob("FAILED", handler[h].attempt)
     IN  /\ TransitionJob(j, "INGESTING", [job[j] EXCEPT !.status = "FAILED",
                                                         !.code = handler[h].code])
         /\ WrittenLast(h, IF retryable THEN "retry" ELSE "stop")
  /\ OnlyJob

Ingest(h) ==
  \/ ReadJob(h) \/ RequeueJob(h) \/ StartIngest(h) \/ markRepositoryCloning(h)
  \/ Clone(h) \/ markRepositoryReady(h) \/ CompleteJob(h)
  \/ markRepositoryFailed(h) \/ RereadJob(h) \/ FailJob(h)

-----------------------------------------------------------------------------
(* processAnalysisJob                                                      *)

Transition(s, from, to) ==
  /\ to \in ALLOWED_ANALYSIS_TRANSITIONS[from]
  /\ analysis' = [analysis EXCEPT ![s].status = to]

\* Mutant of ReadAnalysis: a completed analysis is run again.
ReadAnalysisAnyway(h) ==
  /\ At(h, "analysis", "read")
  /\ Goto(h, [handler[h] EXCEPT !.pc = "repository",
                                !.seen = analysis[handler[h].id].status])
  /\ NoFault /\ OnlyHandler

ReadAnalysis(h) ==
  LET status == analysis[handler[h].id].status IN
  /\ At(h, "analysis", "read")
  /\ IF status = "COMPLETED" THEN Settle(h, "ok")
     ELSE Goto(h, [handler[h] EXCEPT !.pc = "repository", !.seen = status])
  /\ NoFault /\ OnlyHandler

\* The repository may have been cloned at another commit since.
ReadRepository(h) ==
  /\ At(h, "analysis", "repository")
  /\ IF repository.sha # handler[h].id THEN To(h, "mismatch")
     ELSE Enter(h, CASE handler[h].seen = "FAILED" -> "requeue"
                     [] handler[h].seen = "QUEUED" -> "start"
                     [] OTHER -> "materialize")
  /\ NoFault /\ OnlyHandler

\* FAILED -> FAILED is not in the table: the transition throws, and its error
\* is not the UnrecoverableError that follows it.
Mismatch(h) ==
  /\ At(h, "analysis", "mismatch")
  /\ \/ Transition(handler[h].id, handler[h].seen, "FAILED") /\ WrittenLast(h, "stop")
     \/ /\ "FAILED" \notin ALLOWED_ANALYSIS_TRANSITIONS[handler[h].seen]
        /\ Settle(h, "retry") /\ NoFault /\ UNCHANGED analysis
  /\ OnlyAnalysis

\* One call of step(), and the call after it.
Step(h, pc, from, to, next) ==
  /\ At(h, "analysis", pc)
  /\ Transition(handler[h].id, from, to)
  /\ Written(h, next)
  /\ OnlyAnalysis

Requeue(h)   == Step(h, "requeue", "FAILED", "QUEUED", "start")
Start(h)     == Step(h, "start", "QUEUED", "MATERIALIZING", "materialize")
Inventory(h) == Step(h, "inventory", "MATERIALIZING", "INVENTORYING", "analyzing")
Analyzing(h) == Step(h, "analyzing", "INVENTORYING", "ANALYZING", "persist")

\* The workspace is allocated before the try block, the commit is checked out
\* inside it, and is compared with the one asked for.
Materialize(h) ==
  /\ At(h, "analysis", "materialize")
  /\ \/ To(h, "inventory") /\ NoFault
     \/ To(h, "catch") /\ NoFault
     \/ CallFault /\ Settle(h, "retry")
  /\ OnlyHandler

\* persistResult() appends rows in one transaction; of their number only one
\* or more matters.
Appended(n) == IF n < 2 THEN n + 1 ELSE n

PersistResult(h) ==
  /\ At(h, "analysis", "persist")
  /\ \/ /\ analysis' = [analysis EXCEPT ![handler[h].id].results = Appended(@)]
        /\ Written(h, "complete")
     \/ To(h, "catch") /\ NoFault /\ UNCHANGED analysis   \* analyzeRepository throws
  /\ OnlyAnalysis

CompleteAnalysis(h) ==
  /\ At(h, "analysis", "complete")
  /\ Transition(handler[h].id, "ANALYZING", "COMPLETED")
  /\ \/ WrittenLast(h, "ok")
     \/ CallFault /\ Settle(h, "retry")   \* the workspace's cleanup throws
  /\ OnlyAnalysis

\* Neither of the codes the catch block gives an error, ANALYSIS_FAILED and
\* SHA_MISMATCH, is retried.
Catch(h) ==
  LET status == analysis[handler[h].id].status IN
  /\ At(h, "analysis", "catch")
  /\ IF status \in {"FAILED", "COMPLETED"} THEN Settle(h, "stop")
     ELSE Goto(h, [handler[h] EXCEPT !.pc = "fail", !.seen = status])
  /\ NoFault /\ OnlyHandler

FailAnalysis(h) ==
  /\ At(h, "analysis", "fail")
  /\ Transition(handler[h].id, handler[h].seen, "FAILED")
  /\ WrittenLast(h, "stop")
  /\ OnlyAnalysis

Analyse(h) ==
  \/ ReadAnalysis(h) \/ ReadRepository(h) \/ Mismatch(h) \/ Requeue(h) \/ Start(h)
  \/ Materialize(h) \/ Inventory(h) \/ Analyzing(h) \/ PersistResult(h)
  \/ CompleteAnalysis(h) \/ Catch(h) \/ FailAnalysis(h)

-----------------------------------------------------------------------------
(* The API handlers                                                        *)

OnlyClient  == UNCHANGED <<dbVars, entry, handler>> /\ NoFault
Ask(c, pc, i) == client' = [client EXCEPT ![c] = [pc |-> pc, id |-> i]]
Done(c)     == client' = [client EXCEPT ![c] = Free]

\* Whether enqueueIfNeeded adds a job it found like this.
Needed(r) ==
  \/ r.status = "QUEUED"
  \/ r.code = "retryable" /\ canRetryJob(r.status, r.attempt)

\* ingestAndEnqueue, whose upserts find the rows of the project.  The
\* idempotency key is unique, so that of several requests that find no job one
\* inserts it and the others find that one.
FindOrCreateJob(c, j) ==
  /\ client[c] = Free
  /\ \/ /\ job[j].status = "ABSENT"
        /\ job' = [job EXCEPT ![j].status = "QUEUED"]
        /\ created' = Append(created, j)
     \/ /\ Needed(job[j])
        /\ UNCHANGED <<job, created>>
  /\ Ask(c, "enqueue", j)
  /\ UNCHANGED <<repository, analysis, entry, handler>> /\ NoFault

\* Mutant of Enqueue: an id that is known is added again.
EnqueueAgain(c) ==
  /\ client[c].pc = "enqueue"
  /\ entry' = [entry EXCEPT ![client[c].id].state = "waiting"]
  /\ Done(c)
  /\ UNCHANGED <<dbVars, handler>> /\ NoFault

\* An id that is known is not added again.  removeOnComplete and removeOnFail:
\* a finished one may be forgotten by now, a hundred others having finished
\* after it.
Enqueue(c) ==
  LET i == client[c].id IN
  /\ client[c].pc = "enqueue"
  /\ \/ /\ entry[i].state \in {"none", "done"}
        /\ entry' = [entry EXCEPT ![i].state = "waiting"]
     \/ /\ entry[i].state # "none"
        /\ UNCHANGED entry
  /\ Done(c)
  /\ UNCHANGED <<dbVars, handler>> /\ NoFault

\* createForProject reads the repository, refusing one that is not READY, and
\* then the jobs: the commit is that of the newest completed job, or else the
\* repository's.
RequestAnalysis(c) ==
  /\ client[c] = Free
  /\ repository.clone = "READY"
  /\ Ask(c, "listJobs", repository.sha)
  /\ OnlyClient

CompletedAt == {n \in DOMAIN created : job[created[n]].status = "COMPLETED"}
Newest(ns)  == CHOOSE n \in ns : \A m \in ns : m <= n

ListJobs(c) ==
  /\ client[c].pc = "listJobs"
  /\ Ask(c, "find", IF CompletedAt = {} THEN client[c].id
                    ELSE job[created[Newest(CompletedAt)]].sha)
  /\ OnlyClient

\* The key of an analysis is unique too: a request that lost the race leaves
\* the rest to the other.
FindOrCreateAnalysis(c) ==
  LET s == client[c].id IN
  /\ client[c].pc = "find"
  /\ \/ /\ analysis[s].status = "ABSENT"
        /\ analysis' = [analysis EXCEPT ![s].status = "QUEUED"]
        /\ Ask(c, "enqueue", s)
     \/ /\ analysis[s].status \in {"QUEUED", "FAILED"}
        /\ Ask(c, "enqueue", s) /\ UNCHANGED analysis
     \/ /\ analysis[s].status \notin {"ABSENT", "QUEUED", "FAILED"}
        /\ Done(c) /\ UNCHANGED analysis
  /\ UNCHANGED <<job, created, repository, entry, handler>> /\ NoFault

\* A call of the request fails, or the API process dies.
Abandon(c) ==
  /\ client[c] # Free
  /\ Fault /\ Done(c)
  /\ UNCHANGED <<dbVars, entry, handler, lost>>

Client(c) ==
  \/ \E j \in Jobs : FindOrCreateJob(c, j)
  \/ Enqueue(c) \/ RequestAnalysis(c) \/ ListJobs(c) \/ FindOrCreateAnalysis(c)
  \/ Abandon(c)

Next ==
  \/ \E h \in Handlers, i \in Ids : Take(h, i)
  \/ \E i \in Ids : Stalled(i)
  \/ \E w \in Workers : Crash(w)
  \/ \E h \in Handlers : Refused(h) \/ Ingest(h) \/ Analyse(h)
  \/ \E c \in Clients : Client(c)

\* The event loops go on, a queue hands out each job that waits although
\* others wait with it, and its stalled check is periodic.
Fairness ==
  /\ \A h \in Handlers : WF_vars(Ingest(h) \/ Analyse(h))
  /\ \A i \in Ids : SF_vars(\E h \in Handlers : Take(h, i)) /\ WF_vars(Stalled(i))

Spec     == Init /\ [][Next]_vars
FairSpec == Spec /\ Fairness

=============================================================================
