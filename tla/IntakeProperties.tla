--------------------------- MODULE IntakeProperties ---------------------------
(* What the intake of a repository promises.                               *)
EXTENDS Intake, TLC

\* No process, chain pair or commit is named in a definition.
Symmetry == Permutations(Workers) \cup Permutations(Jobs) \cup Permutations(Commits)

IngestPcs   == {"idle", "read", "requeue", "start", "cloning", "clone", "ready",
                "complete", "markFailed", "reread", "fail"}
AnalysisPcs == {"idle", "read", "repository", "mismatch", "requeue", "start",
                "materialize", "inventory", "analyzing", "persist", "complete",
                "catch", "fail"}
ClientPcs   == {"idle", "enqueue", "listJobs", "find"}

Attempts == 0 .. MaxAttempts

JobRows      == [status : JobStatuses, attempt : Attempts, code : Codes,
                 sha : Commits \cup {None}]
AnalysisRows == [status : AnalysisStatuses, results : 0 .. 2]
Entries      == [state : {"none", "waiting", "active", "done"},
                 attempts : 0 .. MaxAttempts - 1, stalls : 0 .. MaxStalls]
HandlerOf(q) == [id : QueueIds(q) \cup {None},
                 pc : IF q = "ingest" THEN IngestPcs ELSE AnalysisPcs,
                 seen : AnalysisStatuses, attempt : Attempts, code : Codes,
                 sha : Commits \cup {None}]
Requests     == [pc : ClientPcs, id : Ids \cup {None}]

\* Every row, queue entry, handler and request stays within its type, and a
\* job is handled by one handler at a time.
TypeOK ==
  /\ job \in [Jobs -> JobRows]
  /\ created \in UNION {[1 .. n -> Jobs] : n \in 0 .. Cardinality(Jobs)}
  /\ repository \in [clone : CloneStatuses, sha : Commits \cup {None}]
  /\ analysis \in [Commits -> AnalysisRows]
  /\ entry \in [Ids -> Entries]
  /\ DOMAIN handler = Handlers
  /\ \A h \in Handlers :
       /\ handler[h] \in HandlerOf(h[2])
       /\ handler[h].pc = "idle" <=> handler[h].id = None
       /\ handler[h].id # None => entry[handler[h].id].state = "active"
       /\ \A g \in Handlers \ {h} : handler[h].id # None => handler[g].id # handler[h].id
  /\ client \in [Clients -> Requests]
  /\ faults \in 0 .. MaxFaults /\ lost \in BOOLEAN

Quiet == \A i \in Ids : entry[i].state \notin {"waiting", "active"}

\* Several jobs write the one repository row, a crash may separate its READY
\* from the job's COMPLETED, and the catch block takes it back.  Once nothing
\* is at work, a READY repository is at the commit of a completed job, and
\* when all jobs are completed the repository is READY, in whatever order
\* they wrote it, unless the answer to a completion was lost.
RepositoryIsIngested ==
  Quiet =>
    /\ repository.clone = "READY" =>
         \E j \in Jobs : job[j].status = "COMPLETED" /\ job[j].sha = repository.sha
    /\ ~ lost /\ CompletedAt = DOMAIN created /\ created # <<>> =>
         repository.clone = "READY"

\* A completed analysis has results, and exactly one set of them unless a
\* fault had the work repeated: persistResult appends.
CompletedHasResults ==
  \A s \in Commits :
    analysis[s].status = "COMPLETED"
      => analysis[s].results \in IF faults = 0 THEN {1} ELSE {1, 2}

\* What is completed stays as it is, and so do its results, whatever is requested,
\* redelivered or retried afterwards: an analysis always, a job unless the
\* answer to its completion was lost.
CompletedStands ==
  /\ []CompletedHasResults
  /\ [][/\ \A s \in Commits : analysis[s].status = "COMPLETED" => analysis'[s] = analysis[s]
        /\ \A j \in Jobs : job[j].status = "COMPLETED" /\ ~ lost => job'[j] = job[j]]_vars

\* "Deterministic failures are not retried." (docs/INGEST.md:22)
DeterministicIsFinal ==
  [][\A j \in Jobs : job[j].status = "FAILED" /\ job[j].code = "deterministic"
                       => job'[j] = job[j]]_vars

\* An ingest that began ends, over one crash, unless a database call or the
\* workspace's allocation fails: on the last attempt nobody takes it up again.
IngestSettles ==
  \A j \in Jobs : job[j].status = "INGESTING"
                    ~> job[j].status \in {"COMPLETED", "FAILED"} \/ lost

\* The same of an analysis.
AnalysisSettles ==
  \A s \in Commits :
    analysis[s].status \in {"MATERIALIZING", "INVENTORYING", "ANALYZING"}
      ~> analysis[s].status \in {"COMPLETED", "FAILED"} \/ lost

\* Neither an ingest nor an analysis is left in the middle.
IntakeSettles == IngestSettles /\ AnalysisSettles

=============================================================================
