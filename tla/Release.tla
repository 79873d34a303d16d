------------------------------ MODULE Release -------------------------------
(***************************************************************************)
(* From a change set to the network: one finalization, the validations of  *)
(* its revision and the deployment runs that are asked for, prepared,      *)
(* confirmed and broadcast, each by a process of its own over one          *)
(* database.                                                               *)
(*                                                                         *)
(* What ChangeSet, Validation and Deployment say of each of them in detail *)
(* is a choice here; this module is about what they read of one another.   *)
(* A tree of files is known by its content hash, which is the content.     *)
(***************************************************************************)
EXTENDS Naturals, FiniteSets, Sequences

CONSTANTS
  Clients,        \* requests being handled at a time
  Contents,       \* what the decisions of a review may come to
  Scripts,        \* the scripts in the repository, detected in this order
  Certain,        \* those whose detection is certain
  ForFoundry,     \* those that Foundry runs
  Plans,          \* what may have been planned
  Others,         \* plans of other migrations, which a request may name instead
  Strangers,      \* the candidate rows of other revisions, which it may name too
  None,           \* in a run or a key: no candidate yet, "pending"
  Unnamed,        \* in a request: no candidate
  Tested,         \* bound on validations: the revisions that one is asked for
  MaxRuns         \* bound on deployment runs

ASSUME ReleaseConstants ==
  /\ IsFiniteSet(Clients) /\ IsFiniteSet(Contents) /\ MaxRuns \in Nat
  /\ None \notin Contents \cup {"git"} /\ Contents # {}
  /\ Scripts \in Seq(STRING)
  /\ Strangers \subseteq [revision : {"ELSEWHERE"}, script : STRING]
  /\ Plans \subseteq [outcome : {"READY_TO_APPLY", "NEEDS_REVIEW", "BLOCKED"},
                               safe : Nat, pending : Nat]

VARIABLES
  plan,           \* the completed plan
  set,            \* the change set's row
  generated,      \* the row of its revision, once there is one
  artifact,       \* the files that are stored for it
  finalizer,      \* the finalize handler
  underway,       \* the runs that were past the queue when the change set was rolled back
  validations,    \* the validation runs, by revision
  candidates,     \* the candidate rows: which revision, which script
  runs,           \* the deployment runs
  client,         \* the prepare requests
  jobs,           \* the deployment queue
  worker,         \* its worker
  keys,           \* the runs whose key is in the worker's memory
  launched        \* what scripts have been started on

releaseVars == <<plan, set, generated, artifact, finalizer, underway, validations, candidates,
                 runs, client, jobs, worker, keys, launched>>

Revisions   == {"ORIGINAL", "GENERATED"}
SetStatuses == {"READY_FOR_REVIEW", "FINALIZING", "FINALIZED", "FAILED", "ROLLED_BACK"}
Complete    == {"COMPLETE", "PARTIAL"}

Idle == [pc |-> "idle", revision |-> "ORIGINAL", candidate |-> Unnamed, plan |-> None]

Resting == [pc |-> "idle", run |-> 0]

NotFinalizing == [pc |-> "idle", completeness |-> None]

Init ==
  /\ plan \in Plans
  /\ set = [status |-> "READY_FOR_REVIEW", completeness |-> None]
  /\ generated = None
  /\ artifact = None
  /\ finalizer = NotFinalizing
  /\ underway = {}
  /\ validations = [r \in Revisions |-> None]
  /\ candidates = Strangers
  /\ runs = <<>>
  /\ client = [c \in Clients |-> Idle]
  /\ jobs = {}
  /\ worker = Resting
  /\ keys = {}
  /\ launched = {}

\* What is kept of a revision: the commit of the original is its hash.
Exists(r)      == r = "GENERATED" => generated # None
contentHash(r) == IF r = "ORIGINAL" THEN "git" ELSE generated.hash
materialize(r) == IF r = "ORIGINAL" THEN "git" ELSE artifact

-----------------------------------------------------------------------------
(* The change set: finalized, perhaps twice over, and rolled back          *)

finalizeVars  == <<set, generated, artifact, finalizer, underway>>
deployVars    == <<candidates, runs, client, jobs, worker, keys, launched>>

\* Mutant of StartFinalize: the row is made before there are files to hash.
StartFinalizeAtRow ==
  /\ finalizer.pc = "idle"
  /\ set.status \in {"READY_FOR_REVIEW", "FINALIZING"}
  /\ set' = [set EXCEPT !.status = "FINALIZING"]
  /\ finalizer' = [finalizer EXCEPT !.pc = "create"]
  /\ UNCHANGED <<plan, generated, artifact, underway, validations, deployVars>>

StartFinalize ==
  /\ finalizer.pc = "idle"
  /\ set.status \in {"READY_FOR_REVIEW", "FINALIZING"}
  /\ set' = [set EXCEPT !.status = "FINALIZING"]
  /\ finalizer' = [finalizer EXCEPT !.pc = "snapshot"]
  /\ UNCHANGED <<plan, generated, artifact, underway, validations, deployVars>>

\* The accepted changes on the base revision replace what is stored, or do not apply; an
\* empty plan leaves the base as it is.
Snapshot ==
  /\ finalizer.pc = "snapshot"
  /\ \/ /\ artifact' \in IF plan.safe = 0 THEN {"git"} ELSE Contents
        /\ finalizer' = [finalizer EXCEPT !.pc = "create"]
        /\ UNCHANGED set
     \/ /\ set' = [set EXCEPT !.status = "FAILED"]
        /\ finalizer' = NotFinalizing
        /\ UNCHANGED artifact
  /\ UNCHANGED <<plan, generated, underway, validations, deployVars>>

\* The counts decide whether the review is complete; a row that is there stays.
CreateRevision ==
  /\ finalizer.pc = "create"
  /\ \E c \in Complete :
       /\ finalizer' = [pc |-> "complete", completeness |-> c]
       /\ generated' = IF generated = None THEN [hash |-> artifact, completeness |-> c]
                       ELSE generated
  /\ UNCHANGED <<plan, set, artifact, underway, validations, deployVars>>

CompleteFinalize ==
  /\ finalizer.pc = "complete"
  /\ set' = [status |-> "FINALIZED", completeness |-> finalizer.completeness]
  /\ finalizer' = NotFinalizing
  /\ UNCHANGED <<plan, generated, artifact, underway, validations, deployVars>>

Rollback ==
  /\ set.status = "FINALIZED"
  /\ set' = [set EXCEPT !.status = "ROLLED_BACK"]
  /\ underway' = {i \in DOMAIN runs : runs[i].status # "QUEUED"}
  /\ UNCHANGED <<plan, generated, artifact, finalizer, validations, deployVars>>

FinalizerDies ==
  /\ finalizer.pc # "idle"
  /\ finalizer' = NotFinalizing
  /\ UNCHANGED <<plan, set, generated, artifact, underway, validations, deployVars>>

-----------------------------------------------------------------------------
(* Validations: one for a revision and its hash, while the image stays      *)

validation(status, outcome, tested) == [status |-> status, outcome |-> outcome, tested |-> tested]

RequestValidation(r) ==
  /\ Exists(r) /\ r \in Tested
  /\ validations[r] # None => validations[r].status = "FAILED"
  /\ validations' = [validations EXCEPT ![r] = validation("QUEUED", None, None)]
  /\ UNCHANGED <<plan, finalizeVars, deployVars>>

\* The files are copied and, when they are not the revision's, refused.
StartValidation(r) ==
  /\ validations[r] # None /\ validations[r].status = "QUEUED"
  /\ validations' = [validations EXCEPT ![r] =
       IF materialize(r) = contentHash(r)
       THEN validation("RUNNING", None, materialize(r)) ELSE validation("FAILED", None, None)]
  /\ UNCHANGED <<plan, finalizeVars, deployVars>>

EndValidation(r) ==
  /\ validations[r] # None /\ validations[r].status = "RUNNING"
  /\ \E outcome \in {"PASSED", "FAILED"} :
       validations' = [validations EXCEPT ![r] = validation("COMPLETED", outcome, @.tested)]
  /\ UNCHANGED <<plan, finalizeVars, deployVars>>

\* latestCompleted, with an outcome that lets a revision be deployed.
Passed(r) ==
  /\ validations[r] # None
  /\ validations[r].status = "COMPLETED" /\ validations[r].outcome = "PASSED"

-----------------------------------------------------------------------------
(* evaluateEligibility                                                     *)

\* The validation is of this revision and passed, the plan leaves nothing to a person, and the
\* change set's row is read for a generated revision only.
evaluateEligibility(r, p) ==
  /\ r = "GENERATED" => generated.completeness # "PARTIAL"
  /\ Passed(r)
  /\ p.pending = 0
  /\ IF r = "ORIGINAL" THEN p.safe = 0 /\ p.outcome = "READY_TO_APPLY"
     ELSE p.safe > 0 => set.status = "FINALIZED" /\ set.completeness = "COMPLETE"

-----------------------------------------------------------------------------
(* A prepare request                                                       *)

At(c, pc)   == client[c].pc = pc
Answer(c)   == client' = [client EXCEPT ![c] = Idle]
NotRequest  == <<plan, finalizeVars, validations, candidates, worker, keys, launched>>

\* The revision, its last validation, the set and the plan are read: the plan of the change
\* set, or whichever the body names; chosen is the candidate that it names, "pending" or any row,
\* and nothing says that it is of this revision.
Ask(c, r, p) ==
  /\ At(c, "idle")
  /\ Exists(r)
  /\ evaluateEligibility(r, p)
  /\ \E chosen \in {Unnamed, None} \cup candidates :
       client' = [client EXCEPT ![c] =
         [pc |-> "look", revision |-> r, candidate |-> chosen, plan |-> p]]
  /\ UNCHANGED <<NotRequest, runs, jobs>>

Foundry(S) == {x \in S : x.script \in ForFoundry}

\* The only script that is listed is meant; none is, before a first preparation.
Listed(c) == Foundry({x \in candidates : x.revision = client[c].revision})
Meant(c)  == CASE client[c].candidate # Unnamed -> client[c].candidate
               [] Listed(c) = {}                -> None
               [] OTHER                         -> CHOOSE x \in Listed(c) : TRUE

\* buildDeploymentPrepareKey: the candidate, or that there is none yet, is part of the key.
prepareKey(r, x) == [revision |-> r, candidate |-> x]
WithKey(key)     == {i \in DOMAIN runs : runs[i].key = key}

\* A run that is there is the answer, and enqueued once more while it is QUEUED.
Look(c) ==
  LET ambiguous == client[c].candidate = Unnamed /\ Cardinality(Listed(c)) > 1
      found == WithKey(prepareKey(client[c].revision, Meant(c)))
  IN /\ At(c, "look")
     /\ \/ ambiguous /\ Answer(c) /\ UNCHANGED jobs
        \/ /\ ~ambiguous /\ found # {}
           /\ Answer(c)
           /\ jobs' = jobs \cup {<<"prepare", i>> : i \in {j \in found : runs[j].status = "QUEUED"}}
        \/ /\ ~ambiguous /\ found = {} /\ Len(runs) < MaxRuns
           /\ client' = [client EXCEPT ![c].pc = "create", ![c].candidate = Meant(c)]
           /\ UNCHANGED jobs
     /\ UNCHANGED <<NotRequest, runs>>

Asked(c) == prepareKey(client[c].revision, client[c].candidate)

NewRun(c) == [key |-> Asked(c), revision |-> client[c].revision, candidate |-> client[c].candidate,
              plan |-> client[c].plan, status |-> "QUEUED"]

\* Mutant of Create: the key is not unique.
CreateAnyway(c) ==
  /\ At(c, "create")
  /\ Len(runs) < MaxRuns
  /\ runs' = Append(runs, NewRun(c))
  /\ client' = [client EXCEPT ![c].pc = "enqueue"]
  /\ UNCHANGED <<NotRequest, jobs>>

\* The key is unique: the other request's run is the answer.
Create(c) ==
  /\ At(c, "create")
  /\ IF WithKey(Asked(c)) # {} THEN Answer(c) /\ UNCHANGED runs
     ELSE /\ Len(runs) < MaxRuns
          /\ runs' = Append(runs, NewRun(c))
          /\ client' = [client EXCEPT ![c].pc = "enqueue"]
  /\ UNCHANGED <<NotRequest, jobs>>

Enqueue(c) ==
  /\ At(c, "enqueue")
  /\ jobs' = jobs \cup {<<"prepare", i>> : i \in WithKey(Asked(c))}
  /\ Answer(c)
  /\ UNCHANGED <<NotRequest, runs>>

RequestDies(c) ==
  /\ client[c].pc # "idle"
  /\ Answer(c)
  /\ UNCHANGED <<plan, finalizeVars, validations, candidates, runs, jobs, worker, keys, launched>>

-----------------------------------------------------------------------------
(* confirm and cancel                                                      *)

Confirm(i) ==
  /\ runs[i].status = "PREPARED"
  /\ jobs' = jobs \cup {<<"broadcast", i>>}
  /\ UNCHANGED <<NotRequest, client, runs>>

Cancel(i) ==
  /\ runs[i].status \in {"QUEUED", "PREPARING", "PREPARED"}
  /\ runs' = [runs EXCEPT ![i].status = "CANCELLED"]
  /\ UNCHANGED <<NotRequest, client, jobs>>

-----------------------------------------------------------------------------
(* processPrepareDeployment                                                *)

NotWorker == <<plan, finalizeVars, validations, client>>

\* The job is over, with this status in the row.
Done(status) ==
  /\ runs' = [runs EXCEPT ![worker.run].status = status]
  /\ worker' = Resting

\* CHECKING_ELIGIBILITY and PREPARING are one here; a row that is FAILED or FUNDING stays so
\* until the script is found.
Prepared(status) == IF status = "QUEUED" THEN "PREPARING" ELSE status

\* Mutant of StartPrepare: a run was found eligible when it was asked for.
PrepareUnchecked(i) ==
  /\ worker.pc = "idle" /\ <<"prepare", i>> \in jobs
  /\ runs[i].status \in {"QUEUED", "PREPARING", "FUNDING", "FAILED"}
  /\ worker' = [pc |-> "detect", run |-> i]
  /\ runs' = [runs EXCEPT ![i].status = Prepared(@)]
  /\ UNCHANGED <<NotWorker, candidates, jobs, keys, launched>>

\* Whatever the row says, unless it is prepared, sent, completed or cancelled, preparation
\* starts, from the plan that the request named.
StartPrepare(i) ==
  /\ worker.pc = "idle" /\ <<"prepare", i>> \in jobs
  /\ runs[i].status \in {"QUEUED", "PREPARING", "FUNDING", "FAILED"}
  /\ \/ /\ evaluateEligibility(runs[i].revision, runs[i].plan)
        /\ worker' = [pc |-> "detect", run |-> i]
        /\ runs' = [runs EXCEPT ![i].status = Prepared(@)]
        /\ UNCHANGED jobs
     \/ /\ runs' = [runs EXCEPT ![i].status = "FAILED"]   \* or the network does not answer
        /\ jobs' = jobs \ {<<"prepare", i>>}
        /\ UNCHANGED worker
  /\ UNCHANGED <<NotWorker, candidates, keys, launched>>

Detected == {Scripts[n] : n \in DOMAIN Scripts}

\* The rows of a revision once its files have been searched.
Own(r) == [revision : {r}, script : Detected]

\* The row that the run names, when it is one of these, or the first script that is certain.
Selected(i) ==
  IF runs[i].candidate \in Own(runs[i].revision) THEN {runs[i].candidate}
  ELSE LET certain(n) == Scripts[n] \in ForFoundry \cap Certain
           first == {m \in DOMAIN Scripts : certain(m) /\ \A k \in 1 .. m - 1 : ~certain(k)}
       IN {[revision |-> runs[i].revision, script |-> Scripts[n]] : n \in first}

\* Mutant of Matches: the tree is taken for what was finalized.
MatchesAnyway(r, content) == TRUE

\* hashRepositoryTree, asked of a generated revision only.
Matches(r, content) == r = "GENERATED" => content = contentHash(r)

\* The workspace is filled and searched; whatever is found is listed, and a key is issued.
Detect ==
  LET i == worker.run
      r == runs[i].revision
      intact == Matches(r, materialize(r))
  IN /\ worker.pc = "detect"
     /\ candidates' = IF intact THEN candidates \cup Own(r) ELSE candidates
     /\ \/ \E x \in Foundry(Selected(i)) :
             /\ intact
             /\ runs' = [runs EXCEPT ![i].candidate = x, ![i].status = "PREPARING"]
             /\ keys' = keys \cup {i}
             /\ worker' = [worker EXCEPT !.pc = "simulate"]
             /\ UNCHANGED jobs
        \/ /\ intact => Foundry(Selected(i)) = {}
           /\ Done("FAILED") /\ jobs' = jobs \ {<<"prepare", i>>}
           /\ UNCHANGED keys
     /\ UNCHANGED <<NotWorker, launched>>

\* The simulation fails or exceeds the policy, or the run waits for a confirmation.
Simulate ==
  /\ worker.pc = "simulate"
  /\ \E status \in {"PREPARED", "FAILED"} : Done(status)
  /\ jobs' = jobs \ {<<"prepare", worker.run>>}
  /\ UNCHANGED <<NotWorker, candidates, keys, launched>>

-----------------------------------------------------------------------------
(* processBroadcastDeployment, with recovery                               *)

StartBroadcast(i) ==
  /\ worker.pc = "idle" /\ <<"broadcast", i>> \in jobs
  /\ runs[i].status \in {"PREPARED", "FUNDING"}
  /\ \/ /\ i \in keys
        /\ runs' = [runs EXCEPT ![i].status = "FUNDING"]
        /\ worker' = [pc |-> "launch", run |-> i]
        /\ UNCHANGED jobs
     \/ /\ runs' = [runs EXCEPT ![i].status = "FAILED"]   \* no key, or no funds
        /\ jobs' = jobs \ {<<"broadcast", i>>}
        /\ UNCHANGED worker
  /\ UNCHANGED <<NotWorker, candidates, keys, launched>>

Launch ==
  LET i == worker.run
  IN /\ worker.pc = "launch"
     /\ runs' = [runs EXCEPT ![i].status = "BROADCASTING"]
     /\ launched' = launched \cup {[run |-> i, content |-> materialize(runs[i].revision)]}
     /\ worker' = [worker EXCEPT !.pc = "confirm"]
     /\ UNCHANGED <<NotWorker, candidates, jobs, keys>>

EndBroadcast ==
  /\ worker.pc = "confirm"
  /\ \E status \in {"COMPLETED", "FAILED"} : Done(status)
  /\ keys' = keys \ {worker.run}
  /\ jobs' = jobs \ {<<"broadcast", worker.run>>}
  /\ UNCHANGED <<NotWorker, candidates, launched>>

\* A job of a run that has been started, of either queue, is delivered again, and concludes from
\* receipts.
Reconcile(i) ==
  /\ worker.pc = "idle" /\ runs[i].status = "BROADCASTING"
  /\ \E job \in {"prepare", "broadcast"} : <<job, i>> \in jobs /\ jobs' = jobs \ {<<job, i>>}
  /\ \E status \in {"COMPLETED", "FAILED"} : runs' = [runs EXCEPT ![i].status = status]
  /\ UNCHANGED <<NotWorker, candidates, worker, keys, launched>>

NothingToDo(i) ==
  /\ worker.pc = "idle"
  /\ \/ <<"prepare", i>> \in jobs /\ runs[i].status \in {"PREPARED", "COMPLETED", "CANCELLED"}
        /\ jobs' = jobs \ {<<"prepare", i>>}
     \/ <<"broadcast", i>> \in jobs
        /\ runs[i].status \in {"QUEUED", "PREPARING", "COMPLETED", "CANCELLED", "FAILED"}
        /\ jobs' = jobs \ {<<"broadcast", i>>}
  /\ UNCHANGED <<NotWorker, candidates, runs, worker, keys, launched>>

\* The job that was being handled is delivered again, to a worker without keys.
WorkerDies ==
  /\ worker' = Resting
  /\ keys' = {}
  /\ UNCHANGED <<plan, finalizeVars, validations, client, candidates, runs, jobs, launched>>

-----------------------------------------------------------------------------
Finalization == StartFinalize \/ Snapshot \/ CreateRevision \/ CompleteFinalize \/ Rollback
                \/ FinalizerDies

Validating(r) == RequestValidation(r) \/ StartValidation(r) \/ EndValidation(r)

Requesting(c) == \/ \E r \in Revisions, p \in {plan} \cup Others : Ask(c, r, p)
                 \/ Look(c) \/ Create(c) \/ Enqueue(c) \/ RequestDies(c)

Deploying == \/ \E i \in DOMAIN runs : \/ Confirm(i) \/ Cancel(i) \/ StartPrepare(i)
                                       \/ StartBroadcast(i) \/ Reconcile(i) \/ NothingToDo(i)
             \/ Detect \/ Simulate \/ Launch \/ EndBroadcast \/ WorkerDies

Next == Finalization \/ (\E r \in Revisions : Validating(r)) \/ (\E c \in Clients : Requesting(c)) \/ Deploying

Spec == Init /\ [][Next]_releaseVars
=============================================================================
